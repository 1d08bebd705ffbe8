------------------------------ MODULE Playback ------------------------------
(* From the queue of synthesized audio to the caller's ear and back: the loop  *)
(* that hands chunks to the output handler, the handler that sends them with a *)
(* mark before and after each, the provider that plays them and echoes the     *)
(* marks, the input handler that takes the echoes for what the caller has      *)
(* heard, and the interruption that clears all this and cuts the history down  *)
(* to it. The handler of the SIP trunk has no echoes: it sends frames, as fast *)
(* as Asterisk takes them, and settles its marks when the time is over.        *)
EXTENDS Naturals, Sequences, FiniteSets, SequencesExt

CONSTANTS Handlers,      \* kinds of output handler, one of which the call has
          Frames,        \* frames of a chunk on the SIP trunk
          MaxResponses,  \* bound: responses
          MaxChunks,     \* bound: chunks of the first response
          MaxLater,      \* bound: chunks of a later one
          MaxQueue,      \* bound: chunks that wait for the output loop
          MaxCuts,       \* bound: interruptions and questions whether the caller is there
          MaxDrains,     \* bound: drain_local_queue() tasks at one time
          MaxXoffs       \* bound: times Asterisk stops the audio

AllHandlers == {"web", "telephony", "sip"}
ASSUME HandlersAssumption == Handlers \subseteq AllHandlers /\ Handlers # {}
ASSUME BoundsAssumption ==
  /\ Frames \in Nat \ {0} /\ MaxResponses \in Nat \ {0} /\ MaxChunks \in Nat \ {0}
  /\ MaxLater \in 1..MaxChunks /\ MaxQueue \in Nat \ {0}
  /\ MaxCuts \in Nat /\ MaxDrains \in Nat /\ MaxXoffs \in Nat

Responses == 1..MaxResponses
Chunks == Responses \X (1..MaxChunks)

VARIABLES
  handler,
  turns,     \* turn_id of the responses so far
  count,     \* chunks synthesized for the newest of them
  done,      \* its last one is among them
  valid,     \* sequence_ids that may be sent
  history,   \* of a response: nothing, its full text, or the text it was cut to
  queue,     \* buffered_output_queue
  loop,      \* the output loop: what handle() has done with the chunk it has
  marks,     \* mark_event_meta_data, oldest first
  cleared,   \* previous_mark_event_meta_data, until the history is synchronized
  playing,   \* _is_audio_being_played_to_user
  heard,     \* the text heard, by response and turn, of the input handler
  everHeard, \* the same of MarkEventMetaData, which is never reset
  cut,       \* how far an interruption is
  cuts,      \* interruptions so far
  line,      \* sent to the provider and not yet played
  echoes,    \* marks on their way back
  played,    \* ghost: what the caller has heard
  skipped,   \* ghost: chunks cleared whose mark was echoed for that, or sent after it,
             \* or forgotten for the question whether the caller is there
  late,      \* ghost: a chunk was taken, sent or begun during an interruption, or an
             \* old drain of the SIP trunk dropped audio or the end to come
  trunk      \* the SIP trunk's handler

answerVars == <<turns, count, done>>
heardVars == <<playing, heard, everHeard>>
wireVars == <<line, echoes, played, skipped>>
vars == <<handler, answerVars, valid, history, queue, loop, marks, cleared, heardVars, cut, cuts,
          wireVars, late, trunk>>

(* The elements of s that are in S, in their order. *)
Those(s, S) ==
  LET upTo[n \in 0..Len(s)] ==
        IF n = 0 THEN <<>> ELSE IF s[n] \in S THEN Append(upTo[n - 1], s[n]) ELSE upTo[n - 1]
  IN upTo[Len(s)]

Kinds == {"pre", "audio", "last", "end"}
AllMarks == [of : Chunks, kind : Kinds]
Texted == [of : Chunks, kind : {"audio", "last"}]

Idle == [pc |-> "idle", of |-> <<0, 0>>, kind |-> "audio", frame |-> 0, gen |-> 0]
NoTrunk == [full |-> FALSE, local |-> <<>>, buffering |-> FALSE, finish |-> FALSE, settle |-> FALSE,
            stale |-> FALSE, seq |-> 0, gen |-> 0, drains |-> {}, offs |-> 0]
Nothing == [state |-> "none", text |-> <<>>]

Newest == Len(turns)
Sip == handler = "sip"

(* Only the marks of the telephone say what they are of, so only there does    *)
(* an interruption find what to cut; of the other handlers neither the history *)
(* is followed, nor what decides it.                                           *)
Tracked == handler = "telephony"

Init ==
  /\ handler \in Handlers
  /\ turns = <<>> /\ count = 0 /\ done = TRUE /\ valid = {}
  /\ history = [r \in Responses |-> Nothing]
  /\ queue = <<>> /\ loop = Idle /\ marks = <<>> /\ cleared = <<>>
  /\ playing = FALSE /\ heard = <<>> /\ everHeard = <<>>
  /\ cut = "no" /\ cuts = 0
  /\ line = <<>> /\ echoes = <<>> /\ played = <<>> /\ skipped = {} /\ late = FALSE
  /\ trunk = NoTrunk

-----------------------------------------------------------------------------
(* Answers. A response begins a turn, or follows another in one: a filler and  *)
(* the answer, a call and what is said of its result.                          *)
Respond ==
  /\ Newest < MaxResponses /\ (done \/ Newest \notin valid)
  /\ \/ (cut = "no" \/ ~Tracked) /\ turns' = Append(turns, Newest + 1)
     \/ Tracked /\ Newest > 0 /\ turns' = Append(turns, Last(turns))
  /\ count' = 0 /\ done' = FALSE
  /\ valid' = valid \union {Newest + 1}
  /\ UNCHANGED <<handler, history, queue, loop, marks, cleared, heardVars, cut, cuts, wireVars,
                 late, trunk>>

(* Audio of the newest response: the last is marked, or followed by a null     *)
(* byte that is.                                                               *)
Length == IF Newest = 1 THEN MaxChunks ELSE MaxLater
Synthesize ==
  /\ Newest > 0 /\ ~done /\ count < Length /\ Len(queue) < MaxQueue
  /\ \E kind \in {"audio", "last", "end"} :
       /\ kind = "audio" => count + 1 < Length
       /\ queue' = Append(queue, [of |-> <<Newest, count + 1>>, kind |-> kind])
       /\ count' = count + 1 /\ done' = (kind # "audio")
  /\ UNCHANGED <<handler, turns, valid, history, loop, marks, cleared, heardVars, cut, cuts, wireVars, late, trunk>>

-----------------------------------------------------------------------------
(* Sending, on a connection that lasts: a send that fails closes the handler,  *)
(* and the call ends.                                                          *)

Mark(of, kind) == [of |-> of, kind |-> kind]
Media(of, frame) == [of |-> of, kind |-> "media", frame |-> frame]

(* The mark before the audio of chunk c. *)
SendPre(c) ==
  LET m == Mark(c.of, "pre") IN
  /\ marks' = Append(marks, m)
  /\ line' = Append(line, m)
  /\ loop' = [Idle EXCEPT !.pc = "pre", !.of = c.of, !.kind = c.kind]

MarkFirst ==   \* mutant
  /\ loop.pc = "pre"
  /\ LET m == Mark(loop.of, loop.kind) IN
     marks' = Append(marks, m) /\ line' = line \o <<m, Media(loop.of, 1)>>
  /\ loop' = Idle
  /\ UNCHANGED <<handler, answerVars, valid, history, queue, cleared, heardVars, cut, cuts, echoes,
                 played, skipped, late, trunk>>

SendMedia ==
  /\ loop.pc = "pre"
  /\ line' = Append(line, Media(loop.of, 1))
  /\ loop' = [loop EXCEPT !.pc = "media"]
  /\ late' = (late \/ cut # "no")
  /\ UNCHANGED <<handler, answerVars, valid, history, queue, marks, cleared, heardVars, cut, cuts, echoes, played, skipped, trunk>>

(* The mark after it, registered and sent. *)
Post(of, kind) ==
  LET m == Mark(of, kind) IN
  /\ marks' = Append(marks, m)
  /\ line' = Append(line, m)
  /\ loop' = Idle

SendPost ==
  /\ loop.pc = "media"
  /\ Post(loop.of, loop.kind)
  /\ UNCHANGED <<handler, answerVars, valid, history, queue, cleared, heardVars, cut, cuts, echoes,
                 played, skipped, late, trunk>>

(* handle() up to its first wait. On the telephone a null byte has a mark and  *)
(* no audio.                                                                   *)
Handle(c) ==
  \/ handler = "telephony" /\ c.kind = "end" /\ Post(c.of, c.kind)
  \/ (handler = "web" \/ c.kind # "end") /\ SendPre(c)

-----------------------------------------------------------------------------
(* The SIP trunk. *)

Register(c) == marks' = Append(marks, Mark(c.of, c.kind))

(* The end of the playback is scheduled, unless audio waits for Asterisk. A    *)
(* task scheduled for an earlier generation will do nothing.                   *)
Finishes(t, local, gen) ==
  IF local # <<>> THEN [t EXCEPT !.finish = TRUE]
  ELSE [t EXCEPT !.finish = FALSE, !.settle = TRUE, !.stale = (gen # t.gen)]

After(c, t, gen) == IF c.kind = "audio" THEN t ELSE Finishes(t, t.local, gen)

(* Frames of one chunk that are still to be sent, born in one generation.      *)
Rest(of, frame, gen) == [of |-> of, frame |-> frame, gen |-> gen]

(* Another response: what was measured of the last one is forgotten. *)
NewSequence(t, c) ==
  IF c.of[1] = t.seq THEN t
  ELSE [t EXCEPT !.seq = c.of[1], !.finish = FALSE, !.settle = FALSE, !.stale = FALSE]

Frame(of, frame, gen) == [of |-> of, kind |-> "media", frame |-> frame, gen |-> gen]
SendFrame(of, frame, gen) == line' = Append(line, Frame(of, frame, gen))

(* Audio that finds Asterisk full, or audio before it, is kept. *)
MustQueue(t) == t.full \/ t.local # <<>>

(* From the check of the generation on. *)
SendAudio(c, gen, t) ==
  IF gen # t.gen
  THEN loop' = Idle /\ trunk' = t /\ UNCHANGED <<marks, line>>
  ELSE IF MustQueue(t)
  THEN /\ Register(c) /\ loop' = Idle /\ UNCHANGED line
       /\ trunk' = After(c, [t EXCEPT !.local = Append(@, Rest(c.of, 1, gen))], gen)
  ELSE /\ SendFrame(c.of, 1, gen)
       /\ loop' = [pc |-> "sending", of |-> c.of, kind |-> c.kind, frame |-> 1, gen |-> gen]
       /\ trunk' = t /\ UNCHANGED marks

TrunkHandle(c) ==
  IF c.kind = "end"
  THEN /\ Register(c) /\ loop' = Idle /\ UNCHANGED line
       /\ trunk' = After(c, trunk, trunk.gen)
  ELSE LET t == NewSequence(trunk, c) IN
       IF ~t.buffering
       THEN /\ loop' = [pc |-> "buffering", of |-> c.of, kind |-> c.kind, frame |-> 0, gen |-> t.gen]
            /\ trunk' = t /\ UNCHANGED <<marks, line>>
       ELSE SendAudio(c, t.gen, t)

(* START_MEDIA_BUFFERING has been sent. *)
Buffered ==
  /\ loop.pc = "buffering"
  /\ SendAudio([of |-> loop.of, kind |-> loop.kind], loop.gen, [trunk EXCEPT !.buffering = TRUE])
  /\ UNCHANGED <<handler, answerVars, valid, history, queue, cleared, heardVars, cut, cuts, echoes, played, skipped, late>>

EndsLate(frame) == frame > Frames   \* mutant
Ends(frame) == frame = Frames

(* A frame was sent and the rate kept: the next one is sent, unless Asterisk   *)
(* is full or the audio has been flushed; after the last one the mark is made. *)
SendOn ==
  /\ loop.pc = "sending"
  /\ LET c == [of |-> loop.of, kind |-> loop.kind] IN
     \/ /\ Ends(loop.frame)
        /\ Register(c) /\ loop' = Idle
        /\ trunk' = After(c, trunk, loop.gen) /\ UNCHANGED line
     \/ /\ ~Ends(loop.frame) /\ loop.gen # trunk.gen
        /\ loop' = Idle /\ UNCHANGED <<marks, line, trunk>>
     \/ /\ ~Ends(loop.frame) /\ loop.gen = trunk.gen /\ trunk.full
        /\ Register(c) /\ loop' = Idle /\ UNCHANGED line
        /\ trunk' = After(c, [trunk EXCEPT !.local = <<Rest(loop.of, loop.frame + 1, loop.gen)>> \o @],
                          loop.gen)
     \/ /\ ~Ends(loop.frame) /\ loop.gen = trunk.gen /\ ~trunk.full
        /\ SendFrame(loop.of, loop.frame + 1, loop.gen)
        /\ loop' = [loop EXCEPT !.frame = @ + 1]
        /\ UNCHANGED <<marks, trunk>>
  /\ UNCHANGED <<handler, answerVars, valid, history, queue, cleared, heardVars, cut, cuts, echoes, played, skipped, late>>

TrunkOnly == UNCHANGED <<handler, answerVars, valid, history, queue, loop, marks, cleared, heardVars, cut,
                         cuts, echoes, played, skipped>>

Xoff ==
  /\ Sip /\ ~trunk.full /\ trunk.offs < MaxXoffs
  /\ trunk' = [trunk EXCEPT !.full = TRUE, !.offs = @ + 1]
  /\ TrunkOnly /\ UNCHANGED <<line, late>>

(* Asterisk takes audio again: a task sends what was kept. Its end, when       *)
(* nothing is left, schedules the end of the playback. A task that finds the   *)
(* audio flushed forgets what is kept, whatever that is by then.               *)
Drained(t) == IF t.local = <<>> /\ t.finish THEN Finishes(t, <<>>, t.gen) ELSE t

NeverFlushed(gen) == FALSE   \* mutant
Flushed(gen) == gen # trunk.gen

GiveUp(t, others) ==
  /\ trunk' = [t EXCEPT !.drains = others, !.local = <<>>, !.finish = FALSE]
  /\ late' = (late \/ t.local # <<>> \/ t.finish)
  /\ UNCHANGED line

SendRest(t, others, rest, gen) ==
  /\ SendFrame(rest.of, rest.frame, rest.gen)
  /\ trunk' = [t EXCEPT !.drains = others \union {[rest |-> rest, gen |-> gen]}]
  /\ UNCHANGED late

NextChunk(t, others, gen) ==
  IF t.local = <<>> \/ t.full
  THEN trunk' = Drained([t EXCEPT !.drains = others]) /\ UNCHANGED <<line, late>>
  ELSE IF Flushed(gen) THEN GiveUp(t, others)
  ELSE SendRest([t EXCEPT !.local = Tail(@)], others, Head(t.local), gen)

Xon ==
  /\ trunk.full /\ Cardinality(trunk.drains) < MaxDrains
  /\ NextChunk([trunk EXCEPT !.full = FALSE], trunk.drains, trunk.gen)
  /\ TrunkOnly

Following(rest) == [rest EXCEPT !.frame = @ + 1]

Drain ==
  /\ \E d \in trunk.drains :
       LET others == trunk.drains \ {d} IN
       \/ Ends(d.rest.frame) /\ NextChunk(trunk, others, d.gen)
       \/ ~Ends(d.rest.frame) /\ Flushed(d.gen) /\ GiveUp(trunk, others)
       \/ /\ ~Ends(d.rest.frame) /\ ~Flushed(d.gen) /\ trunk.full
          /\ trunk' = [trunk EXCEPT !.drains = others, !.local = <<Following(d.rest)>> \o @]
          /\ UNCHANGED <<line, late>>
       \/ /\ ~Ends(d.rest.frame) /\ ~Flushed(d.gen) /\ ~trunk.full
          /\ SendRest(trunk, others, Following(d.rest), d.gen)
  /\ TrunkOnly

-----------------------------------------------------------------------------
(* The output loop takes a chunk: its response may be heard, and its text, if  *)
(* the LLM has ended, comes into the history; or it has been revoked, and then *)
(* only the null byte is sent, for its mark.                                   *)
Sends(c) ==
  \/ Sip /\ TrunkHandle(c)
  \/ ~Sip /\ Handle(c) /\ UNCHANGED trunk

Take ==
  /\ loop.pc = "idle" /\ queue # <<>>
  /\ queue' = Tail(queue)
  /\ LET c == Head(queue)
         r == c.of[1]
     IN \/ /\ r \in valid
           /\ \/ Tracked /\ history[r].state = "none" /\ history' = [history EXCEPT ![r].state = "full"]
              \/ UNCHANGED history
           /\ playing' = TRUE
           /\ Sends(c)
        \/ /\ r \notin valid
           /\ UNCHANGED <<history, playing>>
           /\ \/ c.kind = "end" /\ Sends(c)
              \/ c.kind # "end" /\ UNCHANGED <<loop, marks, line, trunk>>
  /\ late' = (late \/ cut # "no")
  /\ UNCHANGED <<handler, answerVars, valid, cleared, heard, everHeard, cut, cuts, echoes, played,
                 skipped>>

-----------------------------------------------------------------------------
(* The provider plays what it was sent, and echoes the marks as it comes to    *)
(* them.                                                                       *)
IsMark(item) == item.kind # "media"

Play ==
  /\ line # <<>> /\ line' = Tail(line)
  /\ IF IsMark(Head(line))
     THEN echoes' = Append(echoes, Head(line)) /\ UNCHANGED played
     ELSE played' = Append(played, <<Head(line).of, Head(line).frame>>) /\ UNCHANGED echoes
  /\ UNCHANGED <<handler, answerVars, valid, history, queue, loop, marks, cleared, heardVars, cut, cuts,
                 skipped, late, trunk>>

(* process_mark_message(): an echoed mark is looked up; the one before a chunk *)
(* says that it begins to play, the one after it that its text was heard, and  *)
(* the last of a response that the agent is silent. Unknown ones are ignored.  *)
HasText(m) == m.kind \in {"audio", "last"}
Texts(ms) == LET texted == Those(ms, Texted) IN [i \in DOMAIN texted |-> texted[i].of]
Without(ms, m) == Those(ms, AllMarks \ {m})

Hears(ms) ==
  /\ heard' = IF Tracked THEN heard \o Texts(ms) ELSE heard
  /\ everHeard' = IF Sip THEN everHeard ELSE everHeard \o Texts(ms)

Begins(m) == m.kind = "pre"

EndsAnswerLast(m) == m.kind = "last"   \* mutant
EndsAnswer(m) == m.kind \in {"last", "end"}

Echo ==
  /\ echoes # <<>> /\ echoes' = Tail(echoes)
  /\ LET m == Head(echoes) IN
     \/ /\ Contains(marks, m)
        /\ marks' = Without(marks, m)
        /\ Hears(<<m>>)
        /\ playing' = IF EndsAnswer(m) THEN FALSE ELSE (playing \/ Begins(m))
        /\ late' = (late \/ (m.kind = "pre" /\ cut # "no"))
     \/ ~Contains(marks, m) /\ UNCHANGED <<marks, heardVars, late>>
  /\ UNCHANGED <<handler, answerVars, valid, history, queue, loop, cleared, cut, cuts, line,
                 played, skipped, trunk>>

(* The time of the SIP trunk's audio is over: all its marks count as echoed.   *)
Settle ==
  /\ trunk.settle /\ line = <<>>
  /\ trunk' = [trunk EXCEPT !.settle = FALSE, !.stale = FALSE]
  /\ \/ trunk.stale /\ UNCHANGED <<marks, heardVars>>
     \/ ~trunk.stale /\ marks' = <<>> /\ playing' = FALSE /\ Hears(marks)
  /\ UNCHANGED <<handler, answerVars, valid, history, queue, loop, cleared, cut, cuts, wireVars, late>>

-----------------------------------------------------------------------------
(* handle_interruption() of the output handler, up to its wait: "clear" is     *)
(* sent. The provider may echo the marks it drops.                             *)
Clear ==
  \/ /\ ~Sip
     /\ line' = <<>>
     /\ LET dropped == Those(line, AllMarks)
            sent == IF loop.pc = "media" THEN {loop.of} ELSE {}
        IN \/ /\ echoes' = echoes \o dropped
              /\ skipped' = skipped \union sent \union {dropped[i].of : i \in DOMAIN dropped}
           \/ echoes' = echoes /\ skipped' = skipped \union sent
     /\ UNCHANGED trunk
  \/ /\ Sip
     /\ trunk' = [trunk EXCEPT !.gen = @ + 1, !.finish = FALSE, !.settle = FALSE, !.stale = FALSE,
                               !.seq = 0, !.local = <<>>]
     /\ line' = <<>> /\ UNCHANGED <<echoes, skipped>>

(* The caller interrupts; or is silent, and is asked whether they are there,   *)
(* when whatever was sent before is cleared too.                               *)
Interrupt ==
  /\ cut = "no" /\ cuts < MaxCuts /\ cuts' = cuts + 1
  /\ playing' = FALSE
  /\ Clear /\ cut' = "clearing"
  /\ UNCHANGED <<handler, answerVars, valid, history, queue, loop, marks, cleared, heard, everHeard, played, late>>

AskIfThere ==
  /\ cut = "no" /\ cuts < MaxCuts /\ cuts' = cuts + 1 /\ ~playing
  /\ heard' = <<>>
  /\ Clear /\ cut' = "asking"
  /\ UNCHANGED <<handler, answerVars, valid, history, queue, loop, marks, cleared, playing, everHeard,
                 played, late>>

(* After the wait the marks are forgotten; only sync_history() looks at them.  *)
ClearData ==
  /\ cut \in {"clearing", "asking"}
  /\ cut' = IF cut = "clearing" THEN "syncing" ELSE "no"
  /\ cleared' = (IF cut = "clearing" THEN marks ELSE <<>>) /\ marks' = <<>>
  /\ playing' = IF Sip THEN FALSE ELSE playing
  /\ trunk' = IF Sip THEN [trunk EXCEPT !.buffering = FALSE] ELSE trunk
  /\ skipped' = skipped \union (IF cut = "asking" THEN {m.of : m \in Range(marks)} ELSE {})
  /\ UNCHANGED <<handler, answerVars, valid, history, queue, loop, heard, everHeard, cuts, line,
                 echoes, played, late>>

-----------------------------------------------------------------------------
(* sync_history(): the history is cut to what was heard of the last response   *)
(* that has marks, or else was heard, or else is in the history.               *)
InHistory(r) == history[r].state \in {"full", "cut"}
Latest == CHOOSE r \in 0..Newest : /\ r > 0 => InHistory(r)
                                   /\ \A q \in (r + 1)..Newest : ~InHistory(q)
Evidence == cleared # <<>> \/ heard # <<>>
Target == IF cleared # <<>> THEN Last(cleared).of[1]
          ELSE IF heard # <<>> THEN Last(heard)[1] ELSE Latest

(* The text heard: of the response, or of any of its turn; by the memory of    *)
(* the input handler, which is reset, or by that of the marks, which is not.   *)
SameTurn(r) == {q \in 1..Newest : turns[q] = turns[r]}
OfResponse(h, r) == Those(h, {r} \X (1..MaxChunks))
OfTurn(h, r) == Those(h, SameTurn(r) \X (1..MaxChunks))
Or(h, else) == IF h # <<>> THEN h ELSE else
HeardOf(r) == Or(OfResponse(heard, r), Or(OfTurn(heard, r),
                Or(OfResponse(everHeard, r), OfTurn(everHeard, r))))

(* Nothing: the time since the first chunk was sent tells how much of those    *)
(* that were cleared has been heard.                                           *)
PendingAny(r) == Texts(cleared)   \* mutant
Pending(r) == OfTurn(Texts(cleared), r)

HeardTexts(r) == IF HeardOf(r) # <<>> THEN {HeardOf(r)} ELSE Prefixes(Pending(r))

(* Without text, the message goes, and what follows it in its turn.            *)
CutTo(r, text) ==
  [q \in Responses |->
     IF text # <<>> /\ q = r THEN [state |-> "cut", text |-> text]
     ELSE IF text = <<>> /\ InHistory(r) /\ q \in r..Newest /\ turns[q] = turns[r] /\ InHistory(q)
     THEN Nothing
     ELSE history[q]]

MayCut(r) == Tracked /\ r # 0

Sync ==
  /\ cut = "syncing" /\ cut' = "flushing"
  /\ \/ /\ MayCut(Target)
        /\ \E text \in HeardTexts(Target) :
             history' = IF text = <<>> /\ ~Evidence THEN history ELSE CutTo(Target, text)
     \/ ~MayCut(Target) /\ UNCHANGED history
  /\ heard' = <<>> /\ cleared' = <<>>
  /\ valid' = {}
  /\ UNCHANGED <<handler, answerVars, queue, loop, marks, playing, everHeard, cuts, wireVars, late,
                 trunk>>

(* The output loop is cancelled, wherever it is, and begins anew.              *)
Restart ==
  /\ cut = "flushing" /\ cut' = "no"
  /\ loop' = Idle /\ queue' = <<>>
  /\ UNCHANGED <<handler, answerVars, valid, history, marks, cleared, heardVars, cuts, wireVars,
                 late, trunk>>

Next ==
  \/ Respond \/ Synthesize \/ Take \/ SendMedia \/ SendPost \/ Buffered \/ SendOn
  \/ Xoff \/ Xon \/ Drain \/ Play \/ Echo \/ Settle
  \/ Interrupt \/ AskIfThere \/ ClearData \/ Sync \/ Restart

Spec == Init /\ [][Next]_vars

-----------------------------------------------------------------------------
FrameType == [of : Chunks, kind : {"media"}, frame : 1..Frames, gen : 0..MaxCuts]
RestType == [of : Chunks, frame : 1..Frames, gen : 0..MaxCuts]

(* Every variable has its type. *)
TypeOK ==
  /\ handler \in AllHandlers
  /\ turns \in Seq(Responses) /\ count \in 0..MaxChunks /\ done \in BOOLEAN
  /\ valid \subseteq 1..Newest
  /\ \A r \in Responses : history[r].state \in {"none", "full", "cut"}
                          /\ history[r].text \in Seq(Chunks)
  /\ queue \in Seq([of : Chunks, kind : {"audio", "last", "end"}])
  /\ loop.pc \in {"idle", "pre", "media", "buffering", "sending"} /\ loop.frame \in 0..Frames
  /\ marks \in Seq(AllMarks) /\ cleared \in Seq(AllMarks)
  /\ heard \in Seq(Chunks) /\ everHeard \in Seq(Chunks)
  /\ cut \in {"no", "clearing", "asking", "syncing", "flushing"}
  /\ Sip => line \in Seq(FrameType)
  /\ trunk.gen \in 0..MaxCuts /\ trunk.local \in Seq(RestType)
  /\ \A d \in trunk.drains : d.rest \in RestType

(* What counts as heard was played to its end, unless its mark came back       *)
(* because it was cleared or was sent after the clearing: the time estimate of *)
(* the SIP trunk aside.                                                        *)
HeardWasPlayed ==
  ~Sip => Range(everHeard) \subseteq {p[1] : p \in Range(played)} \union skipped

(* If each turn has one response, the history never has text of another        *)
(* response in the place of a response's, nor out of its order; nor does it    *)
(* lack text before some it has, if no chunk was taken or sent during an       *)
(* interruption and none of the response was cleared between its audio and its *)
(* mark, or forgotten for a question.                                          *)
Ordered(r, text) ==
  /\ \A i \in DOMAIN text : text[i][1] = r
  /\ \A i, j \in DOMAIN text : i < j => text[i][2] < text[j][2]
Complete(r, text) == \A i \in DOMAIN text : text[i] = <<r, i>>
HistoryInOrder ==
  \A r \in Responses :
    history[r].state = "cut" /\ IsInjective(turns) =>
      /\ Ordered(r, history[r].text)
      /\ ~late /\ r \notin {of[1] : of \in skipped} => Complete(r, history[r].text)

(* As long as the audio before a mark is still to be played, and nothing has   *)
(* been interrupted, the agent counts as speaking.                             *)
SpeaksWhileHeard ==
  cuts = 0 /\ ~Sip =>
    \A i \in DOMAIN marks :
      (HasText(marks[i]) /\ ~Contains(marks, Mark(marks[i].of, "pre"))) => playing

(* When everything has been played or cleared, and no more is to come, the     *)
(* agent counts as silent, if no chunk was taken, sent or begun to be played   *)
(* during an interruption and no drain of the SIP trunk survived one.          *)
Quiet == /\ queue = <<>> /\ loop.pc = "idle" /\ line = <<>> /\ echoes = <<>> /\ cut = "no"
         /\ (Newest > 0 => done \/ Newest \notin valid)
         /\ ~trunk.settle /\ trunk.local = <<>> /\ trunk.drains = {}
SilenceKnown == Quiet /\ ~late => ~playing

(* The flag by which the agent counts as speaking follows what is heard. *)
PlayingKnown == SpeaksWhileHeard /\ SilenceKnown

(* Nothing that was taken before an interruption reaches Asterisk after it.    *)
FlushedSilent == Sip => \A i \in DOMAIN line : line[i].gen = trunk.gen

(* Frames reach Asterisk in the order of the audio.                            *)
Before(a, b) == a[1][1] < b[1][1] \/ (a[1][1] = b[1][1] /\ (a[1][2] < b[1][2]
                  \/ (a[1][2] = b[1][2] /\ a[2] < b[2])))
InOrder == \A i, j \in DOMAIN played : i < j => Before(played[i], played[j])

=============================================================================
