---------------------------- MODULE Synthesizers ----------------------------
(* The synthesizers of src/bolna/synthesizer.  The LLM task pushes the texts   *)
(* of an answer; audio comes back and is given to the listener with the meta   *)
(* information of a text, whose sequence id decides whether it is heard.       *)
(*                                                                             *)
(* A streaming synthesizer starts one sender task per text, appends the text's *)
(* meta information to text_queue, and its receiver takes the next meta        *)
(* information for whatever the provider sends next: the two are matched by    *)
(* position.  The end of an answer is the item b"\x00", and the packet that    *)
(* carries it and the last text's meta information is the final one, on which  *)
(* the marks, the hangup and the pipeline flag depend.  An HTTP synthesizer    *)
(* works through its queue one text at a time.                                 *)
(*                                                                             *)
(* The provider is chosen in Init: "http" stands for Polly, OpenAI and the     *)
(* HTTP mode of the others, "azure" for the SDK with its callbacks.            *)
EXTENDS Naturals, Sequences, FiniteSets, SequencesExt

CONSTANTS Providers,   \* the providers a run covers
          MaxSeq,      \* bound: answers
          MaxTexts,    \* bound: texts of an answer
          MaxAudio,    \* bound: audio messages for a text
          MaxDrops,    \* bound: connections that break
          MaxUpsets    \* bound: kinds of upsets in one behaviour, see disturbed

Streaming == {"elevenlabs", "cartesia", "deepgram", "pixa", "rime", "sarvam", "smallest"}
ASSUME ProvidersAssumption == Providers \subseteq Streaming \union {"http", "azure"}
ASSUME BoundsAssumption ==
  MaxSeq \in Nat /\ MaxTexts \in Nat \ {0} /\ MaxAudio \in Nat \ {0} /\ MaxDrops \in Nat
  /\ MaxUpsets \in Nat

VARIABLES
  provider,
  valid,      \* answers that may be heard
  seq,        \* the answer the LLM works at
  pushed,     \* texts it has pushed
  complete,   \* answers whose last text was pushed
  queue,      \* text_queue, or internal_queue of an HTTP synthesizer
  meta,       \* self.meta_info
  senders,    \* sender tasks that have not sent: new, or polling in _wait_for_ws
  context,    \* context_id (0: None)
  contexts,   \* context ids made so far
  ignored,    \* context_ids_to_ignore
  lastSent,   \* last_text_sent
  up,         \* the websocket is open
  failures,   \* consecutive_failures of monitor_connection
  error,      \* connection_error
  incoming,   \* the provider's answer to what was sent, not yet received
  yielding,   \* items the receiver still yields for the message it has received
  fetching,   \* HTTP and azure: the text in the provider's hands
  done,       \* azure: done_event
  packet,     \* the last packet given to the listener
  finished,   \* answers whose final packet was heard
  ended,      \* the call has ended on a SynthesizerError
  drops,
  disturbed   \* what has upset the order the matching relies on

answers == <<provider, valid, seq, pushed, complete>>
sending == <<senders, context, contexts, ignored, lastSent>>
link    == <<up, failures, error, drops>>
given   == <<packet, finished>>
vars == <<answers, queue, meta, sending, link, incoming, yielding, fetching, done,
          given, ended, disturbed>>

Seqs == 1..MaxSeq
NoMeta == [seq |-> 0, last |-> FALSE, end |-> FALSE]
NoPacket == [kind |-> "none", of |-> 0, seq |-> 0, heard |-> FALSE]
Buffering == {"cartesia", "pixa", "deepgram"}     \* it may join short texts

Init ==
  /\ provider \in Providers
  /\ valid = {} /\ seq = 0 /\ pushed = 0 /\ complete = {}
  /\ queue = <<>> /\ meta = NoMeta
  /\ senders = <<>> /\ context = 0 /\ contexts = 0 /\ ignored = {} /\ lastSent = FALSE
  /\ up = FALSE /\ failures = 0 /\ error = FALSE /\ drops = 0
  /\ incoming = <<>> /\ yielding = <<>>
  /\ fetching = NoMeta /\ done = FALSE
  /\ packet = NoPacket /\ finished = {} /\ ended = FALSE /\ disturbed = {}

Has(s, list) == \E i \in DOMAIN list : list[i].seq = s
HasAudio(s, list) == \E i \in DOMAIN list : list[i].seq = s /\ list[i].kind = "audio"
AudioLeft(s) ==
  \/ Has(s, senders) \/ HasAudio(s, incoming) \/ HasAudio(s, yielding)
  \/ (provider \notin Streaming /\ (Has(s, queue) \/ (fetching.seq = s /\ ~(done /\ incoming = <<>>))))
Busy(s) == AudioLeft(s) \/ Has(s, incoming) \/ Has(s, yielding)
Bounded == Cardinality(disturbed') <= MaxUpsets
Disturb(flag, condition) ==
  disturbed' = disturbed \union (IF condition THEN {flag} ELSE {}) /\ Bounded

-----------------------------------------------------------------------------
(* The LLM task and the interruptions. *)

(* The next answer: a new turn, or the follow-up of a tool call in this one. *)
Respond ==
  /\ ~ended /\ seq < MaxSeq /\ (seq = 0 \/ seq \in complete \/ seq \notin valid)
  /\ seq' = seq + 1 /\ valid' = valid \union {seq + 1} /\ pushed' = 0
  /\ UNCHANGED <<provider, complete, queue, meta, sending, link, incoming, yielding,
                 fetching, done, given, ended, disturbed>>

(* _on_push(): cartesia makes a context for each answer, pixa when it has none. *)
FreshContext ==
  \/ provider = "cartesia" /\ (context = 0 \/ pushed = 0)
  \/ provider \in {"pixa", "rime"} /\ context = 0

(* push(): the sender is a task of its own, the meta information is queued. *)
Push(last) ==
  /\ ~ended /\ seq \in valid /\ seq \notin complete /\ pushed < MaxTexts
  /\ (pushed = MaxTexts - 1) => last
  /\ LET text == [seq |-> seq, last |-> last, end |-> FALSE] IN
     /\ queue' = Append(queue, text)
     /\ IF provider \in Streaming
        THEN /\ meta' = text
             /\ senders' = Append(senders, [seq |-> seq, last |-> last, state |-> "new"])
             /\ contexts' = IF FreshContext THEN contexts + 1 ELSE contexts
             /\ context' = IF FreshContext THEN contexts + 1 ELSE context
        ELSE UNCHANGED <<meta, senders, contexts, context>>
  /\ pushed' = pushed + 1
  /\ complete' = IF last THEN complete \union {seq} ELSE complete
  /\ Disturb("overlap", \E s \in valid \ {seq} : Busy(s))
  /\ UNCHANGED <<provider, valid, seq, ignored, lastSent, link, incoming, yielding,
                 fetching, done, given, ended>>

(* handle_interruption() of each provider.  The messages of the contexts it     *)
(* cancels are the last ones; some of them may have been sent already.         *)
Cancel(ids) ==
  \E sent \in 0..Len(incoming) :
    /\ \A i \in (sent + 1)..Len(incoming) : incoming[i].context \in ids
    /\ incoming' = SubSeq(incoming, 1, sent)

Ignore == ignored' = IF context = 0 THEN ignored ELSE ignored \union {context}

CartesiaInterrupt ==
  /\ Ignore /\ UNCHANGED contexts
  /\ IF up /\ context # 0 THEN context' = 0 /\ Cancel({context})
                          ELSE UNCHANGED <<context, incoming>>

PixaInterrupt ==
  /\ Ignore /\ context' = 0 /\ UNCHANGED contexts
  /\ IF up /\ context # 0 THEN Cancel({context}) ELSE UNCHANGED incoming

DeepgramInterrupt ==
  /\ UNCHANGED <<ignored, context, contexts>>
  /\ IF up THEN Cancel(0..contexts) ELSE UNCHANGED incoming

RimeInterrupt ==
  /\ UNCHANGED ignored
  /\ IF context = 0 THEN UNCHANGED <<context, contexts, incoming>>
     ELSE /\ context' = contexts + 1 /\ contexts' = contexts + 1
          /\ IF up THEN Cancel(0..contexts) ELSE UNCHANGED incoming

(* It closes a context that none of its requests names. *)
ElevenlabsInterrupt == UNCHANGED <<ignored, context, contexts, incoming>>

(* The others have none. *)
NoInterrupt == UNCHANGED <<ignored, context, contexts, incoming>>

(* __cleanup_downstream_tasks(): handle_interruption(), and the sequence ids    *)
(* are invalidated.  text_queue and the senders that wait are left as they are.*)
Interrupt ==
  /\ ~ended /\ valid # {}
  /\ valid' = {}
  /\ CASE provider = "cartesia" -> CartesiaInterrupt
       [] provider = "pixa" -> PixaInterrupt
       [] provider = "deepgram" -> DeepgramInterrupt
       [] provider = "rime" -> RimeInterrupt
       [] provider = "elevenlabs" -> ElevenlabsInterrupt
       [] OTHER -> NoInterrupt
  /\ Disturb("cut", \E s \in Seqs : Busy(s))
  /\ UNCHANGED <<provider, seq, pushed, complete, queue, meta, senders, lastSent, link, yielding,
                 fetching, done, given, ended>>

-----------------------------------------------------------------------------
(* sender(). *)

RechecksAfterWait == provider \in {"elevenlabs", "rime", "deepgram"}

(* What each provider (external) answers to a text, sent in the context that   *)
(* is current now: audio, and an end when it was told that the answer is       *)
(* complete (a flush or an empty last payload), or after every text.           *)
Audio(sender, n) == [k \in 1..n |-> [kind |-> "audio", seq |-> sender.seq, context |-> context,
                                     last |-> sender.last /\ k = n]]
End(sender) == [kind |-> "end", seq |-> sender.seq, context |-> context, last |-> TRUE]
Closing(sender) == IF sender.last THEN <<End(sender)>> ELSE <<>>

CartesiaReply(sender, n) == Audio(sender, n) \o Closing(sender)
PixaReply(sender, n) == Audio(sender, n) \o Closing(sender)
DeepgramReplyFlushed(sender, n) == Append(Audio(sender, n), End(sender))   \* mutant
DeepgramReplyUnclosed(sender, n) == Audio(sender, n)   \* mutant
DeepgramReply(sender, n) == Audio(sender, n) \o Closing(sender)
ElevenlabsReply(sender, n) == Audio(sender, n)
RimeReply(sender, n) == Audio(sender, n)
SarvamReply(sender, n) == Append(Audio(sender, n), End(sender))
SmallestReply(sender, n) == Append(Audio(sender, n), End(sender))

Reply(sender, n) ==
  CASE provider = "cartesia" -> CartesiaReply(sender, n)
    [] provider = "pixa" -> PixaReply(sender, n)
    [] provider = "deepgram" -> DeepgramReply(sender, n)
    [] provider = "elevenlabs" -> ElevenlabsReply(sender, n)
    [] provider = "rime" -> RimeReply(sender, n)
    [] provider = "sarvam" -> SarvamReply(sender, n)
    [] provider = "smallest" -> SmallestReply(sender, n)

LingersAsSent(i) == senders' = [senders EXCEPT ![i].state = "sent"]   \* mutant
Leaves(i) == senders' = RemoveAt(senders, i)

Send(i) ==
  /\ up
  /\ lastSent' = (lastSent \/ senders[i].last)
  /\ IF provider \in {"elevenlabs", "rime"} /\ senders[i].last
     THEN context' = contexts + 1 /\ contexts' = contexts + 1
     ELSE UNCHANGED <<context, contexts>>
  /\ \E n \in (IF provider \in Buffering THEN 0 ELSE 1)..MaxAudio :
       /\ incoming' = incoming \o Reply(senders[i], n)
       /\ disturbed' = disturbed \union (IF n = 0 THEN {"merged"} ELSE {})
                                 \union (IF i > 1 THEN {"reordered"} ELSE {})
                                 \union (IF senders[i].seq \notin valid THEN {"stale"} ELSE {})
  /\ Bounded

(* A new sender, first come first served: it drops the text of a cancelled     *)
(* answer, sends if it can, and polls for the connection otherwise.            *)
SenderStarts(i) ==
  /\ ~ended /\ senders[i].state = "new" /\ \A j \in 1..(i - 1) : senders[j].state # "new"
  /\ \/ /\ senders[i].seq \notin valid \/ (~up /\ error)
        /\ Leaves(i) /\ UNCHANGED <<incoming, lastSent, context, contexts, disturbed>>
     \/ /\ senders[i].seq \in valid /\ Send(i) /\ Leaves(i)
     \/ /\ senders[i].seq \in valid /\ ~up /\ ~error
        /\ senders' = [senders EXCEPT ![i].state = "polling"]
        /\ UNCHANGED <<incoming, lastSent, context, contexts, disturbed>>
  /\ UNCHANGED <<answers, queue, meta, ignored, link, yielding, fetching, done, given, ended>>

(* The senders that poll wake up in any order.  Some look at the sequence id   *)
(* once more, the others send the text of a cancelled answer.                  *)
SenderWakes(i) ==
  /\ ~ended /\ senders[i].state = "polling" /\ (up \/ error)
  /\ Leaves(i)
  /\ IF ~up \/ (RechecksAfterWait /\ senders[i].seq \notin valid)
     THEN UNCHANGED <<incoming, lastSent, context, contexts, disturbed>>
     ELSE Send(i)
  /\ UNCHANGED <<answers, queue, meta, ignored, link, yielding, fetching, done, given, ended>>

(* send() raises: the text is gone, the error is kept. *)
SendFails(i) ==
  /\ ~ended /\ up /\ drops < MaxDrops
  /\ drops' = drops + 1 /\ up' = FALSE /\ error' = TRUE
  /\ Leaves(i) /\ incoming' = <<>>
  /\ Disturb("lost", TRUE)
  /\ UNCHANGED <<answers, queue, meta, context, contexts, ignored, lastSent, failures, yielding,
                 fetching, done, given, ended>>

-----------------------------------------------------------------------------
(* receiver() and _generate_ws_loop(). *)

NeverIgnored(m) == FALSE   \* mutant
IsIgnored(m) == m.context \in ignored

(* What the receivers yield for a message: cartesia and pixa leave out what    *)
(* names an ignored context (pixa's audio names none); elevenlabs takes audio  *)
(* whose text ends as the last pushed one for the end, rime every message of   *)
(* another context than the current one.                                       *)
AsEnd(m) == [m EXCEPT !.kind = "end"]
CartesiaYields(m) == {IF IsIgnored(m) THEN <<>> ELSE <<m>>}
PixaYields(m) == {IF m.kind = "end" /\ IsIgnored(m) THEN <<>> ELSE <<m>>}
ElevenlabsYields(m) ==
  IF ~lastSent THEN {<<m>>}
  ELSE IF m.last THEN {<<m, AsEnd(m)>>} ELSE {<<m>>, <<m, AsEnd(m)>>}
RimeYields(m) ==
  IF m.context = context THEN {<<m>>} ELSE {<<m, AsEnd(m)>>, <<AsEnd(m), m, AsEnd(m)>>}
DeepgramYields(m) == {<<m>>}
SarvamYields(m) == {<<m>>}
SmallestYields(m) == {<<m>>}

Yields(m) ==
  CASE provider = "cartesia" -> CartesiaYields(m)
    [] provider = "pixa" -> PixaYields(m)
    [] provider = "elevenlabs" -> ElevenlabsYields(m)
    [] provider = "rime" -> RimeYields(m)
    [] provider = "deepgram" -> DeepgramYields(m)
    [] provider = "sarvam" -> SarvamYields(m)
    [] provider = "smallest" -> SmallestYields(m)

Give(kind, of, m) ==
  /\ packet' = [kind |-> kind, of |-> of, seq |-> m.seq, heard |-> m.seq \in valid]
  /\ finished' = IF m.seq \in valid /\ m.last /\ m.end THEN finished \union {m.seq} ELSE finished

(* An item goes out with the next meta information if there is one, else with  *)
(* the one of the item before.                                                 *)
NextMeta == IF queue = <<>> THEN meta ELSE Head(queue)
ItemMeta(item) == IF item.kind = "end" THEN [NextMeta EXCEPT !.end = TRUE] ELSE NextMeta
YieldItem(item) ==
  /\ meta' = ItemMeta(item) /\ Give(item.kind, item.seq, ItemMeta(item))
  /\ queue' = IF queue = <<>> THEN queue ELSE Tail(queue)

Receive ==
  /\ ~ended /\ up /\ ~error /\ provider \in Streaming /\ yielding = <<>> /\ incoming # <<>>
  /\ incoming' = Tail(incoming)
  /\ \E items \in Yields(Head(incoming)) :
       IF items = <<>> THEN UNCHANGED <<yielding, meta, queue, given>>
       ELSE YieldItem(Head(items)) /\ yielding' = Tail(items)
  /\ UNCHANGED <<answers, sending, link, fetching, done, ended, disturbed>>

(* The second item of a message, after the listener has slept. *)
Yield ==
  /\ ~ended /\ ~error /\ yielding # <<>>
  /\ YieldItem(Head(yielding)) /\ yielding' = Tail(yielding)
  /\ UNCHANGED <<answers, sending, link, incoming, fetching, done, ended, disturbed>>

(* connection_error, seen with an item or without a connection: generate()     *)
(* raises, and the listener ends the call.                                     *)
RaiseError ==
  /\ ~ended /\ provider \in Streaming /\ error /\ (~up \/ yielding # <<>> \/ incoming # <<>>)
  /\ ended' = TRUE
  /\ UNCHANGED <<answers, queue, meta, sending, link, incoming, yielding, fetching, done,
                 given, disturbed>>

-----------------------------------------------------------------------------
(* monitor_connection(). *)

Connect ==
  /\ ~ended /\ provider \in Streaming /\ ~up /\ failures < 3
  /\ up' = TRUE /\ failures' = 0
  /\ UNCHANGED <<answers, queue, meta, sending, error, drops, incoming, yielding, fetching,
                 done, given, ended, disturbed>>

(* establish_connection(): whether a handshake that fails is recorded at once: *)
(* some do so when it is refused, none when it takes too long.                 *)
CartesiaRecords == {TRUE, FALSE}
ElevenlabsRecords == {TRUE, FALSE}
PixaRecords == {TRUE, FALSE}
SarvamRecords == {TRUE, FALSE}
DeepgramRecords == {FALSE}
RimeRecords == {FALSE}
SmallestRecords == {FALSE}

Records ==
  CASE provider = "cartesia" -> CartesiaRecords
    [] provider = "elevenlabs" -> ElevenlabsRecords
    [] provider = "pixa" -> PixaRecords
    [] provider = "sarvam" -> SarvamRecords
    [] provider = "deepgram" -> DeepgramRecords
    [] provider = "rime" -> RimeRecords
    [] provider = "smallest" -> SmallestRecords

(* Three failures in a row are recorded for all. *)
ConnectFails ==
  /\ ~ended /\ provider \in Streaming /\ ~up /\ failures < 3
  /\ failures' = failures + 1
  /\ \E recorded \in Records : error' = (error \/ recorded \/ failures = 2)
  /\ UNCHANGED <<answers, queue, meta, sending, up, drops, incoming, yielding, fetching,
                 done, given, ended, disturbed>>

(* The connection breaks: what was under way is lost, generate() returns and   *)
(* is entered again.                                                           *)
Drop ==
  /\ ~ended /\ up /\ drops < MaxDrops
  /\ drops' = drops + 1 /\ up' = FALSE
  /\ incoming' = <<>>
  /\ Disturb("lost", \E s \in Seqs : Busy(s))
  /\ UNCHANGED <<answers, queue, meta, sending, failures, error, yielding, fetching, done,
                 given, ended>>

-----------------------------------------------------------------------------
(* _generate_http_loop() and azure's generate(). *)

Take ==
  /\ ~ended /\ provider \notin Streaming /\ fetching = NoMeta /\ queue # <<>>
  /\ queue' = Tail(queue)
  /\ fetching' = IF Head(queue).seq \in valid THEN Head(queue) ELSE NoMeta
  /\ done' = FALSE
  /\ UNCHANGED <<answers, meta, sending, link, incoming, yielding, given, ended, disturbed>>

(* _stamp_end_of_stream() *)
Stamped(m) == [m EXCEPT !.end = m.last]

Fetched ==
  /\ ~ended /\ provider = "http" /\ fetching # NoMeta
  /\ Give("audio", fetching.seq, Stamped(fetching))
  /\ fetching' = NoMeta
  /\ UNCHANGED <<answers, queue, meta, sending, link, incoming, yielding, done, ended, disturbed>>

(* A request that fails: a null byte is given instead, which is the end of the *)
(* audio; or nothing, which cannot be cut into chunks, or an exception, and    *)
(* either ends the call.                                                       *)
PollyFailures == {"nothing"}
OpenaiFailures == {"raises"}
CartesiaFailures == {"nothing", "raises"}
ElevenlabsFailures == {"nothing", "raises"}
SarvamFailures == {"nothing", "raises"}
DeepgramFailures == {"null", "nothing"}
RimeFailures == {"null", "nothing"}
SmallestFailures == {"null", "raises"}
HttpFailures ==
  UNION {PollyFailures, OpenaiFailures, CartesiaFailures, ElevenlabsFailures, SarvamFailures,
         DeepgramFailures, RimeFailures, SmallestFailures}

FetchFails ==
  /\ ~ended /\ provider = "http" /\ fetching # NoMeta
  /\ \E failure \in HttpFailures :
       IF failure = "null"
       THEN /\ Give("end", fetching.seq, Stamped(fetching)) /\ fetching' = NoMeta
            /\ UNCHANGED ended
       ELSE ended' = TRUE /\ UNCHANGED <<fetching, given>>
  /\ UNCHANGED <<answers, queue, meta, sending, link, incoming, yielding, done, disturbed>>

(* on_synthesizing() and on_completed(), called by the SDK's thread. *)
AzureCallback ==
  /\ ~ended /\ provider = "azure" /\ fetching # NoMeta /\ ~done
  /\ \/ /\ Len(incoming) < MaxAudio
        /\ incoming' = Append(incoming, [kind |-> "audio", seq |-> fetching.seq, context |-> 0,
                                         last |-> FALSE])
        /\ UNCHANGED done
     \/ done' = TRUE /\ UNCHANGED incoming
  /\ UNCHANGED <<answers, queue, meta, sending, link, yielding, fetching, given, ended, disturbed>>

(* A chunk is the end of the stream if the synthesis is known to be complete   *)
(* when the last chunk is taken.                                               *)
AzureChunk ==
  /\ ~ended /\ provider = "azure" /\ incoming # <<>>
  /\ incoming' = Tail(incoming)
  /\ LET m == IF done /\ Len(incoming) = 1 THEN Stamped(fetching) ELSE fetching
     IN fetching' = m /\ Give("audio", fetching.seq, m)
  /\ UNCHANGED <<answers, queue, meta, sending, link, yielding, done, ended, disturbed>>

AzureNext ==
  /\ ~ended /\ provider = "azure" /\ fetching # NoMeta /\ done /\ incoming = <<>>
  /\ fetching' = NoMeta
  /\ UNCHANGED <<answers, queue, meta, sending, link, incoming, yielding, done, given, ended,
                 disturbed>>

-----------------------------------------------------------------------------
SenderStep == \E i \in DOMAIN senders : SenderStarts(i) \/ SenderWakes(i)
Generator == Receive \/ Yield \/ RaiseError \/ Take \/ Fetched \/ AzureChunk \/ AzureNext
Monitor == Connect \/ ConnectFails
Completed == AzureCallback /\ done'

Next ==
  \/ Respond \/ Interrupt \/ (\E last \in BOOLEAN : Push(last))
  \/ SenderStep \/ (\E i \in DOMAIN senders : SendFails(i))
  \/ Generator \/ FetchFails \/ AzureCallback
  \/ Monitor \/ Drop

Spec == Init /\ [][Next]_vars

(* The tasks go on, and the provider answers. *)
LiveSpec ==
  /\ Spec
  /\ WF_vars(SenderStep) /\ WF_vars(Generator) /\ WF_vars(Monitor)
  /\ WF_vars(Completed)

-----------------------------------------------------------------------------
Metas == [seq : 0..MaxSeq, last : BOOLEAN, end : BOOLEAN]
Messages == [kind : {"audio", "end"}, seq : Seqs, context : Nat, last : BOOLEAN]

(* Every variable has its type. *)
TypeOK ==
  /\ provider \in Providers /\ valid \subseteq Seqs /\ seq \in 0..MaxSeq
  /\ pushed \in 0..MaxTexts /\ complete \subseteq Seqs
  /\ queue \in Seq(Metas) /\ meta \in Metas /\ fetching \in Metas
  /\ senders \in Seq([seq : Seqs, last : BOOLEAN, state : {"new", "polling"}])
  /\ context \in 0..contexts /\ contexts \in Nat /\ ignored \subseteq 1..contexts
  /\ incoming \in Seq(Messages) /\ yielding \in Seq(Messages)
  /\ failures \in 0..3 /\ {lastSent, up, error, done, ended} \subseteq BOOLEAN
  /\ packet \in [kind : {"audio", "end", "none"}, of : 0..MaxSeq, seq : 0..MaxSeq,
                 heard : BOOLEAN]
  /\ finished \subseteq Seqs /\ drops \in Nat
  /\ disturbed \subseteq {"overlap", "cut", "lost", "reordered", "stale", "merged"}

(* The upsets under which a provider still matches audio and answer: an HTTP   *)
(* synthesizer has its text in hand.                                           *)
Withstands(flags) == disturbed \subseteq flags \/ provider \in {"http", "azure"}

(* Audio that is heard is heard under the id of its own answer: nothing of a   *)
(* cancelled answer is spoken as part of the next one.  Interruptions upset    *)
(* this where the provider's audio names no answer; with cartesia, whose audio *)
(* does, the audio of a follow-up may go out under the id of the answer before *)
(* it, but never old audio under a new id.                                     *)
OldAudioSilent ==
  packet.heard /\ packet.kind = "audio" =>
    /\ Withstands({}) => packet.of = packet.seq
    /\ provider = "cartesia" /\ disturbed \subseteq {"cut"} => packet.seq <= packet.of

(* Audio of the answer that may be heard is not dropped by the listener for    *)
(* the sequence id it goes out with.                                           *)
NewAudioHeard ==
  packet.kind = "audio" /\ packet.of \in valid /\ Withstands({}) => packet.heard

(* Audio shares the fate of the answer it is of: spoken while that is valid,   *)
(* and dropped when it was cancelled.                                          *)
AudioOfItsAnswer == OldAudioSilent /\ NewAudioHeard

(* When the final packet of an answer has been heard, on which the marks and   *)
(* the hangup wait, all its audio has gone out.  The providers that end every  *)
(* text, and those whose end is guessed, do not promise it.                    *)
FinalIsLast ==
  provider \in Buffering \union {"http", "azure"} /\ Withstands({"merged"}) =>
    \A s \in finished : s \in complete /\ ~AudioLeft(s)

(* An answer that was pushed to its end gets its final packet, unless it was   *)
(* cancelled, the connection failed, or the order was upset.  Azure's chunk    *)
(* callbacks may run ahead of its completion.                                  *)
FinalComes ==
  \A s \in Seqs :
    s \in complete /\ provider # "azure" ~>
      s \in finished \/ s \notin valid \/ ended \/ error \/ (disturbed # {} /\ provider # "http")

(* What _stamp_end_of_stream says of every provider, azure included: the       *)
(* stream of a complete answer is marked with its end.                         *)
EndIsStamped ==
  \A s \in Seqs : s \in complete ~> s \in finished \/ s \notin valid \/ ended \/ error \/ disturbed # {}

(* A recorded connection error ends the call, unless the monitor has connected *)
(* again before the receiver looked.                                           *)
ErrorEndsCall == error /\ ~up ~> ended \/ up

(* The listener does not wait for ever: for the end of an answer, or for a     *)
(* connection that was refused.                                                *)
StreamSettles == FinalComes /\ ErrorEndsCall

=============================================================================
