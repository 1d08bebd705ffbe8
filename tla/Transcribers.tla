---------------------------- MODULE Transcribers ----------------------------
(* The speech-to-text clients of src/bolna/transcriber: one websocket (or      *)
(* thread) per call, on which the provider sends partial and final texts, and  *)
(* the packets the client makes of them for the task manager.                  *)
(*                                                                             *)
(* One behaviour is one call with one provider, chosen in Init.  The caller's  *)
(* words are the segments 1..Segments, spoken in that order; a text is the     *)
(* sequence of its segments.  The provider (external) may send a partial text  *)
(* of the segment being spoken any number of times, its final text once, and   *)
(* may also fall silent, drop the connection or close it.  The queue to the    *)
(* task manager is unbounded, so a packet is put on it, and is seen here by    *)
(* the listener, in the step that makes it.  Times are abstracted to whether   *)
(* they are set: a time limit is an action that may happen while it runs.      *)
EXTENDS Naturals, Sequences, SequencesExt

CONSTANTS Providers, \* the providers a call may be made with
          Segments   \* bound: how many segments the caller speaks

Clients == {"deepgram", "flux", "gladia", "smallest", "elevenlabs", "sarvam",
            "assemblyai", "pixa", "openai", "google", "azure"}

ASSUME ProvidersAssumption == Providers \subseteq Clients /\ Providers # {}
ASSUME SegmentsAssumption == Segments \in Nat \ {0}

VARIABLES
  provider,  \* the client's class (flux: deepgram with a flux model)
  stage,     \* transcribe(): "connect", "stream", "closing" (its finally), "done"
  link,      \* the websocket: "none", "open", "ended" (closed), "lost" (dropped)
  on,        \* connection_on
  watch,     \* the task of monitor_utterance_timeout runs
  audio,     \* the sender: "none", "sent" (first packet), "over" (end of stream)
  error,     \* connection_error is set
  voice,     \* the caller and the provider: segment, whether it is being said, owed
  turn,      \* the turn being transcribed, see FreshTurn
  heard,     \* the segments of the transcripts the listener got, in order
  speaking,  \* the listener counts the caller as speaking (callee_speaking)
  asked,     \* eager_llm_task: "no", "yes" (pending), "stale" (left over by Ignored)
  closes,    \* transcriber_connection_closed packets pushed
  ghost      \* said: segments finalised by the provider; forced: sent before that

vars == <<provider, stage, link, on, watch, audio, error, voice, turn, heard,
          speaking, asked, closes, ghost>>
client == <<provider, stage, link, on, watch, audio, error>>
listener == <<heard, speaking, asked, closes>>

(* interim: the segment of the last entry of current_turn_interim_details (0:  *)
(* the list is empty); clock: last_interim_time is set; final:                 *)
(* final_transcript; sent: is_transcript_sent_for_processing; open:            *)
(* current_turn_id is set; active, committed: _speech_active and               *)
(* _turn_committed of openai; eager: eager_transcript_pending of flux.         *)
FreshTurn == [interim |-> 0, clock |-> FALSE, final |-> <<>>, sent |-> FALSE,
              open |-> FALSE, active |-> FALSE, committed |-> FALSE, eager |-> FALSE]

Init ==
  /\ provider \in Providers
  /\ stage = "connect" /\ link = "none" /\ on = TRUE /\ watch = FALSE
  /\ audio = "none" /\ error = FALSE
  /\ voice = [n |-> 0, stage |-> "quiet", owed |-> <<>>]
  /\ turn = FreshTurn
  /\ heard = <<>> /\ speaking = FALSE /\ asked = "no" /\ closes = 0
  /\ ghost = [said |-> {}, forced |-> {}]

-----------------------------------------------------------------------------
(* The packets, as the task manager's listener takes them.  It stops at the    *)
(* first transcriber_connection_closed.  What it does with a packet depends on *)
(* the audio that plays, the reply in the pipeline, the welcome message and    *)
(* the number of words, which are TurnTaking's: here each outcome is possible. *)
listening == closes = 0

(* A cleanup of the response in progress may go with a packet; it cancels the  *)
(* speculative answer too.                                                     *)
MayCancel == asked' \in {asked, "no"}

(* A partial text is ignored (a duplicate, before the welcome, too few words), *)
(* or the caller is speaking, which may interrupt or continue.                 *)
Interim ==
  /\ \/ UNCHANGED <<speaking, asked>>
     \/ listening /\ speaking' = TRUE /\ MayCancel
  /\ UNCHANGED <<heard, closes>>

(* The transcript is taken for a false interruption: the listener goes on      *)
(* before it looks at eager_llm_task, and a speculative answer this transcript *)
(* confirms stays, left to the next cleanup, transcript or resumption.         *)
Ignored(wasEager) == asked' = IF wasEager /\ asked # "no" THEN "stale" ELSE asked

(* The transcript is answered: by the speculative answer if there is one and   *)
(* was_eager is set, and otherwise by _handle_transcriber_output.              *)
Answered(wasEager) == IF wasEager THEN asked' = "no" ELSE MayCancel

Transcript(text, wasEager) ==
  /\ heard' = IF listening THEN heard \o text ELSE heard
  /\ speaking' = (speaking /\ ~listening)
  /\ \/ listening /\ (Ignored(wasEager) \/ Answered(wasEager))
     \/ ~listening /\ UNCHANGED asked
  /\ UNCHANGED closes

SpeechEnded == speaking' = (speaking /\ ~listening) /\ UNCHANGED <<heard, asked, closes>>

(* A speculative answer is started unless audio plays, in the place of a stale *)
(* one, and is withdrawn when the turn resumes, a stale one with it.           *)
EagerEnd == /\ \/ UNCHANGED asked
               \/ listening /\ asked' = "yes"
            /\ UNCHANGED <<heard, speaking, closes>>
TurnResumed == /\ asked' = IF listening THEN "no" ELSE asked
               /\ UNCHANGED <<heard, speaking, closes>>

Closed(k) == closes' = closes + k /\ UNCHANGED <<heard, speaking, asked>>
Nothing == UNCHANGED listener

-----------------------------------------------------------------------------
(* The caller and the provider (external).                                     *)

(* The caller says the next segment. *)
Speak ==
  /\ stage = "stream" /\ audio = "sent" /\ voice.n < Segments
  /\ voice.stage \in {"quiet", "said"}
  /\ voice' = [voice EXCEPT !.n = @ + 1, !.stage = "talk"]
  /\ UNCHANGED <<client, turn, listener, ghost>>

Receives == stage = "stream" /\ on /\ link = "open" /\ UNCHANGED client
Talking == voice.stage = "talk"
(* A message that finalises nothing (bound: none follows for a segment that    *)
(* the time limit has sent, or it would be sent any number of times), the      *)
(* final text of the current segment, and the end of the utterance.            *)
Ongoing == Talking /\ voice.n \notin ghost.forced /\ UNCHANGED <<voice, ghost>>
Finalised == /\ Talking
             /\ voice' = [voice EXCEPT !.stage = "said"]
             /\ ghost' = [ghost EXCEPT !.said = @ \union {voice.n}]
Falls == /\ voice.stage # "quiet"
         /\ voice' = [voice EXCEPT !.stage = "quiet"]
         /\ UNCHANGED ghost

-----------------------------------------------------------------------------
(* The turn's state.                                                           *)
Reset(t) == [t EXCEPT !.interim = 0, !.clock = FALSE, !.final = <<>>, !.sent = TRUE,
                      !.open = FALSE]
(* The fields a transcript or an utterance's end clears inline in deepgram:    *)
(* last_interim_time is not among them.                                        *)
ClearTurn(t) == [t EXCEPT !.interim = 0, !.final = <<>>, !.open = FALSE]
BeginTurnAfresh(t) ==   \* mutant
  [t EXCEPT !.interim = 0, !.sent = FALSE, !.open = TRUE, !.final = <<>>]
BeginTurn(t) == [t EXCEPT !.interim = 0, !.sent = FALSE, !.open = TRUE]
NotePartial(t) == [t EXCEPT !.interim = voice.n, !.clock = TRUE]

ElevenReset(t) == [Reset(t) EXCEPT !.sent = FALSE]
PixaReset(t) == [t EXCEPT !.final = <<>>, !.sent = TRUE, !.clock = FALSE]
OpenaiReset(t) ==
  IF t.active THEN [t EXCEPT !.committed = FALSE]
  ELSE [t EXCEPT !.interim = 0, !.open = FALSE, !.sent = TRUE, !.committed = FALSE]

-----------------------------------------------------------------------------
(* Deepgram, nova models: receiver().                                          *)
NovaSpeechStarted == Ongoing /\ turn' = BeginTurn(turn) /\ Nothing

NovaInterim == Ongoing /\ turn' = NotePartial(turn) /\ Interim

NovaAppend == [NotePartial(turn) EXCEPT !.final = Append(@, voice.n), !.sent = FALSE]

NovaFinal == Finalised /\ turn' = NovaAppend /\ Interim

NovaSpeechFinal ==
  /\ Finalised
  /\ turn' = [ClearTurn(NovaAppend) EXCEPT !.sent = TRUE]
  /\ Transcript(NovaAppend.final, FALSE)

(* A speech_final result without words delivers what was finalised before. *)
NovaBlankFinal ==
  /\ voice.stage = "said" /\ UNCHANGED <<voice, ghost>>
  /\ turn.final # <<>> /\ ~turn.sent
  /\ turn' = [ClearTurn(turn) EXCEPT !.sent = TRUE]
  /\ Transcript(turn.final, FALSE)

NovaUtteranceEnd ==
  /\ Falls
  /\ IF ~turn.sent /\ turn.final # <<>>
     THEN turn' = [ClearTurn(turn) EXCEPT !.sent = TRUE] /\ Transcript(turn.final, FALSE)
     ELSE turn' = ClearTurn(turn) /\ SpeechEnded

DeepgramReceiver ==
  /\ provider = "deepgram" /\ Receives
  /\ \/ NovaSpeechStarted \/ NovaInterim \/ NovaFinal \/ NovaSpeechFinal
     \/ NovaBlankFinal \/ NovaUtteranceEnd

(* Deepgram, flux models: receiver_flux().  The provider follows an eager end  *)
(* of turn by a resumption or the end of that turn.                            *)
FluxStart ==
  /\ Ongoing /\ ~turn.eager
  /\ \E partial \in BOOLEAN :
       /\ turn' = [BeginTurn(turn) EXCEPT !.final = <<>>, !.clock = @ \/ partial]
       /\ IF partial THEN Interim ELSE Nothing

FluxUpdate == Ongoing /\ turn' = NotePartial(turn) /\ Interim

FluxEager ==
  /\ Ongoing
  /\ turn' = [turn EXCEPT !.eager = TRUE, !.clock = TRUE]
  /\ EagerEnd

FluxResumed == Ongoing /\ turn.eager /\ turn' = [turn EXCEPT !.eager = FALSE] /\ TurnResumed

FluxEndSilent ==   \* mutant
  /\ turn' = [Reset(turn) EXCEPT !.eager = FALSE]
  /\ \/ Finalised /\ Transcript(<<voice.n>>, turn.eager)
     \/ Talking /\ Falls /\ Nothing

FluxEnd ==
  /\ turn' = [Reset(turn) EXCEPT !.eager = FALSE]
  /\ \/ Finalised /\ Transcript(<<voice.n>>, turn.eager)
     \/ Talking /\ Falls /\ IF turn.eager THEN TurnResumed ELSE Nothing

FluxReceiver ==
  /\ provider = "flux" /\ Receives
  /\ FluxStart \/ FluxUpdate \/ FluxEager \/ FluxResumed \/ FluxEnd

-----------------------------------------------------------------------------
(* Gladia. *)
GladiaReceiver ==
  /\ provider = "gladia" /\ Receives
  /\ \/ Ongoing /\ turn' = BeginTurn(turn) /\ Nothing
     \/ Ongoing /\ turn' = NotePartial(turn) /\ Interim
     \/ Finalised /\ turn' = Reset(turn) /\ Transcript(<<voice.n>>, FALSE)
     \/ Falls /\ turn' = turn /\ Nothing

(* Smallest: a final segment is sent by itself, and the turn is not reset. *)
SmallestReceiver ==
  /\ provider = "smallest" /\ Receives
  /\ \/ Ongoing /\ turn' = NotePartial(turn) /\ Interim
     \/ /\ Finalised
        /\ turn' = [NotePartial(turn) EXCEPT !.final = Append(@, voice.n), !.sent = TRUE,
                                             !.interim = 0]
        /\ Transcript(<<voice.n>>, FALSE)

(* ElevenLabs: the partial text is kept as the final one until it is committed. *)
ElevenlabsReceiver ==
  /\ provider = "elevenlabs" /\ Receives
  /\ \/ /\ Ongoing
        /\ turn' = [NotePartial(turn) EXCEPT !.final = <<voice.n>>, !.sent = FALSE, !.open = TRUE]
        /\ Interim
     \/ /\ Finalised
        /\ IF turn.sent THEN turn' = turn /\ Nothing
           ELSE /\ turn' \in {ElevenReset(turn), [ClearTurn(turn) EXCEPT !.sent = FALSE]}
                /\ Transcript(<<voice.n>>, FALSE)

(* Pixa: every result is passed on as partial, a final one again as transcript. *)
PixaReceiver ==
  /\ provider = "pixa" /\ Receives
  /\ \/ Ongoing /\ turn' = [turn EXCEPT !.clock = TRUE, !.final = <<voice.n>>] /\ Interim
     \/ Finalised /\ turn' = PixaReset(turn) /\ Transcript(<<voice.n>>, FALSE)

(* Sarvam: one result per utterance; speech_ended is a packet the listener     *)
(* does not know.                                                              *)
SarvamReceiver ==
  /\ provider = "sarvam" /\ Receives
  /\ \/ Finalised /\ turn' = turn /\ Transcript(<<voice.n>>, FALSE)
     \/ Ongoing /\ turn' = [turn EXCEPT !.open = TRUE] /\ Nothing
     \/ /\ Falls
        /\ turn' = [turn EXCEPT !.open = FALSE, !.final = <<>>]
        /\ IF turn.final # <<>> THEN Transcript(turn.final, FALSE) ELSE Nothing

(* AssemblyAI: a formatted turn is a transcript, an unformatted one partial. *)
AssemblyaiReceiver ==
  /\ provider = "assemblyai" /\ Receives
  /\ \/ /\ Ongoing
        /\ turn' = [turn EXCEPT !.open = TRUE, !.interim = voice.n]
        /\ Interim
     \/ /\ Finalised
        /\ turn' = [turn EXCEPT !.open = FALSE, !.interim = 0]
        /\ Transcript(<<voice.n>>, FALSE)

-----------------------------------------------------------------------------
(* OpenAI: the text of a segment comes after the segment was committed, so the *)
(* caller may already be saying the next one.                                  *)
OpenaiSpeechStarted ==
  /\ Ongoing /\ ~turn.active
  /\ turn' = [BeginTurn(turn) EXCEPT !.active = TRUE]
  /\ Nothing

OpenaiSpeechStopped ==
  /\ Talking /\ turn.active
  /\ voice' = [voice EXCEPT !.stage = "quiet", !.owed = Append(@, voice.n)]
  /\ turn' = [turn EXCEPT !.active = FALSE, !.committed = TRUE]
  /\ SpeechEnded /\ UNCHANGED ghost

OpenaiDelta ==
  /\ voice.owed # <<>> /\ UNCHANGED <<voice, ghost>>
  /\ turn' = [turn EXCEPT !.interim = Head(voice.owed)]
  /\ Interim

Settle == voice' = [voice EXCEPT !.owed = Tail(@)]

OpenaiCompleted ==
  /\ voice.owed # <<>> /\ Settle
  /\ \/ /\ ghost' = [ghost EXCEPT !.said = @ \union {Head(voice.owed)}]
        /\ turn' = OpenaiReset(turn)
        /\ Transcript(<<Head(voice.owed)>>, FALSE)
     \/ UNCHANGED <<ghost, turn>> /\ Nothing

OpenaiFailed ==
  /\ voice.owed # <<>> /\ Settle
  /\ turn' = OpenaiReset(turn)
  /\ Nothing /\ UNCHANGED ghost

OpenaiReceiver ==
  /\ provider = "openai" /\ Receives
  /\ \/ OpenaiSpeechStarted \/ OpenaiSpeechStopped \/ OpenaiDelta
     \/ OpenaiCompleted \/ OpenaiFailed

(* Google: results of the gRPC stream, put on the queue from its thread. *)
GoogleReceiver ==
  /\ provider = "google" /\ Receives /\ turn' = turn
  /\ \/ Ongoing /\ Interim
     \/ Finalised /\ Transcript(<<voice.n>>, FALSE)

(* Azure: the recognizer's callbacks, run on the event loop. *)
AzureRecognizing == Ongoing /\ turn' = [turn EXCEPT !.interim = voice.n] /\ Interim
AzureRecognized ==
  /\ Finalised
  /\ turn' = [turn EXCEPT !.interim = 0, !.open = FALSE]
  /\ Transcript(<<voice.n>>, FALSE)
AzureReceiver ==
  /\ provider = "azure" /\ Receives
  /\ AzureRecognizing \/ AzureRecognized

-----------------------------------------------------------------------------
(* monitor_utterance_timeout() and _force_finalize_utterance(): an utterance   *)
(* whose last partial text is old is sent as it is.                            *)
Armed == turn.clock /\ ~turn.sent
Pending == IF turn.final # <<>> THEN turn.final
           ELSE IF turn.interim # 0 THEN <<turn.interim>> ELSE <<>>

ForceFinalText(p, text, after) ==   \* mutant
  /\ provider = p /\ watch /\ Armed /\ turn.final # <<>>
  /\ turn' = after
  /\ Transcript(text, FALSE)
  /\ ghost' = [ghost EXCEPT !.forced = @ \union (ToSet(text) \ ghost.said)]
  /\ UNCHANGED <<client, voice>>

ForceFinalize(p, text, after) ==
  /\ provider = p /\ watch /\ Armed /\ text # <<>>
  /\ turn' = after
  /\ Transcript(text, FALSE)
  /\ ghost' = [ghost EXCEPT !.forced = @ \union (ToSet(text) \ ghost.said)]
  /\ UNCHANGED <<client, voice>>

DeepgramTimeout == ForceFinalize("deepgram", Pending, Reset(turn))
GladiaTimeout == ForceFinalize("gladia", Pending, Reset(turn))
SmallestTimeout == ForceFinalize("smallest", Pending, Reset(turn))
ElevenlabsTimeout == ForceFinalize("elevenlabs", Pending, ElevenReset(turn))
PixaTimeout == ForceFinalize("pixa", turn.final, PixaReset(turn))

(* OpenAI's monitor gives up a committed turn without sending anything. *)
OpenaiTimeout ==
  /\ provider = "openai" /\ watch /\ turn.committed /\ ~turn.sent
  /\ turn' = OpenaiReset(turn)
  /\ UNCHANGED <<client, voice, listener, ghost>>

UtteranceTimeout ==
  \/ DeepgramTimeout \/ GladiaTimeout \/ SmallestTimeout \/ ElevenlabsTimeout
  \/ PixaTimeout \/ OpenaiTimeout

-----------------------------------------------------------------------------
(* sender_stream(): the first packet of audio opens a turn, the end-of-stream  *)
(* packet ends the sender; cut: it closes the websocket itself.                *)
Sender(p, opened, ended, cut) ==
  /\ provider = p /\ stage = "stream" /\ on
  /\ \/ audio = "none" /\ audio' = "sent" /\ turn' = opened /\ UNCHANGED link
     \/ /\ audio = "sent" /\ audio' = "over" /\ turn' = ended
        /\ link' = IF cut /\ link = "open" THEN "ended" ELSE link
  /\ UNCHANGED <<provider, stage, on, watch, error, voice, listener, ghost>>

Opened == [turn EXCEPT !.open = TRUE]
DeepgramSender == Sender("deepgram", Opened, turn, FALSE) \/ Sender("flux", Opened, turn, FALSE)
GladiaSender == Sender("gladia", Opened, turn, TRUE)
SmallestSender == Sender("smallest", BeginTurn(turn), turn, TRUE)
ElevenlabsSender == Sender("elevenlabs", Opened, turn, TRUE)
SarvamSender == Sender("sarvam", turn, turn, FALSE)
AssemblyaiSender == Sender("assemblyai", Opened, turn, FALSE)
PixaSender == Sender("pixa", Opened, turn, FALSE)
OpenaiSender == Sender("openai", turn, [turn EXCEPT !.committed = TRUE], FALSE)
GoogleSender == Sender("google", Opened, turn, FALSE)
AzureSender == Sender("azure", turn, turn, TRUE)

SendAudio ==
  \/ DeepgramSender \/ GladiaSender \/ SmallestSender \/ ElevenlabsSender \/ SarvamSender
  \/ AssemblyaiSender \/ PixaSender \/ OpenaiSender \/ GoogleSender \/ AzureSender

-----------------------------------------------------------------------------
(* transcribe(), what differs between the clients.  watch: it starts the       *)
(* utterance monitor; unmade: connection_error is set when the connection      *)
(* cannot be made; dropped: and when it drops; twice: closed packets of a      *)
(* connection that failed; end: the provider's end of session is passed on as  *)
(* a closed packet of its own; guard: the monitor is cancelled before the      *)
(* websocket is closed.                                                        *)
DeepgramRun == [watch |-> TRUE, unmade |-> TRUE, dropped |-> TRUE, fails |-> 1,
                end |-> FALSE, guard |-> FALSE]
FluxRun == [DeepgramRun EXCEPT !.watch = FALSE]
GladiaRun == [DeepgramRun EXCEPT !.unmade = FALSE, !.end = TRUE]
SmallestRun == [DeepgramRun EXCEPT !.unmade = FALSE, !.end = TRUE]
ElevenlabsRun == [DeepgramRun EXCEPT !.unmade = FALSE]
SarvamRun == [DeepgramRun EXCEPT !.watch = FALSE, !.dropped = FALSE, !.end = TRUE]
AssemblyaiRun == [DeepgramRun EXCEPT !.watch = FALSE, !.unmade = FALSE, !.end = TRUE]
PixaRun == [DeepgramRun EXCEPT !.unmade = FALSE, !.dropped = FALSE, !.guard = TRUE]
OpenaiRun == [DeepgramRun EXCEPT !.dropped = FALSE, !.fails = 2]
GoogleRun == [DeepgramRun EXCEPT !.watch = FALSE]
AzureRun == [DeepgramRun EXCEPT !.watch = FALSE]

Run == CASE provider = "deepgram" -> DeepgramRun
         [] provider = "flux" -> FluxRun
         [] provider = "gladia" -> GladiaRun
         [] provider = "smallest" -> SmallestRun
         [] provider = "elevenlabs" -> ElevenlabsRun
         [] provider = "sarvam" -> SarvamRun
         [] provider = "assemblyai" -> AssemblyaiRun
         [] provider = "pixa" -> PixaRun
         [] provider = "openai" -> OpenaiRun
         [] provider = "google" -> GoogleRun
         [] provider = "azure" -> AzureRun

Connect ==
  /\ stage = "connect"
  /\ stage' = "stream" /\ link' = "open" /\ watch' = Run.watch
  /\ UNCHANGED <<provider, on, audio, error, voice, turn, listener, ghost>>

(* The connection cannot be made (its retries included): toggle_connection()   *)
(* (not azure) and the finally clause, in which nothing has to be closed.      *)
ConnectFails ==
  /\ stage = "connect"
  /\ stage' = "done" /\ on' = (provider = "azure") /\ error' = Run.unmade
  /\ Closed(Run.fails)
  /\ UNCHANGED <<provider, link, watch, audio, voice, turn, ghost>>

(* The provider closes the connection (after the end of the stream, or for     *)
(* reasons of its own), or it drops (external).                                *)
LinkEnds ==
  /\ stage = "stream" /\ link = "open"
  /\ link' \in {"ended", "lost"}
  /\ UNCHANGED <<provider, stage, on, watch, audio, error, voice, turn, listener, ghost>>

(* toggle_connection(): the call hangs up. *)
Toggle ==
  /\ stage = "stream" /\ on
  /\ on' = FALSE /\ watch' = FALSE
  /\ link' = IF link = "open" THEN "ended" ELSE link
  /\ UNCHANGED <<provider, stage, audio, error, voice, turn, listener, ghost>>

SessionGoesOn ==   \* mutant
  /\ stage = "stream" /\ on /\ link = "open" /\ Run.end
  /\ Closed(1)
  /\ UNCHANGED <<provider, stage, link, on, watch, audio, error, voice, turn, ghost>>

(* The provider announces the end of its session, and receiver() returns. *)
SessionEnds ==
  /\ stage = "stream" /\ on /\ link = "open" /\ Run.end
  /\ stage' = "closing" /\ Closed(1)
  /\ UNCHANGED <<provider, link, on, watch, audio, error, voice, turn, ghost>>

(* The receiver's loop ends: the connection is closed or dropped, or a message *)
(* comes while it is being switched off.                                       *)
ReceiverEnds ==
  /\ stage = "stream" /\ link # "open"
  /\ stage' = "closing"
  /\ error' = (error \/ (link = "lost" /\ Run.dropped))
  /\ watch' = (watch /\ ~Run.guard)
  /\ UNCHANGED <<provider, link, on, audio, voice, turn, listener, ghost>>

(* The finally clause, after the websocket is closed: the tasks are cancelled  *)
(* and the closed packet is pushed.                                            *)
Finish ==
  /\ stage = "closing"
  /\ stage' = "done" /\ watch' = FALSE /\ Closed(1)
  /\ UNCHANGED <<provider, link, on, audio, error, voice, turn, ghost>>

Next ==
  \/ Speak \/ SendAudio \/ UtteranceTimeout
  \/ DeepgramReceiver \/ FluxReceiver \/ GladiaReceiver \/ SmallestReceiver
  \/ ElevenlabsReceiver \/ PixaReceiver \/ SarvamReceiver \/ AssemblyaiReceiver
  \/ OpenaiReceiver \/ GoogleReceiver \/ AzureReceiver
  \/ Connect \/ ConnectFails \/ LinkEnds \/ Toggle \/ SessionEnds \/ ReceiverEnds \/ Finish

Spec == Init /\ [][Next]_vars

(* The event loop runs every task that can go on, and a monitor's time passes; *)
(* the caller, the provider and the hangup owe nothing.                        *)
LiveSpec ==
  /\ Spec
  /\ WF_vars(UtteranceTimeout) /\ WF_vars(ReceiverEnds) /\ WF_vars(Finish)
  /\ WF_vars(Connect \/ ConnectFails)

-----------------------------------------------------------------------------
(* Properties.                                                                 *)

Texts == Seq(1..Segments)

(* Every variable has its type. *)
TypeOK ==
  /\ provider \in Providers
  /\ stage \in {"connect", "stream", "closing", "done"}
  /\ link \in {"none", "open", "ended", "lost"}
  /\ on \in BOOLEAN /\ watch \in BOOLEAN /\ error \in BOOLEAN
  /\ audio \in {"none", "sent", "over"}
  /\ voice \in [n : 0..Segments, stage : {"quiet", "talk", "said"}, owed : Texts]
  /\ turn \in [interim : 0..Segments, clock : BOOLEAN, final : Texts, sent : BOOLEAN,
               open : BOOLEAN, active : BOOLEAN, committed : BOOLEAN, eager : BOOLEAN]
  /\ heard \in Texts /\ speaking \in BOOLEAN /\ asked \in {"no", "yes", "stale"}
  /\ closes \in 0..2
  /\ ghost \in [said : SUBSET (1..Segments), forced : SUBSET (1..Segments)]

(* Words the provider has finalised reach the listener or wait in              *)
(* final_transcript: no reset of the turn, by a new utterance, a time limit or *)
(* an end of speech, throws them away.                                         *)
NothingLost == listening => ghost.said \subseteq ToSet(heard) \union ToSet(turn.final)

(* Words are heard twice only if the time limit had sent them before the       *)
(* provider finalised them: the flag is_transcript_sent_for_processing and the *)
(* resets keep the two other ways to send a transcript from repeating it.      *)
RepeatOnlyIfForced ==
  \A i, j \in DOMAIN heard : i < j /\ heard[i] = heard[j] => heard[i] \in ghost.forced

(* The listener hears the segments in the order they were spoken. *)
SpokenOrder == \A i, j \in DOMAIN heard : i < j => heard[i] <= heard[j]

(* The listener hears what the provider has finalised: all of it, in order and *)
(* once, forced ends of an utterance aside.                                    *)
WordsHeard == NothingLost /\ RepeatOnlyIfForced /\ SpokenOrder

(* While a speculative answer is pending the client still owes its verdict: no *)
(* turn of flux ends without the packet that confirms or withdraws it.  (What  *)
(* the listener does with a confirmation it takes for a false interruption is  *)
(* another matter: the answer is then stale, see MCTurnTaking.)                *)
EagerSettled == listening /\ asked = "yes" => turn.eager

(* An utterance the listener has heard the beginning of does not stay open for *)
(* ever when the provider falls silent: the monitor ends it while it is armed, *)
(* and for elevenlabs, whose partial texts arm it, always.                     *)
Monitored ==
  \/ provider = "elevenlabs"
  \/ provider \in {"deepgram", "gladia", "smallest"} /\ Armed /\ Pending # <<>>
  \/ provider = "pixa" /\ Armed /\ turn.final # <<>>
UtteranceSettles == []<>~(speaking /\ Monitored /\ watch /\ listening)

=============================================================================
