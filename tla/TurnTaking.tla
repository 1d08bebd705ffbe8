----------------------------- MODULE TurnTaking -----------------------------
(***************************************************************************)
(* Turn taking inside one voice call of the Bolna runtime: the asyncio     *)
(* tasks of TaskManager that decide which of the agent's audio reaches the *)
(* caller, and InterruptionManager, whose set of valid sequence ids is the *)
(* only thing that stops a superseded answer.                              *)
(*                                                                         *)
(*   handlers    the transcriber listener ("asr") and the DTMF injector    *)
(*               ("dtmf"): every finished utterance becomes a turn         *)
(*   LLM tasks   one asyncio task per turn, named by its first sequence id *)
(*   synthesizer texts in, audio chunks out, in order                      *)
(*   output loop takes chunks from the buffered queue, gates and sends     *)
(*   provider    echoes the marks that were sent with the audio, in order  *)
(*                                                                         *)
(* A step is what one task does between two suspension points.  Time is    *)
(* abstracted: a delay may end at any moment.  The parts of the call that  *)
(* end it (hang-up, transfer, voicemail) are not in this module.           *)
(***************************************************************************)
EXTENDS Integers, Sequences, FiniteSets

CONSTANTS
    MaxSeq,             \* bound: sequence ids handed out
    MaxTexts,           \* bound: texts streamed before the last one of a response
    MaxLong,            \* bound: responses that stream any before the last one
    Handlers,           \* {"asr"} or {"asr", "dtmf"}
    BargeIn,            \* number_of_words_for_interruption # 0
    DiscardPreWelcome,  \* discard_pre_welcome_utterance
    Flux,               \* the transcriber sends eager end-of-turn events
    Tools,              \* the agent has API tools (function calls)
    RepeatAfterSilence, \* repeat_after_silence_seconds is configured
    EmptyTail           \* the LLM stream may end on an empty buffer

ASSUME MaxSeqAssumption == MaxSeq \in Nat \ {0}
ASSUME MaxTextsAssumption == MaxTexts \in Nat /\ MaxLong \in Nat
ASSUME HandlersAssumption == "asr" \in Handlers /\ Handlers \subseteq {"asr", "dtmf"}
ASSUME FlagsAssumption ==
    {BargeIn, DiscardPreWelcome, Flux, Tools, RepeatAfterSilence, EmptyTail} \subseteq BOOLEAN

VARIABLES
    callee_speaking,      \* the caller is heard speaking
    curr_sequence_id,     \* last sequence id handed out
    sequence_ids,         \* ids whose audio may be sent (-1: background audio)
    grace,                \* age of utterance_end_time against incremental_delay
    history,              \* conversation_history, oldest first
    staged,               \* keys of _pending_assistant_history
    eager_snapshot,       \* eager_history_snapshot (-1: None)
    task,                 \* state of the LLM task of a turn
    at,                   \* sequence id the LLM task is generating for: first its own name
    texts,                \* text chunks it has streamed for that id
    llm_task,             \* the task TaskManager refers to (0: None)
    eager_llm_task,       \* the speculative one (0: None)
    awaited,              \* the one the silence watcher awaits (0: none yet)
    response_in_pipeline,
    synthQ,               \* chunks inside _synthesize tasks and the synthesizer
    outQ,                 \* buffered_output_queue
    out,                  \* the output loop and the chunk it holds
    playing,              \* _is_audio_being_played_to_user
    marks,                \* mark_event_meta_data, in the order of the echoes
    welcome_played,
    speech_before_welcome,
    pc,                   \* where each handler is suspended
    turn,                 \* sequence id of the turn it is processing (0: none)
    asr,                  \* protocol state of the transcriber's events
    revoked,              \* history variable: ids an interruption has cancelled
    root                  \* history variable: turn a sequence id belongs to

imVars   == <<callee_speaking, curr_sequence_id, sequence_ids, grace>>
histVars == <<history, staged, eager_snapshot>>
taskVars == <<task, at, texts, llm_task, eager_llm_task, awaited>>
pipeVars == <<response_in_pipeline, synthQ, outQ, out>>
playVars == <<playing, marks, welcome_played, speech_before_welcome>>
handVars == <<pc, turn, asr>>
auxVars  == <<revoked, root>>
vars == <<imVars, histVars, taskVars, pipeVars, playVars, handVars, auxVars>>

Ids   == 1 .. MaxSeq
Words == IF BargeIn THEN {"short", "long"} ELSE {"long"}
Sounds == {"audio", "last"}         \* "last" carries end_of_llm_stream
Chunk == [seq : Ids, kind : Sounds \cup {"end"}]
Mark  == [seq : Ids \cup {-1}, kind : {"pre", "post", "end", "welcome"}]
Entry == [role : {"system", "user", "assistant", "call", "tool"}, seq : Ids \cup {0}]
NoChunk == [seq |-> 0, kind |-> "none"]
Alive == {"generating", "calling", "tool", "checking"}

ManagerType ==
    /\ callee_speaking \in BOOLEAN
    /\ curr_sequence_id \in 0 .. MaxSeq
    /\ sequence_ids \in SUBSET (Ids \cup {-1})
    /\ grace \in {"none", "running", "over"}

HistoryType ==
    /\ history \in Seq(Entry) /\ Len(history) > 1
    /\ staged \in SUBSET Ids
    /\ eager_snapshot \in Nat \cup {-1}

TaskType ==
    /\ task \in [Ids -> Alive \cup {"absent", "over"}]
    /\ at \in [Ids -> Ids]
    /\ texts \in [Ids -> 0 .. MaxTexts]
    /\ llm_task \in Ids \cup {0}
    /\ eager_llm_task \in Ids \cup {0}
    /\ awaited \in Ids \cup {0}

PipelineType ==
    /\ response_in_pipeline \in BOOLEAN
    /\ synthQ \in Seq(Chunk)
    /\ outQ \in Seq(Chunk)
    /\ out \in [pc : {"get", "hold", "sending", "draining"}, chunk : Chunk \cup {NoChunk}]

PlaybackType ==
    /\ playing \in BOOLEAN
    /\ marks \in Seq(Mark)
    /\ welcome_played \in BOOLEAN
    /\ speech_before_welcome \in BOOLEAN

HandlerType ==
    /\ pc \in [Handlers -> {"idle", "clear", "synth"}]
    /\ turn \in [Handlers -> Ids \cup {0}]
    /\ asr \in {"quiet", "speech", "eager"}

AuxType ==
    /\ revoked \in SUBSET Ids
    /\ root \in [Ids -> Ids]

TypeOK ==
    /\ ManagerType
    /\ HistoryType
    /\ TaskType
    /\ PipelineType
    /\ PlaybackType
    /\ HandlerType
    /\ AuxType

(* The call starts with the welcome message in history and on its way to   *)
(* the caller.                                                             *)
Init ==
    /\ callee_speaking = FALSE
    /\ curr_sequence_id = 0
    /\ sequence_ids = {-1}
    /\ grace = "none"
    /\ history = <<[role |-> "system", seq |-> 0], [role |-> "assistant", seq |-> 0]>>
    /\ staged = {}
    /\ eager_snapshot = -1
    /\ task = [i \in Ids |-> "absent"]
    /\ at = [i \in Ids |-> i]
    /\ texts = [i \in Ids |-> 0]
    /\ llm_task = 0
    /\ eager_llm_task = 0
    /\ awaited = 0
    /\ response_in_pipeline = FALSE
    /\ synthQ = <<>>
    /\ outQ = <<>>
    /\ out = [pc |-> "get", chunk |-> NoChunk]
    /\ playing = TRUE
    /\ marks = <<[seq |-> -1, kind |-> "pre"], [seq |-> -1, kind |-> "welcome"]>>
    /\ welcome_played = FALSE
    /\ speech_before_welcome = FALSE
    /\ pc = [h \in Handlers |-> "idle"]
    /\ turn = [h \in Handlers |-> 0]
    /\ asr = "quiet"
    /\ revoked = {}
    /\ root = [i \in Ids |-> i]
-----------------------------------------------------------------------------
(* InterruptionManager and the small predicates of TaskManager.  Here and  *)
(* below, an operator marked "mutant" is a faulty form of the operator     *)
(* that follows it: put in its place, it must break a property.            *)

Registered(s) == sequence_ids \cup {s}
StaleIds == sequence_ids   \* mutant
Invalidated == {-1}
UnchangedIds(ids, s) == ids   \* mutant
OldTaskIds(ids, s) == ids \cup (IF llm_task # 0 THEN {s, at[llm_task]} ELSE {s})   \* mutant
Revalidated(ids, s) == ids \cup {s}
Retired(s) == sequence_ids \ {s}

LastIsUser == history[Len(history)].role = "user"
LlmAlive == llm_task # 0 /\ task[llm_task] \in Alive
Uncancelled(t) == task   \* mutant
Cancel(t) == [i \in Ids |-> IF i \in t /\ task[i] \in Alive THEN "over" ELSE task[i]]

(* What an invalidation revokes: the ids of turns being set up are about   *)
(* to be validated again and are not counted.                              *)
Cut(keep) == (sequence_ids \ {-1}) \ keep
Turns == {turn[h] : h \in Handlers}

HasMarkActivity == \E i \in 1 .. Len(marks) : marks[i].kind # "pre" /\ marks[i].seq # -1

EndlessGraceStatus(s) ==   \* mutant
    IF s \notin sequence_ids THEN "BLOCK"
    ELSE IF callee_speaking \/ (Len(history) > 2 /\ grace # "none") THEN "WAIT" ELSE "SEND"
ImpatientStatus(s) ==   \* mutant
    IF s \notin sequence_ids \/ callee_speaking THEN "BLOCK"
    ELSE IF Len(history) > 2 /\ grace = "running" THEN "WAIT" ELSE "SEND"
AudioSendStatus(s) ==
    IF s \notin sequence_ids THEN "BLOCK"
    ELSE IF callee_speaking \/ (Len(history) > 2 /\ grace = "running") THEN "WAIT" ELSE "SEND"

ShouldTriggerInterruption(w) ==
    /\ playing \/ response_in_pipeline
    /\ welcome_played
    /\ BargeIn
    /\ w = "long"

IsFalseInterruption(w) ==
    /\ playing \/ response_in_pipeline
    /\ welcome_played
    /\ w = "short"

(* A response other than turn s is somewhere between the LLM and the ear.  *)
SomethingPending(s) ==
    \/ response_in_pipeline
    \/ playing
    \/ HasMarkActivity
    \/ sequence_ids \ {-1, s} # {}
    \/ LlmAlive
-----------------------------------------------------------------------------
(* _handle_transcriber_output, entered by handler h with the turn s that   *)
(* __get_updated_meta_info has just allocated.                             *)

Allocate(s, r) ==
    /\ curr_sequence_id < MaxSeq
    /\ s = curr_sequence_id + 1
    /\ curr_sequence_id' = s
    /\ root' = [root EXCEPT ![s] = r]

StartLlm(s, tasks) ==
    /\ task' = [tasks EXCEPT ![s] = "generating"]
    /\ llm_task' = s
    /\ response_in_pipeline' = TRUE

UserEntry(s) == [role |-> "user", seq |-> s]

(* pop_and_merge_user: an unanswered user message is taken back and merged *)
Unmerged == IF LastIsUser THEN SubSeq(history, 1, Len(history) - 1) ELSE history

StillWelcoming == ~welcome_played /\ (DiscardPreWelcome \/ Len(history) > 2)
OnlyDuplicates(dup) == dup /\ LastIsUser   \* mutant
IsDropped(dup) == StillWelcoming \/ speech_before_welcome \/ (dup /\ LastIsUser)

DropTurn(dup) ==
    /\ IsDropped(dup)
    /\ speech_before_welcome' = (speech_before_welcome /\ StillWelcoming)
    /\ UNCHANGED <<sequence_ids, history, pc, turn, task, llm_task, response_in_pipeline>>

PreemptForTurn(h, s, dup) ==
    /\ ~IsDropped(dup)
    /\ SomethingPending(s)
    /\ sequence_ids' = Registered(s)
    /\ history' = Unmerged
    /\ pc' = [pc EXCEPT ![h] = "clear"]
    /\ turn' = [turn EXCEPT ![h] = s]
    /\ UNCHANGED <<task, llm_task, response_in_pipeline, speech_before_welcome>>

AnswerTurn(s, dup) ==
    /\ ~IsDropped(dup)
    /\ ~SomethingPending(s)
    /\ sequence_ids' = Registered(s)
    /\ history' = Append(history, UserEntry(s))
    /\ StartLlm(s, task)
    /\ UNCHANGED <<pc, turn, speech_before_welcome>>

TurnArrives(h, s, dup) ==
    /\ Allocate(s, s)
    /\ DropTurn(dup) \/ PreemptForTurn(h, s, dup) \/ AnswerTurn(s, dup)
    /\ UNCHANGED <<staged, eager_snapshot, at, eager_llm_task, awaited, texts, synthQ, outQ,
                   out, playing, marks, welcome_played, revoked>>
-----------------------------------------------------------------------------
(* The transcriber listener.                                               *)

Listening == pc["asr"] = "idle"

SpeechStarted ==
    /\ Listening
    /\ asr = "quiet"
    /\ curr_sequence_id < MaxSeq
    /\ asr' = "speech"
    /\ speech_before_welcome' = (~welcome_played /\ (DiscardPreWelcome \/ speech_before_welcome))
    /\ UNCHANGED <<imVars, histVars, taskVars, pipeVars, playing, marks, welcome_played,
                   pc, turn, auxVars>>

InterimBeforeWelcome ==
    /\ Listening
    /\ asr = "speech"
    /\ ~welcome_played
    /\ DiscardPreWelcome
    /\ speech_before_welcome' = TRUE
    /\ UNCHANGED <<imVars, histVars, taskVars, pipeVars, playing, marks, welcome_played,
                   handVars, auxVars>>

Interim == Listening /\ asr = "speech" /\ welcome_played /\ speech_before_welcome' = FALSE

(* should_trigger_interruption: barge-in.                                  *)
InterimBargesIn(w) ==
    /\ Interim
    /\ ShouldTriggerInterruption(w)
    /\ callee_speaking' = TRUE
    /\ sequence_ids' = Invalidated
    /\ revoked' = revoked \cup Cut(Turns)
    /\ playing' = FALSE
    /\ pc' = [pc EXCEPT !["asr"] = "clear"]
    /\ turn' = [turn EXCEPT !["asr"] = 0]
    /\ UNCHANGED <<curr_sequence_id, grace, histVars, taskVars, pipeVars, marks,
                   welcome_played, asr, root>>

(* The caller goes on within the grace period: the answer was premature.   *)
IsContinuation(w) ==
    /\ sequence_ids # {-1}
    /\ grace = "running"
    /\ Len(history) > 2
    /\ w = "long"

InterimContinues(w) ==
    /\ Interim
    /\ ~ShouldTriggerInterruption(w)
    /\ ~playing
    /\ IsContinuation(w)
    /\ callee_speaking' = TRUE
    /\ grace' = "none"
    /\ pc' = [pc EXCEPT !["asr"] = "clear"]
    /\ turn' = [turn EXCEPT !["asr"] = 0]
    /\ UNCHANGED <<curr_sequence_id, sequence_ids, histVars, taskVars, pipeVars, playing,
                   marks, welcome_played, asr, auxVars>>

InterimSpeaks(w) ==
    /\ Interim
    /\ ~ShouldTriggerInterruption(w)
    /\ \/ ~playing /\ ~IsContinuation(w)
       \/ playing /\ ~BargeIn
    /\ callee_speaking' = TRUE
    /\ UNCHANGED <<curr_sequence_id, sequence_ids, grace, histVars, taskVars, pipeVars,
                   playing, marks, welcome_played, handVars, auxVars>>

(* A few words over the agent's audio are ignored.                         *)
InterimIgnored(w) ==
    /\ Interim
    /\ ~ShouldTriggerInterruption(w)
    /\ playing /\ BargeIn
    /\ UNCHANGED <<imVars, histVars, taskVars, pipeVars, playing, marks, welcome_played,
                   handVars, auxVars>>

SpeechEnded ==
    /\ Listening
    /\ asr = "speech"
    /\ ~Flux
    /\ asr' = "quiet"
    /\ callee_speaking' = FALSE
    /\ speech_before_welcome' = FALSE
    /\ UNCHANGED <<curr_sequence_id, sequence_ids, grace, histVars, taskVars, pipeVars,
                   playing, marks, welcome_played, pc, turn, auxVars>>

EndOfSpeech == Listening /\ asr \in {"speech", "eager"} /\ asr' = "quiet" /\ callee_speaking' = FALSE

FalseInterruption(w) ==
    /\ EndOfSpeech
    /\ IsFalseInterruption(w)
    /\ speech_before_welcome' = FALSE
    /\ UNCHANGED <<curr_sequence_id, sequence_ids, grace, histVars, taskVars, pipeVars,
                   playing, marks, welcome_played, pc, turn, auxVars>>

Transcript(w, dup) ==
    /\ EndOfSpeech
    /\ ~IsFalseInterruption(w)
    /\ ~(asr = "eager" /\ eager_llm_task # 0)
    /\ grace' = "running"
    /\ TurnArrives("asr", curr_sequence_id + 1, dup)

(* The end of turn confirms the speculative answer: it becomes the answer. *)
TranscriptConfirmsEager(w) ==
    /\ EndOfSpeech
    /\ ~IsFalseInterruption(w)
    /\ asr = "eager" /\ eager_llm_task # 0
    /\ grace' = "running"
    /\ IF LlmAlive
       THEN /\ task' = Cancel({llm_task})
            /\ sequence_ids' = Revalidated(Invalidated, eager_llm_task)
            /\ revoked' = revoked \cup Cut(Turns \cup {eager_llm_task})
       ELSE /\ sequence_ids' = Revalidated(sequence_ids, eager_llm_task)
            /\ UNCHANGED <<task, revoked>>
    /\ response_in_pipeline' = TRUE
    /\ llm_task' = eager_llm_task
    /\ eager_llm_task' = 0
    /\ eager_snapshot' = -1
    /\ UNCHANGED <<curr_sequence_id, history, staged, at, texts, awaited, synthQ, outQ, out,
                   playVars, pc, turn, root>>

EagerEndOfTurn ==
    /\ Listening
    /\ Flux
    /\ asr = "speech"
    /\ asr' = "eager"
    /\ IF welcome_played /\ ~playing
       THEN /\ Allocate(curr_sequence_id + 1, curr_sequence_id + 1)
            /\ sequence_ids' = Registered(curr_sequence_id + 1)
            /\ eager_snapshot' = Len(history)
            /\ eager_llm_task' = curr_sequence_id + 1
            /\ task' = [task EXCEPT ![curr_sequence_id + 1] = "generating"]
            /\ history' = Append(history, UserEntry(curr_sequence_id + 1))
       ELSE UNCHANGED <<curr_sequence_id, root, sequence_ids, eager_snapshot, eager_llm_task,
                        task, history>>
    /\ UNCHANGED <<callee_speaking, grace, staged, at, texts, llm_task, awaited, pipeVars, playVars,
                   pc, turn, revoked>>

(* TurnResumed, and the end of a turn that turned out to be empty.         *)
TurnResumed ==
    /\ Listening
    /\ asr = "eager"
    /\ asr' \in {"speech", "quiet"}
    /\ IF eager_llm_task # 0
       THEN /\ task' = Cancel({eager_llm_task})
            /\ eager_llm_task' = 0
            /\ history' = IF eager_snapshot # -1 /\ Len(history) > eager_snapshot
                          THEN SubSeq(history, 1, eager_snapshot) ELSE history
       ELSE UNCHANGED <<task, eager_llm_task, history>>
    /\ UNCHANGED <<imVars, staged, eager_snapshot, at, texts, llm_task, awaited, pipeVars,
                   playVars, pc, turn, auxVars>>

(* Flux drops a turn that ends with an empty transcript: no event at all.  *)
EmptyTurn ==
    /\ Listening
    /\ Flux
    /\ asr = "speech"
    /\ asr' = "quiet"
    /\ UNCHANGED <<imVars, histVars, taskVars, pipeVars, playVars, pc, turn, auxVars>>
-----------------------------------------------------------------------------
(* The DTMF injector: the digits are a finished utterance.                 *)
Digits(dup) ==
    /\ "dtmf" \in Handlers
    /\ pc["dtmf"] = "idle"
    /\ TurnArrives("dtmf", curr_sequence_id + 1, dup)
    /\ UNCHANGED <<callee_speaking, grace, asr>>

(* __check_for_completion: a silent caller is answered like a turn, with   *)
(* nothing cleaned up first; the watcher awaits that answer.               *)
SilenceRepeat ==
    /\ RepeatAfterSilence
    /\ asr = "quiet"
    /\ ~playing /\ ~response_in_pipeline
    /\ awaited # 0 => task[awaited] \notin Alive
    /\ Allocate(curr_sequence_id + 1, curr_sequence_id + 1)
    /\ sequence_ids' = Registered(curr_sequence_id + 1)
    /\ history' = Append(history, UserEntry(curr_sequence_id + 1))
    /\ StartLlm(curr_sequence_id + 1, task)
    /\ awaited' = curr_sequence_id + 1
    /\ UNCHANGED <<callee_speaking, grace, staged, eager_snapshot, at, texts, eager_llm_task,
                   synthQ, outQ, out, playVars, handVars, revoked>>
-----------------------------------------------------------------------------
(* __cleanup_downstream_tasks suspends twice: while the output handler and *)
(* while the synthesizer are told of the interruption (no synthesizer      *)
(* overrides the empty flush_synthesizer_stream).                          *)

(* The provider got "clear": the marks it has not echoed are forgotten.    *)
CleanupClear(h) ==
    /\ pc[h] = "clear"
    /\ pc' = [pc EXCEPT ![h] = "synth"]
    /\ marks' = <<>>
    /\ UNCHANGED <<imVars, histVars, taskVars, pipeVars, playing, welcome_played,
                   speech_before_welcome, turn, asr, auxVars>>

(* The ids are invalidated, the tasks cancelled and the queue replaced;    *)
(* what the synthesizer still delivers of its texts is any prefix.  A turn *)
(* is then answered.                                                       *)
CleanupFinish(h) ==
    LET cancelled == Cancel({llm_task, eager_llm_task}) IN
    /\ pc[h] = "synth"
    /\ pc' = [pc EXCEPT ![h] = "idle"]
    /\ turn' = [turn EXCEPT ![h] = 0]
    /\ revoked' = revoked \cup Cut(Turns)
    /\ staged' = {}
    /\ out' = [pc |-> "get", chunk |-> NoChunk]
    /\ outQ' = <<>>
    /\ \E n \in 0 .. Len(synthQ) : synthQ' = SubSeq(synthQ, 1, n)
    /\ eager_llm_task' = 0
    /\ eager_snapshot' = IF eager_llm_task # 0 THEN -1 ELSE eager_snapshot
    /\ IF turn[h] = 0
       THEN /\ sequence_ids' = Invalidated
            /\ response_in_pipeline' = FALSE
            /\ task' = cancelled
            /\ llm_task' = 0
            /\ UNCHANGED history
       ELSE /\ sequence_ids' = Revalidated(Invalidated, turn[h])
            /\ history' = Append(history, UserEntry(turn[h]))
            /\ StartLlm(turn[h], cancelled)
    /\ UNCHANGED <<callee_speaking, curr_sequence_id, grace, at, texts, awaited, playVars, asr,
                   root>>
-----------------------------------------------------------------------------
(* An LLM task.                                                            *)

Spoken(i, kind) == [seq |-> at[i], kind |-> kind]
ToSynthesizer(chunks) == synthQ' = synthQ \o chunks

Step(i, from, to) == task[i] = from /\ task' = [task EXCEPT ![i] = to]

LlmText(i) ==
    /\ task[i] = "generating"
    /\ texts[i] < MaxTexts /\ Cardinality({j \in Ids : texts[j] > 0} \cup {i}) <= MaxLong
    /\ texts' = [texts EXCEPT ![i] = @ + 1]
    /\ ToSynthesizer(<<Spoken(i, "audio")>>)
    /\ UNCHANGED <<imVars, histVars, task, at, llm_task, eager_llm_task, awaited,
                   response_in_pipeline, outQ, out, playVars, handVars, auxVars>>

LlmFinish(i) ==
    /\ Step(i, "generating", "checking")
    /\ ToSynthesizer(<<Spoken(i, "last"), Spoken(i, "end")>>)
    /\ staged' = staged \cup {at[i]}
    /\ UNCHANGED <<imVars, history, eager_snapshot, at, texts, llm_task, eager_llm_task, awaited,
                   response_in_pipeline, outQ, out, playVars, handVars, auxVars>>

(* The last text is empty and is not handed to the synthesizer, and with   *)
(* it the end_of_llm_stream flag.                                          *)
LlmFinishEmpty(i) ==
    /\ EmptyTail
    /\ Step(i, "generating", "checking")
    /\ staged' = IF texts[i] > 0 THEN staged \cup {at[i]} ELSE staged
    /\ UNCHANGED <<imVars, history, eager_snapshot, at, texts, llm_task, eager_llm_task, awaited,
                   pipeVars, playVars, handVars, auxVars>>

(* Text before a tool call, or its pre-call message.                       *)
LlmPreCall(i) ==
    /\ Tools
    /\ Step(i, "generating", "calling")
    /\ ToSynthesizer(<<Spoken(i, "last"), Spoken(i, "end")>>)
    /\ staged' = staged \cup {at[i]}
    /\ UNCHANGED <<imVars, history, eager_snapshot, at, texts, llm_task, eager_llm_task, awaited,
                   response_in_pipeline, outQ, out, playVars, handVars, auxVars>>

LlmToolCall(i) ==
    /\ Tools
    /\ Step(i, "generating", "tool") \/ Step(i, "calling", "tool")
    /\ staged' = IF texts[i] > 0 THEN staged \cup {at[i]} ELSE staged
    /\ UNCHANGED <<imVars, history, eager_snapshot, at, texts, llm_task, eager_llm_task, awaited,
                   pipeVars, playVars, handVars, auxVars>>

(* attach_tool_calls_to_turn: a placeholder carries the call when the turn *)
(* has no assistant entry yet.                                             *)
HasAssistant(s) == \E k \in 1 .. Len(history) : history[k] = [role |-> "assistant", seq |-> s]
WithCall(s) == IF HasAssistant(s) THEN history ELSE Append(history, [role |-> "call", seq |-> s])

(* The tool has answered: the call and its result enter the history and    *)
(* the response goes on under a sequence id of its own.                    *)
LlmFollowup(i) ==
    LET s == curr_sequence_id + 1 IN
    /\ Step(i, "tool", "generating")
    /\ Allocate(s, root[at[i]])
    /\ sequence_ids' = Registered(s)
    /\ history' = Append(WithCall(at[i]), [role |-> "tool", seq |-> at[i]])
    /\ at' = [at EXCEPT ![i] = s]
    /\ texts' = [texts EXCEPT ![i] = 0]
    /\ UNCHANGED <<callee_speaking, grace, staged, eager_snapshot, llm_task, eager_llm_task, awaited,
                   pipeVars, playVars, handVars, revoked>>

(* The check for completion is over; whichever task ends, llm_task is      *)
(* cleared.                                                                *)
LlmEnd(i) ==
    /\ Step(i, "checking", "over")
    /\ llm_task' = 0
    /\ UNCHANGED <<imVars, histVars, at, texts, eager_llm_task, awaited, pipeVars, playVars, handVars,
                   auxVars>>
-----------------------------------------------------------------------------
(* The synthesizer listener and the output loop.                           *)

SynthEmit ==
    /\ synthQ # <<>>
    /\ synthQ' = Tail(synthQ)
    /\ outQ' = IF Head(synthQ).seq \in sequence_ids THEN Append(outQ, Head(synthQ)) ELSE outQ
    /\ UNCHANGED <<imVars, histVars, taskVars, response_in_pipeline, out, playVars, handVars, auxVars>>

OutputGet ==
    /\ out.pc = "get"
    /\ outQ # <<>>
    /\ out' = [pc |-> "hold", chunk |-> Head(outQ)]
    /\ outQ' = Tail(outQ)
    /\ UNCHANGED <<imVars, histVars, taskVars, response_in_pipeline, synthQ, playVars, handVars, auxVars>>

Approved == out.pc = "hold" /\ AudioSendStatus(out.chunk.seq) = "SEND"

(* _commit_staged_assistant_history pops what it commits.                  *)
KeptStaged(s) == staged   \* mutant
Unstaged(s) == staged \ {s}

OutputSend ==
    LET s == out.chunk.seq IN
    /\ Approved
    /\ history' = IF s \in staged THEN Append(history, [role |-> "assistant", seq |-> s]) ELSE history
    /\ staged' = Unstaged(s)
    /\ playing' = TRUE
    /\ response_in_pipeline' = FALSE
    /\ marks' = IF out.chunk.kind \in Sounds THEN Append(marks, [seq |-> s, kind |-> "pre"]) ELSE marks
    /\ out' = [out EXCEPT !.pc = "sending"]
    /\ UNCHANGED <<imVars, eager_snapshot, taskVars, synthQ, outQ, welcome_played,
                   speech_before_welcome, handVars, auxVars>>

OutputSent ==
    LET s == out.chunk.seq
        final == out.chunk.kind = "end" IN
    /\ out.pc = "sending"
    /\ marks' = Append(marks, [seq |-> s, kind |-> IF final THEN "end" ELSE "post"])
    /\ sequence_ids' = IF final THEN Retired(s) ELSE sequence_ids
    /\ out' = [pc |-> "get", chunk |-> NoChunk]
    /\ UNCHANGED <<callee_speaking, curr_sequence_id, grace, histVars, taskVars,
                   response_in_pipeline, synthQ, outQ, playing, welcome_played,
                   speech_before_welcome, handVars, auxVars>>

(* Discarded; the end of a stream is sent all the same, for its mark.      *)
OutputBlock ==
    LET kind == out.chunk.kind IN
    /\ out.pc = "hold"
    /\ AudioSendStatus(out.chunk.seq) = "BLOCK"
    /\ staged' = Unstaged(out.chunk.seq)
    /\ out' = IF kind = "end" THEN [out EXCEPT !.pc = "draining"]
              ELSE [pc |-> "get", chunk |-> NoChunk]
    /\ marks' = IF kind = "end" THEN Append(marks, [seq |-> out.chunk.seq, kind |-> "end"]) ELSE marks
    /\ response_in_pipeline' = (response_in_pipeline /\ kind # "last")
    /\ UNCHANGED <<imVars, history, eager_snapshot, taskVars, synthQ, outQ, playing, welcome_played,
                   speech_before_welcome, handVars, auxVars>>

OutputDrained ==
    /\ out.pc = "draining"
    /\ response_in_pipeline' = FALSE
    /\ out' = [pc |-> "get", chunk |-> NoChunk]
    /\ UNCHANGED <<imVars, histVars, taskVars, synthQ, outQ, playVars, handVars, auxVars>>

(* The provider has played up to the next mark.                            *)
MarkAck ==
    /\ marks # <<>>
    /\ marks' = Tail(marks)
    /\ CASE Head(marks).kind = "pre" -> playing' = TRUE
         [] Head(marks).kind \in {"end", "welcome"} -> playing' = FALSE
         [] OTHER -> UNCHANGED playing
    /\ welcome_played' = (welcome_played \/ Head(marks).kind = "welcome")
    /\ UNCHANGED <<imVars, histVars, taskVars, pipeVars, speech_before_welcome, handVars, auxVars>>

GraceExpires ==
    /\ grace = "running"
    /\ grace' = "over"
    /\ UNCHANGED <<callee_speaking, curr_sequence_id, sequence_ids, histVars, taskVars, pipeVars,
                   playVars, handVars, auxVars>>
-----------------------------------------------------------------------------
Listener ==
    \/ SpeechStarted
    \/ InterimBeforeWelcome
    \/ \E w \in Words : \/ InterimBargesIn(w)
                         \/ InterimContinues(w)
                         \/ InterimSpeaks(w)
                         \/ InterimIgnored(w)
                         \/ FalseInterruption(w)
                         \/ TranscriptConfirmsEager(w)
                         \/ \E dup \in BOOLEAN : Transcript(w, dup)
    \/ SpeechEnded
    \/ EagerEndOfTurn
    \/ TurnResumed
    \/ EmptyTurn

Cleanup(h) == CleanupClear(h) \/ CleanupFinish(h)

Llm(i) ==
    \/ LlmText(i)
    \/ LlmFinish(i)
    \/ LlmFinishEmpty(i)
    \/ LlmPreCall(i)
    \/ LlmToolCall(i)
    \/ LlmFollowup(i)
    \/ LlmEnd(i)

Output == OutputGet \/ OutputSend \/ OutputSent \/ OutputBlock \/ OutputDrained

Next ==
    \/ Listener
    \/ \E dup \in BOOLEAN : Digits(dup)
    \/ SilenceRepeat
    \/ \E h \in Handlers : Cleanup(h)
    \/ \E i \in Ids : Llm(i)
    \/ SynthEmit
    \/ Output
    \/ MarkAck
    \/ GraceExpires

Spec == Init /\ [][Next]_vars

(* The event loop runs every ready task, the LLM, the synthesizer and the  *)
(* provider answer, time passes, and the caller, who may start to speak at *)
(* any moment and need never do so, stops.  The output loop polls a held   *)
(* chunk every 50 ms: a pause of the caller that recurs is not missed      *)
(* forever.                                                                *)
Fairness ==
    /\ \A h \in Handlers : WF_vars(Cleanup(h))
    /\ \A i \in Ids : WF_vars(LlmFinish(i) \/ LlmEnd(i) \/ LlmFollowup(i) \/ LlmToolCall(i))
    /\ WF_vars(SynthEmit)
    /\ WF_vars(OutputGet \/ OutputSent \/ OutputBlock \/ OutputDrained)
    /\ SF_vars(OutputSend)
    /\ WF_vars(MarkAck)
    /\ WF_vars(GraceExpires)
    /\ WF_vars(SpeechEnded)

LiveSpec == Spec /\ Fairness
-----------------------------------------------------------------------------
(* Safety.                                                                 *)

AllIdle == \A h \in Handlers : pc[h] = "idle"
Replies == {k \in 1 .. Len(history) : history[k].role = "assistant" /\ history[k].seq # 0}

(* A response that an interruption has cancelled is never valid again,     *)
(* whatever validates ids afterwards: invalidate_pending_responses against *)
(* the calls of revalidate_sequence_id.                                    *)
RevokedStaysRevoked == revoked \cap sequence_ids = {}

(* No LLM task runs that neither llm_task nor eager_llm_task refers to: it *)
(* could not be cancelled any more ("Cancel any existing LLM task to       *)
(* prevent orphaned concurrent responses", _handle_transcriber_output).    *)
NoOrphan == \A i \in Ids : task[i] \in Alive => i \in {llm_task, eager_llm_task}

(* While no cleanup is under way, the answer being generated may be sent:  *)
(* the comments in _handle_transcriber_output fear "all audio to be        *)
(* BLOCKed permanently".                                                   *)
AnswerIsValid ==
    AllIdle /\ llm_task # 0 /\ task[llm_task] = "generating" => at[llm_task] \in sequence_ids

(* The answer to a turn never enters the history after the message of a    *)
(* later turn: staging, gate and cleanup together.                         *)
NoReplyAfterNewerTurn ==
    \A k \in Replies : \A j \in 1 .. k :
        history[j].role = "user" => history[j].seq <= root[history[k].seq]

(* While no cleanup is under way, one turn at most has valid ids: two      *)
(* answers cannot be sent at the same time.                                *)
OneChain == AllIdle => \A p, q \in sequence_ids \ {-1} : root[p] = root[q]

(* An answer enters the history once: _commit_staged_assistant_history     *)
(* runs for every chunk that is sent.                                      *)
NoDuplicateReply == \A j, k \in Replies : history[j].seq = history[k].seq => j = k

(* The history has every answer once, and before the messages of later     *)
(* turns (_handle_transcriber_output, _commit_staged_assistant_history).   *)
RepliesInOrder == NoReplyAfterNewerTurn /\ NoDuplicateReply

(* Until the welcome message counts as played, the mark that will make it  *)
(* so is still expected ("so the system doesn't wait for a mark event that *)
(* will never arrive", __forced_first_message).                            *)
WelcomeMarkOutstanding == ~welcome_played => \E k \in 1 .. Len(marks) : marks[k].kind = "welcome"

(* Once the cleanup is over, a response an interruption has invalidated    *)
(* stays silent, follow-ups of its tool calls included ("Invalidates all   *)
(* pending audio", invalidate_pending_responses).                          *)
ChainStaysRevoked == AllIdle => \A q \in sequence_ids \ {-1} : root[q] \notin revoked

(* Liveness.                                                               *)

(* response_in_pipeline is set when an answer starts and is not left set:  *)
(* "Clear it here so subsequent user speech is not permanently treated as  *)
(* an interruption" (__process_output_loop).                               *)
PipelineDrains == response_in_pipeline ~> ~response_in_pipeline

(* Every turn that is given to the LLM is answered in the history, or was  *)
(* cancelled by an interruption.                                           *)
Answered == \A s \in Ids : task[s] # "absent" ~> HasAssistant(s) \/ s \in revoked
=============================================================================
