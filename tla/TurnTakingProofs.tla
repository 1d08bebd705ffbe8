-------------------------- MODULE TurnTakingProofs --------------------------
(***************************************************************************)
(* Theorems about TurnTaking, for every value of its constants.            *)
(***************************************************************************)
EXTENDS TurnTaking, TLAPS

(* The welcome message opens the history and no merge or revert reaches    *)
(* it; the chunk that the output loop gates or sends is a real one.        *)
Opened(h) ==
    /\ h \in Seq(Entry) /\ Len(h) > 1
    /\ h[1].role # "user" /\ h[2].role # "user"
Opening == Opened(history) /\ (eager_snapshot = -1 \/ eager_snapshot > 1)
Holding == out.pc # "get" => out.chunk \in Chunk
TypeInv == TypeOK /\ Opening /\ Holding

(* Ids that an interruption has cancelled or that are valid were handed    *)
(* out, so a new id is neither; the ids of turns being set up and, while   *)
(* the listener is not cleaning up, the id of the speculative answer are   *)
(* validated later: they are not among the cancelled ones.                 *)
HandedOut ==
    /\ revoked \subseteq 1 .. curr_sequence_id
    /\ sequence_ids \ {-1} \subseteq 1 .. curr_sequence_id
    /\ eager_llm_task \in 0 .. curr_sequence_id
    /\ \A h \in Handlers : turn[h] \in 0 .. curr_sequence_id
PendingNotRevoked ==
    /\ \A h \in Handlers : turn[h] \notin revoked
    /\ pc["asr"] = "idle" => eager_llm_task \notin revoked
RevokedInv == HandedOut /\ PendingNotRevoked /\ RevokedStaysRevoked

-----------------------------------------------------------------------------
USE MaxSeqAssumption, MaxTextsAssumption, HandlersAssumption

(* The id that __get_updated_meta_info allocates is one of the ids.       *)
LEMMA NewIdTyped ==
    ManagerType /\ curr_sequence_id < MaxSeq =>
        curr_sequence_id + 1 \in Ids /\ curr_sequence_id + 1 \in 1 .. MaxSeq
  BY DEF ManagerType, Ids

(* What the turns, the replies and the tools append are history entries.  *)
LEMMA EntryTyped ==
    ASSUME NEW s \in Ids \cup {0}
    PROVE  /\ UserEntry(s) \in Entry
           /\ [role |-> "assistant", seq |-> s] \in Entry
           /\ [role |-> "call", seq |-> s] \in Entry
           /\ [role |-> "tool", seq |-> s] \in Entry
  BY DEF UserEntry, Entry

(* Appending an entry keeps the welcome message at the head.              *)
LEMMA OpenedGrows ==
    ASSUME NEW h, Opened(h), NEW e \in Entry
    PROVE  Opened(Append(h, e)) /\ Len(Append(h, e)) > 1
  BY DEF Opened

(* So does a truncation (a merge, a resumed turn) that leaves two entries. *)
LEMMA OpenedCut ==
    ASSUME NEW h, Opened(h), NEW n \in Int, n > 1, n <= Len(h)
    PROVE  Opened(SubSeq(h, 1, n))
<1>1. n \in Nat /\ \A k \in 1 .. n : h[k] \in Entry
  BY DEF Opened
<1>2. SubSeq(h, 1, n) \in Seq(Entry) /\ Len(SubSeq(h, 1, n)) = n
  BY <1>1 DEF Opened
<1>. QED
  BY <1>1, <1>2 DEF Opened

(* pop_and_merge_user takes a user message, never the welcome message.    *)
LEMMA UnmergedOpened == Opened(history) => Opened(Unmerged)
<1>. SUFFICES ASSUME Opened(history), LastIsUser PROVE Opened(SubSeq(history, 1, Len(history) - 1))
  BY DEF Unmerged
<1>1. Len(history) - 1 \in Int /\ Len(history) - 1 > 1 /\ Len(history) - 1 <= Len(history)
  BY DEF Opened, LastIsUser
<1>. QED
  BY <1>1, OpenedCut

(* Cancelling LLM tasks leaves every task in a known state.               *)
LEMMA CancelTyped == TaskType => \A t : Cancel(t) \in [Ids -> Alive \cup {"absent", "over"}]
  BY DEF TaskType, Cancel

(* What an LLM task hands to the synthesizer are chunks.                  *)
LEMMA SpokenTyped ==
    ASSUME TaskType, NEW i \in Ids, NEW kind \in {"audio", "last", "end"}
    PROVE  Spoken(i, kind) \in Chunk
  BY DEF TaskType, Spoken, Chunk, Sounds

(* The synthesizer's queue stays a queue of chunks when chunks are added. *)
LEMMA SynthTyped ==
    ASSUME PipelineType, NEW c \in Chunk, NEW d \in Chunk
    PROVE  synthQ \o <<c>> \in Seq(Chunk) /\ synthQ \o <<c, d>> \in Seq(Chunk)
  BY DEF PipelineType

(* A queue without its head is a queue, and its head an element.          *)
LEMMA SynthCut ==
    ASSUME NEW q \in Seq(Chunk), NEW n \in 0 .. Len(q)
    PROVE  SubSeq(q, 1, n) \in Seq(Chunk)
  OBVIOUS

(* An opened history is of the history's type.                            *)
LEMMA OpenedTyped == \A h : Opened(h) => h \in Seq(Entry) /\ Len(h) > 1
  BY DEF Opened

(* Attaching a tool call and its result keeps the history opened.         *)
LEMMA WithCallOpened ==
    ASSUME Opened(history), NEW s \in Ids
    PROVE  Opened(WithCall(s))
  BY EntryTyped, OpenedGrows DEF WithCall

(* The chunk the output loop holds has an id and a kind.                  *)
LEMMA HeldTyped ==
    ASSUME Holding, out.pc # "get"
    PROVE  out.chunk \in Chunk /\ out.chunk.seq \in Ids /\ out.chunk.kind \in Sounds \cup {"end"}
  BY DEF Holding, Chunk

(* The marks sent for a chunk are marks.                                  *)
LEMMA MarkTyped ==
    ASSUME NEW s \in Ids, NEW kind \in {"pre", "post", "end"}
    PROVE  [seq |-> s, kind |-> kind] \in Mark
  BY DEF Mark

(* An invalidation revokes ids only.                                      *)
LEMMA CutTyped == ManagerType => \A keep : Cut(keep) \in SUBSET Ids
  BY DEF ManagerType, Cut

(* The groups of TypeOK depend on their own variables only.               *)
LEMMA FrameTyped ==
    ASSUME TypeInv
    PROVE  /\ UNCHANGED imVars => ManagerType'
           /\ UNCHANGED histVars => HistoryType' /\ Opening'
           /\ UNCHANGED taskVars => TaskType'
           /\ UNCHANGED pipeVars => PipelineType' /\ Holding'
           /\ UNCHANGED playVars => PlaybackType'
           /\ UNCHANGED handVars => HandlerType'
           /\ UNCHANGED auxVars => AuxType'
<1>. USE DEF TypeInv, TypeOK
<1>1. UNCHANGED imVars => ManagerType'
  BY DEF imVars, ManagerType
<1>2. UNCHANGED histVars => HistoryType' /\ Opening'
  BY DEF histVars, HistoryType, Opening, Opened
<1>3. UNCHANGED taskVars => TaskType'
  BY DEF taskVars, TaskType
<1>4. UNCHANGED pipeVars => PipelineType' /\ Holding'
  BY DEF pipeVars, PipelineType, Holding
<1>5. UNCHANGED playVars => PlaybackType'
  BY DEF playVars, PlaybackType
<1>6. UNCHANGED handVars => HandlerType'
  BY DEF handVars, HandlerType
<1>7. UNCHANGED auxVars => AuxType'
  BY DEF auxVars, AuxType
<1>. QED
  BY <1>1, <1>2, <1>3, <1>4, <1>5, <1>6, <1>7

(* A turn that _handle_transcriber_output receives keeps the types.       *)
LEMMA TurnArrivesTyped ==
    ASSUME TypeInv, NEW h \in Handlers, NEW dup \in BOOLEAN,
           TurnArrives(h, curr_sequence_id + 1, dup)
    PROVE  /\ curr_sequence_id' \in 0 .. MaxSeq
           /\ sequence_ids' \in SUBSET (Ids \cup {-1})
           /\ HistoryType' /\ Opening'
           /\ TaskType'
           /\ PipelineType' /\ Holding'
           /\ PlaybackType'
           /\ pc' \in [Handlers -> {"idle", "clear", "synth"}]
           /\ turn' \in [Handlers -> Ids \cup {0}]
           /\ AuxType'
<1>. DEFINE s == curr_sequence_id + 1
<1>. USE DEF TypeInv, TypeOK, TurnArrives
<1>1. s \in Ids /\ curr_sequence_id' \in 0 .. MaxSeq
  BY NewIdTyped DEF Allocate
<1>2. AuxType'
  BY <1>1 DEF Allocate, AuxType
<1>3. UNCHANGED <<synthQ, outQ, out, playing, marks, welcome_played>>
  OBVIOUS
<1>4. CASE DropTurn(dup)
  <2>1. UNCHANGED <<sequence_ids, histVars, taskVars, pipeVars, pc, turn>>
    BY <1>4 DEF DropTurn, histVars, taskVars, pipeVars
  <2>2. PlaybackType'
    BY <1>3, <1>4 DEF DropTurn, PlaybackType
  <2>. QED
    BY <1>1, <1>2, <2>1, <2>2, FrameTyped DEF ManagerType, HandlerType
<1>5. CASE PreemptForTurn(h, s, dup)
  <2>1. UNCHANGED <<taskVars, pipeVars, playVars>>
    BY <1>5 DEF PreemptForTurn, taskVars, pipeVars, playVars
  <2>2. history' = Unmerged /\ UNCHANGED <<staged, eager_snapshot>>
    BY <1>5 DEF PreemptForTurn
  <2>3. HistoryType' /\ Opening'
    BY <2>2, UnmergedOpened, OpenedTyped DEF HistoryType, Opening
  <2>. QED
    BY <1>1, <1>2, <1>5, <2>1, <2>3, FrameTyped DEF PreemptForTurn, Registered, ManagerType, HandlerType
<1>6. CASE AnswerTurn(s, dup)
  <2>1. UNCHANGED <<playVars, pc, turn>>
    BY <1>6 DEF AnswerTurn, playVars
  <2>2. history' = Append(history, UserEntry(s)) /\ UNCHANGED <<staged, eager_snapshot>>
    BY <1>6 DEF AnswerTurn
  <2>3. HistoryType' /\ Opening'
    BY <1>1, <2>2, EntryTyped, OpenedGrows, OpenedTyped DEF HistoryType, Opening
  <2>4. TaskType'
    BY <1>1, <1>6 DEF AnswerTurn, StartLlm, TaskType, Alive
  <2>5. PipelineType' /\ Holding'
    BY <1>3, <1>6 DEF AnswerTurn, StartLlm, PipelineType, Holding
  <2>. QED
    BY <1>1, <1>2, <1>6, <2>1, <2>3, <2>4, <2>5, FrameTyped
       DEF AnswerTurn, Registered, ManagerType, HandlerType
<1>. QED
  BY <1>4, <1>5, <1>6

(* Every step keeps the strengthened type invariant.                      *)
LEMMA TypeInvStep == TypeInv /\ [Next]_vars => TypeInv'
<1>. SUFFICES ASSUME TypeInv, [Next]_vars PROVE TypeInv'
  OBVIOUS
<1>. USE DEF TypeInv, TypeOK
<1>1. CASE SpeechStarted
  <2>. USE <1>1 DEF SpeechStarted, Listening
  <2>1. PlaybackType'
    BY DEF PlaybackType, playVars
  <2>2. HandlerType'
    BY DEF HandlerType, handVars
  <2>. QED
    BY FrameTyped, <2>1, <2>2
<1>2. CASE InterimBeforeWelcome
  <2>. USE <1>2 DEF InterimBeforeWelcome, Listening
  <2>1. PlaybackType'
    BY DEF PlaybackType, playVars
  <2>. QED
    BY FrameTyped, <2>1
<1>3. ASSUME NEW w \in Words, InterimBargesIn(w) PROVE TypeInv'
  <2>. USE <1>3 DEF InterimBargesIn, Invalidated, Interim, Listening
  <2>1. ManagerType'
    BY DEF ManagerType, imVars, TaskType, HandlerType
  <2>2. PlaybackType'
    BY DEF PlaybackType, playVars
  <2>3. HandlerType'
    BY DEF HandlerType, handVars
  <2>4. AuxType'
    BY CutTyped DEF AuxType, auxVars
  <2>. QED
    BY FrameTyped, <2>1, <2>2, <2>3, <2>4
<1>4. ASSUME NEW w \in Words, InterimContinues(w) PROVE TypeInv'
  <2>. USE <1>4 DEF InterimContinues, Interim, Listening
  <2>1. ManagerType'
    BY DEF ManagerType, imVars, TaskType, HandlerType
  <2>2. PlaybackType'
    BY DEF PlaybackType, playVars
  <2>3. HandlerType'
    BY DEF HandlerType, handVars
  <2>. QED
    BY FrameTyped, <2>1, <2>2, <2>3
<1>5. ASSUME NEW w \in Words, InterimSpeaks(w) PROVE TypeInv'
  <2>. USE <1>5 DEF InterimSpeaks, Interim, Listening
  <2>1. ManagerType'
    BY DEF ManagerType, imVars, TaskType, HandlerType
  <2>2. PlaybackType'
    BY DEF PlaybackType, playVars
  <2>. QED
    BY FrameTyped, <2>1, <2>2
<1>6. ASSUME NEW w \in Words, InterimIgnored(w) PROVE TypeInv'
  <2>. USE <1>6 DEF InterimIgnored, Interim, Listening
  <2>1. PlaybackType'
    BY DEF PlaybackType, playVars
  <2>. QED
    BY FrameTyped, <2>1
<1>7. ASSUME NEW w \in Words, FalseInterruption(w) PROVE TypeInv'
  <2>. USE <1>7 DEF FalseInterruption, EndOfSpeech, Listening
  <2>1. ManagerType'
    BY DEF ManagerType, imVars, TaskType, HandlerType
  <2>2. PlaybackType'
    BY DEF PlaybackType, playVars
  <2>3. HandlerType'
    BY DEF HandlerType, handVars
  <2>. QED
    BY FrameTyped, <2>1, <2>2, <2>3
<1>8. ASSUME NEW w \in Words, TranscriptConfirmsEager(w) PROVE TypeInv'
  <2>. USE <1>8 DEF TranscriptConfirmsEager, Invalidated, Revalidated, EndOfSpeech, Listening
  <2>1. ManagerType'
    BY DEF ManagerType, imVars, TaskType, HandlerType
  <2>2. HistoryType' /\ Opening'
    BY OpenedTyped DEF HistoryType, histVars, Opening, TaskType
  <2>3. TaskType'
    BY CancelTyped DEF TaskType, taskVars, Alive
  <2>4. PipelineType' /\ Holding'
    BY DEF PipelineType, pipeVars, Holding
  <2>5. HandlerType'
    BY DEF HandlerType, handVars
  <2>6. AuxType'
    BY CutTyped DEF AuxType, auxVars
  <2>. QED
    BY FrameTyped, <2>1, <2>2, <2>3, <2>4, <2>5, <2>6
<1>9. ASSUME NEW w \in Words, NEW dup \in BOOLEAN, Transcript(w, dup) PROVE TypeInv'
  <2>1. ManagerType'
    BY <1>9, TurnArrivesTyped, HandlersAssumption DEF Transcript, EndOfSpeech, ManagerType
  <2>2. HandlerType'
    BY <1>9, TurnArrivesTyped, HandlersAssumption DEF Transcript, EndOfSpeech, HandlerType
  <2>. QED
    BY <1>9, <2>1, <2>2, TurnArrivesTyped, HandlersAssumption DEF Transcript
<1>10. CASE SpeechEnded
  <2>. USE <1>10 DEF SpeechEnded, Listening
  <2>1. ManagerType'
    BY DEF ManagerType, imVars, TaskType, HandlerType
  <2>2. PlaybackType'
    BY DEF PlaybackType, playVars
  <2>3. HandlerType'
    BY DEF HandlerType, handVars
  <2>. QED
    BY FrameTyped, <2>1, <2>2, <2>3
<1>11. CASE EagerEndOfTurn
  <2>. USE <1>11 DEF EagerEndOfTurn, Registered, Allocate, Listening
  <2>1. ManagerType'
    BY NewIdTyped DEF ManagerType, imVars, TaskType, HandlerType
  <2>2. HistoryType' /\ Opening'
    <3>1. CASE welcome_played /\ ~playing
      <4>1. UserEntry(curr_sequence_id + 1) \in Entry
        BY <3>1, NewIdTyped, EntryTyped
      <4>2. /\ history' = Append(history, UserEntry(curr_sequence_id + 1))
            /\ eager_snapshot' = Len(history) /\ UNCHANGED staged
        BY <3>1
      <4>3. Opened(history') /\ Len(history) \in Nat /\ Len(history) > 1
        BY <4>1, <4>2, OpenedGrows, OpenedTyped DEF Opening
      <4>. QED
        BY <4>2, <4>3, OpenedTyped DEF HistoryType, Opening
    <3>2. CASE ~(welcome_played /\ ~playing)
      BY <3>2, FrameTyped DEF histVars
    <3>. QED
      BY <3>1, <3>2
  <2>3. TaskType'
    BY NewIdTyped DEF TaskType, taskVars, Alive
  <2>4. HandlerType'
    BY NewIdTyped DEF HandlerType, handVars
  <2>5. AuxType'
    BY NewIdTyped DEF AuxType, auxVars
  <2>. QED
    BY FrameTyped, <2>1, <2>2, <2>3, <2>4, <2>5
<1>12. CASE TurnResumed
  <2>. USE <1>12 DEF TurnResumed, Listening
  <2>1. HistoryType' /\ Opening'
    <3>1. CASE history' = SubSeq(history, 1, eager_snapshot)
               /\ eager_snapshot # -1 /\ Len(history) > eager_snapshot
      <4>1. eager_snapshot \in Int /\ eager_snapshot > 1 /\ eager_snapshot <= Len(history)
        BY <3>1, OpenedTyped DEF HistoryType, Opening
      <4>2. Opened(history')
        BY <3>1, <4>1, OpenedCut DEF Opening
      <4>. QED
        BY <4>2, OpenedTyped DEF HistoryType, Opening
    <3>2. CASE UNCHANGED history
      BY <3>2, FrameTyped DEF histVars
    <3>. QED
      BY <3>1, <3>2
  <2>2. TaskType'
    BY CancelTyped DEF TaskType, taskVars, Alive
  <2>3. HandlerType'
    BY DEF HandlerType, handVars
  <2>. QED
    BY FrameTyped, <2>1, <2>2, <2>3
<1>13. CASE EmptyTurn
  <2>. USE <1>13 DEF EmptyTurn, Listening
  <2>1. HandlerType'
    BY DEF HandlerType, handVars
  <2>. QED
    BY FrameTyped, <2>1
<1>14. ASSUME NEW dup \in BOOLEAN, Digits(dup) PROVE TypeInv'
  <2>1. ManagerType'
    BY <1>14, TurnArrivesTyped DEF Digits, ManagerType
  <2>2. HandlerType'
    BY <1>14, TurnArrivesTyped DEF Digits, HandlerType
  <2>. QED
    BY <1>14, <2>1, <2>2, TurnArrivesTyped DEF Digits
<1>15. CASE SilenceRepeat
  <2>. USE <1>15 DEF SilenceRepeat, Registered, Allocate, StartLlm
  <2>1. ManagerType'
    BY NewIdTyped DEF ManagerType, imVars, TaskType, HandlerType
  <2>2. HistoryType' /\ Opening'
    BY NewIdTyped, EntryTyped, OpenedGrows, OpenedTyped DEF HistoryType, histVars, Opening, TaskType
  <2>3. TaskType'
    BY NewIdTyped DEF TaskType, taskVars, Alive
  <2>4. PipelineType' /\ Holding'
    BY NewIdTyped DEF PipelineType, pipeVars, Holding
  <2>5. AuxType'
    BY NewIdTyped DEF AuxType, auxVars
  <2>. QED
    BY FrameTyped, <2>1, <2>2, <2>3, <2>4, <2>5
<1>16. ASSUME NEW h \in Handlers, CleanupClear(h) PROVE TypeInv'
  <2>. USE <1>16 DEF CleanupClear
  <2>1. PlaybackType'
    BY DEF PlaybackType, playVars
  <2>2. HandlerType'
    BY DEF HandlerType, handVars
  <2>. QED
    BY FrameTyped, <2>1, <2>2
<1>17. ASSUME NEW h \in Handlers, CleanupFinish(h) PROVE TypeInv'
  <2>. USE <1>17 DEF CleanupFinish, Invalidated, Revalidated, StartLlm
  <2>1. ManagerType'
    BY DEF ManagerType, imVars, TaskType, HandlerType
  <2>0. turn[h] \in Ids \cup {0}
    BY DEF HandlerType
  <2>2. HistoryType' /\ Opening'
    <3>1. Opened(history')
      <4>1. CASE turn[h] = 0
        BY <4>1 DEF Opening
      <4>2. CASE turn[h] # 0
        <5>1. history' = Append(history, UserEntry(turn[h])) /\ UserEntry(turn[h]) \in Entry
          BY <2>0, <4>2, EntryTyped
        <5>. QED
          BY <5>1, OpenedGrows DEF Opening
      <4>. QED
        BY <4>1, <4>2
    <3>2. staged' = {} /\ eager_snapshot' \in {-1, eager_snapshot}
      OBVIOUS
    <3>. QED
      BY <3>1, <3>2, OpenedTyped DEF HistoryType, Opening
  <2>3. TaskType'
    <3>. DEFINE cancelled == Cancel({llm_task, eager_llm_task})
    <3>1. cancelled \in [Ids -> Alive \cup {"absent", "over"}]
      BY CancelTyped
    <3>2. eager_llm_task' = 0 /\ UNCHANGED <<at, texts, awaited>>
      OBVIOUS
    <3>3. CASE turn[h] = 0
      <4>1. task' = cancelled /\ llm_task' = 0
        BY <3>3
      <4>. QED
        BY <3>1, <3>2, <4>1 DEF TaskType
    <3>4. CASE turn[h] # 0
      <4>1. task' = [cancelled EXCEPT ![turn[h]] = "generating"] /\ llm_task' = turn[h]
        BY <3>4
      <4>. HIDE DEF cancelled
      <4>. QED
        BY <2>0, <3>1, <3>2, <3>4, <4>1 DEF TaskType, Alive
    <3>. QED
      BY <3>3, <3>4
  <2>4. PipelineType' /\ Holding'
    <3>1. synthQ' \in Seq(Chunk)
      <4>1. PICK n \in 0 .. Len(synthQ) : synthQ' = SubSeq(synthQ, 1, n)
        OBVIOUS
      <4>. QED
        BY <4>1, SynthCut DEF PipelineType
    <3>2. out' = [pc |-> "get", chunk |-> NoChunk] /\ outQ' = <<>>
      OBVIOUS
    <3>3. response_in_pipeline' \in BOOLEAN
      BY DEF PipelineType
    <3>. QED
      BY <3>1, <3>2, <3>3 DEF PipelineType, Holding
  <2>5. HandlerType'
    BY DEF HandlerType, handVars
  <2>6. AuxType'
    BY CutTyped DEF AuxType, auxVars
  <2>. QED
    BY FrameTyped, <2>1, <2>2, <2>3, <2>4, <2>5, <2>6
<1>18. ASSUME NEW i \in Ids, LlmText(i) PROVE TypeInv'
  <2>. USE <1>18 DEF LlmText, ToSynthesizer
  <2>1. TaskType'
    BY DEF TaskType, taskVars, Alive
  <2>2. PipelineType' /\ Holding'
    BY SpokenTyped, SynthTyped DEF PipelineType, pipeVars, Holding
  <2>. QED
    BY FrameTyped, <2>1, <2>2
<1>19. ASSUME NEW i \in Ids, LlmFinish(i) PROVE TypeInv'
  <2>. USE <1>19 DEF LlmFinish, Step, ToSynthesizer
  <2>1. HistoryType' /\ Opening'
    BY OpenedTyped DEF HistoryType, histVars, Opening, TaskType
  <2>2. TaskType'
    BY DEF TaskType, taskVars, Alive
  <2>3. PipelineType' /\ Holding'
    BY SpokenTyped, SynthTyped DEF PipelineType, pipeVars, Holding
  <2>. QED
    BY FrameTyped, <2>1, <2>2, <2>3
<1>20. ASSUME NEW i \in Ids, LlmFinishEmpty(i) PROVE TypeInv'
  <2>. USE <1>20 DEF LlmFinishEmpty, Step
  <2>1. HistoryType' /\ Opening'
    BY OpenedTyped DEF HistoryType, histVars, Opening, TaskType
  <2>2. TaskType'
    BY DEF TaskType, taskVars, Alive
  <2>. QED
    BY FrameTyped, <2>1, <2>2
<1>21. ASSUME NEW i \in Ids, LlmPreCall(i) PROVE TypeInv'
  <2>. USE <1>21 DEF LlmPreCall, Step, ToSynthesizer
  <2>1. HistoryType' /\ Opening'
    BY OpenedTyped DEF HistoryType, histVars, Opening, TaskType
  <2>2. TaskType'
    BY DEF TaskType, taskVars, Alive
  <2>3. PipelineType' /\ Holding'
    BY SpokenTyped, SynthTyped DEF PipelineType, pipeVars, Holding
  <2>. QED
    BY FrameTyped, <2>1, <2>2, <2>3
<1>22. ASSUME NEW i \in Ids, LlmToolCall(i) PROVE TypeInv'
  <2>. USE <1>22 DEF LlmToolCall, Step
  <2>1. HistoryType' /\ Opening'
    BY OpenedTyped DEF HistoryType, histVars, Opening, TaskType
  <2>2. TaskType'
    BY DEF TaskType, taskVars, Alive
  <2>. QED
    BY FrameTyped, <2>1, <2>2
<1>23. ASSUME NEW i \in Ids, LlmFollowup(i) PROVE TypeInv'
  <2>. USE <1>23 DEF LlmFollowup, Registered, Allocate, Step
  <2>1. ManagerType'
    BY NewIdTyped DEF ManagerType, imVars, TaskType, HandlerType
  <2>2. HistoryType' /\ Opening'
    BY NewIdTyped, OpenedTyped, EntryTyped, OpenedGrows, WithCallOpened DEF HistoryType, histVars, Opening, TaskType
  <2>3. TaskType'
    BY NewIdTyped DEF TaskType, taskVars, Alive
  <2>4. AuxType'
    BY NewIdTyped DEF AuxType, auxVars, TaskType
  <2>. QED
    BY FrameTyped, <2>1, <2>2, <2>3, <2>4
<1>24. ASSUME NEW i \in Ids, LlmEnd(i) PROVE TypeInv'
  <2>. USE <1>24 DEF LlmEnd, Step
  <2>1. TaskType'
    BY DEF TaskType, taskVars, Alive
  <2>. QED
    BY FrameTyped, <2>1
<1>25. CASE SynthEmit
  <2>. USE <1>25 DEF SynthEmit
  <2>1. PipelineType' /\ Holding'
    BY DEF PipelineType, pipeVars, Holding
  <2>. QED
    BY FrameTyped, <2>1
<1>26. CASE OutputGet
  <2>. USE <1>26 DEF OutputGet
  <2>1. PipelineType' /\ Holding'
    BY DEF PipelineType, pipeVars, Holding
  <2>. QED
    BY FrameTyped, <2>1
<1>27. CASE OutputSend
  <2>. USE <1>27 DEF OutputSend, Unstaged
  <2>1. HistoryType' /\ Opening'
    BY OpenedTyped, HeldTyped, EntryTyped, OpenedGrows DEF HistoryType, histVars, Opening, TaskType, Approved
  <2>2. PipelineType' /\ Holding'
    BY HeldTyped DEF PipelineType, pipeVars, Holding, Approved
  <2>3. PlaybackType'
    <3>1. [seq |-> out.chunk.seq, kind |-> "pre"] \in Mark
      BY HeldTyped, MarkTyped DEF Approved
    <3>2. marks' \in Seq(Mark)
      BY <3>1 DEF PlaybackType
    <3>. QED
      BY <3>2 DEF PlaybackType
  <2>4. AuxType'
    BY HeldTyped DEF AuxType, auxVars, Approved
  <2>. QED
    BY FrameTyped, <2>1, <2>2, <2>3, <2>4
<1>28. CASE OutputSent
  <2>. USE <1>28 DEF OutputSent, Retired
  <2>1. ManagerType'
    BY HeldTyped DEF ManagerType, imVars, TaskType, HandlerType
  <2>2. PipelineType' /\ Holding'
    BY HeldTyped DEF PipelineType, pipeVars, Holding
  <2>3. PlaybackType'
    <3>1. [seq |-> out.chunk.seq, kind |-> IF out.chunk.kind = "end" THEN "end" ELSE "post"] \in Mark
      BY HeldTyped, MarkTyped
    <3>2. marks' \in Seq(Mark)
      BY <3>1 DEF PlaybackType
    <3>. QED
      BY <3>2 DEF PlaybackType
  <2>. QED
    BY FrameTyped, <2>1, <2>2, <2>3
<1>29. CASE OutputBlock
  <2>. USE <1>29 DEF OutputBlock, Unstaged
  <2>1. HistoryType' /\ Opening'
    BY OpenedTyped, HeldTyped DEF HistoryType, histVars, Opening, TaskType
  <2>2. PipelineType' /\ Holding'
    BY HeldTyped DEF PipelineType, pipeVars, Holding
  <2>3. PlaybackType'
    <3>1. [seq |-> out.chunk.seq, kind |-> "end"] \in Mark
      BY HeldTyped, MarkTyped
    <3>2. marks' \in Seq(Mark)
      BY <3>1 DEF PlaybackType
    <3>. QED
      BY <3>2 DEF PlaybackType
  <2>. QED
    BY FrameTyped, <2>1, <2>2, <2>3
<1>30. CASE OutputDrained
  <2>. USE <1>30 DEF OutputDrained
  <2>1. PipelineType' /\ Holding'
    BY DEF PipelineType, pipeVars, Holding
  <2>. QED
    BY FrameTyped, <2>1
<1>31. CASE MarkAck
  <2>. USE <1>31 DEF MarkAck
  <2>1. PlaybackType'
    <3>1. playing' \in BOOLEAN /\ welcome_played' \in BOOLEAN /\ UNCHANGED speech_before_welcome
      BY DEF PlaybackType
    <3>2. marks' \in Seq(Mark)
      BY DEF PlaybackType
    <3>. QED
      BY <3>1, <3>2 DEF PlaybackType
  <2>. QED
    BY FrameTyped, <2>1
<1>32. CASE GraceExpires
  <2>. USE <1>32 DEF GraceExpires
  <2>1. ManagerType'
    BY DEF ManagerType, imVars, TaskType, HandlerType
  <2>. QED
    BY FrameTyped, <2>1
<1>33. CASE UNCHANGED vars
  BY FrameTyped, <1>33 DEF vars
<1>. QED
  BY <1>1, <1>2, <1>3, <1>4, <1>5, <1>6, <1>7, <1>8, <1>9, <1>10, <1>11, <1>12, <1>13, <1>14,
     <1>15, <1>16, <1>17, <1>18, <1>19, <1>20, <1>21, <1>22, <1>23, <1>24, <1>25, <1>26, <1>27,
     <1>28, <1>29, <1>30, <1>31, <1>32, <1>33
     DEF Next, Listener, Cleanup, Llm, Output

(* The strengthened type invariant.                                       *)
LEMMA TypeInvKept == Spec => []TypeInv
<1>1. Init => TypeInv
  <2>. SUFFICES ASSUME Init PROVE TypeInv
    OBVIOUS
  <2>1. ManagerType /\ AuxType
    <3>1. /\ callee_speaking = FALSE /\ curr_sequence_id = 0 /\ sequence_ids = {-1}
          /\ grace = "none"
          /\ revoked = {} /\ root = [i \in Ids |-> i]
      BY DEF Init
    <3>2. callee_speaking \in BOOLEAN
      BY <3>1
    <3>3. curr_sequence_id \in 0 .. MaxSeq /\ sequence_ids \in SUBSET (Ids \cup {-1})
      BY <3>1
    <3>4. AuxType
      BY <3>1 DEF AuxType
    <3>. QED
      BY <3>1, <3>2, <3>3, <3>4 DEF ManagerType
  <2>2. HistoryType /\ Opening
    BY DEF Init, HistoryType, Opening, Opened, Entry
  <2>3. TaskType
    BY DEF Init, TaskType
  <2>4. PipelineType /\ Holding
    <3>1. /\ response_in_pipeline = FALSE /\ synthQ = <<>> /\ outQ = <<>>
          /\ out = [pc |-> "get", chunk |-> NoChunk]
      BY DEF Init
    <3>2. synthQ \in Seq(Chunk) /\ outQ \in Seq(Chunk)
      BY <3>1
    <3>3. out \in [pc : {"get", "hold", "sending", "draining"}, chunk : Chunk \cup {NoChunk}]
      BY <3>1
    <3>4. response_in_pipeline \in BOOLEAN /\ Holding
      BY <3>1 DEF Holding
    <3>. QED
      BY <3>2, <3>3, <3>4 DEF PipelineType
  <2>5. PlaybackType
    <3>1. /\ playing = TRUE /\ welcome_played = FALSE /\ speech_before_welcome = FALSE
          /\ marks = <<[seq |-> -1, kind |-> "pre"], [seq |-> -1, kind |-> "welcome"]>>
      BY DEF Init
    <3>2. marks \in Seq(Mark)
      BY <3>1 DEF Mark
    <3>. QED
      BY <3>1, <3>2 DEF PlaybackType
  <2>6. HandlerType
    BY DEF Init, HandlerType
  <2>. QED
    BY <2>1, <2>2, <2>3, <2>4, <2>5, <2>6 DEF TypeInv, TypeOK
<1>. QED
  BY <1>1, TypeInvStep, PTL DEF Spec

(* Every variable keeps its type: in particular the welcome message is     *)
(* never taken back from the history and no gated chunk is missing.        *)
THEOREM TypeCorrect == Spec => []TypeOK
<1>1. TypeInv => TypeOK
  BY DEF TypeInv
<1>. QED
  BY <1>1, TypeInvKept, PTL
-----------------------------------------------------------------------------
idVars == <<curr_sequence_id, sequence_ids, eager_llm_task, turn, pc, revoked>>

(* Steps that touch no id leave the invariant of the cancelled ids alone. *)
LEMMA FrameRevoked == RevokedInv /\ UNCHANGED idVars => RevokedInv'
  BY DEF RevokedInv, HandedOut, PendingNotRevoked, RevokedStaysRevoked, idVars

(* These steps of the listener touch no id.                               *)
LEMMA QuietListener ==
    ASSUME SpeechStarted \/ InterimBeforeWelcome \/ SpeechEnded \/ EmptyTurn
           \/ \E w \in Words : InterimSpeaks(w) \/ InterimIgnored(w) \/ FalseInterruption(w)
    PROVE  UNCHANGED idVars
  BY DEF SpeechStarted, InterimBeforeWelcome, SpeechEnded, EmptyTurn, InterimSpeaks, InterimIgnored,
         FalseInterruption, idVars, imVars, taskVars, handVars, auxVars

(* These steps of an LLM task touch no id.                                *)
LEMMA QuietLlm ==
    ASSUME NEW i \in Ids,
           \/ LlmText(i) \/ LlmFinish(i) \/ LlmFinishEmpty(i)
           \/ LlmPreCall(i) \/ LlmToolCall(i) \/ LlmEnd(i)
    PROVE  UNCHANGED idVars
  BY DEF LlmText, LlmFinish, LlmFinishEmpty, LlmPreCall, LlmToolCall, LlmEnd, idVars, imVars,
         handVars, auxVars

(* These steps of the output side touch no id.                            *)
LEMMA QuietOutput ==
    ASSUME \/ SynthEmit \/ OutputGet \/ OutputSend \/ OutputBlock \/ OutputDrained
           \/ MarkAck \/ GraceExpires
    PROVE  UNCHANGED idVars
  BY DEF SynthEmit, OutputGet, OutputSend, OutputBlock, OutputDrained, MarkAck, GraceExpires,
         idVars, imVars, taskVars, handVars, auxVars

(* What an invalidation revokes was handed out.                           *)
LEMMA CutHandedOut ==
    ASSUME HandedOut, NEW keep
    PROVE  Cut(keep) \subseteq 1 .. curr_sequence_id /\ \A k \in keep : k \notin Cut(keep)
  BY DEF HandedOut, Cut

(* Every step keeps the invariant of the cancelled ids.                   *)
LEMMA RevokedInvStep == TypeOK /\ RevokedInv /\ [Next]_vars => RevokedInv'
<1>. SUFFICES ASSUME TypeOK, RevokedInv, [Next]_vars PROVE RevokedInv'
  OBVIOUS
<1>. USE DEF RevokedInv, HandedOut, PendingNotRevoked, RevokedStaysRevoked
<1>. DEFINE s == curr_sequence_id + 1
<1>0. /\ curr_sequence_id \in Nat
      /\ s \notin revoked
      /\ pc \in [Handlers -> {"idle", "clear", "synth"}]
      /\ turn \in [Handlers -> Ids \cup {0}]
  BY DEF TypeOK, ManagerType, HandlerType
<1>1. ASSUME NEW w \in Words, InterimBargesIn(w) PROVE RevokedInv'
  <2>1. /\ sequence_ids' = {-1}
        /\ revoked' = revoked \cup Cut(Turns)
        /\ pc'["asr"] = "clear"
        /\ turn' = [turn EXCEPT !["asr"] = 0]
        /\ UNCHANGED <<curr_sequence_id, eager_llm_task>>
    BY <1>0, <1>1 DEF InterimBargesIn, Invalidated, taskVars
  <2>2. \A h \in Handlers : turn[h] \notin Cut(Turns)
    BY CutHandedOut DEF Turns
  <2>3. revoked' \subseteq 1 .. curr_sequence_id
    BY <2>1, CutHandedOut
  <2>4. \A h \in Handlers : turn'[h] \in 0 .. curr_sequence_id /\ turn'[h] \notin revoked'
    BY <1>0, <2>1, <2>2, <2>3
  <2>. QED
    BY <1>0, <2>1, <2>3, <2>4
<1>2. ASSUME NEW w \in Words, InterimContinues(w) PROVE RevokedInv'
  BY <1>0, <1>2 DEF InterimContinues, taskVars, auxVars
<1>3. ASSUME NEW w \in Words, TranscriptConfirmsEager(w) PROVE RevokedInv'
  <2>. DEFINE keep == Turns \cup {eager_llm_task}
  <2>1. /\ eager_llm_task # 0 /\ eager_llm_task \notin revoked
        /\ eager_llm_task' = 0
        /\ UNCHANGED <<curr_sequence_id, turn>>
    BY <1>3 DEF TranscriptConfirmsEager, EndOfSpeech, Listening
  <2>2. \/ sequence_ids' = {-1, eager_llm_task} /\ revoked' = revoked \cup Cut(keep)
        \/ sequence_ids' = sequence_ids \cup {eager_llm_task} /\ UNCHANGED revoked
    BY <1>3 DEF TranscriptConfirmsEager, Revalidated, Invalidated
  <2>3. \A h \in Handlers : turn[h] \notin Cut(keep)
    BY CutHandedOut DEF Turns
  <2>4. eager_llm_task \notin Cut(keep) /\ Cut(keep) \subseteq 1 .. curr_sequence_id
    BY CutHandedOut
  <2>. HIDE DEF keep
  <2>5. eager_llm_task \in 1 .. curr_sequence_id
    BY <2>1
  <2>6. CASE sequence_ids' = {-1, eager_llm_task} /\ revoked' = revoked \cup Cut(keep)
    <3>1. HandedOut'
      <4>1. revoked' \subseteq 1 .. curr_sequence_id
        BY <2>4, <2>6
      <4>2. sequence_ids' \ {-1} \subseteq 1 .. curr_sequence_id
        BY <2>5, <2>6
      <4>. QED
        BY <1>0, <2>1, <4>1, <4>2
    <3>2. PendingNotRevoked'
      BY <1>0, <2>1, <2>3, <2>6, <3>1
    <3>. QED
      BY <2>1, <2>4, <2>6, <3>1, <3>2
  <2>7. CASE sequence_ids' = sequence_ids \cup {eager_llm_task} /\ UNCHANGED revoked
    BY <1>0, <2>1, <2>5, <2>7
  <2>. QED
    BY <2>2, <2>6, <2>7
<1>4. ASSUME NEW h \in Handlers, NEW dup \in BOOLEAN, TurnArrives(h, s, dup) PROVE RevokedInv'
  BY <1>0, <1>4 DEF TurnArrives, Allocate, DropTurn, PreemptForTurn, AnswerTurn, Registered
<1>5. CASE EagerEndOfTurn
  BY <1>0, <1>5 DEF EagerEndOfTurn, Allocate, Registered
<1>6. CASE TurnResumed
  BY <1>0, <1>6 DEF TurnResumed, imVars, auxVars
<1>7. CASE SilenceRepeat
  BY <1>0, <1>7 DEF SilenceRepeat, Allocate, Registered, handVars
<1>8. ASSUME NEW h \in Handlers, CleanupFinish(h) PROVE RevokedInv'
  <2>1. /\ sequence_ids' \subseteq {-1, turn[h]} \ {0}
        /\ revoked' = revoked \cup Cut(Turns)
        /\ eager_llm_task' = 0
        /\ turn' = [turn EXCEPT ![h] = 0]
        /\ UNCHANGED curr_sequence_id
    BY <1>0, <1>8 DEF CleanupFinish, Invalidated, Revalidated
  <2>2. \A g \in Handlers : turn[g] \notin Cut(Turns)
    BY CutHandedOut DEF Turns
  <2>3. revoked' \subseteq 1 .. curr_sequence_id
    BY <2>1, CutHandedOut
  <2>4. \A g \in Handlers : turn'[g] \in 0 .. curr_sequence_id /\ turn'[g] \notin revoked'
    BY <1>0, <2>1, <2>2, <2>3
  <2>5. revoked' \cap sequence_ids' = {}
    BY <1>0, <2>1, <2>2, <2>3
  <2>. QED
    BY <1>0, <2>1, <2>3, <2>4, <2>5
<1>9. ASSUME NEW i \in Ids, LlmFollowup(i) PROVE RevokedInv'
  BY <1>0, <1>9 DEF LlmFollowup, Allocate, Registered, handVars
<1>10. CASE OutputSent
  <2>1. sequence_ids' \subseteq sequence_ids
    BY <1>10 DEF OutputSent, Retired
  <2>2. UNCHANGED <<curr_sequence_id, eager_llm_task, turn, pc, revoked>>
    BY <1>10 DEF OutputSent, taskVars, handVars, auxVars
  <2>. QED
    BY <2>1, <2>2
<1>11. ASSUME NEW h \in Handlers, CleanupClear(h) PROVE RevokedInv'
  BY <1>0, <1>11 DEF CleanupClear, imVars, taskVars, auxVars
<1>12. CASE \/ SpeechStarted \/ InterimBeforeWelcome \/ SpeechEnded \/ EmptyTurn
            \/ \E w \in Words : InterimSpeaks(w) \/ InterimIgnored(w) \/ FalseInterruption(w)
  BY <1>12, QuietListener, FrameRevoked
<1>13. ASSUME NEW i \in Ids,
              \/ LlmText(i) \/ LlmFinish(i) \/ LlmFinishEmpty(i)
              \/ LlmPreCall(i) \/ LlmToolCall(i) \/ LlmEnd(i)
       PROVE  RevokedInv'
  BY <1>13, QuietLlm, FrameRevoked
<1>14. CASE \/ SynthEmit \/ OutputGet \/ OutputSend \/ OutputBlock \/ OutputDrained
            \/ MarkAck \/ GraceExpires
  BY <1>14, QuietOutput, FrameRevoked
<1>15. CASE UNCHANGED vars
  BY <1>15, FrameRevoked DEF vars, imVars, taskVars, handVars, auxVars, idVars
<1>. QED
  BY <1>1, <1>2, <1>3, <1>4, <1>5, <1>6, <1>7, <1>8, <1>9, <1>10, <1>11, <1>12, <1>13, <1>14,
     <1>15 DEF Next, Listener, Cleanup, Llm, Output, Transcript, Digits

(* An answer that an interruption has cancelled can never be sent again:   *)
(* no later registration, confirmation of a speculative answer or cleanup  *)
(* makes its id valid (InterruptionManager.sequence_ids).                  *)
THEOREM RevokedNeverValid == Spec => []RevokedStaysRevoked
<1>1. Init => RevokedInv
  BY DEF Init, RevokedInv, HandedOut, PendingNotRevoked, RevokedStaysRevoked
<1>2. RevokedInv => RevokedStaysRevoked
  BY DEF RevokedInv
<1>. QED
  BY <1>1, <1>2, TypeCorrect, RevokedInvStep, PTL DEF Spec
-----------------------------------------------------------------------------
(* What the invariants below relate: all but the caller's speech and the   *)
(* clocks.                                                                 *)
coreVars == <<curr_sequence_id, sequence_ids, histVars, taskVars, pipeVars, marks, welcome_played,
              pc, turn, auxVars>>

(* Books of the LLM tasks: a task that was started is named by an id that  *)
(* was handed out and speaks for one; the turn a handler is setting up has *)
(* no task yet, is its own root and is known to that handler only.         *)
Started(i) == task[i] # "absent"
TasksKnown ==
    \A i \in Ids : /\ Started(i) => i <= curr_sequence_id /\ at[i] <= curr_sequence_id
                   /\ ~Started(i) => at[i] = i
TurnsPending ==
    /\ \A h \in Handlers : turn[h] # 0 => /\ pc[h] # "idle"
                                          /\ ~Started(turn[h])
                                          /\ root[turn[h]] = turn[h]
                                          /\ \A i \in Ids : Started(i) => at[i] # turn[h]
    /\ \A g, h \in Handlers : turn[g] # 0 /\ turn[g] = turn[h] => g = h
NewRoots == \A i \in Ids : i > curr_sequence_id => root[i] = i
BookInv == TasksKnown /\ TurnsPending /\ NewRoots

(* These steps of the listener and of the clock touch none of it.         *)
LEMMA CoreQuiet ==
    ASSUME \/ SpeechStarted \/ InterimBeforeWelcome \/ SpeechEnded \/ EmptyTurn \/ GraceExpires
           \/ \E w \in Words : InterimSpeaks(w) \/ InterimIgnored(w) \/ FalseInterruption(w)
    PROVE  UNCHANGED coreVars /\ asr' \in {asr, "quiet", "speech"}
  BY DEF SpeechStarted, InterimBeforeWelcome, SpeechEnded, EmptyTurn, GraceExpires, InterimSpeaks,
         InterimIgnored, FalseInterruption, Interim, EndOfSpeech, coreVars, imVars, histVars, taskVars,
         pipeVars, playVars, handVars, auxVars

(* The steps of an LLM task, but for the follow-up of a tool call, advance *)
(* that task and leave the ids and the other tasks alone; they are taken   *)
(* by a task that was not cancelled.                                       *)
LEMMA LlmAdvances ==
    ASSUME TypeOK, NEW i \in Ids,
           \/ LlmText(i) \/ LlmFinish(i) \/ LlmFinishEmpty(i)
           \/ LlmPreCall(i) \/ LlmToolCall(i) \/ LlmEnd(i)
    PROVE  /\ UNCHANGED <<imVars, history, at, eager_llm_task, outQ, out, playVars, handVars, auxVars>>
           /\ task[i] \in Alive
           /\ task'[i] \in Alive \cup {"over"}
           /\ \A j \in Ids : j # i => task'[j] = task[j]
           /\ UNCHANGED llm_task \/ (llm_task' = 0 /\ task'[i] = "over")
           /\ task'[i] = "generating" => task[i] = "generating"
<1>. USE DEF TypeOK, TaskType, Alive, Step
<1>1. CASE LlmText(i)
  BY <1>1 DEF LlmText, histVars, pipeVars
<1>2. CASE LlmFinish(i)
  BY <1>2 DEF LlmFinish
<1>3. CASE LlmFinishEmpty(i)
  BY <1>3 DEF LlmFinishEmpty, pipeVars
<1>4. CASE LlmPreCall(i)
  BY <1>4 DEF LlmPreCall
<1>5. CASE LlmToolCall(i)
  BY <1>5 DEF LlmToolCall, pipeVars
<1>6. CASE LlmEnd(i)
  BY <1>6 DEF LlmEnd, histVars, pipeVars
<1>. QED
  BY <1>1, <1>2, <1>3, <1>4, <1>5, <1>6

(* The output side leaves tasks, turns and roots alone; it only retires    *)
(* ids, and what it appends to the history are replies it was allowed to   *)
(* send.                                                                   *)
LEMMA OutputAdvances ==
    ASSUME SynthEmit \/ Output \/ MarkAck
    PROVE  /\ UNCHANGED <<curr_sequence_id, taskVars, handVars, auxVars>>
           /\ sequence_ids' \subseteq sequence_ids
  BY DEF SynthEmit, Output, OutputGet, OutputSend, OutputSent, OutputBlock, OutputDrained, MarkAck,
         imVars, Retired

(* Cancelling keeps what was started, and cancels what it names.          *)
LEMMA Cancelled ==
    ASSUME TypeOK, NEW t
    PROVE  /\ Cancel(t) \in [Ids -> Alive \cup {"absent", "over"}]
           /\ \A i \in Ids : Cancel(t)[i] = "absent" <=> task[i] = "absent"
           /\ \A i \in Ids : Cancel(t)[i] \in Alive => Cancel(t)[i] = task[i] /\ i \notin t
  BY CancelTyped DEF Cancel, Alive, TypeOK, TaskType

(* The books stay in order as long as nothing is started or allocated.    *)
LEMMA FrameBook ==
    ASSUME BookInv, UNCHANGED <<curr_sequence_id, at, turn, root>>,
           \A h \in Handlers : turn[h] # 0 => pc'[h] # "idle",
           \A i \in Ids : task'[i] = "absent" <=> task[i] = "absent",
           TypeOK
    PROVE  BookInv'
<1>1. \A h \in Handlers : turn[h] \in Ids \cup {0}
  BY DEF TypeOK, HandlerType
<1>. QED
  BY <1>1 DEF BookInv, TasksKnown, TurnsPending, NewRoots, Started

(* Every step keeps the books.                                            *)
LEMMA BookInvStep == TypeOK /\ RevokedInv /\ BookInv /\ [Next]_vars => BookInv'
<1>. SUFFICES ASSUME TypeOK, RevokedInv, BookInv, [Next]_vars PROVE BookInv'
  OBVIOUS
<1>. DEFINE s == curr_sequence_id + 1
<1>0. /\ curr_sequence_id \in 0 .. MaxSeq
      /\ pc \in [Handlers -> {"idle", "clear", "synth"}]
      /\ turn \in [Handlers -> Ids \cup {0}]
      /\ task \in [Ids -> Alive \cup {"absent", "over"}]
      /\ at \in [Ids -> Ids] /\ root \in [Ids -> Ids]
      /\ \A h \in Handlers : turn[h] <= curr_sequence_id
  BY DEF TypeOK, ManagerType, HandlerType, TaskType, AuxType, RevokedInv, HandedOut
<1>01. curr_sequence_id \in Int /\ \A i \in Ids : i \in Int
  BY <1>0 DEF Ids
<1>00. curr_sequence_id < s /\ \A h \in Handlers : turn[h] # s
  BY <1>0
<1>. USE DEF BookInv, TasksKnown, TurnsPending, NewRoots, Started
<1>1. CASE UNCHANGED coreVars
  BY <1>1, FrameBook DEF coreVars, taskVars, auxVars
<1>2. ASSUME NEW w \in Words, InterimBargesIn(w) \/ InterimContinues(w) PROVE BookInv'
  <2>1. /\ UNCHANGED <<curr_sequence_id, at, root, task>>
        /\ pc' = [pc EXCEPT !["asr"] = "clear"] /\ turn' = [turn EXCEPT !["asr"] = 0]
    BY <1>2 DEF InterimBargesIn, InterimContinues, taskVars, auxVars
  <2>. QED
    BY <1>0, <2>1
<1>3. ASSUME NEW w \in Words, TranscriptConfirmsEager(w) PROVE BookInv'
  <2>1. UNCHANGED <<curr_sequence_id, at, pc, turn, root>>
    BY <1>3 DEF TranscriptConfirmsEager
  <2>2. task' = task \/ task' = Cancel({llm_task})
    BY <1>3 DEF TranscriptConfirmsEager
  <2>. QED
    BY <2>1, <2>2, Cancelled, FrameBook
<1>4. ASSUME NEW h \in Handlers, NEW dup \in BOOLEAN, pc[h] = "idle", TurnArrives(h, s, dup)
      PROVE  BookInv'
  <2>1. /\ s \in Ids /\ curr_sequence_id' = s
        /\ root' = [root EXCEPT ![s] = s] /\ UNCHANGED at
    BY <1>4, NewIdTyped DEF TurnArrives, Allocate, TypeOK
  <2>5. NewRoots' /\ \A i \in Ids : i # s => root'[i] = root[i]
    BY <1>0, <1>01, <2>1
  <2>2. CASE DropTurn(dup)
    <3>1. UNCHANGED <<task, pc, turn>>
      BY <2>2 DEF DropTurn
    <3>2. TasksKnown'
      BY <1>0, <1>01, <2>1, <3>1
    <3>3. TurnsPending'
      BY <1>0, <1>00, <2>1, <2>5, <3>1
    <3>. QED
      BY <2>5, <3>2, <3>3
  <2>3. CASE PreemptForTurn(h, s, dup)
    <3>1. /\ pc' = [pc EXCEPT ![h] = "clear"] /\ turn' = [turn EXCEPT ![h] = s]
          /\ UNCHANGED task
      BY <2>3 DEF PreemptForTurn
    <3>2. TasksKnown'
      BY <1>0, <1>01, <2>1, <3>1
    <3>3. \A g \in Handlers : turn'[g] # 0 =>
             \/ g = h /\ turn'[g] = s
             \/ g # h /\ turn'[g] = turn[g] /\ turn[g] # s /\ pc'[g] = pc[g]
      BY <1>0, <1>00, <3>1
    <3>4. TurnsPending'
      BY <1>0, <1>00, <2>1, <2>5, <3>1, <3>3
    <3>. QED
      BY <2>5, <3>2, <3>4
  <2>4. CASE AnswerTurn(s, dup)
    <3>1. task' = [task EXCEPT ![s] = "generating"] /\ UNCHANGED <<pc, turn>>
      BY <2>4 DEF AnswerTurn, StartLlm
    <3>2. at[s] = s
      BY <1>0, <2>1
    <3>3. TasksKnown'
      BY <1>0, <1>01, <2>1, <3>1, <3>2 DEF Alive
    <3>4. TurnsPending'
      BY <1>0, <1>00, <2>1, <2>5, <3>1, <3>2
    <3>. QED
      BY <2>5, <3>3, <3>4
  <2>. QED
    BY <1>4, <2>2, <2>3, <2>4 DEF TurnArrives
<1>5. CASE EagerEndOfTurn \/ SilenceRepeat
  <2>1. UNCHANGED <<at, pc, turn>>
    BY <1>5 DEF EagerEndOfTurn, SilenceRepeat, handVars
  <2>2. \/ UNCHANGED <<curr_sequence_id, root, task>>
        \/ /\ s \in Ids /\ curr_sequence_id' = s /\ root' = [root EXCEPT ![s] = s]
           /\ task' = [task EXCEPT ![s] = "generating"]
    BY <1>5, NewIdTyped DEF EagerEndOfTurn, SilenceRepeat, Allocate, StartLlm, TypeOK
  <2>3. CASE UNCHANGED <<curr_sequence_id, root, task>>
    BY <2>1, <2>3, FrameBook
  <2>4. CASE /\ s \in Ids /\ curr_sequence_id' = s /\ root' = [root EXCEPT ![s] = s]
             /\ task' = [task EXCEPT ![s] = "generating"]
    <3>1. at[s] = s
      BY <1>0, <2>4
    <3>2. NewRoots' /\ \A i \in Ids : i # s => root'[i] = root[i]
      BY <1>0, <1>01, <2>4
    <3>3. TasksKnown'
      BY <1>0, <1>01, <2>1, <2>4, <3>1 DEF Alive
    <3>4. TurnsPending'
      BY <1>0, <1>00, <2>1, <2>4, <3>1, <3>2
    <3>. QED
      BY <3>2, <3>3, <3>4
  <2>. QED
    BY <2>2, <2>3, <2>4
<1>6. CASE TurnResumed
  <2>1. UNCHANGED <<curr_sequence_id, at, pc, turn, root>>
    BY <1>6 DEF TurnResumed, imVars, auxVars
  <2>2. task' = task \/ task' = Cancel({eager_llm_task})
    BY <1>6 DEF TurnResumed
  <2>. QED
    BY <2>1, <2>2, Cancelled, FrameBook
<1>7. ASSUME NEW h \in Handlers, CleanupClear(h) PROVE BookInv'
  BY <1>0, <1>7 DEF CleanupClear, imVars, taskVars, auxVars
<1>8. ASSUME NEW h \in Handlers, CleanupFinish(h) PROVE BookInv'
  <2>. DEFINE cancelled == Cancel({llm_task, eager_llm_task})
  <2>1. /\ UNCHANGED <<curr_sequence_id, at, root>>
        /\ pc' = [pc EXCEPT ![h] = "idle"] /\ turn' = [turn EXCEPT ![h] = 0]
    BY <1>8 DEF CleanupFinish
  <2>2. /\ cancelled \in [Ids -> Alive \cup {"absent", "over"}]
        /\ \A i \in Ids : cancelled[i] = "absent" <=> task[i] = "absent"
    BY Cancelled
  <2>3. \/ turn[h] = 0 /\ task' = cancelled
        \/ turn[h] # 0 /\ task' = [cancelled EXCEPT ![turn[h]] = "generating"]
    BY <1>8 DEF CleanupFinish, StartLlm
  <2>. HIDE DEF cancelled
  <2>4. \A i \in Ids : task'[i] = "absent" <=> task[i] = "absent" /\ i # turn[h]
    <3>1. CASE turn[h] = 0 /\ task' = cancelled
      <4>1. \A i \in Ids : i # 0
        BY DEF Ids
      <4>. QED
        BY <2>2, <3>1, <4>1
    <3>2. CASE turn[h] # 0 /\ task' = [cancelled EXCEPT ![turn[h]] = "generating"]
      <4>1. \A i \in Ids : task'[i] = IF i = turn[h] THEN "generating" ELSE cancelled[i]
        BY <2>2, <3>2
      <4>. QED
        BY <2>2, <4>1
    <3>. QED
      BY <2>3, <3>1, <3>2
  <2>5. turn[h] # 0 => at[turn[h]] = turn[h] /\ turn[h] <= curr_sequence_id
    BY <1>0
  <2>6. \A g \in Handlers : turn'[g] # 0 => g # h /\ turn'[g] = turn[g] /\ turn[g] # turn[h]
    BY <1>0, <2>1
  <2>7. TasksKnown'
    BY <1>0, <2>1, <2>4, <2>5
  <2>8. TurnsPending'
    BY <1>0, <2>1, <2>4, <2>5, <2>6
  <2>. QED
    BY <2>1, <2>7, <2>8
<1>9. ASSUME NEW i \in Ids, LlmFollowup(i) PROVE BookInv'
  <2>1. /\ s \in Ids /\ curr_sequence_id' = s
        /\ root' = [root EXCEPT ![s] = root[at[i]]]
        /\ at' = [at EXCEPT ![i] = s]
        /\ task[i] = "tool" /\ task' = [task EXCEPT ![i] = "generating"]
        /\ UNCHANGED <<pc, turn>>
    BY <1>9, NewIdTyped DEF LlmFollowup, Allocate, Step, handVars, TypeOK
  <2>2. NewRoots' /\ \A j \in Ids : j # s => root'[j] = root[j]
    BY <1>0, <1>01, <2>1
  <2>3. \A j \in Ids : task'[j] = "absent" <=> task[j] = "absent"
    BY <1>0, <2>1
  <2>4. \A j \in Ids : at'[j] = IF j = i THEN s ELSE at[j]
    BY <1>0, <2>1
  <2>5. TasksKnown'
    BY <1>0, <1>01, <2>1, <2>3, <2>4
  <2>6. TurnsPending'
    BY <1>0, <1>00, <2>1, <2>2, <2>3, <2>4
  <2>. QED
    BY <2>2, <2>5, <2>6
<1>10. ASSUME NEW i \in Ids,
              \/ LlmText(i) \/ LlmFinish(i) \/ LlmFinishEmpty(i)
              \/ LlmPreCall(i) \/ LlmToolCall(i) \/ LlmEnd(i)
       PROVE  BookInv'
  <2>1. UNCHANGED <<curr_sequence_id, at, pc, turn, root>>
    BY <1>10, LlmAdvances DEF imVars, handVars, auxVars
  <2>2. \A j \in Ids : task'[j] = "absent" <=> task[j] = "absent"
    BY <1>10, LlmAdvances DEF Alive
  <2>. QED
    BY <2>1, <2>2, FrameBook
<1>11. CASE SynthEmit \/ Output \/ MarkAck
  BY <1>11, OutputAdvances, FrameBook DEF taskVars, handVars, auxVars
<1>12. CASE UNCHANGED vars
  BY <1>1, <1>12 DEF vars, coreVars, imVars, playVars, handVars
<1>. QED
  BY <1>1, <1>2, <1>3, <1>4, <1>5, <1>6, <1>7, <1>8, <1>9, <1>10, <1>11, <1>12, CoreQuiet,
     HandlersAssumption
     DEF Next, Listener, Cleanup, Llm, Transcript, Digits, EndOfSpeech, Listening

-----------------------------------------------------------------------------
(* Without speculative answers and without the silence watcher one task at *)
(* a time answers: each of the two starts a task beside the current one.   *)
Sequential == ~Flux /\ ~RepeatAfterSilence

(* Once no cleanup is under way, a follow-up joins the ids that are valid: *)
(* the task that would allocate it speaks for their turn, and for no turn  *)
(* that an interruption has cancelled.                                     *)
NoSpeculation == eager_llm_task = 0 /\ asr # "eager"
RunningChain ==
    AllIdle => \A i \in Ids : task[i] \in Alive =>
                   /\ root[at[i]] \notin revoked
                   /\ \A p \in sequence_ids \ {-1} : root[p] = root[at[i]]
ChainInv == NoSpeculation /\ NoOrphan /\ OneChain /\ ChainStaysRevoked /\ RunningChain

(* A turn that is answered at once finds no task running and no id valid. *)
LEMMA AnswersAlone ==
    ASSUME TypeOK, NoSpeculation, NoOrphan, NEW s, NEW dup, AnswerTurn(s, dup)
    PROVE  /\ \A i \in Ids : task[i] \notin Alive
           /\ sequence_ids' \subseteq {-1, s} /\ s \in sequence_ids'
           /\ task' = [task EXCEPT ![s] = "generating"] /\ llm_task' = s
           /\ UNCHANGED <<pc, turn>>
<1>1. ~LlmAlive /\ sequence_ids \ {-1, s} = {}
  BY DEF AnswerTurn, SomethingPending
<1>2. \A i \in Ids : i # 0
  BY DEF Ids
<1>3. \A i \in Ids : task[i] \notin Alive
  BY <1>1, <1>2 DEF LlmAlive, NoOrphan, NoSpeculation
<1>. QED
  BY <1>1, <1>3 DEF AnswerTurn, Registered, StartLlm

(* A cleanup leaves no task but the one of the turn it answers.           *)
LEMMA CleanupLeaves ==
    ASSUME TypeOK, NoSpeculation, NoOrphan, NEW h \in Handlers, CleanupFinish(h)
    PROVE  /\ \A i \in Ids : task'[i] \in Alive => i = turn[h] /\ llm_task' = i
           /\ turn[h] = 0 => sequence_ids' = {-1}
           /\ turn[h] # 0 => sequence_ids' = {-1, turn[h]} /\ llm_task' = turn[h]
           /\ UNCHANGED <<curr_sequence_id, at, asr, root>>
           /\ eager_llm_task' = 0
           /\ turn' = [turn EXCEPT ![h] = 0]
           /\ turn[h] \in Ids \cup {0}
<1>. DEFINE cancelled == Cancel({llm_task, eager_llm_task})
<1>1. \A i \in Ids : cancelled[i] \notin Alive
  BY Cancelled DEF NoOrphan
<1>2. cancelled \in [Ids -> Alive \cup {"absent", "over"}]
  BY Cancelled
<1>3. turn[h] \in Ids \cup {0}
  BY DEF TypeOK, HandlerType
<1>4. /\ turn[h] = 0 => task' = cancelled /\ sequence_ids' = {-1}
      /\ turn[h] # 0 => /\ task' = [cancelled EXCEPT ![turn[h]] = "generating"]
                        /\ llm_task' = turn[h] /\ sequence_ids' = {-1, turn[h]}
      /\ UNCHANGED <<curr_sequence_id, at, asr, root>>
      /\ eager_llm_task' = 0 /\ turn' = [turn EXCEPT ![h] = 0]
  BY DEF CleanupFinish, StartLlm, Invalidated, Revalidated
<1>. HIDE DEF cancelled
<1>5. \A i \in Ids : task'[i] \in Alive => turn[h] # 0 /\ i = turn[h]
  BY <1>1, <1>2, <1>3, <1>4
<1>. QED
  BY <1>3, <1>4, <1>5

(* Every step keeps the chain.                                            *)
LEMMA ChainInvStep ==
    Sequential /\ TypeOK /\ RevokedInv /\ BookInv /\ ChainInv /\ [Next]_vars => ChainInv'
<1>. SUFFICES ASSUME Sequential, TypeOK, RevokedInv, BookInv, ChainInv, [Next]_vars
              PROVE ChainInv'
  OBVIOUS
<1>. DEFINE s == curr_sequence_id + 1
<1>0. /\ curr_sequence_id \in 0 .. MaxSeq
      /\ pc \in [Handlers -> {"idle", "clear", "synth"}]
      /\ task \in [Ids -> Alive \cup {"absent", "over"}]
      /\ at \in [Ids -> Ids] /\ root \in [Ids -> Ids]
      /\ revoked' \cap sequence_ids' = {}
  BY RevokedInvStep
     DEF TypeOK, ManagerType, HandlerType, TaskType, AuxType, RevokedInv, RevokedStaysRevoked
<1>01. /\ s \notin revoked /\ s \notin sequence_ids
       /\ \A i \in Ids : task[i] \in Alive => at[i] # s
  BY <1>0 DEF RevokedInv, HandedOut, BookInv, TasksKnown, Started, Alive
<1>. USE DEF ChainInv
<1>1. CASE UNCHANGED coreVars /\ asr' \in {asr, "quiet", "speech"}
  BY <1>1 DEF coreVars, taskVars, auxVars, NoSpeculation, NoOrphan, OneChain, ChainStaysRevoked,
              RunningChain, AllIdle
<1>2. ASSUME NEW h \in Handlers, pc'[h] # "idle", UNCHANGED <<task, llm_task, eager_llm_task>>,
             asr' \in {asr, "quiet"}
      PROVE  ChainInv'
  BY <1>2 DEF NoSpeculation, NoOrphan, OneChain, ChainStaysRevoked, RunningChain, AllIdle
<1>3. ASSUME NEW w \in Words, InterimBargesIn(w) \/ InterimContinues(w) PROVE ChainInv'
  <2>1. pc'["asr"] # "idle" /\ UNCHANGED <<task, llm_task, eager_llm_task, asr>>
    BY <1>0, <1>3, HandlersAssumption DEF InterimBargesIn, InterimContinues, taskVars
  <2>. QED
    BY <1>2, <2>1, HandlersAssumption
<1>4. ASSUME NEW h \in Handlers, NEW dup \in BOOLEAN, TurnArrives(h, s, dup), asr' \in {asr, "quiet"}
      PROVE  ChainInv'
  <2>1. /\ s \in Ids /\ root' = [root EXCEPT ![s] = s]
        /\ UNCHANGED <<at, eager_llm_task, revoked>>
    BY <1>4, NewIdTyped DEF TurnArrives, Allocate, TypeOK
  <2>2. CASE DropTurn(dup)
    <3>1. UNCHANGED <<sequence_ids, task, llm_task, pc>>
      BY <2>2 DEF DropTurn
    <3>2. /\ \A p \in sequence_ids : root'[p] = root[p]
          /\ \A i \in Ids : task[i] \in Alive => root'[at[i]] = root[at[i]]
      BY <1>0, <1>01, <2>1
    <3>. QED
      BY <1>4, <2>1, <3>1, <3>2
         DEF NoSpeculation, NoOrphan, OneChain, ChainStaysRevoked, RunningChain, AllIdle
  <2>3. CASE PreemptForTurn(h, s, dup)
    BY <1>0, <1>2, <1>4, <2>1, <2>3 DEF PreemptForTurn
  <2>4. CASE AnswerTurn(s, dup)
    <3>1. /\ \A i \in Ids : task[i] \notin Alive
          /\ sequence_ids' \subseteq {-1, s}
          /\ task' = [task EXCEPT ![s] = "generating"] /\ llm_task' = s
      BY <2>4, AnswersAlone
    <3>2. \A i \in Ids : task'[i] \in Alive => i = s
      BY <1>0, <3>1
    <3>3. root'[s] = s /\ at'[s] = s
      BY <1>0, <2>1 DEF BookInv, TasksKnown, Started
    <3>. QED
      BY <1>01, <1>4, <2>1, <3>1, <3>2, <3>3
         DEF NoSpeculation, NoOrphan, OneChain, ChainStaysRevoked, RunningChain
  <2>. QED
    BY <1>4, <2>2, <2>3, <2>4 DEF TurnArrives
<1>5. ASSUME \/ \E w \in Words : TranscriptConfirmsEager(w)
             \/ EagerEndOfTurn \/ TurnResumed \/ SilenceRepeat
      PROVE  FALSE
  BY <1>5 DEF TranscriptConfirmsEager, EagerEndOfTurn, TurnResumed, SilenceRepeat, Sequential,
              NoSpeculation
<1>6. ASSUME NEW h \in Handlers, CleanupClear(h) PROVE ChainInv'
  BY <1>0, <1>2, <1>6 DEF CleanupClear, taskVars
<1>7. ASSUME NEW h \in Handlers, CleanupFinish(h) PROVE ChainInv'
  <2>1. turn[h] # 0 => root'[turn[h]] = turn[h] /\ turn[h] \notin revoked' /\ at'[turn[h]] = turn[h]
    BY <1>0, <1>7, CleanupLeaves DEF ChainInv, BookInv, TurnsPending, TasksKnown
  <2>2. NoSpeculation' /\ NoOrphan'
    BY <1>7, CleanupLeaves DEF NoSpeculation, NoOrphan
  <2>3. \A p \in sequence_ids' \ {-1} : turn[h] # 0 /\ p = turn[h]
    BY <1>7, CleanupLeaves
  <2>4. \A i \in Ids : task'[i] \in Alive => turn[h] # 0 /\ i = turn[h]
    <3>1. \A i \in Ids : i # 0
      BY DEF Ids
    <3>. QED
      BY <1>7, <3>1, CleanupLeaves
  <2>. QED
    BY <2>1, <2>2, <2>3, <2>4 DEF OneChain, ChainStaysRevoked, RunningChain
<1>8. ASSUME NEW i \in Ids, LlmFollowup(i) PROVE ChainInv'
  <2>1. /\ s \in Ids /\ sequence_ids' = sequence_ids \cup {s}
        /\ root' = [root EXCEPT ![s] = root[at[i]]]
        /\ at' = [at EXCEPT ![i] = s]
        /\ task[i] = "tool" /\ task' = [task EXCEPT ![i] = "generating"]
        /\ UNCHANGED <<llm_task, eager_llm_task, pc, asr, revoked>>
    BY <1>8, NewIdTyped DEF LlmFollowup, Allocate, Registered, Step, handVars, TypeOK
  <2>2. /\ task[i] \in Alive
        /\ \A j \in Ids : task'[j] \in Alive => task[j] \in Alive
    BY <1>0, <2>1 DEF Alive
  <2>3. \A j \in Ids : task[j] \in Alive => j = i
    BY <2>2 DEF NoOrphan, NoSpeculation, Ids
  <2>4. NoOrphan' /\ NoSpeculation'
    BY <2>1, <2>2 DEF NoOrphan, NoSpeculation
  <2>5. /\ root'[s] = root[at[i]] /\ at'[i] = s
        /\ \A p \in sequence_ids : root'[p] = root[p]
    BY <1>0, <1>01, <2>1
  <2>6. \A p \in sequence_ids' \ {-1} : p = s \/ p \in sequence_ids \ {-1}
    BY <2>1
  <2>. HIDE DEF s
  <2>7. AllIdle' => AllIdle
    BY <2>1 DEF AllIdle
  <2>. QED
    BY <2>1, <2>2, <2>3, <2>4, <2>5, <2>6, <2>7 DEF OneChain, ChainStaysRevoked, RunningChain
<1>9. ASSUME NEW i \in Ids,
             \/ LlmText(i) \/ LlmFinish(i) \/ LlmFinishEmpty(i)
             \/ LlmPreCall(i) \/ LlmToolCall(i) \/ LlmEnd(i)
      PROVE  ChainInv'
  <2>1. /\ UNCHANGED <<sequence_ids, at, eager_llm_task, pc, asr, revoked, root>>
        /\ task[i] \in Alive
        /\ \A j \in Ids : j # i => task'[j] = task[j]
        /\ UNCHANGED llm_task \/ (llm_task' = 0 /\ task'[i] = "over")
    BY <1>9, LlmAdvances DEF imVars, handVars, auxVars
  <2>2. \A j \in Ids : task'[j] \in Alive => j = i /\ UNCHANGED llm_task /\ i = llm_task
    BY <2>1 DEF NoOrphan, NoSpeculation, Ids, Alive
  <2>. QED
    BY <2>1, <2>2 DEF NoSpeculation, NoOrphan, OneChain, ChainStaysRevoked, RunningChain, AllIdle
<1>10. CASE SynthEmit \/ Output \/ MarkAck
  <2>1. UNCHANGED <<task, at, llm_task, eager_llm_task, pc, asr, revoked, root>>
    BY <1>10, OutputAdvances DEF taskVars, handVars, auxVars
  <2>2. sequence_ids' \subseteq sequence_ids
    BY <1>10, OutputAdvances
  <2>. QED
    BY <2>1, <2>2 DEF NoSpeculation, NoOrphan, OneChain, ChainStaysRevoked, RunningChain, AllIdle
<1>11. CASE UNCHANGED vars
  BY <1>1, <1>11 DEF vars, coreVars, imVars, playVars, handVars
<1>. QED
  BY <1>1, <1>3, <1>4, <1>5, <1>6, <1>7, <1>8, <1>9, <1>10, <1>11, CoreQuiet, HandlersAssumption
     DEF Next, Listener, Cleanup, Llm, Transcript, Digits, EndOfSpeech, Listening

(* The books, the cancelled ids and the types are kept for any constants. *)
LEMMA BooksKept == Spec => [](TypeOK /\ RevokedInv /\ BookInv)
<1>1. Init => RevokedInv
  BY DEF Init, RevokedInv, HandedOut, PendingNotRevoked, RevokedStaysRevoked
<1>2. Init => BookInv
  BY DEF Init, BookInv, TasksKnown, TurnsPending, NewRoots, Started, Ids
<1>. QED
  BY <1>1, <1>2, TypeCorrect, RevokedInvStep, BookInvStep, PTL DEF Spec

(* The chain of a sequential call.                                        *)
LEMMA ChainKept == ASSUME Sequential PROVE Spec => []ChainInv
<1>1. Init => ChainInv
  BY DEF Init, ChainInv, NoSpeculation, NoOrphan, OneChain, ChainStaysRevoked, RunningChain, Alive
<1>2. TypeOK /\ RevokedInv /\ BookInv /\ ChainInv /\ [Next]_vars => ChainInv'
  BY ChainInvStep
<1>. QED
  BY <1>1, <1>2, BooksKept, PTL DEF Spec

(* With neither speculative answers nor the silence watcher, no LLM task   *)
(* runs that a cleanup could not cancel: the check of llm_task before a    *)
(* turn is answered at once covers every task there is.                    *)
THEOREM NoTaskOrphaned == ASSUME Sequential PROVE Spec => []NoOrphan
<1>1. ChainInv => NoOrphan
  BY DEF ChainInv
<1>. QED
  BY <1>1, ChainKept, PTL

(* Nor are two turns ever valid together outside a cleanup, for any number *)
(* of handlers and with the follow-ups of tool calls.                      *)
THEOREM OneTurnValid == ASSUME Sequential PROVE Spec => []OneChain
<1>1. ChainInv => OneChain
  BY DEF ChainInv
<1>. QED
  BY <1>1, ChainKept, PTL

(* Nor does a tool call that outlives an interruption bring its turn back: *)
(* the follow-up takes an id only while its task runs, and every cleanup   *)
(* that cancels ids cancels that task.                                     *)
THEOREM ChainNeverRevived == ASSUME Sequential PROVE Spec => []ChainStaysRevoked
<1>1. ChainInv => ChainStaysRevoked
  BY DEF ChainInv
<1>. QED
  BY <1>1, ChainKept, PTL
-----------------------------------------------------------------------------
(* No handler cleans up before the welcome message has been played.       *)
WelcomeInv == WelcomeMarkOutstanding /\ (~welcome_played => AllIdle)

(* A mark that is expected stays so when another is sent ...              *)
LEMMA MarkSent ==
    ASSUME NEW q \in Seq(Mark), NEW m \in Mark,
           \E k \in 1 .. Len(q) : q[k].kind = "welcome"
    PROVE  \E k \in 1 .. Len(Append(q, m)) : Append(q, m)[k].kind = "welcome"
<1>1. PICK k \in 1 .. Len(q) : q[k].kind = "welcome"
  OBVIOUS
<1>2. k \in 1 .. Len(Append(q, m)) /\ Append(q, m)[k] = q[k]
  OBVIOUS
<1>. QED
  BY <1>1, <1>2

(* ... and when another one comes back.                                   *)
LEMMA MarkEchoed ==
    ASSUME NEW q \in Seq(Mark), Head(q).kind # "welcome",
           \E k \in 1 .. Len(q) : q[k].kind = "welcome"
    PROVE  \E k \in 1 .. Len(Tail(q)) : Tail(q)[k].kind = "welcome"
<1>1. PICK k \in 1 .. Len(q) : q[k].kind = "welcome"
  OBVIOUS
<1>2. k - 1 \in 1 .. Len(Tail(q)) /\ Tail(q)[k - 1] = q[k]
  BY <1>1
<1>. QED
  BY <1>1, <1>2

(* Every step keeps the welcome mark expected.                            *)
LEMMA WelcomeInvStep == DiscardPreWelcome /\ TypeInv /\ WelcomeInv /\ [Next]_vars => WelcomeInv'
<1>. SUFFICES ASSUME DiscardPreWelcome, TypeInv, WelcomeInv, [Next]_vars PROVE WelcomeInv'
  OBVIOUS
<1>. USE DEF WelcomeInv, WelcomeMarkOutstanding, AllIdle
<1>0. marks \in Seq(Mark) /\ pc \in [Handlers -> {"idle", "clear", "synth"}]
  BY DEF TypeInv, TypeOK, PlaybackType, HandlerType
<1>1. CASE UNCHANGED <<marks, welcome_played, pc>>
  BY <1>1
<1>2. ASSUME NEW h \in Handlers, NEW dup \in BOOLEAN, NEW s, TurnArrives(h, s, dup) PROVE WelcomeInv'
  <2>1. UNCHANGED <<marks, welcome_played>>
    BY <1>2 DEF TurnArrives
  <2>2. UNCHANGED pc \/ welcome_played
    BY <1>2 DEF TurnArrives, DropTurn, PreemptForTurn, AnswerTurn, IsDropped, StillWelcoming
  <2>. QED
    BY <2>1, <2>2
<1>3. ASSUME NEW w \in Words, InterimBargesIn(w) \/ InterimContinues(w) PROVE WelcomeInv'
  BY <1>3 DEF InterimBargesIn, InterimContinues, Interim
<1>4. ASSUME NEW h \in Handlers, CleanupClear(h) \/ CleanupFinish(h) PROVE WelcomeInv'
  <2>1. pc[h] # "idle" /\ UNCHANGED welcome_played
    BY <1>4 DEF CleanupClear, CleanupFinish, playVars
  <2>. QED
    BY <2>1
<1>5. CASE OutputSend \/ OutputSent \/ OutputBlock
  <2>1. UNCHANGED <<pc, welcome_played>>
    BY <1>5 DEF OutputSend, OutputSent, OutputBlock, handVars
  <2>2. out.chunk.seq \in Ids
    BY <1>5, HeldTyped DEF OutputSend, OutputSent, OutputBlock, Approved, TypeInv
  <2>3. UNCHANGED marks \/ \E m \in Mark : marks' = Append(marks, m)
    BY <1>5, <2>2, MarkTyped DEF OutputSend, OutputSent, OutputBlock
  <2>. QED
    BY <1>0, <2>1, <2>3, MarkSent
<1>6. CASE MarkAck
  <2>1. /\ marks' = Tail(marks) /\ UNCHANGED pc
        /\ welcome_played' = (welcome_played \/ Head(marks).kind = "welcome")
    BY <1>6 DEF MarkAck, handVars
  <2>. QED
    BY <1>0, <2>1, MarkEchoed
<1>7. CASE \/ EagerEndOfTurn \/ TurnResumed \/ SilenceRepeat \/ SynthEmit \/ OutputGet \/ OutputDrained
           \/ \E w \in Words : TranscriptConfirmsEager(w)
           \/ \E i \in Ids : Llm(i)
  <2>1. UNCHANGED <<marks, welcome_played, pc>>
    BY <1>7 DEF EagerEndOfTurn, TurnResumed, SilenceRepeat, SynthEmit, OutputGet, OutputDrained,
                TranscriptConfirmsEager, Llm, LlmText, LlmFinish, LlmFinishEmpty, LlmPreCall,
                LlmToolCall, LlmFollowup, LlmEnd, playVars, handVars
  <2>. QED
    BY <1>1, <2>1
<1>8. CASE UNCHANGED coreVars
  BY <1>1, <1>8 DEF coreVars
<1>9. CASE UNCHANGED vars
  BY <1>1, <1>9 DEF vars, playVars, handVars
<1>. QED
  BY <1>2, <1>3, <1>4, <1>5, <1>6, <1>7, <1>8, <1>9, CoreQuiet, HandlersAssumption
     DEF Next, Listener, Cleanup, Output, Transcript, Digits

(* When utterances over the welcome message are discarded, the mark that   *)
(* ends the welcome message is never forgotten, so the caller is heard     *)
(* afterwards: a cleanup, which forgets the marks, comes after it.         *)
THEOREM WelcomeIsEnded == ASSUME DiscardPreWelcome PROVE Spec => []WelcomeMarkOutstanding
<1>1. Init => WelcomeInv
  <2>. SUFFICES ASSUME Init PROVE WelcomeInv
    OBVIOUS
  <2>1. marks[2].kind = "welcome" /\ Len(marks) = 2 /\ AllIdle
    BY DEF Init, AllIdle
  <2>. QED
    BY <2>1 DEF WelcomeInv, WelcomeMarkOutstanding
<1>2. WelcomeInv => WelcomeMarkOutstanding
  BY DEF WelcomeInv
<1>3. TypeInv /\ WelcomeInv /\ [Next]_vars => WelcomeInv'
  BY WelcomeInvStep
<1>. QED
  BY <1>1, <1>2, <1>3, TypeInvKept, PTL DEF Spec
-----------------------------------------------------------------------------
(* Without tools every task speaks under its own name throughout.         *)
ToolInv == ~Tools => \A i \in Ids : at[i] = i /\ task[i] \notin {"calling", "tool"}

(* Every step keeps that.                                                 *)
LEMMA ToolInvStep == TypeOK /\ ToolInv /\ [Next]_vars => ToolInv'
<1>. SUFFICES ASSUME TypeOK, ToolInv, [Next]_vars, ~Tools PROVE ToolInv'
  BY DEF ToolInv
<1>. USE DEF ToolInv
<1>0. task \in [Ids -> Alive \cup {"absent", "over"}] /\ at \in [Ids -> Ids]
  BY DEF TypeOK, TaskType
<1>1. ASSUME UNCHANGED at,
             \A i \in Ids : task'[i] \in {"calling", "tool"} => task[i] \in {"calling", "tool"}
      PROVE  ToolInv'
  BY <1>1
<1>2. \A t : \A i \in Ids : Cancel(t)[i] \in {"calling", "tool"} => task[i] \in {"calling", "tool"}
  BY DEF Cancel
<1>3. ASSUME NEW i \in Ids, Llm(i) PROVE ToolInv'
  <2>1. UNCHANGED at
    BY <1>0, <1>3 DEF Llm, LlmText, LlmFinish, LlmFinishEmpty, LlmPreCall, LlmToolCall, LlmFollowup, LlmEnd, Step
  <2>2. task' = task \/ \E to \in {"checking", "over", "generating"} : task' = [task EXCEPT ![i] = to]
    BY <1>3 DEF Llm, LlmText, LlmFinish, LlmFinishEmpty, LlmPreCall, LlmToolCall, LlmFollowup, LlmEnd, Step
  <2>3. \A j \in Ids : task'[j] \in {"calling", "tool"} => task[j] \in {"calling", "tool"}
    BY <1>0, <2>2
  <2>. QED
    BY <1>1, <2>1, <2>3
<1>4. ASSUME NEW h \in Handlers, CleanupFinish(h) PROVE ToolInv'
  <2>. DEFINE cancelled == Cancel({llm_task, eager_llm_task})
  <2>1. cancelled \in [Ids -> Alive \cup {"absent", "over"}]
    BY Cancelled
  <2>2. /\ UNCHANGED at
        /\ task' = cancelled \/ task' = [cancelled EXCEPT ![turn[h]] = "generating"]
    BY <1>4 DEF CleanupFinish, StartLlm
  <2>3. \A i \in Ids : cancelled[i] \in {"calling", "tool"} => task[i] \in {"calling", "tool"}
    BY <1>2
  <2>. HIDE DEF cancelled
  <2>4. \A i \in Ids : task'[i] \in {"calling", "tool"} => task[i] \in {"calling", "tool"}
    BY <2>1, <2>2, <2>3
  <2>. QED
    BY <1>1, <2>2, <2>4
<1>5. CASE \/ \E w \in Words : TranscriptConfirmsEager(w)
           \/ EagerEndOfTurn \/ TurnResumed \/ SilenceRepeat
           \/ \E h \in Handlers, s \in Nat, dup \in BOOLEAN : TurnArrives(h, s, dup)
  <2>1. /\ UNCHANGED at
        /\ \/ task' = task \/ (\E t : task' = Cancel(t))
           \/ \E i : task' = [task EXCEPT ![i] = "generating"]
    BY <1>5 DEF TranscriptConfirmsEager, EagerEndOfTurn, TurnResumed, SilenceRepeat, TurnArrives,
                DropTurn, PreemptForTurn, AnswerTurn, StartLlm
  <2>2. \A i \in Ids : task'[i] \in {"calling", "tool"} => task[i] \in {"calling", "tool"}
    BY <1>0, <1>2, <2>1
  <2>. QED
    BY <1>1, <2>1, <2>2
<1>6. CASE UNCHANGED <<task, at>>
  BY <1>1, <1>6
<1>7. CASE \/ SynthEmit \/ Output \/ MarkAck \/ UNCHANGED coreVars \/ UNCHANGED vars
           \/ \E w \in Words : InterimBargesIn(w) \/ InterimContinues(w)
           \/ \E h \in Handlers : CleanupClear(h)
  BY <1>6, <1>7, OutputAdvances
     DEF coreVars, vars, taskVars, InterimBargesIn, InterimContinues, CleanupClear
<1>8. curr_sequence_id + 1 \in Nat
  BY DEF TypeOK, ManagerType
<1>. QED
  BY <1>3, <1>4, <1>5, <1>7, <1>8, CoreQuiet, HandlersAssumption
     DEF Next, Listener, Cleanup, Transcript, Digits

(* The books and the names.                                               *)
LEMMA NamesKept == Spec => [](TypeInv /\ RevokedInv /\ BookInv /\ ToolInv)
<1>1. Init => ToolInv
  BY DEF Init, ToolInv
<1>2. TypeInv => TypeOK
  BY DEF TypeInv
<1>. QED
  BY <1>1, <1>2, ToolInvStep, BooksKept, TypeInvKept, PTL DEF Spec
-----------------------------------------------------------------------------
(* What is between the LLM and the caller.                                *)
Elements(q) == {q[k] : k \in 1 .. Len(q)}
Chunks == Elements(synthQ) \cup Elements(outQ) \cup (IF out.pc = "get" THEN {} ELSE {out.chunk})

(* No two tasks speak under one id, and the id of a turn that is being set *)
(* up has not been spoken under; the end of a stream is handed to the      *)
(* synthesizer when the LLM is through with that id: the chunk whose       *)
(* sending retires an id (check_and_remove) is never one of an answer that *)
(* is still being generated.                                               *)
TasksDistinct == \A i, j \in Ids : Started(i) /\ Started(j) /\ at[i] = at[j] => i = j
ChunksKnown ==
    \A c \in Chunks : c.seq \in 1 .. curr_sequence_id /\ \A h \in Handlers : c.seq # turn[h]
EndsSilent ==
    \A c \in Chunks : c.kind = "end" =>
        \A i \in Ids : task[i] = "generating" => at[i] # c.seq
AnswerInv == (~Flux => NoSpeculation) /\ TasksDistinct /\ ChunksKnown /\ EndsSilent /\ AnswerIsValid

(* The ends of a queue are among its elements, and so are its prefixes'.  *)
LEMMA ElementsCut ==
    ASSUME NEW q \in Seq(Chunk)
    PROVE  /\ q # <<>> => Head(q) \in Elements(q) /\ Elements(Tail(q)) \subseteq Elements(q)
           /\ \A n \in 0 .. Len(q) : Elements(SubSeq(q, 1, n)) \subseteq Elements(q)
           /\ Elements(<<>>) = {}
  BY DEF Elements

(* What is appended is all that is new.                                   *)
LEMMA ElementsGrow ==
    ASSUME NEW q \in Seq(Chunk), NEW c \in Chunk, NEW d \in Chunk
    PROVE  /\ Elements(Append(q, c)) \subseteq Elements(q) \cup {c}
           /\ Elements(q \o <<c>>) \subseteq Elements(q) \cup {c}
           /\ Elements(q \o <<c, d>>) \subseteq Elements(q) \cup {c, d}
<1>1. \A k \in 1 .. Len(q \o <<c>>) :
         (k \in 1 .. Len(q) /\ (q \o <<c>>)[k] = q[k]) \/ (q \o <<c>>)[k] = c
  OBVIOUS
<1>2. \A k \in 1 .. Len(q \o <<c, d>>) :
         (k \in 1 .. Len(q) /\ (q \o <<c, d>>)[k] = q[k]) \/ (q \o <<c, d>>)[k] \in {c, d}
  OBVIOUS
<1>3. \A k \in 1 .. Len(Append(q, c)) : (k \in 1 .. Len(q) /\ Append(q, c)[k] = q[k]) \/ Append(q, c)[k] = c
  OBVIOUS
<1>. QED
  BY <1>1, <1>2, <1>3 DEF Elements

(* Chunks move on or are dropped; none appears but what an LLM task hands  *)
(* over.                                                                   *)
LEMMA ChunksMove ==
    ASSUME TypeOK, \/ SynthEmit \/ Output \/ MarkAck \/ \E h \in Handlers : CleanupFinish(h)
                   \/ UNCHANGED <<synthQ, outQ, out>>
    PROVE  Chunks' \subseteq Chunks
<1>0. synthQ \in Seq(Chunk) /\ outQ \in Seq(Chunk)
  BY DEF TypeOK, PipelineType
<1>1. CASE SynthEmit
  <2>1. /\ synthQ # <<>> /\ synthQ' = Tail(synthQ) /\ out' = out
        /\ outQ' = Append(outQ, Head(synthQ)) \/ outQ' = outQ
    BY <1>1 DEF SynthEmit
  <2>2. Head(synthQ) \in Chunk
    BY <1>0, <2>1
  <2>3. Head(synthQ) \in Elements(synthQ) /\ Elements(Tail(synthQ)) \subseteq Elements(synthQ)
    BY <1>0, <2>1, ElementsCut
  <2>4. Elements(Append(outQ, Head(synthQ))) \subseteq Elements(outQ) \cup {Head(synthQ)}
    BY <1>0, <2>2, ElementsGrow
  <2>5. Elements(synthQ') \cup Elements(outQ') \subseteq Elements(synthQ) \cup Elements(outQ)
    BY <2>1, <2>3, <2>4
  <2>. QED
    BY <2>1, <2>5 DEF Chunks
<1>2. CASE OutputGet
  BY <1>0, <1>2, ElementsCut DEF OutputGet, Chunks
<1>3. CASE OutputSend \/ OutputSent \/ OutputBlock \/ OutputDrained
  BY <1>3 DEF OutputSend, OutputSent, OutputBlock, OutputDrained, Approved, Chunks, TypeOK, PipelineType
<1>4. CASE UNCHANGED <<synthQ, outQ, out>> \/ MarkAck
  BY <1>4 DEF MarkAck, pipeVars, Chunks
<1>5. ASSUME NEW h \in Handlers, CleanupFinish(h) PROVE Chunks' \subseteq Chunks
  <2>1. /\ out'.pc = "get" /\ outQ' = <<>>
        /\ \E n \in 0 .. Len(synthQ) : synthQ' = SubSeq(synthQ, 1, n)
    BY <1>5 DEF CleanupFinish
  <2>. QED
    BY <1>0, <2>1, ElementsCut DEF Chunks
<1>. QED
  BY <1>1, <1>2, <1>3, <1>4, <1>5 DEF Output

(* What an LLM task hands over is spoken under its id, and the end of the  *)
(* stream is handed over only as it stops generating.                      *)
LEMMA ChunksSpoken ==
    ASSUME TypeOK, NEW i \in Ids,
           \/ LlmText(i) \/ LlmFinish(i) \/ LlmFinishEmpty(i)
           \/ LlmPreCall(i) \/ LlmToolCall(i) \/ LlmEnd(i)
    PROVE  \A c \in Chunks' : \/ c \in Chunks
                              \/ c.seq = at[i] /\ (c.kind = "end" => task'[i] # "generating")
<1>0. synthQ \in Seq(Chunk) /\ task \in [Ids -> Alive \cup {"absent", "over"}]
  BY DEF TypeOK, PipelineType, TaskType
<1>1. CASE LlmText(i)
  <2>1. Spoken(i, "audio") \in Chunk
    BY SpokenTyped DEF TypeOK
  <2>2. synthQ' = synthQ \o <<Spoken(i, "audio")>> /\ UNCHANGED <<outQ, out>>
    BY <1>1 DEF LlmText, ToSynthesizer
  <2>4. Elements(synthQ') \subseteq Elements(synthQ) \cup {Spoken(i, "audio")}
    BY <1>0, <2>1, <2>2, ElementsGrow
  <2>3. \A c \in Chunks' : c \in Chunks \/ c = Spoken(i, "audio")
    BY <2>2, <2>4 DEF Chunks
  <2>. QED
    BY <2>3 DEF Spoken
<1>2. CASE LlmFinish(i) \/ LlmPreCall(i)
  <2>1. Spoken(i, "last") \in Chunk /\ Spoken(i, "end") \in Chunk
    BY SpokenTyped DEF TypeOK
  <2>2. /\ synthQ' = synthQ \o <<Spoken(i, "last"), Spoken(i, "end")>>
        /\ UNCHANGED <<outQ, out>> /\ task'[i] # "generating"
    BY <1>0, <1>2 DEF LlmFinish, LlmPreCall, ToSynthesizer, Step
  <2>3. \A c \in Chunks' : c \in Chunks \/ c \in {Spoken(i, "last"), Spoken(i, "end")}
    BY <1>0, <2>1, <2>2, ElementsGrow DEF Chunks
  <2>. QED
    BY <2>2, <2>3 DEF Spoken
<1>3. CASE LlmFinishEmpty(i) \/ LlmToolCall(i) \/ LlmEnd(i)
  BY <1>3 DEF LlmFinishEmpty, LlmToolCall, LlmEnd, pipeVars, Chunks
<1>. QED
  BY <1>1, <1>2, <1>3

(* Fewer chunks, turns and generating tasks keep what is said of them.    *)
LEMMA FrameChunks ==
    ASSUME ChunksKnown, EndsSilent, Chunks' \subseteq Chunks, UNCHANGED at,
           curr_sequence_id \in Nat,
           curr_sequence_id' \in {curr_sequence_id, curr_sequence_id + 1},
           \A h \in Handlers : turn'[h] \in {turn[h], 0, curr_sequence_id + 1},
           \A i \in Ids : task'[i] = "generating" =>
               task[i] = "generating" \/ at[i] = curr_sequence_id + 1
    PROVE  ChunksKnown' /\ EndsSilent'
<1>1. ASSUME NEW c \in Chunks'
      PROVE  c.seq \in 1 .. curr_sequence_id' /\ \A h \in Handlers : c.seq # turn'[h]
  BY <1>1 DEF ChunksKnown
<1>2. ASSUME NEW c \in Chunks', c.kind = "end", NEW i \in Ids, task'[i] = "generating"
      PROVE  at'[i] # c.seq
  BY <1>2 DEF ChunksKnown, EndsSilent
<1>. QED
  BY <1>1, <1>2 DEF ChunksKnown, EndsSilent

(* Every step keeps the current answer valid.                             *)
LEMMA AnswerInvStep ==
    ~(Flux /\ Tools) /\ TypeInv /\ RevokedInv /\ BookInv /\ ToolInv /\ AnswerInv /\ [Next]_vars
    => AnswerInv'
<1>. SUFFICES ASSUME ~(Flux /\ Tools), TypeInv, RevokedInv, BookInv, ToolInv, AnswerInv, [Next]_vars
              PROVE  AnswerInv'
  OBVIOUS
<1>. DEFINE s == curr_sequence_id + 1
<1>0. /\ TypeOK
      /\ curr_sequence_id \in Nat
      /\ pc \in [Handlers -> {"idle", "clear", "synth"}]
      /\ turn \in [Handlers -> Ids \cup {0}]
      /\ task \in [Ids -> Alive \cup {"absent", "over"}]
      /\ at \in [Ids -> Ids]
      /\ BookInv'
  BY BookInvStep DEF TypeInv, TypeOK, ManagerType, HandlerType, TaskType
<1>01. /\ \A i \in Ids : i \in Int /\ i # 0
       /\ \A i \in Ids : Started(i) => at[i] # s
       /\ s \in Ids => ~Started(s) /\ at[s] = s
  BY <1>0 DEF BookInv, TasksKnown, Ids
<1>02. \A i \in Ids : task[i] \in Alive => Started(i)
  BY DEF Started, Alive
<1>. USE DEF AnswerInv
(* Nothing is started: the answer being generated and its validity. *)
<1>1. ASSUME UNCHANGED <<at, llm_task, pc>>, ~Flux => NoSpeculation',
             \A i \in Ids : task'[i] = "absent" <=> task[i] = "absent",
             \A i \in Ids : task'[i] = "generating" => task[i] = "generating",
             sequence_ids \subseteq sequence_ids',
             Chunks' \subseteq Chunks,
             curr_sequence_id' \in {curr_sequence_id, s},
             \A h \in Handlers : turn'[h] \in {turn[h], 0, s}
      PROVE  AnswerInv'
  <2>1. ChunksKnown' /\ EndsSilent'
    BY <1>0, <1>1, FrameChunks
  <2>2. llm_task \in Ids \cup {0}
    BY <1>0 DEF TypeOK, TaskType
  <2>3. AnswerIsValid'
    BY <1>1, <2>2 DEF AnswerIsValid, AllIdle
  <2>. QED
    BY <1>1, <2>1, <2>3 DEF TasksDistinct, Started
(* A new task answers the new id s. *)
<1>2. ASSUME s \in Ids, UNCHANGED <<at, turn>>, ~Flux => NoSpeculation',
             curr_sequence_id' = s,
             task' = [task EXCEPT ![s] = "generating"],
             llm_task' \in {llm_task, s},
             sequence_ids' = sequence_ids \cup {s},
             UNCHANGED pc, UNCHANGED <<synthQ, outQ, out>>
      PROVE  AnswerInv'
  <2>1. Chunks' \subseteq Chunks
    BY <1>0, <1>2, ChunksMove
  <2>2. \A i \in Ids : i # s => task'[i] = task[i]
    BY <1>0, <1>2
  <2>3. ChunksKnown' /\ EndsSilent'
    BY <1>0, <1>01, <1>2, <2>1, <2>2, FrameChunks
  <2>4. TasksDistinct'
    BY <1>01, <1>2, <2>2 DEF TasksDistinct, Started
  <2>5. AnswerIsValid'
    BY <1>01, <1>2, <2>2 DEF AnswerIsValid, AllIdle, TypeOK, TaskType
  <2>. QED
    BY <1>2, <2>3, <2>4, <2>5
<1>3. CASE UNCHANGED coreVars /\ asr' \in {asr, "quiet", "speech"}
  <2>1. Chunks' = Chunks
    BY <1>3 DEF coreVars, pipeVars, Chunks
  <2>. QED
    BY <1>1, <1>3, <2>1 DEF coreVars, taskVars, NoSpeculation
<1>4. ASSUME NEW w \in Words, InterimBargesIn(w) \/ InterimContinues(w) PROVE AnswerInv'
  <2>1. /\ UNCHANGED <<taskVars, pipeVars, curr_sequence_id, asr>>
        /\ pc' = [pc EXCEPT !["asr"] = "clear"] /\ turn' = [turn EXCEPT !["asr"] = 0]
    BY <1>4 DEF InterimBargesIn, InterimContinues
  <2>2. Chunks' \subseteq Chunks
    BY <2>1 DEF pipeVars, Chunks
  <2>3. \A h \in Handlers : turn'[h] \in {turn[h], 0, s}
    BY <1>0, <2>1
  <2>4. ChunksKnown' /\ EndsSilent'
    BY <1>0, <2>1, <2>2, <2>3, FrameChunks DEF taskVars
  <2>5. ~AllIdle'
    BY <1>0, <2>1, HandlersAssumption DEF AllIdle
  <2>. QED
    BY <2>1, <2>4, <2>5 DEF taskVars, TasksDistinct, AnswerIsValid, NoSpeculation, Started
<1>5. ASSUME NEW w \in Words, TranscriptConfirmsEager(w) PROVE AnswerInv'
  <2>1. Flux /\ eager_llm_task # 0
    BY <1>5 DEF TranscriptConfirmsEager, NoSpeculation
  <2>2. /\ UNCHANGED <<at, curr_sequence_id, pc, turn, synthQ, outQ, out>>
        /\ llm_task' = eager_llm_task
        /\ eager_llm_task \in sequence_ids'
        /\ task' = task \/ task' = Cancel({llm_task})
    BY <1>5 DEF TranscriptConfirmsEager, Revalidated
  <2>3. at[eager_llm_task] = eager_llm_task
    BY <1>0, <2>1 DEF ToolInv, TypeOK, TaskType
  <2>4. \A i \in Ids : /\ task'[i] = "absent" <=> task[i] = "absent"
                       /\ task'[i] = "generating" => task[i] = "generating"
    BY <1>0, <2>2, Cancelled DEF Alive
  <2>5. ChunksKnown' /\ EndsSilent'
    BY <1>0, <2>2, <2>4, ChunksMove, FrameChunks
  <2>. QED
    BY <2>1, <2>2, <2>3, <2>4, <2>5 DEF TasksDistinct, AnswerIsValid, Started
<1>6. ASSUME NEW h \in Handlers, NEW dup \in BOOLEAN, TurnArrives(h, s, dup), asr' \in {asr, "quiet"}
      PROVE  AnswerInv'
  <2>1. /\ s \in Ids /\ curr_sequence_id' = s
        /\ UNCHANGED <<at, eager_llm_task, synthQ, outQ, out>>
    BY <1>0, <1>6, NewIdTyped DEF TurnArrives, Allocate, TypeOK
  <2>2. ~Flux => NoSpeculation'
    BY <1>6, <2>1 DEF NoSpeculation
  <2>3. Chunks' \subseteq Chunks
    BY <1>0, <2>1, ChunksMove
  <2>4. CASE DropTurn(dup)
    BY <1>1, <2>1, <2>2, <2>3, <2>4 DEF DropTurn
  <2>5. CASE PreemptForTurn(h, s, dup)
    <3>1. /\ pc' = [pc EXCEPT ![h] = "clear"] /\ turn' = [turn EXCEPT ![h] = s]
          /\ UNCHANGED <<task, llm_task>>
      BY <2>5 DEF PreemptForTurn
    <3>2. ~AllIdle'
      BY <1>0, <3>1 DEF AllIdle
    <3>3. \A g \in Handlers : turn'[g] \in {turn[g], 0, s}
      BY <1>0, <3>1
    <3>4. ChunksKnown' /\ EndsSilent'
      BY <1>0, <2>1, <2>3, <3>1, <3>3, FrameChunks
    <3>. QED
      BY <2>1, <2>2, <3>1, <3>2, <3>4 DEF TasksDistinct, AnswerIsValid, Started
  <2>6. CASE AnswerTurn(s, dup)
    BY <1>2, <2>1, <2>2, <2>6 DEF AnswerTurn, StartLlm, Registered
  <2>. QED
    BY <1>6, <2>4, <2>5, <2>6 DEF TurnArrives
<1>7. CASE EagerEndOfTurn \/ SilenceRepeat
  <2>1. UNCHANGED <<at, turn, pc, synthQ, outQ, out>>
    BY <1>7 DEF EagerEndOfTurn, SilenceRepeat, handVars, pipeVars
  <2>2. ~Flux => NoSpeculation'
    BY <1>7 DEF EagerEndOfTurn, SilenceRepeat, handVars, NoSpeculation
  <2>3. \/ UNCHANGED <<curr_sequence_id, sequence_ids, task, llm_task>>
        \/ /\ s \in Ids /\ curr_sequence_id' = s
           /\ task' = [task EXCEPT ![s] = "generating"]
           /\ sequence_ids' = sequence_ids \cup {s}
           /\ llm_task' \in {llm_task, s}
    BY <1>0, <1>7, NewIdTyped DEF EagerEndOfTurn, SilenceRepeat, Allocate, StartLlm, Registered, TypeOK
  <2>4. Chunks' \subseteq Chunks
    BY <1>0, <2>1, ChunksMove
  <2>. QED
    BY <1>1, <1>2, <2>1, <2>2, <2>3, <2>4
<1>8. CASE TurnResumed
  <2>1. UNCHANGED <<curr_sequence_id, sequence_ids, at, llm_task, pc, turn, synthQ, outQ, out>>
    BY <1>8 DEF TurnResumed, imVars, pipeVars
  <2>2. task' = task \/ task' = Cancel({eager_llm_task})
    BY <1>8 DEF TurnResumed
  <2>3. \A i \in Ids : /\ task'[i] = "absent" <=> task[i] = "absent"
                       /\ task'[i] = "generating" => task[i] = "generating"
    BY <1>0, <2>2, Cancelled DEF Alive
  <2>4. ~Flux => NoSpeculation'
    BY <1>8 DEF TurnResumed, NoSpeculation
  <2>. QED
    BY <1>0, <1>1, <2>1, <2>3, <2>4, ChunksMove
<1>9. ASSUME NEW h \in Handlers, CleanupClear(h) PROVE AnswerInv'
  <2>1. /\ UNCHANGED <<taskVars, pipeVars, curr_sequence_id, asr, turn>>
        /\ pc' = [pc EXCEPT ![h] = "synth"]
    BY <1>9 DEF CleanupClear, imVars
  <2>2. ~AllIdle' /\ Chunks' = Chunks
    BY <1>0, <2>1 DEF AllIdle, pipeVars, Chunks
  <2>. QED
    BY <2>1, <2>2
       DEF taskVars, TasksDistinct, AnswerIsValid, NoSpeculation, Started, ChunksKnown, EndsSilent
<1>10. ASSUME NEW h \in Handlers, CleanupFinish(h) PROVE AnswerInv'
  <2>. DEFINE cancelled == Cancel({llm_task, eager_llm_task})
  <2>1. /\ UNCHANGED <<curr_sequence_id, at, asr>>
        /\ eager_llm_task' = 0 /\ turn' = [turn EXCEPT ![h] = 0]
        /\ turn[h] = 0 => task' = cancelled /\ llm_task' = 0
        /\ turn[h] # 0 => /\ task' = [cancelled EXCEPT ![turn[h]] = "generating"]
                          /\ llm_task' = turn[h] /\ turn[h] \in sequence_ids'
    BY <1>10 DEF CleanupFinish, StartLlm, Revalidated
  <2>2. /\ cancelled \in [Ids -> Alive \cup {"absent", "over"}]
        /\ \A i \in Ids : /\ cancelled[i] = "absent" <=> task[i] = "absent"
                          /\ cancelled[i] = "generating" => task[i] = "generating"
    BY <1>0, Cancelled DEF Alive
  <2>. HIDE DEF cancelled
  <2>3. /\ turn[h] \in Ids \cup {0}
        /\ turn[h] # 0 => /\ at[turn[h]] = turn[h]
                          /\ \A i \in Ids : Started(i) => at[i] # turn[h]
    BY <1>0 DEF BookInv, TurnsPending, TasksKnown
  <2>4. \A i \in Ids : /\ task'[i] # "absent" => Started(i) \/ i = turn[h]
                       /\ task'[i] = "generating" => task[i] = "generating" \/ i = turn[h]
    BY <2>1, <2>2, <2>3 DEF Started
  <2>5. Chunks' \subseteq Chunks
    BY <1>0, <1>10, ChunksMove
  <2>6. \A c \in Chunks : c.seq # turn[h] /\ c.seq # 0 /\ c.seq \in 1 .. curr_sequence_id
    BY DEF ChunksKnown
  <2>7. ChunksKnown'
    BY <1>0, <2>1, <2>5, <2>6 DEF ChunksKnown
  <2>8. EndsSilent'
    BY <1>01, <2>1, <2>3, <2>4, <2>5, <2>6 DEF EndsSilent
  <2>9. TasksDistinct'
    BY <1>01, <2>1, <2>3, <2>4 DEF TasksDistinct, Started
  <2>10. AnswerIsValid'
    BY <2>1, <2>3 DEF AnswerIsValid
  <2>. QED
    BY <2>1, <2>7, <2>8, <2>9, <2>10 DEF NoSpeculation
<1>11. ASSUME NEW i \in Ids, LlmFollowup(i) PROVE AnswerInv'
  <2>1. /\ s \in Ids /\ curr_sequence_id' = s /\ sequence_ids' = sequence_ids \cup {s}
        /\ at' = [at EXCEPT ![i] = s]
        /\ task[i] = "tool" /\ task' = [task EXCEPT ![i] = "generating"]
        /\ UNCHANGED <<llm_task, eager_llm_task, pc, turn, asr, synthQ, outQ, out>>
    BY <1>0, <1>11, NewIdTyped DEF LlmFollowup, Allocate, Registered, Step, handVars, pipeVars, TypeOK
  <2>2. Chunks' \subseteq Chunks
    BY <1>0, <2>1, ChunksMove
  <2>3. \A j \in Ids : j # i => task'[j] = task[j] /\ at'[j] = at[j]
    BY <1>0, <2>1
  <2>4. Started(i) /\ at'[i] = s
    BY <1>0, <2>1 DEF Started
  <2>5. TasksDistinct'
    BY <1>01, <2>3, <2>4 DEF TasksDistinct, Started
  <2>6. \A c \in Chunks : c.seq \in 1 .. curr_sequence_id /\ c.seq # s
    BY <1>0 DEF ChunksKnown
  <2>7. ChunksKnown'
    BY <1>0, <2>1, <2>2 DEF ChunksKnown
  <2>8. EndsSilent'
    BY <2>2, <2>3, <2>4, <2>6 DEF EndsSilent
  <2>9. AnswerIsValid'
    BY <1>0, <2>1, <2>3, <2>4 DEF AnswerIsValid, AllIdle, TypeOK, TaskType
  <2>. QED
    BY <2>1, <2>5, <2>7, <2>8, <2>9 DEF NoSpeculation
<1>12. ASSUME NEW i \in Ids,
              \/ LlmText(i) \/ LlmFinish(i) \/ LlmFinishEmpty(i)
              \/ LlmPreCall(i) \/ LlmToolCall(i) \/ LlmEnd(i)
       PROVE  AnswerInv'
  <2>1. /\ UNCHANGED <<sequence_ids, curr_sequence_id, at, eager_llm_task, pc, asr, turn>>
        /\ task[i] \in Alive /\ task'[i] \in Alive \cup {"over"}
        /\ \A j \in Ids : j # i => task'[j] = task[j]
        /\ task'[i] = "generating" => task[i] = "generating"
        /\ llm_task' \in {llm_task, 0}
    BY <1>0, <1>12, LlmAdvances DEF imVars, handVars
  <2>2. \A j \in Ids : task'[j] = "absent" <=> task[j] = "absent"
    BY <2>1 DEF Alive
  <2>3. \A c \in Chunks' : \/ c \in Chunks
                           \/ c.seq = at[i] /\ (c.kind = "end" => task'[i] # "generating")
    BY <1>0, <1>12, ChunksSpoken
  <2>4. Started(i) /\ at[i] \in 1 .. curr_sequence_id
    BY <1>0, <1>02, <2>1 DEF BookInv, TasksKnown, Ids
  <2>5. ChunksKnown'
    BY <1>0, <2>1, <2>3, <2>4, <1>01 DEF ChunksKnown, BookInv, TurnsPending
  <2>6. EndsSilent'
    BY <1>02, <2>1, <2>3, <2>4 DEF EndsSilent, TasksDistinct, Alive
  <2>7. AnswerIsValid'
    <3>1. llm_task \in Ids \cup {0}
      BY <1>0 DEF TypeOK, TaskType
    <3>. QED
      BY <2>1, <3>1 DEF AnswerIsValid, AllIdle
  <2>. QED
    BY <2>1, <2>2, <2>5, <2>6, <2>7 DEF NoSpeculation, TasksDistinct, Started
<1>13. CASE SynthEmit \/ Output \/ MarkAck
  <2>1. UNCHANGED <<curr_sequence_id, task, at, llm_task, eager_llm_task, pc, asr, turn>>
    BY <1>13, OutputAdvances DEF taskVars, handVars
  <2>2. Chunks' \subseteq Chunks
    BY <1>0, <1>13, ChunksMove
  <2>3. ChunksKnown' /\ EndsSilent'
    BY <1>0, <2>1, <2>2, FrameChunks
  <2>4. CASE OutputSent /\ out.chunk.kind = "end"
    <3>1. sequence_ids' = sequence_ids \ {out.chunk.seq} /\ out.chunk \in Chunks
      BY <2>4 DEF OutputSent, Retired, Chunks
    <3>2. \A i \in Ids : task[i] = "generating" => at[i] # out.chunk.seq
      BY <2>4, <3>1 DEF EndsSilent
    <3>3. AnswerIsValid'
      BY <1>0, <2>1, <3>1, <3>2 DEF AnswerIsValid, AllIdle, TypeOK, TaskType
    <3>. QED
      BY <2>1, <2>3, <3>3 DEF NoSpeculation, TasksDistinct, Started
  <2>5. CASE ~(OutputSent /\ out.chunk.kind = "end")
    <3>1. UNCHANGED sequence_ids
      BY <1>13, <2>5 DEF Output, SynthEmit, OutputGet, OutputSend, OutputSent, OutputBlock,
                         OutputDrained, MarkAck, imVars
    <3>. QED
      BY <2>1, <2>3, <3>1 DEF NoSpeculation, TasksDistinct, Started, AnswerIsValid, AllIdle
  <2>. QED
    BY <2>4, <2>5
<1>14. CASE UNCHANGED vars
  BY <1>3, <1>14 DEF vars, coreVars, imVars, playVars, handVars
<1>. QED
  BY <1>3, <1>4, <1>5, <1>6, <1>7, <1>8, <1>9, <1>10, <1>11, <1>12, <1>13, <1>14, CoreQuiet,
     HandlersAssumption
     DEF Next, Listener, Cleanup, Llm, Transcript, Digits, EndOfSpeech, Listening

(* Unless speculative answers meet tool calls, the answer that is being    *)
(* generated is valid whenever no cleanup is under way: what its task      *)
(* speaks may be sent.                                                     *)
THEOREM AnswerStaysValid == ASSUME ~(Flux /\ Tools) PROVE Spec => []AnswerIsValid
<1>1. Init => AnswerInv
  <2>. SUFFICES ASSUME Init PROVE AnswerInv
    OBVIOUS
  <2>1. Chunks = {}
    BY DEF Init, Chunks, Elements
  <2>. QED
    BY <2>1 DEF Init, AnswerInv, NoSpeculation, TasksDistinct, ChunksKnown, EndsSilent, AnswerIsValid,
                Started
<1>2. TypeInv /\ RevokedInv /\ BookInv /\ ToolInv /\ AnswerInv /\ [Next]_vars => AnswerInv'
  BY AnswerInvStep
<1>3. AnswerInv => AnswerIsValid
  BY DEF AnswerInv
<1>. QED
  BY <1>1, <1>2, <1>3, NamesKept, PTL DEF Spec
-----------------------------------------------------------------------------
(* The history g has no entries of these roles that h did not have, at the *)
(* same places: it was cut, or others were appended.                       *)
NothingNew(h, g, roles) ==
    \A k \in 1 .. Len(g) : g[k].role \in roles => k \in 1 .. Len(h) /\ g[k] = h[k]

(* Cutting adds nothing, appending the entry that is appended.            *)
LEMMA NothingNewCut ==
    ASSUME NEW h \in Seq(Entry), NEW n \in Nat, n <= Len(h), NEW roles
    PROVE  NothingNew(h, SubSeq(h, 1, n), roles)
  BY DEF NothingNew

LEMMA NothingNewAppend ==
    ASSUME NEW h \in Seq(Entry), NEW e \in Entry, NEW roles, e.role \notin roles
    PROVE  NothingNew(h, Append(h, e), roles)
  BY DEF NothingNew

LEMMA NothingNewTwice ==
    ASSUME NEW f, NEW g, NEW h, NEW roles, NothingNew(f, g, roles), NothingNew(g, h, roles)
    PROVE  NothingNew(f, h, roles)
  BY DEF NothingNew

Speakers == {"user", "assistant"}

(* What a merge and the follow-up of a tool call leave of the history.    *)
LEMMA HistoryKept ==
    ASSUME TypeInv
    PROVE  /\ NothingNew(history, history, Speakers)
           /\ NothingNew(history, Unmerged, Speakers)
           /\ \A i \in Ids : LlmFollowup(i) => NothingNew(history, history', Speakers)
           /\ TurnResumed => NothingNew(history, history', Speakers)
<1>0. history \in Seq(Entry) /\ Len(history) > 1 /\ Opening /\ eager_snapshot \in Nat \cup {-1}
  BY DEF TypeInv, TypeOK, HistoryType
<1>1. NothingNew(history, history, Speakers)
  BY DEF NothingNew
<1>2. NothingNew(history, Unmerged, Speakers)
  BY <1>0, <1>1, NothingNewCut DEF Unmerged
<1>3. ASSUME NEW i \in Ids, LlmFollowup(i) PROVE NothingNew(history, history', Speakers)
  <2>. DEFINE call == [role |-> "call", seq |-> at[i]]
              result == [role |-> "tool", seq |-> at[i]]
  <2>1. at[i] \in Ids /\ call \in Entry /\ result \in Entry
    BY EntryTyped DEF TypeInv, TypeOK, TaskType
  <2>2. WithCall(at[i]) = history \/ WithCall(at[i]) = Append(history, call)
    BY DEF WithCall
  <2>3. history' = Append(WithCall(at[i]), result)
    BY <1>3 DEF LlmFollowup
  <2>4. call.role \notin Speakers /\ result.role \notin Speakers
    BY DEF Speakers
  <2>. HIDE DEF call, result
  <2>7. Append(history, call) \in Seq(Entry) /\ NothingNew(history, Append(history, call), Speakers)
    BY <1>0, <2>1, <2>4, NothingNewAppend
  <2>5. WithCall(at[i]) \in Seq(Entry) /\ NothingNew(history, WithCall(at[i]), Speakers)
    BY <1>0, <1>1, <2>2, <2>7
  <2>6. NothingNew(WithCall(at[i]), history', Speakers)
    BY <2>1, <2>3, <2>4, <2>5, NothingNewAppend
  <2>. QED
    BY <2>5, <2>6, NothingNewTwice
<1>4. ASSUME TurnResumed PROVE NothingNew(history, history', Speakers)
  <2>1. \/ history' = history
        \/ /\ eager_snapshot # -1 /\ Len(history) > eager_snapshot
           /\ history' = SubSeq(history, 1, eager_snapshot)
    BY <1>4 DEF TurnResumed
  <2>2. ASSUME eager_snapshot # -1, Len(history) > eager_snapshot
        PROVE  NothingNew(history, SubSeq(history, 1, eager_snapshot), Speakers)
    <3>1. eager_snapshot \in Nat /\ eager_snapshot <= Len(history)
      BY <1>0, <2>2
    <3>. QED
      BY <1>0, <3>1, NothingNewCut
  <2>. QED
    BY <1>1, <2>1, <2>2
<1>. QED
  BY <1>1, <1>2, <1>3, <1>4

(* Of the replies of the history, and so of the turns.                    *)
LEMMA RolesKept ==
    ASSUME NEW roles, NothingNew(history, history', roles)
    PROVE  /\ "assistant" \in roles => \A k \in Replies' : k \in Replies /\ history'[k] = history[k]
           /\ "user" \in roles => \A k \in 1 .. Len(history') : history'[k].role = "user" =>
                                      k \in 1 .. Len(history) /\ history'[k] = history[k]
  BY DEF NothingNew, Replies
-----------------------------------------------------------------------------
(* Without tools an answer is staged once, as its task stops generating,   *)
(* and leaves the staging area for the history or for nowhere.             *)
Done(i) == task[i] \in {"checking", "over"}
StagedDone == \A i \in staged : Done(i)
RepliesDone == \A k \in Replies : history[k].seq \notin staged /\ Done(history[k].seq)
OnceInv == StagedDone /\ RepliesDone /\ NoDuplicateReply

(* The replies are to turns.                                              *)
LEMMA RepliesTyped == TypeOK => \A k \in Replies : history[k].seq \in Ids
<1>1. TypeOK => \A k \in 1 .. Len(history) : history[k] \in Entry
  BY DEF TypeOK, HistoryType
<1>. QED
  BY <1>1 DEF Replies, Entry

(* A step that adds neither a reply nor a staged answer keeps that.       *)
LEMMA FrameOnce ==
    ASSUME TypeOK, OnceInv, staged' \subseteq staged, NothingNew(history, history', {"assistant"}),
           \A i \in Ids : Done(i) => Done(i)'
    PROVE  OnceInv'
<1>1. \A k \in Replies' : k \in Replies /\ history'[k] = history[k]
  BY RolesKept
<1>2. staged \subseteq Ids
  BY DEF TypeOK, HistoryType
<1>3. \A k \in Replies : history[k].seq \in Ids
  BY RepliesTyped
<1>. QED
  BY <1>1, <1>2, <1>3 DEF OnceInv, StagedDone, RepliesDone, NoDuplicateReply

(* The output loop alone enters replies.                                  *)
LEMMA RepliesEnter ==
    ASSUME TypeInv, [Next]_vars, ~OutputSend
    PROVE  NothingNew(history, history', {"assistant"})
<1>. DEFINE s == curr_sequence_id + 1
<1>0. /\ history \in Seq(Entry) /\ turn \in [Handlers -> Ids \cup {0}]
      /\ \A h, g : NothingNew(h, g, Speakers) => NothingNew(h, g, {"assistant"})
  BY DEF TypeInv, TypeOK, HistoryType, HandlerType, NothingNew, Speakers
<1>1. CASE UNCHANGED history
  BY <1>0, <1>1, HistoryKept
<1>2. ASSUME NEW i \in Ids, history' = Append(history, UserEntry(i))
      PROVE  NothingNew(history, history', {"assistant"})
  BY <1>0, <1>2, EntryTyped, NothingNewAppend DEF UserEntry
<1>3. ASSUME NEW h \in Handlers, NEW dup \in BOOLEAN, TurnArrives(h, s, dup)
      PROVE  NothingNew(history, history', {"assistant"})
  <2>1. s \in Ids
    BY <1>3, NewIdTyped DEF TurnArrives, Allocate, TypeInv, TypeOK
  <2>2. \/ UNCHANGED history \/ history' = Unmerged \/ history' = Append(history, UserEntry(s))
    BY <1>3 DEF TurnArrives, DropTurn, PreemptForTurn, AnswerTurn
  <2>. QED
    BY <1>0, <1>1, <1>2, <2>1, <2>2, HistoryKept
<1>4. CASE EagerEndOfTurn \/ SilenceRepeat
  <2>1. UNCHANGED history \/ (s \in Ids /\ history' = Append(history, UserEntry(s)))
    BY <1>4, NewIdTyped DEF EagerEndOfTurn, SilenceRepeat, Allocate, TypeInv, TypeOK
  <2>. QED
    BY <1>1, <1>2, <2>1
<1>5. ASSUME NEW h \in Handlers, CleanupFinish(h) PROVE NothingNew(history, history', {"assistant"})
  <2>1. UNCHANGED history \/ (turn[h] # 0 /\ history' = Append(history, UserEntry(turn[h])))
    BY <1>5 DEF CleanupFinish
  <2>. QED
    BY <1>0, <1>1, <1>2, <2>1
<1>6. CASE TurnResumed \/ \E i \in Ids : LlmFollowup(i)
  BY <1>0, <1>6, HistoryKept
<1>7. ASSUME NEW i \in Ids,
             \/ LlmText(i) \/ LlmFinish(i) \/ LlmFinishEmpty(i)
             \/ LlmPreCall(i) \/ LlmToolCall(i) \/ LlmEnd(i)
      PROVE  UNCHANGED history
  BY <1>7, LlmAdvances DEF TypeInv
<1>8. CASE \/ UNCHANGED coreVars \/ UNCHANGED vars
           \/ SynthEmit \/ OutputGet \/ OutputSent \/ OutputBlock \/ OutputDrained \/ MarkAck
           \/ \E w \in Words : InterimBargesIn(w) \/ InterimContinues(w) \/ TranscriptConfirmsEager(w)
           \/ \E h \in Handlers : CleanupClear(h)
  <2>1. UNCHANGED history
    BY <1>8 DEF coreVars, vars, histVars, SynthEmit, OutputGet, OutputSent, OutputBlock, OutputDrained,
                MarkAck, InterimBargesIn, InterimContinues, TranscriptConfirmsEager, CleanupClear
  <2>. QED
    BY <1>1, <2>1
<1>. QED
  BY <1>1, <1>3, <1>4, <1>5, <1>6, <1>7, <1>8, CoreQuiet, HandlersAssumption
     DEF Next, Listener, Cleanup, Llm, Output, Transcript, Digits

(* A task that is done stays done.                                        *)
LEMMA DoneStays ==
    ASSUME TypeOK, RevokedInv, BookInv, [Next]_vars, NEW i \in Ids, Done(i)
    PROVE  Done(i)'
<1>. DEFINE s == curr_sequence_id + 1
<1>. USE DEF Done
<1>00. Started(i) /\ i \in Int /\ curr_sequence_id \in Nat /\ i # 0
  BY DEF Started, TypeOK, ManagerType, Ids
<1>0. /\ task \in [Ids -> Alive \cup {"absent", "over"}]
      /\ i # s /\ \A h \in Handlers : i # turn[h]
  BY <1>00 DEF TypeOK, TaskType, BookInv, TasksKnown, TurnsPending
<1>1. CASE UNCHANGED task
  BY <1>1
<1>2. \A t : Cancel(t)[i] \in {"checking", "over"}
  BY DEF Cancel
<1>3. ASSUME NEW j \in Ids, Llm(j) PROVE Done(i)'
  BY <1>0, <1>3 DEF Llm, LlmText, LlmFinish, LlmFinishEmpty, LlmPreCall, LlmToolCall, LlmFollowup,
                    LlmEnd, Step
<1>4. ASSUME NEW h \in Handlers, CleanupFinish(h) PROVE Done(i)'
  <2>. DEFINE cancelled == Cancel({llm_task, eager_llm_task})
  <2>1. cancelled \in [Ids -> Alive \cup {"absent", "over"}]
    BY Cancelled
  <2>2. task' = cancelled \/ task' = [cancelled EXCEPT ![turn[h]] = "generating"]
    BY <1>4 DEF CleanupFinish, StartLlm
  <2>3. cancelled[i] \in {"checking", "over"}
    BY <1>2
  <2>. HIDE DEF cancelled
  <2>. QED
    BY <1>0, <2>1, <2>2, <2>3
<1>5. CASE \/ \E w \in Words : TranscriptConfirmsEager(w)
           \/ EagerEndOfTurn \/ TurnResumed \/ SilenceRepeat
           \/ \E h \in Handlers, dup \in BOOLEAN : TurnArrives(h, s, dup)
  <2>1. \/ task' = task \/ (\E t : task' = Cancel(t))
        \/ task' = [task EXCEPT ![s] = "generating"]
    BY <1>5 DEF TranscriptConfirmsEager, EagerEndOfTurn, TurnResumed, SilenceRepeat, TurnArrives,
                DropTurn, PreemptForTurn, AnswerTurn, StartLlm
  <2>. QED
    BY <1>0, <1>2, <2>1
<1>6. CASE \/ SynthEmit \/ Output \/ MarkAck \/ UNCHANGED coreVars \/ UNCHANGED vars
           \/ \E w \in Words : InterimBargesIn(w) \/ InterimContinues(w)
           \/ \E h \in Handlers : CleanupClear(h)
  BY <1>1, <1>6, OutputAdvances
     DEF coreVars, vars, taskVars, InterimBargesIn, InterimContinues, CleanupClear
<1>. QED
  BY <1>3, <1>4, <1>5, <1>6, CoreQuiet, HandlersAssumption
     DEF Next, Listener, Cleanup, Transcript, Digits

(* Every step keeps the replies single.                                   *)
LEMMA OnceInvStep ==
    ~Tools /\ TypeInv /\ RevokedInv /\ BookInv /\ ToolInv /\ OnceInv /\ [Next]_vars => OnceInv'
<1>. SUFFICES ASSUME ~Tools, TypeInv, RevokedInv, BookInv, ToolInv, OnceInv, [Next]_vars
              PROVE  OnceInv'
  OBVIOUS
<1>0. /\ TypeOK
      /\ task \in [Ids -> Alive \cup {"absent", "over"}]
      /\ history \in Seq(Entry) /\ staged \subseteq Ids
      /\ \A i \in Ids : at[i] = i
  BY DEF TypeInv, TypeOK, TaskType, HistoryType, ToolInv
<1>00. /\ \A k \in Replies : history[k].seq \in Ids
       /\ \A i \in Ids : Done(i) => Done(i)'
  BY <1>0, RepliesTyped, DoneStays
<1>. USE DEF OnceInv, StagedDone, RepliesDone
<1>1. CASE OutputSend
  <2>. DEFINE s == out.chunk.seq
              reply == [role |-> "assistant", seq |-> s]
  <2>1. /\ staged' = staged \ {s} /\ UNCHANGED task
        /\ s \notin staged => UNCHANGED history
        /\ s \in staged => history' = Append(history, reply)
    BY <1>1 DEF OutputSend, Unstaged, taskVars
  <2>2. CASE s \notin staged
    <3>1. NothingNew(history, history', {"assistant"})
      BY <2>1, <2>2 DEF NothingNew
    <3>. QED
      BY <1>0, <1>00, <2>1, <3>1, FrameOnce
  <2>3. CASE s \in staged
    <3>1. \A k \in Replies' : \/ k \in Replies /\ history'[k] = history[k]
                              \/ k = Len(history) + 1 /\ history'[k].seq = s
      BY <1>0, <2>1, <2>3 DEF Replies
    <3>2. \A k \in Replies : history[k].seq # s /\ history[k].seq \notin staged /\ Done(history[k].seq)
      BY <2>3
    <3>3. Done(s) /\ s \in Ids
      BY <1>0, <2>3
    <3>. HIDE DEF s
    <3>4. RepliesDone'
      BY <1>00, <2>1, <3>1, <3>2, <3>3
    <3>5. NoDuplicateReply'
      BY <3>1, <3>2 DEF NoDuplicateReply
    <3>6. StagedDone'
      BY <1>0, <1>00, <2>1
    <3>. QED
      BY <3>4, <3>5, <3>6
  <2>. QED
    BY <2>2, <2>3
<1>2. ASSUME NEW i \in Ids, LlmFinish(i) \/ LlmFinishEmpty(i) \/ LlmPreCall(i) \/ LlmToolCall(i)
      PROVE  OnceInv'
  <2>1. /\ task[i] = "generating" /\ Done(i)'
        /\ staged' \in {staged, staged \cup {i}}
        /\ UNCHANGED history
    BY <1>0, <1>2 DEF LlmFinish, LlmFinishEmpty, LlmPreCall, LlmToolCall, Step, Done
  <2>2. \A k \in Replies : history[k].seq # i
    BY <2>1 DEF Done
  <2>3. Replies' = Replies
    BY <2>1 DEF Replies
  <2>. QED
    BY <1>0, <1>00, <2>1, <2>2, <2>3 DEF NoDuplicateReply
<1>3. ASSUME staged' \subseteq staged, ~OutputSend PROVE OnceInv'
  BY <1>0, <1>00, <1>3, RepliesEnter, FrameOnce
<1>4. ASSUME NEW h \in Handlers, NEW s, NEW dup \in BOOLEAN, TurnArrives(h, s, dup)
      PROVE  staged' \subseteq staged
  BY <1>4 DEF TurnArrives
<1>5. ASSUME NEW h \in Handlers, Cleanup(h) PROVE staged' \subseteq staged
  BY <1>5 DEF Cleanup, CleanupClear, CleanupFinish, histVars
<1>6. ASSUME NEW i \in Ids, LlmText(i) \/ LlmFollowup(i) \/ LlmEnd(i) PROVE staged' \subseteq staged
  BY <1>6 DEF LlmText, LlmFollowup, LlmEnd, histVars
<1>7. CASE \/ EagerEndOfTurn \/ TurnResumed \/ SilenceRepeat \/ UNCHANGED coreVars \/ UNCHANGED vars
           \/ \E w \in Words : InterimBargesIn(w) \/ InterimContinues(w) \/ TranscriptConfirmsEager(w)
           \/ SynthEmit \/ OutputGet \/ OutputSent \/ OutputBlock \/ OutputDrained \/ MarkAck
  <2>1. staged' \subseteq staged
    BY <1>7 DEF EagerEndOfTurn, TurnResumed, SilenceRepeat, coreVars, vars, histVars, InterimBargesIn,
                InterimContinues, TranscriptConfirmsEager, SynthEmit, OutputGet, OutputSent,
                OutputBlock, OutputDrained, MarkAck, Unstaged
  <2>. QED
    BY <1>1, <1>3, <2>1
<1>. QED
  BY <1>1, <1>2, <1>3, <1>4, <1>5, <1>6, <1>7, CoreQuiet, HandlersAssumption
     DEF Next, Listener, Llm, Output, Transcript, Digits

(* Without tools no answer enters the history twice, with speculation, the *)
(* silence watcher and the keypad as well.                                 *)
THEOREM RepliesEnterOnce == ASSUME ~Tools PROVE Spec => []NoDuplicateReply
<1>1. Init => OnceInv
  <2>. SUFFICES ASSUME Init PROVE OnceInv
    OBVIOUS
  <2>1. staged = {} /\ Replies = {}
    BY DEF Init, Replies
  <2>. QED
    BY <2>1 DEF OnceInv, StagedDone, RepliesDone, NoDuplicateReply
<1>2. TypeInv /\ RevokedInv /\ BookInv /\ ToolInv /\ OnceInv /\ [Next]_vars => OnceInv'
  BY OnceInvStep
<1>3. OnceInv => NoDuplicateReply
  BY DEF OnceInv
<1>. QED
  BY <1>1, <1>2, <1>3, NamesKept, PTL DEF Spec
-----------------------------------------------------------------------------
(* With one handler the turns enter the history in the order of their ids: *)
(* those it has come before the turn being set up, and none is newer than  *)
(* the turn of a valid id or of a task that runs.                          *)
OneHandler == Handlers = {"asr"}
Asked == {k \in 1 .. Len(history) : history[k].role = "user"}
AskedBefore(t) == \A k \in Asked : history[k].seq <= t
OrderInv ==
    /\ \A k \in Asked \cup Replies : history[k].seq <= curr_sequence_id
    /\ turn["asr"] # 0 => AskedBefore(turn["asr"])
    /\ \A p \in sequence_ids \ {-1} : AskedBefore(root[p])
    /\ \A i \in Ids : task[i] \in Alive => AskedBefore(root[at[i]])
    /\ NoReplyAfterNewerTurn

(* The ids of the history are those of turns.                             *)
LEMMA AskedTyped == TypeOK => \A k \in Asked \cup Replies : history[k] \in Entry /\ history[k].seq \in Int
<1>1. TypeOK => \A k \in 1 .. Len(history) : history[k] \in Entry
  BY DEF TypeOK, HistoryType
<1>. QED
  BY <1>1 DEF Asked, Replies, Entry, Ids

(* A step that adds neither turns nor replies keeps the order, if ids that *)
(* become valid and tasks that start or go on belong to the turn that was  *)
(* being set up, to one that was valid or running, or to a newer one.      *)
LEMMA FrameOrder ==
    ASSUME TypeOK, OrderInv, NothingNew(history, history', Speakers),
           curr_sequence_id' \in {curr_sequence_id, curr_sequence_id + 1},
           \A i \in Ids : i <= curr_sequence_id => root'[i] = root[i],
           turn'["asr"] \in {turn["asr"], 0, curr_sequence_id + 1},
           \A p \in sequence_ids' \ {-1} :
               \/ p \in sequence_ids /\ root'[p] = root[p]
               \/ root'[p] = curr_sequence_id + 1
               \/ \E i \in Ids : task[i] \in Alive /\ root'[p] = root[at[i]],
           \A i \in Ids : task'[i] \in Alive =>
               \/ task[i] \in Alive /\ root'[at'[i]] = root[at[i]]
               \/ root'[at'[i]] = curr_sequence_id + 1
    PROVE  OrderInv'
<1>1. /\ \A k \in Asked' : k \in Asked /\ history'[k] = history[k]
      /\ \A k \in Replies' : k \in Replies /\ history'[k] = history[k]
  BY RolesKept DEF Asked, Speakers
<1>2. /\ curr_sequence_id \in Nat
      /\ \A k \in Asked \cup Replies : history[k].seq \in Int /\ history[k].seq <= curr_sequence_id
      /\ \A k \in Replies : history[k].seq \in Ids
  BY AskedTyped, RepliesTyped DEF OrderInv, TypeOK, ManagerType
<1>3. \A t : AskedBefore(t) => \A k \in Asked' : history'[k].seq <= t
  BY <1>1 DEF AskedBefore
<1>4. \A k \in Asked' \cup Replies' : history'[k].seq <= curr_sequence_id
  BY <1>1, <1>2
<1>5. \A k \in Asked' \cup Replies' : /\ history'[k].seq <= curr_sequence_id'
                                      /\ history'[k].seq <= curr_sequence_id + 1
  BY <1>1, <1>2, <1>4
<1>6. turn'["asr"] # 0 => \A k \in Asked' : history'[k].seq <= turn'["asr"]
  BY <1>3, <1>5 DEF OrderInv
<1>7. \A p \in sequence_ids' \ {-1} : \A k \in Asked' : history'[k].seq <= root'[p]
  BY <1>3, <1>5 DEF OrderInv
<1>8. \A i \in Ids : task'[i] \in Alive => \A k \in Asked' : history'[k].seq <= root'[at'[i]]
  BY <1>3, <1>5 DEF OrderInv
<1>9. NoReplyAfterNewerTurn'
  <2>. SUFFICES ASSUME NEW k \in Replies', NEW j \in 1 .. k, history'[j].role = "user"
                PROVE  history'[j].seq <= root'[history'[k].seq]
    BY DEF NoReplyAfterNewerTurn
  <2>1. k \in 1 .. Len(history') /\ k \in Nat
    BY DEF Replies
  <2>2. j \in Asked'
    BY <2>1 DEF Asked
  <2>3. history'[j] = history[j] /\ history'[k] = history[k] /\ k \in Replies
    BY <1>1, <2>2
  <2>. QED
    BY <1>2, <2>3 DEF OrderInv, NoReplyAfterNewerTurn
<1>. QED
  BY <1>5, <1>6, <1>7, <1>8, <1>9 DEF OrderInv, AskedBefore

(* What follows the entries of h in Append(h, e).                         *)
LEMMA AppendedLast ==
    ASSUME NEW h \in Seq(Entry), NEW e \in Entry
    PROVE  /\ Len(Append(h, e)) = Len(h) + 1
           /\ \A k \in 1 .. Len(h) : Append(h, e)[k] = h[k]
           /\ Append(h, e)[Len(h) + 1] = e
           /\ Len(h) \in Nat
  OBVIOUS

(* Nor does the message of a turn that no turn is newer than, when its ids *)
(* and its task are the only ones.                                         *)
LEMMA FrameOrderTurn ==
    ASSUME TypeOK, OrderInv, NEW u \in Ids, AskedBefore(u),
           history' = Append(history, UserEntry(u)),
           curr_sequence_id' \in {curr_sequence_id, curr_sequence_id + 1}, u <= curr_sequence_id',
           \A i \in Ids : i <= curr_sequence_id => root'[i] = root[i],
           root'[u] = u, turn'["asr"] = 0, sequence_ids' \subseteq {-1, u},
           \A i \in Ids : task'[i] \in Alive => at'[i] = u
    PROVE  OrderInv'
<1>0. u \in Nat /\ u # 0 /\ u # -1
  BY DEF Ids
<1>1. history \in Seq(Entry) /\ UserEntry(u) \in Entry /\ curr_sequence_id \in Nat
  <2>1. history \in Seq(Entry) /\ curr_sequence_id \in Nat
    BY DEF TypeOK, HistoryType, ManagerType
  <2>2. UserEntry(u) \in Entry
    BY EntryTyped
  <2>. QED
    BY <2>1, <2>2
<1>2. \A k \in 1 .. Len(history') : \/ k \in 1 .. Len(history) /\ history'[k] = history[k]
                                    \/ k = Len(history) + 1 /\ history'[k] = UserEntry(u)
  BY <1>1, AppendedLast
<1>3. /\ \A k \in Asked' : \/ k \in Asked /\ history'[k] = history[k]
                           \/ history'[k].seq = u
      /\ \A k \in Replies' : k \in Replies /\ history'[k] = history[k]
  BY <1>2 DEF Asked, Replies, UserEntry
<1>4. \A k \in Asked' : history'[k].seq <= u
  <2>. SUFFICES ASSUME NEW k \in Asked' PROVE history'[k].seq <= u
    OBVIOUS
  <2>1. CASE k \in Asked /\ history'[k] = history[k]
    BY <2>1 DEF AskedBefore
  <2>2. CASE history'[k].seq = u
    BY <1>0, <2>2
  <2>. QED
    BY <1>3, <2>1, <2>2
<1>5. /\ \A k \in Asked \cup Replies : history[k].seq \in Int /\ history[k].seq <= curr_sequence_id
      /\ \A k \in Replies : history[k].seq \in Ids
  BY AskedTyped, RepliesTyped DEF OrderInv
<1>6. \A k \in Asked' \cup Replies' : history'[k].seq <= curr_sequence_id'
  <2>. SUFFICES ASSUME NEW k \in Asked' \cup Replies' PROVE history'[k].seq <= curr_sequence_id'
    OBVIOUS
  <2>1. CASE k \in Asked \cup Replies /\ history'[k] = history[k]
    <3>1. history[k].seq \in Int /\ history[k].seq <= curr_sequence_id
      BY <1>5, <2>1
    <3>. QED
      BY <1>1, <2>1, <3>1
  <2>2. CASE history'[k].seq = u
    BY <2>2
  <2>. QED
    BY <1>3, <2>1, <2>2
<1>7. NoReplyAfterNewerTurn'
  <2>. SUFFICES ASSUME NEW k \in Replies', NEW j \in 1 .. k, history'[j].role = "user"
                PROVE  history'[j].seq <= root'[history'[k].seq]
    BY DEF NoReplyAfterNewerTurn
  <2>1. k \in 1 .. Len(history) /\ history'[k] = history[k] /\ k \in Replies
    BY <1>3 DEF Replies
  <2>2. j \in 1 .. Len(history) /\ history'[j] = history[j]
    BY <1>1, <2>1, AppendedLast
  <2>. QED
    BY <1>5, <2>1, <2>2 DEF OrderInv, NoReplyAfterNewerTurn
<1>8. \A p \in sequence_ids' \ {-1} : \A k \in Asked' : history'[k].seq <= root'[p]
  <2>1. \A p \in sequence_ids' \ {-1} : p = u
    BY <1>0
  <2>2. \A p \in sequence_ids' \ {-1} : root'[p] = u
    BY <2>1
  <2>. QED
    BY <1>4, <2>2
<1>9. \A i \in Ids : task'[i] \in Alive => \A k \in Asked' : history'[k].seq <= root'[at'[i]]
  BY <1>4
<1>. QED
  BY <1>4, <1>6, <1>7, <1>8, <1>9 DEF OrderInv, AskedBefore

(* Nor does a reply that is entered while its id is valid.                *)
LEMMA FrameOrderReply ==
    ASSUME TypeOK, OrderInv, NEW r \in sequence_ids, r \in Ids, r <= curr_sequence_id,
           history' = Append(history, [role |-> "assistant", seq |-> r]),
           UNCHANGED <<curr_sequence_id, sequence_ids, turn, root, task, at>>
    PROVE  OrderInv'
<1>1. history \in Seq(Entry) /\ [role |-> "assistant", seq |-> r] \in Entry /\ r # -1
  <2>1. history \in Seq(Entry)
    BY DEF TypeOK, HistoryType
  <2>2. [role |-> "assistant", seq |-> r] \in Entry
    BY DEF Entry
  <2>3. r # -1
    BY DEF Ids
  <2>. QED
    BY <2>1, <2>2, <2>3
<1>2. \A k \in 1 .. Len(history') :
         \/ k \in 1 .. Len(history) /\ history'[k] = history[k]
         \/ k = Len(history) + 1 /\ history'[k] = [role |-> "assistant", seq |-> r]
  BY <1>1, AppendedLast
<1>3. /\ \A k \in Asked' : k \in Asked /\ history'[k] = history[k]
      /\ \A k \in Replies' : \/ k \in Replies /\ history'[k] = history[k]
                             \/ history'[k].seq = r
  BY <1>2 DEF Asked, Replies
<1>4. \A t : AskedBefore(t) => \A k \in Asked' : history'[k].seq <= t
  BY <1>3 DEF AskedBefore
<1>5. \A k \in Asked' \cup Replies' : history'[k].seq <= curr_sequence_id
  BY <1>3 DEF OrderInv
<1>6. \A k \in Asked' : history'[k].seq <= root[r]
  BY <1>1, <1>4 DEF OrderInv
<1>7. NoReplyAfterNewerTurn'
  <2>. SUFFICES ASSUME NEW k \in Replies', NEW j \in 1 .. k, history'[j].role = "user"
                PROVE  history'[j].seq <= root'[history'[k].seq]
    BY DEF NoReplyAfterNewerTurn
  <2>1. k \in 1 .. Len(history') /\ k \in Nat
    BY DEF Replies
  <2>2. j \in Asked'
    BY <2>1 DEF Asked
  <2>. QED
    BY <1>3, <1>6, <2>2 DEF OrderInv, NoReplyAfterNewerTurn
<1>. QED
  BY <1>4, <1>5, <1>7 DEF OrderInv, AskedBefore

(* Every step keeps the order.                                            *)
LEMMA OrderInvStep ==
    OneHandler /\ Sequential /\ TypeInv /\ RevokedInv /\ BookInv /\ ChainInv /\ OrderInv /\ [Next]_vars
    => OrderInv'
<1>. SUFFICES ASSUME OneHandler, Sequential, TypeInv, RevokedInv, BookInv, ChainInv, OrderInv, [Next]_vars
              PROVE  OrderInv'
  OBVIOUS
<1>. DEFINE s == curr_sequence_id + 1
<1>0. /\ TypeOK
      /\ curr_sequence_id \in Nat
      /\ turn \in [Handlers -> Ids \cup {0}]
      /\ task \in [Ids -> Alive \cup {"absent", "over"}]
      /\ at \in [Ids -> Ids] /\ root \in [Ids -> Ids]
      /\ \A i \in Ids : task[i] \in Alive => at[i] \in Ids /\ at[i] <= curr_sequence_id
      /\ NoSpeculation /\ NoOrphan
  BY DEF TypeInv, TypeOK, ManagerType, HandlerType, TaskType, AuxType, BookInv, TasksKnown, Started,
         Alive, ChainInv
<1>01. NothingNew(history, history, Speakers) /\ NothingNew(history, Unmerged, Speakers)
  BY HistoryKept
<1>1. ASSUME UNCHANGED <<history, curr_sequence_id, root, at>>, turn'["asr"] \in {turn["asr"], 0},
             sequence_ids' \subseteq sequence_ids,
             \A i \in Ids : task'[i] \in Alive => task[i] \in Alive
      PROVE  OrderInv'
  <2>1. NothingNew(history, history', Speakers)
    BY <1>01, <1>1
  <2>. QED
    BY <1>0, <1>1, <2>1, FrameOrder
<1>2. CASE UNCHANGED coreVars \/ UNCHANGED vars
  BY <1>1, <1>2 DEF coreVars, vars, imVars, histVars, taskVars, handVars, auxVars
<1>3. ASSUME NEW w \in Words, InterimBargesIn(w) \/ InterimContinues(w) PROVE OrderInv'
  <2>1. /\ UNCHANGED <<history, curr_sequence_id, root, at, task>>
        /\ turn'["asr"] = 0
        /\ sequence_ids' \subseteq sequence_ids \cup {-1}
    BY <1>0, <1>3, HandlersAssumption
       DEF InterimBargesIn, InterimContinues, Invalidated, histVars, taskVars, auxVars
  <2>2. NothingNew(history, history', Speakers)
    BY <1>01, <2>1
  <2>. QED
    BY <1>0, <2>1, <2>2, FrameOrder
<1>4. ASSUME NEW h \in Handlers, NEW dup \in BOOLEAN, pc[h] = "idle", TurnArrives(h, s, dup)
      PROVE  OrderInv'
  <2>1. /\ s \in Ids /\ curr_sequence_id' = s /\ root' = [root EXCEPT ![s] = s] /\ UNCHANGED at
    BY <1>0, <1>4, NewIdTyped DEF TurnArrives, Allocate, TypeOK
  <2>2. /\ root'[s] = s /\ s # -1
        /\ \A i \in Ids : i <= curr_sequence_id => root'[i] = root[i]
        /\ \A p \in sequence_ids \ {-1} : root'[p] = root[p]
        /\ \A i \in Ids : task[i] \in Alive => root'[at'[i]] = root[at[i]]
    BY <1>0, <2>1 DEF RevokedInv, HandedOut
  <2>3. CASE DropTurn(dup)
    <3>1. UNCHANGED <<history, sequence_ids, task, turn>> /\ NothingNew(history, history', Speakers)
      BY <1>01, <2>3 DEF DropTurn
    <3>. QED
      BY <1>0, <2>1, <2>2, <3>1, FrameOrder
  <2>4. CASE PreemptForTurn(h, s, dup)
    <3>1. /\ NothingNew(history, history', Speakers)
          /\ sequence_ids' = sequence_ids \cup {s} /\ UNCHANGED task
          /\ turn' = [turn EXCEPT ![h] = s]
      BY <1>01, <2>4 DEF PreemptForTurn, Registered
    <3>2. turn'["asr"] \in {turn["asr"], s}
      BY <1>0, <3>1, HandlersAssumption
    <3>. QED
      BY <1>0, <2>1, <2>2, <3>1, <3>2, FrameOrder
  <2>5. CASE AnswerTurn(s, dup)
    <3>1. history' = Append(history, UserEntry(s)) /\ UNCHANGED turn
      BY <2>5 DEF AnswerTurn
    <3>2. AskedBefore(s)
      <4>1. \A k \in Asked : history[k].seq \in Int /\ history[k].seq <= curr_sequence_id
        BY <1>0, AskedTyped DEF OrderInv
      <4>. QED
        BY <1>0, <4>1 DEF AskedBefore
    <3>3. turn["asr"] = 0 /\ h = "asr"
      BY <1>4 DEF OneHandler, BookInv, TurnsPending
    <3>4. /\ \A i \in Ids : task[i] \notin Alive
          /\ sequence_ids' \subseteq {-1, s}
          /\ task' = [task EXCEPT ![s] = "generating"]
      BY <1>0, <2>5, AnswersAlone
    <3>5. at'[s] = s
      BY <1>0, <2>1 DEF BookInv, TasksKnown, Started
    <3>6. \A i \in Ids : task'[i] \in Alive => at'[i] = s
      BY <1>0, <3>4, <3>5
    <3>. QED
      BY <1>0, <2>1, <2>2, <3>1, <3>2, <3>3, <3>4, <3>6, FrameOrderTurn
  <2>. QED
    BY <1>4, <2>3, <2>4, <2>5 DEF TurnArrives
<1>5. ASSUME \/ \E w \in Words : TranscriptConfirmsEager(w)
             \/ EagerEndOfTurn \/ TurnResumed \/ SilenceRepeat
      PROVE  FALSE
  BY <1>0, <1>5 DEF TranscriptConfirmsEager, EagerEndOfTurn, TurnResumed, SilenceRepeat, Sequential,
                    NoSpeculation
<1>6. ASSUME NEW h \in Handlers, CleanupClear(h) PROVE OrderInv'
  BY <1>1, <1>6 DEF CleanupClear, imVars, histVars, taskVars, auxVars
<1>7. ASSUME NEW h \in Handlers, CleanupFinish(h) PROVE OrderInv'
  <2>1. h = "asr" /\ turn[h] \in Ids \cup {0} /\ turn'["asr"] = 0
    BY <1>0, <1>7, CleanupLeaves DEF OneHandler
  <2>2. CASE turn[h] = 0
    <3>1. /\ UNCHANGED <<history, curr_sequence_id, root, at>> /\ sequence_ids' = {-1}
          /\ \A i \in Ids : task'[i] \notin Alive
      <4>1. \A i \in Ids : i # 0
        BY DEF Ids
      <4>. QED
        BY <1>0, <1>7, <2>2, <4>1, CleanupLeaves DEF CleanupFinish
    <3>2. NothingNew(history, history', Speakers)
      BY <1>01, <3>1
    <3>. QED
      BY <1>0, <2>1, <3>1, <3>2, FrameOrder
  <2>3. CASE turn[h] # 0
    <3>1. /\ history' = Append(history, UserEntry(turn[h]))
          /\ sequence_ids' = {-1, turn[h]}
          /\ \A i \in Ids : task'[i] \in Alive => i = turn[h]
          /\ UNCHANGED <<curr_sequence_id, at, root>>
      BY <1>0, <1>7, <2>3, CleanupLeaves DEF CleanupFinish
    <3>2. /\ root[turn[h]] = turn[h] /\ at[turn[h]] = turn[h]
          /\ turn[h] <= curr_sequence_id /\ turn[h] \in Ids
      BY <1>0, <2>1, <2>3 DEF BookInv, TurnsPending, TasksKnown, RevokedInv, HandedOut
    <3>3. AskedBefore(turn[h])
      BY <2>1, <2>3 DEF OrderInv
    <3>. QED
      BY <1>0, <2>1, <3>1, <3>2, <3>3, FrameOrderTurn
  <2>. QED
    BY <2>2, <2>3
<1>8. ASSUME NEW i \in Ids, LlmFollowup(i) PROVE OrderInv'
  <2>1. /\ s \in Ids /\ curr_sequence_id' = s /\ sequence_ids' = sequence_ids \cup {s}
        /\ root' = [root EXCEPT ![s] = root[at[i]]] /\ at' = [at EXCEPT ![i] = s]
        /\ task[i] = "tool" /\ task' = [task EXCEPT ![i] = "generating"]
        /\ UNCHANGED turn
    BY <1>0, <1>8, NewIdTyped DEF LlmFollowup, Allocate, Registered, Step, handVars, TypeOK
  <2>2. /\ task[i] \in Alive /\ root'[s] = root[at[i]] /\ root'[at'[i]] = root[at[i]]
        /\ \A p \in sequence_ids \ {-1} : root'[p] = root[p]
        /\ \A j \in Ids : j <= curr_sequence_id => root'[j] = root[j]
    BY <1>0, <2>1 DEF RevokedInv, HandedOut, Alive
  <2>3. \A j \in Ids : j # i /\ task'[j] \in Alive => task[j] \in Alive /\ root'[at'[j]] = root[at[j]]
    BY <1>0, <2>1, <2>2
  <2>4. NothingNew(history, history', Speakers)
    BY <1>8, HistoryKept
  <2>. QED
    BY <1>0, <2>1, <2>2, <2>3, <2>4, FrameOrder
<1>9. ASSUME NEW i \in Ids,
             \/ LlmText(i) \/ LlmFinish(i) \/ LlmFinishEmpty(i)
             \/ LlmPreCall(i) \/ LlmToolCall(i) \/ LlmEnd(i)
      PROVE  OrderInv'
  <2>1. /\ UNCHANGED <<history, curr_sequence_id, root, at, turn, sequence_ids>>
        /\ task[i] \in Alive /\ \A j \in Ids : j # i => task'[j] = task[j]
    BY <1>0, <1>9, LlmAdvances DEF imVars, handVars, auxVars
  <2>. QED
    BY <1>1, <2>1
<1>10. CASE OutputSend
  <2>. DEFINE r == out.chunk.seq
  <2>1. r \in Ids /\ r \in sequence_ids /\ r <= curr_sequence_id
    <3>1. r \in Ids
      BY <1>10, HeldTyped DEF OutputSend, Approved, TypeInv
    <3>2. r \in sequence_ids
      BY <1>10 DEF OutputSend, Approved, AudioSendStatus
    <3>. QED
      BY <3>1, <3>2 DEF RevokedInv, HandedOut, Ids
  <2>2. /\ UNCHANGED <<curr_sequence_id, sequence_ids, turn, root, task, at>>
        /\ UNCHANGED history \/ history' = Append(history, [role |-> "assistant", seq |-> r])
    BY <1>10 DEF OutputSend, imVars, taskVars, handVars, auxVars
  <2>. HIDE DEF r
  <2>3. CASE UNCHANGED history
    BY <1>1, <2>2, <2>3
  <2>4. CASE history' = Append(history, [role |-> "assistant", seq |-> r])
    BY <1>0, <2>1, <2>2, <2>4, FrameOrderReply
  <2>. QED
    BY <2>2, <2>3, <2>4
<1>11. CASE SynthEmit \/ OutputGet \/ OutputSent \/ OutputBlock \/ OutputDrained \/ MarkAck
  <2>1. UNCHANGED history
    BY <1>11 DEF SynthEmit, OutputGet, OutputSent, OutputBlock, OutputDrained, MarkAck, histVars
  <2>2. UNCHANGED <<curr_sequence_id, root, at, task, turn>> /\ sequence_ids' \subseteq sequence_ids
    BY <1>11, OutputAdvances DEF Output, taskVars, handVars, auxVars
  <2>. QED
    BY <1>1, <2>1, <2>2
<1>. QED
  BY <1>2, <1>3, <1>4, <1>5, <1>6, <1>7, <1>8, <1>9, <1>10, <1>11, CoreQuiet, HandlersAssumption
     DEF Next, Listener, Cleanup, Llm, Output, Transcript, Digits, EndOfSpeech, Listening

(* With one handler, and neither speculative answers nor the silence       *)
(* watcher, the answer to a turn never enters the history after the        *)
(* message of a later turn, follow-ups of tool calls included.             *)
THEOREM RepliesFollowTurns ==
    ASSUME OneHandler, Sequential PROVE Spec => []NoReplyAfterNewerTurn
<1>1. Init => OrderInv
  <2>. SUFFICES ASSUME Init PROVE OrderInv
    OBVIOUS
  <2>1. Replies = {} /\ Asked = {}
    BY DEF Init, Replies, Asked
  <2>2. /\ sequence_ids = {-1} /\ \A i \in Ids : task[i] \notin Alive
        /\ turn["asr"] = 0
    BY HandlersAssumption DEF Init, Alive
  <2>. QED
    BY <2>1, <2>2 DEF OrderInv, AskedBefore, NoReplyAfterNewerTurn
<1>2. TypeInv /\ RevokedInv /\ BookInv /\ ChainInv /\ OrderInv /\ [Next]_vars => OrderInv'
  BY OrderInvStep
<1>3. OrderInv => NoReplyAfterNewerTurn
  BY DEF OrderInv
<1>. QED
  BY <1>1, <1>2, <1>3, NamesKept, ChainKept, PTL DEF Spec

(* Together: the history has every answer once and in order.              *)
THEOREM HistoryKeepsOrder ==
    ASSUME OneHandler, Sequential, ~Tools PROVE Spec => []RepliesInOrder
<1>1. NoReplyAfterNewerTurn /\ NoDuplicateReply => RepliesInOrder
  BY DEF RepliesInOrder
<1>. QED
  BY <1>1, RepliesFollowTurns, RepliesEnterOnce, PTL
=============================================================================
