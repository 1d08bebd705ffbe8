--------------------------- MODULE CallEndProofs ---------------------------
(***************************************************************************)
(* Theorems about CallEnd, for every value of its constants.               *)
(***************************************************************************)
EXTENDS CallEnd, TLAPS

(* A task that goes to a stage leaves the other tasks where they are.      *)
LEMMA GoesMoves ==
    ASSUME PcType, NEW t \in Tasks, NEW s, Goes(t, s)
    PROVE  /\ pc'[t] = s /\ \A u \in Tasks \ {t} : pc'[u] = pc[u]
           /\ s \in Stages[t] \cup {"off"} => PcType'
<1>1. pc' = [pc EXCEPT ![t] = s] /\ DOMAIN pc = Tasks
  BY DEF PcType, Goes
<1>2. pc'[t] = s /\ \A u \in Tasks \ {t} : pc'[u] = pc[u]
  BY <1>1
<1>3. ASSUME s \in Stages[t] \cup {"off"} PROVE PcType'
  <2>1. s \in Ending \cup {"on", "cleanup", "hangup", "off"}
    BY <1>3 DEF Stages, Ending, Tasks, Parties, Handlers
  <2>2. pc' \in [Tasks -> Ending \cup {"on", "cleanup", "hangup", "off"}]
    BY <1>1, <2>1 DEF PcType
  <2>3. \A u \in Tasks : pc'[u] \in Stages[u] \cup {"off"}
    BY <1>2, <1>3 DEF PcType
  <2>. QED
    BY <2>2, <2>3 DEF PcType
<1>. QED
  BY <1>2, <1>3

(* Tasks that are cancelled are off, the others stay where they are.       *)
LEMMA OffMoves ==
    ASSUME PcType, NEW ts, Off(ts)
    PROVE  PcType' /\ \A u \in Tasks : pc'[u] = IF u \in ts THEN "off" ELSE pc[u]
<1>1. \A u \in Tasks : pc'[u] = IF u \in ts THEN "off" ELSE pc[u]
  BY DEF Off
<1>2. pc' \in [Tasks -> Ending \cup {"on", "cleanup", "hangup", "off"}]
  BY DEF Off, PcType
<1>. QED
  BY <1>1, <1>2 DEF PcType

(* A caller of __process_end_of_conversation starts the end or goes off.   *)
LEMMA EnderMoves ==
    ASSUME PcType, FlagType, NEW t \in Tasks, "wait" \in Stages[t], EndOfConversation(t)
    PROVE  /\ PcType' /\ \A u \in Tasks \ {t} : pc'[u] = pc[u]
           /\ ending' \in BOOLEAN
           /\ \/ pc'[t] = "off" /\ ending' = ending
              \/ ~ending /\ ~conversation_ended /\ pc'[t] = "wait" /\ ending' = TRUE
<1>0. ending \in BOOLEAN
  BY DEF FlagType
<1>1. CASE Busy
  <2>1. Goes(t, "off") /\ ending' = ending
    BY <1>1 DEF EndOfConversation
  <2>. QED
    BY <1>0, <2>1, GoesMoves
<1>2. CASE ~Busy
  <2>1. Goes(t, "wait") /\ ending' = TRUE
    BY <1>2 DEF EndOfConversation
  <2>. QED
    BY <1>2, <2>1, GoesMoves DEF Busy
<1>. QED
  BY <1>1, <1>2

(* A caller of process_call_hangup triggers a hangup or goes off; then it  *)
(* is about to speak a farewell, starts the end or goes off.               *)
LEMMA HangerMoves ==
    ASSUME PcType, FlagType, NEW t \in Tasks, "wait" \in Stages[t], NEW silent \in BOOLEAN,
           silent \/ "hangup" \in Stages[t], ProcessCallHangup(t, silent)
    PROVE  /\ PcType' /\ \A u \in Tasks \ {t} : pc'[u] = pc[u]
           /\ hangup_triggered' \in BOOLEAN /\ hangup_message_queued' \in BOOLEAN
           /\ ending' \in BOOLEAN
           /\ \/ pc'[t] = "off" /\ UNCHANGED <<flags, ending>>
              \/ /\ ~hangup_triggered /\ ~conversation_ended
                 /\ hangup_triggered' = TRUE /\ hangup_message_queued' = ~silent
                 /\ \/ ~silent /\ pc'[t] = "hangup" /\ ending' = ending
                    \/ silent /\ pc'[t] = "off" /\ ending' = ending
                    \/ silent /\ ~ending /\ pc'[t] = "wait" /\ ending' = TRUE
<1>0. ending \in BOOLEAN /\ hangup_triggered \in BOOLEAN /\ hangup_message_queued \in BOOLEAN
  BY DEF FlagType
<1>1. CASE Goes(t, "off") /\ UNCHANGED <<flags, ending>>
  BY <1>0, <1>1, GoesMoves DEF flags
<1>2. ASSUME ~hangup_triggered, ~conversation_ended, hangup_triggered' = TRUE,
             hangup_message_queued' = ~silent, silent, EndOfConversation(t)
      PROVE  /\ PcType' /\ \A u \in Tasks \ {t} : pc'[u] = pc[u]
             /\ ending' \in BOOLEAN
             /\ \/ pc'[t] = "off" /\ ending' = ending
                \/ ~ending /\ pc'[t] = "wait" /\ ending' = TRUE
  BY <1>0, <1>2, EnderMoves
<1>3. ASSUME ~silent, Goes(t, "hangup"), UNCHANGED ending
      PROVE  /\ PcType' /\ \A u \in Tasks \ {t} : pc'[u] = pc[u]
             /\ ending' \in BOOLEAN /\ pc'[t] = "hangup" /\ ending' = ending
  BY <1>0, <1>3, GoesMoves
<1>. QED
  BY <1>1, <1>2, <1>3 DEF ProcessCallHangup

(* Where the tasks may be suspended.                                       *)
LEMMA StageFacts ==
    /\ Parties \subseteq Tasks /\ Handlers \subseteq Tasks
    /\ {"llm", "voicemail", "watcher", "observer", "synth", "asr"} \subseteq Parties
    /\ \A t \in Tasks : "on" \in Stages[t]
    /\ \A t \in Parties : "wait" \in Stages[t]
    /\ \A t \in Parties \ {"llm"} : {"stop", "rest"} \subseteq Stages[t]
    /\ {"stop", "rest"} \cap Stages["llm"] = {}
    /\ \A t \in Handlers : "cleanup" \in Stages[t]
    /\ \A t \in Tasks : "hangup" \in Stages[t] <=> t \in {"llm", "watcher"}
  BY DEF Stages, Tasks, Parties, Handlers, Ending

(* Whether there is a farewell to speak is a Boolean.                      *)
LEMMA NoFarewellType == FlagType => NoFarewell \in BOOLEAN
  BY DEF NoFarewell, FlagType

(* A step moves one task forward; it may set others to work or cancel them.*)
(* What the task passes on the way bars every other one.                   *)
Moves(t) ==
    /\ \A u \in Parties \ {t} : pc'[u] \in {pc[u], "on", "off"}
    /\ pc'[t] = "hangup" => pc[t] = "hangup" \/ (~hangup_triggered /\ hangup_triggered')
    /\ pc'[t] = "wait" => pc[t] = "wait" \/ (~ending /\ ~conversation_ended /\ ending')
    /\ pc'[t] = "stop" => pc[t] \in {"wait", "stop"}
    /\ pc'[t] = "rest" => pc[t] \in {"stop", "rest"}
    /\ pc["observer"] = "off" => pc'["observer"] = "off" \/ FarewellPlayed
    /\ pc["watcher"] = "on" =>
           pc'["watcher"] = "on" \/ WebLimit \/ Inactive \/ ForceEnd \/ SeeEnd \/ RunReturns
    /\ (\A u \in Tasks : pc[u] = "off") => FarewellPlayed \/ \A u \in Tasks : pc'[u] = "off"

(* Tasks only go to stages they have, one at a time.                       *)
LEMMA PcStep == TypeOK /\ [Next]_vars => PcType' /\ \E t \in Tasks : Moves(t)
<1>. SUFFICES ASSUME PcType, FlagType, [Next]_vars PROVE PcType' /\ \E t \in Tasks : Moves(t)
  BY DEF TypeOK
<1>. USE StageFacts
<1>1. ASSUME NEW t \in Parties, SpeakFarewell(t) PROVE PcType' /\ Moves(t)
  BY <1>1, OffMoves DEF Moves, SpeakFarewell
<1>2. ASSUME NEW t \in Parties, Conclude(t) PROVE PcType' /\ Moves(t)
  <2>1. /\ pc[t] = "wait" /\ DOMAIN pc = Tasks
        /\ pc' = [pc EXCEPT ![t] = "stop", !["llm"] = "off"]
    BY <1>2 DEF Conclude, MayConclude, PcType
  <2>2. \A u \in Tasks : pc'[u] = IF u = "llm" THEN "off" ELSE IF u = t THEN "stop" ELSE pc[u]
    BY <2>1
  <2>3. pc' \in [Tasks -> Ending \cup {"on", "cleanup", "hangup", "off"}]
    BY <2>1 DEF PcType, Ending
  <2>4. PcType'
    BY <2>2, <2>3 DEF PcType
  <2>. QED
    BY <2>1, <2>2, <2>4 DEF Moves
<1>3. ASSUME NEW t \in Parties, StopHandler(t) PROVE PcType' /\ Moves(t)
  BY <1>3, GoesMoves DEF Moves, StopHandler, PcType
<1>4. ASSUME NEW t \in Parties, Return(t) PROVE PcType' /\ Moves(t)
  BY <1>4, OffMoves DEF Moves, Return
<1>5. ASSUME FarewellPlayed PROVE PcType' /\ Moves("observer")
  BY <1>5, GoesMoves DEF Moves, FarewellPlayed
<1>6. ASSUME Observe PROVE PcType' /\ Moves("observer")
  BY <1>6, EnderMoves DEF Moves, Observe
<1>7. ASSUME LlmError PROVE PcType' /\ Moves("llm")
  BY <1>7, EnderMoves DEF Moves, LlmError, ComponentError
<1>8. ASSUME LlmHangup PROVE PcType' /\ Moves("llm")
  <2>0. "llm" \in Tasks /\ "wait" \in Stages["llm"] /\ "hangup" \in Stages["llm"]
    OBVIOUS
  <2>. HIDE StageFacts
  <2>1. NoFarewell \in BOOLEAN /\ ProcessCallHangup("llm", NoFarewell) /\ pc["llm"] = "on"
    BY <1>8, NoFarewellType DEF LlmHangup
  <2>2. /\ PcType' /\ \A u \in Tasks \ {"llm"} : pc'[u] = pc[u]
        /\ \/ pc'["llm"] = "off"
           \/ ~hangup_triggered /\ hangup_triggered' /\ pc'["llm"] = "hangup"
           \/ ~ending /\ ~conversation_ended /\ ending' /\ pc'["llm"] = "wait"
    BY <2>0, <2>1, HangerMoves
  <2>. QED
    BY <2>1, <2>2, StageFacts DEF Moves
<1>9. ASSUME EndCall PROVE PcType' /\ Moves("llm")
  BY <1>9, HangerMoves DEF Moves, EndCall
<1>10. ASSUME LlmReturns PROVE PcType' /\ Moves("llm")
  BY <1>10, GoesMoves DEF Moves, LlmReturns
<1>11. ASSUME VoicemailDetected PROVE PcType' /\ Moves("voicemail")
  BY <1>11, HangerMoves DEF Moves, VoicemailDetected
<1>12. ASSUME SynthesizerError PROVE PcType' /\ Moves("synth")
  BY <1>12, EnderMoves DEF Moves, SynthesizerError, ComponentError
<1>13. ASSUME WebLimit PROVE PcType' /\ Moves("watcher")
  BY <1>13, EnderMoves DEF Moves, WebLimit, ComponentError
<1>14. ASSUME Inactive PROVE PcType' /\ Moves("watcher")
  <2>0. "watcher" \in Tasks /\ "wait" \in Stages["watcher"] /\ "hangup" \in Stages["watcher"]
    OBVIOUS
  <2>. HIDE StageFacts
  <2>1. NoFarewell \in BOOLEAN /\ ProcessCallHangup("watcher", NoFarewell) /\ pc["watcher"] = "on"
    BY <1>14, NoFarewellType DEF Inactive
  <2>2. /\ PcType' /\ \A u \in Tasks \ {"watcher"} : pc'[u] = pc[u]
        /\ \/ pc'["watcher"] = "off"
           \/ ~hangup_triggered /\ hangup_triggered' /\ pc'["watcher"] = "hangup"
           \/ ~ending /\ ~conversation_ended /\ ending' /\ pc'["watcher"] = "wait"
    BY <2>0, <2>1, HangerMoves
  <2>. QED
    BY <1>14, <2>1, <2>2, StageFacts DEF Moves
<1>15. ASSUME ForceEnd PROVE PcType' /\ Moves("watcher")
  BY <1>15, EnderMoves DEF Moves, ForceEnd
<1>16. ASSUME SeeEnd PROVE PcType' /\ Moves("watcher")
  BY <1>16, GoesMoves DEF Moves, SeeEnd
<1>17. ASSUME NEW h \in Handlers, StartVoicemailCheck(h) PROVE PcType' /\ Moves("voicemail")
  BY <1>17, GoesMoves DEF Moves, StartVoicemailCheck, Takes, Listens
<1>18. ASSUME NEW h \in Handlers, StartLlm(h) PROVE PcType' /\ Moves("llm")
  BY <1>18, GoesMoves DEF Moves, StartLlm, Takes, Listens
<1>19. ASSUME NEW h \in Handlers, Interrupt(h) PROVE PcType' /\ Moves(h)
  <2>1. pc[h] = "on" /\ Goes(h, "cleanup") /\ "observer" # h /\ "watcher" # h
    BY <1>19 DEF Interrupt, Listens, Handlers
  <2>. QED
    BY <2>1, GoesMoves DEF Moves
<1>20. ASSUME NEW h \in Handlers, FinishCleanup(h) PROVE PcType' /\ Moves(h)
  <2>1. PICK llm \in {"on", "off"} :
            pc' = [pc EXCEPT ![h] = "on", !["llm"] = llm, !["voicemail"] = "off"]
    BY <1>20 DEF FinishCleanup
  <2>2. \A u \in Tasks : pc'[u] \in {pc[u], "on", "off"}
    BY <2>1 DEF PcType
  <2>3. pc' \in [Tasks -> Ending \cup {"on", "cleanup", "hangup", "off"}]
    BY <2>1 DEF PcType
  <2>4. PcType'
    BY <2>2, <2>3 DEF PcType
  <2>5. \A u \in Parties \ {h} : pc'[u] \in {pc[u], "on", "off"}
    BY <2>2
  <2>6. pc'[h] \in {"on", "off"}
    BY <2>1 DEF PcType
  <2>7. pc[h] = "cleanup" /\ "observer" # h /\ "watcher" # h
    BY <1>20 DEF FinishCleanup, Handlers
  <2>8. pc'["observer"] = pc["observer"] /\ pc'["watcher"] = pc["watcher"]
    BY <2>1, <2>7 DEF PcType
  <2>. QED
    BY <2>4, <2>5, <2>6, <2>7, <2>8 DEF Moves
<1>21. ASSUME TranscriberClosed PROVE PcType' /\ Moves("asr")
  <2>1. CASE EndOfConversation("asr")
    BY <1>21, <2>1, EnderMoves DEF Moves, TranscriberClosed
  <2>2. CASE Goes("asr", "off")
    BY <2>2, GoesMoves DEF Moves
  <2>. QED
    BY <1>21, <2>1, <2>2 DEF TranscriberClosed
<1>22. ASSUME RunReturns PROVE PcType' /\ Moves("asr")
  BY <1>22, OffMoves DEF Moves, RunReturns
<1>23. ASSUME pc' = pc PROVE PcType' /\ Moves("asr")
  <2>1. \A u \in Tasks : pc'[u] = pc[u]
    BY <1>23
  <2>2. PcType'
    BY <1>23 DEF PcType
  <2>3. \A u \in Parties \ {"asr"} : pc'[u] = pc[u]
    BY <2>1
  <2>4. pc'["asr"] = pc["asr"]
    BY <2>1
  <2>. QED
    BY <2>1, <2>2, <2>3, <2>4 DEF Moves
<1>. QED
  BY <1>1, <1>2, <1>3, <1>4, <1>5, <1>6, <1>7, <1>8, <1>9, <1>10, <1>11, <1>12, <1>13,
     <1>14, <1>15, <1>16, <1>17, <1>18, <1>19, <1>20, <1>21, <1>22, <1>23
     DEF Next, Shutdown, HangupOverdue, FinalChunkPlayed, DisconnectStream, CallerHangsUp,
         StreamEnds, TranscriberFails, vars

-----------------------------------------------------------------------------
USE DEF Next, Shutdown, SpeakFarewell, Conclude, StopHandler, Return, FarewellPlayed,
           Observe, LlmError, LlmHangup, EndCall, LlmReturns, VoicemailDetected, SynthesizerError,
           ComponentError, WebLimit, Inactive, ForceEnd, SeeEnd, HangupOverdue, StartVoicemailCheck,
           StartLlm, Interrupt, FinishCleanup, FinalChunkPlayed, CallerHangsUp, DisconnectStream,
           StreamEnds, TranscriberFails, TranscriberClosed, RunReturns, vars

(* A step leaves the stream, the transcriber and run() in their states.    *)
LEMMA LineStep == TypeOK /\ [Next]_vars => LineType'
  BY DEF TypeOK, LineType, line

(* A step leaves the flags Boolean.                                        *)
LEMMA FlagStep == TypeOK /\ [Next]_vars => FlagType'
<1>. SUFFICES ASSUME FlagType, [Next]_vars PROVE FlagType'
  BY DEF TypeOK
<1>. USE DEF FlagType, flags, speech, ended, ProcessCallHangup, EndOfConversation
<1>1. hangup_triggered' \in BOOLEAN
  OBVIOUS
<1>2. hangup_message_queued' \in BOOLEAN
  OBVIOUS
<1>3. call_hangup_message' \in BOOLEAN
  OBVIOUS
<1>4. detected' \in BOOLEAN
  OBVIOUS
<1>5. overdue' \in BOOLEAN
  OBVIOUS
<1>6. transmitted' \in BOOLEAN
  OBVIOUS
<1>7. farewell' \in BOOLEAN
  OBVIOUS
<1>8. hangup_sent' \in BOOLEAN
  OBVIOUS
<1>9. ending' \in BOOLEAN
  OBVIOUS
<1>10. conversation_ended' \in BOOLEAN
  OBVIOUS
<1>11. ended_by_assistant' \in BOOLEAN
  OBVIOUS
<1>. QED
  BY <1>1, <1>2, <1>3, <1>4, <1>5, <1>6, <1>7, <1>8, <1>9, <1>10, <1>11

(* What is set stays set, and the conversation ends only at the end of a   *)
(* wait or with run().                                                     *)
LEMMA FlagsStay ==
    ASSUME TypeOK, [Next]_vars
    PROVE  /\ (ending => ending') /\ (hangup_triggered => hangup_triggered')
           /\ (hangup_sent => hangup_sent') /\ (conversation_ended => conversation_ended')
           /\ (run = "over" => run' = "over")
           /\ conversation_ended' /\ run' = "gather" =>
                  conversation_ended \/ \E t \in Parties : pc[t] = "wait"
<1>. USE DEF TypeOK, FlagType, LineType, flags, speech, ended, line, ProcessCallHangup,
             EndOfConversation, MayConclude
<1>1. ending => ending'
  OBVIOUS
<1>2. hangup_triggered => hangup_triggered'
  OBVIOUS
<1>3. hangup_sent => hangup_sent'
  OBVIOUS
<1>4. conversation_ended => conversation_ended'
  OBVIOUS
<1>5. run = "over" => run' = "over"
  OBVIOUS
<1>6. conversation_ended' /\ run' = "gather" =>
          conversation_ended \/ \E t \in Parties : pc[t] = "wait"
  OBVIOUS
<1>. QED
  BY <1>1, <1>2, <1>3, <1>4, <1>5, <1>6

(* A farewell is queued only by the first hangup, before the conversation  *)
(* has ended, and the assistant ends it only with the farewell settled.    *)
LEMMA FarewellMoves ==
    ASSUME TypeOK, [Next]_vars
    PROVE  /\ hangup_message_queued' =>
                  \/ hangup_message_queued
                  \/ ~conversation_ended /\ hangup_triggered' /\ ended_by_assistant' = ended_by_assistant
           /\ ended_by_assistant' =>
                  \/ ended_by_assistant
                  \/ conversation_ended' /\ (hangup_triggered /\ hangup_message_queued => hangup_sent)
<1>. USE DEF TypeOK, FlagType, flags, speech, ended, ProcessCallHangup, EndOfConversation, MayConclude
<1>1. ASSUME ended_by_assistant'
      PROVE  \/ ended_by_assistant
             \/ conversation_ended' /\ (hangup_triggered /\ hangup_message_queued => hangup_sent)
  BY <1>1
<1>2. ASSUME hangup_message_queued', ~hangup_message_queued
      PROVE  /\ ~conversation_ended /\ hangup_triggered'
             /\ ended_by_assistant' = ended_by_assistant
  BY <1>2
<1>. QED
  BY <1>1, <1>2

HIDE DEF Next, Shutdown, SpeakFarewell, Conclude, StopHandler, Return, FarewellPlayed,
         Observe, LlmError, LlmHangup, EndCall, LlmReturns, VoicemailDetected, SynthesizerError,
         ComponentError, WebLimit, Inactive, ForceEnd, SeeEnd, HangupOverdue, StartVoicemailCheck,
         StartLlm, Interrupt, FinishCleanup, FinalChunkPlayed, CallerHangsUp, DisconnectStream,
         StreamEnds, TranscriberFails, TranscriberClosed, RunReturns, vars
-----------------------------------------------------------------------------
(* The initial states are typed.                                           *)
LEMMA TypeInit == Init => TypeOK
<1>. SUFFICES ASSUME Init PROVE TypeOK
  OBVIOUS
<1>1. PcType
  BY StageFacts DEF Init, PcType
<1>2. call_hangup_message \in BOOLEAN
  BY SwitchesAssumption DEF Init
<1>. QED
  BY <1>1, <1>2 DEF Init, TypeOK, FlagType, LineType

(* A step keeps the types.                                                 *)
LEMMA TypeStep == TypeOK /\ [Next]_vars => TypeOK'
  BY PcStep, FlagStep, LineStep DEF TypeOK

(* TypeOK holds of every reachable state.                                  *)
THEOREM TypeCorrect == Spec => []TypeOK
  BY TypeInit, TypeStep, PTL DEF Spec

(* Tasks are where they are because a flag that bars the others is set,    *)
(* and a farewell and the end by the assistant have their causes.          *)
Flagged ==
    /\ \A t \in Parties : pc[t] \in Ending => ending
    /\ \A t \in Parties : pc[t] = "hangup" => hangup_triggered
Caused ==
    /\ hangup_message_queued => hangup_triggered
    /\ ended_by_assistant => conversation_ended
CloserInv == TypeOK /\ Flagged /\ Caused /\ OneCloser /\ FarewellSettled

(* Initially nobody ends the call.                                         *)
LEMMA CloserInit == Init => CloserInv
<1>. SUFFICES ASSUME Init PROVE CloserInv
  OBVIOUS
<1>1. \A t \in Tasks : pc[t] \in {"on", "off"}
  BY DEF Init
<1>2. Flagged /\ OneCloser
  BY <1>1, StageFacts DEF Flagged, OneCloser, Ending
<1>. QED
  BY <1>2, TypeInit DEF Init, CloserInv, Caused, FarewellSettled

(* A step keeps it: who newly ends the call found it not ending.           *)
LEMMA CloserStep == CloserInv /\ [Next]_vars => CloserInv'
<1>. SUFFICES ASSUME CloserInv, [Next]_vars PROVE CloserInv'
  OBVIOUS
<1>0. TypeOK /\ TypeOK' /\ Flagged /\ Caused /\ OneCloser /\ FarewellSettled
  BY TypeStep DEF CloserInv
<1>1. PICK t \in Tasks : Moves(t)
  BY <1>0, PcStep
<1>2. /\ (ending => ending') /\ (hangup_triggered => hangup_triggered')
      /\ (hangup_sent => hangup_sent') /\ (conversation_ended => conversation_ended')
  BY <1>0, FlagsStay
<1>3. Flagged'
  <2>1. ASSUME NEW u \in Parties, pc'[u] \in Ending PROVE ending'
    BY <1>0, <1>1, <1>2, <2>1 DEF Moves, Flagged, Ending
  <2>2. ASSUME NEW u \in Parties, pc'[u] = "hangup" PROVE hangup_triggered'
    BY <1>0, <1>1, <1>2, <2>2 DEF Moves, Flagged
  <2>. QED
    BY <2>1, <2>2 DEF Flagged
<1>4. OneCloser'
  <2>1. ASSUME NEW u \in Parties, NEW v \in Parties, pc'[u] \in Ending, pc'[v] \in Ending
        PROVE  u = v
    BY <1>0, <1>1, <2>1 DEF Moves, Flagged, OneCloser, Ending
  <2>2. ASSUME NEW u \in Parties, NEW v \in Parties, pc'[u] = "hangup", pc'[v] = "hangup"
        PROVE  u = v
    BY <1>0, <1>1, <2>2 DEF Moves, Flagged, OneCloser
  <2>. QED
    BY <2>1, <2>2 DEF OneCloser
<1>5. Caused' /\ FarewellSettled'
  BY <1>0, <1>2, FarewellMoves DEF Caused, FarewellSettled
<1>. QED
  BY <1>0, <1>3, <1>4, <1>5 DEF CloserInv

(* CloserInv holds of every reachable state.                               *)
LEMMA CloserAlways == Spec => []CloserInv
  BY CloserInit, CloserStep, PTL DEF Spec

(* Whatever triggers the end together, one task at most is in              *)
(* __process_end_of_conversation and one is about to speak the farewell.   *)
THEOREM AtMostOneCloser == Spec => []OneCloser
<1>1. CloserInv => OneCloser
  BY DEF CloserInv
<1>. QED
  BY <1>1, CloserAlways, PTL

(* The assistant never ends the conversation with a farewell queued that   *)
(* was neither played nor given up.                                        *)
THEOREM FarewellIsSettled == Spec => []FarewellSettled
<1>1. CloserInv => FarewellSettled
  BY DEF CloserInv
<1>. QED
  BY <1>1, CloserAlways, PTL

(* The call goes through its phases in their order (CallPhases).           *)
THEOREM CallKeepsPhases == Spec => ImplementsPhases
<1>1. Init => Phases!Init
  BY DEF Init, Phases!Init, Phase
<1>2. CloserInv /\ [Next]_vars => [Phases!Next]_Phase
  <2>. SUFFICES ASSUME CloserInv, [Next]_vars PROVE [Phases!Next]_Phase
    OBVIOUS
  <2>1. TypeOK /\ TypeOK' /\ Flagged
    BY TypeStep DEF CloserInv
  <2>2. /\ (ending => ending') /\ (conversation_ended => conversation_ended')
        /\ (run = "over" => run' = "over")
        /\ conversation_ended' /\ run' = "gather" => conversation_ended \/ ending
    BY <2>1, FlagsStay DEF Flagged, Ending
  <2>3. run \in {"gather", "over"} /\ run' \in {"gather", "over"}
    BY <2>1 DEF TypeOK, LineType
  <2>. QED
    BY <2>2, <2>3 DEF Phase, Phases!Next, Phases!StartToEnd, Phases!Conclude, Phases!Close
<1>. QED
  BY <1>1, <1>2, CloserAlways, PTL DEF Spec, ImplementsPhases, Phases!Spec

-----------------------------------------------------------------------------
(* No cause ends the call within a task that an interruption or a hangup   *)
(* of another task cancels.                                                *)
EndersSurvive ==
    Causes \cap {"llm_error", "end_call", "voicemail"} = {} /\ ("llm_hangup" \in Causes => Message)

(* Then the LLM task and the voicemail check never end the call, and the   *)
(* farewell is spoken and played once.                                     *)
OnlySurvivors ==
    /\ call_hangup_message = Message /\ ~detected
    /\ pc["llm"] \notin Ending /\ pc["voicemail"] \notin Ending
OnceHungUp ==
    /\ farewell \/ pc["observer"] # "off" => hangup_triggered
    /\ (\E t \in Parties : pc[t] = "hangup") => ~farewell /\ pc["observer"] = "off"
    /\ farewell => pc["observer"] = "off"

(* A step that neither concludes nor tears down disturbs no task that is   *)
(* about to, and the listener stays at its work.                           *)
Undisturbed ==
    /\ \A u \in Parties : pc[u] \in {"wait", "stop"} => pc'[u] = pc[u]
    /\ \A u \in Parties : pc'[u] = "rest" => pc[u] = "rest"
    /\ pc["asr"] \in {"on", "cleanup"} => pc'["asr"] \in {"on", "cleanup"}
    /\ pc'["llm"] \notin Ending /\ pc'["voicemail"] \notin Ending

(* The steps under that condition: a task waits or tears down until it has. *)
LEMMA EndersStay ==
    ASSUME EndersSurvive, TypeOK, OnlySurvivors, OnceHungUp, [Next]_vars
    PROVE  \/ Undisturbed \/ TranscriberClosed \/ RunReturns
           \/ \E t \in Parties : Conclude(t) \/ StopHandler(t)
<1>. USE StageFacts DEF Ending
<1>0. PcType /\ FlagType /\ pc["llm"] \notin Ending /\ pc["voicemail"] \notin Ending
  BY DEF TypeOK, OnlySurvivors
<1>1. ASSUME NEW t \in Parties, SpeakFarewell(t) PROVE Undisturbed
  BY <1>0, <1>1, OffMoves DEF Undisturbed, SpeakFarewell
<1>2. ASSUME NEW t \in Parties, Return(t) PROVE Undisturbed
  BY <1>0, <1>2, OffMoves DEF Undisturbed, Return
<1>3. ASSUME FarewellPlayed PROVE Undisturbed
  BY <1>0, <1>3, GoesMoves DEF Undisturbed, FarewellPlayed, OnceHungUp
<1>4. ASSUME Observe PROVE Undisturbed
  BY <1>0, <1>4, EnderMoves DEF Undisturbed, Observe
<1>5. ASSUME LlmHangup PROVE Undisturbed
  <2>1. "llm" \in Tasks /\ "wait" \in Stages["llm"] /\ "hangup" \in Stages["llm"]
    OBVIOUS
  <2>2. NoFarewell \in BOOLEAN /\ ProcessCallHangup("llm", NoFarewell) /\ pc["llm"] = "on"
    BY <1>0, <1>5, NoFarewellType DEF LlmHangup
  <2>3. ~NoFarewell
    BY <1>5 DEF LlmHangup, NoFarewell, EndersSurvive, OnlySurvivors
  <2>. HIDE StageFacts
  <2>4. /\ \A u \in Tasks \ {"llm"} : pc'[u] = pc[u]
        /\ pc'["llm"] \in {"off", "hangup"}
    BY <1>0, <2>1, <2>2, <2>3, HangerMoves
  <2>. QED
    BY <1>0, <2>2, <2>4, StageFacts DEF Undisturbed
<1>6. ASSUME LlmReturns PROVE Undisturbed
  BY <1>0, <1>6, GoesMoves DEF Undisturbed, LlmReturns
<1>7. ASSUME SynthesizerError PROVE Undisturbed
  BY <1>0, <1>7, EnderMoves DEF Undisturbed, SynthesizerError, ComponentError
<1>8. ASSUME WebLimit PROVE Undisturbed
  BY <1>0, <1>8, EnderMoves DEF Undisturbed, WebLimit, ComponentError
<1>9. ASSUME Inactive PROVE Undisturbed
  <2>1. "watcher" \in Tasks /\ "wait" \in Stages["watcher"] /\ "hangup" \in Stages["watcher"]
    OBVIOUS
  <2>2. NoFarewell \in BOOLEAN /\ ProcessCallHangup("watcher", NoFarewell) /\ pc["watcher"] = "on"
    BY <1>0, <1>9, NoFarewellType DEF Inactive
  <2>. HIDE StageFacts
  <2>4. /\ \A u \in Tasks \ {"watcher"} : pc'[u] = pc[u]
        /\ pc'["watcher"] \in {"off", "hangup", "wait"}
    BY <1>0, <2>1, <2>2, HangerMoves
  <2>. QED
    BY <1>0, <2>2, <2>4, StageFacts DEF Undisturbed
<1>10. ASSUME ForceEnd PROVE Undisturbed
  BY <1>0, <1>10, EnderMoves DEF Undisturbed, ForceEnd
<1>11. ASSUME SeeEnd PROVE Undisturbed
  BY <1>0, <1>11, GoesMoves DEF Undisturbed, SeeEnd
<1>12. ASSUME NEW h \in Handlers, StartVoicemailCheck(h) PROVE Undisturbed
  BY <1>0, <1>12, GoesMoves DEF Undisturbed, StartVoicemailCheck
<1>13. ASSUME NEW h \in Handlers, StartLlm(h) PROVE Undisturbed
  BY <1>0, <1>13, GoesMoves DEF Undisturbed, StartLlm
<1>14. ASSUME NEW h \in Handlers, Interrupt(h) PROVE Undisturbed
  BY <1>0, <1>14, GoesMoves DEF Undisturbed, Interrupt, Listens
<1>15. ASSUME NEW h \in Handlers, FinishCleanup(h) PROVE Undisturbed
  <2>1. PICK llm \in {"on", "off"} :
            pc' = [pc EXCEPT ![h] = "on", !["llm"] = llm, !["voicemail"] = "off"]
    BY <1>15 DEF FinishCleanup
  <2>2. pc[h] = "cleanup"
    BY <1>15 DEF FinishCleanup
  <2>3. \A u \in Tasks : pc'[u] = IF u = "voicemail" THEN "off" ELSE IF u = "llm" THEN llm
                                  ELSE IF u = h THEN "on" ELSE pc[u]
    BY <1>0, <2>1 DEF PcType, Handlers
  <2>. QED
    BY <1>0, <2>2, <2>3 DEF Undisturbed, Handlers
<1>16. ASSUME pc' = pc PROVE Undisturbed
  BY <1>0, <1>16 DEF Undisturbed
<1>. QED
  BY <1>1, <1>2, <1>3, <1>4, <1>5, <1>6, <1>7, <1>8, <1>9, <1>10, <1>11, <1>12, <1>13, <1>14, <1>15, <1>16
     DEF EndersSurvive, Next, Shutdown, LlmError, EndCall, VoicemailDetected, HangupOverdue,
         FinalChunkPlayed, DisconnectStream, CallerHangsUp, StreamEnds, TranscriberFails, vars

(* What a step does to the farewell, to the transcriber and to the end.    *)
LEMMA SpeechMoves ==
    ASSUME TypeOK, [Next]_vars
    PROVE  /\ farewell' => farewell \/ \E t \in Parties : SpeakFarewell(t)
           /\ FarewellPlayed => farewell /\ ~farewell'
           /\ (transcriber # "on" => transcriber' # "on")
           /\ conversation_ended' => conversation_ended \/ RunReturns \/ \E t \in Parties : Conclude(t)
           /\ run' = "over" => run = "over" \/ RunReturns
           /\ "end_call" \notin Causes => call_hangup_message' = call_hangup_message
           /\ "voicemail" \notin Causes => detected' = detected
<1>. USE DEF TypeOK, FlagType, flags, speech, ended, line, ProcessCallHangup, EndOfConversation,
           Next, Shutdown, SpeakFarewell, Conclude, StopHandler, Return, FarewellPlayed,
           Observe, LlmError, LlmHangup, EndCall, LlmReturns, VoicemailDetected, SynthesizerError,
           ComponentError, WebLimit, Inactive, ForceEnd, SeeEnd, HangupOverdue, StartVoicemailCheck,
           StartLlm, Interrupt, FinishCleanup, FinalChunkPlayed, CallerHangsUp, DisconnectStream,
           StreamEnds, TranscriberFails, TranscriberClosed, RunReturns, vars
<1>1. farewell' => farewell \/ \E t \in Parties : SpeakFarewell(t)
  OBVIOUS
<1>2. FarewellPlayed => farewell /\ ~farewell'
  OBVIOUS
<1>3. transcriber # "on" => transcriber' # "on"
  OBVIOUS
<1>4. conversation_ended' => conversation_ended \/ RunReturns \/ \E t \in Parties : Conclude(t)
  OBVIOUS
<1>5. run' = "over" => run = "over" \/ RunReturns
  OBVIOUS
<1>6. "end_call" \notin Causes => call_hangup_message' = call_hangup_message
  OBVIOUS
<1>7. "voicemail" \notin Causes => detected' = detected
  OBVIOUS
<1>. QED
  BY <1>1, <1>2, <1>3, <1>4, <1>5, <1>6, <1>7

(* An end that starts has a task in it.                                    *)
LEMMA EndStarts ==
    ASSUME TypeOK, [Next]_vars, ~ending, ending'
    PROVE  \E u \in Parties : pc'[u] = "wait"
<1>. USE StageFacts DEF TypeOK, flags, speech, ended, line
<1>1. ASSUME NEW u \in Parties, EndOfConversation(u) PROVE pc'[u] = "wait"
  BY <1>1, EnderMoves
<1>2. ASSUME NEW u \in Parties, NEW silent, ProcessCallHangup(u, silent)
      PROVE  EndOfConversation(u)
  BY <1>2 DEF ProcessCallHangup
<1>3. \E u \in Parties : \/ EndOfConversation(u)
                         \/ \E silent \in {TRUE, NoFarewell} : ProcessCallHangup(u, silent)
  BY DEF Next, Shutdown, SpeakFarewell, Conclude, StopHandler, Return, FarewellPlayed,
         Observe, LlmError, LlmHangup, EndCall, LlmReturns, VoicemailDetected, SynthesizerError,
         ComponentError, WebLimit, Inactive, ForceEnd, SeeEnd, HangupOverdue, StartVoicemailCheck,
         StartLlm, Interrupt, FinishCleanup, FinalChunkPlayed, CallerHangsUp, DisconnectStream,
         StreamEnds, TranscriberFails, TranscriberClosed, RunReturns, vars
<1>. QED
  BY <1>1, <1>2, <1>3

(* The end that is in progress, or tears down, is somebody's; the listener *)
(* is at its work or the transcriber has been stopped.                     *)
Stopped ==
    /\ \A t \in Parties : pc[t] = "rest" => transcriber # "on"
    /\ pc["asr"] \notin {"on", "cleanup"} => transcriber # "on"
SurvivalInv == CloserInv /\ OnlySurvivors /\ OnceHungUp /\ Stopped /\ EndIsPursued /\ EndTearsDown

(* Initially no end is in progress.                                        *)
LEMMA SurvivalInit == Init => SurvivalInv
<1>. SUFFICES ASSUME Init PROVE SurvivalInv
  OBVIOUS
<1>1. /\ \A t \in Parties : pc[t] \in {"on", "off"}
      /\ pc["asr"] = "on" /\ pc["observer"] = "off"
  BY StageFacts DEF Init
<1>2. OnlySurvivors /\ OnceHungUp /\ Stopped
  BY <1>1, StageFacts DEF Init, OnlySurvivors, OnceHungUp, Stopped, Ending
<1>. QED
  BY <1>2, CloserInit DEF Init, SurvivalInv, EndIsPursued, EndTearsDown

(* One step of the invariant, whatever the step does to the tasks.         *)
LEMMA SurvivalStep == EndersSurvive /\ SurvivalInv /\ [Next]_vars => SurvivalInv'
<1>. SUFFICES ASSUME EndersSurvive, SurvivalInv, [Next]_vars PROVE SurvivalInv'
  OBVIOUS
<1>0. /\ CloserInv /\ CloserInv' /\ TypeOK /\ TypeOK' /\ OneCloser /\ PcType /\ Flagged
      /\ OnlySurvivors /\ OnceHungUp /\ Stopped /\ EndIsPursued /\ EndTearsDown
  BY CloserStep DEF SurvivalInv, CloserInv, TypeOK
<1>1. PICK t \in Tasks : Moves(t)
  BY <1>0, PcStep
<1>2. /\ farewell' => farewell \/ \E u \in Parties : SpeakFarewell(u)
      /\ FarewellPlayed => farewell /\ ~farewell'
      /\ (transcriber # "on" => transcriber' # "on")
      /\ conversation_ended' => conversation_ended \/ RunReturns \/ \E u \in Parties : Conclude(u)
      /\ run' = "over" => run = "over" \/ RunReturns
      /\ call_hangup_message' = Message /\ ~detected'
  BY <1>0, SpeechMoves DEF EndersSurvive, OnlySurvivors
<1>3. /\ (ending => ending') /\ (hangup_triggered => hangup_triggered')
      /\ (conversation_ended => conversation_ended') /\ (run = "over" => run' = "over")
  BY <1>0, FlagsStay
(* How a task that concludes, or tears down, moves.                        *)
<1>4. ASSUME NEW u \in Parties, Conclude(u)
      PROVE  /\ pc[u] = "wait" /\ u \notin {"llm", "voicemail"} /\ pc'[u] = "stop"
             /\ \A v \in Tasks \ {u} : pc'[v] = IF v = "llm" THEN "off" ELSE pc[v]
  BY <1>0, <1>4, StageFacts DEF Conclude, MayConclude, PcType, OnlySurvivors, Ending
<1>5. ASSUME NEW u \in Parties, StopHandler(u)
      PROVE  /\ pc[u] = "stop" /\ u \notin {"llm", "voicemail"} /\ pc'[u] = "rest"
             /\ transcriber' # "on" /\ \A v \in Tasks \ {u} : pc'[v] = pc[v]
  BY <1>0, <1>5, StageFacts, GoesMoves DEF StopHandler, OnlySurvivors, Ending
<1>6. ASSUME TranscriberClosed
      PROVE  /\ pc["asr"] = "on" /\ transcriber # "on" /\ pc'["asr"] \in {"wait", "off"}
             /\ \A v \in Tasks \ {"asr"} : pc'[v] = pc[v]
  BY <1>0, <1>6, StageFacts, EnderMoves, GoesMoves DEF TranscriberClosed, TypeOK
<1>7. ASSUME RunReturns
      PROVE  pc["asr"] = "off" /\ run' = "over" /\ \A v \in Tasks : pc'[v] = "off"
  BY <1>0, <1>7, OffMoves DEF RunReturns
<1>8. \/ Undisturbed \/ TranscriberClosed \/ RunReturns
      \/ \E u \in Parties : Conclude(u) \/ StopHandler(u)
  BY <1>0, EndersStay
<1>9. OnlySurvivors'
  <2>1. pc'["llm"] \notin Ending /\ pc'["voicemail"] \notin Ending
    BY <1>0, <1>4, <1>5, <1>6, <1>7, <1>8, StageFacts DEF Undisturbed, OnlySurvivors, Ending
  <2>. QED
    BY <1>2, <2>1 DEF OnlySurvivors
<1>10. OnceHungUp'
  <2>1. ASSUME FarewellPlayed
        PROVE  ~farewell' /\ hangup_triggered /\ \A u \in Parties : pc'[u] # "hangup"
    BY <1>0, <1>2, <2>1, StageFacts, GoesMoves DEF FarewellPlayed, OnceHungUp
  <2>2. ASSUME NEW u \in Parties, SpeakFarewell(u)
        PROVE  /\ pc[u] = "hangup" /\ pc'["observer"] = "off"
               /\ \A v \in Parties : pc'[v] # "hangup"
    BY <1>0, <2>2, StageFacts, OffMoves DEF SpeakFarewell, OnceHungUp, OneCloser
  <2>3. ASSUME ~FarewellPlayed, ~\E u \in Parties : SpeakFarewell(u)
        PROVE  /\ (farewell' => farewell) /\ (pc["observer"] = "off" => pc'["observer"] = "off")
               /\ (\E u \in Parties : pc'[u] = "hangup") =>
                      (\E u \in Parties : pc[u] = "hangup") \/ ~hangup_triggered
    BY <1>1, <1>2, <2>3 DEF Moves
  <2>4. CASE FarewellPlayed
    BY <1>3, <2>1, <2>4 DEF OnceHungUp
  <2>5. CASE \E u \in Parties : SpeakFarewell(u)
    BY <1>0, <1>3, <2>2, <2>5 DEF OnceHungUp, Flagged
  <2>6. CASE ~FarewellPlayed /\ ~\E u \in Parties : SpeakFarewell(u)
    BY <1>0, <1>3, <2>3, <2>6 DEF OnceHungUp
  <2>. QED
    BY <2>4, <2>5, <2>6
<1>11. Stopped'
  BY <1>0, <1>2, <1>4, <1>5, <1>6, <1>7, <1>8, StageFacts DEF Stopped, Undisturbed
<1>12. EndIsPursued'
  <2>. SUFFICES ASSUME ending', ~conversation_ended', run' = "gather"
                PROVE  \E u \in Parties : pc'[u] = "wait"
    BY DEF EndIsPursued
  <2>1. ~conversation_ended /\ run = "gather" /\ ~RunReturns /\ ~\E u \in Parties : Conclude(u)
    BY <1>0, <1>3, <1>7 DEF TypeOK, LineType, Conclude
  <2>2. CASE ending
    <3>1. PICK u \in Parties : pc[u] = "wait"
      BY <1>0, <2>1, <2>2 DEF EndIsPursued
    <3>. QED
      BY <1>5, <1>6, <1>8, <2>1, <3>1, StageFacts DEF Undisturbed
  <2>3. CASE ~ending
    BY <1>0, <2>3, EndStarts
  <2>. QED
    BY <2>2, <2>3
<1>13. EndTearsDown'
  <2>1. CASE ~conversation_ended
    BY <1>0, <1>2, <1>4, <1>7, <2>1 DEF EndTearsDown, Stopped
  <2>2. CASE conversation_ended
    BY <1>0, <1>2, <1>4, <1>5, <1>6, <1>7, <1>8, <2>2, StageFacts
       DEF EndTearsDown, Undisturbed, Stopped
  <2>. QED
    BY <2>1, <2>2
<1>. QED
  BY <1>0, <1>9, <1>10, <1>11, <1>12, <1>13 DEF SurvivalInv

(* Unless a cause ends the call within a task that may be cancelled, an    *)
(* end that was started is in progress until the conversation has ended.   *)
THEOREM EndGoesOn == ASSUME EndersSurvive PROVE Spec => []EndIsPursued
<1>1. SurvivalInv /\ [Next]_vars => SurvivalInv'
  BY SurvivalStep
<1>2. SurvivalInv => EndIsPursued
  BY DEF SurvivalInv
<1>. QED
  BY <1>1, <1>2, SurvivalInit, PTL DEF Spec

(* Under the same condition the transcriber of an ended conversation is    *)
(* stopped or being stopped.                                               *)
THEOREM EndIsTornDown == ASSUME EndersSurvive PROVE Spec => []EndTearsDown
<1>1. SurvivalInv /\ [Next]_vars => SurvivalInv'
  BY SurvivalStep
<1>2. SurvivalInv => EndTearsDown
  BY DEF SurvivalInv
<1>. QED
  BY <1>1, <1>2, SurvivalInit, PTL DEF Spec

-----------------------------------------------------------------------------
(* Only forcing the end makes the completion watcher leave before the call *)
(* is over.                                                                *)
WatcherStays == Causes \cap {"inactivity", "web_limit"} = {}

Watched == pc["watcher"] # "on" => hangup_sent \/ conversation_ended \/ run = "over"
Over ==
    /\ conversation_ended => \A t \in Parties : pc[t] # "wait"
    /\ run = "over" => \A t \in Tasks : pc[t] = "off"
WatchInv == CloserInv /\ Watched /\ Over

(* Initially the watcher is on.                                            *)
LEMMA WatchInit == Init => WatchInv
<1>. SUFFICES ASSUME Init PROVE WatchInv
  OBVIOUS
<1>1. pc["watcher"] = "on"
  BY StageFacts DEF Init
<1>. QED
  BY <1>1, CloserInit DEF Init, WatchInv, Watched, Over

(* A step keeps it: the watcher leaves by forcing the end or after it.     *)
LEMMA WatchStep == WatcherStays /\ WatchInv /\ [Next]_vars => WatchInv'
<1>. SUFFICES ASSUME WatcherStays, WatchInv, [Next]_vars PROVE WatchInv'
  OBVIOUS
<1>0. CloserInv /\ CloserInv' /\ TypeOK /\ TypeOK' /\ PcType /\ OneCloser /\ Watched /\ Over
  BY CloserStep DEF WatchInv, CloserInv, TypeOK
<1>1. PICK t \in Tasks : Moves(t)
  BY <1>0, PcStep
<1>2. /\ (hangup_sent => hangup_sent') /\ (conversation_ended => conversation_ended')
      /\ (run = "over" => run' = "over")
  BY <1>0, FlagsStay
<1>3. /\ conversation_ended' => conversation_ended \/ RunReturns \/ \E u \in Parties : Conclude(u)
      /\ run' = "over" => run = "over" \/ RunReturns
  BY <1>0, SpeechMoves
<1>4. ASSUME RunReturns PROVE run' = "over" /\ \A u \in Tasks : pc'[u] = "off"
  BY <1>0, <1>4, OffMoves DEF RunReturns
<1>5. Watched'
  <2>1. ASSUME WebLimit \/ Inactive PROVE FALSE
    BY <2>1 DEF WebLimit, Inactive, WatcherStays
  <2>2. ASSUME ForceEnd PROVE hangup_sent'
    BY <2>2 DEF ForceEnd
  <2>3. ASSUME SeeEnd PROVE conversation_ended'
    BY <1>2, <2>3 DEF SeeEnd
  <2>. QED
    BY <1>0, <1>1, <1>2, <1>4, <2>1, <2>2, <2>3 DEF Watched, Moves
<1>6. ASSUME conversation_ended', NEW u \in Parties PROVE pc'[u] # "wait"
  <2>1. CASE conversation_ended
    BY <1>0, <1>1, <2>1 DEF Over, Moves
  <2>2. CASE RunReturns
    BY <1>4, <2>2, StageFacts
  <2>3. ASSUME NEW v \in Parties, Conclude(v) PROVE pc'[u] # "wait"
    <3>1. /\ pc[v] = "wait"
          /\ \A w \in Tasks : pc'[w] = IF w = "llm" THEN "off" ELSE IF w = v THEN "stop" ELSE pc[w]
      BY <1>0, <2>3, StageFacts DEF Conclude, MayConclude, PcType
    <3>. QED
      BY <1>0, <3>1, StageFacts DEF OneCloser, Ending
  <2>. QED
    BY <1>3, <1>6, <2>1, <2>2, <2>3
<1>7. ASSUME run' = "over", NEW u \in Tasks PROVE pc'[u] = "off"
  <2>1. CASE run = "over"
    <3>1. ~FarewellPlayed
      BY <2>1 DEF FarewellPlayed
    <3>. QED
      BY <1>0, <1>1, <2>1, <3>1 DEF Over, Moves
  <2>. QED
    BY <1>3, <1>4, <1>7, <2>1
<1>. QED
  BY <1>0, <1>5, <1>6, <1>7 DEF WatchInv, Over

(* Whoever waits for a farewell to be played, the completion watcher is    *)
(* there to give it up, unless it is itself what ended the call.           *)
THEOREM WatcherOfPoll == ASSUME WatcherStays PROVE Spec => []PollIsWatched
<1>1. WatchInv /\ [Next]_vars => WatchInv'
  BY WatchStep
<1>2. WatchInv => PollIsWatched
  BY StageFacts DEF WatchInv, Watched, Over, PollIsWatched
<1>. QED
  BY <1>1, <1>2, WatchInit, PTL DEF Spec

-----------------------------------------------------------------------------
(* Under both conditions an end that has begun keeps every task it needs.  *)
THEOREM EndHoldsOn == ASSUME EndersSurvive, WatcherStays PROVE Spec => []EndIsHeld
<1>1. EndIsPursued /\ EndTearsDown /\ PollIsWatched => EndIsHeld
  BY DEF EndIsHeld
<1>. QED
  BY <1>1, EndGoesOn, EndIsTornDown, WatcherOfPoll, PTL
=============================================================================
