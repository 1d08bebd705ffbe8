------------------------------ MODULE CallEnd ------------------------------
(***************************************************************************)
(* How a call ends (task_manager.py, voicemail_handler.py): who may end    *)
(* it, the farewell that is spoken first, and the shutdown.                *)
(*                                                                         *)
(* A step is what a task does between two suspension points; pc[t] says    *)
(* where task t is suspended:                                              *)
(*   "on"       at its own work, or created and not yet run                *)
(*   "cleanup"  a handler in __cleanup_downstream_tasks                    *)
(*   "hangup"   process_call_hangup, up to the farewell                    *)
(*   "wait"     __process_end_of_conversation, up to conversation_ended    *)
(*   "stop"     its stop_handler                                           *)
(*   "rest"     its last pause, with the transcriber stopped               *)
(*   "off"      there is no such task, or it has returned                  *)
(* Time is abstract.  A wait for the current message ends at any time: it  *)
(* is bounded, and reads only marks.  Turns, answers and their audio are   *)
(* in TurnTaking; hangup_detail and the transcript are left out.           *)
(*                                                                         *)
(* An operator marked "mutant" is a faulty form of the one that follows    *)
(* it: put in its place, it must break a property.                         *)
(***************************************************************************)

CONSTANTS
    Causes,     \* what may end the call, apart from the caller
    Message,    \* a farewell (call_hangup_message) is configured
    Interrupts, \* the caller speaks or presses keys while the call ends
    Disconnects \* disconnect_stream makes the provider close the stream

AllCauses == {"llm_hangup", "end_call", "llm_error", "voicemail", "inactivity",
              "web_limit", "synthesizer_error", "transcriber_error"}

ASSUME CausesAssumption == Causes \subseteq AllCauses
ASSUME SwitchesAssumption == {Message, Interrupts, Disconnects} \subseteq BOOLEAN

Handlers == {"asr", "dtmf"}     \* _listen_transcriber, inject_digits_to_conversation
Parties == {"llm", "voicemail", "watcher", "observer", "synth", "asr"}
Tasks == Parties \cup Handlers
Ending == {"wait", "stop", "rest"}
Stages ==
    [llm |-> {"on", "hangup", "wait"}, watcher |-> {"on", "hangup"} \cup Ending,
     voicemail |-> {"on"} \cup Ending, observer |-> {"on"} \cup Ending, synth |-> {"on"} \cup Ending,
     asr |-> {"on", "cleanup"} \cup Ending, dtmf |-> {"on", "cleanup"}]

VARIABLES
    pc,
    hangup_triggered,
    hangup_message_queued,
    call_hangup_message,    \* the farewell has a text
    detected,               \* voicemail_handler.detected
    overdue,                \* hangup_mark_event_timeout has passed since hangup_triggered
    transmitted,            \* last_transmitted_timestamp is set
    farewell,               \* the farewell is on its way to the caller, its mark not yet back
    hangup_sent,
    ending,                 \* _end_of_conversation_in_progress
    conversation_ended,
    ended_by_assistant,
    stream,                 \* websocket of the provider: "open", "stopping", "closed"
    transcriber,            \* "on", "closed", or "failed": closed with a connection_error
    run                     \* run(): in its "gather", or "over"

flags == <<hangup_triggered, hangup_message_queued>>
speech == <<call_hangup_message, detected, overdue, transmitted, farewell, hangup_sent>>
ended == <<conversation_ended, ended_by_assistant>>
line == <<stream, transcriber, run>>
vars == <<pc, flags, speech, ending, ended, line>>

PcType ==
    /\ pc \in [Tasks -> Ending \cup {"on", "cleanup", "hangup", "off"}]
    /\ \A t \in Tasks : pc[t] \in Stages[t] \cup {"off"}
FlagType ==
    /\ hangup_triggered \in BOOLEAN /\ hangup_message_queued \in BOOLEAN
    /\ call_hangup_message \in BOOLEAN /\ detected \in BOOLEAN /\ overdue \in BOOLEAN
    /\ transmitted \in BOOLEAN /\ farewell \in BOOLEAN /\ hangup_sent \in BOOLEAN
    /\ ending \in BOOLEAN /\ conversation_ended \in BOOLEAN /\ ended_by_assistant \in BOOLEAN
LineType ==
    /\ stream \in {"open", "stopping", "closed"}
    /\ transcriber \in {"on", "closed", "failed"}
    /\ run \in {"gather", "over"}
TypeOK == PcType /\ FlagType /\ LineType

Init ==
    /\ pc = [t \in Tasks |-> IF t \in {"watcher", "synth", "asr", "dtmf"} THEN "on" ELSE "off"]
    /\ call_hangup_message = Message
    /\ stream = "open" /\ transcriber = "on" /\ run = "gather"
    /\ hangup_triggered = FALSE /\ hangup_message_queued = FALSE
    /\ detected = FALSE /\ overdue = FALSE /\ transmitted = FALSE
    /\ farewell = FALSE /\ hangup_sent = FALSE
    /\ ending = FALSE /\ conversation_ended = FALSE /\ ended_by_assistant = FALSE
-----------------------------------------------------------------------------
Goes(t, stage) == pc' = [pc EXCEPT ![t] = stage]
Off(ts) == pc' = [t \in Tasks |-> IF t \in ts THEN "off" ELSE pc[t]]

(* mutant of Busy: only the end itself is looked at, not the way to it *)
EndedOnly == conversation_ended

(* The guard of __process_end_of_conversation.                             *)
Busy == ending \/ conversation_ended

(* mutant of EndOfConversation: the flag of the end in progress is not set *)
Unflagged(t) ==
    IF Busy
    THEN Goes(t, "off") /\ UNCHANGED ending
    ELSE Goes(t, "wait") /\ UNCHANGED ending

(* Task t calls __process_end_of_conversation, and does nothing after it.  *)
EndOfConversation(t) ==
    IF Busy
    THEN Goes(t, "off") /\ UNCHANGED ending
    ELSE Goes(t, "wait") /\ ending' = TRUE

(* Task t calls process_call_hangup, and does nothing after it.            *)
ProcessCallHangup(t, silent) ==
    \/ /\ hangup_triggered \/ conversation_ended
       /\ Goes(t, "off")
       /\ UNCHANGED <<flags, ending>>
    \/ /\ ~hangup_triggered /\ ~conversation_ended
       /\ hangup_triggered' = TRUE
       /\ hangup_message_queued' = ~silent
       /\ IF silent THEN EndOfConversation(t) ELSE Goes(t, "hangup") /\ UNCHANGED ending
NoFarewell == ~call_hangup_message \/ detected

(* mutant of SpeakFarewell: last_transmitted_timestamp stays as it is *)
SpeakUntimed(t) ==
    /\ pc[t] = "hangup"
    /\ Off({t, "llm", "voicemail"})
    /\ farewell' = ~conversation_ended
    /\ UNCHANGED <<flags, call_hangup_message, detected, overdue, transmitted, hangup_sent,
                   ending, ended, line>>

(* The rest of process_call_hangup: its cleanup cancels the LLM task, the  *)
(* voicemail check and what is queued, then the farewell is synthesized    *)
(* unless the conversation has ended.  A task that cancels itself here     *)
(* still finishes: nothing suspends it before it returns.                  *)
SpeakFarewell(t) ==
    /\ pc[t] = "hangup"
    /\ Off({t, "llm", "voicemail"})
    /\ farewell' = ~conversation_ended
    /\ transmitted' = TRUE
    /\ UNCHANGED <<flags, call_hangup_message, detected, overdue, hangup_sent, ending, ended, line>>

(* The mark of the farewell comes back, which creates a task for           *)
(* agent_hangup_observer; the provider may never send it.                  *)
FarewellPlayed ==
    /\ farewell /\ stream # "closed" /\ run = "gather"
    /\ farewell' = FALSE
    /\ Goes("observer", "on")
    /\ UNCHANGED <<flags, call_hangup_message, detected, overdue, transmitted, hangup_sent,
                   ending, ended, line>>
Observe ==
    /\ pc["observer"] = "on"
    /\ hangup_sent' = TRUE
    /\ EndOfConversation("observer")
    /\ UNCHANGED <<flags, call_hangup_message, detected, overdue, transmitted, farewell, ended, line>>
-----------------------------------------------------------------------------
(* mutant of MayConclude: the poll for the farewell is left out *)
AfterAnyWait(t) == pc[t] = "wait"

(* The wait for the current message is over, and so is the poll for the    *)
(* farewell, which looks at the flags each time.                           *)
MayConclude(t) ==
    pc[t] = "wait" /\ (hangup_triggered /\ hangup_message_queued => hangup_sent)

(* conversation_ended is set and the LLM task cancelled.  When it is the   *)
(* LLM task itself that ends the call, the cancellation reaches it at its  *)
(* next suspension, in stop_handler: it does no more.                      *)
Conclude(t) ==
    /\ MayConclude(t)
    /\ conversation_ended' = TRUE
    /\ ended_by_assistant' = TRUE
    /\ pc' = [pc EXCEPT ![t] = "stop", !["llm"] = "off"]
    /\ stream' = IF stream = "open" THEN "stopping" ELSE stream
    /\ UNCHANGED <<flags, speech, ending, transcriber, run>>

(* The pause of stop_handler is over: it closes the websocket, and         *)
(* toggle_connection stops the transcriber.                                *)
StopHandler(t) ==
    /\ pc[t] = "stop"
    /\ Goes(t, "rest")
    /\ stream' = "closed"
    /\ transcriber' = IF transcriber = "on" THEN "closed" ELSE transcriber
    /\ UNCHANGED <<flags, speech, ending, ended, run>>

Return(t) ==
    /\ pc[t] = "rest"
    /\ Off({t, "voicemail"})
    /\ UNCHANGED <<flags, speech, ending, ended, line>>
-----------------------------------------------------------------------------
(* _end_call_on_component_error, whose guard is that of the end itself.    *)
ComponentError(t) ==
    /\ EndOfConversation(t)
    /\ UNCHANGED <<flags, speech, ended, line>>

(* The LLM task fails (_run_llm_task), decides that the conversation is    *)
(* complete, or calls the end_call tool, whose answer was the farewell.    *)
LlmError == "llm_error" \in Causes /\ pc["llm"] = "on" /\ ComponentError("llm")
LlmHangup ==
    /\ "llm_hangup" \in Causes /\ pc["llm"] = "on"
    /\ ProcessCallHangup("llm", NoFarewell)
    /\ UNCHANGED <<speech, ended, line>>
EndCall ==
    /\ "end_call" \in Causes /\ pc["llm"] = "on"
    /\ call_hangup_message' = FALSE
    /\ ProcessCallHangup("llm", TRUE)
    /\ UNCHANGED <<detected, overdue, transmitted, farewell, hangup_sent, ended, line>>
LlmReturns ==
    /\ pc["llm"] = "on"
    /\ Goes("llm", "off")
    /\ UNCHANGED <<flags, speech, ending, ended, line>>

(* The background check hears an answering machine.                        *)
VoicemailDetected ==
    /\ "voicemail" \in Causes /\ pc["voicemail"] = "on"
    /\ detected' = TRUE
    /\ ProcessCallHangup("voicemail", TRUE)
    /\ UNCHANGED <<call_hangup_message, overdue, transmitted, farewell, hangup_sent, ended, line>>

SynthesizerError ==
    /\ "synthesizer_error" \in Causes /\ pc["synth"] = "on"
    /\ ComponentError("synth")

(* __check_for_completion: a web call is too long, both sides have been    *)
(* silent, a hangup that was triggered takes too long, or it is complete.  *)
(* Each way leaves the loop.                                               *)
WebLimit == "web_limit" \in Causes /\ pc["watcher"] = "on" /\ ComponentError("watcher")
Inactive ==
    /\ "inactivity" \in Causes /\ pc["watcher"] = "on"
    /\ transmitted /\ ~hangup_triggered
    /\ ProcessCallHangup("watcher", NoFarewell)
    /\ UNCHANGED <<speech, ended, line>>

(* mutant of ForceEnd: the poll for the farewell goes on *)
ForceQuietly ==
    /\ pc["watcher"] = "on"
    /\ transmitted /\ hangup_triggered /\ ~conversation_ended /\ overdue
    /\ ComponentError("watcher")

ForceEnd ==
    /\ pc["watcher"] = "on"
    /\ transmitted /\ hangup_triggered /\ ~conversation_ended /\ overdue
    /\ hangup_sent' = TRUE
    /\ EndOfConversation("watcher")
    /\ UNCHANGED <<flags, call_hangup_message, detected, overdue, transmitted, farewell, ended, line>>
SeeEnd ==
    /\ pc["watcher"] = "on"
    /\ transmitted /\ hangup_triggered /\ conversation_ended
    /\ Goes("watcher", "off")
    /\ UNCHANGED <<flags, speech, ending, ended, line>>
HangupOverdue ==
    /\ hangup_triggered /\ ~overdue
    /\ overdue' = TRUE
    /\ UNCHANGED <<pc, flags, call_hangup_message, detected, transmitted, farewell, hangup_sent,
                   ending, ended, line>>
-----------------------------------------------------------------------------
(* What a handler takes from its queue: the listener drops transcripts     *)
(* from hangup_triggered on, the keypad's does not; turns, but not interim *)
(* results, are dropped after an answering machine was heard.              *)
Listens(h) == pc[h] = "on" /\ (h = "asr" => ~hangup_triggered)
Takes(h) == Listens(h) /\ ~detected

(* A transcript or digits start a voicemail check.                         *)
StartVoicemailCheck(h) ==
    /\ Takes(h) /\ pc["voicemail"] = "off"
    /\ Goes("voicemail", "on")
    /\ UNCHANGED <<flags, speech, ending, ended, line>>

(* A turn with nothing to interrupt starts an LLM task.                    *)
StartLlm(h) ==
    /\ Takes(h) /\ pc["llm"] = "off"
    /\ Goes("llm", "on")
    /\ UNCHANGED <<flags, speech, ending, ended, line>>

(* mutant of FinishCleanup: it cancels the synthesizer's listener as well *)
CancelSynthesizer(h) ==
    /\ pc[h] = "cleanup"
    /\ pc' = [pc EXCEPT ![h] = "on", !["llm"] = "on", !["voicemail"] = "off", !["synth"] = "off"]
    /\ farewell' \in {farewell, FALSE}
    /\ transmitted' = TRUE
    /\ UNCHANGED <<flags, call_hangup_message, detected, overdue, hangup_sent, ending, ended, line>>

(* An interruption: __cleanup_downstream_tasks clears what is played,      *)
(* suspends, and cancels; a turn (with the keypad, always) then starts an  *)
(* LLM task.  A farewell that is spoken meanwhile is lost or not.          *)
Interrupt(h) ==
    /\ Interrupts /\ Listens(h) /\ (h = "dtmf" => ~detected)
    /\ Goes(h, "cleanup")
    /\ UNCHANGED <<flags, speech, ending, ended, line>>
FinishCleanup(h) ==
    /\ pc[h] = "cleanup"
    /\ \E llm \in {"on", "off"} :
           /\ h = "dtmf" => llm = "on"
           /\ pc' = [pc EXCEPT ![h] = "on", !["llm"] = llm, !["voicemail"] = "off"]
    /\ farewell' \in {farewell, FALSE}
    /\ transmitted' = TRUE
    /\ UNCHANGED <<flags, call_hangup_message, detected, overdue, hangup_sent, ending, ended, line>>

(* The last mark of an answer comes back (final_chunk_played_observer).    *)
FinalChunkPlayed ==
    /\ ~transmitted /\ stream # "closed"
    /\ transmitted' = TRUE
    /\ UNCHANGED <<pc, flags, call_hangup_message, detected, overdue, farewell, hangup_sent,
                   ending, ended, line>>
-----------------------------------------------------------------------------
(* The stream closes because the caller hangs up, or disconnect_stream     *)
(* asked for it.  A stop event, or an error other than WebSocketDisconnect,*)
(* closes the transcriber; a socket that merely drops does not.            *)
CallerHangsUp ==
    /\ stream # "closed"
    /\ stream' = "closed"
    /\ UNCHANGED <<pc, flags, speech, ending, ended, transcriber, run>>
DisconnectStream == Disconnects /\ stream = "stopping" /\ CallerHangsUp
StreamEnds ==
    /\ stream = "closed" /\ transcriber = "on"
    /\ transcriber' = "closed"
    /\ UNCHANGED <<pc, flags, speech, ending, ended, stream, run>>
TranscriberFails ==
    /\ "transcriber_error" \in Causes /\ transcriber = "on"
    /\ transcriber' = "failed"
    /\ UNCHANGED <<pc, flags, speech, ending, ended, stream, run>>

(* The listener takes transcriber_connection_closed and returns, after     *)
(* ending the call if there was an error.                                  *)
TranscriberClosed ==
    /\ pc["asr"] = "on" /\ transcriber # "on"
    /\ IF transcriber = "failed" THEN EndOfConversation("asr") ELSE Goes("asr", "off") /\ UNCHANGED ending
    /\ UNCHANGED <<flags, speech, ended, line>>

(* The gather of run() returns with the listener: all tasks are cancelled  *)
(* and the tools removed, on which agent_hangup_observer would fail.  The  *)
(* conversation has then ended, unless run() raises a component's error.   *)
RunReturns ==
    /\ run = "gather" /\ pc["asr"] = "off"
    /\ run' = "over"
    /\ conversation_ended' \in {conversation_ended, TRUE}
    /\ Off(Tasks)
    /\ UNCHANGED <<flags, speech, ending, ended_by_assistant, stream, transcriber>>

Shutdown(t) == Conclude(t) \/ StopHandler(t) \/ Return(t)
Next ==
    \/ \E t \in Parties : SpeakFarewell(t) \/ Shutdown(t)
    \/ FarewellPlayed \/ Observe
    \/ LlmError \/ LlmHangup \/ EndCall \/ LlmReturns
    \/ VoicemailDetected \/ SynthesizerError
    \/ WebLimit \/ Inactive \/ ForceEnd \/ SeeEnd \/ HangupOverdue
    \/ \E h \in Handlers : StartVoicemailCheck(h) \/ StartLlm(h) \/ Interrupt(h) \/ FinishCleanup(h)
    \/ FinalChunkPlayed
    \/ CallerHangsUp \/ DisconnectStream \/ StreamEnds \/ TranscriberFails \/ TranscriberClosed
    \/ RunReturns

Spec == Init /\ [][Next]_vars

(* The event loop runs what is ready, pauses and time limits end, and the  *)
(* transcripts in front of transcriber_connection_closed are finite; the   *)
(* provider need not return the farewell's mark or send a stop event, and  *)
(* the caller need not hang up.                                            *)
Fairness ==
    /\ \A t \in Parties : WF_vars(SpeakFarewell(t)) /\ WF_vars(Shutdown(t))
    /\ \A h \in Handlers : WF_vars(FinishCleanup(h))
    /\ WF_vars(Observe) /\ WF_vars(ForceEnd) /\ WF_vars(HangupOverdue)
    /\ WF_vars(RunReturns) /\ SF_vars(TranscriberClosed)
LiveSpec == Spec /\ Fairness
-----------------------------------------------------------------------------
(* The call as its phases; the guard of __process_end_of_conversation and  *)
(* the flags keep their order, whoever ends it and however often.          *)
Phase ==
    IF run = "over" THEN "over"
    ELSE IF conversation_ended THEN "ended"
    ELSE IF ending THEN "ending" ELSE "talking"
Phases == INSTANCE CallPhases WITH phase <- Phase
ImplementsPhases == Phases!Spec

(* One task at most is in __process_end_of_conversation and one is about   *)
(* to speak the farewell, whatever triggers them together.                 *)
OneCloser ==
    \A s, t \in Parties :
        \/ pc[s] \in Ending /\ pc[t] \in Ending
        \/ pc[s] = "hangup" /\ pc[t] = "hangup"
        => s = t

(* A farewell that was queued is not cut off: the conversation is ended    *)
(* once it was played or given up, also by a task that was to end it       *)
(* before the farewell was queued (__process_end_of_conversation).         *)
FarewellSettled == ended_by_assistant /\ hangup_message_queued => hangup_sent

(* The end in progress, which bars every other one, is in progress: its    *)
(* task has not been cancelled (__cleanup_downstream_tasks).               *)
EndIsPursued ==
    ending /\ ~conversation_ended /\ run = "gather" => \E t \in Parties : pc[t] = "wait"

(* A conversation that has ended leaves the transcriber on only while a    *)
(* task is stopping it (__process_end_of_conversation).                    *)
EndTearsDown == conversation_ended => transcriber # "on" \/ \E t \in Parties : pc[t] = "stop"

(* Whoever polls for a farewell has somebody left to give it up: the       *)
(* completion watcher is still there (__check_for_completion).             *)
PollIsWatched ==
    hangup_triggered /\ hangup_message_queued /\ ~hangup_sent =>
        \A t \in Parties : pc[t] = "wait" => pc["watcher"] = "on"

(* An end that has begun keeps the tasks it needs: one that pursues it,    *)
(* one that gives up the farewell, one that stops the transcriber.         *)
EndIsHeld == EndIsPursued /\ EndTearsDown /\ PollIsWatched

(* A hangup that was triggered, or an end that was started, closes the     *)
(* call, with or without the provider's marks (HANGUP in __check_for_      *)
(* completion, __process_end_of_conversation).                             *)
HangupCloses == hangup_triggered ~> run = "over"
EndCloses == Phases!Closes
CallCloses == HangupCloses /\ EndCloses
=============================================================================
