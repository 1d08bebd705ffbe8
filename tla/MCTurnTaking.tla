---------------------------- MODULE MCTurnTaking ----------------------------
(***************************************************************************)
(* TurnTaking with history variables more, for what comments and log lines *)
(* of task_manager.py claim of the answers the caller hears, and TLC finds *)
(* broken by what the code does.                                           *)
(***************************************************************************)
EXTENDS TurnTaking

VARIABLES
    heard,      \* turns whose answer was sent, in part
    offered,    \* the speculative answer that the last eager end of the
                \* current turn has started (0: none)
    confirmed   \* pairs of the answer offered and the answer given at the
                \* ends of turns that found a speculative answer

allVars == <<vars, heard, offered, confirmed>>

(* Audio is about to be handed to the output handler.                      *)
Heard == out'.pc = "sending" /\ out.pc = "hold" /\ out.chunk.kind \in Sounds

(* An eager end of turn starts a speculative answer; any other leaves the  *)
(* one that is pending, if there is one.                                   *)
Offers == asr # "eager" /\ asr' = "eager" /\ eager_llm_task' # eager_llm_task

Confirms == asr = "eager" /\ eager_llm_task # 0 /\ llm_task' = eager_llm_task

HeardInit == Init /\ heard = {} /\ offered = 0 /\ confirmed = {}
HeardNext ==
    /\ Next
    /\ heard' = IF Heard THEN heard \cup {root[out.chunk.seq]} ELSE heard
    /\ offered' = CASE Offers -> eager_llm_task'
                    [] asr' # "eager" -> 0
                    [] OTHER -> offered
    /\ confirmed' = IF Confirms THEN confirmed \cup {<<offered, eager_llm_task>>}
                    ELSE confirmed
HeardSpec == HeardInit /\ [][HeardNext]_allVars

(* An answer of which the caller heard something has its question in the   *)
(* history: what is merged into the next message ("Merged transcript with  *)
(* unheard response") and what a resumed turn reverts was not heard.       *)
HeardHasQuestion ==
    \A s \in heard : \E k \in 1 .. Len(history) : history[k] = UserEntry(s)

(* A turn that ends is answered by the speculative answer of that turn     *)
(* ("EndOfTurn follows EagerEndOfTurn - using speculative LLM"), not by    *)
(* one of an earlier turn that no one has taken away.                      *)
ConfirmsOwn == \A c \in confirmed : c[1] = c[2]
=============================================================================
