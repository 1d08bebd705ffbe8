----------------------------- MODULE CallPhases -----------------------------
(***************************************************************************)
(* What the end of a call promises: a conversation is talked through,      *)
(* starts to end once, is ended once, and then the call is over; at any    *)
(* time the caller may hang up and cut it short.                           *)
(***************************************************************************)
VARIABLE phase

Init == phase = "talking"

StartToEnd == phase = "talking" /\ phase' = "ending"
Conclude == phase = "ending" /\ phase' = "ended"
Close == phase # "over" /\ phase' = "over"

Next == StartToEnd \/ Conclude \/ Close

Spec == Init /\ [][Next]_phase

(* A call that has started to end is soon over.                            *)
Closes == phase \in {"ending", "ended"} ~> phase = "over"
=============================================================================
