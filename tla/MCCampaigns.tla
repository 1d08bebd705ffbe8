---------------------------- MODULE MCCampaigns ----------------------------
(***************************************************************************)
(* The instances of Campaigns that TLC checks, and what the design of the  *)
(* launch says of it beyond what the code does.                            *)
(***************************************************************************)
EXTENDS Campaigns, TLC

Symmetry == Permutations(Requests) \cup Permutations(Contacts)

(* While nothing is under way, every call that was attempted has its       *)
(* session record ("call session records created for each attempted        *)
(* outbound call", production MVP launch design).                          *)
EveryCallHasSession == (\A r \in Requests : req[r] = Idle) => calls \subseteq sessions
=============================================================================
