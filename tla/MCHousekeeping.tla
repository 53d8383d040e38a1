--------------------------- MODULE MCHousekeeping ---------------------------
(***************************************************************************)
(* Two components beside the sessions, in one run: what the host remembers  *)
(* of its time, and what is installed for a host behind WSL.  They share no *)
(* state; each behaviour is one of one of them, and the other stays as it   *)
(* began.                                                                  *)
(***************************************************************************)
EXTENDS TurnTimings, WslNode, TLC

VARIABLE part

housekeepingVars == <<part, timingVars, nodeVars>>

HousekeepingInit ==
  /\ part \in {"timings", "node"} /\ TimingsInit /\ NodeInit
  /\ part = "timings" => own = "none"

HousekeepingNext ==
  \/ part = "timings" /\ TimingsNext /\ UNCHANGED <<part, nodeVars>>
  \/ part = "node" /\ NodeNext /\ UNCHANGED <<part, timingVars>>

HousekeepingSpec == HousekeepingInit /\ [][HousekeepingNext]_housekeepingVars

ConversationSymmetry == Permutations(Conversations)

=============================================================================
