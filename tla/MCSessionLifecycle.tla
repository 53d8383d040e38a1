------------------------- MODULE MCSessionLifecycle -------------------------
(* Small instances of SessionLifecycle for TLC.  Tasks are alike, and calls. *)
EXTENDS SessionLifecycle, TLC

TaskSymmetry == Permutations(Tasks) \cup Permutations(Calls)

=============================================================================
