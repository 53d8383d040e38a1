---------------------------- MODULE MCEventStream ----------------------------
(* Small instances of EventStream for TLC.  The sessions are alike.          *)
EXTENDS EventStream

SessionSymmetry == Permutations(Sessions)

=============================================================================
