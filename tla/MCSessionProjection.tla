------------------------ MODULE MCSessionProjection ------------------------
(* A small instance of SessionProjection for TLC.  The calls are alike.      *)
EXTENDS SessionProjection, TLC

CallSymmetry == Permutations(Calls)

=============================================================================
