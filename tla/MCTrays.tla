------------------------------- MODULE MCTrays -------------------------------
(* A small instance of Trays for TLC.  Every call writes outside the         *)
(* workspace; dialogs are alike.                                            *)
EXTENDS Trays, TLC

MCRoot == <<"w">>

MCRealPath == <<>> :> <<>> @@ MCRoot :> MCRoot @@ <<"x">> :> <<"x">>

MCDangling == <<>>

MCArguments == {<<"x", "file">>}

\* Bound: where the host dies, one dialog at most is put.
OneDialogWithDeath == deaths = 0 \/ \E d \in Dialogs : state[d] = "new"

DialogSymmetry == Permutations(Dialogs)

=============================================================================
