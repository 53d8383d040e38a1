--------------------------- MODULE MCPromptIntake ---------------------------
(* A small instance of PromptIntake for TLC.  The messages are alike.        *)
EXTENDS PromptIntake, TLC

MessageSymmetry == Permutations(Messages)

=============================================================================
