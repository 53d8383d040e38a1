---------------------------- MODULE MCLifecycle ----------------------------
(***************************************************************************)
(* The life of sessions in the agent host, and that of the shell around its *)
(* supervisor in the main process, side by side in one run.  They share no  *)
(* state: the shell knows the host by its launches.                         *)
(***************************************************************************)
EXTENDS MCSessionLifecycle, Shell

VARIABLE part

ASSUME MainAssumption == ShellAssumption

bothVars == <<part, vars, shellVars>>

LifecycleInit == part \in {"sessions", "shell"} /\ Init /\ ShellInit

LifecycleNext ==
  \/ part = "sessions" /\ Next /\ UNCHANGED <<part, shellVars>>
  \/ part = "shell" /\ ShellNext /\ UNCHANGED <<part, vars>>

LifecycleSpec == LifecycleInit /\ [][LifecycleNext]_bothVars

=============================================================================
