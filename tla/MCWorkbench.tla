---------------------------- MODULE MCWorkbench ----------------------------
(***************************************************************************)
(* Three components that keep track of what is open or installed, side by   *)
(* side in one run: the supervisor in main, the copies of Pi beside it, and *)
(* the navigation of the renderer.  They share no state; each behaviour is  *)
(* one of one of them, and the other two stay as they began.                *)
(***************************************************************************)
EXTENDS HostSupervisor, PiInstalls, WorkspaceView, TLC

CONSTANTS
  a1, a2, r1, c1, c2, j1,  \* the supervisor: sessions, a root, slots, a call
  v1, v2                   \* versions of Pi

VARIABLE part

\* Two directories, the first with two sessions.
Directory == [s \in {"s1", "s2", "s3"} |-> IF s = "s3" THEN "r2" ELSE "r1"]

\* Two sessions in one workspace.
OneHome == [s \in {a1, a2} |-> r1]

Alike == Permutations({a1, a2})

workbenchVars == <<part, vars, piVars, workspaceVars>>

WorkbenchInit ==
  /\ part \in {"supervisor", "copies", "renderer"}
  /\ Init /\ PiInit /\ WorkspaceInit

WorkbenchNext ==
  \/ part = "supervisor" /\ Next /\ UNCHANGED <<part, piVars, workspaceVars>>
  \/ part = "copies" /\ PiNext /\ UNCHANGED <<part, vars, workspaceVars>>
  \/ part = "renderer" /\ WorkspaceNext /\ UNCHANGED <<part, vars, piVars>>

WorkbenchSpec == WorkbenchInit /\ [][WorkbenchNext]_workbenchVars

=============================================================================
