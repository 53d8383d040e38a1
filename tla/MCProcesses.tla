---------------------------- MODULE MCProcesses ----------------------------
(***************************************************************************)
(* Two components that outlive a process, side by side in one run: the lock *)
(* beside a session file, and a host behind WSL.  They share no state; each *)
(* behaviour is one of one of them, and the other stays as it began.        *)
(***************************************************************************)
EXTENDS SessionLock, LoopbackHost

VARIABLE part

processVars == <<part, vars, loopbackVars>>

LockMoves == part = "lock" /\ UNCHANGED <<part, loopbackVars>>
LoopbackMoves == part = "loopback" /\ UNCHANGED <<part, vars>>

ProcessInit == part \in {"lock", "loopback"} /\ Init /\ LoopbackInit

ProcessNext == (LockMoves /\ Next) \/ (LoopbackMoves /\ LoopbackNext)

\* The fairness of the part that moves.
ProcessFairness ==
  /\ \A h \in Hosts : WF_processVars(LockMoves /\ Advance(h))
  /\ WF_processVars(LockMoves /\ Age)
  /\ WF_processVars(LoopbackMoves /\ StartFails) /\ WF_processVars(LoopbackMoves /\ MainReceives)
  /\ WF_processVars(LoopbackMoves /\ Bind) /\ WF_processVars(LoopbackMoves /\ Authenticate)
  /\ WF_processVars(LoopbackMoves /\ Built) /\ WF_processVars(LoopbackMoves /\ (Serve \/ Ignore))
  /\ WF_processVars(LoopbackMoves /\ ShutDown) /\ WF_processVars(LoopbackMoves /\ OwnerCloses)
  /\ WF_processVars(LoopbackMoves /\ Orphaned)

ProcessSpec == ProcessInit /\ [][ProcessNext]_processVars /\ ProcessFairness

=============================================================================
