----------------------------- MODULE MCRenderer -----------------------------
(***************************************************************************)
(* The stream of events of two sessions on one port, and the prompt bar of  *)
(* the renderer, side by side in one run.  They share no state here: what   *)
(* the bar reads of a session is its status, which changes at any moment.   *)
(***************************************************************************)
EXTENDS MCEventStream, Composer

VARIABLE part

bothVars == <<part, vars, composerVars>>

RendererInit == part \in {"stream", "bar"} /\ Init /\ ComposerInit

RendererNext ==
  \/ part = "stream" /\ Next /\ UNCHANGED <<part, composerVars>>
  \/ part = "bar" /\ ComposerNext /\ UNCHANGED <<part, vars>>

RendererSpec == RendererInit /\ [][RendererNext]_bothVars

=============================================================================
