----------------------------- MODULE Settlement -----------------------------
(***************************************************************************)
(* What Pi is promised about a question it blocks on (policy/gate.ts and   *)
(* extension-ui/gate.ts of the agent host): it is put once, it is settled  *)
(* once, it is granted only by an answer, and it does not stay open unless *)
(* it was put without a limit.                                             *)
(***************************************************************************)
CONSTANT Requests

VARIABLE outcome

Outcomes == {"new", "open", "unlimited", "granted", "refused"}

Standing == {"open", "unlimited"}

TypeOK == outcome \in [Requests -> Outcomes]

Init == outcome = [r \in Requests |-> "new"]

Put(r) ==
  /\ outcome[r] = "new"
  /\ \E standing \in Standing : outcome' = [outcome EXCEPT ![r] = standing]

\* Settled without being put: an exempt call, or one that cannot be asked about.
Dismiss(r) ==
  /\ outcome[r] = "new"
  /\ \E settled \in {"granted", "refused"} : outcome' = [outcome EXCEPT ![r] = settled]

Grant(r) ==
  /\ outcome[r] \in Standing
  /\ outcome' = [outcome EXCEPT ![r] = "granted"]

\* An expiry, an abort, a close or a death refuses any number of requests.
Refuse(refused) ==
  /\ refused # {}
  /\ \A r \in refused : outcome[r] \in Standing
  /\ outcome' = [r \in Requests |-> IF r \in refused THEN "refused" ELSE outcome[r]]

Next ==
  \/ \E r \in Requests : Put(r) \/ Dismiss(r) \/ Grant(r)
  \/ \E refused \in SUBSET Requests : Refuse(refused)

\* A request put with a limit does not stay open.
Settles == \A r \in Requests : outcome[r] = "open" ~> outcome[r] # "open"

Safe == Init /\ [][Next]_outcome

Spec == Safe /\ Settles

=============================================================================
