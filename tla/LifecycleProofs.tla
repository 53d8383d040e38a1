-------------------------- MODULE LifecycleProofs --------------------------
(***************************************************************************)
(* SessionLifecycle for any sessions, tasks, calls, limits and bounds: one  *)
(* writer for each session file, no lock that outlives its session, and     *)
(* reports of interrupted tools that neither forget nor invent one.         *)
(*                                                                         *)
(* Shell for any budgets and any number of faults and clicks: when nothing  *)
(* is under way a page has its port or says that there is none, what is     *)
(* active is open, and a quit leaves no host behind.                       *)
(***************************************************************************)
EXTENDS SessionLifecycle, Shell, FiniteSetTheorems, TLAPS

-----------------------------------------------------------------------------
(* SessionLifecycle. *)

Late == {"binding", "announcing", "open"}

\* What is registered is what is alive beyond its construction.
RegisteredAreAlive ==
  \A s \in Sessions :
    table[s] # NoTask => step[table[s]] \in Late

AliveAreRegistered ==
  \A t \in Tasks :
    /\ t \in alive => step[t] \in Late \cup {"building"}
    /\ t \in alive /\ step[t] # "building" => Registered(t)
    /\ step[t] = "building" => t \in alive
    /\ t \in heard \/ early[t] # {} => t \in alive /\ Registered(t)
    /\ step[t] # "none" => under[t] # 0

\* A lock of this process belongs to a Pi session that is alive, of that file.
LocksAreHeld ==
  \A s \in Sessions : lock[s] \in Tasks => lock[s] \in alive /\ who[lock[s]] = s

\* A session that has no file yet belongs to the one task that creates it, and only such a
\* task builds without the lock.
NewAreAlone ==
  \A t \in Tasks :
    /\ step[t] = "building" /\ ~Holds(t) => who[t] \notin existing
    /\ step[t] # "none" /\ who[t] \notin existing =>
         \A u \in Tasks \ {t} : step[u] # "none" => who[u] # who[t]

\* Another live host leaves no torn marker.
ForeignIsWhole == \A s \in Sessions : lock[s] = Foreign => Torn \notin marker[s]

\* Sessions under construction, each with its reservation.
Building == {t \in Tasks : step[t] \in {"locating", "building"}}

Counted == reserved = Cardinality(Building)

\* The inductive invariant of ownership.
Owned ==
  /\ TypeOK /\ Counted /\ ForeignIsWhole
  /\ OwnersAreLive /\ RegisteredAreAlive /\ AliveAreRegistered /\ LocksAreHeld /\ NewAreAlone

-----------------------------------------------------------------------------
(* The inductive invariant of the evidence. *)

\* A task that has read a marker and has still to report it.
MarkerIsCarried ==
  \A t \in Tasks : carried[t] # {} => step[t] \in {"building", "binding", "announcing"}

\* Calls run in the sessions somebody hears, and are not those of an earlier death.
CallsAreHeard ==
  \A t \in Tasks :
    /\ calls[t] # {} => t \in heard /\ who[t] \in existing
    /\ calls[t] \cap unreported[who[t]] = {}

\* A running call is in the marker, or was dropped with it and is nobody's report.
RunningIsMarked ==
  \A t \in Tasks : \A c \in calls[t] :
    c \in marker[who[t]] \/ (c \in lost[who[t]] /\ c \notin Named(carried[t]))

\* Whose marker it is: what runs in the session that holds the lock, what ran in one that
\* held it, and nothing where there is no file.
MarkerOfHolder ==
  \A s \in Sessions :
    /\ marker[s] # {} \/ lock[s] = Foreign => s \in existing
    /\ lock[s] \in Tasks => marker[s] \subseteq calls[lock[s]]
    /\ lock[s] = Foreign => marker[s] \cap unreported[s] = {}
    /\ lock[s] \in {Free, Stale} =>
         /\ marker[s] \ {Torn} \subseteq unreported[s]
         /\ marker[s] # {} => unreported[s] # {}

\* A marker is read once.
ReadOnce ==
  \A t \in Tasks :
    /\ carried[t] \cap marker[who[t]] = {}
    /\ \A u \in Tasks \ {t} : who[u] = who[t] => carried[u] \cap carried[t] = {}

\* A torn marker is of the last death: whoever read an earlier one is gone.
TornIsLast ==
  /\ \A s \in Sessions : Torn \in marker[s] =>
       \A u \in Tasks : who[u] = s => step[u] \in {"none", "locating", "done"}
  /\ \A t \in Tasks : Torn \in carried[t] /\ Holds(t) =>
       \A u \in Tasks \ {t} : who[u] = who[t] => step[u] \in {"none", "locating", "done"}

\* Something that ran stands behind a torn marker, and behind no other.
TornStandsForSome ==
  \A t \in Tasks : Torn \in carried[t] =>
    \E c \in unreported[who[t]] :
      /\ c \notin marker[who[t]]
      /\ \A u \in Tasks \ {t} : who[u] = who[t] => c \notin carried[u]

\* What ran when a host died is in the marker, with a task that read it, or lost.
DeadAreSeen ==
  \A s \in Sessions : \A c \in unreported[s] :
    \/ c \in Named(marker[s]) \/ c \in lost[s]
    \/ \E t \in Tasks : who[t] = s /\ c \in Named(carried[t])

Witnessed ==
  /\ MarkerIsCarried /\ CallsAreHeard /\ RunningIsMarked /\ MarkerOfHolder
  /\ ReadOnce /\ TornIsLast /\ TornStandsForSome /\ DeadAreSeen /\ NoFalseAlarm

-----------------------------------------------------------------------------
(* Types. *)

LEMMA InitTypes == ASSUME Init PROVE TypeOK
<1>1. (CHOOSE s \in Sessions : TRUE) \in Sessions
  BY LifecycleAssumption
<1> QED
  BY <1>1, LifecycleAssumption DEF Init, TypeOK, Steps

\* Everything a step changes keeps its type; of the count of reservations that is a matter
\* of what is counted.
LEMMA TaskTypes ==
  ASSUME TypeOK, reserved' \in Nat, NEW t \in Tasks, TaskStep(t) PROVE TypeOK'
<1> USE LifecycleAssumption
<1> USE DEF TypeOK, Steps, taskVars, hostVars, diskVars, historyVars, boundVars
<1>1. ASSUME NEW s \in Sessions, OpenSession(t, s) PROVE TypeOK'
  BY <1>1 DEF OpenSession, Start, Move
<1>2. ASSUME NEW s \in Sessions, CreateSession(t, s) PROVE TypeOK'
  BY <1>2 DEF CreateSession, Start, Move
<1>3. CASE Locate(t)
  BY <1>3 DEF Locate, Move
<1>4. ASSUME Fail(t) PROVE TypeOK'
  BY <1>4 DEF Fail, Move, Released, Holds
<1>5. CASE Register(t)
  BY <1>5 DEF Register, Move
<1>6. CASE Bound(t)
  BY <1>6 DEF Bound, Move
<1>7. CASE Announced(t)
  BY <1>7 DEF Announced, Move
<1>8. CASE CleanUp(t)
  BY <1>8 DEF CleanUp, Move, Dispose, DroppedWith, Running
<1>9. ASSUME NEW c \in Calls, ToolStart(t, c) PROVE TypeOK'
  BY <1>9 DEF ToolStart, WriteMarker
<1>10. ASSUME NEW c \in Calls, ToolEnd(t, c) PROVE TypeOK'
  BY <1>10 DEF ToolEnd, WriteMarker
<1>11. CASE Settled(t)
  BY <1>11 DEF Settled, WriteMarker
<1>12. ASSUME NEW c \in Calls, ToolStartUnheard(t, c) PROVE TypeOK'
  BY <1>12 DEF ToolStartUnheard
<1>13. ASSUME NEW c \in Calls, ToolEndUnheard(t, c) PROVE TypeOK'
  BY <1>13 DEF ToolEndUnheard
<1> QED
  BY <1>1, <1>2, <1>3, <1>4, <1>5, <1>6, <1>7, <1>8, <1>9, <1>10, <1>11, <1>12, <1>13
     DEF TaskStep, Refuse, GiveUp

LEMMA ClosingTypes ==
  ASSUME TypeOK, NEW closing \in SUBSET Tasks, Closing(closing), workspace' \in {0, workspace}
  PROVE  TypeOK'
<1> USE LifecycleAssumption
<1> QED
  BY DEF TypeOK, Steps, Closing, Dispose, Unregister, historyVars, boundVars

LEMMA OtherTypes ==
  ASSUME TypeOK, ForeignIsWhole, Next, \A t \in Tasks : ~TaskStep(t) PROVE TypeOK'
<1> USE LifecycleAssumption
<1> USE DEF taskVars, hostVars, diskVars, historyVars, boundVars
<1>1. ASSUME NEW s \in Sessions, Attach(s) PROVE TypeOK'
  BY <1>1 DEF Attach, TypeOK
<1>2. ASSUME NEW s \in Sessions, CloseSession(s) PROVE TypeOK'
  BY <1>2, ClosingTypes DEF CloseSession, TypeOK
<1>3. CASE CloseWorkspace
  BY <1>3, ClosingTypes DEF CloseWorkspace
<1>4. CASE Shutdown
  BY <1>4, ClosingTypes DEF Shutdown
<1>5. CASE OpenWorkspace
  BY <1>5 DEF OpenWorkspace, TypeOK
<1>6. CASE Die
  BY <1>6 DEF Die, TypeOK, Steps, Named, Running, Unmarked
<1>7. ASSUME NEW s \in Sessions, ForeignStep(s) PROVE TypeOK'
  <2>1. CASE ForeignOpen(s)
    BY <2>1 DEF ForeignOpen, TypeOK
  <2>2. ASSUME NEW c \in Calls, ForeignTool(s, c) PROVE TypeOK'
    BY <2>2 DEF ForeignTool, TypeOK
  <2>3. CASE ForeignClose(s)
    BY <2>3 DEF ForeignClose, TypeOK
  <2>4. CASE ForeignDeath(s)
    BY <2>4 DEF ForeignDeath, TypeOK, ForeignIsWhole
  <2> QED
    BY <1>7, <2>1, <2>2, <2>3, <2>4 DEF ForeignStep
<1> QED
  BY <1>1, <1>2, <1>3, <1>4, <1>5, <1>6, <1>7 DEF Next

-----------------------------------------------------------------------------
(* The count of reservations. *)

LEMMA BuildingIsFinite ==
  ASSUME TypeOK PROVE IsFiniteSet(Building) /\ Cardinality(Building) \in Nat
<1>1. Building \subseteq Tasks
  BY DEF Building
<1> QED
  BY <1>1, LifecycleAssumption, FS_Subset, FS_CardinalityType

\* One task begins, or ceases, to be under construction.
LEMMA OneMoreBuilds ==
  ASSUME TypeOK, Counted, NEW t \in Tasks, t \notin Building,
         Building' = Building \cup {t}, reserved' = reserved + 1
  PROVE  Counted' /\ reserved' \in Nat
BY BuildingIsFinite, FS_AddElement DEF Counted

LEMMA OneLessBuilds ==
  ASSUME TypeOK, Counted, NEW t \in Building, Building' = Building \ {t}, reserved' = reserved - 1
  PROVE  Counted' /\ reserved' \in Nat
<1>1. Cardinality(Building \ {t}) = Cardinality(Building) - 1
  BY BuildingIsFinite, FS_RemoveElement
<1>2. IsFiniteSet(Building \ {t})
  BY BuildingIsFinite, FS_RemoveElement
<1>3. Cardinality(Building \ {t}) \in Nat
  BY <1>2, FS_CardinalityType
<1> QED
  BY <1>1, <1>3 DEF Counted

LEMMA CountedStep ==
  ASSUME TypeOK, Counted, Next PROVE Counted' /\ reserved' \in Nat
<1> USE DEF Building
<1>0. reserved \in Nat
  BY DEF TypeOK
<1>1. ASSUME Building' = Building, reserved' = reserved PROVE Counted' /\ reserved' \in Nat
  BY <1>0, <1>1 DEF Counted
<1>2. ASSUME NEW t \in Tasks, TaskStep(t) PROVE Counted' /\ reserved' \in Nat
  <2>1. ASSUME NEW s \in Sessions, NEW first \in {"locating", "building"}, Start(t, s, first)
        PROVE  Counted' /\ reserved' \in Nat
    <3>1. /\ t \notin Building /\ Building' = Building \cup {t} /\ reserved' = reserved + 1
      BY <2>1 DEF Start, Move, TypeOK
    <3> QED
      BY <3>1, OneMoreBuilds
  <2>2. ASSUME step[t] \in {"locating", "building"}, Fail(t) PROVE Counted' /\ reserved' \in Nat
    <3>1. t \in Building /\ Building' = Building \ {t} /\ reserved' = reserved - 1
      BY <2>2 DEF Fail, Move, TypeOK, Unclaimed
    <3> QED
      BY <3>1, OneLessBuilds
  <2>3. CASE Register(t)
    <3>1. t \in Building /\ Building' = Building \ {t} /\ reserved' = reserved - 1
      BY <2>3 DEF Register, Move, TypeOK, Unclaimed
    <3> QED
      BY <3>1, OneLessBuilds
  <2>4. CASE Locate(t) \/ Bound(t) \/ Announced(t) \/ CleanUp(t)
    BY <1>1, <2>4 DEF Locate, Bound, Announced, CleanUp, Move, TypeOK
  <2>5. CASE Settled(t) \/ \E c \in Calls : ToolStart(t, c) \/ ToolEnd(t, c)
    BY <1>1, <2>5 DEF Settled, ToolStart, ToolEnd, WriteMarker, taskVars
  <2>6. CASE \E c \in Calls : ToolStartUnheard(t, c) \/ ToolEndUnheard(t, c)
    BY <1>1, <2>6 DEF ToolStartUnheard, ToolEndUnheard, taskVars
  <2> QED
    BY <1>2, <2>1, <2>2, <2>3, <2>4, <2>5, <2>6
       DEF TaskStep, OpenSession, CreateSession, Refuse, GiveUp
<1>3. ASSUME NEW closing \in SUBSET Tasks, Closing(closing) PROVE Counted' /\ reserved' \in Nat
  BY <1>1, <1>3 DEF Closing, Unregister, TypeOK
<1>4. ASSUME NEW s \in Sessions, CloseSession(s) PROVE Counted' /\ reserved' \in Nat
  BY <1>3, <1>4 DEF CloseSession, TypeOK
<1>5. CASE CloseWorkspace \/ Shutdown
  BY <1>3, <1>5 DEF CloseWorkspace, Shutdown
<1>6. CASE Die
  <2>1. Building' = {} /\ reserved' = 0
    BY <1>6 DEF Die, TypeOK
  <2> QED
    BY <2>1, FS_EmptySet DEF Counted
<1>7. ASSUME NEW s \in Sessions, Attach(s) \/ ForeignStep(s) PROVE Counted' /\ reserved' \in Nat
  BY <1>1, <1>7
     DEF Attach, ForeignStep, ForeignOpen, ForeignTool, ForeignClose, ForeignDeath, taskVars
<1>8. CASE OpenWorkspace
  BY <1>1, <1>8 DEF OpenWorkspace, taskVars
<1> QED
  BY <1>2, <1>4, <1>5, <1>6, <1>7, <1>8 DEF Next

-----------------------------------------------------------------------------
(* Ownership. *)

\* A registered session has its lock, so that nobody else can register or begin with it.
LEMMA TypesStep == ASSUME TypeOK, Counted, ForeignIsWhole, Next PROVE TypeOK' /\ Counted'
<1>1. Counted' /\ reserved' \in Nat
  BY CountedStep
<1> QED
  BY <1>1, TaskTypes, OtherTypes DEF Next

LEMMA InitOwned == ASSUME Init PROVE Owned
<1>1. TypeOK
  BY InitTypes
<1>2. Counted
  <2>1. Building = {}
    BY DEF Init, Building
  <2> QED
    BY <2>1, FS_EmptySet DEF Init, Counted
<1>3. OwnersAreLive /\ RegisteredAreAlive /\ ForeignIsWhole
  BY DEF Init, OwnersAreLive, RegisteredAreAlive, ForeignIsWhole
<1>4. AliveAreRegistered
  BY DEF Init, AliveAreRegistered
<1>5. LocksAreHeld /\ NewAreAlone
  BY LifecycleAssumption DEF Init, LocksAreHeld, NewAreAlone, Holds
<1> QED
  BY <1>1, <1>2, <1>3, <1>4, <1>5 DEF Owned

\* What ownership says, beside its types and counts.
Claims ==
  /\ OwnersAreLive /\ RegisteredAreAlive /\ AliveAreRegistered /\ LocksAreHeld /\ NewAreAlone
  /\ ForeignIsWhole

LEMMA StartClaims ==
  ASSUME Owned, TypeOK', NEW t \in Tasks, NEW s \in Sessions, OpenSession(t, s) \/ CreateSession(t, s)
  PROVE  Claims'
<1> USE LifecycleAssumption DEF Owned, Claims, OpenSession, CreateSession, Start, Move
<1> USE DEF TypeOK, Late, hostVars, diskVars, historyVars, boundVars, Holds, Registered
<1>1. OwnersAreLive'
  BY DEF OwnersAreLive, RegisteredAreAlive
<1>2. RegisteredAreAlive'
  BY DEF RegisteredAreAlive, OwnersAreLive
<1>3. AliveAreRegistered'
  BY DEF AliveAreRegistered
<1>4. LocksAreHeld'
  BY DEF LocksAreHeld, AliveAreRegistered
<1>5. NewAreAlone'
  BY DEF NewAreAlone, AliveAreRegistered
<1>6. ForeignIsWhole'
  BY DEF ForeignIsWhole
<1> QED
  BY <1>1, <1>2, <1>3, <1>4, <1>5, <1>6

LEMMA LocateClaims ==
  ASSUME Owned, TypeOK', NEW t \in Tasks, Locate(t)
  PROVE  Claims'
<1> USE LifecycleAssumption DEF Owned, Claims, Locate, Move, LockFree
<1> USE DEF TypeOK, Late, hostVars, diskVars, historyVars, boundVars, Holds, Registered
<1>1. OwnersAreLive'
  BY DEF OwnersAreLive, RegisteredAreAlive
<1>2. RegisteredAreAlive'
  BY DEF RegisteredAreAlive, OwnersAreLive
<1>3. AliveAreRegistered'
  BY DEF AliveAreRegistered
<1>4. LocksAreHeld'
  BY DEF LocksAreHeld
<1>5. NewAreAlone'
  BY DEF NewAreAlone, AliveAreRegistered
<1>6. ForeignIsWhole'
  BY DEF ForeignIsWhole
<1> QED
  BY <1>1, <1>2, <1>3, <1>4, <1>5, <1>6

LEMMA FailClaims ==
  ASSUME Owned, TypeOK', NEW t \in Tasks, step[t] \in {"locating", "building"}, Fail(t)
  PROVE  Claims'
<1> USE LifecycleAssumption DEF Owned, Claims, Fail, Move, Released
<1> USE DEF TypeOK, Late, hostVars, diskVars, historyVars, boundVars, Holds, Registered
<1>1. OwnersAreLive'
  BY DEF OwnersAreLive, RegisteredAreAlive
<1>2. RegisteredAreAlive'
  BY DEF RegisteredAreAlive, OwnersAreLive
<1>3. AliveAreRegistered'
  <2>1. ~Registered(t) /\ t \notin heard /\ early[t] = {}
    BY DEF AliveAreRegistered, RegisteredAreAlive
  <2>2. /\ step' = [step EXCEPT ![t] = "done"] /\ alive' = alive \ {t}
        /\ UNCHANGED <<heard, early, table, who, under>>
    OBVIOUS
  <2> QED
    BY <2>1, <2>2 DEF AliveAreRegistered
<1>4. LocksAreHeld'
  BY DEF LocksAreHeld
<1>5. NewAreAlone'
  BY DEF NewAreAlone, AliveAreRegistered
<1>6. ForeignIsWhole'
  <2>1. marker' = marker /\ \A s \in Sessions : lock'[s] = lock[s] \/ lock'[s] = Free
    OBVIOUS
  <2> QED
    BY <2>1 DEF Free, Foreign, ForeignIsWhole
<1> QED
  BY <1>1, <1>2, <1>3, <1>4, <1>5, <1>6

LEMMA RegisterClaims ==
  ASSUME Owned, TypeOK', NEW t \in Tasks, Register(t)
  PROVE  Claims'
<1> USE LifecycleAssumption DEF Owned, Claims, Register, Move, LockFree, StillOpen
<1> USE DEF TypeOK, Late, hostVars, diskVars, historyVars, boundVars, Holds, Registered
<1>0. table[who[t]] = NoTask
  BY DEF OwnersAreLive, RegisteredAreAlive
<1>1. OwnersAreLive'
  BY <1>0 DEF OwnersAreLive, RegisteredAreAlive, AliveAreRegistered
<1>2. RegisteredAreAlive'
  BY <1>0 DEF RegisteredAreAlive, OwnersAreLive
<1>3. AliveAreRegistered'
  BY <1>0 DEF AliveAreRegistered
<1>4. LocksAreHeld'
  BY DEF LocksAreHeld, AliveAreRegistered
<1>5. NewAreAlone'
  BY DEF NewAreAlone, AliveAreRegistered
<1>6. ForeignIsWhole'
  BY DEF ForeignIsWhole
<1> QED
  BY <1>1, <1>2, <1>3, <1>4, <1>5, <1>6

LEMMA BindClaims ==
  ASSUME Owned, TypeOK', NEW t \in Tasks, Bound(t) \/ Announced(t)
  PROVE  Claims'
<1> USE LifecycleAssumption DEF Owned, Claims, Bound, Announced, Move, StillOwned, StillOpen
<1> USE DEF TypeOK, Late, hostVars, diskVars, historyVars, boundVars, Holds, Registered
<1>1. OwnersAreLive'
  BY DEF OwnersAreLive, RegisteredAreAlive
<1>2. RegisteredAreAlive'
  BY DEF RegisteredAreAlive, OwnersAreLive
<1>3. AliveAreRegistered'
  <2>1. t \in alive /\ table[who[t]] = t /\ step[t] \in Late
    BY DEF AliveAreRegistered, OwnersAreLive
  <2>2. /\ step' \in {[step EXCEPT ![t] = "announcing"], [step EXCEPT ![t] = "open"]}
        /\ heard' \subseteq heard \cup {t} /\ UNCHANGED <<alive, early, table, who, under>>
    OBVIOUS
  <2> QED
    BY <2>1, <2>2 DEF AliveAreRegistered
<1>4. LocksAreHeld'
  BY DEF LocksAreHeld
<1>5. NewAreAlone'
  BY DEF NewAreAlone, AliveAreRegistered
<1>7. marker' = marker /\ lock' = lock
  OBVIOUS
<1>6. ForeignIsWhole'
  BY <1>7 DEF ForeignIsWhole
<1> QED
  BY <1>1, <1>2, <1>3, <1>4, <1>5, <1>6

LEMMA CleanUpClaims ==
  ASSUME Owned, TypeOK', NEW t \in Tasks, CleanUp(t)
  PROVE  Claims'
<1> USE LifecycleAssumption DEF Owned, Claims, CleanUp, Dispose, Move
<1> USE DEF TypeOK, Late, hostVars, diskVars, historyVars, boundVars, Holds, Registered
<1>1. OwnersAreLive'
  BY DEF OwnersAreLive, RegisteredAreAlive
<1>2. RegisteredAreAlive'
  BY DEF RegisteredAreAlive, OwnersAreLive
<1>3. AliveAreRegistered'
  BY DEF AliveAreRegistered
<1>4. LocksAreHeld'
  BY DEF LocksAreHeld
<1>5. NewAreAlone'
  BY DEF NewAreAlone, AliveAreRegistered
<1>6. ForeignIsWhole'
  <2>1. \A s \in Sessions : marker'[s] = {} \/ marker'[s] = marker[s]
    OBVIOUS
  <2>2. \A s \in Sessions : lock'[s] = lock[s] \/ lock'[s] = Free
    OBVIOUS
  <2> QED
    BY <2>1, <2>2 DEF Free, Foreign, ForeignIsWhole
<1> QED
  BY <1>1, <1>2, <1>3, <1>4, <1>5, <1>6

LEMMA ToolClaims ==
  ASSUME Owned, TypeOK', NEW t \in Tasks,
         Settled(t) \/ \E c \in Calls : ToolStart(t, c) \/ ToolEnd(t, c)
  PROVE  Claims'
<1> USE LifecycleAssumption DEF Owned, Claims, Settled, ToolStart, ToolEnd, WriteMarker
<1> USE DEF TypeOK, Late, taskVars, historyVars, boundVars, Holds, Registered
<1>0. t \in heard /\ t \in alive /\ Registered(t)
  BY DEF AliveAreRegistered
<1>1. OwnersAreLive'
  BY DEF OwnersAreLive
<1>2. RegisteredAreAlive'
  BY DEF RegisteredAreAlive
<1>3. AliveAreRegistered'
  BY DEF AliveAreRegistered
<1>4. LocksAreHeld'
  BY DEF LocksAreHeld
<1>5. NewAreAlone'
  BY <1>0 DEF NewAreAlone, AliveAreRegistered, OwnersAreLive, RegisteredAreAlive
<1>6. ForeignIsWhole'
  <2>1. lock[who[t]] = t /\ lock' = lock
    BY <1>0 DEF OwnersAreLive
  <2>2. \A s \in Sessions \ {who[t]} : marker'[s] = marker[s]
    OBVIOUS
  <2> QED
    BY <2>1, <2>2 DEF ForeignIsWhole
<1> QED
  BY <1>1, <1>2, <1>3, <1>4, <1>5, <1>6

LEMMA UnheardClaims ==
  ASSUME Owned, TypeOK', NEW t \in Tasks, NEW c \in Calls,
         ToolStartUnheard(t, c) \/ ToolEndUnheard(t, c)
  PROVE  Claims'
<1> USE LifecycleAssumption DEF Owned, Claims, ToolStartUnheard, ToolEndUnheard
<1> USE DEF TypeOK, Late, taskVars, diskVars, historyVars, boundVars, Holds, Registered
<1>0. t \in alive /\ Registered(t)
  BY DEF AliveAreRegistered, OwnersAreLive
<1>1. OwnersAreLive' /\ RegisteredAreAlive'
  BY DEF OwnersAreLive, RegisteredAreAlive
<1>3. AliveAreRegistered'
  BY <1>0 DEF AliveAreRegistered
<1>4. LocksAreHeld'
  BY DEF LocksAreHeld
<1>5. NewAreAlone'
  BY <1>0 DEF NewAreAlone, AliveAreRegistered, OwnersAreLive, RegisteredAreAlive
<1>6. ForeignIsWhole'
  BY DEF ForeignIsWhole
<1> QED
  BY <1>1, <1>3, <1>4, <1>5, <1>6

LEMMA ClosingClaims ==
  ASSUME Owned, TypeOK', NEW closing \in SUBSET {t \in Tasks : Registered(t)}, Closing(closing),
         \/ workspace' = workspace
         \/ workspace' = 0 /\ \A t \in Tasks : Registered(t) /\ under[t] = workspace => t \in closing
  PROVE  Claims'
<1> USE LifecycleAssumption DEF Owned, Claims, Closing, Dispose, Unregister
<1> USE DEF TypeOK, Late, historyVars, boundVars, Holds, Registered
<1>1. OwnersAreLive'
  BY DEF OwnersAreLive
<1>2. RegisteredAreAlive'
  BY DEF RegisteredAreAlive, OwnersAreLive
<1>3. AliveAreRegistered'
  <2>1. \A t \in closing : step[t] \in Late
    BY DEF RegisteredAreAlive
  <2>2. \A t \in Tasks : step'[t] = step[t] \/ (t \in closing /\ step'[t] = "done")
    OBVIOUS
  <2>3. \A t \in Tasks \ closing : table'[who[t]] = table[who[t]] \/ table[who[t]] # t
    OBVIOUS
  <2>4. alive' = alive \ closing /\ heard' = heard \ closing /\ who' = who /\ under' = under
    OBVIOUS
  <2>5. \A t \in Tasks : early'[t] = IF t \in closing THEN {} ELSE early[t]
    OBVIOUS
  <2> QED
    BY <2>1, <2>2, <2>3, <2>4, <2>5 DEF AliveAreRegistered
<1>4. LocksAreHeld'
  BY DEF LocksAreHeld
<1>5. NewAreAlone'
  <2>1. \A t \in closing : step[t] \in Late
    BY DEF RegisteredAreAlive
  <2>2. \A t \in Tasks : step'[t] = step[t] \/ (t \in closing /\ step'[t] = "done")
    OBVIOUS
  <2>3. \A t \in Tasks \ closing : lock[who[t]] = t => lock'[who'[t]] = t
    OBVIOUS
  <2>4. who' = who /\ existing' = existing
    OBVIOUS
  <2> QED
    BY <2>1, <2>2, <2>3, <2>4 DEF NewAreAlone
<1>6. ForeignIsWhole'
  <2>1. \A s \in Sessions : marker'[s] = {} \/ marker'[s] = marker[s]
    OBVIOUS
  <2>2. \A s \in Sessions : lock'[s] = lock[s] \/ lock'[s] = Free
    OBVIOUS
  <2> QED
    BY <2>1, <2>2 DEF Free, Foreign, ForeignIsWhole
<1> QED
  BY <1>1, <1>2, <1>3, <1>4, <1>5, <1>6

LEMMA DieClaims ==
  ASSUME Owned, TypeOK', Die PROVE Claims'
<1> USE LifecycleAssumption DEF Owned, Claims, Die
<1> USE DEF TypeOK, Late, Holds, Registered
<1>1. OwnersAreLive' /\ RegisteredAreAlive'
  BY DEF OwnersAreLive, RegisteredAreAlive
<1>3. AliveAreRegistered'
  BY DEF AliveAreRegistered
<1>4. LocksAreHeld'
  BY DEF LocksAreHeld
<1>5. NewAreAlone'
  BY DEF NewAreAlone
<1>6. ForeignIsWhole'
  <2> SUFFICES ASSUME NEW s \in Sessions, lock'[s] = Foreign PROVE Torn \notin marker'[s]
    BY DEF ForeignIsWhole
  <2>1. lock[s] = Foreign
    <3>1. lock'[s] = IF lock[s] \in Tasks THEN Stale ELSE lock[s]
      OBVIOUS
    <3> QED
      BY <3>1 DEF Stale, Foreign
  <2>2. table[s] = NoTask
    BY <2>1 DEF OwnersAreLive
  <2>3. marker'[s] = marker[s]
    BY <2>2
  <2> QED
    BY <2>1, <2>3 DEF ForeignIsWhole
<1> QED
  BY <1>1, <1>3, <1>4, <1>5, <1>6

LEMMA ForeignClaims ==
  ASSUME Owned, TypeOK', NEW s \in Sessions, Attach(s) \/ ForeignStep(s) \/ OpenWorkspace
  PROVE  Claims'
<1> USE LifecycleAssumption
<1> USE DEF Owned, Claims, ForeignStep, ForeignOpen, ForeignTool, ForeignClose, ForeignDeath
<1> USE DEF Attach, OpenWorkspace, LockFree
<1> USE DEF TypeOK, Late, taskVars, hostVars, diskVars, historyVars, boundVars, Holds, Registered
<1>1. OwnersAreLive'
  BY DEF OwnersAreLive, RegisteredAreAlive, AliveAreRegistered
<1>2. RegisteredAreAlive'
  BY DEF RegisteredAreAlive, OwnersAreLive
<1>3. AliveAreRegistered'
  BY DEF AliveAreRegistered, OwnersAreLive
<1>4. LocksAreHeld'
  BY DEF LocksAreHeld
<1>5. NewAreAlone'
  BY DEF NewAreAlone, AliveAreRegistered
<1>6. ForeignIsWhole'
  BY DEF ForeignIsWhole
<1> QED
  BY <1>1, <1>2, <1>3, <1>4, <1>5, <1>6

LEMMA OwnedStep == ASSUME Owned, [Next]_vars PROVE Owned'
<1>1. CASE UNCHANGED vars
  BY <1>1 DEF vars, taskVars, hostVars, diskVars, historyVars, boundVars, Owned, TypeOK, Counted,
     Building, ForeignIsWhole, OwnersAreLive, RegisteredAreAlive, AliveAreRegistered, LocksAreHeld,
     NewAreAlone, Holds, Registered
<1>2. CASE Next
  <2>1. TypeOK' /\ Counted'
    BY <1>2, TypesStep DEF Owned
  <2>2. ASSUME NEW t \in Tasks, TaskStep(t) PROVE Claims'
    BY <2>1, <2>2, StartClaims, LocateClaims, FailClaims, RegisterClaims, BindClaims, CleanUpClaims,
       ToolClaims, UnheardClaims DEF TaskStep, Refuse, GiveUp
  <2>3. ASSUME NEW s \in Sessions, CloseSession(s) PROVE Claims'
    <3>1. table[s] \in {t \in Tasks : Registered(t)}
      BY <2>3 DEF CloseSession, Owned, OwnersAreLive, TypeOK, Registered
    <3> QED
      BY <2>1, <2>3, <3>1, ClosingClaims DEF CloseSession
  <2>4. ASSUME CloseWorkspace PROVE Claims'
    <3> DEFINE closing == {t \in Tasks : Registered(t) /\ under[t] = workspace}
    <3>1. closing \in SUBSET {t \in Tasks : Registered(t)} /\ Closing(closing) /\ workspace' = 0
      BY <2>4 DEF CloseWorkspace
    <3>2. \A t \in Tasks : Registered(t) /\ under[t] = workspace => t \in closing
      OBVIOUS
    <3> HIDE DEF closing
    <3> QED
      BY <1>2, <2>1, <3>1, <3>2, ClosingClaims
  <2>5. ASSUME Shutdown PROVE Claims'
    <3> DEFINE closing == {t \in Tasks : Registered(t)}
    <3>1. closing \in SUBSET {t \in Tasks : Registered(t)} /\ Closing(closing) /\ workspace' = workspace
      BY <2>5 DEF Shutdown
    <3> HIDE DEF closing
    <3> QED
      BY <2>1, <3>1, ClosingClaims
  <2>6. ASSUME NEW s \in Sessions, Attach(s) \/ ForeignStep(s) PROVE Claims'
    BY <2>1, <2>6, ForeignClaims
  <2>7. ASSUME OpenWorkspace PROVE Claims'
    <3>1. PICK s \in Sessions : TRUE
      BY LifecycleAssumption
    <3> QED
      BY <2>1, <2>7, <3>1, ForeignClaims
  <2>8. ASSUME Die PROVE Claims'
    BY <2>1, <2>8, DieClaims
  <2>9. Claims'
    BY <1>2, <2>2, <2>3, <2>4, <2>5, <2>6, <2>7, <2>8 DEF Next
  <2> QED
    BY <2>1, <2>9 DEF Owned, Claims
<1> QED
  BY <1>1, <1>2

-----------------------------------------------------------------------------
(* Evidence. *)

\* What ownership says of who may run calls and who may have a marker.
LEMMA OwnersFacts ==
  ASSUME Owned, Witnessed
  PROVE  /\ \A t \in Tasks : t \in heard \/ calls[t] # {} =>
              /\ lock[who[t]] = t /\ Registered(t) /\ t \in alive /\ step[t] \in Late
              /\ marker[who[t]] \subseteq calls[t]
         /\ \A t \in Tasks : lock[who[t]] # t => calls[t] = {}
         /\ \A t \in Tasks : step[t] \notin Late => calls[t] = {}
         /\ \A t \in Tasks : ~Registered(t) => early[t] = {}
<1> USE DEF Owned, Witnessed, TypeOK
<1>1. ASSUME NEW t \in Tasks, t \in heard \/ calls[t] # {}
      PROVE  /\ lock[who[t]] = t /\ Registered(t) /\ t \in alive /\ step[t] \in Late
             /\ marker[who[t]] \subseteq calls[t]
  <2>1. t \in heard
    BY <1>1 DEF CallsAreHeard
  <2>2. t \in alive /\ Registered(t)
    BY <2>1 DEF AliveAreRegistered
  <2>3. lock[who[t]] = t /\ step[t] \in Late
    BY <2>2, LifecycleAssumption DEF OwnersAreLive, RegisteredAreAlive, Registered
  <2> QED
    BY <2>2, <2>3 DEF MarkerOfHolder
<1>2. \A t \in Tasks : ~Registered(t) => early[t] = {}
  BY DEF AliveAreRegistered
<1> QED
  BY <1>1, <1>2

\* A session that runs tools writes what runs into its marker; nobody else runs any there.
LEMMA ToolEffects ==
  ASSUME Owned, Witnessed, NEW t \in Tasks,
         Settled(t) \/ \E c \in Calls : ToolStart(t, c) \/ ToolEnd(t, c)
  PROVE  \E running \in SUBSET Calls :
           /\ marker' = [marker EXCEPT ![who[t]] = running]
           /\ calls' = [calls EXCEPT ![t] = running]
           /\ running # {} => who[t] \in existing'
           /\ existing \subseteq existing' /\ lock[who[t]] = t
           /\ \A u \in Tasks \ {t} : who[u] = who[t] => calls[u] = {}
           /\ UNCHANGED <<who, carried, lost, unreported, lock>>
<1>0. calls[t] \subseteq Calls
  BY DEF Owned, TypeOK
<1>1. PICK running \in SUBSET Calls :
        WriteMarker(t, running) /\ t \in heard /\ existing \subseteq existing'
          /\ (running # {} => who[t] \in existing')
  <2>1. ASSUME NEW c \in Calls, ToolStart(t, c)
        PROVE  WriteMarker(t, calls[t] \cup {c}) /\ t \in heard /\ existing \subseteq existing' /\ who[t] \in existing'
    BY <2>1 DEF ToolStart, Owned, TypeOK
  <2>2. ASSUME NEW c \in Calls, ToolEnd(t, c)
        PROVE  WriteMarker(t, calls[t] \ {c}) /\ t \in heard /\ existing \subseteq existing' /\ who[t] \in existing'
    <3>1. c \in calls[t] /\ existing' = existing /\ t \in heard /\ WriteMarker(t, calls[t] \ {c})
      BY <2>2 DEF ToolEnd
    <3> QED
      BY <3>1 DEF Witnessed, CallsAreHeard
  <2>3. ASSUME Settled(t)
        PROVE  WriteMarker(t, {}) /\ t \in heard /\ existing \subseteq existing'
    BY <2>3 DEF Settled
  <2>4. CASE Settled(t)
    BY <2>3, <2>4
  <2>5. CASE \E c \in Calls : ToolStart(t, c)
    <3>1. PICK c \in Calls : ToolStart(t, c)
      BY <2>5
    <3>2. calls[t] \cup {c} \in SUBSET Calls
      BY <1>0
    <3> QED
      BY <2>1, <3>1, <3>2
  <2>6. CASE \E c \in Calls : ToolEnd(t, c)
    <3>1. PICK c \in Calls : ToolEnd(t, c)
      BY <2>6
    <3>2. calls[t] \ {c} \in SUBSET Calls
      BY <1>0
    <3> QED
      BY <2>2, <3>1, <3>2
  <2> QED
    BY <2>4, <2>5, <2>6
<1>2. lock[who[t]] = t /\ \A u \in Tasks \ {t} : who[u] = who[t] => calls[u] = {}
  BY <1>1, OwnersFacts
<1> QED
  BY <1>1, <1>2 DEF WriteMarker, taskVars, historyVars

\* Sessions that close take their markers and their locks with them.
LEMMA ClosingEffects ==
  ASSUME Owned, Witnessed, NEW closing \in SUBSET {t \in Tasks : Registered(t)}, Closing(closing)
  PROVE  /\ \A t \in closing : lock[who[t]] = t /\ marker[who[t]] \subseteq calls[t]
         /\ \A u \in Tasks : calls'[u] = IF u \in closing THEN {} ELSE calls[u]
         /\ \A s \in Sessions : \/ marker'[s] = marker[s]
                                \/ marker'[s] = {} /\ \E t \in closing : who[t] = s
         /\ \A s \in Sessions : (\E t \in closing : who[t] = s) => marker'[s] = {}
         /\ UNCHANGED <<who, carried, lost, unreported, existing>>
         /\ \A s \in Sessions : lock'[s] = IF lock[s] \in closing THEN Free ELSE lock[s]
<1>1. \A t \in closing : lock[who[t]] = t /\ marker[who[t]] \subseteq calls[t]
  BY LifecycleAssumption DEF Owned, Witnessed, OwnersAreLive, MarkerOfHolder, Registered, TypeOK
<1>2. marker' = [s \in Sessions |-> IF \E t \in closing : who[t] = s THEN {} ELSE marker[s]]
  BY DEF Closing, Dispose
<1> QED
  BY <1>1, <1>2 DEF Closing, Dispose, historyVars

LEMMA StartKeeps ==
  ASSUME Owned, Owned', Witnessed, NEW t \in Tasks, NEW s \in Sessions, OpenSession(t, s) \/ CreateSession(t, s)
  PROVE  Witnessed'
<1> USE OwnersFacts, LifecycleAssumption DEF Owned, Witnessed, TypeOK, Late
<1> USE DEF OpenSession, CreateSession, Start, Move, hostVars, diskVars, historyVars, boundVars
<1>1. MarkerIsCarried'
  BY DEF MarkerIsCarried, Free, Stale, Foreign, Named, Holds
<1>2. CallsAreHeard'
  BY DEF CallsAreHeard, AliveAreRegistered, Free, Stale, Foreign, Named, Holds
<1>3. RunningIsMarked'
  BY DEF RunningIsMarked, CallsAreHeard, NoFalseAlarm, Free, Stale, Foreign, Named, Holds
<1>4. MarkerOfHolder'
  BY DEF MarkerOfHolder, NewAreAlone, CallsAreHeard, ForeignIsWhole, Free, Stale, Foreign, Named, Holds
<1>5. ReadOnce'
  BY DEF ReadOnce, MarkerIsCarried, CallsAreHeard, NoFalseAlarm, Free, Stale, Foreign, Named, Holds
<1>6. TornIsLast'
  <2>1. \A u \in Tasks \ {t} : step'[u] = step[u] /\ who'[u] = who[u]
    OBVIOUS
  <2>2. carried[t] = {} /\ carried' = carried /\ marker' = marker /\ lock' = lock
    BY DEF MarkerIsCarried
  <2>3. \/ step'[t] = "locating"
        \/ s \notin existing /\ \A u \in Tasks : step[u] = "none" \/ who[u] # s
    OBVIOUS
  <2>4. who'[t] = s
    OBVIOUS
  <2>5. s \notin existing => marker[s] = {}
    BY DEF MarkerOfHolder
  <2>6. \A u \in Tasks : Torn \in carried[u] => u # t /\ step[u] # "none"
    BY <2>2 DEF MarkerIsCarried
  <2> QED
    BY <2>1, <2>2, <2>3, <2>4, <2>5, <2>6 DEF TornIsLast, Holds
<1>7. TornStandsForSome'
  BY SMTT(60) DEF TornStandsForSome, MarkerIsCarried, CallsAreHeard, MarkerOfHolder, Free, Stale, Foreign, Named, Holds
<1>8. DeadAreSeen'
  <2> SUFFICES ASSUME NEW r \in Sessions, NEW c \in unreported'[r]
               PROVE  \/ c \in Named(marker'[r]) \/ c \in lost'[r]
                      \/ \E u \in Tasks : who'[u] = r /\ c \in Named(carried'[u])
    BY DEF DeadAreSeen, Named

  <2>1. carried[t] = {} /\ UNCHANGED <<carried, marker, lost, unreported>>
    BY DEF MarkerIsCarried
  <2>2. \A u \in Tasks \ {t} : who'[u] = who[u]
    OBVIOUS
  <2>3. Named(carried[t]) = {}
    BY <2>1 DEF Named

  <2>9. c \in Named(marker[r]) \/ c \in lost[r] \/ \E u \in Tasks : who[u] = r /\ c \in Named(carried[u])
    BY <2>1 DEF DeadAreSeen

  <2>4. \A u \in Tasks : c \in Named(carried[u]) => u # t
    BY <2>3
  <2>5. Named(marker'[r]) = Named(marker[r]) /\ \A u \in Tasks : Named(carried'[u]) = Named(carried[u])
    BY <2>1 DEF Named
  <2> QED
    BY <2>1, <2>2, <2>4, <2>5, <2>9
<1>9. NoFalseAlarm'
  BY DEF NoFalseAlarm, MarkerIsCarried, TornStandsForSome, ReadOnce, Free, Stale, Foreign, Named, Holds
<1> QED
  BY <1>1, <1>2, <1>3, <1>4, <1>5, <1>6, <1>7, <1>8, <1>9

LEMMA LocateKeeps ==
  ASSUME Owned, Owned', Witnessed, NEW t \in Tasks, Locate(t)
  PROVE  Witnessed'
<1> USE OwnersFacts, LifecycleAssumption DEF Owned, Witnessed, TypeOK, Late
<1> USE DEF Locate, Move, LockFree, historyVars
<1>1. MarkerIsCarried'
  BY DEF MarkerIsCarried, Free, Stale, Foreign, Named, Holds
<1>2. CallsAreHeard'
  BY DEF CallsAreHeard, AliveAreRegistered, Free, Stale, Foreign, Named, Holds
<1>3. RunningIsMarked'
  BY DEF RunningIsMarked, CallsAreHeard, NoFalseAlarm, Free, Stale, Foreign, Named, Holds
<1>4. MarkerOfHolder'
  BY DEF MarkerOfHolder, NewAreAlone, CallsAreHeard, ForeignIsWhole, Free, Stale, Foreign, Named, Holds
<1>5. ReadOnce'
  BY DEF ReadOnce, MarkerIsCarried, CallsAreHeard, NoFalseAlarm, Free, Stale, Foreign, Named, Holds
<1>6. TornIsLast'
  BY DEF TornIsLast, MarkerIsCarried, Free, Stale, Foreign, Named, Holds
<1>7. TornStandsForSome'
  <2> SUFFICES ASSUME NEW v \in Tasks, Torn \in carried'[v]
               PROVE  \E c \in unreported[who[v]] :
                        /\ c \notin marker'[who[v]]
                        /\ \A u \in Tasks \ {v} : who[u] = who[v] => c \notin carried'[u]
    BY DEF TornStandsForSome
  <2>1. /\ carried'[t] = marker[who[t]] /\ marker'[who[t]] = {}
        /\ \A u \in Tasks \ {t} : carried'[u] = carried[u]
        /\ \A s \in Sessions \ {who[t]} : marker'[s] = marker[s]
    OBVIOUS
  <2>2. CASE v = t
    <3>1. PICK c \in unreported[who[t]] : TRUE
      BY <2>1, <2>2 DEF MarkerOfHolder, Free, Stale
    <3>2. \A u \in Tasks \ {t} : who[u] = who[t] => carried[u] = {}
      BY <2>1, <2>2 DEF TornIsLast, MarkerIsCarried
    <3> QED
      BY <2>1, <2>2, <3>1, <3>2
  <2>3. CASE v # t
    BY <2>1, <2>3 DEF TornStandsForSome
  <2> QED
    BY <2>2, <2>3
<1>8. DeadAreSeen'
  <2> SUFFICES ASSUME NEW r \in Sessions, NEW c \in unreported'[r]
               PROVE  \/ c \in Named(marker'[r]) \/ c \in lost'[r]
                      \/ \E u \in Tasks : who'[u] = r /\ c \in Named(carried'[u])
    BY DEF DeadAreSeen, Named

  <2>1. /\ carried'[t] = marker[who[t]] /\ carried[t] = {}
        /\ \A u \in Tasks \ {t} : carried'[u] = carried[u]
        /\ \A s \in Sessions \ {who[t]} : marker'[s] = marker[s]
        /\ UNCHANGED <<who, unreported, lost>>
    BY DEF MarkerIsCarried

  <2>9. c \in Named(marker[r]) \/ c \in lost[r] \/ \E u \in Tasks : who[u] = r /\ c \in Named(carried[u])
    BY <2>1 DEF DeadAreSeen

  <2>2. CASE c \in Named(marker[r])
    <3>1. r = who[t] => c \in Named(carried'[t]) /\ who'[t] = r
      BY <2>1, <2>2
    <3>2. r # who[t] => c \in Named(marker'[r])
      BY <2>1, <2>2
    <3> QED
      BY <3>1, <3>2
  <2>3. CASE \E u \in Tasks : who[u] = r /\ c \in Named(carried[u])
    <3>1. PICK u \in Tasks : who[u] = r /\ c \in Named(carried[u])
      BY <2>3
    <3>2. u # t
      BY <2>1, <3>1 DEF Named
    <3> QED
      BY <2>1, <3>1, <3>2
  <2> QED
    BY <2>1, <2>2, <2>3, <2>9
<1>9. NoFalseAlarm'
  BY DEF NoFalseAlarm, MarkerOfHolder, Free, Stale
<1> QED
  BY <1>1, <1>2, <1>3, <1>4, <1>5, <1>6, <1>7, <1>8, <1>9

LEMMA FailKeeps ==
  ASSUME Owned, Owned', Witnessed, NEW t \in Tasks, step[t] \in {"locating", "building"}, Fail(t)
  PROVE  Witnessed'
<1> USE OwnersFacts, LifecycleAssumption DEF Owned, Witnessed, TypeOK, Late
<1> USE DEF Fail, Move, Released, Holds
<1>1. MarkerIsCarried'
  BY DEF MarkerIsCarried, Free, Stale, Foreign, Named, Holds
<1>2. CallsAreHeard'
  BY DEF CallsAreHeard, AliveAreRegistered, Free, Stale, Foreign, Named, Holds
<1>3. RunningIsMarked'
  BY DEF RunningIsMarked, CallsAreHeard, NoFalseAlarm, Free, Stale, Foreign, Named, Holds
<1>4. MarkerOfHolder'
  BY SMTT(60) DEF MarkerOfHolder, NewAreAlone, CallsAreHeard, ForeignIsWhole, Free, Stale, Foreign, Named, Holds
<1>5. ReadOnce'
  BY DEF ReadOnce, MarkerIsCarried, CallsAreHeard, NoFalseAlarm, Free, Stale, Foreign, Named, Holds
<1>6. TornIsLast'
  BY DEF TornIsLast, MarkerIsCarried, Free, Stale, Foreign, Named, Holds
<1>7. TornStandsForSome'
  BY DEF TornStandsForSome, MarkerIsCarried, CallsAreHeard, MarkerOfHolder, Free, Stale, Foreign, Named, Holds
<1>8. DeadAreSeen'
  BY DEF DeadAreSeen, CallsAreHeard, RunningIsMarked, Free, Stale, Foreign, Named, Holds
<1>9. NoFalseAlarm'
  BY DEF NoFalseAlarm, MarkerIsCarried, TornStandsForSome, ReadOnce, Free, Stale, Foreign, Named, Holds
<1> QED
  BY <1>1, <1>2, <1>3, <1>4, <1>5, <1>6, <1>7, <1>8, <1>9

LEMMA RegisterKeeps ==
  ASSUME Owned, Owned', Witnessed, NEW t \in Tasks, Register(t)
  PROVE  Witnessed'
<1> USE OwnersFacts, LifecycleAssumption DEF Owned, Witnessed, TypeOK, Late
<1> USE DEF Register, Move, LockFree, Holds, historyVars
<1>1. MarkerIsCarried'
  BY DEF MarkerIsCarried, Free, Stale, Foreign, Named, Holds
<1>2. CallsAreHeard'
  BY DEF CallsAreHeard, AliveAreRegistered, Free, Stale, Foreign, Named, Holds
<1>3. RunningIsMarked'
  BY DEF RunningIsMarked, CallsAreHeard, NoFalseAlarm, Free, Stale, Foreign, Named, Holds
<1>4. MarkerOfHolder'
  BY DEF MarkerOfHolder, NewAreAlone, CallsAreHeard, ForeignIsWhole, Free, Stale, Foreign, Named, Holds
<1>5. ReadOnce'
  BY DEF ReadOnce, MarkerIsCarried, CallsAreHeard, NoFalseAlarm, Free, Stale, Foreign, Named, Holds
<1>6. TornIsLast'
  <2>1. Torn \notin marker[who[t]]
    BY DEF TornIsLast
  <2>2. ~Holds(t) => \A u \in Tasks \ {t} : who[u] = who[t] => step[u] = "none"
    BY DEF NewAreAlone
  <2>3. /\ lock'[who[t]] = t /\ \A s \in Sessions \ {who[t]} : lock'[s] = lock[s]
        /\ \A u \in Tasks \ {t} : step'[u] = step[u]
        /\ UNCHANGED <<marker, carried, who>>
    OBVIOUS
  <2> QED
    BY <2>1, <2>2, <2>3 DEF TornIsLast, Holds
<1>7. TornStandsForSome'
  BY DEF TornStandsForSome, MarkerIsCarried, CallsAreHeard, MarkerOfHolder, Free, Stale, Foreign, Named, Holds
<1>8. DeadAreSeen'
  BY DEF DeadAreSeen, CallsAreHeard, RunningIsMarked, Free, Stale, Foreign, Named, Holds
<1>9. NoFalseAlarm'
  BY DEF NoFalseAlarm, MarkerIsCarried, TornStandsForSome, ReadOnce, Free, Stale, Foreign, Named, Holds
<1> QED
  BY <1>1, <1>2, <1>3, <1>4, <1>5, <1>6, <1>7, <1>8, <1>9

LEMMA BoundKeeps ==
  ASSUME Owned, Owned', Witnessed, NEW t \in Tasks, Bound(t)
  PROVE  Witnessed'
<1> USE OwnersFacts, LifecycleAssumption DEF Owned, Witnessed, TypeOK, Late
<1> USE DEF Bound, Move, hostVars, diskVars, historyVars
<1>1. MarkerIsCarried'
  BY DEF MarkerIsCarried, Free, Stale, Foreign, Named, Holds
<1>2. CallsAreHeard'
  BY DEF CallsAreHeard, AliveAreRegistered, Free, Stale, Foreign, Named, Holds
<1>3. RunningIsMarked'
  BY DEF RunningIsMarked, CallsAreHeard, NoFalseAlarm, Free, Stale, Foreign, Named, Holds
<1>4. MarkerOfHolder'
  BY DEF MarkerOfHolder, NewAreAlone, CallsAreHeard, ForeignIsWhole, Free, Stale, Foreign, Named, Holds
<1>5. ReadOnce'
  BY DEF ReadOnce, MarkerIsCarried, CallsAreHeard, NoFalseAlarm, Free, Stale, Foreign, Named, Holds
<1>6. TornIsLast'
  BY DEF TornIsLast, MarkerIsCarried, Free, Stale, Foreign, Named, Holds
<1>7. TornStandsForSome'
  BY DEF TornStandsForSome, MarkerIsCarried, CallsAreHeard, MarkerOfHolder, Free, Stale, Foreign, Named, Holds
<1>8. DeadAreSeen'
  BY DEF DeadAreSeen, CallsAreHeard, RunningIsMarked, Free, Stale, Foreign, Named, Holds
<1>9. NoFalseAlarm'
  BY DEF NoFalseAlarm, MarkerIsCarried, TornStandsForSome, ReadOnce, Free, Stale, Foreign, Named, Holds
<1> QED
  BY <1>1, <1>2, <1>3, <1>4, <1>5, <1>6, <1>7, <1>8, <1>9

LEMMA AnnouncedKeeps ==
  ASSUME Owned, Owned', Witnessed, NEW t \in Tasks, Announced(t)
  PROVE  Witnessed'
<1> USE OwnersFacts, LifecycleAssumption DEF Owned, Witnessed, TypeOK, Late
<1> USE DEF Announced, Move, StillOwned, Registered, diskVars
<1>1. MarkerIsCarried'
  BY DEF MarkerIsCarried, Free, Stale, Foreign, Named, Holds
<1>2. CallsAreHeard'
  BY DEF CallsAreHeard, AliveAreRegistered, Free, Stale, Foreign, Named, Holds
<1>3. RunningIsMarked'
  BY DEF RunningIsMarked, CallsAreHeard, NoFalseAlarm, Free, Stale, Foreign, Named, Holds
<1>4. MarkerOfHolder'
  <2>1. lock[who[t]] = t
    BY DEF OwnersAreLive
  <2>2. \A s \in Sessions : unreported'[s] = unreported[s] \/ (s = who[t] /\ unreported'[s] \subseteq unreported[s])
    OBVIOUS
  <2>3. UNCHANGED <<marker, lock, existing, calls>>
    BY DEF hostVars
  <2> QED
    BY <2>1, <2>2, <2>3, LifecycleAssumption DEF MarkerOfHolder
<1>5. ReadOnce'
  BY DEF ReadOnce, MarkerIsCarried, CallsAreHeard, NoFalseAlarm, Free, Stale, Foreign, Named, Holds
<1>6. TornIsLast'
  BY DEF TornIsLast, MarkerIsCarried, Free, Stale, Foreign, Named, Holds
<1>7. TornStandsForSome'
  <2>1. lock[who[t]] = t
    BY DEF OwnersAreLive
  <2>2. /\ carried'[t] = {} /\ \A u \in Tasks \ {t} : carried'[u] = carried[u]
        /\ unreported'[who[t]] = unreported[who[t]] \ Named(carried[t])
        /\ \A s \in Sessions \ {who[t]} : unreported'[s] = unreported[s]
        /\ UNCHANGED <<who, marker>>
    OBVIOUS
  <2>3. \A u \in Tasks \ {t} : who[u] = who[t] /\ carried[u] # {} => Named(carried[t]) = carried[t]
    BY <2>1 DEF TornIsLast, MarkerIsCarried, Holds, Named

  <2> SUFFICES ASSUME NEW v \in Tasks, v # t, Torn \in carried[v]
               PROVE  \E c \in unreported'[who[v]] :
                        /\ c \notin marker[who[v]]
                        /\ \A u \in Tasks \ {v} : who[u] = who[v] => c \notin carried'[u]
    BY <2>2 DEF TornStandsForSome
  <2>4. PICK c \in unreported[who[v]] :
           /\ c \notin marker[who[v]]
           /\ \A u \in Tasks \ {v} : who[u] = who[v] => c \notin carried[u]
    BY DEF TornStandsForSome
  <2>5. c \in unreported'[who[v]]
    BY <2>2, <2>3, <2>4
  <2> QED
    BY <2>2, <2>4, <2>5
<1>8. DeadAreSeen'
  BY DEF DeadAreSeen, CallsAreHeard, RunningIsMarked, Free, Stale, Foreign, Named, Holds
<1>9. NoFalseAlarm'
  <2>1. lock[who[t]] = t
    BY DEF OwnersAreLive
  <2>2. /\ carried'[t] = {} /\ \A u \in Tasks \ {t} : carried'[u] = carried[u]
        /\ unreported'[who[t]] = unreported[who[t]] \ Named(carried[t])
        /\ \A s \in Sessions \ {who[t]} : unreported'[s] = unreported[s]
        /\ UNCHANGED <<who, marker>>
    OBVIOUS
  <2>3. \A u \in Tasks \ {t} : who[u] = who[t] /\ carried[u] # {} => Named(carried[t]) = carried[t]
    BY <2>1 DEF TornIsLast, MarkerIsCarried, Holds, Named

  <2> SUFFICES ASSUME NEW v \in Tasks, v # t, carried[v] # {}
               PROVE  unreported'[who[v]] # {} /\ carried[v] \ {Torn} \subseteq unreported'[who[v]]
    BY <2>2 DEF NoFalseAlarm
  <2>4. carried[v] \ {Torn} \subseteq unreported'[who[v]]
    <3>1. carried[v] \ {Torn} \subseteq unreported[who[v]]
      BY DEF NoFalseAlarm
    <3>2. who[v] = who[t] => carried[v] \cap Named(carried[t]) = {}
      BY <2>3 DEF ReadOnce
    <3> QED
      BY <2>2, <3>1, <3>2
  <2>5. unreported'[who[v]] # {}
    <3>1. CASE Torn \in carried[v]
      <4>1. PICK c \in unreported[who[v]] : \A u \in Tasks \ {v} : who[u] = who[v] => c \notin carried[u]
        BY <3>1 DEF TornStandsForSome
      <4> QED
        BY <2>2, <2>3, <4>1
    <3>2. CASE Torn \notin carried[v]
      BY <2>4, <3>2
    <3> QED
      BY <3>1, <3>2
  <2> QED
    BY <2>4, <2>5
<1> QED
  BY <1>1, <1>2, <1>3, <1>4, <1>5, <1>6, <1>7, <1>8, <1>9

LEMMA CleanUpKeeps ==
  ASSUME Owned, Owned', Witnessed, NEW t \in Tasks, CleanUp(t)
  PROVE  Witnessed'
<1> USE OwnersFacts, LifecycleAssumption DEF Owned, Witnessed, TypeOK, Late
<1> USE DEF CleanUp, Move, Dispose
<1>1. MarkerIsCarried'
  BY DEF MarkerIsCarried, Free, Stale, Foreign, Named, Holds
<1>2. CallsAreHeard'
  BY DEF CallsAreHeard, AliveAreRegistered, Free, Stale, Foreign, Named, Holds
<1>3. RunningIsMarked'
  <2>1. /\ marker'[who[t]] = {} /\ carried'[t] = {} /\ calls'[t] = {}
        /\ \A s \in Sessions \ {who[t]} : marker'[s] = marker[s] /\ lost'[s] = lost[s]
        /\ \A u \in Tasks \ {t} : carried'[u] = carried[u] /\ calls'[u] = calls[u]
        /\ UNCHANGED <<who, unreported, existing>>
    OBVIOUS
  <2>2. /\ lost[who[t]] \subseteq lost'[who[t]]
        /\ unreported[who[t]] \cap Named(carried[t]) \subseteq lost'[who[t]]
        /\ ~Registered(t) => DroppedWith(who[t]) \subseteq lost'[who[t]]
    OBVIOUS
  <2>0. SUFFICES ASSUME NEW u \in Tasks, NEW c \in calls'[u]
                 PROVE  c \in marker'[who'[u]] \/ (c \in lost'[who'[u]] /\ c \notin Named(carried'[u]))
    BY DEF RunningIsMarked
  <2>c. u # t /\ c \in calls[u] /\ carried'[u] = carried[u] /\ who' = who
    BY <2>0, <2>1
  <2>3. c \in marker[who[u]] \/ (c \in lost[who[u]] /\ c \notin Named(carried[u]))
    BY <2>c DEF RunningIsMarked
  <2>4. CASE who[u] # who[t] \/ c \notin marker[who[u]]
    BY <2>1, <2>2, <2>3, <2>4, <2>c
  <2>5. CASE who[u] = who[t] /\ c \in marker[who[u]]
    <3>1. lock[who[u]] = u /\ Registered(u) /\ u \in alive
      BY <2>c, OwnersFacts
    <3>2. ~Registered(t)
      BY <2>5, <2>c, <3>1 DEF Registered
    <3>3. c \in Named(marker[who[t]]) /\ c \in Running(who[t])
      BY <2>5, <2>c, <3>1 DEF Named, Running
    <3>4. c \in lost'[who[u]]
      BY <2>2, <2>5, <3>2, <3>3 DEF DroppedWith
    <3>5. Torn \notin carried[u]
      BY <2>5, <2>c, <3>1 DEF TornIsLast, Holds, CleanUp
    <3>6. c \notin carried[u]
      BY <2>c DEF NoFalseAlarm, CallsAreHeard
    <3> QED
      BY <2>c, <3>4, <3>5, <3>6 DEF Named
  <2> QED
    BY <2>4, <2>5
<1>4. MarkerOfHolder'
  <2>1. /\ marker'[who[t]] = {} /\ carried'[t] = {} /\ calls'[t] = {}
        /\ \A s \in Sessions \ {who[t]} : marker'[s] = marker[s] /\ lost'[s] = lost[s]
        /\ \A u \in Tasks \ {t} : carried'[u] = carried[u] /\ calls'[u] = calls[u]
        /\ UNCHANGED <<who, unreported, existing>>
    OBVIOUS
  <2>2. /\ lost[who[t]] \subseteq lost'[who[t]]
        /\ unreported[who[t]] \cap Named(carried[t]) \subseteq lost'[who[t]]
        /\ ~Registered(t) => DroppedWith(who[t]) \subseteq lost'[who[t]]
    OBVIOUS

  <2>3. \A s \in Sessions : lock'[s] = lock[s] \/ (lock'[s] = Free /\ lock[s] = t)
    OBVIOUS
  <2>4. \A s \in Sessions : lock[s] = t => s = who[t]
    BY DEF LocksAreHeld
  <2>5. \A s \in Sessions : lock'[s] = Foreign => lock[s] = Foreign
    BY <2>3 DEF Free, Foreign
  <2> QED
    BY <2>1, <2>3, <2>4, <2>5 DEF MarkerOfHolder
<1>5. ReadOnce'
  BY DEF ReadOnce, MarkerIsCarried, CallsAreHeard, NoFalseAlarm, Free, Stale, Foreign, Named, Holds
<1>6. TornIsLast'
  BY DEF TornIsLast, MarkerIsCarried, Free, Stale, Foreign, Named, Holds
<1>7. TornStandsForSome'
  BY DEF TornStandsForSome, MarkerIsCarried, CallsAreHeard, MarkerOfHolder, Free, Stale, Foreign, Named, Holds
<1>8. DeadAreSeen'
  <2> SUFFICES ASSUME NEW r \in Sessions, NEW c \in unreported'[r]
               PROVE  \/ c \in Named(marker'[r]) \/ c \in lost'[r]
                      \/ \E u \in Tasks : who'[u] = r /\ c \in Named(carried'[u])
    BY DEF DeadAreSeen, Named

  <2>1. /\ marker'[who[t]] = {} /\ carried'[t] = {} /\ calls'[t] = {}
        /\ \A s \in Sessions \ {who[t]} : marker'[s] = marker[s] /\ lost'[s] = lost[s]
        /\ \A u \in Tasks \ {t} : carried'[u] = carried[u] /\ calls'[u] = calls[u]
        /\ UNCHANGED <<who, unreported, existing>>
    OBVIOUS
  <2>2. /\ lost[who[t]] \subseteq lost'[who[t]]
        /\ unreported[who[t]] \cap Named(carried[t]) \subseteq lost'[who[t]]
        /\ ~Registered(t) => DroppedWith(who[t]) \subseteq lost'[who[t]]
    OBVIOUS

  <2>3. c \in Named(marker[r]) \/ c \in lost[r] \/ \E u \in Tasks : who[u] = r /\ c \in Named(carried[u])
    BY <2>1 DEF DeadAreSeen
  <2>4. CASE r # who[t]
    <3>1. \A u \in Tasks : who[u] = r => carried'[u] = carried[u]
      BY <2>1, <2>4
    <3> QED
      BY <2>1, <2>3, <2>4, <3>1
  <2>5. CASE r = who[t] /\ c \in Named(marker[r])
    <3>1. CASE Registered(t)
      <4>1. lock[who[t]] = t
        BY <3>1 DEF OwnersAreLive, Registered
      <4>2. marker[r] \subseteq calls[t] /\ calls[t] \cap unreported[r] = {}
        BY <2>5, <4>1 DEF MarkerOfHolder, CallsAreHeard
      <4>3. Named(marker[r]) = marker[r]
        BY <4>2, LifecycleAssumption DEF Named
      <4> QED
        BY <2>1, <2>5, <4>2, <4>3
    <3>2. CASE ~Registered(t)
      BY <2>1, <2>2, <2>5, <3>2 DEF DroppedWith
    <3> QED
      BY <3>1, <3>2
  <2>6. CASE r = who[t] /\ \E u \in Tasks : who[u] = r /\ c \in Named(carried[u])
    BY <2>1, <2>2, <2>6
  <2> QED
    BY <2>2, <2>3, <2>4, <2>5, <2>6
<1>9. NoFalseAlarm'
  BY SMTT(60) DEF NoFalseAlarm, MarkerIsCarried, TornStandsForSome, ReadOnce, Free, Stale, Foreign, Named, Holds
<1> QED
  BY <1>1, <1>2, <1>3, <1>4, <1>5, <1>6, <1>7, <1>8, <1>9

LEMMA ToolKeeps ==
  ASSUME Owned, Owned', Witnessed, NEW t \in Tasks, Settled(t) \/ \E c \in Calls : ToolStart(t, c) \/ ToolEnd(t, c)
  PROVE  Witnessed'
<1> USE LifecycleAssumption DEF Owned, Witnessed, TypeOK
<1>0. PICK running \in SUBSET Calls :
        /\ marker' = [marker EXCEPT ![who[t]] = running]
        /\ calls' = [calls EXCEPT ![t] = running]
        /\ running # {} => who[t] \in existing'
        /\ existing \subseteq existing' /\ lock[who[t]] = t
        /\ \A u \in Tasks \ {t} : who[u] = who[t] => calls[u] = {}
        /\ UNCHANGED <<who, carried, lost, unreported, lock>>
  BY ToolEffects
<1>s. step' = step /\ t \in heard /\ heard' = heard
  BY DEF Settled, ToolStart, ToolEnd, WriteMarker, taskVars
<1>u. running \cap unreported[who[t]] = {} /\ t \notin {Free, Stale, Foreign}
  <2>1. calls'[t] = running
    BY <1>0
  <2>2. running \subseteq calls[t] \/ \E c \in Calls : c \notin unreported[who[t]] /\ running \subseteq calls[t] \cup {c}
    BY <2>1 DEF Settled, ToolStart, ToolEnd, WriteMarker, Fresh
  <2> QED
    BY <2>2 DEF CallsAreHeard
<1>1. MarkerIsCarried'
  BY <1>0, <1>s, <1>u DEF MarkerIsCarried
<1>2. CallsAreHeard'
  BY <1>0, <1>s, <1>u DEF CallsAreHeard
<1>3. RunningIsMarked'
  BY <1>0, <1>s, <1>u DEF RunningIsMarked, Named
<1>4. MarkerOfHolder'
  <2> SUFFICES ASSUME NEW s \in Sessions
               PROVE  /\ marker'[s] # {} \/ lock'[s] = Foreign => s \in existing'
                      /\ lock'[s] \in Tasks => marker'[s] \subseteq calls'[lock'[s]]
                      /\ lock'[s] = Foreign => marker'[s] \cap unreported'[s] = {}
                      /\ lock'[s] \in {Free, Stale} =>
                           /\ marker'[s] \ {Torn} \subseteq unreported'[s]
                           /\ marker'[s] # {} => unreported'[s] # {}
    BY DEF MarkerOfHolder

  <2>1. CASE s = who[t]
    <3>1. lock'[s] = t /\ marker'[s] = running /\ calls'[t] = running
      BY <1>0, <2>1
    <3> QED
      BY <1>0, <1>u, <2>1, <3>1
  <2>2. CASE s # who[t]
    <3>1. marker'[s] = marker[s] /\ lock'[s] = lock[s] /\ unreported'[s] = unreported[s]
      BY <1>0, <2>2
    <3>2. lock[s] \in Tasks => lock[s] # t /\ calls'[lock[s]] = calls[lock[s]]
      BY <1>0, <2>2 DEF LocksAreHeld
    <3> QED
      BY <1>0, <3>1, <3>2 DEF MarkerOfHolder
  <2> QED
    BY <2>1, <2>2
<1>5. ReadOnce'
  BY <1>0, <1>s, <1>u DEF ReadOnce, NoFalseAlarm
<1>6. TornIsLast'
  BY <1>0, <1>s, <1>u DEF TornIsLast, Holds
<1>7. TornStandsForSome'
  BY <1>0, <1>s, <1>u DEF TornStandsForSome
<1>8. DeadAreSeen'
  <2>1. marker[who[t]] \subseteq calls[t]
    BY <1>0 DEF MarkerOfHolder
  <2>2. \A c \in unreported[who[t]] : c \notin Named(marker[who[t]])
    BY <2>1 DEF CallsAreHeard, Named
  <2> QED
    BY <1>0, <2>2 DEF DeadAreSeen, Named
<1>9. NoFalseAlarm'
  BY <1>0, <1>s, <1>u DEF NoFalseAlarm
<1> QED
  BY <1>1, <1>2, <1>3, <1>4, <1>5, <1>6, <1>7, <1>8, <1>9

\* What runs unheard leaves no evidence, and changes none.
LEMMA UnheardKeeps ==
  ASSUME Owned, Owned', Witnessed, NEW t \in Tasks, NEW c \in Calls,
         ToolStartUnheard(t, c) \/ ToolEndUnheard(t, c)
  PROVE  Witnessed'
<1>1. /\ existing \subseteq existing'
      /\ UNCHANGED <<step, who, carried, table, heard, calls, lock, marker, unreported, lost>>
  BY DEF ToolStartUnheard, ToolEndUnheard, taskVars, diskVars, historyVars
<1>2. MarkerIsCarried' /\ CallsAreHeard' /\ RunningIsMarked' /\ MarkerOfHolder'
  BY <1>1 DEF Witnessed, MarkerIsCarried, CallsAreHeard, RunningIsMarked, MarkerOfHolder, Named
<1>3. ReadOnce' /\ TornIsLast' /\ TornStandsForSome'
  BY <1>1 DEF Witnessed, ReadOnce, TornIsLast, TornStandsForSome, Holds
<1>4. DeadAreSeen' /\ NoFalseAlarm'
  BY <1>1 DEF Witnessed, DeadAreSeen, NoFalseAlarm, Named
<1> QED
  BY <1>2, <1>3, <1>4 DEF Witnessed

LEMMA ClosingKeeps ==
  ASSUME Owned, Owned', Witnessed, NEW closing \in SUBSET {t \in Tasks : Registered(t)}, Closing(closing)
  PROVE  Witnessed'
<1> USE OwnersFacts, LifecycleAssumption DEF Owned, Witnessed, TypeOK, Late
<1> USE DEF Closing, Dispose, Unregister, historyVars
<1>c. /\ \A t \in closing : lock[who[t]] = t /\ marker[who[t]] \subseteq calls[t]
      /\ \A u \in Tasks : calls'[u] = IF u \in closing THEN {} ELSE calls[u]
      /\ \A s \in Sessions : \/ marker'[s] = marker[s]
                             \/ marker'[s] = {} /\ \E t \in closing : who[t] = s
      /\ \A s \in Sessions : (\E t \in closing : who[t] = s) => marker'[s] = {}
      /\ UNCHANGED <<who, carried, lost, unreported, existing>>
      /\ \A s \in Sessions : lock'[s] = IF lock[s] \in closing THEN Free ELSE lock[s]
  BY ClosingEffects
<1>1. MarkerIsCarried'
  BY DEF MarkerIsCarried, Free, Stale, Foreign, Named, Holds
<1>2. CallsAreHeard'
  BY DEF CallsAreHeard, AliveAreRegistered, Free, Stale, Foreign, Named, Holds
<1>3. RunningIsMarked'

  <2> SUFFICES ASSUME NEW u \in Tasks, NEW c \in calls[u], u \notin closing
               PROVE  c \in marker'[who[u]] \/ (c \in lost[who[u]] /\ c \notin Named(carried[u]))
    BY <1>c DEF RunningIsMarked, Named
  <2>6. lock[who[u]] = u
    BY OwnersFacts
  <2>7. marker'[who[u]] = marker[who[u]]
    BY <1>c, <2>6
  <2> QED
    BY <2>7 DEF RunningIsMarked
<1>4. MarkerOfHolder'

  <2> SUFFICES ASSUME NEW s \in Sessions
               PROVE  /\ marker'[s] # {} \/ lock'[s] = Foreign => s \in existing
                      /\ lock'[s] \in Tasks => marker'[s] \subseteq calls'[lock'[s]]
                      /\ lock'[s] = Foreign => marker'[s] \cap unreported[s] = {}
                      /\ lock'[s] \in {Free, Stale} =>
                           /\ marker'[s] \ {Torn} \subseteq unreported[s]
                           /\ marker'[s] # {} => unreported[s] # {}
    BY <1>c DEF MarkerOfHolder
  <2>6. CASE lock[s] \in closing
    <3>1. who[lock[s]] = s
      BY <2>6 DEF LocksAreHeld
    <3>2. marker'[s] = {} /\ lock'[s] = Free
      BY <1>c, <2>6, <3>1
    <3> QED
      BY <3>2, LifecycleAssumption DEF Free, Foreign
  <2>7. CASE lock[s] \notin closing
    <3>1. lock'[s] = lock[s]
      BY <1>c, <2>7
    <3>2. lock[s] \in Tasks => calls'[lock[s]] = calls[lock[s]]
      BY <1>c, <2>7
    <3> QED
      BY <1>c, <3>1, <3>2 DEF MarkerOfHolder
  <2> QED
    BY <2>6, <2>7
<1>5. ReadOnce'
  BY DEF ReadOnce, MarkerIsCarried, CallsAreHeard, NoFalseAlarm, Free, Stale, Foreign, Named, Holds
<1>6. TornIsLast'
  BY DEF TornIsLast, MarkerIsCarried, Free, Stale, Foreign, Named, Holds
<1>7. TornStandsForSome'
  BY DEF TornStandsForSome, MarkerIsCarried, CallsAreHeard, MarkerOfHolder, Free, Stale, Foreign, Named, Holds
<1>8. DeadAreSeen'
  <2> SUFFICES ASSUME NEW r \in Sessions, NEW c \in unreported'[r]
               PROVE  \/ c \in Named(marker'[r]) \/ c \in lost'[r]
                      \/ \E u \in Tasks : who'[u] = r /\ c \in Named(carried'[u])
    BY DEF DeadAreSeen, Named


  <2>9. c \in Named(marker[r]) \/ c \in lost[r] \/ \E u \in Tasks : who[u] = r /\ c \in Named(carried[u])
    BY <1>c DEF DeadAreSeen

  <2>6. marker'[r] = marker[r] \/ c \notin Named(marker[r])
    <3> SUFFICES ASSUME NEW t \in closing, who[t] = r PROVE c \notin Named(marker[r])
      BY <1>c
    <3>2. marker[r] \subseteq calls[t] /\ c \notin calls[t]
      BY <1>c DEF CallsAreHeard
    <3> QED
      BY <3>2, LifecycleAssumption DEF Named
  <2> QED
    <3>1. carried' = carried /\ who' = who /\ lost' = lost
      BY <1>c
    <3> HIDE DEF Closing, Dispose, Unregister, TypeOK, Owned, Witnessed
    <3> QED
      BY <2>6, <2>9, <3>1
<1>9. NoFalseAlarm'
  BY DEF NoFalseAlarm, MarkerIsCarried, TornStandsForSome, ReadOnce, Free, Stale, Foreign, Named, Holds
<1> QED
  BY <1>1, <1>2, <1>3, <1>4, <1>5, <1>6, <1>7, <1>8, <1>9

LEMMA DieKeeps ==
  ASSUME Owned, Owned', Witnessed, Die
  PROVE  Witnessed'
<1> USE OwnersFacts, LifecycleAssumption DEF Owned, Witnessed, TypeOK, Late
<1> USE DEF Die, Running, Unmarked
<1>1. MarkerIsCarried'
  BY DEF MarkerIsCarried, Free, Stale, Foreign, Named, Holds
<1>2. CallsAreHeard'
  BY DEF CallsAreHeard, AliveAreRegistered, Free, Stale, Foreign, Named, Holds
<1>3. RunningIsMarked'
  BY DEF RunningIsMarked, CallsAreHeard, NoFalseAlarm, Free, Stale, Foreign, Named, Holds
<1>4. MarkerOfHolder'
  <2>1. \A s \in Sessions : unreported[s] \subseteq unreported'[s]
    OBVIOUS
  <2>2. \A s \in Sessions, t \in Tasks : t \in alive /\ who[t] = s => calls[t] \subseteq unreported'[s]
    OBVIOUS
  <2>3. \A s \in Sessions :
          \/ marker'[s] = marker[s]
          \/ marker'[s] = {Torn} /\ table[s] # NoTask /\ calls[table[s]] # {}
    OBVIOUS
  <2>4. \A s \in Sessions :
          \/ lock[s] \in Tasks /\ lock'[s] = Stale
          \/ lock[s] \notin Tasks /\ lock'[s] = lock[s]
    OBVIOUS
  <2>5. existing' = existing
    OBVIOUS
  <2> SUFFICES ASSUME NEW s \in Sessions
               PROVE  /\ marker'[s] # {} \/ lock'[s] = Foreign => s \in existing
                      /\ lock'[s] \in Tasks => marker'[s] \subseteq calls'[lock'[s]]
                      /\ lock'[s] = Foreign => marker'[s] \cap unreported'[s] = {}
                      /\ lock'[s] \in {Free, Stale} =>
                           /\ marker'[s] \ {Torn} \subseteq unreported'[s]
                           /\ marker'[s] # {} => unreported'[s] # {}
    BY <2>5 DEF MarkerOfHolder
  <2>6. CASE table[s] # NoTask
    <3>1. /\ table[s] \in Tasks /\ table[s] \in alive /\ who[table[s]] = s /\ lock[s] = table[s]
      BY <2>6 DEF OwnersAreLive
    <3>2. lock'[s] = Stale /\ calls[table[s]] \subseteq unreported'[s]
      BY <2>2, <2>4, <3>1
    <3>3. marker[s] \subseteq calls[table[s]] /\ (calls[table[s]] # {} => s \in existing)
      BY <3>1 DEF MarkerOfHolder, CallsAreHeard
    <3>4. Stale # Foreign /\ Stale \notin Tasks
      BY LifecycleAssumption DEF Stale, Foreign
    <3>5. QED
      <4> HIDE DEF Die, TypeOK, Owned, Witnessed
      <4>1. marker'[s] # {} => s \in existing /\ unreported'[s] # {}
        BY <2>3, <3>2, <3>3
      <4>2. marker'[s] \ {Torn} \subseteq unreported'[s]
        BY <2>3, <3>2, <3>3
      <4> QED
        BY <3>2, <3>4, <4>1, <4>2
  <2>7. CASE table[s] = NoTask
    <3>1. marker'[s] = marker[s]
      BY <2>3, <2>7
    <3>2. \A t \in Tasks : who[t] = s => calls[t] = {} /\ early[t] = {}
      BY <2>7, OwnersFacts, LifecycleAssumption DEF Registered
    <3>3. lock[s] \in Tasks => marker[s] = {}
      BY <3>2 DEF MarkerOfHolder, LocksAreHeld
    <3>4. unreported'[s] = unreported[s]
      BY <3>2
    <3>5. Stale # Foreign /\ Stale \notin Tasks
      BY LifecycleAssumption DEF Stale, Foreign
    <3>6. CASE lock[s] \in Tasks
      BY <2>4, <2>5, <3>1, <3>3, <3>5, <3>6 DEF MarkerOfHolder
    <3>7. CASE lock[s] \notin Tasks
      <4>1. lock'[s] = lock[s]
        BY <2>4, <3>7
      <4>2. /\ marker[s] # {} \/ lock[s] = Foreign => s \in existing
            /\ lock[s] = Foreign => marker[s] \cap unreported[s] = {}
            /\ lock[s] \in {Free, Stale} =>
                 marker[s] \ {Torn} \subseteq unreported[s] /\ (marker[s] # {} => unreported[s] # {})
        BY DEF MarkerOfHolder
      <4> HIDE DEF Die, TypeOK, Owned, Witnessed
      <4> QED
        BY <3>1, <3>4, <3>7, <4>1, <4>2
    <3> QED
      BY <3>6, <3>7
  <2> QED
    BY <2>6, <2>7
<1>5. ReadOnce'
  BY DEF ReadOnce, MarkerIsCarried, CallsAreHeard, NoFalseAlarm, Free, Stale, Foreign, Named, Holds
<1>6. TornIsLast'
  BY DEF TornIsLast, MarkerIsCarried, Free, Stale, Foreign, Named, Holds
<1>7. TornStandsForSome'
  BY DEF TornStandsForSome, MarkerIsCarried, CallsAreHeard, MarkerOfHolder, Free, Stale, Foreign, Named, Holds
<1>8. DeadAreSeen'
  BY DEF DeadAreSeen, CallsAreHeard, RunningIsMarked, Free, Stale, Foreign, Named, Holds
<1>9. NoFalseAlarm'
  BY DEF NoFalseAlarm, MarkerIsCarried, TornStandsForSome, ReadOnce, Free, Stale, Foreign, Named, Holds
<1> QED
  BY <1>1, <1>2, <1>3, <1>4, <1>5, <1>6, <1>7, <1>8, <1>9

LEMMA ForeignOpenKeeps ==
  ASSUME Owned, Owned', Witnessed, NEW s \in Sessions, ForeignOpen(s)
  PROVE  Witnessed'
<1> USE OwnersFacts, LifecycleAssumption DEF Owned, Witnessed, TypeOK, Late
<1> USE DEF ForeignOpen, LockFree, taskVars, hostVars
<1>1. MarkerIsCarried'
  BY DEF MarkerIsCarried, Free, Stale, Foreign, Named, Holds
<1>2. CallsAreHeard'
  BY DEF CallsAreHeard, AliveAreRegistered, Free, Stale, Foreign, Named, Holds
<1>3. RunningIsMarked'
  BY DEF RunningIsMarked, CallsAreHeard, NoFalseAlarm, Free, Stale, Foreign, Named, Holds
<1>4. MarkerOfHolder'
  BY DEF MarkerOfHolder, NewAreAlone, CallsAreHeard, ForeignIsWhole, Free, Stale, Foreign, Named, Holds
<1>5. ReadOnce'
  BY DEF ReadOnce, MarkerIsCarried, CallsAreHeard, NoFalseAlarm, Free, Stale, Foreign, Named, Holds
<1>6. TornIsLast'
  BY DEF TornIsLast, MarkerIsCarried, Free, Stale, Foreign, Named, Holds
<1>7. TornStandsForSome'
  <2>1. \A v \in Tasks : who[v] = s /\ carried[v] # {} => Torn \notin marker[s]
    BY DEF TornIsLast, MarkerIsCarried
  <2>2. /\ UNCHANGED <<who, carried>> /\ marker'[s] = {}
        /\ unreported'[s] = unreported[s] \ Named(marker[s])
        /\ \A r \in Sessions \ {s} : marker'[r] = marker[r] /\ unreported'[r] = unreported[r]
    OBVIOUS

  <2> SUFFICES ASSUME NEW v \in Tasks, Torn \in carried[v]
               PROVE  \E c \in unreported'[who[v]] :
                        /\ c \notin marker'[who[v]]
                        /\ \A u \in Tasks \ {v} : who[u] = who[v] => c \notin carried[u]
    BY <2>2 DEF TornStandsForSome
  <2>3. PICK c \in unreported[who[v]] :
           /\ c \notin marker[who[v]]
           /\ \A u \in Tasks \ {v} : who[u] = who[v] => c \notin carried[u]
    BY DEF TornStandsForSome
  <2>4. c \in unreported'[who[v]] /\ c \notin marker'[who[v]]
    BY <2>1, <2>2, <2>3 DEF Named
  <2> QED
    BY <2>3, <2>4
<1>8. DeadAreSeen'
  BY DEF DeadAreSeen, CallsAreHeard, RunningIsMarked, Free, Stale, Foreign, Named, Holds
<1>9. NoFalseAlarm'
  <2>1. \A v \in Tasks : who[v] = s /\ carried[v] # {} => Torn \notin marker[s]
    BY DEF TornIsLast, MarkerIsCarried
  <2>2. /\ UNCHANGED <<who, carried>> /\ marker'[s] = {}
        /\ unreported'[s] = unreported[s] \ Named(marker[s])
        /\ \A r \in Sessions \ {s} : marker'[r] = marker[r] /\ unreported'[r] = unreported[r]
    OBVIOUS

  <2> SUFFICES ASSUME NEW v \in Tasks, carried[v] # {}
               PROVE  unreported'[who[v]] # {} /\ carried[v] \ {Torn} \subseteq unreported'[who[v]]
    BY <2>2 DEF NoFalseAlarm
  <2>3. carried[v] \ {Torn} \subseteq unreported'[who[v]]
    BY <2>1, <2>2 DEF NoFalseAlarm, ReadOnce, Named
  <2>4. Torn \in carried[v] => unreported'[who[v]] # {}
    BY <2>1, <2>2 DEF TornStandsForSome, Named
  <2> QED
    BY <2>3, <2>4
<1> QED
  BY <1>1, <1>2, <1>3, <1>4, <1>5, <1>6, <1>7, <1>8, <1>9

LEMMA ForeignToolKeeps ==
  ASSUME Owned, Owned', Witnessed, NEW s \in Sessions, NEW c \in Calls, ForeignTool(s, c)
  PROVE  Witnessed'
<1> USE OwnersFacts, LifecycleAssumption DEF Owned, Witnessed, TypeOK, Late
<1> USE DEF ForeignTool, taskVars, hostVars, historyVars
<1>1. MarkerIsCarried'
  BY DEF MarkerIsCarried, Free, Stale, Foreign, Named, Holds
<1>2. CallsAreHeard'
  BY DEF CallsAreHeard, AliveAreRegistered, Free, Stale, Foreign, Named, Holds
<1>3. RunningIsMarked'
  BY DEF RunningIsMarked, CallsAreHeard, NoFalseAlarm, Free, Stale, Foreign, Named, Holds
<1>4. MarkerOfHolder'
  BY DEF MarkerOfHolder, NewAreAlone, CallsAreHeard, ForeignIsWhole, Free, Stale, Foreign, Named, Holds
<1>5. ReadOnce'
  BY DEF ReadOnce, MarkerIsCarried, CallsAreHeard, NoFalseAlarm, Free, Stale, Foreign, Named, Holds
<1>6. TornIsLast'
  BY DEF TornIsLast, MarkerIsCarried, Free, Stale, Foreign, Named, Holds
<1>7. TornStandsForSome'
  BY DEF TornStandsForSome, MarkerIsCarried, CallsAreHeard, MarkerOfHolder, Free, Stale, Foreign, Named, Holds
<1>8. DeadAreSeen'
  <2> SUFFICES ASSUME NEW r \in Sessions, NEW x \in unreported'[r]
               PROVE  \/ x \in Named(marker'[r]) \/ x \in lost'[r]
                      \/ \E u \in Tasks : who'[u] = r /\ x \in Named(carried'[u])
    BY DEF DeadAreSeen, Named

  <2>1. UNCHANGED <<who, carried, lost, unreported>>
    OBVIOUS
  <2>2. \A q \in Sessions \ {s} : marker'[q] = marker[q]
    OBVIOUS

  <2>9. x \in Named(marker[r]) \/ x \in lost[r] \/ \E u \in Tasks : who[u] = r /\ x \in Named(carried[u])
    BY <2>1 DEF DeadAreSeen

  <2>3. r = s => x \notin Named(marker[r])
    BY <2>1 DEF MarkerOfHolder, ForeignIsWhole, Named
  <2> QED
    BY <2>1, <2>2, <2>3, <2>9
<1>9. NoFalseAlarm'
  BY DEF NoFalseAlarm, MarkerIsCarried, TornStandsForSome, ReadOnce, Free, Stale, Foreign, Named, Holds
<1> QED
  BY <1>1, <1>2, <1>3, <1>4, <1>5, <1>6, <1>7, <1>8, <1>9

LEMMA ForeignCloseKeeps ==
  ASSUME Owned, Owned', Witnessed, NEW s \in Sessions, ForeignClose(s)
  PROVE  Witnessed'
<1> USE OwnersFacts, LifecycleAssumption DEF Owned, Witnessed, TypeOK, Late
<1> USE DEF ForeignClose, taskVars, hostVars, historyVars
<1>1. MarkerIsCarried'
  BY DEF MarkerIsCarried, Free, Stale, Foreign, Named, Holds
<1>2. CallsAreHeard'
  BY DEF CallsAreHeard, AliveAreRegistered, Free, Stale, Foreign, Named, Holds
<1>3. RunningIsMarked'
  BY DEF RunningIsMarked, CallsAreHeard, NoFalseAlarm, Free, Stale, Foreign, Named, Holds
<1>4. MarkerOfHolder'
  BY DEF MarkerOfHolder, NewAreAlone, CallsAreHeard, ForeignIsWhole, Free, Stale, Foreign, Named, Holds
<1>5. ReadOnce'
  BY DEF ReadOnce, MarkerIsCarried, CallsAreHeard, NoFalseAlarm, Free, Stale, Foreign, Named, Holds
<1>6. TornIsLast'
  BY DEF TornIsLast, MarkerIsCarried, Free, Stale, Foreign, Named, Holds
<1>7. TornStandsForSome'
  BY DEF TornStandsForSome, MarkerIsCarried, CallsAreHeard, MarkerOfHolder, Free, Stale, Foreign, Named, Holds
<1>8. DeadAreSeen'
  <2> SUFFICES ASSUME NEW r \in Sessions, NEW x \in unreported'[r]
               PROVE  \/ x \in Named(marker'[r]) \/ x \in lost'[r]
                      \/ \E u \in Tasks : who'[u] = r /\ x \in Named(carried'[u])
    BY DEF DeadAreSeen, Named

  <2>1. UNCHANGED <<who, carried, lost, unreported>>
    OBVIOUS
  <2>2. \A q \in Sessions \ {s} : marker'[q] = marker[q]
    OBVIOUS

  <2>9. x \in Named(marker[r]) \/ x \in lost[r] \/ \E u \in Tasks : who[u] = r /\ x \in Named(carried[u])
    BY <2>1 DEF DeadAreSeen

  <2>3. r = s => x \notin Named(marker[r])
    BY <2>1 DEF MarkerOfHolder, ForeignIsWhole, Named
  <2> QED
    BY <2>1, <2>2, <2>3, <2>9
<1>9. NoFalseAlarm'
  BY DEF NoFalseAlarm, MarkerIsCarried, TornStandsForSome, ReadOnce, Free, Stale, Foreign, Named, Holds
<1> QED
  BY <1>1, <1>2, <1>3, <1>4, <1>5, <1>6, <1>7, <1>8, <1>9

LEMMA ForeignDeathKeeps ==
  ASSUME Owned, Owned', Witnessed, NEW s \in Sessions, ForeignDeath(s)
  PROVE  Witnessed'
<1> USE OwnersFacts, LifecycleAssumption DEF Owned, Witnessed, TypeOK, Late
<1> USE DEF ForeignDeath, taskVars, hostVars
<1>1. MarkerIsCarried'
  BY DEF MarkerIsCarried, Free, Stale, Foreign, Named, Holds
<1>2. CallsAreHeard'
  BY DEF CallsAreHeard, AliveAreRegistered, Free, Stale, Foreign, Named, Holds
<1>3. RunningIsMarked'
  BY DEF RunningIsMarked, CallsAreHeard, NoFalseAlarm, Free, Stale, Foreign, Named, Holds
<1>4. MarkerOfHolder'
  BY DEF MarkerOfHolder, NewAreAlone, CallsAreHeard, ForeignIsWhole, Free, Stale, Foreign, Named, Holds
<1>5. ReadOnce'
  BY DEF ReadOnce, MarkerIsCarried, CallsAreHeard, NoFalseAlarm, Free, Stale, Foreign, Named, Holds
<1>6. TornIsLast'
  BY DEF TornIsLast, MarkerIsCarried, Free, Stale, Foreign, Named, Holds
<1>7. TornStandsForSome'
  BY DEF TornStandsForSome, MarkerIsCarried, CallsAreHeard, MarkerOfHolder, Free, Stale, Foreign, Named, Holds
<1>8. DeadAreSeen'
  BY DEF DeadAreSeen, CallsAreHeard, RunningIsMarked, Free, Stale, Foreign, Named, Holds
<1>9. NoFalseAlarm'
  BY DEF NoFalseAlarm, MarkerIsCarried, TornStandsForSome, ReadOnce, Free, Stale, Foreign, Named, Holds
<1> QED
  BY <1>1, <1>2, <1>3, <1>4, <1>5, <1>6, <1>7, <1>8, <1>9

LEMMA IdleKeeps ==
  ASSUME Owned, Owned', Witnessed, NEW s \in Sessions, Attach(s) \/ OpenWorkspace
  PROVE  Witnessed'
<1> USE OwnersFacts, LifecycleAssumption DEF Owned, Witnessed, TypeOK, Late
<1> USE DEF Attach, OpenWorkspace, taskVars, hostVars, diskVars, historyVars
<1>1. MarkerIsCarried'
  BY DEF MarkerIsCarried, Free, Stale, Foreign, Named, Holds
<1>2. CallsAreHeard'
  BY DEF CallsAreHeard, AliveAreRegistered, Free, Stale, Foreign, Named, Holds
<1>3. RunningIsMarked'
  BY DEF RunningIsMarked, CallsAreHeard, NoFalseAlarm, Free, Stale, Foreign, Named, Holds
<1>4. MarkerOfHolder'
  BY DEF MarkerOfHolder, NewAreAlone, CallsAreHeard, ForeignIsWhole, Free, Stale, Foreign, Named, Holds
<1>5. ReadOnce'
  BY DEF ReadOnce, MarkerIsCarried, CallsAreHeard, NoFalseAlarm, Free, Stale, Foreign, Named, Holds
<1>6. TornIsLast'
  BY DEF TornIsLast, MarkerIsCarried, Free, Stale, Foreign, Named, Holds
<1>7. TornStandsForSome'
  BY DEF TornStandsForSome, MarkerIsCarried, CallsAreHeard, MarkerOfHolder, Free, Stale, Foreign, Named, Holds
<1>8. DeadAreSeen'
  BY DEF DeadAreSeen, CallsAreHeard, RunningIsMarked, Free, Stale, Foreign, Named, Holds
<1>9. NoFalseAlarm'
  BY DEF NoFalseAlarm, MarkerIsCarried, TornStandsForSome, ReadOnce, Free, Stale, Foreign, Named, Holds
<1> QED
  BY <1>1, <1>2, <1>3, <1>4, <1>5, <1>6, <1>7, <1>8, <1>9

LEMMA InitWitnessed == ASSUME Init PROVE Witnessed
<1>1. /\ \A t \in Tasks : carried[t] = {} /\ calls[t] = {}
      /\ \A s \in Sessions : marker[s] = {} /\ unreported[s] = {} /\ lost[s] = {} /\ lock[s] = Free
      /\ \A t \in Tasks : who[t] \in Sessions
  BY InitTypes DEF Init, TypeOK
<1> QED
  BY <1>1, LifecycleAssumption
     DEF Witnessed, MarkerIsCarried, CallsAreHeard, RunningIsMarked, MarkerOfHolder, ReadOnce,
         TornIsLast, TornStandsForSome, DeadAreSeen, NoFalseAlarm, Free, Foreign

LEMMA WitnessedStep == ASSUME Owned, Owned', Witnessed, [Next]_vars PROVE Witnessed'
<1>1. CASE UNCHANGED vars
  BY <1>1
     DEF vars, taskVars, hostVars, diskVars, historyVars, boundVars, Witnessed, MarkerIsCarried,
         CallsAreHeard, RunningIsMarked, MarkerOfHolder, ReadOnce, TornIsLast, TornStandsForSome,
         DeadAreSeen, NoFalseAlarm, Holds, Named
<1>2. CASE Next
  <2>1. ASSUME NEW t \in Tasks, TaskStep(t) PROVE Witnessed'
    BY <2>1, StartKeeps, LocateKeeps, FailKeeps, RegisterKeeps, BoundKeeps, AnnouncedKeeps,
       CleanUpKeeps, ToolKeeps, UnheardKeeps DEF TaskStep, Refuse, GiveUp
  <2>2. ASSUME NEW s \in Sessions, CloseSession(s) PROVE Witnessed'
    <3>1. {table[s]} \in SUBSET {t \in Tasks : Registered(t)} /\ Closing({table[s]})
      BY <2>2 DEF CloseSession, Owned, OwnersAreLive, TypeOK, Registered
    <3> QED
      BY <3>1, ClosingKeeps
  <2>3. ASSUME CloseWorkspace \/ Shutdown PROVE Witnessed'
    <3>1. PICK closing \in SUBSET {t \in Tasks : Registered(t)} : Closing(closing)
      BY <2>3 DEF CloseWorkspace, Shutdown
    <3> QED
      BY <3>1, ClosingKeeps
  <2>4. ASSUME NEW s \in Sessions, Attach(s) \/ ForeignStep(s) PROVE Witnessed'
    BY <2>4, IdleKeeps, ForeignOpenKeeps, ForeignToolKeeps, ForeignCloseKeeps, ForeignDeathKeeps
       DEF ForeignStep
  <2>5. ASSUME OpenWorkspace PROVE Witnessed'
    <3>1. PICK s \in Sessions : TRUE
      BY LifecycleAssumption
    <3> QED
      BY <2>5, <3>1, IdleKeeps
  <2>6. ASSUME Die PROVE Witnessed'
    BY <2>6, DieKeeps
  <2> QED
    BY <1>2, <2>1, <2>2, <2>3, <2>4, <2>5, <2>6 DEF Next
<1> QED
  BY <1>1, <1>2

-----------------------------------------------------------------------------
(* Capacity. *)

RegisteredSessions == {s \in Sessions : table[s] # NoTask}

WithinCapacity == reserved + Cardinality(RegisteredSessions) <= MaxOpen

LEMMA RegisteredAreFinite ==
  IsFiniteSet(RegisteredSessions) /\ Cardinality(RegisteredSessions) \in Nat
<1>1. RegisteredSessions \subseteq Sessions
  BY DEF RegisteredSessions
<1> QED
  BY <1>1, LifecycleAssumption, FS_Subset, FS_CardinalityType

\* A step that adds neither a reservation nor a registered session.
LEMMA NoMore ==
  ASSUME TypeOK, TypeOK', WithinCapacity, reserved' <= reserved,
         RegisteredSessions' \subseteq RegisteredSessions
  PROVE  WithinCapacity'
<1>1. Cardinality(RegisteredSessions') <= Cardinality(RegisteredSessions)
  BY RegisteredAreFinite, FS_Subset
<1>2. Cardinality(RegisteredSessions') \in Nat
  BY RegisteredAreFinite, FS_Subset, FS_CardinalityType
<1> QED
  BY <1>1, <1>2, RegisteredAreFinite, LifecycleAssumption DEF WithinCapacity, TypeOK

LEMMA CapacityStep ==
  ASSUME Owned, Owned', WithinCapacity, [Next]_vars PROVE WithinCapacity'
<1> USE DEF Owned, TypeOK, RegisteredSessions
<1>0. ASSUME UNCHANGED <<table, reserved>> PROVE WithinCapacity'
  BY <1>0 DEF WithinCapacity
<1>1. ASSUME NEW t \in Tasks, NEW s \in Sessions, NEW first, Start(t, s, first), table' = table
      PROVE  WithinCapacity'
  BY <1>1, RegisteredAreFinite, LifecycleAssumption DEF Start, Admits, WithinCapacity
<1>2. ASSUME NEW t \in Tasks, Fail(t), step[t] \in {"locating", "building"} PROVE WithinCapacity'
  BY <1>2, NoMore DEF Fail, Unclaimed
<1>3. ASSUME NEW t \in Tasks, Register(t) PROVE WithinCapacity'
  <2>1. RegisteredSessions' = RegisteredSessions \cup {who[t]} /\ reserved' = reserved - 1
    BY <1>3, LifecycleAssumption DEF Register, Unclaimed
  <2> HIDE DEF RegisteredSessions
  <2>2. \/ Cardinality(RegisteredSessions') = Cardinality(RegisteredSessions)
        \/ Cardinality(RegisteredSessions') = Cardinality(RegisteredSessions) + 1
    BY <2>1, RegisteredAreFinite, FS_AddElement
  <2> QED
    BY <2>1, <2>2, RegisteredAreFinite, LifecycleAssumption DEF WithinCapacity
<1>4. ASSUME NEW t \in Tasks, CleanUp(t) PROVE WithinCapacity'
  BY <1>4, NoMore, LifecycleAssumption DEF CleanUp
<1>5. ASSUME NEW closing \in SUBSET Tasks, Closing(closing) PROVE WithinCapacity'
  BY <1>5, NoMore DEF Closing, Unregister
<1>6. CASE Die
  BY <1>6, NoMore DEF Die
<1>7. ASSUME NEW t \in Tasks, TaskStep(t) PROVE WithinCapacity'
  <2>1. ASSUME NEW s \in Sessions, OpenSession(t, s) \/ CreateSession(t, s) PROVE WithinCapacity'
    BY <1>1, <2>1 DEF OpenSession, CreateSession, hostVars
  <2>2. CASE Locate(t) \/ Bound(t) \/ Announced(t) \/ Settled(t)
             \/ \E c \in Calls : \/ ToolStart(t, c) \/ ToolEnd(t, c)
                                \/ ToolStartUnheard(t, c) \/ ToolEndUnheard(t, c)
    BY <1>0, <2>2
       DEF Locate, Bound, Announced, Settled, ToolStart, ToolEnd, WriteMarker, ToolStartUnheard,
           ToolEndUnheard, hostVars
  <2> QED
    BY <1>2, <1>3, <1>4, <1>7, <2>1, <2>2 DEF TaskStep, Refuse, GiveUp
<1>8. ASSUME NEW s \in Sessions, Attach(s) \/ ForeignStep(s) PROVE WithinCapacity'
  BY <1>0, <1>8
     DEF Attach, ForeignStep, ForeignOpen, ForeignTool, ForeignClose, ForeignDeath, hostVars
<1>9. ASSUME NEW s \in Sessions, CloseSession(s) PROVE WithinCapacity'
  BY <1>5, <1>9 DEF CloseSession
<1>10. CASE OpenWorkspace \/ UNCHANGED vars
  BY <1>0, <1>10 DEF OpenWorkspace, hostVars, vars
<1> QED
  BY <1>5, <1>6, <1>7, <1>8, <1>9, <1>10 DEF Next, CloseWorkspace, Shutdown

-----------------------------------------------------------------------------
(* What the invariants come to. *)

LEMMA OwnedIsInvariant == Spec => []Owned
<1>1. Init => Owned
  BY InitOwned
<1>2. Owned /\ [Next]_vars => Owned'
  BY OwnedStep
<1> QED
  BY <1>1, <1>2, PTL DEF Spec

\* Types: what every variable of the session lifecycle holds, and the reservations among them,
\* which are a number because each is released once (budget.ts reserveSession).
THEOREM TypeCorrect == Spec => []TypeOK
<1>1. Owned => TypeOK
  BY DEF Owned
<1> QED
  BY <1>1, OwnedIsInvariant, PTL

\* Two Pi sessions of this host are never of one file, and one that has a file holds its lock,
\* however opens, closes, failures and deaths interleave (runtime.ts hostFor).
THEOREM OneWriterOfEachFile == Spec => []OneWriter
<1>1. Owned => OneWriter
  <2> SUFFICES ASSUME Owned, NEW t \in alive
               PROVE  /\ \A u \in alive : who[t] = who[u] => t = u
                      /\ Holds(t) \/ (step[t] = "building" /\ who[t] \notin existing)
    BY DEF OneWriter
  <2> USE DEF Owned
  <2>1. t \in Tasks
    BY DEF TypeOK
  <2>2. \A v \in alive : v \in Tasks /\ (Holds(v) \/ (step[v] = "building" /\ who[v] \notin existing))
    BY LifecycleAssumption
       DEF TypeOK, AliveAreRegistered, OwnersAreLive, NewAreAlone, Registered, Holds
  <2>3. \A v \in alive : step[v] # "none"
    BY <2>2 DEF AliveAreRegistered, Late
  <2>4. ASSUME NEW u \in alive, who[t] = who[u] PROVE t = u
    <3>1. CASE Holds(t) /\ Holds(u)
      BY <2>4, <3>1 DEF Holds
    <3>2. CASE who[t] \notin existing
      BY <2>1, <2>2, <2>3, <2>4, <3>2 DEF NewAreAlone
    <3> QED
      BY <2>2, <2>4, <3>1, <3>2
  <2> QED
    BY <2>2, <2>4
<1> QED
  BY <1>1, OwnedIsInvariant, PTL

\* What is registered is alive, in the open workspace and with its lock: nothing that was
\* closed comes back with a task that returns late (runtime.ts hostFor).
THEOREM RegisteredIsOwned == Spec => []OwnersAreLive
<1>1. Owned => OwnersAreLive
  BY DEF Owned
<1> QED
  BY <1>1, OwnedIsInvariant, PTL

\* No lock outlives the session it was taken for, on any path (runtime.ts
\* adoptLocatedSession).
THEOREM LocksEndWithSessions == Spec => []NoLockLeak
<1>1. Owned => NoLockLeak
  BY DEF Owned, NoLockLeak, LocksAreHeld, Holds, TypeOK
<1> QED
  BY <1>1, OwnedIsInvariant, PTL

\* Every session under construction has one reservation, and with those that are open they
\* never exceed the limit, however many opens overlap (budget.ts reserveSession).
THEOREM CapacityHolds == Spec => []CapacityAccounted
<1>1. Init => WithinCapacity
  <2> SUFFICES ASSUME Init PROVE WithinCapacity
    OBVIOUS
  <2>1. RegisteredSessions = {} /\ reserved = 0
    BY DEF Init, RegisteredSessions
  <2> QED
    BY <2>1, FS_EmptySet, LifecycleAssumption DEF WithinCapacity
<1>2. Owned /\ Owned' /\ WithinCapacity /\ [Next]_vars => WithinCapacity'
  BY CapacityStep
<1>3. Owned /\ WithinCapacity => CapacityAccounted
  BY DEF Owned, Counted, Building, WithinCapacity, RegisteredSessions, CapacityAccounted
<1> QED
  BY <1>1, <1>2, <1>3, OwnedIsInvariant, PTL DEF Spec

LEMMA WitnessedIsInvariant == Spec => [](Owned /\ Witnessed)
<1>1. Init => Witnessed
  BY InitWitnessed
<1>2. Owned /\ Owned' /\ Witnessed /\ [Next]_vars => Witnessed'
  BY WitnessedStep
<1> QED
  BY <1>1, <1>2, OwnedIsInvariant, PTL DEF Spec

\* An interruption that is reported was one, and one that was is reported, is still to be, or
\* is among the lost that the code drops (tool-marker.ts, session-host.ts dispose).
THEOREM InterruptionsAreTrue == Spec => []ReportsWhatDied
<1>1. Owned /\ Witnessed => ReportsWhatDied
  <2> SUFFICES ASSUME Owned, Witnessed, NEW s \in Sessions,
                      NEW c \in unreported[s] \cup Running(s)
               PROVE  c \in Evidence(s) \cup lost[s]
    BY DEF Witnessed, ReportsWhatDied, EvidenceKept
  <2>1. CASE c \in unreported[s]
    BY <2>1 DEF Witnessed, DeadAreSeen, Evidence
  <2>2. CASE c \in Running(s)
    <3>1. PICK t \in Tasks : who[t] = s /\ c \in calls[t]
      BY <2>2 DEF Running, Owned, TypeOK
    <3>2. c \in Calls
      BY <3>1 DEF Owned, TypeOK
    <3> QED
      BY <3>1, <3>2 DEF Witnessed, RunningIsMarked, Evidence, Named
  <2> QED
    BY <2>1, <2>2
<1> QED
  BY <1>1, WitnessedIsInvariant, PTL

-----------------------------------------------------------------------------
(* Shell. *)

PageState ==
  [state : {"gone", "loading", "loaded"}, told : {"connecting", "connected", "disconnected"},
   port : Nat, shows : BOOLEAN, hung : BOOLEAN]

HostState ==
  [state : {"none", "starting", "stuck", "restoring", "running", "stopping"}, run : Nat,
   kind : {"windows", "wsl"}, by : {"boot", "auto", "hand", "switch", "plain"}, open : SUBSET Targets]

OpState ==
  [pc : {"none", "stopping", "launching", "opening", "asking"}, mode : {"none", "open", "restore", "hand", "plain"},
   target : Targets \cup {"none"}, switched : BOOLEAN]

ActiveState == {Nothing} \cup [target : Targets, of : Nat]

ShellTyped ==
  /\ boot \in {"loading", "waiting", "serving", "failed"}
  /\ ready \in {"pending", "resolved", "rejected"}
  /\ window \in BOOLEAN /\ timer \in BOOLEAN /\ restoring \in BOOLEAN /\ recovery \in BOOLEAN
  /\ page \in PageState /\ host \in HostState /\ op \in OpState /\ active \in ActiveState
  /\ roots \subseteq Targets
  /\ quit \in {"no", "stopping", "done", "exited"}

\* What an operation is about.
Aimed ==
  /\ op.switched \/ op.pc = "opening" => op.target \in Targets
  /\ op.pc = "stopping" => op.mode = "hand" \/ op.switched
  /\ host.state = "starting" /\ host.by = "switch" => op.pc = "launching" /\ op.switched
  /\ host.state = "starting" /\ host.by \in {"hand", "plain"} => ~op.switched
  /\ op.mode = "hand" => ~op.switched

\* Where a page can be, and where its timer can run.
Windowed ==
  /\ ~window => page.state = "gone"
  /\ boot = "loading" => ~window
  /\ boot \in {"waiting", "serving"} /\ quit = "no" => window
  /\ timer => boot = "serving"

\* The first host belongs to the start of the application.
Booting ==
  /\ host.state = "starting" /\ host.by = "boot" => ready = "pending" /\ active = Nothing
  /\ ready = "pending" => boot \in {"loading", "waiting"} \/ ~window

\* How the host and the operation under way keep pace.
Paced ==
  /\ host.state = "stopping" => op.pc = "stopping" \/ (boot = "failed" /\ ~window)
  /\ op.pc = "stopping" => host.state = "stopping"
  /\ op.pc = "asking" => host.state = "none"
  /\ op.pc = "none" => op = NoOp

\* An operation that ends with word to the page.
Underway == op.pc \in {"stopping", "launching", "asking"} \/ op.switched

Told == \/ page.told = "disconnected"
        \/ page.told = "connected" /\ HostRuns /\ page.port = host.run

\* A page that is wrong will be told, by the start, an operation or a host.
Served ==
  page.state = "loaded" /\ gaps \cap Stranding = {} =>
    Told \/ boot \in {"loading", "waiting"} \/ Underway \/ host.state \in {"starting", "restoring", "stopping"}

\* What is active is open, or among what a restore will open.
Kept ==
  gaps \subseteq Stranding =>
    \/ active = Nothing
    \/ op.switched
    \/ active.target \in roots /\ (host.state = "running" => active.target \in host.open)

\* A quit that waits for a host waits for the last one.
Left ==
  "launched in quit" \notin gaps =>
    /\ quit = "stopping" => host.state = "stopping"
    /\ quit \in {"done", "exited"} => host.state = "none"

\* The inductive invariant.
ShellIInv ==
  /\ ShellTyped /\ Aimed /\ Windowed /\ Booting /\ Left
  /\ quit = "no" => Paced /\ Served /\ Kept /\ (timer => page.hung)

-----------------------------------------------------------------------------

LEMMA NamesType ==
  /\ Nothing \in ActiveState /\ NoOp \in OpState
  /\ \A t \in Targets : Kind(t) \in {"windows", "wsl"}
  /\ "none" \notin Targets
  BY DEF Nothing, ActiveState, NoOp, OpState, Kind, Targets

LEMMA NewPageType ==
  ASSUME NEW s \in {"gone", "loading", "loaded"}
  PROVE  NewPage(s) \in PageState /\ NewPage(s).state = s /\ NewPage(s).hung = FALSE
  BY DEF NewPage, PageState

\* A page without a window or a document hears nothing, one that loads may.
LEMMA PagesFacts ==
  ASSUME page \in PageState, NEW q \in PageState, page' \in Pages(page, q),
         q.state = page.state, q.hung = page.hung
  PROVE  /\ page' \in PageState /\ page'.state = page.state /\ page'.hung = page.hung
         /\ window /\ page.state = "loaded" => page' = q
  BY DEF Pages

LEMMA AnnounceFacts ==
  ASSUME page \in PageState, NEW n \in {"connecting", "connected", "disconnected"}, Announce(n)
  PROVE  /\ page' \in PageState /\ page'.state = page.state /\ page'.hung = page.hung
         /\ window /\ page.state = "loaded" => page'.told = n
<1>1. Heard(page, n) \in PageState
  BY DEF Heard, PageState
<1>2. Heard(page, n).state = page.state /\ Heard(page, n).hung = page.hung /\ Heard(page, n).told = n
  BY DEF Heard, PageState
<1> QED
  BY <1>1, <1>2, PagesFacts DEF Announce

LEMMA AttachFacts ==
  ASSUME page \in PageState, host \in HostState, NEW s \in BOOLEAN, AttachPort(s)
  PROVE  /\ page' \in PageState /\ page'.state = page.state /\ page'.hung = page.hung
         /\ window /\ page.state = "loaded" => page'.told = "connected" /\ page'.port = host.run
<1> DEFINE q == [page EXCEPT !.told = "connected", !.port = host.run, !.shows = @ \/ s]
<1>1. q \in PageState /\ q.state = page.state /\ q.hung = page.hung /\ q.told = "connected" /\ q.port = host.run
  BY DEF PageState, HostState
<1>2. page' \in Pages(page, q)
  BY DEF AttachPort
<1> HIDE DEF q
<1> QED
  BY <1>1, <1>2, PagesFacts

LEMMA LaunchFacts ==
  ASSUME page \in PageState, host \in HostState, NEW k \in {"windows", "wsl"},
         NEW b \in {"auto", "hand", "switch", "plain"}, Launch(k, b)
  PROVE  /\ host' \in HostState /\ host'.state = "starting" /\ host'.by = b
         /\ page' \in PageState /\ page'.state = page.state /\ page'.hung = page.hung
         /\ gaps \subseteq gaps' /\ (quit # "no" => "launched in quit" \in gaps')
         /\ gaps' \subseteq gaps \cup {"launched in quit"}
<1>1. host' \in HostState /\ host'.state = "starting" /\ host'.by = b
  <2>1. host.run + 1 \in Nat
    BY DEF HostState
  <2>2. Launched(k, b) \in HostState /\ Launched(k, b).state = "starting" /\ Launched(k, b).by = b
    BY <2>1 DEF Launched, HostState
  <2> QED
    BY <2>2 DEF Launch
<1>2. page' \in PageState /\ page'.state = page.state /\ page'.hung = page.hung
  BY AnnounceFacts DEF Launch
<1> QED
  BY <1>1, <1>2 DEF Launch, Met

LEMMA MetFacts ==
  ASSUME NEW g, NEW w, Met(g, w)
  PROVE  gaps \subseteq gaps' /\ (w => g \in gaps')
  BY DEF Met

\* Every step that fails an operation.
LEMMA OpFailsFacts ==
  ASSUME ShellTyped, OpFails
  PROVE  /\ op' = NoOp /\ active' \in {active, Nothing} /\ gaps \subseteq gaps'
         /\ op.switched /\ active' # Nothing => "kept after failure" \in gaps'
  BY DEF OpFails, OpEnds, KeptAfterFailure, ActiveAfter, Met

\* The host dies: an operation that waits for it ends, and a restore may forget roots.
LEMMA HostDiesFacts ==
  ASSUME ShellTyped, HostDies
  PROVE  /\ gaps \subseteq gaps'
         /\ \/ UNCHANGED <<op, active>> /\ op.pc \notin {"launching", "opening"}
            \/ /\ op' = NoOp /\ active' \in {active, Nothing} /\ op.pc \in {"launching", "opening"}
               /\ op.switched /\ active' # Nothing => "kept after failure" \in gaps'
         /\ roots' \subseteq roots
         /\ active.target \in roots \ roots' => "forgotten in restore" \in gaps'
<1>1. PICK forgotten \in SUBSET roots :
        /\ roots' = roots \ forgotten
        /\ gaps' = gaps \cup (IF op.pc \in {"launching", "opening"} /\ KeptAfterFailure THEN {"kept after failure"} ELSE {})
                        \cup (IF active.target \in forgotten THEN {"forgotten in restore"} ELSE {})
  BY DEF HostDies
<1>2. IF op.pc \in {"launching", "opening"} THEN OpEnds ELSE UNCHANGED <<op, active>>
  BY DEF HostDies
<1>3. OpEnds => op' = NoOp /\ active' \in {active, Nothing}
  BY DEF OpEnds, ActiveAfter
<1>4. op.pc \in {"launching", "opening"} /\ op.switched /\ active' # Nothing => "kept after failure" \in gaps'
  BY <1>1 DEF KeptAfterFailure
<1>5. active.target \in roots \ roots' => "forgotten in restore" \in gaps'
  BY <1>1
<1> QED
  BY <1>1, <1>2, <1>3, <1>4, <1>5

LEMMA OpensIn ==
  ASSUME ShellTyped, NEW t \in Targets, NEW m \in {"open", "restore"}, Begin(t, m)
  PROVE  \/ /\ HostRuns /\ op' = [pc |-> "opening", mode |-> m, target |-> t, switched |-> FALSE]
            /\ UNCHANGED <<host, page, roots, spent, gaps>>
         \/ /\ Exists /\ op' = [pc |-> "stopping", mode |-> m, target |-> t, switched |-> TRUE]
            /\ host' = [host EXCEPT !.state = "stopping"]
            /\ UNCHANGED <<page, roots, spent, gaps>>
         \/ /\ ~Exists /\ op' = [pc |-> "launching", mode |-> m, target |-> t, switched |-> TRUE]
            /\ roots' = {} /\ Launch(Kind(t), "switch")
  BY DEF Begin

-----------------------------------------------------------------------------
(* Types. *)

LEMMA BootTyped ==
  ASSUME ShellTyped, WindowLoads \/ WindowFails \/ BootAttaches \/ BootFails \/ QuitAsked \/ Exits
  PROVE  ShellTyped'
<1> USE DEF ShellTyped
<1>0. [host EXCEPT !.state = "stopping"] \in HostState
  BY DEF HostState
<1>1. CASE WindowLoads
  BY <1>1, NewPageType DEF WindowLoads
<1>2. CASE WindowFails
  BY <1>0, <1>2 DEF WindowFails, HostState
<1>3. CASE BootAttaches
  <2>1. page' \in PageState
    BY <1>3, AttachFacts DEF BootAttaches
  <2> QED
    BY <1>3, <2>1 DEF BootAttaches
<1>4. CASE BootFails
  <2>1. page' \in PageState
    BY <1>4, AnnounceFacts DEF BootFails
  <2> QED
    BY <1>4, <2>1 DEF BootFails
<1>5. CASE QuitAsked
  BY <1>0, <1>5, NewPageType DEF QuitAsked, Stopped
<1>6. CASE Exits
  BY <1>6 DEF Exits
<1> QED
  BY <1>1, <1>2, <1>3, <1>4, <1>5, <1>6

LEMMA HostTyped ==
  ASSUME ShellTyped, HostNext PROVE ShellTyped'
<1> USE DEF ShellTyped
<1>0. /\ \A s \in {"none", "starting", "stuck", "restoring", "running", "stopping"} :
           [host EXCEPT !.state = s] \in HostState
      /\ [host EXCEPT !.state = "none", !.open = {}] \in HostState
      /\ \A o \in SUBSET Targets : [host EXCEPT !.state = "running", !.open = o] \in HostState
      /\ \A p \in {"none", "stopping", "launching", "opening", "asking"} : [op EXCEPT !.pc = p] \in OpState
      /\ host.kind \in {"windows", "wsl"}
  BY DEF HostState, OpState
<1>1. CASE HostAcks
  <2>1. host' \in HostState
    BY <1>0, <1>1 DEF HostAcks
  <2>2. op' \in OpState /\ active' \in ActiveState
    BY <1>0, <1>1, NamesType DEF HostAcks
  <2>3. page' \in PageState
    BY <1>1, AttachFacts DEF HostAcks
  <2> QED
    BY <1>1, <2>1, <2>2, <2>3 DEF HostAcks
<1>2. CASE HostRestored
  <2>1. PICK refused \in SUBSET (roots \ host.open) :
          /\ host' = [host EXCEPT !.state = "running", !.open = roots \ refused]
          /\ roots' = roots \ refused
          /\ AttachPort(roots # refused)
    BY <1>2 DEF HostRestored
  <2>2. page' \in PageState /\ host' \in HostState /\ roots' \subseteq Targets
    BY <1>0, <2>1, AttachFacts
  <2>3. op' \in OpState
    BY <1>2, NamesType DEF HostRestored
  <2> QED
    BY <1>2, <2>2, <2>3 DEF HostRestored
<1>3. CASE StartFails
  <2>1. host' \in HostState
    BY <1>0, <1>3 DEF StartFails
  <2>2. page' \in PageState
    BY <1>3, AnnounceFacts DEF StartFails
  <2>3. op' \in OpState /\ active' \in ActiveState
    BY <1>0, <1>3, NamesType, OpFailsFacts DEF StartFails, NoOpFails
  <2> QED
    BY <1>3, <2>1, <2>2, <2>3 DEF StartFails
<1>4. CASE HostDies
  <2>1. host' \in HostState
    <3>1. Launched(host.kind, "auto") \in HostState
      <4>1. host.run + 1 \in Nat
        BY DEF HostState
      <4> QED
        BY <1>0, <4>1 DEF Launched, HostState
    <3> QED
      BY <1>0, <1>4, <3>1 DEF HostDies
  <2>2. page' \in PageState
    BY <1>4, AnnounceFacts DEF HostDies
  <2>3. op' \in OpState /\ active' \in ActiveState
    BY <1>4, NamesType, HostDiesFacts DEF ActiveState
  <2>4. roots' \subseteq Targets
    BY <1>4 DEF HostDies
  <2> QED
    BY <1>4, <2>1, <2>2, <2>3, <2>4 DEF HostDies
<1>5. CASE StopEnds
  <2>1. CASE op.pc = "stopping"
    <3>1. \E k \in {"windows", "wsl"}, b \in {"hand", "switch"} : Launch(k, b)
      BY <1>0, <1>5, <2>1 DEF StopEnds, Kind
    <3>2. host' \in HostState /\ page' \in PageState
      BY <3>1, LaunchFacts
    <3>3. op' \in OpState /\ roots' \subseteq Targets
      BY <1>0, <1>5, <2>1 DEF StopEnds
    <3> QED
      BY <1>5, <2>1, <3>2, <3>3 DEF StopEnds
  <2>2. CASE op.pc # "stopping"
    <3>1. host' \in HostState
      BY <1>0, <1>5, <2>2 DEF StopEnds
    <3>2. page' \in PageState
      BY <1>5, <2>2, AnnounceFacts DEF StopEnds
    <3>3. op' \in OpState /\ active' \in ActiveState
      BY <1>5, <2>2, NamesType, OpFailsFacts DEF StopEnds, NoOpFails
    <3> QED
      BY <1>5, <2>2, <3>1, <3>2, <3>3 DEF StopEnds
  <2> QED
    BY <2>1, <2>2
<1> QED
  BY <1>1, <1>2, <1>3, <1>4, <1>5 DEF HostNext

LEMMA BeginTyped ==
  ASSUME ShellTyped, NEW t \in Targets, NEW m \in {"open", "restore"}, Begin(t, m)
  PROVE  op' \in OpState /\ host' \in HostState /\ page' \in PageState /\ roots' \subseteq Targets
<1> USE DEF ShellTyped
<1>1. op' \in OpState
  <2>1. \A p \in {"opening", "stopping", "launching"}, b \in BOOLEAN :
           [pc |-> p, mode |-> m, target |-> t, switched |-> b] \in OpState
    BY DEF OpState
  <2> QED
    BY <2>1, OpensIn
<1>2. \/ UNCHANGED <<host, page, roots>>
      \/ host' = [host EXCEPT !.state = "stopping"] /\ UNCHANGED <<page, roots>>
      \/ roots' = {} /\ Launch(Kind(t), "switch")
  BY OpensIn
<1>3. [host EXCEPT !.state = "stopping"] \in HostState
  BY DEF HostState
<1>4. Launch(Kind(t), "switch") => host' \in HostState /\ page' \in PageState
  BY LaunchFacts, NamesType
<1> QED
  BY <1>1, <1>2, <1>3, <1>4

LEMMA OpTyped ==
  ASSUME ShellTyped, Aimed, OpNext PROVE ShellTyped'
<1> USE DEF ShellTyped
<1>1. ASSUME NEW t \in Targets, OpenTarget(t) PROVE ShellTyped'
  BY <1>1, BeginTyped DEF OpenTarget
<1>2. ASSUME NEW t \in Targets, WorkspaceClosed(t) PROVE ShellTyped'
  <2>1. host' \in HostState /\ page' \in PageState
    BY <1>2 DEF WorkspaceClosed, HostState, PageState
  <2>2. active' \in ActiveState
    BY <1>2, NamesType DEF WorkspaceClosed, ActiveAfterClose
  <2> QED
    BY <1>2, <2>1, <2>2 DEF WorkspaceClosed
<1>3. CASE Opened
  <2>1. op.target \in Targets /\ host.run \in Nat
    BY <1>3 DEF Opened, Aimed, HostState
  <2>2. active' \in ActiveState
    BY <1>3, <2>1 DEF Opened, ActiveState
  <2>3. host' \in HostState /\ roots' \subseteq Targets
    BY <1>3, <2>1 DEF Opened, HostState
  <2>4. page' \in PageState
    <3>1. CASE op.switched
      BY <1>3, <3>1, AttachFacts DEF Opened
    <3>2. CASE ~op.switched
      BY <1>3, <3>2 DEF Opened, PageState
    <3> QED
      BY <3>1, <3>2
  <2> QED
    BY <1>3, <2>2, <2>3, <2>4, NamesType DEF Opened
<1>4. CASE OpenRefused
  <2>1. page' \in PageState
    BY <1>4, AnnounceFacts DEF OpenRefused
  <2>2. op' \in OpState /\ active' \in ActiveState
    BY <1>4, NamesType, OpFailsFacts DEF OpenRefused
  <2> QED
    BY <1>4, <2>1, <2>2 DEF OpenRefused
<1>5. CASE DialogAnswered
  <2>1. CASE \E t \in Targets, m \in {"open", "restore"} : Begin(t, m)
    BY <1>5, <2>1, BeginTyped DEF DialogAnswered
  <2>2. CASE /\ Launch("windows", "plain") /\ UNCHANGED <<roots, spent>>
             /\ op' = [op EXCEPT !.pc = "launching", !.mode = "plain", !.switched = FALSE]
    <3>1. op' \in OpState
      BY <2>2 DEF OpState
    <3> QED
      BY <1>5, <2>2, <3>1, LaunchFacts DEF DialogAnswered
  <2>3. "linux" \in Targets /\ "there" \in Targets
    BY DEF Targets
  <2>4. active # Nothing => active.target \in Targets
    BY DEF ActiveState
  <2> QED
    BY <1>5, <2>1, <2>2, <2>3, <2>4 DEF DialogAnswered
<1>6. CASE RestartByHand
  <2>1. op' \in OpState
    BY <1>6 DEF RestartByHand, NoOp, OpState
  <2>2. host' \in HostState /\ page' \in PageState
    <3>1. host.kind \in {"windows", "wsl"} /\ [host EXCEPT !.state = "stopping"] \in HostState
      BY DEF HostState
    <3> QED
      BY <1>6, <3>1, LaunchFacts DEF RestartByHand
  <2> QED
    BY <1>6, <2>1, <2>2 DEF RestartByHand
<1> QED
  BY <1>1, <1>2, <1>3, <1>4, <1>5, <1>6 DEF OpNext

LEMMA PageTyped ==
  ASSUME ShellTyped, PageNext PROVE ShellTyped'
<1> USE DEF ShellTyped, PageOnly
<1>1. ASSUME NEW p \in PageState, Recovered(p) PROVE page' \in PageState /\ restoring' \in BOOLEAN
  BY <1>1, NewPageType DEF Recovered
<1>2. CASE PageLoads
  <2>1. host.run \in Nat /\ (restoring /\ host.open # {}) \in BOOLEAN
    BY DEF HostState
  <2>2. page' \in PageState
    BY <1>2, <2>1 DEF PageLoads, PageState
  <2>3. restoring' \in BOOLEAN /\ timer' \in BOOLEAN
    BY <1>2 DEF PageLoads, TimerCleared
  <2> QED
    BY <1>2, <2>2, <2>3 DEF PageLoads
<1>3. CASE PageReloads
  BY <1>3, NewPageType DEF PageReloads
<1>4. CASE PageCrashes
  BY <1>1, <1>4, NewPageType DEF PageCrashes, TimerCleared
<1>5. CASE PageHangs
  BY <1>5 DEF PageHangs, PageState
<1>6. CASE PageResponds
  BY <1>6 DEF PageResponds, PageState, TimerCleared
<1>7. CASE TimerFires
  BY <1>1, <1>7 DEF TimerFires
<1> QED
  BY <1>2, <1>3, <1>4, <1>5, <1>6, <1>7 DEF PageNext

LEMMA ShellTypedStep ==
  ASSUME ShellTyped, Aimed, [ShellNext]_shellVars PROVE ShellTyped'
<1>1. CASE UNCHANGED shellVars
  BY <1>1 DEF shellVars, ShellTyped
<1> QED
  BY <1>1, BootTyped, HostTyped, OpTyped, PageTyped DEF ShellNext


-----------------------------------------------------------------------------
(* What only grows. *)

LEMMA PageOnlyStep ==
  ASSUME PageNext
  PROVE  UNCHANGED <<boot, ready, window, host, recovery, roots, active, op, quit>>
  BY DEF PageNext, PageLoads, PageReloads, PageCrashes, PageHangs, PageResponds, TimerFires, PageOnly

LEMMA GapsGrow ==
  ASSUME ShellTyped, [ShellNext]_shellVars PROVE gaps \subseteq gaps'
<1>1. CASE UNCHANGED shellVars
  BY <1>1 DEF shellVars
<1>2. CASE WindowLoads \/ WindowFails \/ BootAttaches \/ BootFails \/ QuitAsked \/ Exits
  BY <1>2 DEF WindowLoads, WindowFails, BootAttaches, BootFails, QuitAsked, Exits, Met
<1>3. CASE HostAcks \/ HostRestored
  BY <1>3 DEF HostAcks, HostRestored, Met
<1>4. CASE StartFails
  BY <1>4, OpFailsFacts DEF StartFails, NoOpFails, Met
<1>5. CASE HostDies
  BY <1>5, HostDiesFacts
<1>6. CASE StopEnds
  <2>1. gaps' = gaps \/ (\E k \in {"windows", "wsl"}, b \in {"hand", "switch"} : Launch(k, b)) \/ OpFails
    BY <1>6 DEF StopEnds, NoOpFails, Kind, ShellTyped, HostState
  <2> QED
    BY <2>1, OpFailsFacts DEF Launch, Met
<1>7. CASE PageNext
  BY <1>7 DEF PageNext, PageLoads, PageReloads, PageCrashes, PageHangs, PageResponds, TimerFires
<1>8. ASSUME NEW t \in Targets, OpenTarget(t) \/ WorkspaceClosed(t) PROVE gaps \subseteq gaps'
  BY <1>8 DEF OpenTarget, WorkspaceClosed, Begin, Launch, Met
<1>9. CASE Opened \/ OpenRefused
  BY <1>9, OpFailsFacts DEF Opened, OpenRefused
<1>10. CASE DialogAnswered \/ RestartByHand
  BY <1>10 DEF DialogAnswered, RestartByHand, Begin, Launch, Met
<1> QED
  BY <1>1, <1>2, <1>3, <1>4, <1>5, <1>6, <1>7, <1>8, <1>9, <1>10 DEF ShellNext, HostNext, OpNext

LEMMA QuitStays ==
  ASSUME ShellTyped, [ShellNext]_shellVars, quit' = "no" PROVE quit = "no"
<1>1. CASE UNCHANGED shellVars
  BY <1>1 DEF shellVars
<1>2. CASE WindowLoads \/ WindowFails \/ BootAttaches \/ BootFails \/ QuitAsked \/ Exits
  BY <1>2 DEF WindowLoads, WindowFails, BootAttaches, BootFails, QuitAsked, Exits
<1>3. CASE HostNext
  BY <1>3 DEF HostNext, HostAcks, HostRestored, StartFails, HostDies, StopEnds
<1>4. CASE PageNext
  BY <1>4, PageOnlyStep
<1>5. CASE OpNext
  BY <1>5 DEF OpNext, OpenTarget, WorkspaceClosed, Opened, OpenRefused, DialogAnswered, RestartByHand
<1> QED
  BY <1>1, <1>2, <1>3, <1>4, <1>5 DEF ShellNext

-----------------------------------------------------------------------------
(* Operations and the host. *)

LEMMA AimedStep ==
  ASSUME ShellTyped, Aimed, [ShellNext]_shellVars PROVE Aimed'
<1> USE DEF Aimed
<1>0. host \in HostState /\ op \in OpState
  BY DEF ShellTyped
<1>1. ASSUME NEW s \in {"none", "stuck", "restoring", "running", "stopping"},
             host'.state = s, op' = op \/ op' = NoOp
      PROVE  Aimed'
  BY <1>1 DEF NoOp
<1>2. CASE UNCHANGED shellVars \/ PageNext
  BY <1>2, PageOnlyStep DEF shellVars
<1>3. CASE WindowLoads \/ BootAttaches \/ BootFails \/ Exits
  BY <1>3 DEF WindowLoads, BootAttaches, BootFails, Exits
<1>4. CASE WindowFails \/ QuitAsked
  <2>1. op' = op /\ (host' = host \/ host'.state = "stopping")
    BY <1>0, <1>4 DEF WindowFails, QuitAsked, Stopped, HostState
  <2> QED
    BY <2>1
<1>5. CASE HostAcks
  <2>1. host'.state \in {"restoring", "running"} /\ host.state = "starting"
    BY <1>0, <1>5 DEF HostAcks, HostState
  <2>2. CASE host.by = "switch"
    <3>1. op' = [op EXCEPT !.pc = "opening"] /\ op.switched
      BY <1>5, <2>1, <2>2 DEF HostAcks
    <3>2. op'.pc = "opening" /\ op'.switched = op.switched /\ op'.target = op.target
      BY <1>0, <3>1 DEF OpState
    <3> QED
      BY <2>1, <3>1, <3>2
  <2>3. CASE host.by # "switch"
    <3>1. op' = op \/ op' = NoOp
      BY <1>5, <2>3 DEF HostAcks
    <3> QED
      BY <1>1, <2>1, <3>1
  <2> QED
    BY <2>2, <2>3
<1>6. CASE HostRestored
  <2>1. host'.state = "running"
    BY <1>0, <1>6 DEF HostRestored, HostState
  <2>2. op' = op \/ op' = NoOp
    BY <1>6 DEF HostRestored
  <2> QED
    BY <1>1, <2>1, <2>2
<1>7. CASE StartFails
  <2>1. host'.state \in {"stuck", "none"}
    BY <1>0, <1>7 DEF StartFails, HostState
  <2>2. op' = op \/ op' = NoOp \/ (op' = [op EXCEPT !.pc = "asking"] /\ host.by = "switch" /\ host.state = "starting")
    BY <1>7, OpFailsFacts DEF StartFails, NoOpFails
  <2>3. CASE op' = [op EXCEPT !.pc = "asking"] /\ host.by = "switch" /\ host.state = "starting"
    BY <1>0, <2>1, <2>3 DEF OpState
  <2> QED
    BY <1>1, <2>1, <2>2, <2>3
<1>8. CASE HostDies
  <2>1. host'.state = "none" \/ host'.by = "auto"
    BY <1>0, <1>8 DEF HostDies, HostState, Launched
  <2>2. op' = op \/ op' = NoOp
    BY <1>8, HostDiesFacts
  <2> QED
    BY <2>1, <2>2 DEF NoOp
<1>9. CASE StopEnds
  <2>1. CASE op.pc = "stopping"
    <3>1. op' = [op EXCEPT !.pc = "launching"]
      BY <1>9, <2>1 DEF StopEnds
    <3>2. /\ op'.pc = "launching" /\ op'.switched = op.switched /\ op'.target = op.target
          /\ op'.mode = op.mode
      BY <1>0, <3>1 DEF OpState
    <3>3. host'.by = IF op.mode = "hand" THEN "hand" ELSE "switch"
      <4>1. IF op.mode = "hand" THEN Launch(host.kind, "hand") ELSE Launch(Kind(op.target), "switch")
        BY <1>9, <2>1 DEF StopEnds
      <4>2. host.kind \in {"windows", "wsl"} /\ Kind(op.target) \in {"windows", "wsl"} /\ page \in PageState
        BY <1>0 DEF ShellTyped, HostState, Kind
      <4> QED
        BY <1>0, <4>1, <4>2, LaunchFacts
    <3>4. CASE op.mode = "hand"
      BY <3>2, <3>3, <3>4
    <3>5. CASE op.mode # "hand"
      BY <2>1, <3>2, <3>3, <3>5
    <3> QED
      BY <3>4, <3>5
  <2>2. CASE op.pc # "stopping"
    <3>1. host'.state = "none"
      BY <1>0, <1>9, <2>2 DEF StopEnds, HostState
    <3>2. op' = op \/ op' = NoOp
      BY <1>9, <2>2, OpFailsFacts DEF StopEnds, NoOpFails
    <3> QED
      BY <1>1, <3>1, <3>2
  <2> QED
    BY <2>1, <2>2
<1>10. ASSUME NEW t \in Targets, NEW m \in {"open", "restore"}, Begin(t, m) PROVE Aimed'
  <2>1. CASE HostRuns /\ UNCHANGED host /\ op' = [pc |-> "opening", mode |-> m, target |-> t, switched |-> FALSE]
    BY <2>1 DEF HostRuns
  <2>2. CASE /\ op' = [pc |-> "stopping", mode |-> m, target |-> t, switched |-> TRUE]
             /\ host' = [host EXCEPT !.state = "stopping"]
    <3>1. host'.state = "stopping"
      BY <1>0, <2>2 DEF HostState
    <3> QED
      BY <2>2, <3>1
  <2>3. CASE op' = [pc |-> "launching", mode |-> m, target |-> t, switched |-> TRUE] /\ Launch(Kind(t), "switch")
    <3>1. host'.by = "switch"
      BY <1>0, <2>3, LaunchFacts, NamesType DEF ShellTyped
    <3> QED
      BY <2>3, <3>1
  <2> QED
    BY <1>10, <2>1, <2>2, <2>3, OpensIn
<1>11. ASSUME NEW t \in Targets, OpenTarget(t) PROVE Aimed'
  BY <1>10, <1>11 DEF OpenTarget
<1>12. ASSUME NEW t \in Targets, WorkspaceClosed(t) PROVE Aimed'
  <2>1. host'.state = "running" /\ op' = op
    BY <1>0, <1>12 DEF WorkspaceClosed, HostState
  <2> QED
    BY <1>1, <2>1
<1>13. CASE Opened \/ OpenRefused
  <2>1. host'.state \in {"restoring", "running"}
    BY <1>0, <1>13 DEF Opened, OpenRefused, HostRuns, HostState
  <2>2. op' = NoOp
    BY <1>13, OpFailsFacts DEF Opened, OpenRefused
  <2> QED
    BY <1>1, <2>1, <2>2
<1>14. CASE DialogAnswered
  <2>1. CASE \E t \in Targets, m \in {"open", "restore"} : Begin(t, m)
    BY <1>10, <2>1
  <2>2. CASE /\ Launch("windows", "plain")
             /\ op' = [op EXCEPT !.pc = "launching", !.mode = "plain", !.switched = FALSE]
    <3>1. host'.by = "plain" /\ op'.pc = "launching" /\ op'.switched = FALSE
      BY <1>0, <2>2 DEF Launch, Launched, OpState
    <3> QED
      BY <3>1
  <2>3. "linux" \in Targets /\ "there" \in Targets /\ (active # Nothing => active.target \in Targets)
    BY DEF Targets, ActiveState, ShellTyped
  <2> QED
    BY <1>14, <2>1, <2>2, <2>3 DEF DialogAnswered
<1>15. CASE RestartByHand
  <2>1. op'.mode = "hand" /\ op'.switched = FALSE /\ op'.pc \in {"stopping", "launching"}
    BY <1>15 DEF RestartByHand, NoOp
  <2>2. host'.state = "stopping" \/ host'.by = "hand"
    <3>1. host' = [host EXCEPT !.state = "stopping"] \/ Launch(host.kind, "hand")
      BY <1>15 DEF RestartByHand
    <3>2. host.kind \in {"windows", "wsl"} /\ page \in PageState
      BY <1>0 DEF ShellTyped, HostState
    <3>3. [host EXCEPT !.state = "stopping"].state = "stopping"
      BY <1>0 DEF HostState
    <3> QED
      BY <1>0, <3>1, <3>2, <3>3, LaunchFacts
  <2> QED
    BY <2>1, <2>2
<1> QED
  BY <1>2, <1>3, <1>4, <1>5, <1>6, <1>7, <1>8, <1>9, <1>11, <1>12, <1>13, <1>14, <1>15
  DEF ShellNext, HostNext, OpNext


-----------------------------------------------------------------------------
(* The window and the first host. *)

LEMMA PageStands ==
  ASSUME ShellTyped, WindowFails \/ BootAttaches \/ BootFails \/ Exits \/ HostNext \/ OpNext
  PROVE  page'.state = page.state /\ page'.hung = page.hung /\ timer' = timer /\ window' = window
<1> USE DEF ShellTyped
<1>0. host.kind \in {"windows", "wsl"} /\ (active # Nothing => active.target \in Targets)
  BY DEF HostState, ActiveState
<1>1. timer' = timer /\ window' = window
  BY DEF WindowFails, BootAttaches, BootFails, Exits, HostNext, HostAcks, HostRestored, StartFails, HostDies,
         StopEnds, OpNext, OpenTarget, WorkspaceClosed, Opened, OpenRefused, DialogAnswered, RestartByHand
<1>2. CASE \/ UNCHANGED page
           \/ \E n \in {"connecting", "connected", "disconnected"} : Announce(n)
           \/ \E s \in BOOLEAN : AttachPort(s)
           \/ \E k \in {"windows", "wsl"}, b \in {"auto", "hand", "switch", "plain"} : Launch(k, b)
  BY <1>1, <1>2, AnnounceFacts, AttachFacts, LaunchFacts
<1>3. CASE \E s \in BOOLEAN : page' = [page EXCEPT !.shows = s]
  BY <1>1, <1>3 DEF PageState
<1>4. CASE WindowFails \/ BootAttaches \/ BootFails \/ Exits
  BY <1>2, <1>4 DEF WindowFails, BootAttaches, BootFails, Exits
<1>5. CASE HostAcks \/ HostRestored \/ StartFails \/ HostDies
  BY <1>2, <1>5 DEF HostAcks, HostRestored, StartFails, HostDies
<1>6. CASE StopEnds
  BY <1>0, <1>2, <1>6 DEF StopEnds, Kind
<1>7. ASSUME NEW t \in Targets, NEW m, Begin(t, m)
      PROVE  page'.state = page.state /\ page'.hung = page.hung /\ timer' = timer /\ window' = window
  BY <1>2, <1>7, NamesType DEF Begin
<1>8. ASSUME NEW t \in Targets, OpenTarget(t) \/ WorkspaceClosed(t)
      PROVE  page'.state = page.state /\ page'.hung = page.hung /\ timer' = timer /\ window' = window
  BY <1>3, <1>7, <1>8 DEF OpenTarget, WorkspaceClosed
<1>9. CASE Opened \/ OpenRefused
  BY <1>2, <1>3, <1>9 DEF Opened, OpenRefused
<1>10. CASE DialogAnswered
  <2>1. "linux" \in Targets /\ "there" \in Targets
    BY DEF Targets
  <2> QED
    BY <1>0, <1>2, <1>7, <1>10, <2>1 DEF DialogAnswered
<1>11. CASE RestartByHand
  BY <1>0, <1>2, <1>11 DEF RestartByHand
<1> QED
  BY <1>4, <1>5, <1>6, <1>8, <1>9, <1>10, <1>11 DEF HostNext, OpNext

LEMMA BootKept ==
  ASSUME HostNext \/ OpNext \/ Exits PROVE boot' = boot
  BY DEF HostNext, HostAcks, HostRestored, StartFails, HostDies, StopEnds, OpNext, OpenTarget, WorkspaceClosed,
         Opened, OpenRefused, DialogAnswered, RestartByHand, Exits

LEMMA WindowedStep ==
  ASSUME ShellTyped, Windowed, [ShellNext]_shellVars PROVE Windowed'
<1> USE DEF Windowed
<1>0. page \in PageState
  BY DEF ShellTyped
<1>q. quit' = "no" => quit = "no"
  BY QuitStays
<1>1. CASE UNCHANGED shellVars
  BY <1>1 DEF shellVars
<1>2. CASE WindowFails \/ BootAttaches \/ BootFails
  <2>1. page'.state = page.state /\ timer' = timer /\ window' = window
    BY <1>2, PageStands
  <2>2. CASE WindowFails
    BY <2>1, <2>2 DEF WindowFails
  <2>3. CASE BootAttaches
    <3>1. boot = "waiting" /\ quit = "no" /\ boot' = "serving"
      BY <2>3 DEF BootAttaches
    <3> QED
      BY <2>1, <3>1
  <2>4. CASE BootFails
    BY <2>1, <2>4 DEF BootFails
  <2> QED
    BY <1>2, <2>2, <2>3, <2>4
<1>3. CASE HostNext \/ OpNext \/ Exits
  BY <1>3, <1>q, PageStands, BootKept
<1>4. CASE WindowLoads
  BY <1>4 DEF WindowLoads
<1>5. CASE QuitAsked
  <2>1. quit' # "no"
    BY <1>5 DEF QuitAsked
  <2> QED
    BY <1>5, <2>1, NewPageType DEF QuitAsked
<1>6. CASE PageNext
  <2>1. UNCHANGED <<boot, window, quit>>
    BY <1>6, PageOnlyStep
  <2>2. timer' => timer \/ Serving
    BY <1>6 DEF PageNext, PageLoads, PageReloads, PageCrashes, PageHangs, PageResponds, TimerFires, TimerCleared
  <2>3. ~window => page'.state = page.state
    <3>1. CASE PageHangs \/ PageResponds
      BY <1>0, <3>1 DEF PageHangs, PageResponds, PageState
    <3>2. CASE PageLoads \/ PageReloads \/ PageCrashes
      BY <3>2 DEF PageLoads, PageReloads, PageCrashes
    <3>3. CASE TimerFires
      BY <3>3 DEF TimerFires
    <3> QED
      BY <1>6, <3>1, <3>2, <3>3 DEF PageNext
  <2> QED
    BY <2>1, <2>2, <2>3 DEF Serving
<1> QED
  BY <1>1, <1>2, <1>3, <1>4, <1>5, <1>6 DEF ShellNext

\* A timer runs for a page that hangs.
LEMMA TimerStep ==
  ASSUME ShellTyped, Windowed, timer => page.hung, quit = "no", [ShellNext]_shellVars
  PROVE  quit' = "no" => (timer' => page'.hung)
<1> USE DEF Windowed
<1>0. page \in PageState
  BY DEF ShellTyped
<1>1. CASE UNCHANGED shellVars
  BY <1>1 DEF shellVars
<1>2. CASE WindowFails \/ BootAttaches \/ BootFails \/ HostNext \/ OpNext \/ Exits
  BY <1>2, PageStands
<1>3. CASE WindowLoads
  BY <1>3 DEF WindowLoads
<1>4. CASE QuitAsked
  BY <1>4 DEF QuitAsked
<1>5. CASE PageNext
  BY <1>0, <1>5 DEF PageNext, PageLoads, PageReloads, PageCrashes, PageHangs, PageResponds, TimerFires,
                    TimerCleared, PageState
<1> QED
  BY <1>1, <1>2, <1>3, <1>4, <1>5 DEF ShellNext

LEMMA BootingStep ==
  ASSUME ShellTyped, Windowed, Booting, [ShellNext]_shellVars PROVE Booting'
<1> USE DEF Booting
<1>0. host \in HostState /\ page \in PageState
  BY DEF ShellTyped
<1>k. host.kind \in {"windows", "wsl"} /\ (active # Nothing => active.target \in Targets)
  BY DEF HostState, ActiveState, ShellTyped
<1>1. CASE UNCHANGED shellVars \/ PageNext
  BY <1>1, PageOnlyStep DEF shellVars
<1>2. CASE WindowLoads \/ BootAttaches \/ BootFails \/ Exits
  <2>1. UNCHANGED <<host, ready, active>>
    BY <1>2 DEF WindowLoads, BootAttaches, BootFails, Exits
  <2>2. ready = "pending" => boot' \in {"loading", "waiting"} \/ ~window'
    BY <1>2 DEF WindowLoads, BootAttaches, BootFails, Exits
  <2> QED
    BY <2>1, <2>2
<1>3. CASE WindowFails
  <2>1. host'.state # "starting"
    BY <1>0, <1>3 DEF WindowFails, Exists, HostState
  <2> QED
    BY <1>3, <2>1 DEF WindowFails, Windowed
<1>4. CASE QuitAsked
  <2>1. host'.state # "starting"
    BY <1>0, <1>4 DEF QuitAsked, Stopped, Exists, HostState
  <2> QED
    BY <1>4, <2>1 DEF QuitAsked
<1>5. CASE HostAcks
  <2>1. host'.state # "starting"
    BY <1>0, <1>5 DEF HostAcks, HostState
  <2> QED
    BY <1>5, <2>1 DEF HostAcks
<1>6. CASE HostRestored
  <2>1. host'.state # "starting"
    BY <1>0, <1>6 DEF HostRestored, HostState
  <2> QED
    BY <1>6, <2>1 DEF HostRestored
<1>7. CASE StartFails
  <2>1. host'.state # "starting"
    BY <1>0, <1>7 DEF StartFails, HostState
  <2> QED
    BY <1>7, <2>1 DEF StartFails
<1>8. CASE HostDies
  <2>1. host'.state # "starting" \/ host'.by = "auto"
    BY <1>0, <1>8 DEF HostDies, HostState, Launched
  <2> QED
    BY <1>8, <2>1 DEF HostDies
<1>9. CASE StopEnds
  <2>1. CASE op.pc = "stopping"
    <3>1. \E k \in {"windows", "wsl"}, b \in {"hand", "switch"} : Launch(k, b)
      BY <1>9, <1>k, <2>1 DEF StopEnds, Kind
    <3>2. host'.by # "boot"
      BY <1>0, <3>1, LaunchFacts
    <3> QED
      BY <1>9, <2>1, <3>2 DEF StopEnds
  <2>2. CASE op.pc # "stopping"
    <3>1. host'.state # "starting"
      BY <1>0, <1>9, <2>2 DEF StopEnds, HostState
    <3> QED
      BY <1>9, <2>2, <3>1 DEF StopEnds
  <2> QED
    BY <2>1, <2>2
<1>10. ASSUME NEW t \in Targets, NEW m, Begin(t, m)
       PROVE  host' = host \/ host'.state # "starting" \/ host'.by # "boot"
  <2>1. host' = host \/ host' = [host EXCEPT !.state = "stopping"] \/ Launch(Kind(t), "switch")
    BY <1>10 DEF Begin
  <2>2. [host EXCEPT !.state = "stopping"].state = "stopping"
    BY <1>0 DEF HostState
  <2> QED
    BY <1>0, <2>1, <2>2, NamesType, LaunchFacts
<1>11. ASSUME NEW t \in Targets, OpenTarget(t) PROVE Booting'
  BY <1>10, <1>11 DEF OpenTarget
<1>12. ASSUME NEW t \in Targets, WorkspaceClosed(t) PROVE Booting'
  <2>1. host'.state = "running"
    BY <1>0, <1>12 DEF WorkspaceClosed, HostState
  <2> QED
    BY <1>12, <2>1 DEF WorkspaceClosed
<1>13. CASE Opened \/ OpenRefused
  <2>1. host'.state # "starting"
    BY <1>0, <1>13 DEF Opened, OpenRefused, HostRuns, HostState
  <2>2. UNCHANGED <<ready, boot, window>>
    BY <1>13 DEF Opened, OpenRefused
  <2> QED
    BY <2>1, <2>2
<1>14. CASE DialogAnswered
  <2>1. "linux" \in Targets /\ "there" \in Targets
    BY DEF Targets
  <2>2. host' = host \/ host'.state # "starting" \/ host'.by # "boot"
    BY <1>0, <1>k, <1>10, <1>14, <2>1, LaunchFacts DEF DialogAnswered
  <2> QED
    BY <1>14, <2>2 DEF DialogAnswered
<1>15. CASE RestartByHand
  <2>1. host' = [host EXCEPT !.state = "stopping"] \/ Launch(host.kind, "hand")
    BY <1>15 DEF RestartByHand
  <2>2. [host EXCEPT !.state = "stopping"].state = "stopping"
    BY <1>0 DEF HostState
  <2>3. host'.state # "starting" \/ host'.by # "boot"
    BY <1>0, <1>k, <2>1, <2>2, LaunchFacts
  <2> QED
    BY <1>15, <2>3 DEF RestartByHand
<1> QED
  BY <1>1, <1>2, <1>3, <1>4, <1>5, <1>6, <1>7, <1>8, <1>9, <1>11, <1>12, <1>13, <1>14, <1>15
  DEF ShellNext, HostNext, OpNext

-----------------------------------------------------------------------------
(* Quit. *)

LEMMA LeftStep ==
  ASSUME ShellTyped, Left, [ShellNext]_shellVars PROVE Left'
<1> USE DEF Left
<1>0. host \in HostState /\ page \in PageState /\ quit \in {"no", "stopping", "done", "exited"}
  BY DEF ShellTyped
<1>k. host.kind \in {"windows", "wsl"}
  BY DEF HostState, ShellTyped
<1>g. gaps \subseteq gaps'
  BY GapsGrow
<1>n. ASSUME quit' = "no" PROVE Left'
  BY <1>n
<1>s. ASSUME host'.state = host.state, quit' = quit PROVE Left'
  BY <1>g, <1>s
<1>1. CASE UNCHANGED shellVars \/ PageNext
  BY <1>1, <1>s, PageOnlyStep DEF shellVars
<1>2. CASE WindowLoads \/ WindowFails \/ BootAttaches
  BY <1>2, <1>n DEF WindowLoads, WindowFails, BootAttaches
<1>3. CASE BootFails
  BY <1>3, <1>s DEF BootFails
<1>4. CASE Exits
  BY <1>4, <1>g DEF Exits
<1>5. CASE QuitAsked
  <2>1. host'.state \in {"stopping", "none"}
    BY <1>0, <1>5 DEF QuitAsked, Stopped, Exists, HostRuns, HostState
  <2> QED
    BY <1>5, <2>1 DEF QuitAsked
<1>6. ASSUME quit' = quit, quit # "no", "launched in quit" \notin gaps
      PROVE  host.state \in {"stopping", "none"}
  BY <1>0, <1>6
<1>7. CASE HostAcks \/ HostRestored \/ StartFails \/ HostDies
  <2>1. quit' = quit /\ (quit = "no" \/ host.state \in {"starting", "restoring"})
    BY <1>7 DEF HostAcks, HostRestored, StartFails, HostDies
  <2> QED
    BY <1>6, <1>g, <1>n, <2>1
<1>8. CASE StopEnds
  <2>1. host.state = "stopping" /\ quit' = IF quit = "stopping" THEN "done" ELSE quit
    BY <1>8 DEF StopEnds
  <2>2. CASE op.pc = "stopping"
    <3>1. \E k \in {"windows", "wsl"}, b \in {"hand", "switch"} : Launch(k, b)
      BY <1>8, <1>k, <2>2 DEF StopEnds, Kind
    <3>2. quit # "no" => "launched in quit" \in gaps'
      BY <1>0, <3>1, LaunchFacts
    <3> QED
      BY <2>1, <3>2
  <2>3. CASE op.pc # "stopping"
    <3>1. host'.state = "none"
      BY <1>0, <1>8, <2>3 DEF StopEnds, HostState
    <3> QED
      BY <1>0, <1>g, <2>1, <3>1
  <2> QED
    BY <2>2, <2>3
<1>9. ASSUME NEW t \in Targets, OpenTarget(t) \/ WorkspaceClosed(t) PROVE Left'
  BY <1>9, <1>n DEF OpenTarget, WorkspaceClosed, MayClick
<1>10. CASE RestartByHand
  BY <1>10, <1>n DEF RestartByHand, MayClick
<1>11. CASE Opened
  <2>1. host'.state = host.state
    BY <1>0, <1>11 DEF Opened, HostState
  <2> QED
    BY <1>11, <1>s, <2>1 DEF Opened
<1>12. CASE OpenRefused
  BY <1>12, <1>s DEF OpenRefused
<1>13. CASE DialogAnswered
  <2>1. quit' = quit
    BY <1>13 DEF DialogAnswered
  <2>2. ASSUME NEW t \in Targets, NEW m, Begin(t, m)
        PROVE  Exists \/ Launch(Kind(t), "switch")
    BY <2>2 DEF Begin, Exists
  <2>3. "linux" \in Targets /\ "there" \in Targets /\ (active # Nothing => active.target \in Targets)
    BY DEF Targets, ActiveState, ShellTyped
  <2>4. Exists \/ \E k \in {"windows", "wsl"}, b \in {"plain", "switch"} : Launch(k, b)
    BY <1>13, <2>2, <2>3, NamesType DEF DialogAnswered
  <2>5. CASE Exists
    BY <1>6, <1>g, <1>n, <2>1, <2>5 DEF Exists, HostRuns
  <2>6. CASE \E k \in {"windows", "wsl"}, b \in {"plain", "switch"} : Launch(k, b)
    <3>1. quit # "no" => "launched in quit" \in gaps'
      BY <1>0, <2>6, LaunchFacts
    <3> QED
      BY <2>1, <3>1
  <2> QED
    BY <2>4, <2>5, <2>6
<1> QED
  BY <1>1, <1>2, <1>3, <1>4, <1>5, <1>7, <1>8, <1>9, <1>10, <1>11, <1>12, <1>13
  DEF ShellNext, HostNext, OpNext

-----------------------------------------------------------------------------
(* Before the quit: the host and the operation. *)

LEMMA PacedStep ==
  ASSUME ShellTyped, Aimed, Windowed, Paced, quit = "no", [ShellNext]_shellVars
  PROVE  quit' = "no" => Paced'
<1> USE DEF Paced
<1>0. host \in HostState /\ page \in PageState /\ op \in OpState
  BY DEF ShellTyped
<1>k. host.kind \in {"windows", "wsl"} /\ (active # Nothing => active.target \in Targets)
  BY DEF HostState, ActiveState, ShellTyped
<1>b. (boot = "failed" /\ ~window) => (quit' = "no" => boot' = "failed" /\ ~window')
  <2>1. CASE UNCHANGED shellVars \/ PageNext
    BY <2>1, PageOnlyStep DEF shellVars
  <2>2. CASE WindowLoads \/ WindowFails \/ BootAttaches \/ BootFails \/ QuitAsked
    BY <2>2 DEF WindowLoads, WindowFails, BootAttaches, BootFails, QuitAsked
  <2>3. CASE HostNext \/ OpNext \/ Exits
    BY <2>3, PageStands, BootKept
  <2> QED
    BY <2>1, <2>2, <2>3 DEF ShellNext
<1>1. CASE UNCHANGED <<host, op>>
  BY <1>1, <1>b
<1>2. CASE PageNext \/ UNCHANGED shellVars \/ WindowLoads \/ BootAttaches \/ BootFails \/ Exits
  BY <1>1, <1>2, PageOnlyStep DEF shellVars, WindowLoads, BootAttaches, BootFails, Exits
<1>3. CASE WindowFails
  <2>1. host' = [host EXCEPT !.state = IF Exists THEN "stopping" ELSE @] /\ op' = op
    BY <1>3 DEF WindowFails
  <2>2. boot' = "failed" /\ ~window'
    BY <1>3 DEF WindowFails, Windowed
  <2>3. host'.state = host.state \/ (Exists /\ host'.state = "stopping")
    BY <1>0, <2>1 DEF HostState
  <2> QED
    BY <2>1, <2>2, <2>3 DEF Exists, HostRuns
<1>4. CASE HostAcks
  <2>1. host.state = "starting" /\ host'.state \in {"restoring", "running"}
    BY <1>0, <1>4 DEF HostAcks, HostState
  <2>2. op' = op \/ op' = NoOp \/ op' = [op EXCEPT !.pc = "opening"]
    BY <1>4 DEF HostAcks
  <2>3. [op EXCEPT !.pc = "opening"].pc = "opening"
    BY <1>0 DEF OpState
  <2>4. op.pc \notin {"stopping", "asking"}
    BY <2>1
  <2>5. op'.pc \notin {"stopping", "asking"} /\ (op'.pc = "none" => op' = NoOp)
    <3>1. CASE op' = op
      BY <2>4, <3>1
    <3>2. CASE op' = NoOp
      BY <3>2 DEF NoOp
    <3>3. CASE op' = [op EXCEPT !.pc = "opening"]
      <4>1. op'.pc = "opening"
        BY <2>3, <3>3
      <4> QED
        BY <4>1
    <3> QED
      BY <2>2, <3>1, <3>2, <3>3
  <2> QED
    BY <2>1, <2>5
<1>5. CASE HostRestored
  <2>1. host.state = "restoring" /\ host'.state = "running"
    BY <1>0, <1>5 DEF HostRestored, HostState
  <2>2. op' = op \/ op' = NoOp
    BY <1>5 DEF HostRestored
  <2> QED
    BY <2>1, <2>2 DEF NoOp
<1>6. CASE StartFails
  <2>1. host.state = "starting" /\ host'.state \in {"none", "stuck"}
    BY <1>0, <1>6 DEF StartFails, HostState
  <2>2. op' = op \/ op' = NoOp \/ (op' = [op EXCEPT !.pc = "asking"] /\ host'.state = "none")
    BY <1>6, OpFailsFacts DEF StartFails, NoOpFails
  <2>3. [op EXCEPT !.pc = "asking"].pc = "asking"
    BY <1>0 DEF OpState
  <2>4. op'.pc # "stopping" /\ (op'.pc = "asking" => host'.state = "none") /\ (op'.pc = "none" => op' = NoOp)
    <3>1. CASE op' = op
      BY <2>1, <3>1
    <3>2. CASE op' = NoOp
      BY <3>2 DEF NoOp
    <3>3. CASE op' = [op EXCEPT !.pc = "asking"] /\ host'.state = "none"
      <4>1. op'.pc = "asking"
        BY <2>3, <3>3
      <4> QED
        BY <3>3, <4>1
    <3> QED
      BY <2>2, <3>1, <3>2, <3>3
  <2> QED
    BY <2>1, <2>4
<1>7. CASE HostDies
  <2>1. Exists /\ host'.state \in {"none", "starting"}
    BY <1>0, <1>7 DEF HostDies, HostState, Launched
  <2>2. op' = op \/ op' = NoOp
    BY <1>7, HostDiesFacts
  <2>3. op.pc \notin {"stopping", "asking"}
    BY <2>1 DEF Exists, HostRuns
  <2> QED
    BY <2>1, <2>2, <2>3 DEF NoOp
<1>8. CASE StopEnds
  <2>1. CASE op.pc = "stopping"
    <3>1. \E k \in {"windows", "wsl"}, b \in {"hand", "switch"} : Launch(k, b)
      BY <1>8, <1>k, <2>1 DEF StopEnds, Kind
    <3>2. host'.state = "starting"
      BY <1>0, <3>1, LaunchFacts
    <3>3. op' = [op EXCEPT !.pc = "launching"]
      BY <1>8, <2>1 DEF StopEnds
    <3>4. op'.pc = "launching"
      BY <1>0, <3>3 DEF OpState
    <3> QED
      BY <3>2, <3>4
  <2>2. CASE op.pc # "stopping"
    <3>1. host'.state = "none"
      BY <1>0, <1>8, <2>2 DEF StopEnds, HostState
    <3>2. op' = op \/ op' = NoOp
      BY <1>8, <2>2, OpFailsFacts DEF StopEnds, NoOpFails
    <3> QED
      BY <2>2, <3>1, <3>2 DEF NoOp
  <2> QED
    BY <2>1, <2>2
<1>9. ASSUME NEW t \in Targets, NEW m \in {"open", "restore"}, Begin(t, m) PROVE Paced'
  <2>1. [host EXCEPT !.state = "stopping"].state = "stopping"
    BY <1>0 DEF HostState
  <2>2. \/ op'.pc = "opening" /\ HostRuns /\ host' = host
        \/ op'.pc = "stopping" /\ host'.state = "stopping"
        \/ op'.pc = "launching" /\ Launch(Kind(t), "switch")
    <3>1. CASE HostRuns /\ op' = [pc |-> "opening", mode |-> m, target |-> t, switched |-> FALSE] /\ UNCHANGED host
      BY <3>1
    <3>2. CASE /\ op' = [pc |-> "stopping", mode |-> m, target |-> t, switched |-> TRUE]
               /\ host' = [host EXCEPT !.state = "stopping"]
      BY <2>1, <3>2
    <3>3. CASE op' = [pc |-> "launching", mode |-> m, target |-> t, switched |-> TRUE] /\ Launch(Kind(t), "switch")
      BY <3>3
    <3> QED
      BY <1>9, <3>1, <3>2, <3>3, OpensIn
  <2>3. Launch(Kind(t), "switch") => host'.state = "starting"
    BY <1>0, LaunchFacts, NamesType
  <2> QED
    BY <2>2, <2>3 DEF HostRuns
<1>10. ASSUME NEW t \in Targets, OpenTarget(t) PROVE Paced'
  BY <1>9, <1>10 DEF OpenTarget
<1>11. ASSUME NEW t \in Targets, WorkspaceClosed(t) PROVE Paced'
  <2>1. op' = op /\ op = NoOp /\ host'.state = "running"
    BY <1>0, <1>11 DEF WorkspaceClosed, MayClick, HostState
  <2> QED
    BY <2>1 DEF NoOp
<1>12. CASE Opened \/ OpenRefused
  <2>1. op' = NoOp /\ host'.state = host.state /\ HostRuns
    BY <1>0, <1>12, OpFailsFacts DEF Opened, OpenRefused, HostState
  <2> QED
    BY <2>1 DEF NoOp, HostRuns
<1>13. CASE DialogAnswered
  <2>1. CASE \E t \in Targets, m \in {"open", "restore"} : Begin(t, m)
    BY <1>9, <2>1
  <2>2. CASE /\ Launch("windows", "plain")
             /\ op' = [op EXCEPT !.pc = "launching", !.mode = "plain", !.switched = FALSE]
    <3>1. op'.pc = "launching"
      BY <1>0, <2>2 DEF OpState
    <3>2. host'.state = "starting"
      BY <1>0, <2>2, LaunchFacts
    <3> QED
      BY <3>1, <3>2
  <2>3. "linux" \in Targets /\ "there" \in Targets
    BY DEF Targets
  <2> QED
    BY <1>13, <1>k, <2>1, <2>2, <2>3 DEF DialogAnswered
<1>14. CASE RestartByHand
  <2>1. op' = [NoOp EXCEPT !.pc = IF Exists THEN "stopping" ELSE "launching", !.mode = "hand"]
    BY <1>14 DEF RestartByHand
  <2>2. op'.pc = IF Exists THEN "stopping" ELSE "launching"
    BY <2>1 DEF NoOp
  <2>3. IF Exists THEN host' = [host EXCEPT !.state = "stopping"] ELSE Launch(host.kind, "hand")
    BY <1>14 DEF RestartByHand
  <2>4. [host EXCEPT !.state = "stopping"].state = "stopping"
    BY <1>0 DEF HostState
  <2>5. host'.state = IF Exists THEN "stopping" ELSE "starting"
    BY <1>0, <1>k, <2>3, <2>4, LaunchFacts
  <2> QED
    BY <2>2, <2>5
<1>15. CASE QuitAsked
  BY <1>15 DEF QuitAsked
<1> QED
  BY <1>2, <1>3, <1>4, <1>5, <1>6, <1>7, <1>8, <1>10, <1>11, <1>12, <1>13, <1>14, <1>15
  DEF ShellNext, HostNext, OpNext

-----------------------------------------------------------------------------
(* Before the quit: what the page shows. *)

\* What a page is told by a host that starts, and what it has of one that does not change.
LEMMA StillTold ==
  ASSUME Told, host'.state = host.state, host'.run = host.run, page'.told = page.told, page'.port = page.port
  PROVE  Told'
  BY DEF Told, HostRuns

LEMMA ServedByHost ==
  ASSUME ShellTyped, Aimed, Windowed, Booting, Paced, Served, quit = "no", HostNext
  PROVE  Served'
<1> USE DEF Served
<1>0. host \in HostState /\ page \in PageState /\ op \in OpState
  BY DEF ShellTyped
<1>k. host.kind \in {"windows", "wsl"}
  BY <1>0 DEF HostState
<1>g. gaps \subseteq gaps'
  BY GapsGrow DEF ShellNext
<1>b. boot' = boot /\ window' = window /\ page'.state = page.state
  BY BootKept, PageStands
<1>w. page.state = "loaded" => window
  BY DEF Windowed
<1>d. ASSUME Announce("disconnected") PROVE page.state = "loaded" => Told'
  BY <1>0, <1>w, <1>d, AnnounceFacts DEF Told
<1>1. CASE HostAcks
  <2>1. CASE host.by \in {"auto", "hand"}
    <3>1. host'.state = "restoring"
      BY <1>0, <1>1, <2>1 DEF HostAcks, HostState
    <3> QED
      BY <3>1
  <2>2. CASE host.by = "boot"
    <3>1. ready = "pending"
      BY <1>1, <2>2 DEF HostAcks, Booting
    <3> QED
      BY <1>b, <1>w, <3>1 DEF Booting
  <2>3. CASE host.by = "switch"
    <3>1. op' = [op EXCEPT !.pc = "opening"] /\ op.switched
      BY <1>1, <2>3 DEF HostAcks, Aimed
    <3>2. op'.switched
      BY <1>0, <3>1 DEF OpState
    <3> QED
      BY <3>2 DEF Underway
  <2>4. CASE host.by = "plain"
    <3>1. AttachPort(FALSE) /\ host' = [host EXCEPT !.state = "running"]
      BY <1>1, <2>4 DEF HostAcks
    <3>2. host'.state = "running" /\ host'.run = host.run
      BY <1>0, <3>1 DEF HostState
    <3> QED
      BY <1>0, <1>b, <1>w, <3>1, <3>2, AttachFacts DEF Told, HostRuns
  <2> QED
    BY <1>0, <2>1, <2>2, <2>3, <2>4 DEF HostState
<1>2. CASE HostRestored
  <2>1. PICK o \in SUBSET Targets, s \in BOOLEAN :
          host' = [host EXCEPT !.state = "running", !.open = o] /\ AttachPort(s)
    BY <1>2 DEF HostRestored, ShellTyped
  <2>2. host'.state = "running" /\ host'.run = host.run
    BY <1>0, <2>1 DEF HostState
  <2> QED
    BY <1>0, <1>b, <1>w, <2>1, <2>2, AttachFacts DEF Told, HostRuns
<1>3. CASE StartFails
  <2>1. CASE host.by \in {"auto", "switch"}
    BY <1>3, <1>b, <1>d, <2>1 DEF StartFails
  <2>2. CASE host.by = "boot"
    <3>1. ready = "pending"
      BY <1>3, <2>2 DEF StartFails, Booting
    <3> QED
      BY <1>b, <1>w, <3>1 DEF Booting
  <2>3. CASE host.by \in {"hand", "plain"}
    <3>1. "start not told" \in gaps'
      BY <1>3, <2>3 DEF StartFails, Met, NoOpFails
    <3> QED
      BY <3>1 DEF Stranding
  <2> QED
    BY <1>0, <2>1, <2>2, <2>3 DEF HostState
<1>4. CASE HostDies
  <2>1. host.state \in ExitTold
    BY <1>4 DEF HostDies, Exists, HostRuns, ExitTold
  <2>2. PICK again \in BOOLEAN :
          /\ host' = IF again THEN Launched(host.kind, "auto") ELSE [host EXCEPT !.state = "none", !.open = {}]
          /\ Announce(IF again /\ ~op.switched THEN "connecting" ELSE "disconnected")
    BY <1>4, <2>1 DEF HostDies
  <2>3. CASE again
    <3>1. host'.state = "starting"
      BY <2>2, <2>3 DEF Launched
    <3> QED
      BY <3>1
  <2>4. CASE ~again
    BY <1>b, <1>d, <2>2, <2>4
  <2> QED
    BY <2>3, <2>4
<1>5. CASE StopEnds
  <2>1. CASE op.pc = "stopping"
    <3>1. \E k \in {"windows", "wsl"}, b \in {"hand", "switch"} : Launch(k, b)
      BY <1>5, <1>k, <2>1 DEF StopEnds, Kind
    <3>2. host'.state = "starting"
      BY <1>0, <3>1, LaunchFacts
    <3> QED
      BY <3>2
  <2>2. CASE op.pc # "stopping"
    <3>1. ~window
      BY <1>5, <2>2 DEF StopEnds, Paced
    <3> QED
      BY <1>b, <1>w, <3>1
  <2> QED
    BY <2>1, <2>2
<1> QED
  BY <1>1, <1>2, <1>3, <1>4, <1>5 DEF HostNext

LEMMA ServedByOp ==
  ASSUME ShellTyped, Aimed, Windowed, Paced, Served, quit = "no", OpNext
  PROVE  Served'
<1> USE DEF Served
<1>0. host \in HostState /\ page \in PageState /\ op \in OpState
  BY DEF ShellTyped
<1>k. host.kind \in {"windows", "wsl"} /\ (active # Nothing => active.target \in Targets)
  BY DEF HostState, ActiveState, ShellTyped
<1>g. gaps \subseteq gaps'
  BY GapsGrow DEF ShellNext
<1>b. boot' = boot /\ window' = window /\ page'.state = page.state
  BY BootKept, PageStands
<1>w. page.state = "loaded" => window
  BY DEF Windowed
\* An operation that nothing to the page is owed for ends, or begins, in a host that stays.
<1>s. ASSUME ~Underway, host'.state = host.state, host'.run = host.run, page'.told = page.told,
             page'.port = page.port
      PROVE  Served'
  BY <1>b, <1>g, <1>s, StillTold
<1>1. ASSUME NEW t \in Targets, NEW m \in {"open", "restore"}, Begin(t, m), ~Underway \/ ~HostRuns
      PROVE  Served'
  <2>1. CASE HostRuns /\ UNCHANGED <<host, page>>
    BY <1>1, <1>s, <2>1
  <2>2. CASE op' = [pc |-> "stopping", mode |-> m, target |-> t, switched |-> TRUE]
    BY <2>2 DEF Underway
  <2>3. CASE Launch(Kind(t), "switch")
    <3>1. host'.state = "starting"
      BY <1>0, <2>3, LaunchFacts, NamesType
    <3> QED
      BY <3>1
  <2> QED
    BY <1>1, <2>1, <2>2, <2>3, OpensIn
<1>2. op = NoOp => ~Underway
  BY DEF NoOp, Underway
<1>3. ASSUME NEW t \in Targets, OpenTarget(t) PROVE Served'
  BY <1>1, <1>2, <1>3 DEF OpenTarget, MayClick
<1>4. ASSUME NEW t \in Targets, WorkspaceClosed(t) PROVE Served'
  <2>1. host'.state = host.state /\ host'.run = host.run /\ page'.told = page.told /\ page'.port = page.port
    BY <1>0, <1>4 DEF WorkspaceClosed, HostState, PageState
  <2> QED
    BY <1>2, <1>4, <1>s, <2>1 DEF WorkspaceClosed, MayClick
<1>5. CASE Opened
  <2>1. host'.state = host.state /\ host'.run = host.run /\ HostRuns
    BY <1>0, <1>5 DEF Opened, HostState
  <2>2. CASE op.switched
    <3>1. AttachPort(TRUE)
      BY <1>5, <2>2 DEF Opened
    <3> QED
      BY <1>0, <1>b, <1>w, <2>1, <3>1, AttachFacts DEF Told, HostRuns
  <2>3. CASE ~op.switched
    <3>1. page'.told = page.told /\ page'.port = page.port /\ ~Underway
      BY <1>0, <1>5, <2>3 DEF Opened, PageState, Underway
    <3> QED
      BY <1>s, <2>1, <3>1
  <2> QED
    BY <2>2, <2>3
<1>6. CASE OpenRefused
  <2>1. CASE op.switched
    <3>1. Announce("disconnected")
      BY <1>6, <2>1 DEF OpenRefused
    <3> QED
      BY <1>0, <1>b, <1>w, <3>1, AnnounceFacts DEF Told
  <2>2. CASE ~op.switched
    <3>1. UNCHANGED <<page, host>> /\ ~Underway
      BY <1>6, <2>2 DEF OpenRefused, Underway
    <3> QED
      BY <1>s, <3>1
  <2> QED
    BY <2>1, <2>2
<1>7. CASE DialogAnswered
  <2>1. ~HostRuns
    BY <1>7 DEF DialogAnswered, Paced, HostRuns
  <2>2. CASE \E t \in Targets, m \in {"open", "restore"} : Begin(t, m)
    BY <1>1, <2>1, <2>2
  <2>3. CASE Launch("windows", "plain")
    <3>1. host'.state = "starting"
      BY <1>0, <2>3, LaunchFacts
    <3> QED
      BY <3>1
  <2>4. "linux" \in Targets /\ "there" \in Targets
    BY DEF Targets
  <2> QED
    BY <1>7, <1>k, <2>2, <2>3, <2>4 DEF DialogAnswered
<1>8. CASE RestartByHand
  <2>1. IF Exists THEN host' = [host EXCEPT !.state = "stopping"] ELSE Launch(host.kind, "hand")
    BY <1>8 DEF RestartByHand
  <2>2. [host EXCEPT !.state = "stopping"].state = "stopping"
    BY <1>0 DEF HostState
  <2>3. host'.state = IF Exists THEN "stopping" ELSE "starting"
    BY <1>0, <1>k, <2>1, <2>2, LaunchFacts
  <2> QED
    BY <2>3
<1> QED
  BY <1>3, <1>4, <1>5, <1>6, <1>7, <1>8 DEF OpNext

LEMMA ServedStep ==
  ASSUME ShellTyped, Aimed, Windowed, Booting, Paced, Served, quit = "no", [ShellNext]_shellVars
  PROVE  quit' = "no" => Served'
<1> USE DEF Served
<1>0. host \in HostState /\ page \in PageState
  BY DEF ShellTyped
<1>g. gaps \subseteq gaps'
  BY GapsGrow
<1>1. CASE UNCHANGED shellVars
  BY <1>1 DEF shellVars, Told, HostRuns, Underway
<1>2. CASE WindowLoads \/ QuitAsked
  BY <1>2 DEF WindowLoads, QuitAsked
<1>3. CASE WindowFails
  <2>1. page'.state # "loaded"
    BY <1>3 DEF WindowFails, Windowed
  <2> QED
    BY <2>1
<1>4. CASE BootAttaches
  <2>1. window
    BY <1>4 DEF BootAttaches, Windowed
  <2>2. CASE HostRuns
    <3>1. AttachPort(FALSE) /\ host' = host
      BY <1>4, <2>2 DEF BootAttaches
    <3> QED
      BY <1>0, <2>1, <2>2, <3>1, AttachFacts DEF Told, HostRuns
  <2>3. CASE ~HostRuns
    <3>1. "died early" \in gaps'
      BY <1>4, <2>3 DEF BootAttaches, Met
    <3> QED
      BY <3>1 DEF Stranding
  <2> QED
    BY <2>2, <2>3
<1>5. CASE BootFails
  <2>1. window /\ Announce("disconnected")
    BY <1>5 DEF BootFails, Windowed
  <2> QED
    BY <1>0, <2>1, AnnounceFacts DEF Told
<1>6. CASE Exits
  BY <1>6 DEF Exits
<1>7. CASE PageNext
  <2>1. UNCHANGED <<boot, host, op>>
    BY <1>7, PageOnlyStep
  <2>2. CASE PageHangs \/ PageResponds
    <3>1. page'.state = page.state /\ page'.told = page.told /\ page'.port = page.port
      BY <1>0, <2>2 DEF PageHangs, PageResponds, PageState
    <3> QED
      BY <1>g, <2>1, <3>1, StillTold DEF Underway
  <2>3. CASE PageLoads
    <3>1. CASE boot = "serving" /\ HostRuns
      <4>1. page'.told = "connected" /\ page'.port = host.run
        BY <1>0, <2>3, <3>1 DEF PageLoads, PageState
      <4> QED
        BY <2>1, <3>1, <4>1 DEF Told, HostRuns
    <3>2. CASE boot # "serving"
      <4>1. "reload unserved" \in gaps'
        BY <2>3, <3>2 DEF PageLoads
      <4> QED
        BY <4>1 DEF Stranding
    <3>3. CASE boot = "serving" /\ host.state \in {"none", "stuck"}
      <4>1. "down at reload" \in gaps'
        BY <2>3, <3>3 DEF PageLoads, HostRuns
      <4> QED
        BY <4>1 DEF Stranding
    <3>4. CASE host.state \in {"starting", "stopping"}
      BY <2>1, <3>4
    <3> QED
      BY <1>0, <3>1, <3>2, <3>3, <3>4 DEF HostState, HostRuns
  <2>4. CASE PageReloads \/ PageCrashes \/ TimerFires
    <3>1. page'.state # "loaded" \/ (page' = page)
      BY <2>4, NewPageType DEF PageReloads, PageCrashes, TimerFires, Recovered
    <3> QED
      BY <1>g, <2>1, <3>1, StillTold DEF Underway
  <2> QED
    BY <1>7, <2>2, <2>3, <2>4 DEF PageNext
<1> QED
  BY <1>1, <1>2, <1>3, <1>4, <1>5, <1>6, <1>7, ServedByHost, ServedByOp DEF ShellNext

-----------------------------------------------------------------------------
(* Before the quit: what is active. *)

LEMMA KeptByHost ==
  ASSUME ShellTyped, Aimed, Booting, Paced, Kept, quit = "no", HostNext
  PROVE  Kept'
<1> USE DEF Kept
<1>0. host \in HostState /\ op \in OpState /\ (active # Nothing => active.target \in Targets) /\ roots \subseteq Targets
  BY DEF ActiveState, ShellTyped
<1>g. gaps \subseteq gaps'
  BY GapsGrow DEF ShellNext
\* An operation that fails gives up what it has closed.
<1>f. ASSUME OpFails, host'.state # "running" \/ host' = host,
             active.target \in Targets /\ active.target \in roots => active.target \in roots'
      PROVE  Kept'
  <2>1. op.switched /\ active' # Nothing => "kept after failure" \in gaps'
    BY <1>f, OpFailsFacts
  <2>2. active' \in {active, Nothing}
    BY <1>f, OpFailsFacts
  <2> QED
    BY <1>0, <1>f, <1>g, <2>1, <2>2 DEF Stranding
\* Nothing is opened or forgotten.
<1>s. ASSUME host'.state # "running", active' = active, op'.switched = op.switched,
             active.target \in Targets /\ active.target \in roots => active.target \in roots'
      PROVE  Kept'
  BY <1>0, <1>g, <1>s
<1>1. CASE HostAcks
  <2>1. CASE host.by \in {"auto", "hand"}
    <3>1. host'.state = "restoring"
      BY <1>0, <1>1, <2>1 DEF HostAcks, HostState
    <3>2. UNCHANGED <<op, active, roots>>
      BY <1>1, <2>1 DEF HostAcks
    <3> QED
      BY <1>s, <3>1, <3>2
  <2>2. CASE host.by = "boot"
    <3>1. active' = Nothing
      BY <1>1, <2>2 DEF HostAcks, Booting
    <3> QED
      BY <3>1
  <2>3. CASE host.by = "switch"
    <3>1. op' = [op EXCEPT !.pc = "opening"] /\ op.switched
      BY <1>1, <2>3 DEF HostAcks, Aimed
    <3>2. op'.switched
      BY <1>0, <3>1 DEF OpState
    <3> QED
      BY <3>2
  <2>4. CASE host.by = "plain"
    <3>1. active' = Nothing
      BY <1>1, <2>4 DEF HostAcks
    <3> QED
      BY <3>1
  <2> QED
    BY <1>0, <2>1, <2>2, <2>3, <2>4 DEF HostState
<1>2. CASE HostRestored
  <2>1. PICK refused \in SUBSET (roots \ host.open) :
          /\ host' = [host EXCEPT !.state = "running", !.open = roots \ refused]
          /\ roots' = roots \ refused
          /\ Met("not restored", active.target \in refused)
    BY <1>2 DEF HostRestored
  <2>2. host'.open = roots'
    BY <1>0, <2>1 DEF HostState
  <2>3. active' = active /\ op' = IF op.mode = "hand" THEN NoOp ELSE op
    BY <1>2 DEF HostRestored
  <2>4. op.switched => op'.switched
    BY <2>3 DEF Aimed
  <2>5. CASE active.target \in refused
    <3>1. "not restored" \in gaps'
      BY <2>1, <2>5 DEF Met
    <3> QED
      BY <3>1 DEF Stranding
  <2>6. CASE active.target \notin refused
    BY <1>g, <2>1, <2>2, <2>3, <2>4, <2>6
  <2> QED
    BY <2>5, <2>6
<1>3. CASE StartFails
  <2>1. host'.state # "running" /\ roots' = roots
    BY <1>0, <1>3 DEF StartFails, HostState
  <2>2. \/ UNCHANGED <<op, active>>
        \/ OpFails
        \/ op' = [op EXCEPT !.pc = "asking"] /\ active' = active
        \/ host.by \in {"hand", "plain"} /\ host.state = "starting" /\ op' = NoOp /\ active' = active
    BY <1>3 DEF StartFails, NoOpFails
  <2>3. CASE UNCHANGED <<op, active>>
    BY <1>s, <2>1, <2>3
  <2>4. CASE OpFails
    BY <1>f, <2>1, <2>4
  <2>5. CASE op' = [op EXCEPT !.pc = "asking"] /\ active' = active
    <3>1. op'.switched = op.switched
      BY <1>0, <2>5 DEF OpState
    <3> QED
      BY <1>s, <2>1, <2>5, <3>1
  <2>6. CASE host.by \in {"hand", "plain"} /\ host.state = "starting" /\ op' = NoOp /\ active' = active
    <3>1. ~op.switched /\ ~op'.switched
      BY <2>6 DEF Aimed, NoOp
    <3>2. op'.switched = FALSE /\ op.switched = FALSE
      BY <1>0, <2>6, <3>1 DEF OpState, NoOp
    <3> QED
      BY <1>s, <2>1, <2>6, <3>2
  <2> QED
    BY <2>2, <2>3, <2>4, <2>5, <2>6
<1>4. CASE HostDies
  <2>1. host'.state # "running"
    BY <1>0, <1>4 DEF HostDies, HostState, Launched
  <2>2. CASE active.target \in roots \ roots'
    <3>1. "forgotten in restore" \in gaps'
      BY <1>4, <2>2, HostDiesFacts
    <3> QED
      BY <3>1 DEF Stranding
  <2>3. CASE active.target \notin roots \ roots' /\ UNCHANGED <<op, active>>
    BY <1>s, <2>1, <2>3
  <2>4. CASE /\ active.target \notin roots \ roots'
             /\ op' = NoOp /\ active' \in {active, Nothing}
             /\ op.switched /\ active' # Nothing => "kept after failure" \in gaps'
    BY <1>0, <1>g, <2>1, <2>4 DEF Stranding
  <2> QED
    BY <1>4, <2>2, <2>3, <2>4, HostDiesFacts
<1>5. CASE StopEnds
  <2>1. CASE op.pc = "stopping"
    <3>1. active' = active /\ op' = [op EXCEPT !.pc = "launching"]
      BY <1>5, <2>1 DEF StopEnds
    <3>2. op'.switched = op.switched
      BY <1>0, <3>1 DEF OpState
    <3>3. \E k \in {"windows", "wsl"}, b \in {"hand", "switch"} : Launch(k, b)
      BY <1>0, <1>5, <2>1 DEF StopEnds, Kind, HostState
    <3>4. host'.state = "starting"
      BY <1>0, <3>3, LaunchFacts DEF ShellTyped
    <3>5. CASE op.mode = "hand"
      <4>1. roots' = roots
        BY <1>5, <2>1, <3>5 DEF StopEnds
      <4> QED
        BY <1>s, <3>1, <3>2, <3>4, <4>1
    <3>6. CASE op.mode # "hand"
      <4>1. op.switched
        BY <2>1, <3>6 DEF Aimed
      <4> QED
        BY <3>2, <4>1
    <3> QED
      BY <3>5, <3>6
  <2>2. CASE op.pc # "stopping"
    <3>1. host'.state # "running"
      BY <1>0, <1>5, <2>2 DEF StopEnds, HostState
    <3>2. roots' = roots /\ IF op.pc \in {"launching", "opening"} THEN OpFails ELSE UNCHANGED <<op, active>>
      BY <1>5, <2>2 DEF StopEnds, NoOpFails
    <3> QED
      BY <1>f, <1>s, <3>1, <3>2
  <2> QED
    BY <2>1, <2>2
<1> QED
  BY <1>1, <1>2, <1>3, <1>4, <1>5 DEF HostNext

LEMMA KeptByOp ==
  ASSUME ShellTyped, Aimed, Paced, Kept, quit = "no", OpNext
  PROVE  Kept'
<1> USE DEF Kept
<1>0. /\ host \in HostState /\ op \in OpState /\ page \in PageState /\ active \in ActiveState
      /\ (active # Nothing => active.target \in Targets) /\ roots \subseteq Targets
  BY DEF ActiveState, ShellTyped
<1>k. host.kind \in {"windows", "wsl"}
  BY <1>0 DEF HostState
<1>g. gaps \subseteq gaps'
  BY GapsGrow DEF ShellNext
<1>n. op = NoOp => ~op.switched
  BY DEF NoOp
<1>1. ASSUME NEW t \in Targets, OpenTarget(t) PROVE Kept'
  <2>1. op = NoOp /\ active' = active /\ Begin(t, "open")
    BY <1>1 DEF OpenTarget, MayClick
  <2>2. CASE UNCHANGED <<host, roots>>
    BY <1>g, <1>n, <2>1, <2>2
  <2>3. CASE op' = [pc |-> "stopping", mode |-> "open", target |-> t, switched |-> TRUE]
    BY <2>3
  <2>4. CASE op' = [pc |-> "launching", mode |-> "open", target |-> t, switched |-> TRUE]
    BY <2>4
  <2> QED
    BY <2>1, <2>2, <2>3, <2>4, OpensIn
<1>2. ASSUME NEW t \in Targets, WorkspaceClosed(t) PROVE Kept'
  <2>1. op' = op /\ op = NoOp /\ host.state = "running" /\ roots' = roots \ {t}
    BY <1>2 DEF WorkspaceClosed, MayClick
  <2>2. host'.open = host.open \ {t}
    BY <1>0, <1>2 DEF WorkspaceClosed, HostState
  <2>3. active' = active \/ active' = Nothing
    BY <1>2 DEF WorkspaceClosed, ActiveAfterClose
  <2>4. CASE active.target # t
    BY <1>g, <1>n, <2>1, <2>2, <2>3, <2>4
  <2>5. CASE active.target = t /\ active.of # host.run
    <3>1. "stale id" \in gaps'
      BY <1>2, <2>5 DEF WorkspaceClosed, Met
    <3> QED
      BY <3>1 DEF Stranding
  <2>6. CASE active.target = t /\ active.of = host.run
    <3>1. active # Nothing
      BY <2>6, NamesType DEF Nothing
    <3>2. active = [target |-> t, of |-> host.run]
      BY <1>0, <2>6, <3>1 DEF ActiveState
    <3>3. active' = Nothing
      BY <1>2, <3>2 DEF WorkspaceClosed, ActiveAfterClose
    <3> QED
      BY <3>3
  <2> QED
    BY <2>4, <2>5, <2>6
<1>3. CASE Opened
  <2>1. host'.open = host.open \cup {op.target} /\ roots' = roots \cup {op.target}
    BY <1>0, <1>3 DEF Opened, HostState
  <2>2. active'.target = op.target
    BY <1>3 DEF Opened
  <2> QED
    BY <2>1, <2>2
<1>4. CASE OpenRefused
  <2>1. op.switched /\ active' # Nothing => "kept after failure" \in gaps'
    BY <1>4, OpFailsFacts DEF OpenRefused
  <2>2. active' \in {active, Nothing} /\ UNCHANGED <<host, roots>>
    BY <1>4, OpFailsFacts DEF OpenRefused
  <2> QED
    BY <1>g, <2>1, <2>2 DEF Stranding
<1>5. CASE DialogAnswered
  <2>1. ~HostRuns /\ ~Exists
    BY <1>5 DEF DialogAnswered, Paced, HostRuns, Exists
  <2>2. ASSUME NEW t \in Targets, NEW m \in {"open", "restore"}, Begin(t, m) PROVE Kept'
    <3>1. op' = [pc |-> "launching", mode |-> m, target |-> t, switched |-> TRUE]
      BY <2>1, <2>2, OpensIn
    <3> QED
      BY <3>1
  <2>3. CASE active = Nothing /\ active' = active
    BY <2>3
  <2>4. "linux" \in Targets /\ "there" \in Targets
    BY DEF Targets
  <2> QED
    BY <1>0, <1>5, <2>2, <2>3, <2>4 DEF DialogAnswered
<1>6. CASE RestartByHand
  <2>1. op = NoOp /\ UNCHANGED <<active, roots>>
    BY <1>6 DEF RestartByHand, MayClick
  <2>2. IF Exists THEN host' = [host EXCEPT !.state = "stopping"] ELSE Launch(host.kind, "hand")
    BY <1>6 DEF RestartByHand
  <2>3. [host EXCEPT !.state = "stopping"].state = "stopping"
    BY <1>0 DEF HostState
  <2>4. host'.state \in {"stopping", "starting"}
    BY <1>0, <1>k, <2>2, <2>3, LaunchFacts
  <2> QED
    BY <1>g, <1>n, <2>1, <2>4
<1> QED
  BY <1>1, <1>2, <1>3, <1>4, <1>5, <1>6 DEF OpNext

LEMMA KeptStep ==
  ASSUME ShellTyped, Aimed, Booting, Paced, Kept, quit = "no", [ShellNext]_shellVars
  PROVE  quit' = "no" => Kept'
<1> USE DEF Kept
<1>0. host \in HostState
  BY DEF ShellTyped
<1>g. gaps \subseteq gaps'
  BY GapsGrow
<1>1. CASE UNCHANGED shellVars \/ PageNext \/ WindowLoads \/ BootAttaches \/ BootFails \/ Exits
  <2>1. UNCHANGED <<host, roots, active, op>>
    BY <1>1, PageOnlyStep DEF shellVars, WindowLoads, BootAttaches, BootFails, Exits
  <2> QED
    BY <1>g, <2>1
<1>2. CASE WindowFails
  <2>1. host' = [host EXCEPT !.state = IF Exists THEN "stopping" ELSE @] /\ UNCHANGED <<roots, active, op>>
    BY <1>2 DEF WindowFails
  <2>2. host'.state \in {host.state, "stopping"} /\ host'.open = host.open
    BY <1>0, <2>1 DEF HostState
  <2> QED
    BY <1>g, <2>1, <2>2
<1>3. CASE QuitAsked
  BY <1>3 DEF QuitAsked
<1> QED
  BY <1>1, <1>2, <1>3, KeptByHost, KeptByOp DEF ShellNext

-----------------------------------------------------------------------------

LEMMA ShellIInvInit == ShellInit => ShellIInv
<1> SUFFICES ASSUME ShellInit PROVE ShellIInv
  OBVIOUS
<1>1. host.state = "starting" /\ host.run = 1 /\ host.by = "boot" /\ host \in HostState
  BY DEF ShellInit, NoHost, HostState
<1>2. page \in PageState /\ page.state = "gone"
  BY NewPageType DEF ShellInit
<1>3. ShellTyped
  BY <1>1, <1>2, NamesType DEF ShellInit, ShellTyped
<1>4. op.pc = "none" /\ op.switched = FALSE /\ op.mode = "none" /\ op = NoOp
  BY DEF ShellInit, NoOp
<1>5. Aimed /\ Paced
  BY <1>1, <1>4 DEF Aimed, Paced
<1>6. Windowed /\ Booting /\ Left /\ Served /\ Kept
  BY <1>1, <1>2 DEF ShellInit, Windowed, Booting, Left, Served, Kept
<1> QED
  BY <1>3, <1>5, <1>6 DEF ShellIInv, ShellInit

LEMMA ShellIInvStep == ShellIInv /\ [ShellNext]_shellVars => ShellIInv'
<1> SUFFICES ASSUME ShellIInv, [ShellNext]_shellVars PROVE ShellIInv'
  OBVIOUS
<1>1. ShellTyped /\ Aimed /\ Windowed /\ Booting /\ Left
  BY DEF ShellIInv
<1>2. ShellTyped' /\ Aimed' /\ Windowed' /\ Booting' /\ Left'
  BY <1>1, ShellTypedStep, AimedStep, WindowedStep, BootingStep, LeftStep
<1>3. ASSUME quit' = "no" PROVE Paced' /\ Served' /\ Kept' /\ (timer' => page'.hung)
  <2>1. quit = "no"
    BY <1>1, <1>3, QuitStays
  <2>2. Paced /\ Served /\ Kept /\ (timer => page.hung)
    BY <2>1 DEF ShellIInv
  <2> QED
    BY <1>1, <1>3, <2>1, <2>2, PacedStep, ServedStep, KeptStep, TimerStep
<1> QED
  BY <1>2, <1>3 DEF ShellIInv

LEMMA ShellIInvAlways == ShellSpec => []ShellIInv
  BY ShellIInvInit, ShellIInvStep, PTL DEF ShellSpec

-----------------------------------------------------------------------------

\* When nothing is under way a page has the port of the running host or offers a restart, and
\* no page that answers is about to be reloaded (main/index.ts 693-757, supervisor.ts 242-270).
THEOREM PagesAreServed == ShellSpec => []PageIsServed
<1>1. ShellIInv => PageIsServed
  <2> SUFFICES ASSUME ShellIInv PROVE PageIsServed
    OBVIOUS
  <2>1. ASSUME AtRest, page.state = "loaded", gaps \cap Stranding = {} PROVE Told
    <3>1. ~Underway
      BY <2>1 DEF AtRest, NoOp, Underway
    <3> QED
      BY <2>1, <3>1 DEF AtRest, ShellIInv, Served
  <2> QED
    BY <2>1 DEF PageIsServed, ShellIInv, Told
<1> QED
  BY <1>1, ShellIInvAlways, PTL

\* What the shell would go back to, and picks attachments for, is open in the running host
\* (main/index.ts 480-535, supervisor.ts 285-300).
THEOREM WhatIsActiveIsOpen == ShellSpec => []ActiveIsOpen
<1>1. ShellIInv => ActiveIsOpen
  <2> SUFFICES ASSUME ShellIInv, AtRest, HostRuns, active # Nothing, gaps \subseteq Stranding
               PROVE  active.target \in host.open
    BY DEF ActiveIsOpen
  <2>1. host.state = "running" /\ ~op.switched /\ quit = "no"
    BY DEF AtRest, HostRuns, NoOp
  <2> QED
    BY <2>1 DEF ShellIInv, Kept
<1> QED
  BY <1>1, ShellIInvAlways, PTL

\* An application that has ended leaves no host behind that it started before the quit
\* (quit.ts 24-35, supervisor.ts 190-207).
THEOREM QuitsLeaveNothing == ShellSpec => []QuitLeavesNothing
<1>1. ShellIInv => QuitLeavesNothing
  BY DEF ShellIInv, Left, QuitLeavesNothing
<1> QED
  BY <1>1, ShellIInvAlways, PTL

===============================================================================
