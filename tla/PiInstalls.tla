----------------------------- MODULE PiInstalls -----------------------------
(***************************************************************************)
(* The copies of Pi that main keeps beside the bundled one: PiManager        *)
(* (manager.ts), PiStore (store.ts), installPi (install.ts) and the requests *)
(* behind it (upstream.ts), with the host that is started on one of them.    *)
(*                                                                         *)
(* What the store does is synchronous, so nothing in main comes between its  *)
(* steps; a file that is open, a full disk or the end of the process can cut *)
(* it short.  A directory is the set of packages whose files are whole.      *)
(***************************************************************************)
EXTENDS Naturals, FiniteSets

CONSTANTS
  Versions,     \* released versions of Pi
  Packages,     \* the packages of a plan, 1 to their number
  Optional,     \* those the lockfile marks as optional
  Concurrency,  \* CONCURRENCY
  Attempts,     \* ATTEMPTS
  MaxInstalls,  \* bound: installs begun
  MaxCuts       \* bound: steps of the store cut short, and ends of main

ASSUME PiAssumption ==
  /\ Versions # {}
  /\ IsFiniteSet(Packages) /\ Packages = 1..Cardinality(Packages) /\ Optional \subseteq Packages
  /\ {Concurrency, Attempts} \subseteq Nat \ {0} /\ {MaxInstalls, MaxCuts} \subseteq Nat

VARIABLES
  dir,       \* versions/: per place, whether it exists and what is in it
  pointer,   \* active.json
  jobs,      \* calls of installPi
  current,   \* #inFlight, a job or none
  install,   \* #install
  running,   \* #running
  loaded,    \* the Pi the host process has open
  begun, cuts,
  cut        \* (history) places whose removal was cut short

piVars == <<dir, pointer, jobs, current, install, running, loaded, begun, cuts, cut>>

-----------------------------------------------------------------------------
(* PiStore. *)

Installs == 1..MaxInstalls
NoInstall == 0

\* versions/<version>, and the name it is moved aside to.
Own(v) == <<v, "own">>
Aside(v) == <<v, "aside">>
Asides == {Aside(v) : v \in Versions}
Places == {Own(v) : v \in Versions} \cup Asides
Bundled == <<"bundled", "own">>
Down == <<"down", "own">>

Missing == [there |-> FALSE, packages |-> {}]
Holding(S) == [there |-> TRUE, packages |-> S]

\* existsSync of its node_modules.
Usable(d, e) == d[e].packages # {}

\* list: whatever can be used, what was moved aside included.
Listed == {e \in Places : Usable(dir, e)}

\* active.
Active == IF pointer \in Listed THEN pointer ELSE Bundled

\* What a removal that is cut short leaves.
Leftovers(e) == {Holding(S) : S \in SUBSET dir[e].packages} \ {dir[e]}

MayCut == cuts < MaxCuts /\ cuts' = cuts + 1
Uncut == UNCHANGED cuts

-----------------------------------------------------------------------------
(* installPi. *)

NoneTaken == [i \in Packages |-> 0]
Unbegun == [state |-> "none", version |-> CHOOSE v \in Versions : TRUE, next |-> 1,
         tries |-> NoneTaken, absent |-> {}, staged |-> {}]
Working(j) == jobs[j].state \in {"planning", "downloading"}

Shown(v, phase) == [version |-> v, phase |-> phase]

HostsOnly == UNCHANGED <<running, loaded>>
StoreSame == UNCHANGED <<dir, pointer, cut>>

\* The staging directory is removed, then the failure is shown and #inFlight cleared.
Fails(js, j) ==
  /\ jobs' = [js EXCEPT ![j].state = "failed", ![j].staged = {}]
  /\ current' = NoInstall /\ install' = Shown(jobs[j].version, "failed")

\* install and sweep: one at a time.
Install(v) ==
  /\ current = NoInstall /\ begun < MaxInstalls
  /\ begun' = begun + 1
  /\ LET swept == [j \in Installs |-> [jobs[j] EXCEPT !.staged = {}]]
     IN \/ /\ jobs' = [swept EXCEPT ![begun + 1].state = "planning", ![begun + 1].version = v]
           /\ dir' = [e \in Places |-> IF e \in Asides THEN Missing ELSE dir[e]] /\ cut' = cut \ Asides
           /\ current' = begun + 1 /\ install' = Shown(v, "planning") /\ Uncut
        \/ \E a \in Asides : \E left \in Leftovers(a) :  \* the sweep is cut short
             /\ MayCut /\ dir' = [dir EXCEPT ![a] = left] /\ cut' = cut \cup {a}
             /\ jobs' = [swept EXCEPT ![begun + 1].state = "failed", ![begun + 1].version = v]
             /\ install' = Shown(v, "failed") /\ UNCHANGED current
  /\ UNCHANGED pointer /\ HostsOnly

\* fetchInstallPlan.
PlanFails(j) ==
  /\ jobs[j].state = "planning" /\ Fails(jobs, j)
  /\ StoreSame /\ HostsOnly /\ Uncut /\ UNCHANGED begun

PlanArrives(j) ==
  /\ jobs[j].state = "planning"
  /\ jobs' = [jobs EXCEPT ![j].state = "downloading", ![j].next = Concurrency + 1,
                          ![j].tries = [i \in Packages |-> IF i <= Concurrency THEN 1 ELSE 0]]
  /\ StoreSame /\ HostsOnly /\ Uncut /\ UNCHANGED <<current, install, begun>>

InHand(j) == {i \in Packages : jobs[j].tries[i] # 0}

Left(js, j, i) == [js EXCEPT ![j].tries[i] = 0, ![j].absent = @ \ {i}]

\* The worker that had this package takes the next one.
Taken(js, j, i) ==
  IF js[j].next \in Packages
  THEN [Left(js, j, i) EXCEPT ![j].tries[js[j].next] = 1, ![j].next = @ + 1]
  ELSE Left(js, j, i)

\* onProgress, whatever has become of the install.
Progress(j) == install' = Shown(jobs[j].version, "downloading")

DownloadOnly == StoreSame /\ HostsOnly /\ Uncut /\ UNCHANGED begun

NextTry(n) == n + 1

\* request: a connection that is cut, a timeout, and every status that is not a
\* success, 404 too: what is thrown for it is caught by the loop.
AttemptFails(j, i, answer) ==
  /\ jobs[j].tries[i] \in 1..Attempts - 1
  /\ jobs' = [jobs EXCEPT ![j].tries[i] = NextTry(@),
                          ![j].absent = IF answer = "absent" THEN @ \cup {i} ELSE @]
  /\ DownloadOnly /\ UNCHANGED <<current, install>>

PackageArrives(j, i) ==
  /\ i \in InHand(j)
  /\ jobs' = Taken([jobs EXCEPT ![j].staged = @ \cup {i}], j, i)
  /\ Progress(j) /\ DownloadOnly /\ UNCHANGED current

\* The worker throws: a package that did not match or could not be unpacked, or the
\* last attempt at it.  The others go on.
PackageThrows(j, i) ==
  /\ i \in InHand(j)
  /\ \/ /\ i \in Optional
        /\ jobs' = Taken(jobs, j, i) /\ Progress(j) /\ UNCHANGED current
     \/ /\ i \notin Optional /\ jobs[j].state = "downloading"
        /\ Fails(Left(jobs, j, i), j)
     \/ /\ i \notin Optional /\ jobs[j].state # "downloading"
        /\ jobs' = Left(jobs, j, i) /\ UNCHANGED <<current, install>>
  /\ DownloadOnly

\* Promise.all of the workers.
AllIn(j) == jobs[j].next > Cardinality(Packages) /\ InHand(j) = {}

-----------------------------------------------------------------------------
(* commit and activate. *)

Staged(j) == Holding(jobs[j].staged)

\* Mutant: the earlier copy is deleted where it is.
MovedInPlace(d, v) == d

\* The earlier copy is moved aside, so that what was deleted in part is never found in
\* its place.
Moved(d, v) == [d EXCEPT ![Aside(v)] = d[Own(v)], ![Own(v)] = Missing]

Commit(j) ==
  /\ jobs[j].state = "downloading" /\ AllIn(j)
  /\ LET v == jobs[j].version
     IN /\ dir' = [dir EXCEPT ![Own(v)] = Staged(j)] /\ cut' = cut \ {Own(v)}
        /\ pointer' = Own(v)
        /\ jobs' = [jobs EXCEPT ![j].state = "done", ![j].staged = {}]
        /\ current' = NoInstall /\ install' = Shown(v, "done")
  /\ HostsOnly /\ Uncut /\ UNCHANGED begun

\* A step of commit throws: before the earlier copy is moved, at its removal, at the
\* move of the new one, or at the pointer.
CommitFails(j) ==
  /\ jobs[j].state = "downloading" /\ AllIn(j) /\ MayCut
  /\ LET v == jobs[j].version
         place == IF Moved(dir, v) = dir THEN Own(v) ELSE Aside(v)
     IN \/ UNCHANGED <<dir, cut>>
        \/ \E left \in Leftovers(Own(v)) :
             dir' = [Moved(dir, v) EXCEPT ![place] = left] /\ cut' = cut \cup {Aside(v)}
        \/ dir' = [dir EXCEPT ![Own(v)] = Missing] /\ cut' = cut \ {Own(v)}
        \/ dir' = [dir EXCEPT ![Own(v)] = Staged(j)] /\ cut' = cut \ {Own(v)}
  /\ Fails(jobs, j)
  /\ HostsOnly /\ UNCHANGED <<pointer, begun>>

\* Main ends, and comes up again: the installs of the process before are gone, and
\* the constructor takes what is active for what is running.
Restarts(d, p) ==
  /\ jobs' = [j \in Installs |-> [jobs[j] EXCEPT !.state = IF @ = "none" THEN @ ELSE "gone", !.tries = NoneTaken, !.absent = {}]]
  /\ current' = NoInstall /\ install' = Shown(Bundled[1], "none")
  /\ loaded' = Down
  /\ running' = IF p \in Places /\ Usable(d, p) THEN p ELSE Bundled

MainEnds ==
  /\ MayCut /\ Restarts(dir, pointer)
  /\ StoreSame /\ UNCHANGED begun

\* In the middle of commit or activate; a pointer that was written in part reads as none.
MainEndsInCommit(j) ==
  /\ jobs[j].state = "downloading" /\ AllIn(j) /\ MayCut
  /\ LET v == jobs[j].version
     IN \/ /\ dir[Own(v)].there
           /\ \E left \in Leftovers(Own(v)) \cup {dir[Own(v)]} :
                dir' = [Moved(dir, v) EXCEPT ![Aside(v)] = left]
           /\ cut' = cut \cup {Aside(v)} /\ UNCHANGED pointer
        \/ /\ dir' = [dir EXCEPT ![Own(v)] = Staged(j)] /\ cut' = cut \ {Own(v)}
           /\ pointer' \in {pointer, Bundled}
  /\ Restarts(dir', pointer') /\ UNCHANGED begun

-----------------------------------------------------------------------------
(* The person, and the host. *)

\* use: the pointer is moved, and the host is restarted.
Use(e) ==
  /\ e \in Listed \cup {Bundled} /\ pointer # e
  /\ pointer' = e
  /\ UNCHANGED <<dir, jobs, current, install, running, loaded, begun, cuts, cut>>

\* remove refuses the version in use.
Removable(e) == e \in Listed /\ e # Active

RemovePi(e) ==
  /\ Removable(e)
  /\ \/ dir' = [dir EXCEPT ![e] = Missing] /\ cut' = cut \ {e} /\ Uncut
     \/ \E left \in Leftovers(e) :
          MayCut /\ dir' = [dir EXCEPT ![e] = left] /\ cut' = cut \cup {e}
  /\ UNCHANGED <<pointer, jobs, current, install, running, loaded, begun>>

\* rootForNextStart, for a restart somebody asked for and for any other.
HostStarts ==
  /\ loaded' = Active /\ running' = Active
  /\ UNCHANGED <<dir, pointer, jobs, current, install, begun, cuts, cut>>

HostStops ==
  /\ loaded # Down /\ loaded' = Down
  /\ UNCHANGED <<dir, pointer, jobs, current, install, running, begun, cuts, cut>>

-----------------------------------------------------------------------------
PiInit ==
  /\ dir = [e \in Places |-> Missing] /\ pointer = Bundled
  /\ jobs = [j \in Installs |-> Unbegun] /\ current = NoInstall /\ install = Shown(Bundled[1], "none")
  /\ running = Bundled /\ loaded = Down
  /\ begun = 0 /\ cuts = 0 /\ cut = {}

Planned(j) == PlanFails(j) \/ PlanArrives(j)

Fetched(j, i) ==
  \/ \E answer \in {"cut", "absent"} : AttemptFails(j, i, answer)
  \/ PackageArrives(j, i) \/ PackageThrows(j, i)

PiNext ==
  \/ \E v \in Versions : Install(v)
  \/ \E j \in Installs :
       \/ Planned(j)
       \/ \E i \in Packages : Fetched(j, i)
       \/ Commit(j) \/ CommitFails(j) \/ MainEndsInCommit(j)
  \/ \E e \in Places \cup {Bundled} : Use(e)
  \/ \E e \in Places : RemovePi(e)
  \/ MainEnds \/ HostStarts \/ HostStops

\* A request has a timeout, and the workers are awaited.
PiFairness ==
  \A j \in Installs :
    /\ WF_piVars(Planned(j)) /\ WF_piVars(Commit(j))
    /\ \A i \in Packages : WF_piVars(Fetched(j, i))

PiSpec == PiInit /\ [][PiNext]_piVars /\ PiFairness

-----------------------------------------------------------------------------
(* What holds. *)

\* What can be chosen is complete (store.ts:8), whatever fails and whenever main ends,
\* unless its own removal was cut short.
WholeUnlessCut ==
  \A e \in Listed : e \notin cut => Packages \ Optional \subseteq dir[e].packages

\* An install comes to an end, and the next may begin.
InstallsEnd == \A j \in Installs : current = j ~> current # j

-----------------------------------------------------------------------------
(* What does not. *)

\* store.ts:135: an install that fails because the earlier copy cannot be cleared now
\* leaves a copy where it was, the old one or the new one.
NotLostByInstall ==
  [][\A v \in Versions :
       /\ Own(v) \in Listed /\ dir'[Aside(v)].there
       /\ current # NoInstall /\ jobs'[current].state = "failed"
       => Own(v) \in Listed']_piVars

\* manager.ts:95: a failure is kept until the next install.
FailureKept ==
  current = NoInstall /\ begun > 0 /\ jobs[begun].state = "failed" => install = Shown(jobs[begun].version, "failed")

\* store.ts:113: the Pi a running host has open is not removed.
OpenStays == loaded \in Places => loaded \in Listed

\* store.ts:50: what is listed can be chosen; what was moved aside is listed too, and
\* the sweep of the next install takes it.
LeftoversUnchosen == Active \notin Asides

\* upstream.ts:93: a package that is not there is not asked for again.
AbsentNotRetried == \A j \in Installs : jobs[j].absent \cap InHand(j) = {}

=============================================================================
