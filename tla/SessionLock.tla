---------------------------- MODULE SessionLock -----------------------------
(***************************************************************************)
(* The advisory lock file beside a session file                            *)
(* (packages/agent-host/src/session/ownership.ts), one filesystem call per *)
(* step.  A host runs acquire and release without yielding, but the hosts  *)
(* are processes: between two calls of one, others run, die and start.     *)
(*                                                                         *)
(* One session file is modelled.  A lock file is known by the host that    *)
(* created it, because a host creates no second one before it is done with *)
(* the first.  A process id is never used again.                           *)
(***************************************************************************)
EXTENDS Integers, FiniteSets

CONSTANTS
  Hosts,      \* host processes: a pid and a hostId each
  HardLinks,  \* the volume supports hard links
  SlowClaims  \* a claim may take longer than CLAIM_WINDOW_MS

Nobody == "nobody"

Unreadable == "unreadable"

ASSUME HostAssumption == {Nobody, Unreadable} \cap Hosts = {}

ASSUME ModeAssumption == HardLinks \in BOOLEAN /\ SlowClaims \in BOOLEAN

VARIABLES
  lock,       \* the file at lockPathFor(session), or Absent
  pc,         \* the next filesystem call of each host
  seen,       \* the holder readHolder found, or Nobody
  stole,      \* LockOutcome.stoleFrom of the lock a host holds
  overlapped  \* (history) two hosts have been acquiring at the same time

vars == <<lock, pc, seen, stole, overlapped>>

Absent == [owner |-> "absent"]

\* written: the file names its holder.  fresh: its mtime is within the window.
LockFile == [owner : Hosts, written : BOOLEAN, fresh : BOOLEAN]

Acquiring == {"create", "read", "probe", "stat", "unlink", "recreate", "write"}

Steps == {"idle", "held", "check", "remove", "dead"} \cup Acquiring

TypeOK ==
  /\ lock \in LockFile \cup {Absent}
  /\ pc \in [Hosts -> Steps]
  /\ seen \in [Hosts -> Hosts \cup {Nobody}]
  /\ stole \in [Hosts -> Hosts \cup {Nobody, Unreadable}]
  /\ overlapped \in BOOLEAN

Init ==
  /\ lock = Absent
  /\ pc = [h \in Hosts |-> "idle"]
  /\ seen = [h \in Hosts |-> Nobody]
  /\ stole = [h \in Hosts |-> Nobody]
  /\ overlapped = FALSE

Goto(h, step) == pc' = [pc EXCEPT ![h] = step]

\* process.kill(pid, 0)
Alive(h) == pc[h] # "dead"

\* Mutant: a missing file is not told from one without a holder.
HolderOfAnyFile == IF lock # Absent /\ ~lock.written THEN Nobody ELSE lock.owner

\* What readHolder returns of the file now.
Holder == IF lock = Absent \/ ~lock.written THEN Nobody ELSE lock.owner

-----------------------------------------------------------------------------
(* acquire                                                                 *)

\* open_session or create_session reaches acquire.
StartAcquire(h) ==
  /\ pc[h] = "idle"
  /\ Goto(h, "create")
  /\ overlapped' = (overlapped \/ \E g \in Hosts \ {h} : pc[g] \in Acquiring)
  /\ UNCHANGED <<lock, seen, stole>>

\* #tryCreate: link publishes a complete file under the lock's name.  Where
\* there are no hard links, an exclusive create makes an empty one.
TryCreate(h, taken) ==
  IF lock # Absent
  THEN /\ Goto(h, taken)
       /\ UNCHANGED lock
  ELSE /\ lock' = [owner |-> h, written |-> HardLinks, fresh |-> TRUE]
       /\ Goto(h, IF HardLinks THEN "held" ELSE "write")

Create(h) ==
  /\ pc[h] = "create"
  /\ TryCreate(h, "read")
  /\ stole' = [stole EXCEPT ![h] = Nobody]
  /\ UNCHANGED <<seen, overlapped>>

\* #tryCreateUnlinked writes the holder through its descriptor: the file it
\* created, whether or not that is still the one under the lock's name.
Write(h) ==
  /\ pc[h] = "write"
  /\ lock' = IF lock # Absent /\ lock.owner = h THEN [lock EXCEPT !.written = TRUE] ELSE lock
  /\ Goto(h, "held")
  /\ UNCHANGED <<seen, stole, overlapped>>

Read(h) ==
  /\ pc[h] = "read"
  /\ seen' = [seen EXCEPT ![h] = Holder]
  /\ Goto(h, IF Holder = Nobody THEN "stat" ELSE "probe")
  /\ UNCHANGED <<lock, stole, overlapped>>

\* Mutant: whoever holds the lock is taken for dead.
ProbeNothing(h) ==
  /\ pc[h] = "probe"
  /\ Goto(h, "unlink")
  /\ UNCHANGED <<lock, seen, stole, overlapped>>

\* A live holder refuses the attempt.
Probe(h) ==
  /\ pc[h] = "probe"
  /\ Goto(h, IF Alive(seen[h]) THEN "idle" ELSE "unlink")
  /\ UNCHANGED <<lock, seen, stole, overlapped>>

\* Mutant: an empty lock is credited to a claim however old it is.
EmptyForGood == lock # Absent /\ ~lock.written

\* claimInFlight: the file is empty now, and fresh.
ClaimInFlight == lock # Absent /\ ~lock.written /\ lock.fresh

Stat(h) ==
  /\ pc[h] = "stat"
  /\ Goto(h, IF ClaimInFlight THEN "idle" ELSE "unlink")
  /\ UNCHANGED <<lock, seen, stole, overlapped>>

\* The lock has been judged abandoned: whatever is under its name goes.
Unlink(h) ==
  /\ pc[h] = "unlink"
  /\ lock' = Absent
  /\ Goto(h, "recreate")
  /\ UNCHANGED <<seen, stole, overlapped>>

\* The one retry; a second EEXIST loses.
Recreate(h) ==
  /\ pc[h] = "recreate"
  /\ TryCreate(h, "idle")
  /\ stole' = [stole EXCEPT ![h] = IF seen[h] = Nobody THEN Unreadable ELSE seen[h]]
  /\ UNCHANGED <<seen, overlapped>>

-----------------------------------------------------------------------------
(* release                                                                 *)

\* SessionHost.dispose, or the catch of a failed adoption.
StartRelease(h) ==
  /\ pc[h] = "held"
  /\ Goto(h, "check")
  /\ UNCHANGED <<lock, seen, stole, overlapped>>

\* Another host's lock is left alone.
CheckHolder(h) ==
  /\ pc[h] = "check"
  /\ Goto(h, IF Holder \in {Nobody, h} THEN "remove" ELSE "idle")
  /\ UNCHANGED <<lock, seen, stole, overlapped>>

Remove(h) ==
  /\ pc[h] = "remove"
  /\ lock' = Absent
  /\ Goto(h, "idle")
  /\ UNCHANGED <<seen, stole, overlapped>>

-----------------------------------------------------------------------------

\* A host process ends at any point, and whatever it left stays on the disk.
Crash(h) ==
  /\ Alive(h)
  /\ Goto(h, "dead")
  /\ UNCHANGED <<lock, seen, stole, overlapped>>

\* The second of the claim window passes.
Age ==
  /\ lock # Absent /\ ~lock.written /\ lock.fresh
  /\ SlowClaims \/ ~Alive(lock.owner)
  /\ lock' = [lock EXCEPT !.fresh = FALSE]
  /\ UNCHANGED <<pc, seen, stole, overlapped>>

Advance(h) ==
  \/ Create(h) \/ Write(h) \/ Read(h) \/ Probe(h) \/ Stat(h) \/ Unlink(h) \/ Recreate(h)
  \/ CheckHolder(h) \/ Remove(h)

Next ==
  \/ \E h \in Hosts :
       StartAcquire(h) \/ Advance(h) \/ StartRelease(h) \/ Crash(h)
  \/ Age

Spec == Init /\ [][Next]_vars

\* A host that is alive finishes what it has begun, and time passes.
FairSpec == Spec /\ (\A h \in Hosts : WF_vars(Advance(h))) /\ WF_vars(Age)

-----------------------------------------------------------------------------
(* Properties.                                                             *)

\* ownership.ts: two Bake Pi hosts "cannot both believe they own a session".
\* The code does not keep this promise when acquisitions overlap.
Exclusive == \A g, h \in Hosts : pc[g] = "held" /\ pc[h] = "held" => g = h

\* The lock excludes as long as no two hosts are acquiring it at the same
\* time: one acquisition against holders that release, die half-way through
\* any call, or hold on (ownership.ts acquire, release).
ExclusiveWhenSerial == overlapped \/ Exclusive

\* While acquisitions do not overlap, a host that holds the session also has
\* its lock file in place, named, until it removes it: the next host will be
\* refused, and its release removes nothing but its own.
LockInPlace ==
  overlapped \/
    \A h \in Hosts :
      pc[h] \in {"held", "check", "remove"}
        => lock # Absent /\ lock.owner = h /\ lock.written

\* A lock is taken from a holder that could be named only if that holder is
\* dead, whatever overlaps (ownership.ts acquire, "stealing it only from a holder
\* whose process is provably gone").
NamedVictimsAreDead ==
  \A h \in Hosts : pc[h] = "held" /\ stole[h] \in Hosts => ~Alive(stole[h])

Abandoned == lock # Absent /\ ~Alive(lock.owner)

\* The lock of a dead host does not strand the session: a host that keeps
\* asking for it gets past it, an empty file included once it has aged
\* (ownership.ts acquire, "refusing forever would strand the session").
Reclaimed ==
  (\E h \in Hosts : []<>(pc[h] = "create")) => []<>~Abandoned

=============================================================================
