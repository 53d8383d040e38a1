--------------------------- MODULE ProcessProofs ---------------------------
(***************************************************************************)
(* The files, pipes and installations that processes share, for every set  *)
(* of hosts and of installations and any number of commands, event channels*)
(* and faults.                                                             *)
(*                                                                         *)
(* While no two acquisitions overlap, the lock of a session excludes, with *)
(* or without hard links, however slow a claim is and wherever a host dies.*)
(*                                                                         *)
(* An exit of the host in the distribution is reported as a crash at most  *)
(* once and never when main had asked for it, and page and host come to    *)
(* rest on the same event socket.                                          *)
(*                                                                         *)
(* Behind WSL, while no two decisions to install or to stage overlap,      *)
(* nothing half-written is ever run, wherever a script is cut short, and   *)
(* what was installed is found.                                            *)
(***************************************************************************)
EXTENDS SessionLock, LoopbackHost, WslNode, TLAPS

-----------------------------------------------------------------------------
(* SessionLock. *)

\* A host between its successful create and the end of its release.
Owning == {"held", "check", "remove", "write"}

\* A lock file is there for a live host exactly while that host owns it, and
\* names the host once it is written.
OwnersHaveFiles ==
  \A h \in Hosts :
    /\ pc[h] \in Owning => lock # Absent /\ lock.owner = h /\ (lock.written <=> pc[h] # "write")
    /\ lock # Absent /\ lock.owner = h /\ Alive(h) => pc[h] \in Owning

\* What an acquiring host found is still so: nobody else has created a file.
FindingsStand ==
  \A h \in Hosts :
    /\ pc[h] = "probe" => lock = Absent \/ lock.owner = seen[h]
    /\ pc[h] \in {"stat", "unlink"} => lock = Absent \/ ~Alive(lock.owner)

OneAcquires ==
  \A g, h \in Hosts : pc[g] \in Acquiring /\ pc[h] \in Acquiring => g = h

\* The inductive invariant.
Serial == overlapped \/ (OneAcquires /\ OwnersHaveFiles /\ FindingsStand)

IInv == TypeOK /\ Serial

-----------------------------------------------------------------------------

LEMMA FileThere ==
  ASSUME NEW f \in LockFile PROVE f # Absent
<1>1. "written" \in DOMAIN f
  BY DEF LockFile
<1>2. "written" \notin DOMAIN Absent
  BY DEF Absent
<1> QED
  BY <1>1, <1>2

\* Holder is a host or nobody, and names the owner of a written file.
LEMMA HolderType ==
  ASSUME TypeOK
  PROVE  /\ Holder \in Hosts \cup {Nobody}
         /\ Holder # Nobody => lock # Absent /\ Holder = lock.owner
         /\ Holder = Nobody => lock = Absent \/ ~lock.written
  BY HostAssumption DEF TypeOK, Holder, LockFile

LEMMA TypeStep ==
  ASSUME TypeOK, [Next]_vars PROVE TypeOK'
<1> USE DEF TypeOK, Goto, Steps, Acquiring
<1>1. ASSUME NEW h \in Hosts, StartAcquire(h) PROVE TypeOK'
  BY <1>1 DEF StartAcquire
<1>2. ASSUME NEW h \in Hosts, Create(h) \/ Recreate(h) PROVE TypeOK'
  <2>1. [owner |-> h, written |-> HardLinks, fresh |-> TRUE] \in LockFile
    BY ModeAssumption DEF LockFile
  <2>2. lock' \in LockFile \cup {Absent} /\ pc' \in [Hosts -> Steps]
    BY <1>2, <2>1 DEF Create, Recreate, TryCreate
  <2>3. stole' \in [Hosts -> Hosts \cup {Nobody, Unreadable}]
    BY <1>2 DEF Create, Recreate
  <2> QED
    BY <1>2, <2>2, <2>3 DEF Create, Recreate
<1>3. ASSUME NEW h \in Hosts, Write(h) PROVE TypeOK'
  <2>1. lock' \in LockFile \cup {Absent}
    BY <1>3 DEF Write, LockFile
  <2> QED
    BY <1>3, <2>1 DEF Write
<1>4. ASSUME NEW h \in Hosts, Read(h) PROVE TypeOK'
  BY <1>4, HolderType DEF Read
<1>5. ASSUME NEW h \in Hosts, Probe(h) \/ Stat(h) \/ Unlink(h) PROVE TypeOK'
  BY <1>5 DEF Probe, Stat, Unlink
<1>6. ASSUME NEW h \in Hosts, StartRelease(h) \/ CheckHolder(h) \/ Remove(h) \/ Crash(h)
      PROVE  TypeOK'
  BY <1>6 DEF StartRelease, CheckHolder, Remove, Crash
<1>7. CASE Age
  <2>1. lock' \in LockFile
    BY <1>7 DEF Age, LockFile
  <2> QED
    BY <1>7, <2>1 DEF Age
<1>8. CASE UNCHANGED vars
  BY <1>8 DEF vars
<1> QED
  BY <1>1, <1>2, <1>3, <1>4, <1>5, <1>6, <1>7, <1>8 DEF Next, Advance

-----------------------------------------------------------------------------
(* The steps of a host that acquires.                                      *)

LEMMA StartSerial ==
  ASSUME TypeOK, Serial, NEW h \in Hosts, StartAcquire(h) PROVE Serial'
<1>1. CASE overlapped'
  BY <1>1 DEF Serial
<1>2. CASE ~overlapped'
  <2>1. ~overlapped /\ \A g \in Hosts \ {h} : pc[g] \notin Acquiring
    BY <1>2 DEF StartAcquire
  <2>2. OneAcquires /\ OwnersHaveFiles /\ FindingsStand
    BY <2>1 DEF Serial
  <2>3. OneAcquires'
    BY <2>1 DEF StartAcquire, Goto, OneAcquires, TypeOK
  <2>4. OwnersHaveFiles' /\ FindingsStand'
    BY <2>2 DEF StartAcquire, Goto, OwnersHaveFiles, FindingsStand, TypeOK, Owning, Alive
  <2> QED
    BY <2>3, <2>4 DEF Serial
<1> QED
  BY <1>1, <1>2

\* A file comes into being only where there was none, and then no other host
\* owns one or is about to remove it.
LEMMA TryCreateSerial ==
  ASSUME TypeOK, Serial, NEW h \in Hosts, NEW taken \in {"read", "idle"},
         pc[h] \in {"create", "recreate"}, TryCreate(h, taken), UNCHANGED <<seen, overlapped>>
  PROVE  Serial'
<1> SUFFICES ASSUME ~overlapped PROVE (OneAcquires /\ OwnersHaveFiles /\ FindingsStand)'
  BY DEF Serial
<1>1. OneAcquires /\ OwnersHaveFiles /\ FindingsStand
  BY DEF Serial
<1>2. pc' \in [Hosts -> Steps] /\ \A g \in Hosts \ {h} : pc'[g] = pc[g]
  BY DEF TryCreate, Goto, TypeOK, Steps, Acquiring
<1>3. OneAcquires'
  BY <1>1, <1>2 DEF OneAcquires, Acquiring
<1>4. CASE lock # Absent
  <2>1. lock' = lock /\ pc'[h] = taken
    BY <1>4 DEF TryCreate, Goto, TypeOK
  <2>2. OwnersHaveFiles'
    BY <1>1, <1>2, <2>1 DEF OwnersHaveFiles, Owning, Alive, Acquiring
  <2>3. FindingsStand'
    <3>1. \A g \in Hosts \ {h} : pc[g] \notin Acquiring
      BY <1>1 DEF OneAcquires, Acquiring
    <3> QED
      BY <1>2, <2>1, <3>1 DEF FindingsStand, Acquiring
  <2> QED
    BY <1>3, <2>2, <2>3
<1>5. CASE lock = Absent
  <2>1. /\ lock' = [owner |-> h, written |-> HardLinks, fresh |-> TRUE]
        /\ pc'[h] = IF HardLinks THEN "held" ELSE "write"
    BY <1>5 DEF TryCreate, Goto, TypeOK
  <2>2. lock' # Absent /\ lock'.owner = h /\ lock'.written = HardLinks
    <3>1. lock' \in LockFile
      BY <2>1, ModeAssumption DEF LockFile
    <3> QED
      BY <2>1, <3>1, FileThere DEF Absent
  <2>3. \A g \in Hosts \ {h} : pc[g] \notin Owning
    BY <1>1, <1>5 DEF OwnersHaveFiles
  <2>4. OwnersHaveFiles'
    BY <1>2, <2>1, <2>2, <2>3, ModeAssumption DEF OwnersHaveFiles, Owning, Alive
  <2>5. \A g \in Hosts \ {h} : pc[g] \notin Acquiring
    BY <1>1 DEF OneAcquires, Acquiring
  <2>6. FindingsStand'
    BY <1>2, <2>1, <2>5 DEF FindingsStand, Acquiring
  <2> QED
    BY <1>3, <2>4, <2>6
<1> QED
  BY <1>4, <1>5

LEMMA WriteSerial ==
  ASSUME TypeOK, Serial, NEW h \in Hosts, Write(h) PROVE Serial'
<1> SUFFICES ASSUME ~overlapped PROVE (OneAcquires /\ OwnersHaveFiles /\ FindingsStand)'
  BY DEF Serial, Write
<1>1. OneAcquires /\ OwnersHaveFiles /\ FindingsStand
  BY DEF Serial, Write
<1>2. pc' \in [Hosts -> Steps] /\ pc[h] = "write" /\ pc'[h] = "held"
      /\ \A g \in Hosts \ {h} : pc'[g] = pc[g]
  BY DEF Write, Goto, TypeOK, Steps
<1>3. lock # Absent /\ lock.owner = h /\ lock \in LockFile
  BY <1>1, <1>2 DEF OwnersHaveFiles, Owning, TypeOK
<1>4. lock' = [lock EXCEPT !.written = TRUE]
  BY <1>3 DEF Write
<1>5. lock' \in LockFile /\ lock'.owner = h /\ lock'.written
  BY <1>3, <1>4 DEF LockFile
<1>6. OneAcquires'
  BY <1>1, <1>2 DEF OneAcquires, Acquiring
<1>7. OwnersHaveFiles'
  BY <1>1, <1>2, <1>3, <1>5, FileThere DEF OwnersHaveFiles, Owning, Alive
<1>8. FindingsStand'
  BY <1>1, <1>2 DEF FindingsStand, OneAcquires, Acquiring
<1> QED
  BY <1>6, <1>7, <1>8

\* What a lone acquirer reads of the lock cannot become untrue of a live host.
LEMMA LookSerial ==
  ASSUME TypeOK, Serial, NEW h \in Hosts, Read(h) \/ Probe(h) \/ Stat(h) PROVE Serial'
<1> SUFFICES ASSUME ~overlapped PROVE (OneAcquires /\ OwnersHaveFiles /\ FindingsStand)'
  BY DEF Serial, Read, Probe, Stat
<1>1. OneAcquires /\ OwnersHaveFiles /\ FindingsStand
  BY DEF Serial, Read, Probe, Stat
<1>2. lock' = lock /\ pc' \in [Hosts -> Steps] /\ \A g \in Hosts \ {h} : pc'[g] = pc[g]
  BY DEF Read, Probe, Stat, Goto, TypeOK, Steps, Acquiring
<1>3. pc[h] \in {"read", "probe", "stat"} /\ pc'[h] \in {"idle", "probe", "stat", "unlink"}
  BY DEF Read, Probe, Stat, Goto, TypeOK
<1>4. OneAcquires'
  BY <1>1, <1>2, <1>3 DEF OneAcquires, Acquiring
<1>5. OwnersHaveFiles'
  BY <1>1, <1>2, <1>3 DEF OwnersHaveFiles, Owning, Alive
<1>6. FindingsStand'
  <2>1. \A g \in Hosts \ {h} : pc[g] \notin Acquiring
    BY <1>1, <1>3 DEF OneAcquires, Acquiring
  <2>2. lock = Absent \/ lock.owner \in Hosts
    BY DEF TypeOK, LockFile
  <2>3. CASE Read(h)
    <3>1. seen' = [seen EXCEPT ![h] = Holder] /\ seen'[h] = Holder
      BY <2>3 DEF Read, TypeOK
    <3>2. CASE Holder # Nobody
      <4>1. pc'[h] = "probe"
        BY <2>3, <3>2 DEF Read, Goto, TypeOK
      <4> QED
        BY <1>2, <2>1, <3>1, <3>2, <4>1, HolderType DEF FindingsStand, Acquiring
    <3>3. CASE Holder = Nobody
      <4>1. pc'[h] = "stat" /\ pc[h] = "read"
        BY <2>3, <3>3 DEF Read, Goto, TypeOK
      <4>2. lock = Absent \/ ~Alive(lock.owner)
        <5>1. lock = Absent \/ ~lock.written
          BY <3>3, HolderType
        <5>2. ASSUME lock # Absent, ~lock.written, Alive(lock.owner) PROVE FALSE
          <6>1. lock.owner \in Hosts /\ pc[lock.owner] = "write"
            BY <1>1, <2>2, <5>2 DEF OwnersHaveFiles, Owning
          <6> QED
            BY <2>1, <4>1, <6>1 DEF Acquiring
        <5> QED
          BY <5>1, <5>2
      <4>3. lock = Absent \/ ~Alive(lock.owner)'
        BY <1>2, <2>2, <4>1, <4>2 DEF Alive
      <4> QED
        BY <1>2, <2>1, <4>1, <4>3 DEF FindingsStand, Acquiring
    <3> QED
      BY <3>2, <3>3
  <2>4. CASE Probe(h) \/ Stat(h)
    <3>1. seen' = seen
      BY <2>4 DEF Probe, Stat
    <3>2. pc'[h] = "unlink" => lock = Absent \/ ~Alive(lock.owner)
      BY <1>1, <2>4 DEF Probe, Stat, Goto, TypeOK, FindingsStand
    <3>3. pc'[h] \in {"idle", "unlink"}
      BY <2>4 DEF Probe, Stat, Goto, TypeOK
    <3>4. pc'[h] = "unlink" => lock = Absent \/ ~Alive(lock.owner)'
      BY <1>2, <1>3, <2>2, <3>2 DEF Alive
    <3> QED
      BY <1>2, <2>1, <3>3, <3>4 DEF FindingsStand, Acquiring
  <2> QED
    BY <2>3, <2>4
<1> QED
  BY <1>4, <1>5, <1>6

-----------------------------------------------------------------------------
(* Steps that remove a file, and those of the environment.                 *)

\* A file that goes was nobody's that is alive, except the remover's own.
LEMMA RemoveSerial ==
  ASSUME TypeOK, Serial, NEW h \in Hosts, Unlink(h) \/ Remove(h) PROVE Serial'
<1> SUFFICES ASSUME ~overlapped PROVE (OneAcquires /\ OwnersHaveFiles /\ FindingsStand)'
  BY DEF Serial, Unlink, Remove
<1>1. OneAcquires /\ OwnersHaveFiles /\ FindingsStand
  BY DEF Serial, Unlink, Remove
<1>2. lock' = Absent /\ pc' \in [Hosts -> Steps] /\ \A g \in Hosts \ {h} : pc'[g] = pc[g]
  BY DEF Unlink, Remove, Goto, TypeOK, Steps, Acquiring
<1>3. \/ pc[h] = "unlink" /\ pc'[h] = "recreate"
      \/ pc[h] = "remove" /\ pc'[h] = "idle"
  BY DEF Unlink, Remove, Goto, TypeOK
<1>4. \A g \in Hosts \ {h} : pc[g] \notin Owning
  <2>1. CASE pc[h] = "unlink"
    BY <1>1, <2>1 DEF OwnersHaveFiles, FindingsStand, Alive, Owning
  <2>2. CASE pc[h] = "remove"
    BY <1>1, <2>2 DEF OwnersHaveFiles, Owning
  <2> QED
    BY <1>3, <2>1, <2>2
<1>5. OneAcquires'
  BY <1>1, <1>2, <1>3 DEF OneAcquires, Acquiring
<1>6. OwnersHaveFiles'
  BY <1>2, <1>3, <1>4 DEF OwnersHaveFiles, Owning
<1>7. FindingsStand'
  BY <1>2 DEF FindingsStand
<1> QED
  BY <1>5, <1>6, <1>7

LEMMA ReleaseSerial ==
  ASSUME TypeOK, Serial, NEW h \in Hosts, StartRelease(h) \/ CheckHolder(h) PROVE Serial'
<1> SUFFICES ASSUME ~overlapped PROVE (OneAcquires /\ OwnersHaveFiles /\ FindingsStand)'
  BY DEF Serial, StartRelease, CheckHolder
<1>1. OneAcquires /\ OwnersHaveFiles /\ FindingsStand
  BY DEF Serial, StartRelease, CheckHolder
<1>2. UNCHANGED <<lock, seen>> /\ pc' \in [Hosts -> Steps]
      /\ \A g \in Hosts \ {h} : pc'[g] = pc[g]
  BY DEF StartRelease, CheckHolder, Goto, TypeOK, Steps
<1>3. pc[h] \in {"held", "check"} /\ pc'[h] \in {"check", "remove"}
  <2>1. CASE StartRelease(h)
    BY <2>1 DEF StartRelease, Goto, TypeOK
  <2>2. CASE CheckHolder(h)
    <3>1. Holder = h
      BY <1>1, <2>2 DEF CheckHolder, OwnersHaveFiles, Owning, Holder
    <3> QED
      BY <2>2, <3>1 DEF CheckHolder, Goto, TypeOK
  <2> QED
    BY <2>1, <2>2
<1>4. OneAcquires'
  BY <1>1, <1>2, <1>3 DEF OneAcquires, Acquiring
<1>5. OwnersHaveFiles'
  BY <1>1, <1>2, <1>3 DEF OwnersHaveFiles, Owning, Alive
<1>6. FindingsStand'
  <2>1. \A g \in Hosts : Alive(g)' => Alive(g)
    BY <1>2, <1>3 DEF Alive
  <2>2. lock = Absent \/ lock.owner \in Hosts
    BY DEF TypeOK, LockFile
  <2> QED
    BY <1>1, <1>2, <1>3, <2>1, <2>2 DEF FindingsStand
<1> QED
  BY <1>4, <1>5, <1>6

LEMMA CrashSerial ==
  ASSUME TypeOK, Serial, NEW h \in Hosts, Crash(h) PROVE Serial'
<1> SUFFICES ASSUME ~overlapped PROVE (OneAcquires /\ OwnersHaveFiles /\ FindingsStand)'
  BY DEF Serial, Crash
<1>1. OneAcquires /\ OwnersHaveFiles /\ FindingsStand
  BY DEF Serial, Crash
<1>2. UNCHANGED <<lock, seen>> /\ pc'[h] = "dead" /\ \A g \in Hosts \ {h} : pc'[g] = pc[g]
  BY DEF Crash, Goto, TypeOK
<1>3. OneAcquires' /\ OwnersHaveFiles'
  BY <1>1, <1>2 DEF OneAcquires, OwnersHaveFiles, Owning, Alive, Acquiring
<1>4. FindingsStand'
  <2>1. lock = Absent \/ lock.owner \in Hosts
    BY DEF TypeOK, LockFile
  <2>2. \A g \in Hosts : Alive(g)' => Alive(g)
    BY <1>2 DEF Alive
  <2> QED
    BY <1>1, <1>2, <2>1, <2>2 DEF FindingsStand
<1> QED
  BY <1>3, <1>4

LEMMA AgeSerial ==
  ASSUME TypeOK, Serial, Age PROVE Serial'
<1> SUFFICES ASSUME ~overlapped PROVE (OneAcquires /\ OwnersHaveFiles /\ FindingsStand)'
  BY DEF Serial, Age
<1>1. OneAcquires /\ OwnersHaveFiles /\ FindingsStand
  BY DEF Serial, Age
<1>2. lock # Absent /\ lock \in LockFile /\ lock' = [lock EXCEPT !.fresh = FALSE]
      /\ UNCHANGED <<pc, seen>>
  BY DEF Age, TypeOK
<1>3. lock' \in LockFile /\ lock'.owner = lock.owner /\ lock'.written = lock.written
  BY <1>2 DEF LockFile
<1>4. lock' # Absent
  BY <1>3, FileThere DEF Absent
<1> QED
  BY <1>1, <1>2, <1>3, <1>4 DEF OneAcquires, OwnersHaveFiles, FindingsStand, Alive

-----------------------------------------------------------------------------

LEMMA IInvInit == Init => IInv
<1> SUFFICES ASSUME Init PROVE IInv
  OBVIOUS
<1>1. TypeOK
  BY DEF Init, TypeOK, Steps
<1>2. Serial
  BY DEF Init, Serial, OneAcquires, OwnersHaveFiles, FindingsStand, Owning, Acquiring
<1> QED
  BY <1>1, <1>2 DEF IInv

LEMMA IInvStep == IInv /\ [Next]_vars => IInv'
<1> SUFFICES ASSUME TypeOK, Serial, [Next]_vars PROVE Serial'
  BY TypeStep DEF IInv
<1>1. ASSUME NEW h \in Hosts, Create(h) \/ Recreate(h) PROVE Serial'
  BY <1>1, TryCreateSerial DEF Create, Recreate, Acquiring
<1>2. CASE UNCHANGED vars
  BY <1>2 DEF vars, Serial, OneAcquires, OwnersHaveFiles, FindingsStand, Alive
<1> QED
  BY <1>1, <1>2, StartSerial, WriteSerial, LookSerial, RemoveSerial, ReleaseSerial,
     CrashSerial, AgeSerial DEF Next, Advance

LEMMA IInvAlways == Spec => []IInv
  BY IInvInit, IInvStep, PTL DEF Spec

\* However many hosts there are, on any volume, however slow a claim is and
\* wherever hosts die: two hosts never both believe they own the session, as
\* long as no two of them have been acquiring it at the same time
\* (ownership.ts acquire, release).
THEOREM ExclusionWhenSerial == Spec => []ExclusiveWhenSerial
<1>1. IInv => ExclusiveWhenSerial
  BY DEF IInv, Serial, OwnersHaveFiles, Owning, ExclusiveWhenSerial, Exclusive
<1> QED
  BY <1>1, IInvAlways, PTL

\* Under the same condition a holder's lock file stays in place until its own
\* release removes it (ownership.ts release, "only if we still hold it").
THEOREM HolderKeepsLock == Spec => []LockInPlace
<1>1. IInv => LockInPlace
  BY DEF IInv, Serial, OwnersHaveFiles, Owning, LockInPlace
<1> QED
  BY <1>1, IInvAlways, PTL

-----------------------------------------------------------------------------
(* Whom a lock was stolen from.  This holds whatever overlaps: the dead stay *)
(* dead, and only a probe that finds its holder dead leads a host that saw   *)
(* one to remove the file.                                                   *)

Victims ==
  \A h \in Hosts :
    /\ pc[h] = "stat" => seen[h] = Nobody
    /\ pc[h] \in {"unlink", "recreate"} /\ seen[h] \in Hosts => ~Alive(seen[h])
    /\ stole[h] \in Hosts => ~Alive(stole[h])

LEMMA DeathIsFinal ==
  ASSUME TypeOK, [Next]_vars, NEW g \in Hosts, ~Alive(g) PROVE ~Alive(g)'
<1> USE DEF TypeOK, Alive, Goto
<1>1. ASSUME NEW h \in Hosts, StartAcquire(h) \/ Advance(h) \/ StartRelease(h) \/ Crash(h)
      PROVE  ~Alive(g)'
  BY <1>1 DEF StartAcquire, Advance, Create, Write, Read, Probe, Stat, Unlink, Recreate,
              TryCreate, StartRelease, CheckHolder, Remove, Crash
<1>2. CASE Age \/ UNCHANGED vars
  BY <1>2 DEF Age, vars
<1> QED
  BY <1>1, <1>2 DEF Next

LEMMA VictimsStep ==
  ASSUME TypeOK, Victims, [Next]_vars PROVE Victims'
<1> USE DEF TypeOK, Victims, Goto
<1>1. ASSUME NEW h \in Hosts, Create(h) PROVE Victims'
  BY <1>1, DeathIsFinal, HostAssumption DEF Create, TryCreate
<1>2. ASSUME NEW h \in Hosts, Recreate(h) PROVE Victims'
  <2>1. /\ UNCHANGED seen
        /\ stole' = [stole EXCEPT ![h] = IF seen[h] = Nobody THEN Unreadable ELSE seen[h]]
        /\ pc' \in [Hosts -> Steps] /\ pc'[h] \notin {"stat", "unlink", "recreate"}
        /\ \A g \in Hosts \ {h} : pc'[g] = pc[g]
    BY <1>2 DEF Recreate, TryCreate, Steps, Acquiring
  <2>2. seen[h] = Nobody \/ ~Alive(seen[h])
    BY <1>2 DEF Recreate
  <2>3. stole'[h] \in Hosts => ~Alive(stole'[h])
    BY <2>1, <2>2, HostAssumption
  <2> QED
    BY <2>1, <2>3, DeathIsFinal DEF Alive
<1>3. ASSUME NEW h \in Hosts, Read(h) PROVE Victims'
  BY <1>3, DeathIsFinal DEF Read
<1>4. ASSUME NEW h \in Hosts, Probe(h) PROVE Victims'
  BY <1>4, DeathIsFinal DEF Probe, Alive
<1>5. ASSUME NEW h \in Hosts, Stat(h) \/ Unlink(h) PROVE Victims'
  BY <1>5, DeathIsFinal, HostAssumption DEF Stat, Unlink
<1>6. ASSUME NEW h \in Hosts,
             \/ StartAcquire(h) \/ Write(h) \/ StartRelease(h)
             \/ CheckHolder(h) \/ Remove(h) \/ Crash(h)
      PROVE  Victims'
  BY <1>6, DeathIsFinal DEF StartAcquire, Write, StartRelease, CheckHolder, Remove, Crash
<1>7. CASE Age \/ UNCHANGED vars
  BY <1>7, DeathIsFinal DEF Age, vars
<1> QED
  BY <1>1, <1>2, <1>3, <1>4, <1>5, <1>6, <1>7 DEF Next, Advance

\* For any number of hosts and whatever overlaps, the holder a lock is reported
\* stolen from is one whose process is gone (ownership.ts acquire; the report
\* is what runtime.ts acquireSessionLock records).
THEOREM OnlyTheDeadAreRobbed == Spec => []NamedVictimsAreDead
<1>1. Init => TypeOK /\ Victims
  BY IInvInit, HostAssumption DEF IInv, Init, Victims
<1>2. TypeOK /\ Victims /\ [Next]_vars => (TypeOK /\ Victims)'
  BY TypeStep, VictimsStep
<1>3. Victims => NamedVictimsAreDead
  BY DEF Victims, NamedVictimsAreDead
<1> QED
  BY <1>1, <1>2, <1>3, PTL DEF Spec

-----------------------------------------------------------------------------
(* LoopbackHost. *)

Message ==
  {m \in [kind : {"hello", "ack", "shutdown", "command", "ticket"}, n : Nat] :
     m.kind = "ticket" => m.n \in Tickets}

Socket == [client : {"none", "connecting", "open", "closed"}, host : {"none", "open", "closed"}]

Counts == [commands : Nat, tickets : Nat, faults : Nat]

LoopbackTyped ==
  /\ pending \subseteq Message
  /\ toHost \in Seq(Message) /\ toMain \in Seq(Message)
  /\ tickets \subseteq Tickets
  /\ sockets \in [Tickets -> Socket]
  /\ handed \in Seq(Tickets)
  /\ {bridge, shown, port} \subseteq Tickets \cup {None}
  /\ reports \in Nat
  /\ count \in Counts

\* An exit is told once, because wsl.exe exits once; what dies of main's own
\* doing was marked before.
ExitsTold ==
  /\ start = "idle" => exe = "none" /\ reports = 0
  /\ reports \in {0, 1}
  /\ reports = 1 => exe = "exited" /\ ~asked
  /\ exe = "dying" => asked
  /\ asked /\ alive => intended
  /\ stopping # "none" /\ exe = "running" => asked

\* The host has one socket open, that of its port; the preload has one that is
\* opening or open, that of its bridge; the page has its end once it is open.
EndsPaired ==
  \A n \in Tickets :
    /\ sockets[n].host = "open" <=> port = n
    /\ sockets[n].client \in {"connecting", "open"} => bridge = n
    /\ sockets[n].client = "open" <=> shown = n

\* The inductive invariant.
LoopbackIInv == LoopbackTyped /\ ExitsTold /\ EndsPaired

-----------------------------------------------------------------------------

LEMMA TicketFacts == /\ Tickets \subseteq Nat /\ None \notin Tickets
                     /\ \A k \in Nat : k < MaxTickets => k + 1 \in Tickets
  BY LoopbackAssumption DEF Tickets, None

LEMMA MessageFacts ==
  /\ Shutdown \in Message /\ Bare("hello") \in Message /\ Bare("ack") \in Message
  /\ \A k \in Nat : Command(k + 1) \in Message
  /\ \A n \in Tickets : TicketRequest(n) \in Message
  BY TicketFacts DEF Message, Shutdown, Bare, Command, TicketRequest

LEMMA TailType ==
  ASSUME NEW S, NEW q \in Seq(S), q # <<>> PROVE Tail(q) \in Seq(S) /\ Head(q) \in S
  OBVIOUS

LEMMA HostEndsType ==
  ASSUME LoopbackTyped, HostEnds
  PROVE  /\ toHost' \in Seq(Message) /\ tickets' \subseteq Tickets /\ port' \in Tickets \cup {None}
         /\ sockets' \in [Tickets -> Socket]
  BY DEF LoopbackTyped, HostEnds, Socket, None

\* The end of the host closes its open socket and nothing else.
LEMMA HostEndsPaired ==
  ASSUME LoopbackTyped, EndsPaired, HostEnds, UNCHANGED <<bridge, shown>>
  PROVE  EndsPaired'
<1> SUFFICES ASSUME NEW n \in Tickets
             PROVE  /\ sockets'[n].host = "open" <=> port' = n
                    /\ sockets'[n].client \in {"connecting", "open"} => bridge' = n
                    /\ sockets'[n].client = "open" <=> shown' = n
  BY DEF EndsPaired
<1>1. sockets[n] \in Socket
  BY DEF LoopbackTyped
<1>2. sockets'[n].client = sockets[n].client /\ sockets'[n].host # "open"
  BY <1>1 DEF HostEnds, Socket
<1>3. port' # n
  BY TicketFacts DEF HostEnds
<1> QED
  BY <1>2, <1>3 DEF EndsPaired

-----------------------------------------------------------------------------
(* Types. *)

LEMMA LauncherTyped ==
  ASSUME LoopbackTyped, LauncherStep PROVE LoopbackTyped'
<1> USE DEF LoopbackTyped
<1>1. CASE Spawn
  BY <1>1 DEF Spawn, wireVars, eventVars
<1>2. CASE ReadAnnouncement
  BY <1>2 DEF ReadAnnouncement, hostVars, wireVars, eventVars
<1>3. CASE Connect
  BY <1>3, MessageFacts DEF Connect, hostVars, eventVars
<1>4. CASE StartFails
  BY <1>4 DEF StartFails, GiveUp, hostVars, eventVars
<1>5. CASE MainReceives
  <2>1. Tail(toMain) \in Seq(Message) /\ Head(toMain) \in Message
    BY <1>5, TailType DEF MainReceives
  <2>2. pending' \subseteq Message
    BY <1>5 DEF MainReceives, GiveUp
  <2>3. handed' \in Seq(Tickets)
    <3>1. CASE handed' = handed
      BY <3>1
    <3>2. CASE handed' # handed
      <4>1. Head(toMain).kind = "ticket" /\ handed' = Append(handed, Head(toMain).n)
        BY <1>5, <3>2 DEF MainReceives
      <4>2. Head(toMain).n \in Tickets
        BY <2>1, <4>1 DEF Message
      <4> QED
        BY <4>1, <4>2
    <3> QED
      BY <3>1, <3>2
  <2> QED
    BY <1>5, <2>1, <2>2, <2>3 DEF MainReceives, hostVars
<1>6. CASE Send
  <2>1. count.commands \in Nat /\ count' \in Counts
    BY <1>6 DEF Send, Counts
  <2>2. Command(count.commands + 1) \in Message
    BY <2>1, MessageFacts
  <2> QED
    BY <1>6, <2>1, <2>2 DEF Send, Request, hostVars, eventVars
<1>7. CASE AttachEventChannel
  <2>1. count.tickets \in Nat /\ count' \in Counts
    BY <1>7 DEF AttachEventChannel, Counts
  <2>2. count.tickets + 1 \in Tickets
    BY <1>7, <2>1, TicketFacts DEF AttachEventChannel
  <2>3. TicketRequest(count.tickets + 1) \in Message
    BY <2>2, MessageFacts
  <2> QED
    BY <1>7, <2>1, <2>3 DEF AttachEventChannel, Request, hostVars, eventVars
<1>8. ASSUME NEW r \in pending, RequestTimesOut(r) PROVE LoopbackTyped'
  BY <1>8 DEF RequestTimesOut, hostVars, wireVars, eventVars
<1>9. CASE Stop
  <2>1. Shutdown \in Message
    BY MessageFacts
  <2>2. Append(toHost, Shutdown) \in Seq(Message) /\ pending \cup {Shutdown} \subseteq Message
    BY <2>1
  <2>3. pending' \subseteq Message /\ toHost' \in Seq(Message)
    BY <1>9, <2>2 DEF Stop
  <2> QED
    BY <1>9, <2>3 DEF Stop, hostVars, eventVars
<1>10. CASE StopCloses
  BY <1>10 DEF StopCloses, hostVars, eventVars
<1>11. CASE StopTerminates
  <2>1. /\ toHost' \in Seq(Message) /\ tickets' \subseteq Tickets /\ port' \in Tickets \cup {None}
        /\ sockets' \in [Tickets -> Socket]
    BY <1>11, HostEndsType DEF StopTerminates
  <2> QED
    BY <1>11, <2>1 DEF StopTerminates
<1>12. CASE StopEnds
  BY <1>12 DEF StopEnds, hostVars, wireVars, eventVars
<1> QED
  BY <1>1, <1>2, <1>3, <1>4, <1>5, <1>6, <1>7, <1>8, <1>9, <1>10, <1>11, <1>12 DEF LauncherStep

LEMMA HostTyped ==
  ASSUME LoopbackTyped, HostStep PROVE LoopbackTyped'
<1> USE DEF LoopbackTyped
<1>1. CASE Bind
  BY <1>1 DEF Bind, mainVars, wireVars, eventVars
<1>2. CASE Authenticate
  BY <1>2, TailType DEF Authenticate, mainVars, eventVars
<1>3. CASE Built
  <2>1. /\ toHost' \in Seq(Message) /\ tickets' \subseteq Tickets /\ port' \in Tickets \cup {None}
        /\ sockets' \in [Tickets -> Socket]
    BY <1>3, HostEndsType DEF Built
  <2>2. toMain' \in Seq(Message)
    BY <1>3, MessageFacts DEF Built
  <2> QED
    BY <1>3, <2>1, <2>2 DEF Built, mainVars
<1>4. CASE Serve
  <2>1. Tail(toHost) \in Seq(Message) /\ Head(toHost) \in Message
    BY <1>4, TailType DEF Serve
  <2>2. tickets' \subseteq Tickets
    BY <1>4, <2>1 DEF Serve, Message
  <2>3. toMain' \in Seq(Message)
    BY <1>4, <2>1 DEF Serve
  <2> QED
    BY <1>4, <2>1, <2>2, <2>3 DEF Serve, mainVars
<1>5. CASE Ignore
  BY <1>5, TailType DEF Ignore, mainVars, hostVars, eventVars
<1>6. CASE ShutDown
  <2>1. toMain' \in Seq(Message)
    BY <1>6, MessageFacts DEF ShutDown
  <2> QED
    BY <1>6, <2>1, HostEndsType DEF ShutDown, mainVars
<1>7. CASE OwnerCloses
  BY <1>7 DEF OwnerCloses, mainVars, eventVars
<1>8. CASE Orphaned
  <2>1. /\ toHost' \in Seq(Message) /\ tickets' \subseteq Tickets /\ port' \in Tickets \cup {None}
        /\ sockets' \in [Tickets -> Socket]
    BY <1>8, HostEndsType DEF Orphaned
  <2> QED
    BY <1>8, <2>1 DEF Orphaned, mainVars
<1> QED
  BY <1>1, <1>2, <1>3, <1>4, <1>5, <1>6, <1>7, <1>8 DEF HostStep

LEMMA ExitTyped ==
  ASSUME LoopbackTyped, ExeExits \/ FaultStep \/ MainSeesClose PROVE LoopbackTyped'
<1> USE DEF LoopbackTyped
<1>1. ASSUME Fault PROVE count' \in Counts
  BY <1>1 DEF Fault, Counts
<1>2. CASE ExeExits \/ ExeDies
  <2>1. /\ toHost' \in Seq(Message) /\ tickets' \subseteq Tickets /\ port' \in Tickets \cup {None}
        /\ sockets' \in [Tickets -> Socket]
    BY <1>2, HostEndsType DEF ExeExits, ExeDies
  <2>2. pending' \subseteq Message /\ reports' \in Nat
    BY <1>2 DEF ExeExits, ExeDies, ProcessExited
  <2>3. count' \in Counts
    BY <1>1, <1>2 DEF ExeExits, ExeDies
  <2> QED
    BY <1>2, <2>1, <2>2, <2>3 DEF ExeExits, ExeDies
<1>3. CASE MainDies
  <2>1. sockets' \in [Tickets -> Socket]
    BY <1>3 DEF MainDies, Socket
  <2> QED
    BY <1>1, <1>3, <2>1 DEF MainDies, hostVars
<1>4. CASE ControlDrops
  BY <1>1, <1>4 DEF ControlDrops, mainVars, hostVars, eventVars
<1>5. CASE MainSeesClose
  BY <1>5 DEF MainSeesClose, mainVars, hostVars, eventVars
<1> QED
  BY <1>2, <1>3, <1>4, <1>5 DEF FaultStep

LEMMA SocketTyped ==
  ASSUME LoopbackTyped, SocketStep PROVE LoopbackTyped'
<1> USE DEF LoopbackTyped, EventsOnly, mainVars, hostVars, wireVars
<1>1. CASE TakeDescriptor
  <2>1. Head(handed) \in Tickets /\ Tail(handed) \in Seq(Tickets)
    BY <1>1, TailType DEF TakeDescriptor
  <2>2. Closing(sockets, bridge) \in [Tickets -> Socket]
    BY DEF Closing, Socket
  <2>3. sockets' \in [Tickets -> Socket]
    BY <1>1, <2>1, <2>2 DEF TakeDescriptor, Socket
  <2> QED
    BY <1>1, <2>1, <2>3 DEF TakeDescriptor
<1>2. ASSUME NEW n \in Tickets, Accept(n) PROVE LoopbackTyped'
  <2>1. Replaced(sockets) \in [Tickets -> Socket]
    BY DEF Replaced, Socket
  <2>2. sockets' \in [Tickets -> Socket]
    BY <1>2, <2>1 DEF Accept, Socket
  <2> QED
    BY <1>2, <2>2 DEF Accept
<1>3. ASSUME NEW n \in Tickets, TicketExpires(n) PROVE LoopbackTyped'
  BY <1>3 DEF TicketExpires
<1>4. ASSUME NEW n \in Tickets, BridgeOpens(n) \/ BridgeFails(n) \/ BridgeSeesClose(n) \/ PortSeesClose(n)
      PROVE LoopbackTyped'
  <2>1. sockets' \in [Tickets -> Socket]
    BY <1>4 DEF BridgeOpens, BridgeFails, BridgeSeesClose, PortSeesClose, Socket
  <2> QED
    BY <1>4, <2>1 DEF BridgeOpens, BridgeFails, BridgeSeesClose, PortSeesClose
<1> QED
  BY <1>1, <1>2, <1>3, <1>4 DEF SocketStep

LEMMA TypedStep ==
  ASSUME LoopbackTyped, [LoopbackNext]_loopbackVars PROVE LoopbackTyped'
<1>1. CASE UNCHANGED loopbackVars
  BY <1>1 DEF LoopbackTyped, loopbackVars, mainVars, hostVars, wireVars, eventVars
<1> QED
  BY <1>1, LauncherTyped, HostTyped, ExitTyped, SocketTyped DEF LoopbackNext

-----------------------------------------------------------------------------
(* Exits. *)

\* ProcessExited, for an exit that is the first.
LEMMA ExitedOnce ==
  ASSUME ExitsTold, ProcessExited, exe \in {"running", "dying"}, exe' = "exited",
         UNCHANGED <<alive, intended, asked, stopping>>
  PROVE  ExitsTold'
<1>1. reports = 0 /\ start # "idle"
  BY DEF ExitsTold
<1>2. start' # "idle"
  BY <1>1 DEF ProcessExited
<1>3. CASE alive /\ child /\ ~intended
  <2>1. ~asked
    BY <1>3 DEF ExitsTold
  <2>2. reports' = 1
    BY <1>1, <1>3 DEF ProcessExited, Marked
  <2> QED
    BY <1>2, <2>1, <2>2 DEF ExitsTold
<1>4. CASE ~(alive /\ child /\ ~intended)
  <2>1. reports' = 0
    BY <1>1, <1>4 DEF ProcessExited, Marked
  <2> QED
    BY <1>2, <2>1 DEF ExitsTold
<1> QED
  BY <1>3, <1>4

LEMMA ExitsStep ==
  ASSUME ExitsTold, [LoopbackNext]_loopbackVars PROVE ExitsTold'
<1> USE DEF ExitsTold
<1>1. CASE Spawn
  BY <1>1 DEF Spawn
<1>2. CASE ReadAnnouncement \/ Connect
  BY <1>2 DEF ReadAnnouncement, Connect
<1>3. CASE StartFails
  BY <1>3 DEF StartFails, GiveUp, Starting
<1>4. CASE MainReceives
  <2>1. UNCHANGED <<stopping, alive, reports>>
    BY <1>4 DEF MainReceives
  <2>2. CASE Head(toMain).kind = "ack" /\ ~Accepted
    <3>1. GiveUp
      BY <1>4, <2>2 DEF MainReceives
    <3>2. start' = "failed" /\ intended' = TRUE /\ asked' = (asked \/ exe = "running")
          /\ exe' = IF exe = "running" THEN "dying" ELSE exe
      BY <3>1 DEF GiveUp
    <3> QED
      BY <2>1, <3>2
  <2>3. CASE ~(Head(toMain).kind = "ack" /\ ~Accepted)
    <3>1. UNCHANGED <<exe, asked, intended>>
      BY <1>4, <2>3 DEF MainReceives
    <3>2. start' = start \/ (start' = "ready" /\ start = "handshaking")
      BY <1>4, <2>3 DEF MainReceives, Accepted
    <3> QED
      BY <2>1, <3>1, <3>2
  <2> QED
    BY <2>2, <2>3
<1>5. CASE Send \/ AttachEventChannel \/ \E r \in pending : RequestTimesOut(r)
  BY <1>5 DEF Send, AttachEventChannel, Request, RequestTimesOut
<1>6. CASE Stop
  BY <1>6 DEF Stop
<1>7. CASE StopCloses \/ StopTerminates
  BY <1>7 DEF StopCloses, StopTerminates
<1>8. CASE StopEnds
  BY <1>8 DEF StopEnds
<1>9. CASE HostStep
  BY <1>9 DEF HostStep, Bind, Authenticate, Built, Serve, Ignore, ShutDown, OwnerCloses, Orphaned, mainVars
<1>10. CASE SocketStep
  BY <1>10 DEF SocketStep, TakeDescriptor, Accept, TicketExpires, BridgeOpens, BridgeFails,
               BridgeSeesClose, PortSeesClose, EventsOnly, mainVars
<1>11. CASE ExeExits \/ ExeDies
  BY <1>11, ExitedOnce DEF ExeExits, ExeDies
<1>12. CASE MainDies
  BY <1>12 DEF MainDies
<1>13. CASE ControlDrops \/ MainSeesClose \/ UNCHANGED loopbackVars
  BY <1>13 DEF ControlDrops, MainSeesClose, mainVars, loopbackVars
<1> QED
  BY <1>1, <1>2, <1>3, <1>4, <1>5, <1>6, <1>7, <1>8, <1>9, <1>10, <1>11, <1>12, <1>13
  DEF LoopbackNext, LauncherStep, FaultStep

-----------------------------------------------------------------------------
(* Event sockets. *)

LEMMA SocketsAsTheyWere ==
  ASSUME EndsPaired, UNCHANGED <<sockets, bridge, shown, port>> PROVE EndsPaired'
  BY DEF EndsPaired

LEMMA SocketPaired ==
  ASSUME LoopbackTyped, EndsPaired, SocketStep PROVE EndsPaired'
<1> SUFFICES ASSUME NEW k \in Tickets
             PROVE  /\ sockets'[k].host = "open" <=> port' = k
                    /\ sockets'[k].client \in {"connecting", "open"} => bridge' = k
                    /\ sockets'[k].client = "open" <=> shown' = k
  BY DEF EndsPaired
<1>0. /\ sockets \in [Tickets -> Socket] /\ sockets[k] \in Socket
      /\ sockets[k].host = "open" <=> port = k
      /\ sockets[k].client \in {"connecting", "open"} => bridge = k
      /\ sockets[k].client = "open" <=> shown = k
  BY DEF LoopbackTyped, EndsPaired
<1>1. CASE TakeDescriptor
  <2> DEFINE n == Head(handed)
             c == Closing(sockets, bridge)
  <2>1. n \in Tickets /\ n # None
    BY <1>1, TailType, TicketFacts DEF TakeDescriptor, LoopbackTyped
  <2>2. c \in [Tickets -> Socket] /\ c[k].host = sockets[k].host
    BY <1>0 DEF Closing, Socket
  <2>3. c[k].client \in {"none", "closed"}
    BY <1>0, TicketFacts DEF Closing, Socket, LoopbackTyped
  <2>4. sockets' = [c EXCEPT ![n].client = "connecting"] /\ bridge' = n /\ port' = port
    BY <1>1 DEF TakeDescriptor
  <2>5. sockets'[k].host = sockets[k].host
    BY <2>2, <2>4
  <2>6. sockets'[k].client = IF k = n THEN "connecting" ELSE c[k].client
    BY <2>1, <2>2, <2>4 DEF Socket
  <2>7. shown' # k
    <3>1. shown = k => bridge = k
      BY <1>0
    <3> QED
      BY <1>1, <3>1, TicketFacts DEF TakeDescriptor
  <2> HIDE DEF n, c
  <2> QED
    BY <1>0, <2>3, <2>4, <2>5, <2>6, <2>7
<1>2. ASSUME NEW n \in Tickets, Accept(n)
      PROVE  /\ sockets'[k].host = "open" <=> port' = k
             /\ sockets'[k].client \in {"connecting", "open"} => bridge' = k
             /\ sockets'[k].client = "open" <=> shown' = k
  <2>1. UNCHANGED <<bridge, shown>>
    BY <1>2 DEF Accept
  <2>2. CASE n \in tickets
    <3> DEFINE c == Replaced(sockets)
    <3>1. c \in [Tickets -> Socket] /\ c[k].client = sockets[k].client
      BY <1>0 DEF Replaced, Socket
    <3>2. c[k].host # "open"
      BY <1>0, TicketFacts DEF Replaced, Socket, LoopbackTyped
    <3>3. port' = n /\ sockets' = [c EXCEPT ![n].host = "open"]
      BY <1>2, <2>2 DEF Accept
    <3>4. sockets'[k].client = sockets[k].client /\ sockets'[k].host = IF k = n THEN "open" ELSE c[k].host
      BY <3>1, <3>3 DEF Socket
    <3> HIDE DEF c
    <3> QED
      BY <1>0, <2>1, <3>2, <3>3, <3>4
  <2>3. CASE n \notin tickets
    <3>1. port' = port /\ sockets' = [sockets EXCEPT ![n].host = "closed"] /\ sockets[n].host = "none"
      BY <1>2, <2>3 DEF Accept
    <3>2. /\ sockets'[k].client = sockets[k].client
          /\ sockets'[k].host = IF k = n THEN "closed" ELSE sockets[k].host
      BY <1>0, <3>1 DEF Socket
    <3> QED
      BY <1>0, <2>1, <3>1, <3>2
  <2> QED
    BY <2>2, <2>3
<1>3. ASSUME NEW n \in Tickets, TicketExpires(n)
      PROVE  UNCHANGED <<sockets, bridge, shown, port>>
  BY <1>3 DEF TicketExpires
<1>4. ASSUME NEW n \in Tickets, BridgeOpens(n) \/ BridgeFails(n) \/ BridgeSeesClose(n)
      PROVE  /\ sockets'[k].host = "open" <=> port' = k
             /\ sockets'[k].client \in {"connecting", "open"} => bridge' = k
             /\ sockets'[k].client = "open" <=> shown' = k
  <2> DEFINE next == IF BridgeOpens(n) THEN "open" ELSE "closed"
  <2>1. sockets[n].client \in {"connecting", "open"} => bridge = n /\ (sockets[n].client = "open" <=> shown = n)
    BY DEF EndsPaired
  <2>2. sockets' = [sockets EXCEPT ![n].client = "open"] \/ sockets' = [sockets EXCEPT ![n].client = "closed"]
    BY <1>4 DEF BridgeOpens, BridgeFails, BridgeSeesClose
  <2>3. /\ sockets'[k].host = sockets[k].host
        /\ k # n => sockets'[k].client = sockets[k].client
    BY <1>0, <2>2 DEF Socket
  <2>4. CASE BridgeOpens(n)
    <3>1. sockets'[n].client = "open" /\ bridge' = n /\ shown' = n /\ port' = port /\ bridge = n
      BY <1>0, <2>1, <2>4 DEF BridgeOpens, Socket
    <3> QED
      BY <1>0, <2>3, <3>1
  <2>5. CASE BridgeFails(n)
    <3>1. sockets'[n].client = "closed" /\ bridge' # n /\ shown' = shown /\ port' = port /\ bridge = n
      BY <1>0, <2>1, <2>5, TicketFacts DEF BridgeFails, Socket
    <3>2. shown # n
      BY <2>1, <2>5 DEF BridgeFails
    <3> QED
      BY <1>0, <2>3, <3>1, <3>2
  <2>6. CASE BridgeSeesClose(n)
    <3>1. sockets'[n].client = "closed" /\ bridge' = bridge /\ shown' # n /\ port' = port /\ shown = n
      BY <1>0, <2>1, <2>6, TicketFacts DEF BridgeSeesClose, Socket
    <3>2. shown' = None
      BY <2>6, <3>1 DEF BridgeSeesClose
    <3> QED
      BY <1>0, <2>3, <3>1, <3>2, TicketFacts
  <2> QED
    BY <1>4, <2>4, <2>5, <2>6
<1>5. ASSUME NEW n \in Tickets, PortSeesClose(n)
      PROVE  /\ sockets'[k].host = "open" <=> port' = k
             /\ sockets'[k].client \in {"connecting", "open"} => bridge' = k
             /\ sockets'[k].client = "open" <=> shown' = k
  <2>1. port = n
    BY <1>5 DEF PortSeesClose, EndsPaired
  <2>2. port' = None /\ UNCHANGED <<bridge, shown>>
    BY <1>5, <2>1 DEF PortSeesClose
  <2>3. sockets'[k].client = sockets[k].client /\ sockets'[k].host # "open"
    BY <1>0, <1>5, <2>1 DEF PortSeesClose, Socket
  <2> QED
    BY <1>0, <2>2, <2>3, TicketFacts
<1> QED
  BY <1>0, <1>1, <1>2, <1>3, <1>4, <1>5 DEF SocketStep

\* With main the preload goes, and every client with it.
LEMMA DeathPaired ==
  ASSUME LoopbackTyped, EndsPaired, MainDies PROVE EndsPaired'
<1> SUFFICES ASSUME NEW k \in Tickets
             PROVE  /\ sockets'[k].host = "open" <=> port' = k
                    /\ sockets'[k].client \in {"connecting", "open"} => bridge' = k
                    /\ sockets'[k].client = "open" <=> shown' = k
  BY DEF EndsPaired
<1>1. sockets'[k].host = sockets[k].host /\ sockets'[k].client \notin {"connecting", "open"}
  BY DEF MainDies, LoopbackTyped, Socket
<1>2. shown' # k /\ port' = port
  BY TicketFacts DEF MainDies
<1> QED
  BY <1>1, <1>2 DEF EndsPaired

LEMMA PairedStep ==
  ASSUME LoopbackTyped, EndsPaired, [LoopbackNext]_loopbackVars PROVE EndsPaired'
<1> USE SocketsAsTheyWere, HostEndsPaired
<1>1. CASE Spawn \/ ReadAnnouncement \/ Connect \/ StartFails \/ MainReceives
  BY <1>1 DEF Spawn, ReadAnnouncement, Connect, StartFails, MainReceives, eventVars
<1>2. CASE Send \/ AttachEventChannel \/ \E r \in pending : RequestTimesOut(r)
  BY <1>2 DEF Send, AttachEventChannel, Request, RequestTimesOut, eventVars
<1>3. CASE Stop \/ StopCloses \/ StopEnds
  BY <1>3 DEF Stop, StopCloses, StopEnds, eventVars
<1>4. CASE StopTerminates
  BY <1>4 DEF StopTerminates
<1>5. CASE Bind \/ Authenticate \/ Ignore \/ OwnerCloses
  BY <1>5 DEF Bind, Authenticate, Ignore, OwnerCloses, eventVars
<1>6. CASE Serve
  BY <1>6 DEF Serve
<1>7. CASE Built
  BY <1>7 DEF Built
<1>8. CASE ShutDown \/ Orphaned
  BY <1>8 DEF ShutDown, Orphaned
<1>9. CASE ExeExits \/ ExeDies
  BY <1>9 DEF ExeExits, ExeDies
<1>10. CASE ControlDrops \/ MainSeesClose \/ UNCHANGED loopbackVars
  BY <1>10 DEF ControlDrops, MainSeesClose, loopbackVars, eventVars
<1> QED
  BY <1>1, <1>2, <1>3, <1>4, <1>5, <1>6, <1>7, <1>8, <1>9, <1>10, SocketPaired, DeathPaired
  DEF LoopbackNext, LauncherStep, HostStep, FaultStep

-----------------------------------------------------------------------------

LEMMA LoopbackIInvInit == LoopbackInit => LoopbackIInv
<1> SUFFICES ASSUME LoopbackInit PROVE LoopbackIInv
  OBVIOUS
<1>1. count \in Counts
  BY DEF LoopbackInit, Counts
<1>2. LoopbackTyped
  BY <1>1 DEF LoopbackInit, LoopbackTyped, NoSocket, Socket
<1>3. ExitsTold
  BY DEF LoopbackInit, ExitsTold
<1>4. EndsPaired
  BY TicketFacts DEF LoopbackInit, EndsPaired, NoSocket
<1> QED
  BY <1>2, <1>3, <1>4 DEF LoopbackIInv

LEMMA LoopbackIInvAlways == LoopbackSpec => []LoopbackIInv
<1>1. LoopbackIInv /\ [LoopbackNext]_loopbackVars => LoopbackIInv'
  BY TypedStep, ExitsStep, PairedStep DEF LoopbackIInv
<1> QED
  BY LoopbackIInvInit, <1>1, PTL DEF LoopbackSpec

\* wsl-launcher.ts #processExited: the restart budget is spent at most once on a
\* start, and on no exit that main brought about, in whatever order a stop, a
\* failed start, the death of main and that of wsl.exe come.
THEOREM NoExitIsMiscounted == LoopbackSpec => []OwnExitsAreNoCrashes
<1>1. LoopbackIInv => OwnExitsAreNoCrashes
  BY DEF LoopbackIInv, ExitsTold, OwnExitsAreNoCrashes
<1> QED
  BY LoopbackIInvAlways, <1>1, PTL

\* event-channel.ts and emitter.attach: however tickets are redeemed, sockets
\* opened and channels replaced, at rest the page and the host hold the two ends
\* of one socket, or none.
THEOREM SocketEndsAgree == LoopbackSpec => []EndsAgree
<1>1. LoopbackIInv => EndsAgree
  <2> SUFFICES ASSUME LoopbackIInv, SocketsAtRest PROVE shown = port
    BY DEF EndsAgree
  <2>1. \A n \in Tickets : shown = n <=> port = n
    BY DEF LoopbackIInv, EndsPaired, SocketsAtRest
  <2>2. {shown, port} \subseteq Tickets \cup {None}
    BY DEF LoopbackIInv, LoopbackTyped
  <2> QED
    BY <2>1, <2>2
<1> QED
  BY LoopbackIInvAlways, <1>1, PTL


-----------------------------------------------------------------------------
(* WslNode. *)

Amounts == {"none", "part", "whole"}

Nodes == Apps \cup {"none", "own"}

Bundle == [index : BOOLEAN, deps : Amounts, ready : BOOLEAN]

AppState ==
  [pc : {"idle", "direct", "shell", "staging", "missing", "fetching", "extracting", "running"},
   node : Nodes, saw : {"none", "plain", "shell"}, retry : BOOLEAN]

Before == {"untar", "clear", "move", "swap", "relink", "failed"}
After == {"sweep", "report", "ok"}
Filling == {"copy", "npm", "npm ends", "touch"}

ScriptState ==
  [does : {"nothing", "extract", "stage"}, of : Apps \cup {"none"},
   pc : {"none", "look"} \cup Before \cup After \cup Filling, tmp : Amounts, stale : SUBSET Apps]

Typed ==
  /\ trees \in [Apps -> Amounts]
  /\ current \in Apps \cup {"none"}
  /\ own \in {"none", "plain", "shell"}
  /\ staged \in [Apps -> Bundle]
  /\ app \in [Apps -> AppState]
  /\ remembered \in [Apps -> Nodes]
  /\ job \in [Scripts -> ScriptState]
  /\ \A s \in Scripts : job[s].does # "nothing" => job[s].of \in Apps
  /\ mixed \in BOOLEAN

Stages(s) == job[s].does = "stage"

\* At most one install is under way, and none is begun once there is a link.
OneInstall ==
  /\ \A s, t \in Extracting : s = t
  /\ \A a, b \in Apps : app[a].pc = "fetching" /\ app[b].pc = "fetching" => a = b
  /\ \A a \in Apps : app[a].pc = "fetching" => Extracting = {} /\ current = "none"

\* How far the tree and the link are when a script of EXTRACT is where it is.
StepsInOrder ==
  \A s \in Extracting :
    LET v == job[s].of
    IN /\ job[s].pc \in Before \cup After
       /\ job[s].pc \in Before => current = "none"
       /\ job[s].pc \in After => current = v /\ v \notin job[s].stale
       /\ job[s].pc \in {"clear", "move"} => job[s].tmp = "whole"
       /\ job[s].pc = "move" => trees[v] = "none"
       /\ job[s].pc \in {"swap", "relink"} => trees[v] = "whole"

LinkIsWhole == current # "none" => trees[current] = "whole"

\* A managed Node that was found is the one the link leads to.
FoundIsLinked ==
  \A a \in Apps :
    /\ remembered[a] \in Apps => remembered[a] = current
    /\ app[a].node \in Apps => app[a].node = current
    /\ app[a].retry => current # "none" /\ app[a].pc \notin {"shell", "missing"}

\* How much of a bundle is there when a script that stages it is where it is.
StagedInOrder ==
  /\ \A a \in Apps :
       /\ staged[a].ready => staged[a].index /\ staged[a].deps = "whole"
       /\ app[a].pc = "running" => staged[a].ready
  /\ \A s \in Scripts : Stages(s) =>
       LET bundle == staged[job[s].of]
       IN /\ s \in Apps => job[s].of = s
          /\ job[s].pc \in {"look", "ok"} \cup Filling
          /\ job[s].pc \in Filling => ~bundle.ready
          /\ job[s].pc \in {"npm", "npm ends", "touch"} => bundle.index
          /\ job[s].pc = "touch" => bundle.deps = "whole"
          /\ job[s].pc = "ok" => bundle.ready

OneFills ==
  \A s, t \in Scripts :
    Stages(s) /\ Stages(t) /\ job[s].of = job[t].of /\ job[s].pc \in Filling /\ job[t].pc \in Filling => s = t

Installed == OneInstall /\ StepsInOrder /\ LinkIsWhole

Filled == StagedInOrder /\ OneFills

\* The inductive invariant.
NodeIInv == Typed /\ (~mixed => Installed /\ FoundIsLinked /\ Filled)

-----------------------------------------------------------------------------

LEMMA NameFacts ==
  "none" \notin Apps /\ "own" \notin Apps /\ Orphan \notin Apps /\ Apps \subseteq Scripts /\ Orphan \in Scripts
  BY NodeAssumption DEF Scripts, Orphan

\* What the probe answers is there, and is no other than the person's Node, the
\* one remembered and the one linked; a link that leads to a whole tree is found.
LEMMA ProbeFacts ==
  ASSUME Typed, NEW a \in Apps, NEW shell \in BOOLEAN, NEW path \in ProbeAnswers(a, shell)
  PROVE  /\ path \in Nodes
         /\ path \in Apps => path \in {remembered[a], current}
         /\ current # "none" /\ trees[current] = "whole" => path # "none"
<1> DEFINE at == Candidates(a, shell)
<1>1. at[1] = remembered[a] /\ at[2] \in {"own", "none"} /\ at[3] = current
  BY DEF Candidates
<1>2. TRUE \notin Check("none")
  BY NameFacts DEF Check
<1>3. ASSUME current # "none", trees[current] = "whole" PROVE FALSE \notin Check(at[3])
  BY <1>1, <1>3, NameFacts DEF Check, Typed
<1>0. ProbeAnswers(a, shell) =
        {at[i] : i \in {j \in 1..3 : (\A k \in 1..(j - 1) : FALSE \in Check(at[k])) /\ TRUE \in Check(at[j])}}
          \cup (IF \A k \in 1..(4 - 1) : FALSE \in Check(at[k]) THEN {"none"} ELSE {})
  BY Zenon DEF ProbeAnswers
<1> HIDE DEF at
<1>4. \/ \E i \in 1..3 : path = at[i] /\ TRUE \in Check(at[i])
      \/ path = "none" /\ FALSE \in Check(at[3])
  <2>1. 3 \in 1..(4 - 1)
    OBVIOUS
  <2>2. CASE path = "none" /\ \A k \in 1..(4 - 1) : FALSE \in Check(at[k])
    BY <2>1, <2>2
  <2>3. CASE \E i \in {j \in 1..3 : TRUE \in Check(at[j])} : path = at[i]
    BY <2>3
  <2>4. \/ path = "none" /\ \A k \in 1..(4 - 1) : FALSE \in Check(at[k])
        \/ \E i \in {j \in 1..3 : TRUE \in Check(at[j])} : path = at[i]
    BY <1>0
  <2> QED
    BY <2>2, <2>3, <2>4
<1>5. path \in {remembered[a], current, "own", "none"} /\ remembered[a] \in Nodes /\ current \in Nodes
  <2>1. \A i \in 1..3 : i = 1 \/ i = 2 \/ i = 3
    OBVIOUS
  <2> QED
    BY <1>1, <1>4, <2>1 DEF Typed, Nodes
<1>6. path \in Apps => path \in {remembered[a], current}
  BY <1>5, NameFacts
<1>7. ASSUME current # "none", trees[current] = "whole" PROVE path # "none"
  <2>1. PICK i \in 1..3 : path = at[i] /\ TRUE \in Check(at[i])
    BY <1>3, <1>4, <1>7
  <2> QED
    BY <1>2, <2>1
<1> QED
  BY <1>5, <1>6, <1>7 DEF Nodes

-----------------------------------------------------------------------------
(* Types. *)

LEMMA MainTyped ==
  ASSUME Typed, NEW a \in Apps,
         ConnectApp(a) \/ DirectAnswers(a) \/ NoWsl(a) \/ ShellAnswers(a) \/ InstallChosen(a)
           \/ Fetched(a) \/ InstallEnds(a) \/ ScriptReturns(a) \/ GivesUp(a) \/ HostStops(a)
  PROVE  Typed'
<1> USE DEF Typed
<1>0. Idle \in AppState /\ NoScript \in ScriptState /\ a \in Scripts /\ Orphan \in Scripts
  BY NameFacts DEF Idle, AppState, Nodes, NoScript, ScriptState, Amounts
<1>1. UNCHANGED <<trees, current, own, staged>>
  BY DEF ConnectApp, DirectAnswers, NoWsl, ShellAnswers, InstallChosen, Fetched, InstallEnds,
         ScriptReturns, GivesUp, HostStops, MainOnly
<1>2. ASSUME NEW path \in Nodes, path # "none", Found(a, path)
      PROVE  /\ remembered' \in [Apps -> Nodes] /\ app' \in [Apps -> AppState]
             /\ job' \in [Scripts -> ScriptState]
             /\ \A s \in Scripts : job'[s].does # "nothing" => job'[s].of \in Apps
  <2>1. [NoScript EXCEPT !.does = "stage", !.of = a, !.pc = "look"] \in ScriptState
    BY DEF NoScript, ScriptState, Amounts
  <2>2. app' \in [Apps -> AppState]
    <3>1. own \in {"none", "plain", "shell"} /\ app \in [Apps -> AppState]
      OBVIOUS
    <3>2. [app[a] EXCEPT !.pc = "staging", !.node = path, !.saw = own] \in AppState
      BY <1>2, <3>1 DEF AppState
    <3>3. app' = [app EXCEPT ![a] = [app[a] EXCEPT !.pc = "staging", !.node = path, !.saw = own]]
      BY <1>2, <3>1 DEF Found, AppState
    <3> QED
      BY <3>1, <3>2, <3>3
  <2> QED
    BY <1>2, <1>0, <2>1, <2>2 DEF Found
<1>3. CASE DirectAnswers(a) \/ ShellAnswers(a)
  <2>1. PICK path \in Nodes : \/ path # "none" /\ Found(a, path)
                              \/ /\ \E p \in {"shell", "missing"} : app' = [app EXCEPT ![a].pc = p]
                                 /\ UNCHANGED job
                                 /\ remembered' \in {remembered, [remembered EXCEPT ![a] = "none"]}
    <3>1. CASE DirectAnswers(a)
      BY <3>1, ProbeFacts DEF DirectAnswers
    <3>2. CASE ShellAnswers(a)
      <4>1. "none" \in Nodes
        BY DEF Nodes
      <4> QED
        BY <3>2, <4>1, ProbeFacts DEF ShellAnswers
    <3> QED
      BY <1>3, <3>1, <3>2
  <2>2. CASE Found(a, path) /\ path # "none"
    BY <1>1, <1>2, <1>3, <2>2 DEF DirectAnswers, ShellAnswers
  <2>3. CASE ~(Found(a, path) /\ path # "none")
    <3>1. app' \in [Apps -> AppState] /\ remembered' \in [Apps -> Nodes]
      BY <2>1, <2>3 DEF AppState, Nodes
    <3> QED
      BY <1>1, <1>3, <2>1, <2>3, <3>1 DEF DirectAnswers, ShellAnswers
  <2> QED
    BY <2>2, <2>3
<1>4. CASE ConnectApp(a) \/ NoWsl(a) \/ InstallChosen(a) \/ InstallEnds(a) \/ HostStops(a)
  <2>1. app' \in [Apps -> AppState]
    BY <1>0, <1>4 DEF ConnectApp, NoWsl, InstallChosen, InstallEnds, HostStops, AppState
  <2> QED
    BY <1>1, <1>4, <2>1 DEF ConnectApp, NoWsl, InstallChosen, InstallEnds, HostStops
<1>5. CASE Fetched(a)
  <2>1. [NoScript EXCEPT !.does = "extract", !.of = a, !.pc = "untar", !.tmp = "part"] \in ScriptState
    BY DEF NoScript, ScriptState, Amounts, Before
  <2>2. app' \in [Apps -> AppState]
    BY <1>5 DEF Fetched, AppState
  <2> QED
    BY <1>0, <1>1, <1>5, <2>1, <2>2 DEF Fetched
<1>6. CASE ScriptReturns(a)
  <2>1. app' \in [Apps -> AppState]
    BY <1>0, <1>6 DEF ScriptReturns, AppState
  <2> QED
    BY <1>0, <1>1, <1>6, <2>1 DEF ScriptReturns, NoScript
<1>7. CASE GivesUp(a)
  <2>1. app' \in [Apps -> AppState] /\ remembered' \in [Apps -> Nodes]
    BY <1>0, <1>7 DEF GivesUp, Nodes
  <2>2. CASE job' = [job EXCEPT ![a] = NoScript]
    BY <1>0, <1>1, <1>7, <2>1, <2>2 DEF GivesUp, NoScript
  <2>3. CASE job' = [job EXCEPT ![a] = NoScript, ![Orphan] = job[a]]
    <3>1. a # Orphan
      BY NameFacts
    <3>2. job' \in [Scripts -> ScriptState]
      BY <1>0, <2>3
    <3>3. \A s \in Scripts : job'[s] = IF s = Orphan THEN job[a] ELSE IF s = a THEN NoScript ELSE job[s]
      BY <1>0, <2>3, <3>1
    <3>4. \A s \in Scripts : job'[s].does # "nothing" => job'[s].of \in Apps
      BY <1>0, <3>3 DEF NoScript
    <3> QED
      BY <1>1, <1>7, <2>1, <3>2, <3>4 DEF GivesUp
  <2> QED
    BY <1>7, <2>2, <2>3 DEF GivesUp
<1> QED
  BY <1>3, <1>4, <1>5, <1>6, <1>7

LEMMA ScriptTyped ==
  ASSUME Typed, NEW s \in Scripts,
         Untar(s) \/ ClearTarget(s) \/ MoveIn(s) \/ SwapLink(s) \/ Sweep(s) \/ Report(s)
           \/ StageLooks(s) \/ StageCopies(s) \/ NpmStarts(s) \/ NpmEnds(s) \/ StageMarks(s)
  PROVE  Typed'
<1> USE DEF Typed, To, AtStep, ScriptOnly
<1>1. UNCHANGED <<own, app, remembered>>
  BY DEF Untar, ClearTarget, MoveIn, SwapLink, Sweep, Report, StageLooks, StageCopies, NpmStarts, NpmEnds, StageMarks
<1>2. job[s].of \in Apps
  BY DEF Untar, ClearTarget, MoveIn, SwapLink, Sweep, Report, StageLooks, StageCopies, NpmStarts, NpmEnds, StageMarks
<1>3. ASSUME NEW v \in Apps, Removed(v) PROVE trees' \in [Apps -> Amounts]
  BY <1>3 DEF Removed, Amounts
<1>4. ASSUME NEW f \in [Scripts -> ScriptState], job' = f,
             \A t \in Scripts : f[t].does = job[t].does /\ f[t].of = job[t].of
      PROVE  /\ job' \in [Scripts -> ScriptState]
             /\ \A t \in Scripts : job'[t].does # "nothing" => job'[t].of \in Apps
  BY <1>4
<1>12. ASSUME NEW p \in {"none", "look"} \cup Before \cup After \cup Filling, job' = [job EXCEPT ![s].pc = p]
       PROVE  /\ job' \in [Scripts -> ScriptState]
              /\ \A t \in Scripts : job'[t].does # "nothing" => job'[t].of \in Apps
  <2>1. [job[s] EXCEPT !.pc = p] \in ScriptState
    BY DEF ScriptState
  <2> QED
    BY <1>12, <2>1 DEF ScriptState
<1>5. CASE Untar(s) \/ Report(s)
  <2>1. job' \in [Scripts -> ScriptState] /\ \A t \in Scripts : job'[t].does = job[t].does /\ job'[t].of = job[t].of
    BY <1>5 DEF Untar, Report, ScriptState, Amounts, Before, After
  <2> QED
    BY <1>1, <1>4, <1>5, <2>1 DEF Untar, Report
<1>6. CASE ClearTarget(s)
  <2>1. job' \in [Scripts -> ScriptState] /\ \A t \in Scripts : job'[t].does = job[t].does /\ job'[t].of = job[t].of
    BY <1>6 DEF ClearTarget, ScriptState, Before
  <2> QED
    BY <1>1, <1>2, <1>3, <1>4, <1>6, <2>1 DEF ClearTarget
<1>7. CASE MoveIn(s)
  <2>1. job' \in [Scripts -> ScriptState] /\ \A t \in Scripts : job'[t].does = job[t].does /\ job'[t].of = job[t].of
    BY <1>7 DEF MoveIn, ScriptState, Before, Amounts
  <2>2. trees' \in [Apps -> Amounts]
    BY <1>7, <1>2 DEF MoveIn, ScriptState
  <2> QED
    BY <1>1, <1>4, <1>7, <2>1, <2>2 DEF MoveIn
<1>8. CASE SwapLink(s)
  <2>1. job' \in [Scripts -> ScriptState] /\ \A t \in Scripts : job'[t].does = job[t].does /\ job'[t].of = job[t].of
    BY <1>8 DEF SwapLink, ScriptState, Before, After
  <2> QED
    BY <1>1, <1>2, <1>4, <1>8, <2>1 DEF SwapLink
<1>9. CASE Sweep(s)
  <2>1. job' \in [Scripts -> ScriptState] /\ \A t \in Scripts : job'[t].does = job[t].does /\ job'[t].of = job[t].of
    BY <1>9 DEF Sweep, ScriptState, After
  <2>2. trees' \in [Apps -> Amounts]
    BY <1>9, <1>3 DEF Sweep, ScriptState
  <2> QED
    BY <1>1, <1>4, <1>9, <2>1, <2>2 DEF Sweep
<1>10. CASE StageLooks(s)
  <2>1. \E p \in {"ok", "copy"} : job' = [job EXCEPT ![s].pc = p]
    BY <1>10 DEF StageLooks
  <2>2. mixed' \in BOOLEAN /\ UNCHANGED <<trees, current, staged>>
    BY <1>10 DEF StageLooks
  <2> QED
    BY <1>1, <1>12, <2>1, <2>2 DEF Filling, After
<1>11. CASE StageCopies(s) \/ NpmStarts(s) \/ NpmEnds(s) \/ StageMarks(s)
  <2>1. \E p \in {"ok", "npm", "npm ends", "touch"} : job' = [job EXCEPT ![s].pc = p]
    BY <1>11 DEF StageCopies, NpmStarts, NpmEnds, StageMarks
  <2>3. staged' \in [Apps -> Bundle]
    <3>1. CASE StageCopies(s)
      BY <1>2, <3>1 DEF StageCopies, Bundle
    <3>2. CASE NpmStarts(s)
      BY <1>2, <3>2 DEF NpmStarts, Bundle, Amounts
    <3>3. CASE NpmEnds(s)
      BY <1>2, <3>3 DEF NpmEnds, Bundle, Amounts
    <3>4. CASE StageMarks(s)
      BY <1>2, <3>4 DEF StageMarks, Bundle
    <3> QED
      BY <1>11, <3>1, <3>2, <3>3, <3>4
  <2>4. UNCHANGED <<trees, current, mixed>>
    BY <1>11 DEF StageCopies, NpmStarts, NpmEnds, StageMarks
  <2> QED
    BY <1>1, <1>12, <2>1, <2>3, <2>4 DEF Filling, After
<1> QED
  BY <1>5, <1>6, <1>7, <1>8, <1>9, <1>10, <1>11

LEMMA NodeTypedStep ==
  ASSUME Typed, [NodeNext]_nodeVars PROVE Typed'
<1>1. CASE OrphanEnds
  <2>1. job' \in [Scripts -> ScriptState] /\ \A s \in Scripts : job'[s].does # "nothing" => job'[s].of \in Apps
    BY <1>1 DEF OrphanEnds, Typed, NoScript, ScriptState, Amounts
  <2> QED
    BY <1>1, <2>1 DEF OrphanEnds, Typed, MainOnly
<1>2. CASE OwnChanges \/ UNCHANGED nodeVars
  BY <1>2 DEF OwnChanges, nodeVars, Typed
<1> QED
  BY <1>1, <1>2, MainTyped, ScriptTyped DEF NodeNext, ScriptNext

LEMMA MixedStays ==
  ASSUME Typed, [NodeNext]_nodeVars, ~mixed' PROVE ~mixed
<1>2. CASE OrphanEnds \/ OwnChanges \/ UNCHANGED nodeVars
  BY <1>2 DEF OrphanEnds, OwnChanges, nodeVars
<1>3. CASE \E a \in Apps : ConnectApp(a) \/ DirectAnswers(a) \/ NoWsl(a) \/ ShellAnswers(a) \/ InstallChosen(a)
             \/ Fetched(a) \/ InstallEnds(a) \/ ScriptReturns(a) \/ GivesUp(a) \/ HostStops(a)
  BY <1>3 DEF ConnectApp, DirectAnswers, NoWsl, ShellAnswers, InstallChosen, Fetched, InstallEnds,
              ScriptReturns, GivesUp, HostStops
<1>4. CASE ScriptNext
  BY <1>4 DEF ScriptNext, Untar, ClearTarget, MoveIn, SwapLink, Sweep, Report, StageLooks, StageCopies,
              NpmStarts, NpmEnds, StageMarks, ScriptOnly
<1> QED
  BY <1>2, <1>3, <1>4 DEF NodeNext

-----------------------------------------------------------------------------
(* Installs. *)

\* A step that begins no install leaves those under way as they are.
LEMMA NoneBegun ==
  ASSUME Installed, UNCHANGED <<trees, current>>,
         \A b \in Apps : app'[b].pc = "fetching" => app[b].pc = "fetching",
         \A s \in Scripts : job'[s].does = "extract" => job'[s] = job[s]
  PROVE  Installed'
<1>1. Extracting' \subseteq Extracting
  BY DEF Extracting
<1>2. OneInstall'
  BY <1>1 DEF Installed, OneInstall
<1>3. StepsInOrder'
  BY <1>1 DEF Installed, StepsInOrder, Extracting
<1> QED
  BY <1>2, <1>3 DEF Installed, LinkIsWhole

LEMMA MainInstalled ==
  ASSUME Typed, Installed, NEW a \in Apps, ~mixed',
         ConnectApp(a) \/ DirectAnswers(a) \/ NoWsl(a) \/ ShellAnswers(a) \/ InstallChosen(a)
           \/ Fetched(a) \/ InstallEnds(a) \/ ScriptReturns(a) \/ GivesUp(a) \/ HostStops(a)
  PROVE  Installed'
<1>0. UNCHANGED <<trees, current>> /\ a \in Scripts /\ Orphan \in Scripts /\ a # Orphan
  BY NameFacts
  DEF ConnectApp, DirectAnswers, NoWsl, ShellAnswers, InstallChosen, Fetched, InstallEnds,
      ScriptReturns, GivesUp, HostStops, MainOnly
<1>1. app \in [Apps -> AppState] /\ job \in [Scripts -> ScriptState]
  BY DEF Typed
<1>2. CASE ConnectApp(a) \/ NoWsl(a) \/ InstallEnds(a) \/ HostStops(a)
  <2>1. \A b \in Apps : app'[b].pc = "fetching" => app[b].pc = "fetching"
    BY <1>1, <1>2 DEF ConnectApp, NoWsl, InstallEnds, HostStops, Idle
  <2>2. job' = job
    BY <1>2 DEF ConnectApp, NoWsl, InstallEnds, HostStops
  <2> QED
    BY <1>0, <2>1, <2>2, NoneBegun
<1>3. CASE DirectAnswers(a) \/ ShellAnswers(a)
  <2>1. \/ /\ \E p \in {"shell", "missing"} : app' = [app EXCEPT ![a].pc = p]
           /\ job' = job
        \/ \E path \in Nodes : Found(a, path)
    BY <1>3, ProbeFacts DEF DirectAnswers, ShellAnswers, Nodes
  <2>2. /\ \A b \in Apps : app'[b].pc = "fetching" => app[b].pc = "fetching"
        /\ \A s \in Scripts : job'[s].does = "extract" => job'[s] = job[s]
    <3>1. CASE \E path \in Nodes : Found(a, path)
      <4>1. PICK path \in Nodes : Found(a, path)
        BY <3>1
      <4>2. app'[a].pc = "staging" /\ \A b \in Apps \ {a} : app'[b] = app[b]
        BY <1>1, <4>1 DEF Found, AppState
      <4>3. job'[a].does = "stage" /\ \A s \in Scripts \ {a} : job'[s] = job[s]
        BY <1>0, <1>1, <4>1 DEF Found, NoScript
      <4> QED
        BY <4>2, <4>3
    <3>2. CASE job' = job /\ \E p \in {"shell", "missing"} : app' = [app EXCEPT ![a].pc = p]
      BY <1>1, <3>2
    <3> QED
      BY <2>1, <3>1, <3>2
  <2> QED
    BY <1>0, <2>2, NoneBegun
<1>4. CASE ScriptReturns(a)
  <2>1. \A b \in Apps : app'[b].pc = "fetching" => app[b].pc = "fetching"
    BY <1>1, <1>4 DEF ScriptReturns, Idle, AppState
  <2>2. \A s \in Scripts : job'[s].does = "extract" => job'[s] = job[s]
    BY <1>1, <1>4 DEF ScriptReturns, NoScript
  <2> QED
    BY <1>0, <2>1, <2>2, NoneBegun
<1>5. CASE InstallChosen(a)
  <2>1. current = "none" /\ Extracting = {} /\ \A b \in Apps \ {a} : app[b].pc # "fetching"
    BY <1>5 DEF InstallChosen
  <2>2. job' = job /\ Extracting' = {}
    BY <1>5, <2>1 DEF InstallChosen, Extracting
  <2>3. \A b \in Apps \ {a} : app'[b].pc # "fetching"
    BY <1>1, <1>5, <2>1 DEF InstallChosen
  <2> QED
    BY <1>0, <2>1, <2>2, <2>3 DEF Installed, OneInstall, StepsInOrder, LinkIsWhole
<1>6. CASE Fetched(a)
  <2>1. current = "none" /\ Extracting = {} /\ \A b \in Apps \ {a} : app[b].pc # "fetching"
    BY <1>6 DEF Fetched, Installed, OneInstall
  <2>2. \A b \in Apps : app'[b].pc # "fetching"
    BY <1>1, <1>6, <2>1 DEF Fetched, AppState
  <2>3. job'[a] = [NoScript EXCEPT !.does = "extract", !.of = a, !.pc = "untar", !.tmp = "part"]
    BY <1>0, <1>1, <1>6 DEF Fetched
  <2>4. Extracting' \subseteq {a}
    BY <1>0, <1>1, <1>6, <2>1 DEF Fetched, Extracting
  <2>5. job'[a].pc = "untar"
    BY <2>3 DEF NoScript
  <2> QED
    BY <1>0, <2>1, <2>2, <2>4, <2>5 DEF Installed, OneInstall, StepsInOrder, LinkIsWhole, Before, After
<1>7. CASE GivesUp(a)
  <2>1. \A b \in Apps : app'[b].pc = "fetching" => app[b].pc = "fetching"
    BY <1>1, <1>7 DEF GivesUp, Idle
  <2>2. CASE job' = [job EXCEPT ![a] = NoScript]
    <3>1. \A s \in Scripts : job'[s].does = "extract" => job'[s] = job[s]
      BY <1>1, <2>2 DEF NoScript
    <3> QED
      BY <1>0, <2>1, <3>1, NoneBegun
  <2>3. CASE job[Orphan].does = "nothing" /\ job' = [job EXCEPT ![a] = NoScript, ![Orphan] = job[a]]
    <3>1. \A s \in Scripts : job'[s] = IF s = Orphan THEN job[a] ELSE IF s = a THEN NoScript ELSE job[s]
      BY <1>0, <1>1, <2>3
    <3>2. \A s \in Extracting' : (s = Orphan /\ a \in Extracting) \/ (s # Orphan /\ s # a /\ s \in Extracting)
      BY <1>0, <3>1 DEF Extracting, NoScript
    <3>3. OneInstall'
      BY <1>0, <2>1, <3>2 DEF Installed, OneInstall
    <3>4. \A s \in Extracting' : \E t \in Extracting : job'[s] = job[t]
      BY <1>0, <3>1, <3>2 DEF Extracting
    <3>5. StepsInOrder'
      BY <1>0, <3>4 DEF Installed, StepsInOrder
    <3> QED
      BY <1>0, <3>3, <3>5 DEF Installed, LinkIsWhole
  <2> QED
    BY <1>7, <2>2, <2>3 DEF GivesUp
<1> QED
  BY <1>2, <1>3, <1>4, <1>5, <1>6, <1>7

\* The steps of EXTRACT, by the only script that takes them.
LEMMA ExtractInstalled ==
  ASSUME Typed, Installed, NEW s \in Scripts,
         Untar(s) \/ ClearTarget(s) \/ MoveIn(s) \/ SwapLink(s) \/ Sweep(s) \/ Report(s)
  PROVE  Installed'
<1> DEFINE v == job[s].of
<1>1. s \in Extracting /\ Extracting = {s} /\ v \in Apps /\ \A b \in Apps : app[b].pc # "fetching"
  BY DEF Untar, ClearTarget, MoveIn, SwapLink, Sweep, Report, AtStep, Extracting, Typed, Installed, OneInstall
<1>2. app' = app
  BY DEF Untar, ClearTarget, MoveIn, SwapLink, Sweep, Report, ScriptOnly
<1>3. /\ trees \in [Apps -> Amounts] /\ job \in [Scripts -> ScriptState] /\ job[s] \in ScriptState
      /\ job[s].does = "extract"
  BY <1>1 DEF Typed, Extracting
<1>4. /\ job[s].pc \in Before => current = "none"
      /\ job[s].pc \in After => current = v /\ v \notin job[s].stale
      /\ job[s].pc \in {"clear", "move"} => job[s].tmp = "whole"
      /\ job[s].pc = "move" => trees[v] = "none"
      /\ job[s].pc \in {"swap", "relink"} => trees[v] = "whole"
      /\ current # "none" => trees[current] = "whole"
  BY <1>1 DEF Installed, StepsInOrder, LinkIsWhole
<1>5. v # "none"
  BY <1>1, NameFacts
<1>6. ASSUME \A t \in Scripts \ {s} : job'[t] = job[t], job'[s].does = "extract", job'[s].of = v,
             job'[s].pc \in Before \cup After,
             job'[s].pc \in Before => current' = "none",
             job'[s].pc \in After => current' = v /\ v \notin job'[s].stale,
             job'[s].pc \in {"clear", "move"} => job'[s].tmp = "whole",
             job'[s].pc = "move" => trees'[v] = "none",
             job'[s].pc \in {"swap", "relink"} => trees'[v] = "whole",
             current' # "none" => trees'[current'] = "whole"
      PROVE  Installed'
  <2>1. Extracting' = {s}
    BY <1>1, <1>6 DEF Extracting
  <2> HIDE DEF v
  <2>2. OneInstall'
    BY <1>1, <1>2, <2>1 DEF OneInstall
  <2>3. StepsInOrder'
    BY <1>6, <2>1 DEF StepsInOrder
  <2> QED
    BY <1>6, <2>2, <2>3 DEF Installed, LinkIsWhole
<1> USE DEF AtStep, To
<1>7. ASSUME NEW p \in Before \cup After, job' = [job EXCEPT ![s].pc = p]
      PROVE  /\ \A t \in Scripts \ {s} : job'[t] = job[t]
             /\ job'[s] = [job[s] EXCEPT !.pc = p]
             /\ job'[s].does = "extract" /\ job'[s].of = v /\ job'[s].pc = p
             /\ job'[s].stale = job[s].stale /\ job'[s].tmp = job[s].tmp
  BY <1>3, <1>7 DEF ScriptState
<1>8. CASE Untar(s)
  <2>1. job[s].pc \in Before /\ UNCHANGED <<trees, current>>
    BY <1>8 DEF Untar, Before
  <2>2. /\ \A t \in Scripts \ {s} : job'[t] = job[t]
        /\ job'[s].does = "extract" /\ job'[s].of = v
        /\ \/ job'[s].pc = "clear" /\ job'[s].tmp = "whole"
           \/ job'[s].pc = "failed"
    BY <1>3, <1>8 DEF Untar, ScriptState
  <2> QED
    BY <1>4, <1>6, <2>1, <2>2 DEF Before, After
<1>9. CASE ClearTarget(s)
  <2>1. job[s].pc = "clear" /\ current' = current /\ job[s].pc \in Before
    BY <1>9 DEF ClearTarget, Before
  <2>2. \/ job' = job
        \/ trees'[v] = "none" /\ job' = [job EXCEPT ![s].pc = "move"]
    BY <1>9 DEF ClearTarget
  <2>3. CASE job' = job
    BY <1>3, <1>4, <1>6, <2>1, <2>3 DEF Before, After
  <2>4. CASE trees'[v] = "none" /\ job' = [job EXCEPT ![s].pc = "move"]
    BY <1>4, <1>6, <1>7, <2>1, <2>4 DEF Before, After
  <2> QED
    BY <2>2, <2>3, <2>4
<1>10. CASE MoveIn(s)
  <2>1. job[s].pc = "move" /\ current' = current /\ job[s].pc \in Before
    BY <1>10 DEF MoveIn, Before
  <2>2. trees'[v] = "whole"
    BY <1>1, <1>3, <1>4, <1>10, <2>1 DEF MoveIn
  <2>3. /\ \A t \in Scripts \ {s} : job'[t] = job[t]
        /\ job'[s].does = "extract" /\ job'[s].of = v /\ job'[s].pc = "swap"
    BY <1>3, <1>10 DEF MoveIn, ScriptState
  <2> QED
    BY <1>4, <1>6, <2>1, <2>2, <2>3 DEF Before, After
<1>11. CASE SwapLink(s)
  <2>1. job[s].pc \in {"swap", "relink"} /\ trees' = trees
    BY <1>11 DEF SwapLink
  <2>2. CASE current' = "none" /\ job' = [job EXCEPT ![s].pc = "relink"]
    BY <1>4, <1>6, <1>7, <2>1, <2>2 DEF Before, After
  <2>3. CASE /\ current' = v
             /\ job' = [job EXCEPT ![s].pc = "sweep", ![s].stale = {w \in Apps \ {v} : trees[w] # "none"}]
    <3>1. /\ \A t \in Scripts \ {s} : job'[t] = job[t]
          /\ job'[s].does = "extract" /\ job'[s].of = v /\ job'[s].pc = "sweep"
          /\ v \notin job'[s].stale
      BY <1>3, <2>3 DEF ScriptState
    <3> QED
      BY <1>4, <1>6, <2>1, <2>3, <3>1 DEF Before, After
  <2> QED
    BY <1>11, <2>2, <2>3 DEF SwapLink
<1>12. CASE Sweep(s)
  <2>1. job[s].pc = "sweep" /\ current' = current /\ job[s].pc \in After
    BY <1>12 DEF Sweep, After
  <2>2. CASE \E w \in job[s].stale :
               Removed(w) /\ job' = [job EXCEPT ![s].stale = IF trees'[w] = "none" THEN @ \ {w} ELSE @]
    <3>1. PICK w \in job[s].stale :
                 Removed(w) /\ job' = [job EXCEPT ![s].stale = IF trees'[w] = "none" THEN @ \ {w} ELSE @]
      BY <2>2
    <3>2. w # v /\ v \notin job[s].stale
      BY <1>4, <2>1
    <3>3. trees'[v] = trees[v]
      BY <1>1, <1>3, <3>1, <3>2 DEF Removed
    <3>4. /\ \A t \in Scripts \ {s} : job'[t] = job[t]
          /\ job'[s].does = "extract" /\ job'[s].of = v /\ job'[s].pc = "sweep"
          /\ job'[s].stale \subseteq job[s].stale
      BY <1>3, <2>1, <3>1 DEF ScriptState
    <3> QED
      BY <1>4, <1>5, <1>6, <2>1, <3>2, <3>3, <3>4 DEF Before, After
  <2>3. CASE job' = [job EXCEPT ![s].pc = "report"] /\ trees' = trees
    BY <1>4, <1>6, <1>7, <2>1, <2>3 DEF Before, After
  <2> QED
    BY <1>12, <2>2, <2>3 DEF Sweep
<1>13. CASE Report(s)
  <2>1. job[s].pc = "report" /\ UNCHANGED <<trees, current>> /\ job[s].pc \in After
    BY <1>13 DEF Report, After
  <2>2. trees[v] = "whole"
    BY <1>4, <1>5, <2>1
  <2>3. Check(v) = {TRUE}
    BY <1>1, <2>2, NameFacts DEF Check
  <2>4. job' = [job EXCEPT ![s].pc = "ok"]
    BY <1>13, <2>3 DEF Report
  <2> QED
    BY <1>4, <1>6, <1>7, <2>1, <2>4 DEF Before, After
<1> QED
  BY <1>8, <1>9, <1>10, <1>11, <1>12, <1>13

\* Staging touches no tree and no link.
LEMMA StageInstalled ==
  ASSUME Typed, Installed, NEW s \in Scripts,
         StageLooks(s) \/ StageCopies(s) \/ NpmStarts(s) \/ NpmEnds(s) \/ StageMarks(s)
  PROVE  Installed'
<1>1. UNCHANGED <<trees, current, app>> /\ \E p \in {"ok"} \cup Filling : job' = [job EXCEPT ![s].pc = p]
  BY DEF StageLooks, StageCopies, NpmStarts, NpmEnds, StageMarks, ScriptOnly, To, Filling
<1>2. job[s].does = "stage" /\ job \in [Scripts -> ScriptState]
  BY DEF StageLooks, StageCopies, NpmStarts, NpmEnds, StageMarks, AtStep, Typed
<1>3. \A t \in Scripts : job'[t].does = "extract" => job'[t] = job[t]
  BY <1>1, <1>2 DEF ScriptState
<1> QED
  BY <1>1, <1>3, NoneBegun

LEMMA InstalledStep ==
  ASSUME Typed, Installed, ~mixed', [NodeNext]_nodeVars PROVE Installed'
<1>1. CASE OrphanEnds
  <2>1. \A t \in Scripts : job'[t].does = "extract" => job'[t] = job[t]
    BY <1>1 DEF OrphanEnds, Typed, NoScript
  <2> QED
    BY <1>1, <2>1, NoneBegun DEF OrphanEnds, MainOnly
<1>2. CASE OwnChanges \/ UNCHANGED nodeVars
  BY <1>2, NoneBegun DEF OwnChanges, nodeVars
<1> QED
  BY <1>1, <1>2, MainInstalled, ExtractInstalled, StageInstalled DEF NodeNext, ScriptNext


-----------------------------------------------------------------------------
(* What is found. *)

LEMMA FoundStep ==
  ASSUME Typed, Installed, FoundIsLinked, ~mixed', [NodeNext]_nodeVars PROVE FoundIsLinked'
<1>0. app \in [Apps -> AppState] /\ remembered \in [Apps -> Nodes] /\ current \in Apps \cup {"none"}
  BY DEF Typed
<1>1. ASSUME UNCHANGED <<app, remembered>>, current' = current \/ current = "none" PROVE FoundIsLinked'
  <2>1. CASE current' = current
    BY <1>1, <2>1 DEF FoundIsLinked
  <2>2. CASE current = "none"
    BY <1>1, <2>2, NameFacts DEF FoundIsLinked
  <2> QED
    BY <1>1, <2>1, <2>2
<1>2. ASSUME NEW a \in Apps, current' = current,
             \A b \in Apps \ {a} : app'[b] = app[b] /\ remembered'[b] = remembered[b],
             remembered'[a] \in Apps => remembered'[a] = current,
             app'[a].node \in Apps => app'[a].node = current,
             app'[a].retry => current # "none" /\ app'[a].pc \notin {"shell", "missing"}
      PROVE  FoundIsLinked'
  BY <1>2 DEF FoundIsLinked
<1>3. CASE OrphanEnds \/ OwnChanges \/ UNCHANGED nodeVars
  BY <1>1, <1>3 DEF OrphanEnds, OwnChanges, MainOnly, nodeVars
<1>4. ASSUME NEW s \in Scripts, SwapLink(s) PROVE FoundIsLinked'
  <2>1. current = "none"
    BY <1>4 DEF SwapLink, AtStep, Installed, StepsInOrder, Extracting, Before
  <2> QED
    BY <1>1, <1>4, <2>1 DEF SwapLink, ScriptOnly
<1>5. ASSUME NEW s \in Scripts,
             Untar(s) \/ ClearTarget(s) \/ MoveIn(s) \/ Sweep(s) \/ Report(s)
               \/ StageLooks(s) \/ StageCopies(s) \/ NpmStarts(s) \/ NpmEnds(s) \/ StageMarks(s)
      PROVE  FoundIsLinked'
  BY <1>1, <1>5 DEF Untar, ClearTarget, MoveIn, Sweep, Report, StageLooks, StageCopies, NpmStarts, NpmEnds,
                    StageMarks, ScriptOnly
<1>6. ASSUME NEW a \in Apps, ConnectApp(a) \/ NoWsl(a) \/ InstallEnds(a) \/ HostStops(a) PROVE FoundIsLinked'
  <2>1. \A b \in Apps \ {a} : app'[b] = app[b]
    BY <1>0, <1>6 DEF ConnectApp, NoWsl, InstallEnds, HostStops
  <2>2. app'[a].node = "none" /\ ~app'[a].retry
    BY <1>0, <1>6 DEF ConnectApp, NoWsl, InstallEnds, HostStops, Idle
  <2>3. UNCHANGED <<remembered, current>>
    BY <1>6 DEF ConnectApp, NoWsl, InstallEnds, HostStops, MainOnly
  <2>4. remembered[a] \in Apps => remembered[a] = current
    BY DEF FoundIsLinked
  <2> QED
    BY <1>2, <2>1, <2>2, <2>3, <2>4, NameFacts
<1>7. ASSUME NEW a \in Apps, NEW path \in Nodes, Found(a, path), path \in Apps => path \in {remembered[a], current},
             current' = current
      PROVE  FoundIsLinked'
  <2>1. path \in Apps => path = current
    BY <1>7 DEF FoundIsLinked
  <2>2. /\ \A b \in Apps \ {a} : app'[b] = app[b] /\ remembered'[b] = remembered[b]
        /\ remembered'[a] = path /\ app'[a].node = path /\ app'[a].retry = app[a].retry /\ app'[a].pc = "staging"
    BY <1>0, <1>7 DEF Found, AppState
  <2>3. app[a].retry => current # "none"
    BY DEF FoundIsLinked
  <2> QED
    BY <1>2, <1>7, <2>1, <2>2, <2>3
<1>8. ASSUME NEW a \in Apps, DirectAnswers(a) PROVE FoundIsLinked'
  <2>1. current' = current
    BY <1>8 DEF DirectAnswers, MainOnly
  <2>2. PICK path \in ProbeAnswers(a, FALSE) :
          IF path # "none" THEN Found(a, path)
          ELSE app' = [app EXCEPT ![a].pc = "shell"] /\ UNCHANGED <<remembered, job>>
    BY <1>8 DEF DirectAnswers
  <2>3. CASE path # "none"
    BY <1>7, <2>1, <2>2, <2>3, ProbeFacts
  <2>4. CASE path = "none"
    <3>1. ~(current # "none" /\ trees[current] = "whole")
      BY <2>4, ProbeFacts
    <3>2. ~app[a].retry
      BY <3>1 DEF FoundIsLinked, Installed, LinkIsWhole
    <3>3. app'[a].node = app[a].node /\ ~app'[a].retry /\ \A b \in Apps \ {a} : app'[b] = app[b]
      BY <1>0, <2>2, <2>4, <3>2 DEF AppState
    <3>4. remembered' = remembered
      BY <2>2, <2>4
    <3>5. /\ remembered[a] \in Apps => remembered[a] = current
          /\ app[a].node \in Apps => app[a].node = current
      BY DEF FoundIsLinked
    <3> QED
      BY <1>2, <2>1, <3>3, <3>4, <3>5
  <2> QED
    BY <2>3, <2>4
<1>9. ASSUME NEW a \in Apps, ShellAnswers(a) PROVE FoundIsLinked'
  <2>1. current' = current /\ app[a].pc = "shell"
    BY <1>9 DEF ShellAnswers, MainOnly
  <2>2. PICK path \in ProbeAnswers(a, TRUE) \cup {"none"} :
          IF path # "none" THEN Found(a, path)
          ELSE /\ app' = [app EXCEPT ![a].pc = "missing"]
               /\ remembered' = [remembered EXCEPT ![a] = "none"]
               /\ UNCHANGED job
    BY <1>9 DEF ShellAnswers
  <2>3. CASE path # "none"
    BY <1>7, <2>1, <2>2, <2>3, ProbeFacts
  <2>4. CASE path = "none"
    <3>1. ~app[a].retry
      BY <2>1 DEF FoundIsLinked
    <3>2. app'[a].node = app[a].node /\ ~app'[a].retry /\ \A b \in Apps \ {a} : app'[b] = app[b]
      BY <1>0, <2>2, <2>4, <3>1 DEF AppState
    <3>3. remembered'[a] = "none" /\ \A b \in Apps \ {a} : remembered'[b] = remembered[b]
      BY <1>0, <2>2, <2>4
    <3>4. app[a].node \in Apps => app[a].node = current
      BY DEF FoundIsLinked
    <3> QED
      BY <1>2, <2>1, <3>2, <3>3, <3>4, NameFacts
  <2> QED
    BY <2>3, <2>4
<1>10. ASSUME NEW a \in Apps, InstallChosen(a) \/ Fetched(a) PROVE FoundIsLinked'
  <2>1. /\ \A b \in Apps \ {a} : app'[b] = app[b]
        /\ app'[a].node = app[a].node /\ app'[a].retry = app[a].retry
        /\ app'[a].pc \notin {"shell", "missing"}
    BY <1>0, <1>10 DEF InstallChosen, Fetched, AppState
  <2>2. UNCHANGED <<remembered, current>>
    BY <1>10 DEF InstallChosen, Fetched, MainOnly
  <2>3. /\ remembered[a] \in Apps => remembered[a] = current
        /\ app[a].node \in Apps => app[a].node = current
        /\ app[a].retry => current # "none"
    BY DEF FoundIsLinked
  <2> QED
    BY <1>2, <2>1, <2>2, <2>3
<1>11. ASSUME NEW a \in Apps, ScriptReturns(a) PROVE FoundIsLinked'
  <2>1. UNCHANGED <<remembered, current>> /\ \A b \in Apps \ {a} : app'[b] = app[b]
    BY <1>0, <1>11 DEF ScriptReturns, MainOnly
  <2>2. /\ remembered[a] \in Apps => remembered[a] = current
        /\ app[a].node \in Apps => app[a].node = current
        /\ app[a].retry => current # "none"
    BY DEF FoundIsLinked
  <2>3. CASE job[a].pc = "failed"
    <3>1. app'[a].node = "none" /\ ~app'[a].retry
      BY <1>0, <1>11, <2>3 DEF ScriptReturns, Idle
    <3> QED
      BY <1>2, <2>1, <2>2, <3>1, NameFacts
  <2>4. CASE job[a].pc # "failed" /\ job[a].does = "stage"
    <3>1. app'[a].node = app[a].node /\ app'[a].retry = app[a].retry /\ app'[a].pc = "running"
      BY <1>0, <1>11, <2>4 DEF ScriptReturns, AppState
    <3> QED
      BY <1>2, <2>1, <2>2, <3>1
  <2>5. CASE job[a].pc # "failed" /\ job[a].does # "stage"
    <3>1. a \in Extracting /\ job[a].pc = "ok" /\ job[a].of \in Apps
      BY <1>11, <2>5, NameFacts DEF ScriptReturns, ScriptEnded, Extracting, Typed, ScriptState
    <3>2. current # "none"
      BY <3>1, NameFacts DEF Installed, StepsInOrder, After
    <3>3. app'[a].node = "none" /\ app'[a].pc = "direct"
      BY <1>0, <1>11, <2>5 DEF ScriptReturns, Idle
    <3> QED
      BY <1>2, <2>1, <2>2, <3>2, <3>3, NameFacts
  <2> QED
    BY <2>3, <2>4, <2>5
<1>12. ASSUME NEW a \in Apps, GivesUp(a) PROVE FoundIsLinked'
  <2>1. current' = current /\ app'[a].node = "none" /\ ~app'[a].retry
    BY <1>0, <1>12 DEF GivesUp, MainOnly, Idle
  <2>2. \A b \in Apps \ {a} : app'[b] = app[b] /\ remembered'[b] = remembered[b]
    BY <1>0, <1>12 DEF GivesUp
  <2>3. remembered'[a] \in {remembered[a], "none"} /\ (remembered[a] \in Apps => remembered[a] = current)
    BY <1>0, <1>12 DEF GivesUp, FoundIsLinked
  <2> QED
    BY <1>2, <2>1, <2>2, <2>3, NameFacts
<1> QED
  BY <1>3, <1>4, <1>5, <1>6, <1>8, <1>9, <1>10, <1>11, <1>12 DEF NodeNext, ScriptNext


-----------------------------------------------------------------------------
(* What is staged. *)

\* A step that leaves the bundles, the hosts and what stages them alone.
LEMMA NothingStaged ==
  ASSUME Filled, staged' = staged,
         \A b \in Apps : app'[b].pc = "running" => staged[b].ready,
         \A s \in Scripts :
           job'[s].does = "stage" =>
             \/ job'[s] = job[s]
             \/ s \in Apps /\ job'[s].of = s /\ job'[s].pc = "look"
  PROVE  Filled'
<1>1. StagedInOrder'
  <2>1. \A a \in Apps : staged[a].ready => staged[a].index /\ staged[a].deps = "whole"
    BY DEF Filled, StagedInOrder
  <2>2. ASSUME NEW s \in Scripts, Stages(s)'
        PROVE  LET bundle == staged[job'[s].of]
               IN /\ s \in Apps => job'[s].of = s
                  /\ job'[s].pc \in {"look", "ok"} \cup Filling
                  /\ job'[s].pc \in Filling => ~bundle.ready
                  /\ job'[s].pc \in {"npm", "npm ends", "touch"} => bundle.index
                  /\ job'[s].pc = "touch" => bundle.deps = "whole"
                  /\ job'[s].pc = "ok" => bundle.ready
    <3>1. CASE job'[s] = job[s]
      <4>1. Stages(s)
        BY <2>2, <3>1 DEF Stages
      <4>2. LET bundle == staged[job[s].of]
                  IN /\ s \in Apps => job[s].of = s
                     /\ job[s].pc \in {"look", "ok"} \cup Filling
                     /\ job[s].pc \in Filling => ~bundle.ready
                     /\ job[s].pc \in {"npm", "npm ends", "touch"} => bundle.index
                     /\ job[s].pc = "touch" => bundle.deps = "whole"
                     /\ job[s].pc = "ok" => bundle.ready
        BY <4>1 DEF Filled, StagedInOrder
      <4> QED
        BY <3>1, <4>2
    <3>2. CASE s \in Apps /\ job'[s].of = s /\ job'[s].pc = "look"
      BY <3>2 DEF Filling
    <3> QED
      BY <2>2, <3>1, <3>2 DEF Stages
  <2> QED
    BY <2>1, <2>2 DEF StagedInOrder
<1>2. OneFills'
  <2>1. ASSUME NEW s \in Scripts, Stages(s)', job'[s].pc \in Filling PROVE job'[s] = job[s]
    BY <2>1 DEF Stages, Filling
  <2> QED
    BY <2>1 DEF Filled, OneFills, Stages
<1> QED
  BY <1>1, <1>2 DEF Filled

LEMMA MainFilled ==
  ASSUME Typed, Filled, NEW a \in Apps,
         ConnectApp(a) \/ DirectAnswers(a) \/ NoWsl(a) \/ ShellAnswers(a) \/ InstallChosen(a)
           \/ Fetched(a) \/ InstallEnds(a) \/ ScriptReturns(a) \/ GivesUp(a) \/ HostStops(a)
  PROVE  Filled'
<1>0. staged' = staged /\ a \in Scripts /\ Orphan \in Scripts /\ a # Orphan
  BY NameFacts
  DEF ConnectApp, DirectAnswers, NoWsl, ShellAnswers, InstallChosen, Fetched, InstallEnds,
      ScriptReturns, GivesUp, HostStops, MainOnly
<1>1. app \in [Apps -> AppState] /\ job \in [Scripts -> ScriptState]
  BY DEF Typed
<1>2. \A b \in Apps : app[b].pc = "running" => staged[b].ready
  BY DEF Filled, StagedInOrder
<1>3. CASE ConnectApp(a) \/ NoWsl(a) \/ InstallChosen(a) \/ InstallEnds(a) \/ HostStops(a)
  <2>1. \A b \in Apps : app'[b].pc = "running" => app[b].pc = "running"
    BY <1>1, <1>3 DEF ConnectApp, NoWsl, InstallChosen, InstallEnds, HostStops, Idle, AppState
  <2>2. job' = job
    BY <1>3 DEF ConnectApp, NoWsl, InstallChosen, InstallEnds, HostStops
  <2> QED
    BY <1>0, <1>2, <2>1, <2>2, NothingStaged
<1>4. CASE DirectAnswers(a) \/ ShellAnswers(a)
  <2>1. \/ /\ \E p \in {"shell", "missing"} : app' = [app EXCEPT ![a].pc = p]
           /\ job' = job
        \/ \E path \in Nodes : Found(a, path)
    BY <1>4, ProbeFacts DEF DirectAnswers, ShellAnswers, Nodes
  <2>2. CASE job' = job /\ \E p \in {"shell", "missing"} : app' = [app EXCEPT ![a].pc = p]
    <3>1. \A b \in Apps : app'[b].pc = "running" => app[b].pc = "running"
      BY <1>1, <2>2
    <3> QED
      BY <1>0, <1>2, <2>2, <3>1, NothingStaged
  <2>3. CASE \E path \in Nodes : Found(a, path)
    <3>1. PICK path \in Nodes : Found(a, path)
      BY <2>3
    <3>2. app'[a].pc = "staging" /\ \A b \in Apps \ {a} : app'[b] = app[b]
      BY <1>1, <3>1 DEF Found, AppState
    <3>3. job'[a].of = a /\ job'[a].pc = "look" /\ \A s \in Scripts \ {a} : job'[s] = job[s]
      BY <1>0, <1>1, <3>1 DEF Found, NoScript
    <3> QED
      BY <1>0, <1>2, <3>2, <3>3, NothingStaged
  <2> QED
    BY <2>1, <2>2, <2>3
<1>5. CASE Fetched(a)
  <2>1. app'[a].pc = "extracting" /\ \A b \in Apps \ {a} : app'[b] = app[b]
    BY <1>1, <1>5 DEF Fetched, AppState
  <2>2. job'[a].does = "extract" /\ \A s \in Scripts \ {a} : job'[s] = job[s]
    BY <1>0, <1>1, <1>5 DEF Fetched, NoScript
  <2> QED
    BY <1>0, <1>2, <2>1, <2>2, NothingStaged
<1>6. CASE ScriptReturns(a)
  <2>1. job'[a].does = "nothing" /\ \A s \in Scripts \ {a} : job'[s] = job[s]
    BY <1>0, <1>1, <1>6 DEF ScriptReturns, NoScript
  <2>2. \A b \in Apps \ {a} : app'[b] = app[b]
    BY <1>1, <1>6 DEF ScriptReturns
  <2>3. app'[a].pc = "running" => job[a].does = "stage" /\ job[a].pc = "ok"
    BY <1>1, <1>6 DEF ScriptReturns, ScriptEnded, Idle
  <2>4. app'[a].pc = "running" => staged[a].ready
    BY <1>0, <2>3 DEF Filled, StagedInOrder, Stages
  <2> QED
    BY <1>0, <1>2, <2>1, <2>2, <2>4, NothingStaged
<1>7. CASE GivesUp(a)
  <2>1. \A b \in Apps : app'[b].pc = "running" => staged[b].ready
    BY <1>1, <1>2, <1>7 DEF GivesUp, Idle
  <2>2. CASE job' = [job EXCEPT ![a] = NoScript]
    <3>1. job'[a].does = "nothing" /\ \A s \in Scripts \ {a} : job'[s] = job[s]
      BY <1>0, <1>1, <2>2 DEF NoScript
    <3> QED
      BY <1>0, <2>1, <3>1, NothingStaged
  <2>3. CASE job[Orphan].does = "nothing" /\ job' = [job EXCEPT ![a] = NoScript, ![Orphan] = job[a]]
    <3> DEFINE from(s) == IF s = Orphan THEN a ELSE s
    <3>1. \A s \in Scripts : job'[s] = IF s = Orphan THEN job[a] ELSE IF s = a THEN NoScript ELSE job[s]
      BY <1>0, <1>1, <2>3
    <3>2. \A s \in Scripts : Stages(s)' => /\ from(s) \in Scripts /\ Stages(from(s))
                                           /\ job'[s] = job[from(s)] /\ s # a
      BY <1>0, <3>1 DEF Stages, NoScript
    <3>3. \A s, t \in Scripts : s # a /\ t # a /\ from(s) = from(t) => s = t
      OBVIOUS
    <3>4. OneFills'
      <4> SUFFICES ASSUME NEW s \in Scripts, NEW t \in Scripts, Stages(s)', Stages(t)',
                          job'[s].of = job'[t].of, job'[s].pc \in Filling, job'[t].pc \in Filling
                   PROVE  s = t
        BY DEF OneFills
      <4>1. from(s) = from(t)
        BY <3>2 DEF Filled, OneFills
      <4> QED
        BY <3>2, <3>3, <4>1
    <3>5. StagedInOrder'
      <4>1. \A b \in Apps : staged[b].ready => staged[b].index /\ staged[b].deps = "whole"
        BY DEF Filled, StagedInOrder
      <4>2. ASSUME NEW s \in Scripts, Stages(s)'
            PROVE  LET bundle == staged[job'[s].of]
                   IN /\ s \in Apps => job'[s].of = s
                      /\ job'[s].pc \in {"look", "ok"} \cup Filling
                      /\ job'[s].pc \in Filling => ~bundle.ready
                      /\ job'[s].pc \in {"npm", "npm ends", "touch"} => bundle.index
                      /\ job'[s].pc = "touch" => bundle.deps = "whole"
                      /\ job'[s].pc = "ok" => bundle.ready
        <5>1. s \in Apps => from(s) = s
          BY NameFacts
        <5>2. Stages(from(s)) /\ from(s) \in Scripts /\ job'[s] = job[from(s)]
          BY <3>2, <4>2
        <5>3. LET bundle == staged[job[from(s)].of]
              IN /\ from(s) \in Apps => job[from(s)].of = from(s)
                 /\ job[from(s)].pc \in {"look", "ok"} \cup Filling
                 /\ job[from(s)].pc \in Filling => ~bundle.ready
                 /\ job[from(s)].pc \in {"npm", "npm ends", "touch"} => bundle.index
                 /\ job[from(s)].pc = "touch" => bundle.deps = "whole"
                 /\ job[from(s)].pc = "ok" => bundle.ready
          BY <5>2 DEF Filled, StagedInOrder
        <5> HIDE DEF from
        <5> QED
          BY <5>1, <5>2, <5>3
      <4> QED
        BY <1>0, <2>1, <4>1, <4>2 DEF StagedInOrder
    <3> QED
      BY <3>4, <3>5 DEF Filled
  <2> QED
    BY <1>7, <2>2, <2>3 DEF GivesUp
<1> QED
  BY <1>3, <1>4, <1>5, <1>6, <1>7

LEMMA ExtractFilled ==
  ASSUME Typed, Filled, NEW s \in Scripts,
         Untar(s) \/ ClearTarget(s) \/ MoveIn(s) \/ SwapLink(s) \/ Sweep(s) \/ Report(s)
  PROVE  Filled'
<1>1. UNCHANGED <<staged, app>>
  BY DEF Untar, ClearTarget, MoveIn, SwapLink, Sweep, Report, ScriptOnly
<1>2. job \in [Scripts -> ScriptState] /\ job[s].does = "extract"
  BY DEF Untar, ClearTarget, MoveIn, SwapLink, Sweep, Report, AtStep, Typed
<1>3. job'[s].does = "extract" /\ \A t \in Scripts \ {s} : job'[t] = job[t]
  BY <1>2 DEF Untar, ClearTarget, MoveIn, SwapLink, Sweep, Report, To, ScriptState
<1>4. \A b \in Apps : app[b].pc = "running" => staged[b].ready
  BY DEF Filled, StagedInOrder
<1> QED
  BY <1>1, <1>3, <1>4, NothingStaged

\* A script at work on a bundle is alone at it, so what it found stays so.
LEMMA StageFilled ==
  ASSUME Typed, Filled, NEW s \in Scripts, ~mixed',
         StageLooks(s) \/ StageCopies(s) \/ NpmStarts(s) \/ NpmEnds(s) \/ StageMarks(s)
  PROVE  Filled'
<1> DEFINE a == job[s].of
<1>0. /\ job \in [Scripts -> ScriptState] /\ job[s].does = "stage" /\ a \in Apps
      /\ staged \in [Apps -> Bundle] /\ job[s] \in ScriptState
  BY DEF StageLooks, StageCopies, NpmStarts, NpmEnds, StageMarks, AtStep, Typed
<1>1. app' = app
  BY DEF StageLooks, StageCopies, NpmStarts, NpmEnds, StageMarks, ScriptOnly
<1>2. /\ s \in Apps => a = s
      /\ job[s].pc \in {"look", "ok"} \cup Filling
      /\ job[s].pc \in Filling => ~staged[a].ready
      /\ job[s].pc \in {"npm", "npm ends", "touch"} => staged[a].index
      /\ job[s].pc = "touch" => staged[a].deps = "whole"
  BY <1>0 DEF Filled, StagedInOrder, Stages
<1>3. PICK p \in {"ok"} \cup Filling : job' = [job EXCEPT ![s].pc = p]
  BY DEF StageLooks, StageCopies, NpmStarts, NpmEnds, StageMarks, To, Filling
<1>4. /\ \A t \in Scripts \ {s} : job'[t] = job[t]
      /\ job'[s].does = "stage" /\ job'[s].of = a /\ job'[s].pc = p
  BY <1>0, <1>3 DEF ScriptState
<1>5. \A b \in Apps \ {a} : staged'[b] = staged[b]
  BY <1>0 DEF StageLooks, StageCopies, NpmStarts, NpmEnds, StageMarks, ScriptOnly
<1>6. staged[a] \in Bundle
  BY <1>0
<1>7. \/ job[s].pc = "look" /\ p = "ok" /\ staged[a].ready /\ staged' = staged
      \/ job[s].pc = "look" /\ p = "copy" /\ ~staged[a].ready /\ staged' = staged /\ ~StagedByOther(s)
      \/ job[s].pc = "copy" /\ p = "npm" /\ staged'[a] = [staged[a] EXCEPT !.ready = FALSE, !.index = TRUE]
      \/ job[s].pc = "npm" /\ p = "npm ends" /\ staged'[a] = [staged[a] EXCEPT !.deps = "part"]
      \/ job[s].pc = "npm ends" /\ p = "touch" /\ staged'[a] = [staged[a] EXCEPT !.deps = "whole"]
      \/ job[s].pc = "touch" /\ p = "ok" /\ staged'[a] = [staged[a] EXCEPT !.ready = TRUE]
  <2>0. ASSUME NEW q, job' = [job EXCEPT ![s].pc = q] PROVE p = q
    BY <1>0, <1>4, <2>0 DEF ScriptState
  <2>1. CASE StageLooks(s)
    BY <2>0, <2>1 DEF StageLooks, AtStep, To
  <2>2. CASE StageCopies(s)
    BY <1>0, <1>6, <2>0, <2>2 DEF StageCopies, AtStep, To, Bundle
  <2>3. CASE NpmStarts(s)
    BY <1>0, <2>0, <2>3 DEF NpmStarts, AtStep, To
  <2>4. CASE NpmEnds(s)
    BY <1>0, <2>0, <2>4 DEF NpmEnds, AtStep, To
  <2>5. CASE StageMarks(s)
    BY <1>0, <2>0, <2>5 DEF StageMarks, AtStep, To
  <2> QED
    BY <2>1, <2>2, <2>3, <2>4, <2>5
<1> HIDE DEF a
\* Nobody else is at this bundle, when this script is or comes to it.
<1>8. p \in Filling \/ job[s].pc \in Filling =>
        \A t \in Scripts \ {s} : Stages(t) /\ job[t].of = a => job[t].pc \notin Filling
  <2>1. CASE job[s].pc \in Filling
    BY <1>0, <2>1 DEF Filled, OneFills, Stages, a
  <2>2. CASE job[s].pc \notin Filling
    BY <1>7, <2>2 DEF StagedByOther, Stages, Filling, a
  <2> QED
    BY <2>1, <2>2
\* What this script leaves behind.
<1>9. /\ p \in Filling => ~staged'[a].ready
      /\ p \in {"npm", "npm ends", "touch"} => staged'[a].index
      /\ p = "touch" => staged'[a].deps = "whole"
      /\ p = "ok" => staged'[a].ready
      /\ staged'[a].ready => staged'[a].index /\ staged'[a].deps = "whole"
      /\ staged[a].ready => staged' = staged
  <2>1. staged[a].ready => staged[a].index /\ staged[a].deps = "whole"
    BY <1>0 DEF Filled, StagedInOrder
  <2>2. CASE job[s].pc = "look"
    BY <1>7, <2>1, <2>2 DEF Filling
  <2>3. CASE job[s].pc # "look"
    BY <1>2, <1>6, <1>7, <2>3 DEF Filling, Bundle
  <2> QED
    BY <2>2, <2>3
<1>10. OneFills'
  <2> SUFFICES ASSUME NEW t \in Scripts, NEW u \in Scripts, Stages(t)', Stages(u)',
                      job'[t].of = job'[u].of, job'[t].pc \in Filling, job'[u].pc \in Filling
               PROVE  t = u
    BY DEF OneFills
  <2>1. CASE t = s \/ u = s
    BY <1>4, <1>8, <2>1 DEF Stages
  <2>2. CASE t # s /\ u # s
    BY <1>4, <2>2 DEF Filled, OneFills, Stages
  <2> QED
    BY <2>1, <2>2
<1>11. ASSUME NEW b \in Apps
       PROVE  /\ staged'[b].ready => staged'[b].index /\ staged'[b].deps = "whole"
              /\ app'[b].pc = "running" => staged'[b].ready
  <2>1. /\ staged[b].ready => staged[b].index /\ staged[b].deps = "whole"
        /\ app[b].pc = "running" => staged[b].ready
    BY DEF Filled, StagedInOrder
  <2>2. CASE b # a
    BY <1>1, <1>5, <2>1, <2>2
  <2>3. CASE b = a
    BY <1>1, <1>9, <2>1, <2>3
  <2> QED
    BY <2>2, <2>3
<1>12. ASSUME NEW t \in Scripts, Stages(t)'
       PROVE  LET bundle == staged'[job'[t].of]
              IN /\ t \in Apps => job'[t].of = t
                 /\ job'[t].pc \in {"look", "ok"} \cup Filling
                 /\ job'[t].pc \in Filling => ~bundle.ready
                 /\ job'[t].pc \in {"npm", "npm ends", "touch"} => bundle.index
                 /\ job'[t].pc = "touch" => bundle.deps = "whole"
                 /\ job'[t].pc = "ok" => bundle.ready
  <2>1. CASE t = s
    BY <1>2, <1>4, <1>9, <2>1
  <2>2. CASE t # s
    <3>1. Stages(t) /\ job'[t] = job[t] /\ job[t].of \in Apps
      BY <1>4, <1>12, <2>2 DEF Stages, Typed
    <3>2. LET bundle == staged[job[t].of]
          IN /\ t \in Apps => job[t].of = t
             /\ job[t].pc \in {"look", "ok"} \cup Filling
             /\ job[t].pc \in Filling => ~bundle.ready
             /\ job[t].pc \in {"npm", "npm ends", "touch"} => bundle.index
             /\ job[t].pc = "touch" => bundle.deps = "whole"
             /\ job[t].pc = "ok" => bundle.ready
      BY <3>1 DEF Filled, StagedInOrder
    <3>3. CASE job[t].of # a
      BY <1>5, <3>1, <3>2, <3>3
    <3>4. CASE job[t].of = a /\ staged' = staged
      BY <3>1, <3>2, <3>4
    <3>5. CASE job[t].of = a /\ staged' # staged
      <4>1. ~staged[a].ready /\ job[s].pc \in Filling
        BY <1>7, <1>9, <3>5 DEF Filling
      <4>2. job[t].pc = "look"
        BY <1>8, <2>2, <3>1, <3>2, <3>5, <4>1
      <4> QED
        BY <3>1, <3>2, <4>2 DEF Filling
    <3> QED
      BY <3>3, <3>4, <3>5
  <2> QED
    BY <2>1, <2>2
<1> QED
  BY <1>10, <1>11, <1>12 DEF Filled, StagedInOrder

LEMMA FilledStep ==
  ASSUME Typed, Filled, ~mixed', [NodeNext]_nodeVars PROVE Filled'
<1>1. \A b \in Apps : app[b].pc = "running" => staged[b].ready
  BY DEF Filled, StagedInOrder
<1>2. CASE OrphanEnds
  <2>1. \A t \in Scripts : job'[t].does = "stage" => job'[t] = job[t]
    BY <1>2 DEF OrphanEnds, Typed, NoScript
  <2> QED
    BY <1>1, <1>2, <2>1, NothingStaged DEF OrphanEnds, MainOnly
<1>3. CASE OwnChanges \/ UNCHANGED nodeVars
  BY <1>1, <1>3, NothingStaged DEF OwnChanges, nodeVars
<1> QED
  BY <1>2, <1>3, MainFilled, ExtractFilled, StageFilled DEF NodeNext, ScriptNext

-----------------------------------------------------------------------------

LEMMA NodeIInvInit == NodeInit => NodeIInv
<1> SUFFICES ASSUME NodeInit PROVE NodeIInv
  OBVIOUS
<1>1. Typed
  BY DEF NodeInit, Typed, Amounts, Bundle, Unstaged, AppState, Idle, Nodes, ScriptState, NoScript
<1>2. \A s \in Scripts : job[s].does = "nothing"
  BY DEF NodeInit, NoScript
<1>3. Installed
  BY <1>2 DEF NodeInit, Installed, OneInstall, StepsInOrder, LinkIsWhole, Extracting, Idle
<1>4. FoundIsLinked
  BY NameFacts DEF NodeInit, FoundIsLinked, Idle
<1>5. Filled
  BY <1>2 DEF NodeInit, Filled, StagedInOrder, OneFills, Stages, Unstaged, Idle
<1> QED
  BY <1>1, <1>3, <1>4, <1>5 DEF NodeIInv

LEMMA NodeIInvAlways == NodeSpec => []NodeIInv
<1>1. NodeIInv /\ [NodeNext]_nodeVars => NodeIInv'
  BY NodeTypedStep, MixedStays, InstalledStep, FoundStep, FilledStep DEF NodeIInv
<1> QED
  BY NodeIInvInit, <1>1, PTL DEF NodeSpec

\* wsl-node-install.ts 66-118, wsl-launcher.ts 267-330: for any number of
\* installations, scripts and cuts, the link leads to a whole tree, a marked
\* bundle is whole, and hosts run on both, while no two decisions overlap.
THEOREM NothingRunsOnHalves == NodeSpec => []RunsOnWhole
<1>1. NodeIInv => RunsOnWhole
  <2> SUFFICES ASSUME NodeIInv, ~mixed PROVE RunsOnWhole
    BY DEF RunsOnWhole
  <2>1. current # "none" => trees[current] = "whole"
    BY DEF NodeIInv, Installed, LinkIsWhole
  <2>2. ASSUME NEW a \in Apps
        PROVE  /\ staged[a].ready => staged[a].index /\ staged[a].deps = "whole"
               /\ app[a].pc = "running" => staged[a].ready
    BY DEF NodeIInv, Filled, StagedInOrder
  <2>3. ASSUME NEW a \in Apps, app[a].node \in Apps PROVE trees[app[a].node] = "whole"
    BY <2>1, <2>3, NameFacts DEF NodeIInv, FoundIsLinked
  <2> QED
    BY <2>1, <2>2, <2>3 DEF RunsOnWhole
<1> QED
  BY NodeIInvAlways, <1>1, PTL

\* wsl-node.ts 112-118, main/index.ts 516-518: the start that follows a
\* successful install finds a Node with its first probe and offers no other.
THEOREM WhatWasInstalledIsFound == NodeSpec => []InstalledIsFound
<1>1. NodeIInv => InstalledIsFound
  BY DEF NodeIInv, FoundIsLinked, InstalledIsFound
<1> QED
  BY NodeIInvAlways, <1>1, PTL



=============================================================================
