-------------------------- MODULE WorkbenchProofs --------------------------
(***************************************************************************)
(* HostSupervisor for any sessions, roots, commands and bounds: a session   *)
(* that a crash is blamed on stays closed, main knows what its host has     *)
(* open, and no host is left behind.                                        *)
(*                                                                         *)
(* PiInstalls for any versions and packages, any number of workers and of  *)
(* faults: a Pi that can be chosen is complete.                            *)
(***************************************************************************)
EXTENDS HostSupervisor, PiInstalls, FiniteSetTheorems, TLAPS

-----------------------------------------------------------------------------
(* HostSupervisor. *)

\* The calls that will launch a host.
Launching == {j \in Jobs : job[j].state \in {"waiting", "resume"} /\ job[j].kind # "quit"}

LaunchesLeft == launches + Cardinality(Launching) <= MaxLaunches

Typed == TypeOK /\ LaunchesLeft

-----------------------------------------------------------------------------
(* The inductive invariants. *)

\* A blamed session is in no list of what is to be brought back.
BlamedAreOut == blamed \cap open = {} /\ blamed \cap todoSessions = {}

Clean(flight, guilty) ==
  Restore \in DOMAIN flight =>
    /\ flight[Restore].name \in {"open_session", "open_workspace"}
    /\ flight[Restore].name = "open_session" => flight[Restore].arg \notin guilty

RestoreIsClean == Clean(inFlight, blamed)

\* One call at a time: whoever has stopped the host knows which, and finds it ended.
OneCall == \A i, j \in Jobs : i = j

CallsStop ==
  \A j \in Jobs :
    /\ job[j].state \in {"waiting", "resume"} =>
         /\ stopping /\ owner = 0 /\ job[j].of = launcher
         /\ job[j].kind # "none"
    /\ job[j].state = "waiting" => launcher \in halting
    /\ job[j].state = "resume" => ~Alive(launcher)
    /\ job[j].state = "idle" <=> job[j].kind = "none"
    /\ job[j].state = "done" => job[j].kind = "quit" /\ stopping /\ ~Alive(launcher)

NoneAhead ==
  /\ \A k \in Launchers : k > launches => life[k] = "none"
  /\ \A k \in Launchers : k \in halting => k <= launches
  /\ launcher <= launches /\ owner <= launches

OneHost == CallsStop /\ NoneAhead /\ NoStrayHost

\* Without a running host there is nothing it has open and nothing it was asked.
NothingWithout ==
  ~Running => /\ inFlight = Idle /\ late = {}
              /\ \A id \in Ids : hostWs[id] = NoRoot
              /\ \A s \in Sessions : hostOpen[s] = 0

\* Workspace ids are never used again, and a root is open under one.
FreshIds(ws, known, count) ==
  /\ \A id \in Ids : ws[id] # NoRoot \/ known[id] # NoRoot => id <= count
  /\ \A id \in Ids : known[id] # NoRoot => ws[id] \in {NoRoot, known[id]}
  /\ \A i, j \in Ids : ws[i] # NoRoot /\ ws[i] = ws[j] => i = j

IdsAreFresh == FreshIds(hostWs, rootById, minted)

SessionsAreHome ==
  /\ \A s \in Sessions : hostOpen[s] # 0 => hostWs[hostOpen[s]] = Home[s]
  /\ \A s \in Sessions : rootOf[s] \in {NoRoot, Home[s]}

Uncertain(r) == \A s \in Sessions : Home[s] = r => s \in uncertain

\* Whatever a command that timed out may still do concerns what is uncertain.
LateIsUncertain ==
  \A command \in late :
    /\ command.name \in {"open_session", "close_session"} => command.arg \in uncertain
    /\ command.name = "close_workspace" =>
         /\ command.arg <= minted
         /\ hostWs[command.arg] # NoRoot => Uncertain(hostWs[command.arg])

\* Main asks to close what it was told is open; only a late answer closes it before.
ClosesAreKnown ==
  \A c \in DOMAIN inFlight :
    inFlight[c].name = "close_workspace" =>
      /\ inFlight[c].arg <= minted
      /\ hostWs[inFlight[c].arg] = NoRoot /\ rootById[inFlight[c].arg] # NoRoot
           => Uncertain(rootById[inFlight[c].arg])

\* What main knows of a session of the host it talks to.
Known(s) ==
  /\ hostOpen[s] # 0 => s \in open /\ wsOf[s] = hostOpen[s]
  /\ s \in open /\ phase # "failed" => hostOpen[s] # 0 \/ s \in BeingRestored

OpenIsKnown == Owns(launcher) => \A s \in Sessions \ uncertain : Known(s)

PhaseFits ==
  /\ phase = "up" => Restore \notin DOMAIN inFlight /\ todoSessions = {}
  /\ Owns(launcher) /\ Running => phase # "failed"
  /\ phase = "handshake" => ~Running

InSync ==
  /\ NothingWithout /\ IdsAreFresh /\ SessionsAreHome /\ LateIsUncertain /\ ClosesAreKnown
  /\ OpenIsKnown /\ PhaseFits

-----------------------------------------------------------------------------
(* Types. *)

FlightOK(flight) ==
  /\ DOMAIN flight \in SUBSET Slots
  /\ \A c \in DOMAIN flight : flight[c] \in Commands

LEMMA FlightFacts ==
  ASSUME NEW flight, FlightOK(flight)
  PROVE  /\ \A done : FlightOK(Settled(flight, done))
         /\ \A c \in Slots, command \in Commands : FlightOK(Sent(flight, c, command))
         /\ FlightOK(Idle)
BY DEF FlightOK, Settled, Sent, Idle

LEMMA CommandTypes ==
  /\ \A r \in Roots : [name |-> "open_workspace", arg |-> r] \in Commands
  /\ \A s \in Sessions : [name |-> "open_session", arg |-> s] \in Commands
  /\ \A command \in Commands :
       /\ command.name \in SessionCommands => command.arg \in Sessions
       /\ command.name = "open_workspace" => command.arg \in Roots
       /\ command.name = "close_workspace" => command.arg \in Ids
       /\ command.name \in SessionCommands \cup {"open_workspace", "close_workspace", "set_api_key"}
BY DEF Commands, SessionCommands

LEMMA NextItemTypes ==
  ASSUME NEW flight, FlightOK(flight), NEW rs \in SUBSET Roots, NEW ss \in SUBSET Sessions,
         NextItem(flight, rs, ss)
  PROVE  /\ FlightOK(inFlight') /\ todoRoots' \in SUBSET Roots /\ todoSessions' \in SUBSET Sessions
         /\ phase' \in {"restoring", "up"}
<1>1. CASE \E r \in rs :
             /\ inFlight' = Sent(flight, Restore, [name |-> "open_workspace", arg |-> r])
             /\ todoRoots' = rs \ {r} /\ todoSessions' = ss /\ phase' = "restoring"
  BY <1>1, FlightFacts, CommandTypes, SupervisorAssumption
<1>2. CASE \E s \in ss :
             /\ inFlight' = Sent(flight, Restore, [name |-> "open_session", arg |-> s])
             /\ todoRoots' = {} /\ todoSessions' = ss \ {s} /\ phase' = "restoring"
  BY <1>2, FlightFacts, CommandTypes, SupervisorAssumption
<1>3. CASE inFlight' = flight /\ todoRoots' = {} /\ todoSessions' = {} /\ phase' = "up"
  BY <1>3
<1> QED
  BY <1>1, <1>2, <1>3 DEF NextItem

MemoryOK ==
  /\ open \in SUBSET Sessions /\ quarantined \in SUBSET Sessions
  /\ roots \in SUBSET Roots
  /\ rootById \in [Ids -> Roots \cup {NoRoot}]
  /\ wsOf \in [Sessions -> 0..MaxIds]
  /\ rootOf \in [Sessions -> Roots \cup {NoRoot}]

LEMMA LedgerParts == LedgerTypeOK <=> MemoryOK /\ FlightOK(inFlight) /\ failures \in Seq(BOOLEAN)
BY DEF LedgerTypeOK, MemoryOK, FlightOK

LEMMA NoteTypes ==
  ASSUME MemoryOK, NEW command \in Commands, NEW id \in Ids, Note(command, id)
  PROVE  MemoryOK'
<1> USE CommandTypes, LedgerAssumption DEF MemoryOK, Note, Forget, Ids, memory
<1>1. CASE command.name = "open_workspace"
  BY <1>1 DEF NoteWorkspaceOpened
<1>2. CASE command.name = "close_workspace"
  <2>1. command.arg \in Ids /\ NoteWorkspaceClosed(command.arg)
    BY <1>2
  <2>2. PICK gone \in SUBSET Sessions : open' = open \ gone /\ quarantined' = quarantined \ gone /\ Forget(gone)
    BY <2>1 DEF NoteWorkspaceClosed, Belonging
  <2>3. rootById' = [rootById EXCEPT ![command.arg] = NoRoot] /\ (roots' = roots \/ roots' = roots \ {rootById[command.arg]})
    BY <2>1 DEF NoteWorkspaceClosed
  <2> HIDE DEF Note
  <2> QED
    BY <2>1, <2>2, <2>3
<1>3. CASE command.name = "open_session"
  <2>1. command.arg \in Sessions /\ NoteSessionOpened(command.arg, id)
    BY <1>3 DEF SessionCommands
  <2>2. rootOf' \in [Sessions -> Roots \cup {NoRoot}]
    <3>1. rootById[id] \in Roots \cup {NoRoot}
      OBVIOUS
    <3> QED
      BY <2>1, <3>1 DEF NoteSessionOpened
  <2>3. wsOf' \in [Sessions -> 0..MaxIds]
    BY <2>1 DEF NoteSessionOpened
  <2> QED
    BY <2>1, <2>2, <2>3 DEF NoteSessionOpened
<1>4. CASE command.name = "close_session"
  BY <1>4 DEF NoteSessionClosed, SessionCommands
<1>5. CASE command.name \notin {"open_workspace", "close_workspace", "open_session", "close_session"}
  BY <1>5
<1> QED
  BY <1>1, <1>2, <1>3, <1>4, <1>5

LEMMA PerformsTypes ==
  ASSUME NEW command \in Commands, NEW id \in Ids, Performs(command, id),
         hostWs \in [Ids -> Roots \cup {NoRoot}], hostOpen \in [Sessions -> 0..MaxIds], minted \in 0..MaxIds
  PROVE  /\ hostWs' \in [Ids -> Roots \cup {NoRoot}] /\ hostOpen' \in [Sessions -> 0..MaxIds]
         /\ minted' \in 0..MaxIds
<1> USE CommandTypes, LedgerAssumption DEF Performs, Ids
<1>1. CASE command.name = "open_workspace"
  BY <1>1
<1>2. CASE command.name = "close_workspace"
  BY <1>2
<1>3. CASE command.name = "open_session"
  BY <1>3 DEF SessionCommands
<1>4. CASE command.name = "close_session"
  BY <1>4 DEF SessionCommands
<1>5. CASE command.name = "prompt"
  BY <1>5
<1>6. CASE command.name \notin {"open_workspace", "close_workspace", "open_session", "close_session", "prompt"}
  BY <1>6
<1> QED
  BY <1>1, <1>2, <1>3, <1>4, <1>5, <1>6

LEMMA RestoreFailsTypes ==
  ASSUME LedgerTypeOK, todoRoots \in SUBSET Roots, todoSessions \in SUBSET Sessions,
         Restore \in DOMAIN inFlight, RestoreFails
  PROVE  /\ MemoryOK' /\ FlightOK(inFlight')
         /\ todoRoots' \in SUBSET Roots /\ todoSessions' \in SUBSET Sessions
         /\ phase' \in {"restoring", "up", "failed"}
<1>1. MemoryOK /\ FlightOK(inFlight) /\ FlightOK(Settled(inFlight, {Restore}))
  BY LedgerParts, FlightFacts
<1>2. MemoryOK'
  <2>1. ASSUME NEW ss, NEW rs, NoteRestoreFailed(ss, rs) PROVE MemoryOK'
    BY <1>1, <2>1, LedgerAssumption DEF MemoryOK, NoteRestoreFailed, Forget
  <2>2. CASE UNCHANGED memory
    BY <1>1, <2>2 DEF MemoryOK, memory
  <2> QED
    BY <2>1, <2>2 DEF RestoreFails
<1>3. CASE NextItem(Settled(inFlight, {Restore}), todoRoots, todoSessions)
  BY <1>1, <1>2, <1>3, NextItemTypes
<1>4. CASE inFlight' = Settled(inFlight, {Restore}) /\ Abandoned
  BY <1>1, <1>2, <1>4 DEF Abandoned
<1> QED
  BY <1>3, <1>4 DEF RestoreFails

-----------------------------------------------------------------------------
(* The bound on launches, and the calls that were promised one. *)

Waiting == {j \in Jobs : job[j].state \in {"waiting", "resume"}}

LEMMA CallsAreFinite ==
  /\ IsFiniteSet(Launching) /\ Cardinality(Launching) \in Nat
  /\ IsFiniteSet(Launching') /\ Cardinality(Launching') \in Nat
  /\ IsFiniteSet(Waiting) /\ Cardinality(Waiting) \in Nat
  /\ Cardinality(Launching) <= Cardinality(Waiting)
<1>1. Launching \subseteq Jobs /\ Launching' \subseteq Jobs /\ Waiting \subseteq Jobs /\ Launching \subseteq Waiting
  BY DEF Launching, Waiting
<1> QED
  BY <1>1, SupervisorAssumption, FS_Subset, FS_CardinalityType

LEMMA NoMorePromised ==
  ASSUME LaunchesLeft, launches \in Nat, launches' = launches, Launching' \subseteq Launching
  PROVE  LaunchesLeft'
<1>1. Cardinality(Launching') <= Cardinality(Launching)
  BY CallsAreFinite, FS_Subset
<1> QED
  BY <1>1, CallsAreFinite, SupervisorAssumption DEF LaunchesLeft

LEMMA PromiseKept ==
  ASSUME LaunchesLeft, launches \in Nat, NEW j \in Launching, launches' = launches + 1,
         Launching' \subseteq Launching \ {j}
  PROVE  LaunchesLeft' /\ launches' \in Launchers
<1>1. Cardinality(Launching \ {j}) = Cardinality(Launching) - 1 /\ IsFiniteSet(Launching \ {j})
  BY CallsAreFinite, FS_RemoveElement
<1>2. Cardinality(Launching') <= Cardinality(Launching) - 1
  BY <1>1, FS_Subset
<1> QED
  BY <1>2, CallsAreFinite, SupervisorAssumption DEF LaunchesLeft, Launchers

\* A call may promise itself a launch, or a crash take one, while one is left.
LEMMA OneLeft ==
  ASSUME MayLaunch, launches \in Nat, NEW j
  PROVE  /\ launches' = launches + 1 /\ Launching' \subseteq Launching => LaunchesLeft' /\ launches' \in Launchers
         /\ launches' = launches /\ Launching' \subseteq Launching \cup {j} => LaunchesLeft'
<1>1. launches + Cardinality(Launching) < MaxLaunches
  BY CallsAreFinite, SupervisorAssumption DEF MayLaunch, Waiting
<1>2. CASE launches' = launches + 1 /\ Launching' \subseteq Launching
  <2>1. Cardinality(Launching') <= Cardinality(Launching)
    BY <1>2, CallsAreFinite, FS_Subset
  <2> QED
    BY <1>1, <1>2, <2>1, CallsAreFinite, SupervisorAssumption DEF LaunchesLeft, Launchers
<1>3. CASE launches' = launches /\ Launching' \subseteq Launching \cup {j}
  <2>1. /\ IsFiniteSet(Launching \cup {j})
        /\ Cardinality(Launching \cup {j}) <= Cardinality(Launching) + 1
    BY CallsAreFinite, FS_AddElement
  <2>2. Cardinality(Launching') <= Cardinality(Launching) + 1
    BY <1>3, <2>1, CallsAreFinite, FS_Subset, FS_CardinalityType
  <2> QED
    BY <1>1, <1>3, <2>2, CallsAreFinite, SupervisorAssumption DEF LaunchesLeft
<1> QED
  BY <1>2, <1>3

-----------------------------------------------------------------------------
(* Typed is inductive. *)

\* What the parts of the type invariant are about.
CallsOK == job \in [Jobs -> [kind : {"none", "restart", "switch", "quit"},
                             state : {"idle", "waiting", "resume", "done"}, of : 0..MaxLaunches]]

LoopOK ==
  /\ phase \in {"handshake", "restoring", "up", "failed"}
  /\ todoRoots \in SUBSET Roots /\ todoSessions \in SUBSET Sessions

HostOK ==
  /\ hostWs \in [Ids -> Roots \cup {NoRoot}] /\ hostOpen \in [Sessions -> 0..MaxIds]
  /\ minted \in 0..MaxIds /\ late \in SUBSET Commands

ProcessOK ==
  /\ launcher \in 0..MaxLaunches /\ owner \in 0..MaxLaunches
  /\ stopping \in BOOLEAN /\ recovery \in BOOLEAN
  /\ launches \in 0..MaxLaunches
  /\ life \in [Launchers -> Lives]
  /\ halting \in SUBSET Launchers

HistoryOK == blamed \in SUBSET Sessions /\ uncertain \in SUBSET (Sessions \cup Roots)

TypesFit ==
  /\ MemoryOK /\ FlightOK(inFlight) /\ failures \in Seq(BOOLEAN)
  /\ CallsOK /\ LoopOK /\ HostOK /\ ProcessOK /\ HistoryOK

LEMMA TypeParts == (TypeOK <=> TypesFit) /\ (TypeOK' <=> TypesFit')
<1>1. TypeOK <=> TypesFit
  BY LedgerParts DEF TypesFit, TypeOK, CallsOK, LoopOK, HostOK, ProcessOK, HistoryOK
<1>2. LedgerTypeOK' <=> MemoryOK' /\ FlightOK(inFlight') /\ failures' \in Seq(BOOLEAN)
  BY DEF LedgerTypeOK, MemoryOK, FlightOK
<1>3. TypeOK' <=> TypesFit'
  BY <1>2 DEF TypesFit, TypeOK, CallsOK, LoopOK, HostOK, ProcessOK, HistoryOK
<1> QED
  BY <1>1, <1>3

LEMMA Unchanged ==
  ASSUME TypeOK
  PROVE  /\ UNCHANGED memory => MemoryOK'
         /\ UNCHANGED inFlight => FlightOK(inFlight')
         /\ UNCHANGED failures => failures' \in Seq(BOOLEAN)
         /\ UNCHANGED job => CallsOK'
         /\ UNCHANGED loop => LoopOK'
         /\ Abandoned => LoopOK'
         /\ UNCHANGED host => HostOK'
         /\ HostGone => HostOK'
         /\ UNCHANGED <<process, recovery>> => ProcessOK'
         /\ UNCHANGED history => HistoryOK'
<1> USE TypeParts DEF TypesFit
<1>1. UNCHANGED memory => MemoryOK'
  BY DEF MemoryOK, memory
<1>2. (UNCHANGED inFlight => FlightOK(inFlight')) /\ (UNCHANGED failures => failures' \in Seq(BOOLEAN))
  BY DEF FlightOK
<1>3. UNCHANGED job => CallsOK'
  BY DEF CallsOK
<1>4. (UNCHANGED loop => LoopOK') /\ (Abandoned => LoopOK')
  BY DEF LoopOK, loop, Abandoned
<1>5. (UNCHANGED host => HostOK') /\ (HostGone => HostOK')
  BY LedgerAssumption DEF HostOK, host, HostGone, Ids
<1>6. UNCHANGED <<process, recovery>> => ProcessOK'
  BY DEF ProcessOK, process
<1>7. UNCHANGED history => HistoryOK'
  BY DEF HistoryOK, history
<1> QED
  BY <1>1, <1>2, <1>3, <1>4, <1>5, <1>6, <1>7

LEMMA Promises == ASSUME UNCHANGED job PROVE Launching' = Launching
BY DEF Launching

LEMMA InitTypes == Init => Typed
<1> SUFFICES ASSUME Init PROVE Typed
  OBVIOUS
<1> USE DEF Init, LedgerInit
<1>1. MemoryOK /\ FlightOK(inFlight) /\ failures \in Seq(BOOLEAN)
  BY LedgerAssumption DEF MemoryOK, FlightOK, Idle
<1>2. CallsOK /\ LoopOK /\ HostOK /\ ProcessOK /\ HistoryOK
  <2>1. CallsOK
    BY SupervisorAssumption DEF CallsOK, NoJob
  <2>2. LoopOK /\ HistoryOK
    BY DEF LoopOK, HistoryOK
  <2>3. HostOK
    BY LedgerAssumption DEF HostOK, Ids
  <2>4. ProcessOK
    <3>1. life \in [Launchers -> Lives] /\ halting \in SUBSET Launchers
      BY DEF Lives
    <3>2. launcher \in 0..MaxLaunches /\ owner \in 0..MaxLaunches /\ launches \in 0..MaxLaunches
      BY SupervisorAssumption
    <3>3. stopping \in BOOLEAN /\ recovery \in BOOLEAN
      OBVIOUS
    <3> HIDE DEF Init, LedgerInit
    <3> QED
      BY <3>1, <3>2, <3>3 DEF ProcessOK
  <2> QED
    BY <2>1, <2>2, <2>3, <2>4
<1>3. Launching = {}
  BY DEF Launching, NoJob
<1>4. LaunchesLeft
  BY <1>3, FS_EmptySet, SupervisorAssumption DEF LaunchesLeft
<1> QED
  BY <1>1, <1>2, <1>4, TypeParts DEF Typed, TypesFit

LEMMA LaunchTypes ==
  ASSUME TypeOK, launches + 1 \in Launchers, NEW restore \in SUBSET Sessions, Launch(restore)
  PROVE  /\ LoopOK' /\ launches' \in 0..MaxLaunches /\ launcher' \in 0..MaxLaunches
         /\ owner' \in 0..MaxLaunches /\ life' \in [Launchers -> Lives]
<1>1. LoopOK'
  BY DEF Launch, LoopOK
<1>2. launches' \in 0..MaxLaunches /\ launcher' \in 0..MaxLaunches /\ owner' \in 0..MaxLaunches
  BY DEF Launch, Launchers
<1>3. life' \in [Launchers -> Lives]
  BY TypeParts DEF TypesFit, Launch, ProcessOK, Lives
<1> QED
  BY <1>1, <1>2, <1>3

\* What an answer, a refusal or a timeout does to the restore loop and the slots.
LEMMA SettledTypes ==
  ASSUME TypeOK, NEW c \in DOMAIN inFlight,
         IF c = Restore THEN RestoreFails
         ELSE inFlight' = Settled(inFlight, {c}) /\ UNCHANGED <<memory, loop>>
  PROVE  MemoryOK' /\ FlightOK(inFlight') /\ LoopOK'
<1>1. CASE c = Restore
  BY <1>1, TypeParts, LedgerParts, RestoreFailsTypes DEF TypesFit, LoopOK
<1>2. CASE c # Restore
  BY <1>2, TypeParts, Unchanged, FlightFacts DEF TypesFit
<1> QED
  BY <1>1, <1>2

LEMMA PlanTypes ==
  ASSUME MemoryOK, NEW ss, NEW rs, PlanRestart(ss, rs), FlightOK(inFlight)
  PROVE  MemoryOK' /\ FlightOK(inFlight')
<1>1. FlightOK(inFlight')
  BY FlightFacts DEF PlanRestart
<1>2. Blame \subseteq Sessions
  BY CommandTypes DEF Blame, Evidence, SessionsOf, FlightOK
<1> HIDE DEF Blame
<1>3. open' \in SUBSET Sessions /\ quarantined' \in SUBSET Sessions /\ roots' \in SUBSET Roots
  BY <1>2 DEF PlanRestart, MemoryOK, ToRestore
<1>4. /\ rootById' \in [Ids -> Roots \cup {NoRoot}] /\ wsOf' \in [Sessions -> 0..MaxIds]
      /\ rootOf' \in [Sessions -> Roots \cup {NoRoot}]
  BY LedgerAssumption DEF PlanRestart, MemoryOK, Forget
<1> QED
  BY <1>1, <1>3, <1>4 DEF MemoryOK

LEMMA TypeStep == ASSUME Typed, [Next]_vars PROVE Typed'
<1> USE DEF Typed
<1> DEFINE Mem == MemoryOK' /\ FlightOK(inFlight') /\ failures' \in Seq(BOOLEAN)
           Fine == Mem /\ CallsOK' /\ LoopOK' /\ HostOK' /\ ProcessOK' /\ HistoryOK'
<1>0. launches \in Nat /\ (launches \in 0..MaxLaunches)
  BY TypeParts, SupervisorAssumption DEF TypesFit, ProcessOK
<1>a. ASSUME Fine, UNCHANGED <<launches, job>> PROVE Typed'
  BY <1>a, <1>0, TypeParts, Promises, NoMorePromised DEF TypesFit
<1>b. /\ MemoryOK /\ FlightOK(inFlight) /\ failures \in Seq(BOOLEAN)
      /\ CallsOK /\ LoopOK /\ HostOK /\ ProcessOK /\ HistoryOK
  BY TypeParts DEF TypesFit
<1>d. ASSUME Fine, LaunchesLeft' PROVE Typed'
  BY <1>d, TypeParts DEF TypesFit
<1>c. UNCHANGED process => UNCHANGED launches
  BY DEF process
<1>1. ASSUME NEW c \in Slots, NEW command \in Commands, SendUser(c, command) PROVE Typed'
  <2>1. Fine
    BY <1>1, <1>b, Unchanged, FlightFacts DEF SendUser
  <2> QED
    BY <1>1, <2>1, <1>a, <1>c DEF SendUser
<1>2. ASSUME NEW c \in Slots, Answer(c) PROVE Typed'
  <2>1. PICK id \in Ids :
          /\ Performs(inFlight[c], id)
          /\ IF c = Restore /\ ~Owns(launcher) THEN UNCHANGED <<memory, blamed>>
             ELSE /\ Note(inFlight[c], id)
                  /\ blamed' = CASE inFlight[c].name = "open_session" -> blamed \ {inFlight[c].arg}
                                 [] inFlight[c].name = "close_workspace" -> blamed \ Belonging(id)
                                 [] OTHER -> blamed
    BY <1>2 DEF Answer
  <2>2. inFlight[c] \in Commands
    BY <1>2, <1>b DEF Answer, FlightOK
  <2>3. MemoryOK'
    BY <2>1, <2>2, <1>b, NoteTypes, Unchanged
  <2>4. blamed' \subseteq blamed
    BY <2>1
  <2>5. HostOK'
    BY <1>2, <2>1, <2>2, <1>b, PerformsTypes DEF HostOK, Answer
  <2>6. FlightOK(inFlight') /\ LoopOK'
    BY <1>2, <1>b, Unchanged, FlightFacts, NextItemTypes DEF Answer, LoopOK
  <2>7. /\ UNCHANGED <<failures, process, recovery, job, late, uncertain>>
        /\ HistoryOK'
    BY <1>2, <1>b, <2>4 DEF Answer, HistoryOK
  <2>8. Fine
    BY <2>3, <2>5, <2>6, <2>7, Unchanged
  <2> QED
    BY <2>7, <2>8, <1>a, <1>c
<1>3. ASSUME NEW c \in Slots, Refuse(c) PROVE Typed'
  <2>1. Fine
    BY <1>3, <1>b, Unchanged, SettledTypes DEF Refuse
  <2> QED
    BY <1>3, <2>1, <1>a, <1>c DEF Refuse
<1>4. ASSUME NEW c \in Slots, Timeout(c) PROVE Typed'
  <2>1. inFlight[c] \in Commands
    BY <1>4, <1>b DEF Timeout, FlightOK
  <2>2. Touches(inFlight[c]) \subseteq Sessions \cup Roots
    BY <2>1, <1>b, CommandTypes DEF Touches, HostOK, SessionCommands
  <2>3. HostOK' /\ HistoryOK'
    BY <1>4, <1>b, <2>1, <2>2 DEF Timeout, HostOK, HistoryOK
  <2>4. Fine
    BY <1>4, <1>b, <2>3, Unchanged, SettledTypes DEF Timeout
  <2> QED
    BY <1>4, <2>4, <1>a, <1>c DEF Timeout
<1>5. ASSUME LateAnswer PROVE Typed'
  <2>1. PICK command \in late, id \in Ids : Performs(command, id) /\ late' = late \ {command}
    BY <1>5 DEF LateAnswer
  <2>2. HostOK'
    BY <2>1, <1>b, PerformsTypes DEF HostOK
  <2>3. UNCHANGED <<ledger, process, recovery, loop, job, history>>
    BY <1>5 DEF LateAnswer
  <2>4. Fine
    BY <2>2, <2>3, Unchanged DEF ledger
  <2> QED
    BY <2>3, <2>4, <1>a, <1>c
<1>6. ASSUME Ack PROVE Typed'
  <2>1. /\ life' = [life EXCEPT ![launcher] = "running"]
        /\ UNCHANGED <<memory, failures, launcher, owner, stopping, launches, halting, recovery, job, host, history>>
    BY <1>6 DEF Ack
  <2>2. ProcessOK'
    BY <2>1, <1>b DEF ProcessOK, Lives
  <2>3. FlightOK(inFlight') /\ LoopOK'
    BY <1>6, <1>b, Unchanged, NextItemTypes DEF Ack, LoopOK, MemoryOK
  <2>4. Fine
    BY <2>1, <2>2, <2>3, Unchanged
  <2> QED
    BY <2>1, <2>4, <1>a
<1>7. ASSUME HandshakeTimeout \/ RendererAttached PROVE Typed'
  <2>1. /\ UNCHANGED <<ledger, process, job, host, history>> /\ recovery' \in BOOLEAN
        /\ Abandoned \/ UNCHANGED loop
    BY <1>7, <1>b DEF HandshakeTimeout, RendererAttached, ProcessOK
  <2>2. ProcessOK'
    BY <2>1, <1>b DEF ProcessOK, process
  <2>3. Fine
    BY <2>1, <2>2, Unchanged DEF ledger
  <2> QED
    BY <2>1, <2>3, <1>a, <1>c
<1>8. ASSUME HandshakeMismatch PROVE Typed'
  <2>1. ProcessOK'
    BY <1>8, <1>b DEF HandshakeMismatch, Starting, ProcessOK, Launchers
  <2>2. Fine
    BY <1>8, <2>1, Unchanged DEF HandshakeMismatch, ledger
  <2> QED
    BY <1>8, <2>2, <1>a DEF HandshakeMismatch
<1>9. ASSUME NEW k \in Launchers, CrashOf(k) PROVE Typed'
  <2>1. /\ failures' = Append(failures, Relaunches) /\ Relaunches \in BOOLEAN
        /\ blamed' = blamed \cup SessionsOf(inFlight)
        /\ HostGone /\ UNCHANGED <<stopping, halting, recovery, job>>
    BY <1>9, <1>b DEF CrashOf, Relaunches, Automatic, ProcessOK, Ambiguous, BudgetRemains
  <2>2. failures' \in Seq(BOOLEAN)
    BY <2>1, <1>b
  <2>3. SessionsOf(inFlight) \subseteq Sessions
    BY <1>b, CommandTypes DEF SessionsOf, FlightOK
  <2>4. MemoryOK' /\ FlightOK(inFlight')
    BY <1>9, <1>b, PlanTypes DEF CrashOf
  <2>5. CASE /\ MayLaunch /\ uncertain' = {}
             /\ launches' = launches + 1
             /\ launcher' = launches' /\ owner' = launches'
             /\ life' = [life EXCEPT ![k] = "gone", ![launches'] = "starting"]
             /\ phase' = "handshake" /\ todoRoots' = {} /\ todoSessions' = ToRestore
    <3>1. LaunchesLeft' /\ launches' \in Launchers
      BY <2>1, <2>5, <1>0, OneLeft, Promises
    <3>2. ProcessOK'
      BY <2>1, <2>5, <3>1, <1>b DEF ProcessOK, Launchers, Lives
    <3>3. LoopOK' /\ HistoryOK'
      BY <2>1, <2>3, <2>5, <1>b DEF LoopOK, HistoryOK, MemoryOK, ToRestore
    <3> QED
      BY <2>1, <2>2, <2>4, <3>1, <3>2, <3>3, <1>d, Unchanged
  <2>6. CASE /\ life' = [life EXCEPT ![k] = "gone"] /\ Abandoned
             /\ UNCHANGED <<launcher, owner, launches, uncertain>>
    <3>1. ProcessOK' /\ HistoryOK'
      BY <2>1, <2>3, <2>6, <1>b DEF ProcessOK, Lives, HistoryOK
    <3> QED
      BY <2>1, <2>2, <2>4, <2>6, <3>1, <1>a, Unchanged
  <2> QED
    BY <1>9, <2>5, <2>6 DEF CrashOf
<1>10. ASSUME NEW k \in Launchers, ExitOf(k) PROVE Typed'
  <2>1. ProcessOK'
    BY <1>10, <1>b DEF ExitOf, ProcessOK, Lives
  <2>2. HostOK' /\ LoopOK' /\ FlightOK(inFlight')
    <3>1. CASE inFlight' = Idle /\ HostGone /\ Abandoned
      BY <3>1, <1>b, Unchanged, FlightFacts
    <3>2. CASE UNCHANGED <<inFlight, host, loop>>
      BY <3>2, Unchanged
    <3> QED
      BY <1>10, <3>1, <3>2 DEF ExitOf
  <2>3. Fine
    BY <1>10, <2>1, <2>2, Unchanged DEF ExitOf
  <2> QED
    BY <1>10, <2>3, <1>a DEF ExitOf
<1>11. ASSUME NEW k \in Launchers, StopDone(k) PROVE Typed'
  <2>1. /\ halting' = halting \ {k} /\ life' = [life EXCEPT ![k] = "gone"]
        /\ job' = [j \in Jobs |-> IF job[j].state = "waiting" /\ job[j].of = k
                                  THEN [job[j] EXCEPT !.state = "resume"] ELSE job[j]]
        /\ UNCHANGED <<memory, failures, launcher, owner, stopping, launches, recovery, history>>
    BY <1>11 DEF StopDone
  <2>2. ProcessOK'
    BY <2>1, <1>b DEF ProcessOK, Lives
  <2>3. HostOK' /\ LoopOK' /\ FlightOK(inFlight')
    <3>1. CASE inFlight' = Idle /\ HostGone /\ Abandoned
      BY <3>1, <1>b, Unchanged, FlightFacts
    <3>2. CASE UNCHANGED <<inFlight, host, loop>>
      BY <3>2, Unchanged
    <3> QED
      BY <1>11, <3>1, <3>2 DEF StopDone
  <2>4. CallsOK'
    BY <2>1, <1>b DEF CallsOK
  <2>5. LaunchesLeft'
    <3>1. Launching' \subseteq Launching
      BY <2>1, <1>b DEF Launching, CallsOK
    <3> QED
      BY <2>1, <3>1, <1>0, NoMorePromised
  <2> QED
    BY <2>1, <2>2, <2>3, <2>4, <2>5, <1>d, Unchanged
<1>12. ASSUME WindowPasses PROVE Typed'
  <2>1. failures' \in Seq(BOOLEAN)
    BY <1>12, <1>b DEF WindowPasses
  <2>2. Fine
    BY <1>12, <2>1, Unchanged DEF WindowPasses
  <2> QED
    BY <1>12, <2>2, <1>a, <1>c DEF WindowPasses
<1>13. ASSUME NEW j \in Jobs, NEW kind \in {"restart", "switch", "quit"}, Begin(j, kind) PROVE Typed'
  <2>1. /\ job[j].state = "idle" /\ \A i \in Jobs : job[i].kind # "quit"
        /\ kind # "quit" => MayLaunch
        /\ stopping' = TRUE /\ owner' = 0 /\ recovery' = (recovery /\ kind # "quit")
        /\ UNCHANGED <<ledger, launcher, launches, life, loop, host, history>>
    BY <1>13 DEF Begin
  <2>2. PICK st \in {"waiting", "resume"} :
          job' = [job EXCEPT ![j] = [kind |-> kind, state |-> st, of |-> launcher]]
    BY <1>13 DEF Begin
  <2>3. halting' \subseteq halting \cup {launcher} /\ (HasProcess(launcher) \/ halting' = halting)
    BY <1>13 DEF Begin
  <2>4. ProcessOK'
    BY <2>1, <2>3, <1>b, SupervisorAssumption DEF ProcessOK, HasProcess, Alive, Launchers
  <2>5. CallsOK'
    BY <2>2, <1>b DEF CallsOK, ProcessOK
  <2>6. LaunchesLeft'
    <3>1. CASE kind = "quit"
      <4>1. Launching' \subseteq Launching
        BY <2>2, <3>1, <1>b DEF Launching, CallsOK
      <4> QED
        BY <2>1, <4>1, <1>0, NoMorePromised
    <3>2. CASE kind # "quit"
      <4>1. Launching' \subseteq Launching \cup {j}
        BY <2>2, <1>b DEF Launching, CallsOK
      <4> QED
        BY <2>1, <3>2, <4>1, <1>0, OneLeft
    <3> QED
      BY <3>1, <3>2
  <2> QED
    BY <2>1, <2>4, <2>5, <2>6, <1>d, Unchanged DEF ledger
<1>14. ASSUME NEW j \in Jobs, ResumeRestart(j) PROVE Typed'
  <2>1. /\ job[j].state = "resume" /\ job[j].kind = "restart" /\ job' = [job EXCEPT ![j] = NoJob]
        /\ stopping' = FALSE /\ failures' = <<>> /\ Launch(open) /\ uncertain' = {}
        /\ UNCHANGED <<memory, inFlight, halting, recovery, host, blamed>>
    BY <1>14 DEF ResumeRestart
  <2>2. launches' = launches + 1
    BY <2>1 DEF Launch
  <2>3. j \in Launching /\ Launching' \subseteq Launching \ {j}
    BY <2>1, <1>b DEF Launching, CallsOK, NoJob
  <2>4. LaunchesLeft' /\ launches' \in Launchers
    BY <2>2, <2>3, <1>0, PromiseKept
  <2>5. CallsOK'
    BY <2>1, <1>b, SupervisorAssumption DEF CallsOK, NoJob
  <2>6. open \in SUBSET Sessions
    BY <1>b DEF MemoryOK
  <2>7. LoopOK' /\ ProcessOK' /\ HistoryOK'
    BY <2>1, <2>2, <2>4, <2>6, <1>b, LaunchTypes DEF ProcessOK, HistoryOK
  <2> QED
    BY <2>1, <2>4, <2>5, <2>7, <1>d, Unchanged
<1>15. ASSUME NEW j \in Jobs, ResumeSwitch(j) PROVE Typed'
  <2>1. /\ job[j].state = "resume" /\ job[j].kind = "switch" /\ job' = [job EXCEPT ![j] = NoJob]
        /\ stopping' = FALSE /\ failures' = <<>> /\ ResetRuntime /\ inFlight' = Idle
        /\ Launch({}) /\ blamed' = {} /\ uncertain' = {}
        /\ UNCHANGED <<halting, recovery, host>>
    BY <1>15 DEF ResumeSwitch
  <2>2. launches' = launches + 1
    BY <2>1 DEF Launch
  <2>3. j \in Launching /\ Launching' \subseteq Launching \ {j}
    BY <2>1, <1>b DEF Launching, CallsOK, NoJob
  <2>4. LaunchesLeft' /\ launches' \in Launchers
    BY <2>2, <2>3, <1>0, PromiseKept
  <2>5. CallsOK'
    BY <2>1, <1>b, SupervisorAssumption DEF CallsOK, NoJob
  <2>6. MemoryOK' /\ FlightOK(inFlight')
    BY <2>1, LedgerAssumption, FlightFacts, <1>b DEF ResetRuntime, MemoryOK, Forget
  <2>7. LoopOK' /\ ProcessOK' /\ HistoryOK'
    BY <2>1, <2>2, <2>4, <1>b, LaunchTypes DEF ProcessOK, HistoryOK
  <2> QED
    BY <2>1, <2>4, <2>5, <2>6, <2>7, <1>d, Unchanged
<1>16. ASSUME NEW j \in Jobs, ResumeQuit(j) PROVE Typed'
  <2>1. /\ job[j].kind = "quit" /\ job' = [job EXCEPT ![j].state = "done"]
        /\ launcher' \in {0, launcher}
        /\ UNCHANGED <<ledger, owner, stopping, launches, life, halting, recovery, loop, host, history>>
    BY <1>16 DEF ResumeQuit
  <2>2. ProcessOK'
    BY <2>1, <1>b, SupervisorAssumption DEF ProcessOK
  <2>3. CallsOK' /\ Launching' \subseteq Launching
    BY <2>1, <1>b DEF CallsOK, Launching
  <2>4. LaunchesLeft'
    BY <2>1, <2>3, <1>0, NoMorePromised
  <2> QED
    BY <2>1, <2>2, <2>3, <2>4, <1>d, Unchanged DEF ledger
<1>17. ASSUME UNCHANGED vars PROVE Typed'
  <2>1. Fine
    BY <1>17, Unchanged DEF vars, ledger
  <2> QED
    BY <1>17, <2>1, <1>a, <1>c DEF vars
<1> QED
  BY <1>1, <1>2, <1>3, <1>4, <1>5, <1>6, <1>7, <1>8, <1>9, <1>10, <1>11, <1>12, <1>13, <1>14,
     <1>15, <1>16, <1>17 DEF Next

\* The state of the supervisor has the types it is meant to have, and launches
\* are left for the calls that were promised one (supervisor.ts, recovery.ts).
THEOREM TypeCorrect == Spec => []TypeOK
<1>1. Spec => []Typed
  BY InitTypes, TypeStep, PTL DEF Spec
<1> QED
  BY <1>1, PTL DEF Typed

-----------------------------------------------------------------------------
(* Who is blamed stays closed. *)

Blameless == BlamedAreOut /\ RestoreIsClean

LEMMA CleanSlots ==
  ASSUME NEW flight, NEW guilty, Clean(flight, guilty)
  PROVE  /\ \A fewer \in SUBSET guilty : Clean(flight, fewer)
         /\ \A done : Clean(Settled(flight, done), guilty)
         /\ Clean(Settled(flight, {Restore}), blamed')
         /\ \A c, command : c # Restore => Clean(Sent(flight, c, command), guilty)
         /\ Clean(Idle, guilty)
BY DEF Clean, Settled, Sent, Idle

LEMMA CleanNext ==
  ASSUME NEW flight, NEW rs, NEW ss, NEW guilty, NextItem(flight, rs, ss),
         Clean(flight, guilty), guilty \cap ss = {}
  PROVE  Clean(inFlight', guilty) /\ guilty \cap todoSessions' = {} /\ todoSessions' \subseteq ss
<1>1. CASE \E r \in rs :
             /\ inFlight' = Sent(flight, Restore, [name |-> "open_workspace", arg |-> r])
             /\ todoRoots' = rs \ {r} /\ todoSessions' = ss /\ phase' = "restoring"
  BY <1>1 DEF Clean, Sent
<1>2. CASE \E s \in ss :
             /\ inFlight' = Sent(flight, Restore, [name |-> "open_session", arg |-> s])
             /\ todoRoots' = {} /\ todoSessions' = ss \ {s} /\ phase' = "restoring"
  BY <1>2 DEF Clean, Sent
<1>3. CASE inFlight' = flight /\ todoRoots' = {} /\ todoSessions' = {} /\ phase' = "up"
  BY <1>3
<1> QED
  BY <1>1, <1>2, <1>3 DEF NextItem

\* A failed item of the loop is forgotten, and the next one is as clean.
LEMMA CleanSettled ==
  ASSUME TypeOK, Blameless, NEW c \in DOMAIN inFlight, UNCHANGED blamed,
         IF c = Restore THEN RestoreFails
         ELSE inFlight' = Settled(inFlight, {c}) /\ UNCHANGED <<memory, loop>>
  PROVE  Blameless'
<1>1. CASE c # Restore
  BY <1>1, CleanSlots DEF Blameless, BlamedAreOut, RestoreIsClean, memory, loop
<1>2. CASE c = Restore
  <2>1. open' \subseteq open
    BY <1>2 DEF RestoreFails, NoteRestoreFailed, memory
  <2>2. Clean(Settled(inFlight, {Restore}), blamed)
    BY CleanSlots DEF Blameless, RestoreIsClean
  <2>3. CASE NextItem(Settled(inFlight, {Restore}), todoRoots, todoSessions)
    <3>1. Clean(inFlight', blamed) /\ blamed \cap todoSessions' = {}
      BY <2>2, <2>3, CleanNext DEF Blameless, BlamedAreOut
    <3> QED
      BY <2>1, <3>1 DEF Blameless, BlamedAreOut, RestoreIsClean
  <2>4. CASE inFlight' = Settled(inFlight, {Restore}) /\ Abandoned
    BY <2>1, <2>2, <2>4 DEF Blameless, BlamedAreOut, RestoreIsClean, Abandoned
  <2> QED
    BY <1>2, <2>3, <2>4 DEF RestoreFails
<1> QED
  BY <1>1, <1>2

LEMMA InitBlameless == Init => Blameless
BY DEF Init, LedgerInit, Blameless, BlamedAreOut, RestoreIsClean, Clean, Idle

LEMMA BlamelessStep == ASSUME TypeOK, Blameless, [Next]_vars PROVE Blameless'
<1> DEFINE Kept == open' \subseteq open /\ todoSessions' \subseteq todoSessions /\ blamed' \subseteq blamed
<1>a. ASSUME Kept, Clean(inFlight', blamed') PROVE Blameless'
  BY <1>a DEF Blameless, BlamedAreOut, RestoreIsClean
<1>b. BlamedAreOut /\ Clean(inFlight, blamed)
  BY DEF Blameless, RestoreIsClean
<1>c. blamed \subseteq Sessions /\ FlightOK(inFlight)
  BY TypeParts DEF TypesFit, HistoryOK
<1>1. ASSUME NEW c \in Slots, NEW command \in Commands, SendUser(c, command) PROVE Blameless'
  BY <1>1, <1>a, <1>b, CleanSlots DEF SendUser, memory, loop, history
<1>2. ASSUME NEW c \in Slots, Answer(c) PROVE Blameless'
  <2>1. PICK id \in Ids :
          /\ Performs(inFlight[c], id)
          /\ IF c = Restore /\ ~Owns(launcher) THEN UNCHANGED <<memory, blamed>>
             ELSE /\ Note(inFlight[c], id)
                  /\ blamed' = CASE inFlight[c].name = "open_session" -> blamed \ {inFlight[c].arg}
                                 [] inFlight[c].name = "close_workspace" -> blamed \ Belonging(id)
                                 [] OTHER -> blamed
    BY <1>2 DEF Answer
  <2>2. blamed' \subseteq blamed
    BY <2>1
  <2>3. blamed' \cap open' = {}
    <3>1. CASE UNCHANGED <<memory, blamed>>
      BY <3>1, <1>b DEF BlamedAreOut, memory
    <3>2. CASE Note(inFlight[c], id) /\ inFlight[c].name = "open_session" /\ blamed' = blamed \ {inFlight[c].arg}
      BY <3>2, <1>b DEF BlamedAreOut, Note, NoteSessionOpened
    <3>3. CASE Note(inFlight[c], id) /\ inFlight[c].name # "open_session"
      <4>1. open' \subseteq open
        BY <3>3 DEF Note, NoteWorkspaceOpened, NoteWorkspaceClosed, NoteSessionClosed, memory
      <4> QED
        BY <2>2, <4>1, <1>b DEF BlamedAreOut
    <3> QED
      BY <2>1, <3>1, <3>2, <3>3
  <2>4. Clean(inFlight', blamed') /\ todoSessions' \subseteq todoSessions
    <3>1. Clean(inFlight, blamed') /\ Clean(Settled(inFlight, {c}), blamed')
      BY <2>2, <1>b, CleanSlots
    <3>2. CASE inFlight' = Settled(inFlight, {c}) /\ (UNCHANGED loop \/ Abandoned)
      BY <3>1, <3>2 DEF loop, Abandoned
    <3>3. CASE NextItem(Settled(inFlight, {c}), todoRoots, todoSessions)
      <4>1. blamed' \cap todoSessions = {}
        BY <2>2, <1>b DEF BlamedAreOut
      <4> QED
        BY <3>1, <3>3, <4>1, CleanNext
    <3> QED
      BY <1>2, <3>2, <3>3 DEF Answer
  <2> QED
    BY <2>2, <2>3, <2>4, <1>b DEF Blameless, BlamedAreOut, RestoreIsClean
<1>3. ASSUME NEW c \in Slots, Refuse(c) PROVE Blameless'
  BY <1>3, CleanSettled DEF Refuse, history
<1>4. ASSUME NEW c \in Slots, Timeout(c) PROVE Blameless'
  BY <1>4, CleanSettled DEF Timeout
<1>5. ASSUME LateAnswer \/ HandshakeTimeout \/ HandshakeMismatch \/ RendererAttached \/ WindowPasses
      PROVE  Blameless'
  <2>1. Kept /\ UNCHANGED <<inFlight, blamed>>
    BY <1>5 DEF LateAnswer, HandshakeTimeout, HandshakeMismatch, RendererAttached, WindowPasses,
         Abandoned, ledger, memory, loop, history
  <2> QED
    BY <2>1, <1>a, <1>b
<1>6. ASSUME Ack PROVE Blameless'
  <2>1. UNCHANGED <<open, blamed>>
    BY <1>6 DEF Ack, memory, history
  <2>2. CASE NextItem(inFlight, roots, todoSessions)
    BY <2>1, <2>2, <1>a, <1>b, CleanNext DEF BlamedAreOut
  <2>3. CASE Abandoned /\ UNCHANGED inFlight
    BY <2>1, <2>3, <1>a, <1>b DEF Abandoned
  <2> QED
    BY <1>6, <2>2, <2>3 DEF Ack
<1>7. ASSUME NEW k \in Launchers, CrashOf(k) PROVE Blameless'
  <2>1. /\ inFlight' = Idle /\ open' \subseteq ToRestore /\ todoSessions' \subseteq ToRestore
        /\ blamed' = blamed \cup Blame
    BY <1>7 DEF CrashOf, PlanRestart, Abandoned, Blame, Evidence
  <2>2. blamed' \cap ToRestore = {}
    BY <2>1, <1>b DEF ToRestore, BlamedAreOut
  <2>3. Clean(inFlight', blamed')
    BY <2>1 DEF Clean, Idle
  <2> QED
    BY <2>1, <2>2, <2>3 DEF Blameless, BlamedAreOut, RestoreIsClean
<1>8. ASSUME NEW k \in Launchers, ExitOf(k) \/ StopDone(k) PROVE Blameless'
  <2>1. Kept /\ UNCHANGED blamed /\ (inFlight' = Idle \/ inFlight' = inFlight)
    BY <1>8 DEF ExitOf, StopDone, Abandoned, memory, loop, history
  <2> QED
    BY <2>1, <1>a, <1>b, CleanSlots
<1>9. ASSUME NEW j \in Jobs, NEW kind \in {"restart", "switch", "quit"}, Begin(j, kind) PROVE Blameless'
  BY <1>9, <1>a, <1>b DEF Begin, ledger, memory, loop, history
<1>10. ASSUME NEW j \in Jobs, ResumeRestart(j) PROVE Blameless'
  BY <1>10, <1>b DEF ResumeRestart, Launch, Blameless, BlamedAreOut, RestoreIsClean, memory
<1>11. ASSUME NEW j \in Jobs, ResumeSwitch(j) PROVE Blameless'
  BY <1>11 DEF ResumeSwitch, Blameless, BlamedAreOut, RestoreIsClean, Clean, Idle
<1>12. ASSUME NEW j \in Jobs, ResumeQuit(j) PROVE Blameless'
  BY <1>12, <1>a, <1>b DEF ResumeQuit, ledger, memory, loop, history
<1>13. CASE UNCHANGED vars
  BY <1>13, <1>a, <1>b DEF vars, ledger, memory, loop, history
<1> QED
  BY <1>1, <1>2, <1>3, <1>4, <1>5, <1>6, <1>7, <1>8, <1>9, <1>10, <1>11, <1>12, <1>13 DEF Next

LEMMA BlamelessShows == ASSUME Blameless PROVE BlamedStayClosed
<1>1. SessionsOf([c \in DOMAIN inFlight \cap {Restore} |-> inFlight[c]]) \cap blamed = {}
  BY DEF Blameless, RestoreIsClean, Clean, SessionsOf, SessionCommands
<1> QED
  BY <1>1 DEF Blameless, BlamedAreOut, BlamedStayClosed, BeingRestored

\* A session in flight when a host died is in no list of what the supervisor
\* brings back, until a person opens it, closes its workspace or switches the
\* runtime (planRestart, noteSettled and #restore).
THEOREM BlameHolds == Spec => []BlamedStayClosed
<1>1. Typed /\ Blameless /\ [Next]_vars => Blameless'
  BY BlamelessStep DEF Typed
<1>2. Spec => [](Typed /\ Blameless)
  BY <1>1, InitTypes, TypeStep, InitBlameless, PTL DEF Spec
<1>3. Blameless => BlamedStayClosed
  BY BlamelessShows
<1> QED
  BY <1>2, <1>3, PTL

-----------------------------------------------------------------------------
(* No host is left behind, one restart, switch or quit at a time. *)

LEMMA InitOneHost == Init => OneHost
<1> SUFFICES ASSUME Init PROVE OneHost
  OBVIOUS
<1>1. launcher = 1 /\ owner = 1 /\ launches = 1 /\ halting = {} /\ stopping = FALSE
  BY DEF Init
<1>2. life = [k \in Launchers |-> IF k = 1 THEN "starting" ELSE "none"]
  BY DEF Init
<1>3. \A j \in Jobs : job[j] = NoJob
  BY DEF Init
<1>4. CallsStop
  BY <1>3 DEF CallsStop, NoJob
<1>5. NoneAhead
  BY <1>1, <1>2 DEF NoneAhead, Launchers
<1>6. NoStrayHost
  BY <1>1, <1>2 DEF NoStrayHost, Alive
<1> QED
  BY <1>4, <1>5, <1>6 DEF OneHost

LEMMA OneHostStep == ASSUME OneCall, Typed, Typed', OneHost, [Next]_vars PROVE OneHost'
<1>a. /\ launcher \in 0..MaxLaunches /\ owner \in 0..MaxLaunches /\ launches \in 0..MaxLaunches
      /\ life \in [Launchers -> Lives] /\ halting \in SUBSET Launchers /\ CallsOK
      /\ launches' \in 0..MaxLaunches /\ MaxLaunches \in Nat
  BY TypeParts, SupervisorAssumption DEF Typed, TypesFit, ProcessOK
<1>b. CallsStop /\ NoneAhead /\ NoStrayHost
  BY DEF OneHost
<1>0. ASSUME UNCHANGED <<process, job>> PROVE OneHost'
  BY <1>0, <1>b DEF OneHost, CallsStop, NoneAhead, NoStrayHost, Alive, process
<1>1. ASSUME NEW c \in Slots, NEW command \in Commands, SendUser(c, command) PROVE OneHost'
  BY <1>0, <1>1 DEF SendUser
<1>2. ASSUME NEW c \in Slots, Answer(c) \/ Refuse(c) \/ Timeout(c) PROVE OneHost'
  BY <1>0, <1>2 DEF Answer, Refuse, Timeout
<1>3. ASSUME LateAnswer \/ HandshakeTimeout \/ RendererAttached \/ WindowPasses PROVE OneHost'
  BY <1>0, <1>3 DEF LateAnswer, HandshakeTimeout, RendererAttached, WindowPasses
<1>4. ASSUME Ack PROVE OneHost'
  <2>1. /\ launcher # 0 /\ life[launcher] = "starting" /\ life' = [life EXCEPT ![launcher] = "running"]
        /\ UNCHANGED <<launcher, owner, stopping, launches, halting, job>>
    BY <1>4 DEF Ack, Starting
  <2>2. \A k \in 0..MaxLaunches : Alive(k) <=> Alive(k)'
    BY <2>1, <1>a DEF Alive, Launchers
  <2>3. CallsStop' /\ NoStrayHost'
    BY <2>1, <2>2, <1>a, <1>b DEF CallsStop, NoStrayHost, Launchers
  <2>4. NoneAhead'
    BY <2>1, <1>a, <1>b DEF NoneAhead, Launchers
  <2> QED
    BY <2>3, <2>4 DEF OneHost
<1>5. ASSUME HandshakeMismatch PROVE OneHost'
  <2>1. /\ launcher # 0 /\ halting' = halting \cup {launcher}
        /\ UNCHANGED <<launcher, owner, stopping, launches, life, job>>
    BY <1>5 DEF HandshakeMismatch, Starting
  <2> QED
    BY <2>1, <1>a, <1>b DEF OneHost, CallsStop, NoneAhead, NoStrayHost, Alive, Launchers
<1>6. ASSUME NEW k \in Launchers, CrashOf(k) PROVE OneHost'
  <2>1. /\ k = owner /\ k = launcher /\ ~stopping /\ k \notin halting
        /\ UNCHANGED <<stopping, halting, job>>
    BY <1>6 DEF CrashOf, Attributed, Owns
  <2>2. \A j \in Jobs : job[j].state = "idle"
    BY <2>1, <1>a, <1>b DEF CallsStop, CallsOK
  <2>3. CallsStop'
    BY <2>1, <2>2, <1>b DEF CallsStop
  <2>4. CASE /\ launches' = launches + 1 /\ launcher' = launches' /\ owner' = launches'
             /\ life' = [life EXCEPT ![k] = "gone", ![launches'] = "starting"]
    <3>1. NoneAhead'
      BY <2>1, <2>4, <1>a, <1>b DEF NoneAhead, Launchers
    <3>2. NoStrayHost'
      BY <2>1, <2>4, <1>a, <1>b DEF NoStrayHost, Alive, Launchers
    <3> QED
      BY <2>3, <3>1, <3>2 DEF OneHost
  <2>5. CASE life' = [life EXCEPT ![k] = "gone"] /\ UNCHANGED <<launcher, owner, launches>>
    <3>1. NoneAhead'
      <4>1. k <= launches
        BY <2>1, <1>b DEF NoneAhead
      <4>2. \A m \in Launchers : m > launches => life'[m] = "none"
        BY <2>5, <4>1, <1>a, <1>b DEF NoneAhead, Launchers
      <4> QED
        BY <2>1, <2>5, <4>2, <1>b DEF NoneAhead
    <3>2. NoStrayHost'
      BY <2>1, <2>5, <1>a, <1>b DEF NoStrayHost, Alive
    <3> QED
      BY <2>3, <3>1, <3>2 DEF OneHost
  <2> QED
    BY <1>6, <2>4, <2>5 DEF CrashOf
<1>7. ASSUME NEW k \in Launchers, ExitOf(k) PROVE OneHost'
  <2>1. /\ Alive(k) /\ life' = [life EXCEPT ![k] = "gone"]
        /\ UNCHANGED <<launcher, owner, stopping, launches, halting, job>>
    BY <1>7 DEF ExitOf
  <2>2. \A m \in 0..MaxLaunches : Alive(m)' => Alive(m)
    BY <2>1, <1>a DEF Alive, Launchers
  <2>3. CallsStop' /\ NoStrayHost'
    BY <2>1, <2>2, <1>a, <1>b DEF CallsStop, NoStrayHost, Launchers
  <2>4. NoneAhead'
    BY <2>1, <1>a, <1>b DEF NoneAhead, Alive, Launchers
  <2> QED
    BY <2>3, <2>4 DEF OneHost
<1>8. ASSUME NEW k \in Launchers, StopDone(k) PROVE OneHost'
  <2>1. /\ k \in halting /\ halting' = halting \ {k} /\ life' = [life EXCEPT ![k] = "gone"]
        /\ job' = [j \in Jobs |-> IF job[j].state = "waiting" /\ job[j].of = k
                                  THEN [job[j] EXCEPT !.state = "resume"] ELSE job[j]]
        /\ UNCHANGED <<launcher, owner, stopping, launches>>
    BY <1>8 DEF StopDone
  <2>2. \A m \in 0..MaxLaunches : Alive(m)' => Alive(m) /\ m # k
    BY <2>1, <1>a DEF Alive, Launchers
  <2>3. NoStrayHost'
    BY <2>1, <2>2, <1>a, <1>b DEF NoStrayHost, Launchers
  <2>4. NoneAhead'
    BY <2>1, <1>a, <1>b DEF NoneAhead, Launchers
  <2>5. ASSUME NEW j \in Jobs
        PROVE  /\ job'[j].kind = job[j].kind /\ job'[j].of = job[j].of
               /\ job'[j].state = IF job[j].state = "waiting" /\ job[j].of = k THEN "resume" ELSE job[j].state
    BY <2>1, <1>a DEF CallsOK
  <2>6. CallsStop'
    BY <2>1, <2>2, <2>5, <1>a, <1>b DEF CallsStop
  <2> QED
    BY <2>3, <2>4, <2>6 DEF OneHost
<1>9. ASSUME NEW j \in Jobs, NEW kind \in {"restart", "switch", "quit"}, Begin(j, kind) PROVE OneHost'
  <2>1. /\ stopping' = TRUE /\ owner' = 0 /\ UNCHANGED <<launcher, launches, life>>
    BY <1>9 DEF Begin
  <2>2. PICK st \in {"waiting", "resume"} :
          /\ job' = [job EXCEPT ![j] = [kind |-> kind, state |-> st, of |-> launcher]]
          /\ st = "waiting" => Alive(launcher) /\ halting' = halting \cup {launcher}
          /\ st = "resume" => ~Alive(launcher) /\ halting' = halting
    BY <1>9 DEF Begin, HasProcess
  <2>3. \A i \in Jobs : job'[i] = [kind |-> kind, state |-> st, of |-> launcher]
    BY <2>2, <1>a DEF CallsOK, OneCall
  <2>4. CallsStop'
    BY <2>1, <2>2, <2>3 DEF CallsStop, Alive
  <2>5. NoneAhead' /\ NoStrayHost'
    BY <2>1, <2>2, <1>a, <1>b DEF NoneAhead, NoStrayHost, Alive, Launchers
  <2> QED
    BY <2>4, <2>5 DEF OneHost
<1>10. ASSUME NEW j \in Jobs, ResumeRestart(j) \/ ResumeSwitch(j) PROVE OneHost'
  <2>1. /\ job[j].state = "resume" /\ job' = [job EXCEPT ![j] = NoJob] /\ stopping' = FALSE
        /\ launches' = launches + 1 /\ launcher' = launches' /\ owner' = launches'
        /\ life' = [life EXCEPT ![launches'] = "starting"] /\ UNCHANGED halting
    BY <1>10 DEF ResumeRestart, ResumeSwitch, Launch
  <2>2. ~Alive(launcher)
    BY <2>1, <1>b DEF CallsStop
  <2>3. \A i \in Jobs : job'[i] = NoJob
    BY <2>1, <1>a DEF CallsOK, OneCall
  <2>4. CallsStop'
    BY <2>3 DEF CallsStop, NoJob
  <2>5. NoneAhead'
    BY <2>1, <1>a, <1>b DEF NoneAhead, Launchers
  <2>6. NoStrayHost'
    BY <2>1, <2>2, <1>a, <1>b DEF NoStrayHost, Alive, Launchers
  <2> QED
    BY <2>4, <2>5, <2>6 DEF OneHost
<1>11. ASSUME NEW j \in Jobs, ResumeQuit(j) PROVE OneHost'
  <2>1. /\ job[j].state = "resume" /\ job[j].kind = "quit" /\ job' = [job EXCEPT ![j].state = "done"]
        /\ launcher' = IF launcher = job[j].of THEN 0 ELSE launcher
        /\ UNCHANGED <<owner, stopping, launches, life, halting>>
    BY <1>11 DEF ResumeQuit
  <2>2. stopping /\ job[j].of = launcher /\ ~Alive(launcher) /\ launcher' = 0
    BY <2>1, <1>b DEF CallsStop
  <2>3. \A i \in Jobs : job'[i].state = "done" /\ job'[i].kind = "quit"
    BY <2>1, <1>a DEF CallsOK, OneCall
  <2>4. CallsStop'
    BY <2>1, <2>2, <2>3 DEF CallsStop, Alive
  <2>5. NoneAhead' /\ NoStrayHost'
    BY <2>1, <2>2, <1>a, <1>b DEF NoneAhead, NoStrayHost, Alive, Launchers
  <2> QED
    BY <2>4, <2>5 DEF OneHost
<1>12. CASE UNCHANGED vars
  BY <1>0, <1>12 DEF vars
<1> QED
  BY <1>1, <1>2, <1>3, <1>4, <1>5, <1>6, <1>7, <1>8, <1>9, <1>10, <1>11, <1>12 DEF Next

\* Restarting, switching and quitting one at a time, every host that lives is the
\* one main talks to or is being stopped (restart, openWorkspace and stop).
THEOREM NoHostLeftBehind == OneCall => (Spec => []NoStrayHost)
<1> SUFFICES ASSUME OneCall PROVE Spec => []NoStrayHost
  OBVIOUS
<1>1. Typed /\ OneHost /\ [Next]_vars => Typed' /\ OneHost'
  BY TypeStep, OneHostStep
<1>2. Spec => [](Typed /\ OneHost)
  BY <1>1, InitTypes, InitOneHost, PTL DEF Spec
<1> QED
  BY <1>2, PTL DEF OneHost

-----------------------------------------------------------------------------
(* Main and its host agree on what is open. *)

\* What the loop is still to bring back.
LEMMA Restored ==
  /\ \A s : s \in todoSessions \/ (/\ Restore \in DOMAIN inFlight /\ inFlight[Restore].name = "open_session"
                                   /\ inFlight[Restore].arg = s) => s \in BeingRestored
  /\ \A s : s \in todoSessions' \/ (/\ Restore \in DOMAIN inFlight' /\ inFlight'[Restore].name = "open_session"
                                    /\ inFlight'[Restore].arg = s) => s \in BeingRestored'
  /\ RestoreIsClean =>
       \A s \in BeingRestored :
         s \in todoSessions \/ (/\ Restore \in DOMAIN inFlight /\ inFlight[Restore].name = "open_session"
                                /\ inFlight[Restore].arg = s)
  /\ UNCHANGED <<todoSessions, inFlight>> => BeingRestored' = BeingRestored
BY DEF BeingRestored, SessionsOf, SessionCommands, RestoreIsClean, Clean

\* No request to close a workspace is added.
NoNewCloses ==
  \A x \in DOMAIN inFlight' :
    inFlight'[x].name = "close_workspace" => x \in DOMAIN inFlight /\ inFlight'[x] = inFlight[x]

LEMMA NextItemMoves ==
  ASSUME NEW flight, NEW rs, NEW ss, NextItem(flight, rs, ss), Restore \notin DOMAIN flight,
         \A x \in DOMAIN flight : x \in DOMAIN inFlight /\ flight[x] = inFlight[x]
  PROVE  /\ NoNewCloses
         /\ \A s \in ss : s \in BeingRestored'
         /\ phase' \in {"restoring", "up"}
         /\ phase' = "up" => Restore \notin DOMAIN inFlight' /\ todoSessions' = {}
<1>1. CASE \E r \in rs :
             /\ inFlight' = Sent(flight, Restore, [name |-> "open_workspace", arg |-> r])
             /\ todoRoots' = rs \ {r} /\ todoSessions' = ss /\ phase' = "restoring"
  BY <1>1, Restored DEF NoNewCloses, Sent
<1>2. CASE \E s \in ss :
             /\ inFlight' = Sent(flight, Restore, [name |-> "open_session", arg |-> s])
             /\ todoRoots' = {} /\ todoSessions' = ss \ {s} /\ phase' = "restoring"
  BY <1>2, Restored DEF NoNewCloses, Sent
<1>3. CASE ss = {} /\ inFlight' = flight /\ todoRoots' = {} /\ todoSessions' = {} /\ phase' = "up"
  BY <1>3 DEF NoNewCloses
<1> QED
  BY <1>1, <1>2, <1>3 DEF NextItem

\* A command of the slots is settled, and the loop moves on if it was its own.
Moves(c) ==
  IF c # Restore THEN inFlight' = Settled(inFlight, {c}) /\ UNCHANGED loop
  ELSE IF Owns(launcher) THEN NextItem(Settled(inFlight, {c}), todoRoots, todoSessions)
  ELSE inFlight' = Settled(inFlight, {c}) /\ Abandoned

LEMMA LoopMoves ==
  ASSUME RestoreIsClean, PhaseFits, Running, UNCHANGED process, NEW c \in DOMAIN inFlight, Moves(c)
  PROVE  /\ NoNewCloses /\ PhaseFits'
         /\ Owns(launcher) =>
              \A s \in BeingRestored :
                s \in BeingRestored' \/ (c = Restore /\ inFlight[c].name = "open_session" /\ inFlight[c].arg = s)
<1> DEFINE rest == Settled(inFlight, {c})
<1>1. /\ c \notin DOMAIN rest
      /\ \A x \in DOMAIN rest : x \in DOMAIN inFlight /\ rest[x] = inFlight[x]
      /\ \A x \in DOMAIN inFlight : x # c => x \in DOMAIN rest
  BY DEF Settled
<1>2. (Owns(launcher)' <=> Owns(launcher)) /\ Running'
  BY DEF process, Owns, Running
<1> HIDE DEF rest
<1>3. CASE c # Restore
  <2>1. inFlight' = rest /\ UNCHANGED <<phase, todoSessions>>
    BY <1>3 DEF Moves, rest, loop
  <2>2. NoNewCloses
    BY <1>1, <2>1 DEF NoNewCloses
  <2>3. PhaseFits'
    BY <1>1, <1>2, <2>1 DEF PhaseFits
  <2>4. \A s \in BeingRestored : s \in BeingRestored'
    BY <1>1, <1>3, <2>1, Restored
  <2> QED
    BY <2>2, <2>3, <2>4
<1>4. CASE c = Restore /\ Owns(launcher)
  <2>1. NextItem(rest, todoRoots, todoSessions)
    BY <1>4 DEF Moves, rest
  <2>2. /\ NoNewCloses /\ \A s \in todoSessions : s \in BeingRestored'
        /\ phase' \in {"restoring", "up"}
        /\ phase' = "up" => Restore \notin DOMAIN inFlight' /\ todoSessions' = {}
    BY <1>1, <1>4, <2>1, NextItemMoves
  <2>3. PhaseFits'
    BY <2>2 DEF PhaseFits
  <2> QED
    BY <1>4, <2>2, <2>3, Restored
<1>5. CASE c = Restore /\ ~Owns(launcher)
  <2>1. inFlight' = rest /\ phase' = "failed"
    BY <1>5 DEF Moves, rest, Abandoned
  <2>2. NoNewCloses
    BY <1>1, <2>1 DEF NoNewCloses
  <2>3. PhaseFits'
    BY <1>2, <1>5, <2>1 DEF PhaseFits
  <2> QED
    BY <1>5, <2>2, <2>3
<1> QED
  BY <1>3, <1>4, <1>5

\* What a command does to the workspaces of the host.
LEMMA Performed ==
  ASSUME TypeOK, IdsAreFresh, SessionsAreHome, NEW command \in Commands, NEW id \in Ids,
         Performs(command, id)
  PROVE  /\ FreshIds(hostWs', rootById, minted') /\ minted <= minted'
         /\ \A s \in Sessions : hostOpen'[s] # 0 => hostWs'[hostOpen'[s]] = Home[s]
         /\ \A i \in Ids : \/ hostWs'[i] = hostWs[i]
                           \/ command.name = "close_workspace" /\ i = command.arg /\ hostWs'[i] = NoRoot
                           \/ command.name = "open_workspace" /\ i > minted
         /\ command.name = "open_workspace" => hostWs'[id] = command.arg /\ id <= minted'
<1> USE DEF Ids
<1>a. /\ hostWs \in [Ids -> Roots \cup {NoRoot}] /\ hostOpen \in [Sessions -> 0..MaxIds]
      /\ minted \in 0..MaxIds /\ rootById \in [Ids -> Roots \cup {NoRoot}] /\ MaxIds \in Nat
      /\ \A r \in Roots : r # NoRoot
      /\ \A s \in Sessions : Home[s] \in Roots
  BY TypeParts, LedgerAssumption, SupervisorAssumption DEF TypesFit, HostOK, MemoryOK
<1>b. FreshIds(hostWs, rootById, minted)
  BY DEF IdsAreFresh
<1>c. \A s \in Sessions : hostOpen[s] # 0 =>
        hostOpen[s] \in Ids /\ hostWs[hostOpen[s]] = Home[s] /\ Home[s] # NoRoot /\ hostOpen[s] <= minted
  BY <1>a, <1>b DEF SessionsAreHome, FreshIds
<1>1. CASE command.name = "open_workspace" /\ UNCHANGED <<hostWs, hostOpen, minted>> /\ hostWs[id] = command.arg
  <2>1. command.arg \in Roots
    BY <1>1, CommandTypes
  <2> QED
    BY <1>1, <1>a, <1>b, <1>c, <2>1 DEF FreshIds
<1>2. CASE /\ command.name = "open_workspace" /\ UNCHANGED hostOpen
           /\ \A x \in Ids : hostWs[x] # command.arg
           /\ id = minted + 1 /\ minted' = id /\ hostWs' = [hostWs EXCEPT ![id] = command.arg]
  <2>1. command.arg \in Roots
    BY <1>2, CommandTypes
  <2>2. hostWs[id] = NoRoot /\ rootById[id] = NoRoot
    BY <1>2, <1>a, <1>b DEF FreshIds
  <2>3. /\ hostWs'[id] = command.arg
        /\ \A i \in Ids : i # id => hostWs'[i] = hostWs[i]
    BY <1>2, <1>a
  <2>4. FreshIds(hostWs', rootById, minted')
    BY <1>2, <1>a, <1>b, <2>1, <2>2, <2>3 DEF FreshIds
  <2>5. \A s \in Sessions : hostOpen'[s] # 0 => hostWs'[hostOpen'[s]] = Home[s]
    BY <1>2, <1>a, <1>c, <2>3
  <2> QED
    BY <1>2, <1>a, <2>3, <2>4, <2>5
<1>3. CASE command.name = "close_workspace"
  <2>1. /\ id = command.arg /\ hostWs' = [hostWs EXCEPT ![id] = NoRoot]
        /\ hostOpen' = [s \in Sessions |-> IF hostOpen[s] = id THEN 0 ELSE hostOpen[s]]
        /\ minted' = minted
    BY <1>3 DEF Performs
  <2>2. hostWs'[id] = NoRoot /\ \A i \in Ids : i # id => hostWs'[i] = hostWs[i]
    BY <2>1, <1>a
  <2>3. FreshIds(hostWs', rootById, minted')
    BY <2>1, <2>2, <1>a, <1>b DEF FreshIds
  <2>4. \A s \in Sessions : hostOpen'[s] # 0 => hostWs'[hostOpen'[s]] = Home[s]
    BY <2>1, <2>2, <1>a, <1>c
  <2> QED
    BY <1>3, <1>a, <2>1, <2>2, <2>3, <2>4
<1>4. CASE command.name \notin {"open_workspace", "close_workspace"}
  <2>1. UNCHANGED <<hostWs, minted>>
    BY <1>4 DEF Performs
  <2>2. \A s \in Sessions : hostOpen'[s] # 0 => hostWs[hostOpen'[s]] = Home[s]
    <3>1. CASE command.name = "open_session"
      <4>1. hostWs[id] = Home[command.arg] /\ hostOpen' = [hostOpen EXCEPT ![command.arg] = id]
        BY <3>1 DEF Performs
      <4> QED
        BY <4>1, <1>a, <1>c
    <3>2. CASE command.name = "close_session"
      <4>1. hostOpen' = [hostOpen EXCEPT ![command.arg] = 0]
        BY <3>2 DEF Performs
      <4> QED
        BY <4>1, <1>a, <1>c
    <3>3. CASE command.name \notin {"open_session", "close_session"}
      BY <1>4, <3>3, <1>c DEF Performs
    <3> QED
      BY <3>1, <3>2, <3>3
  <2> QED
    BY <1>4, <2>1, <2>2, <1>a, <1>b
<1> QED
  BY <1>1, <1>2, <1>3, <1>4 DEF Performs

\* What main notes of an answer fits what the host did.
LEMMA NotedIds ==
  ASSUME TypeOK, NEW command \in Commands, NEW id \in Ids, Note(command, id),
         FreshIds(hostWs', rootById, minted'), SessionsAreHome,
         command.name = "open_workspace" => hostWs'[id] = command.arg /\ id <= minted',
         command.name = "open_session" => hostWs'[id] = Home[command.arg]
  PROVE  /\ FreshIds(hostWs', rootById', minted')
         /\ \A s \in Sessions : rootOf'[s] \in {NoRoot, Home[s]}
         /\ \A i \in Ids : \/ rootById'[i] = rootById[i]
                           \/ rootById'[i] = NoRoot
                           \/ command.name = "open_workspace" /\ i = id
<1>a. /\ rootById \in [Ids -> Roots \cup {NoRoot}] /\ rootOf \in [Sessions -> Roots \cup {NoRoot}]
      /\ \A s \in Sessions : rootOf[s] \in {NoRoot, Home[s]}
      /\ \A r \in Roots : r # NoRoot
  BY TypeParts, LedgerAssumption DEF TypesFit, MemoryOK, SessionsAreHome
<1>1. CASE command.name = "open_workspace"
  <2>1. rootById' = [rootById EXCEPT ![id] = command.arg] /\ rootOf' = rootOf
    BY <1>1 DEF Note, NoteWorkspaceOpened
  <2>2. rootById'[id] = command.arg /\ \A i \in Ids : i # id => rootById'[i] = rootById[i]
    BY <2>1, <1>a
  <2>3. FreshIds(hostWs', rootById', minted')
    BY <1>1, <2>2 DEF FreshIds
  <2> QED
    BY <1>1, <1>a, <2>1, <2>2, <2>3
<1>2. CASE command.name = "close_workspace"
  <2>1. rootById' = [rootById EXCEPT ![command.arg] = NoRoot] /\ Forget(Belonging(command.arg))
    BY <1>2 DEF Note, NoteWorkspaceClosed
  <2>2. \A i \in Ids : rootById'[i] \in {NoRoot, rootById[i]}
    BY <2>1, <1>a
  <2>3. FreshIds(hostWs', rootById', minted')
    BY <2>2 DEF FreshIds
  <2>4. \A s \in Sessions : rootOf'[s] \in {NoRoot, Home[s]}
    BY <2>1, <1>a DEF Forget
  <2> QED
    BY <2>2, <2>3, <2>4
<1>3. CASE command.name = "open_session"
  <2>1. UNCHANGED rootById /\ rootOf' = [rootOf EXCEPT ![command.arg] = IF rootById[id] = NoRoot THEN @ ELSE rootById[id]]
    BY <1>3 DEF Note, NoteSessionOpened
  <2>2. command.arg \in Sessions /\ Home[command.arg] \in Roots
    BY <1>3, CommandTypes, SupervisorAssumption DEF SessionCommands
  <2>3. rootById[id] \in {NoRoot, Home[command.arg]}
    BY <1>3, <1>a, <2>2 DEF FreshIds
  <2>4. \A s \in Sessions : rootOf'[s] \in {NoRoot, Home[s]}
    BY <1>a, <2>1, <2>2, <2>3
  <2> QED
    BY <2>1, <2>4
<1>4. CASE command.name \notin {"open_workspace", "close_workspace", "open_session"}
  <2>1. UNCHANGED rootById /\ \A s \in Sessions : rootOf'[s] \in {NoRoot, Home[s]}
    BY <1>4, <1>a DEF Note, NoteSessionClosed, Forget, memory
  <2> QED
    BY <2>1
<1> QED
  BY <1>1, <1>2, <1>3, <1>4

LEMMA AnswerInSync ==
  ASSUME TypeOK, RestoreIsClean, InSync, NEW c \in Slots, Answer(c)
  PROVE  InSync'
<1> DEFINE command == inFlight[c]
<1>a. /\ NothingWithout /\ IdsAreFresh /\ SessionsAreHome /\ LateIsUncertain /\ ClosesAreKnown
      /\ OpenIsKnown /\ PhaseFits
  BY DEF InSync
<1>b. /\ Running /\ c \in DOMAIN inFlight /\ UNCHANGED <<process, late, uncertain>> /\ Moves(c)
  BY DEF Answer, Moves
<1>c. /\ hostWs \in [Ids -> Roots \cup {NoRoot}] /\ hostOpen \in [Sessions -> 0..MaxIds]
      /\ rootById \in [Ids -> Roots \cup {NoRoot}] /\ open \subseteq Sessions
      /\ wsOf \in [Sessions -> 0..MaxIds] /\ rootOf \in [Sessions -> Roots \cup {NoRoot}]
      /\ FlightOK(inFlight) /\ late \in SUBSET Commands /\ minted \in 0..MaxIds
      /\ \A s \in Sessions : Home[s] \in Roots /\ Home[s] # NoRoot
  BY TypeParts, SupervisorAssumption, LedgerAssumption DEF TypesFit, HostOK, MemoryOK
<1>d. command \in Commands
  BY <1>b, <1>c DEF FlightOK
<1>1. PICK id \in Ids :
        /\ Performs(command, id)
        /\ IF c = Restore /\ ~Owns(launcher) THEN UNCHANGED <<memory, blamed>> ELSE Note(command, id)
  BY DEF Answer
<1>2. /\ NoNewCloses /\ PhaseFits'
      /\ Owns(launcher) =>
           \A s \in BeingRestored :
             s \in BeingRestored' \/ (c = Restore /\ command.name = "open_session" /\ command.arg = s)
  BY <1>a, <1>b, LoopMoves
<1> HIDE DEF command
<1>3. /\ FreshIds(hostWs', rootById, minted') /\ minted <= minted'
      /\ \A s \in Sessions : hostOpen'[s] # 0 => hostWs'[hostOpen'[s]] = Home[s]
      /\ \A i \in Ids : \/ hostWs'[i] = hostWs[i]
                        \/ command.name = "close_workspace" /\ i = command.arg /\ hostWs'[i] = NoRoot
                        \/ command.name = "open_workspace" /\ i > minted
      /\ command.name = "open_workspace" => hostWs'[id] = command.arg /\ id <= minted'
      /\ minted' \in 0..MaxIds
  BY <1>a, <1>c, <1>d, <1>1, Performed, PerformsTypes
<1>e. ASSUME NEW i \in Ids, i <= minted PROVE i <= minted'
  <2>1. minted <= minted' /\ minted \in Int /\ minted' \in Int /\ i \in Int
    BY <1>3, <1>c, LedgerAssumption DEF Ids
  <2> QED
    BY <1>e, <2>1
<1>4. Running' /\ (Owns(launcher)' <=> Owns(launcher))
  BY <1>b DEF Running, Owns, process
<1>5. /\ FreshIds(hostWs', rootById', minted')
      /\ \A s \in Sessions : rootOf'[s] \in {NoRoot, Home[s]}
      /\ \A i \in Ids : \/ rootById'[i] = rootById[i]
                        \/ rootById'[i] = NoRoot
                        \/ command.name = "open_workspace" /\ i = id
  <2>1. CASE UNCHANGED memory
    BY <2>1, <1>a, <1>3 DEF memory, SessionsAreHome
  <2>2. CASE Note(command, id)
    <3>1. command.name = "open_session" => hostWs'[id] = Home[command.arg]
      BY <1>1 DEF Performs
    <3> QED
      BY <2>2, <3>1, <1>a, <1>d, <1>3, NotedIds
  <2> QED
    BY <1>1, <2>1, <2>2
<1>6. IdsAreFresh' /\ SessionsAreHome' /\ NothingWithout'
  BY <1>3, <1>4, <1>5 DEF IdsAreFresh, SessionsAreHome, NothingWithout
<1>7. LateIsUncertain'
  <2> SUFFICES ASSUME NEW x \in late,
                      x.name = "close_workspace"
               PROVE  x.arg <= minted' /\ (hostWs'[x.arg] # NoRoot => Uncertain(hostWs'[x.arg]))
    BY <1>a, <1>b DEF LateIsUncertain, Uncertain
  <2>1. x.arg \in Ids /\ x.arg <= minted /\ (hostWs[x.arg] # NoRoot => Uncertain(hostWs[x.arg]))
    BY <1>a, <1>c, CommandTypes DEF LateIsUncertain
  <2>2. hostWs'[x.arg] # NoRoot => hostWs'[x.arg] = hostWs[x.arg]
    BY <2>1, <1>3, <1>c, LedgerAssumption DEF Ids
  <2> QED
    BY <2>1, <2>2, <1>e
<1>8. ClosesAreKnown'
  <2> SUFFICES ASSUME NEW x \in DOMAIN inFlight',
                      inFlight'[x].name = "close_workspace"
               PROVE  /\ inFlight'[x].arg <= minted'
                      /\ hostWs'[inFlight'[x].arg] = NoRoot /\ rootById'[inFlight'[x].arg] # NoRoot
                           => Uncertain(rootById'[inFlight'[x].arg])
    BY <1>b DEF ClosesAreKnown, Uncertain
  <2> DEFINE arg == inFlight[x].arg
  <2>1. x \in DOMAIN inFlight /\ inFlight'[x] = inFlight[x]
    BY <1>2 DEF NoNewCloses
  <2>2. /\ arg \in Ids /\ arg <= minted
        /\ hostWs[arg] = NoRoot /\ rootById[arg] # NoRoot => Uncertain(rootById[arg])
    BY <2>1, <1>a, <1>c, CommandTypes DEF ClosesAreKnown, FlightOK
  <2> HIDE DEF arg
  <2>3. ASSUME hostWs'[arg] = NoRoot, rootById'[arg] # NoRoot
        PROVE  hostWs[arg] = NoRoot /\ rootById'[arg] = rootById[arg]
    <3>1. ~(command.name = "open_workspace" /\ arg = id)
      BY <1>3, <1>1, <1>d, <2>3, CommandTypes, LedgerAssumption
    <3>2. rootById'[arg] = rootById[arg]
      BY <1>5, <2>2, <2>3, <3>1
    <3>3. ~(command.name = "close_workspace" /\ arg = command.arg)
      <4>1. ASSUME command.name = "close_workspace", arg = command.arg PROVE FALSE
        <5>1. c # Restore
          BY <1>a, <1>b, <4>1 DEF RestoreIsClean, Clean, command
        <5>2. NoteWorkspaceClosed(arg)
          BY <1>1, <4>1, <5>1 DEF Note
        <5> QED
          BY <5>2, <2>2, <2>3, <1>c DEF NoteWorkspaceClosed
      <4> QED
        BY <4>1
    <3>4. ~(arg > minted)
      BY <2>2, <1>c, LedgerAssumption DEF Ids
    <3> QED
      BY <1>3, <2>2, <2>3, <3>2, <3>3, <3>4
  <2>4. arg <= minted'
    BY <2>2, <1>e
  <2> QED
    BY <2>1, <2>2, <2>3, <2>4 DEF arg
<1>9. OpenIsKnown'
  <2> SUFFICES ASSUME Owns(launcher), NEW s \in Sessions \ uncertain PROVE Known(s)'
    BY <1>4, <1>b DEF OpenIsKnown
  <2>1. /\ Known(s) /\ Note(command, id)
        /\ phase # "failed"
        /\ s \in BeingRestored => s \in BeingRestored' \/ (command.name = "open_session" /\ command.arg = s)
    BY <1>a, <1>b, <1>1, <1>2 DEF OpenIsKnown, PhaseFits
  <2>2. ASSUME UNCHANGED <<open, wsOf, hostOpen>>, command.name # "open_session" PROVE Known(s)'
    BY <2>1, <2>2 DEF Known
  <2>3. CASE command.name = "open_session"
    <3>1. hostOpen' = [hostOpen EXCEPT ![command.arg] = id] /\ open' = open \cup {command.arg}
          /\ wsOf' = [wsOf EXCEPT ![command.arg] = id]
      BY <1>1, <2>1, <2>3 DEF Performs, Note, NoteSessionOpened
    <3>2. CASE s = command.arg
      BY <3>1, <3>2, <1>c, LedgerAssumption DEF Known, Ids
    <3>3. CASE s # command.arg
      BY <3>1, <3>3, <2>1, <1>c DEF Known
    <3> QED
      BY <3>2, <3>3
  <2>4. CASE command.name = "close_session"
    <3>1. hostOpen' = [hostOpen EXCEPT ![command.arg] = 0] /\ open' = open \ {command.arg}
          /\ Forget({command.arg})
      BY <1>1, <2>1, <2>4 DEF Performs, Note, NoteSessionClosed
    <3> QED
      BY <3>1, <2>1, <2>4, <1>c DEF Known, Forget
  <2>5. CASE command.name = "close_workspace"
    <3>1. /\ hostOpen' = [x \in Sessions |-> IF hostOpen[x] = id THEN 0 ELSE hostOpen[x]]
          /\ command.arg = id /\ open' = open \ Belonging(id) /\ Forget(Belonging(id))
      BY <1>1, <2>1, <2>5 DEF Performs, Note, NoteWorkspaceClosed
    <3>2. CASE hostOpen[s] = id
      <4>1. hostOpen'[s] = 0 /\ id # 0
        BY <3>1, <3>2 DEF Ids
      <4>2. s \notin open'
        BY <3>1, <3>2, <4>1, <2>1 DEF Known, Belonging
      <4> QED
        BY <4>1, <4>2 DEF Known
    <3>3. CASE hostOpen[s] # id
      <4>1. hostOpen'[s] = hostOpen[s]
        BY <3>1, <3>3
      <4>2. ASSUME hostOpen[s] # 0 PROVE s \in open' /\ wsOf'[s] = hostOpen[s]
        <5>1. s \in open /\ wsOf[s] = hostOpen[s] /\ hostOpen[s] \in Ids
          BY <4>2, <2>1, <1>c, LedgerAssumption DEF Known, Ids
        <5>2. hostWs[hostOpen[s]] = Home[s] /\ rootOf[s] \in {NoRoot, Home[s]}
          BY <4>2, <1>a DEF SessionsAreHome
        <5>3. ~SameRoot(s, id)
          <6>1. ASSUME rootById[id] # NoRoot, rootOf[s] = rootById[id] PROVE FALSE
            <7>1. rootById[id] = Home[s] /\ hostWs[id] \in {NoRoot, Home[s]}
              BY <6>1, <5>2, <1>a DEF IdsAreFresh, FreshIds
            <7>2. hostWs[id] # Home[s]
              BY <3>3, <5>1, <5>2, <1>a, <1>c DEF IdsAreFresh, FreshIds
            <7>3. Uncertain(Home[s])
              BY <7>1, <7>2, <6>1, <1>a, <1>b, <2>5, <3>1 DEF ClosesAreKnown, command
            <7> QED
              BY <7>3 DEF Uncertain
          <6> QED
            BY <6>1 DEF SameRoot
        <5>4. s \notin Belonging(id)
          BY <5>1, <5>3, <3>3 DEF Belonging
        <5> QED
          BY <3>1, <5>1, <5>4 DEF Forget
      <4>3. ASSUME s \in open', phase' # "failed" PROVE hostOpen'[s] # 0 \/ s \in BeingRestored'
        BY <4>1, <4>3, <3>1, <2>1, <2>5 DEF Known
      <4> QED
        BY <4>1, <4>2, <4>3 DEF Known
    <3> QED
      BY <3>2, <3>3
  <2>6. CASE command.name \notin {"open_session", "close_session", "close_workspace"}
    <3>1. UNCHANGED <<open, wsOf, hostOpen>>
      BY <1>1, <2>1, <2>6 DEF Performs, Note, NoteWorkspaceOpened, memory
    <3> QED
      BY <3>1, <2>2, <2>6
  <2> QED
    BY <2>3, <2>4, <2>5, <2>6
<1> QED
  BY <1>2, <1>6, <1>7, <1>8, <1>9 DEF InSync

\* A command that failed or timed out: main forgets what the loop could not restore.
LEMMA SettledInSync ==
  ASSUME TypeOK, TypeOK', RestoreIsClean, InSync, Running, NEW c \in DOMAIN inFlight,
         UNCHANGED <<process, hostWs, hostOpen, minted>>,
         IF c = Restore THEN RestoreFails
         ELSE inFlight' = Settled(inFlight, {c}) /\ UNCHANGED <<memory, loop>>,
         \/ UNCHANGED <<late, uncertain>> /\ CanFail(inFlight[c])
         \/ /\ late' \subseteq late \cup {inFlight[c]}
            /\ uncertain' = uncertain \cup Touches(inFlight[c])
  PROVE  InSync'
<1>a. /\ NothingWithout /\ IdsAreFresh /\ SessionsAreHome /\ LateIsUncertain /\ ClosesAreKnown
      /\ OpenIsKnown /\ PhaseFits
  BY DEF InSync
<1>b. /\ rootById \in [Ids -> Roots \cup {NoRoot}] /\ rootOf \in [Sessions -> Roots \cup {NoRoot}]
      /\ wsOf \in [Sessions -> 0..MaxIds] /\ inFlight[c] \in Commands
  BY TypeParts DEF TypesFit, HostOK, MemoryOK, FlightOK
<1>1. Moves(c)
  BY DEF Moves, RestoreFails
<1>2. /\ NoNewCloses /\ PhaseFits'
      /\ Owns(launcher) =>
           \A s \in BeingRestored :
             s \in BeingRestored' \/ (c = Restore /\ inFlight[c].name = "open_session" /\ inFlight[c].arg = s)
  BY <1>a, <1>1, LoopMoves
<1>3. Running' /\ (Owns(launcher)' <=> Owns(launcher))
  BY DEF Running, Owns, process
<1> DEFINE Gone(ss) ==
             /\ \A s \in Sessions : s \in open' <=> s \in open /\ s \notin ss
             /\ \A s \in Sessions : s \notin ss => wsOf'[s] = wsOf[s]
             /\ ss = {} \/ (c = Restore /\ inFlight[c].name = "open_session" /\ ss = {inFlight[c].arg})
             /\ \A s \in Sessions : rootOf'[s] \in {NoRoot, rootOf[s]}
             /\ \A id \in Ids : rootById'[id] \in {NoRoot, rootById[id]}
<1>4. PICK ss : Gone(ss)
  <2>1. CASE UNCHANGED memory
    <3>1. UNCHANGED <<open, wsOf, rootOf, rootById>>
      BY <2>1 DEF memory
    <3>2. Gone({})
      BY <3>1
    <3> HIDE DEF Gone
    <3> QED
      BY <3>2
  <2>2. ASSUME NEW ss, NEW rs, NoteRestoreFailed(ss, rs)
        PROVE  /\ open' = open \ ss
               /\ \A s \in Sessions : s \notin ss => wsOf'[s] = wsOf[s]
               /\ \A s \in Sessions : rootOf'[s] \in {NoRoot, rootOf[s]}
               /\ \A id \in Ids : rootById'[id] \in {NoRoot, rootById[id]}
    BY <2>2, <1>b DEF NoteRestoreFailed, Forget
  <2>3. CASE c = Restore /\ Owns(launcher)
    <3>1. CASE inFlight[c].name = "open_workspace"
      BY <2>2, <2>3, <3>1 DEF RestoreFails
    <3>2. CASE inFlight[c].name # "open_workspace"
      <4>1. inFlight[c].name = "open_session"
        BY <2>3, <3>2 DEF RestoreIsClean, Clean
      <4>2. NoteRestoreFailed({inFlight[c].arg}, {})
        BY <2>3, <3>2 DEF RestoreFails
      <4> QED
        BY <2>2, <2>3, <4>1, <4>2
    <3> QED
      BY <3>1, <3>2
  <2>4. c # Restore \/ ~Owns(launcher) => UNCHANGED memory
    BY DEF RestoreFails
  <2> QED
    BY <2>1, <2>3, <2>4
<1>5. uncertain \subseteq uncertain'
  OBVIOUS
<1>6. IdsAreFresh' /\ SessionsAreHome' /\ NothingWithout'
  BY <1>a, <1>3, <1>4 DEF IdsAreFresh, FreshIds, SessionsAreHome, NothingWithout
<1>7. ClosesAreKnown'
  <2> SUFFICES ASSUME NEW x \in DOMAIN inFlight', inFlight'[x].name = "close_workspace"
               PROVE  /\ inFlight'[x].arg <= minted'
                      /\ hostWs'[inFlight'[x].arg] = NoRoot /\ rootById'[inFlight'[x].arg] # NoRoot
                           => Uncertain(rootById'[inFlight'[x].arg])
    BY <1>5 DEF ClosesAreKnown, Uncertain
  <2>1. x \in DOMAIN inFlight /\ inFlight'[x] = inFlight[x] /\ inFlight[x].arg \in Ids
    BY <1>2, TypeParts, CommandTypes DEF NoNewCloses, TypesFit, FlightOK
  <2> QED
    BY <2>1, <1>4, <1>a DEF ClosesAreKnown
<1>8. LateIsUncertain'
  <2> SUFFICES ASSUME NEW x \in late'
               PROVE  /\ x.name \in {"open_session", "close_session"} => x.arg \in uncertain'
                      /\ x.name = "close_workspace" =>
                           /\ x.arg <= minted
                           /\ hostWs[x.arg] # NoRoot => \A s \in Sessions : Home[s] = hostWs[x.arg] => s \in uncertain'
    BY DEF LateIsUncertain, Uncertain
  <2>1. CASE x \in late
    BY <2>1, <1>a, <1>5 DEF LateIsUncertain, Uncertain
  <2>2. CASE x \notin late
    <3>1. x = inFlight[c] /\ Touches(x) \subseteq uncertain'
      BY <2>2
    <3>2. x.name \in {"open_session", "close_session"} => x.arg \in uncertain'
      BY <3>1 DEF Touches
    <3>3. x.name = "close_workspace" => x.arg <= minted
      BY <3>1, <1>a DEF ClosesAreKnown
    <3>4. x.name = "close_workspace" => \A s \in Sessions : Home[s] = hostWs[x.arg] => s \in Touches(x)
      BY DEF Touches
    <3> QED
      BY <3>1, <3>2, <3>3, <3>4
  <2> QED
    BY <2>1, <2>2
<1>9. OpenIsKnown'
  <2> SUFFICES ASSUME Owns(launcher), NEW s \in Sessions \ uncertain' PROVE Known(s)'
    BY <1>3 DEF OpenIsKnown
  <2>1. Known(s) /\ phase # "failed"
    BY <1>a, <1>5 DEF OpenIsKnown, PhaseFits
  <2>2. CASE s \in ss
    <3>1. c = Restore /\ inFlight[c].name = "open_session" /\ s = inFlight[c].arg
      BY <2>2, <1>4
    <3>2. s \notin Touches(inFlight[c]) => hostOpen[s] = 0
      BY <3>1 DEF Touches
    <3>3. hostOpen[s] = 0
      BY <3>1, <3>2 DEF CanFail, Touches
    <3> QED
      BY <2>2, <3>3, <1>4 DEF Known
  <2>3. CASE s \notin ss
    <3>1. s \in open /\ s \in BeingRestored => s \in BeingRestored'
      <4>1. ASSUME c = Restore, inFlight[c].name = "open_session", inFlight[c].arg = s, s \in open'
            PROVE  s \in BeingRestored'
        <5>1. NoteRestoreFailed({s}, {})
          BY <4>1 DEF RestoreFails
        <5> QED
          BY <5>1, <4>1 DEF NoteRestoreFailed
      <4> QED
        BY <4>1, <1>2, <1>4, <2>3
    <3> QED
      BY <2>1, <2>3, <3>1, <1>4 DEF Known
  <2> QED
    BY <2>2, <2>3
<1> QED
  BY <1>2, <1>6, <1>7, <1>8, <1>9 DEF InSync

LEMMA LateInSync ==
  ASSUME TypeOK, TypeOK', InSync, LateAnswer
  PROVE  InSync'
<1>a. /\ NothingWithout /\ IdsAreFresh /\ SessionsAreHome /\ LateIsUncertain /\ ClosesAreKnown
      /\ OpenIsKnown /\ PhaseFits
  BY DEF InSync
<1>b. /\ hostWs \in [Ids -> Roots \cup {NoRoot}] /\ hostOpen \in [Sessions -> 0..MaxIds]
      /\ rootById \in [Ids -> Roots \cup {NoRoot}]
      /\ FlightOK(inFlight) /\ late \in SUBSET Commands /\ minted \in 0..MaxIds /\ minted' \in 0..MaxIds
      /\ \A s \in Sessions : Home[s] \in Roots /\ Home[s] # NoRoot
  BY TypeParts, SupervisorAssumption, LedgerAssumption DEF TypesFit, HostOK, MemoryOK
<1>1. PICK command \in late, id \in Ids : Performs(command, id) /\ late' = late \ {command}
  BY DEF LateAnswer
<1>2. UNCHANGED <<ledger, process, recovery, loop, job, history>> /\ Running
  BY DEF LateAnswer
<1>3. /\ Running' /\ (Owns(launcher)' <=> Owns(launcher))
      /\ UNCHANGED <<open, wsOf, rootOf, rootById, inFlight, phase, todoSessions, uncertain>>
  BY <1>2 DEF Running, Owns, process, ledger, memory, loop, history
<1>4. command \in Commands
  BY <1>1, <1>b
<1>5. /\ FreshIds(hostWs', rootById, minted') /\ minted <= minted'
      /\ \A s \in Sessions : hostOpen'[s] # 0 => hostWs'[hostOpen'[s]] = Home[s]
      /\ \A i \in Ids : \/ hostWs'[i] = hostWs[i]
                        \/ command.name = "close_workspace" /\ i = command.arg /\ hostWs'[i] = NoRoot
                        \/ command.name = "open_workspace" /\ i > minted
  BY <1>a, <1>1, <1>4, Performed
<1>e. ASSUME NEW i \in Ids, i <= minted PROVE i <= minted' /\ ~(i > minted)
  BY <1>e, <1>5, <1>b, LedgerAssumption DEF Ids
<1>6. IdsAreFresh' /\ SessionsAreHome' /\ NothingWithout' /\ PhaseFits'
  BY <1>a, <1>3, <1>5 DEF IdsAreFresh, SessionsAreHome, NothingWithout, PhaseFits
<1>7. LateIsUncertain'
  <2> SUFFICES ASSUME NEW x \in late, x.name = "close_workspace"
               PROVE  x.arg <= minted' /\ (hostWs'[x.arg] # NoRoot => Uncertain(hostWs'[x.arg]))
    BY <1>a, <1>1, <1>3 DEF LateIsUncertain, Uncertain
  <2>1. x.arg \in Ids /\ x.arg <= minted /\ (hostWs[x.arg] # NoRoot => Uncertain(hostWs[x.arg]))
    BY <1>a, <1>b, CommandTypes DEF LateIsUncertain
  <2>2. hostWs'[x.arg] # NoRoot => hostWs'[x.arg] = hostWs[x.arg]
    BY <2>1, <1>5, <1>e
  <2> QED
    BY <2>1, <2>2, <1>e
<1>8. ClosesAreKnown'
  <2> SUFFICES ASSUME NEW x \in DOMAIN inFlight, inFlight[x].name = "close_workspace"
               PROVE  /\ inFlight[x].arg <= minted'
                      /\ hostWs'[inFlight[x].arg] = NoRoot /\ rootById[inFlight[x].arg] # NoRoot
                           => Uncertain(rootById[inFlight[x].arg])
    BY <1>3 DEF ClosesAreKnown, Uncertain
  <2> DEFINE arg == inFlight[x].arg
  <2>1. /\ arg \in Ids /\ arg <= minted
        /\ hostWs[arg] = NoRoot /\ rootById[arg] # NoRoot => Uncertain(rootById[arg])
    BY <1>a, <1>b, CommandTypes DEF ClosesAreKnown, FlightOK
  <2> HIDE DEF arg
  <2>2. ASSUME hostWs'[arg] = NoRoot, rootById[arg] # NoRoot, hostWs[arg] # NoRoot
        PROVE  Uncertain(rootById[arg])
    <3>1. command.name = "close_workspace" /\ arg = command.arg
      BY <2>1, <2>2, <1>5, <1>e
    <3>2. hostWs[arg] = rootById[arg]
      BY <2>1, <2>2, <1>a DEF IdsAreFresh, FreshIds
    <3> QED
      BY <3>1, <3>2, <2>2, <1>1, <1>a DEF LateIsUncertain
  <2> QED
    BY <2>1, <2>2, <1>e DEF arg
<1>9. OpenIsKnown'
  <2> SUFFICES ASSUME Owns(launcher), NEW s \in Sessions \ uncertain PROVE Known(s)'
    BY <1>3 DEF OpenIsKnown
  <2>1. Known(s) /\ (s \in BeingRestored => s \in BeingRestored')
    BY <1>a, <1>3, Restored DEF OpenIsKnown
  <2>2. hostOpen'[s] = hostOpen[s]
    <3>1. CASE command.name \in {"open_session", "close_session"}
      <4>1. command.arg # s
        BY <3>1, <1>1, <1>a DEF LateIsUncertain
      <4> QED
        BY <3>1, <4>1, <1>1, <1>b DEF Performs
    <3>2. CASE command.name = "close_workspace"
      <4>1. id = command.arg /\ hostOpen' = [x \in Sessions |-> IF hostOpen[x] = id THEN 0 ELSE hostOpen[x]]
        BY <3>2, <1>1 DEF Performs
      <4>2. hostOpen[s] # id
        <5>1. ASSUME hostOpen[s] = id PROVE FALSE
          <6>1. hostWs[id] = Home[s] /\ Home[s] # NoRoot
            BY <5>1, <1>a, <1>b DEF SessionsAreHome, Ids
          <6> QED
            BY <6>1, <4>1, <3>2, <1>1, <1>a DEF LateIsUncertain, Uncertain
        <5> QED
          BY <5>1
      <4> QED
        BY <4>1, <4>2
    <3>3. CASE command.name \notin {"open_session", "close_session", "close_workspace"}
      BY <3>3, <1>1 DEF Performs
    <3> QED
      BY <3>1, <3>2, <3>3
  <2> QED
    BY <2>1, <2>2, <1>3 DEF Known
<1> QED
  BY <1>6, <1>7, <1>8, <1>9 DEF InSync

\* A host that ends takes with it all it had open and all it was asked.
LEMMA EndedInSync ==
  ASSUME TypeOK, InSync, inFlight' = Idle, HostGone, ~Running',
         \A id \in Ids : rootById'[id] \in {NoRoot, rootById[id]},
         \A s \in Sessions : rootOf'[s] \in {NoRoot, rootOf[s]},
         \/ phase' = "failed"
         \/ phase' = "handshake" /\ open' \subseteq todoSessions'
  PROVE  InSync'
<1>a. /\ \A id \in Ids : hostWs'[id] = NoRoot
      /\ \A s \in Sessions : hostOpen'[s] = 0
      /\ late' = {} /\ minted' = minted /\ DOMAIN inFlight' = {}
  BY DEF HostGone, Idle
<1>1. NothingWithout' /\ LateIsUncertain' /\ ClosesAreKnown'
  BY <1>a DEF NothingWithout, LateIsUncertain, ClosesAreKnown
<1>2. IdsAreFresh' /\ SessionsAreHome'
  BY <1>a DEF InSync, IdsAreFresh, FreshIds, SessionsAreHome
<1>3. PhaseFits'
  BY DEF PhaseFits
<1>4. OpenIsKnown'
  BY <1>a, Restored DEF OpenIsKnown, Known
<1> QED
  BY <1>1, <1>2, <1>3, <1>4 DEF InSync

\* A fresh host has nothing open, and all main means to reopen is on the list.
LEMMA LaunchedInSync ==
  ASSUME InSync, ~Running, ~Running', UNCHANGED host, inFlight' = Idle,
         \A id \in Ids : rootById'[id] \in {NoRoot, rootById[id]},
         \A s \in Sessions : rootOf'[s] \in {NoRoot, rootOf[s]},
         phase' = "handshake", open' \subseteq todoSessions'
  PROVE  InSync'
<1>a. /\ \A id \in Ids : hostWs'[id] = NoRoot
      /\ \A s \in Sessions : hostOpen'[s] = 0
      /\ late' = {} /\ minted' = minted /\ DOMAIN inFlight' = {}
  BY DEF InSync, NothingWithout, host, Idle
<1>1. NothingWithout' /\ LateIsUncertain' /\ ClosesAreKnown'
  BY <1>a DEF NothingWithout, LateIsUncertain, ClosesAreKnown
<1>2. IdsAreFresh' /\ SessionsAreHome'
  BY <1>a DEF InSync, IdsAreFresh, FreshIds, SessionsAreHome
<1>3. PhaseFits' /\ OpenIsKnown'
  BY <1>a, Restored DEF PhaseFits, OpenIsKnown, Known
<1> QED
  BY <1>1, <1>2, <1>3 DEF InSync

\* What happens to the supervisor alone.
LEMMA SameInSync ==
  ASSUME InSync, UNCHANGED <<memory, inFlight, host, history>>,
         Owns(launcher)' => Owns(launcher), Running' <=> Running,
         \/ UNCHANGED <<phase, todoSessions>>
         \/ ~Running /\ phase' = "failed"
  PROVE  InSync'
<1>a. UNCHANGED <<hostWs, hostOpen, minted, late, open, wsOf, rootOf, rootById, uncertain>>
  BY DEF host, memory, history
<1>1. NothingWithout' /\ IdsAreFresh' /\ SessionsAreHome'
  BY <1>a DEF InSync, NothingWithout, IdsAreFresh, SessionsAreHome
<1>2. LateIsUncertain' /\ ClosesAreKnown'
  BY <1>a DEF InSync, LateIsUncertain, ClosesAreKnown, Uncertain
<1>3. PhaseFits' /\ OpenIsKnown'
  BY <1>a, Restored DEF InSync, PhaseFits, OpenIsKnown, Known
<1> QED
  BY <1>1, <1>2, <1>3 DEF InSync

LEMMA AckInSync ==
  ASSUME TypeOK, InSync, Ack
  PROVE  InSync'
<1>a. /\ NothingWithout /\ IdsAreFresh /\ SessionsAreHome /\ OpenIsKnown
  BY DEF InSync
<1>1. /\ ~Running /\ phase = "handshake" /\ Running' /\ (Owns(launcher)' <=> Owns(launcher))
      /\ UNCHANGED <<memory, host, history>>
  BY TypeParts DEF Ack, Starting, Running, Owns, TypesFit, ProcessOK, Launchers
<1>b. UNCHANGED <<hostWs, hostOpen, minted, late, open, wsOf, rootOf, rootById, uncertain>>
  BY <1>1 DEF host, memory, history
<1>2. /\ inFlight = Idle /\ late = {} /\ DOMAIN inFlight = {}
      /\ \A s \in Sessions : hostOpen[s] = 0
  BY <1>1, <1>a DEF NothingWithout, Idle
<1>3. NothingWithout' /\ IdsAreFresh' /\ SessionsAreHome' /\ LateIsUncertain'
  BY <1>a, <1>b, <1>1, <1>2 DEF NothingWithout, IdsAreFresh, SessionsAreHome, LateIsUncertain
<1>4. CASE Owns(launcher)
  <2>1. NextItem(inFlight, roots, todoSessions)
    BY <1>4 DEF Ack
  <2>2. /\ NoNewCloses /\ \A s \in todoSessions : s \in BeingRestored'
        /\ phase' \in {"restoring", "up"}
        /\ phase' = "up" => Restore \notin DOMAIN inFlight' /\ todoSessions' = {}
    BY <1>2, <2>1, NextItemMoves
  <2>3. ClosesAreKnown' /\ PhaseFits'
    BY <1>2, <2>2 DEF NoNewCloses, ClosesAreKnown, PhaseFits
  <2>4. BeingRestored = todoSessions
    BY <1>2 DEF BeingRestored, SessionsOf
  <2>5. OpenIsKnown'
    BY <1>4, <1>1, <1>a, <1>b, <1>2, <2>2, <2>4 DEF OpenIsKnown, Known
  <2> QED
    BY <1>3, <2>3, <2>5 DEF InSync
<1>5. CASE ~Owns(launcher)
  <2>1. phase' = "failed" /\ UNCHANGED inFlight
    BY <1>5 DEF Ack, Abandoned
  <2> QED
    BY <1>1, <1>2, <1>3, <1>5, <2>1 DEF InSync, ClosesAreKnown, PhaseFits, OpenIsKnown
<1> QED
  BY <1>4, <1>5

LEMMA InitInSync == Init => InSync
<1> SUFFICES ASSUME Init PROVE InSync
  OBVIOUS
<1>1. /\ \A id \in Ids : hostWs[id] = NoRoot /\ rootById[id] = NoRoot
      /\ \A s \in Sessions : hostOpen[s] = 0 /\ rootOf[s] = NoRoot
      /\ late = {} /\ inFlight = Idle /\ DOMAIN inFlight = {} /\ open = {} /\ phase = "handshake"
  BY DEF Init, LedgerInit, Idle
<1>2. ~Running
  BY SupervisorAssumption DEF Init, Running, Launchers
<1>3. NothingWithout /\ IdsAreFresh /\ SessionsAreHome
  BY <1>1 DEF NothingWithout, IdsAreFresh, FreshIds, SessionsAreHome
<1>4. LateIsUncertain /\ ClosesAreKnown /\ OpenIsKnown /\ PhaseFits
  BY <1>1, <1>2 DEF LateIsUncertain, ClosesAreKnown, OpenIsKnown, Known, PhaseFits
<1> QED
  BY <1>3, <1>4 DEF InSync

LEMMA InSyncStep ==
  ASSUME Typed, Typed', RestoreIsClean, OneHost, InSync, [Next]_vars
  PROVE  InSync'
<1>a. TypeOK /\ TypeOK'
  BY DEF Typed
<1>b. /\ launcher \in 0..MaxLaunches /\ launches \in 0..MaxLaunches /\ life \in [Launchers -> Lives]
      /\ rootById \in [Ids -> Roots \cup {NoRoot}] /\ rootOf \in [Sessions -> Roots \cup {NoRoot}]
      /\ launches' \in 0..MaxLaunches
  BY <1>a, TypeParts DEF TypesFit, ProcessOK, MemoryOK
<1>c. UNCHANGED process => (Owns(launcher)' <=> Owns(launcher)) /\ (Running' <=> Running)
  BY DEF process, Owns, Running
<1>1. ASSUME NEW c \in Slots, NEW command \in Commands, SendUser(c, command) PROVE InSync'
  <2>1. /\ Running /\ c # Restore /\ Sensible(command) /\ inFlight' = Sent(inFlight, c, command)
        /\ UNCHANGED <<memory, process, loop, host, history>>
    BY <1>1 DEF SendUser
  <2>2. /\ UNCHANGED <<hostWs, hostOpen, minted, late, open, wsOf, rootOf, rootById, uncertain, phase, todoSessions>>
        /\ Running' /\ (Owns(launcher)' <=> Owns(launcher))
    BY <2>1, <1>c DEF host, memory, history, loop
  <2>3. NothingWithout' /\ IdsAreFresh' /\ SessionsAreHome' /\ LateIsUncertain'
    BY <2>2 DEF InSync, NothingWithout, IdsAreFresh, SessionsAreHome, LateIsUncertain, Uncertain
  <2>4. ClosesAreKnown'
    <3>1. command.name = "close_workspace" => hostWs[command.arg] # NoRoot /\ command.arg <= minted
      BY <2>1, CommandTypes DEF Sensible, InSync, IdsAreFresh, FreshIds
    <3>2. \A x \in DOMAIN inFlight' : inFlight'[x] = command \/ (x \in DOMAIN inFlight /\ inFlight'[x] = inFlight[x])
      BY <2>1 DEF Sent
    <3> QED
      BY <2>2, <3>1, <3>2 DEF InSync, ClosesAreKnown, Uncertain
  <2>5. /\ Restore \in DOMAIN inFlight' <=> Restore \in DOMAIN inFlight
        /\ Restore \in DOMAIN inFlight => inFlight'[Restore] = inFlight[Restore]
    BY <2>1 DEF Sent
  <2>6. PhaseFits'
    BY <2>1, <2>2, <2>5 DEF InSync, PhaseFits
  <2>7. \A s \in BeingRestored : s \in BeingRestored'
    BY <2>2, <2>5, Restored
  <2>8. OpenIsKnown'
    BY <2>2, <2>7 DEF InSync, OpenIsKnown, Known
  <2> QED
    BY <2>3, <2>4, <2>6, <2>8 DEF InSync
<1>2. ASSUME NEW c \in Slots, Answer(c) PROVE InSync'
  BY <1>a, <1>2, AnswerInSync
<1>3. ASSUME NEW c \in Slots, Refuse(c) PROVE InSync'
  BY <1>a, <1>3, SettledInSync DEF Refuse, host, history
<1>4. ASSUME NEW c \in Slots, Timeout(c) PROVE InSync'
  <2>1. late' \subseteq late \cup {inFlight[c]}
    BY <1>4 DEF Timeout
  <2> QED
    BY <1>a, <1>4, <2>1, SettledInSync DEF Timeout
<1>5. ASSUME LateAnswer PROVE InSync'
  BY <1>a, <1>5, LateInSync
<1>6. ASSUME Ack PROVE InSync'
  BY <1>a, <1>6, AckInSync
<1>7. ASSUME HandshakeTimeout \/ HandshakeMismatch PROVE InSync'
  <2>1. /\ ~Running /\ phase' = "failed" /\ UNCHANGED <<memory, inFlight, host, history>>
        /\ UNCHANGED <<launcher, owner, stopping, life>>
    BY <1>7 DEF HandshakeTimeout, HandshakeMismatch, Starting, Running, Abandoned, ledger, process
  <2>2. (Owns(launcher)' <=> Owns(launcher)) /\ (Running' <=> Running)
    BY <2>1 DEF Owns, Running
  <2> QED
    BY <2>1, <2>2, SameInSync
<1>8. ASSUME RendererAttached \/ WindowPasses PROVE InSync'
  BY <1>8, <1>c, SameInSync DEF RendererAttached, WindowPasses, ledger, loop
<1>9. ASSUME NEW k \in Launchers, CrashOf(k) PROVE InSync'
  <2>1. k = launcher /\ HostGone
    BY <1>9 DEF CrashOf, Attributed, Owns
  <2>2. PICK ss, rs : PlanRestart(ss, rs)
    BY <1>9 DEF CrashOf
  <2>3. /\ inFlight' = Idle /\ open' \subseteq ToRestore
        /\ \A id \in Ids : rootById'[id] \in {NoRoot, rootById[id]}
        /\ \A s \in Sessions : rootOf'[s] \in {NoRoot, rootOf[s]}
    BY <2>2 DEF PlanRestart, Forget
  <2>4. CASE /\ launches' = launches + 1 /\ launcher' = launches'
             /\ life' = [life EXCEPT ![k] = "gone", ![launches'] = "starting"]
             /\ phase' = "handshake" /\ todoSessions' = ToRestore
    <3>1. ~Running'
      BY <2>4, <1>b DEF Running, Launchers
    <3> QED
      BY <1>a, <2>1, <2>3, <2>4, <3>1, EndedInSync
  <2>5. CASE life' = [life EXCEPT ![k] = "gone"] /\ UNCHANGED launcher /\ Abandoned
    <3>1. ~Running' /\ phase' = "failed"
      BY <2>1, <2>5, <1>b DEF Running, Abandoned
    <3> QED
      BY <1>a, <2>1, <2>3, <3>1, EndedInSync
  <2> QED
    BY <1>9, <2>4, <2>5 DEF CrashOf
<1>10. ASSUME NEW k \in Launchers, ExitOf(k) \/ StopDone(k) PROVE InSync'
  <2>1. /\ life' = [life EXCEPT ![k] = "gone"]
        /\ UNCHANGED <<memory, launcher, owner, stopping, history>>
        /\ IF k = launcher THEN inFlight' = Idle /\ HostGone /\ Abandoned
           ELSE UNCHANGED <<inFlight, host, loop>>
    BY <1>10 DEF ExitOf, StopDone
  <2>2. CASE k = launcher
    <3>1. ~Running' /\ phase' = "failed" /\ UNCHANGED <<rootById, rootOf>>
      BY <2>1, <2>2, <1>b DEF Running, Abandoned, memory
    <3> QED
      BY <1>a, <2>1, <2>2, <3>1, EndedInSync
  <2>3. CASE k # launcher
    <3>1. (Owns(launcher)' <=> Owns(launcher)) /\ (Running' <=> Running)
      BY <2>1, <2>3, <1>b DEF Owns, Running, Launchers
    <3> QED
      BY <2>1, <2>3, <3>1, SameInSync DEF loop
  <2> QED
    BY <2>2, <2>3
<1>11. ASSUME NEW j \in Jobs, NEW kind \in {"restart", "switch", "quit"}, Begin(j, kind) PROVE InSync'
  <2>1. ~Owns(launcher)' /\ (Running' <=> Running) /\ UNCHANGED <<memory, inFlight, host, history, phase, todoSessions>>
    BY <1>11 DEF Begin, Owns, Running, ledger, loop
  <2> QED
    BY <2>1, SameInSync
<1>12. ASSUME NEW j \in Jobs, ResumeRestart(j) \/ ResumeSwitch(j) PROVE InSync'
  <2>1. ~Running
    BY <1>12 DEF OneHost, CallsStop, ResumeRestart, ResumeSwitch, Alive, Running
  <2>2. inFlight = Idle
    BY <2>1 DEF InSync, NothingWithout
  <2>3. /\ UNCHANGED host /\ phase' = "handshake" /\ inFlight' = Idle
        /\ launches' = launches + 1 /\ launcher' = launches' /\ life' = [life EXCEPT ![launches'] = "starting"]
    BY <1>12, <2>2 DEF ResumeRestart, ResumeSwitch, Launch
  <2>4. ~Running'
    BY <2>3, <1>b DEF Running, Launchers
  <2>5. CASE ResumeRestart(j)
    <3>1. UNCHANGED <<open, rootById, rootOf>> /\ todoSessions' = open
      BY <2>5 DEF ResumeRestart, Launch, memory
    <3> QED
      BY <2>1, <2>3, <2>4, <3>1, LaunchedInSync
  <2>6. CASE ResumeSwitch(j)
    <3>1. /\ open' = {}
          /\ \A id \in Ids : rootById'[id] = NoRoot
          /\ \A s \in Sessions : rootOf'[s] = NoRoot
      BY <2>6 DEF ResumeSwitch, ResetRuntime, Forget
    <3> QED
      BY <2>1, <2>3, <2>4, <3>1, LaunchedInSync
  <2> QED
    BY <1>12, <2>5, <2>6
<1>13. ASSUME NEW j \in Jobs, ResumeQuit(j) PROVE InSync'
  <2>1. ~Running /\ stopping
    BY <1>13 DEF OneHost, CallsStop, ResumeQuit, Alive, Running
  <2>2. /\ launcher' \in {0, launcher}
        /\ UNCHANGED <<memory, inFlight, host, history, phase, todoSessions, life, stopping>>
    BY <1>13 DEF ResumeQuit, ledger, loop
  <2>3. ~Running' /\ ~Owns(launcher)'
    BY <2>1, <2>2 DEF Running, Owns
  <2> QED
    BY <2>1, <2>2, <2>3, SameInSync
<1>14. CASE UNCHANGED vars
  BY <1>14, <1>c, SameInSync DEF vars, ledger, loop
<1> QED
  BY <1>1, <1>2, <1>3, <1>4, <1>5, <1>6, <1>7, <1>8, <1>9, <1>10, <1>11, <1>12, <1>13, <1>14 DEF Next

LEMMA InSyncShows == ASSUME TypeOK, InSync PROVE LedgerMatches
<1> SUFFICES ASSUME phase = "up", Owns(launcher), NEW s \in Sessions \ uncertain
             PROVE  s \in open <=> hostOpen[s] # 0
  BY DEF LedgerMatches
<1>1. Known(s)
  BY DEF InSync, OpenIsKnown
<1>2. Restore \notin DOMAIN inFlight /\ todoSessions = {}
  BY DEF InSync, PhaseFits
<1>3. BeingRestored = {}
  BY <1>2 DEF BeingRestored, SessionsOf
<1> QED
  BY <1>1, <1>3 DEF Known

\* Restarting, switching and quitting one at a time, main takes for open exactly
\* the sessions its host has open once the restore is over, but for those a
\* timed-out command concerns (noteSettled, planRestart and #restore).
THEOREM MainKnowsWhatIsOpen == OneCall => (Spec => []LedgerMatches)
<1> SUFFICES ASSUME OneCall PROVE Spec => []LedgerMatches
  OBVIOUS
<1> DEFINE Inv == Typed /\ Blameless /\ OneHost /\ InSync
<1>1. Init => Inv
  BY InitTypes, InitBlameless, InitOneHost, InitInSync
<1>2. Inv /\ [Next]_vars => Inv'
  BY TypeStep, BlamelessStep, OneHostStep, InSyncStep DEF Typed, Blameless
<1>3. Inv => LedgerMatches
  BY InSyncShows DEF Typed
<1> HIDE DEF Inv
<1> QED
  BY <1>1, <1>2, <1>3, PTL DEF Spec

-----------------------------------------------------------------------------
(* The restart budget. *)

\* The failures that led to a restart.
RestartsIn(record) == {i \in DOMAIN record : record[i]}

LEMMA RecordedRestarts ==
  ASSUME NEW record \in Seq(BOOLEAN)
  PROVE  /\ IsFiniteSet(RestartsIn(record)) /\ Cardinality(RestartsIn(record)) \in Nat
         /\ RestartsIn(Append(record, FALSE)) = RestartsIn(record)
         /\ IsFiniteSet(RestartsIn(Append(record, TRUE)))
         /\ Cardinality(RestartsIn(Append(record, TRUE))) <= Len(record) + 1
         /\ record # <<>> => Cardinality(RestartsIn(Tail(record))) <= Cardinality(RestartsIn(record))
<1>1. RestartsIn(record) \subseteq 1..Len(record) /\ IsFiniteSet(1..Len(record))
  BY FS_Interval DEF RestartsIn
<1>2. IsFiniteSet(RestartsIn(record)) /\ Cardinality(RestartsIn(record)) \in Nat
  BY <1>1, FS_Subset, FS_CardinalityType
<1>3. RestartsIn(Append(record, FALSE)) = RestartsIn(record)
  BY DEF RestartsIn
<1>4. IsFiniteSet(RestartsIn(Append(record, TRUE))) /\ Cardinality(RestartsIn(Append(record, TRUE))) <= Len(record) + 1
  <2>1. RestartsIn(Append(record, TRUE)) \subseteq 1..(Len(record) + 1)
    BY DEF RestartsIn
  <2>2. IsFiniteSet(1..(Len(record) + 1)) /\ Cardinality(1..(Len(record) + 1)) = Len(record) + 1
    BY FS_Interval
  <2> QED
    BY <2>1, <2>2, FS_Subset
<1>5. ASSUME record # <<>> PROVE Cardinality(RestartsIn(Tail(record))) <= Cardinality(RestartsIn(record))
  <2> DEFINE f == [i \in RestartsIn(Tail(record)) |-> i + 1]
  <2>1. \A i \in RestartsIn(Tail(record)) : i \in Nat /\ i + 1 \in RestartsIn(record)
    BY <1>5 DEF RestartsIn
  <2>2. f \in Injection(RestartsIn(Tail(record)), RestartsIn(record))
    BY <2>1 DEF Injection, IsInjective
  <2> HIDE DEF f
  <2> QED
    BY <2>2, <1>2, FS_Injection
<1> QED
  BY <1>2, <1>3, <1>4, <1>5

LEMMA BudgetStep ==
  ASSUME TypeOK, RelaunchesBounded, [Next]_vars
  PROVE  RelaunchesBounded'
<1>a. failures \in Seq(BOOLEAN) /\ MaxRestarts \in Nat /\ Cardinality(RestartsIn(failures)) <= MaxRestarts
  BY TypeParts, LedgerAssumption DEF TypesFit, RelaunchesBounded, RestartsIn
<1>b. SUFFICES Cardinality(RestartsIn(failures')) <= MaxRestarts
  BY DEF RelaunchesBounded, RestartsIn
<1>0. CASE UNCHANGED failures
  BY <1>0, <1>a
<1>1. CASE failures' = <<>>
  <2>1. RestartsIn(failures') = {}
    BY <1>1 DEF RestartsIn
  <2> QED
    BY <2>1, <1>a, FS_EmptySet
<1>2. CASE WindowPasses
  <2>1. failures # <<>> /\ failures' = Tail(failures)
    BY <1>2 DEF WindowPasses
  <2>2. Cardinality(RestartsIn(Tail(failures))) <= Cardinality(RestartsIn(failures))
    BY <2>1, <1>a, RecordedRestarts
  <2>3. Tail(failures) \in Seq(BOOLEAN)
    BY <2>1, <1>a
  <2>4. Cardinality(RestartsIn(Tail(failures))) \in Nat /\ Cardinality(RestartsIn(failures)) \in Nat
    BY <2>3, <1>a, RecordedRestarts
  <2> DEFINE n == Cardinality(RestartsIn(Tail(failures)))
             m == Cardinality(RestartsIn(failures))
  <2>5. n \in Nat /\ m \in Nat /\ n <= m /\ m <= MaxRestarts
    BY <2>2, <2>4, <1>a
  <2> HIDE DEF n, m
  <2>6. n <= MaxRestarts
    BY <2>5, <1>a
  <2> QED
    BY <2>1, <2>6 DEF n
<1>3. CASE \E k \in Launchers : CrashOf(k)
  <2>1. failures' = Append(failures, Relaunches)
    BY <1>3 DEF CrashOf
  <2>2. CASE Relaunches
    <3>1. failures' = Append(failures, TRUE) /\ Len(failures) + 1 <= MaxRestarts
      BY <2>1, <2>2 DEF Relaunches, Automatic, BudgetRemains
    <3>2. Cardinality(RestartsIn(Append(failures, TRUE))) <= Len(failures) + 1
      BY <1>a, RecordedRestarts
    <3>3. Cardinality(RestartsIn(Append(failures, TRUE))) \in Nat
      BY <1>a, RecordedRestarts, FS_CardinalityType
    <3>4. Len(failures) \in Nat
      BY <1>a
    <3> DEFINE n == Cardinality(RestartsIn(Append(failures, TRUE)))
    <3>5. n \in Nat /\ n <= Len(failures) + 1
      BY <3>2, <3>3
    <3> HIDE DEF n
    <3>6. n <= MaxRestarts
      BY <3>1, <3>4, <3>5, <1>a
    <3> QED
      BY <3>1, <3>6 DEF n
  <2>3. CASE ~Relaunches
    <3>1. failures' = Append(failures, FALSE)
      BY <2>1, <2>3 DEF Relaunches, Automatic, Ambiguous, BudgetRemains
    <3> QED
      BY <3>1, <1>a, RecordedRestarts
  <2> QED
    BY <2>2, <2>3
<1>4. CASE \E c \in Slots : (\E command \in Commands : SendUser(c, command)) \/ Answer(c) \/ Refuse(c) \/ Timeout(c)
  BY <1>0, <1>4 DEF SendUser, Answer, Refuse, Timeout
<1>5. CASE LateAnswer \/ Ack \/ HandshakeTimeout \/ HandshakeMismatch \/ RendererAttached
  BY <1>0, <1>5 DEF LateAnswer, Ack, HandshakeTimeout, HandshakeMismatch, RendererAttached, ledger
<1>6. CASE \E k \in Launchers : ExitOf(k) \/ StopDone(k)
  BY <1>0, <1>6 DEF ExitOf, StopDone
<1>7. CASE \E j \in Jobs : (\E kind \in {"restart", "switch", "quit"} : Begin(j, kind)) \/ ResumeQuit(j)
  BY <1>0, <1>7 DEF Begin, ResumeQuit, ledger
<1>8. CASE \E j \in Jobs : ResumeRestart(j) \/ ResumeSwitch(j)
  BY <1>1, <1>8 DEF ResumeRestart, ResumeSwitch
<1>9. CASE UNCHANGED vars
  BY <1>0, <1>9 DEF vars, ledger
<1> QED
  BY <1>2, <1>3, <1>4, <1>5, <1>6, <1>7, <1>8, <1>9 DEF Next

\* Within a window of the budget, and since the last deliberate restart, main
\* brings a crashed host back no more often than its policy allows
\* (RestartBudget.record of health.ts, in #onUnexpectedExit).
THEOREM BudgetKept == Spec => []RelaunchesBounded
<1>1. Init => RelaunchesBounded
  <2> SUFFICES ASSUME Init PROVE RelaunchesBounded
    OBVIOUS
  <2>1. {i \in DOMAIN failures : failures[i]} = {}
    BY DEF Init, LedgerInit
  <2> QED
    BY <2>1, FS_EmptySet, LedgerAssumption DEF RelaunchesBounded
<1> QED
  BY <1>1, TypeCorrect, BudgetStep, PTL DEF Spec

-----------------------------------------------------------------------------
(* PiInstalls. *)

\* The packages an install cannot do without.
Needed == Packages \ Optional

Directory == [there : BOOLEAN, packages : SUBSET Packages]

JobState ==
  [state : {"none", "planning", "downloading", "done", "failed", "gone"}, version : Versions, next : Nat,
   tries : [Packages -> Nat], absent : SUBSET Packages, staged : SUBSET Packages]

PiTyped ==
  /\ dir \in [Places -> Directory]
  /\ jobs \in [Installs -> JobState]
  /\ begun \in 0..MaxInstalls

\* One install is at work at a time, and nobody clears what it has staged.
OneInFlight == \A j \in Installs : Working(j) => current = j

\* What a worker has taken is there, in hand, or can be done without.
TakenIsStaged ==
  \A j \in Installs : jobs[j].state = "downloading" =>
    \A i \in Needed : i < jobs[j].next => i \in jobs[j].staged \/ jobs[j].tries[i] # 0

Wholes == \A e \in Places : Usable(dir, e) /\ e \notin cut => Needed \subseteq dir[e].packages

\* The inductive invariant.
PiIInv == PiTyped /\ OneInFlight /\ TakenIsStaged /\ Wholes

-----------------------------------------------------------------------------

LEMMA PlaceFacts ==
  /\ \A v \in Versions : Own(v) \in Places /\ Aside(v) \in Places /\ Own(v) \notin Asides /\ Own(v) # Aside(v)
  /\ Asides \subseteq Places
  BY DEF Places, Asides, Own, Aside

LEMMA DirectoryFacts ==
  /\ Missing \in Directory /\ Missing.packages = {}
  /\ \A S \in SUBSET Packages : Holding(S) \in Directory /\ Holding(S).packages = S
  BY DEF Missing, Holding, Directory

LEMMA LeftoverFacts ==
  ASSUME dir \in [Places -> Directory], NEW e \in Places, NEW left \in Leftovers(e)
  PROVE  left \in Directory /\ left.packages \subseteq dir[e].packages
<1>1. PICK S \in SUBSET dir[e].packages : left = Holding(S)
  BY DEF Leftovers
<1>2. dir[e].packages \subseteq Packages
  BY DEF Directory
<1> QED
  BY <1>1, <1>2, DirectoryFacts

LEMMA PackageFacts == Packages \subseteq Nat \ {0} /\ Cardinality(Packages) \in Nat
                      /\ Packages = 1..Cardinality(Packages)
<1>1. Cardinality(Packages) \in Nat
  BY PiAssumption, FS_CardinalityType
<1> QED
  BY <1>1, PiAssumption

\* What has all its packages is whole.
LEMMA AllInIsWhole ==
  ASSUME PiTyped, TakenIsStaged, NEW j \in Installs, jobs[j].state = "downloading", AllIn(j)
  PROVE  Needed \subseteq jobs[j].staged
<1> SUFFICES ASSUME NEW i \in Needed PROVE i \in jobs[j].staged
  OBVIOUS
<1>1. i \in Packages /\ i <= Cardinality(Packages) /\ jobs[j].next \in Nat
  BY PackageFacts DEF Needed, PiTyped, JobState
<1>2. jobs[j].next > Cardinality(Packages) /\ jobs[j].tries[i] = 0
  BY <1>1 DEF AllIn, InHand
<1>3. i < jobs[j].next
  BY <1>1, <1>2, PackageFacts
<1> QED
  BY <1>2, <1>3 DEF TakenIsStaged

-----------------------------------------------------------------------------
(* Jobs. *)

LEMMA FailsFacts ==
  ASSUME NEW js \in [Installs -> JobState], NEW j \in Installs, Fails(js, j)
  PROVE  /\ jobs' \in [Installs -> JobState] /\ jobs'[j].state = "failed"
         /\ \A k \in Installs : k # j => jobs'[k] = js[k]
         /\ current' = NoInstall
<1>1. [js[j] EXCEPT !.state = "failed", !.staged = {}] \in JobState
  BY DEF JobState
<1>2. jobs' = [js EXCEPT ![j] = [js[j] EXCEPT !.state = "failed", !.staged = {}]]
  BY DEF Fails, JobState
<1>3. jobs'[j] = [js[j] EXCEPT !.state = "failed", !.staged = {}]
  BY <1>2
<1>4. jobs'[j].state = "failed"
  BY <1>3 DEF JobState
<1> QED
  BY <1>1, <1>2, <1>4 DEF Fails

LEMMA LeftFacts ==
  ASSUME NEW js \in [Installs -> JobState], NEW j \in Installs, NEW i \in Packages
  PROVE  /\ Left(js, j, i) \in [Installs -> JobState]
         /\ Left(js, j, i)[j].state = js[j].state /\ Left(js, j, i)[j].staged = js[j].staged
         /\ Left(js, j, i)[j].next = js[j].next
         /\ \A m \in Packages : Left(js, j, i)[j].tries[m] = IF m = i THEN 0 ELSE js[j].tries[m]
         /\ \A k \in Installs : k # j => Left(js, j, i)[k] = js[k]
<1> DEFINE r == [js[j] EXCEPT !.tries = [js[j].tries EXCEPT ![i] = 0], !.absent = js[j].absent \ {i}]
<1>1. /\ r \in JobState /\ r.state = js[j].state /\ r.staged = js[j].staged /\ r.next = js[j].next
      /\ r.tries = [js[j].tries EXCEPT ![i] = 0] /\ js[j].tries \in [Packages -> Nat]
  BY DEF JobState
<1>2. Left(js, j, i) = [js EXCEPT ![j] = r]
  BY DEF Left, JobState
<1> HIDE DEF r
<1>3. Left(js, j, i)[j] = r
  BY <1>2
<1> QED
  BY <1>1, <1>2, <1>3

\* What is below the mark of a job and in no hand was so before, or is what was let go.
LEMMA TakenFacts ==
  ASSUME NEW js \in [Installs -> JobState], NEW j \in Installs, NEW i \in Packages
  PROVE  /\ Taken(js, j, i) \in [Installs -> JobState]
         /\ Taken(js, j, i)[j].state = js[j].state /\ Taken(js, j, i)[j].staged = js[j].staged
         /\ \A m \in Packages : m < Taken(js, j, i)[j].next =>
              \/ Taken(js, j, i)[j].tries[m] # 0 \/ m = i
              \/ m < js[j].next /\ js[j].tries[m] = 0
         /\ \A k \in Installs : k # j => Taken(js, j, i)[k] = js[k]
<1>n. js[j].next \in Nat
  BY DEF JobState
<1>1. CASE js[j].next \notin Packages
  <2>1. Taken(js, j, i) = Left(js, j, i)
    BY <1>1 DEF Taken
  <2> QED
    BY <1>n, <2>1, LeftFacts
<1>2. CASE js[j].next \in Packages
  <2> DEFINE n == js[j].next
             l == Left(js, j, i)
             r == [l[j] EXCEPT !.tries = [l[j].tries EXCEPT ![n] = 1], !.next = n + 1]
  <2>1. /\ l \in [Installs -> JobState] /\ l[j].state = js[j].state /\ l[j].staged = js[j].staged /\ l[j].next = n
        /\ \A m \in Packages : l[j].tries[m] = IF m = i THEN 0 ELSE js[j].tries[m]
        /\ \A k \in Installs : k # j => l[k] = js[k]
    BY LeftFacts
  <2>2. Taken(js, j, i) = [l EXCEPT ![j].tries[n] = 1, ![j].next = @ + 1]
    BY <1>2 DEF Taken
  <2> HIDE DEF l
  <2>3. Taken(js, j, i) = [l EXCEPT ![j] = r]
    BY <2>1, <2>2 DEF JobState
  <2>4. r \in JobState
    <3>1. l[j] \in JobState /\ n + 1 \in Nat
      BY <1>n, <2>1
    <3>2. [l[j].tries EXCEPT ![n] = 1] \in [Packages -> Nat]
      BY <3>1 DEF JobState
    <3> QED
      BY <3>1, <3>2 DEF JobState
  <2>5. r.state = l[j].state /\ r.staged = l[j].staged /\ r.next = n + 1
    BY <2>1 DEF JobState
  <2>6. r.tries = [l[j].tries EXCEPT ![n] = 1] /\ l[j].tries \in [Packages -> Nat]
    BY <2>1 DEF JobState
  <2>7. Taken(js, j, i)[j] = r
    BY <2>1, <2>3
  <2>8. \A m \in Packages : m < n + 1 => m = n \/ m < n
    BY <1>n, PackageFacts
  <2> HIDE DEF r
  <2>9. Taken(js, j, i) \in [Installs -> JobState] /\ (\A k \in Installs : k # j => Taken(js, j, i)[k] = js[k])
    BY <2>1, <2>3, <2>4
  <2>10. \A m \in Packages : m < r.next => r.tries[m] # 0 \/ m = i \/ (m < n /\ js[j].tries[m] = 0)
    <3> SUFFICES ASSUME NEW m \in Packages, m < r.next, m # i, r.tries[m] = 0
                 PROVE  m < n /\ js[j].tries[m] = 0
      OBVIOUS
    <3>1. m # n
      BY <1>2, <2>6
    <3> QED
      BY <2>1, <2>5, <2>6, <2>8, <3>1
  <2> QED
    BY <2>1, <2>5, <2>7, <2>9, <2>10
<1> QED
  BY <1>1, <1>2

LEMMA NoInstallFact == NoInstall \notin Installs
  BY DEF NoInstall, Installs

LEMMA JobsStep ==
  ASSUME PiTyped, OneInFlight, TakenIsStaged, [PiNext]_piVars
  PROVE  jobs' \in [Installs -> JobState] /\ begun' \in 0..MaxInstalls /\ OneInFlight' /\ TakenIsStaged'
<1> DEFINE G == jobs' \in [Installs -> JobState] /\ begun' \in 0..MaxInstalls /\ OneInFlight' /\ TakenIsStaged'
<1>0. jobs \in [Installs -> JobState] /\ begun \in 0..MaxInstalls /\ MaxInstalls \in Nat
  BY PiAssumption DEF PiTyped
<1>1. ASSUME UNCHANGED <<jobs, current, begun>> PROVE G
  BY <1>0, <1>1 DEF OneInFlight, TakenIsStaged, Working
\* The one at work ends.
<1>2. ASSUME NEW j \in Installs, jobs[j].state \in {"planning", "downloading"}, UNCHANGED begun,
             jobs' \in [Installs -> JobState], jobs'[j].state \notin {"planning", "downloading"},
             \A k \in Installs : k # j => jobs'[k] = jobs[k]
      PROVE  G
  <2>1. \A k \in Installs : ~(jobs'[k].state \in {"planning", "downloading"})
    BY <1>2, NoInstallFact DEF OneInFlight, Working
  <2> QED
    BY <1>0, <1>2, <2>1 DEF OneInFlight, TakenIsStaged, Working
\* A job moves on within its phase.
<1>3. ASSUME NEW j \in Installs, UNCHANGED <<current, begun>>, jobs' \in [Installs -> JobState],
             jobs'[j].state = jobs[j].state, \A k \in Installs : k # j => jobs'[k] = jobs[k],
             jobs[j].state = "downloading" =>
               \A i \in Needed : i < jobs'[j].next => i \in jobs'[j].staged \/ jobs'[j].tries[i] # 0
      PROVE  G
  <2>1. OneInFlight'
    BY <1>3 DEF OneInFlight, Working
  <2>2. TakenIsStaged'
    BY <1>3 DEF TakenIsStaged
  <2> QED
    BY <1>0, <1>3, <2>1, <2>2
<1> HIDE DEF G
<1>4. ASSUME NEW v \in Versions, Install(v) PROVE G
  <2> DEFINE swept == [k \in Installs |-> [jobs[k] EXCEPT !.staged = {}]]
             new(s) == [swept EXCEPT ![begun + 1].state = s, ![begun + 1].version = v]
  <2>1. begun + 1 \in Installs /\ begun' = begun + 1 /\ begun' \in 0..MaxInstalls /\ current = NoInstall
    BY <1>0, <1>4 DEF Install, Installs
  <2>2. swept \in [Installs -> JobState] /\ \A k \in Installs : swept[k].state = jobs[k].state
    BY <1>0 DEF JobState
  <2>3. \A k \in Installs : ~Working(k)
    BY <2>1, NoInstallFact DEF OneInFlight
  <2>s. \/ jobs' = new("planning") /\ current' = begun + 1
        \/ jobs' = new("failed") /\ current' = current
    <3>1. CASE /\ jobs' = [swept EXCEPT ![begun + 1].state = "planning", ![begun + 1].version = v]
               /\ current' = begun + 1
      BY <3>1
    <3>2. CASE /\ jobs' = [swept EXCEPT ![begun + 1].state = "failed", ![begun + 1].version = v]
               /\ UNCHANGED current
      BY <3>2
    <3> HIDE DEF new
    <3> QED
      BY <1>4, <3>1, <3>2 DEF Install
  <2> HIDE DEF swept
  <2>4. ASSUME NEW s \in {"planning", "failed"}
        PROVE  /\ new(s) \in [Installs -> JobState] /\ new(s)[begun + 1].state = s
               /\ \A k \in Installs : k # begun + 1 => new(s)[k].state = jobs[k].state
    <3> DEFINE r == [swept[begun + 1] EXCEPT !.state = s, !.version = v]
    <3>1. r \in JobState /\ r.state = s
      BY <2>1, <2>2 DEF JobState
    <3>2. new(s) = [swept EXCEPT ![begun + 1] = r]
      BY <2>1, <2>2 DEF JobState
    <3> HIDE DEF r
    <3> QED
      BY <2>1, <2>2, <3>1, <3>2
  <2> HIDE DEF new
  <2>6. jobs' \in [Installs -> JobState] /\ \A k \in Installs : jobs'[k].state # "downloading"
    BY <2>3, <2>4, <2>s DEF Working
  <2>7. OneInFlight'
    BY <2>3, <2>4, <2>s DEF OneInFlight, Working
  <2> QED
    BY <2>1, <2>6, <2>7 DEF G, TakenIsStaged
<1>5. ASSUME NEW j \in Installs, PlanFails(j) \/ CommitFails(j) PROVE G
  <2>1. Fails(jobs, j) /\ jobs[j].state \in {"planning", "downloading"} /\ UNCHANGED begun
    BY <1>5 DEF PlanFails, CommitFails
  <2> QED
    BY <1>0, <1>2, <2>1, FailsFacts
<1>6. ASSUME NEW j \in Installs, PlanArrives(j) PROVE G
  <2> DEFINE taken == [i \in Packages |-> IF i <= Concurrency THEN 1 ELSE 0]
             r == [jobs[j] EXCEPT !.state = "downloading", !.next = Concurrency + 1, !.tries = taken]
  <2>1. taken \in [Packages -> Nat] /\ Concurrency \in Nat
    BY PiAssumption
  <2>2. \A i \in Packages : i < Concurrency + 1 => taken[i] # 0
    BY <2>1, PackageFacts
  <2> HIDE DEF taken
  <2>3. r \in JobState /\ r.state = "downloading" /\ r.next = Concurrency + 1 /\ r.tries = taken
    <3>1. jobs[j] \in JobState /\ Concurrency + 1 \in Nat
      BY <1>0, <2>1
    <3> QED
      BY <2>1, <3>1 DEF JobState
  <2>4. jobs' = [jobs EXCEPT ![j] = r] /\ jobs[j].state = "planning" /\ UNCHANGED <<current, begun>>
    BY <1>0, <1>6 DEF PlanArrives, taken, JobState
  <2> HIDE DEF r
  <2>5. jobs' \in [Installs -> JobState] /\ jobs'[j] = r /\ \A k \in Installs : k # j => jobs'[k] = jobs[k]
    BY <1>0, <2>3, <2>4
  <2>6. OneInFlight'
    BY <2>4, <2>5 DEF OneInFlight, Working
  <2>7. TakenIsStaged'
    BY <2>2, <2>3, <2>5 DEF TakenIsStaged, Needed
  <2> QED
    BY <1>0, <2>4, <2>5, <2>6, <2>7 DEF G
<1>7. ASSUME NEW j \in Installs, NEW i \in Packages, NEW answer \in {"cut", "absent"}, AttemptFails(j, i, answer)
      PROVE  G
  <2> DEFINE tries == [jobs[j].tries EXCEPT ![i] = @ + 1]
             absent == IF answer = "absent" THEN jobs[j].absent \cup {i} ELSE jobs[j].absent
             r == [jobs[j] EXCEPT !.tries = tries, !.absent = absent]
  <2>1. jobs[j] \in JobState /\ jobs[j].tries \in [Packages -> Nat] /\ absent \subseteq Packages
    BY <1>0 DEF JobState
  <2>2. tries \in [Packages -> Nat] /\ \A m \in Packages : jobs[j].tries[m] # 0 => tries[m] # 0
    BY <2>1
  <2>3. jobs' = [jobs EXCEPT ![j] = r] /\ UNCHANGED <<current, begun>>
    BY <1>0, <1>7 DEF AttemptFails, NextTry, JobState, DownloadOnly
  <2> HIDE DEF tries, absent
  <2>4. r \in JobState /\ r.state = jobs[j].state /\ r.next = jobs[j].next /\ r.tries = tries /\ r.staged = jobs[j].staged
    BY <2>1, <2>2 DEF JobState
  <2> HIDE DEF r
  <2>5. jobs' \in [Installs -> JobState] /\ jobs'[j] = r /\ \A k \in Installs : k # j => jobs'[k] = jobs[k]
    BY <1>0, <2>3, <2>4
  <2> QED
    BY <1>3, <2>2, <2>3, <2>4, <2>5 DEF TakenIsStaged, Needed
<1>8. ASSUME NEW j \in Installs, NEW i \in Packages, PackageArrives(j, i) PROVE G
  <2> DEFINE js == [jobs EXCEPT ![j].staged = @ \cup {i}]
             r == [jobs[j] EXCEPT !.staged = jobs[j].staged \cup {i}]
  <2>1. r \in JobState /\ r.state = jobs[j].state /\ r.next = jobs[j].next /\ r.tries = jobs[j].tries
        /\ r.staged = jobs[j].staged \cup {i}
    BY <1>0 DEF JobState
  <2>2. js = [jobs EXCEPT ![j] = r]
    BY <1>0 DEF JobState
  <2>3. jobs' = Taken(js, j, i) /\ UNCHANGED <<current, begun>>
    BY <1>8 DEF PackageArrives, DownloadOnly
  <2> HIDE DEF r, js
  <2>4. js \in [Installs -> JobState] /\ js[j] = r /\ \A k \in Installs : k # j => js[k] = jobs[k]
    BY <1>0, <2>1, <2>2
  <2>5. /\ jobs' \in [Installs -> JobState] /\ jobs'[j].state = jobs[j].state
        /\ jobs'[j].staged = jobs[j].staged \cup {i}
        /\ \A k \in Installs : k # j => jobs'[k] = jobs[k]
        /\ \A m \in Packages : m < jobs'[j].next =>
             jobs'[j].tries[m] # 0 \/ m = i \/ (m < jobs[j].next /\ jobs[j].tries[m] = 0)
    BY <2>1, <2>3, <2>4, TakenFacts
  <2> QED
    BY <1>3, <2>3, <2>5 DEF TakenIsStaged, Needed
<1>9. ASSUME NEW j \in Installs, NEW i \in Packages, PackageThrows(j, i) PROVE G
  <2>1. CASE i \in Optional /\ jobs' = Taken(jobs, j, i) /\ UNCHANGED <<current, begun>>
    <3>1. /\ jobs' \in [Installs -> JobState] /\ jobs'[j].state = jobs[j].state
          /\ jobs'[j].staged = jobs[j].staged
          /\ \A k \in Installs : k # j => jobs'[k] = jobs[k]
          /\ \A m \in Packages : m < jobs'[j].next =>
               jobs'[j].tries[m] # 0 \/ m = i \/ (m < jobs[j].next /\ jobs[j].tries[m] = 0)
      BY <1>0, <2>1, TakenFacts
    <3> QED
      BY <1>3, <2>1, <3>1 DEF TakenIsStaged, Needed
  <2>2. CASE jobs[j].state = "downloading" /\ Fails(Left(jobs, j, i), j) /\ UNCHANGED begun
    <3>1. Left(jobs, j, i) \in [Installs -> JobState] /\ \A k \in Installs : k # j => Left(jobs, j, i)[k] = jobs[k]
      BY <1>0, LeftFacts
    <3>2. /\ jobs' \in [Installs -> JobState] /\ jobs'[j].state = "failed"
          /\ \A k \in Installs : k # j => jobs'[k] = Left(jobs, j, i)[k]
      BY <2>2, <3>1, FailsFacts
    <3> QED
      BY <1>2, <2>2, <3>1, <3>2
  <2>3. CASE jobs[j].state # "downloading" /\ jobs' = Left(jobs, j, i) /\ UNCHANGED <<current, begun>>
    <3>1. /\ jobs' \in [Installs -> JobState] /\ jobs'[j].state = jobs[j].state
          /\ \A k \in Installs : k # j => jobs'[k] = jobs[k]
      BY <1>0, <2>3, LeftFacts
    <3> QED
      BY <1>3, <2>3, <3>1
  <2> QED
    BY <1>9, <2>1, <2>2, <2>3 DEF PackageThrows, DownloadOnly
<1>10. ASSUME NEW j \in Installs, Commit(j) PROVE G
  <2> DEFINE r == [jobs[j] EXCEPT !.state = "done", !.staged = {}]
  <2>1. jobs' = [jobs EXCEPT ![j] = r] /\ jobs[j].state = "downloading" /\ UNCHANGED begun
    BY <1>0, <1>10 DEF Commit, JobState
  <2>2. r \in JobState /\ r.state = "done"
    BY <1>0 DEF JobState
  <2> HIDE DEF r
  <2> QED
    BY <1>0, <1>2, <2>1, <2>2
<1>11. ASSUME NEW d, NEW p, Restarts(d, p), UNCHANGED begun PROVE G
  <2> DEFINE r(k) == [jobs[k] EXCEPT !.state = IF @ = "none" THEN @ ELSE "gone", !.tries = NoneTaken, !.absent = {}]
  <2>1. NoneTaken \in [Packages -> Nat]
    BY DEF NoneTaken
  <2>2. \A k \in Installs : r(k) \in JobState /\ r(k).state \in {"none", "gone"}
    BY <1>0, <2>1 DEF JobState
  <2>3. jobs' = [k \in Installs |-> r(k)]
    BY <1>11 DEF Restarts
  <2> HIDE DEF r
  <2>4. jobs' \in [Installs -> JobState] /\ \A k \in Installs : jobs'[k].state \in {"none", "gone"}
    BY <2>2, <2>3
  <2> QED
    BY <1>0, <1>11, <2>4 DEF G, OneInFlight, TakenIsStaged, Working
<1>12. CASE UNCHANGED piVars
  BY <1>1, <1>12 DEF piVars, G
<1>13. ASSUME NEW e, Use(e) \/ RemovePi(e) PROVE G
  BY <1>1, <1>13 DEF Use, RemovePi
<1>14. CASE HostStarts \/ HostStops
  <2>1. UNCHANGED <<jobs, current, begun>>
    BY <1>14 DEF HostStarts, HostStops
  <2> QED
    BY <1>1, <2>1 DEF G
<1>15. CASE MainEnds
  <2>1. Restarts(dir, pointer) /\ UNCHANGED begun
    BY <1>15 DEF MainEnds
  <2> QED
    BY <1>11, <2>1 DEF G
<1>16. ASSUME NEW j \in Installs, MainEndsInCommit(j) PROVE G
  BY <1>11, <1>16 DEF MainEndsInCommit
<1> QED
  BY <1>4, <1>5, <1>6, <1>7, <1>8, <1>9, <1>10, <1>12, <1>13, <1>14, <1>15, <1>16 DEF PiNext, Planned, Fetched, G

-----------------------------------------------------------------------------
(* Directories. *)

\* What is left as it was, emptied, or known to be cut stays whole.
LEMMA StaysWhole ==
  ASSUME PiTyped, Wholes, NEW e \in Places, Usable(dir', e), e \notin cut',
         \/ dir'[e] = dir[e] /\ e \notin cut
         \/ Needed \subseteq dir'[e].packages
  PROVE  Needed \subseteq dir'[e].packages
  BY DEF Wholes, Usable

LEMMA DirsStep ==
  ASSUME PiTyped, OneInFlight, TakenIsStaged, Wholes, [PiNext]_piVars
  PROVE  dir' \in [Places -> Directory] /\ Wholes'
<1> DEFINE G == dir' \in [Places -> Directory] /\ Wholes'
<1>0. dir \in [Places -> Directory]
  BY DEF PiTyped
<1>1. ASSUME UNCHANGED <<dir, cut>> PROVE G
  BY <1>0, <1>1 DEF Wholes, Usable
\* One place is written, emptied or cut; the others keep what was known of them.
<1>2. ASSUME NEW e \in Places, NEW d \in Directory, dir' = [dir EXCEPT ![e] = d],
             cut \ {e} \subseteq cut', d.packages = {} \/ e \in cut' \/ Needed \subseteq d.packages
      PROVE  G
  <2>1. dir' \in [Places -> Directory] /\ dir'[e] = d /\ \A f \in Places : f # e => dir'[f] = dir[f]
    BY <1>0, <1>2
  <2>2. ASSUME NEW f \in Places, Usable(dir', f), f \notin cut' PROVE Needed \subseteq dir'[f].packages
    <3>1. CASE f = e
      BY <1>2, <2>1, <2>2, <3>1 DEF Usable
    <3>2. CASE f # e
      BY <1>2, <2>1, <2>2, <3>2 DEF Wholes, Usable
    <3> QED
      BY <3>1, <3>2
  <2> QED
    BY <2>1, <2>2 DEF Wholes
\* The earlier copy is moved aside, and cut there.
<1>3. ASSUME NEW v \in Versions, NEW d \in Directory, dir' = [Moved(dir, v) EXCEPT ![Aside(v)] = d],
             cut \cup {Aside(v)} \subseteq cut'
      PROVE  G
  <2>1. dir' \in [Places -> Directory] /\ dir'[Own(v)] = Missing
        /\ \A f \in Places \ {Own(v), Aside(v)} : dir'[f] = dir[f]
    BY <1>0, <1>3, PlaceFacts, DirectoryFacts DEF Moved
  <2>2. ASSUME NEW f \in Places, Usable(dir', f), f \notin cut' PROVE Needed \subseteq dir'[f].packages
    <3>1. f # Own(v) /\ f # Aside(v)
      BY <1>3, <2>1, <2>2, DirectoryFacts DEF Usable
    <3> QED
      BY <1>3, <2>1, <2>2, <3>1 DEF Wholes, Usable
  <2> QED
    BY <2>1, <2>2 DEF Wholes
<1>s. ASSUME NEW j \in Installs, jobs[j].state = "downloading", AllIn(j)
      PROVE  /\ Staged(j) \in Directory /\ Needed \subseteq Staged(j).packages
             /\ jobs[j].version \in Versions
  <2>1. jobs[j] \in JobState
    BY <1>s DEF PiTyped
  <2>2. jobs[j].staged \subseteq Packages /\ jobs[j].version \in Versions
    BY <2>1 DEF JobState
  <2>3. Needed \subseteq jobs[j].staged
    BY <1>s, AllInIsWhole
  <2> QED
    BY <2>2, <2>3, DirectoryFacts DEF Staged
<1> HIDE DEF G
<1>4. ASSUME NEW v \in Versions, Install(v) PROVE G
  <2>1. CASE dir' = [e \in Places |-> IF e \in Asides THEN Missing ELSE dir[e]] /\ cut' = cut \ Asides
    <3>1. dir' \in [Places -> Directory]
      BY <1>0, <2>1, DirectoryFacts
    <3>2. ASSUME NEW f \in Places, Usable(dir', f), f \notin cut' PROVE Needed \subseteq dir'[f].packages
      <4>1. f \notin Asides
        BY <2>1, <3>2, DirectoryFacts DEF Usable
      <4> QED
        BY <2>1, <3>2, <4>1 DEF Wholes, Usable
    <3> QED
      BY <3>1, <3>2 DEF G, Wholes
  <2>2. ASSUME NEW a \in Asides, NEW left \in Leftovers(a), dir' = [dir EXCEPT ![a] = left], cut' = cut \cup {a}
        PROVE  G
    <3>1. a \in Places
      BY PlaceFacts
    <3>2. left \in Directory
      BY <1>0, <3>1, LeftoverFacts
    <3> QED
      BY <1>2, <2>2, <3>1, <3>2
  <2> QED
    BY <1>4, <2>1, <2>2 DEF Install
<1>5. ASSUME NEW j \in Installs, Commit(j) PROVE G
  <2>1. dir' = [dir EXCEPT ![Own(jobs[j].version)] = Staged(j)] /\ cut' = cut \ {Own(jobs[j].version)}
    BY <1>5 DEF Commit
  <2>2. Staged(j) \in Directory /\ Needed \subseteq Staged(j).packages /\ Own(jobs[j].version) \in Places
    BY <1>5, <1>s, PlaceFacts DEF Commit
  <2> QED
    BY <1>2, <2>1, <2>2
<1>6. ASSUME NEW j \in Installs, CommitFails(j) PROVE G
  <2> DEFINE v == jobs[j].version
             place == IF Moved(dir, v) = dir THEN Own(v) ELSE Aside(v)
  <2>1. Staged(j) \in Directory /\ Needed \subseteq Staged(j).packages /\ v \in Versions
    BY <1>6, <1>s DEF CommitFails
  <2>2. Own(v) \in Places /\ Aside(v) \in Places /\ Own(v) # Aside(v)
    BY <2>1, PlaceFacts
  <2>3. CASE UNCHANGED <<dir, cut>>
    BY <1>1, <2>3
  <2>4. ASSUME NEW left \in Leftovers(Own(v)), dir' = [Moved(dir, v) EXCEPT ![place] = left], cut' = cut \cup {Aside(v)}
        PROVE  G
    <3>1. left \in Directory /\ left.packages \subseteq dir[Own(v)].packages
      BY <1>0, <2>2, LeftoverFacts
    <3>2. CASE Moved(dir, v) = dir
      <4>1. dir[Own(v)] = Missing
        BY <1>0, <2>2, <3>2 DEF Moved
      <4>2. left.packages = {}
        BY <3>1, <4>1, DirectoryFacts
      <4>3. dir' = [dir EXCEPT ![Own(v)] = left]
        BY <2>4, <3>2
      <4> QED
        BY <1>2, <2>2, <2>4, <3>1, <4>2, <4>3
    <3>3. CASE Moved(dir, v) # dir
      BY <1>3, <2>1, <2>4, <3>1, <3>3
    <3> QED
      BY <3>2, <3>3
  <2>5. CASE dir' = [dir EXCEPT ![Own(v)] = Missing] /\ cut' = cut \ {Own(v)}
    BY <1>2, <2>2, <2>5, DirectoryFacts
  <2>6. CASE dir' = [dir EXCEPT ![Own(v)] = Staged(j)] /\ cut' = cut \ {Own(v)}
    BY <1>2, <2>1, <2>2, <2>6
  <2> QED
    BY <1>6, <2>3, <2>4, <2>5, <2>6 DEF CommitFails
<1>7. ASSUME NEW j \in Installs, MainEndsInCommit(j) PROVE G
  <2> DEFINE v == jobs[j].version
  <2>1. Staged(j) \in Directory /\ Needed \subseteq Staged(j).packages /\ v \in Versions
    BY <1>7, <1>s DEF MainEndsInCommit
  <2>2. Own(v) \in Places
    BY <2>1, PlaceFacts
  <2>3. ASSUME NEW left \in Leftovers(Own(v)) \cup {dir[Own(v)]}, dir' = [Moved(dir, v) EXCEPT ![Aside(v)] = left],
               cut' = cut \cup {Aside(v)}
        PROVE  G
    <3>1. left \in Directory
      BY <1>0, <2>2, LeftoverFacts
    <3> QED
      BY <1>3, <2>1, <2>3, <3>1
  <2>4. CASE dir' = [dir EXCEPT ![Own(v)] = Staged(j)] /\ cut' = cut \ {Own(v)}
    BY <1>2, <2>1, <2>2, <2>4
  <2> QED
    BY <1>7, <2>3, <2>4 DEF MainEndsInCommit
<1>8. ASSUME NEW e \in Places, RemovePi(e) PROVE G
  <2>1. CASE dir' = [dir EXCEPT ![e] = Missing] /\ cut' = cut \ {e}
    BY <1>2, <2>1, DirectoryFacts
  <2>2. ASSUME NEW left \in Leftovers(e), dir' = [dir EXCEPT ![e] = left], cut' = cut \cup {e} PROVE G
    <3>1. left \in Directory
      BY <1>0, LeftoverFacts
    <3> QED
      BY <1>2, <2>2, <3>1
  <2> QED
    BY <1>8, <2>1, <2>2 DEF RemovePi
<1>9. ASSUME NEW j \in Installs, Planned(j) \/ (\E i \in Packages : Fetched(j, i)) PROVE G
  BY <1>1, <1>9 DEF Planned, PlanFails, PlanArrives, Fetched, AttemptFails, PackageArrives, PackageThrows,
                    DownloadOnly, StoreSame
<1>10. ASSUME NEW e, Use(e) PROVE G
  BY <1>1, <1>10 DEF Use
<1>11. CASE HostStarts \/ HostStops \/ MainEnds \/ UNCHANGED piVars
  <2>1. UNCHANGED <<dir, cut>>
    BY <1>11 DEF HostStarts, HostStops, MainEnds, StoreSame, piVars
  <2> QED
    BY <1>1, <2>1 DEF G
<1> QED
  BY <1>4, <1>5, <1>6, <1>7, <1>8, <1>9, <1>10, <1>11 DEF PiNext, G

-----------------------------------------------------------------------------

LEMMA PiIInvInit == PiInit => PiIInv
<1> SUFFICES ASSUME PiInit PROVE PiIInv
  OBVIOUS
<1>1. Unbegun \in JobState /\ Unbegun.state = "none"
  BY PiAssumption DEF Unbegun, JobState, NoneTaken
<1>2. PiTyped
  BY <1>1, PiAssumption, DirectoryFacts DEF PiInit, PiTyped
<1>3. \A j \in Installs : jobs[j].state = "none"
  BY <1>1 DEF PiInit
<1>4. \A e \in Places : dir[e].packages = {}
  BY DirectoryFacts DEF PiInit
<1> QED
  BY <1>2, <1>3, <1>4 DEF PiIInv, OneInFlight, Working, TakenIsStaged, Wholes, Usable

LEMMA PiIInvAlways == PiSpec => []PiIInv
<1>1. PiIInv /\ [PiNext]_piVars => PiIInv'
  BY JobsStep, DirsStep DEF PiIInv, PiTyped
<1> QED
  BY <1>1, PiIInvInit, PTL DEF PiSpec

\* Whatever fails and whenever main ends, a Pi that can be chosen is complete, unless its
\* own removal was cut short (store.ts:8).
THEOREM WhatIsListedIsWhole == PiSpec => []WholeUnlessCut
<1>1. PiIInv => WholeUnlessCut
  BY DEF PiIInv, Wholes, WholeUnlessCut, Listed, Needed
<1> QED
  BY <1>1, PiIInvAlways, PTL

=============================================================================
