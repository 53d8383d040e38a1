--------------------------- MODULE HostSupervisor ---------------------------
(***************************************************************************)
(* The main process keeps one agent host alive                             *)
(* (apps/desktop/src/main/supervisor/supervisor.ts over host.ts): it       *)
(* launches it, restores what was open, attributes its crashes, restarts   *)
(* or replaces it when asked, and stops it on quit.                        *)
(*                                                                         *)
(* A launcher is one UtilityProcessLauncher with its process; it carries   *)
(* the generation it was launched under, so "owner" is the launcher whose  *)
(* generation is the current one.  The agent host is reduced to the        *)
(* workspaces and sessions it has open.  It performs a command in the step *)
(* that delivers the answer; a command that timed out may be performed     *)
(* later, unheard.                                                         *)
(***************************************************************************)
EXTENDS RecoveryLedger

CONSTANTS
  Home,         \* the root each session's file lives under
  Restore,      \* the slot of the restore loop
  Jobs,         \* restart(), openWorkspace() and stop() calls in progress
  MaxLaunches,  \* bound: hosts ever launched
  Slow          \* bound: the hosts whose commands can time out

ASSUME SupervisorAssumption ==
  /\ Home \in [Sessions -> Roots]
  /\ Restore \in Slots /\ IsFiniteSet(Jobs)
  /\ MaxLaunches \in Nat \ {0}
  /\ Slow \subseteq 1..MaxLaunches

Launchers == 1..MaxLaunches

VARIABLES
  launcher,      \* #launcher, 0 is undefined
  owner,         \* the launcher of the current #generation, 0 if none is
  stopping,      \* #stopping
  recovery,      \* #recoveryEnabled
  phase,         \* how far the start of the launcher has come
  todoRoots,     \* roots the restore loop has yet to open
  todoSessions,  \* sessions the restore loop has yet to open
  launches,      \* launchers created so far
  job,           \* the calls in progress
  life,          \* the process of each launcher
  halting,       \* launchers in the middle of stop()
  hostWs,        \* the workspaces the host has open, by id
  hostOpen,      \* the workspace each session is open in, 0 is none
  minted,        \* workspace ids handed out
  late,          \* commands that timed out and are still with the host
  blamed,        \* history: sessions in flight at a crash, not reopened since
  uncertain      \* history: what a timed-out command may have changed

process == <<launcher, owner, stopping, launches, life, halting>>

loop == <<phase, todoRoots, todoSessions>>

host == <<hostWs, hostOpen, minted, late>>

history == <<blamed, uncertain>>

vars == <<ledger, process, recovery, loop, job, host, history>>

Lives == {"none", "starting", "running", "gone"}

TypeOK ==
  /\ LedgerTypeOK
  /\ launcher \in 0..MaxLaunches /\ owner \in 0..MaxLaunches
  /\ stopping \in BOOLEAN /\ recovery \in BOOLEAN
  /\ phase \in {"handshake", "restoring", "up", "failed"}
  /\ todoRoots \in SUBSET Roots /\ todoSessions \in SUBSET Sessions
  /\ launches \in 0..MaxLaunches
  /\ job \in [Jobs -> [kind : {"none", "restart", "switch", "quit"},
                       state : {"idle", "waiting", "resume", "done"}, of : 0..MaxLaunches]]
  /\ life \in [Launchers -> Lives]
  /\ halting \in SUBSET Launchers
  /\ hostWs \in [Ids -> Roots \cup {NoRoot}]
  /\ hostOpen \in [Sessions -> 0..MaxIds]
  /\ minted \in 0..MaxIds
  /\ late \in SUBSET Commands
  /\ blamed \in SUBSET Sessions /\ uncertain \in SUBSET (Sessions \cup Roots)

Alive(k) == k # 0 /\ life[k] \in {"starting", "running"}

Running == launcher # 0 /\ life[launcher] = "running"

Owns(k) == k = owner /\ k = launcher /\ ~stopping

\* Continuations of a settled promise run before the next task.
Quiet == \A j \in Jobs : job[j].state # "resume"

NoJob == [kind |-> "none", state |-> "idle", of |-> 0]

\* The bound on launches leaves one to each call in progress.
MayLaunch == launches + Cardinality({j \in Jobs : job[j].state \in {"waiting", "resume"}}) < MaxLaunches

Init ==
  /\ LedgerInit
  /\ launcher = 1 /\ owner = 1 /\ launches = 1
  /\ stopping = FALSE /\ recovery = FALSE
  /\ phase = "handshake" /\ todoRoots = {} /\ todoSessions = {}
  /\ job = [j \in Jobs |-> NoJob]
  /\ life = [k \in Launchers |-> IF k = 1 THEN "starting" ELSE "none"]
  /\ halting = {}
  /\ hostWs = [id \in Ids |-> NoRoot] /\ hostOpen = [s \in Sessions |-> 0]
  /\ minted = 0 /\ late = {}
  /\ blamed = {} /\ uncertain = {}

-----------------------------------------------------------------------------
(* #launch, and the loop of #restore: roots first, then sessions.          *)

\* Mutant: the roots are put on the list of the sessions to restore.
LaunchMixed(restore) ==
  /\ launches' = launches + 1
  /\ launcher' = launches' /\ owner' = launches'
  /\ life' = [life EXCEPT ![launches'] = "starting"]
  /\ phase' = "handshake"
  /\ todoRoots' = {} /\ todoSessions' = restore \cup roots

Launch(restore) ==
  /\ launches' = launches + 1
  /\ launcher' = launches' /\ owner' = launches'
  /\ life' = [life EXCEPT ![launches'] = "starting"]
  /\ phase' = "handshake"
  /\ todoRoots' = {} /\ todoSessions' = restore

\* The next command of the loop goes out, or the loop is done.
NextItem(flight, rs, ss) ==
  \/ \E r \in rs :
       /\ inFlight' = Sent(flight, Restore, [name |-> "open_workspace", arg |-> r])
       /\ todoRoots' = rs \ {r} /\ todoSessions' = ss /\ phase' = "restoring"
  \/ /\ rs = {}
     /\ \E s \in ss :
          /\ inFlight' = Sent(flight, Restore, [name |-> "open_session", arg |-> s])
          /\ todoRoots' = {} /\ todoSessions' = ss \ {s} /\ phase' = "restoring"
  \/ /\ rs = {} /\ ss = {}
     /\ inFlight' = flight
     /\ todoRoots' = {} /\ todoSessions' = {} /\ phase' = "up"

\* start() is over for a host that is no longer wanted.
Abandoned == phase' = "failed" /\ todoRoots' = {} /\ todoSessions' = {}

\* A restore that failed: noted, and the loop goes on, unless the host has been
\* given up.
RestoreFails ==
  LET item == inFlight[Restore]
      rest == Settled(inFlight, {Restore})
  IN  IF Owns(launcher)
      THEN /\ IF item.name = "open_workspace" THEN NoteRestoreFailed({}, {item.arg})
              ELSE NoteRestoreFailed({item.arg}, {})
           /\ NextItem(rest, todoRoots, todoSessions)
      ELSE inFlight' = rest /\ Abandoned /\ UNCHANGED memory

-----------------------------------------------------------------------------
(* The agent host performs a command that concerns workspace "id".  What   *)
(* is not open cannot be closed or prompted.                               *)

Performs(command, id) ==
  /\ CASE command.name = "open_workspace" ->
            /\ UNCHANGED hostOpen
            /\ \/ hostWs[id] = command.arg /\ UNCHANGED <<hostWs, minted>>
               \/ /\ \A x \in Ids : hostWs[x] # command.arg
                  /\ id = minted + 1 /\ minted' = id
                  /\ hostWs' = [hostWs EXCEPT ![id] = command.arg]
       [] command.name = "close_workspace" ->
            /\ id = command.arg
            /\ hostWs' = [hostWs EXCEPT ![id] = NoRoot]
            /\ hostOpen' = [s \in Sessions |-> IF hostOpen[s] = id THEN 0 ELSE hostOpen[s]]
            /\ UNCHANGED minted
       [] command.name = "open_session" ->
            /\ hostWs[id] = Home[command.arg]
            /\ hostOpen' = [hostOpen EXCEPT ![command.arg] = id]
            /\ UNCHANGED <<hostWs, minted>>
       [] command.name = "close_session" ->
            /\ hostOpen[command.arg] = id
            /\ hostOpen' = [hostOpen EXCEPT ![command.arg] = 0]
            /\ UNCHANGED <<hostWs, minted>>
       [] command.name = "prompt" ->
            hostOpen[command.arg] = id /\ UNCHANGED <<hostWs, hostOpen, minted>>
       [] OTHER -> id = 1 /\ UNCHANGED <<hostWs, hostOpen, minted>>

\* Opening what is open already cannot fail.
CanFail(command) ==
  /\ command.name = "open_session" => hostOpen[command.arg] = 0
  /\ command.name = "open_workspace" => \A id \in Ids : hostWs[id] # command.arg

\* What a command may have changed when its answer is never heard.
Touches(command) ==
  CASE command.name = "close_workspace" ->
         ({hostWs[command.arg]} \ {NoRoot})
           \cup {s \in Sessions : Home[s] = hostWs[command.arg] \/ hostOpen[s] = command.arg}
    [] command.name \in {"prompt", "set_api_key"} -> {}
    [] OTHER -> {command.arg}

HostGone ==
  /\ hostWs' = [id \in Ids |-> NoRoot] /\ hostOpen' = [s \in Sessions |-> 0]
  /\ late' = {} /\ UNCHANGED minted

-----------------------------------------------------------------------------
(* execute() and #sendRecorded.                                            *)

Sensible(command) ==
  CASE command.name \in {"close_session", "prompt"} -> command.arg \in open
    [] command.name = "open_session" -> \E id \in Ids : hostWs[id] = Home[command.arg]
    [] command.name = "close_workspace" -> hostWs[command.arg] # NoRoot
    [] OTHER -> TRUE

SendUser(c, command) ==
  /\ Quiet /\ Running
  /\ c \in Slots \ (DOMAIN inFlight \cup {Restore})
  /\ Sensible(command)
  /\ inFlight' = Sent(inFlight, c, command)
  /\ UNCHANGED <<memory, failures, process, recovery, loop, job, host, history>>

\* What main concludes from a successful answer.
Note(command, id) ==
  CASE command.name = "open_workspace" -> NoteWorkspaceOpened(id, command.arg)
    [] command.name = "close_workspace" -> NoteWorkspaceClosed(command.arg)
    [] command.name = "open_session" -> NoteSessionOpened(command.arg, id)
    [] command.name = "close_session" -> NoteSessionClosed(command.arg)
    [] OTHER -> UNCHANGED memory

Answer(c) ==
  /\ Quiet /\ Running /\ c \in DOMAIN inFlight
  /\ \E id \in Ids :
       /\ Performs(inFlight[c], id)
       /\ IF c = Restore /\ ~Owns(launcher) THEN UNCHANGED <<memory, blamed>>
          ELSE /\ Note(inFlight[c], id)
               /\ blamed' = CASE inFlight[c].name = "open_session" -> blamed \ {inFlight[c].arg}
                              [] inFlight[c].name = "close_workspace" -> blamed \ Belonging(id)
                              [] OTHER -> blamed
  /\ LET rest == Settled(inFlight, {c}) IN
       IF c # Restore THEN inFlight' = rest /\ UNCHANGED loop
       ELSE IF Owns(launcher) THEN NextItem(rest, todoRoots, todoSessions)
       ELSE inFlight' = rest /\ Abandoned
  /\ UNCHANGED <<failures, process, recovery, job, late, uncertain>>

\* The host answers with an error, having done nothing.
Refuse(c) ==
  /\ Quiet /\ Running /\ c \in DOMAIN inFlight
  /\ CanFail(inFlight[c])
  /\ IF c = Restore THEN RestoreFails
     ELSE inFlight' = Settled(inFlight, {c}) /\ UNCHANGED <<memory, loop>>
  /\ UNCHANGED <<failures, process, recovery, job, host, history>>

\* COMMAND_TIMEOUT_MS passes; the host may still perform the command.  Bound:
\* one command of a host that changes what is open times out.
Timeout(c) ==
  /\ Quiet /\ Running /\ c \in DOMAIN inFlight
  /\ uncertain = {} /\ launcher \in Slow
  /\ late' = late \cup (IF Touches(inFlight[c]) = {} THEN {} ELSE {inFlight[c]})
  /\ uncertain' = uncertain \cup Touches(inFlight[c])
  /\ IF c = Restore THEN RestoreFails
     ELSE inFlight' = Settled(inFlight, {c}) /\ UNCHANGED <<memory, loop>>
  /\ UNCHANGED <<failures, process, recovery, job, hostWs, hostOpen, minted, blamed>>

\* A late answer finds no pending entry and is dropped.
LateAnswer ==
  /\ Quiet /\ Running
  /\ \E command \in late, id \in Ids :
       /\ Performs(command, id)
       /\ late' = late \ {command}
  /\ UNCHANGED <<ledger, process, recovery, loop, job, history>>

-----------------------------------------------------------------------------
(* The start of a host.                                                    *)

Starting == launcher # 0 /\ phase = "handshake" /\ life[launcher] = "starting"

Ack ==
  /\ Quiet /\ Starting
  /\ life' = [life EXCEPT ![launcher] = "running"]
  /\ IF Owns(launcher) THEN NextItem(inFlight, roots, todoSessions)
     ELSE Abandoned /\ UNCHANGED inFlight
  /\ UNCHANGED <<memory, failures, launcher, owner, stopping, launches, halting>>
  /\ UNCHANGED <<recovery, job, host, history>>

\* The process is left behind as it is.
HandshakeTimeout ==
  /\ Quiet /\ Starting
  /\ Abandoned
  /\ UNCHANGED <<ledger, process, recovery, job, host, history>>

\* A host of another contract version is stopped by its own launcher.
HandshakeMismatch ==
  /\ Quiet /\ Starting
  /\ halting' = halting \cup {launcher}
  /\ Abandoned
  /\ UNCHANGED <<ledger, launcher, owner, stopping, launches, life, recovery, job, host, history>>

\* attachRenderer({ reason: "initial" }), once the first host is up.
RendererAttached ==
  /\ Quiet /\ ~recovery /\ phase \in {"up", "failed"}
  /\ \A j \in Jobs : job[j].kind # "quit"
  /\ recovery' = TRUE
  /\ UNCHANGED <<ledger, process, loop, job, host, history>>

-----------------------------------------------------------------------------
(* #onUnexpectedExit.                                                      *)

Attributed(k) == Owns(k) /\ k \notin halting

Relaunches == Automatic /\ recovery

\* What the restore loop is still to do when its host dies under it.
Unrestored ==
  IF phase # "restoring" THEN {}
  ELSE {inFlight[c].arg : c \in DOMAIN inFlight \cap {Restore}} \cup todoRoots \cup todoSessions

CrashOf(k) ==
  /\ Quiet /\ Alive(k) /\ Attributed(k)
  /\ failures' = Append(failures, Relaunches)
  /\ blamed' = blamed \cup SessionsOf(inFlight)
  /\ HostGone
  /\ \/ /\ Relaunches /\ MayLaunch
        /\ PlanRestart({}, {})
        /\ launches' = launches + 1
        /\ launcher' = launches' /\ owner' = launches'
        /\ life' = [life EXCEPT ![k] = "gone", ![launches'] = "starting"]
        /\ phase' = "handshake" /\ todoRoots' = {} /\ todoSessions' = ToRestore
        /\ uncertain' = {}
     \/ /\ ~Relaunches
        \* The generation has not moved: the loop goes on, failing item by item.
        /\ PlanRestart(Unrestored \cap Sessions, Unrestored \cap Roots)
        /\ life' = [life EXCEPT ![k] = "gone"]
        /\ Abandoned
        /\ UNCHANGED <<launcher, owner, launches, uncertain>>
  /\ UNCHANGED <<stopping, halting, recovery, job>>

\* The exit of a host that is being stopped, or that was replaced.
ExitOf(k) ==
  /\ Quiet /\ Alive(k) /\ ~Attributed(k)
  /\ life' = [life EXCEPT ![k] = "gone"]
  /\ IF k = launcher THEN inFlight' = Idle /\ HostGone /\ Abandoned
     ELSE UNCHANGED <<inFlight, host, loop>>
  /\ UNCHANGED <<memory, failures, launcher, owner, stopping, launches, halting>>
  /\ UNCHANGED <<recovery, job, history>>

\* A failure leaves the window of the restart budget.
WindowPasses ==
  /\ Quiet /\ failures # <<>>
  /\ failures' = Tail(failures)
  /\ UNCHANGED <<memory, inFlight, process, recovery, loop, job, host, history>>

-----------------------------------------------------------------------------
(* restart(), openWorkspace() of another runtime, and stop().              *)

\* Mutant: a host that is still in its handshake is not stopped.
HasProcessToo(k) == k # 0 /\ life[k] = "running"

\* launcher.running or launcher.starting
HasProcess(k) == Alive(k)

Begin(j, kind) ==
  /\ Quiet /\ job[j].state = "idle"
  /\ \A i \in Jobs : job[i].kind # "quit"
  /\ kind # "quit" => MayLaunch
  /\ stopping' = TRUE /\ owner' = 0
  /\ recovery' = (recovery /\ kind # "quit")
  /\ IF HasProcess(launcher)
     THEN /\ halting' = halting \cup {launcher}
          /\ job' = [job EXCEPT ![j] = [kind |-> kind, state |-> "waiting", of |-> launcher]]
     ELSE /\ job' = [job EXCEPT ![j] = [kind |-> kind, state |-> "resume", of |-> launcher]]
          /\ UNCHANGED halting
  /\ UNCHANGED <<ledger, launcher, launches, life, loop, host, history>>

\* performStop: the shutdown command was answered or two seconds passed, and the
\* process tree is terminated.
StopDone(k) ==
  /\ Quiet /\ k \in halting
  /\ halting' = halting \ {k}
  /\ life' = [life EXCEPT ![k] = "gone"]
  /\ job' = [j \in Jobs |-> IF job[j].state = "waiting" /\ job[j].of = k
                            THEN [job[j] EXCEPT !.state = "resume"] ELSE job[j]]
  /\ IF k = launcher THEN inFlight' = Idle /\ HostGone /\ Abandoned
     ELSE UNCHANGED <<inFlight, host, loop>>
  /\ UNCHANGED <<memory, failures, launcher, owner, stopping, launches, recovery, history>>

ResumeRestart(j) ==
  /\ job[j].state = "resume" /\ job[j].kind = "restart"
  /\ job' = [job EXCEPT ![j] = NoJob]
  /\ stopping' = FALSE
  /\ failures' = <<>>
  /\ Launch(open)
  /\ uncertain' = {}
  /\ UNCHANGED <<memory, inFlight, halting, recovery, host, blamed>>

ResumeSwitch(j) ==
  /\ job[j].state = "resume" /\ job[j].kind = "switch"
  /\ job' = [job EXCEPT ![j] = NoJob]
  /\ stopping' = FALSE
  /\ failures' = <<>>
  /\ ResetRuntime /\ inFlight' = Idle
  /\ Launch({})
  /\ blamed' = {} /\ uncertain' = {}
  /\ UNCHANGED <<halting, recovery, host>>

ResumeQuit(j) ==
  /\ job[j].state = "resume" /\ job[j].kind = "quit"
  /\ job' = [job EXCEPT ![j].state = "done"]
  /\ launcher' = IF launcher = job[j].of THEN 0 ELSE launcher
  /\ UNCHANGED <<ledger, owner, stopping, launches, life, halting, recovery, loop, host, history>>

Next ==
  \/ \E c \in Slots, command \in Commands : SendUser(c, command)
  \/ \E c \in Slots : Answer(c) \/ Refuse(c) \/ Timeout(c)
  \/ LateAnswer
  \/ Ack \/ HandshakeTimeout \/ HandshakeMismatch \/ RendererAttached
  \/ \E k \in Launchers : CrashOf(k) \/ ExitOf(k) \/ StopDone(k)
  \/ WindowPasses
  \/ \E j \in Jobs, kind \in {"restart", "switch", "quit"} : Begin(j, kind)
  \/ \E j \in Jobs : ResumeRestart(j) \/ ResumeSwitch(j) \/ ResumeQuit(j)

Spec == Init /\ [][Next]_vars

-----------------------------------------------------------------------------
(* Properties.                                                             *)

BeingRestored ==
  todoSessions \cup SessionsOf([c \in DOMAIN inFlight \cap {Restore} |-> inFlight[c]])

\* A session that was in flight when a host died is not reopened by the
\* supervisor, in whatever order crashes, restarts and answers come, until a
\* person opens it, closes its workspace or switches the runtime.
BlamedStayClosed == blamed \cap BeingRestored = {}

\* Once the restore is over, main takes for open exactly the sessions the host
\* has open; those a timed-out command concerns are open questions.
LedgerMatches ==
  phase = "up" /\ Owns(launcher) /\ Alive(launcher) =>
    \A s \in Sessions \ uncertain : s \in open <=> hostOpen[s] # 0

\* Within one window, and since the last deliberate restart, main brings a
\* crashed host back at most MaxRestarts times.
RelaunchesBounded == Cardinality({i \in DOMAIN failures : failures[i]}) <= MaxRestarts

\* Every live host is the one main talks to, or is being stopped.  (For one
\* restart, switch or quit at a time.)
NoStrayHost == \A k \in Launchers : Alive(k) => k = launcher \/ k \in halting

\* What recovery.test.ts says of workspaces ("forgets one after close"): main
\* would reopen exactly the roots the host has open.
RootsMatch ==
  phase = "up" /\ Owns(launcher) /\ Alive(launcher) =>
    \A r \in Roots \ uncertain : r \in roots <=> \E id \in Ids : hostWs[id] = r

\* What recovery.ts says of a restore that a crash interrupts: the crash blames
\* sessions, and "noteRestoreFailed" is for hosts that refuse.  Only the blamed
\* are forgotten by a crash.
CrashKeepsLedger ==
  [][\A k \in Launchers : CrashOf(k) => open \ open' \subseteq quarantined' /\ roots' = roots]_vars

=============================================================================
