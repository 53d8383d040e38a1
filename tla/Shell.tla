------------------------------- MODULE Shell -------------------------------
(***************************************************************************)
(* The main process around its supervisor (apps/desktop/src/main/index.ts, *)
(* quit.ts, ipc/router.ts): bootstrap, which starts the host and the       *)
(* window together; openTarget with its dialog about a missing Node; the   *)
(* page that reloads, crashes or hangs; restart and quit.                  *)
(*                                                                         *)
(* Of the supervisor this has the public face: a host is started, restored *)
(* and given a port, dies or is stopped.  HostSupervisor and LoopbackHost   *)
(* look inside.  A host is known by the number of its launch, and so is the *)
(* port of its events.  One restart or openTarget is under way at a time;   *)
(* HostSupervisor has what two of them do to each other.                   *)
(***************************************************************************)
EXTENDS Naturals

CONSTANTS
  Budget,     \* restarts a RestartBudget allows, of the host and of the page
  MaxFaults,  \* bound: deaths, failed starts, crashes and hangs
  MaxClicks   \* bound: what people do

ShellAssumption == {Budget, MaxFaults, MaxClicks} \subseteq Nat

VARIABLES
  boot,       \* how far bootstrap() is
  ready,      \* hostReady, the promise of the first start
  window,     \* there is a window
  page,       \* its document: what it was told, its port, whether a workspace is on it
  timer,      \* unresponsiveTimer
  restoring,  \* restoreRendererProjection
  host,       \* the launcher and its host
  recovery,   \* #recoveryEnabled
  roots,      \* openWorkspaceRoots of the recovery ledger
  active,     \* activeWorkspace, with the launch its id is of
  op,         \* the openTarget or restart under way
  quit,       \* the QuitCoordinator
  spent,      \* how much of the budgets is used: host, page
  gaps,       \* (history) the gaps this behaviour has met
  done        \* faults and clicks so far

shellVars == <<boot, ready, window, page, timer, restoring, host, recovery, roots, active, op, quit,
               spent, gaps, done>>

Targets == {"here", "there", "linux"}
Kind(t) == IF t = "linux" THEN "wsl" ELSE "windows"
Nothing == [target |-> "none", of |-> 0]

NoOp == [pc |-> "none", mode |-> "none", target |-> "none", switched |-> FALSE]

NewPage(state) == [state |-> state, told |-> "connecting", port |-> 0, shows |-> FALSE, hung |-> FALSE]

NoHost == [state |-> "none", run |-> 0, kind |-> "windows", by |-> "boot", open |-> {}]

Fault == done.faults < MaxFaults /\ done' = [done EXCEPT !.faults = @ + 1]
Click == done.clicks < MaxClicks /\ done' = [done EXCEPT !.clicks = @ + 1]

HostRuns == host.state \in {"restoring", "running"}
Exists == HostRuns \/ host.state \in {"starting", "stuck"}
Serving == boot = "serving" /\ quit = "no"

Met(gap, when) == gaps' = gaps \cup (IF when THEN {gap} ELSE {})

-----------------------------------------------------------------------------
(* What main tells the page.  A document that is still loading may hear it  *)
(* or not; without a window nobody does.                                    *)

Heard(p, notice) ==
  [p EXCEPT !.told = notice, !.port = IF notice = "disconnected" THEN 0 ELSE @]

Pages(p, q) ==
  IF ~window \/ p.state = "gone" THEN {p}
  ELSE IF p.state = "loading" THEN {p, q} ELSE {q}

Announce(notice) == page' \in Pages(page, Heard(page, notice))

\* A port of the running host.
AttachPort(shows) ==
  page' \in Pages(page, [page EXCEPT !.told = "connected", !.port = host.run, !.shows = @ \/ shows])

Launched(kind, by) ==
  [state |-> "starting", run |-> host.run + 1, kind |-> kind, by |-> by, open |-> {}]

\* #launch.
Launch(kind, by) ==
  /\ host' = Launched(kind, by)
  /\ Announce("connecting")
  /\ Met("launched in quit", quit # "no")

-----------------------------------------------------------------------------
(* bootstrap.  The host and the window are started together. *)

ShellInit ==
  /\ boot = "loading" /\ ready = "pending"
  /\ window = FALSE /\ page = NewPage("gone") /\ timer = FALSE /\ restoring = FALSE
  /\ host = [NoHost EXCEPT !.state = "starting", !.run = 1]
  /\ recovery = FALSE /\ roots = {} /\ active = Nothing /\ op = NoOp
  /\ quit = "no" /\ spent = [host |-> 0, page |-> 0]
  /\ gaps = {} /\ done = [faults |-> 0, clicks |-> 0]

\* createMainWindow has awaited the first load.
WindowLoads ==
  /\ boot = "loading" /\ quit = "no"
  /\ boot' = "waiting" /\ window' = TRUE /\ page' = NewPage("loaded")
  /\ UNCHANGED <<ready, timer, restoring, host, recovery, roots, active, op, quit, spent, gaps, done>>

\* It throws: the host is stopped, and onStartupFailure has nobody to tell.
WindowFails ==
  /\ boot = "loading" /\ quit = "no" /\ Fault
  /\ boot' = "failed"
  /\ host' = [host EXCEPT !.state = IF Exists THEN "stopping" ELSE @]
  /\ UNCHANGED <<ready, window, page, timer, restoring, recovery, roots, active, op, quit, spent, gaps>>

\* hostReady is there; the host may have gone since, and nobody starts another.
BootAttaches ==
  /\ boot = "waiting" /\ ready = "resolved" /\ quit = "no"
  /\ boot' = "serving" /\ recovery' = TRUE
  /\ IF HostRuns THEN AttachPort(FALSE) ELSE UNCHANGED page
  /\ Met("died early", ~HostRuns)
  /\ UNCHANGED <<ready, window, timer, restoring, host, roots, active, op, quit, spent, done>>

\* onStartupFailure.
BootFails ==
  /\ boot = "waiting" /\ ready = "rejected"
  /\ boot' = "failed"
  /\ Announce("disconnected")
  /\ UNCHANGED <<ready, window, timer, restoring, host, recovery, roots, active, op, quit, spent, gaps, done>>

-----------------------------------------------------------------------------
(* The host. *)

\* The handshake is over; some launches restore what was open.
HostAcks ==
  /\ host.state = "starting" /\ quit # "exited"
  /\ host' = [host EXCEPT !.state = IF host.by \in {"auto", "hand"} THEN "restoring" ELSE "running"]
  /\ ready' = IF host.by = "boot" THEN "resolved" ELSE ready
  /\ \/ host.by \in {"boot", "auto", "hand"} /\ UNCHANGED <<page, op, active>>
     \/ host.by = "switch" /\ op' = [op EXCEPT !.pc = "opening"] /\ UNCHANGED <<page, active>>
     \/ host.by = "plain" /\ op' = NoOp /\ active' = Nothing /\ AttachPort(FALSE)
  /\ UNCHANGED <<boot, window, timer, restoring, recovery, roots, quit, spent, gaps, done>>

\* The restore loop ends, some roots refused; then the page gets its port.
HostRestored ==
  /\ host.state = "restoring" /\ quit # "exited"
  /\ \E refused \in SUBSET (roots \ host.open) :
       /\ host' = [host EXCEPT !.state = "running", !.open = roots \ refused]
       /\ roots' = roots \ refused
       /\ AttachPort(roots # refused)
       /\ Met("not restored", active.target \in refused)
  /\ op' = IF op.mode = "hand" THEN NoOp ELSE op
  /\ UNCHANGED <<boot, ready, window, timer, restoring, recovery, active, quit, spent, done>>

\* openTarget's catch: what is active stays when the runtime is the same.
ActiveAfter(t) == IF active # Nothing /\ Kind(active.target) # Kind(t) THEN Nothing ELSE active

\* The openTarget or restart under way fails.
OpEnds ==
  /\ op' = NoOp
  /\ active' = IF op.mode = "open" THEN ActiveAfter(op.target) ELSE active

KeptAfterFailure == op.switched /\ active' # Nothing

OpFails == OpEnds /\ Met("kept after failure", KeptAfterFailure)

NoOpFails == UNCHANGED <<op, active, gaps>>

\* The handshake times out or is refused, or there is no process at all.  Who started
\* the host hears of it, and only some of them tell the page.
StartFails ==
  /\ host.state = "starting" /\ quit # "exited" /\ Fault
  /\ \E state \in {"stuck", "none"} : host' = [host EXCEPT !.state = state]
  /\ ready' = IF host.by = "boot" THEN "rejected" ELSE ready
  /\ IF host.by \in {"auto", "switch"} THEN Announce("disconnected") ELSE UNCHANGED page
  /\ \/ host.by \in {"boot", "auto"} /\ NoOpFails
     \/ host.by = "switch" /\ OpFails
     \/ /\ host.by = "switch" /\ op.mode = "open" /\ op.target = "linux" /\ host'.state = "none" /\ window
        /\ op' = [op EXCEPT !.pc = "asking"] /\ UNCHANGED <<active, gaps>>
     \/ host.by \in {"hand", "plain"} /\ op' = NoOp /\ UNCHANGED active /\ Met("start not told", TRUE)
  /\ UNCHANGED <<boot, window, timer, restoring, recovery, roots, quit, spent>>

\* Mutant: a host that goes before its handshake is left to whoever started it.
RunningOnly == {"running", "restoring"}

\* The states of a host whose exit is told to the supervisor.
ExitTold == {"starting", "stuck", "restoring", "running"}

\* onUnexpectedExit; then what was awaited of the host fails.  A restore that no launch has
\* replaced goes on, and forgets every root it had still to restore, the active one as well.
HostDies ==
  /\ Exists /\ quit = "no" /\ Fault
  /\ LET told == host.state \in ExitTold
         again == told /\ spent.host < Budget /\ recovery
         awaited == op.pc \in {"launching", "opening"}
     IN /\ host' = IF again THEN Launched(host.kind, "auto") ELSE [host EXCEPT !.state = "none", !.open = {}]
        /\ spent' = [spent EXCEPT !.host = IF told /\ @ < Budget THEN @ + 1 ELSE @]
        /\ \/ (told \/ op.switched) /\ Announce(IF again /\ ~op.switched THEN "connecting" ELSE "disconnected")
           \/ ~(told \/ op.switched) /\ UNCHANGED page
        /\ IF awaited THEN OpEnds ELSE UNCHANGED <<op, active>>
        /\ \E forgotten \in SUBSET (IF host.state = "restoring" /\ ~again THEN roots ELSE {}) :
             /\ roots' = roots \ forgotten
             /\ gaps' = gaps \cup (IF awaited /\ KeptAfterFailure THEN {"kept after failure"} ELSE {})
                             \cup (IF active.target \in forgotten THEN {"forgotten in restore"} ELSE {})
  /\ ready' = IF host.by = "boot" /\ host.state = "starting" THEN "rejected" ELSE ready
  /\ UNCHANGED <<boot, window, timer, restoring, recovery, quit>>

\* The stop that an openTarget, a restart or the quit waits for is over.
StopEnds ==
  /\ host.state = "stopping"
  /\ quit' = IF quit = "stopping" THEN "done" ELSE quit
  /\ \/ /\ op.pc = "stopping"
        /\ IF op.mode = "hand" THEN Launch(host.kind, "hand") /\ UNCHANGED roots
           ELSE Launch(Kind(op.target), "switch") /\ roots' = {}
        /\ spent' = [spent EXCEPT !.host = 0]
        /\ op' = [op EXCEPT !.pc = "launching"]
        /\ UNCHANGED <<active, ready>>
     \/ /\ op.pc # "stopping"
        /\ host' = [host EXCEPT !.state = "none", !.open = {}]
        /\ ready' = IF ready = "pending" THEN "rejected" ELSE ready
        /\ IF op.switched THEN Announce("disconnected") ELSE UNCHANGED page
        /\ IF op.pc \in {"launching", "opening"} THEN OpFails ELSE NoOpFails
        /\ UNCHANGED <<roots, spent>>
  /\ UNCHANGED <<boot, window, timer, restoring, recovery, done>>

-----------------------------------------------------------------------------
(* openTarget, restart and close_workspace. *)

\* supervisor.openWorkspace: in the running host, or in a host of its own.
Begin(t, mode) ==
  LET started(pc, switched) == [pc |-> pc, mode |-> mode, target |-> t, switched |-> switched]
  IN \/ /\ HostRuns /\ host.kind = Kind(t)
        /\ op' = started("opening", FALSE)
        /\ UNCHANGED <<host, page, roots, spent, gaps>>
     \/ /\ Exists /\ ~(HostRuns /\ host.kind = Kind(t))
        /\ op' = started("stopping", TRUE)
        /\ host' = [host EXCEPT !.state = "stopping"]
        /\ UNCHANGED <<page, roots, spent, gaps>>
     \/ /\ ~Exists
        /\ op' = started("launching", TRUE)
        /\ roots' = {} /\ spent' = [spent EXCEPT !.host = 0]
        /\ Launch(Kind(t), "switch")

\* What is on the screen: a workspace, or the chooser of a connected page.
MayClick == page.state = "loaded" /\ ~page.hung /\ op = NoOp /\ quit = "no" /\ Click

OpenTarget(t) ==
  /\ MayClick /\ (page.told = "connected" \/ page.shows)
  /\ Begin(t, "open")
  /\ UNCHANGED <<boot, ready, window, timer, restoring, recovery, active, quit>>

\* The host answers open_workspace.
Opened ==
  /\ op.pc = "opening" /\ HostRuns /\ quit # "exited"
  /\ host' = [host EXCEPT !.open = @ \cup {op.target}]
  /\ roots' = roots \cup {op.target}
  /\ active' = [target |-> op.target, of |-> host.run]
  /\ op' = NoOp
  /\ IF op.switched THEN AttachPort(TRUE) ELSE page' = [page EXCEPT !.shows = page.state = "loaded"]
  /\ UNCHANGED <<boot, ready, window, timer, restoring, recovery, quit, spent, gaps, done>>

\* It refuses.  The host of a switch stays, and the page is told of a disconnect.
OpenRefused ==
  /\ op.pc = "opening" /\ HostRuns /\ quit # "exited" /\ Fault
  /\ IF op.switched THEN Announce("disconnected") ELSE UNCHANGED page
  /\ OpFails
  /\ UNCHANGED <<boot, ready, window, timer, restoring, host, recovery, roots, quit, spent>>

\* No Node in the distribution: install one, open through Windows, or go back to what
\* was active.
DialogAnswered ==
  /\ op.pc = "asking" /\ quit # "exited"
  /\ \/ Begin("linux", "open")
     \/ Begin("there", "open")
     \/ active # Nothing /\ Begin(active.target, "restore")
     \/ /\ active = Nothing /\ Launch("windows", "plain")
        /\ op' = [op EXCEPT !.pc = "launching", !.mode = "plain", !.switched = FALSE]
        /\ UNCHANGED <<roots, spent>>
  /\ UNCHANGED <<boot, ready, window, timer, restoring, recovery, active, quit, done>>

\* restart_host, from the screen of a lost host or from the settings.
RestartByHand ==
  /\ MayClick /\ (page.told = "disconnected" \/ page.shows)
  /\ op' = [NoOp EXCEPT !.pc = IF Exists THEN "stopping" ELSE "launching", !.mode = "hand"]
  /\ IF Exists THEN host' = [host EXCEPT !.state = "stopping"] /\ UNCHANGED <<page, gaps, spent>>
     ELSE Launch(host.kind, "hand") /\ spent' = [spent EXCEPT !.host = 0]
  /\ UNCHANGED <<boot, ready, window, timer, restoring, recovery, roots, active, quit>>

\* Mutant: the shell is not told of a closed workspace.
ClosedUntold(t) == active

\* onWorkspaceClosed, by the id.
ActiveAfterClose(t) == IF active = [target |-> t, of |-> host.run] THEN Nothing ELSE active

WorkspaceClosed(t) ==
  /\ MayClick /\ page.shows /\ host.state = "running" /\ t \in host.open
  /\ host' = [host EXCEPT !.open = @ \ {t}] /\ roots' = roots \ {t}
  /\ active' = ActiveAfterClose(t)
  /\ page' = [page EXCEPT !.shows = FALSE]
  /\ Met("stale id", active.target = t /\ active.of # host.run)
  /\ UNCHANGED <<boot, ready, window, timer, restoring, recovery, op, quit, spent>>

-----------------------------------------------------------------------------
(* The page.  The handlers are there once bootstrap has come to its end. *)

\* recoverRenderer.
Recovered(otherwise) ==
  IF spent.page < Budget
  THEN /\ spent' = [spent EXCEPT !.page = @ + 1]
       /\ restoring' = TRUE /\ page' = NewPage("loading")
  ELSE page' = otherwise /\ UNCHANGED <<spent, restoring>>

PageOnly == UNCHANGED <<boot, ready, window, host, recovery, roots, active, op, quit>>

\* clearUnresponsive.
TimerCleared == FALSE

\* did-finish-load of a reload.
PageLoads ==
  /\ page.state = "loading" /\ quit # "exited"
  /\ IF boot = "serving" /\ HostRuns
     THEN /\ page' = [page EXCEPT !.state = "loaded", !.told = "connected", !.port = host.run,
                                  !.shows = restoring /\ host.open # {}]
          /\ restoring' = FALSE /\ UNCHANGED gaps
     ELSE /\ page' = [page EXCEPT !.state = "loaded"]
          /\ UNCHANGED restoring
          /\ gaps' = gaps \cup (IF boot # "serving" THEN {"reload unserved"}
                                ELSE IF host.state \in {"none", "stuck"} THEN {"down at reload"} ELSE {})
  /\ timer' = IF boot = "serving" THEN TimerCleared ELSE timer
  /\ UNCHANGED <<spent, done>> /\ PageOnly

PageReloads ==
  /\ page.state = "loaded" /\ ~page.hung /\ quit = "no" /\ Click
  /\ page' = NewPage("loading")
  /\ UNCHANGED <<timer, restoring, spent, gaps>> /\ PageOnly

\* render-process-gone.
PageCrashes ==
  /\ page.state # "gone" /\ quit = "no" /\ Fault
  /\ IF boot = "serving" THEN timer' = TimerCleared /\ Recovered(NewPage("gone"))
     ELSE page' = NewPage("gone") /\ UNCHANGED <<timer, restoring, spent>>
  /\ UNCHANGED gaps /\ PageOnly

\* unresponsive.
PageHangs ==
  /\ page.state = "loaded" /\ ~page.hung /\ Fault
  /\ page' = [page EXCEPT !.hung = TRUE]
  /\ timer' = (timer \/ Serving)
  /\ UNCHANGED <<restoring, spent, gaps>> /\ PageOnly

\* responsive.
PageResponds ==
  /\ page.hung
  /\ page' = [page EXCEPT !.hung = FALSE]
  /\ timer' = IF boot = "serving" THEN TimerCleared ELSE timer
  /\ UNCHANGED <<restoring, spent, gaps, done>> /\ PageOnly

TimerFires ==
  /\ timer /\ timer' = FALSE
  /\ IF quit = "no" THEN Recovered(page) ELSE UNCHANGED <<page, restoring, spent>>
  /\ UNCHANGED <<gaps, done>> /\ PageOnly

-----------------------------------------------------------------------------
(* Quit. *)

\* Mutant: only a host that has answered is stopped.
StoppedRunning(h) == IF HostRuns THEN [h EXCEPT !.state = "stopping"] ELSE h

\* supervisor.stop.
Stopped(h) == IF Exists THEN [h EXCEPT !.state = "stopping"] ELSE h

\* before-quit, by a menu or because the last window is closed.
QuitAsked ==
  /\ quit = "no" /\ Click
  /\ host' = Stopped(host)
  /\ quit' = IF host'.state = "stopping" THEN "stopping" ELSE "done"
  /\ recovery' = FALSE
  /\ \/ UNCHANGED <<window, page>>
     \/ window' = FALSE /\ page' = NewPage("gone")
  /\ UNCHANGED <<boot, ready, timer, restoring, roots, active, op, spent, gaps>>

\* The coordinator quits again, and lets it pass.
Exits ==
  /\ quit = "done" /\ quit' = "exited"
  /\ UNCHANGED <<boot, ready, window, page, timer, restoring, host, recovery, roots, active, op, spent, gaps, done>>

HostNext == HostAcks \/ HostRestored \/ StartFails \/ HostDies \/ StopEnds

PageNext ==
  PageLoads \/ PageReloads \/ PageCrashes \/ PageHangs \/ PageResponds \/ TimerFires

OpNext ==
  \/ \E t \in Targets : OpenTarget(t) \/ WorkspaceClosed(t)
  \/ Opened \/ OpenRefused \/ DialogAnswered \/ RestartByHand

ShellNext ==
  \/ WindowLoads \/ WindowFails \/ BootAttaches \/ BootFails
  \/ HostNext \/ PageNext \/ OpNext
  \/ QuitAsked \/ Exits

ShellSpec == ShellInit /\ [][ShellNext]_shellVars

-----------------------------------------------------------------------------

ShellTypeOK ==
  /\ boot \in {"loading", "waiting", "serving", "failed"}
  /\ ready \in {"pending", "resolved", "rejected"}
  /\ {window, timer, restoring, recovery} \subseteq BOOLEAN
  /\ page.state \in {"gone", "loading", "loaded"} /\ page.port \in 0..host.run
  /\ page.told \in {"connecting", "connected", "disconnected"}
  /\ host.state \in {"none", "starting", "stuck", "restoring", "running", "stopping"}
  /\ host.open \subseteq Targets /\ roots \subseteq Targets
  /\ active.target \in Targets \cup {"none"}
  /\ op.pc \in {"none", "stopping", "launching", "opening", "asking"}
  /\ quit \in {"no", "stopping", "done", "exited"}

AtRest ==
  /\ op = NoOp /\ boot \in {"serving", "failed"} /\ quit = "no"
  /\ host.state \notin {"starting", "restoring", "stopping"}

\* The cases in which the code leaves a page that says it is connecting, for ever.
Stranding == {"died early", "start not told", "down at reload", "reload unserved"}

\* When nothing is under way, a page has the port of the running host, or says that there
\* is none and offers a restart, whatever died, reloaded or was replaced meanwhile; and
\* none is about to be reloaded that answers (main/index.ts 693-757, supervisor.ts 242-270).
PageIsServed ==
  /\ AtRest /\ page.state = "loaded" /\ gaps \cap Stranding = {} =>
       \/ page.told = "disconnected"
       \/ page.told = "connected" /\ HostRuns /\ page.port = host.run
  /\ timer /\ quit = "no" => page.hung

\* What the shell would go back to, and picks attachments for, is open in the running host
\* (main/index.ts 480-535, supervisor.ts 285-300).
ActiveIsOpen ==
  AtRest /\ HostRuns /\ active # Nothing /\ gaps \subseteq Stranding => active.target \in host.open

\* When the application has ended it has left no host behind that it started before the
\* quit, however far the start had come (quit.ts 24-35, supervisor.ts 190-207).
QuitLeavesNothing ==
  quit = "exited" /\ "launched in quit" \notin gaps => host.state = "none"

=============================================================================
