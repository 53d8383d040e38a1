---------------------------- MODULE LoopbackHost ----------------------------
(***************************************************************************)
(* A host inside WSL: WslLauncher in main (wsl-launcher.ts), wsl.exe, the    *)
(* Linux process behind it with its loopback port (parent-port.ts,           *)
(* index.ts), and the event sockets between that process and the preload     *)
(* (event-channel.ts, preload/index.ts).                                     *)
(*                                                                         *)
(* One launcher is one start; the supervisor makes a new one for the next.   *)
(* Killing wsl.exe may or may not take the Linux process with it.  Timers    *)
(* may fire whenever they are armed.                                         *)
(***************************************************************************)
EXTENDS Naturals, Sequences, FiniteSets

CONSTANTS
  MaxCommands,  \* bound: commands sent
  MaxTickets,   \* bound: event channels attached
  MaxFaults     \* bound: deaths of main and of wsl.exe, drops of the control connection

ASSUME LoopbackAssumption == {MaxCommands, MaxTickets, MaxFaults} \subseteq Nat

VARIABLES
  start,     \* where start() is
  stopping,  \* where stop() is
  child,     \* whether #child is set
  held,      \* whether #socket is set
  intended,  \* whether the process is in #intentionalStops
  known,     \* whether #hostProcessId is set
  pending,   \* #pending: requests that have not been settled
  alive,     \* main
  exe,       \* wsl.exe
  linux,     \* the host behind it
  owner,     \* #owner of the loopback port
  armed,     \* #disconnectTimer
  near, far, \* main's and the host's end of the control connection
  toHost, toMain,
  tickets,   \* #eventTickets
  sockets,   \* event sockets by ticket
  handed,    \* descriptors on their way to the preload
  bridge,    \* eventSocketBridge of the preload
  shown,     \* the port the page has
  port,      \* the port of the host's emitter
  reports,   \* (history) calls of onExit
  asked,     \* (history) whether main gave the host up before it exited
  count      \* commands, tickets and faults so far

mainVars == <<start, stopping, child, held, intended, known, pending, alive, reports, asked>>
hostVars == <<linux, owner, armed>>
wireVars == <<near, far, toHost, toMain>>
eventVars == <<tickets, sockets, handed, bridge, shown, port>>
loopbackVars == <<mainVars, exe, hostVars, wireVars, eventVars, count>>

-----------------------------------------------------------------------------
Tickets == 1..MaxTickets
None == 0

\* Requests: the shutdown, commands and ticket requests.
Shutdown == [kind |-> "shutdown", n |-> 0]
Command(n) == [kind |-> "command", n |-> n]
TicketRequest(n) == [kind |-> "ticket", n |-> n]
Bare(kind) == [kind |-> kind, n |-> 0]

Listening == linux \in {"listening", "building", "serving", "shutting"}
Exists == linux \notin {"none", "gone"}

\* WslLauncher.running.
Running == child /\ held /\ start = "ready" /\ near = "open"

\* #socket?.close(): main closes its end, if it still has it.
Dropped == IF held /\ near = "open" THEN "closed" ELSE near

Starting == {"announcing", "connecting", "handshaking"}

NoSocket == [client |-> "none", host |-> "none"]

\* What the end of a process does to its sockets is seen at the other end later.
HostEnds == /\ far' = IF far = "open" THEN "closed" ELSE far
            /\ sockets' = [n \in Tickets |-> [sockets[n] EXCEPT !.host = IF @ = "open" THEN "closed" ELSE @]]
            /\ tickets' = {} /\ port' = None
            /\ owner' = FALSE /\ armed' = FALSE /\ toHost' = <<>>

MayFault == count.faults < MaxFaults
Fault == count' = [count EXCEPT !.faults = @ + 1]

-----------------------------------------------------------------------------
(* The launcher: start. *)

\* spawnWsl, once Node has been found and the bundle is staged.
Spawn ==
  /\ alive /\ start = "idle" /\ stopping = "none"
  /\ start' = "announcing" /\ child' = TRUE
  /\ exe' = "running" /\ linux' = "booting"
  /\ UNCHANGED <<stopping, held, intended, known, pending, alive, reports, asked, owner, armed, count>>
  /\ UNCHANGED <<wireVars, eventVars>>

\* readAnnouncement.
ReadAnnouncement ==
  /\ alive /\ start = "announcing" /\ linux # "booting"
  /\ start' = "connecting"
  /\ UNCHANGED <<stopping, child, held, intended, known, pending, alive, reports, asked, exe, count>>
  /\ UNCHANGED <<hostVars, wireVars, eventVars>>

\* #connect: a refused connection is tried again; the hello goes with the first that opens.
Connect ==
  /\ alive /\ start = "connecting" /\ Listening /\ near = "none"
  /\ start' = "handshaking" /\ held' = TRUE /\ near' = "open" /\ far' = "open"
  /\ toHost' = <<Bare("hello")>>
  /\ UNCHANGED <<stopping, child, intended, known, pending, alive, reports, asked, exe, toMain, count>>
  /\ UNCHANGED <<hostVars, eventVars>>

\* The catch of start(): a refusal, a timeout, an exit, a closed socket, another version.
GiveUp ==
  /\ start' = "failed"
  /\ intended' = TRUE /\ child' = FALSE /\ held' = FALSE /\ known' = FALSE /\ pending' = {}
  /\ near' = Dropped
  /\ exe' = IF exe = "running" THEN "dying" ELSE exe
  /\ asked' = (asked \/ exe = "running")

StartFails ==
  /\ alive /\ start \in Starting
  /\ GiveUp
  /\ UNCHANGED <<stopping, alive, reports, far, toHost, toMain, count>>
  /\ UNCHANGED <<hostVars, eventVars>>

\* The check after the handshake.
Accepted == start = "handshaking" /\ child /\ held

\* #onMessage, and the handshake.
MainReceives ==
  /\ alive /\ near = "open" /\ toMain # <<>>
  /\ toMain' = Tail(toMain)
  /\ LET m == Head(toMain)
     IN \/ /\ m.kind = "ack"
           /\ IF Accepted
              THEN /\ start' = "ready" /\ known' = TRUE
                   /\ UNCHANGED <<child, held, intended, pending, near, exe, asked>>
              ELSE GiveUp
           /\ UNCHANGED handed
        \/ /\ m.kind # "ack"
           /\ pending' = pending \ {m}
           /\ handed' = IF m.kind = "ticket" /\ m \in pending THEN Append(handed, m.n) ELSE handed
           /\ UNCHANGED <<start, child, held, intended, known, near, exe, asked>>
  /\ UNCHANGED <<stopping, alive, reports, far, toHost, count>>
  /\ UNCHANGED <<hostVars, tickets, sockets, bridge, shown, port>>

-----------------------------------------------------------------------------
(* The launcher: requests. *)

Request(r) ==
  /\ alive /\ Running
  /\ pending' = pending \cup {r} /\ toHost' = Append(toHost, r)
  /\ UNCHANGED <<start, stopping, child, held, intended, known, alive, reports, asked, exe, near, far, toMain>>
  /\ UNCHANGED <<hostVars, eventVars>>

\* send.
Send ==
  /\ count.commands < MaxCommands
  /\ Request(Command(count.commands + 1))
  /\ count' = [count EXCEPT !.commands = @ + 1]

\* attachEventChannel.
AttachEventChannel ==
  /\ count.tickets < MaxTickets
  /\ Request(TicketRequest(count.tickets + 1))
  /\ count' = [count EXCEPT !.tickets = @ + 1]

RequestTimesOut(r) ==
  /\ alive /\ r \in pending
  /\ pending' = pending \ {r}
  /\ UNCHANGED <<start, stopping, child, held, intended, known, alive, reports, asked, exe, count>>
  /\ UNCHANGED <<hostVars, wireVars, eventVars>>

-----------------------------------------------------------------------------
(* The launcher: stop, and the exit of wsl.exe. *)

\* #performStop, up to its first wait.
Stop ==
  /\ alive /\ stopping = "none" /\ child
  /\ intended' = TRUE /\ asked' = (asked \/ exe = "running")
  /\ IF Running
     THEN /\ stopping' = "asked" /\ pending' = pending \cup {Shutdown}
          /\ toHost' = Append(toHost, Shutdown) /\ UNCHANGED near
     ELSE /\ stopping' = "closing"
          /\ near' = Dropped
          /\ UNCHANGED <<pending, toHost>>
  /\ UNCHANGED <<start, child, held, known, alive, reports, exe, far, toMain, count>>
  /\ UNCHANGED <<hostVars, eventVars>>

\* The shutdown is answered, refused, or two seconds are over.
StopCloses ==
  /\ alive /\ stopping = "asked"
  /\ stopping' = "closing" /\ near' = Dropped
  /\ UNCHANGED <<start, child, held, intended, known, pending, alive, reports, asked, exe, far, toHost, toMain, count>>
  /\ UNCHANGED <<hostVars, eventVars>>

\* terminateWslHost, which may fail, and does nothing about a host that has not answered.
StopTerminates ==
  /\ alive /\ stopping = "closing" /\ exe \in {"running", "dying"}
  /\ stopping' = "terminating"
  /\ \/ UNCHANGED <<linux, owner, armed, far, toHost, tickets, sockets, port>>
     \/ known /\ Exists /\ linux' = "gone" /\ HostEnds
  /\ UNCHANGED <<start, child, held, intended, known, pending, alive, reports, asked, exe, near, toMain, count>>
  /\ UNCHANGED <<handed, bridge, shown>>

\* The end of #performStop.
StopEnds ==
  /\ alive
  /\ stopping = "terminating" \/ (stopping = "closing" /\ exe = "exited")
  /\ stopping' = "done"
  /\ exe' = IF exe = "running" THEN "dying" ELSE exe
  /\ child' = FALSE /\ held' = FALSE /\ known' = FALSE /\ pending' = {}
  /\ start' = IF start = "ready" THEN "down" ELSE start
  /\ UNCHANGED <<intended, alive, reports, asked, count>>
  /\ UNCHANGED <<hostVars, wireVars, eventVars>>

\* Mutant: only a graceful stop marks the process.
MarkedLate == intended /\ stopping = "done"

Marked == intended

\* #processExited.
ProcessExited ==
  IF alive /\ child
  THEN /\ child' = FALSE /\ held' = FALSE /\ known' = FALSE /\ pending' = {}
       /\ near' = Dropped
       /\ start' = IF start = "ready" THEN "down" ELSE start
       /\ reports' = reports + (IF Marked THEN 0 ELSE 1)
  ELSE UNCHANGED <<child, held, known, pending, near, start, reports>>

\* wsl.exe exits with the host, when it is killed, or for a reason of its own.
ExeExits ==
  /\ exe = "dying" \/ (exe = "running" /\ linux = "gone")
  /\ exe' = "exited" /\ ProcessExited
  /\ \/ UNCHANGED <<linux, owner, armed, far, toHost, tickets, sockets, port>>
     \/ Exists /\ linux' = "gone" /\ HostEnds
  /\ UNCHANGED <<stopping, intended, alive, asked, toMain, handed, bridge, shown, count>>

ExeDies ==
  /\ MayFault /\ Fault
  /\ exe = "running" /\ exe' = "exited" /\ ProcessExited
  /\ \/ UNCHANGED <<linux, owner, armed, far, toHost, tickets, sockets, port>>
     \/ Exists /\ linux' = "gone" /\ HostEnds
  /\ UNCHANGED <<stopping, intended, alive, asked, toMain, handed, bridge, shown>>

\* Main dies, and its windows with it.
MainDies ==
  /\ MayFault /\ Fault /\ alive
  /\ alive' = FALSE /\ asked' = (asked \/ exe = "running")
  /\ near' = IF near = "open" THEN "closed" ELSE near
  /\ sockets' = [n \in Tickets |-> [sockets[n] EXCEPT !.client = IF @ = "none" THEN @ ELSE "closed"]]
  /\ handed' = <<>> /\ bridge' = None /\ shown' = None
  /\ UNCHANGED <<start, stopping, child, held, intended, known, pending, reports, exe, hostVars, far, toHost, toMain>>
  /\ UNCHANGED <<tickets, port, linux>>

\* The relay of WSL drops the connection.
ControlDrops ==
  /\ MayFault /\ Fault /\ near = "open" /\ far = "open"
  /\ near' = "closed" /\ far' = "open"
  /\ UNCHANGED <<mainVars, exe, hostVars, toHost, toMain, eventVars>>

\* Main's end learns that the host has closed; what came before is read first.
MainSeesClose ==
  /\ near = "open" /\ far = "closed" /\ toMain = <<>>
  /\ near' = "closed"
  /\ UNCHANGED <<mainVars, exe, hostVars, far, toHost, toMain, eventVars, count>>

-----------------------------------------------------------------------------
(* The host. *)

\* Mutant: nobody waits for the first owner.
BoundForGood == FALSE

\* The timer that the constructor starts.
BoundArmed == TRUE

\* socketPort: bound, announced, and nobody connected yet.
Bind ==
  /\ linux = "booting"
  /\ linux' = "listening" /\ armed' = BoundArmed
  /\ UNCHANGED <<mainVars, exe, owner, wireVars, eventVars, count>>

\* #authenticate, and the handshake up to the building of the runtime.
Authenticate ==
  /\ linux = "listening" /\ far = "open" /\ toHost # <<>> /\ Head(toHost).kind = "hello"
  /\ toHost' = Tail(toHost)
  /\ owner' = TRUE /\ armed' = FALSE /\ linux' = "building"
  /\ UNCHANGED <<mainVars, exe, near, far, toMain, eventVars, count>>

\* The runtime is there.  The answer throws when main has left, and the host exits then.
Built ==
  /\ linux = "building"
  /\ \/ /\ owner /\ far = "open"
        /\ linux' = "serving" /\ toMain' = Append(toMain, Bare("ack"))
        /\ UNCHANGED <<owner, armed, far, toHost, tickets, sockets, port>>
     \/ linux' = "gone" /\ HostEnds /\ UNCHANGED toMain
  /\ UNCHANGED <<mainVars, exe, near, handed, bridge, shown, count>>

\* dispatch, and createEventTicket.
Serve ==
  /\ linux = "serving" /\ owner /\ toHost # <<>>
  /\ toHost' = Tail(toHost)
  /\ LET r == Head(toHost)
     IN /\ linux' = IF r.kind = "shutdown" THEN "shutting" ELSE linux
        /\ tickets' = IF r.kind = "ticket" THEN tickets \cup {r.n} ELSE tickets
        /\ toMain' = IF r.kind = "shutdown" \/ far # "open" THEN toMain ELSE Append(toMain, r)
  /\ UNCHANGED <<mainVars, exe, owner, armed, near, far, sockets, handed, bridge, shown, port, count>>

\* A command the host never answers.
Ignore ==
  /\ linux = "serving" /\ owner /\ toHost # <<>> /\ Head(toHost).kind = "command"
  /\ toHost' = Tail(toHost)
  /\ UNCHANGED <<mainVars, exe, hostVars, near, far, toMain, eventVars, count>>

\* services.shutdown is over: the answer, then parent.close, then the exit.
ShutDown ==
  /\ linux = "shutting"
  /\ linux' = "gone" /\ HostEnds
  /\ toMain' = IF far = "open" THEN Append(toMain, Shutdown) ELSE toMain
  /\ UNCHANGED <<mainVars, exe, near, handed, bridge, shown, count>>

\* #ownerClosed, once what was sent before has been read.
OwnerCloses ==
  /\ far = "open" /\ near = "closed" /\ (toHost = <<>> \/ linux \in {"building", "shutting"})
  /\ far' = "closed" /\ owner' = FALSE /\ toHost' = <<>>
  /\ armed' = (Listening /\ owner)
  /\ UNCHANGED <<mainVars, exe, linux, near, toMain, eventVars, count>>

\* #onOrphaned: a host with services shuts them down first, once.
Orphaned ==
  /\ armed /\ ~owner
  /\ \/ linux = "serving" /\ linux' = "shutting" /\ armed' = FALSE
        /\ UNCHANGED <<owner, far, toHost, tickets, sockets, port>>
     \/ linux \in {"listening", "building"} /\ linux' = "gone" /\ HostEnds
     \/ linux = "shutting" /\ armed' = FALSE
        /\ UNCHANGED <<linux, owner, far, toHost, tickets, sockets, port>>
  /\ UNCHANGED <<mainVars, exe, near, toMain, handed, bridge, shown, count>>

-----------------------------------------------------------------------------
(* The event sockets. *)

EventsOnly == UNCHANGED <<mainVars, exe, hostVars, wireVars, count>>

Closing(s, n) == IF n = None THEN s ELSE [s EXCEPT ![n].client = IF @ = "none" THEN @ ELSE "closed"]

\* The preload is told of a channel: the one before it is closed.
TakeDescriptor ==
  /\ alive /\ handed # <<>>
  /\ handed' = Tail(handed)
  /\ LET n == Head(handed)
     IN /\ bridge' = n
        /\ sockets' = [Closing(sockets, bridge) EXCEPT ![n].client = "connecting"]
        /\ shown' = IF shown = bridge THEN None ELSE shown
  /\ UNCHANGED <<tickets, port>> /\ EventsOnly

\* Mutant: the emitter leaves the port it had open.
ReplacedKept(s) == s

\* emitter.attach closes the port it had.
Replaced(s) == IF port = None THEN s ELSE [s EXCEPT ![port].host = "closed"]

\* #accept: a ticket is good for one socket.  The upgrade may arrive after the client
\* has closed, and sockets may arrive in any order.
Accept(n) ==
  /\ Listening /\ sockets[n].client # "none" /\ sockets[n].host = "none"
  /\ tickets' = tickets \ {n}
  /\ IF n \in tickets
     THEN port' = n /\ sockets' = [Replaced(sockets) EXCEPT ![n].host = "open"]
     ELSE UNCHANGED port /\ sockets' = [sockets EXCEPT ![n].host = "closed"]
  /\ UNCHANGED <<handed, bridge, shown>> /\ EventsOnly

TicketExpires(n) ==
  /\ n \in tickets /\ tickets' = tickets \ {n}
  /\ UNCHANGED <<sockets, handed, bridge, shown, port>> /\ EventsOnly

\* The bridge opens: the page gets its end, unless another has taken its place.
BridgeOpens(n) ==
  /\ sockets[n].client = "connecting" /\ sockets[n].host # "none"
  /\ sockets' = [sockets EXCEPT ![n].client = "open"]
  /\ shown' = IF bridge = n THEN n ELSE shown
  /\ UNCHANGED <<tickets, handed, bridge, port>> /\ EventsOnly

BridgeFails(n) ==
  /\ sockets[n].client = "connecting" /\ (sockets[n].host = "closed" \/ ~Listening)
  /\ sockets' = [sockets EXCEPT ![n].client = "closed"]
  /\ bridge' = IF bridge = n THEN None ELSE bridge
  /\ UNCHANGED <<tickets, handed, shown, port>> /\ EventsOnly

\* Each end learns that the other has closed.
BridgeSeesClose(n) ==
  /\ sockets[n].client = "open" /\ sockets[n].host = "closed"
  /\ sockets' = [sockets EXCEPT ![n].client = "closed"]
  /\ shown' = IF shown = n THEN None ELSE shown
  /\ UNCHANGED <<tickets, handed, bridge, port>> /\ EventsOnly

PortSeesClose(n) ==
  /\ sockets[n].host = "open" /\ sockets[n].client = "closed"
  /\ sockets' = [sockets EXCEPT ![n].host = "closed"]
  /\ port' = IF port = n THEN None ELSE port
  /\ UNCHANGED <<tickets, handed, bridge, shown>> /\ EventsOnly

-----------------------------------------------------------------------------
LoopbackInit ==
  /\ start = "idle" /\ stopping = "none" /\ child = FALSE /\ held = FALSE /\ intended = FALSE /\ known = FALSE
  /\ pending = {} /\ alive = TRUE /\ exe = "none" /\ linux = "none"
  /\ owner = FALSE /\ armed = FALSE /\ near = "none" /\ far = "none"
  /\ toHost = <<>> /\ toMain = <<>>
  /\ tickets = {} /\ sockets = [n \in Tickets |-> NoSocket]
  /\ handed = <<>> /\ bridge = None /\ shown = None /\ port = None
  /\ reports = 0 /\ asked = FALSE
  /\ count = [commands |-> 0, tickets |-> 0, faults |-> 0]

LauncherStep ==
  Spawn \/ ReadAnnouncement \/ Connect \/ StartFails \/ MainReceives
  \/ Send \/ AttachEventChannel \/ (\E r \in pending : RequestTimesOut(r))
  \/ Stop \/ StopCloses \/ StopTerminates \/ StopEnds

HostStep == Bind \/ Authenticate \/ Built \/ Serve \/ Ignore \/ ShutDown \/ OwnerCloses \/ Orphaned

FaultStep == ExeDies \/ MainDies \/ ControlDrops

SocketStep ==
  \/ TakeDescriptor
  \/ \E n \in Tickets :
       Accept(n) \/ TicketExpires(n) \/ BridgeOpens(n) \/ BridgeFails(n) \/ BridgeSeesClose(n) \/ PortSeesClose(n)

LoopbackNext == LauncherStep \/ HostStep \/ FaultStep \/ SocketStep \/ ExeExits \/ MainSeesClose

\* A process that was begun comes to listen, a runtime is built or fails, Pi's shutdown
\* ends, the deadline of a start and the timers fire, and messages and closed connections
\* are noticed.
LoopbackFairness ==
  /\ WF_loopbackVars(StartFails) /\ WF_loopbackVars(MainReceives)
  /\ WF_loopbackVars(Bind) /\ WF_loopbackVars(Authenticate) /\ WF_loopbackVars(Built)
  /\ WF_loopbackVars(Serve \/ Ignore) /\ WF_loopbackVars(ShutDown)
  /\ WF_loopbackVars(OwnerCloses) /\ WF_loopbackVars(Orphaned)

LoopbackSpec == LoopbackInit /\ [][LoopbackNext]_loopbackVars /\ LoopbackFairness

-----------------------------------------------------------------------------
(* What holds. *)

\* A host that has no connection to main any more does not stay (parent-port.ts:224
\* #scheduleOrphaned): whichever of the two dies first, and wherever the start is.
Forsaken == ~alive \/ near = "closed" \/ (near = "none" /\ (start = "failed" \/ stopping = "done"))

NoStrayLinuxHost == Forsaken ~> ~Exists

\* An exit is reported as a crash at most once, and never when main had asked for it
\* (wsl-launcher.ts:406): the report spends the restart budget.
OwnExitsAreNoCrashes == reports <= 1 /\ (asked => reports = 0)

\* When nothing is on its way any more, the page and the host have the same event socket.
SocketsAtRest ==
  /\ handed = <<>>
  /\ \A n \in Tickets : sockets[n].client # "connecting" /\ (sockets[n].client = "open" <=> sockets[n].host = "open")

EndsAgree == SocketsAtRest => shown = port

-----------------------------------------------------------------------------
(* What does not. *)

\* wsl-launcher.ts:181: after a stop there is no host.  A stop that comes while the
\* launcher connects closes a socket that is not there yet; the one that opens meanwhile
\* is dropped without being closed, and the host keeps its owner.
StopLeavesNoHost == stopping = "done" ~> ~Exists

=============================================================================
