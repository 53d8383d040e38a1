# Bake Pi in TLA+

Bake Pi is an Electron desktop interface for the Pi coding agent. These modules
specify the parts of it whose correctness depends on the order in which
processes, messages, awaits, clicks and crashes come: the path of an event from
Pi to the screen and what the screen makes of it, the questions Pi waits for a
person with, the way a prompt takes to Pi, the lock that gives a session file one
writer, the life of a session inside the agent host, the supervision of that host
on Windows and behind WSL, the copies of Pi beside it, and the navigation of the
window. They are written from the source; file names below are relative to
the repository, `agent-host/` stands for `packages/agent-host/src/`, `main/`,
`preload/` and `renderer/` for the directories of that name in
`apps/desktop/src/`.

- [1. The system](#1-the-system)
- [2. Modules and code](#2-modules-and-code)
- [3. Runs](#3-runs)
- [4. Fairness](#4-fairness)
- [5. Proofs](#5-proofs)
- [6. Where code and comments differ](#6-where-code-and-comments-differ)
- [7. What is not modelled](#7-what-is-not-modelled)
- [8. Plan](#8-plan)

To check a run: `tlc -config stream_ports.cfg MCEventStream`. To check the proofs: `tlapm` on each of
the eight modules whose name ends in `Proofs`.

## 1. The system

Three kinds of process take part.

```
  renderer  --commands-->  preload  -->  main (supervisor)  --commands-->  agent host -- Pi SDK
     ^                                                                        |
     +----------------- events, on a MessagePort of their own ----------------+
```

Commands go from the renderer through main to the host, and their answers come
back the same way. Events go from the host straight to the renderer on a port
that main mints. **The two channels are not ordered with respect to each
other**; most of the difficulty of the renderer comes from that. Behind WSL the
host is a Linux process at the end of a chain of processes, and both channels are
WebSockets.

| Component | State it keeps | Operations | What is hard | What makes it correct |
|---|---|---|---|---|
| Event emitter, `agent-host/emitter.ts` | sequence number per session, one bounded queue, bytes in flight, sessions that lost events, the port | emit, attach, acknowledge, port close, announce gaps, forget a session | nested calls that emit while they announce; ports replaced with credit outstanding | credit is conserved, caps hold, no loss is silent |
| Event ports, `main/supervisor/host.ts`, `preload/event-channel.ts` | ports minted and not yet delivered | mint, post to both ends, tell of a disconnect | host and renderer see ports and their ends in different orders | both end on the same port |
| Renderer stream, `renderer/store/stream.ts` | port, last sequence and resync request per session, acknowledgements owed | connect, disconnect, receive, flush acks | replays, jumps, refused events, two owners of one port | a projection is a prefix of its history or is flagged |
| Session projection, `renderer/store/reducers/session.ts`, `stream-batcher.ts`, `session-projection.ts`; `agent-host/session-host.ts`, `mapping/messages.ts` | blocks and calls with tables of where they are, deltas held for a frame, published views | reduce an event, install a snapshot, batch, publish | deltas overtaken by structural events; a snapshot in the middle of a message; tables kept by hand | the screen says what a snapshot taken now would say |
| Session lock, `agent-host/session/ownership.ts` | one lock file per session file, shared by host processes | acquire, judge, steal, release | every file-system call can be the last one before a crash, or be overtaken | one writer per file, no stranded session |
| Writer watch, `ownership.ts`, `session-host.ts` | size and time of the file after our own writes | before a turn, after a turn, verdict on open | foreign appends between two looks | nothing is recorded over a foreign write |
| Runtime, `agent-host/runtime.ts`, `session-host.ts` | tables of sessions and workspaces | open, create, close session; open, close workspace; shutdown; some 40 other commands | every await lets other commands run; late returns must not resurrect what was closed | one registered host per session, locks and reservations never leak |
| Capacity, `session/budget.ts` | reservations, queued prompts, memory pressure | reserve, admit, release | sessions under construction are not in the table yet | limits hold across awaits |
| Tool marker, `session/tool-marker.ts` | the tool calls running in a session, in a file | start, end, settle, read on adoption, remove | a crash, a batch of tools, an adoption that fails half-way | an interrupted tool is reported once, nothing else is |
| Approval gate, `policy/gate.ts`, `approval.ts`, `targets.ts`, `paths.ts` | parked requests, allowances per session and tool | evaluate, respond, time out, abort, cancel | four ways to settle one request; allowances recorded after an await; links that lead out of the workspace | nothing runs without leave, a request is settled once |
| Extension dialogs, `extension-ui/gate.ts` | parked dialogs | request, respond, time out, cancel | renderer that reloads or never listens | same |
| Trays, `renderer/store/session-store.ts`, `ApprovalTray.tsx`, `QuestionTray.tsx` | cards per session, one question | show, answer, remove | the card must come back after a reload, and go when somebody else settles it | what waits is on screen |
| Prompt intake, `runtime.ts`, `session/attachments.ts` | preflights in progress, queue reservations | prompt, steer, follow up, abort, compact, change the model, reload | decisions taken before an await and used after it | order of prompts, limits of the queue |
| Timings, `observability/timings.ts`, `dispatch.ts` | open spans, a ring, a table of sessions, figures per kind | begin, end, abandon, forget, report | eviction, displacement and reuse of an index while a turn runs | whatever begins is counted once, under its own session |
| Supervisor, `main/supervisor/supervisor.ts`, `host.ts` | current launcher and generation, commands in flight | start, handshake, restore, execute, restart, switch runtime, stop, exit | crashes during restore, late answers, stops that overlap starts | one live host; what main remembers is what the host has |
| Recovery ledger and budget, `recovery.ts`, `health.ts` | open sessions, quarantine, roots, failures in the window | note an answer, plan a restart | what an unanswered command means | a session that kills the host is not reopened; restarts are bounded |
| Loopback port and WSL launcher, `agent-host/parent-port.ts`, `main/supervisor/wsl-launcher.ts` | owner, event tickets, orphan timer; the launcher's start and stop | spawn, announce, connect, authenticate, ticket, stop | a chain of processes any of which may go; one-time tickets racing a timer | no host is left behind, an exit main caused is no crash |
| Managed Pi, `main/pi/` | installed, active and running versions, an install in flight | install, use, remove, start with | downloads by several workers, renames cut short | what can be chosen is complete |
| Navigation, `renderer/store/session-store.ts`, `preferences.ts` | workspace, tabs, the tab in front, slots of commands | open, close, switch, select, create | answers that come after the person went elsewhere; a host that dies half-way | nothing of another directory on screen; the last click wins |
| Shell of main and quit, `main/index.ts`, `main/supervisor/quit.ts` | progress of the start, active workspace, renderer to restore, phase of the quit | start, open a target, follow a closed workspace, restore a page, quit | awaits between a start and the handlers that depend on it; a quit in the middle of anything | a loaded page has the port of the running host or says there is none; the application ends after the host |
| Router and guard of main, `main/ipc/` | none | check, delegate | - | - |
| Discovery, settings, resources | caches of files | reads and conversions | - | - |
| Views of the renderer, theme, shell windows, scripts | view state | - | - | - |

A component whose last columns are empty is input and output, conversion or
layout, with no ordering of its own.

## 2. Modules and code

```
 EventEmitter <- EventStream <- MCEventStream
                     ^- EventStreamProofs
 MCEventStream, Composer <- MCRenderer
 Targets <- ToolGates <- MCToolGates          ToolGates = INSTANCE of Settlement
                ^- Trays <- MCTrays
                     ^- ToolGatesProofs
 PromptIntake <- MCPromptIntake               PromptIntake, Composer <- PromptProofs
 SessionLifecycle <- MCSessionLifecycle       SessionLifecycle, Shell <- LifecycleProofs
 MCSessionLifecycle, Shell <- MCLifecycle
 SessionProjection <- MCSessionProjection
 TurnTimings, WslNode <- MCHousekeeping        TurnTimings <- TimingsProofs
 SessionLock, LoopbackHost <- MCProcesses      SessionLock, LoopbackHost, WslNode <- ProcessProofs
 RecoveryLedger <- HostSupervisor
 HostSupervisor, PiInstalls, WorkspaceView <- MCWorkbench
 HostSupervisor, PiInstalls <- WorkbenchProofs
 WorkspaceView <- NavigationProofs
 PiInstalls <- MCPiInstalls
```

`MCHousekeeping`, `MCLifecycle`, `MCProcesses`, `MCRenderer` and `MCWorkbench` put components side by side that share no state: a
behaviour is one of one of them, and the others stay as they began, so that one run
checks each of them as it would alone.

### EventEmitter, EventStream

`EventEmitter` is the class of that name: `pending`, `inFlight`, `sequences`,
`dropped` and `hport` are its private fields. The host is one JavaScript thread, so an
entry point runs to completion. It is still split into steps, one per call of
`emit`, `#announceGaps` and `resync`, because the renderer is another process and can
receive in between: `todo` is what is left of the call stack, `Post` (a turn of
`#drain`) goes first whenever it can, and no entry point begins before
`Quiescent`. `Buffer` is `#buffer` with the breach of the cap and the recursion into the announcement
of gaps; the order in which lost sessions are announced is that of a
map, taken as any order.

`EventStream` composes it with the rest of the path: Pi (`PiEvent`,
`CompactionEnd`), the commands of the host that touch the stream (`HostOpen`,
`HostOpened`, `HostClose`, `HostResync`), main (`IssuePort`, `HostExit`,
`HostStart`), and the renderer (`Connect`, `Disconnect`, `Reload`, `Deliver`,
`Reject`, `FlushAcks`, `RequestOpen`, `InstallSnapshot`, `RequestClose`,
`CloseProjection`).

Abstractions:

- An event that changes the projection is a number, its place in the history of
  its session; a snapshot is the length of the history it carries. A projection is
  the sequence of numbers it is made of, so a hole or a duplicate is visible in it.
- Events without a session (`workspace_changed`, `host_health`) and the counts in
  a gap event are left out; of `#droppedPerSession` the keys are kept.
- The `StreamBatcher`, which keeps order, is not a step of its own.
- A host that dies may have lost a suffix of the history (what Pi had not written), and any
  part of the attach calls main owed.
- The restore of sessions in a new host is one step (`HostStart`); the supervisor
  module looks inside it.
- A session has one open or close command under way at a time, as the tab strip has it.
- An ack message may pay for any number of events up to the cap, where the
  code sends full messages first.

### SessionLock

One action per file-system call of `acquire` and `release`: create or link,
read, probe, stat, unlink, create again, write. `Crash` can come between any two; `Age`
is the claim window passing. `HardLinks = FALSE` is the path of
`#tryCreateUnlinked`, where the file exists before it names its holder.
A lock file is known by the host that created it.
Process ids are not reused, a lock file holds a complete record or nothing, and all hosts
see the same process table (WSL has one of its own).

### SessionLifecycle

Each `open_session` or `create_session` is a task; `step` is the await it is
suspended at, and one action takes it to the next. `table` is `sessions` of
`runtime.ts`, `reserved` is `Capacity`, `alive` and `heard` are the Pi sessions that
exist and those the host has subscribed to, `lock` and `marker` are the two files beside a
session file. `CleanUp` is the catch of `hostFor`, `Dispose` is `SessionHost.dispose`.
`Die` kills the process, `Foreign*` is a second Bake Pi installation on the same files.
`early` are the calls that began while the extensions of a registered session were being
bound: the host subscribes in `attach`, after that, hears none of it and marks none.
`lost` is a history variable: the calls of which a death leaves no trace, because they were
`early`, and those whose trace was dropped by an adoption that fails after it has read the
marker or by a cleanup that comes after the session was adopted again.

The lock is atomic here (`SessionLock` is where it is not). There is one
workspace directory, reopened under new ids. Whether Pi fails to build or to bind is a
free choice. Pi writes nothing once its session is disposed of. A
session gets its file with its first tool call, where Pi writes it with the first
assistant message.

### RecoveryLedger, HostSupervisor

`RecoveryLedger` is the class of `recovery.ts` with the budget of `health.ts`:
its variables are the private maps and sets. `HostSupervisor` adds the launchers
(the processes and the generation each was launched under), the restore loop, the
handshake, the calls `restart`, `openWorkspace` and `stop` (`job`), and a host reduced to the
sessions and workspaces it has open. A command is performed in the step that delivers its
answer, except one that timed out, which may be performed later (`late`).
`open_session` stands for every command whose answer carries a snapshot,
`prompt` for those that only name a session, `set_api_key` for those whose
interruption is ambiguous. `MCWorkbench` gives every session the one root.

`Attributed` is the condition under which `#onUnexpectedExit` acts; `PlanRestart`
is its plan together with what a restore loop that nobody told of the crash does
afterwards, which is to note every remaining item as failed.
`RendererAttached` may also come after a start that failed, slightly more than
`main/index.ts` does.

### ToolGates, Targets, Settlement, Trays

`ToolGates` has both gates of the host, because they park in the same way and
because `hostFor`, `close_session`, `abort`, `shutdown` and the death of the host treat them
differently. A request (a tool call or a dialog) is `parked` with a timer, or
`unlimited`; `asked` keeps the session and the opening it was put in. The handlers
that touch the gates do so without an await, so each is one step. `Targets` is
the pure part: what a tool touches, where a path leads with links followed
(`RealPath` and `Dangling` are the file system), and what is exempt under the trust of the workspace.
`Harmless`, what an unasked call may be, is not stated with the policy's own table and path check: a write has to
land inside the workspace (`Landing`, which follows every link), or behind a link the check cannot see (`Unseen`).
That Pi resolves the argument of its tools as `absolutize` does is assumed.
`allowed` is `SessionAllowances`. `given` and `withdrawn` are history.

`Settlement` is what Pi is promised about a question: put once, settled once, granted
only by an answer, and not left open when it has a limit. `ToolGates` instantiates it
under `OutcomeOf`, and `RequestsSettle` is that specification with its liveness.

`Trays` adds the renderer: the events on their way, the projections, the cards and
the one question, reloads of the window. The channel keeps order and loses nothing but at
a reload or a death; `EventStream` looks inside it. What one step of the host settles
travels as one event. The snapshot of an open or a create is in its answer (`replies`), which
comes through main and in no order with the events; answers about one session come in theirs. After a
death main restores first and attaches then (`owed`, `TrayAttach`), so what the new host
says meanwhile waits in the channel. `missed` are the calls whose event was read before the answer
that had not seen it (section 6).

Left out: titles, summaries and previews of requests; notices, widgets and editor
calls of extensions, which wait for nobody; drive letters and home directories.

### PromptIntake

One session, with its host numbered by `opening`. A message is at a `stage`: the
preflight (attachments, wait for the ones before), on its way into Pi, in Pi's
queue, running, refused. `claims` is the reservation of a queue position,
`preflights` the list `beginPromptPreflight` keeps. The watch for writers is `since`
(who has appended since the fingerprint was taken) and `known`. Compaction, a change of model or
thinking level, `reload_resources` and `update_resources` are the commands in `doing`
that may append and are at an await. Pi is external: its `phase` and `queue` are what the
host sees of it.

### TurnTimings

`store` is `TimingStore`: open spans in insertion order, the ring with its session
indexes, the table of sessions with eviction, the figures. The commands of `dispatch.ts`
with their early returns, and the calls of `runtime.ts` (a turn per prompt, its legs, its
first delta), drive it. A duration is the pair of what began and what ended it;
percentiles and buckets are left out. `recorded`, `begun`, `forgotten` and `counted` are
what a correct store would know, kept beside it.

### SessionProjection

One conversation at its two ends. `history`, `writing` and `loop` are Pi (external: the agent loop,
which asks, denies, runs, aborts and retries); `lastAssistant` and `hostStatus` the fields of
`session-host.ts` that decide what an event names; `screen` is the state of the
reducer with its address tables, `views` what `SessionProjection` publishes with its
own, `batch` the deltas the batcher holds for a frame. Events arrive as they are sent;
`EventStream` is the way between. A text is its size, a message is named by its place in
history. `Snapshot` is the reference: what the host would send now.

### WorkspaceView

The store and its navigation. Main and the host are one party that performs a
command in one step (`Serve`) and may die and be restored (`Death`, `BroughtBack`, with roots that are
refused and sessions that fail; `RestoreDies` when the new host dies as well) from what main has kept (`peer.kept`, the
part of the recovery ledger that says what to open);
answers come in order, events come in order, and nothing orders one against the other. Main gives a command up when its
time is over (`GiveUp`), and the host may do it later (`ServeLate`), when the ledger does not hear of it; `Overdue` bounds which. A root
given up in a restore is opened after the restore and not in the middle of it. `view` has
the generation counters the code compares with (`workspaceGeneration`,
`selectionGeneration`), the tabs, the slots of commands in flight and the flag that
shows something as starting. A change of workspace (`change`, `changes`) is the queue of
`#queueWorkspaceChange` with its two commands and its rollback. `goal` is what the person
chose last; `disturbed` marks the executions the code does not cope with, listed in section 6.

### LoopbackHost

A host behind WSL: `WslLauncher` (`start`, `stopping`, `child`, `held`, `pending`), wsl.exe (`exe`), the Linux
process (`linux`, `owner`, `armed`), the control connection with two ends
(`near`, `far`) that notice its end separately, the event tickets and sockets, the preload
bridge and the port of the page. One launcher is one start. Killing wsl.exe may or may not
take the Linux process with it; timers may fire whenever they are armed. Finding and installing Node
in the distribution is input and output and left out.

### WslNode

What main finds and brings into a distribution before a host can run there. `app` is where
`discoverWslNode`, the dialog of `openTarget`, `installManagedNode` and `#stageBundle` are;
`job` the shell script main waits for, with one step per command of the script that another script
can come between; `Orphan` the script main has given up, which may go on without it.
`trees`, `current` and `staged` are the directories they share; an installation of Bake Pi is the Node
version it pins. Paths, digests and the list of version managers are left out: a person's Node is one a plain
script finds, one only their own shell finds, or none. `mixed` notes that two decisions to install or to stage overlapped.

### PiInstalls

`PiManager`, `PiStore`, `installPi` and the requests behind them. A directory is the set of
packages whose files are whole, at its own name or moved aside; `Commit`,
`CommitFails` and `MainEndsInCommit` are the renames, with a failure or the end of main
between any two. Several workers download, retry and give up (`Fetched`); `loaded` is the
Pi a running host has open. Resolving a plan, integrity and unpacking are left out.

### Composer

The bar under the conversation. `draft` is a sequence of pieces (words, a mention, the "@", "/" and
names of one being typed) and `caret` a place in it; `token` is what `tokenAt` finds there, `rows`
and `active` the menu, `walk` the directories being read for it, whose answers may come after the
token changed (`strays`). `calls` are commands under way with what they carried; the host performs
each at some moment, or refuses, or its answer is lost. One bar serves every tab (`front`), and a
new one (`bar`) comes after the last tab was closed. A session that is "closed" has no projection, and one
that is "disconnected" has lost its host; either way it loses its place there (`life`), and commands sent to
that place are only ever refused. `entered` and `withdrawn` are history, and so is `stranded`: the turn a stop was pressed in ended
where no event told the store of it;
`mishaps` are the words that met a gap told in section 6. The workspace is a directory, a file in it
and a file beside it; a queued message reaches Pi when Pi likes.

### Shell

The main process around its supervisor: `boot` is how far `bootstrap()` is, `ready` its promise
`hostReady`, `page` the document of the window with what it was told and the launch whose port it
has, `op` the `openTarget` or restart under way, `active` is `activeWorkspace`. Of the supervisor it has the public face:
a host is started, acknowledges, is restored, dies, is stopped. A page that is loading may hear what main sends or not, because
its listeners may be there or not. `spent` are the two restart budgets, whose windows of time never pass. `gaps` are the cases
section 6 tells, as this behaviour has met them. One restart or `openTarget` is under way at a time.

## 3. Runs

Deadlock is not checked: every run ends in states where the system really has
nothing to do (all bounds spent, nobody opens a tab, the host is dead, the application
has quit).

| Run | Instance | States | What it shows |
|---|---|---|---|
| `stream_ports` | 1 session, 2 ports, window 2, queue 3, 2 events, 2 registrations, 1 reload, 1 host exit | 880 000 | `CreditConserved`: the host's in-flight list is exactly the events somebody has still to pay for, whatever port they went out on. `NeverTakenBack`: a fenced projection never gets shorter. |
| `renderer` | stream: 2 sessions, 1 port, window 1, queue 6, 1 refused event. Prompt bar: 2 sessions, 2 words, 1 attachment, 3 keys, 2 commands, 2 events, 6 of these together | 2 600 000 | Stream: one session's flood takes the other's events: `PrefixOrFlagged` (no silent hole, no duplicate), and `CaughtUp`: what arrived completely is shown completely. Bar: `TypedOnce`, `MenuAnswersMention`, `StopNotSpent` (a stop can be pressed again in the next turn, unless no event told of the end of the last). |
| `stream_live` | 1 session, 2 ports, window 1, queue 3, 1 exit, 1 compaction, 1 refused event | 166 000 | `NoStall`: what is queued for a renderer that listens is sent. `Repaired`: a gap that was noticed is closed. `SamePort`: host and renderer end on one port. |
| `processes` | lock: 3 hosts, no hard links, slow claims. WSL: 1 command, 2 tickets, 1 fault | 466 000 | Lock: `ExclusiveWhenSerial`, `Reclaimed` (a dead host's lock strands nobody). WSL: `OwnExitsAreNoCrashes`, `EndsAgree` (page and host end on one socket), `NoStrayLinuxHost` (a host with no connection to main goes). |
| `lifecycle` | sessions: 2, one on disk, 3 commands, 2 tool calls, 2 sessions at most open, 2 openings of the directory, 1 death, 1 takeover. Shell: 3 faults, 3 clicks, 1 automatic restart of the host and of the page | 944 000 | Sessions: `OneWriter`, `NoLockLeak`, `ReportsWhatDied`: a tool call the host heard begin and its death cut short is reported once, and nothing else is. Shell: `PageIsServed` (at rest a page has the port of the running host or offers a restart), `ActiveIsOpen`, `QuitLeavesNothing`. |
| `gates` | 1 session opened twice, 2 writes behind a link out of the workspace, each of a new file or of one in a new directory, 1 dialog, 1 change of trust, 1 death | 1 011 000 | `RanWithLeave`: a call that nobody was asked about only read, ran a shell or wrote where it may, or was allowed in an opening that counts. `WaitsForTheOpen`: nothing waits for a session that is gone. `RequestsSettle`: the gates implement `Settlement`, liveness included. |
| `trays` | 1 session opened twice, 1 call, 2 dialogs, 1 reload, 1 death, 2 events on their way | 6 962 000 | `ScreenMatches`: once the events have arrived, what Pi is blocked on is on screen. |
| `prompts` | 3 messages, 1 queue position, 2 openings, 1 change or compaction or reload, 1 foreign append, 1 unreadable file | 905 000 | `OneAtATime`: prompts reach Pi singly and in order. `ForeignWritesStop`: nothing is recorded over a foreign write to an idle session. `Answered`: no prompt waits for good. |
| `housekeeping` | timings: 3 sessions, 2 tracked, 1 open at a time, 3 turns, a ring of 2, 2 open spans, 1 tool call, 1 command. Node: 2 installations, 2 starts, 2 faults | 240 000 | Timings: `RecentIsTrue`: no turn is reported under another session. `NothingMiscounted`. Node: `RunsOnWhole`: what is cut short or outlives main leaves no half tree and no half bundle to run on. `InstalledIsFound`: nobody is offered an install again after one succeeded. |
| `projection` | 4 messages, 2 calls, texts of size 2, a batch of 2, 1 compaction or snapshot | 636 000 | `SameAsSnapshot`: events and batch give what a snapshot would. `ViewsCurrent`: every view and table is what the state gives. |
| `workbench` | supervisor: 2 sessions, 1 root, 2 workspace ids, 3 launches, 1 automatic restart, one slow host, one call at a time. Copies of Pi: 2 versions, 3 packages (1 optional), 2 installs, 1 cut. Renderer: 2 directories, 3 sessions, 3 clicks, 1 death, 1 resync, commands 1 and 3 and those of a restore may be given up | 1 084 000 | Supervisor: `BlamedStayClosed`, `LedgerMatches`, `NoStrayHost`. Copies: `WholeUnlessCut`. Renderer: `LatestChoice`, `WindowFollowsHost`: at rest nothing is shown as starting, and the host has the workspace and tabs of the window. |
| `pi_replaced` | 1 version, 2 packages, 2 installs, 1 cut | 1 700 | a statement of a comment that does not hold, section 6 |

Why these bounds. Two ports are a port and its replacement, which every race
about ports is made of; the `taken`, `issued` and `rport` of a third would repeat the same pattern.
Two events of history are one that is in the snapshot and one after it, and a jump
of two needs a third number, which the gap and snapshot events take. A window of one or two units makes the
window close; a queue of three or six makes the cap breach while the announcement
of a full set of gaps still fits, as `MAX_QUEUED_SESSION_BYTES` is large against a snapshot.
Three hosts are a holder, a taker and a rival. Three commands are two that race and
one that opens what they leave behind; with two seats two opens of one session race for its lock, and a third command finds no room.
Two workspace ids are the one before a restart and the one after, three
launches let the restored host crash as well. Two openings of a session are what an answer, an
allowance or a message can outlive. Three messages are the one Pi has, the one in its
preflight and the one behind it. Three sessions with room for two in the table (one open at a time; two were checked as well, 1 160 000 states) is what it takes for an index of the timing table to be
reused; a ring of two wraps. Four messages are a request, an answer with two calls and their two results.
Three clicks are two that overlap and one that comes after their answers; three
sessions in two directories give a tab to return to and one to leave. Two installations are two pinned versions of Node in one directory; two faults are a script cut short and a second one while it is repaired. Two tickets are a channel and its
replacement. Three packages on two workers make one worker come back for more.

Properties that carry preconditions which are part of the design:

- `PrefixOrFlagged` speaks of a session for which no snapshot is under way
  (`Settled`). When a port is attached, what was queued goes out *ahead* of the snapshot
  that re-fences the session, so a hole may show for that moment.
- `ExclusiveWhenSerial` and `LockInPlace` speak of executions in which no two
  acquisitions overlap. Without that, `Exclusive` does not hold (section 6).
- `RanWithLeave` and `WaitsForTheOpen` except the openings that ended with a failed bind, of
  which `hostFor` does not tell the approval gate; a dialog put for a closed session is excepted as well. `RanWithLeave` excepts
  the writes whose links the path check does not see (`Unseen`, section 6).
- `ReportsWhatDied` excepts the calls in `lost`, whose trace was never left or was dropped on one of the paths of section 6.
- `ScreenMatches` excepts dialogs a reload, a death or a later dialog took off the screen:
  the renderer keeps one, and the snapshot has none; and calls whose event was read before the answer it belongs after (`missed`, section 6).
- `SameAsSnapshot` excepts what the last snapshot was too early for (`cut`, `missed`).
- `WindowFollowsHost` speaks of a window at rest, in executions without the
  disagreements section 6 lists (`disturbed`).
- `TypedOnce` excepts the words that met one of the gaps of the prompt bar (section 6), and `StopNotSpent` a stop whose turn
  ended with its host or its tab (`stranded`, section 6).
- `PageIsServed`, `ActiveIsOpen` and `QuitLeavesNothing` except the behaviours that met a gap of the shell (section 6, `gaps`).
- `RunsOnWhole` and `InstalledIsFound` speak of executions in which no two decisions to install or to stage overlap (`mixed`).
- `WholeUnlessCut` excepts a place whose own removal was cut short.

Each property of a passing run has a definition marked `Mutant` beside the one it
replaces, a plausible slip in the code which makes TLC report the property.

Some properties are defined without a run of their own: the type invariants, which the
proofs use; `PortsInOrder`, `Bounded`, `LockInPlace`, `NamedVictimsAreDead`, `OwnersAreLive`,
`CapacityAccounted`, `QueueBounded`, `RelaunchesBounded` and `WatchedAreRemembered`, which are proved; and
`OneWorkspace` and `InstallsEnd`, which hold in the instances above and say less than what is run.

## 4. Fairness

Fairness is assumed only of what an event loop, a timer or a library does by itself.

- `EventStream`: weak fairness on what an event loop does with what has arrived
  (`HostContinues`, `HostAttach`, `HostPortClosed`, `HostAck`, `HostResync` in the
  host; `IssuePort` in main; `Connect`, `Disconnect`, `FlushAcks`, `Deliver` or
  `Reject` in the renderer). Node and Chromium run queued tasks and expired timers; the
  ack timer is set with each event received. A host that exits need not come back, which is why `SamePort` is
  conditional on a host that stays up.
- `SessionLock`: the next file-system call of each live host, and the passing of the claim
  window. That a host asks again is a premise of `Reclaimed`, not an assumption.
- `ToolGates`: the timer of each request that has one (`Expire`).
- `PromptIntake`: each step of a message on its way (`Proceed`: an awaited file read or an awaited
  earlier preflight settles), and that Pi takes, runs or rejects what it was handed.
- `LoopbackHost`: the deadline of a start, messages that have arrived (`MainReceives`, `Serve` or `Ignore`),
  a process that was begun comes to listen or fails, a runtime is built or fails, Pi's shutdown ends, closed
  connections are noticed and the orphan timer fires. Nothing is assumed of a stop or of wsl.exe.
- `PiInstalls`: a request ends, by its timeout at the latest, and the workers are awaited
  (`PiFairness`, for `InstallsEnd`).

Nothing is assumed of Pi, of people, or of processes failing.

## 5. Proofs

Eight modules prove, for every value of the constants that satisfies the assumptions in the modules:

| Theorem | Property | Says |
|---|---|---|
| `EventStreamProofs!TypeCorrect` | `TypeOK` | every variable of the event path keeps its shape; no negative ack count is ever sent |
| `PortsUsedInOrder` | `PortsInOrder` | ports are attached in the order they were minted and nothing is owed on one before |
| `CreditIsConserved` | `CreditConserved` | delivery credit balances across replaced ports, reloads and exits |
| `CapsHold` | `Bounded` | queue cap and delivery window hold |
| `HistoryOrFlagged` | `PrefixOrFlagged` | what the renderer has of a session is a prefix of what happened in it, or is flagged (`FencesPass`) |
| `NothingLostSilently` | `CaughtUp` | what arrived completely is shown completely, or the gap is flagged (`FencesPass`) |
| `ViewsGoOnward` | `NeverTakenBack` | no snapshot, late reply or replay makes a projection shorter, whatever the schema check refuses |
| `ProcessProofs!ExclusionWhenSerial` | `ExclusiveWhenSerial` | no two hosts hold the session unless acquisitions overlapped |
| `HolderKeepsLock` | `LockInPlace` | a holder's own named file is there until it removes it |
| `OnlyTheDeadAreRobbed` | `NamedVictimsAreDead` | whatever overlaps, a holder named as robbed is dead |
| `NoExitIsMiscounted` | `OwnExitsAreNoCrashes` | an exit main brought about is never counted as a crash, and no start twice |
| `SocketEndsAgree` | `EndsAgree` | at rest page and host hold the two ends of one socket, or none |
| `NothingRunsOnHalves` | `RunsOnWhole` | links lead to whole trees, marked bundles are whole, hosts run on both |
| `WhatWasInstalledIsFound` | `InstalledIsFound` | a Node that was installed is found by the next start |
| `TimingsProofs!RecentSpansAreTrue` | `RecentIsTrue` | the report's last spans are the last that were recorded, each under its session or under none, whatever is forgotten and given again |
| `NothingIsMiscounted` | `NothingMiscounted` | what begins is recorded once, abandoned once or open; figures of a session are of its own turns |
| `WatchedRemain` | `WatchedAreRemembered` | an open session that was prompted keeps its entry |
| `TimingsSized` | `TimingsTypeOK` | open spans and tracked sessions stay within their caps, and no index passes the size of the table |
| `LifecycleProofs!TypeCorrect` | `TypeOK` | tables, locks, markers and tasks keep their shape |
| `OneWriterOfEachFile` | `OneWriter` | no two Pi sessions of a host are of one file, and each has its lock |
| `RegisteredIsOwned` | `OwnersAreLive` | what is registered is alive, in the open workspace and locked |
| `LocksEndWithSessions` | `NoLockLeak` | no path leaves a lock behind |
| `CapacityHolds` | `CapacityAccounted` | one reservation for each session under construction, and the limit holds |
| `InterruptionsAreTrue` | `ReportsWhatDied` | a report of an interrupted tool is true, and none is missing but those the code drops |
| `PagesAreServed` | `PageIsServed` | at rest a page has the port of the running host or offers a restart |
| `WhatIsActiveIsOpen` | `ActiveIsOpen` | what the shell would go back to is open in the running host |
| `QuitsLeaveNothing` | `QuitLeavesNothing` | no host outlives a quit |
| `ToolGatesProofs!TypeCorrect` | `TypeOK` | every request, allowance and opening keeps its shape |
| `NothingRunsWithoutLeave` | `RanWithLeave` | whatever the file system and the trust, an unasked write lands in the workspace, unless its link is `Unseen`; the rest reads, runs a shell or was allowed |
| `WaitingBelongsToTheOpen` | `WaitsForTheOpen` | what is parked belongs to the present opening of an open session, with the exceptions named |
| `RequestsAreSettledOnce` | `S!Safe` | the gates implement the safety part of `Settlement` |
| `TheScreenMatches` | `ScreenMatches` | once the events have arrived, cards and question are what Pi is blocked on |
| `PromptProofs!TypeCorrect` | `TypeOK` | messages, queues and claims of the intake keep their shape |
| `PromptsInTurn` | `OneAtATime` | prompts reach Pi singly and in order |
| `QueueStaysBounded` | `QueueBounded` | what Pi has queued and what is on its way there stay within the limit together |
| `ForeignWriteIsRespected` | `ForeignWritesStop` | nothing is recorded over a foreign write that was seen |
| `WordsStayOnce` | `TypedOnce` | a word is in the draft, with Pi or on its way back, and nothing Pi has waits to be sent again |
| `MenuFollowsMention` | `MenuAnswersMention` | the menu offers what the mention calls for, whichever listing came last |
| `StopIsFreed` | `StopNotSpent` | a stop is refused no longer than its turn |
| `WorkbenchProofs!TypeCorrect` | `TypeOK` | supervisor and ledger keep their shape; launches are left for every call that waits for one |
| `BlameHolds` | `BlamedStayClosed` | what a crash is blamed on is in no list of what is brought back |
| `NoHostLeftBehind` | `NoStrayHost` | every host that lives is main's or is being stopped (`OneCall`) |
| `MainKnowsWhatIsOpen` | `LedgerMatches` | main takes for open what its host has open (`OneCall`) |
| `BudgetKept` | `RelaunchesBounded` | automatic restarts stay within the budget |
| `WhatIsListedIsWhole` | `WholeUnlessCut` | a Pi that can be chosen is complete |
| `NavigationProofs!NavigationTypes` | `WorkspaceTypeOK` | the store, the host and all that is between them keep their shape |
| `LatestChoiceHolds` | `LatestChoice` | the tab in front is the one the person chose last |
| `WindowFollows` | `WindowFollowsHost` | at rest nothing is shown as starting, and the host has open what the window shows |

The assumptions. Sizes, caps and bounds are natural numbers, positive where the code has
positive constants (`SizeAssumption`, `BoundAssumption` and their like); ports are positive numbers
(`PortAssumption`). Sets over which something is counted or chosen are finite: sessions, tasks, callers, packages, words.
Names for nobody (no root, no task, nobody, a foreign holder) are not among the things they stand beside
(`HostAssumption`, `LedgerAssumption`, `LifecycleAssumption`, `NodeAssumption`, `TimingsAssumption`, which also says that a host
opens no more sessions than the table has room for: 32 and 64, `timings.ts:553`); a tool call is no dialog (`GatesAssumption`); a
word is neither a mark of the menu nor a file (`ComposerAssumption`). `QueueCap` need not be
larger than a snapshot: the theorems also hold for a cap that overflows for ever.

Two theorems about the supervisor and two of those about the stream carry a hypothesis, because without it the property is
false. `OneCall`: at most one restart, switch or quit at a time; two that overlap launch twice (section 6). `FencesPass`:
the schema check of the preload refuses no snapshot; a refused one leaves the old numbering in place, so that what follows
it is taken for what came before. Any other event may be refused.

**Event path.** The inductive invariant is
`IInv == TypeOK /\ PortsInOrder /\ CreditConserved /\ Bounded`. Credit alone is not
inductive: when the host attaches port *n + 1* its count restarts at zero,
and that is right only if nothing is on the wire, owed or acknowledged for that port
yet. `PortsInOrder` says so, and in turn needs that acknowledgements
owed on one port are flushed before the next is connected. The proof has one lemma
per action for each conjunct (`...Type`, `PortsStep`, `...Credit`, `...Bytes`), and one that joins them.

**What the renderer has.** `Feed` describes queue, wire and projection together. Along what is still to be received
from a session (`Flow`, wire before queue) numbers rise, and behind the last snapshot the number of an event and its place in the history
differ by the same shift as the host's counter and its history do (`Told`). So an event the renderer takes either is the next one of its
projection or jumps, and a jump flags. A renderer on another port than the host receives nothing but old
events until a snapshot (`ErasPast`, `HostFits`); what it has fenced stays shown (`FencedAreShown`).

**Nothing is taken back.** `NeverTakenBack` compares a snapshot the renderer takes with all it took before, over every port there
was, so its invariant `OnwardInv` orders them all. `PortsPass`: the host is on the last port it was told of, the renderer goes from port to
port upwards, and nothing is left on a port behind it. `Ascends`: the wires in the order of their ports and then the queue carry later
registrations, or later history of the same one. `Reached`: nothing that is to come of the registration on screen falls
behind what is shown. That the host emits a snapshot only after what it had queued is what keeps `Ascends`.

**Lock.** The inductive invariant is `TypeOK` and `Serial`: acquisitions have
overlapped, or at most one host acquires (`OneAcquires`), every live owner has its file
(`OwnersHaveFiles`), and what the acquiring host found out is still so (`FindingsStand`).
The last is the heart of it: between the probe and the unlink no other host creates a
file, because creating one is acquiring. `OnlyTheDeadAreRobbed` has an invariant of its own
(`Victims`), which holds with overlap too: a name is carried past the probe only when its
process is gone, and the dead stay dead.

**Host behind WSL.** `ExitsTold`: a process main stops is marked as stopped on purpose before it can end, and a start has counted at most
one exit. `EndsPaired`: each end has at most one open socket, and what is open on one side is open, opening or already
reported closed on the other.

**Timings.** `TimingsInv` says what is true of a store between two steps (`StoreTrue`) and is proved for the operations first. `RingTrue`: each
slot tells one record, with the index its session has in the table, or with none if that was forgotten since. This needs
that an index belongs to one entry or is free (`IndexesApart`), which is why the sweep of `ForgetOne` is enough; that of a session without
an entry everything is forgotten (`OthersForgotten`), so that one that comes back starts from nothing; and that only a closed
entry is forgotten (`RoomForOne`: the table has room for all sessions a host opens, and the one that is prompted is one of them), so the
figures of a running turn stay its own. `Balanced` holds for each operation because a span that leaves is told of once; `SpansFit` has the
other half, that a turn that is open is of a live session, whose entry an abandoned turn finds without displacing another. `TableSized` is the
arithmetic the code relies on (`timings.ts:1157`): every index given is in the table or free, so the counter is taken only when none is free
and the table not full.

**Sessions.** `Owned` relates table, locks and tasks: what is registered is alive, what is alive is registered or in the hands of one task that
holds its lock, and a task that is not yet alive holds a lock of its own or none. `OneWriter` and `NoLockLeak` follow at once; neither is
inductive, because both depend on what a task does after an await. `Witnessed` carries the tool marker through adoption:
a torn marker is the last thing in its file, stands for calls of a dead host, and is read once. `WithinCapacity` counts reservations
against tasks under construction.

**Shell.** `Served`: a page without the right port has something under way that will tell it. `Kept`: what is active is among the roots
of the running host, or a switch is under way. `Left`: a quit waits for the last host there was.

**Gates.** The inductive invariant adds to `RanWithLeave` where allowances come from and how long they
stand (`AllowancesStand`: given in this opening, or in one from which on every bind failed),
the same of what waits (`CallsStand`, `DialogsStand`), that a call is never put without a
timer (`CallsHaveTimers`), and what shutdown leaves (`DownIsEmpty`). That
allowances stand is what makes an unasked call right: the gate only looks at session
and tool. The refinement follows action by action: each step puts one request, dismisses
one, grants one, or refuses a set of those that stand.

**Trays.** `ScreenMatches` speaks of an empty channel; `TrayInv` says what it means while events are on their way. A call that waits is on the
cards or an event that puts it there is coming and no later one takes it off (`WaitingCallsComeUp`); a call that is settled is not
on them or an event that removes it is coming (`SettledCallsGo`). An answer on its way that will be
installed is held to the same (`RepliesTell`): events still in the channel put it right, and an event read before it is
the exception `missed`. The cards of a session are answered for while it has a projection and the host that serves it is
connected, or a restore is under way whose snapshot will replace them (`Covered`). `QuestionInv` says the same of the dialogs that are not hidden.

**Intake.** The chain of preflights holds exactly the prompts that wait or are entering, in the order they came (`ChainFits`), and only its
first can enter; Pi's queue holds what was queued, each once; claims are counted against messages on their way. The rest is that a message
past its last look at the file saw no foreign write in either look.

**Prompt bar.** `MenuTyped`: a walk that is awaited belongs to the mention that is open, because a change of the mention leaves the old walk
among the strays. `WordsIInv` follows a word: Pi has it once (`GotOnce`); what was sent and not performed is new to Pi (`SentIsNew`); no
word is in two submits; a bar has one submit at a time (`OneSubmit`), and what the draft shares with Pi is in a submit of this bar that
was performed (`Cleaned`), so its answer will clear it. A bar that replaced another shares nothing with what the first one sent (`LeftBehind`).

**Supervisor.** `Blameless` is what `BlameHolds` needs. For the other two: calls stop what is there before they
launch (`CallsStop`, `OneHost`); the ids main has are the host's (`IdsAreFresh`, `SessionsAreHome`), and what main does not know of is
uncertain or in flight (`LateIsUncertain`, `ClosesAreKnown`, `OpenIsKnown`).

**Copies of Pi, and Node behind WSL.** One install is in flight, and a package a worker has taken is staged or in its hands
(`TakenIsStaged`), so an install that ends has all of them; a place that is cut is marked (`Wholes`). For Node: while decisions do not overlap there
is one install script, its steps come in order, what was found is linked, and one filler is at work on a bundle.

**Navigation.** A command is answered once (`Numbered`), and one at most is under way for a session (`OnePerSession`), because who asks
again joins it. `ChoiceInv`: whoever still waits in what is on screen asked under a selection that has passed, or is the only one who
asked under the present one, and then the person has had no answer since (`LastToAsk`). So an answer takes the front only for the latest
click, and a late one for an earlier click leaves it alone.
`FollowInv` says what the window at rest means while a change is under way, for each of its steps (`ChangeFits`): the directory asked for
is open beside the one on screen (`OpenedBeside`), the old one is about to be closed (`LeavingOld`) or is closed already (`Closed`), and
otherwise the host has open what the window shows or the window is about to hear of it (`Following`). A command that was given up and is
done late moves no workspace without being counted as `disturbed`; what it does to sessions does not matter here. It needs that the commands of a
change go out one by one (`OneByOne`), that a slot stands for a command under way (`SlotsUsed`) and that ids are never used twice (`IdsHold`).

Only model-checked:

- the liveness properties (`NoStall`, `Repaired`, `SamePort`, `Reclaimed`, `NoStrayLinuxHost`, `Answered`, and the liveness of
  `RequestsSettle`), which need fairness and `ENABLED`;
- `SameAsSnapshot` and `ViewsCurrent`, and that `pendingBytes` and `inFlightBytes` are the sums of what
  is listed: their models fold over a sequence of data (blocks, events), and an induction over it is out of the prover's reach.

## 6. Where code and comments differ

One run ends in a violation.

- `pi_replaced` (`main/pi/store.ts:145`). An install over an installed version moves the earlier copy aside and clears it
  before it moves the new one in. When it cannot be cleared, the new copy is deleted and neither is left, which the comment
  at 135-140 says the move aside prevents.

The others are stated in their module, as a formula under "What does not" or as a named
exception, and TLC finds a violation of each when it is checked; no run is spent on them.

Event path:

- `FreshEventsApplied` (`renderer/store/stream.ts:130`). A session is closed, which makes the host forget its sequence
  counter, and opened again, which answers with a snapshot in the reply and none on the
  port. Its events start at 1; the renderer still remembers the old number and discards
  them as replays until they pass it.
- `HolesFlagged`. `open_session` subscribes and answers with a snapshot in the
  reply. An event that follows travels on the port, reaches the renderer first and finds no
  projection. The reply then installs a baseline without it, and the next event
  is in sequence, so nothing is flagged.
- The snapshot that answers `resync_session` carries `afterGap` and sets the
  gap flag (`agent-host/session-host.ts:282`, `renderer/store/reducers/session.ts:34`)
  although the gap is repaired by it; the flag stays until the next snapshot without it.
- With the window full and a queue cap smaller than one gap event and one snapshot
  per session, `#announceGaps` breaches the cap inside itself for ever
  (`emitter.ts:168`). Snapshots of the usual size are far from it; the passing runs choose the
  cap accordingly.

Screen:

- `CallInOneBlock` (`session-host.ts:282`). A snapshot taken in the middle of a batch of calls clears
  `lastAssistantMessageId`; the next call is announced under a result message and is then in
  two messages, where `reducers/session.ts:384` says one. `StreamingIsActive` fails in the same way.
- A snapshot between the end of a tool and its result leaves the card running; a message that
  was being written at a snapshot is not seen before the next one.
- `WaitingStaysShown` (`QuestionTray.tsx:18`). A second dialog takes the first off the screen, and a reload leaves both
  parked: `QuestionShown`, the part of `ScreenMatches` about it, names the exception.
- `BlockedIsShown` (`session-store.ts:348`). A comment says that attaching emits its snapshot on the event port as well as in the reply
  (941-943); `attach` emits nothing (`session-host.ts:265-268`). An `approval_requested` that arrives before the reply of the open finds
  no projection and is dropped, and the reply, built before the request, installs a baseline without it (935-949): Pi is blocked on a call
  whose card is not there, with nothing on its way, until the next snapshot. `CardsMatch` names these as `missed`; the
  same happens with a settlement, whose card then stays.

Sessions and prompts:

- `Exclusive` (`ownership.ts:136`). Two hosts judge the same lock abandoned. The first unlinks it and
  takes the session; the second unlinks *that* lock and takes the session as well.
- A holder that releases between another host's failed create and its read makes that
  host report a lock stolen from an unreadable holder, although nobody died
  (`ownership.ts:146` against 38-42).
- `CleanUpSparesHeir` (`runtime.ts:616`). A session is closed while its extensions are being bound and opened
  again. When the first bind returns, its host is disposed of although it is no
  longer registered, and takes the marker and sequence counter of its successor with it.
- A tool that begins while the extensions are being bound, for an extension or for a prompt the registered session has accepted,
  runs before the host is subscribed (`runtime.ts:603`, `session-host.ts:265`), and no marker tells of it: the host
  that dies in it leaves no evidence (`early`, `lost`), which `tool-marker.ts` is there to leave. The timings are subscribed before the
  bind for this very reason (`runtime.ts:573`).
- `shutdown` clears the sessions and not the workspaces (`runtime.ts:840`): an adoption that is still pending registers its session afterwards, which
  lives, with its lock, until the process ends.
- An adoption removes the marker when it reads it; if it fails before it has reported (`runtime.ts:740`), nobody does (`lost`).
- `WritesStayInside` (`policy/paths.ts:31`). A path whose parent is missing is judged by its own text, and so is a
  link whose target is missing. A file in a new directory behind a link that leads out counts as inside, where
  `approval.ts:12` says such a write asks and `paths.ts:17` that every link is resolved before the comparison.
- `CloseCancels` (`runtime.ts:608`). When a bind fails, the dialogs of the session are cancelled and its approvals
  are not: a parked call and the allowances live on under the session's id.
- `ReloadedWhenIdle` (`runtime.ts:186`). `update_resources` looks for a turn before an await and reloads after it.
- `OwnWritesNotBlamed` (`session-host.ts:193`). A prompt that comes while a command that appended is at an await takes
  that append for another program's.
- `FirstDeltaIsOwn` (`timings.ts:604`). A prompt accepted during another one takes the first output of that one.
- `timings.ts:557` says that a table of exactly as many entries as sessions may be open would lose a live session's figures at every
  eviction. Closed entries go first, so it would not: `WatchedRemain` is proved for any table that has room for the sessions that may be open.

Main:

- `RootsMatch` (`recovery.ts:315`). `restart()` keeps the workspace ids of the stopped host. A workspace
  closed afterwards by its new id is still mapped from the old one, so its root is kept
  and comes back after the next restart.
- `CrashKeepsLedger` (`supervisor.ts:285`). The host dies during a restore and no automatic restart
  follows. The restore loop does not notice, takes the rejections for refusals, and
  forgets every root and every session that was still to come.
- Two overlapping `restart()` or `openWorkspace()` calls wait for the same stop
  and launch twice; `use_pi` also restarts (`main/pi/manager.ts:131`), so the overlap is
  reachable. `NoStrayHost` is violated with two members in `Jobs`; the passing run has one.
- `StopLeavesNoHost` (`wsl-launcher.ts:181`). A stop while the launcher connects closes a socket that is not there yet; the
  one that opens meanwhile is dropped without being closed, and the Linux host keeps its owner.
- `CurrentIsWhole` (`wsl-node-install.ts:78`). A half-written tree is reachable through `current`: an install over an
  installed version removes the tree the link leads to before it moves the new one in, and one of another version sweeps it away.
- `OwnTakesPrecedence` (`main/index.ts:507`). The path remembered from an earlier start is asked before anything else (`wsl-node.ts:78`), so
  until main ends a Node the person installs later does not take precedence.
- A Linux host gives itself up two seconds after binding when nobody connects, although the launcher retries until its own deadline of
  fifteen; a bridge whose socket fails is not retried; and sockets the host accepts in the wrong
  order leave the page without a live port. `EndsAgree` still holds: both ends know it.
- `FailureKept` (`manager.ts:95`). Progress of workers that are still at it overwrites the failure of an install.
- `OpenStays` (`store.ts:113`). Removal refuses the active version, not the one the running host has open.
- `LeftoversUnchosen` (`store.ts:50`). A directory that was moved aside is listed and can be chosen, and the next install sweeps it.
- `AbsentNotRetried` (`upstream.ts:93`). The error for a package that is not there is thrown inside its own `try`, caught, and the
  package is asked for again.

Shell of main (`main/index.ts`, `supervisor.ts`), the cases in `gaps`:

- A host that dies after its handshake and before the window has loaded is not restarted, and the attach returns silently: the page
  says it is connecting, for good (`supervisor.ts:162`, `index.ts:692`).
- A restart by hand that fails, and the plain start of `openTarget`, tell the page nothing (`supervisor.ts:171`, `index.ts:526`).
- A page reloaded while there is no host, or before `bootstrap` has put up its handlers, is never attached (`index.ts:719-721`).
- A failed switch keeps the old workspace as active although its host is gone; so does a restore that refused it (`index.ts:513`);
  and a workspace closed by an id newer than the one kept is not forgotten (125).
- A host that dies in a restore without an automatic relaunch: the loop notes every remaining root as failed, the active one with them
  (`supervisor.ts:287`, `recovery.ts:219`), and the restart by hand that follows restores without it while the shell keeps it as active.
- An `openTarget`, restart or dialog that is pending at the quit launches a host after the stop (`supervisor.ts:144`).

Navigation (`renderer/store/session-store.ts`), the cases marked `disturbed` in `WorkspaceView`:

- A session asked for in a workspace no host has open is refused, and the window goes on showing it as starting (269-276 against 822-826).
- The host dies in the middle of a change: the rollback's close fails, and main restores both workspaces (503).
- A restore that is refused a workspace, or loses one on the way (`supervisor.ts:284-299`, `recovery.ts:219`), leaves a host with
  other workspaces than the window shows; the ledger forgets the root, and no event tells the window.
- A `close_workspace` main gives up after its time (`host.ts:171-183`) counts as failed: the window keeps or rolls back to a
  workspace the host closes later, or adopts nothing and leaves two open.
- An `open_workspace` or `close_workspace` the host performs after main has given it up: the window was told that it failed. The late open
  moves the host, sometimes the window, and the ledger does not hear of it, so the next restart would not bring it back.
- A tab closed while its workspace is being opened anew stays as a tab of a session that is not there.
- An answer overtakes events sent before it (341).
- A second click on "New" while one is pending begins no selection of its own (156), so the first answer wins.

Prompt bar, the cases marked `mishaps` in `Composer`:

- Text typed while a submit is awaited is cleared with it (`Composer.tsx:435`), and attachments chosen meanwhile
  go too (`session-store.ts:761`).
- What an abort takes back is put into the bar of whatever session is in front when the answer comes (449), and is lost if
  the bar has gone.
- A submit whose answer is lost leaves its text in the draft although Pi has it.
- Writing a mention over a token that is no longer where it was (402-404, 565) overwrites or doubles the text between.
- What Pi has queued goes with its host, and with the tab when that is closed.
- The draft goes with the bar when the last tab is closed. That is no lost word for the code: there is nowhere to keep it.

And a stop, marked `stranded`: `abortingSessionId` is released by an event that tells the turn is over, and two ends of a turn
send none. A tab closed with its stop pending takes the projection away (`session-store.ts:680-700`), the host disposes of the
session, and the snapshot that opens it again comes as the answer to a command and does not look at the stop (935-949). A host that is lost sets every
projection "disconnected" (177-188), which the comment at 46-54 counts among what releases a stop, without releasing it. In
both, when no event says "idle" before the next turn begins, the first stop of that turn is refused (773).

Also, `rows[active]` is read without a look at the length when the command rows shrink under the
highlight (578), and a walk that was cancelled fills the listings of the next mention (234-242), which holds the directories of
the same workspace and does no harm.

## 7. What is not modelled

- The window of the shell (`window.ts`), and attachments, menus and notices of `main/index.ts`: delegation and configuration.
- Guard and router of main: checks without state, and delegation.
- Discovery, settings and resources: reads and merges of files; the reload is in `PromptIntake`.
- The contract: schemas and constants. That the renderer refuses an event is an input of `EventStream`.
- Window geometry, protocol, content policy, updates: configuration of Electron.
- Views of the renderer, theme, scripts and build: layout and tools.
- Of Pi's installation: how a plan is resolved, how a package is unpacked and checked. Of a session: the
  verdict about its file when it is opened.
The Pi SDK is an environment: events,
file writes and failures at any moment. In the modelled parts: unparseable locks and reused process
ids, more than one workspace in `SessionLifecycle`, memory pressure, the fallback launch after a
failed WSL start (`main/index.ts:527`), commands of the runtime that neither open, close nor feed a
session (names, trees, forks, exports, statistics), and commands to workspaces of an earlier host.

## 8. Plan

In this order; each module comes with its runs, and its theorems once TLC agrees.

1. `PiPlan`: the closure over dependencies in `main/pi/upstream.ts`, against a reference definition.
2. An abstract feed of one session that `EventStream` implements, and an abstract lock that `SessionLock` implements while acquisitions are serial.
