-------------------------- MODULE SessionLifecycle --------------------------
(***************************************************************************)
(* How the agent host opens, adopts, creates and closes sessions           *)
(* (packages/agent-host/src/runtime.ts), with what it keeps beside a       *)
(* session file: the lock and the marker of running tools                  *)
(* (session/ownership.ts, session/tool-marker.ts).                         *)
(*                                                                         *)
(* A command handler is an async function: it runs to its next await in    *)
(* one step, and other commands and Pi events run before the next one.     *)
(* Each open_session or create_session is a task, and the SessionHost it   *)
(* builds is known by its task.                                            *)
(*                                                                         *)
(* The lock is atomic here: SessionLock.tla looks inside it.  One          *)
(* directory is opened as a workspace, any number of times, with a new     *)
(* workspace id each time.                                                 *)
(***************************************************************************)
EXTENDS Integers, FiniteSets

CONSTANTS
  Sessions,     \* session ids
  OnDisk,       \* those that have a file when the model starts
  Tasks,        \* open_session and create_session commands
  Calls,        \* ids of tool calls
  MaxOpen,      \* MAX_OPEN_SESSIONS
  MaxOpenings,  \* bound: how often the directory is opened as a workspace
  MaxDeaths,    \* bound: deaths of this host process
  MaxForeign    \* bound: sessions another Bake Pi host takes

Free == "free"

Stale == "stale"      \* the lock of a dead process

Foreign == "foreign"  \* another live host

NoTask == "none"

Torn == "torn"        \* a marker that cannot be read

ASSUME LifecycleAssumption ==
  /\ OnDisk \subseteq Sessions /\ Sessions # {}
  /\ {Free, Stale, Foreign, NoTask} \cap Tasks = {}
  /\ Torn \notin Calls
  /\ IsFiniteSet(Sessions) /\ IsFiniteSet(Tasks)
  /\ MaxOpen \in Nat \ {0}
  /\ {MaxOpenings, MaxDeaths, MaxForeign} \subseteq Nat

VARIABLES
  workspace,   \* the id the directory is open under; 0 is closed
  minted,      \* workspace ids used
  existing,    \* sessions that have a file
  step,        \* where a task is suspended
  who,         \* the session of a task
  under,       \* the workspace id a task was started under
  table,       \* runtime.ts `sessions': the task whose SessionHost is registered
  reserved,    \* Capacity.#reservedSessions
  alive,       \* tasks whose Pi session has been built and not disposed of
  heard,       \* tasks whose SessionHost is subscribed to its Pi session
  calls,       \* ToolMarker.#calls of a task's SessionHost
  early,       \* calls that began before a task's SessionHost was subscribed
  carried,     \* the interrupted tools an adoption has read
  lock,        \* who holds the lock of a session file
  marker,      \* the calls in the marker beside a session file; none is no file
  numbered,    \* sessions the emitter keeps a sequence counter for
  deaths,      \* deaths of this process so far
  takeovers,   \* sessions taken by another host so far
  unreported,  \* (history) calls that were running when a process died
  lost         \* (history) those of which no trace was left, or none kept

taskVars == <<step, who, under, carried>>
hostVars == <<table, alive, heard, calls, early>>
diskVars == <<existing, lock, marker>>
historyVars == <<unreported, lost>>
boundVars == <<deaths, takeovers>>

vars == <<workspace, minted, taskVars, hostVars, reserved, numbered, diskVars,
          historyVars, boundVars>>

Steps == {"none", "locating", "building", "binding", "announcing", "open", "done"}

TypeOK ==
  /\ workspace \in 0..MaxOpenings /\ minted \in 0..MaxOpenings
  /\ existing \in SUBSET Sessions
  /\ step \in [Tasks -> Steps]
  /\ who \in [Tasks -> Sessions]
  /\ under \in [Tasks -> 0..MaxOpenings]
  /\ table \in [Sessions -> Tasks \cup {NoTask}]
  /\ reserved \in Nat
  /\ alive \in SUBSET Tasks /\ heard \in SUBSET Tasks
  /\ calls \in [Tasks -> SUBSET Calls] /\ early \in [Tasks -> SUBSET Calls]
  /\ carried \in [Tasks -> SUBSET (Calls \cup {Torn})]
  /\ lock \in [Sessions -> Tasks \cup {Free, Stale, Foreign}]
  /\ marker \in [Sessions -> SUBSET (Calls \cup {Torn})]
  /\ numbered \in SUBSET Sessions
  /\ deaths \in 0..MaxDeaths /\ takeovers \in 0..MaxForeign
  /\ unreported \in [Sessions -> SUBSET Calls]
  /\ lost \in [Sessions -> SUBSET Calls]

Init ==
  /\ workspace = 0 /\ minted = 0
  /\ existing = OnDisk
  /\ step = [t \in Tasks |-> "none"]
  /\ who = [t \in Tasks |-> CHOOSE s \in Sessions : TRUE]
  /\ under = [t \in Tasks |-> 0]
  /\ table = [s \in Sessions |-> NoTask]
  /\ reserved = 0
  /\ alive = {} /\ heard = {}
  /\ calls = [t \in Tasks |-> {}] /\ early = calls
  /\ carried = [t \in Tasks |-> {}]
  /\ lock = [s \in Sessions |-> Free]
  /\ marker = [s \in Sessions |-> {}]
  /\ numbered = {}
  /\ deaths = 0 /\ takeovers = 0
  /\ unreported = [s \in Sessions |-> {}]
  /\ lost = [s \in Sessions |-> {}]

Move(t, to) == step' = [step EXCEPT ![t] = to]

Registered(t) == table[who[t]] = t

Holds(t) == lock[who[t]] = t

\* The calls a report of `seen' stands for: a torn marker stands for whatever
\* was running.
Named(seen) == IF Torn \in seen THEN Calls ELSE seen

-----------------------------------------------------------------------------
(* Tasks: open_session and create_session.                                 *)

\* Mutant: one session too many.
AdmitsOneMore == Cardinality({s \in Sessions : table[s] # NoTask}) + reserved <= MaxOpen

\* Capacity.reserveSession: what is registered and what is being built count.
Admits == Cardinality({s \in Sessions : table[s] # NoTask}) + reserved < MaxOpen

Start(t, s, first) ==
  /\ step[t] = "none"
  /\ workspace # 0
  /\ Admits
  /\ reserved' = reserved + 1
  /\ Move(t, first)
  /\ who' = [who EXCEPT ![t] = s]
  /\ under' = [under EXCEPT ![t] = workspace]

\* open_session of a session that is not registered: its file has to be found,
\* which may take an await.
OpenSession(t, s) ==
  /\ s \in existing
  /\ table[s] = NoTask
  /\ Start(t, s, "locating")
  /\ UNCHANGED <<workspace, minted, carried, hostVars, numbered, diskVars, historyVars,
                 boundVars>>

\* open_session of a registered session: attach, which subscribes.
Attach(s) ==
  /\ table[s] # NoTask
  /\ heard' = heard \cup {table[s]}
  /\ UNCHANGED <<workspace, minted, taskVars, table, alive, calls, early, reserved, numbered,
                 diskVars, historyVars, boundVars>>

\* create_session: Pi starts a session with a new id, and writes no file yet.
CreateSession(t, s) ==
  /\ s \notin existing /\ \A u \in Tasks : step[u] = "none" \/ who[u] # s
  /\ Start(t, s, "building")
  /\ alive' = alive \cup {t}
  /\ UNCHANGED <<workspace, minted, carried, table, heard, calls, early, numbered,
                 diskVars, historyVars, boundVars>>

\* Mutant: the release of a reservation is not idempotent.
UnclaimedTwice == reserved - 2

Unclaimed == reserved - 1

\* Mutant: a failed adoption keeps the lock.
Unreleased(t) == lock

Released(t) == IF Holds(t) THEN [lock EXCEPT ![who[t]] = Free] ELSE lock

\* A task that fails before its host is registered: what it built is disposed
\* of, its lock and its reservation are released.  The interruption it read
\* from the marker goes unreported.
Fail(t) ==
  /\ Move(t, "done")
  /\ reserved' = Unclaimed
  /\ alive' = alive \ {t}
  /\ lock' = Released(t)
  /\ carried' = [carried EXCEPT ![t] = {}]
  /\ lost' = [lost EXCEPT ![who[t]] = @ \cup (unreported[who[t]] \cap Named(carried[t]))]
  /\ UNCHANGED <<workspace, minted, existing, who, under, table, heard, calls, early,
                 marker, numbered, unreported, boundVars>>

\* Mutant: a lock this very host holds, for another open of the session, is passed over.
LockIsFree(s) == lock[s] # Foreign

LockFree(s) == lock[s] \in {Free, Stale}

\* adoptLocatedSession: the lock, then the marker, which is read and removed,
\* then Pi opens the file.
Locate(t) ==
  /\ step[t] = "locating"
  /\ LockFree(who[t])
  /\ lock' = [lock EXCEPT ![who[t]] = t]
  /\ carried' = [carried EXCEPT ![t] = marker[who[t]]]
  /\ marker' = [marker EXCEPT ![who[t]] = {}]
  /\ alive' = alive \cup {t}
  /\ Move(t, "building")
  /\ UNCHANGED <<workspace, minted, existing, who, under, table, heard, calls, early,
                 reserved, numbered, historyVars, boundVars>>

\* The session is not found, its header is unreadable, or its lock is taken.
Refuse(t) ==
  /\ step[t] = "locating"
  /\ Fail(t)

\* hostFor up to the registration.
\* Mutant: the workspace is not looked at again after Pi has built.
BuildsOn(t) == TRUE

StillOpen(t) == workspace = under[t]

Register(t) ==
  /\ step[t] = "building"
  /\ StillOpen(t)
  /\ Holds(t) \/ LockFree(who[t])
  /\ lock' = [lock EXCEPT ![who[t]] = t]
  /\ table' = [table EXCEPT ![who[t]] = t]
  /\ reserved' = Unclaimed
  /\ Move(t, "binding")
  /\ UNCHANGED <<workspace, minted, existing, who, under, carried, alive, heard, calls,
                 early, marker, numbered, historyVars, boundVars>>

\* Pi fails to build, the workspace has been closed, or a new session's lock is
\* taken.
GiveUp(t) ==
  /\ step[t] = "building"
  /\ Fail(t)

\* assertStillOwned
StillOwned(t) == StillOpen(t) /\ Registered(t)

\* bindExtensions returns, and resources are announced next.
Bound(t) ==
  /\ step[t] = "binding"
  /\ StillOwned(t)
  /\ Move(t, "announcing")
  /\ UNCHANGED <<workspace, minted, who, under, carried, hostVars, reserved, numbered,
                 diskVars, historyVars, boundVars>>

\* The adoption is complete: interrupted tools are reported, and the session
\* attached.
Announced(t) ==
  /\ step[t] = "announcing"
  /\ StillOwned(t)
  /\ Move(t, "open")
  /\ heard' = heard \cup {t}
  /\ unreported' = [unreported EXCEPT ![who[t]] = @ \ Named(carried[t])]
  /\ lost' = [lost EXCEPT ![who[t]] = @ \ Named(carried[t])]
  /\ carried' = [carried EXCEPT ![t] = {}]
  /\ UNCHANGED <<workspace, minted, who, under, table, alive, calls, early, reserved,
                 numbered, diskVars, boundVars>>

-----------------------------------------------------------------------------
(* SessionHost.dispose, of each of some tasks' hosts: the marker file goes,  *)
(* the sequence counter goes, Pi's session goes and, if this host has not   *)
(* released it before, the lock.                                            *)

Dispose(closing) ==
  /\ alive' = alive \ closing
  /\ heard' = heard \ closing
  /\ calls' = [t \in Tasks |-> IF t \in closing THEN {} ELSE calls[t]]
  /\ early' = [t \in Tasks |-> IF t \in closing THEN {} ELSE early[t]]
  /\ marker' = [s \in Sessions |-> IF \E t \in closing : who[t] = s THEN {} ELSE marker[s]]
  /\ numbered' = numbered \ {who[t] : t \in closing}
  /\ lock' = [s \in Sessions |-> IF lock[s] \in closing THEN Free ELSE lock[s]]

Unregister(closing) ==
  /\ table' = [s \in Sessions |-> IF table[s] \in closing THEN NoTask ELSE table[s]]
  /\ step' = [t \in Tasks |-> IF t \in closing /\ step[t] = "open" THEN "done" ELSE step[t]]

Running(s) == UNION {calls[t] : t \in {u \in alive : who[u] = s}}

\* What runs without a marker.
Unmarked(s) == UNION {early[t] : t \in {u \in alive : who[u] = s}}

\* What is lost with a marker that is not one's own.
DroppedWith(s) == Named(marker[s]) \cap (unreported[s] \cup Running(s))

\* The catch of hostFor: the bind failed, or this host is not the one
\* registered any more.  The host is disposed of in both cases.
CleanUp(t) ==
  /\ step[t] \in {"binding", "announcing"}
  /\ Move(t, "done")
  /\ table' = IF Registered(t) THEN [table EXCEPT ![who[t]] = NoTask] ELSE table
  /\ Dispose({t})
  /\ carried' = [carried EXCEPT ![t] = {}]
  /\ lost' = [lost EXCEPT ![who[t]] =
                @ \cup (unreported[who[t]] \cap Named(carried[t]))
                  \cup IF Registered(t) THEN {} ELSE DroppedWith(who[t])]
  /\ UNCHANGED <<workspace, minted, existing, who, under, reserved, unreported, boundVars>>

Closing(closing) ==
  /\ Dispose(closing)
  /\ Unregister(closing)
  /\ UNCHANGED <<minted, existing, who, under, carried, reserved, historyVars, boundVars>>

CloseSession(s) ==
  /\ table[s] # NoTask
  /\ Closing({table[s]})
  /\ UNCHANGED workspace

OpenWorkspace ==
  /\ workspace = 0
  /\ minted < MaxOpenings
  /\ minted' = minted + 1
  /\ workspace' = minted + 1
  /\ UNCHANGED <<taskVars, hostVars, reserved, numbered, diskVars, historyVars, boundVars>>

CloseWorkspace ==
  /\ workspace # 0
  /\ Closing({t \in Tasks : Registered(t) /\ under[t] = workspace})
  /\ workspace' = 0

\* shutdown: every session goes, the workspaces stay.
Shutdown ==
  /\ \E t \in Tasks : Registered(t)
  /\ Closing({t \in Tasks : Registered(t)})
  /\ UNCHANGED workspace

-----------------------------------------------------------------------------
(* Tools.  Pi runs them in batches; a SessionHost that is subscribed writes  *)
(* the marker as they begin and end, and emits an event each time.  One that  *)
(* is not subscribed yet hears nothing: a tool may run for an extension, or   *)
(* for a prompt, while the extensions are being bound.  Call ids are not used *)
(* again.                                                                    *)

\* A call id that nothing that ran or runs in the session has.
Fresh(t, c) == c \notin unreported[who[t]] \cup calls[t] \cup early[t]

WriteMarker(t, running) ==
  /\ calls' = [calls EXCEPT ![t] = running]
  /\ marker' = [marker EXCEPT ![who[t]] = running]
  /\ UNCHANGED <<workspace, minted, taskVars, table, alive, heard, reserved, lock,
                 historyVars, boundVars>>

\* A tool is called by an assistant message, with which the session has a file.
ToolStart(t, c) ==
  /\ t \in heard
  /\ Fresh(t, c)
  /\ WriteMarker(t, calls[t] \cup {c})
  /\ numbered' = numbered \cup {who[t]}
  /\ existing' = existing \cup {who[t]}
  /\ UNCHANGED early

\* Mutant: the file goes with the first call of a batch that ends.
ToolEndOfBatch(t, c) ==
  /\ t \in heard
  /\ c \in calls[t]
  /\ calls' = [calls EXCEPT ![t] = @ \ {c}]
  /\ marker' = [marker EXCEPT ![who[t]] = {}]
  /\ UNCHANGED <<workspace, minted, taskVars, table, alive, heard, early, reserved,
                 existing, lock, numbered, historyVars, boundVars>>

ToolEnd(t, c) ==
  /\ t \in heard
  /\ c \in calls[t]
  /\ WriteMarker(t, calls[t] \ {c})
  /\ numbered' = numbered \cup {who[t]}
  /\ UNCHANGED <<existing, early>>

\* A tool that begins before the host is subscribed.
ToolStartUnheard(t, c) ==
  /\ Registered(t) /\ t \notin heard
  /\ Fresh(t, c)
  /\ early' = [early EXCEPT ![t] = @ \cup {c}]
  /\ existing' = existing \cup {who[t]}
  /\ UNCHANGED <<workspace, minted, taskVars, table, alive, heard, calls, reserved, numbered,
                 lock, marker, historyVars, boundVars>>

\* It ends: the marker does not know it and is not written.
ToolEndUnheard(t, c) ==
  /\ c \in early[t]
  /\ early' = [early EXCEPT ![t] = @ \ {c}]
  /\ numbered' = IF t \in heard THEN numbered \cup {who[t]} ELSE numbered
  /\ UNCHANGED <<workspace, minted, taskVars, table, alive, heard, calls, reserved, diskVars,
                 historyVars, boundVars>>

\* agent_settled: nothing runs any more.
Settled(t) ==
  /\ t \in heard
  /\ WriteMarker(t, {})
  /\ early' = [early EXCEPT ![t] = {}]
  /\ numbered' = numbered \cup {who[t]}
  /\ UNCHANGED existing

-----------------------------------------------------------------------------
(* This host process dies and another takes its place; and a host of another *)
(* Bake Pi that opens a session, runs a tool in it, and closes it or dies.   *)

\* A marker that was being written may be left torn.
Die ==
  /\ deaths < MaxDeaths
  /\ deaths' = deaths + 1
  /\ workspace' = 0
  /\ step' = [t \in Tasks |-> IF step[t] = "none" THEN "none" ELSE "done"]
  /\ table' = [s \in Sessions |-> NoTask]
  /\ reserved' = 0
  /\ alive' = {} /\ heard' = {} /\ numbered' = {}
  /\ calls' = [t \in Tasks |-> {}] /\ early' = calls'
  /\ carried' = [t \in Tasks |-> {}]
  /\ lock' = [s \in Sessions |-> IF lock[s] \in Tasks THEN Stale ELSE lock[s]]
  /\ \E torn \in SUBSET {s \in Sessions : table[s] # NoTask /\ calls[table[s]] # {}} :
       marker' = [s \in Sessions |-> IF s \in torn THEN {Torn} ELSE marker[s]]
  /\ unreported' = [s \in Sessions |-> unreported[s] \cup Running(s) \cup Unmarked(s)]
  /\ lost' = [s \in Sessions |->
       lost[s] \cup Unmarked(s) \cup
         UNION {unreported[s] \cap Named(carried[t]) : t \in {u \in Tasks : who[u] = s}}]
  /\ UNCHANGED <<minted, existing, who, under, takeovers>>

ForeignOpen(s) ==
  /\ s \in existing
  /\ LockFree(s)
  /\ takeovers < MaxForeign
  /\ takeovers' = takeovers + 1
  /\ lock' = [lock EXCEPT ![s] = Foreign]
  /\ marker' = [marker EXCEPT ![s] = {}]
  /\ unreported' = [unreported EXCEPT ![s] = @ \ Named(marker[s])]
  /\ lost' = [lost EXCEPT ![s] = @ \ Named(marker[s])]
  /\ UNCHANGED <<workspace, minted, taskVars, hostVars, reserved, numbered, existing, deaths>>

ForeignTool(s, c) ==
  /\ lock[s] = Foreign
  /\ c \notin unreported[s]
  /\ marker' = [marker EXCEPT ![s] = {c}]
  /\ UNCHANGED <<workspace, minted, taskVars, hostVars, reserved, numbered, existing, lock,
                 historyVars, boundVars>>

ForeignClose(s) ==
  /\ lock[s] = Foreign
  /\ lock' = [lock EXCEPT ![s] = Free]
  /\ marker' = [marker EXCEPT ![s] = {}]
  /\ UNCHANGED <<workspace, minted, taskVars, hostVars, reserved, numbered, existing,
                 historyVars, boundVars>>

ForeignDeath(s) ==
  /\ lock[s] = Foreign
  /\ lock' = [lock EXCEPT ![s] = Stale]
  /\ unreported' = [unreported EXCEPT ![s] = @ \cup marker[s]]
  /\ UNCHANGED <<workspace, minted, taskVars, hostVars, reserved, numbered, existing, marker,
                 lost, boundVars>>

-----------------------------------------------------------------------------

TaskStep(t) ==
  \/ \E s \in Sessions : OpenSession(t, s) \/ CreateSession(t, s)
  \/ Locate(t) \/ Refuse(t) \/ Register(t) \/ GiveUp(t)
  \/ Bound(t) \/ Announced(t) \/ CleanUp(t)
  \/ \E c \in Calls : ToolStart(t, c) \/ ToolEnd(t, c)
  \/ \E c \in Calls : ToolStartUnheard(t, c) \/ ToolEndUnheard(t, c)
  \/ Settled(t)

ForeignStep(s) ==
  ForeignOpen(s) \/ (\E c \in Calls : ForeignTool(s, c)) \/ ForeignClose(s) \/ ForeignDeath(s)

Next ==
  \/ \E t \in Tasks : TaskStep(t)
  \/ \E s \in Sessions : Attach(s) \/ CloseSession(s) \/ ForeignStep(s)
  \/ OpenWorkspace \/ CloseWorkspace \/ Shutdown \/ Die

Spec == Init /\ [][Next]_vars

-----------------------------------------------------------------------------
(* Properties.                                                             *)

\* One writer: no two Pi sessions of this host have the same session file, and
\* one that has a file holds its lock; a new session has no file until it is
\* registered (runtime.ts hostFor, "Claim the file before anything can write
\* through it").
OneWriter ==
  \A t \in alive :
    /\ \A u \in alive : who[t] = who[u] => t = u
    /\ Holds(t) \/ (step[t] = "building" /\ who[t] \notin existing)

\* What is registered is alive, in the workspace that is open, and holds its
\* lock: a task that comes back after its workspace or its session was closed
\* does not bring it back (runtime.ts hostFor, "a late host must not resurrect
\* ownership that close_workspace already removed").
OwnersAreLive ==
  \A s \in Sessions :
    table[s] # NoTask =>
      /\ table[s] \in alive /\ who[table[s]] = s
      /\ lock[s] = table[s]
      /\ under[table[s]] = workspace

\* A lock does not outlive the session it was taken for, on any path (runtime.ts
\* adoptLocatedSession, "The lock must not outlive a failed adoption").
NoLockLeak == \A t \in Tasks : Holds(t) => t \in alive

\* Capacity counts every session under construction exactly once, and admits
\* no more than the limit however many are being built at once (budget.ts
\* reserveSession).
CapacityAccounted ==
  /\ reserved = Cardinality({t \in Tasks : step[t] \in {"locating", "building"}})
  /\ reserved + Cardinality({s \in Sessions : table[s] # NoTask}) <= MaxOpen

Evidence(s) ==
  Named(marker[s]) \cup UNION {Named(carried[t]) : t \in {u \in Tasks : who[u] = s}}

\* A call the host has heard begin, running or cut short by its death, is in the
\* marker or has been read by an adoption that has still to report it.  The ones
\* that get lost are those that began before the host was subscribed, those an
\* adoption dropped that failed after it read the marker, and those of a session
\* whose marker a late cleanup removed (tool-marker.ts).
EvidenceKept ==
  \A s \in Sessions : unreported[s] \cup Running(s) \subseteq Evidence(s) \cup lost[s]

\* Nothing is reported as interrupted that was not running when a host died:
\* an orderly close leaves no marker behind (session-host.ts dispose, "An orderly
\* shutdown is not an interruption").
NoFalseAlarm ==
  \A t \in Tasks :
    carried[t] # {} => unreported[who[t]] # {} /\ carried[t] \ {Torn} \subseteq unreported[who[t]]

\* What an open reports as interrupted is what was running when a host died: nothing its
\* host had heard begin is forgotten, but on the two paths that drop it, and nothing else is
\* reported, across crashes, closes and failed adoptions (tool-marker.ts, session-host.ts
\* attach, dispose).
ReportsWhatDied == EvidenceKept /\ NoFalseAlarm

\* runtime.ts hostFor: "Only clean up the registration that is still ours".  A
\* cleanup that comes late leaves the marker and the sequence counter of whoever
\* has the session by then.  The code does not keep this promise.
CleanUpSparesHeir ==
  [][\A t \in Tasks :
       CleanUp(t) /\ ~Registered(t)
         => /\ marker'[who[t]] = marker[who[t]]
            /\ who[t] \in numbered => who[t] \in numbered']_vars

=============================================================================
