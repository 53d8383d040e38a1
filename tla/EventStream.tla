----------------------------- MODULE EventStream -----------------------------
(***************************************************************************)
(* The event path of Bake Pi from Pi's session to the renderer's projection*)
(* of it: the host's EventEmitter, the message ports the main process      *)
(* mints, the renderer's EventStream and the projections of its            *)
(* SessionStore, with the commands that travel through the main process    *)
(* beside the events (open_session, close_session, resync_session).        *)
(*                                                                         *)
(* Commands and events use different channels and are not ordered with     *)
(* respect to each other.                                                  *)
(***************************************************************************)
EXTENDS EventEmitter

CONSTANTS
  MaxHistory,     \* bound: content events per session
  MaxOpens,       \* bound: registrations per session
  MaxReloads,     \* bound: renderer reloads
  MaxExits,       \* bound: host exits
  MaxCompactions, \* bound: replacements of a session's history
  MaxRejects,     \* bound: events the renderer's schema check refuses
  MaxAckCount,    \* MAX_EVENT_ACK_COUNT
  Rejectable      \* the kinds of event that may fail the schema check

ASSUME BoundAssumption ==
  /\ {MaxHistory, MaxOpens, MaxReloads, MaxExits, MaxCompactions, MaxRejects} \subseteq Nat
  /\ MaxAckCount \in Nat \ {0}
  /\ Rejectable \subseteq Kinds

VARIABLES
  \* main process
  hostUp,         \* the host process runs
  issued,         \* ports minted so far
  taken,          \* ports the host has attached or that died with an earlier host
  owed,           \* attachEventChannel calls main has still to make
  inbox,          \* what main posted to the renderer: a port, or 0 = disconnected
  openEnd,        \* ports whose renderer end is not closed
  acks,           \* events the ack messages under way to the host pay for, per port
  requests,       \* resync_session commands under way
  cmd,            \* the open or close command of a session, and its answer
  reply,          \* the history carried by the snapshot in an open_session reply
  orphans,        \* commands whose document is gone: their answer goes nowhere
  \* renderer
  rport,          \* EventStream.#port; 0 is undefined
  lastSequence,   \* EventStream.#lastSequence; 0 is an absent entry
  awaiting,       \* EventStream.#awaitingResync
  pendingAcks,    \* EventStream.#pendingAcks
  shown,          \* the sessions SessionStore.#projections holds
  view,           \* the content events a projection is made of, in order
  gap,            \* SessionState.gap of a projection
  fenced,         \* (history) inc of the snapshot event a projection is based on
  budget          \* what is left of the bounds above

hostVars == <<phase, inc, hist>>
mainVars == <<hostUp, issued, taken, owed>>
commandVars == <<requests, cmd, reply, orphans>>
intakeVars == <<rport, lastSequence, awaiting, pendingAcks>>
projectionVars == <<shown, view, gap, fenced>>
channelVars == <<inbox, openEnd, acks>>
rendererVars == <<intakeVars, projectionVars>>

vars == <<hostVars, emitterVars, mainVars, commandVars, channelVars,
          rendererVars, budget>>

Commands == {"idle", "open", "binding", "opened", "close", "closed"}

Budget == [reloads : 0..MaxReloads, exits : 0..MaxExits,
           compactions : 0..MaxCompactions, rejects : 0..MaxRejects]

MainTypeOK ==
  /\ hostUp \in BOOLEAN
  /\ issued \in Nat
  /\ taken \in Nat
  /\ owed \in Nat
  /\ inbox \in Seq(Ports \cup {0})
  /\ openEnd \in SUBSET Ports
  /\ acks \in [Ports -> Nat]
  /\ requests \in Seq(Sessions)
  /\ cmd \in [Sessions -> Commands]
  /\ reply \in [Sessions -> Nat]
  /\ orphans \in SUBSET Sessions
  /\ budget \in Budget

RendererTypeOK ==
  /\ rport \in Ports \cup {0}
  /\ lastSequence \in [Sessions -> Nat]
  /\ awaiting \in SUBSET Sessions
  /\ pendingAcks \in Nat
  /\ shown \in SUBSET Sessions
  /\ view \in [Sessions -> Seq(Nat)]
  /\ gap \in [Sessions -> BOOLEAN]
  /\ fenced \in [Sessions -> Nat]

TypeOK == EmitterTypeOK /\ MainTypeOK /\ RendererTypeOK

History(n) == [i \in 1..n |-> i]

Init ==
  /\ phase = [s \in Sessions |-> "closed"]
  /\ inc = [s \in Sessions |-> 0]
  /\ hist = [s \in Sessions |-> 0]
  /\ sequences = [s \in Sessions |-> 0]
  /\ pending = <<>> /\ pendingBytes = 0
  /\ inFlight = <<>> /\ inFlightBytes = 0
  /\ dropped = {}
  /\ hport = 0
  /\ todo = <<>>
  /\ wire = [p \in Ports |-> <<>>]
  /\ hostUp = TRUE
  /\ issued = 0 /\ taken = 0 /\ owed = 1
  /\ inbox = <<>>
  /\ openEnd = Ports
  /\ acks = [p \in Ports |-> 0]
  /\ requests = <<>>
  /\ cmd = [s \in Sessions |-> "idle"]
  /\ reply = [s \in Sessions |-> 0]
  /\ orphans = {}
  /\ rport = 0
  /\ lastSequence = [s \in Sessions |-> 0]
  /\ awaiting = {}
  /\ pendingAcks = 0
  /\ shown = {}
  /\ view = [s \in Sessions |-> <<>>]
  /\ gap = [s \in Sessions |-> FALSE]
  /\ fenced = [s \in Sessions |-> 0]
  /\ budget = [reloads |-> MaxReloads, exits |-> MaxExits,
               compactions |-> MaxCompactions, rejects |-> MaxRejects]

Spend(what) ==
  /\ budget[what] > 0
  /\ budget' = [budget EXCEPT ![what] = @ - 1]

-----------------------------------------------------------------------------
(* The agent host.                                                         *)

HostIdle == hostUp /\ Quiescent

\* A Pi event that changes the session, mapped by SessionHost.#onPiEvent.
PiEvent(s) ==
  /\ HostIdle
  /\ phase[s] = "live"
  /\ hist[s] < MaxHistory
  /\ hist' = [hist EXCEPT ![s] = @ + 1]
  /\ Emit(ContentEvent(s), <<>>)
  /\ UNCHANGED <<phase, inc, mainVars, commandVars, channelVars, rendererVars, budget>>

\* compaction_end: the history was rewritten, so the session is re-fenced.
CompactionEnd(s) ==
  /\ HostIdle
  /\ phase[s] = "live"
  /\ Spend("compactions")
  /\ todo' = <<ResyncTask(s, FALSE)>>
  /\ UNCHANGED <<hostVars, sequences, pending, pendingBytes, inFlight, inFlightBytes,
                 dropped, hport, wire, mainVars, commandVars, channelVars, rendererVars>>

\* The rest of an entry point that has begun.
HostContinues ==
  /\ hostUp
  /\ \/ Post(openEnd)
     \/ AnnounceGap
     \/ Resync
     \/ ReleaseOne
  /\ UNCHANGED <<mainVars, commandVars, channelVars, rendererVars, budget>>

\* event_port: the host attaches the next port main sent it and closes the
\* one before, with the acks it had not read.
HostAttach ==
  /\ hostUp
  /\ taken < issued
  /\ taken' = taken + 1
  /\ Attach(taken + 1)
  /\ acks' = [p \in Ports |-> IF p <= taken THEN 0 ELSE acks[p]]
  /\ UNCHANGED <<hostUp, issued, owed, commandVars, inbox, openEnd, rendererVars, budget>>

\* Mutant: any port's close event gives up the port in use.
HostAnyPortClosed ==
  /\ hostUp
  /\ hport # 0 /\ \E p \in 1..taken : p \notin openEnd
  /\ PortClosed
  /\ UNCHANGED <<mainVars, commandVars, channelVars, rendererVars, budget>>

HostPortClosed ==
  /\ hostUp
  /\ hport # 0 /\ hport \notin openEnd
  /\ PortClosed
  /\ UNCHANGED <<mainVars, commandVars, channelVars, rendererVars, budget>>

\* event_ack: a message pays for at most MaxAckCount events.
HostAck ==
  /\ hostUp
  /\ hport # 0
  /\ \E count \in 1..MaxAckCount :
       /\ count <= acks[hport]
       /\ Acknowledge(count)
       /\ acks' = [acks EXCEPT ![hport] = @ - count]
  /\ UNCHANGED <<mainVars, commandVars, inbox, openEnd, rendererVars, budget>>

\* resync_session: a session the host does not hold is refused.
HostResync ==
  /\ HostIdle
  /\ requests # <<>>
  /\ requests' = Tail(requests)
  /\ todo' = IF phase[Head(requests)] = "closed"
             THEN <<>>
             ELSE <<ResyncTask(Head(requests), TRUE)>>
  /\ UNCHANGED <<hostVars, sequences, pending, pendingBytes, inFlight, inFlightBytes,
                 dropped, hport, wire, mainVars, cmd, reply, orphans, channelVars,
                 rendererVars, budget>>

\* The answer to a command reaches the document that sent it, or nobody.
Answer(s, answer) ==
  /\ cmd' = [cmd EXCEPT ![s] = IF s \in orphans THEN "idle" ELSE answer]
  /\ orphans' = orphans \ {s}

\* attach(): subscribe to the session and answer with a snapshot of it.
AttachSession(s) ==
  /\ phase' = [phase EXCEPT ![s] = "live"]
  /\ reply' = [reply EXCEPT ![s] = hist[s]]
  /\ Answer(s, "opened")

\* open_session: a session in the table is attached at once.  Another is
\* adopted and registered, silent until something subscribes to it, while
\* the command awaits bindExtensions ...
HostOpen(s) ==
  /\ HostIdle
  /\ cmd[s] = "open"
  /\ IF phase[s] = "closed"
     THEN /\ inc[s] < MaxOpens
          /\ inc' = [inc EXCEPT ![s] = @ + 1]
          /\ phase' = [phase EXCEPT ![s] = "registered"]
          /\ cmd' = [cmd EXCEPT ![s] = "binding"]
          /\ UNCHANGED <<reply, orphans>>
     ELSE AttachSession(s) /\ UNCHANGED inc
  /\ UNCHANGED <<hist, emitterVars, mainVars, requests, channelVars,
                 rendererVars, budget>>

\* ... and is attached after it.
HostOpened(s) ==
  /\ HostIdle
  /\ cmd[s] = "binding"
  /\ AttachSession(s)
  /\ UNCHANGED <<inc, hist, emitterVars, mainVars, requests, channelVars,
                 rendererVars, budget>>

\* close_session: dispose of the session and forget its counter.
HostClose(s) ==
  /\ HostIdle
  /\ cmd[s] = "close"
  /\ IF phase[s] = "closed"
     THEN /\ Answer(s, "idle")
          /\ UNCHANGED <<hostVars, emitterVars>>
     ELSE /\ Answer(s, "closed")
          /\ phase' = [phase EXCEPT ![s] = "closed"]
          /\ ForgetSession(s)
          /\ UNCHANGED <<inc, hist>>
  /\ UNCHANGED <<mainVars, requests, reply, channelVars, rendererVars, budget>>

-----------------------------------------------------------------------------
(* The main process.                                                       *)

\* attachEventChannel: one end to the host, the other to the renderer.
IssuePort ==
  /\ hostUp
  /\ owed > 0
  /\ issued + 1 \in Ports
  /\ owed' = owed - 1
  /\ issued' = issued + 1
  /\ inbox' = Append(inbox, issued + 1)
  /\ UNCHANGED <<hostVars, emitterVars, hostUp, taken, commandVars, openEnd, acks,
                 rendererVars, budget>>

\* The host process ends: by itself, which main announces to the renderer,
\* or because main is restarting it, which main does not.  Commands fail,
\* and Pi reads back no more of each session than it had written.
HostExit(announced) ==
  /\ hostUp
  /\ Spend("exits")
  /\ hostUp' = FALSE
  /\ sequences' = [s \in Sessions |-> 0]
  /\ pending' = <<>> /\ pendingBytes' = 0
  /\ inFlight' = <<>> /\ inFlightBytes' = 0
  /\ dropped' = {}
  /\ hport' = 0
  /\ todo' = <<>>
  /\ \E written \in [Sessions -> 0..MaxHistory] :
       /\ \A s \in Sessions : written[s] <= hist[s]
       /\ hist' = written
  /\ taken' = issued
  /\ owed' \in 0..owed
  /\ inbox' = IF announced THEN Append(inbox, 0) ELSE inbox
  /\ requests' = <<>>
  /\ cmd' = [s \in Sessions |-> IF cmd[s] \in {"open", "binding", "close"}
                                THEN "idle" ELSE cmd[s]]
  /\ orphans' = {}
  /\ acks' = [p \in Ports |-> 0]
  /\ UNCHANGED <<phase, inc, wire, issued, reply, openEnd, rendererVars>>

\* A new host: main restores sessions of the last one before it attaches.
HostStart ==
  /\ ~hostUp
  /\ hostUp' = TRUE
  /\ \E restored \in SUBSET {s \in Sessions : phase[s] # "closed" /\ inc[s] < MaxOpens} :
       /\ phase' = [s \in Sessions |-> IF s \in restored THEN "live" ELSE "closed"]
       /\ inc' = [s \in Sessions |-> IF s \in restored THEN inc[s] + 1 ELSE inc[s]]
  /\ owed' = owed + 1
  /\ UNCHANGED <<hist, emitterVars, issued, taken, commandVars, channelVars,
                 rendererVars, budget>>

-----------------------------------------------------------------------------
(* The renderer.                                                           *)

\* The host end of a port is open until the host replaces it or exits.
HostEndOpen(p) == hostUp /\ (p = hport \/ p > taken)

Flushed == IF rport # 0 /\ HostEndOpen(rport)
           THEN [acks EXCEPT ![rport] = @ + pendingAcks]
           ELSE acks

\* Mutant: every ack message pays for MaxAckCount events.
UnflushedWhole ==
  IF rport = 0 THEN pendingAcks
  ELSE 0 - ((MaxAckCount - (pendingAcks % MaxAckCount)) % MaxAckCount)

Unflushed == IF rport = 0 THEN pendingAcks ELSE 0

\* The ack timer fires: flushAcks cuts what is owed into messages the host
\* will accept.
FlushAcks ==
  /\ pendingAcks > 0
  /\ acks' = Flushed
  /\ pendingAcks' = Unflushed
  /\ UNCHANGED <<hostVars, emitterVars, mainVars, commandVars, inbox, openEnd, rport,
                 lastSequence, awaiting, projectionVars, budget>>

\* Closing the renderer's end of a port discards what it had not received.
ClosePorts(closing) ==
  /\ openEnd' = openEnd \ closing
  /\ wire' = [p \in Ports |-> IF p \in closing THEN <<>> ELSE wire[p]]

\* EventStream.connect: acks go out on the old port before it is closed.
Connect ==
  /\ inbox # <<>> /\ Head(inbox) # 0
  /\ inbox' = Tail(inbox)
  /\ acks' = Flushed
  /\ pendingAcks' = Unflushed
  /\ rport' = Head(inbox)
  /\ ClosePorts({rport})
  /\ UNCHANGED <<hostVars, sequences, pending, pendingBytes, inFlight, inFlightBytes,
                 dropped, hport, todo, mainVars, commandVars, lastSequence, awaiting,
                 projectionVars, budget>>

\* The `disconnected' notice: SessionStore calls EventStream.disconnect.  The
\* notice is handled as it comes; a port is posted on to the page first, so the
\* notice may overtake ports sent before it.
Disconnect ==
  /\ \E i \in DOMAIN inbox :
       /\ inbox[i] = 0 /\ \A j \in 1..(i - 1) : inbox[j] # 0
       /\ inbox' = RemoveAt(inbox, i)
  /\ acks' = Flushed
  /\ pendingAcks' = Unflushed
  /\ rport' = 0
  /\ ClosePorts({rport})
  /\ lastSequence' = [s \in Sessions |-> 0]
  /\ awaiting' = {}
  /\ UNCHANGED <<hostVars, sequences, pending, pendingBytes, inFlight, inFlightBytes,
                 dropped, hport, todo, mainVars, commandVars, projectionVars, budget>>

\* The renderer document is replaced: everything it held is gone, with the
\* ports sent to it.  did-finish-load attaches the new document.
Reload ==
  /\ Spend("reloads")
  /\ inbox' = <<>>
  /\ ClosePorts(1..issued)
  /\ rport' = 0
  /\ lastSequence' = [s \in Sessions |-> 0]
  /\ awaiting' = {}
  /\ pendingAcks' = 0
  /\ shown' = {}
  /\ view' = [s \in Sessions |-> <<>>]
  /\ gap' = [s \in Sessions |-> FALSE]
  /\ fenced' = [s \in Sessions |-> 0]
  /\ cmd' = [s \in Sessions |-> IF cmd[s] \in {"opened", "closed"} THEN "idle" ELSE cmd[s]]
  /\ orphans' = {s \in Sessions : cmd[s] \in {"open", "binding", "close"}}
  /\ owed' = IF hostUp THEN owed + 1 ELSE owed
  /\ UNCHANGED <<hostVars, sequences, pending, pendingBytes, inFlight, inFlightBytes,
                 dropped, hport, todo, hostUp, issued, taken, requests, reply, acks>>

-----------------------------------------------------------------------------
(* EventStream.#receive and what SessionStore.#applyEvent does with it.    *)

\* Mutant: a snapshot supplies a baseline and never replaces one.
ApplyFirstSnapshot(e) ==
  /\ shown' = shown \cup {e.session}
  /\ view' = IF e.session \in shown
             THEN view ELSE [view EXCEPT ![e.session] = History(e.id)]
  /\ gap' = [gap EXCEPT ![e.session] = e.afterGap]
  /\ fenced' = [fenced EXCEPT ![e.session] = e.inc]

\* A snapshot replaces the projection, or is the first the store has.
ApplySnapshot(e) ==
  /\ shown' = shown \cup {e.session}
  /\ view' = [view EXCEPT ![e.session] = History(e.id)]
  /\ gap' = [gap EXCEPT ![e.session] = e.afterGap]
  /\ fenced' = [fenced EXCEPT ![e.session] = e.inc]

\* An event for a session with no projection has nothing to apply to.
ApplyContent(e) ==
  view' = IF e.session \in shown /\ e.kind = "content"
          THEN [view EXCEPT ![e.session] = Append(@, e.id)]
          ELSE view

\* Mutant: off by one.
JumpsFar(e) == lastSequence[e.session] # 0 /\ e.sequence > lastSequence[e.session] + 2

Jumps(e) == lastSequence[e.session] # 0 /\ e.sequence > lastSequence[e.session] + 1

\* Mutant: the session is not crossed off when its snapshot comes.
StillAwaiting(e) == awaiting

AwaitingAfterFence(e) == awaiting \ {e.session}

Receive(e) ==
  IF e.kind = "session_snapshot"
  THEN /\ lastSequence' = [lastSequence EXCEPT ![e.session] = e.sequence]
       /\ awaiting' = AwaitingAfterFence(e)
       /\ ApplySnapshot(e)
       /\ UNCHANGED requests
  ELSE IF e.sequence <= lastSequence[e.session]
  THEN UNCHANGED <<lastSequence, awaiting, requests, projectionVars>>
  ELSE /\ lastSequence' = [lastSequence EXCEPT ![e.session] = e.sequence]
       /\ LET reported == Jumps(e) /\ e.session \notin awaiting
          IN /\ awaiting' = IF reported THEN awaiting \cup {e.session} ELSE awaiting
             /\ requests' = IF reported /\ hostUp
                            THEN Append(requests, e.session) ELSE requests
             /\ gap' = [gap EXCEPT ![e.session] =
                          @ \/ (e.session \in shown /\ (reported \/ e.kind = "stream_gap"))]
       /\ ApplyContent(e)
       /\ UNCHANGED <<shown, fenced>>

CanDeliver == rport # 0 /\ wire[rport] # <<>>

\* Every message is acknowledged, applied or not.
Taken ==
  /\ wire' = [wire EXCEPT ![rport] = Tail(@)]
  /\ pendingAcks' = pendingAcks + 1
  /\ UNCHANGED <<hostVars, sequences, pending, pendingBytes, inFlight, inFlightBytes,
                 dropped, hport, todo, mainVars, channelVars, rport, cmd, reply, orphans>>

Deliver ==
  /\ CanDeliver
  /\ Receive(Head(wire[rport]))
  /\ Taken
  /\ UNCHANGED budget

\* acceptEvent refuses the event.
Reject ==
  /\ CanDeliver
  /\ Head(wire[rport]).kind \in Rejectable
  /\ Spend("rejects")
  /\ Taken
  /\ UNCHANGED <<lastSequence, awaiting, requests, projectionVars>>

\* openSession sends the command only for a session with no projection.
RequestOpen(s) ==
  /\ hostUp
  /\ cmd[s] = "idle"
  /\ s \notin shown
  /\ phase[s] # "closed" \/ inc[s] < MaxOpens
  /\ cmd' = [cmd EXCEPT ![s] = "open"]
  /\ UNCHANGED <<hostVars, emitterVars, mainVars, requests, reply, orphans, channelVars,
                 rendererVars, budget>>

\* Mutant: the reply replaces the projection the event port supplied.
InstallReply(s) ==
  /\ cmd[s] = "opened"
  /\ cmd' = [cmd EXCEPT ![s] = "idle"]
  /\ shown' = shown \cup {s}
  /\ view' = [view EXCEPT ![s] = History(reply[s])]
  /\ gap' = [gap EXCEPT ![s] = FALSE]
  /\ UNCHANGED <<hostVars, emitterVars, mainVars, requests, reply, orphans, channelVars,
                 intakeVars, fenced, budget>>

\* installSnapshot: the reply only supplies a missing baseline.
InstallSnapshot(s) ==
  /\ cmd[s] = "opened"
  /\ cmd' = [cmd EXCEPT ![s] = "idle"]
  /\ shown' = shown \cup {s}
  /\ IF s \in shown
     THEN UNCHANGED <<view, gap, fenced>>
     ELSE /\ view' = [view EXCEPT ![s] = History(reply[s])]
          /\ gap' = [gap EXCEPT ![s] = FALSE]
          /\ fenced' = [fenced EXCEPT ![s] = 0]
  /\ UNCHANGED <<hostVars, emitterVars, mainVars, requests, reply, orphans, channelVars,
                 intakeVars, budget>>

RequestClose(s) ==
  /\ hostUp
  /\ cmd[s] = "idle"
  /\ s \in shown
  /\ cmd' = [cmd EXCEPT ![s] = "close"]
  /\ UNCHANGED <<hostVars, emitterVars, mainVars, requests, reply, orphans, channelVars,
                 rendererVars, budget>>

\* close_session succeeded: the projection follows.  The stream keeps the
\* session's last sequence number.
CloseProjection(s) ==
  /\ cmd[s] = "closed"
  /\ cmd' = [cmd EXCEPT ![s] = "idle"]
  /\ shown' = shown \ {s}
  /\ view' = [view EXCEPT ![s] = <<>>]
  /\ gap' = [gap EXCEPT ![s] = FALSE]
  /\ fenced' = [fenced EXCEPT ![s] = 0]
  /\ UNCHANGED <<hostVars, emitterVars, mainVars, requests, reply, orphans, channelVars,
                 intakeVars, budget>>

-----------------------------------------------------------------------------

SessionStep(s) ==
  \/ PiEvent(s) \/ CompactionEnd(s)
  \/ HostOpen(s) \/ HostOpened(s) \/ HostClose(s)
  \/ RequestOpen(s) \/ InstallSnapshot(s)
  \/ RequestClose(s) \/ CloseProjection(s)

Next ==
  \/ \E s \in Sessions : SessionStep(s)
  \/ HostContinues \/ HostAttach \/ HostPortClosed \/ HostAck \/ HostResync
  \/ IssuePort \/ HostStart \/ \E announced \in BOOLEAN : HostExit(announced)
  \/ Connect \/ Disconnect \/ Reload
  \/ FlushAcks \/ Deliver \/ Reject

Spec == Init /\ [][Next]_vars

\* The host keeps running what it has begun and what arrives; main attaches
\* the renderer it owes a port; the renderer's event loop keeps turning.
\* Nothing makes Pi produce events, people open tabs or processes fail.
Fairness ==
  /\ WF_vars(HostContinues)
  /\ WF_vars(HostAttach)
  /\ WF_vars(HostPortClosed)
  /\ WF_vars(HostAck)
  /\ WF_vars(HostResync)
  /\ WF_vars(IssuePort)
  /\ WF_vars(Connect)
  /\ WF_vars(Disconnect)
  /\ WF_vars(FlushAcks)
  /\ WF_vars(Deliver \/ Reject)

FairSpec == Spec /\ Fairness

-----------------------------------------------------------------------------
(* Properties.                                                             *)

\* A projection based on a snapshot that came through the event port and
\* was taken of the session as the host holds it now.
Fenced(s) ==
  hostUp /\ phase[s] = "live" /\ s \in shown /\ fenced[s] = inc[s]

\* Nothing is on its way to the renderer and the host has nothing left to do.
Quiet ==
  /\ hostUp /\ hport # 0 /\ hport = rport
  /\ pending = <<>> /\ todo = <<>> /\ wire[hport] = <<>>
  /\ requests = <<>>

CreditsReleasing == IF Releasing THEN Len(todo) ELSE 0

\* Events of the host's port that someone still has to credit: posted and not
\* received, received and not acknowledged, acknowledged and not yet counted.
Uncredited ==
  Len(wire[hport]) + (IF rport = hport THEN pendingAcks ELSE 0)
    + acks[hport] + CreditsReleasing

\* Delivery credit is conserved: through replaced ports, reloads, refused
\* events and coalesced acks, the host's window counts exactly the events the
\* renderer has still to pay for (emitter.ts #drain, #acknowledge; stream.ts
\* #queueAck).  Credit that leaked would close the window for good; credit
\* paid twice, or for an earlier port, would let the host outrun the renderer.
CreditConserved ==
  hport # 0 =>
    /\ Uncredited <= Len(inFlight)
    /\ hport \in openEnd => Uncredited = Len(inFlight)

\* The two caps hold whatever is emitted, replaced or lost: the queue never
\* exceeds its cap, and unacknowledged bytes never exceed the window unless
\* they are those of one envelope that travels alone (#buffer, #drain).
Bounded ==
  /\ pendingBytes <= QueueCap
  /\ \/ inFlightBytes <= Window
     \/ \E kind \in Kinds : inFlightBytes <= Bytes(kind)

\* What CreditConserved rests on: the host's port is one it has attached, no
\* port is used before the host attached it, and nothing is owed on none.
PortsInOrder ==
  /\ taken <= issued
  /\ 1..issued \subseteq Ports
  /\ hport # 0 => hostUp /\ hport <= taken
  /\ \A p \in Ports : p > taken => wire[p] = <<>> /\ acks[p] = 0
  /\ rport = 0 \/ rport > taken => pendingAcks = 0

\* A snapshot of s that will replace whatever the projection holds.
SnapshotOnItsWay(s) ==
  \/ \E i \in DOMAIN wire[rport] :
       wire[rport][i].session = s /\ wire[rport][i].kind = "session_snapshot"
  \/ \E i \in DOMAIN pending :
       pending[i].envelope.session = s /\ pending[i].envelope.kind = "session_snapshot"
  \/ \E i \in DOMAIN todo : todo[i].op # "release" /\ todo[i].session = s

\* Host and renderer use the same port and no snapshot of s is under way.
Settled(s) == hport # 0 /\ hport = rport /\ ~SnapshotOnItsWay(s)

\* No silent hole, no duplicate: once a snapshot event has fenced a session
\* and no later one is coming, its projection is its history up to some point,
\* or the projection is flagged and a resync has been asked for (stream.ts
\* #receive).  Before the next snapshot there can be a hole: attach flushes
\* what was queued ahead of the snapshot that re-fences the session, and a
\* port replaced meanwhile may have taken the events before those.
PrefixOrFlagged ==
  \A s \in Sessions :
    Fenced(s) /\ Settled(s)
      => \/ view[s] = History(Len(view[s]))
         \/ gap[s] /\ s \in awaiting

\* Nothing is lost silently: a fenced session whose last event arrived shows
\* all of its history as soon as the stream is quiet.
CaughtUp ==
  \A s \in Sessions :
    Quiet /\ Fenced(s) /\ s \notin awaiting /\ lastSequence[s] = sequences[s]
      => view[s] = History(hist[s])

\* A projection is never taken back: while the host holds the same session,
\* no snapshot, late reply or replayed event makes a fenced projection shorter
\* (emitter.ts attach, "after the flush, never before"; session-store.ts
\* #installSnapshot, "replaying the slower reply would erase them").
NeverTakenBack ==
  [][\A s \in Sessions :
       Fenced(s) /\ Fenced(s)' /\ inc[s] = inc'[s]
         => Len(view[s]) <= Len(view'[s])]_vars

\* Credit flows: what waits in the host's queue for a renderer that is there
\* is sent, unless one of the two leaves the port.
NoStall ==
  \A p \in Ports :
    (hport = p /\ rport = p /\ pending # <<>>)
      ~> (pending = <<>> \/ hport # p \/ rport # p)

\* A gap the renderer noticed is repaired: the resync it asks for, or the
\* fence a new port brings, reaches it (stream.ts #reportGap).
Repaired ==
  \A s \in Sessions : (s \in awaiting /\ Fenced(s)) ~> (s \notin awaiting \/ ~Fenced(s))

\* However ports are minted, replaced and dropped, a host that stays up and
\* the renderer end on the same port.
SamePort ==
  (<>[]hostUp) => <>[](hport # 0 /\ hport = rport)

-----------------------------------------------------------------------------
(* What comments and documents of the program say, and the code does not do. *)

\* stream.ts: "On receiving one, replace the projection and treat its sequence
\* as a fence: discard any later replay at or below that sequence, and apply
\* only events above it."  The next event of what a projection shows, of the
\* session the host holds and with no snapshot to come, is not discarded.
FreshEventsApplied ==
  [][\A s \in Sessions :
       LET e == Head(wire[rport])
       IN  (/\ Deliver /\ hostUp /\ e.session = s /\ e.kind = "content"
            /\ s \in shown /\ Settled(s) /\ e.inc = inc[s] /\ e.id = Len(view[s]) + 1)
             => view'[s] = Append(view[s], e.id)]_vars

\* stream.ts: the rule "makes events arriving during snapshot construction
\* neither lost nor applied twice".  When all is quiet, a projection with a
\* hole is flagged.
HolesFlagged ==
  \A s \in shown :
    Quiet /\ phase[s] = "live" => view[s] = History(Len(view[s])) \/ gap[s]

=============================================================================
