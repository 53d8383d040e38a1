------------------------------- MODULE Trays --------------------------------
(***************************************************************************)
(* The approval cards and the question the renderer shows                  *)
(* (renderer/store/session-store.ts, reducers/session.ts,                  *)
(* conversation/ApprovalTray.tsx, QuestionTray.tsx) beside the gates of    *)
(* ToolGates that wait for them.                                           *)
(*                                                                         *)
(* EventStream.tla looks inside the channel: here it keeps its order and   *)
(* loses nothing unless the window is reloaded or the host dies.  What one *)
(* step of the host settles travels as one event.  The answer to a command *)
(* comes through main and in no order with the events.                     *)
(***************************************************************************)
EXTENDS ToolGates

CONSTANTS
  MaxReloads,  \* bound: reloads of the window
  MaxInFlight  \* bound: events on their way

NoQuestion == "no question"

ASSUME TraysAssumption == NoQuestion \notin Requests /\ MaxReloads \in Nat

VARIABLES
  channel,    \* events on their way to the renderer
  projected,  \* sessions the renderer has a projection of
  closing,    \* answers of close_session on their way to the renderer
  awaited,    \* sessions this document has asked to open and the host binds
  replies,    \* answers of open_session on their way to the renderer
  connected,  \* the host has the port of this document
  owed,       \* a host took over: main restores into it, then attaches
  cards,      \* the approvals of the projections
  question,   \* AppState.extensionRequest
  reloads,
  hidden,     \* (history) dialogs that were waiting when a reload, a death of
              \* the host or a later dialog took them off the screen
  missed      \* (history) calls whose event was read before the reply that
              \* had not seen it

linkVars == <<awaited, replies, connected, owed>>
rendererVars == <<projected, closing, cards, question>>
pastVars == <<hidden, missed>>

trayVars == <<vars, channel, linkVars, rendererVars, reloads, pastVars>>

Event(name, session, requests) == [name |-> name, session |-> session, requests |-> requests]

TrayTypeOK ==
  /\ TypeOK
  /\ channel \in Seq([name : {"requested", "asked", "settled", "snapshot"},
                      session : Sessions \cup {"any"}, requests : SUBSET Requests])
  /\ projected \subseteq Sessions /\ closing \subseteq Sessions
  /\ cards \subseteq Calls
  /\ question \in Dialogs \cup {NoQuestion}
  /\ awaited \subseteq Sessions
  /\ replies \subseteq [session : Sessions, requests : SUBSET Calls]
  /\ connected \in BOOLEAN /\ owed \in BOOLEAN
  /\ hidden \subseteq Dialogs /\ missed \subseteq Calls

TrayInit ==
  /\ Init
  /\ channel = <<>>
  /\ projected = {} /\ closing = {} /\ cards = {}
  /\ question = NoQuestion
  /\ awaited = {} /\ replies = {}
  /\ connected = TRUE /\ owed = FALSE
  /\ reloads = 0 /\ hidden = {} /\ missed = {}

-----------------------------------------------------------------------------
(* The events of a step of the host.                                       *)

\* Mutant: a snapshot without the approvals that wait.
SnapshotOfHistory(s) == Event("snapshot", s, {})

\* SessionHost.snapshot with ApprovalGate.pendingFor; no dialog is in it.
Snapshot(s) == Event("snapshot", s, ParkedOf(s) \cap Calls)

\* approval_resolved and extension_ui_resolved.
Settled == IF Parked \subseteq Parked' THEN <<>> ELSE <<Event("settled", "any", Parked \ Parked')>>

Post(events) == channel' = channel \o events

Room == Len(channel) < MaxInFlight

Still == UNCHANGED <<rendererVars, reloads, pastVars>>

Quiet == Still /\ UNCHANGED linkVars

Host(action, events) == Room /\ action /\ Post(events) /\ Quiet

\* Sessions an answer is on its way about.
Answered == {r.session : r \in replies}

\* open_session or create_session of a session the renderer has no projection
\* of, one command at a time, whose document may be gone by now; and, under a
\* host that took over, whatever main restores from the ledger.
TrayRegister(s) ==
  /\ Room /\ Register(s)
  /\ \/ s \notin projected \cup awaited \cup Answered
        /\ awaited' \in {awaited, awaited \cup {s}}
     \/ owed /\ UNCHANGED awaited
  /\ UNCHANGED <<channel, replies, connected, owed>> /\ Still

Reply(s) == [session |-> s, requests |-> ParkedOf(s) \cap Calls]

\* attach: the snapshot is in the answer and nowhere else.
TrayBound(s) ==
  /\ Room /\ Bound(s)
  /\ replies' = replies \cup (IF s \in awaited THEN {Reply(s)} ELSE {})
  /\ awaited' = awaited \ {s}
  /\ UNCHANGED <<channel, connected, owed>> /\ Still

TrayBindFails(s) ==
  /\ Room /\ BindFails(s)
  /\ Post(Settled)
  /\ awaited' = awaited \ {s}
  /\ UNCHANGED <<replies, connected, owed>> /\ Still

\* open_session of a session that is attached already: a document that was
\* loaded again, or a tab that main restored.
OpenAgain(s) ==
  /\ s \in open \ (projected \cup awaited \cup Answered)
  /\ replies' = replies \cup {Reply(s)}
  /\ UNCHANGED <<vars, channel, awaited, connected, owed>> /\ Still

\* close_session is sent from a tab; its answer comes back through main.
TrayClose(s) ==
  /\ Room /\ s \in projected
  /\ CloseSession(s)
  /\ closing' = closing \cup {s}
  /\ awaited' = awaited \ {s}
  /\ Post(Settled)
  /\ UNCHANGED <<projected, cards, question, replies, connected, owed, reloads, pastVars>>

\* An answer about the session that was given before comes before it.
SessionClosed(s) ==
  /\ s \in closing \ Answered
  /\ closing' = closing \ {s}
  /\ projected' = projected \ {s}
  /\ cards' = {c \in cards : asked[c].session # s}
  /\ missed' = {c \in missed : asked[c].session # s}
  /\ UNCHANGED <<vars, channel, question, linkVars, reloads, hidden>>

\* close_workspace with its answer, which empties the projections and leaves
\* the question.
TrayCloseWorkspace ==
  /\ Room
  /\ CloseWorkspace
  /\ Post(Settled)
  /\ projected' = {} /\ cards' = {} /\ closing' = {}
  /\ awaited' = {} /\ replies' = {} /\ missed' = {}
  /\ UNCHANGED <<question, connected, owed, reloads, hidden>>

\* The renderer keeps what it shows until the next host sends snapshots; an
\* answer comes before the notice of the death or is lost.
TrayHostDies ==
  /\ HostDies
  /\ channel' = <<>> /\ closing' = {}
  /\ awaited' = {} /\ replies' = {}
  /\ connected' = FALSE /\ owed' = TRUE
  /\ hidden' = hidden \cup {d \in Dialogs : state[d] # "new"}
  /\ UNCHANGED <<projected, cards, question, reloads, missed>>

Snapshots == SetToSeq({Snapshot(s) : s \in open})

\* attachAfterRestore: what the host had to say meanwhile goes out first, then
\* onAttach resyncs every session.
TrayAttach ==
  /\ owed
  /\ owed' = FALSE /\ connected' = TRUE
  /\ Post(Snapshots)
  /\ UNCHANGED <<vars, awaited, replies>> /\ Still

TrayEvaluate(c) ==
  \E s \in Sessions, tool \in Tools, arg \in Arguments :
    Host(Evaluate(c, s, tool, arg),
         IF state'[c] = "parked" THEN <<Event("requested", s, {c})>> ELSE <<>>)

TrayAsk(d) ==
  \E s \in Sessions, standing \in Waiting \cup {"defaulted"} :
    Host(Ask(d, s, standing),
         IF standing \in Waiting THEN <<Event("asked", s, {d})>> ELSE <<>>)

\* A person answers what is on the screen.
TrayRespond(c) ==
  \E decision \in {"allow_once", "allow_for_session", "deny"} :
    c \in cards /\ Host(Respond(c, decision), Settled)

TrayAnswer(d) ==
  \E reply \in {"answered", "defaulted"} : d = question /\ Host(Answer(d, reply), Settled)

-----------------------------------------------------------------------------
(* The renderer. *)

\* A new document has nothing.  It is attached at once when the host is up,
\* which it may be before main has restored into it.
Reload ==
  /\ reloads < MaxReloads /\ ~down
  /\ reloads' = reloads + 1
  /\ \/ connected' = TRUE /\ channel' = (IF connected THEN <<>> ELSE channel) \o Snapshots
     \/ ~connected /\ UNCHANGED <<connected, channel>>
  /\ projected' = {} /\ closing' = {} /\ cards' = {}
  /\ awaited' = {} /\ replies' = {} /\ missed' = {}
  /\ question' = NoQuestion
  /\ hidden' = hidden \cup (Parked \cap Dialogs)
  /\ UNCHANGED <<vars, owed>>

\* Mutant: an answer replaces the projection there is.
ReplyReplaces(r) ==
  /\ replies' = replies \ {r}
  /\ projected' = projected \cup {r.session}
  /\ cards' = {c \in cards : asked[c].session # r.session} \cup r.requests
  /\ UNCHANGED <<vars, channel, closing, awaited, connected, owed, question, reloads, pastVars>>

\* #installSnapshot: the answer only supplies a missing projection.
ReplyArrives(r) ==
  /\ replies' = replies \ {r}
  /\ IF r.session \in projected
     THEN UNCHANGED <<projected, cards>>
     ELSE /\ projected' = projected \cup {r.session}
          /\ cards' = {c \in cards : asked[c].session # r.session} \cup r.requests
  /\ UNCHANGED <<vars, channel, closing, awaited, connected, owed, question, reloads, pastVars>>

\* The calls of the event that a reply on its way does not know the end or the
\* beginning of, and whose event has nothing to apply to.
Overtaken(event) ==
  {c \in Calls \cap event.requests :
     \E r \in replies :
       /\ r.session = asked[c].session /\ r.session \notin projected
       /\ c \in r.requests <=> event.name = "settled"}

\* An event of a session without a projection is dropped.
ApplyRequested(event) ==
  /\ event.name = "requested"
  /\ cards' = IF event.session \in projected THEN cards \cup event.requests ELSE cards
  /\ missed' = missed \cup Overtaken(event)
  /\ UNCHANGED <<projected, question, hidden>>

\* Mutant: any question goes when one is settled.
ApplyAnySettled(event) ==
  /\ event.name = "settled"
  /\ cards' = cards \ event.requests
  /\ question' = NoQuestion
  /\ missed' = missed \cup Overtaken(event)
  /\ UNCHANGED <<projected, hidden>>

ApplySettled(event) ==
  /\ event.name = "settled"
  /\ cards' = cards \ event.requests
  /\ question' = IF question \in event.requests THEN NoQuestion ELSE question
  /\ missed' = missed \cup Overtaken(event)
  /\ UNCHANGED <<projected, hidden>>

\* There is one place for a question, and the later one takes it.
ApplyAsked(event) ==
  /\ event.name = "asked"
  /\ \E d \in event.requests : question' = d
  /\ hidden' = hidden \cup ({question} \cap Parked)
  /\ UNCHANGED <<projected, cards, missed>>

ApplySnapshot(event) ==
  /\ event.name = "snapshot"
  /\ projected' = projected \cup {event.session}
  /\ cards' = {c \in cards : asked[c].session # event.session} \cup event.requests
  /\ missed' = {c \in missed : asked[c].session # event.session}
  /\ UNCHANGED <<question, hidden>>

Receive ==
  /\ connected /\ channel # <<>>
  /\ channel' = Tail(channel)
  /\ LET event == Head(channel)
     IN ApplyRequested(event) \/ ApplySettled(event) \/ ApplyAsked(event) \/ ApplySnapshot(event)
  /\ UNCHANGED <<vars, closing, linkVars, reloads>>

-----------------------------------------------------------------------------

TrayNext ==
  \/ \E s \in Sessions :
       \/ TrayRegister(s) \/ TrayBound(s) \/ TrayClose(s) \/ SessionClosed(s)
       \/ TrayBindFails(s) \/ OpenAgain(s)
       \/ Host(Abort(s), Settled)
  \/ TrayCloseWorkspace \/ TrayHostDies \/ TrayAttach
  \/ Host(Shutdown, Settled)
  \/ \E c \in Calls : TrayEvaluate(c) \/ TrayRespond(c)
  \/ \E d \in Dialogs : TrayAsk(d) \/ TrayAnswer(d)
  \/ \E r \in Requests : Host(SignalAborts(r), Settled)
  \/ Reload \/ Receive \/ \E r \in replies : ReplyArrives(r)

TraySpec == TrayInit /\ [][TrayNext]_trayVars

-----------------------------------------------------------------------------

CardsOf(s) == {c \in cards : asked[c].session = s}

\* The events have arrived.
Told == connected /\ channel = <<>>

\* policy/gate.ts:193 "the snapshot is the only thing that can put the card
\* back": once the events have arrived, the cards of an open session with a
\* projection are the calls Pi is blocked on, across reloads, failed binds and
\* restarts of the host, but for the events an answer has not seen.
CardsMatch ==
  Told => \A s \in open \cap projected :
            CardsOf(s) \ missed = (ParkedOf(s) \cap Calls) \ missed

\* The same without that exception, which the code does not keep.
BlockedIsShown == Told => \A s \in open \cap projected : CardsOf(s) = ParkedOf(s) \cap Calls

\* Once the events have arrived, a dialog that waits is on the screen, and what
\* is on the screen waits, unless a reload, a death of the host or a later
\* dialog came between.
QuestionShown ==
  Told =>
    /\ \A d \in (Parked \cap Dialogs) \ hidden : question = d
    /\ question \in Dialogs \ hidden => question \in Parked

\* Once the events have arrived, what Pi is blocked on is on the screen: the cards and the
\* question (policy/gate.ts:193, QuestionTray.tsx).
ScreenMatches == CardsMatch /\ QuestionShown

\* QuestionTray.tsx:18 "hiding a request while its promise remains parked would
\* leave the whole turn stuck": while a document lives, a question is not taken
\* off its screen while it waits.
WaitingStaysShown ==
  [][(question \in Parked \cap Parked' /\ reloads' = reloads) => question' = question]_trayVars

=============================================================================
