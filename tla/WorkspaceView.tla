---------------------------- MODULE WorkspaceView ----------------------------
(***************************************************************************)
(* The store of the renderer (session-store.ts) and its navigation: which   *)
(* workspace is open, which sessions have a tab and which one is in front,  *)
(* while commands are answered late or given up, events come on a channel   *)
(* of their own, and the host may die and be brought back.                  *)
(*                                                                         *)
(* Main and the host are one party here: what it does for a command is one  *)
(* step.  Answers come to the renderer in the order in which they are given, *)
(* and so do events, but nothing orders one against the other.  How a        *)
(* session is projected is SessionProjection.                               *)
(***************************************************************************)
EXTENDS Naturals, Sequences, FiniteSets, SequencesExt, FiniteSetsExt

CONSTANTS
  Directories,  \* roots of workspaces; all of one runtime
  AllSessions,  \* sessions there are or will be
  DirectoryOf,  \* the directory of each
  Archived,     \* those that exist from the start
  MaxClicks,    \* bound: what the person does
  Overdue,      \* bound: the numbers of the commands main may give up; 0 for those of a restore
  MaxDeaths,    \* bound: deaths of the host
  MaxResyncs    \* bound: snapshots sent for a gap or a compaction

NoSession == "no session"
NoDirectory == "no root"
NoWorkspace == [id |-> 0, root |-> NoDirectory]  \* ids start at 1
NoSessions == [s \in {} |-> NoWorkspace]

ASSUME WorkspaceAssumption ==
  /\ DirectoryOf \in [AllSessions -> Directories] /\ Archived \subseteq AllSessions
  /\ IsFiniteSet(AllSessions) /\ NoDirectory \notin Directories
  /\ Overdue \subseteq Nat /\ {MaxClicks, MaxDeaths, MaxResyncs} \subseteq Nat

VARIABLES
  view,        \* the store: workspace, generations, tabs, the tab in front, slots of commands
  remembered,  \* preferences.ts: the session last selected in each directory
  change,      \* the workspace change that is under way
  changes,     \* those that wait for it
  calls,       \* commands that have not been answered
  replies,     \* answers on their way
  events,      \* events on the port
  peer,        \* the host: what is open, or was when it died, and the commands main has given
               \* up; and what main keeps to restore
  archive,     \* sessions on disk
  count,       \* clicks, deaths, resyncs, ids and commands so far
  goal,        \* (history) the session the person chose last, once it has been answered
  disturbed    \* (history) an answer has overtaken an event sent before it, the host died
               \* in the middle of a change, a tab was closed in a workspace that had been
               \* replaced meanwhile, a session was asked for where no host has it open, main
               \* gave up the closing of a workspace, a host opened or closed one after main
               \* had given it up, or a restore left open others than had been

workspaceVars ==
  <<view, remembered, change, changes, calls, replies, events, peer, archive, count, goal, disturbed>>

-----------------------------------------------------------------------------
Workspaces == [id : Nat, root : Directories]
SomeWorkspace == Workspaces \cup {NoWorkspace}
SomeSession == AllSessions \cup {NoSession}

Views ==
  [workspace : SomeWorkspace, generation : Nat, selection : Nat, resume : SomeSession, tabs : SUBSET SomeSession,
   active : SomeSession, starting : BOOLEAN, start : Nat, opens : SUBSET Nat]
Waiters == [workspace : SomeWorkspace, generation : Nat, selection : Nat, click : Nat]
Asks ==
  [n : Nat, root : Directories \cup {NoDirectory}, id : Nat, session : SomeSession, waiters : SUBSET Waiters,
   kind : {"open_workspace", "close_workspace", "list_sessions", "open_session", "create_session", "close_session"}]
Answers == [n : Nat, ok : BOOLEAN, ahead : Nat, value : [workspace : SomeWorkspace, session : SomeSession]]
Events == [name : {"workspace_changed", "session_snapshot"}, workspace : Workspaces, session : SomeSession]
WorkspaceChanges == [op : {"open"}, root : Directories] \cup [op : {"close"}, root : {NoDirectory}]
IsPlacement(f) == \E S \in SUBSET AllSessions : f \in [S -> Workspaces]
LedgerFits(k) ==
  /\ k \in [roots : {k.roots}, ids : SUBSET Workspaces, sessions : {k.sessions}]
  /\ IsPlacement(k.sessions) /\ IsFiniteSet(DOMAIN k.roots) /\ \E S \in SUBSET Directories : k.roots \in [S -> Nat]
Steps == {"none", "asked", "leaving", "rolling back", "listing", "resuming"}

WorkspaceTypeOK ==
  /\ view \in Views /\ remembered \in [Directories -> SomeSession]
  /\ change \in [op : {"none", "open", "close"}, step : Steps, target : SomeWorkspace, generation : Nat, call : Nat]
  /\ changes \in Seq(WorkspaceChanges)
  /\ calls \subseteq Asks
  /\ \A c \in calls : /\ c.kind = "open_workspace" => c.root \in Directories
                      /\ c.kind = "open_session" => c.session \in AllSessions
  /\ replies \in Seq(Answers) /\ events \in Seq(Events)
  /\ peer \in [up : BOOLEAN, open : SUBSET Workspaces, active : SomeWorkspace, sessions : {peer.sessions},
               late : SUBSET Asks, kept : {peer.kept}]
  /\ IsPlacement(peer.sessions) /\ IsFiniteSet(peer.open) /\ LedgerFits(peer.kept)
  /\ \A c \in peer.late : /\ c.kind = "open_workspace" => c.root \in Directories
                          /\ c.kind = "open_session" => c.session \in AllSessions
  /\ \A s \in DOMAIN peer.sessions : peer.sessions[s].root = DirectoryOf[s]
  /\ archive \subseteq AllSessions
  /\ count \in [clicks : Nat, deaths : Nat, resyncs : Nat, ids : Nat, calls : Nat]
  /\ goal \in SomeSession /\ disturbed \in BOOLEAN

-----------------------------------------------------------------------------
(* The store. *)

\* Mutant: the generation is not compared.
OwnsById(v, w, gen) == v.workspace.id = w.id

\* #ownsWorkspace.
OwnsWorkspace(v, w, gen) == v.generation = gen /\ v.workspace.id = w.id

\* #clearWorkspaceState, and what #replaceWorkspace does before it.
Replaced(v, w) ==
  [workspace |-> w, generation |-> v.generation + 1, selection |-> 0,
   resume |-> IF w = NoWorkspace THEN NoSession ELSE remembered[w.root],
   tabs |-> {}, active |-> NoSession, starting |-> FALSE, start |-> 0, opens |-> {}]

\* #beginSelection.
Selecting(v) == [v EXCEPT !.resume = NoSession, !.selection = @ + 1]

\* #installSnapshot, with #activateSession.
Installed(v, s, activate) ==
  [v EXCEPT !.tabs = @ \cup {s}, !.active = IF activate THEN s ELSE @]

Remember(v, s) ==
  IF v.workspace = NoWorkspace THEN remembered ELSE [remembered EXCEPT ![v.workspace.root] = s]

\* #applyEvent: workspace_changed.
Pending == change.op = "open"

OnWorkspace(v, w) ==
  LET same == v.workspace.root = w.root
  IN CASE v.workspace = w -> v
       [] same /\ v.workspace # w -> [v EXCEPT !.workspace = w, !.generation = @ + 1, !.start = 0, !.opens = {}]
       [] ~same -> IF Pending /\ v.workspace # NoWorkspace THEN v ELSE Replaced(v, w)

\* #applyEvent: session_snapshot.
OnSnapshot(v, s, id) ==
  LET first == v.selection = 0 /\ (v.active = NoSession \/ s = v.resume)
  IN IF v.workspace.id # id THEN v
     ELSE [v EXCEPT !.tabs = @ \cup {s}, !.active = IF first THEN s ELSE @,
                    !.resume = IF @ = s THEN NoSession ELSE @]

-----------------------------------------------------------------------------
(* Commands. *)

NoSlot == 0
NextCall == count.calls + 1

Command(kind, root, id, s, waiters) ==
  [n |-> NextCall, kind |-> kind, root |-> root, id |-> id, session |-> s, waiters |-> waiters]

OpenWorkspace(root) == Command("open_workspace", root, 0, NoSession, {})
CloseWorkspace(w) == Command("close_workspace", NoDirectory, w.id, NoSession, {})

\* Who waits for an answer: where it was asked, under which selection, and with
\* which click; 0 when nobody clicked.
Waiter(v, click) == [workspace |-> v.workspace, generation |-> v.generation, selection |-> v.selection, click |-> click]

Clicked == [count EXCEPT !.clicks = @ + 1]
Called(c) == [c EXCEPT !.calls = @ + 1]

MayClick == count.clicks < MaxClicks

\* Promise continuations run before anything else does.
Continued == change.op # "none" \/ changes = <<>>

NoChange == [op |-> "none", step |-> "none", target |-> NoWorkspace, generation |-> 0, call |-> 0]

Advanced(to, target, generation, call) ==
  [op |-> change.op, step |-> to, target |-> target, generation |-> generation, call |-> call]

RendererOnly == UNCHANGED <<events, peer, archive>>

\* chooseWorkspace, reopenRecentWorkspace, createWorkspace, closeWorkspace.
AskForWorkspace(op, root) ==
  /\ MayClick /\ Continued
  /\ op = "close" => view.workspace # NoWorkspace
  /\ changes' = Append(changes, [op |-> op, root |-> root])
  /\ count' = Clicked
  /\ UNCHANGED <<view, remembered, change, calls, replies, goal>> /\ RendererOnly /\ UNCHANGED disturbed

\* #queueWorkspaceChange: one after the other.
StartChange ==
  /\ change.op = "none" /\ changes # <<>>
  /\ changes' = Tail(changes)
  /\ LET c == Head(changes)
         skip == c.op = "close" /\ view.workspace = NoWorkspace
         ask == IF c.op = "open" THEN OpenWorkspace(c.root) ELSE CloseWorkspace(view.workspace)
     IN IF skip THEN UNCHANGED <<change, calls, count>>
        ELSE /\ change' = [op |-> c.op, step |-> "asked", target |-> view.workspace, generation |-> 0, call |-> NextCall]
             /\ calls' = calls \cup {ask} /\ count' = Called(count)
  /\ UNCHANGED <<view, remembered, replies, goal>> /\ RendererOnly /\ UNCHANGED disturbed

\* selectSession, of a session that has a tab.
SelectTab(s) ==
  /\ MayClick /\ Continued /\ s \in view.tabs
  /\ view' = [Selecting(view) EXCEPT !.active = s]
  /\ remembered' = Remember(view, s)
  /\ goal' = s /\ count' = Clicked
  /\ UNCHANGED <<change, changes, calls, replies>> /\ RendererOnly /\ UNCHANGED disturbed

\* #openSession without a projection: one command for all who ask for a session.
Opening(v, s, click) ==
  LET w == Waiter(v, click)
      running == {c \in calls : c.kind = "open_session" /\ c.session = s /\ c.n \in v.opens}
  IN IF running # {}
     THEN [calls |-> {IF c \in running THEN [c EXCEPT !.waiters = @ \cup {w}] ELSE c : c \in calls},
           opens |-> v.opens, call |-> (CHOOSE c \in running : TRUE).n, sent |-> FALSE]
     ELSE [calls |-> calls \cup {Command("open_session", NoDirectory, 0, s, {w})},
           opens |-> v.opens \cup {NextCall}, call |-> NextCall, sent |-> TRUE]

\* openSession: from the list of sessions.
OpenSession(s) ==
  /\ MayClick /\ Continued
  /\ s \in archive \ view.tabs /\ DirectoryOf[s] = view.workspace.root
  /\ LET v == Selecting(view)
         o == Opening(v, s, Clicked.clicks)
     IN /\ view' = [v EXCEPT !.opens = o.opens]
        /\ calls' = o.calls /\ count' = IF o.sent THEN Called(Clicked) ELSE Clicked
  /\ goal' = NoSession
  /\ UNCHANGED <<remembered, change, changes, replies>> /\ RendererOnly /\ UNCHANGED disturbed

\* createSession, newSession: one at a time.
NewSession ==
  /\ MayClick /\ Continued /\ view.workspace # NoWorkspace
  /\ LET v == [Selecting(view) EXCEPT !.starting = TRUE, !.start = NextCall]
         ask == Command("create_session", NoDirectory, view.workspace.id, NoSession, {Waiter(v, Clicked.clicks)})
     IN IF view.start # NoSlot THEN count' = Clicked /\ UNCHANGED <<view, calls>>
        ELSE view' = v /\ calls' = calls \cup {ask} /\ count' = Called(Clicked)
  /\ goal' = NoSession
  /\ UNCHANGED <<remembered, change, changes, replies>> /\ RendererOnly
  /\ disturbed' = (disturbed \/ ~peer.up \/ view.workspace \notin peer.open)

\* closeSession: the host is told first.
CloseTab(s) ==
  /\ MayClick /\ Continued /\ s \in view.tabs
  /\ LET v == IF view.active = s THEN Selecting(view) ELSE view
     IN /\ view' = v
        /\ calls' = calls \cup {Command("close_session", NoDirectory, 0, s, {Waiter(v, 0)})}
  /\ goal' = IF view.active = s THEN NoSession ELSE goal
  /\ count' = Called(Clicked)
  /\ UNCHANGED <<remembered, change, changes, replies>> /\ RendererOnly /\ UNCHANGED disturbed

-----------------------------------------------------------------------------
(* The host, and main. *)

HostOnly == UNCHANGED <<view, remembered, change, changes, goal>> /\ Continued

\* Every answer knows how many events are on their way before it.
Reply(c, ok, w, s, before) ==
  [n |-> c.n, ok |-> ok, value |-> [workspace |-> w, session |-> s], ahead |-> Len(before)]

Done(c) == replies' = Append(replies, Reply(c, TRUE, NoWorkspace, NoSession, events))
RefuseCommand(c) ==
  /\ replies' = Append(replies, Reply(c, FALSE, NoWorkspace, NoSession, events))
  /\ UNCHANGED <<events, peer, archive, count>>

NewId(root) == [id |-> count.ids + 1, root |-> root]

WorkspaceEvent(w) == [name |-> "workspace_changed", workspace |-> w, session |-> NoSession]
SnapshotEvent(s, w) == [name |-> "session_snapshot", workspace |-> w, session |-> s]

OpenRoots(h) == {w.root : w \in h.open}
WorkspaceAt(h, root) == CHOOSE w \in h.open : w.root = root

\* The workspace of a root, open or about to be, and the ids that are used then.
Found(h, root) == IF root \in OpenRoots(h) THEN WorkspaceAt(h, root) ELSE NewId(root)
CountFound(h, root) == IF root \in OpenRoots(h) THEN count ELSE [count EXCEPT !.ids = @ + 1]

\* What a host has open after it has opened or closed a workspace or a session.
Opens(h, w) == [h EXCEPT !.open = @ \cup {w}, !.active = w]
Closes(h, id) ==
  [h EXCEPT !.open = {w \in @ : w.id # id}, !.active = IF @.id = id THEN NoWorkspace ELSE @,
            !.sessions = Restrict(@, {s \in DOMAIN @ : @[s].id # id})]
Holds(h, s, w) == [h EXCEPT !.sessions = [x \in DOMAIN @ \cup {s} |-> IF x = s THEN w ELSE @[x]]]
Drops(h, s) == [h EXCEPT !.sessions = Restrict(@, DOMAIN @ \ {s})]

\* recovery.ts, RecoveryLedger: what main would restore.  A root keeps the place it got
\* when it was first opened, the number of its id then.
NoLedger == [roots |-> [r \in {} |-> 0], ids |-> {}, sessions |-> NoSessions]
NewHost == [up |-> TRUE, open |-> {}, active |-> NoWorkspace, sessions |-> NoSessions, late |-> {}, kept |-> NoLedger]

NotedRoots(k, w) ==
  IF w.root \in DOMAIN k.roots THEN k.roots
  ELSE [r \in DOMAIN k.roots \cup {w.root} |-> IF r = w.root THEN w.id ELSE k.roots[r]]
Noted(k, w) == [k EXCEPT !.roots = NotedRoots(k, w), !.ids = @ \cup {w}]

\* A root stays while another id stands for it.
Struck(k, id) ==
  LET ids == {w \in k.ids : w.id # id}
      here == {w.root : w \in k.ids \ ids}
      gone == here \ {w.root : w \in ids}
  IN [roots |-> Restrict(k.roots, DOMAIN k.roots \ gone), ids |-> ids,
      sessions |-> Restrict(k.sessions, {s \in DOMAIN k.sessions : k.sessions[s].id # id /\ k.sessions[s].root \notin here})]

\* A port is handed over on the way on which answers come: those before it come first.
NewPort == peer.up \/ replies = <<>>

\* open_workspace, and supervisor.openWorkspace, which starts a host when there is
\* none; it then remembers nothing of the old one.
ServeOpen(c) ==
  LET h == IF peer.up THEN peer ELSE NewHost
      w == Found(h, c.root)
  IN /\ peer' = [Opens(h, w) EXCEPT !.kept = Noted(@, w)]
     /\ events' = Append(IF peer.up THEN events ELSE <<>>, WorkspaceEvent(w))
     /\ replies' = Append(replies, Reply(c, TRUE, w, NoSession, events'))
     /\ count' = CountFound(h, c.root)
     /\ UNCHANGED archive
     /\ NewPort

\* close_workspace, which knows nothing of an id it does not hold.
ServeClose(c) ==
  /\ peer.up
  /\ peer' = [Closes(peer, c.id) EXCEPT !.kept = Struck(@, c.id)]
  /\ Done(c)
  /\ UNCHANGED <<events, archive, count>>

ServeList(c) ==
  /\ peer.up /\ \E w \in peer.open : w.id = c.id
  /\ Done(c)
  /\ UNCHANGED <<events, peer, archive, count>>

Attached(c, s, w) ==
  /\ peer' = [Holds(peer, s, w) EXCEPT !.kept = Holds(@, s, w)]
  /\ replies' = Append(replies, Reply(c, TRUE, w, s, events))
  /\ UNCHANGED <<events, count>>

\* open_session: attached, or adopted from the files of an open workspace.
Holder(s) == IF s \in DOMAIN peer.sessions THEN peer.sessions[s] ELSE WorkspaceAt(peer, DirectoryOf[s])

ServeSession(c) ==
  /\ peer.up /\ DirectoryOf[c.session] \in OpenRoots(peer)
  /\ Attached(c, c.session, Holder(c.session))
  /\ UNCHANGED archive

ServeCreate(c, s) ==
  /\ peer.up /\ s \notin archive
  /\ \E w \in peer.open : w.id = c.id /\ w.root = DirectoryOf[s] /\ Attached(c, s, w)
  /\ archive' = archive \cup {s}

ServeTab(c) ==
  /\ peer.up /\ c.session \in DOMAIN peer.sessions
  /\ peer' = [Drops(peer, c.session) EXCEPT !.kept = Drops(@, c.session)]
  /\ Done(c)
  /\ UNCHANGED <<events, archive, count>>

Unanswered == {c \in calls : \A i \in DOMAIN replies : replies[i].n # c.n}

\* A command is served when the host comes to it.  It may be refused, a directory
\* or a session may not open, and a dialog may be cancelled.
Serve ==
  \E c \in Unanswered :
    /\ \/ c.kind = "open_workspace" /\ ServeOpen(c)
       \/ c.kind = "open_workspace" /\ Done(c) /\ UNCHANGED <<events, peer, archive, count>>
       \/ c.kind = "close_workspace" /\ ServeClose(c)
       \/ c.kind = "list_sessions" /\ ServeList(c)
       \/ c.kind = "open_session" /\ ServeSession(c)
       \/ c.kind = "create_session" /\ \E s \in AllSessions : ServeCreate(c, s)
       \/ c.kind = "close_session" /\ ServeTab(c)
       \/ (c.kind # "close_workspace" \/ ~peer.up) /\ RefuseCommand(c)
    /\ HostOnly /\ UNCHANGED <<calls, disturbed>>

\* host.ts send, COMMAND_TIMEOUT_MS: main answers for the host, which has the command
\* and may come to it later.
GiveUp ==
  \E c \in Unanswered :
    /\ peer.up /\ c.n \in Overdue
    /\ peer' = [peer EXCEPT !.late = @ \cup {[c EXCEPT !.waiters = {}]}]
    /\ replies' = Append(replies, Reply(c, FALSE, NoWorkspace, NoSession, events))
    /\ disturbed' = (disturbed \/ c.kind = "close_workspace")
    /\ HostOnly /\ UNCHANGED <<calls, events, archive, count>>

\* The host does, or refuses, what nobody waits for, and main's ledger does not hear of it.
LateOpen(c, h) ==
  /\ peer' = Opens(h, Found(h, c.root)) /\ events' = Append(events, WorkspaceEvent(Found(h, c.root)))
  /\ count' = CountFound(h, c.root)
  /\ disturbed' = TRUE /\ UNCHANGED archive

LateClose(c, h) ==
  /\ peer' = Closes(h, c.id)
  /\ disturbed' = TRUE /\ UNCHANGED <<events, archive, count>>

LateSession(c, h) ==
  /\ \/ /\ c.kind = "open_session" /\ DirectoryOf[c.session] \in OpenRoots(h)
        /\ peer' = Holds(h, c.session, Holder(c.session)) /\ UNCHANGED archive
     \/ /\ c.kind = "create_session"
        /\ \E s \in AllSessions \ archive, w \in h.open :
             /\ w.id = c.id /\ w.root = DirectoryOf[s]
             /\ peer' = Holds(h, s, w) /\ archive' = archive \cup {s}
     \/ /\ c.kind = "close_session"
        /\ peer' = Drops(h, c.session) /\ UNCHANGED archive
     \/ /\ c.kind # "close_workspace"
        /\ peer' = h /\ UNCHANGED archive
  /\ UNCHANGED <<events, count, disturbed>>

ServeLate ==
  \E c \in peer.late :
    /\ peer.up
    /\ LET h == [peer EXCEPT !.late = @ \ {c}]
       IN \/ c.kind = "open_workspace" /\ LateOpen(c, h)
          \/ c.kind = "close_workspace" /\ LateClose(c, h)
          \/ LateSession(c, h)
    /\ HostOnly /\ UNCHANGED <<calls, replies>>

\* A gap, or a compaction.
Resync(s) ==
  /\ peer.up /\ s \in DOMAIN peer.sessions /\ count.resyncs < MaxResyncs
  /\ events' = Append(events, SnapshotEvent(s, peer.sessions[s]))
  /\ count' = [count EXCEPT !.resyncs = @ + 1]
  /\ HostOnly /\ UNCHANGED <<calls, replies, peer, archive, disturbed>>

\* The members of S one after the other, in the order of what is numbered.
InOrder(S, number) ==
  {f \in Bijection(1..Cardinality(S), S) : \A i, j \in DOMAIN f : i < j => number[f[i]] <= number[f[j]]}

\* Main rejects what has not been answered, and forgets the ids (planRestart).
Death ==
  /\ peer.up /\ count.deaths < MaxDeaths
  /\ peer' = [peer EXCEPT !.up = FALSE, !.late = {}, !.kept.ids = {}]
  /\ \E order \in InOrder(Unanswered, [c \in Unanswered |-> c.n]) :
       replies' = replies \o [i \in DOMAIN order |-> Reply(order[i], FALSE, NoWorkspace, NoSession, events)]
  /\ count' = [count EXCEPT !.deaths = @ + 1]
  /\ disturbed' = (disturbed \/ change.op # "none" \/ changes # <<>>)
  /\ HostOnly /\ UNCHANGED <<calls, events, archive>>

\* #restore, then attachEventChannel and onAttach: the roots main keeps, in the order in
\* which they were opened, then the sessions.  Some roots are refused, or given up and
\* opened later, and some sessions fail; main forgets them.
Reopened(order) == [i \in DOMAIN order |-> [id |-> count.ids + i, root |-> order[i]]]

BroughtBack(refused, slow, failed) ==
  /\ ~peer.up /\ NewPort
  /\ refused \subseteq DOMAIN peer.kept.roots /\ slow \subseteq refused /\ (slow # {} => 0 \in Overdue)
  /\ LET roots == DOMAIN peer.kept.roots \ refused
         back == {s \in DOMAIN peer.kept.sessions \ failed : DirectoryOf[s] \in roots}
     IN /\ \E old \in InOrder(roots, peer.kept.roots), order \in Bijection(1..Cardinality(back), back) :
             LET open == Reopened(old)
                 At(s) == CHOOSE w \in ToSet(open) : w.root = DirectoryOf[s]
                 sessions == [s \in back |-> At(s)]
             IN /\ peer' = [up |-> TRUE, open |-> ToSet(open), sessions |-> sessions,
                            active |-> IF open = <<>> THEN NoWorkspace ELSE Last(open),
                            late |-> {[OpenWorkspace(r) EXCEPT !.n = 0] : r \in slow},
                            kept |-> [roots |-> [r \in roots |-> (CHOOSE w \in ToSet(open) : w.root = r).id],
                                      ids |-> ToSet(open), sessions |-> sessions]]
                /\ events' = (IF open = <<>> THEN <<>> ELSE <<WorkspaceEvent(Last(open))>>)
                             \o [i \in DOMAIN order |-> SnapshotEvent(order[i], At(order[i]))]
                /\ count' = [count EXCEPT !.ids = @ + Len(open)]
        /\ disturbed' = (disturbed \/ roots # OpenRoots(peer))
  /\ HostOnly /\ UNCHANGED <<calls, replies, archive>>

\* A host that dies in the restore: main forgets what it was refused, and what came after
\* when it does not start another by itself.
RestoreDies(roots, sessions) ==
  /\ ~peer.up
  /\ roots \subseteq DOMAIN peer.kept.roots /\ sessions \subseteq DOMAIN peer.kept.sessions
  /\ peer' = [peer EXCEPT !.kept.roots = Restrict(@, roots), !.kept.sessions = Restrict(@, sessions)]
  /\ HostOnly /\ UNCHANGED <<calls, replies, events, archive, count, disturbed>>

-----------------------------------------------------------------------------
(* What the renderer does with events and answers. *)

TakeEvent ==
  /\ events # <<>> /\ Continued
  /\ events' = Tail(events)
  /\ LET e == Head(events)
     IN view' = IF e.name = "workspace_changed" THEN OnWorkspace(view, e.workspace)
                ELSE OnSnapshot(view, e.session, e.workspace.id)
  /\ goal' = IF view'.tabs = {} THEN NoSession ELSE goal
  /\ replies' = [i \in DOMAIN replies |-> [replies[i] EXCEPT !.ahead = IF @ = 0 THEN 0 ELSE @ - 1]]
  /\ UNCHANGED <<remembered, change, changes, calls, peer, archive, count, disturbed>>

\* The answer that is next.
Heard == Head(replies)

\* An answer ends its command, for all who have come to wait for it.  What follows
\* it is one step with it.
Taking(c, kind) ==
  /\ replies # <<>> /\ Continued
  /\ c.n = Heard.n /\ c.kind = kind
  /\ replies' = Tail(replies)
  /\ LET lost == kind = "close_session" /\ \E w \in c.waiters : ~OwnsWorkspace(view, w.workspace, w.generation)
     IN disturbed' = (disturbed \/ Heard.ahead > 0 \/ lost)
  /\ UNCHANGED <<changes, events, peer, archive>>

Follow(c, ask) == calls' = (calls \ {c}) \cup {ask} /\ count' = Called(count)

NoFollow(c) == calls' = calls \ {c} /\ UNCHANGED count

EndChange(c) == change' = NoChange /\ NoFollow(c)

\* #adoptWorkspace, once nothing else is open: the sessions are listed.
Adopt(c, w) ==
  /\ view' = Replaced(view, w)
  /\ Follow(c, Command("list_sessions", NoDirectory, w.id, NoSession, {}))
  /\ change' = Advanced("listing", w, view'.generation, NextCall)
  /\ goal' = NoSession /\ UNCHANGED remembered

ViewOnly == UNCHANGED <<view, remembered, goal>>

\* Mutant: a workspace is adopted beside the one that is open.
LeavesNothing(w) == FALSE

Leaves(w) == view.workspace # NoWorkspace /\ view.workspace.id # w.id

\* #openWorkspace.
OpenAnswered ==
  \E c \in calls :
    /\ Taking(c, "open_workspace")
    /\ LET w == Heard.value.workspace
       IN \/ /\ ~Heard.ok \/ w = NoWorkspace
             /\ EndChange(c) /\ ViewOnly
          \/ /\ Heard.ok /\ w # NoWorkspace /\ Leaves(w)
             /\ Follow(c, CloseWorkspace(view.workspace))
             /\ change' = Advanced("leaving", w, change.generation, NextCall)
             /\ ViewOnly
          \/ Heard.ok /\ w # NoWorkspace /\ ~Leaves(w) /\ Adopt(c, w)

\* The close before an adoption, its rollback, and closeWorkspace.
CloseAnswered ==
  \E c \in calls :
    /\ Taking(c, "close_workspace")
    /\ \/ change.step = "leaving" /\ Heard.ok /\ Adopt(c, change.target)
       \/ /\ change.step = "leaving" /\ ~Heard.ok
          /\ Follow(c, CloseWorkspace(change.target))
          /\ change' = Advanced("rolling back", change.target, change.generation, NextCall)
          /\ ViewOnly
       \/ change.step = "rolling back" /\ EndChange(c) /\ ViewOnly
       \/ /\ change.step = "asked" /\ EndChange(c)
          /\ IF Heard.ok /\ view.workspace.id = change.target.id
             THEN view' = Replaced(view, NoWorkspace) /\ goal' = NoSession /\ UNCHANGED remembered
             ELSE ViewOnly

\* #refreshWorkspace, and the session remembered for the directory.
ListAnswered ==
  \E c \in calls :
    /\ Taking(c, "list_sessions")
    /\ LET w == change.target
           mine == Heard.ok /\ OwnsWorkspace(view, w, change.generation) /\ view.selection = 0
           s == remembered[w.root]
           there == s # NoSession /\ s \in archive /\ DirectoryOf[s] = w.root
           v == Selecting(view)
           o == Opening(v, s, 0)
       IN \/ (~mine \/ s = NoSession) /\ EndChange(c) /\ ViewOnly
          \/ /\ mine /\ s # NoSession /\ ~there /\ EndChange(c)
             /\ view' = [view EXCEPT !.resume = NoSession]
             /\ remembered' = [remembered EXCEPT ![w.root] = NoSession] /\ UNCHANGED goal
          \/ /\ mine /\ there /\ s \in view.tabs /\ EndChange(c)
             /\ view' = [v EXCEPT !.active = s] /\ UNCHANGED <<remembered, goal>>
          \/ /\ mine /\ there /\ s \notin view.tabs
             /\ view' = [v EXCEPT !.opens = o.opens]
             /\ calls' = o.calls \ {c} /\ count' = IF o.sent THEN Called(count) ELSE count
             /\ change' = Advanced("resuming", w, change.generation, o.call)
             /\ UNCHANGED <<remembered, goal>>

\* A snapshot that answers a command: those who waited install it if they still own
\* the workspace, and the last to select has it in front.
InstallFor(c, cleared) ==
  LET s == Heard.value.session
      owners == {w \in c.waiters : /\ Heard.ok /\ OwnsWorkspace(cleared, w.workspace, w.generation)
                                    /\ Heard.value.workspace.id = w.workspace.id}
      front == \E w \in owners : w.selection = cleared.selection
  IN /\ view' = IF owners = {} THEN cleared ELSE Installed(cleared, s, front)
     /\ remembered' = IF front THEN Remember(view, s) ELSE remembered
     /\ goal' = IF \E w \in owners : w.click = count.clicks THEN s ELSE goal

SessionAnswered ==
  \E c \in calls :
    /\ Taking(c, "open_session")
    /\ InstallFor(c, [view EXCEPT !.opens = @ \ {c.n}])
    /\ change' = IF change.call = c.n THEN NoChange ELSE change
    /\ NoFollow(c)

\* #startSession.
CreateAnswered ==
  \E c \in calls :
    /\ Taking(c, "create_session")
    /\ InstallFor(c, IF view.start = c.n THEN [view EXCEPT !.start = NoSlot, !.starting = FALSE] ELSE view)
    /\ NoFollow(c) /\ UNCHANGED change

\* closeSession: a neighbour takes the front.
TabAnswered ==
  \E c \in calls, next \in AllSessions \cup {NoSession} : \E w \in c.waiters :
    /\ Taking(c, "close_session")
    /\ LET s == c.session
           mine == Heard.ok /\ OwnsWorkspace(view, w.workspace, w.generation)
           left == view.tabs \ {s}
           front == view.active = s
       IN /\ IF mine /\ front /\ left # {} THEN next \in left ELSE next = NoSession
          /\ view' = IF mine THEN [view EXCEPT !.tabs = left, !.active = IF front THEN next ELSE @] ELSE view
          /\ remembered' = IF mine /\ front THEN Remember(view, next) ELSE remembered
          /\ goal' = IF mine /\ goal = s THEN NoSession ELSE goal
    /\ NoFollow(c) /\ UNCHANGED change

-----------------------------------------------------------------------------
WorkspaceInit ==
  /\ view = [workspace |-> NoWorkspace, generation |-> 0, selection |-> 0, resume |-> NoSession, tabs |-> {},
             active |-> NoSession, starting |-> FALSE, start |-> NoSlot, opens |-> {}]
  /\ remembered \in [Directories -> {NoSession}]
  /\ change = NoChange /\ changes = <<>> /\ calls = {} /\ replies = <<>> /\ events = <<>>
  /\ peer = NewHost
  /\ archive = Archived
  /\ count = [clicks |-> 0, deaths |-> 0, resyncs |-> 0, ids |-> 0, calls |-> 0]
  /\ goal = NoSession /\ disturbed = FALSE

ClickNext ==
  \/ \E root \in Directories : AskForWorkspace("open", root)
  \/ AskForWorkspace("close", NoDirectory) \/ NewSession
  \/ \E s \in AllSessions : SelectTab(s) \/ OpenSession(s) \/ CloseTab(s)

AnswerNext ==
  OpenAnswered \/ CloseAnswered \/ ListAnswered \/ SessionAnswered \/ CreateAnswered \/ TabAnswered

WorkspaceNext ==
  \/ ClickNext \/ StartChange \/ TakeEvent \/ AnswerNext
  \/ Serve \/ GiveUp \/ ServeLate \/ Death
  \/ \E s \in AllSessions : Resync(s)
  \/ \E refused, slow \in SUBSET Directories, failed \in SUBSET AllSessions : BroughtBack(refused, slow, failed)
  \/ \E roots \in SUBSET Directories, sessions \in SUBSET AllSessions : RestoreDies(roots, sessions)

WorkspaceSpec == WorkspaceInit /\ [][WorkspaceNext]_workspaceVars

-----------------------------------------------------------------------------
(* What holds. *)

\* Whatever answers late, nothing of another directory is on screen (session-store.ts
\* #ownsWorkspace, #clearWorkspaceState).
OneWorkspace ==
  /\ \A s \in view.tabs : DirectoryOf[s] = view.workspace.root
  /\ view.active # NoSession => view.active \in view.tabs

\* Navigation belongs to the person's latest action: what was asked for earlier and
\* answered since does not take the front (session-store.ts #beginSelection).
LatestChoice == goal # NoSession => view.active = goal

AllAnswered == change.op = "none" /\ changes = <<>> /\ calls = {} /\ events = <<>> /\ peer.up

\* When everything has been answered, nothing is shown as starting (session-store.ts
\* 822-826: the flag outlives the slot of the command that set it).
NothingLeftStarting == AllAnswered /\ ~disturbed => ~view.starting /\ view.start = NoSlot /\ view.opens = {}

\* The host has open what the window shows, and nothing else (session-store.ts 503:
\* a change opens one workspace, then closes the other).
HostFollows == AllAnswered /\ ~disturbed => peer.open = {view.workspace} \ {NoWorkspace}

\* When everything has been answered, the window and the host agree: nothing is shown as
\* starting, and the host has open what the window shows, and nothing else (session-store.ts
\* 503, 822-826).
WindowFollowsHost == NothingLeftStarting /\ HostFollows

=============================================================================
