-------------------------- MODULE NavigationProofs --------------------------
(***************************************************************************)
(* WorkspaceView for any directories, sessions and bounds: whatever answers *)
(* late, the tab in front is the one the person chose last, and a window at *)
(* rest shows what the host has open.                                       *)
(***************************************************************************)
EXTENDS WorkspaceView, FiniteSetTheorems, SequenceTheorems, TLAPS

-----------------------------------------------------------------------------
(* Calls and answers by their numbers. *)

Numbered ==
  /\ \A c \in calls : c.n \in 1..count.calls
  /\ \A c, d \in calls : c.n = d.n => c = d
  /\ \A i \in DOMAIN replies : \E c \in calls : replies[i].n = c.n
  /\ \A i, j \in DOMAIN replies : replies[i].n = replies[j].n => i = j

\* One command at a time is under way for a session.
OnePerSession ==
  \A c, d \in calls : (/\ c.kind = "open_session" /\ d.kind = "open_session"
                       /\ c.session = d.session /\ {c.n, d.n} \subseteq view.opens) => c.n = d.n

LeavesKnown == change.step = "leaving" => change.target \in Workspaces

-----------------------------------------------------------------------------
(* The latest choice. *)

ShowsSession(c) == c.kind \in {"open_session", "create_session"}

\* Those who asked in what is on screen now.
Current(c) == {w \in c.waiters : w.generation = view.generation}

\* Whoever asked for a session knows the click and the selection it asked under.
AskedBefore(c) ==
  \A w \in c.waiters : w.generation <= view.generation /\ w.click <= count.clicks

UnderSelection(c) ==
  \A w \in Current(c) :
    /\ w.selection \in 1..view.selection
    /\ w.click = count.clicks => w.selection = view.selection

\* Of the answers to come one at most will take the front, and the person has not
\* had an answer since.
LastToAsk(c) ==
  \A w \in Current(c) : w.selection = view.selection =>
    /\ goal = NoSession
    /\ \A d \in calls : ShowsSession(d) /\ (\E x \in Current(d) : x.selection = view.selection) => d = c

ClickedFirst == count.clicks = 0 => calls = {} /\ changes = <<>>

Chosen == goal # NoSession => view.active = goal /\ view.selection > 0

ChoiceInv ==
  /\ ClickedFirst /\ Chosen
  /\ \A c \in calls : ShowsSession(c) => AskedBefore(c) /\ UnderSelection(c) /\ LastToAsk(c)

-----------------------------------------------------------------------------
(* What is shown as starting, and what is open. *)

Tells(e) == e.name = "workspace_changed"

\* The places of events that name a workspace.
Told == {i \in DOMAIN events : Tells(events[i])}

\* The answers among rs to the command of that number.
AnswersTo(rs, n) == {r \in ToSet(rs) : r.n = n}

KindOf(op, step) ==
  CASE step = "asked" /\ op = "open" -> "open_workspace"
    [] step = "asked" /\ op = "close" -> "close_workspace"
    [] step \in {"leaving", "rolling back"} -> "close_workspace"
    [] step = "listing" -> "list_sessions"
    [] step = "resuming" -> "open_session"
    [] step = "none" -> "none"

OfChanges == {"open_workspace", "close_workspace", "list_sessions"}

\* The commands of a change are sent one by one.
OneByOne ==
  /\ change.op = "none" <=> change.step = "none"
  /\ change.op = "none" => change.call = 0
  /\ change.call \in 0..count.calls
  /\ change.op = "close" => change.step = "asked"
  /\ \A c \in calls : c.kind \in OfChanges => c.n = change.call
  /\ \A c \in calls : c.n = change.call => c.kind = KindOf(change.op, change.step)

\* Slots stand for commands that are under way.
SlotsUsed ==
  /\ \A n \in view.opens : \E c \in calls : c.n = n /\ c.kind = "open_session"
  /\ view.start # 0 => \E c \in calls : c.n = view.start /\ c.kind = "create_session"

IdsHold ==
  /\ view.workspace.id <= count.ids
  /\ \A w \in peer.open : w.id \in 1..count.ids
  /\ \A w, x \in peer.open : w.id = x.id \/ w.root = x.root => w = x

\* The host has open what the window shows, or the window is about to hear of it.
Following ==
  \/ view.workspace = NoWorkspace /\ peer.open = {} /\ Told = {}
  \/ \E w \in peer.open :
       /\ peer.open = {w} /\ view.workspace.root = w.root
       /\ \A i \in Told : events[i].workspace = w /\ view.workspace # w
       /\ \A i, j \in Told : i = j
       /\ Told = {} => view.workspace = w

\* The directory that was asked for is open, beside the one that is on screen.
OpenedBeside(r) ==
  LET w == r.value.workspace
      v == view.workspace
  IN /\ peer.up /\ w \in peer.open /\ (w.id = v.id => w = v)
     /\ \A j \in Told : j <= r.ahead /\ events[j].workspace \in peer.open
     /\ \A x \in peer.open : x = w \/ (x.root = v.root /\ w.root # v.root)
     /\ \A x \in peer.open : x.root = v.root => v = x \/ \E j \in Told : events[j].workspace = x
     /\ v = NoWorkspace => \E j \in Told : events[j].workspace = w

Brings(r) == r.ok /\ r.value.workspace # NoWorkspace

OpenAsked ==
  /\ \A r \in AnswersTo(replies, change.call) : Brings(r) => OpenedBeside(r)
  /\ (\A r \in AnswersTo(replies, change.call) : ~Brings(r)) => Following

LeavingOld ==
  LET v == view.workspace
  IN /\ peer.up /\ Told = {} /\ v # NoWorkspace /\ v.id # change.target.id
     /\ change.target \in peer.open /\ peer.open \subseteq {change.target, v}
     /\ \A c \in calls : c.n = change.call => c.id = v.id
     /\ \A r \in AnswersTo(replies, change.call) : r.ok /\ peer.open = {change.target}

Closed ==
  /\ peer.up /\ peer.open = {} /\ Told = {} /\ view.workspace = change.target
  /\ \E r \in AnswersTo(replies, change.call) : r.ok

Spared ==
  /\ Following
  /\ \/ view.workspace = change.target
     \/ view.workspace.id # change.target.id /\ \A x \in peer.open : x.id # change.target.id
  /\ \A r \in AnswersTo(replies, change.call) : r.ok =>
       /\ peer.up /\ \A j \in Told : j <= r.ahead
       /\ \A x \in peer.open : x.id # change.target.id

CloseAsked ==
  /\ change.target # NoWorkspace /\ change.target.id <= count.ids
  /\ \A c \in calls : c.n = change.call => c.id = change.target.id
  /\ Closed \/ Spared

ChangeFits ==
  CASE change.step = "asked" /\ change.op = "open" -> OpenAsked
    [] change.step = "asked" /\ change.op = "close" -> CloseAsked
    [] change.step = "leaving" -> LeavingOld
    [] change.step = "rolling back" -> FALSE
    [] change.step \in {"none", "listing", "resuming"} -> Following

\* A session that is being started keeps its workspace.
StartFits ==
  /\ view.starting => view.start # 0
  /\ view.start # 0 =>
       /\ view.workspace # NoWorkspace
       /\ peer.up \/ AnswersTo(replies, view.start) # {}
       /\ \A i \in Told : events[i].workspace.root = view.workspace.root
                            => events[i].workspace.id = view.workspace.id

FollowInv == OneByOne /\ SlotsUsed /\ (~disturbed => IdsHold /\ ChangeFits /\ StartFits)

-----------------------------------------------------------------------------
(* Shapes. *)

Fields == {"workspace", "generation", "selection", "resume", "tabs", "active", "starting", "start", "opens"}

\* n is v but for some of its fields.
But(n, v, S) == n \in Views /\ v \in Views /\ \A f \in Fields \ S : n[f] = v[f]

LEMMA SetWorkspace ==
  ASSUME NEW v \in Views, NEW x \in SomeWorkspace
  PROVE  LET n == [v EXCEPT !.workspace = x] IN But(n, v, {"workspace"}) /\ n.workspace = x
  BY DEF Views, But, Fields

LEMMA SetGeneration ==
  ASSUME NEW v \in Views, NEW x \in Nat
  PROVE  LET n == [v EXCEPT !.generation = x] IN But(n, v, {"generation"}) /\ n.generation = x
  BY DEF Views, But, Fields

LEMMA SetSelection ==
  ASSUME NEW v \in Views, NEW x \in Nat
  PROVE  LET n == [v EXCEPT !.selection = x] IN But(n, v, {"selection"}) /\ n.selection = x
  BY DEF Views, But, Fields

LEMMA SetResume ==
  ASSUME NEW v \in Views, NEW x \in SomeSession
  PROVE  LET n == [v EXCEPT !.resume = x] IN But(n, v, {"resume"}) /\ n.resume = x
  BY DEF Views, But, Fields

LEMMA SetTabs ==
  ASSUME NEW v \in Views, NEW x \in SUBSET SomeSession
  PROVE  LET n == [v EXCEPT !.tabs = x] IN But(n, v, {"tabs"}) /\ n.tabs = x
  BY DEF Views, But, Fields

LEMMA SetActive ==
  ASSUME NEW v \in Views, NEW x \in SomeSession
  PROVE  LET n == [v EXCEPT !.active = x] IN But(n, v, {"active"}) /\ n.active = x
  BY DEF Views, But, Fields

LEMMA SetStarting ==
  ASSUME NEW v \in Views, NEW x \in BOOLEAN
  PROVE  LET n == [v EXCEPT !.starting = x] IN But(n, v, {"starting"}) /\ n.starting = x
  BY DEF Views, But, Fields

LEMMA SetStart ==
  ASSUME NEW v \in Views, NEW x \in Nat
  PROVE  LET n == [v EXCEPT !.start = x] IN But(n, v, {"start"}) /\ n.start = x
  BY DEF Views, But, Fields

LEMMA SetOpens ==
  ASSUME NEW v \in Views, NEW x \in SUBSET Nat
  PROVE  LET n == [v EXCEPT !.opens = x] IN But(n, v, {"opens"}) /\ n.opens = x
  BY DEF Views, But, Fields

LEMMA ButBut ==
  ASSUME NEW n, NEW m, NEW v, NEW S, NEW T, But(n, m, S), But(m, v, T)
  PROVE  But(n, v, S \cup T)
  BY DEF But

LEMMA ReplacedShape ==
  ASSUME WorkspaceTypeOK, NEW w \in SomeWorkspace
  PROVE  LET v == Replaced(view, w)
         IN /\ v \in Views /\ v.generation = view.generation + 1 /\ v.workspace = w /\ v.tabs = {}
            /\ v.selection = 0 /\ v.start = 0 /\ v.opens = {} /\ ~v.starting /\ v.active = NoSession
<1> DEFINE r == IF w = NoWorkspace THEN NoSession ELSE remembered[w.root]
<1>1. r \in SomeSession
  BY DEF WorkspaceTypeOK, SomeWorkspace, Workspaces, SomeSession
<1>2. view.generation + 1 \in Nat /\ NoSession \in SomeSession
  BY DEF WorkspaceTypeOK, Views, SomeSession
<1>3. Replaced(view, w) = [workspace |-> w, generation |-> view.generation + 1, selection |-> 0, resume |-> r, tabs |-> {},
                           active |-> NoSession, starting |-> FALSE, start |-> 0, opens |-> {}]
  BY DEF Replaced
<1> HIDE DEF r
<1> QED
  BY <1>1, <1>2, <1>3 DEF Views

LEMMA SelectingShape ==
  ASSUME NEW v \in Views
  PROVE  LET n == Selecting(v)
         IN But(n, v, {"resume", "selection"}) /\ n.selection = v.selection + 1 /\ n.selection \in Nat
<1> DEFINE a == [v EXCEPT !.resume = NoSession]
<1>1. But(a, v, {"resume"})
  BY SetResume DEF SomeSession
<1>2. a.selection = v.selection /\ v.selection \in Nat /\ a \in Views
  BY <1>1 DEF But, Fields, Views
<1> HIDE DEF a
<1> DEFINE b == [a EXCEPT !.selection = v.selection + 1]
<1>3. But(b, a, {"selection"}) /\ b.selection = v.selection + 1
  BY <1>2, SetSelection
<1>4. Selecting(v) = b
  BY <1>2 DEF Selecting, a
<1> HIDE DEF b
<1>5. But(b, v, {"selection"} \cup {"resume"})
  BY <1>1, <1>3, ButBut
<1> QED
  BY <1>2, <1>3, <1>4, <1>5 DEF But

LEMMA InstalledShape ==
  ASSUME NEW v \in Views, NEW s \in SomeSession, NEW front \in BOOLEAN
  PROVE  LET n == Installed(v, s, front)
         IN /\ But(n, v, {"tabs", "active"}) /\ n.tabs = v.tabs \cup {s}
            /\ n.active = IF front THEN s ELSE v.active
<1>0. v.tabs \cup {s} \in SUBSET SomeSession /\ (IF front THEN s ELSE v.active) \in SomeSession
  BY DEF Views
<1> DEFINE a == [v EXCEPT !.tabs = v.tabs \cup {s}]
<1>1. But(a, v, {"tabs"}) /\ a.tabs = v.tabs \cup {s}
  BY <1>0, SetTabs
<1>2. a.active = v.active /\ a \in Views
  BY <1>1 DEF But, Fields
<1> HIDE DEF a
<1> DEFINE x == IF front THEN s ELSE v.active
<1> DEFINE b == [a EXCEPT !.active = x]
<1>3. But(b, a, {"active"}) /\ b.active = x
  BY <1>0, <1>2, SetActive
<1>4. Installed(v, s, front) = b
  BY <1>2 DEF Installed, a
<1> HIDE DEF b
<1>5. But(b, v, {"active"} \cup {"tabs"})
  BY <1>1, <1>3, ButBut
<1>6. b.tabs = v.tabs \cup {s}
  BY <1>1, <1>3 DEF But, Fields
<1> QED
  BY <1>3, <1>4, <1>5, <1>6 DEF But

LEMMA RenamedShape ==
  ASSUME NEW v \in Views, NEW w \in Workspaces
  PROVE  LET n == [v EXCEPT !.workspace = w, !.generation = @ + 1, !.start = 0, !.opens = {}]
         IN /\ But(n, v, {"workspace", "generation", "start", "opens"}) /\ n.workspace = w
            /\ n.generation = v.generation + 1 /\ n.start = 0 /\ n.opens = {}
<1> DEFINE a == [v EXCEPT !.workspace = w]
<1>1. But(a, v, {"workspace"}) /\ a.workspace = w
  BY SetWorkspace DEF SomeWorkspace
<1>2. a.generation = v.generation /\ v.generation + 1 \in Nat /\ a \in Views
  BY <1>1 DEF But, Fields, Views
<1> HIDE DEF a
<1> DEFINE b == [a EXCEPT !.generation = v.generation + 1]
<1>3. But(b, a, {"generation"}) /\ b.generation = v.generation + 1
  BY <1>2, SetGeneration
<1> HIDE DEF b
<1>4. But(b, v, {"generation"} \cup {"workspace"}) /\ b.workspace = w
  BY <1>1, <1>3, ButBut DEF But, Fields
<1> DEFINE d == [b EXCEPT !.start = 0]
<1>5. But(d, b, {"start"}) /\ d.start = 0
  BY <1>4, SetStart DEF But
<1> HIDE DEF d
<1>6. But(d, v, {"start"} \cup ({"generation"} \cup {"workspace"})) /\ d.workspace = w /\ d.generation = v.generation + 1
  BY <1>3, <1>4, <1>5, ButBut DEF But, Fields
<1> DEFINE e == [d EXCEPT !.opens = {}]
<1>7. But(e, d, {"opens"}) /\ e.opens = {}
  BY <1>6, SetOpens DEF But
<1>8. [v EXCEPT !.workspace = w, !.generation = @ + 1, !.start = 0, !.opens = {}] = e
  BY <1>2 DEF a, b, d
<1> HIDE DEF e
<1>9. But(e, v, {"opens"} \cup ({"start"} \cup ({"generation"} \cup {"workspace"})))
  BY <1>6, <1>7, ButBut
<1>10. e.workspace = w /\ e.generation = v.generation + 1 /\ e.start = 0
  BY <1>5, <1>6, <1>7 DEF But, Fields
<1> QED
  BY <1>7, <1>8, <1>9, <1>10 DEF But

LEMMA OnWorkspaceShape ==
  ASSUME WorkspaceTypeOK, WorkspaceAssumption, NEW w \in Workspaces
  PROVE  LET n == OnWorkspace(view, w)
         IN \/ n = view /\ (view.workspace = w \/ (Pending /\ view.workspace # NoWorkspace /\ view.workspace.root # w.root))
            \/ /\ view.workspace.root = w.root /\ view.workspace # w
               /\ But(n, view, {"workspace", "generation", "start", "opens"}) /\ n.workspace = w
               /\ n.generation = view.generation + 1 /\ n.start = 0 /\ n.opens = {}
            \/ n = Replaced(view, w) /\ view.workspace.root # w.root /\ (view.workspace = NoWorkspace \/ ~Pending)
<1>1. view \in Views
  BY DEF WorkspaceTypeOK
<1> QED
  BY <1>1, RenamedShape DEF OnWorkspace

LEMMA OnSnapshotShape ==
  ASSUME WorkspaceTypeOK, NEW s \in SomeSession, NEW id
  PROVE  LET n == OnSnapshot(view, s, id)
         IN But(n, view, {"tabs", "active", "resume"}) /\ (n.active = view.active \/ view.selection = 0)
<1>1. view \in Views /\ view.tabs \cup {s} \in SUBSET SomeSession /\ view.active \in SomeSession /\ view.resume \in SomeSession
      /\ NoSession \in SomeSession
  BY DEF WorkspaceTypeOK, Views, SomeSession
<1>2. CASE view.workspace.id # id
  BY <1>1, <1>2 DEF OnSnapshot, But
<1>3. CASE view.workspace.id = id
  <2> DEFINE first == view.selection = 0 /\ (view.active = NoSession \/ s = view.resume)
             x == IF first THEN s ELSE view.active
             r == IF view.resume = s THEN NoSession ELSE view.resume
             a == [view EXCEPT !.tabs = view.tabs \cup {s}]
  <2>1. But(a, view, {"tabs"}) /\ x \in SomeSession /\ r \in SomeSession
    BY <1>1, SetTabs
  <2>2. a \in Views /\ a.active = view.active /\ a.resume = view.resume
    BY <2>1 DEF But, Fields
  <2> HIDE DEF a, first
  <2> DEFINE b == [a EXCEPT !.active = x]
  <2>3. But(b, a, {"active"}) /\ b.active = x
    BY <2>1, <2>2, SetActive
  <2>4. b \in Views /\ b.resume = view.resume
    BY <2>2, <2>3 DEF But, Fields
  <2> HIDE DEF b
  <2> DEFINE d == [b EXCEPT !.resume = r]
  <2>5. But(d, b, {"resume"})
    BY <2>1, <2>4, SetResume
  <2>6. d.active = x
    BY <2>3, <2>5 DEF But, Fields
  <2>7. OnSnapshot(view, s, id) = d
    BY <1>3, <2>2, <2>4 DEF OnSnapshot, a, b, first
  <2> HIDE DEF d
  <2>8. But(d, view, {"resume"} \cup ({"active"} \cup {"tabs"}))
    BY <2>1, <2>3, <2>5, ButBut
  <2> QED
    BY <2>6, <2>7, <2>8 DEF But, first
<1> QED
  BY <1>2, <1>3

LEMMA WaiterShape ==
  ASSUME NEW v \in Views, NEW click \in Nat
  PROVE  LET w == Waiter(v, click)
         IN /\ w \in Waiters /\ w.generation = v.generation /\ w.selection = v.selection
            /\ w.click = click /\ w.workspace = v.workspace
  BY DEF Waiter, Waiters, Views

LEMMA CommandShape ==
  ASSUME WorkspaceTypeOK, NEW root \in Directories \cup {NoDirectory}, NEW id \in Nat, NEW s \in SomeSession,
         NEW ws \in SUBSET Waiters,
         NEW kind \in {"open_workspace", "close_workspace", "list_sessions", "open_session", "create_session", "close_session"}
  PROVE  LET c == Command(kind, root, id, s, ws)
         IN /\ c \in Asks /\ c.n = NextCall /\ c.kind = kind /\ c.root = root /\ c.id = id /\ c.session = s
            /\ c.waiters = ws
  BY DEF WorkspaceTypeOK, Command, Asks, NextCall

LEMMA ReplyShape ==
  ASSUME NEW c \in Asks, NEW ok \in BOOLEAN, NEW w \in SomeWorkspace, NEW s \in SomeSession, NEW before \in Seq(Events)
  PROVE  LET r == Reply(c, ok, w, s, before)
         IN r \in Answers /\ r.n = c.n /\ r.ok = ok /\ r.value.workspace = w /\ r.value.session = s /\ r.ahead = Len(before)
  BY DEF Reply, Answers, Asks

Counts == [clicks : Nat, deaths : Nat, resyncs : Nat, ids : Nat, calls : Nat]

LEMMA CalledShape ==
  ASSUME NEW c \in Counts
  PROVE  LET n == Called(c)
         IN /\ n \in Counts /\ n.calls = c.calls + 1 /\ n.clicks = c.clicks /\ n.ids = c.ids /\ c.calls \in Nat
            /\ c.clicks \in Nat /\ c.ids \in Nat
  BY DEF Counts, Called

LEMMA CountShape ==
  ASSUME WorkspaceTypeOK
  PROVE  /\ NextCall \in Nat \ {0} /\ NextCall = count.calls + 1 /\ count \in Counts /\ count.clicks \in Nat
         /\ count.ids \in Nat
         /\ Clicked \in Counts /\ Clicked.clicks = count.clicks + 1 /\ Clicked.calls = count.calls /\ Clicked.ids = count.ids
         /\ LET n == Called(count)
            IN n \in Counts /\ n.calls = NextCall /\ n.clicks = count.clicks /\ n.ids = count.ids
         /\ LET n == Called(Clicked)
            IN n \in Counts /\ n.calls = NextCall /\ n.clicks = count.clicks + 1 /\ n.ids = count.ids
<1>1. count \in Counts
  BY DEF WorkspaceTypeOK, Counts
<1>2. Clicked \in Counts /\ Clicked.clicks = count.clicks + 1 /\ Clicked.calls = count.calls /\ Clicked.ids = count.ids
  BY <1>1 DEF Counts, Clicked
<1>3. NextCall = count.calls + 1
  BY DEF NextCall
<1> QED
  BY <1>1, <1>2, <1>3, CalledShape, CalledShape

\* Whoever asks for a session joins a command that is under way, or sends one.
LEMMA OpeningShape ==
  ASSUME WorkspaceTypeOK, Numbered, OnePerSession, NEW v \in Views, v.opens = view.opens, NEW s \in AllSessions, NEW click \in Nat
  PROVE  LET o == Opening(v, s, click)
             w == Waiter(v, click)
         IN /\ o.calls \subseteq Asks /\ o.opens \in SUBSET Nat /\ o.call \in Nat /\ o.sent \in BOOLEAN
            /\ \A d \in o.calls :
                 \/ d \in calls
                 \/ /\ d.n = o.call /\ d.kind = "open_session" /\ d.session = s /\ w \in d.waiters
                    /\ \A x \in d.waiters : x = w \/ \E e \in calls : e.n = d.n /\ e.kind = d.kind /\ x \in e.waiters
            /\ o.sent => o.call = NextCall /\ calls \subseteq o.calls /\ o.opens = v.opens \cup {o.call}
                         /\ \E d \in o.calls : d.n = o.call /\ d.kind = "open_session"
            /\ ~o.sent => /\ o.opens = v.opens /\ o.call \in v.opens
                          /\ \A d \in o.calls : \E e \in calls : e.n = d.n /\ e.kind = d.kind /\ e.id = d.id
                          /\ \E d \in o.calls : d.n = o.call /\ d.kind = "open_session"
            /\ \A d \in calls : \E e \in o.calls : e.n = d.n /\ e.kind = d.kind /\ e.id = d.id
            /\ \A d \in calls : d.kind # "open_session" => d \in o.calls
            /\ \A d, e \in o.calls : d.n = e.n => d = e
            /\ \A d, e \in o.calls :
                 d.kind = "open_session" /\ e.kind = "open_session" /\ d.session = e.session /\ {d.n, e.n} \subseteq o.opens
                   => d.n = e.n
<1> DEFINE w == Waiter(v, click)
           running == {c \in calls : c.kind = "open_session" /\ c.session = s /\ c.n \in v.opens}
<1>1. w \in Waiters
  BY WaiterShape
<1> HIDE DEF w
<1>2. CASE running # {}
  <2> DEFINE c0 == CHOOSE c \in running : TRUE
             joined(c) == [c EXCEPT !.waiters = @ \cup {w}]
             cs == {IF c \in running THEN joined(c) ELSE c : c \in calls}
  <2>1. Opening(v, s, click) = [calls |-> cs, opens |-> v.opens, call |-> c0.n, sent |-> FALSE]
    BY <1>2 DEF Opening, w
  <2>2. c0 \in calls /\ c0.kind = "open_session" /\ c0.session = s /\ c0.n \in v.opens /\ c0 \in running
    BY <1>2
  <2>3. ASSUME NEW c \in running
        PROVE  LET j == joined(c)
               IN /\ j \in Asks /\ j.n = c.n /\ j.kind = c.kind /\ j.session = c.session /\ j.id = c.id
                  /\ j.waiters = c.waiters \cup {w}
    <3>1. c \in Asks /\ c.waiters \cup {w} \in SUBSET Waiters
      BY <1>1 DEF WorkspaceTypeOK, Asks
    <3> QED
      BY <3>1 DEF Asks
  <2> HIDE DEF joined, c0
  <2>4. \A d \in cs : d \in calls \ running \/ \E c \in running : d = joined(c)
    OBVIOUS
  <2>5. \A c \in calls : IF c \in running THEN joined(c) \in cs ELSE c \in cs
    OBVIOUS
  <2> HIDE DEF cs
  <2>6. calls \subseteq Asks /\ v.opens \in SUBSET Nat /\ c0.n \in Nat
    BY <2>2 DEF WorkspaceTypeOK, Views, Asks
  <2>7. cs \subseteq Asks
    BY <2>3, <2>4, <2>6
  <2>8. \A d \in cs : \E e \in calls : e.n = d.n /\ e.kind = d.kind /\ e.id = d.id
    BY <2>3, <2>4
  <2>9. \A d \in calls : \E e \in cs : e.n = d.n /\ e.kind = d.kind /\ e.id = d.id
    BY <2>3, <2>5
  <2>10. joined(c0) \in cs /\ joined(c0).n = c0.n /\ joined(c0).kind = "open_session"
    BY <2>2, <2>3, <2>5
  <2>11. \A d \in calls : d.kind # "open_session" => d \in cs
    BY <2>5
  <2>12. ASSUME NEW d \in cs, d \notin calls
         PROVE  /\ d.n = c0.n /\ d.kind = "open_session" /\ d.session = s /\ w \in d.waiters
                /\ \A x \in d.waiters : x = w \/ \E e \in calls : e.n = d.n /\ e.kind = d.kind /\ x \in e.waiters
    <3>1. PICK c \in running : d = joined(c)
      BY <2>4, <2>12
    <3>2. c.n = c0.n
      BY <2>2 DEF OnePerSession
    <3> QED
      BY <2>3, <3>1, <3>2
  <2>13. \A d, e \in cs : d.n = e.n => d = e
    BY <2>3, <2>4 DEF Numbered
  <2>14. \A d \in cs : \E c \in calls : d.n = c.n /\ d.kind = c.kind /\ d.session = c.session
    BY <2>3, <2>4
  <2>15. \A d, e \in cs :
            d.kind = "open_session" /\ e.kind = "open_session" /\ d.session = e.session /\ {d.n, e.n} \subseteq v.opens
              => d.n = e.n
    BY <2>14 DEF OnePerSession
  <2> QED
    BY <2>1, <2>2, <2>6, <2>7, <2>8, <2>9, <2>10, <2>11, <2>12, <2>13, <2>15 DEF w
<1>3. CASE running = {}
  <2> DEFINE c == Command("open_session", NoDirectory, 0, s, {w})
  <2>1. Opening(v, s, click) = [calls |-> calls \cup {c}, opens |-> v.opens \cup {NextCall}, call |-> NextCall, sent |-> TRUE]
    BY <1>3 DEF Opening, w
  <2>2. c \in Asks /\ c.n = NextCall /\ c.kind = "open_session" /\ c.session = s /\ c.waiters = {w}
    <3>1. NoDirectory \in Directories \cup {NoDirectory} /\ 0 \in Nat /\ s \in SomeSession /\ {w} \in SUBSET Waiters
      BY <1>1 DEF SomeSession
    <3> QED
      BY <3>1, CommandShape
  <2> HIDE DEF c
  <2>3. calls \subseteq Asks /\ v.opens \in SUBSET Nat /\ NextCall \in Nat
    BY CountShape DEF WorkspaceTypeOK, Views
  <2>4. \A d \in calls : d.n # NextCall /\ d.n \in Nat
    BY CountShape DEF Numbered, Counts
  <2>5. \A d, e \in calls \cup {c} : d.n = e.n => d = e
    BY <2>2, <2>4 DEF Numbered
  <2>6. \A d, e \in calls \cup {c} :
            d.kind = "open_session" /\ e.kind = "open_session" /\ d.session = e.session
              /\ {d.n, e.n} \subseteq v.opens \cup {NextCall} => d.n = e.n
    BY <1>3, <2>2, <2>4 DEF OnePerSession
  <2> QED
    BY <2>1, <2>2, <2>3, <2>5, <2>6 DEF w
<1> QED
  BY <1>2, <1>3

-----------------------------------------------------------------------------
(* Types and numbers. *)

Sound == WorkspaceAssumption /\ WorkspaceTypeOK /\ Numbered /\ OnePerSession

LEMMA ViewFits ==
  ASSUME WorkspaceTypeOK
  PROVE  /\ view \in Views /\ view.generation \in Nat /\ view.selection \in Nat
         /\ view.workspace \in SomeWorkspace /\ view.workspace.id \in Nat
<1>1. view \in Views
  BY DEF WorkspaceTypeOK
<1>2. view.generation \in Nat /\ view.selection \in Nat /\ view.workspace \in SomeWorkspace
  BY <1>1 DEF Views
<1>3. \A w \in SomeWorkspace : w.id \in Nat
  BY DEF SomeWorkspace, Workspaces, NoWorkspace
<1> QED
  BY <1>1, <1>2, <1>3

LEMMA WaitersFit ==
  ASSUME WorkspaceTypeOK
  PROVE  \A d \in calls : \A w \in d.waiters : w.click \in Nat /\ w.generation \in Nat /\ w.selection \in Nat
<1>1. calls \subseteq Asks
  BY DEF WorkspaceTypeOK
<1>2. \A d \in Asks : \A w \in d.waiters : w \in Waiters
  BY DEF Asks
<1>3. \A w \in Waiters : w.click \in Nat /\ w.generation \in Nat /\ w.selection \in Nat
  BY DEF Waiters
<1> QED
  BY <1>1, <1>2, <1>3

\* Numbers stay in use by one command and one answer each; that of an answer taken is gone.
LEMMA NumberedStep ==
  ASSUME Sound, NEW gone, count'.calls \in Nat, count'.calls >= count.calls,
         \A d \in calls' : (d.n = NextCall /\ count'.calls = NextCall) \/ \E e \in calls : e.n = d.n /\ e.n # gone,
         \A d, e \in calls' : d.n = e.n => d = e,
         \A e \in calls : e.n # gone => \E d \in calls' : d.n = e.n,
         \A i \in DOMAIN replies' : replies'[i].n # gone /\ \E e \in calls : e.n = replies'[i].n,
         \A i, j \in DOMAIN replies' : replies'[i].n = replies'[j].n => i = j
  PROVE  Numbered'
<1>1. count.calls \in Nat /\ NextCall = count.calls + 1
  BY CountShape DEF Sound, Counts
<1> QED
  BY <1>1 DEF Sound, Numbered

LEMMA AskedNumbers ==
  ASSUME Sound, UNCHANGED replies, NEW ask, ask.n = NextCall, count'.calls = NextCall, calls' = calls \cup {ask}
  PROVE  Numbered' /\ \A d \in calls : d.n # NextCall
<1>1. NextCall \in Nat /\ NextCall = count.calls + 1 /\ count.calls \in Nat /\ \A d \in calls : d.n # NextCall /\ d.n \in Nat
  BY CountShape DEF Sound, Counts, Numbered
<1> QED
  BY <1>1 DEF Sound, Numbered

LEMMA NumbersKept ==
  ASSUME Sound, UNCHANGED <<calls, replies>>, count'.calls = count.calls, view'.opens = view.opens
  PROVE  Numbered' /\ OnePerSession'
  BY DEF Sound, Numbered, OnePerSession

LEMMA AskForWorkspaceSound ==
  ASSUME Sound, NEW op \in {"open", "close"}, NEW root \in Directories \cup {NoDirectory},
         op = "open" <=> root \in Directories, AskForWorkspace(op, root)
  PROVE  Sound'
<1>1. [op |-> op, root |-> root] \in WorkspaceChanges
  BY DEF WorkspaceChanges, Sound, WorkspaceAssumption
<1>2. /\ changes' = Append(changes, [op |-> op, root |-> root]) /\ count' = Clicked
      /\ UNCHANGED <<view, remembered, change, calls, replies, goal, events, peer, archive, disturbed>>
  BY DEF AskForWorkspace, RendererOnly
<1>3. count' \in Counts /\ count'.calls = count.calls
  BY <1>2, CountShape DEF Sound
<1>4. WorkspaceTypeOK'
  <2>1. changes' \in Seq(WorkspaceChanges)
    BY <1>1, <1>2 DEF Sound, WorkspaceTypeOK
  <2> QED
    BY <1>2, <1>3, <2>1 DEF Sound, WorkspaceTypeOK, Counts
<1> QED
  BY <1>2, <1>3, <1>4, NumbersKept DEF Sound

LEMMA StartChangeSound ==
  ASSUME Sound, StartChange
  PROVE  Sound'
<1> DEFINE c == Head(changes)
           skip == c.op = "close" /\ view.workspace = NoWorkspace
           ask == IF c.op = "open" THEN OpenWorkspace(c.root) ELSE CloseWorkspace(view.workspace)
<1>1. c \in WorkspaceChanges /\ Tail(changes) \in Seq(WorkspaceChanges) /\ c.op \in {"open", "close"}
      /\ (c.op = "open" <=> c.root \in Directories)
  BY DEF Sound, WorkspaceTypeOK, StartChange, WorkspaceChanges, WorkspaceAssumption
<1>2. ask \in Asks /\ ask.n = NextCall /\ ask.kind # "open_session" /\ (ask.kind = "open_workspace" => ask.root \in Directories)
  <2>1. {} \in SUBSET Waiters /\ NoSession \in SomeSession /\ view.workspace.id \in Nat /\ 0 \in Nat
        /\ NoDirectory \in Directories \cup {NoDirectory}
    BY ViewFits DEF Sound, SomeSession
  <2>2. CASE c.op = "open"
    <3>1. c.root \in Directories \cup {NoDirectory} /\ c.root \in Directories /\ ask = OpenWorkspace(c.root)
      BY <1>1, <2>2
    <3> HIDE DEF c
    <3> QED
      BY <2>1, <3>1, CommandShape DEF OpenWorkspace, Sound
  <2>3. CASE c.op # "open"
    <3>1. ask = CloseWorkspace(view.workspace)
      BY <2>3
    <3> QED
      BY <2>1, <3>1, CommandShape DEF CloseWorkspace, Sound
  <2> QED
    BY <2>2, <2>3
<1>3. CASE skip
  <2>1. changes' = Tail(changes) /\ UNCHANGED <<view, remembered, change, calls, replies, goal, events, peer, archive, count, disturbed>>
    BY <1>3 DEF StartChange, RendererOnly
  <2> HIDE DEF ask, skip, c
  <2>2. WorkspaceTypeOK'
    BY <1>1, <2>1 DEF Sound, WorkspaceTypeOK
  <2> QED
    BY <2>1, <2>2, NumbersKept DEF Sound
<1>4. CASE ~skip
  <2>1. /\ change' = [op |-> c.op, step |-> "asked", target |-> view.workspace, generation |-> 0, call |-> NextCall]
        /\ calls' = calls \cup {ask} /\ count' = Called(count) /\ changes' = Tail(changes)
        /\ UNCHANGED <<view, remembered, replies, goal, events, peer, archive, disturbed>>
    BY <1>4 DEF StartChange, RendererOnly
  <2> HIDE DEF ask, skip, c
  <2>2. Numbered'
    BY <1>2, <2>1, AskedNumbers, CountShape DEF Sound
  <2>3. OnePerSession'
    BY <1>2, <2>1 DEF OnePerSession, Sound
  <2>4. change' \in [op : {"none", "open", "close"}, step : Steps, target : SomeWorkspace, generation : Nat, call : Nat]
    BY <1>1, <2>1, CountShape DEF Steps, Sound, WorkspaceTypeOK, Views
  <2> QED
    BY <1>1, <1>2, <2>1, <2>2, <2>3, <2>4, CountShape DEF Sound, WorkspaceTypeOK, Counts
<1> QED
  BY <1>3, <1>4

LEMMA SelectTabSound ==
  ASSUME Sound, NEW s \in AllSessions, SelectTab(s)
  PROVE  /\ Sound'
         /\ view'.generation = view.generation /\ view'.selection = view.selection + 1 /\ view'.active = s
         /\ view'.workspace = view.workspace /\ view'.opens = view.opens /\ view'.start = view.start
         /\ view'.starting = view.starting
<1>1. view \in Views /\ s \in SomeSession
  BY DEF Sound, WorkspaceTypeOK, SomeSession
<1>2. But(Selecting(view), view, {"resume", "selection"}) /\ Selecting(view).selection = view.selection + 1
  BY <1>1, SelectingShape
<1>3. But(view', Selecting(view), {"active"}) /\ view'.active = s
  BY <1>1, <1>2, SetActive DEF SelectTab, But
<1>4. But(view', view, {"active"} \cup {"resume", "selection"})
  BY <1>2, <1>3, ButBut
<1>5. /\ view'.generation = view.generation /\ view'.selection = view.selection + 1 /\ view'.active = s
      /\ view'.workspace = view.workspace /\ view'.opens = view.opens /\ view'.start = view.start
      /\ view'.starting = view.starting /\ view' \in Views
  BY <1>2, <1>3, <1>4 DEF But, Fields
<1>6. remembered' \in [Directories -> SomeSession]
  BY <1>1 DEF SelectTab, Remember, Sound, WorkspaceTypeOK, Views
<1>7. /\ UNCHANGED <<change, changes, calls, replies, events, peer, archive, disturbed>>
      /\ goal' = s /\ count' = Clicked
  BY DEF SelectTab, RendererOnly
<1>8. count' \in Counts /\ count'.calls = count.calls
  BY <1>7, CountShape DEF Sound
<1>9. WorkspaceTypeOK'
  BY <1>1, <1>5, <1>6, <1>7, <1>8 DEF Sound, WorkspaceTypeOK, Counts
<1> QED
  BY <1>5, <1>7, <1>8, <1>9, NumbersKept DEF Sound

LEMMA OpenSessionSound ==
  ASSUME Sound, NEW s \in AllSessions, OpenSession(s)
  PROVE  /\ Sound' /\ But(view', view, {"resume", "selection", "opens"}) /\ view'.selection = view.selection + 1
         /\ view'.opens = Opening(Selecting(view), s, Clicked.clicks).opens
         /\ calls' = Opening(Selecting(view), s, Clicked.clicks).calls
         /\ count' = IF Opening(Selecting(view), s, Clicked.clicks).sent THEN Called(Clicked) ELSE Clicked
<1> DEFINE v == Selecting(view)
           o == Opening(v, s, Clicked.clicks)
<1>1. view \in Views /\ s \in SomeSession
  BY DEF Sound, WorkspaceTypeOK, SomeSession
<1>2. But(v, view, {"resume", "selection"}) /\ v.selection = view.selection + 1 /\ v.opens = view.opens /\ v \in Views
  BY <1>1, SelectingShape DEF But, Fields
<1>3. Clicked.clicks \in Nat /\ Clicked.calls = count.calls /\ Clicked \in Counts /\ Called(Clicked) \in Counts
      /\ Called(Clicked).calls = NextCall /\ NextCall = count.calls + 1 /\ count.calls \in Nat
  BY CountShape DEF Counts, Sound
<1> HIDE DEF v
<1>4. /\ o.calls \subseteq Asks /\ o.opens \in SUBSET Nat /\ o.call \in Nat /\ o.sent \in BOOLEAN
      /\ \A d \in o.calls : d \in calls \/ (d.n = o.call /\ d.kind = "open_session" /\ d.session = s)
      /\ o.sent => o.call = NextCall
      /\ ~o.sent => \A d \in o.calls : \E e \in calls : e.n = d.n
      /\ \A d \in calls : \E e \in o.calls : e.n = d.n
      /\ \A d, e \in o.calls : d.n = e.n => d = e
      /\ \A d, e \in o.calls :
           d.kind = "open_session" /\ e.kind = "open_session" /\ d.session = e.session /\ {d.n, e.n} \subseteq o.opens
             => d.n = e.n
  BY <1>2, <1>3, OpeningShape DEF Sound
<1> HIDE DEF o
<1>5. /\ view' = [v EXCEPT !.opens = o.opens] /\ calls' = o.calls
      /\ count' = IF o.sent THEN Called(Clicked) ELSE Clicked
      /\ goal' = NoSession
      /\ UNCHANGED <<remembered, change, changes, replies, events, peer, archive, disturbed>>
  BY DEF OpenSession, RendererOnly, v, o
<1>6. But(view', v, {"opens"}) /\ view'.opens = o.opens
  BY <1>2, <1>4, <1>5, SetOpens
<1>7. But(view', view, {"opens"} \cup {"resume", "selection"}) /\ view'.selection = v.selection
  BY <1>2, <1>6, ButBut DEF But, Fields
<1>8. count' \in Counts /\ count'.calls \in Nat /\ count'.calls >= count.calls /\ (o.sent => count'.calls = NextCall)
  BY <1>3, <1>5
<1>9. WorkspaceTypeOK'
  BY <1>1, <1>4, <1>5, <1>7, <1>8 DEF Sound, WorkspaceTypeOK, Counts, SomeSession, But
<1>10. \A d \in calls : d.n \in 1..count.calls
  BY DEF Sound, Numbered
<1>11. Numbered'
  <2>1. \A d \in calls' : (d.n = NextCall /\ count'.calls = NextCall) \/ \E e \in calls : e.n = d.n /\ e.n # 0
    BY <1>4, <1>5, <1>8, <1>10
  <2>2. \A i \in DOMAIN replies' : replies'[i].n # 0 /\ \E e \in calls : e.n = replies'[i].n
    BY <1>5, <1>10 DEF Sound, Numbered
  <2>3. \A i, j \in DOMAIN replies' : replies'[i].n = replies'[j].n => i = j
    BY <1>5 DEF Sound, Numbered
  <2>4. \A d, e \in calls' : d.n = e.n => d = e
    BY <1>4, <1>5
  <2>5. \A e \in calls : e.n # 0 => \E d \in calls' : d.n = e.n
    BY <1>4, <1>5
  <2> QED
    BY <1>8, <2>1, <2>2, <2>3, <2>4, <2>5, NumberedStep
<1>12. OnePerSession'
  BY <1>4, <1>5, <1>6 DEF OnePerSession
<1>13. But(view', view, {"resume", "selection", "opens"})
  BY <1>7 DEF But
<1> QED
  BY <1>2, <1>5, <1>6, <1>7, <1>9, <1>11, <1>12, <1>13 DEF Sound, v, o

LEMMA NewSessionSound ==
  ASSUME Sound, NewSession
  PROVE  /\ Sound'
         /\ \/ UNCHANGED <<view, calls>> /\ count' = Clicked
            \/ /\ But(view', view, {"resume", "selection", "starting", "start"}) /\ view'.selection = view.selection + 1
               /\ view'.starting /\ view'.start = NextCall /\ count' = Called(Clicked)
               /\ \E ask \in Asks : /\ calls' = calls \cup {ask} /\ ask.n = NextCall /\ ask.kind = "create_session"
                                    /\ \A w \in ask.waiters :
                                         /\ w.generation = view'.generation /\ w.selection = view'.selection
                                         /\ w.click = Clicked.clicks
<1>1. view \in Views
  BY DEF Sound, WorkspaceTypeOK
<1>2. UNCHANGED <<remembered, change, changes, replies, events, peer, archive>> /\ goal' = NoSession /\ disturbed' \in BOOLEAN
      /\ NoSession \in SomeSession
  BY DEF NewSession, RendererOnly, Sound, WorkspaceTypeOK, SomeSession
<1>3. CASE view.start # NoSlot
  <2>1. UNCHANGED <<view, calls>> /\ count' = Clicked
    BY <1>3 DEF NewSession
  <2>2. count' \in Counts /\ count'.calls = count.calls
    BY <2>1, CountShape DEF Sound
  <2>3. WorkspaceTypeOK'
    BY <1>2, <2>1, <2>2 DEF Sound, WorkspaceTypeOK, Counts
  <2> QED
    BY <1>2, <2>1, <2>2, <2>3, NumbersKept DEF Sound
<1>4. CASE view.start = NoSlot
  <2> DEFINE b == Selecting(view)
             a == [b EXCEPT !.starting = TRUE]
             v == [b EXCEPT !.starting = TRUE, !.start = NextCall]
             ask == Command("create_session", NoDirectory, view.workspace.id, NoSession, {Waiter(v, Clicked.clicks)})
  <2>1. But(b, view, {"resume", "selection"}) /\ b.selection = view.selection + 1 /\ b \in Views
    BY <1>1, SelectingShape DEF But
  <2> HIDE DEF b
  <2>2. But(a, b, {"starting"}) /\ a.starting /\ a \in Views
    BY <2>1, SetStarting DEF But
  <2>3. v = [a EXCEPT !.start = NextCall]
    OBVIOUS
  <2> HIDE DEF a, v
  <2>4. But(v, a, {"start"}) /\ v.start = NextCall /\ v \in Views
    BY <2>2, <2>3, SetStart, CountShape DEF But, Sound
  <2>5. v.starting /\ v.selection = view.selection + 1 /\ v.opens = view.opens
    BY <2>1, <2>2, <2>4 DEF But, Fields
  <2>6. But(v, view, {"start"} \cup ({"starting"} \cup {"resume", "selection"}))
    BY <2>1, <2>2, <2>4, ButBut
  <2>7. view' = v /\ calls' = calls \cup {ask} /\ count' = Called(Clicked)
    BY <1>4 DEF NewSession, v, b
  <2> DEFINE w == Waiter(v, Clicked.clicks)
  <2>8. w \in Waiters /\ w.generation = v.generation /\ w.selection = v.selection /\ w.click = Clicked.clicks
    BY <2>4, WaiterShape, CountShape DEF Counts, Sound
  <2>9. ask \in Asks /\ ask.n = NextCall /\ ask.kind = "create_session" /\ ask.waiters = {w}
    <3>1. NoDirectory \in Directories \cup {NoDirectory} /\ view.workspace.id \in Nat /\ NoSession \in SomeSession
      BY ViewFits DEF Sound, SomeSession
    <3>2. {w} \in SUBSET Waiters
      BY <2>8
    <3> HIDE DEF w
    <3> QED
      BY <3>1, <3>2, CommandShape DEF Sound, w
  <2> HIDE DEF ask, w
  <2>10. count' \in Counts /\ count'.calls = NextCall
    BY <2>7, CountShape DEF Sound
  <2>11. Numbered'
    BY <1>2, <2>7, <2>9, <2>10, AskedNumbers
  <2>12. OnePerSession'
    BY <2>5, <2>7, <2>9 DEF OnePerSession, Sound
  <2>13. WorkspaceTypeOK'
    BY <1>2, <2>4, <2>7, <2>9, <2>10 DEF Sound, WorkspaceTypeOK, Counts
  <2>14. But(v, view, {"resume", "selection", "starting", "start"})
    BY <2>6 DEF But
  <2> QED
    BY <2>4, <2>5, <2>7, <2>8, <2>9, <2>11, <2>12, <2>13, <2>14 DEF Sound
<1> QED
  BY <1>3, <1>4

LEMMA CloseTabSound ==
  ASSUME Sound, NEW s \in AllSessions, CloseTab(s)
  PROVE  /\ Sound' /\ But(view', view, {"resume", "selection"}) /\ count' = Called(Clicked)
         /\ IF view.active = s THEN view'.selection = view.selection + 1 /\ goal' = NoSession
            ELSE view' = view /\ goal' = goal
         /\ \E ask \in Asks : calls' = calls \cup {ask} /\ ask.n = NextCall /\ ask.kind = "close_session"
<1> DEFINE v == IF view.active = s THEN Selecting(view) ELSE view
           w == Waiter(v, 0)
           ask == Command("close_session", NoDirectory, 0, s, {w})
<1>1. view \in Views /\ s \in SomeSession /\ NoSession \in SomeSession /\ 0 \in Nat
  BY DEF Sound, WorkspaceTypeOK, SomeSession
<1>2. But(v, view, {"resume", "selection"}) /\ (view.active = s => v.selection = view.selection + 1) /\ v.opens = view.opens
      /\ v \in Views
  BY <1>1, SelectingShape DEF But, Fields
<1>3. (view.active # s => v = view)
  OBVIOUS
<1> HIDE DEF v
<1>4. w \in Waiters
  BY <1>1, <1>2, WaiterShape
<1> HIDE DEF w
<1>5. ask \in Asks /\ ask.n = NextCall /\ ask.kind = "close_session"
  <2>1. NoDirectory \in Directories \cup {NoDirectory} /\ {w} \in SUBSET Waiters
    BY <1>4
  <2> QED
    BY <1>1, <2>1, CommandShape DEF Sound
<1>6. /\ view' = v /\ calls' = calls \cup {ask} /\ count' = Called(Clicked)
      /\ goal' = (IF view.active = s THEN NoSession ELSE goal)
      /\ UNCHANGED <<remembered, change, changes, replies, events, peer, archive, disturbed>>
  BY DEF CloseTab, RendererOnly, v, w
<1> HIDE DEF ask
<1>7. count' \in Counts /\ count'.calls = NextCall
  BY <1>6, CountShape DEF Sound
<1>8. Numbered'
  BY <1>5, <1>6, <1>7, AskedNumbers
<1>9. OnePerSession'
  BY <1>2, <1>5, <1>6 DEF OnePerSession, Sound
<1>10. WorkspaceTypeOK'
  BY <1>1, <1>2, <1>5, <1>6, <1>7 DEF Sound, WorkspaceTypeOK, Counts
<1> QED
  BY <1>2, <1>3, <1>5, <1>6, <1>8, <1>9, <1>10 DEF Sound

\* What the host does leaves the window as it is.
LEMMA HostSound ==
  ASSUME Sound, HostOnly, UNCHANGED calls, WorkspaceTypeOK', count'.calls = count.calls,
         \A i \in DOMAIN replies' : \E e \in calls : e.n = replies'[i].n,
         \A i, j \in DOMAIN replies' : replies'[i].n = replies'[j].n => i = j
  PROVE  Sound'
  BY DEF Sound, HostOnly, Numbered, OnePerSession

LEMMA AnsweredOnce ==
  ASSUME Sound, NEW c \in Unanswered, NEW r \in Answers, r.n = c.n, replies' = Append(replies, r)
  PROVE  /\ replies' \in Seq(Answers) /\ \A i \in DOMAIN replies' : \E e \in calls : e.n = replies'[i].n
         /\ \A i, j \in DOMAIN replies' : replies'[i].n = replies'[j].n => i = j
         /\ Len(replies') = Len(replies) + 1 /\ replies'[Len(replies) + 1] = r
         /\ \A i \in DOMAIN replies : replies'[i] = replies[i] /\ i \in DOMAIN replies'
         /\ \A i \in DOMAIN replies' : i = Len(replies) + 1 \/ i \in DOMAIN replies
<1>1. replies \in Seq(Answers) /\ c \in calls /\ \A i \in DOMAIN replies : replies[i].n # c.n
  BY DEF Sound, WorkspaceTypeOK, Unanswered
<1>2. /\ replies' \in Seq(Answers) /\ Len(replies') = Len(replies) + 1 /\ replies'[Len(replies) + 1] = r
      /\ \A i \in DOMAIN replies : replies'[i] = replies[i] /\ i \in DOMAIN replies'
      /\ \A i \in DOMAIN replies' : i = Len(replies) + 1 \/ i \in DOMAIN replies
  BY <1>1
<1>3. \A i \in DOMAIN replies' : \E e \in calls : e.n = replies'[i].n
  BY <1>1, <1>2 DEF Sound, Numbered
<1>4. \A i, j \in DOMAIN replies' : replies'[i].n = replies'[j].n => i = j
  BY <1>1, <1>2 DEF Sound, Numbered
<1> QED
  BY <1>2, <1>3, <1>4

Placements == UNION {[S -> Workspaces] : S \in SUBSET AllSessions}
Orders == UNION {[S -> Nat] : S \in SUBSET Directories}
Ledgers == [roots : Orders, ids : SUBSET Workspaces, sessions : Placements]
Peers ==
  [up : BOOLEAN, open : SUBSET Workspaces, active : SomeWorkspace, sessions : Placements,
   late : SUBSET Asks, kept : Ledgers]

Placed(f) == \A s \in DOMAIN f : f[s].root = DirectoryOf[s]
LateFits(S) == \A c \in S : /\ c.kind = "open_workspace" => c.root \in Directories
                            /\ c.kind = "open_session" => c.session \in AllSessions
KeptFits(k) == k \in Ledgers /\ IsFiniteSet(DOMAIN k.roots)
PeerFits(p) == p \in Peers /\ IsFiniteSet(p.open) /\ Placed(p.sessions) /\ LateFits(p.late) /\ KeptFits(p.kept)

PeerTypes(p) ==
  /\ p \in [up : BOOLEAN, open : SUBSET Workspaces, active : SomeWorkspace, sessions : {p.sessions},
            late : SUBSET Asks, kept : {p.kept}]
  /\ IsPlacement(p.sessions) /\ IsFiniteSet(p.open) /\ LedgerFits(p.kept)
  /\ \A s \in DOMAIN p.sessions : p.sessions[s].root = DirectoryOf[s]
  /\ \A c \in p.late : /\ c.kind = "open_workspace" => c.root \in Directories
                       /\ c.kind = "open_session" => c.session \in AllSessions

LEMMA PeersFit ==
  ASSUME NEW p, PeerFits(p)
  PROVE  PeerTypes(p)
<1>1. p \in Peers /\ p.sessions \in Placements /\ p.kept \in Ledgers
  BY DEF PeerFits, Peers
<1>2. IsPlacement(p.sessions)
  BY <1>1 DEF Placements, IsPlacement
<1>3. LedgerFits(p.kept)
  <2>1. p.kept.sessions \in Placements /\ p.kept.roots \in Orders /\ IsFiniteSet(DOMAIN p.kept.roots)
    BY <1>1 DEF Ledgers, PeerFits, KeptFits
  <2>2. IsPlacement(p.kept.sessions) /\ \E S \in SUBSET Directories : p.kept.roots \in [S -> Nat]
    BY <2>1 DEF Placements, IsPlacement, Orders
  <2> QED
    BY <1>1, <2>1, <2>2 DEF LedgerFits, Ledgers
<1> QED
  BY <1>1, <1>2, <1>3 DEF PeerTypes, PeerFits, Peers, Placed, LateFits

OtherTypes ==
  /\ view \in Views /\ remembered \in [Directories -> SomeSession]
  /\ change \in [op : {"none", "open", "close"}, step : Steps, target : SomeWorkspace, generation : Nat, call : Nat]
  /\ changes \in Seq(WorkspaceChanges)
  /\ calls \subseteq Asks
  /\ \A c \in calls : /\ c.kind = "open_workspace" => c.root \in Directories
                      /\ c.kind = "open_session" => c.session \in AllSessions
  /\ replies \in Seq(Answers) /\ events \in Seq(Events)
  /\ archive \subseteq AllSessions /\ count \in Counts
  /\ goal \in SomeSession /\ disturbed \in BOOLEAN

LEMMA TypesSplit == WorkspaceTypeOK <=> PeerTypes(peer) /\ OtherTypes
  BY DEF WorkspaceTypeOK, PeerTypes, OtherTypes, Counts

\* The types of the next state, when the host's are known.
LEMMA TypesNext ==
  ASSUME OtherTypes', PeerFits(peer')
  PROVE  WorkspaceTypeOK'
<1>1. PeerTypes(peer')
  BY PeersFit
<1> QED
  BY <1>1 DEF WorkspaceTypeOK, PeerTypes, OtherTypes, Counts

LEMMA PeerShape ==
  ASSUME Sound
  PROVE  /\ PeerFits(peer) /\ peer \in Peers /\ peer.up \in BOOLEAN /\ peer.open \in SUBSET Workspaces
         /\ peer.active \in SomeWorkspace /\ peer.late \in SUBSET Asks
         /\ peer.sessions \in Placements /\ IsFiniteSet(peer.open) /\ DOMAIN peer.sessions \in SUBSET AllSessions
         /\ \A s \in DOMAIN peer.sessions : peer.sessions[s] \in Workspaces /\ peer.sessions[s].root = DirectoryOf[s]
<1>1. PICK T \in SUBSET AllSessions : peer.sessions \in [T -> Workspaces]
  BY DEF Sound, WorkspaceTypeOK, IsPlacement
<1>2. peer.sessions \in Placements /\ DOMAIN peer.sessions \in SUBSET AllSessions
      /\ \A s \in DOMAIN peer.sessions : peer.sessions[s] \in Workspaces
  BY <1>1 DEF Placements
<1>3. KeptFits(peer.kept)
  <2>1. LedgerFits(peer.kept)
    BY DEF Sound, WorkspaceTypeOK
  <2>2. peer.kept.sessions \in Placements /\ peer.kept.roots \in Orders
    BY <2>1 DEF LedgerFits, IsPlacement, Placements, Orders
  <2> QED
    BY <2>1, <2>2 DEF LedgerFits, KeptFits, Ledgers
<1>4. peer \in Peers
  BY <1>2, <1>3 DEF Sound, WorkspaceTypeOK, Peers, KeptFits
<1>5. PeerFits(peer)
  BY <1>3, <1>4 DEF Sound, WorkspaceTypeOK, PeerFits, Placed, LateFits
<1> QED
  BY <1>2, <1>4, <1>5 DEF Peers, PeerFits, Placed

LEMMA RestrictFits ==
  ASSUME NEW f \in Placements, NEW S \in SUBSET DOMAIN f
  PROVE  Restrict(f, S) \in Placements /\ (Placed(f) => Placed(Restrict(f, S)))
<1>1. PICK T \in SUBSET AllSessions : f \in [T -> Workspaces]
  BY DEF Placements
<1>2. S \in SUBSET AllSessions /\ [s \in S |-> f[s]] \in [S -> Workspaces]
  BY <1>1
<1> QED
  BY <1>2 DEF Placements, Restrict, Placed

LEMMA PutFits ==
  ASSUME NEW f \in Placements, NEW s \in AllSessions, NEW w \in Workspaces
  PROVE  LET g == [x \in DOMAIN f \cup {s} |-> IF x = s THEN w ELSE f[x]]
         IN g \in Placements /\ (Placed(f) /\ w.root = DirectoryOf[s] => Placed(g))
<1>1. PICK T \in SUBSET AllSessions : f \in [T -> Workspaces]
  BY DEF Placements
<1>2. T \cup {s} \in SUBSET AllSessions /\ DOMAIN f = T
      /\ [x \in T \cup {s} |-> IF x = s THEN w ELSE f[x]] \in [T \cup {s} -> Workspaces]
  BY <1>1
<1> QED
  BY <1>2 DEF Placements, Placed

\* What a host has open after each of its steps.
LEMMA OpensFits ==
  ASSUME NEW h, PeerFits(h), NEW w \in Workspaces
  PROVE  PeerFits(Opens(h, w)) /\ Opens(h, w).open = h.open \cup {w} /\ Opens(h, w).up = h.up /\ Opens(h, w).kept = h.kept
<1>1. h \in Peers /\ IsFiniteSet(h.open \cup {w}) /\ w \in SomeWorkspace /\ h.open \cup {w} \in SUBSET Workspaces
  BY FS_AddElement DEF PeerFits, Peers, SomeWorkspace
<1> DEFINE p == Opens(h, w)
           o == h.open \cup {w}
<1>4. p = [h EXCEPT !.open = o, !.active = w]
  BY <1>1 DEF Opens, Peers
<1> HIDE DEF o, p
<1>2. p = [up |-> h.up, open |-> o, active |-> w, sessions |-> h.sessions, late |-> h.late, kept |-> h.kept]
  BY <1>1, <1>4 DEF Peers
<1>3. p \in Peers
  BY <1>1, <1>2 DEF Peers, o
<1> QED
  BY <1>1, <1>2, <1>3 DEF PeerFits, o, p

LEMMA ClosesFits ==
  ASSUME NEW h, PeerFits(h), NEW id
  PROVE  /\ PeerFits(Closes(h, id)) /\ Closes(h, id).open = {w \in h.open : w.id # id} /\ Closes(h, id).up = h.up
         /\ Closes(h, id).kept = h.kept
<1> DEFINE f == Restrict(h.sessions, {s \in DOMAIN h.sessions : h.sessions[s].id # id})
           open == {w \in h.open : w.id # id}
           active == IF h.active.id = id THEN NoWorkspace ELSE h.active
           p == Closes(h, id)
<1>1. h \in Peers /\ h.sessions \in Placements /\ Placed(h.sessions)
  BY DEF PeerFits, Peers
<1>2. f \in Placements /\ Placed(f)
  BY <1>1, RestrictFits
<1>3. open \in SUBSET Workspaces /\ IsFiniteSet(open) /\ active \in SomeWorkspace
  BY <1>1, FS_Subset DEF PeerFits, Peers, SomeWorkspace
<1>6. p = [h EXCEPT !.open = open, !.active = active, !.sessions = f]
  BY <1>1 DEF Closes, Peers
<1> HIDE DEF p, open, f, active
<1>4. p = [up |-> h.up, open |-> open, active |-> active, sessions |-> f, late |-> h.late, kept |-> h.kept]
  BY <1>1, <1>6 DEF Peers
<1>5. p \in Peers
  BY <1>1, <1>2, <1>3, <1>4 DEF Peers
<1> QED
  BY <1>2, <1>3, <1>4, <1>5 DEF PeerFits, open, p

LEMMA HoldsFits ==
  ASSUME NEW h, PeerFits(h), NEW s \in AllSessions, NEW w \in Workspaces, w.root = DirectoryOf[s]
  PROVE  PeerFits(Holds(h, s, w)) /\ Holds(h, s, w).open = h.open /\ Holds(h, s, w).up = h.up /\ Holds(h, s, w).kept = h.kept
<1> DEFINE f == [x \in DOMAIN h.sessions \cup {s} |-> IF x = s THEN w ELSE h.sessions[x]]
           p == Holds(h, s, w)
<1>1. h \in Peers /\ h.sessions \in Placements /\ Placed(h.sessions)
  BY DEF PeerFits, Peers
<1>2. f \in Placements /\ Placed(f)
  BY <1>1, PutFits
<1>3. p = [up |-> h.up, open |-> h.open, active |-> h.active, sessions |-> f, late |-> h.late, kept |-> h.kept]
  BY <1>1 DEF Holds, Peers
<1> HIDE DEF f
<1>4. p \in Peers
  BY <1>1, <1>2, <1>3 DEF Peers
<1> QED
  BY <1>2, <1>3, <1>4 DEF PeerFits

LEMMA DropsFits ==
  ASSUME NEW h, PeerFits(h), NEW s
  PROVE  PeerFits(Drops(h, s)) /\ Drops(h, s).open = h.open /\ Drops(h, s).up = h.up /\ Drops(h, s).kept = h.kept
<1> DEFINE f == Restrict(h.sessions, DOMAIN h.sessions \ {s})
           p == Drops(h, s)
<1>1. h \in Peers /\ h.sessions \in Placements /\ Placed(h.sessions)
  BY DEF PeerFits, Peers
<1>2. f \in Placements /\ Placed(f)
  BY <1>1, RestrictFits
<1>3. p = [up |-> h.up, open |-> h.open, active |-> h.active, sessions |-> f, late |-> h.late, kept |-> h.kept]
  BY <1>1 DEF Drops, Peers
<1> HIDE DEF f
<1>4. p \in Peers
  BY <1>1, <1>2, <1>3 DEF Peers
<1> QED
  BY <1>2, <1>3, <1>4 DEF PeerFits

\* What main keeps, and has given up, beside it.
LEMMA KeepsFits ==
  ASSUME NEW h, PeerFits(h), NEW k, KeptFits(k)
  PROVE  LET p == [h EXCEPT !.kept = k] IN PeerFits(p) /\ p.open = h.open /\ p.up = h.up
<1> DEFINE p == [h EXCEPT !.kept = k]
<1>1. p = [up |-> h.up, open |-> h.open, active |-> h.active, sessions |-> h.sessions, late |-> h.late, kept |-> k]
  BY DEF PeerFits, Peers
<1>2. p \in Peers
  BY <1>1 DEF PeerFits, Peers, KeptFits
<1> QED
  BY <1>1, <1>2 DEF PeerFits

LEMMA GivenUpFits ==
  ASSUME NEW h, PeerFits(h), NEW S \in SUBSET Asks, LateFits(S)
  PROVE  LET p == [h EXCEPT !.late = S]
         IN PeerFits(p) /\ p.open = h.open /\ p.up = h.up /\ p.sessions = h.sessions /\ p.kept = h.kept
<1> DEFINE p == [h EXCEPT !.late = S]
<1>1. p = [up |-> h.up, open |-> h.open, active |-> h.active, sessions |-> h.sessions, late |-> S, kept |-> h.kept]
  BY DEF PeerFits, Peers
<1>2. p \in Peers
  BY <1>1 DEF PeerFits, Peers
<1> QED
  BY <1>1, <1>2 DEF PeerFits

LEMMA NotedFits ==
  ASSUME NEW k, KeptFits(k), NEW w \in Workspaces
  PROVE  KeptFits(Noted(k, w))
<1> DEFINE f == [r \in DOMAIN k.roots \cup {w.root} |-> IF r = w.root THEN w.id ELSE k.roots[r]]
<1>1. k \in Ledgers /\ k.roots \in Orders /\ w.root \in Directories /\ w.id \in Nat
  BY DEF KeptFits, Ledgers, Workspaces
<1>2. PICK T \in SUBSET Directories : k.roots \in [T -> Nat]
  BY <1>1 DEF Orders
<1>3. T \cup {w.root} \in SUBSET Directories /\ DOMAIN k.roots = T /\ f \in [T \cup {w.root} -> Nat] /\ DOMAIN f = T \cup {w.root}
  BY <1>1, <1>2
<1>4. f \in Orders /\ IsFiniteSet(DOMAIN f)
  <2>1. IsFiniteSet(T \cup {w.root})
    BY <1>3, FS_AddElement DEF KeptFits
  <2> HIDE DEF f
  <2> QED
    BY <1>3, <2>1 DEF Orders
<1>5. NotedRoots(k, w) \in Orders /\ IsFiniteSet(DOMAIN NotedRoots(k, w))
  <2>1. NotedRoots(k, w) = IF w.root \in DOMAIN k.roots THEN k.roots ELSE f
    BY DEF NotedRoots
  <2> HIDE DEF f
  <2> QED
    BY <1>1, <1>4, <2>1 DEF KeptFits
<1>6. Noted(k, w) = [roots |-> NotedRoots(k, w), ids |-> k.ids \cup {w}, sessions |-> k.sessions]
  <2> DEFINE R == NotedRoots(k, w)
             I == k.ids \cup {w}
             a == [k EXCEPT !.roots = R]
  <2>1. Noted(k, w) = [a EXCEPT !.ids = I]
    BY <1>1 DEF Noted, Ledgers
  <2> HIDE DEF R, I
  <2>2. a = [roots |-> R, ids |-> k.ids, sessions |-> k.sessions]
    BY <1>1 DEF Ledgers
  <2> HIDE DEF a
  <2>3. [a EXCEPT !.ids = I] = [roots |-> R, ids |-> I, sessions |-> k.sessions]
    BY <2>2
  <2> QED
    BY <2>1, <2>3 DEF R, I
<1>7. Noted(k, w) \in Ledgers
  BY <1>1, <1>5, <1>6 DEF Ledgers
<1> QED
  BY <1>5, <1>6, <1>7 DEF KeptFits

LEMMA NarrowedOrder ==
  ASSUME NEW f \in Orders, IsFiniteSet(DOMAIN f), NEW S \in SUBSET DOMAIN f
  PROVE  Restrict(f, S) \in Orders /\ IsFiniteSet(DOMAIN Restrict(f, S))
<1>1. PICK T \in SUBSET Directories : f \in [T -> Nat]
  BY DEF Orders
<1>2. S \in SUBSET Directories /\ [s \in S |-> f[s]] \in [S -> Nat] /\ IsFiniteSet(S)
  BY <1>1, FS_Subset
<1> QED
  BY <1>2 DEF Orders, Restrict

LEMMA StruckFits ==
  ASSUME NEW k, KeptFits(k), NEW id
  PROVE  KeptFits(Struck(k, id))
<1> DEFINE ids == {w \in k.ids : w.id # id}
           here == {w.root : w \in k.ids \ ids}
           gone == here \ {w.root : w \in ids}
           rs == Restrict(k.roots, DOMAIN k.roots \ gone)
           ss == Restrict(k.sessions, {s \in DOMAIN k.sessions : k.sessions[s].id # id /\ k.sessions[s].root \notin here})
<1>1. k.roots \in Orders /\ IsFiniteSet(DOMAIN k.roots) /\ k.sessions \in Placements /\ ids \in SUBSET Workspaces
  BY DEF KeptFits, Ledgers
<1>2. rs \in Orders /\ IsFiniteSet(DOMAIN rs)
  BY <1>1, NarrowedOrder
<1>3. ss \in Placements
  BY <1>1, RestrictFits
<1>4. Struck(k, id) = [roots |-> rs, ids |-> ids, sessions |-> ss]
  BY DEF Struck
<1> HIDE DEF ids, here, gone, rs, ss
<1>5. Struck(k, id) \in Ledgers
  BY <1>1, <1>2, <1>3, <1>4 DEF Ledgers
<1> QED
  BY <1>2, <1>4, <1>5 DEF KeptFits

LEMMA KeptSession ==
  ASSUME NEW k, KeptFits(k), NEW s \in AllSessions, NEW w \in Workspaces
  PROVE  KeptFits(Holds(k, s, w)) /\ KeptFits(Drops(k, s))
<1> DEFINE f == [x \in DOMAIN k.sessions \cup {s} |-> IF x = s THEN w ELSE k.sessions[x]]
           g == Restrict(k.sessions, DOMAIN k.sessions \ {s})
<1>1. k \in Ledgers /\ k.sessions \in Placements
  BY DEF KeptFits, Ledgers
<1>2. f \in Placements /\ g \in Placements
  BY <1>1, PutFits, RestrictFits
<1>3. Holds(k, s, w) = [roots |-> k.roots, ids |-> k.ids, sessions |-> f]
  BY <1>1 DEF Holds, Ledgers
<1>4. Drops(k, s) = [roots |-> k.roots, ids |-> k.ids, sessions |-> g]
  BY <1>1 DEF Drops, Ledgers
<1> HIDE DEF f, g
<1>5. Holds(k, s, w) \in Ledgers /\ Drops(k, s) \in Ledgers
  BY <1>1, <1>2, <1>3, <1>4 DEF Ledgers
<1> QED
  BY <1>3, <1>4, <1>5 DEF KeptFits

LEMMA FoundShape ==
  ASSUME Sound, NEW h, PeerFits(h), NEW root \in Directories
  PROVE  /\ Found(h, root) \in Workspaces /\ Found(h, root).root = root
         /\ root \in OpenRoots(h) <=> Found(h, root) \in h.open
         /\ Found(h, root) \in h.open \/ (Found(h, root).id = count.ids + 1 /\ \A x \in h.open : x.root # root)
         /\ CountFound(h, root) \in Counts /\ CountFound(h, root).calls = count.calls
         /\ CountFound(h, root).clicks = count.clicks
         /\ CountFound(h, root).ids = IF Found(h, root) \in h.open THEN count.ids ELSE count.ids + 1
<1>1. h.open \in SUBSET Workspaces /\ count \in Counts /\ count.ids \in Nat
  BY CountShape DEF PeerFits, Peers, Sound
<1>2. CASE root \in OpenRoots(h)
  <2>1. PICK x \in h.open : x.root = root
    BY <1>2 DEF OpenRoots
  <2>2. WorkspaceAt(h, root) \in h.open /\ WorkspaceAt(h, root).root = root
    BY <2>1 DEF WorkspaceAt
  <2>3. Found(h, root) = WorkspaceAt(h, root) /\ CountFound(h, root) = count
    BY <1>2 DEF Found, CountFound
  <2> QED
    BY <1>1, <1>2, <2>2, <2>3 DEF Counts
<1>3. CASE root \notin OpenRoots(h)
  <2>1. Found(h, root) = [id |-> count.ids + 1, root |-> root] /\ \A x \in h.open : x.root # root
    BY <1>3 DEF Found, NewId, OpenRoots
  <2>2. CountFound(h, root) = [count EXCEPT !.ids = @ + 1]
    BY <1>3 DEF CountFound
  <2>3. Found(h, root) \in Workspaces /\ Found(h, root) \notin h.open
    BY <1>1, <2>1 DEF Workspaces
  <2> QED
    BY <1>1, <1>3, <2>1, <2>2, <2>3 DEF Counts
<1> QED
  BY <1>2, <1>3

\* Steps of the host that leave what is open alone.
LEMMA DoneSound ==
  ASSUME Sound, NEW c \in Unanswered, NEW ok \in BOOLEAN, HostOnly, UNCHANGED calls, disturbed' \in BOOLEAN,
         replies' = Append(replies, Reply(c, ok, NoWorkspace, NoSession, events)),
         UNCHANGED <<events, archive, count>>, PeerFits(peer')
  PROVE  Sound'
<1> DEFINE r == Reply(c, ok, NoWorkspace, NoSession, events)
<1>1. r \in Answers /\ r.n = c.n
  <2>1. c \in Asks /\ NoWorkspace \in SomeWorkspace /\ NoSession \in SomeSession /\ events \in Seq(Events)
    BY DEF Unanswered, Sound, WorkspaceTypeOK, SomeWorkspace, SomeSession
  <2> QED
    BY <2>1, ReplyShape
<1> HIDE DEF r
<1>2. replies' = Append(replies, r)
  BY DEF r
<1>3. WorkspaceTypeOK'
  <2>1. OtherTypes'
    BY <1>1, <1>2, AnsweredOnce, TypesSplit DEF Sound, OtherTypes, HostOnly
  <2> QED
    BY <1>1, <1>2, AnsweredOnce, <2>1, TypesNext
<1> QED
  BY <1>1, <1>2, <1>3, AnsweredOnce, HostSound

LEMMA AttachedSound ==
  ASSUME Sound, NEW c \in Unanswered, NEW s \in AllSessions, NEW w \in Workspaces, w.root = DirectoryOf[s],
         Attached(c, s, w), archive' \in SUBSET AllSessions, HostOnly, UNCHANGED <<calls, disturbed>>
  PROVE  /\ Sound' /\ peer'.open = peer.open /\ peer'.up = peer.up /\ UNCHANGED <<events, count>>
         /\ \E r \in Answers : replies' = Append(replies, r) /\ r.n = c.n /\ r.ahead = Len(events)
<1> DEFINE r == Reply(c, TRUE, w, s, events)
           k == Holds(peer.kept, s, w)
<1>1. r \in Answers /\ r.n = c.n /\ r.ahead = Len(events)
  <2>1. c \in Asks /\ w \in SomeWorkspace /\ s \in SomeSession /\ events \in Seq(Events) /\ TRUE \in BOOLEAN
    BY DEF Unanswered, Sound, WorkspaceTypeOK, SomeWorkspace, SomeSession
  <2> QED
    BY <2>1 DEF Reply, Answers, Asks
<1>2. PeerFits(Holds(peer, s, w)) /\ Holds(peer, s, w).open = peer.open /\ Holds(peer, s, w).up = peer.up
      /\ Holds(peer, s, w).kept = peer.kept
  BY PeerShape, HoldsFits
<1>3. peer' = [Holds(peer, s, w) EXCEPT !.kept = k] /\ replies' = Append(replies, r) /\ UNCHANGED <<events, count>>
  BY <1>2 DEF Attached
<1>4. KeptFits(k)
  BY PeerShape, KeptSession DEF PeerFits
<1> HIDE DEF r, k
<1>5. PeerFits(peer') /\ peer'.open = peer.open /\ peer'.up = peer.up
  BY <1>2, <1>3, <1>4, KeepsFits
<1>6. WorkspaceTypeOK'
  <2>1. OtherTypes'
    BY <1>1, <1>3, <1>5, AnsweredOnce, TypesSplit DEF Sound, OtherTypes, HostOnly
  <2> QED
    BY <1>1, <1>3, <1>5, AnsweredOnce, <2>1, TypesNext
<1>7. Sound'
  BY <1>1, <1>3, <1>6, AnsweredOnce, HostSound
<1> QED
  BY <1>1, <1>3, <1>5, <1>7

LEMMA NewHostFits == PeerFits(NewHost)
<1>1. NoSessions \in [{} -> Workspaces] /\ DOMAIN NoSessions = {} /\ {} \in SUBSET AllSessions
  BY DEF NoSessions
<1>2. NoSessions \in Placements
  BY <1>1 DEF Placements
<1> DEFINE f == [r \in {} |-> 0]
<1>3. f \in [{} -> Nat] /\ DOMAIN f = {} /\ {} \in SUBSET Directories
  OBVIOUS
<1>4. f \in Orders
  BY <1>3 DEF Orders
<1> HIDE DEF f
<1>5. NoLedger = [roots |-> f, ids |-> {}, sessions |-> NoSessions]
  BY DEF NoLedger, f
<1>6. NoLedger \in Ledgers /\ IsFiniteSet(DOMAIN NoLedger.roots)
  BY <1>2, <1>3, <1>4, <1>5, FS_EmptySet DEF Ledgers
<1>7. NewHost = [up |-> TRUE, open |-> {}, active |-> NoWorkspace, sessions |-> NoSessions, late |-> {}, kept |-> NoLedger]
  BY DEF NewHost
<1>8. NewHost \in Peers
  BY <1>2, <1>6, <1>7 DEF Peers, SomeWorkspace
<1> QED
  BY <1>1, <1>6, <1>7, <1>8, FS_EmptySet DEF PeerFits, KeptFits, Placed, LateFits

\* A workspace is open under its root, or a new one takes the next id.
LEMMA ServeOpenShape ==
  ASSUME Sound, NEW c \in Unanswered, c.kind = "open_workspace", ServeOpen(c), HostOnly, UNCHANGED <<calls, disturbed>>
  PROVE  /\ Sound' /\ peer'.up
         /\ \E w \in Workspaces, old \in SUBSET Workspaces, before \in Seq(Events) :
              /\ old = (IF peer.up THEN peer.open ELSE {}) /\ before = (IF peer.up THEN events ELSE <<>>)
              /\ w.root = c.root /\ peer'.open = old \cup {w}
              /\ w \in old \/ (w.id = count.ids + 1 /\ \A x \in old : x.root # w.root)
              /\ events' = Append(before, WorkspaceEvent(w))
              /\ replies' = Append(replies, Reply(c, TRUE, w, NoSession, events'))
              /\ count'.ids = (IF w \in old THEN count.ids ELSE count.ids + 1)
              /\ count'.calls = count.calls /\ count'.clicks = count.clicks
<1> DEFINE h == IF peer.up THEN peer ELSE NewHost
           w == Found(h, c.root)
           before == IF peer.up THEN events ELSE <<>>
<1>1. c \in Asks /\ c.root \in Directories /\ events \in Seq(Events) /\ before \in Seq(Events)
  BY DEF Unanswered, Sound, WorkspaceTypeOK
<1>2. h.open = (IF peer.up THEN peer.open ELSE {}) /\ h.up /\ PeerFits(h) /\ h.open \in SUBSET Workspaces
  <2>1. NewHost.open = {} /\ NewHost.up
    BY DEF NewHost
  <2>2. PeerFits(h)
    BY PeerShape, NewHostFits
  <2> QED
    BY <2>1, <2>2 DEF PeerFits, Peers
<1> HIDE DEF h
<1>5. /\ w \in Workspaces /\ w.root = c.root
      /\ w \in h.open \/ (w.id = count.ids + 1 /\ \A x \in h.open : x.root # w.root)
      /\ CountFound(h, c.root) \in Counts /\ CountFound(h, c.root).calls = count.calls
      /\ CountFound(h, c.root).clicks = count.clicks
      /\ CountFound(h, c.root).ids = IF w \in h.open THEN count.ids ELSE count.ids + 1
  BY <1>1, <1>2, FoundShape
<1>6. /\ peer' = [Opens(h, w) EXCEPT !.kept = Noted(@, w)]
      /\ events' = Append(before, WorkspaceEvent(w))
      /\ replies' = Append(replies, Reply(c, TRUE, w, NoSession, events'))
      /\ count' = CountFound(h, c.root)
      /\ UNCHANGED archive
  BY DEF ServeOpen, h
<1>7. /\ count' \in Counts /\ count'.calls = count.calls /\ count'.clicks = count.clicks
      /\ count'.ids = (IF w \in h.open THEN count.ids ELSE count.ids + 1)
  BY <1>5, <1>6
<1> HIDE DEF w, before
<1>8. events' \in Seq(Events)
  <2>1. WorkspaceEvent(w) \in Events
    BY <1>5 DEF WorkspaceEvent, Events, SomeSession
  <2> QED
    BY <1>1, <1>6, <2>1
<1> DEFINE r == Reply(c, TRUE, w, NoSession, events')
<1>9. r \in Answers /\ r.n = c.n
  <2>1. w \in SomeWorkspace /\ NoSession \in SomeSession
    BY <1>5 DEF SomeWorkspace, SomeSession
  <2> QED
    BY <1>1, <1>8, <2>1 DEF Reply, Answers, Asks
<1> HIDE DEF r
<1>10. replies' = Append(replies, r)
  BY <1>6 DEF r
<1>13. PeerFits(peer') /\ peer'.up /\ peer'.open = h.open \cup {w} /\ before = (IF peer.up THEN events ELSE <<>>)
  <2>1. PeerFits(Opens(h, w)) /\ Opens(h, w).open = h.open \cup {w} /\ Opens(h, w).up /\ Opens(h, w).kept = h.kept
    BY <1>2, <1>5, OpensFits
  <2>2. KeptFits(Noted(h.kept, w))
    BY <1>2, <1>5, NotedFits DEF PeerFits
  <2>3. peer' = [Opens(h, w) EXCEPT !.kept = Noted(h.kept, w)]
    BY <1>6, <2>1
  <2> QED
    BY <2>1, <2>2, <2>3, KeepsFits DEF before
<1>11. WorkspaceTypeOK'
  <2>1. OtherTypes'
    BY <1>6, <1>7, <1>8, <1>9, <1>10, <1>13, AnsweredOnce, TypesSplit DEF Sound, OtherTypes, HostOnly
  <2> QED
    BY <1>6, <1>7, <1>8, <1>9, <1>10, <1>13, AnsweredOnce, <2>1, TypesNext
<1>12. Sound'
  BY <1>7, <1>9, <1>10, <1>11, AnsweredOnce, HostSound
<1> QED
  BY <1>1, <1>2, <1>5, <1>6, <1>7, <1>12, <1>13

LEMMA HolderShape ==
  ASSUME Sound, NEW s \in AllSessions, DirectoryOf[s] \in OpenRoots(peer)
  PROVE  Holder(s) \in Workspaces /\ Holder(s).root = DirectoryOf[s]
<1>1. CASE s \in DOMAIN peer.sessions
  BY <1>1, PeerShape DEF Holder
<1>2. CASE s \notin DOMAIN peer.sessions
  <2>1. \E x \in peer.open : x.root = DirectoryOf[s]
    BY DEF OpenRoots
  <2>2. WorkspaceAt(peer, DirectoryOf[s]) \in peer.open /\ WorkspaceAt(peer, DirectoryOf[s]).root = DirectoryOf[s]
    BY <2>1 DEF WorkspaceAt
  <2> QED
    BY <1>2, <2>2, PeerShape DEF Holder
<1> QED
  BY <1>1, <1>2

\* Everything else the host does leaves what is open as it is, or closes one.
LEMMA ServeShape ==
  ASSUME Sound, Serve
  PROVE  /\ Sound' /\ HostOnly /\ UNCHANGED <<calls, disturbed>>
         /\ \E c \in Unanswered :
              \/ c.kind = "open_workspace" /\ ServeOpen(c)
              \/ /\ c.kind = "close_workspace" /\ peer.up /\ peer'.up /\ UNCHANGED <<events, count>>
                 /\ peer'.open = {w \in peer.open : w.id # c.id}
                 /\ replies' = Append(replies, Reply(c, TRUE, NoWorkspace, NoSession, events))
              \/ /\ c.kind = "close_workspace" => ~peer.up
                 /\ UNCHANGED <<events, count>> /\ peer'.up = peer.up /\ peer'.open = peer.open
                 /\ \E r \in Answers :
                      /\ replies' = Append(replies, r) /\ r.n = c.n /\ r.ahead = Len(events)
                      /\ c.kind = "close_workspace" => ~r.ok
                      /\ c.kind = "open_workspace" => ~r.ok \/ r.value.workspace = NoWorkspace
<1>1. PICK c \in Unanswered :
        /\ \/ c.kind = "open_workspace" /\ ServeOpen(c)
           \/ c.kind = "open_workspace" /\ Done(c) /\ UNCHANGED <<events, peer, archive, count>>
           \/ c.kind = "close_workspace" /\ ServeClose(c)
           \/ c.kind = "list_sessions" /\ ServeList(c)
           \/ c.kind = "open_session" /\ ServeSession(c)
           \/ c.kind = "create_session" /\ \E s \in AllSessions : ServeCreate(c, s)
           \/ c.kind = "close_session" /\ ServeTab(c)
           \/ (c.kind # "close_workspace" \/ ~peer.up) /\ RefuseCommand(c)
        /\ HostOnly /\ UNCHANGED <<calls, disturbed>>
  BY DEF Serve
<1>2. c \in calls /\ c \in Asks /\ events \in Seq(Events) /\ NoWorkspace \in SomeWorkspace /\ NoSession \in SomeSession
      /\ TRUE \in BOOLEAN /\ FALSE \in BOOLEAN /\ disturbed \in BOOLEAN
  BY DEF Unanswered, Sound, WorkspaceTypeOK, SomeWorkspace, SomeSession
<1>3. ASSUME NEW ok \in BOOLEAN
      PROVE  LET r == Reply(c, ok, NoWorkspace, NoSession, events)
             IN r \in Answers /\ r.n = c.n /\ r.ok = ok /\ r.value.workspace = NoWorkspace /\ r.ahead = Len(events)
  BY <1>2, ReplyShape
<1>4. CASE c.kind = "open_workspace" /\ ServeOpen(c)
  BY <1>1, <1>4, ServeOpenShape
<1>5. CASE /\ c.kind # "close_workspace" \/ ~peer.up
           /\ (Done(c) /\ c.kind # "close_workspace") \/ RefuseCommand(c)
           /\ UNCHANGED <<events, peer, archive, count>>
  <2>1. PICK ok \in BOOLEAN : /\ replies' = Append(replies, Reply(c, ok, NoWorkspace, NoSession, events))
                              /\ c.kind = "close_workspace" => ~ok
    BY <1>2, <1>5 DEF Done, RefuseCommand
  <2>2. Sound'
    <3>1. PeerFits(peer')
      BY <1>5, PeerShape
    <3> QED
      BY <1>1, <1>2, <1>5, <2>1, <3>1, DoneSound
  <2>3. UNCHANGED <<peer, events, count>>
    BY <1>5
  <2> QED
    BY <1>1, <1>3, <1>5, <2>1, <2>2, <2>3
<1>6. CASE c.kind = "close_workspace" /\ ServeClose(c)
  <2>1. /\ peer.up /\ peer' = [Closes(peer, c.id) EXCEPT !.kept = Struck(@, c.id)]
        /\ replies' = Append(replies, Reply(c, TRUE, NoWorkspace, NoSession, events)) /\ UNCHANGED <<events, archive, count>>
    BY <1>6 DEF ServeClose, Done
  <2>2. /\ PeerFits(Closes(peer, c.id)) /\ Closes(peer, c.id).open = {w \in peer.open : w.id # c.id}
        /\ Closes(peer, c.id).up = peer.up /\ Closes(peer, c.id).kept = peer.kept
    BY PeerShape, ClosesFits
  <2>3. KeptFits(Struck(peer.kept, c.id))
    BY PeerShape, StruckFits DEF PeerFits
  <2>4. PeerFits(peer') /\ peer'.up /\ peer'.open = {w \in peer.open : w.id # c.id}
    BY <2>1, <2>2, <2>3, KeepsFits
  <2>5. Sound'
    BY <1>1, <1>2, <2>1, <2>4, DoneSound
  <2> QED
    BY <1>1, <1>6, <2>1, <2>4, <2>5
<1>7. CASE c.kind = "open_session" /\ ServeSession(c)
  <2> DEFINE s == c.session
             w == Holder(s)
  <2>1. s \in AllSessions /\ UNCHANGED archive /\ archive \in SUBSET AllSessions
    BY <1>2, <1>7 DEF Sound, WorkspaceTypeOK, ServeSession
  <2>2. w \in Workspaces /\ w.root = DirectoryOf[s]
    <3>1. DirectoryOf[s] \in OpenRoots(peer)
      BY <1>7 DEF ServeSession
    <3> HIDE DEF s
    <3> QED
      BY <2>1, <3>1, HolderShape
  <2>3. Attached(c, s, w)
    BY <1>7 DEF ServeSession
  <2> HIDE DEF w, s
  <2>4. /\ Sound' /\ peer'.open = peer.open /\ peer'.up = peer.up /\ UNCHANGED <<events, count>>
        /\ \E r \in Answers : replies' = Append(replies, r) /\ r.n = c.n /\ r.ahead = Len(events)
    BY <1>1, <2>1, <2>2, <2>3, AttachedSound
  <2> QED
    BY <1>1, <1>7, <2>4
<1>8. CASE c.kind = "create_session" /\ \E s \in AllSessions : ServeCreate(c, s)
  <2>1. PICK s \in AllSessions, w \in peer.open :
          w.root = DirectoryOf[s] /\ Attached(c, s, w) /\ archive' = archive \cup {s}
    BY <1>8 DEF ServeCreate
  <2>2. w \in Workspaces /\ archive' \in SUBSET AllSessions
    BY <2>1, PeerShape DEF Sound, WorkspaceTypeOK
  <2>3. /\ Sound' /\ peer'.open = peer.open /\ peer'.up = peer.up /\ UNCHANGED <<events, count>>
        /\ \E r \in Answers : replies' = Append(replies, r) /\ r.n = c.n /\ r.ahead = Len(events)
    BY <1>1, <2>1, <2>2, AttachedSound
  <2> QED
    BY <1>1, <1>8, <2>3
<1>9. CASE c.kind = "close_session" /\ ServeTab(c)
  <2>1. /\ peer' = [Drops(peer, c.session) EXCEPT !.kept = Drops(@, c.session)]
        /\ replies' = Append(replies, Reply(c, TRUE, NoWorkspace, NoSession, events)) /\ UNCHANGED <<events, archive, count>>
        /\ c.session \in DOMAIN peer.sessions
    BY <1>9 DEF ServeTab, Done
  <2>2. /\ PeerFits(Drops(peer, c.session)) /\ Drops(peer, c.session).open = peer.open
        /\ Drops(peer, c.session).up = peer.up /\ Drops(peer, c.session).kept = peer.kept
    BY PeerShape, DropsFits
  <2>3. KeptFits(Drops(peer.kept, c.session))
    <3>1. c.session \in AllSessions /\ KeptFits(peer.kept) /\ peer.sessions[c.session] \in Workspaces
      BY <2>1, PeerShape DEF PeerFits
    <3> QED
      BY <3>1, KeptSession
  <2>4. PeerFits(peer') /\ peer'.open = peer.open /\ peer'.up = peer.up
    BY <2>1, <2>2, <2>3, KeepsFits
  <2>5. Sound'
    BY <1>1, <1>2, <2>1, <2>4, DoneSound
  <2> QED
    BY <1>1, <1>2, <1>3, <1>9, <2>1, <2>4, <2>5
<1> QED
  BY <1>1, <1>4, <1>5, <1>6, <1>7, <1>8, <1>9 DEF ServeList, RefuseCommand, Done

LEMMA ResyncShape ==
  ASSUME Sound, NEW s \in AllSessions, Resync(s)
  PROVE  /\ Sound' /\ HostOnly /\ UNCHANGED <<calls, replies, peer, disturbed>>
         /\ count'.calls = count.calls /\ count'.ids = count.ids /\ count'.clicks = count.clicks
         /\ \E e \in Events : events' = Append(events, e) /\ ~Tells(e)
<1> DEFINE e == SnapshotEvent(s, peer.sessions[s])
<1>1. peer.sessions[s] \in Workspaces /\ s \in SomeSession
  BY PeerShape DEF Resync, SomeSession
<1>2. e \in Events /\ ~Tells(e)
  BY <1>1 DEF SnapshotEvent, Events, Tells
<1> HIDE DEF e
<1>3. /\ events' = Append(events, e) /\ count' = [count EXCEPT !.resyncs = @ + 1]
      /\ HostOnly /\ UNCHANGED <<calls, replies, peer, archive, disturbed>>
  BY DEF Resync, e
<1>4. count \in Counts
  BY CountShape DEF Sound
<1>5. count' \in Counts /\ count'.calls = count.calls /\ count'.ids = count.ids /\ count'.clicks = count.clicks
  BY <1>3, <1>4 DEF Counts
<1>6. WorkspaceTypeOK'
  <2>1. events' \in Seq(Events)
    BY <1>2, <1>3 DEF Sound, WorkspaceTypeOK
  <2> QED
    BY <1>3, <1>5, <2>1 DEF Sound, WorkspaceTypeOK, HostOnly, Counts
<1>7. Sound'
  BY <1>3, <1>5, <1>6, NumbersKept DEF Sound, HostOnly
<1> QED
  BY <1>2, <1>3, <1>5, <1>7

LEMMA CallsAreFinite ==
  ASSUME Sound
  PROVE  IsFiniteSet(calls)
<1> DEFINE f == [c \in calls |-> c.n]
<1>1. f \in Injection(calls, 1..count.calls)
  BY DEF Injection, IsInjective, Sound, Numbered
<1>2. IsFiniteSet(1..count.calls)
  BY FS_Interval, CountShape DEF Sound, Counts
<1> QED
  BY <1>1, <1>2, FS_Injection

LEMMA OrderShape ==
  ASSUME NEW S, IsFiniteSet(S), NEW number, NEW f \in InOrder(S, number)
  PROVE  /\ Cardinality(S) \in Nat /\ f \in [1..Cardinality(S) -> S] /\ DOMAIN f = 1..Cardinality(S)
         /\ \A x \in S : \E i \in 1..Cardinality(S) : f[i] = x
         /\ \A i, j \in 1..Cardinality(S) : f[i] = f[j] => i = j
<1>1. Cardinality(S) \in Nat
  BY FS_CardinalityType
<1>2. f \in Bijection(1..Cardinality(S), S)
  BY DEF InOrder
<1> QED
  BY <1>1, <1>2 DEF Bijection, Injection, Surjection, IsInjective

\* c is a, and then b, of length m.
Joins(c, a, b, m, S) ==
  /\ c \in Seq(S) /\ DOMAIN c = 1..(Len(a) + m) /\ DOMAIN a = 1..Len(a)
  /\ \A i \in 1..Len(a) : c[i] = a[i]
  /\ \A i \in 1..m : c[Len(a) + i] = b[i] /\ Len(a) + i \in DOMAIN c
  /\ \A i \in DOMAIN c : i \in 1..Len(a) \/ \E j \in 1..m : i = Len(a) + j
  /\ Len(a) \in Nat

LEMMA ConcatShape ==
  ASSUME NEW S, NEW a \in Seq(S), NEW b \in Seq(S), NEW m \in Nat, Len(b) = m, NEW c, c = a \o b
  PROVE  Joins(c, a, b, m, S)
<1>1. /\ Len(a) \in Nat /\ Len(c) = Len(a) + m /\ c \in Seq(S)
      /\ \A i \in 1..(Len(a) + m) : c[i] = IF i <= Len(a) THEN a[i] ELSE b[i - Len(a)]
  BY ConcatProperties, LenProperties
<1>2. DOMAIN c = 1..(Len(a) + m) /\ DOMAIN a = 1..Len(a)
  BY <1>1, LenProperties
<1>3. \A i \in 1..Len(a) : c[i] = a[i]
  BY <1>1
<1>4. ASSUME NEW i \in 1..m
      PROVE  c[Len(a) + i] = b[i] /\ Len(a) + i \in 1..(Len(a) + m)
  <2>1. Len(a) + i \in 1..(Len(a) + m) /\ ~(Len(a) + i <= Len(a)) /\ (Len(a) + i) - Len(a) = i
    BY <1>1
  <2>2. c[Len(a) + i] = b[(Len(a) + i) - Len(a)]
    BY <1>1, <2>1
  <2> QED
    BY <2>1, <2>2
<1>5. ASSUME NEW i \in 1..(Len(a) + m)
      PROVE  i \in 1..Len(a) \/ \E j \in 1..m : i = Len(a) + j
  <2>1. i \in 1..Len(a) \/ i - Len(a) \in 1..m
    BY <1>1
  <2>2. i = Len(a) + (i - Len(a))
    BY <1>1
  <2> QED
    BY <2>1, <2>2
<1> QED
  BY <1>1, <1>2, <1>3, <1>4, <1>5 DEF Joins

LEMMA DeathShape ==
  ASSUME Sound, Death
  PROVE  /\ Sound' /\ HostOnly /\ UNCHANGED <<calls, events>> /\ peer.up /\ ~peer'.up /\ peer'.open = peer.open
         /\ count'.calls = count.calls /\ count'.ids = count.ids /\ count'.clicks = count.clicks
         /\ disturbed' = (disturbed \/ change.op # "none" \/ changes # <<>>)
         /\ \A i \in DOMAIN replies : i \in DOMAIN replies' /\ replies'[i] = replies[i]
         /\ \A i \in DOMAIN replies' : i \in DOMAIN replies \/ ~replies'[i].ok
         /\ \A c \in calls : \E i \in DOMAIN replies' : replies'[i].n = c.n
<1>1. PICK order \in InOrder(Unanswered, [c \in Unanswered |-> c.n]) :
        replies' = replies \o [i \in DOMAIN order |-> Reply(order[i], FALSE, NoWorkspace, NoSession, events)]
  BY DEF Death
<1> DEFINE m == Cardinality(Unanswered)
           q == [i \in DOMAIN order |-> Reply(order[i], FALSE, NoWorkspace, NoSession, events)]
<1>2. IsFiniteSet(Unanswered) /\ Unanswered \subseteq calls
  BY CallsAreFinite, FS_Subset DEF Unanswered
<1>3. /\ m \in Nat /\ order \in [1..m -> Unanswered] /\ DOMAIN order = 1..m
      /\ \A x \in Unanswered : \E i \in 1..m : order[i] = x
      /\ \A i, j \in 1..m : order[i] = order[j] => i = j
  BY <1>2, OrderShape
<1> HIDE DEF m
<1>4. \A i \in 1..m : q[i] \in Answers /\ q[i].n = order[i].n /\ ~q[i].ok
  <2>1. SUFFICES ASSUME NEW i \in 1..m
                 PROVE  q[i] \in Answers /\ q[i].n = order[i].n /\ ~q[i].ok
    OBVIOUS
  <2>2. order[i] \in Asks /\ NoWorkspace \in SomeWorkspace /\ NoSession \in SomeSession /\ events \in Seq(Events)
        /\ FALSE \in BOOLEAN
    BY <1>2, <1>3 DEF Sound, WorkspaceTypeOK, SomeWorkspace, SomeSession
  <2>3. q[i] = Reply(order[i], FALSE, NoWorkspace, NoSession, events)
    BY <1>3
  <2>4. order[i].n \in Nat /\ Len(events) \in Nat
    BY <2>2, LenProperties DEF Asks
  <2> HIDE DEF q
  <2> QED
    BY <2>2, <2>3, <2>4 DEF Reply, Answers
<1>5. q \in [1..m -> Answers] /\ DOMAIN q = 1..m
  BY <1>3, <1>4
<1> HIDE DEF q
<1>6. q \in Seq(Answers) /\ Len(q) = m
  BY <1>3, <1>5
<1>7. replies \in Seq(Answers) /\ replies' = replies \o q
  BY <1>1 DEF Sound, WorkspaceTypeOK, q
<1>8. /\ replies' \in Seq(Answers) /\ DOMAIN replies' = 1..(Len(replies) + m) /\ DOMAIN replies = 1..Len(replies)
      /\ \A i \in 1..Len(replies) : replies'[i] = replies[i]
      /\ \A i \in 1..m : replies'[Len(replies) + i] = q[i] /\ Len(replies) + i \in DOMAIN replies'
      /\ \A i \in DOMAIN replies' : i \in 1..Len(replies) \/ \E j \in 1..m : i = Len(replies) + j
      /\ Len(replies) \in Nat
  <2>1. m \in Nat /\ q \in Seq(Answers) /\ Len(q) = m /\ replies \in Seq(Answers)
    BY <1>3, <1>6, <1>7
  <2>2. Joins(replies', replies, q, m, Answers)
    BY <1>7, <2>1, ConcatShape
  <2> QED
    BY <2>2 DEF Joins
<1>9. \A i \in DOMAIN replies' : \E e \in calls : e.n = replies'[i].n
  <2>1. \A i \in 1..Len(replies) : \E e \in calls : e.n = replies'[i].n
    BY <1>8 DEF Sound, Numbered
  <2>2. \A k \in 1..m : \E e \in calls : e.n = q[k].n
    BY <1>2, <1>3, <1>4
  <2> QED
    BY <1>8, <2>1, <2>2
<1>10. \A i, j \in DOMAIN replies' : replies'[i].n = replies'[j].n => i = j
  <2>1. ASSUME NEW i \in 1..Len(replies), NEW k \in 1..m
        PROVE  replies[i].n # order[k].n
    <3>1. order[k] \in Unanswered /\ i \in DOMAIN replies
      BY <1>3, <1>8
    <3> QED
      BY <3>1 DEF Unanswered
  <2>2. \A k, l \in 1..m : order[k].n = order[l].n => k = l
    BY <1>2, <1>3 DEF Sound, Numbered
  <2>3. \A i, j \in 1..Len(replies) : replies[i].n = replies[j].n => i = j
    BY <1>8 DEF Sound, Numbered
  <2>4. \A k, l \in 1..m : q[k].n = q[l].n => k = l
    BY <1>4, <2>2
  <2>5. \A i \in 1..Len(replies), k \in 1..m : replies[i].n # q[k].n
    BY <1>4, <2>1
  <2> SUFFICES ASSUME NEW i \in DOMAIN replies', NEW j \in DOMAIN replies', replies'[i].n = replies'[j].n
               PROVE  i = j
    OBVIOUS
  <2>6. /\ i \in 1..Len(replies) \/ \E k \in 1..m : i = Len(replies) + k
        /\ j \in 1..Len(replies) \/ \E k \in 1..m : j = Len(replies) + k
    BY <1>8
  <2>7. CASE i \in 1..Len(replies) /\ j \in 1..Len(replies)
    BY <1>8, <2>3, <2>7
  <2>8. CASE i \notin 1..Len(replies) /\ j \notin 1..Len(replies)
    <3>1. PICK k \in 1..m, l \in 1..m : i = Len(replies) + k /\ j = Len(replies) + l
      BY <2>6, <2>8
    <3>2. replies'[i] = q[k] /\ replies'[j] = q[l]
      BY <1>8, <3>1
    <3> QED
      BY <2>4, <3>1, <3>2
  <2>9. CASE i \in 1..Len(replies) /\ j \notin 1..Len(replies)
    BY <1>8, <2>5, <2>6, <2>9
  <2>10. CASE i \notin 1..Len(replies) /\ j \in 1..Len(replies)
    BY <1>8, <2>5, <2>6, <2>10
  <2> QED
    BY <2>7, <2>8, <2>9, <2>10
<1>11. /\ peer' = [peer EXCEPT !.up = FALSE, !.late = {}, !.kept.ids = {}] /\ count' = [count EXCEPT !.deaths = @ + 1]
       /\ disturbed' = (disturbed \/ change.op # "none" \/ changes # <<>>)
       /\ HostOnly /\ UNCHANGED <<calls, events, archive>>
  BY DEF Death
<1>12. count' \in Counts /\ count'.calls = count.calls /\ count'.ids = count.ids /\ count'.clicks = count.clicks
  <2>1. count \in Counts
    BY CountShape DEF Sound
  <2> QED
    BY <1>11, <2>1 DEF Counts
<1> DEFINE k == [peer.kept EXCEPT !.ids = {}]
<1>13. PeerFits(peer') /\ ~peer'.up /\ peer'.open = peer.open
  <2>1. PeerFits(peer) /\ peer \in Peers /\ KeptFits(peer.kept)
    BY PeerShape DEF PeerFits
  <2>2. k = [roots |-> peer.kept.roots, ids |-> {}, sessions |-> peer.kept.sessions]
    BY <2>1 DEF KeptFits, Ledgers
  <2>3. KeptFits(k)
    BY <2>1, <2>2 DEF KeptFits, Ledgers
  <2>4. peer' = [up |-> FALSE, open |-> peer.open, active |-> peer.active, sessions |-> peer.sessions, late |-> {}, kept |-> k]
    BY <1>11, <2>1 DEF Peers
  <2> HIDE DEF k
  <2>5. peer' \in Peers
    BY <2>1, <2>3, <2>4 DEF Peers, KeptFits
  <2> QED
    BY <2>1, <2>3, <2>4, <2>5 DEF PeerFits, LateFits
<1>14. WorkspaceTypeOK'
  <2>1. OtherTypes'
    BY <1>8, <1>11, <1>12, <1>13, TypesSplit DEF Sound, OtherTypes, HostOnly
  <2> QED
    BY <1>8, <1>11, <1>12, <1>13, <2>1, TypesNext
<1>15. Sound'
  BY <1>9, <1>10, <1>11, <1>12, <1>14, HostSound
<1>16. \A c \in calls : \E i \in DOMAIN replies' : replies'[i].n = c.n
  <2>1. SUFFICES ASSUME NEW c \in calls
                 PROVE  \E i \in DOMAIN replies' : replies'[i].n = c.n
    OBVIOUS
  <2>2. CASE c \in Unanswered
    <3>1. PICK i \in 1..m : order[i] = c
      BY <1>3, <2>2
    <3>2. q[i].n = c.n
      BY <1>4, <3>1
    <3>3. replies'[Len(replies) + i] = q[i] /\ Len(replies) + i \in DOMAIN replies'
      BY <1>8
    <3> QED
      BY <3>2, <3>3
  <2>3. CASE c \notin Unanswered
    BY <1>3, <1>8, <2>3 DEF Unanswered
  <2> QED
    BY <2>2, <2>3
<1>17. \A i \in DOMAIN replies' : i \in DOMAIN replies \/ ~replies'[i].ok
  BY <1>4, <1>8
<1>18. peer.up /\ ~peer'.up /\ peer'.open = peer.open
  BY <1>13 DEF Death
<1>19. \A i \in DOMAIN replies : i \in DOMAIN replies' /\ replies'[i] = replies[i]
  BY <1>3, <1>8
<1> QED
  BY <1>11, <1>12, <1>15, <1>16, <1>17, <1>18, <1>19

\* What main keeps is open again, under new ids; what else is open then disturbs.
LEMMA BroughtBackShape ==
  ASSUME Sound, NEW refused \in SUBSET Directories, NEW slow \in SUBSET Directories, NEW failed \in SUBSET AllSessions,
         BroughtBack(refused, slow, failed)
  PROVE  /\ Sound' /\ HostOnly /\ UNCHANGED <<calls, replies>> /\ ~peer.up /\ peer'.up /\ replies = <<>>
         /\ count'.calls = count.calls /\ count'.clicks = count.clicks /\ (~disturbed' => ~disturbed)
         /\ ~disturbed' /\ peer.open = {} =>
              peer'.open = {} /\ count'.ids = count.ids /\ \A i \in DOMAIN events' : ~Tells(events'[i])
         /\ \A w : ~disturbed' /\ peer.open = {w} =>
              \E x \in Workspaces :
                /\ x.root = w.root /\ x.id = count.ids + 1 /\ count'.ids = count.ids + 1 /\ peer'.open = {x}
                /\ 1 \in DOMAIN events' /\ events'[1].workspace = x
                /\ \A i \in DOMAIN events' : Tells(events'[i]) <=> i = 1
<1> DEFINE roots == DOMAIN peer.kept.roots \ refused
           m == Cardinality(roots)
           At(open, s) == CHOOSE w \in ToSet(open) : w.root = DirectoryOf[s]
           back == {s \in DOMAIN peer.kept.sessions \ failed : DirectoryOf[s] \in roots}
           first(open) == IF open = <<>> THEN <<>> ELSE <<WorkspaceEvent(Last(open))>>
           snaps(open, order) == [i \in DOMAIN order |-> SnapshotEvent(order[i], At(open, order[i]))]
           late == {[OpenWorkspace(r) EXCEPT !.n = 0] : r \in slow}
           places(open) == [s \in back |-> At(open, s)]
           orders(open) == [r \in roots |-> (CHOOSE w \in ToSet(open) : w.root = r).id]
<1>1. PICK old \in InOrder(roots, peer.kept.roots), order \in Bijection(1..Cardinality(back), back) :
        /\ peer' = [up |-> TRUE, open |-> ToSet(Reopened(old)), sessions |-> places(Reopened(old)),
                    active |-> IF Reopened(old) = <<>> THEN NoWorkspace ELSE Last(Reopened(old)), late |-> late,
                    kept |-> [roots |-> orders(Reopened(old)), ids |-> ToSet(Reopened(old)), sessions |-> places(Reopened(old))]]
        /\ events' = first(Reopened(old)) \o snaps(Reopened(old), order)
        /\ count' = [count EXCEPT !.ids = @ + Len(Reopened(old))]
  BY DEF BroughtBack
<1> DEFINE open == Reopened(old)
<1>31. KeptFits(peer.kept) /\ peer.kept.roots \in Orders /\ peer.kept.sessions \in Placements
  BY PeerShape DEF PeerFits, KeptFits, Ledgers
<1>32. roots \in SUBSET Directories /\ IsFiniteSet(roots)
  <2>1. PICK S \in SUBSET Directories : peer.kept.roots \in [S -> Nat]
    BY <1>31 DEF Orders
  <2> QED
    BY <1>31, <2>1, FS_Subset DEF KeptFits
<1>33. back \in SUBSET AllSessions /\ \A s \in back : DirectoryOf[s] \in roots
  <2>1. PICK S \in SUBSET AllSessions : peer.kept.sessions \in [S -> Workspaces]
    BY <1>31 DEF Placements
  <2> QED
    BY <2>1
<1>34. late \in SUBSET Asks /\ LateFits(late)
  <2>1. ASSUME NEW r \in slow
        PROVE  LET c == [OpenWorkspace(r) EXCEPT !.n = 0]
               IN c \in Asks /\ c.kind = "open_workspace" /\ c.root = r
    <3>1. OpenWorkspace(r) \in Asks /\ OpenWorkspace(r).kind = "open_workspace" /\ OpenWorkspace(r).root = r
      BY CommandShape DEF OpenWorkspace, SomeSession, Sound
    <3> QED
      BY <3>1 DEF Asks
  <2>2. ASSUME NEW d \in late
        PROVE  d \in Asks /\ d.kind = "open_workspace" /\ d.root \in Directories
    <3>1. PICK r \in slow : d = [OpenWorkspace(r) EXCEPT !.n = 0]
      OBVIOUS
    <3> QED
      BY <2>1, <3>1
  <2> HIDE DEF late
  <2>3. \A d \in late : d.kind # "open_session" /\ d.kind = "open_workspace"
    BY <2>2
  <2> QED
    BY <2>2, <2>3 DEF LateFits
<1>35. disturbed' = (disturbed \/ roots # OpenRoots(peer)) /\ disturbed \in BOOLEAN
  BY DEF BroughtBack, Sound, WorkspaceTypeOK
<1> HIDE DEF late, roots
<1>2. /\ m \in Nat /\ old \in [1..m -> roots] /\ DOMAIN old = 1..m
      /\ \A x \in roots : \E i \in 1..m : old[i] = x
  BY <1>32, OrderShape
<1>3. count.ids \in Nat /\ count \in Counts /\ peer.open \in SUBSET Workspaces
  BY CountShape, PeerShape DEF Sound
<1>4. /\ open \in [1..m -> Workspaces]
      /\ \A i \in 1..m : open[i].id = count.ids + i /\ open[i].root = old[i]
  <2>1. \A i \in 1..m : old[i] \in Directories /\ count.ids + i \in Nat
    BY <1>2, <1>3, <1>32
  <2>2. \A i \in 1..m : LET x == [id |-> count.ids + i, root |-> old[i]]
                        IN x \in Workspaces /\ x.id = count.ids + i /\ x.root = old[i]
    BY <2>1 DEF Workspaces
  <2> QED
    BY <1>2, <2>2 DEF Reopened
<1> HIDE DEF open
<1> HIDE DEF m
<1>5. open \in Seq(Workspaces) /\ Len(open) = m /\ DOMAIN open = 1..m
  BY <1>2, <1>4
<1>6. ToSet(open) \in SUBSET Workspaces /\ IsFiniteSet(ToSet(open)) /\ \A w \in ToSet(open) : \E i \in 1..m : w = open[i]
  <2>1. open \in Surjection(1..m, ToSet(open)) /\ ToSet(open) \in SUBSET Workspaces
    BY <1>4, <1>5 DEF ToSet, Surjection
  <2>2. IsFiniteSet(1..m)
    BY <1>2, FS_Interval
  <2> QED
    BY <1>5, <2>1, <2>2, FS_Surjection DEF ToSet
<1>7. open = <<>> <=> m = 0
  BY <1>2, <1>5
<1>8. Last(open) = open[m] /\ (m # 0 => Last(open) \in Workspaces /\ m \in 1..m)
  BY <1>2, <1>4, <1>5 DEF Last
<1>9. \A s \in back : /\ s \in AllSessions /\ At(open, s) \in Workspaces /\ At(open, s).root = DirectoryOf[s]
  <2>1. SUFFICES ASSUME NEW s \in back
                 PROVE  s \in AllSessions /\ At(open, s) \in Workspaces /\ At(open, s).root = DirectoryOf[s]
    OBVIOUS
  <2>2. s \in AllSessions /\ DirectoryOf[s] \in roots
    BY <1>33
  <2>3. PICK i \in 1..m : old[i] = DirectoryOf[s]
    BY <1>2, <2>2
  <2>4. open[i] \in ToSet(open) /\ open[i].root = DirectoryOf[s]
    BY <1>4, <1>5, <2>3 DEF ToSet
  <2>5. At(open, s) \in ToSet(open) /\ At(open, s).root = DirectoryOf[s]
    BY <2>4
  <2> QED
    BY <1>6, <2>2, <2>5
<1>36. orders(open) \in [roots -> Nat]
  <2>1. ASSUME NEW r \in roots
        PROVE  (CHOOSE w \in ToSet(open) : w.root = r).id \in Nat
    <3>1. PICK i \in 1..m : old[i] = r
      BY <1>2
    <3>2. open[i] \in ToSet(open) /\ open[i].root = r
      BY <1>4, <1>5, <3>1 DEF ToSet
    <3>3. (CHOOSE w \in ToSet(open) : w.root = r) \in ToSet(open)
      BY <3>2
    <3> QED
      BY <1>6, <3>3 DEF Workspaces
  <2> QED
    BY <2>1
<1>37. places(open) \in [back -> Workspaces]
  BY <1>9
<1>38. KeptFits([roots |-> orders(open), ids |-> ToSet(open), sessions |-> places(open)])
  <2>1. orders(open) \in Orders /\ DOMAIN orders(open) = roots
    BY <1>32, <1>36 DEF Orders
  <2>2. places(open) \in Placements
    BY <1>33, <1>37 DEF Placements
  <2> HIDE DEF orders, places
  <2> QED
    BY <1>6, <1>32, <2>1, <2>2 DEF KeptFits, Ledgers
<1>39. places(open) \in Placements /\ Placed(places(open))
  BY <1>9, <1>33, <1>37 DEF Placements, Placed
<1> HIDE DEF orders, places
<1> DEFINE k == Cardinality(back)
           q == snaps(open, order)
           f == first(open)
<1>10. k \in Nat /\ order \in [1..k -> back]
  <2>1. IsFiniteSet(back)
    <3>1. IsFiniteSet(AllSessions) /\ back \subseteq AllSessions
      BY <1>33 DEF Sound, WorkspaceAssumption
    <3> QED
      BY <3>1, FS_Subset
  <2> QED
    BY <2>1, FS_CardinalityType DEF Bijection, Injection, Surjection
<1>11. \A s \in back : SnapshotEvent(s, At(open, s)) \in Events /\ ~Tells(SnapshotEvent(s, At(open, s)))
  <2>1. \A s \in back : s \in SomeSession
    BY <1>9 DEF SomeSession
  <2> QED
    BY <1>9, <2>1 DEF SnapshotEvent, Events, Tells
<1> HIDE DEF At, back, k
<1>12. q \in [1..k -> Events] /\ \A i \in 1..k : ~Tells(q[i])
  BY <1>10, <1>11
<1>13. q \in Seq(Events) /\ Len(q) = k
  BY <1>10, <1>12
<1>14. f \in Seq(Events) /\ Len(f) = (IF m = 0 THEN 0 ELSE 1) /\ (m # 0 => f[1] = WorkspaceEvent(open[m]))
  <2>1. m # 0 => WorkspaceEvent(open[m]) \in Events
    BY <1>8 DEF WorkspaceEvent, Events, SomeSession
  <2>2. f = IF m = 0 THEN <<>> ELSE <<WorkspaceEvent(open[m])>>
    BY <1>7, <1>8
  <2> QED
    BY <2>1, <2>2
<1> HIDE DEF q, f, first, snaps
<1>15. /\ peer' = [up |-> TRUE, open |-> ToSet(open), sessions |-> places(open),
                   active |-> IF open = <<>> THEN NoWorkspace ELSE Last(open), late |-> late,
                   kept |-> [roots |-> orders(open), ids |-> ToSet(open), sessions |-> places(open)]]
       /\ events' = f \o q /\ count' = [count EXCEPT !.ids = @ + Len(open)]
  BY <1>1 DEF q, f, open
<1>16. /\ events' \in Seq(Events) /\ Len(events') = Len(f) + k
       /\ \A i \in DOMAIN events' : i \in Nat /\ i > 0 /\ events'[i] = IF i <= Len(f) THEN f[i] ELSE q[i - Len(f)]
       /\ DOMAIN events' = 1..(Len(f) + k)
  <2>1. /\ f \o q \in Seq(Events) /\ Len(f \o q) = Len(f) + Len(q)
        /\ \A i \in 1..Len(f) + Len(q) : (f \o q)[i] = IF i <= Len(f) THEN f[i] ELSE q[i - Len(f)]
    BY <1>13, <1>14, ConcatProperties
  <2>2. Len(f) + Len(q) = Len(f) + k /\ Len(f) + k \in Nat
    BY <1>10, <1>13, <1>14
  <2>3. DOMAIN events' = 1..(Len(f) + k) /\ events' \in Seq(Events) /\ Len(events') = Len(f) + k
    BY <1>15, <2>1, <2>2, LenProperties
  <2> QED
    BY <1>15, <2>1, <2>2, <2>3
<1>17. count' \in Counts /\ count'.calls = count.calls /\ count'.clicks = count.clicks /\ count'.ids = count.ids + m
  <2>1. count' = [count EXCEPT !.ids = count.ids + m] /\ count.ids + m \in Nat
    BY <1>2, <1>3, <1>5, <1>15
  <2> QED
    BY <1>3, <2>1 DEF Counts
<1>18. /\ HostOnly /\ UNCHANGED <<calls, replies, archive>> /\ ~peer.up /\ replies = <<>>
  BY DEF BroughtBack, NewPort
<1>19. peer'.up /\ peer'.open = ToSet(open)
  BY <1>15
<1>40. PeerFits(peer')
  <2>1. (IF open = <<>> THEN NoWorkspace ELSE Last(open)) \in SomeWorkspace
    BY <1>7, <1>8 DEF SomeWorkspace
  <2>2. peer' \in Peers
    BY <1>6, <1>15, <1>34, <1>38, <1>39, <2>1 DEF Peers, KeptFits
  <2> QED
    BY <1>6, <1>15, <1>34, <1>38, <1>39, <2>2 DEF PeerFits
<1>20. WorkspaceTypeOK'
  <2>1. OtherTypes'
    BY <1>16, <1>17, <1>18, <1>35, <1>40, TypesSplit DEF Sound, OtherTypes, HostOnly
  <2> QED
    BY <1>16, <1>17, <1>18, <1>35, <1>40, <2>1, TypesNext
<1>21. Sound'
  BY <1>17, <1>18, <1>20, NumbersKept DEF Sound, HostOnly
<1>22. ASSUME ~disturbed', peer.open = {}
       PROVE  peer'.open = {} /\ count'.ids = count.ids /\ \A i \in DOMAIN events' : ~Tells(events'[i])
  <2>1. m = 0
    <3>1. roots = {}
      BY <1>22, <1>35 DEF OpenRoots
    <3> QED
      BY <3>1, FS_EmptySet DEF m
  <2>2. ToSet(open) = {}
    BY <1>6, <2>1
  <2>3. \A i \in DOMAIN events' : events'[i] = q[i] /\ i \in 1..k
    BY <1>10, <1>14, <1>16, <2>1
  <2> QED
    BY <1>3, <1>12, <1>17, <1>19, <2>1, <2>2, <2>3
<1>23. ASSUME NEW w, ~disturbed', peer.open = {w}
       PROVE  \E x \in Workspaces :
                /\ x.root = w.root /\ x.id = count.ids + 1 /\ count'.ids = count.ids + 1 /\ peer'.open = {x}
                /\ 1 \in DOMAIN events' /\ events'[1].workspace = x
                /\ \A i \in DOMAIN events' : Tells(events'[i]) <=> i = 1
  <2>7. roots = {w.root}
    BY <1>23, <1>35 DEF OpenRoots
  <2>1. m = 1
    BY <2>7, FS_Singleton DEF m
  <2>2. open[1] \in Workspaces /\ open[1].root = w.root /\ open[1].id = count.ids + 1
    BY <1>2, <1>4, <2>1, <2>7
  <2>3. ToSet(open) = {open[1]}
    BY <1>5, <2>1 DEF ToSet
  <2>4. 1 \in DOMAIN events' /\ events'[1] = WorkspaceEvent(open[1])
    BY <1>10, <1>14, <1>16, <2>1
  <2>5. events'[1].workspace = open[1] /\ Tells(events'[1])
    BY <2>4 DEF WorkspaceEvent, Tells
  <2>6. \A i \in DOMAIN events' : i # 1 => events'[i] = q[i - 1] /\ i - 1 \in 1..k
    BY <1>10, <1>14, <1>16, <2>1
  <2> QED
    BY <1>12, <1>17, <1>19, <2>1, <2>2, <2>3, <2>4, <2>5, <2>6
<1> QED
  BY <1>17, <1>18, <1>19, <1>21, <1>22, <1>23, <1>35

\* Main gives a command up; what is open stays as it is.
LEMMA GiveUpShape ==
  ASSUME Sound, GiveUp
  PROVE  /\ Sound' /\ HostOnly /\ UNCHANGED <<calls, events, count>> /\ peer'.up = peer.up /\ peer'.open = peer.open
         /\ \E c \in Unanswered, r \in Answers :
              /\ replies' = Append(replies, r) /\ r.n = c.n /\ ~r.ok
              /\ disturbed' = (disturbed \/ c.kind = "close_workspace")
<1>1. PICK c \in Unanswered :
        /\ peer' = [peer EXCEPT !.late = @ \cup {[c EXCEPT !.waiters = {}]}]
        /\ replies' = Append(replies, Reply(c, FALSE, NoWorkspace, NoSession, events))
        /\ disturbed' = (disturbed \/ c.kind = "close_workspace")
        /\ HostOnly /\ UNCHANGED <<calls, events, archive, count>>
  BY DEF GiveUp
<1> DEFINE d == [c EXCEPT !.waiters = {}]
           S == peer.late \cup {d}
<1>2. /\ c \in Asks /\ c \in calls /\ disturbed \in BOOLEAN /\ events \in Seq(Events)
      /\ NoWorkspace \in SomeWorkspace /\ NoSession \in SomeSession
  BY DEF Unanswered, Sound, WorkspaceTypeOK, SomeWorkspace, SomeSession
<1>3. d \in Asks /\ d.kind = c.kind /\ d.root = c.root /\ d.session = c.session
  BY <1>2 DEF Asks
<1> HIDE DEF d
<1>4. S \in SUBSET Asks /\ LateFits(S)
  BY <1>2, <1>3, PeerShape DEF PeerFits, LateFits, Sound, WorkspaceTypeOK
<1>5. peer' = [peer EXCEPT !.late = S]
  BY <1>1 DEF d
<1> HIDE DEF S
<1>6. PeerFits(peer') /\ peer'.open = peer.open /\ peer'.up = peer.up
  BY <1>4, <1>5, PeerShape, GivenUpFits
<1>7. PICK ok \in BOOLEAN : ~ok /\ replies' = Append(replies, Reply(c, ok, NoWorkspace, NoSession, events))
  BY <1>1
<1>8. disturbed' \in BOOLEAN
  BY <1>1, <1>2
<1>9. Sound'
  BY <1>1, <1>6, <1>7, <1>8, DoneSound
<1>10. PICK r \in Answers : replies' = Append(replies, r) /\ r.n = c.n /\ ~r.ok
  <2>1. LET r == Reply(c, ok, NoWorkspace, NoSession, events)
        IN r \in Answers /\ r.n = c.n /\ r.ok = ok
    BY <1>2, ReplyShape
  <2> QED
    BY <1>7, <2>1
<1> QED
  BY <1>1, <1>6, <1>9, <1>10

\* What the host does with a command that was given up: a workspace opened or closed so
\* disturbs, and all else leaves what is open as it is.
LEMMA ServeLateShape ==
  ASSUME Sound, ServeLate
  PROVE  /\ Sound' /\ HostOnly /\ UNCHANGED <<calls, replies>>
         /\ count'.calls = count.calls /\ count'.clicks = count.clicks
         /\ ~disturbed' => /\ ~disturbed /\ peer'.open = peer.open /\ peer'.up = peer.up
                           /\ UNCHANGED <<events, count>>
<1>1. PICK c \in peer.late : LET h == [peer EXCEPT !.late = @ \ {c}]
                             IN \/ c.kind = "open_workspace" /\ LateOpen(c, h)
                                \/ c.kind = "close_workspace" /\ LateClose(c, h)
                                \/ LateSession(c, h)
  BY DEF ServeLate
<1>2. HostOnly /\ UNCHANGED <<calls, replies>>
  BY DEF ServeLate
<1> DEFINE S == peer.late \ {c}
           h == [peer EXCEPT !.late = S]
<1>3. S \in SUBSET Asks /\ LateFits(S)
  BY PeerShape DEF PeerFits, LateFits
<1>4. PeerFits(h) /\ h.open = peer.open /\ h.up = peer.up /\ h.sessions = peer.sessions
  BY <1>3, PeerShape, GivenUpFits
<1>5. \/ c.kind = "open_workspace" /\ LateOpen(c, h)
      \/ c.kind = "close_workspace" /\ LateClose(c, h)
      \/ LateSession(c, h)
  BY <1>1
<1> HIDE DEF h
<1>6. count \in Counts /\ events \in Seq(Events) /\ archive \subseteq AllSessions /\ disturbed \in BOOLEAN
  BY CountShape DEF Sound, WorkspaceTypeOK
<1>7. ASSUME PeerFits(peer'), count' \in Counts, count'.calls = count.calls, events' \in Seq(Events),
             archive' \subseteq AllSessions, disturbed' \in BOOLEAN
      PROVE  Sound'
  <2>1. WorkspaceTypeOK'
    <3>1. OtherTypes'
      BY <1>2, <1>7, TypesSplit DEF Sound, OtherTypes, HostOnly
    <3> QED
      BY <1>2, <1>7, <3>1, TypesNext
  <2> QED
    BY <1>2, <1>7, <2>1, NumbersKept DEF Sound, HostOnly
<1>8. CASE c.kind = "open_workspace" /\ LateOpen(c, h)
  <2> DEFINE w == Found(h, c.root)
             e == WorkspaceEvent(w)
  <2>1. c.root \in Directories
    <3>1. LateFits(peer.late) /\ c.kind = "open_workspace" /\ c \in peer.late
      BY <1>8, PeerShape DEF PeerFits
    <3>2. \A S1 : LateFits(S1) => \A d \in S1 : d.kind = "open_workspace" => d.root \in Directories
      BY DEF LateFits
    <3> QED
      BY <3>1, <3>2
  <2>2. w \in Workspaces /\ CountFound(h, c.root) \in Counts /\ CountFound(h, c.root).calls = count.calls
        /\ CountFound(h, c.root).clicks = count.clicks
    BY <1>4, <2>1, FoundShape
  <2> HIDE DEF w
  <2>3. e \in Events
    BY <2>2 DEF WorkspaceEvent, Events, SomeSession
  <2>4. /\ peer' = Opens(h, w) /\ events' = Append(events, e) /\ count' = CountFound(h, c.root)
        /\ disturbed' = TRUE /\ UNCHANGED archive
    BY <1>8 DEF LateOpen, w
  <2> HIDE DEF e
  <2>5. PeerFits(peer') /\ events' \in Seq(Events)
    BY <1>4, <1>6, <2>2, <2>3, <2>4, OpensFits
  <2> QED
    BY <1>2, <1>6, <1>7, <2>2, <2>4, <2>5
<1>9. CASE c.kind = "close_workspace" /\ LateClose(c, h)
  <2>1. peer' = Closes(h, c.id) /\ disturbed' = TRUE /\ UNCHANGED <<events, archive, count>>
    BY <1>9 DEF LateClose
  <2>2. PeerFits(peer')
    BY <1>4, <2>1, ClosesFits
  <2> QED
    BY <1>2, <1>6, <1>7, <2>1, <2>2
<1>10. CASE LateSession(c, h)
  <2>1. UNCHANGED <<events, count, disturbed>>
    BY <1>10 DEF LateSession
  <2>2. PeerFits(peer') /\ peer'.open = peer.open /\ peer'.up = peer.up /\ archive' \subseteq AllSessions
    <3>1. CASE /\ c.kind = "open_session" /\ DirectoryOf[c.session] \in OpenRoots(h)
               /\ peer' = Holds(h, c.session, Holder(c.session)) /\ UNCHANGED archive
      <4>1. c.session \in AllSessions
        BY <3>1, PeerShape DEF PeerFits, LateFits
      <4>2. DirectoryOf[c.session] \in OpenRoots(peer)
        BY <1>4, <3>1 DEF OpenRoots
      <4>3. Holder(c.session) \in Workspaces /\ Holder(c.session).root = DirectoryOf[c.session]
        BY <4>1, <4>2, HolderShape
      <4> QED
        BY <1>4, <1>6, <3>1, <4>1, <4>3, HoldsFits
    <3>2. ASSUME NEW s \in AllSessions, NEW w \in h.open, w.root = DirectoryOf[s], peer' = Holds(h, s, w),
                 archive' = archive \cup {s}
          PROVE  PeerFits(peer') /\ peer'.open = peer.open /\ peer'.up = peer.up /\ archive' \subseteq AllSessions
      <4>1. w \in Workspaces
        BY <1>4, PeerShape
      <4> QED
        BY <1>4, <1>6, <3>2, <4>1, HoldsFits
    <3>3. CASE peer' = Drops(h, c.session) /\ UNCHANGED archive
      BY <1>4, <1>6, <3>3, DropsFits
    <3>4. CASE peer' = h /\ UNCHANGED archive
      BY <1>4, <1>6, <3>4
    <3> QED
      BY <1>10, <3>1, <3>2, <3>3, <3>4 DEF LateSession
  <2>3. Sound'
    BY <1>6, <1>7, <2>1, <2>2
  <2> QED
    BY <1>2, <2>1, <2>2, <2>3
<1> QED
  BY <1>5, <1>8, <1>9, <1>10

LEMMA RestoreDiesShape ==
  ASSUME Sound, NEW roots \in SUBSET Directories, NEW sessions \in SUBSET AllSessions, RestoreDies(roots, sessions)
  PROVE  /\ Sound' /\ HostOnly /\ UNCHANGED <<calls, replies, events, count, disturbed>>
         /\ peer'.up = peer.up /\ peer'.open = peer.open
<1>1. /\ peer' = [peer EXCEPT !.kept.roots = Restrict(@, roots), !.kept.sessions = Restrict(@, sessions)]
      /\ roots \subseteq DOMAIN peer.kept.roots /\ sessions \subseteq DOMAIN peer.kept.sessions
      /\ HostOnly /\ UNCHANGED <<calls, replies, events, archive, count, disturbed>>
  BY DEF RestoreDies
<1> DEFINE f == Restrict(peer.kept.roots, roots)
           g == Restrict(peer.kept.sessions, sessions)
           k == [roots |-> f, ids |-> peer.kept.ids, sessions |-> g]
<1>2. peer.kept \in Ledgers /\ peer.kept.roots \in Orders /\ peer.kept.sessions \in Placements
      /\ IsFiniteSet(DOMAIN peer.kept.roots) /\ peer \in Peers
  BY PeerShape DEF PeerFits, KeptFits, Ledgers
<1>3. f \in Orders /\ IsFiniteSet(DOMAIN f) /\ g \in Placements
  BY <1>1, <1>2, NarrowedOrder, RestrictFits
<1>9. peer' = [peer EXCEPT !.kept.roots = f, !.kept.sessions = g]
  BY <1>1, <1>2 DEF Peers, Ledgers
<1> HIDE DEF f, g
<1>4. KeptFits(k)
  BY <1>2, <1>3 DEF KeptFits, Ledgers
<1>5. peer' = [peer EXCEPT !.kept = k]
  <2> DEFINE a == [peer.kept EXCEPT !.roots = f]
  <2>1. peer' = [peer EXCEPT !.kept = [a EXCEPT !.sessions = g]]
    BY <1>2, <1>9 DEF Peers, Ledgers
  <2>2. a = [roots |-> f, ids |-> peer.kept.ids, sessions |-> peer.kept.sessions]
    BY <1>2 DEF Ledgers
  <2> HIDE DEF a
  <2>3. [a EXCEPT !.sessions = g] = k
    BY <2>2
  <2> QED
    BY <2>1, <2>3
<1> HIDE DEF k
<1>6. PeerFits(peer') /\ peer'.open = peer.open /\ peer'.up = peer.up
  BY <1>4, <1>5, PeerShape, KeepsFits
<1>7. WorkspaceTypeOK'
  <2>1. OtherTypes'
    BY <1>1, <1>6, TypesSplit DEF Sound, OtherTypes, HostOnly
  <2> QED
    BY <1>1, <1>6, <2>1, TypesNext
<1>8. Sound'
  BY <1>1, <1>7, NumbersKept DEF Sound, HostOnly
<1> QED
  BY <1>1, <1>6, <1>8

LEMMA TakeEventShape ==
  ASSUME Sound, TakeEvent
  PROVE  /\ Sound' /\ events' = Tail(events) /\ events # <<>> /\ events[1] \in Events
         /\ UNCHANGED <<remembered, change, changes, calls, peer, archive, count, disturbed>>
         /\ DOMAIN replies' = DOMAIN replies
         /\ \A i \in DOMAIN replies :
              /\ replies'[i].n = replies[i].n /\ replies'[i].ok = replies[i].ok /\ replies'[i].value = replies[i].value
              /\ replies[i].ahead \in Nat /\ replies'[i].ahead \in Nat
              /\ replies'[i].ahead = IF replies[i].ahead = 0 THEN 0 ELSE replies[i].ahead - 1
         /\ \/ Tells(events[1]) /\ view' = OnWorkspace(view, events[1].workspace)
            \/ ~Tells(events[1]) /\ But(view', view, {"tabs", "active", "resume"})
               /\ (view'.active = view.active \/ view.selection = 0)
         /\ goal' = (IF view'.tabs = {} THEN NoSession ELSE goal)
<1> DEFINE e == Head(events)
<1>1. events \in Seq(Events) /\ events # <<>> /\ e \in Events /\ e = events[1] /\ Tail(events) \in Seq(Events)
  BY DEF TakeEvent, Sound, WorkspaceTypeOK
<1>2. /\ events' = Tail(events)
      /\ view' = (IF e.name = "workspace_changed" THEN OnWorkspace(view, e.workspace)
                  ELSE OnSnapshot(view, e.session, e.workspace.id))
      /\ goal' = (IF view'.tabs = {} THEN NoSession ELSE goal)
      /\ replies' = [i \in DOMAIN replies |-> [replies[i] EXCEPT !.ahead = IF @ = 0 THEN 0 ELSE @ - 1]]
      /\ UNCHANGED <<remembered, change, changes, calls, peer, archive, count, disturbed>>
  BY DEF TakeEvent
<1> HIDE DEF e
<1>3. ASSUME NEW i \in DOMAIN replies
      PROVE  /\ replies'[i] \in Answers
             /\ replies'[i].n = replies[i].n /\ replies'[i].ok = replies[i].ok /\ replies'[i].value = replies[i].value
             /\ replies[i].ahead \in Nat /\ replies'[i].ahead \in Nat
             /\ replies'[i].ahead = IF replies[i].ahead = 0 THEN 0 ELSE replies[i].ahead - 1
  <2> DEFINE r == replies[i]
             a == IF r.ahead = 0 THEN 0 ELSE r.ahead - 1
  <2>1. r \in Answers
    BY DEF Sound, WorkspaceTypeOK
  <2>2. a \in Nat /\ r.ahead \in Nat
    BY <2>1 DEF Answers
  <2>3. replies'[i] = [r EXCEPT !.ahead = a]
    BY <1>2
  <2> HIDE DEF r, a
  <2>4. replies'[i] \in Answers /\ replies'[i].n = r.n /\ replies'[i].ok = r.ok /\ replies'[i].value = r.value
        /\ replies'[i].ahead = a
    BY <2>1, <2>2, <2>3 DEF Answers
  <2> QED
    BY <2>2, <2>4 DEF r, a
<1>4. replies' \in Seq(Answers) /\ DOMAIN replies' = DOMAIN replies
  <2>1. replies \in Seq(Answers)
    BY DEF Sound, WorkspaceTypeOK
  <2>2. DOMAIN replies = 1..Len(replies) /\ Len(replies) \in Nat
    BY <2>1, LenProperties
  <2>3. replies' \in [1..Len(replies) -> Answers]
    BY <1>2, <1>3, <2>2
  <2> QED
    BY <1>2, <2>2, <2>3
<1>5. e.workspace \in Workspaces /\ e.session \in SomeSession
  BY <1>1 DEF Events
<1>6. ASSUME Tells(e)
      PROVE  view' = OnWorkspace(view, e.workspace) /\ view' \in Views /\ view'.opens \subseteq view.opens
  <2>1. view' = OnWorkspace(view, e.workspace)
    BY <1>2, <1>6 DEF Tells
  <2>2. view' \in Views /\ view'.opens \subseteq view.opens
    <3>1. Replaced(view, e.workspace) \in Views /\ Replaced(view, e.workspace).opens = {}
      BY <1>5, ReplacedShape DEF Sound, SomeWorkspace
    <3>2. view \in Views
      BY DEF Sound, WorkspaceTypeOK
    <3> QED
      BY <1>5, <2>1, <3>1, <3>2, OnWorkspaceShape DEF Sound, But
  <2> QED
    BY <1>6, <2>1, <2>2
<1>7. ASSUME ~Tells(e)
      PROVE  /\ But(view', view, {"tabs", "active", "resume"}) /\ (view'.active = view.active \/ view.selection = 0)
             /\ view' \in Views /\ view'.opens \subseteq view.opens
  <2>1. view' = OnSnapshot(view, e.session, e.workspace.id)
    BY <1>2, <1>7 DEF Tells
  <2>2. But(view', view, {"tabs", "active", "resume"}) /\ (view'.active = view.active \/ view.selection = 0)
    BY <1>5, <2>1, OnSnapshotShape DEF Sound
  <2> QED
    BY <2>2, <1>7 DEF But, Fields
<1>8. view' \in Views /\ view'.opens \subseteq view.opens
  BY <1>6, <1>7
<1>9. WorkspaceTypeOK'
  BY <1>1, <1>2, <1>4, <1>8 DEF Sound, WorkspaceTypeOK, SomeSession
<1>10. Numbered' /\ OnePerSession'
  <2>1. UNCHANGED <<calls, count>>
    BY <1>2
  <2>2. \A i \in DOMAIN replies' : i \in DOMAIN replies /\ replies'[i].n = replies[i].n
    BY <1>3, <1>4
  <2> QED
    BY <1>8, <2>1, <2>2 DEF Sound, Numbered, OnePerSession
<1> QED
  BY <1>1, <1>2, <1>3, <1>4, <1>6, <1>7, <1>9, <1>10 DEF Sound

LEMMA TakingShape ==
  ASSUME Sound, NEW c \in calls, NEW kind, Taking(c, kind)
  PROVE  /\ replies # <<>> /\ Heard \in Answers /\ Heard = replies[1] /\ 1 \in DOMAIN replies
         /\ c.n = Heard.n /\ c.kind = kind /\ c \in Asks
         /\ replies' = Tail(replies) /\ replies' \in Seq(Answers)
         /\ \A i \in DOMAIN replies' : replies'[i] = replies[i + 1] /\ i + 1 \in DOMAIN replies /\ replies'[i].n # c.n
         /\ \A i \in DOMAIN replies : i = 1 \/ (i - 1 \in DOMAIN replies' /\ i \in Nat)
         /\ \A i, j \in DOMAIN replies' : replies'[i].n = replies'[j].n => i = j
         /\ \A d \in calls : d.n = c.n => d = c
         /\ UNCHANGED <<changes, events, peer, archive>> /\ disturbed' \in BOOLEAN
         /\ ~disturbed' => /\ ~disturbed /\ Heard.ahead = 0
                           /\ kind = "close_session" => \A w \in c.waiters : OwnsWorkspace(view, w.workspace, w.generation)
<1>1. replies \in Seq(Answers) /\ replies # <<>> /\ c \in Asks /\ disturbed \in BOOLEAN
  BY DEF Taking, Sound, WorkspaceTypeOK
<1>2. /\ replies' = Tail(replies) /\ c.n = Heard.n /\ c.kind = kind /\ UNCHANGED <<changes, events, peer, archive>>
      /\ disturbed' = (disturbed \/ Heard.ahead > 0 \/ (kind = "close_session"
                         /\ \E w \in c.waiters : ~OwnsWorkspace(view, w.workspace, w.generation)))
  BY DEF Taking
<1>3. /\ Tail(replies) \in Seq(Answers) /\ Head(replies) \in Answers /\ Head(replies) = replies[1] /\ 1 \in DOMAIN replies
      /\ \A i \in DOMAIN Tail(replies) : Tail(replies)[i] = replies[i + 1] /\ i + 1 \in DOMAIN replies /\ i # 0 /\ i \in Nat
      /\ \A i \in DOMAIN replies : i = 1 \/ (i - 1 \in DOMAIN Tail(replies) /\ i \in Nat)
  BY <1>1
<1>4. \A i, j \in DOMAIN replies : replies[i].n = replies[j].n => i = j
  BY DEF Sound, Numbered
<1>5. \A i \in DOMAIN replies' : replies'[i].n # c.n
  BY <1>2, <1>3, <1>4 DEF Heard
<1>6. \A i, j \in DOMAIN replies' : replies'[i].n = replies'[j].n => i = j
  BY <1>2, <1>3, <1>4
<1>7. \A d \in calls : d.n = c.n => d = c
  BY DEF Sound, Numbered
<1>8. Heard.ahead \in Nat
  BY <1>3 DEF Heard, Answers
<1>9. disturbed' \in BOOLEAN
  BY <1>1, <1>2
<1>10. ASSUME ~disturbed'
       PROVE  /\ ~disturbed /\ Heard.ahead = 0
              /\ kind = "close_session" => \A w \in c.waiters : OwnsWorkspace(view, w.workspace, w.generation)
  <2>1. /\ ~disturbed /\ ~(Heard.ahead > 0)
        /\ ~(kind = "close_session" /\ \E w \in c.waiters : ~OwnsWorkspace(view, w.workspace, w.generation))
    BY <1>2, <1>10, Zenon
  <2>2. Heard.ahead = 0
    BY <1>8, <2>1
  <2> QED
    BY <2>1, <2>2, Zenon
<1>11. Heard \in Answers /\ Heard = replies[1]
  BY <1>3 DEF Heard
<1> QED
  BY <1>1, <1>2, <1>3, <1>5, <1>6, <1>7, <1>9, <1>10, <1>11

\* An answer ends its command; another may follow it.
LEMMA TakenNumbers ==
  ASSUME Sound, NEW c \in calls, NEW kind, Taking(c, kind), view'.opens \subseteq view.opens,
         \/ NoFollow(c)
         \/ \E ask \in Asks : ask.n = NextCall /\ ask.kind # "open_session" /\ Follow(c, ask)
  PROVE  Numbered' /\ OnePerSession' /\ calls' \subseteq Asks /\ count' \in Counts
         /\ count'.ids = count.ids /\ count'.clicks = count.clicks
<1>1. /\ \A i \in DOMAIN replies' : replies'[i] = replies[i + 1] /\ i + 1 \in DOMAIN replies /\ replies'[i].n # c.n
      /\ \A i, j \in DOMAIN replies' : replies'[i].n = replies'[j].n => i = j
      /\ \A d \in calls : d.n = c.n => d = c
  BY TakingShape
<1>2. \A i \in DOMAIN replies' : replies'[i].n # c.n /\ \E e \in calls : e.n = replies'[i].n
  BY <1>1 DEF Sound, Numbered
<1>3. calls \subseteq Asks /\ count \in Counts /\ count.calls \in Nat /\ NextCall = count.calls + 1
      /\ \A d \in calls : d.n \in 1..count.calls
  BY CountShape DEF Sound, WorkspaceTypeOK, Numbered, Counts
<1>4. CASE NoFollow(c)
  <2>1. calls' = calls \ {c} /\ count' = count
    BY <1>4 DEF NoFollow
  <2>2. Numbered'
    BY <1>1, <1>2, <1>3, <2>1 DEF Sound, Numbered
  <2> QED
    BY <1>3, <2>1, <2>2 DEF OnePerSession, Sound
<1>5. ASSUME NEW ask \in Asks, ask.n = NextCall, ask.kind # "open_session", Follow(c, ask)
      PROVE  Numbered' /\ OnePerSession' /\ calls' \subseteq Asks /\ count' \in Counts
             /\ count'.ids = count.ids /\ count'.clicks = count.clicks
  <2>1. calls' = (calls \ {c}) \cup {ask} /\ count' = Called(count)
    BY <1>5 DEF Follow
  <2>2. count' \in Counts /\ count'.calls = NextCall /\ count'.ids = count.ids /\ count'.clicks = count.clicks
    BY <2>1, CountShape DEF Sound
  <2>3. \A d, e \in calls' : d.n = e.n => d = e
    BY <1>3, <1>5, <2>1 DEF Sound, Numbered
  <2>4. \A d \in calls' : (d.n = NextCall /\ count'.calls = NextCall) \/ \E e \in calls : e.n = d.n /\ e.n # c.n
    BY <1>1, <1>5, <2>1, <2>2
  <2>5. \A e \in calls : e.n # c.n => \E d \in calls' : d.n = e.n
    BY <2>1
  <2>6. count'.calls \in Nat /\ count'.calls >= count.calls
    BY <1>3, <2>2
  <2>7. Numbered'
    BY <1>1, <1>2, <2>3, <2>4, <2>5, <2>6, NumberedStep
  <2> QED
    BY <1>3, <1>5, <2>1, <2>2, <2>7 DEF OnePerSession, Sound
<1> QED
  BY <1>4, <1>5

LEMMA AdoptShape ==
  ASSUME Sound, NEW c \in calls, NEW kind, Taking(c, kind), NEW w \in Workspaces, Adopt(c, w)
  PROVE  /\ Sound' /\ view' = Replaced(view, w) /\ view' \in Views /\ goal' = NoSession
         /\ change' = Advanced("listing", w, view'.generation, NextCall)
         /\ count'.ids = count.ids /\ count'.clicks = count.clicks
         /\ \E ask \in Asks : calls' = (calls \ {c}) \cup {ask} /\ ask.n = NextCall /\ ask.kind = "list_sessions"
<1> DEFINE ask == Command("list_sessions", NoDirectory, w.id, NoSession, {})
<1>1. view' = Replaced(view, w) /\ view' \in Views /\ view'.opens = {} /\ view'.generation \in Nat
  BY ReplacedShape DEF Adopt, Sound, SomeWorkspace, Views
<1>2. ask \in Asks /\ ask.n = NextCall /\ ask.kind = "list_sessions"
  <2>1. NoDirectory \in Directories \cup {NoDirectory} /\ w.id \in Nat /\ NoSession \in SomeSession /\ {} \in SUBSET Waiters
    BY DEF Workspaces, SomeSession
  <2> QED
    BY <2>1, CommandShape DEF Sound
<1>3. Follow(c, ask) /\ change' = Advanced("listing", w, view'.generation, NextCall) /\ goal' = NoSession /\ UNCHANGED remembered
  BY DEF Adopt
<1> HIDE DEF ask
<1>4. view'.opens \subseteq view.opens
  BY <1>1
<1>5. Numbered' /\ OnePerSession' /\ calls' \subseteq Asks /\ count' \in Counts
      /\ count'.ids = count.ids /\ count'.clicks = count.clicks
  BY <1>2, <1>3, <1>4, TakenNumbers
<1>6. calls' = (calls \ {c}) \cup {ask}
  BY <1>3 DEF Follow
<1>7. change' \in [op : {"none", "open", "close"}, step : Steps, target : SomeWorkspace, generation : Nat, call : Nat]
  BY <1>1, <1>3, CountShape DEF Sound, WorkspaceTypeOK, Advanced, Steps, SomeWorkspace
<1>8. WorkspaceTypeOK'
  <2>1. \A d \in calls' : /\ d.kind = "open_workspace" => d.root \in Directories
                          /\ d.kind = "open_session" => d.session \in AllSessions
    BY <1>6, <1>2 DEF Sound, WorkspaceTypeOK
  <2>2. replies' \in Seq(Answers) /\ UNCHANGED <<changes, events, peer, archive>> /\ disturbed' \in BOOLEAN
    BY TakingShape
  <2> QED
    BY <1>1, <1>2, <1>3, <1>5, <1>6, <1>7, <2>1, <2>2 DEF Sound, WorkspaceTypeOK, SomeSession, Counts
<1> QED
  BY <1>1, <1>2, <1>3, <1>5, <1>6, <1>8 DEF Sound

LEMMA EndShape ==
  ASSUME Sound, NEW c \in calls, NEW kind, Taking(c, kind), EndChange(c), view' \in Views, view'.opens \subseteq view.opens,
         remembered' \in [Directories -> SomeSession], goal' \in SomeSession
  PROVE  Sound' /\ calls' = calls \ {c} /\ count' = count /\ change' = NoChange
<1>1. calls' = calls \ {c} /\ count' = count /\ change' = NoChange /\ NoFollow(c)
  BY DEF EndChange, NoFollow
<1>2. Numbered' /\ OnePerSession' /\ calls' \subseteq Asks
  BY <1>1, TakenNumbers
<1>3. change' \in [op : {"none", "open", "close"}, step : Steps, target : SomeWorkspace, generation : Nat, call : Nat]
  BY <1>1 DEF NoChange, Steps, SomeWorkspace
<1>4. WorkspaceTypeOK'
  <2>1. replies' \in Seq(Answers) /\ UNCHANGED <<changes, events, peer, archive>> /\ disturbed' \in BOOLEAN
    BY TakingShape
  <2>2. \A d \in calls' : /\ d.kind = "open_workspace" => d.root \in Directories
                          /\ d.kind = "open_session" => d.session \in AllSessions
    BY <1>1 DEF Sound, WorkspaceTypeOK
  <2> QED
    BY <1>1, <1>2, <1>3, <2>1, <2>2 DEF Sound, WorkspaceTypeOK
<1> QED
  BY <1>1, <1>2, <1>4 DEF Sound

LEMMA LeaveShape ==
  ASSUME Sound, NEW c \in calls, NEW kind, Taking(c, kind), NEW w \in SomeWorkspace, Follow(c, CloseWorkspace(w)), ViewOnly,
         NEW to \in Steps, NEW target \in SomeWorkspace, change' = Advanced(to, target, change.generation, NextCall)
  PROVE  /\ Sound' /\ count'.ids = count.ids /\ count'.clicks = count.clicks
         /\ \E ask \in Asks : calls' = (calls \ {c}) \cup {ask} /\ ask.n = NextCall /\ ask.kind = "close_workspace"
                              /\ ask.id = w.id
<1> DEFINE ask == CloseWorkspace(w)
<1>1. ask \in Asks /\ ask.n = NextCall /\ ask.kind = "close_workspace" /\ ask.id = w.id
  <2>1. NoDirectory \in Directories \cup {NoDirectory} /\ w.id \in Nat /\ NoSession \in SomeSession /\ {} \in SUBSET Waiters
    BY DEF SomeWorkspace, Workspaces, NoWorkspace, SomeSession
  <2> QED
    BY <2>1, CommandShape DEF Sound, CloseWorkspace
<1> HIDE DEF ask
<1>2. Follow(c, ask) /\ UNCHANGED <<view, remembered, goal>>
  BY DEF ask, ViewOnly
<1>3. view'.opens \subseteq view.opens
  BY <1>2
<1>4. Numbered' /\ OnePerSession' /\ calls' \subseteq Asks /\ count' \in Counts
      /\ count'.ids = count.ids /\ count'.clicks = count.clicks
  BY <1>1, <1>2, <1>3, TakenNumbers
<1>5. calls' = (calls \ {c}) \cup {ask}
  BY <1>2 DEF Follow
<1>6. change' \in [op : {"none", "open", "close"}, step : Steps, target : SomeWorkspace, generation : Nat, call : Nat]
  BY CountShape DEF Sound, WorkspaceTypeOK, Advanced
<1>7. WorkspaceTypeOK'
  <2>1. \A d \in calls' : /\ d.kind = "open_workspace" => d.root \in Directories
                          /\ d.kind = "open_session" => d.session \in AllSessions
    BY <1>5, <1>1 DEF Sound, WorkspaceTypeOK
  <2>2. replies' \in Seq(Answers) /\ UNCHANGED <<changes, events, peer, archive>> /\ disturbed' \in BOOLEAN
    BY TakingShape
  <2> QED
    BY <1>1, <1>2, <1>4, <1>5, <1>6, <2>1, <2>2 DEF Sound, WorkspaceTypeOK, Counts
<1> QED
  BY <1>1, <1>4, <1>5, <1>7 DEF Sound

\* The answer to the first command of a change.
LEMMA OpenAnsweredShape ==
  ASSUME Sound, OpenAnswered
  PROVE  \E c \in calls :
           LET w == Heard.value.workspace
           IN /\ Taking(c, "open_workspace") /\ Sound' /\ w \in SomeWorkspace
              /\ \/ (~Heard.ok \/ w = NoWorkspace) /\ EndChange(c) /\ ViewOnly
                 \/ /\ Heard.ok /\ w # NoWorkspace /\ Leaves(w) /\ ViewOnly /\ Follow(c, CloseWorkspace(view.workspace))
                    /\ change' = Advanced("leaving", w, change.generation, NextCall)
                 \/ Heard.ok /\ w \in Workspaces /\ ~Leaves(w) /\ Adopt(c, w)
<1>1. PICK c \in calls :
        /\ Taking(c, "open_workspace")
        /\ LET w == Heard.value.workspace
           IN \/ /\ ~Heard.ok \/ w = NoWorkspace
                 /\ EndChange(c) /\ ViewOnly
              \/ /\ Heard.ok /\ w # NoWorkspace /\ Leaves(w)
                 /\ Follow(c, CloseWorkspace(view.workspace))
                 /\ change' = Advanced("leaving", w, change.generation, NextCall)
                 /\ ViewOnly
              \/ Heard.ok /\ w # NoWorkspace /\ ~Leaves(w) /\ Adopt(c, w)
  BY DEF OpenAnswered
<1> DEFINE w == Heard.value.workspace
<1>2. w \in SomeWorkspace
  BY <1>1, TakingShape DEF Answers
<1>3. w # NoWorkspace => w \in Workspaces
  BY <1>2 DEF SomeWorkspace
<1>4. view \in Views /\ view.workspace \in SomeWorkspace /\ remembered \in [Directories -> SomeSession] /\ goal \in SomeSession
  BY DEF Sound, WorkspaceTypeOK, Views
<1> HIDE DEF w
<1>5. ASSUME EndChange(c), ViewOnly
      PROVE  Sound'
  BY <1>1, <1>4, <1>5, EndShape DEF ViewOnly
<1>6. ASSUME Follow(c, CloseWorkspace(view.workspace)), ViewOnly, change' = Advanced("leaving", w, change.generation, NextCall)
      PROVE  Sound'
  <2>1. "leaving" \in Steps
    BY DEF Steps
  <2> QED
    BY <1>1, <1>2, <1>4, <1>6, <2>1, LeaveShape
<1>7. ASSUME w # NoWorkspace, Adopt(c, w)
      PROVE  Sound'
  BY <1>1, <1>3, <1>7, AdoptShape
<1> QED
  BY <1>1, <1>2, <1>3, <1>5, <1>6, <1>7 DEF w

\* The answer to a close.
LEMMA CloseAnsweredShape ==
  ASSUME Sound, CloseAnswered, change.step = "leaving" => change.target \in Workspaces
  PROVE  \E c \in calls :
           /\ Taking(c, "close_workspace") /\ Sound'
           /\ \/ change.step = "leaving" /\ Heard.ok /\ Adopt(c, change.target)
              \/ /\ change.step = "leaving" /\ ~Heard.ok /\ ViewOnly /\ Follow(c, CloseWorkspace(change.target))
                 /\ change' = Advanced("rolling back", change.target, change.generation, NextCall)
              \/ change.step = "rolling back" /\ EndChange(c) /\ ViewOnly
              \/ /\ change.step = "asked" /\ EndChange(c)
                 /\ IF Heard.ok /\ view.workspace.id = change.target.id
                    THEN view' = Replaced(view, NoWorkspace) /\ goal' = NoSession /\ UNCHANGED remembered
                    ELSE ViewOnly
<1>1. PICK c \in calls :
        /\ Taking(c, "close_workspace")
        /\ \/ change.step = "leaving" /\ Heard.ok /\ Adopt(c, change.target)
           \/ /\ change.step = "leaving" /\ ~Heard.ok
              /\ Follow(c, CloseWorkspace(change.target))
              /\ change' = Advanced("rolling back", change.target, change.generation, NextCall)
              /\ ViewOnly
           \/ change.step = "rolling back" /\ EndChange(c) /\ ViewOnly
           \/ /\ change.step = "asked" /\ EndChange(c)
              /\ IF Heard.ok /\ view.workspace.id = change.target.id
                 THEN view' = Replaced(view, NoWorkspace) /\ goal' = NoSession /\ UNCHANGED remembered
                 ELSE ViewOnly
  BY DEF CloseAnswered
<1>2. view \in Views /\ change.target \in SomeWorkspace /\ remembered \in [Directories -> SomeSession] /\ goal \in SomeSession
      /\ NoSession \in SomeSession /\ "rolling back" \in Steps /\ NoWorkspace \in SomeWorkspace
  BY DEF Sound, WorkspaceTypeOK, Views, SomeSession, Steps, SomeWorkspace
<1>3. ASSUME change.step = "leaving", Adopt(c, change.target)
      PROVE  Sound'
  BY <1>1, <1>3, AdoptShape
<1>4. ASSUME Follow(c, CloseWorkspace(change.target)), ViewOnly,
             change' = Advanced("rolling back", change.target, change.generation, NextCall)
      PROVE  Sound'
  BY <1>1, <1>2, <1>4, LeaveShape
<1>5. ASSUME EndChange(c), ViewOnly
      PROVE  Sound'
  BY <1>1, <1>2, <1>5, EndShape DEF ViewOnly
<1>6. ASSUME EndChange(c), view' = Replaced(view, NoWorkspace), goal' = NoSession, UNCHANGED remembered
      PROVE  Sound'
  <2>1. view' \in Views /\ view'.opens \subseteq view.opens
    BY <1>2, <1>6, ReplacedShape DEF Sound
  <2> QED
    BY <1>1, <1>2, <1>6, <2>1, EndShape
<1> QED
  BY <1>1, <1>3, <1>4, <1>5, <1>6

\* Those who waited for a session install it, and who asked last has it in front.
LEMMA InstallForShape ==
  ASSUME Sound, NEW c \in calls, NEW kind, Taking(c, kind), NEW cleared \in Views, InstallFor(c, cleared),
         cleared.generation = view.generation, cleared.selection = view.selection, cleared.active = view.active
  PROVE  /\ But(view', cleared, {"tabs", "active"})
         /\ remembered' \in [Directories -> SomeSession] /\ goal' \in SomeSession
         /\ \/ goal' = goal
            \/ \E w \in c.waiters : /\ w.generation = view.generation /\ w.click = count.clicks
                                    /\ w.selection = view.selection => view'.active = goal'
         /\ \/ view'.active = view.active
            \/ \E w \in c.waiters : w.generation = view.generation /\ w.selection = view.selection
<1> DEFINE s == Heard.value.session
           owners == {w \in c.waiters : /\ Heard.ok /\ OwnsWorkspace(cleared, w.workspace, w.generation)
                                         /\ Heard.value.workspace.id = w.workspace.id}
           front == \E w \in owners : w.selection = cleared.selection
<1>1. s \in SomeSession /\ view \in Views /\ remembered \in [Directories -> SomeSession] /\ goal \in SomeSession
  <2>1. Heard \in Answers
    BY TakingShape
  <2> QED
    BY <2>1 DEF Answers, Sound, WorkspaceTypeOK
<1>2. /\ view' = (IF owners = {} THEN cleared ELSE Installed(cleared, s, front))
      /\ remembered' = (IF front THEN Remember(view, s) ELSE remembered)
      /\ goal' = (IF \E w \in owners : w.click = count.clicks THEN s ELSE goal)
  BY DEF InstallFor
<1>3. \A w \in owners : w \in c.waiters /\ w.generation = view.generation
  BY DEF OwnsWorkspace
<1>4. front \in BOOLEAN
  OBVIOUS
<1> HIDE DEF s, owners
<1>5. /\ But(Installed(cleared, s, front), cleared, {"tabs", "active"})
      /\ Installed(cleared, s, front).active = IF front THEN s ELSE cleared.active
  BY <1>1, <1>4, InstalledShape
<1>6. Remember(view, s) \in [Directories -> SomeSession]
  BY <1>1 DEF Remember, Views
<1>7. But(view', cleared, {"tabs", "active"}) /\ view'.active = IF front THEN s ELSE view.active
  BY <1>2, <1>5 DEF But
<1>8. remembered' \in [Directories -> SomeSession] /\ goal' \in SomeSession
  BY <1>1, <1>2, <1>6
<1>9. ASSUME goal' # goal
      PROVE  \E w \in c.waiters : /\ w.generation = view.generation /\ w.click = count.clicks
                                  /\ w.selection = view.selection => view'.active = goal'
  <2>1. PICK w \in owners : w.click = count.clicks
    BY <1>2, <1>9
  <2>2. goal' = s
    BY <1>2, <2>1
  <2>3. w.selection = view.selection => view'.active = goal'
    BY <1>7, <2>1, <2>2
  <2> QED
    BY <1>3, <2>1, <2>3
<1>10. ASSUME view'.active # view.active
       PROVE  \E w \in c.waiters : w.generation = view.generation /\ w.selection = view.selection
  BY <1>3, <1>7, <1>10
<1> QED
  BY <1>7, <1>8, <1>9, <1>10

\* What an answer with a session does to the latest choice.
Reaches(c) ==
  /\ \/ goal' = goal
     \/ \E w \in c.waiters : /\ w.generation = view.generation /\ w.click = count.clicks
                             /\ w.selection = view.selection => view'.active = goal'
  /\ \/ view'.active = view.active
     \/ \E w \in c.waiters : w.generation = view.generation /\ w.selection = view.selection

LEMMA SessionAnsweredShape ==
  ASSUME Sound, SessionAnswered
  PROVE  \E c \in calls :
           /\ Taking(c, "open_session") /\ Sound' /\ calls' = calls \ {c} /\ count' = count /\ Reaches(c)
           /\ But(view', view, {"opens", "tabs", "active"}) /\ view'.opens = view.opens \ {c.n}
           /\ change' = IF change.call = c.n THEN NoChange ELSE change
<1>1. PICK c \in calls :
        /\ Taking(c, "open_session")
        /\ InstallFor(c, [view EXCEPT !.opens = @ \ {c.n}])
        /\ change' = IF change.call = c.n THEN NoChange ELSE change
        /\ NoFollow(c)
  BY DEF SessionAnswered
<1> DEFINE cleared == [view EXCEPT !.opens = view.opens \ {c.n}]
<1>2. view \in Views /\ view.opens \ {c.n} \in SUBSET Nat
  BY DEF Sound, WorkspaceTypeOK, Views
<1>3. But(cleared, view, {"opens"}) /\ cleared.opens = view.opens \ {c.n}
  BY <1>2, SetOpens
<1>4. InstallFor(c, cleared)
  BY <1>1
<1> HIDE DEF cleared
<1>5. cleared \in Views /\ cleared.generation = view.generation /\ cleared.selection = view.selection
      /\ cleared.active = view.active
  BY <1>3 DEF But, Fields
<1>6. /\ But(view', cleared, {"tabs", "active"}) /\ remembered' \in [Directories -> SomeSession] /\ goal' \in SomeSession
      /\ Reaches(c)
  BY <1>1, <1>4, <1>5, InstallForShape DEF Reaches
<1>7. But(view', view, {"tabs", "active"} \cup {"opens"}) /\ view'.opens = view.opens \ {c.n}
  BY <1>3, <1>6, ButBut DEF But, Fields
<1>8. Numbered' /\ OnePerSession' /\ calls' \subseteq Asks /\ calls' = calls \ {c} /\ count' = count
  BY <1>1, <1>7, TakenNumbers DEF NoFollow
<1>9. change' \in [op : {"none", "open", "close"}, step : Steps, target : SomeWorkspace, generation : Nat, call : Nat]
  BY <1>1 DEF NoChange, Steps, SomeWorkspace, Sound, WorkspaceTypeOK
<1>10. replies' \in Seq(Answers) /\ UNCHANGED <<changes, events, peer, archive>> /\ disturbed' \in BOOLEAN
  BY <1>1, TakingShape
<1>11. WorkspaceTypeOK'
  BY <1>6, <1>8, <1>9, <1>10 DEF Sound, WorkspaceTypeOK, But
<1>12. But(view', view, {"opens", "tabs", "active"})
  BY <1>7 DEF But
<1> QED
  BY <1>1, <1>6, <1>7, <1>8, <1>11, <1>12 DEF Sound

LEMMA CreateAnsweredShape ==
  ASSUME Sound, CreateAnswered
  PROVE  \E c \in calls :
           /\ Taking(c, "create_session") /\ Sound' /\ calls' = calls \ {c} /\ count' = count /\ Reaches(c)
           /\ But(view', view, {"start", "starting", "tabs", "active"}) /\ change' = change
           /\ IF view.start = c.n THEN view'.start = 0 /\ ~view'.starting
              ELSE view'.start = view.start /\ view'.starting = view.starting
<1> DEFINE b == [view EXCEPT !.start = NoSlot, !.starting = FALSE]
           cleared(c) == IF view.start = c.n THEN b ELSE view
<1>1. PICK c \in calls :
        Taking(c, "create_session") /\ InstallFor(c, cleared(c)) /\ NoFollow(c) /\ UNCHANGED change
  BY DEF CreateAnswered
<1>2. view \in Views
  BY DEF Sound, WorkspaceTypeOK, Views
<1> DEFINE a == [view EXCEPT !.start = NoSlot]
<1>3. But(a, view, {"start"}) /\ a.start = 0
  BY <1>2, SetStart DEF NoSlot
<1>4. b = [a EXCEPT !.starting = FALSE]
  OBVIOUS
<1> HIDE DEF a, b
<1>5. But(b, a, {"starting"}) /\ ~b.starting
  BY <1>3, <1>4 DEF But, Views, Fields
<1>6. But(b, view, {"starting"} \cup {"start"}) /\ b.start = 0
  BY <1>3, <1>5, ButBut DEF But, Fields
<1>7. /\ But(cleared(c), view, {"start", "starting"})
      /\ IF view.start = c.n THEN cleared(c).start = 0 /\ ~cleared(c).starting ELSE cleared(c) = view
  BY <1>2, <1>5, <1>6 DEF But
<1> HIDE DEF cleared
<1>8. cleared(c) \in Views /\ cleared(c).generation = view.generation /\ cleared(c).selection = view.selection
      /\ cleared(c).active = view.active /\ cleared(c).opens = view.opens
  BY <1>7 DEF But, Fields
<1>9. /\ But(view', cleared(c), {"tabs", "active"}) /\ remembered' \in [Directories -> SomeSession] /\ goal' \in SomeSession
      /\ Reaches(c)
  BY <1>1, <1>8, InstallForShape DEF Reaches
<1>10. But(view', view, {"tabs", "active"} \cup {"start", "starting"}) /\ view'.opens = view.opens
       /\ view'.start = cleared(c).start /\ view'.starting = cleared(c).starting
  BY <1>7, <1>8, <1>9, ButBut DEF But, Fields
<1>11. Numbered' /\ OnePerSession' /\ calls' \subseteq Asks /\ calls' = calls \ {c} /\ count' = count
  BY <1>1, <1>10, TakenNumbers DEF NoFollow
<1>12. replies' \in Seq(Answers) /\ UNCHANGED <<changes, events, peer, archive>> /\ disturbed' \in BOOLEAN
  BY <1>1, TakingShape
<1>13. WorkspaceTypeOK'
  BY <1>1, <1>9, <1>11, <1>12 DEF Sound, WorkspaceTypeOK, But
<1>14. But(view', view, {"start", "starting", "tabs", "active"})
  BY <1>10 DEF But
<1> QED
  BY <1>1, <1>7, <1>9, <1>10, <1>11, <1>13, <1>14 DEF Sound

LEMMA TabAnsweredShape ==
  ASSUME Sound, TabAnswered
  PROVE  \E c \in calls :
           /\ Taking(c, "close_session") /\ Sound' /\ calls' = calls \ {c} /\ count' = count /\ change' = change
           /\ But(view', view, {"tabs", "active"}) /\ goal' \in {goal, NoSession}
           /\ goal' # NoSession /\ view'.active # view.active => goal # view.active
<1>1. PICK c \in calls, next \in AllSessions \cup {NoSession} : \E w \in c.waiters :
        /\ Taking(c, "close_session")
        /\ LET s == c.session
               mine == Heard.ok /\ OwnsWorkspace(view, w.workspace, w.generation)
               left == view.tabs \ {s}
               front == view.active = s
           IN /\ IF mine /\ front /\ left # {} THEN next \in left ELSE next = NoSession
              /\ view' = IF mine THEN [view EXCEPT !.tabs = left, !.active = IF front THEN next ELSE @] ELSE view
              /\ remembered' = IF mine /\ front THEN Remember(view, next) ELSE remembered
              /\ goal' = IF mine /\ goal = s THEN NoSession ELSE goal
        /\ NoFollow(c) /\ UNCHANGED change
  BY DEF TabAnswered
<1> DEFINE s == c.session
           left == view.tabs \ {s}
           front == view.active = s
           a == [view EXCEPT !.tabs = left]
           x == IF front THEN next ELSE view.active
           b == [a EXCEPT !.active = x]
<1>2. PICK mine \in BOOLEAN :
        /\ view' = IF mine THEN [view EXCEPT !.tabs = left, !.active = IF front THEN next ELSE @] ELSE view
        /\ remembered' = IF mine /\ front THEN Remember(view, next) ELSE remembered
        /\ goal' = IF mine /\ goal = s THEN NoSession ELSE goal
  BY <1>1
<1>3. view \in Views /\ left \in SUBSET SomeSession /\ x \in SomeSession /\ next \in SomeSession
      /\ remembered \in [Directories -> SomeSession] /\ goal \in SomeSession /\ NoSession \in SomeSession
  BY DEF Sound, WorkspaceTypeOK, Views, SomeSession
<1>4. But(a, view, {"tabs"}) /\ a.active = view.active /\ a \in Views
  BY <1>3, SetTabs DEF But, Fields
<1> HIDE DEF a, left
<1>5. But(b, a, {"active"}) /\ b.active = x
  BY <1>3, <1>4, SetActive
<1>6. But(b, view, {"active"} \cup {"tabs"})
  BY <1>4, <1>5, ButBut
<1>7. [view EXCEPT !.tabs = left, !.active = IF front THEN next ELSE @] = b
  BY <1>4 DEF a
<1> HIDE DEF b
<1>8. But(b, view, {"tabs", "active"}) /\ But(view, view, {"tabs", "active"})
  BY <1>3, <1>6 DEF But
<1>9. view' = IF mine THEN b ELSE view
  BY <1>2, <1>7
<1>10. But(view', view, {"tabs", "active"})
  BY <1>8, <1>9
<1>11. remembered' \in [Directories -> SomeSession] /\ goal' \in {goal, NoSession}
  BY <1>2, <1>3 DEF Remember, Views
<1>12. goal' # NoSession /\ view'.active # view.active => goal # view.active
  <2>1. CASE mine
    <3>1. view'.active = x /\ goal' = IF goal = s THEN NoSession ELSE goal
      BY <1>2, <1>5, <1>9, <2>1
    <3> QED
      BY <3>1
  <2>2. CASE ~mine
    BY <1>9, <2>2
  <2> QED
    BY <2>1, <2>2
<1>13. Taking(c, "close_session") /\ NoFollow(c) /\ UNCHANGED change
  BY <1>1
<1>14. view'.opens \subseteq view.opens /\ view' \in Views
  BY <1>10 DEF But, Fields
<1>15. Numbered' /\ OnePerSession' /\ calls' \subseteq Asks /\ calls' = calls \ {c} /\ count' = count
  BY <1>13, <1>14, TakenNumbers DEF NoFollow
<1>16. replies' \in Seq(Answers) /\ UNCHANGED <<changes, events, peer, archive>> /\ disturbed' \in BOOLEAN
  BY <1>13, TakingShape
<1>17. WorkspaceTypeOK'
  BY <1>3, <1>11, <1>13, <1>14, <1>15, <1>16 DEF Sound, WorkspaceTypeOK
<1> QED
  BY <1>10, <1>11, <1>12, <1>13, <1>15, <1>17 DEF Sound

\* The session remembered for the directory is opened, for nobody who clicked.
LEMMA ResumedShape ==
  ASSUME Sound, NEW c \in calls, Taking(c, "list_sessions"), NEW s \in AllSessions, NEW w \in SomeWorkspace, NEW gen \in Nat,
         LET v == Selecting(view)
             o == Opening(v, s, 0)
         IN /\ view' = [v EXCEPT !.opens = o.opens]
            /\ calls' = o.calls \ {c} /\ count' = IF o.sent THEN Called(count) ELSE count
            /\ change' = Advanced("resuming", w, gen, o.call),
         UNCHANGED <<remembered, goal>>
  PROVE  /\ Sound' /\ But(view', view, {"resume", "selection", "opens"}) /\ view'.selection = view.selection + 1
         /\ view'.opens = Opening(Selecting(view), s, 0).opens
<1> DEFINE v == Selecting(view)
           o == Opening(v, s, 0)
<1>1. view \in Views /\ s \in SomeSession
  BY DEF Sound, WorkspaceTypeOK, SomeSession
<1>2. But(v, view, {"resume", "selection"}) /\ v.selection = view.selection + 1 /\ v.opens = view.opens /\ v \in Views
  BY <1>1, SelectingShape DEF But, Fields
<1>3. count \in Counts /\ Called(count) \in Counts /\ Called(count).calls = NextCall
      /\ NextCall = count.calls + 1 /\ count.calls \in Nat
  BY CountShape DEF Counts, Sound
<1>4. /\ view' = [v EXCEPT !.opens = o.opens] /\ calls' = o.calls \ {c}
      /\ count' = IF o.sent THEN Called(count) ELSE count
      /\ change' = Advanced("resuming", w, gen, o.call)
  OBVIOUS
<1> HIDE DEF v
<1>5. /\ o.calls \subseteq Asks /\ o.opens \in SUBSET Nat /\ o.call \in Nat /\ o.sent \in BOOLEAN
      /\ \A d \in o.calls : d \in calls \/ (d.n = o.call /\ d.kind = "open_session" /\ d.session = s)
      /\ o.sent => o.call = NextCall
      /\ ~o.sent => \A d \in o.calls : \E e \in calls : e.n = d.n /\ e.kind = d.kind
      /\ \A d \in calls : \E e \in o.calls : e.n = d.n
      /\ \A d, e \in o.calls : d.n = e.n => d = e
      /\ \A d, e \in o.calls :
           d.kind = "open_session" /\ e.kind = "open_session" /\ d.session = e.session /\ {d.n, e.n} \subseteq o.opens
             => d.n = e.n
  BY <1>2, OpeningShape DEF Sound
<1> HIDE DEF o
<1>6. But(view', v, {"opens"}) /\ view'.opens = o.opens
  <2>1. view' = [v EXCEPT !.opens = o.opens] /\ v \in Views /\ o.opens \in SUBSET Nat
    BY <1>2, <1>4, <1>5
  <2> QED
    BY <2>1, SetOpens
<1>7. But(view', view, {"opens"} \cup {"resume", "selection"}) /\ view'.selection = v.selection
  BY <1>2, <1>6, ButBut DEF But, Fields
<1>8. count' \in Counts /\ count'.calls \in Nat /\ count'.calls >= count.calls /\ (o.sent => count'.calls = NextCall)
  BY <1>3, <1>4
<1>9. change' \in [op : {"none", "open", "close"}, step : Steps, target : SomeWorkspace, generation : Nat, call : Nat]
  <2>1. change' = [op |-> change.op, step |-> "resuming", target |-> w, generation |-> gen, call |-> o.call]
    BY <1>4 DEF Advanced
  <2>2. change.op \in {"none", "open", "close"} /\ "resuming" \in Steps /\ o.call \in Nat
    BY <1>5 DEF Sound, WorkspaceTypeOK, Steps
  <2> QED
    BY <2>1, <2>2
<1>10. /\ c.kind = "list_sessions" /\ (\A d \in calls : d.n = c.n => d = c)
       /\ replies' \in Seq(Answers) /\ UNCHANGED <<changes, events, peer, archive>> /\ disturbed' \in BOOLEAN
       /\ \A i \in DOMAIN replies' : replies'[i] = replies[i + 1] /\ i + 1 \in DOMAIN replies /\ replies'[i].n # c.n
       /\ \A i, j \in DOMAIN replies' : replies'[i].n = replies'[j].n => i = j
  BY TakingShape
<1>11. \A d \in calls' : /\ d.kind = "open_workspace" => d.root \in Directories
                         /\ d.kind = "open_session" => d.session \in AllSessions
  BY <1>4, <1>5 DEF Sound, WorkspaceTypeOK
<1>12. calls' \subseteq Asks /\ view' \in Views /\ count' \in Counts /\ UNCHANGED <<remembered, goal>>
  BY <1>4, <1>5, <1>6, <1>8 DEF But
<1>13. WorkspaceTypeOK'
  BY <1>9, <1>10, <1>11, <1>12 DEF Sound, WorkspaceTypeOK, Counts
<1>14. \A d \in calls : d.n \in 1..count.calls
  BY DEF Sound, Numbered
<1>15. Numbered'
  <2>1. ASSUME NEW d \in calls'
        PROVE  (d.n = NextCall /\ count'.calls = NextCall) \/ \E e \in calls : e.n = d.n /\ e.n # c.n
    <3>1. CASE d \in calls
      BY <1>4, <1>10, <3>1
    <3>2. CASE d \notin calls /\ o.sent
      BY <1>4, <1>5, <1>8, <3>2
    <3>3. CASE d \notin calls /\ ~o.sent
      <4>1. PICK e \in calls : e.n = d.n /\ e.kind = d.kind
        BY <1>4, <1>5, <3>3
      <4>2. d.kind = "open_session"
        BY <1>4, <1>5, <3>3
      <4> QED
        BY <1>10, <4>1, <4>2
    <3> QED
      BY <3>1, <3>2, <3>3
  <2>2. \A i \in DOMAIN replies' : replies'[i].n # c.n /\ \E e \in calls : e.n = replies'[i].n
    BY <1>10 DEF Sound, Numbered
  <2>3. \A d, e \in calls' : d.n = e.n => d = e
    BY <1>4, <1>5
  <2>4. \A e \in calls : e.n # c.n => \E d \in calls' : d.n = e.n
    BY <1>4, <1>5
  <2> QED
    BY <1>8, <1>10, <2>1, <2>2, <2>3, <2>4, NumberedStep
<1>16. OnePerSession'
  BY <1>4, <1>5, <1>6 DEF OnePerSession
<1>17. But(view', view, {"resume", "selection", "opens"})
  BY <1>7 DEF But
<1> QED
  BY <1>2, <1>6, <1>7, <1>13, <1>15, <1>16, <1>17 DEF Sound, o, v

\* The list of sessions has come: nothing is left to do, or the session remembered
\* takes the front, or is opened.
LEMMA ListAnsweredShape ==
  ASSUME Sound, ListAnswered
  PROVE  \E c \in calls :
           /\ Taking(c, "list_sessions") /\ Sound' /\ goal' = goal
           /\ \/ EndChange(c) /\ But(view', view, {"resume"})
              \/ EndChange(c) /\ view.selection = 0 /\ But(view', view, {"resume", "selection", "active"})
                 /\ view'.selection = 1
              \/ \E s \in AllSessions :
                   LET o == Opening(Selecting(view), s, 0)
                   IN /\ view.selection = 0 /\ view'.selection = 1 /\ But(view', view, {"resume", "selection", "opens"})
                      /\ view'.opens = o.opens /\ calls' = o.calls \ {c}
                      /\ count' = IF o.sent THEN Called(count) ELSE count
                      /\ change' = Advanced("resuming", change.target, change.generation, o.call)
<1> DEFINE w == change.target
           s == remembered[w.root]
           v == Selecting(view)
           o == Opening(v, s, 0)
<1>1. PICK c \in calls :
        /\ Taking(c, "list_sessions")
        /\ \/ EndChange(c) /\ ViewOnly
           \/ /\ view.selection = 0 /\ s # NoSession /\ EndChange(c)
              /\ view' = [view EXCEPT !.resume = NoSession]
              /\ remembered' = [remembered EXCEPT ![w.root] = NoSession] /\ UNCHANGED goal
           \/ /\ view.selection = 0 /\ s \in archive /\ EndChange(c)
              /\ view' = [v EXCEPT !.active = s] /\ UNCHANGED <<remembered, goal>>
           \/ /\ view.selection = 0 /\ s \in archive
              /\ view' = [v EXCEPT !.opens = o.opens]
              /\ calls' = o.calls \ {c} /\ count' = IF o.sent THEN Called(count) ELSE count
              /\ change' = Advanced("resuming", w, change.generation, o.call)
              /\ UNCHANGED <<remembered, goal>>
  BY DEF ListAnswered
<1>2. /\ view \in Views /\ remembered \in [Directories -> SomeSession] /\ goal \in SomeSession /\ NoSession \in SomeSession
      /\ w \in SomeWorkspace /\ change.generation \in Nat /\ archive \subseteq AllSessions
  BY DEF Sound, WorkspaceTypeOK, SomeSession
<1>3. But(v, view, {"resume", "selection"}) /\ v.selection = view.selection + 1 /\ v.opens = view.opens /\ v \in Views
  BY <1>2, SelectingShape DEF But, Fields
<1> HIDE DEF w, s, v, o
<1>4. CASE EndChange(c) /\ ViewOnly
  <2>1. But(view', view, {"resume"}) /\ view' \in Views /\ view'.opens \subseteq view.opens
        /\ remembered' \in [Directories -> SomeSession] /\ goal' = goal /\ goal' \in SomeSession
    BY <1>2, <1>4 DEF ViewOnly, But
  <2> QED
    BY <1>1, <1>4, <2>1, EndShape
<1>5. CASE /\ view.selection = 0 /\ s # NoSession /\ EndChange(c)
           /\ view' = [view EXCEPT !.resume = NoSession]
           /\ remembered' = [remembered EXCEPT ![w.root] = NoSession] /\ UNCHANGED goal
  <2>1. But(view', view, {"resume"})
    BY <1>2, <1>5, SetResume
  <2>2. view' \in Views /\ view'.opens \subseteq view.opens
        /\ remembered' \in [Directories -> SomeSession] /\ goal' = goal /\ goal' \in SomeSession
    BY <1>2, <1>5, <2>1 DEF But, Fields
  <2> QED
    BY <1>1, <1>5, <2>1, <2>2, EndShape
<1>6. CASE /\ view.selection = 0 /\ s \in archive /\ EndChange(c)
           /\ view' = [v EXCEPT !.active = s] /\ UNCHANGED <<remembered, goal>>
  <2>1. s \in SomeSession
    BY <1>2, <1>6 DEF SomeSession
  <2>2. But(view', v, {"active"})
    BY <1>3, <1>6, <2>1, SetActive
  <2>3. But(view', view, {"active"} \cup {"resume", "selection"}) /\ view'.selection = v.selection
    BY <1>3, <2>2, ButBut DEF But, Fields
  <2>4. But(view', view, {"resume", "selection", "active"}) /\ view'.selection = 1
    BY <1>3, <1>6, <2>3 DEF But
  <2>5. view' \in Views /\ view'.opens \subseteq view.opens
        /\ remembered' \in [Directories -> SomeSession] /\ goal' = goal /\ goal' \in SomeSession
    BY <1>2, <1>6, <2>4 DEF But, Fields
  <2> QED
    BY <1>1, <1>6, <2>4, <2>5, EndShape
<1>7. CASE /\ view.selection = 0 /\ s \in archive
           /\ view' = [v EXCEPT !.opens = o.opens]
           /\ calls' = o.calls \ {c} /\ count' = IF o.sent THEN Called(count) ELSE count
           /\ change' = Advanced("resuming", w, change.generation, o.call)
           /\ UNCHANGED <<remembered, goal>>
  <2>1. s \in AllSessions
    BY <1>2, <1>7
  <2>2. /\ Sound' /\ But(view', view, {"resume", "selection", "opens"}) /\ view'.selection = view.selection + 1
        /\ view'.opens = o.opens
    <3> USE DEF v, o
    <3> QED
      BY <1>1, <1>2, <1>7, <2>1, ResumedShape
  <2> QED
    BY <1>1, <1>7, <2>1, <2>2 DEF v, o, w
<1> QED
  BY <1>1, <1>4, <1>5, <1>6, <1>7

\* Types and numbers hold at the start, and every step keeps them.  That a change which
\* leaves a workspace knows where it goes is part of the sequence of its commands.
LEMMA SoundInit ==
  ASSUME WorkspaceAssumption, WorkspaceInit
  PROVE  Sound
<1>1. view \in Views
  BY DEF WorkspaceInit, Views, SomeWorkspace, SomeSession, NoSlot
<1>2. PeerFits(peer)
  BY NewHostFits DEF WorkspaceInit
<1>4. /\ change \in [op : {"none", "open", "close"}, step : Steps, target : SomeWorkspace, generation : Nat, call : Nat]
      /\ remembered \in [Directories -> SomeSession] /\ goal \in SomeSession /\ disturbed \in BOOLEAN
      /\ count \in Counts /\ archive \subseteq AllSessions
  BY DEF WorkspaceInit, NoChange, Steps, SomeWorkspace, SomeSession, Counts, WorkspaceAssumption
<1>5. changes = <<>> /\ replies = <<>> /\ events = <<>> /\ calls = {}
  BY DEF WorkspaceInit
<1>6. WorkspaceTypeOK
  <2>1. PeerTypes(peer)
    BY <1>2, PeersFit
  <2>2. OtherTypes
    BY <1>1, <1>4, <1>5 DEF OtherTypes
  <2> QED
    BY <2>1, <2>2, TypesSplit
<1> QED
  BY <1>5, <1>6 DEF Sound, Numbered, OnePerSession

LEMMA SoundStep ==
  ASSUME Sound, change.step = "leaving" => change.target \in Workspaces, [WorkspaceNext]_workspaceVars
  PROVE  Sound'
<1>1. ASSUME NEW root \in Directories, AskForWorkspace("open", root)
      PROVE  Sound'
  BY <1>1, AskForWorkspaceSound
<1>2. CASE AskForWorkspace("close", NoDirectory)
  <2>1. NoDirectory \notin Directories /\ NoDirectory \in Directories \cup {NoDirectory}
    BY DEF Sound, WorkspaceAssumption
  <2> QED
    BY <1>2, <2>1, AskForWorkspaceSound
<1>3. CASE NewSession
  BY <1>3, NewSessionSound
<1>4. ASSUME NEW s \in AllSessions, SelectTab(s) \/ OpenSession(s) \/ CloseTab(s)
      PROVE  Sound'
  BY <1>4, SelectTabSound, OpenSessionSound, CloseTabSound
<1>5. CASE StartChange
  BY <1>5, StartChangeSound
<1>6. CASE TakeEvent
  BY <1>6, TakeEventShape
<1>7. CASE AnswerNext
  <2>1. CASE OpenAnswered
    BY <2>1, OpenAnsweredShape
  <2>2. CASE CloseAnswered
    BY <2>2, CloseAnsweredShape
  <2>3. CASE ListAnswered
    BY <2>3, ListAnsweredShape
  <2>4. CASE SessionAnswered
    BY <2>4, SessionAnsweredShape
  <2>5. CASE CreateAnswered
    BY <2>5, CreateAnsweredShape
  <2>6. CASE TabAnswered
    BY <2>6, TabAnsweredShape
  <2> QED
    BY <1>7, <2>1, <2>2, <2>3, <2>4, <2>5, <2>6 DEF AnswerNext
<1>8. CASE Serve
  BY <1>8, ServeShape
<1>9. CASE Death
  BY <1>9, DeathShape
<1>10. ASSUME NEW s \in AllSessions, Resync(s)
       PROVE  Sound'
  BY <1>10, ResyncShape
<1>11. ASSUME NEW refused \in SUBSET Directories, NEW slow \in SUBSET Directories, NEW failed \in SUBSET AllSessions,
              BroughtBack(refused, slow, failed)
       PROVE  Sound'
  BY <1>11, BroughtBackShape
<1>13. CASE GiveUp \/ ServeLate
  BY <1>13, GiveUpShape, ServeLateShape
<1>14. ASSUME NEW roots \in SUBSET Directories, NEW sessions \in SUBSET AllSessions, RestoreDies(roots, sessions)
       PROVE  Sound'
  BY <1>14, RestoreDiesShape
<1>12. CASE UNCHANGED workspaceVars
  BY <1>12 DEF workspaceVars, Sound, WorkspaceTypeOK, Numbered, OnePerSession
<1> QED
  BY <1>1, <1>2, <1>3, <1>4, <1>5, <1>6, <1>7, <1>8, <1>9, <1>10, <1>11, <1>12, <1>13, <1>14
     DEF WorkspaceNext, ClickNext

-----------------------------------------------------------------------------
(* The latest choice. *)

\* Nothing new asks for a session; the generation and the selection stay.
LEMMA ChoiceSteady ==
  ASSUME Sound, ChoiceInv, ClickedFirst', Chosen', view'.generation = view.generation, view'.selection = view.selection,
         count'.clicks \in Nat, count'.clicks = count.clicks \/ count'.clicks = count.clicks + 1,
         goal' = goal \/ goal' = NoSession, \A d \in calls' : ShowsSession(d) => d \in calls
  PROVE  ChoiceInv'
<1>1. count.clicks \in Nat /\ \A d \in calls : \A w \in d.waiters : w.click \in Nat
  BY CountShape, WaitersFit DEF Sound
<1>2. ASSUME NEW c \in calls', ShowsSession(c)
      PROVE  AskedBefore(c)' /\ UnderSelection(c)' /\ LastToAsk(c)'
  <2>1. c \in calls /\ AskedBefore(c) /\ UnderSelection(c) /\ LastToAsk(c)
    BY <1>2 DEF ChoiceInv
  <2>2. AskedBefore(c)' /\ UnderSelection(c)'
    BY <1>1, <2>1 DEF AskedBefore, UnderSelection, Current
  <2>3. LastToAsk(c)'
    BY <2>1 DEF LastToAsk, Current
  <2> QED
    BY <2>2, <2>3
<1> QED
  BY <1>2 DEF ChoiceInv, ShowsSession

\* A new generation: nobody has asked in it.
LEMMA ChoiceRenewed ==
  ASSUME Sound, ChoiceInv, ClickedFirst', Chosen', view'.generation = view.generation + 1, count'.clicks = count.clicks,
         \A d \in calls' : ShowsSession(d) => d \in calls
  PROVE  ChoiceInv'
<1>1. view.generation \in Nat /\ \A d \in calls : \A w \in d.waiters : w.generation \in Nat
  BY ViewFits, WaitersFit DEF Sound
<1>2. ASSUME NEW c \in calls', ShowsSession(c)
      PROVE  AskedBefore(c)' /\ UnderSelection(c)' /\ LastToAsk(c)'
  <2>1. c \in calls /\ AskedBefore(c)
    BY <1>2 DEF ChoiceInv
  <2>2. AskedBefore(c)' /\ \A w \in c.waiters : w.generation # view'.generation
    BY <1>1, <2>1 DEF AskedBefore
  <2> QED
    BY <2>2 DEF UnderSelection, LastToAsk, Current
<1> QED
  BY <1>2 DEF ChoiceInv, ShowsSession

\* N has come to wait for the answer to command n, and nobody else for a session.
Joined(N, n) ==
  /\ \A w \in N : w.generation = view.generation /\ w.selection = view'.selection /\ w.click \in 0..count'.clicks
  /\ \A d \in calls' : ShowsSession(d) =>
       \A w \in d.waiters : (w \in N /\ d.n = n) \/ \E e \in calls : ShowsSession(e) /\ w \in e.waiters
  /\ goal' = NoSession \/ N = {}

Later ==
  /\ view'.generation = view.generation /\ view'.selection = view.selection + 1
  /\ count'.clicks = count.clicks + 1 \/ (count'.clicks = count.clicks /\ view.selection = 0)

\* A new selection, by a click or as the first one: whoever asked before is behind it.
LEMMA ChoiceMade ==
  ASSUME Sound, ChoiceInv, ClickedFirst', Chosen', Numbered', Later, NEW N, NEW n, Joined(N, n)
  PROVE  ChoiceInv'
<1>1. /\ count.clicks \in Nat /\ view.generation \in Nat /\ view.selection \in Nat
      /\ \A d \in calls : \A w \in d.waiters : w.click \in Nat /\ w.generation \in Nat
  <2>1. \A d \in calls : \A w \in d.waiters : w.click \in Nat /\ w.generation \in Nat
    BY WaitersFit DEF Sound
  <2>2. view \in Views
    BY DEF Sound, WorkspaceTypeOK
  <2> QED
    BY <2>1, <2>2, CountShape DEF Sound, Views
<1>0. /\ view'.generation = view.generation /\ view'.selection = view.selection + 1
      /\ count'.clicks = count.clicks + 1 \/ (count'.clicks = count.clicks /\ view.selection = 0)
      /\ \A w \in N : w.generation = view.generation /\ w.selection = view'.selection /\ w.click \in 0..count'.clicks
      /\ \A d \in calls' : ShowsSession(d) =>
           \A w \in d.waiters : (w \in N /\ d.n = n) \/ \E e \in calls : ShowsSession(e) /\ w \in e.waiters
      /\ goal' = NoSession \/ N = {}
  BY DEF Later, Joined
<1>2. ASSUME NEW e \in calls, ShowsSession(e), NEW w \in e.waiters
      PROVE  /\ w.generation <= view'.generation /\ w.click <= count'.clicks
             /\ w.generation = view.generation =>
                  w.selection \in 1..view.selection /\ w.click # count'.clicks /\ w.selection # view'.selection
  <2>1. AskedBefore(e) /\ UnderSelection(e)
    BY <1>2 DEF ChoiceInv
  <2>2. w.generation <= view.generation /\ w.click <= count.clicks
    BY <2>1 DEF AskedBefore
  <2>3. w.generation = view.generation => w.selection \in 1..view.selection
    BY <2>1 DEF UnderSelection, Current
  <2> QED
    BY <1>0, <1>1, <2>2, <2>3
<1>3. ASSUME NEW c \in calls', ShowsSession(c)
      PROVE  AskedBefore(c)' /\ UnderSelection(c)' /\ LastToAsk(c)'
  <2>1. AskedBefore(c)' /\ UnderSelection(c)'
    BY <1>0, <1>1, <1>2, <1>3 DEF AskedBefore, UnderSelection, Current
  <2>2. \A d \in calls' : ShowsSession(d) => \A w \in d.waiters :
            w.generation = view'.generation /\ w.selection = view'.selection => w \in N /\ d.n = n
    BY <1>0, <1>2
  <2>3. LastToAsk(c)'
    BY <1>0, <1>3, <2>2 DEF LastToAsk, Current, Numbered, ShowsSession
  <2> QED
    BY <2>1, <2>3
<1> QED
  BY <1>3 DEF ChoiceInv, ShowsSession

\* A session has come: it takes the front only for whoever asked last.
LEMMA ChoiceAnswered ==
  ASSUME Sound, ChoiceInv, ClickedFirst', NEW c \in calls, ShowsSession(c), Reaches(c), calls' = calls \ {c}, count' = count,
         view'.generation = view.generation, view'.selection = view.selection
  PROVE  ChoiceInv'
<1>1. UnderSelection(c) /\ LastToAsk(c) /\ Chosen
  BY DEF ChoiceInv
<1>2. view.selection \in Nat
  BY DEF Sound, WorkspaceTypeOK, Views
<1>3. \A w \in c.waiters : w.generation = view.generation => w \in Current(c) /\ w.selection \in 1..view.selection
                                                             /\ (w.click = count.clicks => w.selection = view.selection)
  BY <1>1 DEF UnderSelection, Current
<1>4. ASSUME goal' # NoSession
      PROVE  view'.active = goal' /\ view.selection > 0
  <2>1. CASE goal' = goal
    BY <1>1, <1>3, <1>4, <2>1 DEF Reaches, LastToAsk, Chosen
  <2>2. CASE goal' # goal
    BY <1>2, <1>3, <2>2 DEF Reaches
  <2> QED
    BY <2>1, <2>2
<1>5. ASSUME NEW d \in calls, d # c, ShowsSession(d)
      PROVE  AskedBefore(d)' /\ UnderSelection(d)' /\ LastToAsk(d)'
  <2>1. AskedBefore(d) /\ UnderSelection(d) /\ LastToAsk(d)
    BY <1>5 DEF ChoiceInv
  <2>2. AskedBefore(d)' /\ UnderSelection(d)'
    BY <2>1 DEF AskedBefore, UnderSelection, Current
  <2>3. ASSUME NEW w \in Current(d), w.selection = view.selection
        PROVE  goal' = NoSession
    <3>1. goal = NoSession /\ ~\E x \in Current(c) : x.selection = view.selection
      BY <1>5, <2>1, <2>3 DEF LastToAsk
    <3> QED
      BY <1>3, <3>1 DEF Reaches
  <2>4. LastToAsk(d)'
    BY <2>1, <2>3 DEF LastToAsk, Current
  <2> QED
    BY <2>2, <2>4
<1>6. Chosen'
  BY <1>4 DEF Chosen
<1> QED
  BY <1>5, <1>6 DEF ChoiceInv, ShowsSession

\* Nothing is under way before the first click.
LEMMA ClickedStep ==
  ASSUME Sound, change.step = "leaving" => change.target \in Workspaces, ClickedFirst, [WorkspaceNext]_workspaceVars
  PROVE  ClickedFirst' /\ count'.clicks \in Nat /\ (count'.clicks = count.clicks \/ count'.clicks = count.clicks + 1)
<1> DEFINE Same == count'.clicks = count.clicks
           More == count'.clicks = count.clicks + 1
<1>1. count.clicks \in Nat /\ Clicked.clicks = count.clicks + 1 /\ Called(count).clicks = count.clicks
      /\ Called(Clicked).clicks = count.clicks + 1
  BY CountShape DEF Sound
<1>2. \A c \in calls : count.clicks # 0
  BY DEF ClickedFirst
<1>3. CASE ClickNext
  <2>1. More
    BY <1>1, <1>3 DEF ClickNext, AskForWorkspace, NewSession, SelectTab, OpenSession, CloseTab
  <2> QED
    BY <1>1, <2>1 DEF ClickedFirst
<1>4. CASE StartChange
  <2>1. Same /\ count.clicks # 0
    BY <1>1, <1>4 DEF StartChange, ClickedFirst
  <2> QED
    BY <1>1, <2>1 DEF ClickedFirst
<1>5. CASE TakeEvent
  BY <1>1, <1>5, TakeEventShape DEF ClickedFirst
<1>6. CASE AnswerNext
  <2>1. Same /\ \E c \in calls : TRUE
    <3>1. CASE OpenAnswered
      BY <1>1, <3>1 DEF OpenAnswered, EndChange, NoFollow, Follow, Adopt
    <3>2. CASE CloseAnswered
      BY <1>1, <3>2 DEF CloseAnswered, EndChange, NoFollow, Follow, Adopt
    <3>3. CASE ListAnswered
      BY <1>1, <3>3 DEF ListAnswered, EndChange, NoFollow
    <3>4. CASE SessionAnswered \/ CreateAnswered \/ TabAnswered
      BY <3>4 DEF SessionAnswered, CreateAnswered, TabAnswered, NoFollow
    <3> QED
      BY <1>6, <3>1, <3>2, <3>3, <3>4 DEF AnswerNext
  <2> QED
    BY <1>1, <1>2, <2>1 DEF ClickedFirst
<1>7. CASE Serve
  <2>1. Same
    BY <1>7, ServeShape, ServeOpenShape
  <2> QED
    BY <1>1, <1>7, <2>1, ServeShape DEF ClickedFirst, HostOnly
<1>8. CASE Death
  BY <1>1, <1>8, DeathShape DEF ClickedFirst, HostOnly
<1>9. ASSUME NEW s \in AllSessions, Resync(s)
      PROVE  UNCHANGED <<calls, changes>> /\ Same
  BY <1>9, ResyncShape DEF HostOnly
<1>12. CASE GiveUp \/ ServeLate
  <2>1. Same /\ UNCHANGED <<calls, changes>>
    BY <1>12, GiveUpShape, ServeLateShape DEF HostOnly
  <2> QED
    BY <1>1, <2>1 DEF ClickedFirst
<1>13. ASSUME NEW roots \in SUBSET Directories, NEW sessions \in SUBSET AllSessions, RestoreDies(roots, sessions)
       PROVE  UNCHANGED <<calls, changes>> /\ Same
  BY <1>13, RestoreDiesShape DEF HostOnly
<1>10. ASSUME NEW refused \in SUBSET Directories, NEW slow \in SUBSET Directories, NEW failed \in SUBSET AllSessions,
              BroughtBack(refused, slow, failed)
       PROVE  UNCHANGED <<calls, changes>> /\ Same
  BY <1>10, BroughtBackShape DEF HostOnly
<1>11. CASE UNCHANGED workspaceVars
  BY <1>1, <1>11 DEF workspaceVars, ClickedFirst
<1> QED
  BY <1>1, <1>3, <1>4, <1>5, <1>6, <1>7, <1>8, <1>9, <1>10, <1>11, <1>12, <1>13 DEF WorkspaceNext, ClickedFirst

LEMMA ChoiceClick ==
  ASSUME Sound, ChoiceInv, ClickedFirst', count'.clicks \in Nat, ClickNext
  PROVE  ChoiceInv'
<1>1. Chosen /\ view \in Views /\ view.selection \in Nat /\ view.generation \in Nat
  BY DEF ChoiceInv, Sound, WorkspaceTypeOK, Views
<1>2. count.clicks \in Nat /\ Clicked.clicks = count.clicks + 1 /\ Called(Clicked).clicks = count.clicks + 1
      /\ Clicked.clicks \in Nat
  BY CountShape DEF Sound, Counts
<1>3. ASSUME NEW op, NEW root, AskForWorkspace(op, root)
      PROVE  ChoiceInv'
  <2>1. UNCHANGED <<view, calls, goal>> /\ count'.clicks = count.clicks + 1
    BY <1>2, <1>3 DEF AskForWorkspace
  <2>2. Chosen'
    BY <1>1, <2>1 DEF Chosen
  <2> QED
    BY <1>2, <2>1, <2>2, ChoiceSteady
<1>4. CASE NewSession
  <2>1. goal' = NoSession
    BY <1>4 DEF NewSession
  <2>2. Chosen'
    BY <2>1 DEF Chosen
  <2>3. CASE UNCHANGED <<view, calls>> /\ count' = Clicked
    BY <1>2, <2>1, <2>2, <2>3, ChoiceSteady
  <2>4. CASE ~(UNCHANGED <<view, calls>> /\ count' = Clicked)
    <3>1. /\ Sound' /\ But(view', view, {"resume", "selection", "starting", "start"}) /\ view'.selection = view.selection + 1
          /\ count' = Called(Clicked)
          /\ \E ask \in Asks : /\ calls' = calls \cup {ask} /\ ask.n = NextCall /\ ask.kind = "create_session"
                               /\ \A w \in ask.waiters :
                                    /\ w.generation = view'.generation /\ w.selection = view'.selection
                                    /\ w.click = Clicked.clicks
      BY <1>4, <2>4, NewSessionSound
    <3>2. PICK ask \in Asks :
            /\ calls' = calls \cup {ask} /\ ask.n = NextCall
            /\ \A w \in ask.waiters :
                 w.generation = view'.generation /\ w.selection = view'.selection /\ w.click = Clicked.clicks
      BY <3>1
    <3>3. view'.generation = view.generation
      BY <3>1 DEF But, Fields
    <3>4. \A w \in ask.waiters :
            w.generation = view.generation /\ w.selection = view'.selection /\ w.click \in 0..count'.clicks
      BY <1>2, <3>1, <3>2, <3>3
    <3>5. \A d \in calls' : ShowsSession(d) =>
            \A w \in d.waiters : (w \in ask.waiters /\ d.n = NextCall) \/ \E e \in calls : ShowsSession(e) /\ w \in e.waiters
      BY <3>2
    <3>6. count'.clicks = count.clicks + 1 /\ Numbered'
      BY <1>2, <3>1 DEF Sound
    <3>7. Joined(ask.waiters, NextCall) /\ Later
      BY <2>1, <3>1, <3>3, <3>4, <3>5, <3>6 DEF Joined, Later
    <3> QED
      BY <2>2, <3>6, <3>7, ChoiceMade
  <2> QED
    BY <2>3, <2>4
<1>5. ASSUME NEW s \in AllSessions, SelectTab(s)
      PROVE  ChoiceInv'
  <2>1. goal' = s /\ count'.clicks = count.clicks + 1 /\ UNCHANGED calls
    BY <1>2, <1>5 DEF SelectTab
  <2>2. /\ Numbered' /\ view'.generation = view.generation /\ view'.selection = view.selection + 1 /\ view'.active = s
    BY <1>5, SelectTabSound DEF Sound
  <2>3. Chosen'
    BY <1>1, <2>1, <2>2 DEF Chosen
  <2>4. \A d \in calls' : ShowsSession(d) =>
          \A w \in d.waiters : (w \in {} /\ d.n = 0) \/ \E e \in calls : ShowsSession(e) /\ w \in e.waiters
    BY <2>1
  <2>5. Joined({}, 0) /\ Later
    BY <2>1, <2>2, <2>4 DEF Joined, Later
  <2> QED
    BY <2>2, <2>3, <2>5, ChoiceMade
<1>6. ASSUME NEW s \in AllSessions, OpenSession(s)
      PROVE  ChoiceInv'
  <2> DEFINE v == Selecting(view)
             o == Opening(v, s, Clicked.clicks)
             w == Waiter(v, Clicked.clicks)
  <2>1. /\ Sound' /\ But(view', view, {"resume", "selection", "opens"}) /\ view'.selection = view.selection + 1
        /\ calls' = o.calls /\ count' = (IF o.sent THEN Called(Clicked) ELSE Clicked) /\ goal' = NoSession
    <3>1. goal' = NoSession
      BY <1>6 DEF OpenSession
    <3> QED
      BY <1>6, <3>1, OpenSessionSound
  <2>2. v \in Views /\ v.opens = view.opens /\ v.generation = view.generation /\ v.selection = view.selection + 1
    BY <1>1, SelectingShape DEF But, Fields
  <2> HIDE DEF v
  <2>3. \A d \in o.calls :
          d \in calls \/ (d.n = o.call /\ d.kind = "open_session"
                          /\ \A x \in d.waiters : x = w \/ \E e \in calls : e.n = d.n /\ e.kind = d.kind /\ x \in e.waiters)
    BY <1>2, <2>2, OpeningShape DEF Sound
  <2>4. w.generation = view.generation /\ w.selection = view.selection + 1 /\ w.click = Clicked.clicks
    BY <1>2, <2>2, WaiterShape
  <2> HIDE DEF o, w
  <2>5. count'.clicks = count.clicks + 1 /\ Numbered' /\ view'.generation = view.generation /\ w.click \in 0..count'.clicks
        /\ w.selection = view'.selection
    BY <1>2, <2>1, <2>4 DEF Sound, But, Fields
  <2>6. \A d \in calls' : ShowsSession(d) =>
          \A x \in d.waiters : (x \in {w} /\ d.n = o.call) \/ \E e \in calls : ShowsSession(e) /\ x \in e.waiters
    BY <2>1, <2>3 DEF ShowsSession
  <2>7. Chosen'
    BY <2>1 DEF Chosen
  <2>8. \A x \in {w} : x.generation = view.generation /\ x.selection = view'.selection /\ x.click \in 0..count'.clicks
    BY <2>4, <2>5
  <2>9. Joined({w}, o.call) /\ Later
    BY <2>1, <2>5, <2>6, <2>8 DEF Joined, Later
  <2> QED
    BY <2>5, <2>7, <2>9, ChoiceMade
<1>7. ASSUME NEW s \in AllSessions, CloseTab(s)
      PROVE  ChoiceInv'
  <2>1. /\ Sound' /\ But(view', view, {"resume", "selection"}) /\ count'.clicks = count.clicks + 1
        /\ IF view.active = s THEN view'.selection = view.selection + 1 /\ goal' = NoSession
           ELSE view' = view /\ goal' = goal
        /\ \A d \in calls' : ShowsSession(d) => d \in calls
    BY <1>2, <1>7, CloseTabSound DEF ShowsSession
  <2>2. view'.generation = view.generation /\ Numbered'
    BY <2>1 DEF But, Fields, Sound
  <2>3. CASE view.active = s
    <3>1. Chosen'
      BY <2>1, <2>3 DEF Chosen
    <3>2. \A d \in calls' : ShowsSession(d) =>
            \A w \in d.waiters : (w \in {} /\ d.n = 0) \/ \E e \in calls : ShowsSession(e) /\ w \in e.waiters
      BY <2>1
    <3>3. Joined({}, 0) /\ Later
      BY <2>1, <2>2, <2>3, <3>2 DEF Joined, Later
    <3> QED
      BY <2>2, <3>1, <3>3, ChoiceMade
  <2>4. CASE view.active # s
    <3>1. Chosen'
      BY <1>1, <2>1, <2>4 DEF Chosen
    <3> QED
      BY <2>1, <2>2, <2>4, <3>1, ChoiceSteady
  <2> QED
    BY <2>3, <2>4
<1> QED
  BY <1>3, <1>4, <1>5, <1>6, <1>7 DEF ClickNext

LEMMA ChoiceReplaced ==
  ASSUME Sound, ChoiceInv, ClickedFirst', NEW w \in SomeWorkspace, view' = Replaced(view, w), goal' = NoSession,
         count'.clicks = count.clicks, \A d \in calls' : ShowsSession(d) => d \in calls
  PROVE  ChoiceInv'
<1>1. view'.generation = view.generation + 1
  BY ReplacedShape DEF Sound
<1>2. Chosen'
  BY DEF Chosen
<1> QED
  BY <1>1, <1>2, ChoiceRenewed

LEMMA ChoiceKept ==
  ASSUME Sound, ChoiceInv, ClickedFirst', UNCHANGED <<view, goal>>, count'.clicks = count.clicks,
         \A d \in calls' : ShowsSession(d) => d \in calls
  PROVE  ChoiceInv'
<1>1. Chosen' /\ count.clicks \in Nat
  BY CountShape DEF Chosen, ChoiceInv, Sound
<1> QED
  BY <1>1, ChoiceSteady

LEMMA ChoiceEvent ==
  ASSUME Sound, ChoiceInv, ClickedFirst', TakeEvent
  PROVE  ChoiceInv'
<1> DEFINE w == events[1].workspace
<1>1. /\ events[1] \in Events /\ UNCHANGED <<calls, count>> /\ goal' = (IF view'.tabs = {} THEN NoSession ELSE goal)
      /\ \/ Tells(events[1]) /\ view' = OnWorkspace(view, w)
         \/ But(view', view, {"tabs", "active", "resume"}) /\ (view'.active = view.active \/ view.selection = 0)
  BY TakeEventShape
<1>2. w \in Workspaces /\ w \in SomeWorkspace /\ count.clicks \in Nat /\ Chosen
  BY <1>1, CountShape DEF Events, Sound, SomeWorkspace, ChoiceInv
<1> HIDE DEF w
<1>3. CASE view' = OnWorkspace(view, w)
  <2>1. CASE view' = view
    <3>1. Chosen'
      BY <1>1, <1>2, <2>1 DEF Chosen
    <3> QED
      BY <1>1, <1>2, <2>1, <3>1, ChoiceSteady
  <2>2. CASE But(view', view, {"workspace", "generation", "start", "opens"}) /\ view'.generation = view.generation + 1
    <3>1. Chosen'
      BY <1>1, <1>2, <2>2 DEF Chosen, But, Fields
    <3> QED
      BY <1>1, <2>2, <3>1, ChoiceRenewed
  <2>3. CASE view' = Replaced(view, w)
    <3>1. view'.tabs = {}
      BY <1>2, <2>3, ReplacedShape DEF Sound
    <3> QED
      BY <1>1, <1>2, <2>3, <3>1, ChoiceReplaced
  <2> QED
    BY <1>2, <1>3, <2>1, <2>2, <2>3, OnWorkspaceShape DEF Sound
<1>4. CASE But(view', view, {"tabs", "active", "resume"}) /\ (view'.active = view.active \/ view.selection = 0)
  <2>1. view'.generation = view.generation /\ view'.selection = view.selection
    BY <1>4 DEF But, Fields
  <2>2. Chosen'
    BY <1>1, <1>2, <1>4, <2>1 DEF Chosen
  <2> QED
    BY <1>1, <1>2, <2>1, <2>2, ChoiceSteady
<1> QED
  BY <1>1, <1>3, <1>4

LEMMA ChoiceList ==
  ASSUME Sound, ChoiceInv, ClickedFirst', ListAnswered
  PROVE  ChoiceInv'
<1>1. Chosen /\ view.generation \in Nat /\ view.selection \in Nat /\ view \in Views
      /\ count.clicks \in Nat /\ Called(count).clicks = count.clicks
  BY CountShape DEF ChoiceInv, Sound, WorkspaceTypeOK, Views
<1>2. PICK c \in calls :
        /\ Taking(c, "list_sessions") /\ Sound' /\ goal' = goal
        /\ \/ EndChange(c) /\ But(view', view, {"resume"})
           \/ EndChange(c) /\ view.selection = 0 /\ But(view', view, {"resume", "selection", "active"})
              /\ view'.selection = 1
           \/ \E s \in AllSessions :
                LET o == Opening(Selecting(view), s, 0)
                IN /\ view.selection = 0 /\ view'.selection = 1 /\ But(view', view, {"resume", "selection", "opens"})
                   /\ calls' = o.calls \ {c} /\ count' = IF o.sent THEN Called(count) ELSE count
  BY ListAnsweredShape
<1>3. CASE EndChange(c) /\ But(view', view, {"resume"})
  <2>1. view'.generation = view.generation /\ view'.selection = view.selection /\ view'.active = view.active
    BY <1>3 DEF But, Fields
  <2>2. Chosen' /\ calls' \subseteq calls /\ count' = count
    BY <1>1, <1>2, <1>3, <2>1 DEF Chosen, EndChange, NoFollow
  <2> QED
    BY <1>1, <1>2, <2>1, <2>2, ChoiceSteady
<1>4. ASSUME view.selection = 0
      PROVE  goal' = NoSession /\ Chosen'
  BY <1>1, <1>2, <1>4 DEF Chosen
<1>5. CASE EndChange(c) /\ view.selection = 0 /\ But(view', view, {"resume", "selection", "active"}) /\ view'.selection = 1
  <2>1. view'.generation = view.generation /\ view'.selection = view.selection + 1 /\ Numbered'
    BY <1>2, <1>5 DEF But, Fields, Sound
  <2>2. calls' \subseteq calls /\ count' = count
    BY <1>5 DEF EndChange, NoFollow
  <2>3. \A d \in calls' : ShowsSession(d) =>
          \A w \in d.waiters : (w \in {} /\ d.n = 0) \/ \E e \in calls : ShowsSession(e) /\ w \in e.waiters
    BY <2>2
  <2>4. Joined({}, 0) /\ Later
    BY <1>4, <1>5, <2>1, <2>2, <2>3 DEF Joined, Later
  <2> QED
    BY <1>4, <1>5, <2>1, <2>4, ChoiceMade
<1>6. ASSUME NEW s \in AllSessions,
             LET o == Opening(Selecting(view), s, 0)
             IN /\ view.selection = 0 /\ view'.selection = 1 /\ But(view', view, {"resume", "selection", "opens"})
                /\ calls' = o.calls \ {c} /\ count' = IF o.sent THEN Called(count) ELSE count
      PROVE  ChoiceInv'
  <2> DEFINE v == Selecting(view)
             o == Opening(v, s, 0)
             w == Waiter(v, 0)
  <2>1. v \in Views /\ v.opens = view.opens /\ v.generation = view.generation /\ v.selection = view.selection + 1
    BY <1>1, SelectingShape DEF But, Fields
  <2>2. /\ view.selection = 0 /\ view'.selection = 1 /\ But(view', view, {"resume", "selection", "opens"})
        /\ calls' = o.calls \ {c} /\ count' = (IF o.sent THEN Called(count) ELSE count)
    BY <1>6
  <2> HIDE DEF v
  <2>3. \A d \in o.calls :
          d \in calls \/ (d.n = o.call /\ d.kind = "open_session"
                          /\ \A x \in d.waiters : x = w \/ \E e \in calls : e.n = d.n /\ e.kind = d.kind /\ x \in e.waiters)
    BY <2>1, OpeningShape DEF Sound
  <2>4. w.generation = view.generation /\ w.selection = view.selection + 1 /\ w.click = 0
    BY <2>1, WaiterShape
  <2> HIDE DEF o, w
  <2>5. count'.clicks = count.clicks /\ Numbered' /\ view'.generation = view.generation /\ w.click \in 0..count'.clicks
        /\ w.selection = view'.selection /\ view'.selection = view.selection + 1
    BY <1>1, <1>2, <2>2, <2>4 DEF Sound, But, Fields
  <2>6. \A d \in calls' : ShowsSession(d) =>
          \A x \in d.waiters : (x \in {w} /\ d.n = o.call) \/ \E e \in calls : ShowsSession(e) /\ x \in e.waiters
    BY <2>2, <2>3 DEF ShowsSession
  <2>7. \A x \in {w} : x.generation = view.generation /\ x.selection = view'.selection /\ x.click \in 0..count'.clicks
    BY <2>4, <2>5
  <2>8. Joined({w}, o.call) /\ Later
    BY <1>4, <2>2, <2>5, <2>6, <2>7 DEF Joined, Later
  <2> QED
    BY <1>4, <2>2, <2>5, <2>8, ChoiceMade
<1> QED
  BY <1>2, <1>3, <1>5, <1>6

LEMMA ChoiceAnswer ==
  ASSUME Sound, change.step = "leaving" => change.target \in Workspaces, ChoiceInv, ClickedFirst', AnswerNext
  PROVE  ChoiceInv'
<1>1. ASSUME NEW c \in calls, EndChange(c)
      PROVE  (\A d \in calls' : ShowsSession(d) => d \in calls) /\ count'.clicks = count.clicks
  BY <1>1 DEF EndChange, NoFollow
<1>2. ASSUME NEW c \in calls, NEW kind, Taking(c, kind), NEW w \in Workspaces, Adopt(c, w)
      PROVE  ChoiceInv'
  <2>1. /\ view' = Replaced(view, w) /\ goal' = NoSession /\ count'.clicks = count.clicks
        /\ \A d \in calls' : ShowsSession(d) => d \in calls
    BY <1>2, AdoptShape DEF ShowsSession
  <2> QED
    BY <2>1, ChoiceReplaced DEF SomeWorkspace
<1>3. ASSUME NEW c \in calls, NEW w, Follow(c, CloseWorkspace(w))
      PROVE  (\A d \in calls' : ShowsSession(d) => d \in calls) /\ count'.clicks = count.clicks
  <2>1. CloseWorkspace(w).kind = "close_workspace" /\ Called(count).clicks = count.clicks
    BY CountShape DEF CloseWorkspace, Command, Sound
  <2> QED
    BY <1>3, <2>1 DEF Follow, ShowsSession
<1>4. CASE OpenAnswered
  BY <1>1, <1>2, <1>3, <1>4, OpenAnsweredShape, ChoiceKept DEF ViewOnly
<1>5. CASE CloseAnswered
  <2>1. NoWorkspace \in SomeWorkspace
    BY DEF SomeWorkspace
  <2> QED
    BY <1>1, <1>2, <1>3, <1>5, <2>1, CloseAnsweredShape, ChoiceKept, ChoiceReplaced DEF ViewOnly
<1>6. CASE ListAnswered
  BY <1>6, ChoiceList
<1>7. CASE SessionAnswered
  <2>1. PICK c \in calls : /\ Taking(c, "open_session") /\ calls' = calls \ {c} /\ count' = count /\ Reaches(c)
                           /\ But(view', view, {"opens", "tabs", "active"})
    BY <1>7, SessionAnsweredShape
  <2>2. view'.generation = view.generation /\ view'.selection = view.selection /\ ShowsSession(c)
    BY <2>1 DEF But, Fields, Taking, ShowsSession
  <2> QED
    BY <2>1, <2>2, ChoiceAnswered
<1>8. CASE CreateAnswered
  <2>1. PICK c \in calls : /\ Taking(c, "create_session") /\ calls' = calls \ {c} /\ count' = count /\ Reaches(c)
                           /\ But(view', view, {"start", "starting", "tabs", "active"})
    BY <1>8, CreateAnsweredShape
  <2>2. view'.generation = view.generation /\ view'.selection = view.selection /\ ShowsSession(c)
    BY <2>1 DEF But, Fields, Taking, ShowsSession
  <2> QED
    BY <2>1, <2>2, ChoiceAnswered
<1>9. CASE TabAnswered
  <2>1. /\ calls' \subseteq calls /\ count' = count
        /\ But(view', view, {"tabs", "active"}) /\ goal' \in {goal, NoSession}
        /\ goal' # NoSession /\ view'.active # view.active => goal # view.active
    BY <1>9, TabAnsweredShape
  <2>2. view'.generation = view.generation /\ view'.selection = view.selection
    BY <2>1 DEF But, Fields
  <2>3. Chosen' /\ count.clicks \in Nat
    BY <2>1, <2>2, CountShape DEF Chosen, ChoiceInv, Sound
  <2> QED
    BY <2>1, <2>2, <2>3, ChoiceSteady
<1> QED
  BY <1>4, <1>5, <1>6, <1>7, <1>8, <1>9 DEF AnswerNext

LEMMA ChoiceInit ==
  ASSUME WorkspaceInit
  PROVE  ChoiceInv
  BY DEF WorkspaceInit, ChoiceInv, ClickedFirst, Chosen

LEMMA ChoiceStep ==
  ASSUME Sound, change.step = "leaving" => change.target \in Workspaces, ChoiceInv, [WorkspaceNext]_workspaceVars
  PROVE  ChoiceInv'
<1>1. ClickedFirst' /\ count'.clicks \in Nat /\ count.clicks \in Nat /\ Called(count).clicks = count.clicks
  BY ClickedStep, CountShape DEF ChoiceInv, Sound
<1>2. CASE ClickNext
  BY <1>1, <1>2, ChoiceClick
<1>3. CASE StartChange
  <2>1. UNCHANGED <<view, goal>> /\ count'.clicks = count.clicks
    BY <1>1, <1>3 DEF StartChange
  <2>2. \A d \in calls' : ShowsSession(d) => d \in calls
    BY <1>3 DEF StartChange, OpenWorkspace, CloseWorkspace, Command, ShowsSession
  <2> QED
    BY <1>1, <2>1, <2>2, ChoiceKept
<1>4. CASE TakeEvent
  BY <1>1, <1>4, ChoiceEvent
<1>5. CASE AnswerNext
  BY <1>1, <1>5, ChoiceAnswer
<1>6. CASE Serve
  <2>1. count'.clicks = count.clicks /\ UNCHANGED <<view, goal, calls>>
    BY <1>6, ServeShape, ServeOpenShape DEF HostOnly
  <2> QED
    BY <1>1, <2>1, ChoiceKept
<1>7. CASE Death
  BY <1>1, <1>7, DeathShape, ChoiceKept DEF HostOnly
<1>8. ASSUME NEW s \in AllSessions, Resync(s)
      PROVE  ChoiceInv'
  BY <1>1, <1>8, ResyncShape, ChoiceKept DEF HostOnly
<1>11. CASE GiveUp \/ ServeLate
  <2>1. count'.clicks = count.clicks /\ UNCHANGED <<view, goal, calls>>
    BY <1>11, GiveUpShape, ServeLateShape DEF HostOnly
  <2> QED
    BY <1>1, <2>1, ChoiceKept
<1>12. ASSUME NEW roots \in SUBSET Directories, NEW sessions \in SUBSET AllSessions, RestoreDies(roots, sessions)
       PROVE  ChoiceInv'
  BY <1>1, <1>12, RestoreDiesShape, ChoiceKept DEF HostOnly
<1>9. ASSUME NEW refused \in SUBSET Directories, NEW slow \in SUBSET Directories, NEW failed \in SUBSET AllSessions,
             BroughtBack(refused, slow, failed)
      PROVE  ChoiceInv'
  BY <1>1, <1>9, BroughtBackShape, ChoiceKept DEF HostOnly
<1>10. CASE UNCHANGED workspaceVars
  BY <1>1, <1>10, ChoiceKept DEF workspaceVars
<1> QED
  BY <1>2, <1>3, <1>4, <1>5, <1>6, <1>7, <1>8, <1>9, <1>10, <1>11, <1>12 DEF WorkspaceNext

\* A change that leaves a workspace knows the one it goes to.
LEMMA LeavesKnownStep ==
  ASSUME Sound, LeavesKnown, [WorkspaceNext]_workspaceVars
  PROVE  LeavesKnown'
<1>1. CASE UNCHANGED change
  BY <1>1 DEF LeavesKnown
<1>2. CASE StartChange
  <2>1. change' = change \/ change'.step = "asked"
    BY <1>2 DEF StartChange
  <2> QED
    BY <2>1 DEF LeavesKnown
<1>3. CASE OpenAnswered
  <2>1. PICK c \in calls :
          LET w == Heard.value.workspace
          IN /\ w \in SomeWorkspace
             /\ \/ EndChange(c)
                \/ w # NoWorkspace /\ change' = Advanced("leaving", w, change.generation, NextCall)
                \/ Adopt(c, w)
    BY <1>3, OpenAnsweredShape
  <2>2. Heard.value.workspace # NoWorkspace => Heard.value.workspace \in Workspaces
    BY <2>1 DEF SomeWorkspace
  <2> QED
    BY <2>1, <2>2 DEF LeavesKnown, EndChange, NoChange, Adopt, Advanced
<1>4. CASE CloseAnswered
  <2>1. change'.step # "leaving"
    <3>1. ASSUME NEW c, NEW w, Adopt(c, w) \/ EndChange(c) \/ change' = Advanced("rolling back", w, change.generation, NextCall)
          PROVE  change'.step # "leaving"
      <4>1. \A to, target, gen, call : Advanced(to, target, gen, call).step = to
        BY DEF Advanced
      <4>2. CASE Adopt(c, w)
        BY <4>1, <4>2 DEF Adopt
      <4>3. CASE EndChange(c)
        BY <4>3 DEF EndChange, NoChange
      <4>4. CASE change' = Advanced("rolling back", w, change.generation, NextCall)
        BY <4>4 DEF Advanced
      <4> QED
        BY <3>1, <4>2, <4>3, <4>4
    <3> QED
      BY <1>4, <3>1 DEF CloseAnswered
  <2> QED
    BY <2>1 DEF LeavesKnown
<1>5. CASE ListAnswered
  <2>1. change'.step # "leaving"
    BY <1>5 DEF ListAnswered, EndChange, NoChange, Advanced
  <2> QED
    BY <2>1 DEF LeavesKnown
<1>6. CASE SessionAnswered
  <2>1. change' = change \/ change'.step # "leaving"
    BY <1>6 DEF SessionAnswered, NoChange
  <2> QED
    BY <2>1 DEF LeavesKnown
<1>7. CASE CreateAnswered \/ TabAnswered \/ Serve \/ GiveUp \/ ServeLate \/ Death \/ TakeEvent
         \/ UNCHANGED workspaceVars
  <2>1. change' = change
    BY <1>7 DEF CreateAnswered, TabAnswered, Serve, GiveUp, ServeLate, Death, TakeEvent, workspaceVars, HostOnly
  <2> QED
    BY <2>1 DEF LeavesKnown
<1>8. CASE ClickNext
  <2>1. change' = change
    BY <1>8 DEF ClickNext, AskForWorkspace, NewSession, SelectTab, OpenSession, CloseTab
  <2> QED
    BY <2>1 DEF LeavesKnown
<1>9. CASE \/ \E s \in AllSessions : Resync(s)
           \/ \E refused, slow \in SUBSET Directories, failed \in SUBSET AllSessions : BroughtBack(refused, slow, failed)
           \/ \E roots \in SUBSET Directories, sessions \in SUBSET AllSessions : RestoreDies(roots, sessions)
  <2>1. change' = change
    BY <1>9 DEF Resync, BroughtBack, RestoreDies, HostOnly
  <2> QED
    BY <2>1 DEF LeavesKnown
<1> QED
  BY <1>2, <1>3, <1>4, <1>5, <1>6, <1>7, <1>8, <1>9 DEF WorkspaceNext, AnswerNext

NavInv == Sound /\ LeavesKnown /\ ChoiceInv

LEMMA NavInvariant == WorkspaceSpec => []NavInv
<1>1. WorkspaceInit => NavInv
  <2> SUFFICES ASSUME WorkspaceInit
               PROVE  NavInv
    OBVIOUS
  <2>1. Sound /\ ChoiceInv
    BY WorkspaceAssumption, SoundInit, ChoiceInit
  <2>2. LeavesKnown
    BY DEF LeavesKnown, WorkspaceInit, NoChange
  <2> QED
    BY <2>1, <2>2 DEF NavInv
<1>2. NavInv /\ [WorkspaceNext]_workspaceVars => NavInv'
  BY SoundStep, LeavesKnownStep, ChoiceStep DEF NavInv, LeavesKnown
<1> QED
  BY <1>1, <1>2, PTL DEF WorkspaceSpec

\* The store, the host and all that is between them have their types; every command is
\* answered once, and one at most is under way for a session (session-store.ts #openSession).
THEOREM NavigationTypes == WorkspaceSpec => []WorkspaceTypeOK
<1>1. NavInv => WorkspaceTypeOK
  BY DEF NavInv, Sound
<1> QED
  BY <1>1, NavInvariant, PTL

\* Navigation belongs to the person's latest action (session-store.ts #beginSelection).
THEOREM LatestChoiceHolds == WorkspaceSpec => []LatestChoice
<1>1. NavInv => LatestChoice
  BY DEF NavInv, ChoiceInv, Chosen, LatestChoice
<1> QED
  BY <1>1, NavInvariant, PTL

-----------------------------------------------------------------------------
(* The commands of a change, one by one. *)

LEMMA Kinds ==
  ASSUME NEW op \in {"none", "open", "close"}, NEW step \in Steps, op = "none" <=> step = "none"
  PROVE  /\ KindOf(op, step) = "open_workspace" <=> step = "asked" /\ op = "open"
         /\ KindOf(op, step) = "close_workspace" <=> (step = "asked" /\ op = "close") \/ step \in {"leaving", "rolling back"}
         /\ KindOf(op, step) = "list_sessions" <=> step = "listing"
         /\ KindOf(op, step) = "open_session" <=> step = "resuming"
         /\ KindOf(op, step) \notin {"create_session", "close_session"}
  BY DEF KindOf, Steps

\* What a change waits for.
LEMMA Awaited ==
  ASSUME Sound, OneByOne
  PROVE  /\ change.op \in {"none", "open", "close"} /\ change.step \in Steps /\ change.call \in 0..count.calls
         /\ \A c \in calls : c.n = change.call =>
              /\ c.kind = "open_workspace" <=> change.step = "asked" /\ change.op = "open"
              /\ c.kind = "close_workspace" <=> (change.step = "asked" /\ change.op = "close")
                                                \/ change.step \in {"leaving", "rolling back"}
              /\ c.kind = "list_sessions" <=> change.step = "listing"
              /\ c.kind = "open_session" <=> change.step = "resuming"
              /\ c.kind \notin {"create_session", "close_session"}
         /\ \A c \in calls : c.kind \in OfChanges => c.n = change.call
         /\ change.op = "none" => \A c \in calls : c.kind \notin OfChanges
<1>1. change.op \in {"none", "open", "close"} /\ change.step \in Steps /\ change.call \in 0..count.calls
  BY DEF Sound, WorkspaceTypeOK, OneByOne
<1>2. change.op = "none" <=> change.step = "none"
  BY DEF OneByOne
<1>3. \A c \in calls : c.n = change.call => c.kind = KindOf(change.op, change.step)
  BY DEF OneByOne
<1>4. \A c \in calls : c.kind \in OfChanges => c.n = change.call
  BY DEF OneByOne
<1>5. ASSUME change.op = "none", NEW c \in calls
      PROVE  c.kind \notin OfChanges
  <2>1. change.call = 0 /\ c.n \in 1..count.calls /\ count.calls \in Nat
    BY <1>5, CountShape DEF OneByOne, Sound, Numbered, Counts
  <2> QED
    BY <1>4, <2>1
<1>6. LET k == KindOf(change.op, change.step)
      IN /\ k = "open_workspace" <=> change.step = "asked" /\ change.op = "open"
         /\ k = "close_workspace" <=> (change.step = "asked" /\ change.op = "close") \/ change.step \in {"leaving", "rolling back"}
         /\ k = "list_sessions" <=> change.step = "listing"
         /\ k = "open_session" <=> change.step = "resuming"
         /\ k \notin {"create_session", "close_session"}
  BY <1>1, <1>2, Kinds
<1> DEFINE k == KindOf(change.op, change.step)
<1> HIDE DEF k
<1>7. \A c \in calls : c.n = change.call => c.kind = k
  BY <1>3 DEF k
<1>8. /\ k = "open_workspace" <=> change.step = "asked" /\ change.op = "open"
      /\ k = "close_workspace" <=> (change.step = "asked" /\ change.op = "close") \/ change.step \in {"leaving", "rolling back"}
      /\ k = "list_sessions" <=> change.step = "listing"
      /\ k = "open_session" <=> change.step = "resuming"
      /\ k \notin {"create_session", "close_session"}
  BY <1>6 DEF k
<1> QED
  BY <1>1, <1>4, <1>5, <1>7, <1>8

\* The change goes on waiting.
LEMMA OneByOneKept ==
  ASSUME Sound, OneByOne, change' = change, count'.calls \in Nat, count'.calls >= count.calls,
         \A d \in calls' :
           \/ d.n = NextCall /\ d.kind \notin OfChanges
           \/ \E e \in calls : e.n = d.n /\ e.kind = d.kind
  PROVE  OneByOne'
<1>1. NextCall = count.calls + 1 /\ count.calls \in Nat /\ change.call \in 0..count.calls
  BY CountShape DEF Sound, Counts, OneByOne
<1> QED
  BY <1>1 DEF OneByOne

\* The answer it waited for has come, and was the last.
LEMMA OneByOneEnded ==
  ASSUME Sound, OneByOne, NEW c \in calls, c.n = change.call, calls' = calls \ {c}, count' = count, change' = NoChange
  PROVE  OneByOne'
<1>1. \A d \in calls : d.n = change.call => d = c
  BY DEF Sound, Numbered
<1>2. \A d \in calls : d.n \in 1..count.calls
  BY DEF Sound, Numbered
<1>3. count.calls \in Nat
  BY CountShape DEF Sound, Counts
<1>4. change'.op = "none" /\ change'.step = "none" /\ change'.call = 0
  BY DEF NoChange
<1>5. \A d \in calls' : d.n # 0 /\ d.kind \notin OfChanges
  BY <1>1, <1>2, <1>3 DEF OneByOne
<1> QED
  BY <1>3, <1>4, <1>5 DEF OneByOne

\* What a click leaves as it is, and what it asks for.
ClickLeaves ==
  /\ UNCHANGED <<change, replies, events, peer>> /\ view'.workspace = view.workspace
  /\ count'.ids = count.ids /\ count'.calls \in Nat /\ count'.calls >= count.calls
  /\ \A d \in calls' :
       \/ d.n = NextCall /\ d.kind \notin OfChanges
       \/ \E e \in calls : e.n = d.n /\ e.kind = d.kind /\ e.id = d.id
  /\ \A e \in calls : \E d \in calls' : d.n = e.n /\ d.kind = e.kind
  /\ \A n \in view'.opens : n \in view.opens \/ \E d \in calls' : d.n = n /\ d.kind = "open_session"
  /\ \/ view'.start = view.start /\ view'.starting = view.starting /\ disturbed' = disturbed
     \/ /\ view'.start = NextCall /\ view.workspace # NoWorkspace
        /\ \E d \in calls' : d.n = NextCall /\ d.kind = "create_session"
        /\ ~disturbed' => ~disturbed /\ peer.up /\ view.workspace \in peer.open
     \/ view'.start = view.start /\ view'.starting = view.starting /\ (~disturbed' => ~disturbed)

LEMMA ClickShape ==
  ASSUME Sound, ClickNext
  PROVE  ClickLeaves
<1>1. /\ Clicked.ids = count.ids /\ Called(Clicked).ids = count.ids /\ Clicked.calls = count.calls
      /\ Called(Clicked).calls = NextCall /\ NextCall = count.calls + 1 /\ count.calls \in Nat
  BY CountShape DEF Sound, Counts
<1>2. view \in Views
  BY DEF Sound, WorkspaceTypeOK
<1>3. ASSUME NEW op, NEW root, AskForWorkspace(op, root)
      PROVE  ClickLeaves
  <2>1. UNCHANGED <<view, change, replies, events, peer, calls, disturbed>> /\ count' = Clicked
    BY <1>3 DEF AskForWorkspace, RendererOnly
  <2> QED
    BY <1>1, <2>1 DEF ClickLeaves
<1>4. CASE NewSession
  <2>1. UNCHANGED <<change, replies, events, peer>> /\ view.workspace # NoWorkspace
        /\ disturbed' = (disturbed \/ ~peer.up \/ view.workspace \notin peer.open)
    BY <1>4 DEF NewSession, RendererOnly
  <2>2. disturbed \in BOOLEAN /\ peer.up \in BOOLEAN
    BY PeerShape DEF Sound, WorkspaceTypeOK
  <2>3. ~disturbed' => ~disturbed /\ peer.up /\ view.workspace \in peer.open
    BY <2>1, <2>2, Zenon
  <2>4. CASE UNCHANGED <<view, calls>> /\ count' = Clicked
    BY <1>1, <2>1, <2>3, <2>4 DEF ClickLeaves
  <2>5. CASE ~(UNCHANGED <<view, calls>> /\ count' = Clicked)
    <3>1. PICK ask \in Asks : calls' = calls \cup {ask} /\ ask.n = NextCall /\ ask.kind = "create_session"
      BY <1>4, <2>5, NewSessionSound
    <3>2. But(view', view, {"resume", "selection", "starting", "start"}) /\ view'.start = NextCall /\ count' = Called(Clicked)
      BY <1>4, <2>5, NewSessionSound
    <3>3. view'.workspace = view.workspace /\ view'.opens = view.opens
      BY <3>2 DEF But, Fields
    <3>4. ask.kind \notin OfChanges
      BY <3>1 DEF OfChanges
    <3> QED
      BY <1>1, <2>1, <2>3, <3>1, <3>2, <3>3, <3>4 DEF ClickLeaves
  <2> QED
    BY <2>4, <2>5
<1>5. ASSUME NEW s \in AllSessions, SelectTab(s)
      PROVE  ClickLeaves
  <2>1. UNCHANGED <<change, replies, events, peer, calls, disturbed>> /\ count' = Clicked
    BY <1>5 DEF SelectTab, RendererOnly
  <2> QED
    BY <1>1, <1>5, <2>1, SelectTabSound DEF ClickLeaves
<1>6. ASSUME NEW s \in AllSessions, OpenSession(s)
      PROVE  ClickLeaves
  <2> DEFINE v == Selecting(view)
             o == Opening(v, s, Clicked.clicks)
  <2>1. UNCHANGED <<change, replies, events, peer, disturbed>>
    BY <1>6 DEF OpenSession, RendererOnly
  <2>2. /\ But(view', view, {"resume", "selection", "opens"}) /\ view'.opens = o.opens
        /\ calls' = o.calls /\ count' = (IF o.sent THEN Called(Clicked) ELSE Clicked)
    BY <1>6, OpenSessionSound
  <2>3. v \in Views /\ v.opens = view.opens /\ Clicked.clicks \in Nat
    BY <1>2, SelectingShape, CountShape DEF But, Fields, Sound, Counts
  <2> HIDE DEF v
  <2>4. /\ o.sent \in BOOLEAN
        /\ \A d \in o.calls : d \in calls \/ (d.n = o.call /\ d.kind = "open_session")
        /\ o.sent => o.call = NextCall /\ o.opens = v.opens \cup {o.call}
                     /\ \E d \in o.calls : d.n = o.call /\ d.kind = "open_session"
        /\ ~o.sent => o.opens = v.opens /\ \A d \in o.calls : \E e \in calls : e.n = d.n /\ e.kind = d.kind /\ e.id = d.id
        /\ \A d \in calls : \E e \in o.calls : e.n = d.n /\ e.kind = d.kind
    BY <2>3, OpeningShape DEF Sound
  <2> HIDE DEF o
  <2>5. "open_session" \notin OfChanges
    BY DEF OfChanges
  <2>6. \A d \in calls' :
          \/ d.n = NextCall /\ d.kind \notin OfChanges
          \/ \E e \in calls : e.n = d.n /\ e.kind = d.kind /\ e.id = d.id
    BY <2>2, <2>4, <2>5
  <2>7. \A e \in calls : \E d \in calls' : d.n = e.n /\ d.kind = e.kind
    BY <2>2, <2>4
  <2>8. \A n \in view'.opens : n \in view.opens \/ \E d \in calls' : d.n = n /\ d.kind = "open_session"
    BY <2>2, <2>3, <2>4
  <2>9. view'.workspace = view.workspace /\ view'.start = view.start /\ view'.starting = view.starting
    BY <2>2 DEF But, Fields
  <2>10. count'.ids = count.ids /\ count'.calls \in Nat /\ count'.calls >= count.calls
    BY <1>1, <2>2
  <2> QED
    BY <2>1, <2>6, <2>7, <2>8, <2>9, <2>10 DEF ClickLeaves
<1>7. ASSUME NEW s \in AllSessions, CloseTab(s)
      PROVE  ClickLeaves
  <2>1. UNCHANGED <<change, replies, events, peer, disturbed>>
    BY <1>7 DEF CloseTab, RendererOnly
  <2>2. But(view', view, {"resume", "selection"}) /\ count' = Called(Clicked)
    BY <1>7, CloseTabSound
  <2>3. PICK ask \in Asks : calls' = calls \cup {ask} /\ ask.n = NextCall /\ ask.kind = "close_session"
    BY <1>7, CloseTabSound
  <2>4. ask.kind \notin OfChanges /\ view'.workspace = view.workspace /\ view'.opens = view.opens
        /\ view'.start = view.start /\ view'.starting = view.starting
    BY <2>2, <2>3 DEF OfChanges, But, Fields
  <2> QED
    BY <1>1, <2>1, <2>2, <2>3, <2>4 DEF ClickLeaves
<1> QED
  BY <1>3, <1>4, <1>5, <1>6, <1>7 DEF ClickNext

LEMMA NextIsNew ==
  ASSUME Sound
  PROVE  NextCall \notin 1..count.calls /\ NextCall \in 0..NextCall
<1>1. count.calls \in Nat
  BY CountShape DEF Sound, Counts
<1> QED
  BY <1>1 DEF NextCall

\* A command of the change follows another.
LEMMA OneByOneNext ==
  ASSUME Sound, OneByOne, NEW c \in calls, c.n = change.call, change.op = "open", NEW ask, ask.n = NextCall,
         NEW to \in {"leaving", "rolling back", "listing"}, ask.kind = KindOf("open", to),
         calls' = (calls \ {c}) \cup {ask}, count'.calls = NextCall,
         change'.op = change.op, change'.step = to, change'.call = NextCall
  PROVE  OneByOne'
<1>1. NextCall \notin 1..count.calls /\ NextCall \in 0..NextCall
  BY NextIsNew
<1>2. \A d \in calls : d.n = c.n => d = c
  BY DEF Sound, Numbered
<1>3. \A d \in calls : d.n \in 1..count.calls
  BY DEF Sound, Numbered
<1>4. \A d \in calls' : d.kind \in OfChanges => d = ask
  BY <1>2 DEF OneByOne
<1>5. \A d \in calls' : d.n = NextCall => d = ask
  BY <1>1, <1>3
<1>6. change'.op # "none" /\ change'.step # "none" /\ change'.op # "close" /\ KindOf(change'.op, change'.step) = ask.kind
  OBVIOUS
<1>7. change'.call \in 0..count'.calls
  BY <1>1
<1> QED
  BY <1>4, <1>5, <1>6, <1>7 DEF OneByOne

\* Slots stay used while their commands stay, or are given up with them.
LEMMA SlotsKept ==
  ASSUME SlotsUsed,
         \A e \in calls : e.kind = "open_session" /\ e.n \in view'.opens => \E d \in calls' : d.n = e.n /\ d.kind = e.kind,
         \A e \in calls : e.kind = "create_session" /\ e.n = view'.start => \E d \in calls' : d.n = e.n /\ d.kind = e.kind,
         \A n \in view'.opens : n \in view.opens \/ \E d \in calls' : d.n = n /\ d.kind = "open_session",
         view'.start \in {view.start, 0} \/ \E d \in calls' : d.n = view'.start /\ d.kind = "create_session"
  PROVE  SlotsUsed'
<1>1. \A n \in view'.opens : \E d \in calls' : d.n = n /\ d.kind = "open_session"
  BY DEF SlotsUsed
<1>2. view'.start # 0 => \E d \in calls' : d.n = view'.start /\ d.kind = "create_session"
  BY DEF SlotsUsed
<1> QED
  BY <1>1, <1>2 DEF SlotsUsed

-----------------------------------------------------------------------------
(* Answers and events on their way. *)

LEMMA AnswersFit ==
  ASSUME Sound
  PROVE  /\ \A n : \A r \in AnswersTo(replies, n) : r \in Answers /\ r.n = n /\ \E i \in DOMAIN replies : r = replies[i]
         /\ \A n : (\A c \in calls : c.n # n) => AnswersTo(replies, n) = {}
         /\ AnswersTo(replies, NextCall) = {}
<1>1. \A n : \A r \in AnswersTo(replies, n) : r.n = n /\ \E i \in DOMAIN replies : r = replies[i]
  BY DEF AnswersTo, ToSet
<1>2. \A i \in DOMAIN replies : replies[i] \in Answers /\ \E c \in calls : replies[i].n = c.n
  BY DEF Sound, WorkspaceTypeOK, Numbered
<1>3. \A n : (\A c \in calls : c.n # n) => AnswersTo(replies, n) = {}
  BY <1>1, <1>2
<1>4. \A c \in calls : c.n # NextCall
  <2>1. NextCall = count.calls + 1 /\ count.calls \in Nat /\ NextCall \in Nat
    BY CountShape DEF Sound, Counts
  <2> QED
    BY <2>1 DEF Sound, Numbered
<1> QED
  BY <1>1, <1>2, <1>3, <1>4

LEMMA AnswerComes ==
  ASSUME Sound, NEW c \in Unanswered, NEW r \in Answers, r.n = c.n, replies' = Append(replies, r)
  PROVE  /\ AnswersTo(replies, c.n) = {} /\ AnswersTo(replies', c.n) = {r}
         /\ \A n : n # c.n => AnswersTo(replies', n) = AnswersTo(replies, n)
<1>1. /\ Len(replies') = Len(replies) + 1 /\ replies'[Len(replies) + 1] = r /\ replies' \in Seq(Answers)
      /\ \A i \in DOMAIN replies : replies'[i] = replies[i] /\ i \in DOMAIN replies'
      /\ \A i \in DOMAIN replies' : i = Len(replies) + 1 \/ i \in DOMAIN replies
  BY AnsweredOnce
<1>2. Len(replies) + 1 \in DOMAIN replies'
  BY <1>1 DEF Sound, WorkspaceTypeOK
<1>3. ToSet(replies') = ToSet(replies) \cup {r}
  BY <1>1, <1>2 DEF ToSet
<1>4. \A q \in ToSet(replies) : q.n # c.n
  BY DEF Unanswered, ToSet
<1> QED
  BY <1>3, <1>4 DEF AnswersTo

LEMMA AnswerGoes ==
  ASSUME Sound, NEW c \in calls, NEW kind, Taking(c, kind)
  PROVE  /\ AnswersTo(replies, c.n) = {Heard} /\ Heard \in Answers
         /\ \A n : n # c.n => AnswersTo(replies', n) = AnswersTo(replies, n)
<1>1. /\ Heard = replies[1] /\ 1 \in DOMAIN replies /\ Heard.n = c.n /\ Heard \in Answers
      /\ \A i \in DOMAIN replies' : replies'[i] = replies[i + 1] /\ i + 1 \in DOMAIN replies /\ replies'[i].n # c.n
      /\ \A i \in DOMAIN replies : i = 1 \/ (i - 1 \in DOMAIN replies' /\ i \in Nat)
  BY TakingShape
<1>2. \A i \in DOMAIN replies : replies[i] # Heard => \E j \in DOMAIN replies' : replies'[j] = replies[i]
  <2> SUFFICES ASSUME NEW i \in DOMAIN replies, replies[i] # Heard
               PROVE  \E j \in DOMAIN replies' : replies'[j] = replies[i]
    OBVIOUS
  <2>1. i - 1 \in DOMAIN replies' /\ i \in Nat
    BY <1>1
  <2>2. replies'[i - 1] = replies[(i - 1) + 1] /\ (i - 1) + 1 = i
    BY <1>1, <2>1
  <2> QED
    BY <2>1, <2>2
<1>3. ToSet(replies) = ToSet(replies') \cup {Heard}
  BY <1>1, <1>2 DEF ToSet
<1>4. \A q \in ToSet(replies') : q.n # c.n
  BY <1>1 DEF ToSet
<1> QED
  BY <1>1, <1>3, <1>4 DEF AnswersTo

\* What window and host show, and what they are about to hear, stays as it is.
Steady ==
  /\ view'.workspace = view.workspace /\ peer'.open = peer.open /\ peer'.up = peer.up /\ count'.ids = count.ids
  /\ Told' = Told /\ \A i \in Told : events'[i].workspace = events[i].workspace

LEMMA SteadyIf ==
  ASSUME view'.workspace = view.workspace, UNCHANGED <<peer, events>>, count'.ids = count.ids
  PROVE  Steady
  BY DEF Steady, Told

LEMMA FollowingKept ==
  ASSUME Following, Steady
  PROVE  Following'
  BY DEF Following, Steady

\* The part of the invariant about the change that is under way, for each of its steps.
LEMMA Stages ==
  ASSUME Sound, OneByOne, ChangeFits
  PROVE  \/ change.step = "asked" /\ change.op = "open" /\ OpenAsked
         \/ change.step = "asked" /\ change.op = "close" /\ CloseAsked
         \/ change.step = "leaving" /\ change.op = "open" /\ LeavingOld
         \/ change.step \in {"none", "listing", "resuming"} /\ change.op # "close" /\ Following
<1>1. change.op \in {"none", "open", "close"} /\ change.step \in Steps
  BY DEF Sound, WorkspaceTypeOK
<1> QED
  BY <1>1 DEF Steps, OneByOne, ChangeFits

LEMMA FitsKept ==
  ASSUME Sound, OneByOne, IdsHold, ChangeFits, Steady, change' = change,
         AnswersTo(replies', change.call) = AnswersTo(replies, change.call),
         \A d \in calls' : d.n = change.call => \E e \in calls : e.n = d.n /\ e.id = d.id
  PROVE  IdsHold' /\ ChangeFits'
<1>1. IdsHold'
  BY DEF IdsHold, Steady
<1>2. Following => Following'
  BY FollowingKept
<1>3. CASE change.step = "asked" /\ change.op = "open" /\ OpenAsked
  <2>1. \A r \in AnswersTo(replies, change.call) : OpenedBeside(r) => OpenedBeside(r)'
    BY DEF OpenedBeside, Steady
  <2>2. OpenAsked'
    BY <1>2, <1>3, <2>1 DEF OpenAsked
  <2> QED
    BY <1>1, <1>3, <2>2 DEF ChangeFits
<1>4. CASE change.step = "asked" /\ change.op = "close" /\ CloseAsked
  <2>1. Closed => Closed'
    BY DEF Closed, Steady
  <2>2. Spared => Spared'
    BY <1>2 DEF Spared, Steady
  <2>3. CloseAsked'
    BY <1>4, <2>1, <2>2 DEF CloseAsked, Steady
  <2> QED
    BY <1>1, <1>4, <2>3 DEF ChangeFits
<1>5. CASE change.step = "leaving" /\ LeavingOld
  <2>1. LeavingOld'
    BY <1>5 DEF LeavingOld, Steady
  <2> QED
    BY <1>1, <1>5, <2>1 DEF ChangeFits
<1>6. CASE change.step \in {"none", "listing", "resuming"} /\ Following
  BY <1>1, <1>2, <1>6 DEF ChangeFits
<1> QED
  BY <1>3, <1>4, <1>5, <1>6, Stages

LEMMA StartKept ==
  ASSUME StartFits, Steady, view'.start = view.start, view'.starting = view.starting,
         AnswersTo(replies, view.start) # {} => AnswersTo(replies', view.start) # {}
  PROVE  StartFits'
  BY DEF StartFits, Steady

-----------------------------------------------------------------------------
(* Clicks. *)

\* Nothing is told of another workspace in the directory of one that is open here and there.
LEMMA ToldOfSameRoot ==
  ASSUME Sound, OneByOne, IdsHold, ChangeFits, view.workspace \in peer.open
  PROVE  \A i \in Told : events[i].workspace.root = view.workspace.root => events[i].workspace.id = view.workspace.id
<1>1. ASSUME Following
      PROVE  Told = {}
  <2>1. peer.open # {}
    OBVIOUS
  <2> QED
    BY <1>1, <2>1 DEF Following
<1>2. ASSUME NEW r \in AnswersTo(replies, change.call), OpenedBeside(r), NEW i \in Told,
             events[i].workspace.root = view.workspace.root
      PROVE  events[i].workspace.id = view.workspace.id
  <2>1. events[i].workspace \in peer.open
    BY <1>2 DEF OpenedBeside
  <2> QED
    BY <1>2, <2>1 DEF IdsHold
<1>3. CASE OpenAsked
  BY <1>1, <1>2, <1>3 DEF OpenAsked
<1>4. CASE CloseAsked
  BY <1>1, <1>4 DEF CloseAsked, Closed, Spared
<1>5. CASE LeavingOld
  BY <1>5 DEF LeavingOld
<1> QED
  BY <1>1, <1>3, <1>4, <1>5, Stages

LEMMA ClickFollows ==
  ASSUME Sound, FollowInv, ClickNext
  PROVE  FollowInv'
<1>1. ClickLeaves
  BY ClickShape
<1>2. OneByOne /\ SlotsUsed
  BY DEF FollowInv
<1>3. OneByOne'
  <2>1. \A d \in calls' : (d.n = NextCall /\ d.kind \notin OfChanges) \/ \E e \in calls : e.n = d.n /\ e.kind = d.kind
    BY <1>1 DEF ClickLeaves
  <2> QED
    BY <1>1, <1>2, <2>1, OneByOneKept DEF ClickLeaves
<1>4. SlotsUsed'
  <2>1. view'.start \in {view.start, 0} \/ \E d \in calls' : d.n = view'.start /\ d.kind = "create_session"
    BY <1>1 DEF ClickLeaves
  <2>2. \A e \in calls : \E d \in calls' : d.n = e.n /\ d.kind = e.kind
    BY <1>1 DEF ClickLeaves
  <2>3. \A n \in view'.opens : n \in view.opens \/ \E d \in calls' : d.n = n /\ d.kind = "open_session"
    BY <1>1 DEF ClickLeaves
  <2> QED
    BY <1>2, <2>1, <2>2, <2>3, SlotsKept
<1>5. ASSUME ~disturbed'
      PROVE  IdsHold' /\ ChangeFits' /\ StartFits'
  <2>1. ~disturbed
    BY <1>1, <1>5 DEF ClickLeaves
  <2>2. IdsHold /\ ChangeFits /\ StartFits
    BY <2>1 DEF FollowInv
  <2>3. Steady
    BY <1>1, SteadyIf DEF ClickLeaves
  <2>4. \A d \in calls' : d.n = change.call => \E e \in calls : e.n = d.n /\ e.id = d.id
    <3>1. change.call # NextCall
      BY <1>2, NextIsNew, CountShape DEF OneByOne, Sound, Counts
    <3> QED
      BY <1>1, <3>1 DEF ClickLeaves
  <2>5. UNCHANGED <<change, replies>>
    BY <1>1 DEF ClickLeaves
  <2>6. IdsHold' /\ ChangeFits'
    BY <1>2, <2>2, <2>3, <2>4, <2>5, FitsKept
  <2>7. CASE view'.start = view.start /\ view'.starting = view.starting
    BY <2>2, <2>3, <2>5, <2>6, <2>7, StartKept
  <2>8. CASE ~(view'.start = view.start /\ view'.starting = view.starting)
    <3>1. view'.start = NextCall /\ view.workspace # NoWorkspace /\ peer.up /\ view.workspace \in peer.open
      BY <1>1, <1>5, <2>8 DEF ClickLeaves
    <3>2. NextCall # 0
      BY CountShape DEF Sound
    <3>3. \A i \in Told : events[i].workspace.root = view.workspace.root => events[i].workspace.id = view.workspace.id
      BY <1>2, <2>2, <3>1, ToldOfSameRoot
    <3> QED
      BY <2>3, <2>6, <3>1, <3>2, <3>3 DEF StartFits, Steady
  <2> QED
    BY <2>7, <2>8
<1> QED
  BY <1>3, <1>4, <1>5 DEF FollowInv

-----------------------------------------------------------------------------
(* Answers. *)

\* Other answers leave the change alone, and the one that comes for a session ends what
\* the change was still doing.
LEMMA OtherAnswer ==
  ASSUME Sound, FollowInv, NEW c \in calls, NEW kind, Taking(c, kind), kind \notin OfChanges,
         calls' = calls \ {c}, count' = count, view'.workspace = view.workspace,
         change' = (IF change.call = c.n THEN NoChange ELSE change),
         kind # "open_session" => change.call # c.n,
         view'.opens = view.opens \ {c.n},
         IF view.start = c.n THEN view'.start = 0 /\ ~view'.starting
         ELSE view'.start = view.start /\ view'.starting = view.starting
  PROVE  FollowInv'
<1>1. OneByOne /\ SlotsUsed
  BY DEF FollowInv
<1>2. /\ c.kind = kind /\ c \in Asks /\ UNCHANGED <<events, peer>> /\ (\A d \in calls : d.n = c.n => d = c)
      /\ ~disturbed' => ~disturbed
  BY TakingShape
<1>3. c.n \in 1..count.calls /\ count.calls \in Nat
  BY CountShape DEF Sound, Numbered, Counts
<1>4. \A d \in calls' : \E e \in calls : e.n = d.n /\ e.kind = d.kind /\ e.id = d.id
  OBVIOUS
<1>5. OneByOne'
  <2>1. CASE change.call = c.n
    BY <1>1, <2>1, OneByOneEnded
  <2>2. CASE change.call # c.n
    BY <1>1, <1>3, <1>4, <2>2, OneByOneKept
  <2> QED
    BY <2>1, <2>2
<1>6. SlotsUsed'
  <2>1. \A e \in calls : e.n # c.n => e \in calls'
    OBVIOUS
  <2>2. c.n # 0
    BY <1>3
  <2>3. c.n \notin view'.opens /\ (view'.start = c.n => FALSE)
    BY <2>2
  <2>4. view'.start \in {view.start, 0} /\ view'.opens \subseteq view.opens
    OBVIOUS
  <2>5. \A e \in calls : e.kind = "open_session" /\ e.n \in view'.opens => \E d \in calls' : d.n = e.n /\ d.kind = e.kind
    BY <2>1, <2>3
  <2>6. \A e \in calls : e.kind = "create_session" /\ e.n = view'.start => \E d \in calls' : d.n = e.n /\ d.kind = e.kind
    BY <2>1, <2>3
  <2> QED
    BY <1>1, <2>4, <2>5, <2>6, SlotsKept
<1>7. ASSUME ~disturbed'
      PROVE  IdsHold' /\ ChangeFits' /\ StartFits'
  <2>1. IdsHold /\ ChangeFits /\ StartFits
    BY <1>2, <1>7 DEF FollowInv
  <2>2. Steady
    BY <1>2, SteadyIf
  <2>3. \A n : n # c.n => AnswersTo(replies', n) = AnswersTo(replies, n)
    BY AnswerGoes
  <2>4. IdsHold' /\ ChangeFits'
    <3>1. CASE change.call = c.n
      <4>1. change.step = "resuming"
        BY <1>1, <1>2, <3>1, Awaited
      <4>2. Following
        BY <2>1, <4>1 DEF ChangeFits
      <4>3. Following'
        BY <2>2, <4>2, FollowingKept
      <4>4. change'.step = "none"
        BY <3>1 DEF NoChange
      <4> QED
        BY <2>1, <2>2, <4>3, <4>4 DEF ChangeFits, IdsHold, Steady
    <3>2. CASE change.call # c.n
      BY <1>1, <1>4, <2>1, <2>2, <2>3, <3>2, FitsKept
    <3> QED
      BY <3>1, <3>2
  <2>5. StartFits'
    <3>1. CASE view.start = c.n
      BY <3>1 DEF StartFits
    <3>2. CASE view.start # c.n
      BY <2>1, <2>2, <2>3, <3>2, StartKept
    <3> QED
      BY <3>1, <3>2
  <2> QED
    BY <2>4, <2>5
<1> QED
  BY <1>5, <1>6, <1>7 DEF FollowInv

LEMMA SessionAnswerFollows ==
  ASSUME Sound, FollowInv, SessionAnswered \/ CreateAnswered \/ TabAnswered
  PROVE  FollowInv'
<1>1. OneByOne /\ SlotsUsed
  BY DEF FollowInv
<1>2. \A c, d \in calls : c.n = d.n => c = d
  BY DEF Sound, Numbered
<1>3. \A c \in calls : c.kind \in {"create_session", "close_session"} => change.call # c.n
  BY <1>1, Awaited
<1>4. ASSUME NEW c \in calls, c.kind # "open_session"
      PROVE  view.opens = view.opens \ {c.n}
  BY <1>1, <1>2, <1>4 DEF SlotsUsed
<1>5. ASSUME NEW c \in calls, c.kind # "create_session"
      PROVE  view.start # c.n
  <2>1. c.n # 0
    BY CountShape DEF Sound, Numbered, Counts
  <2> QED
    BY <1>1, <1>2, <1>5, <2>1 DEF SlotsUsed
<1>6. CASE SessionAnswered
  <2>1. PICK c \in calls :
          /\ Taking(c, "open_session") /\ calls' = calls \ {c} /\ count' = count
          /\ But(view', view, {"opens", "tabs", "active"}) /\ view'.opens = view.opens \ {c.n}
          /\ change' = IF change.call = c.n THEN NoChange ELSE change
    BY <1>6, SessionAnsweredShape
  <2>2. view'.workspace = view.workspace /\ view'.start = view.start /\ view'.starting = view.starting
    BY <2>1 DEF But, Fields
  <2>3. c.kind = "open_session"
    BY <2>1, TakingShape
  <2>4. view.start # c.n /\ "open_session" \notin OfChanges
    BY <1>5, <2>3 DEF OfChanges
  <2> QED
    BY <2>1, <2>2, <2>4, OtherAnswer
<1>7. CASE CreateAnswered
  <2>1. PICK c \in calls :
          /\ Taking(c, "create_session") /\ calls' = calls \ {c} /\ count' = count
          /\ But(view', view, {"start", "starting", "tabs", "active"}) /\ change' = change
          /\ IF view.start = c.n THEN view'.start = 0 /\ ~view'.starting
             ELSE view'.start = view.start /\ view'.starting = view.starting
    BY <1>7, CreateAnsweredShape
  <2>2. view'.workspace = view.workspace /\ view'.opens = view.opens
    BY <2>1 DEF But, Fields
  <2>3. c.kind = "create_session"
    BY <2>1, TakingShape
  <2>4. change.call # c.n /\ view'.opens = view.opens \ {c.n} /\ "create_session" \notin OfChanges
    BY <1>3, <1>4, <2>2, <2>3 DEF OfChanges
  <2> QED
    BY <2>1, <2>2, <2>4, OtherAnswer
<1>8. CASE TabAnswered
  <2>1. PICK c \in calls :
          /\ Taking(c, "close_session") /\ calls' = calls \ {c} /\ count' = count /\ change' = change
          /\ But(view', view, {"tabs", "active"})
    BY <1>8, TabAnsweredShape
  <2>2. view'.workspace = view.workspace /\ view'.opens = view.opens /\ view'.start = view.start /\ view'.starting = view.starting
    BY <2>1 DEF But, Fields
  <2>3. c.kind = "close_session"
    BY <2>1, TakingShape
  <2>4. change.call # c.n /\ view'.opens = view.opens \ {c.n} /\ view.start # c.n /\ "close_session" \notin OfChanges
    BY <1>3, <1>4, <1>5, <2>2, <2>3 DEF OfChanges
  <2> QED
    BY <2>1, <2>2, <2>4, OtherAnswer
<1> QED
  BY <1>6, <1>7, <1>8

\* What an answer to the change under way ends.
LEMMA ChangeAnswer ==
  ASSUME Sound, OneByOne, SlotsUsed, NEW c \in calls, NEW kind \in OfChanges, Taking(c, kind)
  PROVE  /\ c.n = change.call /\ c.kind = kind /\ UNCHANGED <<events, peer>> /\ change.op # "none"
         /\ view.start # c.n /\ \A e \in calls : e.kind \in {"open_session", "create_session"} => e \in calls \ {c}
         /\ AnswersTo(replies, change.call) = {Heard} /\ AnswersTo(replies', NextCall) = {}
         /\ \A n : n # c.n => AnswersTo(replies', n) = AnswersTo(replies, n)
         /\ ~disturbed' => ~disturbed /\ Heard.ahead = 0
<1>1. /\ c.kind = kind /\ UNCHANGED <<events, peer>> /\ (\A d \in calls : d.n = c.n => d = c)
      /\ ~disturbed' => ~disturbed /\ Heard.ahead = 0
  BY TakingShape
<1>2. c.n = change.call /\ change.op # "none"
  BY <1>1, Awaited
<1>3. c.kind \notin {"open_session", "create_session"}
  BY <1>1 DEF OfChanges
<1>4. c.n \in 1..count.calls
  BY DEF Sound, Numbered
<1>5. c.n # NextCall /\ c.n # 0
  BY <1>4, NextIsNew, CountShape DEF Sound, Counts
<1>6. view.start # c.n
  BY <1>1, <1>3, <1>5 DEF SlotsUsed
<1>7. AnswersTo(replies, c.n) = {Heard} /\ \A n : n # c.n => AnswersTo(replies', n) = AnswersTo(replies, n)
  BY AnswerGoes
<1>8. AnswersTo(replies', NextCall) = {}
  BY <1>5, <1>7, AnswersFit
<1> QED
  BY <1>1, <1>2, <1>3, <1>6, <1>7, <1>8

\* The slots of what is on screen outlive an answer to the change.
LEMMA SlotsOutlive ==
  ASSUME Sound, OneByOne, SlotsUsed, NEW c \in calls, NEW kind \in OfChanges, Taking(c, kind), calls \ {c} \subseteq calls',
         (view'.opens = view.opens /\ view'.start = view.start) \/ (view'.opens = {} /\ view'.start = 0)
  PROVE  SlotsUsed'
<1>1. \A e \in calls : e.kind \in {"open_session", "create_session"} => e \in calls'
  BY ChangeAnswer
<1>2. \A e \in calls : e.kind = "open_session" /\ e.n \in view'.opens => \E d \in calls' : d.n = e.n /\ d.kind = e.kind
  BY <1>1
<1>3. \A e \in calls : e.kind = "create_session" /\ e.n = view'.start => \E d \in calls' : d.n = e.n /\ d.kind = e.kind
  BY <1>1
<1> QED
  BY <1>2, <1>3, SlotsKept

\* The directory asked for is on screen once nothing else is open.
LEMMA AdoptFollows ==
  ASSUME Sound, FollowInv, NEW c \in calls, NEW kind \in OfChanges, Taking(c, kind), NEW w \in Workspaces, Adopt(c, w),
         change.op = "open", ~disturbed' => Told = {} /\ peer.open = {w}
  PROVE  FollowInv'
<1>1. OneByOne /\ SlotsUsed
  BY DEF FollowInv
<1>2. /\ c.n = change.call /\ UNCHANGED <<events, peer>> /\ (~disturbed' => ~disturbed)
  BY <1>1, ChangeAnswer
<1>3. PICK ask \in Asks : /\ calls' = (calls \ {c}) \cup {ask} /\ ask.n = NextCall /\ ask.kind = "list_sessions"
                          /\ view' = Replaced(view, w) /\ count'.ids = count.ids
                          /\ change' = Advanced("listing", w, view'.generation, NextCall)
  BY AdoptShape
<1>4. /\ view'.workspace = w /\ view'.start = 0 /\ view'.opens = {} /\ ~view'.starting
  BY <1>3, ReplacedShape DEF Sound, SomeWorkspace
<1>5. change'.op = "open" /\ change'.step = "listing" /\ change'.call = NextCall
  BY <1>3 DEF Advanced
<1>6. count'.calls = NextCall
  BY CountShape DEF Adopt, Follow, Sound
<1>7. KindOf("open", "listing") = "list_sessions"
  BY DEF KindOf
<1>8. OneByOne'
  BY <1>1, <1>2, <1>3, <1>5, <1>6, <1>7, OneByOneNext
<1>9. SlotsUsed'
  BY <1>1, <1>3, <1>4, SlotsOutlive
<1>10. ASSUME ~disturbed'
       PROVE  IdsHold' /\ ChangeFits' /\ StartFits'
  <2>1. IdsHold /\ Told' = Told /\ Told = {} /\ peer'.open = {w} /\ peer.open = {w}
    BY <1>2, <1>10 DEF FollowInv, Told
  <2>2. IdsHold'
    BY <1>2, <1>3, <1>4, <2>1, CountShape DEF IdsHold, Sound, Counts
  <2>3. Following'
    BY <1>4, <2>1 DEF Following
  <2>4. StartFits'
    BY <1>4 DEF StartFits
  <2> QED
    BY <1>5, <2>2, <2>3, <2>4 DEF ChangeFits
<1> QED
  BY <1>8, <1>9, <1>10 DEF FollowInv

\* Of the change that has ended remains that the host has open what the window shows.
LEMMA EndFollows ==
  ASSUME Sound, FollowInv, NEW c \in calls, NEW kind \in OfChanges, Taking(c, kind), EndChange(c),
         \/ /\ view'.workspace = view.workspace /\ view'.opens = view.opens /\ view'.start = view.start
            /\ view'.starting = view.starting /\ (~disturbed' => Following)
         \/ /\ view'.workspace = NoWorkspace /\ view'.opens = {} /\ view'.start = 0 /\ ~view'.starting
            /\ (~disturbed' => peer.open = {} /\ Told = {})
  PROVE  FollowInv'
<1>1. OneByOne /\ SlotsUsed
  BY DEF FollowInv
<1>2. /\ c.n = change.call /\ UNCHANGED <<events, peer>> /\ (~disturbed' => ~disturbed) /\ view.start # c.n
      /\ \A n : n # c.n => AnswersTo(replies', n) = AnswersTo(replies, n)
  BY <1>1, ChangeAnswer
<1>3. calls' = calls \ {c} /\ count' = count /\ change' = NoChange
  BY DEF EndChange, NoFollow
<1>4. OneByOne'
  BY <1>1, <1>2, <1>3, OneByOneEnded
<1>5. SlotsUsed'
  BY <1>1, <1>3, SlotsOutlive
<1>6. ASSUME ~disturbed'
      PROVE  IdsHold' /\ ChangeFits' /\ StartFits'
  <2>1. IdsHold /\ StartFits /\ change'.step = "none"
    BY <1>2, <1>3, <1>6 DEF FollowInv, NoChange
  <2>2. CASE /\ view'.workspace = view.workspace /\ view'.opens = view.opens /\ view'.start = view.start
             /\ view'.starting = view.starting /\ Following
    <3>1. Steady
      BY <1>2, <1>3, <2>2, SteadyIf
    <3>2. StartFits'
      BY <1>2, <2>1, <2>2, <3>1, StartKept
    <3>3. Following'
      BY <2>2, <3>1, FollowingKept
    <3>4. IdsHold'
      BY <2>1, <3>1 DEF IdsHold, Steady
    <3> QED
      BY <2>1, <3>2, <3>3, <3>4 DEF ChangeFits
  <2>3. CASE /\ view'.workspace = NoWorkspace /\ view'.opens = {} /\ view'.start = 0 /\ ~view'.starting
             /\ peer.open = {} /\ Told = {}
    <3>1. Told' = Told
      BY <1>2 DEF Told
    <3>2. Following' /\ StartFits'
      BY <1>2, <2>3, <3>1 DEF Following, StartFits
    <3>3. IdsHold'
      <4>1. count.ids \in Nat /\ NoWorkspace.id = 0
        BY CountShape DEF Sound, NoWorkspace
      <4> QED
        BY <1>2, <1>3, <2>3, <4>1 DEF IdsHold
    <3> QED
      BY <2>1, <3>2, <3>3 DEF ChangeFits
  <2> QED
    BY <1>6, <2>2, <2>3
<1> QED
  BY <1>4, <1>5, <1>6 DEF FollowInv

LEMMA OpenAnswerFollows ==
  ASSUME Sound, FollowInv, OpenAnswered
  PROVE  FollowInv'
<1> DEFINE w == Heard.value.workspace
           v == view.workspace
<1>1. OneByOne /\ SlotsUsed
  BY DEF FollowInv
<1>2. PICK c \in calls :
        /\ Taking(c, "open_workspace") /\ w \in SomeWorkspace
        /\ \/ (~Heard.ok \/ w = NoWorkspace) /\ EndChange(c) /\ ViewOnly
           \/ /\ Heard.ok /\ w # NoWorkspace /\ Leaves(w) /\ ViewOnly /\ Follow(c, CloseWorkspace(view.workspace))
              /\ change' = Advanced("leaving", w, change.generation, NextCall)
           \/ Heard.ok /\ w \in Workspaces /\ ~Leaves(w) /\ Adopt(c, w)
  BY OpenAnsweredShape
<1>3. "open_workspace" \in OfChanges
  BY DEF OfChanges
<1>4. /\ c.n = change.call /\ c.kind = "open_workspace" /\ UNCHANGED <<events, peer>> /\ view.start # c.n
      /\ AnswersTo(replies, change.call) = {Heard} /\ AnswersTo(replies', NextCall) = {}
      /\ \A n : n # c.n => AnswersTo(replies', n) = AnswersTo(replies, n)
      /\ ~disturbed' => ~disturbed /\ Heard.ahead = 0
  BY <1>1, <1>2, <1>3, ChangeAnswer
<1>5. change.step = "asked" /\ change.op = "open"
  BY <1>1, <1>4, Awaited
<1>6. ~disturbed' => OpenAsked /\ IdsHold /\ StartFits
  BY <1>4, <1>5 DEF FollowInv, ChangeFits
<1>7. \A x \in Workspaces : x # NoWorkspace
  BY DEF Sound, WorkspaceAssumption, Workspaces, NoWorkspace
<1>8. ASSUME ~disturbed', Heard.ok, w # NoWorkspace
      PROVE  OpenedBeside(Heard) /\ Told = {}
  <2>1. OpenedBeside(Heard)
    BY <1>4, <1>6, <1>8 DEF OpenAsked, Brings
  <2>2. \A j \in Told : j <= 0 /\ j \in Nat \ {0}
    BY <1>4, <1>8, <2>1 DEF OpenedBeside, Told, Sound, WorkspaceTypeOK
  <2>3. \A j \in Told : FALSE
    BY <2>2
  <2> QED
    BY <2>1, <2>3
<1>9. CASE (~Heard.ok \/ w = NoWorkspace) /\ EndChange(c) /\ ViewOnly
  <2>1. ~disturbed' => Following
    BY <1>4, <1>6, <1>9 DEF OpenAsked, Brings
  <2> QED
    BY <1>2, <1>3, <1>9, <2>1, EndFollows DEF ViewOnly
<1>10. CASE /\ Heard.ok /\ w # NoWorkspace /\ Leaves(w) /\ ViewOnly /\ Follow(c, CloseWorkspace(view.workspace))
            /\ change' = Advanced("leaving", w, change.generation, NextCall)
  <2>1. v \in SomeWorkspace /\ "leaving" \in Steps
    BY DEF Sound, WorkspaceTypeOK, Views, Steps
  <2>2. PICK ask \in Asks : /\ calls' = (calls \ {c}) \cup {ask} /\ ask.n = NextCall /\ ask.kind = "close_workspace"
                            /\ ask.id = v.id /\ count'.ids = count.ids
    BY <1>2, <1>10, <2>1, LeaveShape
  <2>3. change'.op = "open" /\ change'.step = "leaving" /\ change'.call = NextCall /\ change'.target = w
    BY <1>5, <1>10 DEF Advanced
  <2>4. count'.calls = NextCall
    BY <1>10, CountShape DEF Follow, Sound
  <2>5. KindOf("open", "leaving") = "close_workspace"
    BY DEF KindOf
  <2>6. OneByOne'
    BY <1>1, <1>4, <1>5, <2>2, <2>3, <2>4, <2>5, OneByOneNext
  <2>7. SlotsUsed'
    BY <1>1, <1>2, <1>3, <1>10, <2>2, SlotsOutlive DEF ViewOnly
  <2>8. ASSUME ~disturbed'
        PROVE  IdsHold' /\ ChangeFits' /\ StartFits'
    <3>1. Steady /\ view' = view
      BY <1>4, <1>10, <2>2, SteadyIf DEF ViewOnly
    <3>2. IdsHold' /\ StartFits'
      BY <1>4, <1>6, <2>8, <3>1, StartKept DEF IdsHold, Steady
    <3>3. OpenedBeside(Heard) /\ Told = {}
      BY <1>8, <1>10, <2>8
    <3>4. /\ peer.up /\ w \in peer.open /\ v # NoWorkspace /\ v.id # w.id
          /\ \A x \in peer.open : x = w \/ x.root = v.root
      BY <1>10, <3>3 DEF OpenedBeside, Leaves
    <3>5. peer.open \subseteq {w, v}
      BY <3>3, <3>4 DEF OpenedBeside
    <3>6. \A d \in calls' : d.n = NextCall => d = ask
      BY <2>2, NextIsNew DEF Sound, Numbered
    <3>7. LeavingOld'
      BY <1>4, <2>2, <2>3, <3>1, <3>3, <3>4, <3>5, <3>6 DEF LeavingOld, Steady
    <3> QED
      BY <2>3, <3>2, <3>7 DEF ChangeFits
  <2> QED
    BY <2>6, <2>7, <2>8 DEF FollowInv
<1>11. CASE Heard.ok /\ w \in Workspaces /\ ~Leaves(w) /\ Adopt(c, w)
  <2>1. ASSUME ~disturbed'
        PROVE  Told = {} /\ peer.open = {w}
    <3>1. OpenedBeside(Heard) /\ Told = {}
      BY <1>7, <1>8, <1>11, <2>1
    <3>2. w \in peer.open /\ w = v
      BY <1>11, <3>1 DEF OpenedBeside, Leaves
    <3>3. \A x \in peer.open : x = w
      BY <3>1, <3>2 DEF OpenedBeside
    <3> QED
      BY <3>1, <3>2, <3>3
  <2> QED
    BY <1>2, <1>3, <1>5, <1>11, <2>1, AdoptFollows
<1> QED
  BY <1>2, <1>9, <1>10, <1>11

LEMMA CloseAnswerFollows ==
  ASSUME Sound, FollowInv, LeavesKnown, CloseAnswered
  PROVE  FollowInv'
<1> DEFINE v == view.workspace
<1>1. OneByOne /\ SlotsUsed
  BY DEF FollowInv
<1>2. change.step = "leaving" => change.target \in Workspaces
  BY DEF LeavesKnown
<1>3. PICK c \in calls :
        /\ Taking(c, "close_workspace")
        /\ \/ change.step = "leaving" /\ Heard.ok /\ Adopt(c, change.target)
           \/ /\ change.step = "leaving" /\ ~Heard.ok /\ ViewOnly /\ Follow(c, CloseWorkspace(change.target))
              /\ change' = Advanced("rolling back", change.target, change.generation, NextCall)
           \/ change.step = "rolling back" /\ EndChange(c) /\ ViewOnly
           \/ /\ change.step = "asked" /\ EndChange(c)
              /\ IF Heard.ok /\ v.id = change.target.id
                 THEN view' = Replaced(view, NoWorkspace) /\ goal' = NoSession /\ UNCHANGED remembered
                 ELSE ViewOnly
  BY <1>2, CloseAnsweredShape
<1>4. "close_workspace" \in OfChanges
  BY DEF OfChanges
<1>5. /\ c.n = change.call /\ c.kind = "close_workspace" /\ AnswersTo(replies, change.call) = {Heard}
      /\ ~disturbed' => ~disturbed /\ Heard.ahead = 0
  BY <1>1, <1>3, <1>4, ChangeAnswer
<1>6. /\ change.step = "leaving" => change.op = "open"
      /\ change.step = "asked" => change.op = "close"
  BY <1>1, <1>5, Awaited DEF OneByOne
<1>7. ~disturbed' => ChangeFits
  BY <1>5 DEF FollowInv
<1>8. CASE change.step = "leaving" /\ Heard.ok /\ Adopt(c, change.target)
  <2>1. ~disturbed' => Told = {} /\ peer.open = {change.target}
    BY <1>5, <1>7, <1>8 DEF ChangeFits, LeavingOld
  <2> QED
    BY <1>2, <1>3, <1>4, <1>6, <1>8, <2>1, AdoptFollows
<1>9. CASE /\ change.step = "leaving" /\ ~Heard.ok /\ ViewOnly /\ Follow(c, CloseWorkspace(change.target))
           /\ change' = Advanced("rolling back", change.target, change.generation, NextCall)
  <2>1. change.target \in SomeWorkspace /\ "rolling back" \in Steps
    BY DEF Sound, WorkspaceTypeOK, Steps
  <2>2. PICK ask \in Asks : calls' = (calls \ {c}) \cup {ask} /\ ask.n = NextCall /\ ask.kind = "close_workspace"
    BY <1>3, <1>9, <2>1, LeaveShape
  <2>3. change'.op = "open" /\ change'.step = "rolling back" /\ change'.call = NextCall
    BY <1>6, <1>9 DEF Advanced
  <2>4. count'.calls = NextCall
    BY <1>9, CountShape DEF Follow, Sound
  <2>5. KindOf("open", "rolling back") = "close_workspace"
    BY DEF KindOf
  <2>6. OneByOne'
    BY <1>1, <1>5, <1>6, <1>9, <2>2, <2>3, <2>4, <2>5, OneByOneNext
  <2>7. SlotsUsed'
    BY <1>1, <1>3, <1>4, <1>9, <2>2, SlotsOutlive DEF ViewOnly
  <2>8. disturbed'
    BY <1>5, <1>7, <1>9 DEF ChangeFits, LeavingOld
  <2> QED
    BY <2>6, <2>7, <2>8 DEF FollowInv
<1>10. CASE change.step = "rolling back" /\ EndChange(c) /\ ViewOnly
  <2>1. disturbed'
    BY <1>7, <1>10 DEF ChangeFits
  <2> QED
    BY <1>3, <1>4, <1>10, <2>1, EndFollows DEF ViewOnly
<1>11. CASE change.step = "asked" /\ EndChange(c) /\ Heard.ok /\ v.id = change.target.id /\ view' = Replaced(view, NoWorkspace)
  <2>1. view'.workspace = NoWorkspace /\ view'.opens = {} /\ view'.start = 0 /\ ~view'.starting
    BY <1>11, ReplacedShape DEF Sound, SomeWorkspace
  <2>2. ASSUME ~disturbed'
        PROVE  peer.open = {} /\ Told = {}
    <3>1. Closed \/ Spared
      BY <1>6, <1>7, <1>11, <2>2 DEF ChangeFits, CloseAsked
    <3>2. CASE Spared
      <4>1. Following /\ (\A j \in Told : j <= Heard.ahead) /\ \A x \in peer.open : x.id # change.target.id
        BY <1>5, <1>11, <3>2 DEF Spared
      <4>2. \A j \in Told : j <= 0 /\ j \in Nat \ {0}
        BY <1>5, <2>2, <4>1 DEF Told, Sound, WorkspaceTypeOK
      <4>3. Told = {}
        <5>1. \A j \in Told : FALSE
          BY <4>2
        <5> QED
          BY <5>1
      <4>4. peer.open = {}
        BY <1>11, <4>1, <4>3 DEF Following
      <4> QED
        BY <4>3, <4>4
    <3> QED
      BY <3>1, <3>2 DEF Closed
  <2> QED
    BY <1>3, <1>4, <1>11, <2>1, <2>2, EndFollows
<1>12. CASE change.step = "asked" /\ EndChange(c) /\ ~(Heard.ok /\ v.id = change.target.id) /\ ViewOnly
  <2>1. ~disturbed' => Following
    BY <1>5, <1>6, <1>7, <1>12 DEF ChangeFits, CloseAsked, Closed, Spared
  <2> QED
    BY <1>3, <1>4, <1>12, <2>1, EndFollows DEF ViewOnly
<1> QED
  BY <1>3, <1>8, <1>9, <1>10, <1>11, <1>12

LEMMA ListAnswerFollows ==
  ASSUME Sound, FollowInv, ListAnswered
  PROVE  FollowInv'
<1>1. OneByOne /\ SlotsUsed
  BY DEF FollowInv
<1>2. PICK c \in calls :
        /\ Taking(c, "list_sessions")
        /\ \/ EndChange(c) /\ But(view', view, {"resume"})
           \/ EndChange(c) /\ But(view', view, {"resume", "selection", "active"})
           \/ \E s \in AllSessions :
                LET o == Opening(Selecting(view), s, 0)
                IN /\ But(view', view, {"resume", "selection", "opens"})
                   /\ view'.opens = o.opens /\ calls' = o.calls \ {c}
                   /\ count' = IF o.sent THEN Called(count) ELSE count
                   /\ change' = Advanced("resuming", change.target, change.generation, o.call)
  BY ListAnsweredShape
<1>3. "list_sessions" \in OfChanges
  BY DEF OfChanges
<1>4. /\ c.n = change.call /\ c.kind = "list_sessions" /\ UNCHANGED <<events, peer>> /\ change.op # "none"
      /\ view.start # c.n /\ \A e \in calls : e.kind \in {"open_session", "create_session"} => e \in calls \ {c}
      /\ \A n : n # c.n => AnswersTo(replies', n) = AnswersTo(replies, n)
      /\ ~disturbed' => ~disturbed
  BY <1>1, <1>2, <1>3, ChangeAnswer
<1>5. change.step = "listing" /\ change.op = "open"
  BY <1>1, <1>4, Awaited DEF OneByOne
<1>6. ~disturbed' => Following /\ IdsHold /\ StartFits
  BY <1>4, <1>5 DEF FollowInv, ChangeFits
<1>7. CASE EndChange(c) /\ (But(view', view, {"resume"}) \/ But(view', view, {"resume", "selection", "active"}))
  <2>1. /\ view'.workspace = view.workspace /\ view'.opens = view.opens /\ view'.start = view.start
        /\ view'.starting = view.starting
    BY <1>7 DEF But, Fields
  <2> QED
    BY <1>2, <1>3, <1>6, <1>7, <2>1, EndFollows
<1>8. ASSUME NEW s \in AllSessions,
             LET o == Opening(Selecting(view), s, 0)
             IN /\ But(view', view, {"resume", "selection", "opens"})
                /\ view'.opens = o.opens /\ calls' = o.calls \ {c}
                /\ count' = IF o.sent THEN Called(count) ELSE count
                /\ change' = Advanced("resuming", change.target, change.generation, o.call)
      PROVE  FollowInv'
  <2> DEFINE v == Selecting(view)
             o == Opening(v, s, 0)
  <2>1. v \in Views /\ v.opens = view.opens
    BY SelectingShape, ViewFits DEF But, Fields, Sound
  <2>2. /\ view'.workspace = view.workspace /\ view'.start = view.start /\ view'.starting = view.starting
        /\ view'.opens = o.opens /\ calls' = o.calls \ {c} /\ count' = (IF o.sent THEN Called(count) ELSE count)
        /\ change'.op = change.op /\ change'.step = "resuming" /\ change'.call = o.call
    BY <1>8 DEF But, Fields, Advanced
  <2> HIDE DEF v
  <2>3. /\ o.sent \in BOOLEAN
        /\ \A d \in o.calls : d \in calls \/ (d.n = o.call /\ d.kind = "open_session")
        /\ o.sent => o.call = NextCall /\ o.opens = v.opens \cup {o.call}
        /\ ~o.sent => o.opens = v.opens /\ o.call \in v.opens
        /\ \E d \in o.calls : d.n = o.call /\ d.kind = "open_session"
        /\ \A d \in calls : \E e \in o.calls : e.n = d.n /\ e.kind = d.kind
        /\ \A d, e \in o.calls : d.n = e.n => d = e
    BY <2>1, OpeningShape DEF Sound
  <2> HIDE DEF o
  <2>4. \A d \in o.calls : d.kind \in OfChanges => d = c
    <3>1. "open_session" \notin OfChanges
      BY DEF OfChanges
    <3>2. \A d \in calls : d.kind \in OfChanges => d = c
      BY <1>1, <1>4 DEF OneByOne, Sound, Numbered
    <3> QED
      BY <2>3, <3>1, <3>2
  <2>5. \A d \in calls' : d.n = o.call => d.kind = "open_session"
    BY <2>2, <2>3
  <2>6. KindOf(change'.op, change'.step) = "open_session"
    BY <2>2 DEF KindOf
  <2>7. o.call \in 0..count'.calls
    <3>1. count.calls \in Nat /\ NextCall = count.calls + 1 /\ Called(count).calls = NextCall
      BY CountShape DEF Sound, Counts
    <3>2. ~o.sent => o.call \in 1..count.calls
      BY <1>1, <2>1, <2>3 DEF SlotsUsed, Sound, Numbered
    <3> QED
      BY <2>2, <2>3, <3>1, <3>2
  <2>8. OneByOne'
    BY <1>5, <2>2, <2>4, <2>5, <2>6, <2>7 DEF OneByOne
  <2>9. SlotsUsed'
    <3>1. \A e \in calls : e.kind \in {"open_session", "create_session"} => \E d \in calls' : d.n = e.n /\ d.kind = e.kind
      BY <1>4, <2>2, <2>3
    <3>2. \A n \in view'.opens : n \in view.opens \/ \E d \in calls' : d.n = n /\ d.kind = "open_session"
      BY <1>4, <2>1, <2>2, <2>3
    <3> QED
      BY <1>1, <2>2, <3>1, <3>2, SlotsKept
  <2>10. ASSUME ~disturbed'
         PROVE  IdsHold' /\ ChangeFits' /\ StartFits'
    <3>1. count'.ids = count.ids
      BY <2>2, CountShape DEF Sound
    <3>2. Steady
      BY <1>4, <2>2, <3>1, SteadyIf
    <3>3. Following'
      BY <1>6, <2>10, <3>2, FollowingKept
    <3>4. IdsHold'
      BY <1>6, <2>10, <3>2 DEF IdsHold, Steady
    <3>5. StartFits'
      BY <1>4, <1>6, <2>2, <2>10, <3>2, StartKept
    <3> QED
      BY <2>2, <3>3, <3>4, <3>5 DEF ChangeFits
  <2> QED
    BY <2>8, <2>9, <2>10 DEF FollowInv
<1> QED
  BY <1>2, <1>7, <1>8

-----------------------------------------------------------------------------
(* A change begins. *)

LEMMA StartFollows ==
  ASSUME Sound, FollowInv, StartChange
  PROVE  FollowInv'
<1> DEFINE c == Head(changes)
           v == view.workspace
           ask == IF c.op = "open" THEN OpenWorkspace(c.root) ELSE CloseWorkspace(v)
<1>1. OneByOne /\ SlotsUsed
  BY DEF FollowInv
<1>2. /\ change.op = "none" /\ changes # <<>> /\ UNCHANGED <<view, replies, events, peer, disturbed>>
      /\ IF c.op = "close" /\ v = NoWorkspace THEN UNCHANGED <<change, calls, count>>
         ELSE /\ change' = [op |-> c.op, step |-> "asked", target |-> v, generation |-> 0, call |-> NextCall]
              /\ calls' = calls \cup {ask} /\ count' = Called(count)
  BY DEF StartChange, RendererOnly
<1>3. /\ c \in WorkspaceChanges /\ c.op \in {"open", "close"}
      /\ c.op = "open" => c.root \in Directories
  BY <1>2 DEF WorkspaceChanges, Sound, WorkspaceTypeOK
<1>4. CASE c.op = "close" /\ v = NoWorkspace
  <2>1. UNCHANGED <<view, change, calls, count, replies, events, peer, disturbed>>
    BY <1>2, <1>4
  <2>2. OneByOne' /\ SlotsUsed'
    BY <1>1, <2>1 DEF OneByOne, SlotsUsed
  <2>3. Steady
    BY <2>1, SteadyIf
  <2>4. ASSUME ~disturbed'
        PROVE  IdsHold' /\ ChangeFits' /\ StartFits'
    <3>1. IdsHold /\ ChangeFits /\ StartFits
      BY <2>1, <2>4 DEF FollowInv
    <3> QED
      BY <1>1, <2>1, <2>3, <3>1, FitsKept, StartKept
  <2> QED
    BY <2>2, <2>4 DEF FollowInv
<1>5. CASE ~(c.op = "close" /\ v = NoWorkspace)
  <2>1. /\ change'.op = c.op /\ change'.step = "asked" /\ change'.target = v /\ change'.call = NextCall
        /\ calls' = calls \cup {ask} /\ count' = Called(count)
    BY <1>2, <1>5
  <2>2. /\ ask.n = NextCall /\ ask.kind = (IF c.op = "open" THEN "open_workspace" ELSE "close_workspace")
        /\ c.op = "close" => ask.id = v.id
    BY <1>3 DEF OpenWorkspace, CloseWorkspace, Command
  <2> HIDE DEF ask
  <2>3. \A d \in calls : d.n # NextCall /\ d.kind \notin OfChanges
    BY <1>1, <1>2, Awaited, NextIsNew DEF Sound, Numbered
  <2>4. /\ count'.calls = NextCall /\ NextCall \in 0..NextCall /\ count'.ids = count.ids
    BY <2>1, CountShape, NextIsNew DEF Sound
  <2>5. KindOf(change'.op, change'.step) = ask.kind
    BY <1>3, <2>1, <2>2 DEF KindOf
  <2>6. OneByOne'
    BY <1>3, <2>1, <2>2, <2>3, <2>4, <2>5 DEF OneByOne
  <2>7. SlotsUsed'
    BY <1>1, <1>2, <2>1, SlotsKept
  <2>8. ASSUME ~disturbed'
        PROVE  IdsHold' /\ ChangeFits' /\ StartFits'
    <3>1. IdsHold /\ Following /\ StartFits
      BY <1>1, <1>2, <2>8 DEF FollowInv, ChangeFits, OneByOne
    <3>2. Steady
      BY <1>2, <2>4, SteadyIf
    <3>3. Following'
      BY <3>1, <3>2, FollowingKept
    <3>4. AnswersTo(replies', change'.call) = {}
      BY <1>2, <2>1, AnswersFit
    <3>5. IdsHold' /\ StartFits'
      BY <1>2, <3>1, <3>2, StartKept DEF IdsHold, Steady
    <3>6. CASE c.op = "open"
      <4>1. OpenAsked'
        BY <3>3, <3>4 DEF OpenAsked
      <4> QED
        BY <2>1, <3>5, <3>6, <4>1 DEF ChangeFits
    <3>7. CASE c.op = "close"
      <4>1. Spared'
        BY <1>2, <2>1, <3>3, <3>4 DEF Spared
      <4>2. \A d \in calls' : d.n = NextCall => d.id = v.id
        BY <2>1, <2>2, <2>3, <3>7
      <4>3. v # NoWorkspace /\ v.id <= count'.ids
        BY <1>5, <2>4, <3>1, <3>7 DEF IdsHold
      <4>4. CloseAsked'
        BY <2>1, <4>1, <4>2, <4>3 DEF CloseAsked
      <4> QED
        BY <2>1, <3>5, <3>7, <4>4 DEF ChangeFits
    <3> QED
      BY <1>3, <3>6, <3>7
  <2> QED
    BY <2>6, <2>7, <2>8 DEF FollowInv
<1> QED
  BY <1>4, <1>5

-----------------------------------------------------------------------------
(* Events. *)

LEMMA EventGoes ==
  ASSUME Sound, TakeEvent
  PROVE  /\ \A i \in Told' : i \in Nat \ {0} /\ i + 1 \in Told /\ events'[i] = events[i + 1]
         /\ \A i \in Told : i \in Nat \ {0} /\ (i = 1 \/ (i - 1 \in Told' /\ events'[i - 1] = events[i]))
         /\ 1 \in Told <=> Tells(events[1])
         /\ \A i \in Told : events[i].workspace \in Workspaces
         /\ \A n : \A r \in AnswersTo(replies', n) : \E q \in AnswersTo(replies, n) :
              r.ok = q.ok /\ r.value = q.value /\ q.ahead \in Nat /\ r.ahead = IF q.ahead = 0 THEN 0 ELSE q.ahead - 1
         /\ \A n : \A q \in AnswersTo(replies, n) : \E r \in AnswersTo(replies', n) : r.ok = q.ok /\ r.value = q.value
<1>1. /\ events' = Tail(events) /\ events # <<>> /\ events \in Seq(Events) /\ DOMAIN replies' = DOMAIN replies
      /\ \A i \in DOMAIN replies :
           /\ replies'[i].n = replies[i].n /\ replies'[i].ok = replies[i].ok /\ replies'[i].value = replies[i].value
           /\ replies[i].ahead \in Nat
           /\ replies'[i].ahead = IF replies[i].ahead = 0 THEN 0 ELSE replies[i].ahead - 1
  BY TakeEventShape DEF Sound, WorkspaceTypeOK
<1>2. /\ Len(events) \in Nat \ {0} /\ DOMAIN events = 1..Len(events) /\ Len(events') = Len(events) - 1
      /\ DOMAIN events' = 1..Len(events) - 1
      /\ \A i \in 1..Len(events) - 1 : events'[i] = events[i + 1]
  BY <1>1
<1>3. \A i \in Told' : i \in Nat \ {0} /\ i + 1 \in Told /\ events'[i] = events[i + 1]
  BY <1>2 DEF Told
<1>4. ASSUME NEW i \in Told, i # 1
      PROVE  i - 1 \in Told' /\ events'[i - 1] = events[i]
  <2>1. i \in 1..Len(events) /\ i - 1 \in 1..Len(events) - 1 /\ (i - 1) + 1 = i
    BY <1>2, <1>4 DEF Told
  <2>2. events'[i - 1] = events[(i - 1) + 1] /\ i - 1 \in DOMAIN events'
    BY <1>2, <2>1
  <2>3. events'[i - 1] = events[i] /\ Tells(events[i])
    BY <2>1, <2>2 DEF Told
  <2> QED
    BY <2>2, <2>3 DEF Told
<1>5. (1 \in Told <=> Tells(events[1])) /\ \A i \in Told : i \in Nat \ {0}
  BY <1>2 DEF Told
<1>6. \A i \in Told : events[i].workspace \in Workspaces
  <2>1. \A i \in DOMAIN events : events[i] \in Events
    BY <1>1
  <2>2. \A e \in Events : e.workspace \in Workspaces
    BY DEF Events
  <2> QED
    BY <2>1, <2>2 DEF Told
<1>7. ASSUME NEW n, NEW r \in AnswersTo(replies', n)
      PROVE  \E q \in AnswersTo(replies, n) :
               r.ok = q.ok /\ r.value = q.value /\ q.ahead \in Nat /\ r.ahead = IF q.ahead = 0 THEN 0 ELSE q.ahead - 1
  <2>1. PICK i \in DOMAIN replies : r = replies'[i] /\ r.n = n
    BY <1>1, <1>7 DEF AnswersTo, ToSet
  <2>2. replies[i] \in AnswersTo(replies, n)
    BY <1>1, <2>1 DEF AnswersTo, ToSet
  <2> QED
    BY <1>1, <2>1, <2>2
<1>8. ASSUME NEW n, NEW q \in AnswersTo(replies, n)
      PROVE  \E r \in AnswersTo(replies', n) : r.ok = q.ok /\ r.value = q.value
  <2>1. PICK i \in DOMAIN replies : q = replies[i] /\ q.n = n
    BY <1>8 DEF AnswersTo, ToSet
  <2>2. replies'[i] \in AnswersTo(replies', n)
    BY <1>1, <2>1 DEF AnswersTo, ToSet
  <2> QED
    BY <1>1, <2>1, <2>2
<1> QED
  BY <1>3, <1>4, <1>5, <1>6, <1>7, <1>8

\* Someone who follows hears of one workspace only, the one the host has open.
LEMMA FollowingHears ==
  ASSUME Sound, TakeEvent, Following, Tells(events[1])
  PROVE  LET w == events[1].workspace
         IN /\ Following' /\ Told' = {} /\ peer.open = {w} /\ view.workspace.root = w.root /\ view.workspace # w
            /\ view' = OnWorkspace(view, w)
            /\ But(view', view, {"workspace", "generation", "start", "opens"}) /\ view'.workspace = w
            /\ view'.start = 0 /\ view'.opens = {}
<1> DEFINE e == events[1].workspace
<1>1. 1 \in Told /\ e \in Workspaces
  BY EventGoes
<1>2. view' = OnWorkspace(view, e) /\ UNCHANGED peer
  BY TakeEventShape
<1>3. /\ peer.open = {e} /\ view.workspace.root = e.root /\ view.workspace # e /\ (\A i \in Told : i = 1)
  BY <1>1 DEF Following
<1>4. Told' = {}
  <2>1. \A i \in Told' : FALSE
    BY <1>3, EventGoes
  <2> QED
    BY <2>1
<1>5. /\ But(view', view, {"workspace", "generation", "start", "opens"}) /\ view'.workspace = e
      /\ view'.start = 0 /\ view'.opens = {}
  BY <1>1, <1>2, <1>3, OnWorkspaceShape DEF Sound
<1>6. Following'
  BY <1>2, <1>3, <1>4, <1>5 DEF Following
<1> QED
  BY <1>2, <1>3, <1>4, <1>5, <1>6

\* An event that names no workspace is taken.
LEMMA FollowingShifts ==
  ASSUME Sound, TakeEvent, Following, view'.workspace = view.workspace, ~Tells(events[1])
  PROVE  Following'
<1>1. /\ \A i \in Told' : i \in Nat \ {0} /\ i + 1 \in Told /\ events'[i] = events[i + 1]
      /\ \A i \in Told : i \in Nat \ {0} /\ i - 1 \in Told'
  BY EventGoes
<1>2. UNCHANGED peer
  BY TakeEventShape
<1>3. CASE view.workspace = NoWorkspace /\ peer.open = {} /\ Told = {}
  <2>1. Told' = {}
    BY <1>1, <1>3
  <2> QED
    BY <1>2, <1>3, <2>1 DEF Following
<1>4. ASSUME NEW w \in peer.open, peer.open = {w}, view.workspace.root = w.root,
             \A i \in Told : events[i].workspace = w /\ view.workspace # w,
             \A i, j \in Told : i = j,
             Told = {} => view.workspace = w
      PROVE  Following'
  <2>1. \A i \in Told' : events'[i].workspace = w /\ view'.workspace # w
    BY <1>1, <1>4
  <2>2. \A i, j \in Told' : i = j
    <3> SUFFICES ASSUME NEW i \in Told', NEW j \in Told'
                 PROVE  i = j
      OBVIOUS
    <3>1. i + 1 = j + 1 /\ i \in Nat /\ j \in Nat
      BY <1>1, <1>4
    <3> QED
      BY <3>1
  <2>3. Told' = {} => view'.workspace = w
    BY <1>1, <1>4
  <2> QED
    BY <1>2, <1>4, <2>1, <2>2, <2>3 DEF Following
<1> QED
  BY <1>3, <1>4 DEF Following

\* What was opened beside the workspace on screen still is, whichever of the two is heard of.
LEMMA BesideHears ==
  ASSUME Sound, TakeEvent, IdsHold, change.op = "open",
         NEW q, NEW r, OpenedBeside(q), r.value = q.value, q.value.workspace \in Workspaces, q.ahead \in Nat,
         r.ahead = IF q.ahead = 0 THEN 0 ELSE q.ahead - 1
  PROVE  /\ OpenedBeside(r)'
         /\ view'.workspace = view.workspace \/ view'.workspace \in peer.open
<1> DEFINE w == q.value.workspace
           v == view.workspace
           e == events[1].workspace
<1>1. UNCHANGED <<peer, change>> /\ v \in SomeWorkspace
  BY TakeEventShape, ViewFits DEF Sound
<1>2. /\ peer.up /\ w \in peer.open /\ (w.id = v.id => w = v)
      /\ \A j \in Told : j <= q.ahead /\ events[j].workspace \in peer.open
      /\ \A x \in peer.open : x = w \/ (x.root = v.root /\ w.root # v.root)
      /\ \A x \in peer.open : x.root = v.root => v = x \/ \E j \in Told : events[j].workspace = x
      /\ v = NoWorkspace => \E j \in Told : events[j].workspace = w
  BY DEF OpenedBeside
<1>3. \A x \in Workspaces : x # NoWorkspace /\ x.root # NoDirectory
  BY DEF Sound, WorkspaceAssumption, Workspaces, NoWorkspace
<1>4. peer.open \subseteq Workspaces /\ NoWorkspace.root = NoDirectory
  BY PeerShape DEF NoWorkspace
<1>5. \A j \in Told' : j <= r.ahead /\ events'[j].workspace \in peer.open
  <2> SUFFICES ASSUME NEW j \in Told'
               PROVE  j <= r.ahead /\ events'[j].workspace \in peer.open
    OBVIOUS
  <2>1. j \in Nat \ {0} /\ j + 1 \in Told /\ events'[j] = events[j + 1]
    BY EventGoes
  <2>2. j + 1 <= q.ahead
    BY <1>2, <2>1
  <2> QED
    BY <1>2, <2>1, <2>2
<1>6. \A x : (\E j \in Told : events[j].workspace = x) =>
        (Tells(events[1]) /\ x = e) \/ \E j \in Told' : events'[j].workspace = x
  BY EventGoes
<1>7. \A x, y \in peer.open : x.id = y.id \/ x.root = y.root => x = y
  BY DEF IdsHold
<1> HIDE DEF w, v, e
<1>8. CASE view'.workspace = v /\ (Tells(events[1]) => v = e \/ (v # NoWorkspace /\ v.root # e.root))
  <2>1. Tells(events[1]) => e \in Workspaces
    BY EventGoes DEF e
  <2>2. \A x \in peer.open : x.root = v.root => v = x \/ \E j \in Told' : events'[j].workspace = x
    BY <1>2, <1>6, <1>8
  <2>3. v = NoWorkspace => \E j \in Told' : events'[j].workspace = w
    BY <1>2, <1>3, <1>6, <1>8, <2>1
  <2> QED
    BY <1>1, <1>2, <1>5, <1>8, <2>2, <2>3 DEF OpenedBeside, w, v
<1>9. CASE Tells(events[1]) /\ view'.workspace = e /\ v.root = e.root
  <2>1. e \in peer.open /\ e # NoWorkspace
    BY <1>2, <1>3, <1>4, <1>9, EventGoes DEF e
  <2>2. w.id = e.id => w = e
    BY <1>2, <1>7, <2>1
  <2>3. \A x \in peer.open : x.root = e.root => e = x
    BY <1>7, <2>1
  <2>4. \A x \in peer.open : x = w \/ (x.root = e.root /\ w.root # e.root)
    BY <1>2, <1>9
  <2>5. OpenedBeside(r)'
    BY <1>1, <1>2, <1>5, <1>9, <2>1, <2>2, <2>3, <2>4 DEF OpenedBeside, w
  <2> QED
    BY <1>9, <2>1, <2>5 DEF v
<1>10. CASE Tells(events[1]) /\ view'.workspace = e /\ v = NoWorkspace
  <2>1. e \in peer.open /\ e # NoWorkspace
    BY <1>2, <1>3, <1>4, <1>10, EventGoes DEF e
  <2>2. \A x \in peer.open : x = w
    BY <1>2, <1>3, <1>4, <1>10
  <2>3. e = w
    BY <2>1, <2>2
  <2>4. OpenedBeside(r)'
    BY <1>1, <1>2, <1>5, <1>10, <2>1, <2>2, <2>3 DEF OpenedBeside, w
  <2> QED
    BY <1>10, <2>1, <2>4 DEF v
<1>11. CASE Tells(events[1])
  <2>1. e \in Workspaces /\ view' = OnWorkspace(view, e)
    BY <1>11, TakeEventShape, EventGoes DEF e
  <2>2. Pending
    BY DEF Pending
  <2>3. \/ view' = view /\ (v = e \/ (v # NoWorkspace /\ v.root # e.root))
        \/ v.root = e.root /\ view'.workspace = e
        \/ view' = Replaced(view, e) /\ v = NoWorkspace
    BY <2>1, <2>2, OnWorkspaceShape DEF Sound, v
  <2>4. Replaced(view, e).workspace = e
    BY DEF Replaced
  <2> QED
    BY <1>8, <1>9, <1>10, <1>11, <2>3, <2>4 DEF v
<1>12. CASE ~Tells(events[1])
  <2>1. view'.workspace = v
    BY <1>12, TakeEventShape DEF But, Fields, v
  <2> QED
    BY <1>8, <1>12, <2>1
<1> QED
  BY <1>11, <1>12

\* What the change waits for still fits.
LEMMA ChangeHears ==
  ASSUME Sound, TakeEvent, OneByOne, IdsHold, ChangeFits
  PROVE  ChangeFits' /\ (view'.workspace = view.workspace \/ view'.workspace \in peer.open)
<1>1. UNCHANGED <<change, calls, peer>>
  BY TakeEventShape
<1>2. view'.workspace = view.workspace \/ Tells(events[1])
  BY TakeEventShape DEF But, Fields
<1>3. Following => Following' /\ (view'.workspace = view.workspace \/ view'.workspace \in peer.open)
  BY <1>2, FollowingHears, FollowingShifts
<1>4. \A r \in AnswersTo(replies', change.call) : \E q \in AnswersTo(replies, change.call) :
        r.ok = q.ok /\ r.value = q.value /\ q.ahead \in Nat /\ r.ahead = IF q.ahead = 0 THEN 0 ELSE q.ahead - 1
  BY EventGoes
<1>5. CASE change.step = "asked" /\ change.op = "open" /\ OpenAsked
  <2>1. \A q \in AnswersTo(replies, change.call) : Brings(q) => q.value.workspace \in Workspaces
    BY AnswersFit DEF Brings, Answers, SomeWorkspace
  <2>2. ASSUME NEW r \in AnswersTo(replies', change.call), Brings(r)
        PROVE  OpenedBeside(r)' /\ (view'.workspace = view.workspace \/ view'.workspace \in peer.open)
    <3>1. PICK q \in AnswersTo(replies, change.call) :
            r.ok = q.ok /\ r.value = q.value /\ q.ahead \in Nat /\ r.ahead = IF q.ahead = 0 THEN 0 ELSE q.ahead - 1
      BY <1>4
    <3>2. Brings(q)
      BY <2>2, <3>1 DEF Brings
    <3>3. OpenedBeside(q) /\ q.value.workspace \in Workspaces
      BY <1>5, <2>1, <3>2 DEF OpenAsked
    <3> QED
      BY <1>5, <3>1, <3>3, BesideHears
  <2>3. CASE \E q \in AnswersTo(replies, change.call) : Brings(q)
    <3>1. \E r \in AnswersTo(replies', change.call) : Brings(r)
      BY <2>3, EventGoes DEF Brings
    <3>2. OpenAsked'
      BY <1>1, <2>2, <3>1 DEF OpenAsked
    <3> QED
      BY <1>1, <1>5, <2>2, <3>1, <3>2 DEF ChangeFits
  <2>4. CASE \A q \in AnswersTo(replies, change.call) : ~Brings(q)
    <3>1. Following
      BY <1>5, <2>4 DEF OpenAsked
    <3>2. OpenAsked'
      BY <1>1, <1>3, <2>2, <3>1 DEF OpenAsked
    <3> QED
      BY <1>1, <1>3, <1>5, <3>1, <3>2 DEF ChangeFits
  <2> QED
    BY <2>3, <2>4
<1>6. CASE change.step = "asked" /\ change.op = "close" /\ CloseAsked
  <2>1. CASE Closed
    <3>1. Told' = {} /\ ~Tells(events[1])
      <4>1. Told = {}
        BY <2>1 DEF Closed
      <4>2. \A i \in Told' : FALSE
        BY <4>1, EventGoes
      <4> QED
        BY <4>1, <4>2, EventGoes
    <3>2. view'.workspace = view.workspace
      BY <1>2, <3>1
    <3>3. \E r \in AnswersTo(replies', change.call) : r.ok
      BY <2>1, EventGoes DEF Closed
    <3>4. Closed'
      BY <1>1, <2>1, <3>1, <3>2, <3>3 DEF Closed
    <3>5. CloseAsked'
      BY <1>1, <1>6, <3>4, TakeEventShape DEF CloseAsked
    <3> QED
      BY <1>1, <1>6, <3>2, <3>5 DEF ChangeFits
  <2>2. CASE Spared
    <3>1. Following' /\ (view'.workspace = view.workspace \/ view'.workspace \in peer.open)
      BY <1>3, <2>2 DEF Spared
    <3>2. \/ view'.workspace = change.target
          \/ view'.workspace.id # change.target.id /\ \A x \in peer.open : x.id # change.target.id
      <4>1. CASE ~Tells(events[1])
        BY <1>2, <2>2, <4>1 DEF Spared
      <4>2. CASE Tells(events[1])
        <5> DEFINE w == events[1].workspace
        <5>1. peer.open = {w} /\ view.workspace.root = w.root /\ view.workspace # w /\ view'.workspace = w
          BY <2>2, <4>2, FollowingHears DEF Spared
        <5>2. w \in Workspaces /\ view.workspace \in SomeWorkspace
          BY <4>2, EventGoes, ViewFits DEF Sound
        <5>3. view.workspace.id # w.id
          BY <5>1, <5>2 DEF Sound, WorkspaceAssumption, SomeWorkspace, Workspaces, NoWorkspace
        <5> QED
          BY <2>2, <5>1, <5>3 DEF Spared
      <4> QED
        BY <4>1, <4>2
    <3>3. ASSUME NEW r \in AnswersTo(replies', change.call), r.ok
          PROVE  peer.up /\ (\A j \in Told' : j <= r.ahead) /\ \A x \in peer.open : x.id # change.target.id
      <4>1. PICK q \in AnswersTo(replies, change.call) :
              r.ok = q.ok /\ q.ahead \in Nat /\ r.ahead = IF q.ahead = 0 THEN 0 ELSE q.ahead - 1
        BY <1>4
      <4>2. peer.up /\ (\A j \in Told : j <= q.ahead) /\ \A x \in peer.open : x.id # change.target.id
        BY <2>2, <3>3, <4>1 DEF Spared
      <4>3. ASSUME NEW j \in Told'
            PROVE  j <= r.ahead
        <5>1. j \in Nat \ {0} /\ j + 1 \in Told
          BY EventGoes
        <5>2. j + 1 <= q.ahead
          BY <4>2, <5>1
        <5> QED
          BY <4>1, <5>1, <5>2
      <4> QED
        BY <4>2, <4>3
    <3>4. Spared'
      BY <1>1, <3>1, <3>2, <3>3 DEF Spared
    <3>5. CloseAsked'
      BY <1>1, <1>6, <3>4, TakeEventShape DEF CloseAsked
    <3> QED
      BY <1>1, <1>6, <3>1, <3>5 DEF ChangeFits
  <2> QED
    BY <1>6, <2>1, <2>2 DEF CloseAsked
<1>7. CASE change.step = "leaving" /\ LeavingOld
  <2>1. Told = {} /\ Told' = {} /\ ~Tells(events[1])
    <3>1. Told = {}
      BY <1>7 DEF LeavingOld
    <3>2. \A i \in Told' : FALSE
      BY <3>1, EventGoes
    <3> QED
      BY <3>1, <3>2, EventGoes
  <2>2. view'.workspace = view.workspace
    BY <1>2, <2>1
  <2>3. \A r \in AnswersTo(replies', change.call) : r.ok /\ peer.open = {change.target}
    BY <1>4, <1>7 DEF LeavingOld
  <2>4. LeavingOld'
    BY <1>1, <1>7, <2>1, <2>2, <2>3 DEF LeavingOld
  <2> QED
    BY <1>1, <1>7, <2>2, <2>4 DEF ChangeFits
<1>8. CASE change.step \in {"none", "listing", "resuming"} /\ Following
  BY <1>1, <1>3, <1>8 DEF ChangeFits
<1> QED
  BY <1>5, <1>6, <1>7, <1>8, Stages

LEMMA TakeEventFollows ==
  ASSUME Sound, FollowInv, TakeEvent
  PROVE  FollowInv'
<1>1. OneByOne /\ SlotsUsed
  BY DEF FollowInv
<1>2. UNCHANGED <<change, calls, peer, count, disturbed>>
  BY TakeEventShape
<1>3. OneByOne'
  BY <1>1, <1>2 DEF OneByOne
\* The slots are kept, or given up with the workspace they were used in.
<1>4. /\ view'.opens \in {view.opens, {}}
      /\ \/ view'.start = view.start /\ view'.starting = view.starting /\ view'.workspace = view.workspace
         \/ view'.start = 0 /\ ~view'.starting
         \/ view'.start = 0 /\ view'.starting = view.starting /\ Tells(events[1])
            /\ view.workspace.root = events[1].workspace.root /\ view.workspace # events[1].workspace
  <2>1. CASE Tells(events[1])
    <3>1. view' = OnWorkspace(view, events[1].workspace) /\ events[1].workspace \in Workspaces
      BY <2>1, TakeEventShape, EventGoes
    <3>2. LET w == events[1].workspace
          IN /\ Replaced(view, w).start = 0 /\ Replaced(view, w).opens = {} /\ ~Replaced(view, w).starting
      BY DEF Replaced
    <3> QED
      BY <2>1, <3>1, <3>2, OnWorkspaceShape DEF Sound, But, Fields
  <2>2. CASE ~Tells(events[1])
    BY <2>2, TakeEventShape DEF But, Fields
  <2> QED
    BY <2>1, <2>2
<1>5. SlotsUsed'
  BY <1>1, <1>2, <1>4, SlotsKept
<1>6. ASSUME ~disturbed'
      PROVE  IdsHold' /\ ChangeFits' /\ StartFits'
  <2>1. IdsHold /\ ChangeFits /\ StartFits
    BY <1>2, <1>6 DEF FollowInv
  <2>2. ChangeFits' /\ (view'.workspace = view.workspace \/ view'.workspace \in peer.open)
    BY <1>1, <2>1, ChangeHears
  <2>3. IdsHold'
    <3>1. \A w \in peer.open : w.id <= count.ids
      BY <2>1, CountShape DEF IdsHold, Sound
    <3> QED
      BY <1>2, <2>1, <2>2, <3>1 DEF IdsHold
  <2>4. StartFits'
    <3>1. CASE view'.start = view.start /\ view'.starting = view.starting /\ view'.workspace = view.workspace
      <4>1. \A i \in Told' : i + 1 \in Told /\ events'[i] = events[i + 1]
        BY EventGoes
      <4>2. AnswersTo(replies, view.start) # {} => AnswersTo(replies', view.start) # {}
        BY EventGoes
      <4> QED
        BY <1>2, <2>1, <3>1, <4>1, <4>2 DEF StartFits
    <3>2. CASE view'.start = 0 /\ ~view'.starting
      BY <3>2 DEF StartFits
    <3>3. CASE /\ view'.start = 0 /\ view'.starting = view.starting /\ Tells(events[1])
               /\ view.workspace.root = events[1].workspace.root /\ view.workspace # events[1].workspace
      <4>1. 1 \in Told /\ events[1].workspace \in Workspaces /\ view.workspace \in SomeWorkspace
        BY <3>3, EventGoes, ViewFits DEF Sound
      <4>2. events[1].workspace.id # view.workspace.id
        BY <3>3, <4>1 DEF Sound, WorkspaceAssumption, SomeWorkspace, Workspaces, NoWorkspace
      <4>3. ~view.starting
        BY <2>1, <3>3, <4>1, <4>2 DEF StartFits
      <4> QED
        BY <3>3, <4>3 DEF StartFits
    <3> QED
      BY <1>4, <3>1, <3>2, <3>3
  <2> QED
    BY <2>2, <2>3, <2>4
<1> QED
  BY <1>3, <1>5, <1>6 DEF FollowInv

-----------------------------------------------------------------------------
(* The host. *)

\* A directory is opened beside what is open, and the window is about to hear of it.
LEMMA OpenServed ==
  ASSUME Sound, IdsHold, Following, StartFits, UNCHANGED view, NewPort,
         NEW c, NEW w \in Workspaces, NEW old, NEW before \in Seq(Events),
         old = (IF peer.up THEN peer.open ELSE {}), before = (IF peer.up THEN events ELSE <<>>),
         peer'.up, peer'.open = old \cup {w},
         w \in old \/ (w.id = count.ids + 1 /\ \A x \in old : x.root # w.root),
         events' = Append(before, WorkspaceEvent(w)),
         count'.ids = (IF w \in old THEN count.ids ELSE count.ids + 1),
         NEW r, r.value.workspace = w, r.ahead = Len(events')
  PROVE  OpenedBeside(r)' /\ IdsHold' /\ StartFits'
<1> DEFINE v == view.workspace
           last == Len(before) + 1
<1>1. /\ last \in Nat \ {0} /\ Len(events') = last /\ DOMAIN events' = 1..last /\ events'[last] = WorkspaceEvent(w)
      /\ \A i \in DOMAIN before : i \in DOMAIN events' /\ events'[i] = before[i]
      /\ \A i \in DOMAIN events' : i = last \/ i \in DOMAIN before
  OBVIOUS
<1>2. WorkspaceEvent(w).name = "workspace_changed" /\ WorkspaceEvent(w).workspace = w
  BY DEF WorkspaceEvent
<1>3. last \in Told' /\ events'[last].workspace = w
  BY <1>1, <1>2 DEF Told, Tells
<1>4. ASSUME NEW i \in Told'
      PROVE  i <= Len(events') /\ ((i = last) \/ (peer.up /\ i \in Told /\ events'[i] = events[i]))
  <2>1. i \in DOMAIN events' /\ Tells(events'[i])
    BY DEF Told
  <2>2. CASE i = last
    BY <1>1, <2>2
  <2>3. CASE i # last
    <3>1. i \in DOMAIN before /\ events'[i] = before[i]
      BY <1>1, <2>1, <2>3
    <3>2. peer.up /\ before = events
      BY <3>1
    <3> QED
      BY <1>1, <2>1, <3>1, <3>2 DEF Told
  <2> QED
    BY <2>2, <2>3
<1>5. ASSUME peer.up, NEW i \in Told
      PROVE  i \in Told' /\ events'[i] = events[i]
  BY <1>1, <1>5 DEF Told
<1> HIDE DEF last
<1>6. v \in SomeWorkspace /\ v.id \in Nat /\ count.ids \in Nat /\ v.id <= count.ids /\ peer.open \subseteq Workspaces
  BY ViewFits, CountShape, PeerShape DEF IdsHold, Sound
<1>7. \A x \in Workspaces : /\ x # NoWorkspace /\ x.root # NoWorkspace.root
                           /\ \A y \in Workspaces : x.id = y.id /\ x.root = y.root => x = y
  BY DEF Sound, WorkspaceAssumption, Workspaces, NoWorkspace
<1>8. v.root \in Directories => v \in Workspaces
  BY <1>6 DEF SomeWorkspace, NoWorkspace, Workspaces, Sound, WorkspaceAssumption
<1>9. \A x \in peer.open : peer.open = {x} /\ v.root = x.root /\ v \in Workspaces
  <2> SUFFICES ASSUME NEW x \in peer.open
               PROVE  peer.open = {x} /\ v.root = x.root /\ v \in Workspaces
    OBVIOUS
  <2>1. peer.open = {x} /\ v.root = x.root
    BY DEF Following
  <2>2. x.root \in Directories
    BY <1>6 DEF Workspaces
  <2> QED
    BY <1>8, <2>1, <2>2
<1>10. \A x \in old : x \in peer.open /\ peer.up
  OBVIOUS
<1>11. IdsHold'
  <2>1. \A x \in peer.open : x.id \in 1..count.ids
    BY DEF IdsHold
  <2>2. CASE w \in old
    <3>1. peer'.open = peer.open /\ count'.ids = count.ids
      BY <1>10, <2>2
    <3> QED
      BY <3>1 DEF IdsHold
  <2>3. CASE w \notin old
    <3>1. count'.ids = count.ids + 1 /\ w.id = count.ids + 1 /\ \A x \in old : x.root # w.root /\ x.id \in 1..count.ids
      BY <1>10, <2>1, <2>3
    <3>2. \A x \in old \cup {w} : x.id \in 1..count'.ids
      BY <1>6, <3>1
    <3>3. \A x \in old : x.id # w.id
      BY <1>6, <3>1
    <3>4. \A x, y \in old : x.id = y.id \/ x.root = y.root => x = y
      BY <1>10 DEF IdsHold
    <3>5. \A x, y \in old \cup {w} : x.id = y.id \/ x.root = y.root => x = y
      BY <3>1, <3>3, <3>4
    <3>6. view'.workspace.id <= count'.ids
      BY <1>6, <3>1
    <3> QED
      BY <3>2, <3>5, <3>6 DEF IdsHold
  <2> QED
    BY <2>2, <2>3
<1>12. OpenedBeside(r)'
  <2>1. w.id = v.id => w = v
    <3>1. CASE w \in old
      BY <1>7, <1>9, <1>10, <3>1
    <3>2. CASE w \notin old
      BY <1>6, <3>2
    <3> QED
      BY <3>1, <3>2
  <2>2. \A j \in Told' : j <= r.ahead /\ events'[j].workspace \in peer'.open
    <3>1. \A j \in Told : events[j].workspace \in peer.open
      BY DEF Following
    <3> QED
      BY <1>3, <1>4, <3>1
  <2>3. \A x \in peer'.open : x = w \/ (x.root = v.root /\ w.root # v.root)
    BY <1>9, <1>10
  <2>4. \A x \in peer'.open : x.root = v.root => v = x \/ \E j \in Told' : events'[j].workspace = x
    <3>1. ASSUME NEW x \in old, v # x
          PROVE  \E j \in Told' : events'[j].workspace = x
      <4>1. peer.open = {x} /\ peer.up
        BY <1>9, <1>10, <3>1
      <4>2. Told # {} /\ \A j \in Told : events[j].workspace = x
        BY <3>1, <4>1 DEF Following
      <4>3. PICK j \in Told : events[j].workspace = x
        BY <4>2
      <4> QED
        BY <1>5, <4>1, <4>3
    <3>2. \E j \in Told' : events'[j].workspace = w
      BY <1>3
    <3>3. ASSUME NEW x \in peer'.open, v # x
          PROVE  \E j \in Told' : events'[j].workspace = x
      BY <3>1, <3>2, <3>3
    <3> QED
      BY <3>3
  <2>5. v = NoWorkspace => \E j \in Told' : events'[j].workspace = w
    BY <1>3
  <2> QED
    BY <2>1, <2>2, <2>3, <2>4, <2>5 DEF OpenedBeside
<1>13. StartFits'
  <2>1. ASSUME view.start # 0
        PROVE  peer.up /\ v # NoWorkspace /\ \A j \in Told : events[j].workspace.root = v.root => events[j].workspace.id = v.id
    <3>1. peer.up \/ AnswersTo(replies, view.start) # {}
      BY <2>1 DEF StartFits
    <3>2. replies = <<>> => AnswersTo(replies, view.start) = {}
      BY DEF AnswersTo, ToSet
    <3>3. v # NoWorkspace /\ \A j \in Told : events[j].workspace.root = v.root => events[j].workspace.id = v.id
      BY <2>1 DEF StartFits
    <3> QED
      BY <3>1, <3>2, <3>3 DEF NewPort
  <2>2. ASSUME view.start # 0, w.root = v.root
        PROVE  w.id = v.id
    <3>1. peer.up /\ peer.open # {} /\ old = peer.open
      BY <2>1, <2>2 DEF Following
    <3>2. peer.open = {w}
      BY <1>9, <2>2, <3>1
    <3>3. w = v \/ \E j \in Told : events[j].workspace = w
      BY <3>2 DEF Following
    <3> QED
      BY <2>1, <2>2, <3>3
  <2>3. ASSUME view.start # 0, NEW i \in Told', events'[i].workspace.root = v.root
        PROVE  events'[i].workspace.id = v.id
    <3>1. CASE i = last
      BY <1>3, <2>2, <2>3, <3>1
    <3>2. CASE i \in Told /\ events'[i] = events[i]
      BY <2>1, <2>3, <3>2
    <3> QED
      BY <1>4, <3>1, <3>2
  <2>4. view.starting => view.start # 0
    BY DEF StartFits
  <2> QED
    BY <2>1, <2>3, <2>4 DEF StartFits
<1> QED
  BY <1>11, <1>12, <1>13

\* What a close leaves open.
LEMMA CloseServed ==
  ASSUME Sound, OneByOne, IdsHold, ChangeFits, UNCHANGED <<view, change, calls, events, count>>, peer.up, peer'.up,
         NEW c \in calls, c.n = change.call, c.kind = "close_workspace", peer'.open = {w \in peer.open : w.id # c.id},
         NEW r, r.ok, r.ahead = Len(events),
         AnswersTo(replies, change.call) = {}, AnswersTo(replies', change.call) = {r}
  PROVE  IdsHold' /\ ChangeFits'
<1> DEFINE v == view.workspace
<1>1. IdsHold' /\ Told' = Told
  BY DEF IdsHold, Told
<1>2. \A j \in Told : j <= Len(events)
  BY DEF Told, Sound, WorkspaceTypeOK
<1>3. (change.step = "asked" /\ change.op = "close") \/ change.step \in {"leaving", "rolling back"}
  BY Awaited
<1>4. CASE change.step = "asked" /\ change.op = "close"
  <2>1. CloseAsked
    BY <1>4 DEF ChangeFits
  <2>2. c.id = change.target.id /\ Spared
    BY <2>1 DEF CloseAsked, Closed
  <2>3. CASE v = change.target /\ Told = {}
    <3>1. peer.open = {v}
      BY <2>1, <2>2, <2>3 DEF CloseAsked, Spared, Following
    <3>2. Closed'
      BY <1>1, <2>2, <2>3, <3>1 DEF Closed
    <3>3. CloseAsked'
      BY <2>1, <3>2 DEF CloseAsked
    <3> QED
      BY <1>1, <1>4, <3>3 DEF ChangeFits
  <2>4. CASE ~(v = change.target /\ Told = {})
    <3>1. \A x \in peer.open : x.id # change.target.id
      <4>1. CASE v = change.target
        <5> SUFFICES ASSUME NEW x \in peer.open
                     PROVE  x.id # change.target.id
          OBVIOUS
        <5>1. x.root = v.root /\ v # x
          BY <2>2, <2>4, <4>1 DEF Spared, Following
        <5>2. x \in Workspaces /\ v \in SomeWorkspace
          BY PeerShape, ViewFits DEF Sound
        <5> QED
          BY <4>1, <5>1, <5>2 DEF SomeWorkspace, Workspaces, NoWorkspace, Sound, WorkspaceAssumption
      <4>2. CASE v # change.target
        BY <2>2, <4>2 DEF Spared
      <4> QED
        BY <4>1, <4>2
    <3>2. peer'.open = peer.open
      BY <2>2, <3>1
    <3>3. Following'
      BY <1>1, <2>2, <3>2 DEF Following, Spared
    <3>4. v = change.target \/ v.id # change.target.id
      BY <2>2 DEF Spared
    <3>5. Spared'
      BY <1>1, <1>2, <3>1, <3>2, <3>3, <3>4 DEF Spared
    <3>6. CloseAsked'
      BY <2>1, <3>5 DEF CloseAsked
    <3> QED
      BY <1>1, <1>4, <3>6 DEF ChangeFits
  <2> QED
    BY <2>3, <2>4
<1>5. CASE change.step = "leaving"
  <2>1. LeavingOld
    BY <1>5 DEF ChangeFits
  <2>2. c.id = v.id /\ v.id # change.target.id /\ change.target \in peer.open /\ peer.open \subseteq {change.target, v}
    BY <2>1 DEF LeavingOld
  <2>3. peer'.open = {change.target}
    BY <2>2
  <2>4. LeavingOld'
    BY <1>1, <2>1, <2>3 DEF LeavingOld
  <2> QED
    BY <1>1, <1>5, <2>4 DEF ChangeFits
<1>6. change.step # "rolling back"
  BY DEF ChangeFits
<1> QED
  BY <1>3, <1>4, <1>5, <1>6

\* An answer that changes nothing of what is open.
LEMMA OtherServed ==
  ASSUME Sound, OneByOne, IdsHold, ChangeFits, Steady, UNCHANGED <<view, change, calls>>, NEW c \in calls, NEW r,
         c.kind = "close_workspace" => ~peer.up /\ ~r.ok, c.kind = "open_workspace" => ~Brings(r),
         AnswersTo(replies, c.n) = {}, AnswersTo(replies', c.n) = {r},
         \A n : n # c.n => AnswersTo(replies', n) = AnswersTo(replies, n)
  PROVE  IdsHold' /\ ChangeFits'
<1>1. CASE c.n # change.call
  BY <1>1, FitsKept
<1>2. CASE c.n = change.call
  <2>1. IdsHold' /\ (Following => Following')
    BY FollowingKept DEF IdsHold, Steady
  <2>2. CASE change.step = "asked" /\ change.op = "open" /\ OpenAsked
    <3>1. c.kind = "open_workspace"
      BY <1>2, <2>2, Awaited
    <3>2. Following
      BY <1>2, <2>2 DEF OpenAsked
    <3>3. OpenAsked'
      BY <1>2, <2>1, <3>1, <3>2 DEF OpenAsked
    <3> QED
      BY <2>1, <2>2, <3>3 DEF ChangeFits
  <2>3. CASE change.step = "asked" /\ change.op = "close" /\ CloseAsked
    <3>1. ~r.ok
      BY <1>2, <2>3, Awaited
    <3>2. Spared
      BY <1>2, <2>3 DEF CloseAsked, Closed
    <3>3. Spared'
      BY <1>2, <2>1, <3>1, <3>2 DEF Spared, Steady
    <3>4. CloseAsked'
      BY <2>3, <3>3 DEF CloseAsked, Steady
    <3> QED
      BY <2>1, <2>3, <3>4 DEF ChangeFits
  <2>4. CASE change.step = "leaving" /\ LeavingOld
    BY <1>2, <2>4, Awaited DEF LeavingOld
  <2>5. CASE change.step \in {"none", "listing", "resuming"} /\ Following
    BY <2>1, <2>5 DEF ChangeFits
  <2> QED
    BY <2>2, <2>3, <2>4, <2>5, Stages
<1> QED
  BY <1>1, <1>2

\* Nothing of it changes the commands that are under way.
LEMMA HostKeeps ==
  ASSUME Sound, FollowInv, HostOnly, UNCHANGED calls, count'.calls = count.calls
  PROVE  OneByOne' /\ SlotsUsed' /\ UNCHANGED <<view, change>>
  BY DEF FollowInv, OneByOne, SlotsUsed, HostOnly

LEMMA ServeFollows ==
  ASSUME Sound, FollowInv, Serve
  PROVE  FollowInv'
<1>1. OneByOne /\ SlotsUsed /\ HostOnly /\ UNCHANGED <<calls, disturbed>>
  BY ServeShape DEF FollowInv
<1>2. PICK c \in Unanswered :
        \/ c.kind = "open_workspace" /\ ServeOpen(c)
        \/ /\ c.kind = "close_workspace" /\ peer.up /\ peer'.up /\ UNCHANGED <<events, count>>
           /\ peer'.open = {w \in peer.open : w.id # c.id}
           /\ replies' = Append(replies, Reply(c, TRUE, NoWorkspace, NoSession, events))
        \/ /\ c.kind = "close_workspace" => ~peer.up
           /\ UNCHANGED <<events, count>> /\ peer'.up = peer.up /\ peer'.open = peer.open
           /\ \E r \in Answers :
                /\ replies' = Append(replies, r) /\ r.n = c.n /\ r.ahead = Len(events)
                /\ c.kind = "close_workspace" => ~r.ok
                /\ c.kind = "open_workspace" => ~r.ok \/ r.value.workspace = NoWorkspace
  BY ServeShape
<1>3. c \in calls /\ c \in Asks
  BY DEF Unanswered, Sound, WorkspaceTypeOK
<1>4. UNCHANGED <<view, change>>
  BY <1>1 DEF HostOnly
<1>5. ~disturbed' => IdsHold /\ ChangeFits /\ StartFits
  BY <1>1 DEF FollowInv
<1>6. CASE c.kind = "open_workspace" /\ ServeOpen(c)
  <2>1. PICK w \in Workspaces, old \in SUBSET Workspaces, before \in Seq(Events) :
          /\ old = (IF peer.up THEN peer.open ELSE {}) /\ before = (IF peer.up THEN events ELSE <<>>)
          /\ peer'.open = old \cup {w}
          /\ w \in old \/ (w.id = count.ids + 1 /\ \A x \in old : x.root # w.root)
          /\ events' = Append(before, WorkspaceEvent(w))
          /\ replies' = Append(replies, Reply(c, TRUE, w, NoSession, events'))
          /\ count'.ids = (IF w \in old THEN count.ids ELSE count.ids + 1)
          /\ count'.calls = count.calls
    BY <1>1, <1>6, ServeOpenShape
  <2>2. peer'.up /\ Sound' /\ NewPort
    BY <1>1, <1>6, ServeOpenShape DEF ServeOpen
  <2>3. OneByOne' /\ SlotsUsed'
    BY <1>1, <2>1, HostKeeps
  <2>4. events' \in Seq(Events) /\ w \in SomeWorkspace /\ NoSession \in SomeSession
    BY <2>2 DEF Sound, WorkspaceTypeOK, SomeWorkspace, SomeSession
  <2>5. PICK ok \in BOOLEAN : ok /\ replies' = Append(replies, Reply(c, ok, w, NoSession, events'))
    BY <2>1
  <2>6. PICK r \in Answers : /\ replies' = Append(replies, r) /\ r.n = c.n /\ r.ok /\ r.value.workspace = w
                             /\ r.ahead = Len(events')
    <3>1. LET r == Reply(c, ok, w, NoSession, events')
          IN r \in Answers /\ r.n = c.n /\ r.ok = ok /\ r.value.workspace = w /\ r.ahead = Len(events')
      BY <1>3, <2>4, ReplyShape
    <3> QED
      BY <2>5, <3>1
  <2>7. AnswersTo(replies, c.n) = {} /\ AnswersTo(replies', c.n) = {r}
    BY <2>6, AnswerComes
  <2>8. c.n = change.call /\ change.step = "asked" /\ change.op = "open"
    <3>1. "open_workspace" \in OfChanges
      BY DEF OfChanges
    <3> QED
      BY <1>1, <1>3, <1>6, <3>1, Awaited
  <2>9. ASSUME ~disturbed'
        PROVE  IdsHold' /\ ChangeFits' /\ StartFits'
    <3>1. IdsHold /\ StartFits /\ OpenAsked
      BY <1>5, <2>8, <2>9 DEF ChangeFits
    <3>2. Following
      BY <2>7, <2>8, <3>1 DEF OpenAsked
    <3>3. OpenedBeside(r)' /\ IdsHold' /\ StartFits'
      BY <1>4, <2>1, <2>2, <2>6, <3>1, <3>2, OpenServed
    <3>4. w # NoWorkspace
      BY DEF Sound, WorkspaceAssumption, Workspaces, NoWorkspace
    <3>5. OpenAsked'
      BY <1>4, <2>6, <2>7, <2>8, <3>3, <3>4 DEF OpenAsked, Brings
    <3> QED
      BY <1>4, <2>8, <3>3, <3>5 DEF ChangeFits
  <2> QED
    BY <2>3, <2>9 DEF FollowInv
<1>7. CASE /\ c.kind = "close_workspace" /\ peer.up /\ peer'.up /\ UNCHANGED <<events, count>>
           /\ peer'.open = {w \in peer.open : w.id # c.id}
           /\ replies' = Append(replies, Reply(c, TRUE, NoWorkspace, NoSession, events))
  <2>1. PICK ok \in BOOLEAN : ok /\ replies' = Append(replies, Reply(c, ok, NoWorkspace, NoSession, events))
    BY <1>7
  <2>2. PICK r \in Answers : replies' = Append(replies, r) /\ r.n = c.n /\ r.ok /\ r.ahead = Len(events)
    <3>1. events \in Seq(Events) /\ NoWorkspace \in SomeWorkspace /\ NoSession \in SomeSession
      BY DEF Sound, WorkspaceTypeOK, SomeWorkspace, SomeSession
    <3>2. LET r == Reply(c, ok, NoWorkspace, NoSession, events)
          IN r \in Answers /\ r.n = c.n /\ r.ok = ok /\ r.ahead = Len(events)
      BY <1>3, <3>1, ReplyShape
    <3> QED
      BY <2>1, <3>2
  <2>3. /\ AnswersTo(replies, c.n) = {} /\ AnswersTo(replies', c.n) = {r}
        /\ \A n : n # c.n => AnswersTo(replies', n) = AnswersTo(replies, n)
    BY <2>2, AnswerComes
  <2>4. c.n = change.call
    <3>1. "close_workspace" \in OfChanges
      BY DEF OfChanges
    <3> QED
      BY <1>1, <1>3, <1>7, <3>1, Awaited
  <2>5. OneByOne' /\ SlotsUsed'
    BY <1>1, <1>7, HostKeeps
  <2>6. ASSUME ~disturbed'
        PROVE  IdsHold' /\ ChangeFits' /\ StartFits'
    <3>1. IdsHold' /\ ChangeFits'
      BY <1>1, <1>3, <1>4, <1>5, <1>7, <2>2, <2>3, <2>4, <2>6, CloseServed
    <3>2. Told' = Told
      BY <1>7 DEF Told
    <3>3. StartFits'
      BY <1>4, <1>5, <1>7, <2>6, <3>2 DEF StartFits
    <3> QED
      BY <3>1, <3>3
  <2> QED
    BY <2>5, <2>6 DEF FollowInv
<1>8. CASE /\ c.kind = "close_workspace" => ~peer.up
           /\ UNCHANGED <<events, count>> /\ peer'.up = peer.up /\ peer'.open = peer.open
           /\ \E r \in Answers :
                /\ replies' = Append(replies, r) /\ r.n = c.n /\ r.ahead = Len(events)
                /\ c.kind = "close_workspace" => ~r.ok
                /\ c.kind = "open_workspace" => ~r.ok \/ r.value.workspace = NoWorkspace
  <2>1. PICK r \in Answers : /\ replies' = Append(replies, r) /\ r.n = c.n
                             /\ c.kind = "close_workspace" => ~r.ok
                             /\ c.kind = "open_workspace" => ~Brings(r)
    BY <1>8 DEF Brings
  <2>2. /\ AnswersTo(replies, c.n) = {} /\ AnswersTo(replies', c.n) = {r}
        /\ \A n : n # c.n => AnswersTo(replies', n) = AnswersTo(replies, n)
    BY <2>1, AnswerComes
  <2>3. OneByOne' /\ SlotsUsed'
    BY <1>1, <1>8, HostKeeps
  <2>4. Steady
    BY <1>4, <1>8 DEF Steady, Told
  <2>5. ASSUME ~disturbed'
        PROVE  IdsHold' /\ ChangeFits' /\ StartFits'
    <3>1. IdsHold' /\ ChangeFits'
      BY <1>1, <1>3, <1>4, <1>5, <1>8, <2>1, <2>2, <2>4, <2>5, OtherServed
    <3>2. AnswersTo(replies, view.start) # {} => AnswersTo(replies', view.start) # {}
      BY <2>2
    <3> QED
      BY <1>4, <1>5, <2>4, <2>5, <3>1, <3>2, StartKept
  <2> QED
    BY <2>3, <2>5 DEF FollowInv
<1> QED
  BY <1>2, <1>6, <1>7, <1>8

LEMMA ResyncFollows ==
  ASSUME Sound, FollowInv, NEW s \in AllSessions, Resync(s)
  PROVE  FollowInv'
<1>1. /\ HostOnly /\ UNCHANGED <<calls, replies, peer, disturbed>> /\ count'.calls = count.calls /\ count'.ids = count.ids
  BY ResyncShape
<1>2. PICK e \in Events : events' = Append(events, e) /\ ~Tells(e)
  BY ResyncShape
<1>3. OneByOne /\ OneByOne' /\ SlotsUsed' /\ UNCHANGED <<view, change>>
  BY <1>1, HostKeeps DEF FollowInv
<1>4. Steady
  <2>1. /\ DOMAIN events' = 1..Len(events) + 1 /\ DOMAIN events = 1..Len(events) /\ Len(events) \in Nat
        /\ events'[Len(events) + 1] = e /\ \A i \in 1..Len(events) : events'[i] = events[i]
    BY <1>2 DEF Sound, WorkspaceTypeOK
  <2>2. Told' = Told
    BY <1>2, <2>1 DEF Told
  <2>3. \A i \in Told : events'[i] = events[i]
    BY <2>1 DEF Told
  <2> QED
    BY <1>1, <1>3, <2>2, <2>3 DEF Steady
<1>5. ASSUME ~disturbed'
      PROVE  IdsHold' /\ ChangeFits' /\ StartFits'
  <2>1. IdsHold /\ ChangeFits /\ StartFits
    BY <1>1, <1>5 DEF FollowInv
  <2> QED
    BY <1>1, <1>3, <1>4, <2>1, FitsKept, StartKept
<1> QED
  BY <1>3, <1>5 DEF FollowInv

LEMMA DeathFollows ==
  ASSUME Sound, FollowInv, Death
  PROVE  FollowInv'
<1>1. /\ HostOnly /\ UNCHANGED <<calls, events>> /\ peer'.open = peer.open /\ ~peer'.up
      /\ count'.calls = count.calls /\ count'.ids = count.ids
      /\ disturbed' = (disturbed \/ change.op # "none" \/ changes # <<>>)
      /\ \A c \in calls : \E i \in DOMAIN replies' : replies'[i].n = c.n
  BY DeathShape
<1>2. OneByOne /\ SlotsUsed /\ OneByOne' /\ SlotsUsed' /\ UNCHANGED <<view, change>>
  BY <1>1, HostKeeps DEF FollowInv
<1>3. ASSUME ~disturbed'
      PROVE  IdsHold' /\ ChangeFits' /\ StartFits'
  <2>1. ~disturbed /\ change.op = "none"
    BY <1>1, <1>3
  <2>2. IdsHold /\ Following /\ StartFits /\ change.step = "none" /\ Told' = Told
    BY <1>1, <1>2, <2>1 DEF FollowInv, ChangeFits, OneByOne, Told
  <2>3. IdsHold'
    BY <1>1, <1>2, <2>2 DEF IdsHold
  <2>4. ChangeFits'
    BY <1>1, <1>2, <2>2 DEF ChangeFits, Following
  <2>5. view.start # 0 => AnswersTo(replies', view.start) # {}
    BY <1>1, <1>2 DEF SlotsUsed, AnswersTo, ToSet
  <2>6. StartFits'
    BY <1>1, <1>2, <2>2, <2>5 DEF StartFits
  <2> QED
    BY <2>3, <2>4, <2>6
<1> QED
  BY <1>2, <1>3 DEF FollowInv

LEMMA BroughtBackFollows ==
  ASSUME Sound, FollowInv, NEW refused \in SUBSET Directories, NEW slow \in SUBSET Directories,
         NEW failed \in SUBSET AllSessions, BroughtBack(refused, slow, failed)
  PROVE  FollowInv'
<1> DEFINE v == view.workspace
<1>1. /\ HostOnly /\ UNCHANGED <<calls, replies>> /\ (~disturbed' => ~disturbed) /\ ~peer.up /\ peer'.up /\ replies = <<>>
      /\ count'.calls = count.calls
      /\ ~disturbed' /\ peer.open = {} =>
           peer'.open = {} /\ count'.ids = count.ids /\ \A i \in DOMAIN events' : ~Tells(events'[i])
      /\ \A w : ~disturbed' /\ peer.open = {w} =>
           \E x \in Workspaces :
             /\ x.root = w.root /\ x.id = count.ids + 1 /\ count'.ids = count.ids + 1 /\ peer'.open = {x}
             /\ 1 \in DOMAIN events' /\ events'[1].workspace = x
             /\ \A i \in DOMAIN events' : Tells(events'[i]) <=> i = 1
  BY BroughtBackShape
<1>2. OneByOne /\ SlotsUsed /\ OneByOne' /\ SlotsUsed' /\ UNCHANGED <<view, change>>
  BY <1>1, HostKeeps DEF FollowInv
<1>3. \A n : AnswersTo(replies, n) = {} /\ AnswersTo(replies', n) = {}
  BY <1>1 DEF AnswersTo, ToSet
<1>4. ASSUME ~disturbed'
      PROVE  IdsHold' /\ ChangeFits' /\ StartFits'
  <2>1. IdsHold /\ ChangeFits /\ StartFits
    BY <1>1, <1>4 DEF FollowInv
  <2>2. Following
    BY <1>1, <1>2, <1>3, <2>1, Stages DEF OpenAsked, CloseAsked, Closed, Spared, LeavingOld
  <2>3. count.ids \in Nat /\ v.id \in Nat /\ v.id <= count.ids /\ change.target.id \in Nat
    <3>1. change.target \in SomeWorkspace
      BY DEF Sound, WorkspaceTypeOK
    <3>2. \A x \in SomeWorkspace : x.id \in Nat
      BY DEF SomeWorkspace, Workspaces, NoWorkspace
    <3> QED
      BY <2>1, <3>1, <3>2, CountShape, ViewFits DEF IdsHold, Sound
  <2>4. /\ Following' /\ IdsHold' /\ count'.ids \in Nat /\ count'.ids >= count.ids
        /\ \A x \in peer'.open : x.id > count.ids
    <3>1. CASE v = NoWorkspace /\ peer.open = {} /\ Told = {}
      <4>1. peer'.open = {} /\ Told' = {} /\ count'.ids = count.ids
        BY <1>1, <1>4, <3>1 DEF Told
      <4> QED
        BY <1>2, <2>3, <3>1, <4>1 DEF Following, IdsHold
    <3>2. ASSUME NEW w \in peer.open, peer.open = {w}, v.root = w.root
          PROVE  /\ Following' /\ IdsHold' /\ count'.ids \in Nat /\ count'.ids >= count.ids
                 /\ \A x \in peer'.open : x.id > count.ids
      <4>1. PICK x \in Workspaces :
              /\ x.root = w.root /\ x.id = count.ids + 1 /\ count'.ids = count.ids + 1 /\ peer'.open = {x}
              /\ 1 \in DOMAIN events' /\ events'[1].workspace = x
              /\ \A i \in DOMAIN events' : Tells(events'[i]) <=> i = 1
        BY <1>1, <1>4, <3>2
      <4>2. Told' = {1} /\ v # x /\ v.root = x.root
        BY <2>3, <3>2, <4>1 DEF Told
      <4>3. Following'
        BY <1>2, <4>1, <4>2 DEF Following
      <4>4. IdsHold'
        BY <1>2, <2>3, <4>1 DEF IdsHold
      <4> QED
        BY <2>3, <4>1, <4>3, <4>4
    <3> QED
      BY <2>2, <3>1, <3>2 DEF Following
  <2>5. ChangeFits'
    <3>1. CASE change.step = "asked" /\ change.op = "open"
      <4>1. OpenAsked'
        BY <1>2, <1>3, <2>4 DEF OpenAsked
      <4> QED
        BY <1>2, <3>1, <4>1 DEF ChangeFits
    <3>2. CASE change.step = "asked" /\ change.op = "close" /\ CloseAsked
      <4>1. Spared /\ change.target.id <= count.ids
        BY <1>1, <3>2 DEF CloseAsked, Closed
      <4>2. \A x \in peer'.open : x.id # change.target.id
        BY <2>3, <2>4, <4>1
      <4>3. Spared'
        BY <1>2, <1>3, <2>4, <4>1, <4>2 DEF Spared
      <4>4. change.target.id <= count'.ids
        BY <2>3, <2>4, <4>1
      <4>5. CloseAsked'
        BY <1>1, <1>2, <3>2, <4>3, <4>4 DEF CloseAsked
      <4> QED
        BY <1>2, <3>2, <4>5 DEF ChangeFits
    <3>3. CASE change.step = "leaving" /\ LeavingOld
      BY <1>1, <3>3 DEF LeavingOld
    <3>4. CASE change.step \in {"none", "listing", "resuming"}
      BY <1>2, <2>4, <3>4 DEF ChangeFits
    <3> QED
      BY <1>2, <2>1, <3>1, <3>2, <3>3, <3>4, Stages
  <2>6. view.start = 0 /\ ~view.starting
    BY <1>1, <1>3, <2>1 DEF StartFits
  <2>7. StartFits'
    BY <1>2, <2>6 DEF StartFits
  <2> QED
    BY <2>4, <2>5, <2>7
<1> QED
  BY <1>2, <1>4 DEF FollowInv

LEMMA GiveUpFollows ==
  ASSUME Sound, FollowInv, GiveUp
  PROVE  FollowInv'
<1>1. HostOnly /\ UNCHANGED <<calls, events, count>> /\ peer'.up = peer.up /\ peer'.open = peer.open
  BY GiveUpShape
<1>2. PICK c \in Unanswered, r \in Answers :
        replies' = Append(replies, r) /\ r.n = c.n /\ ~r.ok /\ disturbed' = (disturbed \/ c.kind = "close_workspace")
  BY GiveUpShape
<1>3. OneByOne /\ OneByOne' /\ SlotsUsed' /\ UNCHANGED <<view, change>> /\ c \in calls
  BY <1>1, HostKeeps DEF FollowInv, Unanswered
<1>4. /\ AnswersTo(replies, c.n) = {} /\ AnswersTo(replies', c.n) = {r}
      /\ \A n : n # c.n => AnswersTo(replies', n) = AnswersTo(replies, n)
  BY <1>2, AnswerComes
<1>5. Steady
  BY <1>1, <1>3 DEF Steady, Told
<1>6. ASSUME ~disturbed'
      PROVE  IdsHold' /\ ChangeFits' /\ StartFits'
  <2>1. IdsHold /\ ChangeFits /\ StartFits /\ c.kind # "close_workspace"
    BY <1>2, <1>6 DEF FollowInv
  <2>2. c.kind = "open_workspace" => ~Brings(r)
    BY <1>2 DEF Brings
  <2>3. IdsHold' /\ ChangeFits'
    BY <1>1, <1>3, <1>4, <1>5, <2>1, <2>2, OtherServed
  <2>4. AnswersTo(replies, view.start) # {} => AnswersTo(replies', view.start) # {}
    BY <1>4
  <2> QED
    BY <1>3, <1>5, <2>1, <2>3, <2>4, StartKept
<1> QED
  BY <1>3, <1>6 DEF FollowInv

\* What changes nothing that is shown, open, or about to be heard.
LEMMA SteadyFollows ==
  ASSUME Sound, FollowInv, HostOnly, UNCHANGED <<calls, replies>>, count'.calls = count.calls,
         ~disturbed' => /\ ~disturbed /\ peer'.open = peer.open /\ peer'.up = peer.up
                        /\ UNCHANGED <<events, count>>
  PROVE  FollowInv'
<1>1. OneByOne /\ OneByOne' /\ SlotsUsed' /\ UNCHANGED <<view, change>>
  BY HostKeeps DEF FollowInv
<1>2. ASSUME ~disturbed'
      PROVE  IdsHold' /\ ChangeFits' /\ StartFits'
  <2>1. IdsHold /\ ChangeFits /\ StartFits
    BY <1>2 DEF FollowInv
  <2>2. Steady
    BY <1>1, <1>2 DEF Steady, Told
  <2> QED
    BY <1>1, <2>1, <2>2, FitsKept, StartKept
<1> QED
  BY <1>1, <1>2 DEF FollowInv

-----------------------------------------------------------------------------
(* All of it. *)

LEMMA FollowInit ==
  ASSUME WorkspaceAssumption, WorkspaceInit
  PROVE  FollowInv
<1>1. OneByOne
  BY DEF OneByOne, WorkspaceInit, NoChange, KindOf
<1>2. SlotsUsed
  BY DEF SlotsUsed, WorkspaceInit, NoSlot
<1>3. Told = {} /\ Following
  BY DEF Told, Following, WorkspaceInit, NewHost
<1>4. IdsHold
  BY DEF IdsHold, WorkspaceInit, NoWorkspace, NewHost
<1>5. ChangeFits
  BY <1>3 DEF ChangeFits, WorkspaceInit, NoChange
<1>6. StartFits
  BY DEF StartFits, WorkspaceInit, NoSlot
<1> QED
  BY <1>1, <1>2, <1>4, <1>5, <1>6 DEF FollowInv

LEMMA FollowStep ==
  ASSUME Sound, LeavesKnown, FollowInv, [WorkspaceNext]_workspaceVars
  PROVE  FollowInv'
<1>1. CASE UNCHANGED workspaceVars
  <2>1. UNCHANGED <<view, change, calls, replies, events, peer, count, disturbed>>
    BY <1>1 DEF workspaceVars
  <2>2. OneByOne /\ OneByOne' /\ SlotsUsed'
    BY <2>1 DEF FollowInv, OneByOne, SlotsUsed
  <2>3. Steady
    BY <2>1, SteadyIf
  <2>4. ASSUME ~disturbed'
        PROVE  IdsHold' /\ ChangeFits' /\ StartFits'
    <3>1. IdsHold /\ ChangeFits /\ StartFits
      BY <2>1, <2>4 DEF FollowInv
    <3> QED
      BY <2>1, <2>2, <2>3, <3>1, FitsKept, StartKept
  <2> QED
    BY <2>2, <2>4 DEF FollowInv
<1>2. CASE AnswerNext
  BY <1>2, OpenAnswerFollows, CloseAnswerFollows, ListAnswerFollows, SessionAnswerFollows DEF AnswerNext
<1>3. CASE ClickNext \/ StartChange \/ TakeEvent
  BY <1>3, ClickFollows, StartFollows, TakeEventFollows
<1>4. CASE Serve \/ Death \/ \E s \in AllSessions : Resync(s)
  BY <1>4, ServeFollows, DeathFollows, ResyncFollows
<1>5. CASE \E refused, slow \in SUBSET Directories, failed \in SUBSET AllSessions : BroughtBack(refused, slow, failed)
  BY <1>5, BroughtBackFollows
<1>6. CASE GiveUp
  BY <1>6, GiveUpFollows
<1>7. CASE ServeLate
  BY <1>7, ServeLateShape, SteadyFollows
<1>8. CASE \E roots \in SUBSET Directories, sessions \in SUBSET AllSessions : RestoreDies(roots, sessions)
  BY <1>8, RestoreDiesShape, SteadyFollows
<1> QED
  BY <1>1, <1>2, <1>3, <1>4, <1>5, <1>6, <1>7, <1>8 DEF WorkspaceNext

\* When everything has been answered, the window and the host agree: nothing is shown as
\* starting, and the host has open what the window shows (session-store.ts 503, 822-826).
THEOREM WindowFollows == WorkspaceSpec => []WindowFollowsHost
<1>1. WorkspaceInit => FollowInv
  BY WorkspaceAssumption, FollowInit
<1>2. NavInv /\ FollowInv /\ [WorkspaceNext]_workspaceVars => FollowInv'
  BY FollowStep DEF NavInv
<1>3. ASSUME FollowInv, NavInv, AllAnswered, ~disturbed
      PROVE  WindowFollowsHost
  <2>1. view.start = 0 /\ view.opens = {}
    BY <1>3 DEF FollowInv, SlotsUsed, AllAnswered
  <2>2. ~view.starting
    BY <1>3, <2>1 DEF FollowInv, StartFits
  <2>3. Following /\ Told = {}
    <3>1. change.step = "none" /\ ChangeFits /\ events = <<>>
      BY <1>3 DEF FollowInv, OneByOne, AllAnswered
    <3> QED
      BY <3>1 DEF ChangeFits, Told
  <2>4. peer.open \subseteq Workspaces /\ \A w \in Workspaces : w # NoWorkspace
    BY <1>3, PeerShape DEF NavInv, Sound, WorkspaceAssumption, Workspaces, NoWorkspace
  <2>5. peer.open = {view.workspace} \ {NoWorkspace}
    BY <2>3, <2>4 DEF Following
  <2> QED
    BY <2>1, <2>2, <2>5 DEF WindowFollowsHost, NothingLeftStarting, HostFollows, NoSlot
<1>4. FollowInv /\ NavInv => WindowFollowsHost
  BY <1>3 DEF WindowFollowsHost, NothingLeftStarting, HostFollows
<1> QED
  BY <1>1, <1>2, <1>4, NavInvariant, PTL DEF WorkspaceSpec

=============================================================================
