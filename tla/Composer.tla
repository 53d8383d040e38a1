------------------------------ MODULE Composer ------------------------------
(***************************************************************************)
(* The prompt bar (Composer.tsx) and what of the store serves it: the draft, *)
(* the menu of mentions and commands under the caret, attachments, sending  *)
(* and stopping, while every answer comes late.                             *)
(*                                                                         *)
(* A draft is a sequence of pieces.  A word carries the space after it, and *)
(* so does a mention that was picked; each word is typed once, so that one  *)
(* can ask where it went.  The bar is one component for whatever session is  *)
(* in front.  The host performs a command at some moment, or refuses it, and *)
(* its answer arrives later or is lost with the host or to a timeout.       *)
(***************************************************************************)
EXTENDS Naturals, Sequences, FiniteSets, SequencesExt

CONSTANTS
  Tabs,     \* sessions with a tab
  Words,        \* what is typed
  Files,        \* what can be attached from disk
  MaxKeys,      \* bound: keys pressed, clicks and drops
  MaxCalls,     \* bound: commands sent, listings apart
  MaxEvents,    \* bound: tabs selected and closed, changes of a status by Pi, failures, hosts lost
  MaxMoves      \* bound: all of these together

VARIABLES
  draft, caret,        \* the text field
  token, rows, active, \* the mention under the caret, its rows, and the one Enter takes
  dismissed, viaPlus,
  listings,            \* directories read, for this mention
  walk,                \* the walk of the directories whose rows are awaited
  strays,              \* listings awaited by walks that were cancelled
  busy,                \* a submit of this bar is under way
  bar,                 \* the bar, by number: its state goes with it
  front,               \* the active session
  attached,            \* pending attachments
  aborting,            \* abortingSessionId
  stranded,            \* (history) the turn of that stop ended where no event told of it
  status,              \* of each session, as the store has it
  life,                \* how often each session has lost its place in a host
  calls,               \* submits, aborts and file pickers that have not been answered
  waiting, given,        \* what Pi has waiting, and what it has got
  entered, withdrawn,  \* (history) words and files entered, and taken back by the person
  mishaps,             \* (history) words and files that met one of the gaps told below
  used                 \* how much of each bound is used

fieldVars == <<draft, caret>>
menuVars == <<token, rows, active, dismissed, viaPlus, listings, walk, strays>>
storeVars == <<front, attached, aborting, stranded>>
tabVars == <<status, life, waiting, given>>
historyVars == <<entered, withdrawn, mishaps>>
composerVars ==
  <<fieldVars, menuVars, busy, bar, storeVars, tabVars, calls, historyVars, used>>

NoSession == "no session"

\* What a host says of a session; one that retries is like one that awaits approval, for
\* the bar and the store.  "closed" is a session without a projection.
HostStatuses == {"idle", "streaming", "awaiting_approval", "compacting"}
Statuses == HostStatuses \cup {"disconnected", "closed"}

\* A session that was just attached; an extension may have prompted it as it was bound.
Attached == {"idle", "streaming"}

\* TURN_IN_FLIGHT of the store, and what the bar can stop.
TurnInFlight == {"streaming", "compacting"}
Streaming == {"streaming", "awaiting_approval"}
Stoppable == Streaming \cup {"compacting"}

Bounds == [keys |-> MaxKeys, calls |-> MaxCalls, events |-> MaxEvents]

Uses(what) ==
  /\ used[what] < Bounds[what] /\ used["keys"] + used["calls"] + used["events"] < MaxMoves
  /\ used' = [used EXCEPT ![what] = @ + 1]

-----------------------------------------------------------------------------
(* The workspace: a file, and a directory with a file.  "d/" is the         *)
(* directory as it is typed, "f" and "g" the names of the files.            *)

Row(kind, name) == [kind |-> kind, name |-> name]

Tree == [path \in {<<>>, <<"d/">>} |->
           IF path = <<>> THEN <<Row("directory", "d/"), Row("file", "f")>> ELSE <<Row("file", "g")>>]

Names == {"d/", "f"}
Mention(name) == "@" \o name \o " "

\* What a draft holds besides words, and what of it can be part of a mention.
Loose == Names \cup {"@", "/"}
Marks == Loose \cup {Mention("f"), Mention("g")}

\* A word is told from whatever else is typed, and from a file.
ASSUME ComposerAssumption ==
  /\ Tabs # {} /\ NoSession \notin Tabs /\ IsFiniteSet(Words)
  /\ Words \cap (Marks \cup Files) = {} /\ Files \cap Marks = {}
  /\ {MaxKeys, MaxCalls, MaxEvents, MaxMoves} \subseteq Nat

\* Pieces that end in a space.
Closed == Words \cup {Mention("f"), Mention("g")}

NoToken == [kind |-> "none", start |-> 0, query |-> <<>>]
NoWalk == [query |-> <<>>, wants |-> <<"nothing">>]
FailedWalk == [query |-> <<>>, wants |-> <<"failed">>]

\* tokenAt: the run of pieces before the caret, when it begins with @, or with
\* / at the very start.
TokenAt(text, at) ==
  LET start == CHOOSE i \in 0..at :
                 /\ i > 0 => text[i] \in Closed
                 /\ \A j \in i+1..at : text[j] \notin Closed
  IN IF start < at /\ (text[start + 1] = "@" \/ (text[start + 1] = "/" /\ start = 0))
     THEN [kind |-> IF text[start + 1] = "@" THEN "file" ELSE "command",
           start |-> start, query |-> SubSeq(text, start + 2, at)]
     ELSE NoToken

\* A query is directories and what has been typed of a name.
Directories(query) == IF query # <<>> /\ Last(query) # "d/" THEN Front(query) ELSE query
Leaf(query) == IF query # <<>> /\ Last(query) # "d/" THEN Last(query) ELSE ""

\* The entries that go on from what has been typed of a name.
Matching(entries, leaf) ==
  LET named == {i \in DOMAIN entries : entries[i].name = leaf}
  IN IF leaf = "" THEN entries ELSE IF named = {} THEN <<>> ELSE <<entries[CHOOSE i \in named : TRUE]>>

FileRows(query, plus) ==
  LET dirs == Directories(query)
      listed == IF dirs \in DOMAIN Tree THEN Matching(Tree[dirs], Leaf(query)) ELSE <<>>
  IN IF plus /\ query = <<>> THEN <<Row("attach", "files")>> \o listed ELSE listed

\* COMMANDS, those that are available; no command begins like a name of the tree.
CommandRows(query, of) ==
  IF query # <<>> THEN <<>>
  ELSE (IF of = "idle" THEN <<Row("command", "compact")>> ELSE <<>>) \o <<Row("command", "attach")>>

-----------------------------------------------------------------------------
(* The menu. *)

\* walk: the directories of a query that are there and have not been read.
Unread(query, known) ==
  {SubSeq(Directories(query), 1, k) : k \in 0..Len(Directories(query))} \cap (DOMAIN Tree \ known)

Shortest(paths) == CHOOSE p \in paths : \A q \in paths : Len(p) <= Len(q)

\* A walk whose effect is over goes on, and what it finds is not shown.
Strays == IF walk \in {NoWalk, FailedWalk} THEN strays ELSE strays \cup {walk.wants}

\* The effect that resolves the open mention t into rows, in a session with this status.
Resolve(t, plus, of) ==
  /\ viaPlus' = (plus /\ t # NoToken)
  /\ strays' = Strays
  /\ \/ /\ t = NoToken
        /\ rows' = <<>> /\ listings' = {} /\ walk' = NoWalk
     \/ /\ t.kind = "command"
        /\ rows' = CommandRows(t.query, of) /\ walk' = NoWalk
        /\ UNCHANGED listings
     \/ /\ t.kind = "file" /\ Unread(t.query, listings) = {}
        /\ rows' = FileRows(t.query, plus) /\ walk' = NoWalk
        /\ UNCHANGED listings
     \/ /\ t.kind = "file" /\ Unread(t.query, listings) # {}
        /\ walk' = [query |-> t.query, wants |-> Shortest(Unread(t.query, listings))]
        /\ UNCHANGED <<rows, listings>>

\* The effects that run when what they depend on changes.
SetToken(t, plus) ==
  LET same == t.kind = token.kind /\ t.query = token.query
  IN /\ token' = t
     /\ active' = IF same THEN active ELSE 0
     /\ IF same /\ plus = viaPlus THEN UNCHANGED <<rows, viaPlus, listings, walk, strays>>
        ELSE Resolve(t, plus, status[front])

CloseMenu == SetToken(NoToken, FALSE)

\* Mutant: a walk that was cancelled sets the rows it found.
ListedUnchecked(path) ==
  /\ listings' = listings \cup {path}
  /\ rows' = FileRows(path, viaPlus)
  /\ IF walk.wants = path THEN walk' = NoWalk /\ UNCHANGED strays
     ELSE strays' = strays \ {path} /\ UNCHANGED walk
  /\ UNCHANGED <<token, active, dismissed, viaPlus>>

\* A listing arrives; its walk goes on with the next directory, or ends.
Listed(path) ==
  /\ listings' = listings \cup {path}
  /\ \/ /\ path \in strays /\ strays' = strays \ {path}
        /\ UNCHANGED <<walk, rows>>
     \/ /\ walk.wants = path
        /\ LET left == Unread(walk.query, listings \cup {path})
           IN IF left = {} THEN walk' = NoWalk /\ rows' = FileRows(walk.query, viaPlus)
              ELSE walk' = [walk EXCEPT !.wants = Shortest(left)] /\ UNCHANGED rows
        /\ UNCHANGED strays
  /\ UNCHANGED <<token, active, dismissed, viaPlus>>

ListingAnswered ==
  /\ \E path \in DOMAIN Tree : path \in strays \cup {walk.wants} /\ Listed(path)
  /\ UNCHANGED <<fieldVars, busy, bar, storeVars, tabVars, calls, historyVars, used>>

\* The listing fails: the rows of the query before stay.
ListingFails ==
  /\ walk \notin {NoWalk, FailedWalk} /\ Uses("events")
  /\ walk' = FailedWalk
  /\ UNCHANGED <<fieldVars, busy, bar, storeVars, tabVars, calls, historyVars>>
  /\ UNCHANGED <<token, rows, active, dismissed, viaPlus, listings, strays>>

-----------------------------------------------------------------------------
(* The text field. *)

Shown == front # NoSession

In(text) == ToSet(text)

Insert(text, at, pieces) == SubSeq(text, 1, at) \o pieces \o SubSeq(text, at + 1, Len(text))

\* onInput.
Edited(text, at) ==
  /\ draft' = text /\ caret' = at
  /\ dismissed' = FALSE
  /\ SetToken(TokenAt(text, at), viaPlus)

\* A word is typed once; a slash first; the name of a file only in a mention.
Type(piece) ==
  /\ Shown /\ Uses("keys")
  /\ \/ piece \in Words \ entered
     \/ piece = "@"
     \/ piece = "/" /\ caret = 0
     \/ piece \in Names /\ token.kind = "file"
  /\ Edited(Insert(draft, caret, <<piece>>), caret + 1)
  /\ entered' = entered \cup ({piece} \cap Words)
  /\ UNCHANGED <<busy, bar, storeVars, tabVars, calls, withdrawn, mishaps>>

Erase ==
  /\ Shown /\ caret > 0 /\ Uses("keys")
  /\ Edited(RemoveAt(draft, caret), caret - 1)
  /\ withdrawn' = withdrawn \cup ({draft[caret]} \cap Words)
  /\ UNCHANGED <<busy, bar, storeVars, tabVars, calls, entered, mishaps>>

FieldOnly == UNCHANGED <<busy, bar, storeVars, tabVars, calls, historyVars>>

\* onSelect, which the + menu ignores.
MoveCaret(to) ==
  /\ Shown /\ to \in 0..Len(draft) \ {caret} /\ Uses("keys")
  /\ caret' = to
  /\ IF viaPlus THEN UNCHANGED <<token, rows, active, viaPlus, listings, walk, strays>>
     ELSE SetToken(IF dismissed THEN NoToken ELSE TokenAt(draft, to), FALSE)
  /\ UNCHANGED <<draft, dismissed>> /\ FieldOnly

Escape ==
  /\ Shown /\ token # NoToken /\ Uses("keys")
  /\ dismissed' = TRUE /\ CloseMenu
  /\ UNCHANGED fieldVars /\ FieldOnly

\* onBlur, and the + button while a menu is open.
LeaveMenu ==
  /\ Shown /\ token # NoToken
  /\ CloseMenu
  /\ UNCHANGED <<fieldVars, dismissed, used>> /\ FieldOnly

TogglePlus ==
  /\ Shown /\ token = NoToken /\ Uses("keys")
  /\ dismissed' = FALSE
  /\ SetToken([kind |-> "file", start |-> caret, query |-> <<>>], TRUE)
  /\ UNCHANGED fieldVars /\ FieldOnly

MenuOpen == token # NoToken /\ rows # <<>>

\* The arrow keys, and the mouse over a row.
Highlight(row) ==
  /\ MenuOpen /\ row \in 1..Len(rows) /\ row - 1 # active /\ Uses("keys")
  /\ active' = row - 1
  /\ UNCHANGED <<token, rows, dismissed, viaPlus, listings, walk, strays>>
  /\ UNCHANGED fieldVars /\ FieldOnly

\* Where the token begins; the field may have been emptied under it.
Start == IF token.start > Len(draft) THEN Len(draft) ELSE token.start

BeforeToken == SubSeq(draft, 1, Start)

\* What writing over the text from the token to the caret does to words: those in
\* between go, and those after the caret and before the token are there twice.
Overwritten == In(SubSeq(draft, Start + 1, caret)) \cup In(SubSeq(draft, caret + 1, Start))

\* writeMention and replaceToken.
Overwrite(pieces) ==
  /\ draft' = BeforeToken \o pieces \o SubSeq(draft, caret + 1, Len(draft))
  /\ caret' = Len(BeforeToken \o pieces)
  /\ mishaps' = mishaps \cup (Overwritten \cap Words)

Ask(call) == calls' = calls \cup {call}

Call(what, s, words, files) ==
  [do |-> what, id |-> used.calls, session |-> s, words |-> words, files |-> files,
   bar |-> bar, life |-> life[s], stage |-> "sent"]

\* choose, by Enter, Tab or the mouse.  Nothing happens when the highlight is on no row.
ChooseEntry ==
  /\ MenuOpen /\ active < Len(rows) /\ rows[active + 1].kind \in {"directory", "file"} /\ Uses("keys")
  /\ LET row == rows[active + 1]
     IN \/ /\ row.kind = "directory"
           /\ LET pieces == <<"@">> \o Directories(token.query) \o <<row.name>>
              IN /\ Overwrite(pieces)
                 /\ SetToken(TokenAt(BeforeToken \o pieces, Len(BeforeToken \o pieces)), viaPlus)
        \/ /\ row.kind = "file"
           /\ Overwrite(<<Mention(row.name)>>) /\ CloseMenu
  /\ UNCHANGED <<dismissed, busy, bar, storeVars, tabVars, calls, entered, withdrawn>>

ChooseVerb ==
  /\ MenuOpen /\ active < Len(rows) /\ rows[active + 1].kind \in {"attach", "command"}
  /\ LET row == rows[active + 1]
     IN /\ IF row = Row("command", "compact") THEN Uses("keys") /\ UNCHANGED calls
           ELSE Uses("calls") /\ Ask(Call("pick", front, {}, {}))
        /\ IF row.kind = "command" THEN draft' = <<>> /\ caret' = 0 /\ withdrawn' = withdrawn \cup (In(draft) \cap Words)
           ELSE UNCHANGED <<fieldVars, withdrawn>>
  /\ CloseMenu
  /\ UNCHANGED <<dismissed, busy, bar, storeVars, tabVars, entered, mishaps>>

\* insertDroppedFile.
Drop(name) ==
  /\ Shown /\ Uses("keys")
  /\ draft' = Insert(draft, caret, <<Mention(name)>>) /\ caret' = caret + 1
  /\ dismissed' = FALSE /\ CloseMenu
  /\ FieldOnly

-----------------------------------------------------------------------------
(* Attachments, sending and stopping. *)

RemoveAttachment(file) ==
  /\ file \in attached
  /\ attached' = attached \ {file}
  /\ withdrawn' = withdrawn \cup {file}
  /\ UNCHANGED <<fieldVars, menuVars, busy, bar, front, aborting, stranded, tabVars, calls, entered, mishaps, used>>

\* Mutant: the field is emptied when the command is sent.
SubmitEmptying ==
  /\ Shown /\ ~busy /\ ~MenuOpen /\ In(draft) # {} /\ Uses("calls")
  /\ Ask(Call("submit", front, In(draft) \cap Words, attached))
  /\ busy' = TRUE /\ draft' = <<>> /\ caret' = 0
  /\ UNCHANGED <<menuVars, bar, storeVars, tabVars, historyVars>>

\* submit, by Enter with no menu open; the mode is the session's.
SubmitByKey ==
  /\ Shown /\ ~busy /\ ~MenuOpen /\ In(draft) # {} /\ Uses("calls")
  /\ Ask(Call("submit", front, In(draft) \cap Words, attached))
  /\ busy' = TRUE
  /\ UNCHANGED <<fieldVars, menuVars, bar, storeVars, tabVars, historyVars>>

\* submit, by a button, which takes the focus.
SubmitByButton ==
  /\ Shown /\ ~busy /\ In(draft) # {} /\ status[front] # "compacting" /\ Uses("calls")
  /\ Ask(Call("submit", front, In(draft) \cap Words, attached))
  /\ busy' = TRUE /\ CloseMenu
  /\ UNCHANGED <<fieldVars, dismissed, bar, storeVars, tabVars, historyVars>>

\* stop, abortActive: one abort per session at a time.
Stop ==
  /\ Shown /\ status[front] \in Stoppable /\ aborting # front /\ Uses("calls")
  /\ aborting' = front /\ stranded' = FALSE
  /\ Ask(Call("abort", front, {}, {}))
  /\ CloseMenu
  /\ UNCHANGED <<fieldVars, dismissed, busy, bar, front, attached, tabVars, historyVars>>

\* The host (external) performs a command, if the session is still where it was sent to.
Performs(c) ==
  /\ c \in calls /\ c.stage = "sent" /\ c.do # "pick" /\ c.life = life[c.session]
  /\ LET s == c.session
     IN \/ /\ c.do = "submit"
           /\ IF status[s] \in Streaming THEN waiting' = [waiting EXCEPT ![s] = @ \cup c.words] /\ given' = given \cup c.files
              ELSE given' = given \cup c.words \cup c.files /\ UNCHANGED waiting
           /\ calls' = (calls \ {c}) \cup {[c EXCEPT !.stage = "done"]}
        \/ /\ c.do = "abort"
           /\ calls' = (calls \ {c}) \cup {[c EXCEPT !.stage = "done", !.words = waiting[s]]}
           /\ waiting' = [waiting EXCEPT ![s] = {}]
           /\ UNCHANGED given
  /\ UNCHANGED <<fieldVars, menuVars, busy, bar, storeVars, status, life, historyVars, used>>

PiTakes(s) ==
  /\ waiting[s] # {}
  /\ given' = given \cup waiting[s]
  /\ waiting' = [waiting EXCEPT ![s] = {}]
  /\ UNCHANGED <<fieldVars, menuVars, busy, bar, storeVars, status, life, calls, historyVars, used>>

\* Mutant: what was sent stays in the field.
ClearedNot(c) == UNCHANGED <<fieldVars, attached, mishaps>>

\* After a submit: the field of the bar it was sent from, and what is attached.
Cleared(c) ==
  /\ attached' = {}
  /\ IF c.bar = bar /\ Shown
     THEN /\ draft' = <<>> /\ caret' = 0
          /\ mishaps' = mishaps \cup ((In(draft) \cap Words) \ c.words) \cup (attached \ c.files)
     ELSE /\ UNCHANGED fieldVars
          /\ mishaps' = mishaps \cup (attached \ c.files)

SubmitAnswered(c) ==
  /\ c \in calls /\ c.do = "submit" /\ c.stage = "done"
  /\ Cleared(c)
  /\ busy' = (busy /\ c.bar # bar)
  /\ calls' = calls \ {c}
  /\ UNCHANGED <<menuVars, bar, front, aborting, stranded, tabVars, entered, withdrawn, used>>

\* stop: what was queued goes before the draft.
Recovered(c) ==
  IF c.bar = bar /\ Shown /\ c.words # {}
  THEN /\ draft' = SetToSeq(c.words) \o draft /\ caret' = Len(draft')
       /\ UNCHANGED mishaps
  ELSE /\ mishaps' = mishaps \cup c.words
       /\ UNCHANGED fieldVars

\* A message is answered when Pi has queued it, before an abort that takes it back.
AbortAnswered(c) ==
  /\ c \in calls /\ c.do = "abort" /\ c.stage = "done"
  /\ ~\E d \in calls : d.do = "submit" /\ d.stage = "done" /\ d.words \cap c.words # {}
  /\ Recovered(c)
  /\ calls' = calls \ {c}
  /\ UNCHANGED <<menuVars, busy, bar, storeVars, tabVars, entered, withdrawn, used>>

\* The host refuses (a command that was not performed), or its answer is lost.
Failed(c) ==
  /\ c \in calls /\ c.do # "pick" /\ Uses("events")
  /\ calls' = calls \ {c}
  /\ mishaps' = mishaps \cup (IF c.stage = "done" THEN c.words \cup c.files ELSE {})
  /\ busy' = (busy /\ (c.bar # bar \/ c.do # "submit"))
  /\ aborting' = IF c.do = "abort" /\ aborting = c.session THEN NoSession ELSE aborting
  /\ stranded' = (stranded /\ aborting' # NoSession)
  /\ UNCHANGED <<fieldVars, menuVars, bar, front, attached, tabVars, entered, withdrawn>>

\* chooseAttachments: what the person picks replaces what was attached; none leaves it.
Picked(c) ==
  /\ c \in calls /\ c.do = "pick"
  /\ calls' = calls \ {c}
  /\ \E files \in SUBSET (Files \ entered) :
       /\ attached' = IF files = {} THEN attached ELSE files
       /\ entered' = entered \cup files
       /\ withdrawn' = withdrawn \cup (attached \ attached')
  /\ UNCHANGED <<fieldVars, menuVars, busy, bar, front, aborting, stranded, tabVars, mishaps, used>>

-----------------------------------------------------------------------------
(* Around the bar. *)

\* Mutant: the end of the turn leaves the stop as it was pressed.
AbortingOn(s, to) == aborting

\* #applyEvent: what is left of the stop when an event has told the status of s.
AbortingAfter(s, to) == IF aborting = s /\ to \notin TurnInFlight THEN NoSession ELSE aborting

\* The menu when session s is now in front: it is resolved again when the status is
\* another, and when the number of messages is.
Follows(s) ==
  /\ \/ Resolve(token, viaPlus, status'[s])
     \/ status'[s] = status[front] /\ UNCHANGED <<rows, viaPlus, listings, walk, strays>>
  /\ UNCHANGED <<token, active, dismissed>>

\* An event tells the status of a session, which may be back from a host that was lost.
StatusMoves(s, to) ==
  /\ status[s] \notin {to, "closed"} /\ (status[s] = "disconnected" => to \in Attached)
  /\ Uses("events")
  /\ status' = [status EXCEPT ![s] = to]
  /\ aborting' = AbortingAfter(s, to) /\ stranded' = (stranded /\ aborting' # NoSession)
  /\ IF s = front THEN Follows(s) ELSE UNCHANGED menuVars
  /\ UNCHANGED <<fieldVars, busy, bar, front, attached, life, waiting, given, calls, historyVars>>

\* A tab is clicked: one bar for every session, or a new one where there was none.
Select(s) ==
  /\ front # s /\ status[s] # "closed" /\ Uses("events")
  /\ front' = s
  /\ IF Shown THEN CloseMenu /\ UNCHANGED <<dismissed, bar>>
     ELSE bar' = bar + 1 /\ UNCHANGED menuVars
  /\ UNCHANGED <<fieldVars, busy, attached, aborting, stranded, tabVars, calls, historyVars>>

\* The session loses its place in a host, and what Pi had waiting with it.  A stop that
\* is pending stays: no event comes to release it.
Leaves(gone) ==
  /\ life' = [s \in Tabs |-> IF s \in gone THEN life[s] + 1 ELSE life[s]]
  /\ waiting' = [s \in Tabs |-> IF s \in gone THEN {} ELSE waiting[s]]
  /\ stranded' = (stranded \/ aborting \in gone)
  /\ UNCHANGED <<attached, aborting, given, calls, entered, withdrawn>>

LostWords(gone) == UNION {waiting[s] : s \in gone}

\* The host is gone: every projection says so (onHostConnection).
HostLost ==
  /\ \E s \in Tabs : status[s] \in HostStatuses
  /\ Uses("events")
  /\ status' = [s \in Tabs |-> IF status[s] = "closed" THEN "closed" ELSE "disconnected"]
  /\ Leaves(Tabs) /\ mishaps' = mishaps \cup LostWords(Tabs)
  /\ IF Shown THEN Follows(front) ELSE UNCHANGED menuVars
  /\ UNCHANGED <<fieldVars, busy, bar, front>>

\* closeSession has been answered: a neighbour comes to the front, or the bar goes with
\* its draft.
CloseTab(s) ==
  /\ status[s] # "closed" /\ Uses("events")
  /\ status' = [status EXCEPT ![s] = "closed"]
  /\ Leaves({s})
  /\ \/ /\ front # s
        /\ mishaps' = mishaps \cup LostWords({s})
        /\ UNCHANGED <<fieldVars, menuVars, busy, bar, front>>
     \/ /\ front = s
        /\ \E next \in Tabs \ {s} : status[next] # "closed" /\ front' = next /\ Follows(next)
        /\ mishaps' = mishaps \cup LostWords({s})
        /\ UNCHANGED <<fieldVars, busy, bar>>
     \/ /\ front = s /\ front' = NoSession /\ \A t \in Tabs \ {s} : status[t] = "closed"
        /\ draft' = <<>> /\ caret' = 0 /\ mishaps' = mishaps \cup LostWords({s}) \cup (In(draft) \cap Words)
        /\ CloseMenu
        /\ dismissed' = FALSE /\ busy' = FALSE
        /\ UNCHANGED bar

\* A session is opened again.  Its snapshot is the answer to a command, which does not look
\* at the stop (#installSnapshot), and the session comes to the front unless another was
\* chosen meanwhile.
Reopen(s, to) ==
  /\ status[s] = "closed" /\ to \in Attached /\ Uses("events")
  /\ status' = [status EXCEPT ![s] = to]
  /\ \/ UNCHANGED <<front, menuVars, bar>>
     \/ front' = s /\ Shown /\ Follows(s) /\ UNCHANGED bar
     \/ front' = s /\ ~Shown /\ bar' = bar + 1 /\ UNCHANGED menuVars
  /\ UNCHANGED <<fieldVars, busy, attached, aborting, stranded, life, waiting, given, calls, historyVars>>

ComposerInit ==
  /\ draft = <<>> /\ caret = 0
  /\ token = NoToken /\ rows = <<>> /\ active = 0 /\ dismissed = FALSE /\ viaPlus = FALSE
  /\ listings = {} /\ walk = NoWalk /\ strays = {}
  /\ busy = FALSE /\ bar = 1
  /\ front = (CHOOSE s \in Tabs : TRUE) /\ attached = {} /\ aborting = NoSession /\ stranded = FALSE
  /\ status = [s \in Tabs |-> IF s = front THEN "streaming" ELSE "idle"]
  /\ life = [s \in Tabs |-> 0]
  /\ waiting = [s \in Tabs |-> {}] /\ given = {}
  /\ calls = {}
  /\ entered = {} /\ withdrawn = {} /\ mishaps = {}
  /\ used = [what \in DOMAIN Bounds |-> 0]

ComposerNext ==
  \/ ListingAnswered \/ ListingFails
  \/ \E piece \in Words \cup Loose : Type(piece)
  \/ Erase \/ Escape \/ LeaveMenu \/ TogglePlus
  \/ \E to \in 0..Len(draft) : MoveCaret(to)
  \/ \E row \in 1..Len(rows) : Highlight(row)
  \/ ChooseEntry \/ ChooseVerb \/ Drop("f")
  \/ \E file \in attached : RemoveAttachment(file)
  \/ SubmitByKey \/ SubmitByButton \/ Stop
  \/ \E c \in calls : Performs(c) \/ SubmitAnswered(c) \/ AbortAnswered(c) \/ Failed(c) \/ Picked(c)
  \/ \E s \in Tabs : PiTakes(s) \/ Select(s) \/ CloseTab(s)
  \/ \E s \in Tabs, to \in HostStatuses : StatusMoves(s, to) \/ Reopen(s, to)
  \/ HostLost

ComposerSpec == ComposerInit /\ [][ComposerNext]_composerVars

-----------------------------------------------------------------------------

ComposerTypeOK ==
  /\ draft \in Seq(Words \cup Marks) /\ caret \in 0..Len(draft)
  /\ token = NoToken \/ token.kind \in {"file", "command"}
  /\ listings \cup strays \subseteq DOMAIN Tree
  /\ front \in Tabs \cup {NoSession} /\ aborting \in Tabs \cup {NoSession}
  /\ attached \subseteq Files
  /\ status \in [Tabs -> Statuses] /\ life \in [Tabs -> Nat] /\ stranded \in BOOLEAN
  /\ waiting \in [Tabs -> SUBSET Words] /\ given \subseteq Words \cup Files
  /\ entered \subseteq Words \cup Files /\ withdrawn \cup mishaps \subseteq entered

Queued == UNION {waiting[s] : s \in Tabs}
Returning == UNION {c.words : c \in {d \in calls : d.do = "abort"}}

\* Whatever answers late or fails, a word a person typed is in the draft, with Pi or on
\* its way back, unless the person took it back or it met one of the gaps (Composer.tsx
\* submit 428-443, stop 445-458).
NothingLost ==
  (entered \cap Words) \ (withdrawn \cup mishaps) \subseteq In(draft) \cup Queued \cup given \cup Returning

\* When all is answered, no word and no file that Pi has waits to be sent again, and no
\* word is in the draft twice (session-store.ts submitPrompt 754-761, Composer.tsx 435).
NothingTwice ==
  calls = {} =>
    /\ (In(draft) \cup attached) \cap (Queued \cup given) \subseteq mishaps \cup withdrawn
    /\ \A i, j \in 1..Len(draft) : draft[i] = draft[j] /\ draft[i] \in Words \ mishaps => i = j

\* What a person typed is in one place: the draft, Pi, or on its way back (Composer.tsx
\* 428-458).
TypedOnce == NothingLost /\ NothingTwice

\* When no listing is awaited, what the menu offers is what the mention and the session
\* call for, whichever answer came last (Composer.tsx 318-358).
MenuAnswersMention ==
  Shown /\ walk = NoWalk =>
    rows = IF token = NoToken THEN <<>>
           ELSE IF token.kind = "command" THEN CommandRows(token.query, status[front])
           ELSE FileRows(token.query, viaPlus)

\* A stop stays refused no longer than the turn it was pressed in (session-store.ts
\* 360-362, 772), unless that turn ended with its host or its tab: the store keeps such a
\* stop (177-188, 680-700, 935-949).
StopNotSpent == aborting # NoSession => stranded \/ status[aborting] \in Stoppable

=============================================================================
