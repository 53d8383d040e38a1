---------------------------- MODULE TurnTimings ----------------------------
(***************************************************************************)
(* What the host says of where its time went: observability/timings.ts, the *)
(* calls runtime.ts and dispatch.ts make of it, and the gates a command     *)
(* passes in dispatch.ts.                                                   *)
(*                                                                         *)
(* A duration is the pair of what began it and what ended it; milliseconds, *)
(* buckets and percentiles are left out.                                    *)
(***************************************************************************)
EXTENDS Naturals, Sequences, FiniteSets, SequencesExt, FiniteSetsExt

CONSTANTS
  Conversations,  \* session ids
  ToolCalls,      \* tool call ids of Pi
  Requests,       \* commands, by the number dispatch gives them
  Reports,        \* those that ask for the diagnostics or the timings
  Capacity,       \* of the ring
  MaxOpenSpans,
  MaxTracked,     \* maxTrackedSessions
  MaxLive,        \* MAX_OPEN_SESSIONS
  MaxTurns        \* bound: prompts

NoOne == "nobody"

ASSUME TimingsAssumption ==
  /\ NoOne \notin Conversations
  /\ {Capacity, MaxOpenSpans, MaxTracked} \subseteq Nat \ {0}
  /\ MaxLive \in 0..MaxTracked /\ MaxTurns \in Nat /\ Reports \subseteq Requests

VARIABLES
  store,     \* the TimingStore
  open,      \* the sessions of the runtime, in the order they were opened
  slot,      \* TurnSlot.turn: the prompt whose handle notes the first delta
  prompts,   \* what Pi answers and will answer, by session
  tools,     \* the tool calls that run, with their session
  stage,     \* where a command is
  ready,     \* the handlers exist
  shuttingDown,
  turns,     \* prompts so far
  recorded,  \* (history) every span that was recorded
  begun,     \* (history) how many spans of a kind began
  forgotten, \* (history) what was recorded when a session was last forgotten
  counted    \* (history) the sessions with a prompt since they were opened

timingVars == <<store, open, slot, prompts, tools, stage, ready, shuttingDown, turns,
                recorded, begun, forgotten, counted>>

-----------------------------------------------------------------------------
(* The store. *)

Legs == {"first", "rest", "total"}

Names == Legs \cup {"tool", "command", "unknown"}

NoFigures == [count |-> 0, abandoned |-> 0]

Span(key, name, session, turn) ==
  [key |-> key, name |-> name, session |-> session, turn |-> turn, delta |-> 0]

EmptySlot == [name |-> "unknown", index |-> 0, turn |-> 0, delta |-> 0]

NewStore ==
  [spans |-> <<>>, table |-> <<>>, free |-> <<>>, nextIndex |-> 1,
   ring |-> [i \in 0..Capacity - 1 |-> EmptySlot], ringNext |-> 0, ringFilled |-> 0,
   figures |-> [n \in Names |-> NoFigures]]

\* Where the session is in the table, or 0.
PlaceOf(t, s) == SelectInSeq(t.table, LAMBDA e : e.session = s)

\* Closed sessions go first, then the least recently active.
Victim(t) ==
  LET closed == {i \in DOMAIN t.table : t.table[i].closed}
  IN IF closed = {} THEN 1 ELSE Min(closed)

\* Mutant: the slots of the ring keep the index of the one that is forgotten.
ForgetUnswept(t) ==
  LET victim == t.table[Victim(t)]
  IN [t EXCEPT !.table = RemoveAt(@, Victim(t)),
               !.free = <<victim.index>> \o @]

\* A freed index is given again, so the ring is swept of it.
ForgetOne(t) ==
  LET victim == t.table[Victim(t)]
  IN [t EXCEPT !.table = RemoveAt(@, Victim(t)),
               !.free = <<victim.index>> \o @,
               !.ring = [i \in DOMAIN @ |->
                           IF @[i].index = victim.index THEN [@[i] EXCEPT !.index = 0] ELSE @[i]]]

\* An entry for a session that has none.
Admitted(t, s) ==
  LET fresh == t.free = <<>>
      entry == [session |-> s, index |-> IF fresh THEN t.nextIndex ELSE Head(t.free),
                closed |-> FALSE, turns |-> [l \in Legs |-> NoFigures]]
  IN [t EXCEPT !.table = Append(@, entry),
               !.free = IF fresh THEN @ ELSE Tail(@),
               !.nextIndex = IF fresh THEN @ + 1 ELSE @]

\* sessionEntryFor: to the back of the table, and no longer closed.
Interned(t, s) ==
  LET i == PlaceOf(t, s)
  IN IF i # 0
     THEN [t EXCEPT !.table = Append(RemoveAt(@, i), [@[i] EXCEPT !.closed = FALSE])]
     ELSE Admitted(IF Len(t.table) >= MaxTracked THEN ForgetOne(t) ELSE t, s)

\* The entry of a session that was just interned is the last one.
AddToLast(t, leg, field) ==
  [t EXCEPT !.table[Len(t.table)].turns[leg][field] = @ + 1]

Abandon(t, span) ==
  LET counted1 == [t EXCEPT !.figures[span.name].abandoned = @ + 1]
  IN IF span.session = NoOne THEN counted1
     ELSE AddToLast(Interned(counted1, span.session), "total", "abandoned")

\* Where the span is that is open under the key, or 0.
OpenUnder(t, key) == SelectInSeq(t.spans, LAMBDA span : span.key = key)

Without(t, i) == [t EXCEPT !.spans = RemoveAt(@, i)]

Discarded(t, i) == Without(Abandon(t, t.spans[i]), i)

\* Mutant: what was open under the key is overwritten.
BeginOver(t, span) ==
  LET displaced == OpenUnder(t, span.key)
      t1 == IF displaced = 0 THEN t ELSE Without(t, displaced)
      t2 == IF Len(t1.spans) < MaxOpenSpans THEN t1 ELSE Discarded(t1, 1)
  IN [t2 EXCEPT !.spans = Append(@, span)]

\* begin: what was open under the key, and the oldest span when there are too
\* many, are abandoned.
Begin(t, span) ==
  LET displaced == OpenUnder(t, span.key)
      t1 == IF displaced = 0 THEN t ELSE Discarded(t, displaced)
      t2 == IF Len(t1.spans) < MaxOpenSpans THEN t1 ELSE Discarded(t1, 1)
  IN [t2 EXCEPT !.spans = Append(@, span)]

Record(t, name, index, span) ==
  [t EXCEPT !.ring[t.ringNext] = [name |-> name, index |-> index, turn |-> span.turn, delta |-> span.delta],
            !.ringNext = IF @ + 1 = Capacity THEN 0 ELSE @ + 1,
            !.ringFilled = IF @ < Capacity THEN @ + 1 ELSE @,
            !.figures[name].count = @ + 1]

\* recordTurn, for a session that was just interned.
RecordTurn(t, leg, span) ==
  AddToLast(Record(t, leg, t.table[Len(t.table)].index, span), leg, "count")

\* endTurn: the legs before the total, if a delta was noted.
RecordLegs(t, span) ==
  RecordTurn(IF span.delta = 0 THEN t ELSE RecordTurn(RecordTurn(t, "first", span), "rest", span),
             "total", span)

LegsOf(span) == IF span.delta = 0 THEN <<"total">> ELSE <<"first", "rest", "total">>

\* readRing: oldest first, each with its session if the table still has it.
ReadRing(t) ==
  LET start == IF t.ringFilled < Capacity THEN 0 ELSE t.ringNext
      Named(r) == [name |-> r.name, turn |-> r.turn,
                   session |-> IF \E i \in DOMAIN t.table : t.table[i].index = r.index
                               THEN (CHOOSE e \in ToSet(t.table) : e.index = r.index).session
                               ELSE NoOne]
  IN [k \in 1..t.ringFilled |-> Named(t.ring[(start + k - 1) % Capacity])]

-----------------------------------------------------------------------------

TimingsInit ==
  /\ store = NewStore
  /\ open = <<>> /\ slot = [s \in Conversations |-> 0]
  /\ prompts = [s \in Conversations |-> <<>>]
  /\ tools = [t \in ToolCalls |-> NoOne]
  /\ stage = [q \in Requests |-> "new"]
  /\ ready = FALSE /\ shuttingDown = FALSE /\ turns = 0
  /\ recorded = <<>> /\ begun = [n \in {"turn", "tool", "command"} |-> 0]
  /\ forgotten = [s \in Conversations |-> 0] /\ counted = {}

IsOpen(s) == Contains(open, s)

Tracked(t) == {e.session : e \in ToSet(t.table)}

\* Every step of the store notes whom it forgot.
NoteForgotten ==
  forgotten' = [s \in Conversations |->
                  IF s \in Tracked(store) \ Tracked(store') THEN Len(recorded') ELSE forgotten[s]]

Began(kind) == begun' = [begun EXCEPT ![kind] = @ + 1]

Entry(name, session, span) == [name |-> name, session |-> session, turn |-> span.turn]

-----------------------------------------------------------------------------
(* The runtime and Pi. *)

\* hostFor: a new subscription with a slot of its own.
OpenSession(s) ==
  /\ ready /\ ~IsOpen(s) /\ Len(open) < MaxLive
  /\ open' = Append(open, s)
  /\ slot' = [slot EXCEPT ![s] = 0]
  /\ UNCHANGED <<store, prompts, tools, stage, ready, shuttingDown, turns,
                 recorded, begun, forgotten, counted>>

\* prompt: the turn begins when the command is accepted.
Prompt(s) ==
  /\ IsOpen(s) /\ turns < MaxTurns
  /\ turns' = turns + 1
  /\ store' = Begin(Interned(store, s), Span(<<"turn", s>>, "total", s, turns + 1))
  /\ slot' = [slot EXCEPT ![s] = turns + 1]
  /\ prompts' = [prompts EXCEPT ![s] = Append(@, turns + 1)]
  /\ counted' = counted \cup {s}
  /\ Began("turn")
  /\ UNCHANGED <<open, tools, stage, ready, shuttingDown, recorded>>
  /\ NoteForgotten

\* noteFirstDelta, on a handle whose turn is still open.
MessageUpdate(s) ==
  /\ IsOpen(s) /\ prompts[s] # <<>>
  /\ store' = [store EXCEPT !.spans = [i \in DOMAIN @ |->
                 IF @[i].name = "total" /\ @[i].turn = slot[s] /\ @[i].delta = 0
                 THEN [@[i] EXCEPT !.delta = Head(prompts[s])] ELSE @[i]]]
  /\ UNCHANGED <<open, slot, prompts, tools, stage, ready, shuttingDown, turns,
                 recorded, begun, forgotten, counted>>

\* A prompt is answered before others that wait, or an extension handles it and
\* nothing settles.
PromptEnds(s) ==
  /\ IsOpen(s) /\ prompts[s] # <<>>
  /\ prompts' = [prompts EXCEPT ![s] = Tail(@)]
  /\ UNCHANGED <<store, open, slot, tools, stage, ready, shuttingDown, turns,
                 recorded, begun, forgotten, counted>>

\* agent_settled, endTurn.
Settle(s) ==
  /\ IsOpen(s) /\ Len(prompts[s]) = 1
  /\ prompts' = [prompts EXCEPT ![s] = <<>>]
  /\ slot' = [slot EXCEPT ![s] = 0]
  /\ LET i == OpenUnder(store, <<"turn", s>>)
         span == store.spans[i]
     IN IF i = 0 THEN UNCHANGED <<store, recorded>>
        ELSE /\ store' = RecordLegs(Interned(Without(store, i), s), span)
             /\ recorded' = recorded \o [k \in DOMAIN LegsOf(span) |-> Entry(LegsOf(span)[k], s, span)]
  /\ NoteForgotten
  /\ UNCHANGED <<open, tools, stage, ready, shuttingDown, turns, begun, counted>>

\* closeSession: the turn that is open is abandoned, then the entry is closed.
Closed(t, s) ==
  LET i == OpenUnder(t, <<"turn", s>>)
      t1 == IF i = 0 THEN t ELSE Discarded(t, i)
  IN [t1 EXCEPT !.table = [k \in DOMAIN @ |->
        IF @[k].session = s THEN [@[k] EXCEPT !.closed = TRUE] ELSE @[k]]]

\* One session after the other.
AllClosed(t, gone) ==
  LET after[k \in 0..Len(gone)] == IF k = 0 THEN t ELSE Closed(after[k - 1], gone[k])
  IN after[Len(gone)]

\* dispose takes the subscription with it: no tool of the session ends.
GoAway(t0, gone) ==
  /\ store' = AllClosed(t0, gone)
  /\ slot' = [s \in Conversations |-> IF Contains(gone, s) THEN 0 ELSE slot[s]]
  /\ prompts' = [s \in Conversations |-> IF Contains(gone, s) THEN <<>> ELSE prompts[s]]
  /\ tools' = [t \in ToolCalls |-> IF Contains(gone, tools[t]) THEN NoOne ELSE tools[t]]
  /\ counted' = counted \ ToSet(gone)
  /\ UNCHANGED <<ready, turns, recorded>>
  /\ NoteForgotten

\* close_session, and a bind that fails.
CloseSession(s) ==
  /\ \E i \in DOMAIN open : open[i] = s /\ open' = RemoveAt(open, i)
  /\ GoAway(store, <<s>>)
  /\ UNCHANGED <<stage, shuttingDown, begun>>

\* A call id is not used while it is; there are as many calls as ids.
ToolStart(t, s) ==
  /\ IsOpen(s) /\ prompts[s] # <<>> /\ tools[t] = NoOne
  /\ <<"tool", t>> \notin {span.key : span \in ToSet(store.spans)}
  /\ begun["tool"] < Cardinality(ToolCalls)
  /\ tools' = [tools EXCEPT ![t] = s]
  /\ store' = Begin(store, Span(<<"tool", t>>, "tool", NoOne, 0))
  /\ Began("tool")
  /\ UNCHANGED <<open, slot, prompts, stage, ready, shuttingDown, turns, recorded, counted>>
  /\ NoteForgotten

\* end, which is nothing for a span that was abandoned.
Ended(key) ==
  LET i == OpenUnder(store, key)
      span == store.spans[i]
  IN IF i = 0 THEN UNCHANGED <<store, recorded>>
     ELSE /\ store' = Record(Without(store, i), span.name, 0, span)
          /\ recorded' = Append(recorded, Entry(span.name, NoOne, span))

ToolEnd(t) ==
  /\ tools[t] # NoOne
  /\ tools' = [tools EXCEPT ![t] = NoOne]
  /\ Ended(<<"tool", t>>)
  /\ UNCHANGED <<open, slot, prompts, stage, ready, shuttingDown, turns, begun, forgotten, counted>>

-----------------------------------------------------------------------------
(* Dispatch: what happens before the first await of a handler is one step. *)

Boot ==
  /\ ~ready /\ ready' = TRUE
  /\ UNCHANGED <<store, open, slot, prompts, tools, stage, shuttingDown, turns,
                 recorded, begun, forgotten, counted>>

\* A message that does not validate, is not let through, or has no handler: its
\* span opens and ends in the same stretch, named or not.
Refuse(q) ==
  /\ stage[q] = "new"
  /\ \E name \in {"unknown", "command"} :
       LET opened == Begin(store, Span(<<"command", q>>, name, NoOne, 0))
           i == OpenUnder(opened, <<"command", q>>)
           span == opened.spans[i]
       IN /\ store' = Record(Without(opened, i), name, 0, span)
          /\ recorded' = Append(recorded, Entry(name, NoOne, span))
  /\ stage' = [stage EXCEPT ![q] = "answered"]
  /\ Began("command")
  /\ UNCHANGED <<open, slot, prompts, tools, ready, shuttingDown, turns, counted>>
  /\ NoteForgotten

\* Only the two reports get past the gate of a host that shuts down.
Handle(q) ==
  /\ stage[q] = "new" /\ ready
  /\ shuttingDown => q \in Reports
  /\ store' = Begin(store, Span(<<"command", q>>, "command", NoOne, 0))
  /\ stage' = [stage EXCEPT ![q] = "running"]
  /\ Began("command")
  /\ UNCHANGED <<open, slot, prompts, tools, ready, shuttingDown, turns, recorded, counted>>
  /\ NoteForgotten

Finish(q) ==
  /\ stage[q] = "running"
  /\ stage' = [stage EXCEPT ![q] = "answered"]
  /\ Ended(<<"command", q>>)
  /\ UNCHANGED <<open, slot, prompts, tools, ready, shuttingDown, turns, begun, forgotten, counted>>

\* The handler of shutdown disposes of every session before its first await.
ShutdownAll(q) ==
  /\ stage[q] = "new" /\ q \notin Reports /\ ready /\ ~shuttingDown
  /\ shuttingDown' = TRUE
  /\ stage' = [stage EXCEPT ![q] = "running"]
  /\ Began("command")
  /\ open' = <<>>
  /\ GoAway(Begin(store, Span(<<"command", q>>, "command", NoOne, 0)), open)

PiNext ==
  \/ \E s \in Conversations : Prompt(s) \/ MessageUpdate(s) \/ PromptEnds(s) \/ Settle(s)
  \/ \E t \in ToolCalls : ToolEnd(t) \/ \E s \in Conversations : ToolStart(t, s)

HostNext ==
  \/ Boot
  \/ \E s \in Conversations : OpenSession(s) \/ CloseSession(s)
  \/ \E q \in Requests : Refuse(q) \/ Handle(q) \/ ShutdownAll(q) \/ Finish(q)

TimingsNext == PiNext \/ HostNext

TimingsSpec == TimingsInit /\ [][TimingsNext]_timingVars

-----------------------------------------------------------------------------
(* What holds. *)

TimingsTypeOK ==
  /\ Len(store.spans) <= MaxOpenSpans /\ Len(store.table) <= MaxTracked
  /\ store.nextIndex \in 1..MaxTracked + 1
  /\ ToSet(open) \subseteq Conversations /\ counted \subseteq ToSet(open)
  /\ turns \in 0..MaxTurns

Known(i) ==
  [recorded[i] EXCEPT !.session =
     IF @ # NoOne /\ i > forgotten[@] THEN @ ELSE NoOne]

\* The report's recent spans are the last ones that were recorded, in order,
\* each under the session that ran it or under none when that was forgotten
\* since: neither the reuse of an index nor the wrap of the ring moves a turn to
\* another session (timings.ts:1181).
RecentIsTrue ==
  ReadRing(store) =
    [k \in 1..store.ringFilled |-> Known(Len(recorded) - store.ringFilled + k)]

Finished(name) == store.figures[name].count + store.figures[name].abandoned

Unfinished(kind) == Cardinality({i \in DOMAIN store.spans : store.spans[i].key[1] = kind})

\* Whatever begins is recorded once, abandoned once or still open, through
\* displacement, eviction, close and shutdown, and the figures of a session are
\* those of its own turns since it was last forgotten.
NothingMiscounted ==
  /\ begun["turn"] = Finished("total") + Unfinished("turn")
  /\ begun["tool"] = Finished("tool") + Unfinished("tool")
  /\ begun["command"] = Finished("command") + Finished("unknown") + Unfinished("command")
  /\ \A e \in ToSet(store.table), leg \in Legs :
       e.turns[leg].count =
         Cardinality({i \in DOMAIN recorded : recorded[i].name = leg
                        /\ recorded[i].session = e.session /\ i > forgotten[e.session]})

\* timings.ts:553 "the sessions a person is actually watching can never be
\* evicted by each other": one that is open and was prompted is in the table.
WatchedAreRemembered ==
  \A s \in counted : \E e \in ToSet(store.table) : e.session = s /\ ~e.closed

\* timings.ts:604 "this turn's first block delta", which a prompt that was
\* accepted during another one takes from that one.
FirstDeltaIsOwn ==
  \A span \in ToSet(store.spans) : span.delta \in {0, span.turn}

=============================================================================
