-------------------------- MODULE SessionProjection --------------------------
(***************************************************************************)
(* One conversation at its two ends: session-host.ts, which turns what Pi   *)
(* reports into events and snapshots, and the reducer, the batcher and the  *)
(* projection of the renderer, which turn them into what is on screen.      *)
(*                                                                         *)
(* The way between the two is EventStream; here an event arrives as it is   *)
(* sent.  Text and reasoning are one kind of block, and a text is its size. *)
(* A message is named by its place in history.                              *)
(***************************************************************************)
EXTENDS Naturals, Sequences, FiniteSets, SequencesExt, FiniteSetsExt

CONSTANTS
  Calls,        \* tool call ids of Pi
  MaxMessages,  \* bound: length of history
  MaxSize,      \* bound: size of a text
  MaxBatch,     \* MAX_BATCHED_DELTA_CHARACTERS
  MaxResyncs    \* bound: compactions, and snapshots somebody asks for

ASSUME ProjectionAssumption ==
  {MaxMessages, MaxSize, MaxBatch} \subseteq Nat \ {0} /\ MaxResyncs \in Nat

VARIABLES
  history,        \* session.messages of Pi
  writing,        \* the assistant message between its start and its end
  loop,           \* what the agent loop does next
  due,            \* the calls of the last message that have not been executed
  used,           \* calls there have been
  lastAssistant,  \* lastAssistantMessageId, or NoMessage
  hostStatus,     \* SessionHost.status
  asking,         \* calls that wait for an approval
  screen,         \* SessionState of the reducer, with its address tables
  views,          \* what the projection has published, and its indexes
  batch,          \* deltas the batcher holds
  resyncs,
  cut,            \* (history) the message that was being written when the last snapshot was taken
  missed          \* (history) the call that had ended then, with its result still to come

piVars == <<history, writing, loop, due, used>>
projectionVars == <<piVars, lastAssistant, hostStatus, asking, screen, views, batch, resyncs, cut, missed>>

-----------------------------------------------------------------------------
(* Messages and blocks. *)

NoMessage == 0  \* ids start at 1 here
NoCall == "no call"

Part(kind, size, call, status) == [kind |-> kind, size |-> size, call |-> call, status |-> status]

Text(size) == Part("text", size, NoCall, "none")
CallPart(call) == Part("call", 0, call, "none")
ResultPart(call, status) == Part("result", 0, call, status)

Block(index, part) == part @@ [index |-> index]

HostMessage(role, status, parts) == [role |-> role, status |-> status, parts |-> parts]

\* toolCallOutcomes: a call with no result in history is not in it.
Outcomes(h) ==
  LET results == {h[i].parts[1] : i \in {j \in DOMAIN h : h[j].role = "result"}}
  IN [c \in {r.call : r \in results} |-> (CHOOSE r \in results : r.call = c).status]

\* projectMessage.  A message that stands alone has no outcomes.
Projected(message, id, outcomes, pending) ==
  LET StatusOf(part) ==
        IF part.kind # "call" THEN part.status
        ELSE IF part.call \in DOMAIN outcomes THEN outcomes[part.call]
        ELSE IF part.call \in pending THEN "pending_approval" ELSE "running"
  IN [id |-> id, role |-> message.role, status |-> message.status,
      blocks |-> [k \in DOMAIN message.parts |->
                    Block(k, [message.parts[k] EXCEPT !.status = StatusOf(message.parts[k])])]]

Snapshot(h, status, pending) ==
  [status |-> IF pending # {} THEN "awaiting_approval" ELSE status,
   approvals |-> pending,
   messages |-> [i \in DOMAIN h |-> Projected(h[i], i, Outcomes(h), pending)]]

-----------------------------------------------------------------------------
(* The reducer. *)

\* The first index that satisfies the test, or 0.
FirstWhere(s, Test(_)) ==
  LET hits == {i \in DOMAIN s : Test(s[i])} IN IF hits = {} THEN 0 ELSE Min(hits)

Position(messages, id) == FirstWhere(messages, LAMBDA m : m.id = id)

CallsOf(blocks) == {b.call : b \in {x \in ToSet(blocks) : x.kind = "call"}}

Addressed(i, blocks) ==
  [c \in CallsOf(blocks) |->
     [message |-> i, block |-> FirstWhere(blocks, LAMBDA b : b.kind = "call" /\ b.call = c)]]

\* callIndexesFor: the first block that holds the call.
Addresses(messages) ==
  LET all == UNION {CallsOf(messages[i].blocks) : i \in DOMAIN messages}
      Home(c) == FirstWhere(messages, LAMBDA m : c \in CallsOf(m.blocks))
  IN [c \in all |-> Addressed(Home(c), messages[Home(c)].blocks)[c]]

Restricted(f, S) == [x \in DOMAIN f \cap S |-> f[x]]

\* reindexCalls.
Reindexed(at, i, blocks) ==
  Restricted(at, {c \in DOMAIN at : at[c].message # i}) @@ Addressed(i, blocks)

Installed(snapshot) == snapshot @@ [at |-> Addresses(snapshot.messages)]

\* withMessages, after one message was rewritten.
Rewritten(s, i, blocks, callsChanged) ==
  [s EXCEPT !.messages[i].blocks = blocks,
            !.at = IF callsChanged THEN Reindexed(@, i, blocks) ELSE @]

\* upsertBlock: the blocks are sorted by their index.
WithBlock(blocks, block) ==
  LET i == FirstWhere(blocks, LAMBDA b : b.index = block.index)
      before == SelectSeq(blocks, LAMBDA b : b.index < block.index)
  IN IF i # 0 THEN [blocks EXCEPT ![i] = block]
     ELSE before \o <<block>> \o SubSeq(blocks, Len(before) + 1, Len(blocks))

\* upsertCall: where the call is, or after the last block.
WithCall(blocks, call, status) ==
  LET i == FirstWhere(blocks, LAMBDA b : b.kind = "call" /\ b.call = call)
      last == Max({0} \cup {b.index : b \in ToSet(blocks)})
  IN WithBlock(blocks, Block(IF i = 0 THEN last + 1 ELSE blocks[i].index,
                             [CallPart(call) EXCEPT !.status = status]))

\* mapCall: a call that nobody holds is dropped.
CallStatus(s, call, Change(_)) ==
  IF call \notin DOMAIN s.at THEN s
  ELSE LET a == s.at[call]
           b == s.messages[a.message].blocks[a.block]
       IN IF b.kind # "call" \/ b.call # call THEN s
          ELSE [s EXCEPT !.messages[a.message].blocks[a.block].status = Change(b.status)]

\* reduce, for an event about a message; one for a message that is not there is
\* dropped.
OnMessage(s, e) ==
  LET i == Position(s.messages, e.id)
      blocks == s.messages[i].blocks
      Grown(b) == IF b.index = e.block.index /\ b.kind = "text" THEN [b EXCEPT !.size = @ + e.block.size] ELSE b
  IN IF i = 0 THEN s
     ELSE CASE e.name \in {"block_started", "block_finished"} ->
                 Rewritten(s, i, WithBlock(blocks, e.block), TRUE)
            [] e.name = "block_delta" ->
                 Rewritten(s, i, [k \in DOMAIN blocks |-> Grown(blocks[k])], FALSE)
            [] e.name = "tool_call_started" ->
                 Rewritten(s, i, WithCall(blocks, e.call, "running"), TRUE)
            [] e.name = "turn_settled" -> [s EXCEPT !.messages[i].status = e.status]

Reduce(s, e) ==
  CASE e.name = "session_snapshot" -> Installed(e.snapshot)
    [] e.name = "session_status_changed" -> [s EXCEPT !.status = e.status]
    [] e.name = "message_added" ->
         [s EXCEPT !.messages = Append(@, e.message),
                   !.at = Reindexed(@, Len(s.messages) + 1, e.message.blocks)]
    [] e.name \in {"block_started", "block_delta", "block_finished", "tool_call_started", "turn_settled"} ->
         OnMessage(s, e)
    [] e.name = "tool_call_updated" -> CallStatus(s, e.call, LAMBDA shown : "running")
    [] e.name = "tool_call_finished" ->
         CallStatus(s, e.call, LAMBDA shown :  \* a more precise outcome is kept
           IF e.status = "failed" /\ shown \in {"denied", "aborted"} THEN shown ELSE e.status)
    [] e.name = "approval_requested" ->
         [CallStatus(s, e.call, LAMBDA shown : "pending_approval")
            EXCEPT !.status = "awaiting_approval", !.approvals = @ \cup {e.call}]
    [] e.name = "approval_resolved" ->
         LET left == s.approvals \ {e.call}
             settled == IF e.call \in s.approvals THEN CallStatus(s, e.call, LAMBDA shown : e.status) ELSE s
         IN [settled EXCEPT !.status = IF left # {} THEN "awaiting_approval" ELSE "streaming",
                            !.approvals = left]

-----------------------------------------------------------------------------
(* The projection: indexes that follow the reducer, and views of its state. *)

IsStreaming(m) == m.status = "streaming"

\* completedTimelineRows: a result is drawn inside its call, wherever that is.
Rows(messages) ==
  LET calls == UNION {CallsOf(m.blocks) : m \in ToSet(messages)}
      Shown(b) == b.kind # "result" \/ b.call \notin calls
      Row(m) == [id |-> m.id, status |-> m.status, blocks |-> SelectSeq(m.blocks, Shown),
                 marker |-> m.blocks = <<>>]
      rows == [i \in DOMAIN messages |-> Row(messages[i])]
  IN SelectSeq(rows, LAMBDA r : ~IsStreaming(r) /\ (r.blocks # <<>> \/ r.marker))

StatusIn(blocks) ==
  [c \in CallsOf(blocks) |-> blocks[Max({i \in DOMAIN blocks : blocks[i].kind = "call" /\ blocks[i].call = c})].status]

\* indexMessage.
Indexed(x, m) ==
  LET ids == SelectSeq([i \in DOMAIN m.blocks |-> IF m.blocks[i].kind = "call" THEN m.blocks[i].call ELSE NoCall],
                       LAMBDA c : c # NoCall /\ c \notin DOMAIN x.calls)
  IN [x EXCEPT !.calls = StatusIn(m.blocks) @@ @,
               !.order = @ \o ids,
               !.held = (m.id :> CallsOf(m.blocks)) @@ @]

NoIndexes == [calls |-> <<>>, order |-> <<>>, held |-> <<>>, active |-> NoMessage]

LastStreaming(messages) ==
  LET ids == SelectSeq(messages, IsStreaming) IN IF ids = <<>> THEN NoMessage ELSE Last(ids).id

\* rebuildIndexes.
Rebuilt(messages) == [FoldLeft(Indexed, NoIndexes, messages) EXCEPT !.active = LastStreaming(messages)]

\* reindexMessage.
ReindexedMessage(x, messages, id) ==
  LET i == Position(messages, id)
      dropped == (IF id \in DOMAIN x.held THEN x.held[id] ELSE {}) \ CallsOf(messages[i].blocks)
  IN IF i = 0 THEN x
     ELSE Indexed([x EXCEPT !.calls = Restricted(@, DOMAIN @ \ dropped),
                            !.order = SelectSeq(@, LAMBDA c : c \notin dropped)], messages[i])

Core(s) == [status |-> s.status, messages |-> Len(s.messages), approvals |-> Cardinality(s.approvals)]

Activity(x) == [i \in DOMAIN x.order |-> <<x.order[i], x.calls[x.order[i]]>>]

AllViews(s, x) ==
  [core |-> Core(s), rows |-> Rows(s.messages), active |-> x.active,
   activity |-> Activity(x), approvals |-> s.approvals, index |-> x]

Owner(s, call) == IF call \in DOMAIN s.at THEN s.messages[s.at[call].message].id ELSE NoMessage

\* affectedMessage, read from the state before the event.
Affected(s, e) ==
  CASE e.name = "message_added" -> e.message.id
    [] e.name \in {"block_started", "block_delta", "block_finished", "tool_call_started", "turn_settled"} -> e.id
    [] e.name \in {"tool_call_updated", "tool_call_finished", "approval_requested"} -> Owner(s, e.call)
    [] e.name = "approval_resolved" /\ e.call \in s.approvals -> Owner(s, e.call)
    [] OTHER -> NoMessage

\* Mutant: an approval leaves the index of calls as it is.
TouchesForgetful(name) ==
  CASE name = "session_status_changed" -> {"core"}
    [] name \in {"turn_settled", "block_delta"} -> {"timeline"}
    [] name = "message_added" -> {"core", "timeline", "activity"}
    [] name \in {"block_started", "block_finished", "tool_call_started", "tool_call_updated",
                 "tool_call_finished"} -> {"timeline", "contents", "activity"}
    [] name \in {"approval_requested", "approval_resolved"} -> {"core", "timeline", "activity", "approvals"}

\* INVALIDATES.
Touches(name) ==
  CASE name = "session_status_changed" -> {"core"}
    [] name \in {"turn_settled", "block_delta"} -> {"timeline"}
    [] name = "message_added" -> {"core", "timeline", "activity"}
    [] name \in {"block_started", "block_finished", "tool_call_started", "tool_call_updated",
                 "tool_call_finished"} -> {"timeline", "contents", "activity"}
    [] name \in {"approval_requested", "approval_resolved"} ->
         {"core", "timeline", "contents", "activity", "approvals"}

\* completedRowsMayHaveChanged.
RowsMayHaveChanged(e, id, s) ==
  \/ e.name \in {"turn_settled", "message_added", "tool_call_started"}
  \/ LET i == Position(s.messages, id) IN i # 0 /\ ~IsStreaming(s.messages[i])

\* The indexes after the event.
IndexAfter(x, e, id, s) ==
  IF e.name = "message_added" \/ (id # NoMessage /\ "contents" \in Touches(e.name))
  THEN ReindexedMessage(x, s.messages, id) ELSE x

ActiveAfter(x, e, id, s) ==
  CASE e.name = "message_added" /\ IsStreaming(e.message) -> [x EXCEPT !.active = e.message.id]
    [] e.name = "turn_settled" /\ id = x.active -> [x EXCEPT !.active = LastStreaming(s.messages)]
    [] OTHER -> x

Published(v, e, id, s, x) ==
  LET touched == Touches(e.name)
  IN [core |-> IF "core" \in touched THEN Core(s) ELSE v.core,
      rows |-> IF "timeline" \in touched /\ RowsMayHaveChanged(e, id, s) THEN Rows(s.messages) ELSE v.rows,
      active |-> IF "timeline" \in touched THEN x.active ELSE v.active,
      activity |-> IF "activity" \in touched THEN Activity(x) ELSE v.activity,
      approvals |-> IF "approvals" \in touched THEN s.approvals ELSE v.approvals,
      index |-> x]

Followed(page, e, id, s) ==
  CASE e.name = "session_snapshot" -> [screen |-> s, views |-> AllViews(s, Rebuilt(s.messages))]
    [] e.name # "session_snapshot" /\ s = page.screen -> page
    [] OTHER -> [screen |-> s,
                 views |-> Published(page.views, e, id, s,
                             ActiveAfter(IndexAfter(page.views.index, e, id, s), e, id, s))]

\* SessionProjection.apply.
Apply(page, e) == Followed(page, e, Affected(page.screen, e), Reduce(page.screen, e))

-----------------------------------------------------------------------------
(* The batcher. *)

Held(deltas) == FoldLeft(LAMBDA n, d : n + d.block.size, 0, deltas)

SameBlock(d, e) == d.id = e.id /\ d.block.index = e.block.index

Drained(page, deltas) == FoldLeft(Apply, page, deltas)

\* Mutant: a structural event overtakes the text before it.
PushOvertaking(p, e) ==
  IF e.name # "block_delta" THEN [page |-> Apply(p.page, e), batch |-> p.batch]
  ELSE [page |-> p.page, batch |-> Append(p.batch, e)]

Buffered(p, e) ==
  IF p.batch # <<>> /\ SameBlock(Last(p.batch), e)
  THEN [p EXCEPT !.batch[Len(p.batch)].block.size = @ + e.block.size]
  ELSE [p EXCEPT !.batch = Append(@, e)]

Flushed(p) == [page |-> Drained(p.page, p.batch), batch |-> <<>>]

\* push: a structural event, or a delta as large as a batch, first drains every
\* delta before it.
Push(p, e) ==
  CASE e.name # "block_delta" \/ e.block.size > MaxBatch ->
         [page |-> Apply(Drained(p.page, p.batch), e), batch |-> <<>>]
    [] OTHER -> Buffered(IF Held(p.batch) + e.block.size > MaxBatch THEN Flushed(p) ELSE p, e)

Deliver(p) == screen' = p.page.screen /\ views' = p.page.views /\ batch' = p.batch

Arrive(events) ==
  Deliver(FoldLeft(Push, [page |-> [screen |-> screen, views |-> views], batch |-> batch], events))

-----------------------------------------------------------------------------
(* The host, for every event of Pi. *)

Nothing == [on |-> FALSE, open |-> FALSE, parts |-> <<>>]

EmptySnapshot == Snapshot(<<>>, "idle", {})

ProjectionInit ==
  /\ history = <<>> /\ writing = Nothing /\ loop = "idle" /\ due = <<>> /\ used = {}
  /\ lastAssistant = NoMessage /\ hostStatus = "idle" /\ asking = {}
  /\ screen = Installed(EmptySnapshot)
  /\ views = AllViews(screen, NoIndexes)
  /\ batch = <<>> /\ resyncs = 0 /\ cut = {} /\ missed = {}

NextId == Len(history) + 1

Room == Len(history) < MaxMessages

\* setStatus.
StatusEvents(status) ==
  IF status = hostStatus THEN <<>> ELSE <<[name |-> "session_status_changed", status |-> status]>>

SetStatus(status) == hostStatus' = status /\ Arrive(StatusEvents(status))

Added(message, id) == [name |-> "message_added", message |-> Projected(message, id, <<>>, {})]

AboutBlock(name, id, block) == [name |-> name, id |-> id, block |-> block]

\* assistantMessageId: the message a call or a settled turn belongs to.
AssistantId == IF lastAssistant # NoMessage THEN lastAssistant ELSE Max({Len(history), 1})

\* agent_start, turn_start, and the message of the person.
Prompt ==
  /\ loop = "idle" /\ Len(history) + 2 <= MaxMessages
  /\ loop' = "asking"
  /\ history' = Append(history, HostMessage("user", "complete", <<Text(1)>>))
  /\ hostStatus' = "streaming"
  /\ Arrive(StatusEvents("streaming") \o <<Added(Last(history'), NextId)>>)
  /\ UNCHANGED <<writing, due, used, lastAssistant, asking, resyncs, cut, missed>>

\* message_start: the message is not in history yet.
AssistantStart ==
  /\ loop = "asking" /\ Room
  /\ loop' = "writing"
  /\ writing' = [Nothing EXCEPT !.on = TRUE]
  /\ Arrive(<<Added(HostMessage("assistant", "complete", <<>>), NextId)>>)
  /\ UNCHANGED <<history, due, used, lastAssistant, hostStatus, asking, resyncs, cut, missed>>

WritingStep == UNCHANGED <<history, loop, due, lastAssistant, hostStatus, asking, resyncs, cut, missed>>

TextStart ==
  /\ loop = "writing" /\ ~writing.open /\ Len(writing.parts) < 2
  /\ writing' = [writing EXCEPT !.open = TRUE, !.parts = Append(@, Text(0))]
  /\ Arrive(<<AboutBlock("block_started", NextId, Block(Len(writing'.parts), Text(0)))>>)
  /\ WritingStep /\ UNCHANGED used

TextDelta ==
  /\ writing.open /\ Last(writing.parts).size < MaxSize
  /\ writing' = [writing EXCEPT !.parts[Len(writing.parts)].size = @ + 1]
  /\ Arrive(<<AboutBlock("block_delta", NextId, Block(Len(writing.parts), Text(1)))>>)
  /\ WritingStep /\ UNCHANGED used

\* Bound: a text that ends has its full size; one that is cut off may not.
TextEnd ==
  /\ writing.open /\ Last(writing.parts).size = MaxSize
  /\ writing' = [writing EXCEPT !.open = FALSE]
  /\ Arrive(<<AboutBlock("block_finished", NextId, Block(Len(writing.parts), Last(writing.parts)))>>)
  /\ WritingStep /\ UNCHANGED used

\* A call is never streamed.
CallWritten(c) ==
  /\ loop = "writing" /\ ~writing.open /\ c \notin used
  /\ used' = used \cup {c}
  /\ writing' = [writing EXCEPT !.parts = Append(@, CallPart(c))]
  /\ WritingStep /\ UNCHANGED <<screen, views, batch>>

\* message_end: texts are sent once more, calls are not.
AssistantEnd(status) ==
  /\ loop = "writing"
  /\ status = "complete" => ~writing.open
  /\ history' = Append(history, HostMessage("assistant", status, writing.parts))
  /\ writing' = Nothing
  /\ lastAssistant' = NextId
  /\ LET parts == writing.parts
          blocks == [i \in DOMAIN parts |-> Block(i, parts[i])]
          calls == SelectSeq(parts, LAMBDA q : q.kind = "call")
          texts == SelectSeq(blocks, LAMBDA b : b.kind = "text")
          runs == status = "complete" /\ calls # <<>>
      IN /\ Arrive([i \in DOMAIN texts |-> AboutBlock("block_finished", NextId, texts[i])])
         /\ due' = IF runs THEN calls ELSE <<>>
         /\ loop' = IF runs THEN "tools" ELSE "ending"
  /\ UNCHANGED <<used, hostStatus, asking, resyncs, cut, missed>>

ToolStep == UNCHANGED <<writing, used, lastAssistant, hostStatus, resyncs, cut, missed>>

AboutCall(name, status) == [name |-> name, call |-> due[1].call, status |-> status]

\* tool_execution_start.
ToolStart ==
  /\ loop = "tools" /\ loop' = "running"
  /\ Arrive(<<[name |-> "tool_call_started", id |-> AssistantId, call |-> due[1].call]>>)
  /\ ToolStep /\ UNCHANGED <<history, due, asking>>

Ask ==
  /\ loop = "running" /\ loop' = "asked"
  /\ asking' = asking \cup {due[1].call}
  /\ Arrive(<<AboutCall("approval_requested", "pending_approval")>>)
  /\ ToolStep /\ UNCHANGED <<history, due>>

\* allowed, denied, or cancelled.
Decide(status) ==
  /\ loop = "asked" /\ loop' = status
  /\ asking' = asking \ {due[1].call}
  /\ Arrive(<<AboutCall("approval_resolved", IF status = "allowed" THEN "running" ELSE status)>>)
  /\ ToolStep /\ UNCHANGED <<history, due>>

ToolUpdate ==
  /\ loop \in {"running", "allowed"}
  /\ Arrive(<<AboutCall("tool_call_updated", "running")>>)
  /\ ToolStep /\ UNCHANGED <<history, loop, due, asking>>

\* tool_execution_end: a refusal is read from the text of the error.
ToolEnd(status) ==
  /\ \/ loop = "running" /\ status \in {"succeeded", "failed", "denied"}
     \/ loop = "allowed" /\ status \in {"succeeded", "failed"}
     \/ loop = status
  /\ loop' = "result"
  /\ due' = [due EXCEPT ![1].status = status]
  /\ Arrive(<<AboutCall("tool_call_finished", status)>>)
  /\ ToolStep /\ UNCHANGED <<history, asking>>

\* The result arrives as a message of its own.
ToolResult ==
  /\ loop = "result" /\ Room
  /\ history' = Append(history, HostMessage("result", "complete", <<ResultPart(due[1].call, due[1].status)>>))
  /\ due' = Tail(due)
  /\ loop' = IF due' = <<>> THEN "ending" ELSE "tools"
  /\ Arrive(<<Added(Last(history'), NextId)>>)
  /\ ToolStep /\ UNCHANGED asking

LastAnswer == Last(SelectSeq(history, LAMBDA m : m.role = "assistant"))

\* turn_end.
TurnEnd ==
  /\ loop = "ending" /\ loop' = "between"
  /\ Arrive(<<[name |-> "turn_settled", id |-> AssistantId, status |-> LastAnswer.status]>>)
  /\ ToolStep /\ UNCHANGED <<history, due, asking>>

NextTurn ==
  /\ loop = "between" /\ Last(history).role = "result" /\ Room
  /\ loop' = "asking"
  /\ ToolStep /\ UNCHANGED <<history, due, asking, screen, views, batch>>

StatusStep == UNCHANGED <<history, writing, due, used, lastAssistant, asking, resyncs, cut, missed>>

\* agent_settled, and a retry that is given up.
Settle ==
  /\ loop \in {"between", "retrying"} /\ loop' = "idle"
  /\ SetStatus("idle") /\ StatusStep

RetryStart ==
  /\ loop = "between" /\ LastAnswer.status = "failed" /\ Room
  /\ loop' = "retrying"
  /\ SetStatus("retrying") /\ StatusStep

Retry ==
  /\ loop = "retrying" /\ loop' = "asking"
  /\ SetStatus("streaming") /\ StatusStep

CompactionStart ==
  /\ loop \in {"idle", "between"} /\ history # <<>>
  /\ resyncs < MaxResyncs /\ resyncs' = resyncs + 1
  /\ loop' = "compacting"
  /\ SetStatus("compacting")
  /\ UNCHANGED <<history, writing, due, used, lastAssistant, asking, cut, missed>>

ResyncEvent(h, status) == [name |-> "session_snapshot", snapshot |-> Snapshot(h, status, asking)]

\* compaction_end, with or without a summary, and the resync of the session.
CompactionEnd(kept, retried) ==
  /\ loop = "compacting"
  /\ kept \in 1..NextId /\ (kept <= Len(history) => history[kept].role # "result")
  /\ history' = IF kept = 1 THEN history
                ELSE <<HostMessage("summary", "complete", <<Text(1)>>)>> \o SubSeq(history, kept, Len(history))
  /\ retried => Len(history') < MaxMessages
  /\ loop' = IF retried THEN "asking" ELSE "idle"
  /\ hostStatus' = IF retried THEN "streaming" ELSE "idle"
  /\ lastAssistant' = NoMessage /\ cut' = {} /\ missed' = {}
  /\ Arrive(StatusEvents(hostStatus') \o <<ResyncEvent(history', hostStatus')>>)
  /\ UNCHANGED <<writing, due, used, asking, resyncs>>

\* resync, for a gap or a new port: a message that is being written is not in it.
Resync ==
  /\ resyncs < MaxResyncs /\ resyncs' = resyncs + 1
  /\ lastAssistant' = NoMessage
  /\ cut' = IF writing.on THEN {NextId} ELSE {}
  /\ missed' = IF loop = "result" THEN {due[1].call} ELSE {}
  /\ Arrive(<<ResyncEvent(history, hostStatus)>>)
  /\ UNCHANGED <<piVars, hostStatus, asking>>

\* A frame of the browser.
Frame ==
  /\ batch # <<>>
  /\ LET page == Drained([screen |-> screen, views |-> views], batch)
     IN screen' = page.screen /\ views' = page.views
  /\ batch' = <<>>
  /\ UNCHANGED <<piVars, lastAssistant, hostStatus, asking, resyncs, cut, missed>>

TurnStep ==
  \/ Prompt \/ AssistantStart \/ TextStart \/ TextDelta \/ TextEnd
  \/ \E c \in Calls : CallWritten(c)
  \/ \E status \in {"complete", "aborted", "failed"} : AssistantEnd(status)
  \/ TurnEnd \/ NextTurn \/ Settle \/ RetryStart \/ Retry

ToolsStep ==
  \/ ToolStart \/ Ask \/ ToolUpdate \/ ToolResult
  \/ \E status \in {"allowed", "denied", "aborted"} : Decide(status)
  \/ \E status \in {"succeeded", "failed", "denied", "aborted"} : ToolEnd(status)

ProjectionNext ==
  \/ TurnStep \/ ToolsStep
  \/ CompactionStart \/ \E kept \in 1..MaxMessages + 1, retried \in BOOLEAN : CompactionEnd(kept, retried)
  \/ Resync \/ Frame

ProjectionSpec == ProjectionInit /\ [][ProjectionNext]_projectionVars

-----------------------------------------------------------------------------
(* What holds. *)

ProjectionTypeOK ==
  /\ Len(history) <= MaxMessages /\ Held(batch) <= Max({MaxBatch, 1})
  /\ used \subseteq Calls /\ asking \subseteq used /\ resyncs \in 0..MaxResyncs
  /\ \A d \in ToSet(batch) : d.name = "block_delta"

\* reducers/session.ts:170: there is exactly one block that can hold a call.
CallInOneBlock ==
  \A i, j \in DOMAIN screen.messages :
    i # j => CallsOf(screen.messages[i].blocks) \cap CallsOf(screen.messages[j].blocks) = {}

\* With the deltas that wait for a frame, the screen says what a snapshot taken
\* now would say, at every moment: status, approvals, the messages and their
\* order, the texts, and the outcome of every call whose result is in history.
\* Left out are what the last snapshot was too early for, a message that was being
\* written and the outcome of a call whose result was still to come, and the
\* status of a message whose turn has not settled.
SameAsSnapshot ==
  LET now == Snapshot(history, hostStatus, asking)
      seen == Drained([screen |-> screen, views |-> views], batch).screen
      live == IF writing.on THEN <<Projected(HostMessage("assistant", "complete", writing.parts), NextId, <<>>, {})>>
              ELSE <<>>
      due1 == SelectSeq(now.messages \o live, LAMBDA m : m.id \notin cut)
      Plain(blocks) == {b \in ToSet(blocks) : b.kind # "call"}
      Settled(m) == m.id < Len(history) \/ loop \in {"idle", "between", "asking"}
      Ended(c) == c \in DOMAIN Outcomes(history) \ missed
  IN /\ seen.status = now.status /\ seen.approvals = now.approvals
     /\ [i \in DOMAIN seen.messages |-> seen.messages[i].id] = [i \in DOMAIN due1 |-> due1[i].id]
     /\ \A i \in DOMAIN due1 :
          LET shown == seen.messages[i] said == due1[i] IN
          /\ shown.role = said.role
          /\ Settled(said) => shown.status = said.status
          /\ Plain(shown.blocks) = Plain(said.blocks)
          /\ \A c \in CallsOf(said.blocks) : Ended(c) =>
               StatusIn(shown.blocks)[c] = Outcomes(history)[c]

\* What is published, and the tables it is found by, are what they would be if
\* they were computed anew from the state: no view misses a change, and none is
\* addressed by a table that has drifted.
ViewsCurrent ==
  CallInOneBlock => /\ screen.at = Addresses(screen.messages)
                    /\ views = AllViews(screen, Rebuilt(screen.messages))

\* timeline-projection.ts:41: the message that streams is mounted as the active
\* one, apart from the rows of those that are complete.
StreamingIsActive ==
  writing.on /\ NextId \notin cut => views.active = NextId

=============================================================================
