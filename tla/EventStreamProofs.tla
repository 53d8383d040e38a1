-------------------------- MODULE EventStreamProofs --------------------------
(***************************************************************************)
(* What is proved of EventStream for every set of sessions, every number of*)
(* ports, every size, cap and window, and every bound: type correctness,   *)
(* the caps of the host's queue and window, and conservation of delivery   *)
(* credit; then what the renderer shows of a session: its history up to    *)
(* some point, or a gap that is flagged and that a resync has been asked   *)
(* for; and never less of it than before.                                  *)
(***************************************************************************)
EXTENDS EventStream, FiniteSetTheorems, TLAPS

USE DEF Kinds

-----------------------------------------------------------------------------
(* Operators of EventEmitter.                                              *)

\* The size of every kind of envelope is a natural number.
LEMMA BytesType == ASSUME NEW kind \in Kinds PROVE Bytes(kind) \in Nat
  BY SizeAssumption DEF Bytes

\* An enumeration of a set of sessions is a sequence of sessions.
LEMMA OrderType ==
  ASSUME NEW S \in SUBSET Sessions, NEW order \in SetToSeqs(S)
  PROVE  order \in Seq(Sessions)
<1>1. IsFiniteSet(S)
  BY SessionAssumption, FS_Subset
<1>2. Cardinality(S) \in Nat
  BY <1>1, FS_CardinalityType
<1>3. order \in [1..Cardinality(S) -> S]
  BY DEF SetToSeqs
<1> QED
  BY <1>2, <1>3

\* Announcing gaps, and re-fencing, are calls with a session.
LEMMA AnnouncementsType ==
  ASSUME NEW order \in Seq(Sessions)
  PROVE  Announcements(order) \in Seq(SessionTask)
<1>1. Len(order) \in Nat /\ DOMAIN order = 1..Len(order)
  OBVIOUS
<1>2. \A i \in 1..Len(order) : Announce(order[i]) \in SessionTask
  BY DEF Announce, SessionTask
<1>3. Announcements(order) = [i \in 1..Len(order) |-> Announce(order[i])]
  BY <1>1 DEF Announcements
<1> QED
  BY <1>1, <1>2, <1>3

LEMMA RefencesType ==
  ASSUME NEW gaps \in Seq(Sessions), NEW rest \in Seq(Sessions)
  PROVE  Refences(gaps, rest) \in Seq(SessionTask)
<1> DEFINE task(i) == ResyncTask(rest[i], FALSE)
           tasks == [i \in DOMAIN rest |-> task(i)]
<1>1. Len(rest) \in Nat /\ DOMAIN rest = 1..Len(rest)
  OBVIOUS
<1>2. \A i \in 1..Len(rest) : task(i) \in SessionTask
  BY DEF ResyncTask, SessionTask
<1>3. tasks \in Seq(SessionTask)
  <2> HIDE DEF task
  <2> QED
    BY <1>1, <1>2
<1>4. Announcements(gaps) \o tasks \in Seq(SessionTask)
  <2> HIDE DEF tasks
  <2> QED
    BY <1>3, AnnouncementsType
<1> QED
  BY <1>4 DEF Refences

\* The two kinds of call differ, so a queue of calls is all of one kind.
LEMMA NotReleasing ==
  ASSUME todo \in Seq(SessionTask)
  PROVE  ~Releasing
<1>1. \A task \in SessionTask : task.op # "release"
  BY DEF SessionTask
<1>2. todo # <<>> => Head(todo) \in SessionTask
  OBVIOUS
<1> QED
  BY <1>1, <1>2 DEF Releasing

LEMMA ReleasingType ==
  ASSUME todo \in Seq(SessionTask) \cup Seq({Release}), Releasing
  PROVE  todo \in Seq({Release})
  BY NotReleasing

LEMMA SessionTasks ==
  ASSUME todo \in Seq(SessionTask) \cup Seq({Release}), todo # <<>> => ~Releasing
  PROVE  todo \in Seq(SessionTask)
<1>1. CASE todo \in Seq(SessionTask)
  BY <1>1
<1>2. CASE todo \in Seq({Release})
  <2>1. todo = <<>> \/ Head(todo) = Release
    BY <1>2
  <2>2. todo = <<>>
    BY <2>1 DEF Releasing, Release
  <2> QED
    BY <2>2
<1> QED
  BY <1>1, <1>2

\* A sequence stays one of its set with an element put before it.
LEMMA ConsType ==
  ASSUME NEW S, NEW x \in S, NEW q \in Seq(S) PROVE <<x>> \o q \in Seq(S)
  OBVIOUS

\* Whether it fits or overflows, an emitted envelope leaves a well-typed queue
\* within its cap, and calls with a session.
LEMMA EmitType ==
  ASSUME EmitterTypeOK,
         NEW envelope \in Envelope, NEW rest \in Seq(SessionTask),
         Emit(envelope, rest)
  PROVE  /\ sequences' \in [Sessions -> Nat]
         /\ pending' \in Seq(Item)
         /\ pendingBytes' \in Int /\ pendingBytes' <= QueueCap
         /\ dropped' \in SUBSET Sessions
         /\ todo' \in Seq(SessionTask)
<1>1. /\ envelope.session \in Sessions /\ envelope.kind \in Kinds
      /\ envelope.sequence \in Nat
  BY DEF Envelope
<1>2. Bytes(envelope.kind) \in Nat
  BY <1>1, BytesType
<1>3. sequences' \in [Sessions -> Nat]
  BY <1>1 DEF Emit, EmitterTypeOK
<1>4. CASE Overflows(envelope)
  <2>1. pending' = <<>> /\ pendingBytes' = 0
    BY <1>4 DEF Emit, Buffer
  <2>2. Lost(envelope) \in SUBSET Sessions
    <3>1. pending \in Seq(Item) /\ dropped \in SUBSET Sessions
      BY DEF EmitterTypeOK
    <3>2. ASSUME NEW k \in DOMAIN pending PROVE pending[k].envelope.session \in Sessions
      <4>1. pending[k] \in Item
        BY <3>1
      <4> QED
        BY <4>1 DEF Item, Envelope
    <3> QED
      BY <3>1, <3>2, <1>1 DEF Lost
  <2>3. CASE hport # 0
    <3>1. PICK order \in SetToSeqs(Lost(envelope)) : todo' = Announcements(order) \o rest
      BY <1>4, <2>3 DEF Emit, Buffer
    <3>2. Announcements(order) \in Seq(SessionTask)
      BY <2>2, OrderType, AnnouncementsType
    <3>3. dropped' = {}
      BY <1>4, <2>3 DEF Emit, Buffer
    <3> QED
      BY <1>3, <2>1, <3>1, <3>2, <3>3, SizeAssumption
  <2>4. CASE hport = 0
    BY <1>3, <1>4, <2>1, <2>2, <2>4, SizeAssumption DEF Emit, Buffer
  <2> QED
    BY <2>3, <2>4
<1>5. CASE ~Overflows(envelope)
  <2>1. [envelope |-> envelope, bytes |-> Bytes(envelope.kind)] \in Item
    BY <1>1, <1>2 DEF Item
  <2>2. /\ pending' = Append(pending, [envelope |-> envelope, bytes |-> Bytes(envelope.kind)])
        /\ pendingBytes' = pendingBytes + Bytes(envelope.kind)
        /\ todo' = rest /\ dropped' = dropped
    BY <1>5 DEF Emit, Buffer
  <2>3. pendingBytes' <= QueueCap
    BY <1>2, <1>5, <2>2, SizeAssumption DEF EmitterTypeOK, Overflows
  <2> QED
    BY <1>2, <1>3, <2>1, <2>2, <2>3 DEF EmitterTypeOK
<1> QED
  BY <1>4, <1>5

\* What the host emits is an envelope.
LEMMA ContentType ==
  ASSUME EmitterTypeOK, NEW s \in Sessions PROVE ContentEvent(s) \in Envelope
<1>1. sequences[s] \in Nat /\ hist[s] \in Nat /\ inc[s] \in Nat
  BY DEF EmitterTypeOK
<1> QED
  BY <1>1 DEF ContentEvent, Envelope

LEMMA GapType ==
  ASSUME EmitterTypeOK, NEW s \in Sessions PROVE StreamGap(s) \in Envelope
  BY DEF EmitterTypeOK, StreamGap, Envelope

LEMMA SnapshotType ==
  ASSUME EmitterTypeOK, NEW s \in Sessions, NEW afterGap \in BOOLEAN
  PROVE  SnapshotEvent(s, afterGap) \in Envelope
  BY DEF EmitterTypeOK, SnapshotEvent, Envelope

-----------------------------------------------------------------------------
(* Type correctness.                                                       *)

\* The steps inside an entry point.
LEMMA ContinuesType ==
  ASSUME EmitterTypeOK, HostContinues PROVE EmitterTypeOK'
<1>1. CASE Post(openEnd)
  <2>1. Head(pending) \in Item /\ Tail(pending) \in Seq(Item)
    BY <1>1 DEF Post, CanPost, EmitterTypeOK
  <2>2. Head(pending).bytes \in Nat /\ Head(pending).envelope \in Envelope
    BY <2>1 DEF Item
  <2>3. wire' \in [Ports -> Seq(Envelope)]
    BY <1>1, <2>2 DEF Post, CanPost, EmitterTypeOK
  <2>4. inFlight' \in Seq(Nat) /\ inFlightBytes' \in Int /\ pendingBytes' \in Int
    <3>1. inFlight \in Seq(Nat) /\ inFlightBytes \in Int /\ pendingBytes \in Int
      BY DEF EmitterTypeOK
    <3> QED
      BY <1>1, <2>2, <3>1 DEF Post
  <2> QED
    BY <1>1, <2>1, <2>3, <2>4 DEF Post, EmitterTypeOK
<1>2. CASE AnnounceGap
  <2>1. todo \in Seq(SessionTask)
    BY <1>2, SessionTasks DEF AnnounceGap, Releasing, EmitterTypeOK
  <2> DEFINE s == Head(todo).session
             rest == <<ResyncTask(s, TRUE)>> \o Tail(todo)
  <2>2. Head(todo) \in SessionTask /\ Tail(todo) \in Seq(SessionTask)
    BY <1>2, <2>1 DEF AnnounceGap
  <2>3. s \in Sessions
    BY <2>2 DEF SessionTask
  <2>4. ResyncTask(s, TRUE) \in SessionTask
    BY <2>3 DEF ResyncTask, SessionTask
  <2>5. rest \in Seq(SessionTask)
    BY <2>2, <2>4, ConsType
  <2>6. Emit(StreamGap(s), rest)
    BY <1>2 DEF AnnounceGap
  <2>7. /\ sequences' \in [Sessions -> Nat] /\ pending' \in Seq(Item)
        /\ pendingBytes' \in Int /\ dropped' \in SUBSET Sessions
        /\ todo' \in Seq(SessionTask)
    <3> HIDE DEF s, rest
    <3> QED
      BY <2>3, <2>5, <2>6, GapType, EmitType
  <2> QED
    BY <1>2, <2>6, <2>7 DEF AnnounceGap, Emit, EmitterTypeOK
<1>3. CASE Resync
  <2>1. todo \in Seq(SessionTask)
    BY <1>3, SessionTasks DEF Resync, Releasing, EmitterTypeOK
  <2> DEFINE s == Head(todo).session
             afterGap == Head(todo).afterGap
  <2>2. Head(todo) \in SessionTask /\ Tail(todo) \in Seq(SessionTask)
    BY <1>3, <2>1 DEF Resync
  <2>3. s \in Sessions /\ afterGap \in BOOLEAN
    BY <2>2 DEF SessionTask
  <2>4. CASE phase[s] = "closed"
    BY <1>3, <2>2, <2>4 DEF Resync, EmitterTypeOK
  <2>5. CASE phase[s] # "closed"
    <3>1. phase' = [phase EXCEPT ![s] = "live"] /\ Emit(SnapshotEvent(s, afterGap), Tail(todo))
      BY <1>3, <2>5 DEF Resync
    <3>2. /\ sequences' \in [Sessions -> Nat] /\ pending' \in Seq(Item)
          /\ pendingBytes' \in Int /\ dropped' \in SUBSET Sessions
          /\ todo' \in Seq(SessionTask)
      <4> HIDE DEF s, afterGap
      <4> QED
        BY <2>2, <2>3, <3>1, SnapshotType, EmitType
    <3> QED
      BY <1>3, <2>3, <3>1, <3>2 DEF Resync, Emit, EmitterTypeOK
  <2> QED
    BY <2>4, <2>5
<1>4. CASE ReleaseOne
  <2>1. todo \in Seq({Release}) /\ todo # <<>>
    BY <1>4, ReleasingType DEF ReleaseOne, Releasing, EmitterTypeOK
  <2>2. todo' \in Seq({Release})
    <3>1. todo' = <<>> \/ todo' = Tail(todo)
      BY <1>4 DEF ReleaseOne
    <3>2. <<>> \in Seq({Release}) /\ Tail(todo) \in Seq({Release})
      BY <2>1
    <3> QED
      BY <3>1, <3>2
  <2>3. inFlight' \in Seq(Nat) /\ inFlightBytes' \in Int
    <3>1. inFlight \in Seq(Nat) /\ inFlightBytes \in Int
      BY DEF EmitterTypeOK
    <3>2. CASE inFlight = <<>>
      BY <1>4, <3>1, <3>2 DEF ReleaseOne
    <3>3. CASE inFlight # <<>>
      <4>1. Head(inFlight) \in Nat /\ Tail(inFlight) \in Seq(Nat)
        BY <3>1, <3>3
      <4>2. inFlight' = Tail(inFlight) /\ inFlightBytes' = inFlightBytes - Head(inFlight)
        BY <1>4, <3>3 DEF ReleaseOne
      <4> QED
        BY <3>1, <4>1, <4>2
    <3> QED
      BY <3>2, <3>3
  <2> QED
    BY <1>4, <2>2, <2>3 DEF ReleaseOne, EmitterTypeOK
<1> QED
  BY <1>1, <1>2, <1>3, <1>4 DEF HostContinues

\* Queues of no call and of one.
LEMMA EmptySeq == ASSUME NEW S PROVE <<>> \in Seq(S)
  OBVIOUS

LEMMA OneTask ==
  ASSUME NEW s \in Sessions, NEW afterGap \in BOOLEAN
  PROVE  <<ResyncTask(s, afterGap)>> \in Seq(SessionTask)
<1>1. ResyncTask(s, afterGap) \in SessionTask
  BY DEF ResyncTask, SessionTask
<1> QED
  BY <1>1

\* Spending what is left of a bound leaves a budget.
LEMMA SpendType ==
  ASSUME MainTypeOK, NEW what \in {"reloads", "exits", "compactions", "rejects"}, Spend(what)
  PROVE  budget' \in Budget
<1>1. budget \in Budget /\ budget[what] > 0
  BY DEF MainTypeOK, Spend
<1>2. \A k \in Nat : \A n \in 0..k : n > 0 => n - 1 \in 0..k
  OBVIOUS
<1> QED
  BY <1>1, <1>2, BoundAssumption DEF Spend, Budget

\* A step that leaves the variables of a part alone leaves it well typed.
LEMMA EmitterSame ==
  ASSUME EmitterTypeOK, UNCHANGED <<hostVars, emitterVars>> PROVE EmitterTypeOK'
  BY DEF EmitterTypeOK, hostVars, emitterVars

LEMMA MainSame ==
  ASSUME MainTypeOK, UNCHANGED <<mainVars, commandVars, channelVars, budget>>
  PROVE  MainTypeOK'
  BY DEF MainTypeOK, mainVars, commandVars, channelVars

LEMMA RendererSame ==
  ASSUME RendererTypeOK, UNCHANGED rendererVars PROVE RendererTypeOK'
  BY DEF RendererTypeOK, rendererVars, intakeVars, projectionVars

-----------------------------------------------------------------------------
(* One lemma per action: the parts it changes stay well typed.             *)

LEMMA PiEventType ==
  ASSUME TypeOK, NEW s \in Sessions, PiEvent(s) PROVE TypeOK'
<1>1. EmitterTypeOK'
  <2>1. /\ sequences' \in [Sessions -> Nat] /\ pending' \in Seq(Item)
        /\ pendingBytes' \in Int /\ dropped' \in SUBSET Sessions
        /\ todo' \in Seq(SessionTask)
    BY ContentType, EmitType, EmptySeq DEF TypeOK, PiEvent
  <2>2. hist' \in [Sessions -> Nat]
    BY DEF TypeOK, EmitterTypeOK, PiEvent
  <2>3. UNCHANGED <<phase, inc, inFlight, inFlightBytes, hport, wire>>
    BY DEF PiEvent, Emit
  <2> QED
    BY <2>1, <2>2, <2>3 DEF TypeOK, EmitterTypeOK
<1> QED
  BY <1>1, MainSame, RendererSame DEF TypeOK, PiEvent

LEMMA CompactionEndType ==
  ASSUME TypeOK, NEW s \in Sessions, CompactionEnd(s) PROVE TypeOK'
<1>1. EmitterTypeOK'
  BY OneTask DEF TypeOK, EmitterTypeOK, CompactionEnd, hostVars
<1>2. MainTypeOK'
  BY SpendType DEF TypeOK, MainTypeOK, CompactionEnd, mainVars, commandVars, channelVars
<1> QED
  BY <1>1, <1>2, RendererSame DEF TypeOK, CompactionEnd

LEMMA HostAttachType ==
  ASSUME TypeOK, PortsInOrder, HostAttach PROVE TypeOK'
<1>1. todo' \in Seq(SessionTask)
  <2>1. PICK gaps \in SetToSeqs(dropped),
             rest \in SetToSeqs({s \in Sessions \ dropped : phase[s] # "closed"}) :
          todo' = Refences(gaps, rest)
    BY DEF HostAttach, Attach
  <2>2. gaps \in Seq(Sessions) /\ rest \in Seq(Sessions)
    BY OrderType DEF TypeOK, EmitterTypeOK
  <2> QED
    BY <2>1, <2>2, RefencesType
<1>2. taken + 1 \in Ports
  BY DEF TypeOK, MainTypeOK, HostAttach, PortsInOrder
<1>3. EmitterTypeOK'
  BY <1>1, <1>2, EmptySeq DEF TypeOK, EmitterTypeOK, HostAttach, Attach
<1>4. acks' \in [Ports -> Nat]
  BY DEF TypeOK, MainTypeOK, HostAttach
<1>5. MainTypeOK'
  BY <1>4 DEF TypeOK, MainTypeOK, HostAttach, commandVars
<1> QED
  BY <1>3, <1>5, RendererSame DEF TypeOK, HostAttach

LEMMA HostPortClosedType ==
  ASSUME TypeOK, HostPortClosed PROVE TypeOK'
<1>1. EmitterTypeOK'
  BY EmptySeq DEF TypeOK, EmitterTypeOK, HostPortClosed, PortClosed
<1> QED
  BY <1>1, MainSame, RendererSame DEF TypeOK, HostPortClosed

LEMMA HostAckType ==
  ASSUME TypeOK, HostAck PROVE TypeOK'
<1>1. PICK count \in 1..MaxAckCount :
        /\ count <= acks[hport]
        /\ Acknowledge(count)
        /\ acks' = [acks EXCEPT ![hport] = @ - count]
  BY DEF HostAck
<1>2. hport \in Ports /\ acks[hport] \in Nat /\ count \in Nat
  BY BoundAssumption DEF TypeOK, EmitterTypeOK, MainTypeOK, HostAck
<1>3. todo' \in Seq({Release})
  BY <1>1, <1>2 DEF Acknowledge
<1>4. EmitterTypeOK'
  BY <1>1, <1>3 DEF TypeOK, EmitterTypeOK, Acknowledge
<1>5. acks' \in [Ports -> Nat]
  BY <1>1, <1>2 DEF TypeOK, MainTypeOK
<1>6. MainTypeOK'
  BY <1>5 DEF TypeOK, MainTypeOK, HostAck, mainVars, commandVars
<1> QED
  BY <1>4, <1>6, RendererSame DEF TypeOK, HostAck

LEMMA HostResyncType ==
  ASSUME TypeOK, HostResync PROVE TypeOK'
<1>1. Head(requests) \in Sessions /\ Tail(requests) \in Seq(Sessions)
  BY DEF TypeOK, MainTypeOK, HostResync
<1>2. todo' \in Seq(SessionTask)
  BY <1>1, OneTask, EmptySeq DEF HostResync
<1>3. EmitterTypeOK'
  BY <1>2 DEF TypeOK, EmitterTypeOK, HostResync, hostVars
<1>4. MainTypeOK'
  BY <1>1 DEF TypeOK, MainTypeOK, HostResync, mainVars, channelVars
<1> QED
  BY <1>3, <1>4, RendererSame DEF TypeOK, HostResync

LEMMA AttachSessionType ==
  ASSUME TypeOK, NEW s \in Sessions, AttachSession(s)
  PROVE  /\ phase' \in [Sessions -> {"closed", "registered", "live"}]
         /\ reply' \in [Sessions -> Nat]
         /\ cmd' \in [Sessions -> Commands]
         /\ orphans' \in SUBSET Sessions
<1>1. cmd' \in [Sessions -> Commands] /\ orphans' \in SUBSET Sessions
  BY DEF TypeOK, MainTypeOK, AttachSession, Answer, Commands
<1>2. phase' \in [Sessions -> {"closed", "registered", "live"}]
  BY DEF TypeOK, EmitterTypeOK, AttachSession
<1>3. reply' \in [Sessions -> Nat]
  BY DEF TypeOK, EmitterTypeOK, MainTypeOK, AttachSession
<1> QED
  BY <1>1, <1>2, <1>3

LEMMA HostOpenType ==
  ASSUME TypeOK, NEW s \in Sessions, HostOpen(s) PROVE TypeOK'
<1>1. UNCHANGED <<hist, emitterVars, mainVars, requests, channelVars, rendererVars, budget>>
  BY DEF HostOpen
<1>2. CASE phase[s] = "closed"
  <2>1. /\ inc' = [inc EXCEPT ![s] = @ + 1]
        /\ phase' = [phase EXCEPT ![s] = "registered"]
        /\ cmd' = [cmd EXCEPT ![s] = "binding"]
        /\ UNCHANGED <<reply, orphans>>
    BY <1>2 DEF HostOpen
  <2>2. EmitterTypeOK'
    BY <1>1, <2>1 DEF TypeOK, EmitterTypeOK, emitterVars
  <2>3. MainTypeOK'
    BY <1>1, <2>1 DEF TypeOK, MainTypeOK, mainVars, channelVars, Commands
  <2> QED
    BY <1>1, <2>2, <2>3, RendererSame DEF TypeOK
<1>3. CASE phase[s] # "closed"
  <2>1. AttachSession(s) /\ UNCHANGED inc
    BY <1>3 DEF HostOpen
  <2>2. EmitterTypeOK'
    BY <1>1, <2>1, AttachSessionType DEF TypeOK, EmitterTypeOK, emitterVars
  <2>3. MainTypeOK'
    BY <1>1, <2>1, AttachSessionType DEF TypeOK, MainTypeOK, mainVars, channelVars
  <2> QED
    BY <1>1, <2>2, <2>3, RendererSame DEF TypeOK
<1> QED
  BY <1>2, <1>3

LEMMA HostOpenedType ==
  ASSUME TypeOK, NEW s \in Sessions, HostOpened(s) PROVE TypeOK'
<1>1. EmitterTypeOK'
  BY AttachSessionType DEF TypeOK, EmitterTypeOK, HostOpened, emitterVars
<1>2. MainTypeOK'
  BY AttachSessionType DEF TypeOK, MainTypeOK, HostOpened, mainVars, channelVars
<1> QED
  BY <1>1, <1>2, RendererSame DEF TypeOK, HostOpened

LEMMA HostCloseType ==
  ASSUME TypeOK, NEW s \in Sessions, HostClose(s) PROVE TypeOK'
<1>1. UNCHANGED <<inc, hist>> /\ UNCHANGED <<mainVars, requests, reply, channelVars, rendererVars, budget>>
  BY DEF HostClose, hostVars
<1>2. EmitterTypeOK'
  <2>1. CASE UNCHANGED <<hostVars, emitterVars>>
    BY <2>1, EmitterSame DEF TypeOK
  <2>2. CASE phase' = [phase EXCEPT ![s] = "closed"] /\ ForgetSession(s)
    BY <1>1, <2>2 DEF TypeOK, EmitterTypeOK, ForgetSession
  <2> QED
    BY <2>1, <2>2 DEF HostClose
<1>3. cmd' \in [Sessions -> Commands] /\ orphans' \in SUBSET Sessions
  BY DEF TypeOK, MainTypeOK, HostClose, Answer, Commands
<1>4. MainTypeOK'
  BY <1>1, <1>3 DEF TypeOK, MainTypeOK, mainVars, channelVars
<1> QED
  BY <1>1, <1>2, <1>4, RendererSame DEF TypeOK

LEMMA IssuePortType ==
  ASSUME TypeOK, IssuePort PROVE TypeOK'
<1>1. MainTypeOK'
  BY DEF TypeOK, MainTypeOK, IssuePort, commandVars
<1> QED
  BY <1>1, EmitterSame, RendererSame DEF TypeOK, IssuePort

LEMMA HostExitType ==
  ASSUME TypeOK, NEW announced \in BOOLEAN, HostExit(announced) PROVE TypeOK'
<1>1. EmitterTypeOK'
  <2>1. PICK written \in [Sessions -> 0..MaxHistory] : hist' = written
    BY DEF HostExit
  <2>2. hist' \in [Sessions -> Nat]
    BY <2>1, BoundAssumption
  <2> QED
    BY <2>2, EmptySeq DEF TypeOK, EmitterTypeOK, HostExit
<1>2. /\ owed' \in Nat
      /\ inbox' \in Seq(Ports \cup {0})
      /\ requests' \in Seq(Sessions)
      /\ cmd' \in [Sessions -> Commands]
      /\ acks' \in [Ports -> Nat]
  BY EmptySeq DEF TypeOK, MainTypeOK, HostExit, Commands
<1>3. MainTypeOK'
  BY <1>2, SpendType DEF TypeOK, MainTypeOK, HostExit
<1> QED
  BY <1>1, <1>3, RendererSame DEF TypeOK, HostExit

LEMMA HostStartType ==
  ASSUME TypeOK, HostStart PROVE TypeOK'
<1>1. EmitterTypeOK'
  <2>1. PICK restored \in SUBSET Sessions :
          /\ phase' = [s \in Sessions |-> IF s \in restored THEN "live" ELSE "closed"]
          /\ inc' = [s \in Sessions |-> IF s \in restored THEN inc[s] + 1 ELSE inc[s]]
    BY DEF HostStart
  <2>2. /\ phase' \in [Sessions -> {"closed", "registered", "live"}]
        /\ inc' \in [Sessions -> Nat]
    BY <2>1 DEF TypeOK, EmitterTypeOK
  <2> QED
    BY <2>2 DEF TypeOK, EmitterTypeOK, HostStart, emitterVars
<1>2. MainTypeOK'
  BY DEF TypeOK, MainTypeOK, HostStart, commandVars, channelVars
<1> QED
  BY <1>1, <1>2, RendererSame DEF TypeOK, HostStart

LEMMA HistoryType == ASSUME NEW n \in Nat PROVE History(n) \in Seq(Nat)
<1>1. \A i \in 1..n : i \in Nat
  OBVIOUS
<1> QED
  BY <1>1 DEF History

LEMMA FlushedType ==
  ASSUME TypeOK PROVE Flushed \in [Ports -> Nat] /\ Unflushed \in Nat
<1>1. rport # 0 => acks[rport] + pendingAcks \in Nat
  BY DEF TypeOK, MainTypeOK, RendererTypeOK
<1> QED
  BY <1>1 DEF TypeOK, MainTypeOK, RendererTypeOK, Flushed, Unflushed

LEMMA ClosePortsType ==
  ASSUME TypeOK, NEW closing, ClosePorts(closing)
  PROVE  wire' \in [Ports -> Seq(Envelope)] /\ openEnd' \in SUBSET Ports
<1>1. wire \in [Ports -> Seq(Envelope)] /\ openEnd \in SUBSET Ports
  BY DEF TypeOK, EmitterTypeOK, MainTypeOK
<1> QED
  BY <1>1, EmptySeq DEF ClosePorts

LEMMA FlushAcksType ==
  ASSUME TypeOK, FlushAcks PROVE TypeOK'
<1>1. MainTypeOK'
  BY FlushedType DEF TypeOK, MainTypeOK, FlushAcks, mainVars, commandVars
<1>2. RendererTypeOK'
  BY FlushedType DEF TypeOK, RendererTypeOK, FlushAcks, projectionVars
<1> QED
  BY <1>1, <1>2, EmitterSame DEF TypeOK, FlushAcks

\* Taking the next message main posted, a port or a notice.
LEMMA InboxType ==
  ASSUME TypeOK, inbox # <<>>
  PROVE  Head(inbox) \in Ports \cup {0} /\ Tail(inbox) \in Seq(Ports \cup {0})
  BY DEF TypeOK, MainTypeOK

LEMMA RemoveAtType ==
  ASSUME NEW S, NEW q \in Seq(S), NEW i \in DOMAIN q
  PROVE  RemoveAt(q, i) \in Seq(S)
<1>1. i \in 1..Len(q) /\ Len(q) \in Nat
  OBVIOUS
<1>2. SubSeq(q, 1, i - 1) \in Seq(S) /\ SubSeq(q, i + 1, Len(q)) \in Seq(S)
  BY <1>1
<1> QED
  BY <1>2 DEF RemoveAt

LEMMA ConnectType ==
  ASSUME TypeOK, Connect PROVE TypeOK'
<1>1. EmitterTypeOK'
  BY ClosePortsType DEF TypeOK, EmitterTypeOK, Connect, hostVars
<1>2. MainTypeOK'
  BY ClosePortsType, FlushedType, InboxType
     DEF TypeOK, MainTypeOK, Connect, mainVars, commandVars
<1>3. RendererTypeOK'
  BY FlushedType, InboxType DEF TypeOK, RendererTypeOK, Connect, projectionVars
<1> QED
  BY <1>1, <1>2, <1>3 DEF TypeOK

LEMMA DisconnectType ==
  ASSUME TypeOK, Disconnect PROVE TypeOK'
<1>1. EmitterTypeOK'
  BY ClosePortsType DEF TypeOK, EmitterTypeOK, Disconnect, hostVars
<1>2. MainTypeOK'
  <2>1. inbox' \in Seq(Ports \cup {0})
    <3>1. inbox \in Seq(Ports \cup {0})
      BY DEF TypeOK, MainTypeOK
    <3> QED
      BY <3>1, RemoveAtType DEF Disconnect
  <2> QED
    BY <2>1, ClosePortsType, FlushedType
       DEF TypeOK, MainTypeOK, Disconnect, mainVars, commandVars
<1>3. RendererTypeOK'
  BY FlushedType DEF TypeOK, RendererTypeOK, Disconnect, projectionVars
<1> QED
  BY <1>1, <1>2, <1>3 DEF TypeOK

LEMMA ReloadType ==
  ASSUME TypeOK, Reload PROVE TypeOK'
<1>1. EmitterTypeOK'
  BY ClosePortsType DEF TypeOK, EmitterTypeOK, Reload, hostVars
<1>2. /\ inbox' \in Seq(Ports \cup {0})
      /\ cmd' \in [Sessions -> Commands]
      /\ orphans' \in SUBSET Sessions
      /\ owed' \in Nat
  BY EmptySeq DEF TypeOK, MainTypeOK, Reload, Commands
<1>3. MainTypeOK'
  BY <1>2, ClosePortsType, SpendType DEF TypeOK, MainTypeOK, Reload
<1>4. RendererTypeOK'
  BY EmptySeq DEF TypeOK, RendererTypeOK, Reload
<1> QED
  BY <1>1, <1>3, <1>4 DEF TypeOK

\* What the renderer receives is an envelope the host made.
LEMMA TakenType ==
  ASSUME TypeOK, CanDeliver, Taken
  PROVE  /\ Head(wire[rport]) \in Envelope
         /\ EmitterTypeOK'
         /\ pendingAcks' \in Nat /\ rport' \in Ports
<1>1. rport \in Ports /\ wire[rport] \in Seq(Envelope) /\ wire[rport] # <<>>
  BY DEF TypeOK, EmitterTypeOK, RendererTypeOK, CanDeliver
<1>2. Head(wire[rport]) \in Envelope /\ Tail(wire[rport]) \in Seq(Envelope)
  BY <1>1
<1>3. EmitterTypeOK'
  BY <1>1, <1>2 DEF TypeOK, EmitterTypeOK, Taken, hostVars
<1> QED
  BY <1>1, <1>2, <1>3 DEF TypeOK, RendererTypeOK, Taken

LEMMA ReceiveType ==
  ASSUME TypeOK, NEW e \in Envelope, Receive(e)
  PROVE  /\ lastSequence' \in [Sessions -> Nat]
         /\ awaiting' \in SUBSET Sessions
         /\ requests' \in Seq(Sessions)
         /\ shown' \in SUBSET Sessions
         /\ view' \in [Sessions -> Seq(Nat)]
         /\ gap' \in [Sessions -> BOOLEAN]
         /\ fenced' \in [Sessions -> Nat]
<1>1. /\ e.session \in Sessions /\ e.sequence \in Nat /\ e.id \in Nat
      /\ e.afterGap \in BOOLEAN /\ e.inc \in Nat
  BY DEF Envelope
<1>2. requests \in Seq(Sessions) /\ RendererTypeOK
  BY DEF TypeOK, MainTypeOK
<1>3. CASE e.kind = "session_snapshot"
  <2>1. /\ lastSequence' = [lastSequence EXCEPT ![e.session] = e.sequence]
        /\ awaiting' = awaiting \ {e.session}
        /\ requests' = requests
        /\ ApplySnapshot(e)
    BY <1>3 DEF Receive, AwaitingAfterFence
  <2>2. History(e.id) \in Seq(Nat)
    BY <1>1, HistoryType
  <2> QED
    BY <1>1, <1>2, <2>1, <2>2 DEF ApplySnapshot, RendererTypeOK
<1>4. CASE e.kind # "session_snapshot" /\ e.sequence <= lastSequence[e.session]
  BY <1>2, <1>4 DEF Receive, RendererTypeOK, projectionVars
<1>5. CASE e.kind # "session_snapshot" /\ ~(e.sequence <= lastSequence[e.session])
  <2>1. /\ lastSequence' = [lastSequence EXCEPT ![e.session] = e.sequence]
        /\ awaiting' = awaiting \/ awaiting' = awaiting \cup {e.session}
        /\ requests' = requests \/ requests' = Append(requests, e.session)
        /\ \E flag \in BOOLEAN : gap' = [gap EXCEPT ![e.session] = flag]
        /\ ApplyContent(e)
        /\ UNCHANGED <<shown, fenced>>
    BY <1>1, <1>2, <1>5 DEF Receive, RendererTypeOK
  <2>2. view' \in [Sessions -> Seq(Nat)]
    BY <1>1, <1>2, <2>1 DEF ApplyContent, RendererTypeOK
  <2>3. requests' \in Seq(Sessions)
    BY <1>1, <1>2, <2>1
  <2> QED
    BY <1>1, <1>2, <2>1, <2>2, <2>3 DEF RendererTypeOK
<1> QED
  BY <1>3, <1>4, <1>5

LEMMA DeliverType ==
  ASSUME TypeOK, Deliver PROVE TypeOK'
<1>1. Head(wire[rport]) \in Envelope /\ EmitterTypeOK' /\ pendingAcks' \in Nat /\ rport' \in Ports
  BY TakenType DEF Deliver
<1> DEFINE e == Head(wire[rport])
<1>2. Receive(e)
  BY DEF Deliver
<1>3. RendererTypeOK' /\ requests' \in Seq(Sessions)
  <2>1. e \in Envelope
    BY <1>1
  <2> HIDE DEF e
  <2>2. /\ lastSequence' \in [Sessions -> Nat] /\ awaiting' \in SUBSET Sessions
        /\ requests' \in Seq(Sessions) /\ shown' \in SUBSET Sessions
        /\ view' \in [Sessions -> Seq(Nat)] /\ gap' \in [Sessions -> BOOLEAN]
        /\ fenced' \in [Sessions -> Nat]
    BY <1>2, <2>1, ReceiveType
  <2> QED
    BY <1>1, <2>2 DEF RendererTypeOK
<1>4. MainTypeOK'
  BY <1>3 DEF TypeOK, MainTypeOK, Deliver, Taken, mainVars, channelVars
<1> QED
  BY <1>1, <1>3, <1>4 DEF TypeOK

LEMMA RejectType ==
  ASSUME TypeOK, Reject PROVE TypeOK'
<1>1. EmitterTypeOK' /\ pendingAcks' \in Nat /\ rport' \in Ports
  BY TakenType DEF Reject
<1>2. RendererTypeOK'
  BY <1>1 DEF TypeOK, RendererTypeOK, Reject, projectionVars
<1>3. MainTypeOK'
  BY SpendType DEF TypeOK, MainTypeOK, Reject, Taken, mainVars, channelVars
<1> QED
  BY <1>1, <1>2, <1>3 DEF TypeOK

\* The commands a document sends, and what it does with their answers.
LEMMA RequestType ==
  ASSUME TypeOK, NEW s \in Sessions, RequestOpen(s) \/ RequestClose(s) PROVE TypeOK'
<1>1. MainTypeOK'
  BY DEF TypeOK, MainTypeOK, RequestOpen, RequestClose, mainVars, channelVars, Commands
<1> QED
  BY <1>1, EmitterSame, RendererSame DEF TypeOK, RequestOpen, RequestClose

LEMMA InstallSnapshotType ==
  ASSUME TypeOK, NEW s \in Sessions, InstallSnapshot(s) PROVE TypeOK'
<1>1. MainTypeOK'
  BY DEF TypeOK, MainTypeOK, InstallSnapshot, mainVars, channelVars, Commands
<1>2. History(reply[s]) \in Seq(Nat)
  BY HistoryType DEF TypeOK, MainTypeOK
<1>3. RendererTypeOK'
  <2>1. CASE s \in shown
    BY <2>1 DEF TypeOK, RendererTypeOK, InstallSnapshot, intakeVars
  <2>2. CASE s \notin shown
    <3>1. /\ view' = [view EXCEPT ![s] = History(reply[s])]
          /\ gap' = [gap EXCEPT ![s] = FALSE]
          /\ fenced' = [fenced EXCEPT ![s] = 0]
      BY <2>2 DEF InstallSnapshot
    <3>2. /\ view' \in [Sessions -> Seq(Nat)] /\ gap' \in [Sessions -> BOOLEAN]
          /\ fenced' \in [Sessions -> Nat] /\ shown' \in SUBSET Sessions
      BY <1>2, <3>1 DEF TypeOK, RendererTypeOK, InstallSnapshot
    <3> QED
      BY <3>2 DEF TypeOK, RendererTypeOK, InstallSnapshot, intakeVars
  <2> QED
    BY <2>1, <2>2
<1> QED
  BY <1>1, <1>3, EmitterSame DEF TypeOK, InstallSnapshot

LEMMA CloseProjectionType ==
  ASSUME TypeOK, NEW s \in Sessions, CloseProjection(s) PROVE TypeOK'
<1>1. MainTypeOK'
  BY DEF TypeOK, MainTypeOK, CloseProjection, mainVars, channelVars, Commands
<1>2. RendererTypeOK'
  BY EmptySeq DEF TypeOK, RendererTypeOK, CloseProjection, intakeVars
<1> QED
  BY <1>1, <1>2, EmitterSame DEF TypeOK, CloseProjection

-----------------------------------------------------------------------------
(* The steps together.                                                     *)

\* Every step keeps the types, given that main mints ports in order.
LEMMA TypeStep ==
  ASSUME TypeOK, PortsInOrder, [Next]_vars PROVE TypeOK'
<1>1. ASSUME NEW s \in Sessions, SessionStep(s) PROVE TypeOK'
  BY <1>1, PiEventType, CompactionEndType, HostOpenType, HostOpenedType, HostCloseType,
     RequestType, InstallSnapshotType, CloseProjectionType DEF SessionStep
<1>2. CASE HostContinues
  BY <1>2, ContinuesType, MainSame, RendererSame DEF TypeOK, HostContinues
<1>3. ASSUME NEW announced \in BOOLEAN, HostExit(announced) PROVE TypeOK'
  BY <1>3, HostExitType
<1>4. CASE UNCHANGED vars
  BY <1>4, EmitterSame, MainSame, RendererSame DEF TypeOK, vars
<1> QED
  BY <1>1, <1>2, <1>3, <1>4, HostAttachType, HostPortClosedType, HostAckType,
     HostResyncType, IssuePortType, HostStartType, ConnectType, DisconnectType,
     ReloadType, FlushAcksType, DeliverType, RejectType DEF Next

LEMMA TypeInit == Init => TypeOK
<1> SUFFICES ASSUME Init PROVE TypeOK
  OBVIOUS
<1>1. EmitterTypeOK
  BY EmptySeq DEF Init, EmitterTypeOK
<1>2. MainTypeOK
  BY EmptySeq, BoundAssumption DEF Init, MainTypeOK, Commands, Budget
<1>3. RendererTypeOK
  BY EmptySeq DEF Init, RendererTypeOK
<1> QED
  BY <1>1, <1>2, <1>3 DEF TypeOK

\* Type correctness of the values the next lemmas compute with.
LEMMA Numbers ==
  ASSUME TypeOK
  PROVE  /\ taken \in Nat /\ issued \in Nat /\ pendingAcks \in Nat
         /\ hport \in Ports \cup {0} /\ rport \in Ports \cup {0}
         /\ wire \in [Ports -> Seq(Envelope)] /\ acks \in [Ports -> Nat]
         /\ inFlight \in Seq(Nat) /\ openEnd \in SUBSET Ports
         /\ \A p \in Ports : p \in Nat /\ p # 0
  BY PortAssumption DEF TypeOK, EmitterTypeOK, MainTypeOK, RendererTypeOK

-----------------------------------------------------------------------------
(* Ports are used in the order main mints them.                            *)

\* Once flushed, no ack is left over: without a port there was none.
LEMMA NothingUnflushed ==
  ASSUME TypeOK, PortsInOrder PROVE Unflushed = 0
  BY DEF PortsInOrder, Unflushed

\* Flushing pays nothing on a port the host has not attached.
LEMMA FlushedInOrder ==
  ASSUME TypeOK, PortsInOrder, NEW p \in Ports, p > taken PROVE Flushed[p] = 0
<1>1. acks[p] = 0 /\ (p = rport => pendingAcks = 0)
  BY DEF PortsInOrder
<1> QED
  BY <1>1, Numbers DEF Flushed

\* A port the renderer receives something on is one the host has attached.
LEMMA DeliveredInOrder ==
  ASSUME TypeOK, PortsInOrder, CanDeliver PROVE rport \in Ports /\ rport <= taken
  BY Numbers DEF PortsInOrder, CanDeliver

LEMMA PortsSame ==
  ASSUME PortsInOrder,
         UNCHANGED <<hostUp, issued, taken, hport, wire, acks, rport, pendingAcks>>
  PROVE  PortsInOrder'
  BY DEF PortsInOrder

LEMMA PortsStep ==
  ASSUME TypeOK, PortsInOrder, [Next]_vars PROVE PortsInOrder'
<1> USE DEF hostVars, emitterVars, mainVars, commandVars, channelVars, rendererVars,
            intakeVars
<1>1. ASSUME NEW s \in Sessions, SessionStep(s) PROVE PortsInOrder'
  <2>1. CASE PiEvent(s)
    BY <2>1, PortsSame DEF PiEvent, Emit
  <2>2. CASE CompactionEnd(s)
    BY <2>2, PortsSame DEF CompactionEnd
  <2>3. CASE HostOpen(s) \/ HostOpened(s)
    BY <2>3, PortsSame DEF HostOpen, HostOpened
  <2>4. CASE HostClose(s)
    BY <2>4, PortsSame DEF HostClose, ForgetSession
  <2>5. CASE RequestOpen(s) \/ RequestClose(s)
    BY <2>5, PortsSame DEF RequestOpen, RequestClose
  <2>6. CASE InstallSnapshot(s) \/ CloseProjection(s)
    BY <2>6, PortsSame DEF InstallSnapshot, CloseProjection
  <2> QED
    BY <1>1, <2>1, <2>2, <2>3, <2>4, <2>5, <2>6 DEF SessionStep
<1>2. CASE HostContinues
  <2>1. CASE Post(openEnd)
    <3>1. \A p \in Ports : p # hport => wire'[p] = wire[p]
      BY <2>1, Numbers DEF Post
    <3> QED
      BY <1>2, <2>1, <3>1, Numbers DEF HostContinues, Post, CanPost, PortsInOrder
  <2>2. CASE AnnounceGap
    BY <1>2, <2>2, PortsSame DEF HostContinues, AnnounceGap, Emit
  <2>3. CASE Resync
    BY <1>2, <2>3, PortsSame DEF HostContinues, Resync, Emit
  <2>4. CASE ReleaseOne
    BY <1>2, <2>4, PortsSame DEF HostContinues, ReleaseOne
  <2> QED
    BY <1>2, <2>1, <2>2, <2>3, <2>4 DEF HostContinues
<1>3. CASE HostAttach
  <2>1. /\ taken < issued /\ taken' = taken + 1 /\ hport' = taken + 1
        /\ acks' = [p \in Ports |-> IF p <= taken THEN 0 ELSE acks[p]]
        /\ hostUp
        /\ UNCHANGED <<hostUp, issued, wire, rport, pendingAcks>>
    BY <1>3 DEF HostAttach, Attach
  <2> QED
    BY <2>1, Numbers DEF PortsInOrder
<1>4. CASE HostPortClosed
  BY <1>4 DEF HostPortClosed, PortClosed, PortsInOrder
<1>5. CASE HostAck
  <2>1. PICK count \in 1..MaxAckCount :
          /\ Acknowledge(count)
          /\ acks' = [acks EXCEPT ![hport] = @ - count]
    BY <1>5 DEF HostAck
  <2>2. \A p \in Ports : p # hport => acks'[p] = acks[p]
    BY <2>1, Numbers
  <2> QED
    BY <1>5, <2>1, <2>2, Numbers DEF HostAck, Acknowledge, PortsInOrder
<1>6. CASE HostResync
  BY <1>6, PortsSame DEF HostResync
<1>7. CASE IssuePort
  <2>1. 1..(issued + 1) \subseteq Ports
    BY <1>7, Numbers DEF IssuePort, PortsInOrder
  <2> QED
    BY <1>7, <2>1, Numbers DEF IssuePort, PortsInOrder
<1>8. CASE HostStart
  BY <1>8 DEF HostStart, PortsInOrder
<1>9. ASSUME NEW announced \in BOOLEAN, HostExit(announced) PROVE PortsInOrder'
  <2>1. /\ hport' = 0 /\ taken' = issued /\ acks' = [p \in Ports |-> 0]
        /\ UNCHANGED <<issued, wire, rport, pendingAcks>>
    BY <1>9 DEF HostExit
  <2> QED
    BY <2>1, Numbers DEF PortsInOrder
<1>10. CASE Connect \/ Disconnect
  <2>1. /\ acks' = Flushed /\ pendingAcks' = Unflushed
        /\ UNCHANGED <<hostUp, issued, taken, hport>>
        /\ ClosePorts({rport})
    BY <1>10 DEF Connect, Disconnect
  <2>2. \A p \in Ports : p > taken => wire'[p] = <<>>
    BY <2>1 DEF ClosePorts, PortsInOrder
  <2> QED
    BY <2>1, <2>2, NothingUnflushed, FlushedInOrder DEF PortsInOrder
<1>11. CASE Reload
  <2>1. /\ pendingAcks' = 0 /\ ClosePorts(1..issued)
        /\ UNCHANGED <<hostUp, issued, taken, hport, acks>>
    BY <1>11 DEF Reload
  <2>2. \A p \in Ports : p > taken => wire'[p] = <<>>
    BY <2>1 DEF ClosePorts, PortsInOrder
  <2> QED
    BY <2>1, <2>2 DEF PortsInOrder
<1>12. CASE FlushAcks
  BY <1>12, NothingUnflushed, FlushedInOrder DEF FlushAcks, PortsInOrder
<1>13. CASE Deliver \/ Reject
  <2>1. CanDeliver /\ Taken
    BY <1>13 DEF Deliver, Reject
  <2>2. rport \in Ports /\ rport <= taken
    BY <2>1, DeliveredInOrder
  <2>3. /\ wire' = [wire EXCEPT ![rport] = Tail(@)]
        /\ UNCHANGED <<hostUp, issued, taken, hport, acks, rport>>
    BY <2>1 DEF Taken
  <2>4. \A p \in Ports : p # rport => wire'[p] = wire[p]
    BY <2>2, <2>3, Numbers
  <2> QED
    BY <2>2, <2>3, <2>4, Numbers DEF PortsInOrder
<1>14. CASE UNCHANGED vars
  BY <1>14, PortsSame DEF vars
<1> QED
  BY <1>1, <1>2, <1>3, <1>4, <1>5, <1>6, <1>7, <1>8, <1>9, <1>10, <1>11, <1>12, <1>13,
     <1>14 DEF Next

-----------------------------------------------------------------------------
(* Delivery credit is conserved.                                           *)

LEMMA NoCredits == ASSUME todo \in Seq(SessionTask) PROVE CreditsReleasing = 0
  BY NotReleasing DEF CreditsReleasing

\* The same of the next state.
LEMMA NoCreditsNext ==
  ASSUME todo' \in Seq(SessionTask) PROVE CreditsReleasing' = 0
<1>1. \A task \in SessionTask : task.op # "release"
  BY DEF SessionTask
<1>2. todo' # <<>> => Head(todo') \in SessionTask
  OBVIOUS
<1> QED
  BY <1>1, <1>2 DEF CreditsReleasing, Releasing

LEMMA NoCreditsWhenQuiescent == ASSUME Quiescent PROVE CreditsReleasing = 0
  BY DEF Quiescent, CreditsReleasing, Releasing

\* Announcing or repairing a gap leads to calls of the same kind.
LEMMA SessionTasksNext ==
  ASSUME TypeOK, AnnounceGap \/ Resync PROVE todo' \in Seq(SessionTask)
<1>1. todo \in Seq(SessionTask) /\ todo # <<>>
  BY SessionTasks DEF AnnounceGap, Resync, Releasing, TypeOK, EmitterTypeOK
<1>2. Head(todo) \in SessionTask /\ Tail(todo) \in Seq(SessionTask)
  BY <1>1
<1>3. Head(todo).session \in Sessions /\ Head(todo).afterGap \in BOOLEAN
  BY <1>2 DEF SessionTask
<1>4. CASE AnnounceGap
  <2> DEFINE s == Head(todo).session
             rest == <<ResyncTask(s, TRUE)>> \o Tail(todo)
  <2>1. ResyncTask(s, TRUE) \in SessionTask
    BY <1>3 DEF ResyncTask, SessionTask
  <2>2. rest \in Seq(SessionTask)
    BY <1>2, <2>1, ConsType
  <2>3. Emit(StreamGap(s), rest)
    BY <1>4 DEF AnnounceGap
  <2> HIDE DEF s, rest
  <2>4. s \in Sessions
    BY <1>3 DEF s
  <2> QED
    BY <2>2, <2>3, <2>4, GapType, EmitType DEF TypeOK
<1>5. CASE Resync
  <2> DEFINE s == Head(todo).session
             afterGap == Head(todo).afterGap
  <2>1. todo' = Tail(todo) \/ Emit(SnapshotEvent(s, afterGap), Tail(todo))
    BY <1>5 DEF Resync
  <2>2. s \in Sessions /\ afterGap \in BOOLEAN
    BY <1>3
  <2> HIDE DEF s, afterGap
  <2> QED
    BY <1>2, <2>1, <2>2, SnapshotType, EmitType DEF TypeOK
<1> QED
  BY <1>4, <1>5

\* A step that neither posts, pays, collects nor closes.
LEMMA CreditSame ==
  ASSUME CreditConserved,
         UNCHANGED <<hport, wire, rport, pendingAcks, acks, openEnd, inFlight>>,
         CreditsReleasing' = CreditsReleasing
  PROVE  CreditConserved'
  BY DEF CreditConserved, Uncredited

LEMMA CreditsType ==
  ASSUME TypeOK PROVE CreditsReleasing \in Nat
<1>1. Len(todo) \in Nat
  BY DEF TypeOK, EmitterTypeOK
<1> QED
  BY <1>1 DEF CreditsReleasing

LEMMA SessionCredit ==
  ASSUME TypeOK, TypeOK', CreditConserved, NEW s \in Sessions, SessionStep(s)
  PROVE  CreditConserved'
<1> USE DEF hostVars, emitterVars, channelVars, rendererVars, intakeVars
<1>1. CASE PiEvent(s)
  <2>1. todo' \in Seq(SessionTask)
    BY <1>1, ContentType, EmitType, EmptySeq DEF TypeOK, PiEvent
  <2> QED
    BY <1>1, <2>1, NoCreditsWhenQuiescent, NoCreditsNext, CreditSame
       DEF PiEvent, HostIdle, Emit
<1>2. CASE CompactionEnd(s)
  <2>1. todo' \in Seq(SessionTask)
    BY <1>2, OneTask DEF CompactionEnd
  <2> QED
    BY <1>2, <2>1, NoCreditsWhenQuiescent, NoCreditsNext, CreditSame
       DEF CompactionEnd, HostIdle
<1>3. CASE HostOpen(s) \/ HostOpened(s)
  <2>1. CreditsReleasing' = CreditsReleasing
    BY <1>3 DEF HostOpen, HostOpened, CreditsReleasing, Releasing
  <2> QED
    BY <1>3, <2>1, CreditSame DEF HostOpen, HostOpened
<1>4. CASE HostClose(s)
  <2>1. CreditsReleasing' = CreditsReleasing
    BY <1>4 DEF HostClose, ForgetSession, CreditsReleasing, Releasing
  <2> QED
    BY <1>4, <2>1, CreditSame DEF HostClose, ForgetSession
<1>5. CASE RequestOpen(s) \/ RequestClose(s)
  <2>1. CreditsReleasing' = CreditsReleasing
    BY <1>5 DEF RequestOpen, RequestClose, CreditsReleasing, Releasing
  <2> QED
    BY <1>5, <2>1, CreditSame DEF RequestOpen, RequestClose
<1>6. CASE InstallSnapshot(s) \/ CloseProjection(s)
  <2>1. CreditsReleasing' = CreditsReleasing
    BY <1>6 DEF InstallSnapshot, CloseProjection, CreditsReleasing, Releasing
  <2> QED
    BY <1>6, <2>1, CreditSame DEF InstallSnapshot, CloseProjection
<1> QED
  BY <1>1, <1>2, <1>3, <1>4, <1>5, <1>6 DEF SessionStep

\* An envelope posted is one more to credit, if its port is open; a turn of
\* the release loop settles one.
LEMMA ContinuesCredit ==
  ASSUME TypeOK, TypeOK', CreditConserved, HostContinues PROVE CreditConserved'
<1> USE DEF channelVars, rendererVars, intakeVars
<1>1. CASE Post(openEnd)
  <2>1. hport \in Ports /\ hport # 0 /\ ~Releasing
    BY <1>1, Numbers DEF Post, CanPost
  <2>2. CreditsReleasing = 0 /\ CreditsReleasing' = 0
    BY <1>1, <2>1 DEF Post, CreditsReleasing, Releasing
  <2>3. Head(pending).bytes \in Nat /\ Head(pending).envelope \in Envelope
    BY <1>1 DEF Post, CanPost, TypeOK, EmitterTypeOK, Item
  <2>4. Len(inFlight') = Len(inFlight) + 1
    BY <1>1, <2>3, Numbers DEF Post
  <2>5. IF hport \in openEnd
        THEN Len(wire'[hport]) = Len(wire[hport]) + 1
        ELSE wire'[hport] = wire[hport]
    BY <1>1, <2>1, <2>3, Numbers DEF Post
  <2>6. UNCHANGED <<hport, rport, pendingAcks, acks, openEnd>>
    BY <1>1 DEF HostContinues, Post
  <2>7. Len(wire[hport]) \in Nat /\ acks[hport] \in Nat /\ Len(inFlight) \in Nat
    BY <2>1, Numbers
  <2>8. Uncredited \in Nat
    BY <2>2, <2>7, Numbers DEF Uncredited
  <2>9. Uncredited' = IF hport \in openEnd THEN Uncredited + 1 ELSE Uncredited
    <3>1. CASE hport \in openEnd
      <4> DEFINE unacked == IF rport = hport THEN pendingAcks ELSE 0
      <4>1. unacked \in Nat
        BY Numbers
      <4>2. Uncredited = Len(wire[hport]) + unacked + acks[hport] + 0
        BY <2>2 DEF Uncredited
      <4>3. Uncredited' = (Len(wire[hport]) + 1) + unacked + acks[hport] + 0
        BY <2>2, <2>5, <2>6, <3>1 DEF Uncredited
      <4> HIDE DEF unacked
      <4> QED
        BY <2>7, <3>1, <4>1, <4>2, <4>3
    <3>2. CASE hport \notin openEnd
      BY <2>2, <2>5, <2>6, <2>7, <3>2 DEF Uncredited
    <3> QED
      BY <3>1, <3>2
  <2> HIDE DEF Uncredited
  <2> QED
    BY <2>1, <2>4, <2>6, <2>7, <2>8, <2>9 DEF CreditConserved
<1>2. CASE AnnounceGap \/ Resync
  <2>1. todo # <<>> /\ ~Releasing
    BY <1>2 DEF AnnounceGap, Resync, Releasing
  <2>2. CreditsReleasing = 0
    BY <2>1 DEF CreditsReleasing
  <2>3. CreditsReleasing' = 0
    BY <1>2, SessionTasksNext, NoCreditsNext
  <2> QED
    BY <1>2, <2>2, <2>3, CreditSame DEF HostContinues, AnnounceGap, Resync, Emit
<1>3. CASE ReleaseOne
  <2>1. Releasing /\ todo # <<>> /\ CreditsReleasing = Len(todo)
    BY <1>3 DEF ReleaseOne, Releasing, CreditsReleasing
  <2>2. todo \in Seq({Release})
    BY <2>1, ReleasingType DEF TypeOK, EmitterTypeOK
  <2>3. CASE inFlight = <<>>
    <3>1. hport = 0
      <4>1. Len(todo) > 0
        BY <2>1, <2>2
      <4>2. hport # 0 => Uncredited <= 0
        BY <2>3 DEF CreditConserved
      <4>3. hport # 0 => Uncredited >= Len(todo)
        BY <2>1, <2>2, Numbers DEF Uncredited
      <4>4. hport # 0 => Uncredited \in Int
        BY <2>1, <2>2, Numbers DEF Uncredited
      <4> QED
        BY <2>2, <4>1, <4>2, <4>3, <4>4
    <3> QED
      BY <1>3, <3>1 DEF ReleaseOne, CreditConserved
  <2>4. CASE inFlight # <<>>
    <3>1. todo' = Tail(todo) /\ inFlight' = Tail(inFlight)
      BY <1>3, <2>4 DEF ReleaseOne
    <3>2. Len(inFlight') = Len(inFlight) - 1
      BY <2>4, <3>1, Numbers
    <3>3. CreditsReleasing' = Len(todo) - 1
      <4>1. Tail(todo) \in Seq({Release}) /\ Len(Tail(todo)) = Len(todo) - 1
        BY <2>1, <2>2
      <4>2. Tail(todo) # <<>> => Head(Tail(todo)) = Release
        BY <4>1
      <4>3. Tail(todo) = <<>> => Len(todo) - 1 = 0
        BY <4>1
      <4> QED
        BY <3>1, <4>1, <4>2, <4>3 DEF CreditsReleasing, Releasing, Release
    <3>4. UNCHANGED <<hport, wire, rport, pendingAcks, acks, openEnd>>
      BY <1>3 DEF HostContinues, ReleaseOne
    <3>5. Len(todo) \in Nat /\ Len(inFlight) \in Nat
      BY <2>2, Numbers
    <3>6. hport # 0 => Len(wire[hport]) \in Nat /\ acks[hport] \in Nat
      BY Numbers
    <3>7. CASE hport # 0
      <4>1. Uncredited \in Int /\ Uncredited' = Uncredited - 1
        <5> DEFINE unacked == IF rport = hport THEN pendingAcks ELSE 0
        <5>1. unacked \in Nat
          BY Numbers
        <5>2. Uncredited = Len(wire[hport]) + unacked + acks[hport] + Len(todo)
          BY <2>1 DEF Uncredited
        <5>3. Uncredited' = Len(wire[hport]) + unacked + acks[hport] + (Len(todo) - 1)
          BY <3>3, <3>4 DEF Uncredited
        <5> HIDE DEF unacked
        <5> QED
          BY <3>5, <3>6, <3>7, <5>1, <5>2, <5>3
      <4> QED
        BY <3>2, <3>4, <3>5, <3>7, <4>1 DEF CreditConserved
    <3>8. CASE hport = 0
      BY <3>4, <3>8 DEF CreditConserved
    <3> QED
      BY <3>7, <3>8
  <2> QED
    BY <2>3, <2>4
<1> QED
  BY <1>1, <1>2, <1>3 DEF HostContinues

\* A port just attached has nothing on it and nothing in its window.
LEMMA AttachCredit ==
  ASSUME TypeOK, TypeOK', PortsInOrder, HostAttach PROVE CreditConserved'
<1>1. /\ hport' = taken + 1 /\ inFlight' = <<>> /\ taken < issued
      /\ acks' = [p \in Ports |-> IF p <= taken THEN 0 ELSE acks[p]]
      /\ UNCHANGED <<wire, rport, pendingAcks>>
  BY DEF HostAttach, Attach, channelVars, rendererVars, intakeVars
<1>2. taken + 1 \in Ports
  BY <1>1, Numbers DEF PortsInOrder
<1>3. wire[taken + 1] = <<>> /\ acks[taken + 1] = 0
  BY <1>2, Numbers DEF PortsInOrder
<1>4. rport = taken + 1 => pendingAcks = 0
  BY Numbers DEF PortsInOrder
<1>5. todo' \in Seq(SessionTask)
  <2>1. PICK gaps \in SetToSeqs(dropped),
             rest \in SetToSeqs({s \in Sessions \ dropped : phase[s] # "closed"}) :
          todo' = Refences(gaps, rest)
    BY DEF HostAttach, Attach
  <2>2. gaps \in Seq(Sessions) /\ rest \in Seq(Sessions)
    BY OrderType DEF TypeOK, EmitterTypeOK
  <2> QED
    BY <2>1, <2>2, RefencesType
<1>6. CreditsReleasing' = 0
  BY <1>5, NoCreditsNext
<1>7. acks'[taken + 1] = 0
  BY <1>1, <1>2, <1>3
<1>8. Uncredited' = 0
  BY <1>1, <1>3, <1>4, <1>6, <1>7 DEF Uncredited
<1>9. Len(inFlight') = 0
  BY <1>1
<1> QED
  BY <1>8, <1>9 DEF CreditConserved

\* An ack becomes as many turns of the release loop as it pays for.
LEMMA AckCredit ==
  ASSUME TypeOK, TypeOK', CreditConserved, HostAck PROVE CreditConserved'
<1>1. PICK count \in 1..MaxAckCount :
        /\ count <= acks[hport]
        /\ Acknowledge(count)
        /\ acks' = [acks EXCEPT ![hport] = @ - count]
  BY DEF HostAck
<1>2. hport \in Ports /\ hport # 0
  BY Numbers DEF HostAck
<1>3. count \in Nat /\ count > 0 /\ acks[hport] \in Nat
  BY <1>2, Numbers, BoundAssumption
<1>4. CreditsReleasing = 0
  BY <1>1, NoCreditsWhenQuiescent DEF Acknowledge
<1>5. CreditsReleasing' = count
  <2>1. todo' = [i \in 1..count |-> Release]
    BY <1>1 DEF Acknowledge
  <2>2. Len(todo') = count /\ todo' # <<>> /\ Head(todo') = Release
    BY <1>3, <2>1
  <2> QED
    BY <2>2 DEF CreditsReleasing, Releasing, Release
<1>6. acks'[hport] = acks[hport] - count
  BY <1>1, <1>2, Numbers
<1>7. UNCHANGED <<hport, wire, rport, pendingAcks, openEnd, inFlight>>
  BY <1>1 DEF HostAck, Acknowledge, rendererVars, intakeVars
<1>8. Len(wire[hport]) \in Nat
  BY <1>2, Numbers
<1>9. Uncredited' = Uncredited
  BY <1>3, <1>4, <1>5, <1>6, <1>7, <1>8, Numbers DEF Uncredited
<1> QED
  BY <1>7, <1>9 DEF CreditConserved

\* Flushing moves what the renderer owes on its port into acks; closing a
\* port takes what was on it out of the count, and out of openEnd.
LEMMA FlushedCredit ==
  ASSUME TypeOK, PortsInOrder, hport # 0
  PROVE  Flushed[hport] = acks[hport] + (IF rport = hport THEN pendingAcks ELSE 0)
<1>1. hport \in Ports /\ HostEndOpen(hport) /\ acks[hport] \in Nat
  BY Numbers DEF PortsInOrder, HostEndOpen
<1> QED
  BY <1>1, Numbers DEF Flushed

LEMMA FlushCredit ==
  ASSUME TypeOK, PortsInOrder, CreditConserved, FlushAcks PROVE CreditConserved'
<1>1. /\ acks' = Flushed /\ pendingAcks' = 0
      /\ UNCHANGED <<hport, wire, rport, openEnd, inFlight, todo>>
  BY NothingUnflushed DEF FlushAcks, emitterVars
<1>2. CreditsReleasing' = CreditsReleasing
  BY <1>1 DEF CreditsReleasing, Releasing
<1>3. CASE hport # 0
  <2>1. acks'[hport] = acks[hport] + (IF rport = hport THEN pendingAcks ELSE 0)
    BY <1>1, <1>3, FlushedCredit
  <2>2. hport \in Ports /\ Len(wire[hport]) \in Nat /\ acks[hport] \in Nat
    BY <1>3, Numbers
  <2>3. Uncredited' = Uncredited
    BY <1>1, <1>2, <2>1, <2>2, CreditsType, Numbers DEF Uncredited
  <2> QED
    BY <1>1, <2>3 DEF CreditConserved
<1>4. CASE hport = 0
  BY <1>1, <1>4 DEF CreditConserved
<1> QED
  BY <1>3, <1>4

\* The arithmetic of the two lemmas that follow: the sum of Uncredited when
\* the messages of a port, or those and what is owed for it, are gone.
LEMMA FewerOwed ==
  ASSUME NEW m \in Nat, NEW o \in Nat, NEW a \in Nat, NEW c \in Nat
  PROVE  /\ 0 + 0 + (a + o) + c <= m + o + a + c
         /\ m + o + a + c \in Nat /\ 0 + 0 + (a + o) + c \in Nat
  OBVIOUS

LEMMA NothingOwed ==
  ASSUME NEW m \in Nat, NEW o \in Nat, NEW a \in Nat, NEW c \in Nat
  PROVE  /\ 0 + 0 + a + c <= m + o + a + c
         /\ m + o + a + c \in Nat /\ 0 + 0 + a + c \in Nat
  OBVIOUS

\* Replacing or dropping the port the host uses flushes what is owed on it
\* and closes it; what was on it, and what the host still posts on it, is
\* discarded, so the count may only fall short.
LEMMA ReconnectCredit ==
  ASSUME TypeOK, PortsInOrder, CreditConserved, Connect \/ Disconnect
  PROVE  CreditConserved'
<1>1. /\ acks' = Flushed /\ pendingAcks' = 0 /\ ClosePorts({rport})
      /\ UNCHANGED <<hport, inFlight, todo>>
  BY NothingUnflushed DEF Connect, Disconnect
<1>2. CreditsReleasing' = CreditsReleasing /\ CreditsReleasing \in Nat
  BY <1>1, CreditsType DEF CreditsReleasing, Releasing
<1>3. CASE hport = 0
  BY <1>1, <1>3 DEF CreditConserved
<1>4. CASE hport # 0
  <2>1. hport \in Ports /\ Len(wire[hport]) \in Nat /\ acks[hport] \in Nat
    BY <1>4, Numbers
  <2>2. acks'[hport'] = acks[hport] + (IF rport = hport THEN pendingAcks ELSE 0)
    BY <1>1, <1>4, FlushedCredit
  <2>3. Len(inFlight) \in Nat
    BY Numbers
  <2>4. CASE rport = hport
    <3>1. hport' \notin openEnd' /\ wire'[hport'] = <<>>
      BY <1>1, <2>1, <2>4 DEF ClosePorts
    <3>2. Uncredited = Len(wire[hport]) + pendingAcks + acks[hport] + CreditsReleasing
      BY <2>4 DEF Uncredited
    <3>3. Uncredited' = 0 + 0 + (acks[hport] + pendingAcks) + CreditsReleasing
      BY <1>1, <1>2, <2>2, <2>4, <3>1 DEF Uncredited
    <3>4. Uncredited' <= Uncredited /\ Uncredited \in Nat /\ Uncredited' \in Nat
      BY <1>2, <2>1, <3>2, <3>3, Numbers, FewerOwed
    <3> QED
      BY <1>1, <1>4, <2>3, <3>1, <3>4 DEF CreditConserved
  <2>5. CASE rport # hport
    <3>1. wire'[hport'] = wire[hport] /\ (hport' \in openEnd' <=> hport \in openEnd)
      BY <1>1, <2>1, <2>5 DEF ClosePorts
    <3>2. Uncredited = Len(wire[hport]) + 0 + acks[hport] + CreditsReleasing
      BY <2>5 DEF Uncredited
    <3>3. Uncredited' = Len(wire[hport]) + 0 + (acks[hport] + 0) + CreditsReleasing
      BY <1>1, <1>2, <2>2, <2>5, <3>1 DEF Uncredited
    <3>4. Uncredited' = Uncredited
      BY <1>2, <2>1, <3>2, <3>3
    <3> QED
      BY <1>1, <1>4, <3>1, <3>4 DEF CreditConserved
  <2> QED
    BY <2>4, <2>5
<1> QED
  BY <1>3, <1>4

\* A new document closes every port issued so far, the host's among them.
LEMMA ReloadCredit ==
  ASSUME TypeOK, PortsInOrder, CreditConserved, Reload PROVE CreditConserved'
<1>1. /\ pendingAcks' = 0 /\ ClosePorts(1..issued)
      /\ UNCHANGED <<hport, acks, inFlight, todo>>
  BY DEF Reload
<1>2. CreditsReleasing' = CreditsReleasing /\ CreditsReleasing \in Nat
  BY <1>1, CreditsType DEF CreditsReleasing, Releasing
<1>3. CASE hport = 0
  BY <1>1, <1>3 DEF CreditConserved
<1>4. CASE hport # 0
  <2>1. hport \in Ports /\ hport \in 1..issued /\ Len(wire[hport]) \in Nat /\ acks[hport] \in Nat
    BY <1>4, Numbers DEF PortsInOrder
  <2>2. hport' \notin openEnd' /\ wire'[hport'] = <<>>
    BY <1>1, <2>1 DEF ClosePorts
  <2> DEFINE unacked == IF rport = hport THEN pendingAcks ELSE 0
  <2>3. unacked \in Nat /\ Len(inFlight) \in Nat
    BY Numbers
  <2>4. Uncredited = Len(wire[hport]) + unacked + acks[hport] + CreditsReleasing
    BY DEF Uncredited
  <2>5. Uncredited' = 0 + 0 + acks[hport] + CreditsReleasing
    BY <1>1, <1>2, <2>2 DEF Uncredited
  <2> HIDE DEF unacked
  <2>6. Uncredited' <= Uncredited /\ Uncredited \in Nat /\ Uncredited' \in Nat
    BY <1>2, <2>1, <2>3, <2>4, <2>5, NothingOwed
  <2> QED
    BY <1>1, <1>4, <2>2, <2>3, <2>6 DEF CreditConserved
<1> QED
  BY <1>3, <1>4

\* What the renderer takes off the port it owes an ack for.
LEMMA DeliverCredit ==
  ASSUME TypeOK, CreditConserved, Deliver \/ Reject PROVE CreditConserved'
<1>1. /\ CanDeliver
      /\ wire' = [wire EXCEPT ![rport] = Tail(@)]
      /\ pendingAcks' = pendingAcks + 1
      /\ UNCHANGED <<hport, rport, acks, openEnd, inFlight, todo>>
  BY DEF Deliver, Reject, Taken, channelVars
<1>2. CreditsReleasing' = CreditsReleasing /\ CreditsReleasing \in Nat
  BY <1>1, CreditsType DEF CreditsReleasing, Releasing
<1>3. rport \in Ports /\ wire[rport] \in Seq(Envelope) /\ wire[rport] # <<>>
  BY <1>1, Numbers DEF CanDeliver
<1>4. CASE hport = 0
  BY <1>1, <1>4 DEF CreditConserved
<1>5. CASE hport # 0
  <2>1. hport \in Ports /\ Len(wire[hport]) \in Nat /\ acks[hport] \in Nat
    BY <1>5, Numbers
  <2>2. Uncredited' = Uncredited
    <3>1. CASE rport = hport
      <4>1. Len(wire'[hport']) = Len(wire[hport]) - 1
        BY <1>1, <1>3, <3>1, Numbers
      <4>2. Uncredited = Len(wire[hport]) + pendingAcks + acks[hport] + CreditsReleasing
        BY <3>1 DEF Uncredited
      <4>3. Uncredited' = (Len(wire[hport]) - 1) + (pendingAcks + 1) + acks[hport] + CreditsReleasing
        BY <1>1, <1>2, <3>1, <4>1 DEF Uncredited
      <4> QED
        BY <1>2, <2>1, <4>2, <4>3, Numbers
    <3>2. CASE rport # hport
      <4>1. wire'[hport'] = wire[hport]
        BY <1>1, <2>1, <3>2, Numbers
      <4> QED
        BY <1>1, <1>2, <3>2, <4>1 DEF Uncredited
    <3> QED
      BY <3>1, <3>2
  <2> QED
    BY <1>1, <2>2 DEF CreditConserved
<1> QED
  BY <1>4, <1>5

LEMMA CreditStep ==
  ASSUME TypeOK, TypeOK', PortsInOrder, CreditConserved, [Next]_vars
  PROVE  CreditConserved'
<1>1. ASSUME NEW s \in Sessions, SessionStep(s) PROVE CreditConserved'
  BY <1>1, SessionCredit
<1>2. CASE HostPortClosed
  BY <1>2 DEF HostPortClosed, PortClosed, CreditConserved
<1>3. ASSUME NEW announced \in BOOLEAN, HostExit(announced) PROVE CreditConserved'
  BY <1>3 DEF HostExit, CreditConserved
<1>4. CASE HostResync
  <2>1. todo' \in Seq(SessionTask)
    <3>1. Head(requests) \in Sessions
      BY <1>4 DEF TypeOK, MainTypeOK, HostResync
    <3> QED
      BY <1>4, <3>1, OneTask, EmptySeq DEF HostResync
  <2> QED
    BY <1>4, <2>1, NoCreditsWhenQuiescent, NoCreditsNext, CreditSame
       DEF HostResync, HostIdle, channelVars, rendererVars, intakeVars
<1>5. CASE IssuePort
  <2>1. CreditsReleasing' = CreditsReleasing
    BY <1>5 DEF IssuePort, emitterVars, CreditsReleasing, Releasing
  <2> QED
    BY <1>5, <2>1, CreditSame DEF IssuePort, emitterVars, rendererVars, intakeVars
<1>6. CASE HostStart
  <2>1. CreditsReleasing' = CreditsReleasing
    BY <1>6 DEF HostStart, emitterVars, CreditsReleasing, Releasing
  <2> QED
    BY <1>6, <2>1, CreditSame DEF HostStart, emitterVars, channelVars, rendererVars, intakeVars
<1>7. CASE UNCHANGED vars
  <2>1. CreditsReleasing' = CreditsReleasing
    BY <1>7 DEF vars, emitterVars, CreditsReleasing, Releasing
  <2> QED
    BY <1>7, <2>1, CreditSame DEF vars, emitterVars, channelVars, rendererVars, intakeVars
<1> QED
  BY <1>1, <1>2, <1>3, <1>4, <1>5, <1>6, <1>7, ContinuesCredit, AttachCredit, AckCredit,
     FlushCredit, ReconnectCredit, ReloadCredit, DeliverCredit DEF Next

-----------------------------------------------------------------------------
(* The caps.                                                               *)

\* What does not grow stays within the caps.
LEMMA FewerBytes ==
  ASSUME EmitterTypeOK, Bounded, pendingBytes' \in Int, inFlightBytes' \in Int,
         pendingBytes' <= QueueCap, inFlightBytes' <= inFlightBytes
  PROVE  Bounded'
<1>1. inFlightBytes \in Int /\ Window \in Int
  BY SizeAssumption DEF EmitterTypeOK
<1>2. \A kind \in Kinds : Bytes(kind) \in Int
  BY BytesType
<1>3. CASE inFlightBytes <= Window
  BY <1>1, <1>3 DEF Bounded
<1>4. CASE \E kind \in Kinds : inFlightBytes <= Bytes(kind)
  <2>1. PICK kind \in Kinds : inFlightBytes <= Bytes(kind)
    BY <1>4
  <2>2. inFlightBytes' <= Bytes(kind)
    BY <1>1, <1>2, <2>1
  <2> QED
    BY <2>1, <2>2 DEF Bounded, Bytes
<1> QED
  BY <1>3, <1>4 DEF Bounded

LEMMA BytesSame ==
  ASSUME EmitterTypeOK, Bounded, UNCHANGED <<pendingBytes, inFlightBytes>> PROVE Bounded'
  BY FewerBytes DEF EmitterTypeOK, Bounded

\* A port that comes, goes or dies reopens the window.
LEMMA WindowReopened ==
  ASSUME EmitterTypeOK, Bounded, inFlightBytes' = 0,
         pendingBytes' = pendingBytes \/ pendingBytes' = 0
  PROVE  Bounded'
  BY SizeAssumption DEF EmitterTypeOK, Bounded

\* Emitting respects the cap of the queue and leaves the window alone.
LEMMA EmitBytes ==
  ASSUME EmitterTypeOK, Bounded, NEW envelope \in Envelope, NEW rest \in Seq(SessionTask),
         Emit(envelope, rest)
  PROVE  Bounded'
<1>1. pendingBytes' \in Int /\ pendingBytes' <= QueueCap
  BY EmitType
<1>2. inFlightBytes' = inFlightBytes /\ inFlightBytes \in Int
  BY DEF Emit, EmitterTypeOK
<1> QED
  BY <1>1, <1>2, FewerBytes

\* What is posted fits what is left of the window, or travels alone.
LEMMA PostBytes ==
  ASSUME EmitterTypeOK, Bounded, Post(openEnd) PROVE Bounded'
<1> DEFINE bytes == Head(pending).bytes
           kind == Head(pending).envelope.kind
<1>1. Head(pending) \in Item
  BY DEF Post, CanPost, EmitterTypeOK
<1>2. kind \in Kinds /\ bytes = Bytes(kind) /\ bytes \in Nat
  BY <1>1 DEF Item, Envelope
<1>3. /\ pendingBytes' = pendingBytes - bytes
      /\ inFlightBytes' = inFlightBytes + bytes
      /\ inFlightBytes = 0 \/ inFlightBytes + bytes <= Window
  BY DEF Post, CanPost
<1>4. pendingBytes \in Int /\ inFlightBytes \in Int /\ QueueCap \in Int /\ pendingBytes <= QueueCap
  BY SizeAssumption DEF EmitterTypeOK, Bounded
<1> HIDE DEF bytes, kind
<1>5. pendingBytes' <= QueueCap
  BY <1>2, <1>3, <1>4
<1>6. CASE inFlightBytes = 0
  <2>1. inFlightBytes' <= Bytes(kind)
    BY <1>2, <1>3, <1>6
  <2> QED
    BY <1>2, <1>5, <2>1 DEF Bounded, Bytes
<1>7. CASE inFlightBytes + bytes <= Window
  BY <1>3, <1>5, <1>7 DEF Bounded
<1> QED
  BY <1>3, <1>6, <1>7

LEMMA ContinuesBytes ==
  ASSUME EmitterTypeOK, Bounded, HostContinues PROVE Bounded'
<1>1. CASE AnnounceGap
  <2>1. todo \in Seq(SessionTask)
    BY <1>1, SessionTasks DEF AnnounceGap, Releasing, EmitterTypeOK
  <2>2. PICK s \in Sessions : Emit(StreamGap(s), <<ResyncTask(s, TRUE)>> \o Tail(todo))
    <3>1. Head(todo) \in SessionTask
      BY <1>1, <2>1 DEF AnnounceGap
    <3>2. Head(todo).session \in Sessions
      BY <3>1 DEF SessionTask
    <3> QED
      BY <1>1, <3>2 DEF AnnounceGap
  <2>3. <<ResyncTask(s, TRUE)>> \o Tail(todo) \in Seq(SessionTask)
    <3>1. ResyncTask(s, TRUE) \in SessionTask
      BY DEF ResyncTask, SessionTask
    <3>2. Tail(todo) \in Seq(SessionTask)
      BY <1>1, <2>1 DEF AnnounceGap
    <3> QED
      BY <3>1, <3>2, ConsType
  <2> QED
    BY <2>2, <2>3, GapType, EmitBytes
<1>2. CASE Resync
  <2>1. todo \in Seq(SessionTask)
    BY <1>2, SessionTasks DEF Resync, Releasing, EmitterTypeOK
  <2> DEFINE s == Head(todo).session
             afterGap == Head(todo).afterGap
  <2>2. Head(todo) \in SessionTask /\ Tail(todo) \in Seq(SessionTask)
    BY <1>2, <2>1 DEF Resync
  <2>3. s \in Sessions /\ afterGap \in BOOLEAN
    BY <2>2 DEF SessionTask
  <2>4. CASE phase[s] = "closed"
    BY <1>2, <2>4, BytesSame DEF Resync
  <2>5. CASE phase[s] # "closed"
    <3>1. Emit(SnapshotEvent(s, afterGap), Tail(todo))
      BY <1>2, <2>5 DEF Resync
    <3> HIDE DEF s, afterGap
    <3> QED
      BY <2>2, <2>3, <3>1, SnapshotType, EmitBytes
  <2> QED
    BY <2>4, <2>5
<1>3. CASE ReleaseOne
  <2>1. inFlight \in Seq(Nat) /\ inFlightBytes \in Int /\ pendingBytes \in Int
    BY DEF EmitterTypeOK
  <2>2. CASE inFlight = <<>>
    BY <1>3, <2>2, BytesSame DEF ReleaseOne
  <2>3. CASE inFlight # <<>>
    <3>1. Head(inFlight) \in Nat
      BY <2>1, <2>3
    <3>2. inFlightBytes' = inFlightBytes - Head(inFlight) /\ pendingBytes' = pendingBytes
      BY <1>3, <2>3 DEF ReleaseOne
    <3>3. inFlightBytes' \in Int /\ inFlightBytes' <= inFlightBytes
      BY <2>1, <3>1, <3>2
    <3>4. pendingBytes' \in Int /\ pendingBytes' <= QueueCap
      BY <2>1, <3>2 DEF Bounded
    <3> QED
      BY <3>3, <3>4, FewerBytes
  <2> QED
    BY <2>2, <2>3
<1> QED
  BY <1>1, <1>2, <1>3, PostBytes DEF HostContinues

LEMMA BoundedStep ==
  ASSUME TypeOK, Bounded, [Next]_vars PROVE Bounded'
<1>1. EmitterTypeOK
  BY DEF TypeOK
<1>2. ASSUME NEW s \in Sessions, SessionStep(s) PROVE Bounded'
  <2>1. CASE PiEvent(s)
    BY <1>1, <2>1, EmptySeq, ContentType, EmitBytes DEF PiEvent
  <2>2. CASE ~PiEvent(s)
    <3>1. UNCHANGED <<pendingBytes, inFlightBytes>>
      BY <1>2, <2>2 DEF SessionStep, CompactionEnd, HostOpen, HostOpened, HostClose,
         ForgetSession, RequestOpen, InstallSnapshot, RequestClose, CloseProjection,
         emitterVars
    <3> QED
      BY <1>1, <3>1, BytesSame
  <2> QED
    BY <2>1, <2>2
<1>3. CASE HostContinues
  BY <1>1, <1>3, ContinuesBytes
<1>4. CASE HostAttach \/ HostPortClosed
  BY <1>1, <1>4, WindowReopened DEF HostAttach, Attach, HostPortClosed, PortClosed
<1>5. ASSUME NEW announced \in BOOLEAN, HostExit(announced) PROVE Bounded'
  BY <1>1, <1>5, WindowReopened DEF HostExit
<1>6. CASE HostAck
  BY <1>1, <1>6, BytesSame DEF HostAck, Acknowledge
<1>7. CASE HostResync \/ IssuePort \/ HostStart
  BY <1>1, <1>7, BytesSame DEF HostResync, IssuePort, HostStart, emitterVars
<1>8. CASE Connect \/ Disconnect \/ Reload
  BY <1>1, <1>8, BytesSame DEF Connect, Disconnect, Reload
<1>9. CASE FlushAcks \/ Deliver \/ Reject
  BY <1>1, <1>9, BytesSame DEF FlushAcks, Deliver, Reject, Taken, emitterVars
<1>10. CASE UNCHANGED vars
  BY <1>1, <1>10, BytesSame DEF vars, emitterVars
<1> QED
  BY <1>2, <1>3, <1>4, <1>5, <1>6, <1>7, <1>8, <1>9, <1>10 DEF Next

-----------------------------------------------------------------------------
(* The theorems.  The four invariants are inductive together: types need   *)
(* ports minted in order, credit needs both, the caps need types.          *)

IInv == TypeOK /\ PortsInOrder /\ CreditConserved /\ Bounded

LEMMA IInvInit == Init => IInv
<1> SUFFICES ASSUME Init PROVE IInv
  OBVIOUS
<1>1. PortsInOrder
  BY DEF Init, PortsInOrder
<1>2. CreditConserved
  BY DEF Init, CreditConserved
<1>3. Bounded
  BY SizeAssumption DEF Init, Bounded
<1> QED
  BY <1>1, <1>2, <1>3, TypeInit DEF IInv

LEMMA IInvStep == IInv /\ [Next]_vars => IInv'
  BY TypeStep, PortsStep, CreditStep, BoundedStep DEF IInv

LEMMA IInvAlways == Spec => []IInv
  BY IInvInit, IInvStep, PTL DEF Spec

\* Whatever the caps, the ports and the interleaving, every variable keeps the
\* shape the code gives it; no negative ack count is ever sent (stream.ts
\* flushAcks) and what is queued is an envelope with its own size.
THEOREM TypeCorrect == Spec => []TypeOK
  BY IInvAlways, PTL DEF IInv

\* The host uses the ports in the order the main process minted them, nothing
\* travels on a port before the host attached it, and the renderer owes
\* nothing for it (host.ts attachEventChannel, emitter.ts attach).
THEOREM PortsUsedInOrder == Spec => []PortsInOrder
  BY IInvAlways, PTL DEF IInv

\* Delivery credit is conserved for every window, port count and interleaving
\* of acks with reconnections, reloads and host restarts (emitter.ts #drain,
\* #acknowledge; stream.ts #queueAck, flushAcks).
THEOREM CreditIsConserved == Spec => []CreditConserved
  BY IInvAlways, PTL DEF IInv

\* The queue never holds more than its cap and the window is never exceeded
\* by more than one envelope (emitter.ts #buffer, #drain).
THEOREM CapsHold == Spec => []Bounded
  BY IInvAlways, PTL DEF IInv

-----------------------------------------------------------------------------
(* What the renderer shows.                                                *)

HIDE DEF Kinds

\* A snapshot that the schema check refuses leaves the events after it to the numbers of
\* before it.
FencesPass == "session_snapshot" \notin Rejectable

-----------------------------------------------------------------------------
(* The inductive invariant. *)

Envelopes(items) == [i \in DOMAIN items |-> items[i].envelope]

\* What is on its way to the renderer through the host's port, in order.
Flow == wire[hport] \o Envelopes(pending)

Fences(e, s) == e.session = s /\ e.kind = "session_snapshot"

NoFence(q, s) == \A i \in 1..Len(q) : ~Fences(q[i], s)

LastFence(q, s, i) == Fences(q[i], s) /\ \A j \in (i + 1)..Len(q) : ~Fences(q[j], s)

\* Behind place i of a sequence, the events of s are content above `base' and up to `top',
\* with rising numbers that exceed their place in the history by `shift'.
Rising(q, s, i, base, shift, top) ==
  /\ \A j \in (i + 1)..Len(q) : q[j].session = s =>
       /\ q[j].kind = "content"
       /\ q[j].sequence - q[j].id = shift
       /\ base < q[j].sequence /\ q[j].sequence <= top
  /\ \A j, k \in (i + 1)..Len(q) :
       q[j].session = s /\ q[k].session = s /\ j < k => q[j].sequence < q[k].sequence

FollowsFence(q, s, era, shift, top) ==
  \A i \in 1..Len(q) :
    LastFence(q, s, i) /\ q[i].inc = era =>
      /\ q[i].sequence = 1 /\ 1 - q[i].id = shift
      /\ 1 <= top
      /\ Rising(q, s, i, 1, shift, top)

Holds(calls, s) == \E i \in DOMAIN calls : calls[i].op # "release" /\ calls[i].session = s

\* Joined to a renderer, and with nothing of s left to announce or to re-fence.
Calm(s) == hport # 0 /\ hport \in openEnd /\ phase[s] # "closed" /\ ~Holds(todo, s)

Shift(s) == sequences[s] - hist[s]

Shows(s) ==
  \/ gap[s] /\ s \in awaiting
  \/ \E n \in Nat : n = lastSequence[s] - Shift(s) /\ view[s] = History(n)

Told(s) ==
  Calm(s) =>
    /\ FollowsFence(Flow, s, inc[s], Shift(s), sequences[s])
    /\ hport = rport /\ NoFence(Flow, s) /\ fenced[s] = inc[s] =>
         /\ 1 <= lastSequence[s] /\ lastSequence[s] <= sequences[s]
         /\ Rising(Flow, s, 0, lastSequence[s], Shift(s), sequences[s])
         /\ Shows(s)
    /\ hport # rport /\ NoFence(Flow, s) =>
         /\ fenced[s] # inc[s]
         /\ \A p \in Ports \ {hport} : \A i \in 1..Len(wire[p]) :
              Fences(wire[p][i], s) => wire[p][i].inc # inc[s]

ErasPast ==
  /\ \A p \in Ports : \A i \in DOMAIN wire[p] : wire[p][i].inc <= inc[wire[p][i].session]
  /\ \A i \in DOMAIN pending : pending[i].envelope.inc <= inc[pending[i].envelope.session]
  /\ \A s \in Sessions :
       /\ fenced[s] <= inc[s]
       /\ phase[s] # "closed" => inc[s] >= 1

FencedAreShown ==
  \A s \in Sessions : fenced[s] # 0 => s \in shown /\ (s \in awaiting => gap[s])

HostFits ==
  /\ hport # 0 => dropped = {}
  /\ \A s \in Sessions : cmd[s] = "binding" => hostUp /\ phase[s] # "closed"

PortsStandOpen ==
  /\ \A i \in DOMAIN inbox : inbox[i] # 0 =>
       /\ inbox[i] \in openEnd /\ inbox[i] <= issued /\ inbox[i] # rport
       /\ \A j \in DOMAIN inbox : inbox[j] = inbox[i] => j = i
  /\ \A p \in Ports : p > issued => p \in openEnd
  /\ rport # 0 => rport \in openEnd /\ rport <= issued

AllTold == \A s \in Sessions : Told(s)

Feed == ErasPast /\ FencedAreShown /\ HostFits /\ PortsStandOpen /\ AllTold

-----------------------------------------------------------------------------
(* Sequences of envelopes. *)

LEMMA TailFacts ==
  ASSUME NEW q \in Seq(Envelope), q # <<>>
  PROVE  /\ Tail(q) \in Seq(Envelope) /\ Len(Tail(q)) = Len(q) - 1 /\ Len(q) \in Nat \ {0}
         /\ \A i \in 1..Len(Tail(q)) : Tail(q)[i] = q[i + 1] /\ i + 1 \in 1..Len(q)
         /\ Head(q) = q[1] /\ Head(q) \in Envelope
  OBVIOUS

LEMMA AppendFacts ==
  ASSUME NEW q \in Seq(Envelope), NEW e \in Envelope
  PROVE  /\ Append(q, e) \in Seq(Envelope) /\ Len(q) \in Nat /\ Len(Append(q, e)) = Len(q) + 1
         /\ \A i \in 1..Len(q) : Append(q, e)[i] = q[i]
         /\ Append(q, e)[Len(q) + 1] = e
  OBVIOUS

LEMMA EnvelopeParts ==
  ASSUME NEW q \in Seq(Envelope), NEW i \in 1..Len(q)
  PROVE  /\ q[i] \in Envelope /\ q[i].sequence \in Nat /\ q[i].id \in Nat /\ q[i].inc \in Nat
         /\ q[i].session \in Sessions
<1>1. q[i] \in Envelope
  OBVIOUS
<1> QED
  BY <1>1 DEF Envelope

\* What rises does so in every part of it.
LEMMA PartRises ==
  ASSUME NEW q \in Seq(Envelope), NEW r \in Seq(Envelope), NEW i \in Nat, NEW k \in Nat, NEW m \in Nat,
         NEW s, NEW base, NEW shift, NEW top, Rising(q, s, k, base, shift, top),
         \A j \in (i + 1)..Len(r) : r[j] = q[j + m] /\ j + m \in (k + 1)..Len(q)
  PROVE  Rising(r, s, i, base, shift, top)
<1>1. ASSUME NEW j \in (i + 1)..Len(r), r[j].session = s
      PROVE  /\ r[j].kind = "content" /\ r[j].sequence - r[j].id = shift
             /\ base < r[j].sequence /\ r[j].sequence <= top
  BY <1>1 DEF Rising
<1>2. ASSUME NEW j \in (i + 1)..Len(r), NEW l \in (i + 1)..Len(r),
             r[j].session = s, r[l].session = s, j < l
      PROVE  r[j].sequence < r[l].sequence
  <2>1. /\ r[j] = q[j + m] /\ j + m \in (k + 1)..Len(q)
        /\ r[l] = q[l + m] /\ l + m \in (k + 1)..Len(q)
        /\ j + m < l + m
    BY <1>2
  <2> QED
    BY <1>2, <2>1 DEF Rising
<1> QED
  BY <1>1, <1>2 DEF Rising

\* Receiving the first of a sequence.
LEMMA TailKeepsFollowing ==
  ASSUME NEW q \in Seq(Envelope), q # <<>>, NEW s, NEW era, NEW shift, NEW top,
         FollowsFence(q, s, era, shift, top)
  PROVE  FollowsFence(Tail(q), s, era, shift, top)
<1> DEFINE r == Tail(q)
<1>1. /\ Len(q) \in Nat /\ Len(r) = Len(q) - 1
      /\ \A i \in 1..Len(r) : r[i] = q[i + 1] /\ i + 1 \in 1..Len(q)
  BY TailFacts
<1> HIDE DEF r
<1>2. SUFFICES ASSUME NEW i \in 1..Len(r), LastFence(r, s, i), r[i].inc = era
      PROVE  /\ r[i].sequence = 1 /\ 1 - r[i].id = shift /\ 1 <= top
             /\ Rising(r, s, i, 1, shift, top)
  BY DEF FollowsFence, r
<1>3. LastFence(q, s, i + 1)
  <2>1. SUFFICES ASSUME NEW j \in (i + 2)..Len(q) PROVE ~Fences(q[j], s)
    BY <1>1, <1>2 DEF LastFence
  <2>2. j - 1 \in (i + 1)..Len(r) /\ r[j - 1] = q[j]
    BY <1>1
  <2> QED
    BY <1>2, <2>2 DEF LastFence
<1>4. /\ q[i + 1].sequence = 1 /\ 1 - q[i + 1].id = shift /\ 1 <= top
      /\ Rising(q, s, i + 1, 1, shift, top)
  BY <1>1, <1>2, <1>3 DEF FollowsFence
<1>5. Rising(r, s, i, 1, shift, top)
  <2>1. \A j \in (i + 1)..Len(r) : r[j] = q[j + 1] /\ j + 1 \in ((i + 1) + 1)..Len(q)
    BY <1>1
  <2>2. r \in Seq(Envelope) /\ i \in Nat /\ i + 1 \in Nat
    BY TailFacts DEF r
  <2> QED
    BY <1>4, <2>1, <2>2, PartRises
<1> QED
  BY <1>1, <1>4, <1>5

LEMMA TailKeepsNoFence ==
  ASSUME NEW q \in Seq(Envelope), q # <<>>, NEW s
  PROVE  /\ NoFence(q, s) => NoFence(Tail(q), s)
         /\ NoFence(Tail(q), s) => NoFence(q, s) \/ LastFence(q, s, 1)
<1> DEFINE r == Tail(q)
<1>1. /\ Len(q) \in Nat \ {0} /\ Len(r) = Len(q) - 1
      /\ \A i \in 1..Len(r) : r[i] = q[i + 1] /\ i + 1 \in 1..Len(q)
  BY TailFacts
<1> HIDE DEF r
<1>2. NoFence(q, s) => NoFence(r, s)
  BY <1>1 DEF NoFence
<1>3. ASSUME NoFence(r, s) PROVE NoFence(q, s) \/ LastFence(q, s, 1)
  <2>1. ASSUME NEW j \in 2..Len(q) PROVE ~Fences(q[j], s)
    <3>1. j - 1 \in 1..Len(r) /\ r[j - 1] = q[j]
      BY <1>1
    <3> QED
      BY <1>3, <3>1 DEF NoFence
  <2> QED
    BY <1>1, <2>1 DEF NoFence, LastFence
<1> QED
  BY <1>2, <1>3 DEF r

\* With an event of s received, what is left is above its number.
LEMMA TailKeepsRising ==
  ASSUME NEW q \in Seq(Envelope), q # <<>>, NEW s, NEW base, NEW shift, NEW top,
         Rising(q, s, 0, base, shift, top)
  PROVE  /\ Rising(Tail(q), s, 0, base, shift, top)
         /\ Head(q).session = s =>
              /\ Head(q).kind = "content" /\ Head(q).sequence - Head(q).id = shift
              /\ base < Head(q).sequence /\ Head(q).sequence <= top
              /\ Rising(Tail(q), s, 0, Head(q).sequence, shift, top)
<1> DEFINE r == Tail(q)
<1>1. /\ Len(q) \in Nat \ {0} /\ Len(r) = Len(q) - 1 /\ Head(q) = q[1]
      /\ \A i \in 1..Len(r) : r[i] = q[i + 1] /\ i + 1 \in 1..Len(q)
  BY TailFacts
<1> HIDE DEF r
<1>2. Rising(r, s, 0, base, shift, top)
  <2>1. \A j \in (0 + 1)..Len(r) : r[j] = q[j + 1] /\ j + 1 \in (0 + 1)..Len(q)
    BY <1>1
  <2>2. r \in Seq(Envelope)
    BY TailFacts DEF r
  <2> QED
    BY <2>1, <2>2, PartRises
<1>3. ASSUME Head(q).session = s
      PROVE  /\ Head(q).kind = "content" /\ Head(q).sequence - Head(q).id = shift
             /\ base < Head(q).sequence /\ Head(q).sequence <= top
             /\ Rising(r, s, 0, Head(q).sequence, shift, top)
  <2>1. \A j \in 1..Len(r) : r[j].session = s => q[1].sequence < r[j].sequence
    BY <1>1, <1>3 DEF Rising
  <2>2. /\ q[1].kind = "content" /\ q[1].sequence - q[1].id = shift
        /\ base < q[1].sequence /\ q[1].sequence <= top
    BY <1>1, <1>3 DEF Rising
  <2>3. Rising(r, s, 0, q[1].sequence, shift, top)
    BY <1>2, <2>1 DEF Rising
  <2> QED
    BY <1>1, <2>2, <2>3
<1> QED
  BY <1>2, <1>3 DEF r

\* Receiving the last snapshot of s.
LEMMA FenceReceived ==
  ASSUME NEW q \in Seq(Envelope), q # <<>>, NEW s, NEW era, NEW shift, NEW top,
         FollowsFence(q, s, era, shift, top), LastFence(q, s, 1), q[1].inc = era
  PROVE  /\ q[1].sequence = 1 /\ 1 - q[1].id = shift /\ 1 <= top
         /\ Rising(Tail(q), s, 0, 1, shift, top)
<1> DEFINE r == Tail(q)
<1>1. /\ Len(q) \in Nat \ {0} /\ Len(r) = Len(q) - 1
      /\ \A i \in 1..Len(r) : r[i] = q[i + 1] /\ i + 1 \in 2..Len(q)
  BY TailFacts
<1>2. q[1].sequence = 1 /\ 1 - q[1].id = shift /\ 1 <= top /\ Rising(q, s, 1, 1, shift, top)
  BY <1>1 DEF FollowsFence
<1> HIDE DEF r
<1>3. Rising(r, s, 0, 1, shift, top)
  BY <1>1, <1>2 DEF Rising
<1> QED
  BY <1>2, <1>3 DEF r

\* An event of another session behind it, or the next of s.
LEMMA AppendKeepsRising ==
  ASSUME NEW q \in Seq(Envelope), NEW e \in Envelope, NEW i \in 0..Len(q), NEW s,
         NEW base \in Nat, NEW shift, NEW top \in Nat, NEW higher \in Nat,
         Rising(q, s, i, base, shift, top), top <= higher,
         e.session = s => /\ e.kind = "content" /\ e.sequence - e.id = shift
                          /\ e.sequence = higher /\ top < higher /\ base < higher
  PROVE  Rising(Append(q, e), s, i, base, shift, higher)
<1> DEFINE r == Append(q, e)
<1>1. /\ r \in Seq(Envelope) /\ Len(q) \in Nat /\ Len(r) = Len(q) + 1
      /\ \A j \in 1..Len(q) : r[j] = q[j]
      /\ r[Len(q) + 1] = e
  BY AppendFacts
<1>2. \A j \in 1..Len(r) : r[j].sequence \in Nat
  BY <1>1, EnvelopeParts
<1> HIDE DEF r
<1>3. ASSUME NEW j \in (i + 1)..Len(r), r[j].session = s
      PROVE  /\ r[j].kind = "content" /\ r[j].sequence - r[j].id = shift
             /\ base < r[j].sequence /\ r[j].sequence <= higher
             /\ j <= Len(q) => r[j].sequence <= top
  <2>1. CASE j <= Len(q)
    <3>1. j \in (i + 1)..Len(q) /\ r[j] = q[j]
      BY <1>1, <2>1
    <3>2. q[j].sequence \in Nat
      BY <3>1, <1>2
    <3> QED
      BY <1>3, <3>1, <3>2 DEF Rising
  <2>2. CASE j = Len(q) + 1
    BY <1>1, <1>3, <2>2
  <2> QED
    BY <1>1, <2>1, <2>2
<1>4. ASSUME NEW j \in (i + 1)..Len(r), NEW l \in (i + 1)..Len(r),
             r[j].session = s, r[l].session = s, j < l
      PROVE  r[j].sequence < r[l].sequence
  <2>1. j \in (i + 1)..Len(q) /\ r[j] = q[j]
    BY <1>1, <1>4
  <2>2. CASE l <= Len(q)
    <3>1. l \in (i + 1)..Len(q) /\ r[l] = q[l]
      BY <1>1, <2>2
    <3> QED
      BY <1>4, <2>1, <3>1 DEF Rising
  <2>3. CASE l = Len(q) + 1
    <3>1. r[j].sequence <= top /\ r[l].sequence = higher /\ top < higher
      BY <1>1, <1>3, <1>4, <2>1, <2>3
    <3>2. r[j].sequence \in Nat
      BY <1>2
    <3> QED
      BY <3>1, <3>2
  <2> QED
    BY <1>1, <2>2, <2>3
<1> QED
  BY <1>3, <1>4 DEF Rising, r

LEMMA AppendKeepsNoFence ==
  ASSUME NEW q \in Seq(Envelope), NEW e \in Envelope, NEW s
  PROVE  NoFence(Append(q, e), s) <=> NoFence(q, s) /\ ~Fences(e, s)
<1> DEFINE r == Append(q, e)
<1>1. /\ Len(q) \in Nat /\ Len(r) = Len(q) + 1
      /\ \A j \in 1..Len(q) : r[j] = q[j]
      /\ r[Len(q) + 1] = e
  BY AppendFacts
<1> HIDE DEF r
<1>2. 1..Len(r) = 1..Len(q) \cup {Len(q) + 1}
  BY <1>1
<1> QED
  BY <1>1, <1>2 DEF NoFence, r

LEMMA AppendKeepsFollowing ==
  ASSUME NEW q \in Seq(Envelope), NEW e \in Envelope, NEW s,
         NEW era, NEW shift, NEW top \in Nat, NEW higher \in Nat,
         FollowsFence(q, s, era, shift, top), top <= higher,
         e.session = s => /\ e.kind = "content" /\ e.sequence - e.id = shift
                          /\ e.sequence = higher /\ top < higher
  PROVE  FollowsFence(Append(q, e), s, era, shift, higher)
<1> DEFINE r == Append(q, e)
<1>1. /\ Len(q) \in Nat /\ Len(r) = Len(q) + 1
      /\ \A j \in 1..Len(q) : r[j] = q[j]
      /\ r[Len(q) + 1] = e
  BY AppendFacts
<1> HIDE DEF r
<1>2. SUFFICES ASSUME NEW i \in 1..Len(r), LastFence(r, s, i), r[i].inc = era
      PROVE  /\ r[i].sequence = 1 /\ 1 - r[i].id = shift /\ 1 <= higher
             /\ Rising(r, s, i, 1, shift, higher)
  BY DEF FollowsFence, r
<1>3. i # Len(q) + 1
  BY <1>1, <1>2 DEF LastFence, Fences
<1>4. i \in 1..Len(q) /\ r[i] = q[i]
  BY <1>1, <1>3
<1>5. LastFence(q, s, i)
  <2>1. \A j \in (i + 1)..Len(q) : j \in (i + 1)..Len(r) /\ r[j] = q[j]
    BY <1>1, <1>4
  <2> QED
    BY <1>2, <1>4, <2>1 DEF LastFence
<1>6. q[i].sequence = 1 /\ 1 - q[i].id = shift /\ 1 <= top /\ Rising(q, s, i, 1, shift, top)
  BY <1>2, <1>4, <1>5 DEF FollowsFence
<1>7. i \in 0..Len(q) /\ (e.session = s => 1 < higher)
  BY <1>4, <1>6
<1>8. Rising(r, s, i, 1, shift, higher)
  BY <1>6, <1>7, AppendKeepsRising DEF r
<1> QED
  BY <1>4, <1>6, <1>8

\* A snapshot of s behind it.
LEMMA AppendFence ==
  ASSUME NEW q \in Seq(Envelope), NEW e \in Envelope, NEW s, NEW era, NEW shift,
         Fences(e, s), e.sequence = 1, 1 - e.id = shift
  PROVE  FollowsFence(Append(q, e), s, era, shift, 1)
<1> DEFINE r == Append(q, e)
<1>1. /\ r \in Seq(Envelope) /\ Len(q) \in Nat /\ Len(r) = Len(q) + 1
      /\ r[Len(q) + 1] = e
  BY AppendFacts
<1> HIDE DEF r
<1>2. SUFFICES ASSUME NEW i \in 1..Len(r), LastFence(r, s, i)
      PROVE  /\ r[i].sequence = 1 /\ 1 - r[i].id = shift
             /\ Rising(r, s, i, 1, shift, 1)
  BY DEF FollowsFence, r
<1>3. i = Len(q) + 1
  <2>1. i < Len(r) => Len(q) + 1 \in (i + 1)..Len(r)
    BY <1>1
  <2> QED
    BY <1>1, <1>2, <2>1 DEF LastFence
<1>4. (i + 1)..Len(r) = {}
  BY <1>1, <1>3
<1> QED
  BY <1>1, <1>3, <1>4 DEF Rising

\* Losing an end in which nothing is of s.
LEMMA DropKeeps ==
  ASSUME NEW q \in Seq(Envelope), NEW r \in Seq(Envelope), NEW s,
         \A i \in 1..Len(r) : r[i].session # s
  PROVE  /\ NoFence(q, s) <=> NoFence(q \o r, s)
         /\ \A base, shift, top :
              Rising(q \o r, s, 0, base, shift, top) => Rising(q, s, 0, base, shift, top)
         /\ \A era, shift, top :
              FollowsFence(q \o r, s, era, shift, top) => FollowsFence(q, s, era, shift, top)
<1> DEFINE w == q \o r
<1>1. /\ w \in Seq(Envelope) /\ Len(q) \in Nat /\ Len(r) \in Nat /\ Len(w) = Len(q) + Len(r)
      /\ \A i \in 1..Len(q) : w[i] = q[i]
      /\ \A i \in 1..Len(w) : i > Len(q) => w[i] = r[i - Len(q)]
  OBVIOUS
<1> HIDE DEF w
<1>2. \A i \in 1..Len(w) : i > Len(q) => w[i].session # s
  <2>1. \A i \in 1..Len(w) : i > Len(q) => i - Len(q) \in 1..Len(r)
    BY <1>1
  <2> QED
    BY <1>1, <2>1
<1>3. NoFence(q, s) <=> NoFence(w, s)
  <2>1. \A i \in 1..Len(q) : i \in 1..Len(w)
    BY <1>1
  <2> QED
    BY <1>1, <1>2, <2>1 DEF NoFence, Fences
<1>4. ASSUME NEW i \in 0..Len(q), NEW base, NEW shift, NEW top, Rising(w, s, i, base, shift, top)
      PROVE  Rising(q, s, i, base, shift, top)
  <2>1. \A j \in (i + 1)..Len(q) : q[j] = w[j + 0] /\ j + 0 \in (i + 1)..Len(w)
    BY <1>1
  <2>2. i \in Nat /\ 0 \in Nat
    OBVIOUS
  <2> QED
    BY <1>1, <1>4, <2>1, <2>2, PartRises
<1>5. ASSUME NEW era, NEW shift, NEW top, FollowsFence(w, s, era, shift, top)
      PROVE  FollowsFence(q, s, era, shift, top)
  <2>1. SUFFICES ASSUME NEW i \in 1..Len(q), LastFence(q, s, i), q[i].inc = era
        PROVE  /\ q[i].sequence = 1 /\ 1 - q[i].id = shift /\ 1 <= top
               /\ Rising(q, s, i, 1, shift, top)
    BY DEF FollowsFence
  <2>2. i \in 1..Len(w) /\ w[i] = q[i]
    BY <1>1
  <2>3. LastFence(w, s, i)
    <3>1. ASSUME NEW j \in (i + 1)..Len(w) PROVE ~Fences(w[j], s)
      <4>1. CASE j <= Len(q)
        <5>1. j \in (i + 1)..Len(q) /\ w[j] = q[j]
          BY <1>1, <4>1
        <5> QED
          BY <2>1, <5>1 DEF LastFence
      <4>2. CASE j > Len(q)
        <5>1. j \in 1..Len(w)
          BY <1>1
        <5> QED
          BY <1>2, <4>2, <5>1 DEF Fences
      <4> QED
        BY <1>1, <4>1, <4>2
    <3> QED
      BY <2>1, <2>2, <3>1 DEF LastFence
  <2>4. w[i].sequence = 1 /\ 1 - w[i].id = shift /\ 1 <= top /\ Rising(w, s, i, 1, shift, top)
    BY <1>5, <2>1, <2>2, <2>3 DEF FollowsFence
  <2> QED
    BY <1>4, <2>2, <2>4
<1> QED
  BY <1>3, <1>4, <1>5, <1>1 DEF w

-----------------------------------------------------------------------------
(* Calls of the host. *)

\* An enumeration of a set of sessions has each of them.
LEMMA OrderIsOnto ==
  ASSUME NEW S \in SUBSET Sessions, NEW order \in SetToSeqs(S), NEW s \in S
  PROVE  \E i \in DOMAIN order : order[i] = s
<1> DEFINE D == 1..Cardinality(S)
<1>1. IsFiniteSet(S)
  BY SessionAssumption, FS_Subset
<1>2. Cardinality(S) \in Nat
  BY <1>1, FS_CardinalityType
<1>3. order \in [D -> S] /\ \A i, j \in D : i # j => order[i] # order[j]
  BY DEF SetToSeqs
<1>4. Cardinality(D) = Cardinality(S)
  BY <1>2, FS_Interval
<1>5. order \in Injection(D, S)
  BY <1>3 DEF Injection, IsInjective
<1>6. order \in Surjection(D, S)
  <2> HIDE DEF D
  <2> QED
    BY <1>1, <1>4, <1>5, FS_Injection
<1> QED
  BY <1>3, <1>6 DEF Surjection

LEMMA JoinedHolds ==
  ASSUME NEW a \in Seq(SessionTask), NEW b \in Seq(SessionTask), NEW s
  PROVE  Holds(a \o b, s) <=> Holds(a, s) \/ Holds(b, s)
<1> DEFINE w == a \o b
<1>1. /\ DOMAIN w = 1..(Len(a) + Len(b)) /\ DOMAIN a = 1..Len(a) /\ DOMAIN b = 1..Len(b)
      /\ Len(a) \in Nat /\ Len(b) \in Nat
      /\ \A i \in 1..Len(a) : w[i] = a[i]
      /\ \A i \in 1..Len(b) : w[Len(a) + i] = b[i]
  OBVIOUS
<1>2. \A i \in DOMAIN w : i \in 1..Len(a) \/ (i - Len(a) \in 1..Len(b) /\ i = Len(a) + (i - Len(a)))
  BY <1>1
<1>3. \A i \in 1..Len(b) : Len(a) + i \in DOMAIN w
  BY <1>1
<1>4. \A i \in 1..Len(a) : i \in DOMAIN w
  BY <1>1
<1> HIDE DEF w
<1>5. Holds(a, s) => Holds(w, s)
  BY <1>1, <1>4 DEF Holds
<1>6. Holds(b, s) => Holds(w, s)
  BY <1>1, <1>3 DEF Holds
<1>7. Holds(w, s) => Holds(a, s) \/ Holds(b, s)
  <2>1. SUFFICES ASSUME NEW i \in DOMAIN w, w[i].op # "release", w[i].session = s
        PROVE  Holds(a, s) \/ Holds(b, s)
    BY DEF Holds
  <2>2. CASE i \in 1..Len(a)
    BY <1>1, <2>1, <2>2 DEF Holds
  <2>3. CASE i - Len(a) \in 1..Len(b) /\ i = Len(a) + (i - Len(a))
    <3>1. w[i] = b[i - Len(a)]
      BY <1>1, <2>3
    <3> QED
      BY <1>1, <2>1, <2>3, <3>1 DEF Holds
  <2> QED
    BY <1>2, <2>2, <2>3
<1> QED
  BY <1>5, <1>6, <1>7 DEF w

LEMMA HeadHolds ==
  ASSUME NEW a \in Seq(SessionTask), a # <<>>, NEW s
  PROVE  Holds(a, s) <=> Head(a).session = s \/ Holds(Tail(a), s)
<1> DEFINE r == Tail(a)
<1>1. /\ DOMAIN a = 1..Len(a) /\ DOMAIN r = 1..Len(r) /\ Len(a) \in Nat \ {0}
      /\ Len(r) = Len(a) - 1 /\ Head(a) = a[1]
      /\ \A i \in 1..Len(r) : r[i] = a[i + 1] /\ i + 1 \in DOMAIN a
  OBVIOUS
<1>2. a[1].op # "release"
  <2>1. a[1] \in SessionTask
    BY <1>1
  <2> QED
    BY <2>1 DEF SessionTask
<1>3. \A i \in DOMAIN a : i = 1 \/ (i - 1 \in DOMAIN r /\ r[i - 1] = a[i])
  BY <1>1
<1> HIDE DEF r
<1>4. Holds(a, s) => a[1].session = s \/ Holds(r, s)
  BY <1>3 DEF Holds
<1>5. a[1].session = s \/ Holds(r, s) => Holds(a, s)
  BY <1>1, <1>2 DEF Holds
<1> QED
  BY <1>1, <1>4, <1>5 DEF r

LEMMA AnnouncementsHold ==
  ASSUME NEW S \in SUBSET Sessions, NEW order \in SetToSeqs(S), NEW s
  PROVE  Holds(Announcements(order), s) <=> s \in S
<1>1. \A i \in DOMAIN order : order[i] \in S
  BY DEF SetToSeqs
<1>2. DOMAIN Announcements(order) = DOMAIN order
  BY DEF Announcements
<1>3. \A i \in DOMAIN order :
        Announcements(order)[i].op # "release" /\ Announcements(order)[i].session = order[i]
  BY DEF Announcements, Announce
<1>4. s \in S => \E i \in DOMAIN order : order[i] = s
  BY OrderIsOnto
<1> QED
  BY <1>1, <1>2, <1>3, <1>4 DEF Holds

LEMMA RefencesHold ==
  ASSUME NEW S \in SUBSET Sessions, NEW T \in SUBSET Sessions,
         NEW gaps \in SetToSeqs(S), NEW rest \in SetToSeqs(T), NEW s \in S \cup T
  PROVE  Holds(Refences(gaps, rest), s)
<1> DEFINE task(i) == ResyncTask(rest[i], FALSE)
           tasks == [i \in DOMAIN rest |-> task(i)]
<1>1. gaps \in Seq(Sessions) /\ rest \in Seq(Sessions)
  BY OrderType
<1>2. Announcements(gaps) \in Seq(SessionTask)
  BY <1>1, AnnouncementsType
<1>3. \A i \in DOMAIN rest : task(i) \in SessionTask
  BY <1>1 DEF ResyncTask, SessionTask
<1>4. tasks \in Seq(SessionTask)
  <2>1. Len(rest) \in Nat /\ DOMAIN rest = 1..Len(rest)
    BY <1>1
  <2> HIDE DEF task
  <2> QED
    BY <1>3, <2>1
<1>5. Refences(gaps, rest) = Announcements(gaps) \o tasks
  BY DEF Refences
<1>6. s \in S => Holds(Announcements(gaps), s)
  BY AnnouncementsHold
<1>7. s \in T => Holds(tasks, s)
  <2>1. s \in T => \E i \in DOMAIN rest : rest[i] = s
    BY OrderIsOnto
  <2>2. \A i \in DOMAIN rest : tasks[i].op # "release" /\ tasks[i].session = rest[i]
    BY DEF ResyncTask
  <2> QED
    BY <2>1, <2>2 DEF Holds
<1> HIDE DEF tasks
<1> QED
  BY <1>2, <1>4, <1>5, <1>6, <1>7, JoinedHolds

LEMMA NoCallsHold == \A s : ~Holds(<<>>, s)
  BY DEF Holds

\* What emit leaves to do: the rest, and with a port the gaps of all that was lost.
LEMMA EmitCalls ==
  ASSUME TypeOK, NEW e \in Envelope, NEW rest \in Seq(SessionTask), Emit(e, rest), NEW s
  PROVE  /\ Holds(rest, s) => Holds(todo', s)
         /\ Overflows(e) /\ hport # 0 /\ s \in Lost(e) => Holds(todo', s)
         /\ ~Overflows(e) => todo' = rest
<1>1. e.session \in Sessions
  BY DEF Envelope
<1>2. Lost(e) \in SUBSET Sessions
  <2>1. pending \in Seq(Item) /\ dropped \in SUBSET Sessions
    BY DEF TypeOK, EmitterTypeOK
  <2>2. ASSUME NEW k \in DOMAIN pending PROVE pending[k].envelope.session \in Sessions
    <3>1. pending[k] \in Item
      BY <2>1
    <3> QED
      BY <3>1 DEF Item, Envelope
  <2> QED
    BY <1>1, <2>1, <2>2 DEF Lost
<1>3. CASE Overflows(e) /\ hport # 0
  <2>1. PICK order \in SetToSeqs(Lost(e)) : todo' = Announcements(order) \o rest
    BY <1>3 DEF Emit, Buffer
  <2>2. Announcements(order) \in Seq(SessionTask)
    BY <1>2, OrderType, AnnouncementsType
  <2>3. Holds(todo', s) <=> Holds(Announcements(order), s) \/ Holds(rest, s)
    BY <2>1, <2>2, JoinedHolds
  <2> QED
    BY <1>2, <1>3, <2>3, AnnouncementsHold
<1>4. CASE ~(Overflows(e) /\ hport # 0)
  BY <1>4 DEF Emit, Buffer
<1> QED
  BY <1>3, <1>4

-----------------------------------------------------------------------------
(* The flow. *)

LEMMA EnvelopesType ==
  ASSUME NEW items \in Seq(Item)
  PROVE  /\ Envelopes(items) \in Seq(Envelope) /\ Len(Envelopes(items)) = Len(items)
         /\ \A i \in 1..Len(items) : Envelopes(items)[i] = items[i].envelope
<1>1. Len(items) \in Nat /\ DOMAIN items = 1..Len(items)
  OBVIOUS
<1>2. \A i \in 1..Len(items) : items[i].envelope \in Envelope
  BY DEF Item
<1>3. Envelopes(items) = [i \in 1..Len(items) |-> items[i].envelope]
  BY <1>1 DEF Envelopes
<1> QED
  BY <1>1, <1>2, <1>3

LEMMA FlowType ==
  ASSUME TypeOK, hport # 0
  PROVE  /\ hport \in Ports /\ wire[hport] \in Seq(Envelope)
         /\ Envelopes(pending) \in Seq(Envelope) /\ Flow \in Seq(Envelope)
<1>1. hport \in Ports /\ wire[hport] \in Seq(Envelope) /\ pending \in Seq(Item)
  BY DEF TypeOK, EmitterTypeOK
<1>2. Envelopes(pending) \in Seq(Envelope)
  BY <1>1, EnvelopesType
<1> QED
  BY <1>1, <1>2 DEF Flow

LEMMA QueueLosesHead ==
  ASSUME NEW items \in Seq(Item), items # <<>>
  PROVE  /\ Envelopes(items) # <<>>
         /\ Head(Envelopes(items)) = Head(items).envelope
         /\ Tail(Envelopes(items)) = Envelopes(Tail(items))
<1>1. /\ Len(Envelopes(items)) = Len(items) /\ Len(items) \in Nat \ {0}
      /\ Envelopes(items) \in Seq(Envelope)
      /\ \A i \in 1..Len(items) : Envelopes(items)[i] = items[i].envelope
  BY EnvelopesType
<1>2. /\ Envelopes(Tail(items)) \in Seq(Envelope) /\ Len(Envelopes(Tail(items))) = Len(items) - 1
      /\ \A i \in 1..(Len(items) - 1) : Envelopes(Tail(items))[i] = Tail(items)[i].envelope
  <2>1. Tail(items) \in Seq(Item) /\ Len(Tail(items)) = Len(items) - 1
    OBVIOUS
  <2> QED
    BY <2>1, EnvelopesType
<1>3. \A i \in 1..(Len(items) - 1) : Tail(items)[i] = items[i + 1] /\ i + 1 \in 1..Len(items)
  OBVIOUS
<1> DEFINE a == Envelopes(items)
           b == Envelopes(Tail(items))
<1>4. a # <<>> /\ Head(a) = a[1] /\ Tail(a) \in Seq(Envelope) /\ Len(Tail(a)) = Len(items) - 1
  BY <1>1
<1>5. \A i \in 1..(Len(items) - 1) : Tail(a)[i] = a[i + 1]
  BY <1>1
<1>6. \A i \in 1..(Len(items) - 1) : Tail(a)[i] = b[i]
  BY <1>1, <1>2, <1>3, <1>5
<1>7. Head(items) = items[1] /\ 1 \in 1..Len(items)
  OBVIOUS
<1>8. Tail(a) = b
  <2> HIDE DEF a, b
  <2>1. b \in Seq(Envelope) /\ Len(b) = Len(items) - 1
    BY <1>2 DEF b
  <2> QED
    BY <1>4, <1>6, <2>1
<1> QED
  BY <1>1, <1>4, <1>7, <1>8

\* Posting an envelope takes it from the queue to the wire.
LEMMA PostKeepsFlow ==
  ASSUME TypeOK, Post(openEnd), hport \in openEnd PROVE Flow' = Flow
<1>1. /\ pending # <<>> /\ hport # 0 /\ hport' = hport /\ pending' = Tail(pending)
      /\ wire' = [wire EXCEPT ![hport] = Append(@, Head(pending).envelope)]
  BY DEF Post, CanPost
<1>2. /\ hport \in Ports /\ wire[hport] \in Seq(Envelope) /\ Envelopes(pending) \in Seq(Envelope)
      /\ pending \in Seq(Item) /\ wire \in [Ports -> Seq(Envelope)]
  BY <1>1, FlowType DEF TypeOK, EmitterTypeOK
<1>4. /\ Envelopes(pending) # <<>>
      /\ Head(Envelopes(pending)) = Head(pending).envelope
      /\ Tail(Envelopes(pending)) = Envelopes(Tail(pending))
  BY <1>1, <1>2, QueueLosesHead
<1>5. wire'[hport] = Append(wire[hport], Head(Envelopes(pending)))
  BY <1>1, <1>2, <1>4
<1>6. \A a, b \in Seq(Envelope) : b # <<>> => Append(a, Head(b)) \o Tail(b) = a \o b
  OBVIOUS
<1>7. Flow' = Append(wire[hport], Head(Envelopes(pending))) \o Tail(Envelopes(pending))
  BY <1>1, <1>4, <1>5 DEF Flow
<1> QED
  BY <1>2, <1>4, <1>6, <1>7 DEF Flow

LEMMA QueueGains ==
  ASSUME TypeOK, NEW e \in Envelope, NEW rest, Emit(e, rest)
  PROVE  /\ Overflows(e) => Envelopes(pending') = <<>>
         /\ ~Overflows(e) => Envelopes(pending') = Append(Envelopes(pending), e)
<1>1. pending \in Seq(Item)
  BY DEF TypeOK, EmitterTypeOK
<1>2. ASSUME Overflows(e) PROVE Envelopes(pending') = <<>>
  <2>1. pending' = <<>>
    BY <1>2 DEF Emit, Buffer
  <2> QED
    BY <2>1 DEF Envelopes
<1>3. ASSUME ~Overflows(e) PROVE Envelopes(pending') = Append(Envelopes(pending), e)
  <2> DEFINE item == [envelope |-> e, bytes |-> Bytes(e.kind)]
             a == Envelopes(pending)
             b == Envelopes(pending')
  <2>1. pending' = Append(pending, item)
    BY <1>3 DEF Emit, Buffer
  <2>2. item \in Item
    <3>1. e.kind \in Kinds
      BY DEF Envelope
    <3> QED
      BY <3>1, BytesType DEF Item
  <2>3. /\ a \in Seq(Envelope) /\ Len(a) = Len(pending) /\ Len(pending) \in Nat
        /\ \A i \in 1..Len(pending) : a[i] = pending[i].envelope
    BY <1>1, EnvelopesType
  <2>4. pending' \in Seq(Item) /\ Len(pending') = Len(pending) + 1
    BY <1>1, <2>1, <2>2
  <2>5. /\ b \in Seq(Envelope) /\ Len(b) = Len(pending) + 1
        /\ \A i \in 1..(Len(pending) + 1) : b[i] = pending'[i].envelope
    BY <2>4, EnvelopesType
  <2>6. \A i \in 1..Len(pending) : pending'[i] = pending[i]
    BY <1>1, <2>1, <2>2
  <2>7. pending'[Len(pending) + 1] = item
    BY <1>1, <2>1, <2>2
  <2>8. \A i \in 1..Len(pending) : b[i] = a[i]
    BY <2>3, <2>5, <2>6
  <2>9. b[Len(pending) + 1] = e
    BY <2>3, <2>5, <2>7
  <2> HIDE DEF a, b
  <2> QED
    BY <2>3, <2>5, <2>8, <2>9 DEF a, b
<1> QED
  BY <1>2, <1>3

\* Emitting puts an envelope at its end or, breaching the cap, takes the queue off it.
LEMMA EmitFlow ==
  ASSUME TypeOK, hport # 0, NEW e \in Envelope, NEW rest, Emit(e, rest)
  PROVE  /\ ~Overflows(e) => Flow' = Append(Flow, e)
         /\ Overflows(e) => Flow' = wire[hport]
<1>1. hport' = hport /\ wire' = wire
  BY DEF Emit
<1>2. wire[hport] \in Seq(Envelope) /\ Envelopes(pending) \in Seq(Envelope)
  BY FlowType
<1>3. Flow' = wire[hport] \o Envelopes(pending')
  BY <1>1 DEF Flow
<1>4. \A a, b \in Seq(Envelope) : a \o Append(b, e) = Append(a \o b, e) /\ a \o <<>> = a
  OBVIOUS
<1>5. ASSUME Overflows(e) PROVE Flow' = wire[hport]
  BY <1>2, <1>3, <1>4, <1>5, QueueGains
<1>6. ASSUME ~Overflows(e) PROVE Flow' = Append(Flow, e)
  <2>1. Envelopes(pending') = Append(Envelopes(pending), e)
    BY <1>6, QueueGains
  <2> QED
    BY <1>2, <1>3, <1>4, <2>1 DEF Flow
<1> QED
  BY <1>5, <1>6

\* What the renderer receives comes off its front.
LEMMA TakenFromFlow ==
  ASSUME TypeOK, CanDeliver, Taken
  PROVE  /\ rport = hport => /\ Flow # <<>> /\ Head(Flow) = Head(wire[rport])
                             /\ Flow' = Tail(Flow)
         /\ rport # hport /\ hport # 0 => Flow' = Flow
<1>1. /\ rport \in Ports /\ wire \in [Ports -> Seq(Envelope)] /\ wire[rport] # <<>>
      /\ wire' = [wire EXCEPT ![rport] = Tail(wire[rport])] /\ hport' = hport /\ pending' = pending
  BY Numbers DEF CanDeliver, Taken
<1>2. ASSUME rport = hport
      PROVE  Flow # <<>> /\ Head(Flow) = Head(wire[rport]) /\ Flow' = Tail(Flow)
  <2>1. wire[hport] \in Seq(Envelope) /\ Envelopes(pending) \in Seq(Envelope) /\ hport # 0
    BY <1>1, <1>2, FlowType, Numbers
  <2>2. \A a, b \in Seq(Envelope) : a # <<>> =>
          a \o b # <<>> /\ Head(a \o b) = Head(a) /\ Tail(a \o b) = Tail(a) \o b
    OBVIOUS
  <2>3. Flow' = Tail(wire[hport]) \o Envelopes(pending)
    BY <1>1, <1>2 DEF Flow
  <2> QED
    BY <1>1, <1>2, <2>1, <2>2, <2>3 DEF Flow
<1>3. ASSUME rport # hport, hport # 0 PROVE Flow' = Flow
  BY <1>1, <1>3, FlowType DEF Flow
<1> QED
  BY <1>2, <1>3

-----------------------------------------------------------------------------
(* What each step does to the feed of one session. *)

\* The flow keeps its order, and the renderer's part stays or is no longer based on a
\* snapshot of the port.
LEMMA ToldOnward ==
  ASSUME TypeOK, ErasPast, NEW s \in Sessions, Told(s), Calm(s)' => Calm(s),
         hport' = hport, rport' = rport, inc'[s] = inc[s], Shift(s)' = Shift(s),
         sequences[s] <= sequences'[s], sequences'[s] \in Nat,
         \A p \in Ports \ {hport} : wire'[p] = wire[p],
         Calm(s)' =>
           /\ FollowsFence(Flow, s, inc[s], Shift(s), sequences[s])
                => FollowsFence(Flow', s, inc[s], Shift(s), sequences'[s])
           /\ NoFence(Flow', s) => NoFence(Flow, s)
           /\ \A base \in Nat :
                base <= sequences[s] /\ Rising(Flow, s, 0, base, Shift(s), sequences[s])
                  => Rising(Flow', s, 0, base, Shift(s), sequences'[s]),
         lastSequence'[s] = lastSequence[s],
         \/ /\ view'[s] = view[s] /\ gap'[s] = gap[s] /\ fenced'[s] = fenced[s]
            /\ s \in awaiting' <=> s \in awaiting
         \/ fenced'[s] = 0
  PROVE  Told(s)'
<1>1. SUFFICES ASSUME Calm(s)'
      PROVE  /\ FollowsFence(Flow', s, inc'[s], Shift(s)', sequences'[s])
             /\ hport' = rport' /\ NoFence(Flow', s) /\ fenced'[s] = inc'[s] =>
                  /\ 1 <= lastSequence'[s] /\ lastSequence'[s] <= sequences'[s]
                  /\ Rising(Flow', s, 0, lastSequence'[s], Shift(s)', sequences'[s])
                  /\ Shows(s)'
             /\ hport' # rport' /\ NoFence(Flow', s) =>
                  /\ fenced'[s] # inc'[s]
                  /\ \A p \in Ports \ {hport'} : \A i \in 1..Len(wire'[p]) :
                       Fences(wire'[p][i], s) => wire'[p][i].inc # inc'[s]
  BY DEF Told
<1>2. /\ Calm(s) /\ inc[s] # 0
      /\ FollowsFence(Flow, s, inc[s], Shift(s), sequences[s])
      /\ hport = rport /\ NoFence(Flow, s) /\ fenced[s] = inc[s] =>
           /\ 1 <= lastSequence[s] /\ lastSequence[s] <= sequences[s]
           /\ Rising(Flow, s, 0, lastSequence[s], Shift(s), sequences[s])
           /\ Shows(s)
      /\ hport # rport /\ NoFence(Flow, s) =>
           /\ fenced[s] # inc[s]
           /\ \A p \in Ports \ {hport} : \A i \in 1..Len(wire[p]) :
                Fences(wire[p][i], s) => wire[p][i].inc # inc[s]
  BY <1>1 DEF Told, Calm, ErasPast
<1>3. lastSequence[s] \in Nat /\ sequences[s] \in Nat
  BY DEF TypeOK, EmitterTypeOK, RendererTypeOK
<1>4. FollowsFence(Flow', s, inc'[s], Shift(s)', sequences'[s]) /\ (NoFence(Flow', s) => NoFence(Flow, s))
  BY <1>1, <1>2
<1>5. ASSUME hport' = rport', NoFence(Flow', s), fenced'[s] = inc'[s]
      PROVE  /\ 1 <= lastSequence'[s] /\ lastSequence'[s] <= sequences'[s]
             /\ Rising(Flow', s, 0, lastSequence'[s], Shift(s)', sequences'[s])
             /\ Shows(s)'
  <2>1. /\ view'[s] = view[s] /\ gap'[s] = gap[s] /\ fenced'[s] = fenced[s]
        /\ s \in awaiting' <=> s \in awaiting
    BY <1>2, <1>5
  <2>2. /\ 1 <= lastSequence[s] /\ lastSequence[s] <= sequences[s]
        /\ Rising(Flow, s, 0, lastSequence[s], Shift(s), sequences[s])
        /\ Shows(s)
    BY <1>2, <1>4, <1>5, <2>1
  <2>3. Shows(s)'
    BY <2>1, <2>2 DEF Shows
  <2>4. Rising(Flow', s, 0, lastSequence[s], Shift(s), sequences'[s])
    BY <1>1, <1>3, <2>2
  <2> QED
    BY <1>3, <2>2, <2>3, <2>4
<1>6. ASSUME hport' # rport', NoFence(Flow', s)
      PROVE  /\ fenced'[s] # inc'[s]
             /\ \A p \in Ports \ {hport'} : \A i \in 1..Len(wire'[p]) :
                  Fences(wire'[p][i], s) => wire'[p][i].inc # inc'[s]
  BY <1>2, <1>4, <1>6
<1> QED
  BY <1>4, <1>5, <1>6

\* Steps that neither emit nor receive.
LEMMA ToldSame ==
  ASSUME TypeOK, ErasPast, NEW s \in Sessions, Told(s), Calm(s)' => Calm(s),
         hport' = hport, rport' = rport, pending' = pending, wire' = wire, inc'[s] = inc[s],
         sequences'[s] = sequences[s], hist'[s] = hist[s], lastSequence'[s] = lastSequence[s],
         \/ /\ view'[s] = view[s] /\ gap'[s] = gap[s] /\ fenced'[s] = fenced[s]
            /\ s \in awaiting' <=> s \in awaiting
         \/ fenced'[s] = 0
  PROVE  Told(s)'
<1>1. Flow' = Flow /\ Shift(s)' = Shift(s)
  BY DEF Flow, Shift
<1>2. sequences[s] <= sequences'[s] /\ sequences'[s] \in Nat
  BY DEF TypeOK, EmitterTypeOK
<1> QED
  BY <1>1, <1>2, ToldOnward

LEMMA ToldUnjoined ==
  ASSUME NEW s \in Sessions, hport' = 0 \/ hport' \notin openEnd' \/ phase'[s] = "closed" \/ Holds(todo', s)
  PROVE  Told(s)'
  BY DEF Told, Calm

\* An envelope of another session, or the next content of this one, is emitted.
LEMMA ToldEmit ==
  ASSUME TypeOK, ErasPast, NEW s \in Sessions, Told(s),
         NEW e \in Envelope, NEW rest \in Seq(SessionTask), Emit(e, rest),
         phase'[s] = "closed" \/ phase[s] # "closed", Holds(todo, s) => Holds(rest, s),
         inc'[s] = inc[s], UNCHANGED <<openEnd, rendererVars>>,
         \/ e.session # s /\ hist'[s] = hist[s]
         \/ e = ContentEvent(s) /\ hist'[s] = hist[s] + 1
  PROVE  Told(s)'
<1> DEFINE q == Flow
           top == sequences[s]
           higher == sequences'[s]
<1>1. SUFFICES ASSUME Calm(s)' PROVE Told(s)'
  BY DEF Told
<1>2. /\ hport' = hport /\ hport # 0 /\ wire' = wire /\ rport' = rport /\ lastSequence' = lastSequence
      /\ view' = view /\ gap' = gap /\ fenced' = fenced /\ awaiting' = awaiting
  BY <1>1 DEF Calm, Emit, rendererVars, intakeVars, projectionVars
<1>3. ~Holds(todo', s)
  BY <1>1 DEF Calm
<1>4. Calm(s)
  <2>1. ~Holds(todo, s)
    BY <1>3, EmitCalls
  <2> QED
    BY <1>1, <1>2, <2>1 DEF Calm
<1>5. q \in Seq(Envelope) /\ wire[hport] \in Seq(Envelope) /\ Envelopes(pending) \in Seq(Envelope)
  BY <1>2, FlowType
<1>6. /\ sequences \in [Sessions -> Nat] /\ hist \in [Sessions -> Nat] /\ e.session \in Sessions
      /\ sequences' = [sequences EXCEPT ![e.session] = e.sequence]
  BY DEF TypeOK, EmitterTypeOK, Envelope, Emit
<1>7. ASSUME e.session = s
      PROVE  /\ e.kind = "content" /\ e.sequence - e.id = Shift(s)
             /\ e.sequence = higher /\ top < higher /\ higher = top + 1 /\ hist'[s] = hist[s] + 1
  <2>1. e = ContentEvent(s) /\ hist'[s] = hist[s] + 1
    BY <1>7
  <2>2. e.kind = "content" /\ e.sequence = sequences[s] + 1 /\ e.id = hist[s] + 1
    BY <2>1 DEF ContentEvent
  <2>3. sequences[s] \in Nat /\ hist[s] \in Nat
    BY <1>6
  <2>4. e.sequence - e.id = Shift(s)
    <3>1. \A m, n \in Nat : (m + 1) - (n + 1) = m - n
      OBVIOUS
    <3> QED
      BY <2>2, <2>3, <3>1 DEF Shift
  <2>5. higher = e.sequence
    BY <1>6, <1>7
  <2>6. top < top + 1
    BY <2>3
  <2> QED
    BY <2>1, <2>2, <2>4, <2>5, <2>6
<1>8. top \in Nat /\ higher \in Nat /\ top <= higher /\ (e.session # s => higher = top)
  BY <1>6, <1>7
<1>9. Shift(s)' = Shift(s)
  <2>1. CASE e.session = s
    <3>1. higher = top + 1 /\ hist'[s] = hist[s] + 1 /\ hist[s] \in Nat
      BY <1>6, <1>7, <2>1
    <3> QED
      BY <1>8, <3>1 DEF Shift
  <2>2. CASE e.session # s
    <3>1. hist'[s] = hist[s]
      BY <2>2 DEF ContentEvent
    <3> QED
      BY <1>8, <2>2, <3>1 DEF Shift
  <2> QED
    BY <2>1, <2>2
<1>10. /\ FollowsFence(q, s, inc[s], Shift(s), top) => FollowsFence(q', s, inc[s], Shift(s), higher)
       /\ NoFence(q', s) => NoFence(q, s)
       /\ \A base \in Nat : base <= top /\ Rising(q, s, 0, base, Shift(s), top)
                              => Rising(q', s, 0, base, Shift(s), higher)
  <2>1. CASE ~Overflows(e)
    <3>1. q' = Append(q, e)
      BY <1>2, <2>1, EmitFlow
    <3>2. FollowsFence(q, s, inc[s], Shift(s), top) => FollowsFence(Append(q, e), s, inc[s], Shift(s), higher)
      <4> HIDE DEF q, top, higher
      <4> QED
        BY <1>5, <1>7, <1>8, AppendKeepsFollowing
    <3>3. NoFence(Append(q, e), s) => NoFence(q, s)
      BY <1>5, AppendKeepsNoFence
    <3>4. ASSUME NEW base \in Nat, base <= top, Rising(q, s, 0, base, Shift(s), top)
          PROVE  Rising(Append(q, e), s, 0, base, Shift(s), higher)
      <4>1. 0 \in 0..Len(q) /\ (e.session = s => base < higher)
        <5>1. Len(q) \in Nat
          BY <1>5
        <5> QED
          BY <1>7, <1>8, <3>4, <5>1
      <4> HIDE DEF q, top, higher
      <4> QED
        BY <1>5, <1>7, <1>8, <3>4, <4>1, AppendKeepsRising
    <3> QED
      BY <3>1, <3>2, <3>3, <3>4
  <2>2. CASE Overflows(e)
    <3>1. q' = wire[hport] /\ q = wire[hport] \o Envelopes(pending)
      BY <1>2, <2>2, EmitFlow DEF Flow
    <3>2. s \notin Lost(e)
      BY <1>2, <1>3, <2>2, EmitCalls
    <3>3. e.session # s
      BY <3>2 DEF Lost
    <3>4. \A i \in 1..Len(Envelopes(pending)) : Envelopes(pending)[i].session # s
      <4>1. pending \in Seq(Item)
        BY DEF TypeOK, EmitterTypeOK
      <4>2. /\ Len(Envelopes(pending)) = Len(pending)
            /\ \A i \in 1..Len(pending) : Envelopes(pending)[i] = pending[i].envelope
        BY <4>1, EnvelopesType
      <4>3. DOMAIN pending = 1..Len(pending)
        BY <4>1
      <4> QED
        BY <3>2, <4>2, <4>3 DEF Lost
    <3>5. higher = top
      BY <1>8, <3>3
    <3> HIDE DEF q, top, higher
    <3> QED
      BY <1>5, <3>1, <3>4, <3>5, DropKeeps
  <2> QED
    BY <2>1, <2>2
<1> QED
  BY <1>2, <1>4, <1>8, <1>9, <1>10, ToldOnward

\* A snapshot of the session is emitted: from it on the numbers are those of the history.
LEMMA ToldFence ==
  ASSUME TypeOK, NEW s \in Sessions, NEW afterGap \in BOOLEAN, NEW rest \in Seq(SessionTask),
         Emit(SnapshotEvent(s, afterGap), rest), hist'[s] = hist[s], rport' = rport
  PROVE  Told(s)'
<1> DEFINE e == SnapshotEvent(s, afterGap)
           shift == 1 - hist[s]
<1>1. SUFFICES ASSUME Calm(s)' PROVE Told(s)'
  BY DEF Told
<1>2. hport' = hport /\ hport # 0
  BY <1>1 DEF Calm, Emit
<1>3. e \in Envelope /\ Fences(e, s) /\ e.sequence = 1 /\ 1 - e.id = shift /\ e.session = s
      /\ Emit(e, rest)
  BY SnapshotType DEF TypeOK, SnapshotEvent, Fences
<1>4. ~Overflows(e)
  <2>1. ~Holds(todo', s)
    BY <1>1 DEF Calm
  <2>2. s \in Lost(e)
    BY <1>3 DEF Lost
  <2> HIDE DEF e
  <2> QED
    BY <1>2, <1>3, <2>1, <2>2, EmitCalls
<1>5. Flow' = Append(Flow, e) /\ Flow \in Seq(Envelope)
  <2> HIDE DEF e
  <2> QED
    BY <1>2, <1>3, <1>4, FlowType, EmitFlow
<1>6. sequences'[s] = 1 /\ Shift(s)' = shift
  <2>1. sequences \in [Sessions -> Nat] /\ sequences' = [sequences EXCEPT ![s] = 1]
    BY <1>3 DEF TypeOK, EmitterTypeOK, Emit
  <2> QED
    BY <2>1 DEF Shift
<1>7. FollowsFence(Flow', s, inc'[s], Shift(s)', sequences'[s])
  <2> HIDE DEF e, shift
  <2> QED
    BY <1>3, <1>5, <1>6, AppendFence
<1>8. ~NoFence(Flow', s)
  <2> HIDE DEF e
  <2> QED
    BY <1>3, <1>5, AppendKeepsNoFence
<1> QED
  BY <1>7, <1>8 DEF Told

LEMMA FlowOfThePast ==
  ASSUME TypeOK, ErasPast, hport # 0, NEW i \in 1..Len(Flow)
  PROVE  Flow[i].inc <= inc[Flow[i].session]
<1>1. /\ hport \in Ports /\ wire[hport] \in Seq(Envelope) /\ pending \in Seq(Item)
      /\ Envelopes(pending) \in Seq(Envelope)
  BY FlowType DEF TypeOK, EmitterTypeOK
<1>2. /\ Len(wire[hport]) \in Nat /\ Len(pending) \in Nat
      /\ DOMAIN wire[hport] = 1..Len(wire[hport]) /\ DOMAIN pending = 1..Len(pending)
  BY <1>1
<1>3. /\ Len(Envelopes(pending)) = Len(pending)
      /\ \A j \in 1..Len(pending) : Envelopes(pending)[j] = pending[j].envelope
  BY <1>1, EnvelopesType
<1>4. \A a, b \in Seq(Envelope) : \A k \in 1..Len(a \o b) :
        \/ k \in 1..Len(a) /\ (a \o b)[k] = a[k]
        \/ k - Len(a) \in 1..Len(b) /\ (a \o b)[k] = b[k - Len(a)]
  OBVIOUS
<1>5. \/ i \in 1..Len(wire[hport]) /\ Flow[i] = wire[hport][i]
      \/ i - Len(wire[hport]) \in 1..Len(pending) /\ Flow[i] = pending[i - Len(wire[hport])].envelope
  BY <1>1, <1>3, <1>4 DEF Flow
<1>6. CASE i \in 1..Len(wire[hport]) /\ Flow[i] = wire[hport][i]
  BY <1>1, <1>2, <1>6 DEF ErasPast
<1>7. CASE i - Len(wire[hport]) \in 1..Len(pending) /\ Flow[i] = pending[i - Len(wire[hport])].envelope
  BY <1>2, <1>7 DEF ErasPast
<1> QED
  BY <1>5, <1>6, <1>7

\* A session that is registered anew has sent nothing yet, and nothing shown is of it.
LEMMA ToldAnew ==
  ASSUME TypeOK, ErasPast, NEW s \in Sessions, inc'[s] = inc[s] + 1,
         UNCHANGED <<hport, pending, wire, fenced>>
  PROVE  Told(s)'
<1>1. SUFFICES ASSUME Calm(s)' PROVE Told(s)'
  BY DEF Told
<1>2. hport # 0 /\ Flow' = Flow
  BY <1>1 DEF Calm, Flow
<1>3. /\ inc[s] \in Nat /\ fenced[s] \in Nat /\ fenced[s] <= inc[s] /\ wire \in [Ports -> Seq(Envelope)]
      /\ Flow \in Seq(Envelope)
  BY <1>2, FlowType DEF TypeOK, EmitterTypeOK, RendererTypeOK, ErasPast
<1>4. ASSUME NEW i \in 1..Len(Flow), Fences(Flow[i], s) PROVE Flow[i].inc # inc'[s]
  <2>1. Flow[i].inc <= inc[s]
    BY <1>2, <1>4, FlowOfThePast DEF Fences
  <2>2. Flow[i].inc \in Nat
    BY <1>3, EnvelopeParts
  <2> QED
    BY <1>3, <2>1, <2>2
<1>5. ASSUME NEW p \in Ports, NEW i \in 1..Len(wire[p]), Fences(wire[p][i], s)
      PROVE  wire[p][i].inc # inc'[s]
  <2>1. wire[p] \in Seq(Envelope)
    BY <1>3
  <2>2. i \in DOMAIN wire[p] /\ wire[p][i].inc \in Nat
    BY <2>1, EnvelopeParts
  <2>3. wire[p][i].inc <= inc[s]
    BY <1>5, <2>2 DEF Fences, ErasPast
  <2> QED
    BY <1>3, <2>2, <2>3
<1>6. fenced'[s] # inc'[s]
  BY <1>3
<1>7. FollowsFence(Flow', s, inc'[s], Shift(s)', sequences'[s])
  BY <1>2, <1>4 DEF FollowsFence, LastFence
<1> QED
  BY <1>5, <1>6, <1>7 DEF Told

\* The renderer takes another port, or none, and closes the one it had.
LEMMA ToldElsewhere ==
  ASSUME TypeOK, ErasPast, NEW s \in Sessions, Told(s), ClosePorts({rport}),
         UNCHANGED <<hport, pending, phase, todo, sequences, hist, inc, fenced>>
  PROVE  Told(s)'
<1>1. SUFFICES ASSUME Calm(s)' PROVE Told(s)'
  BY DEF Told
<1>2. /\ hport # 0 /\ hport \in openEnd /\ hport # rport /\ Calm(s)
      /\ hport \in Ports /\ wire'[hport] = wire[hport]
      /\ \A p \in Ports : wire'[p] = <<>> \/ wire'[p] = wire[p]
  BY <1>1, Numbers DEF Calm, ClosePorts
<1>3. Flow' = Flow /\ Shift(s)' = Shift(s)
  BY <1>2 DEF Flow, Shift
<1>4. /\ FollowsFence(Flow, s, inc[s], Shift(s), sequences[s])
      /\ NoFence(Flow, s) =>
           /\ fenced[s] # inc[s]
           /\ \A p \in Ports \ {hport} : \A i \in 1..Len(wire[p]) :
                Fences(wire[p][i], s) => wire[p][i].inc # inc[s]
  BY <1>2 DEF Told
<1>5. NoFence(Flow, s) =>
        \A p \in Ports \ {hport} : \A i \in 1..Len(wire'[p]) :
          Fences(wire'[p][i], s) => wire'[p][i].inc # inc[s]
  BY <1>2, <1>4
<1> QED
  BY <1>3, <1>4, <1>5 DEF Told

-----------------------------------------------------------------------------
(* What the renderer receives. *)

LEMMA HistoryGrows ==
  ASSUME NEW n \in Nat PROVE Append(History(n), n + 1) = History(n + 1)
<1>1. History(n) \in Seq(Nat) /\ Len(History(n)) = n /\ \A i \in 1..n : History(n)[i] = i
  <2>1. History(n) = [i \in 1..n |-> i]
    BY DEF History
  <2> QED
    BY <2>1
<1>2. History(n + 1) \in Seq(Nat) /\ Len(History(n + 1)) = n + 1 /\ \A i \in 1..(n + 1) : History(n + 1)[i] = i
  <2>1. History(n + 1) = [i \in 1..(n + 1) |-> i]
    BY DEF History
  <2> QED
    BY <2>1
<1> DEFINE a == History(n)
           b == History(n + 1)
<1> HIDE DEF a, b
<1>3. /\ Append(a, n + 1) \in Seq(Nat) /\ Len(Append(a, n + 1)) = n + 1
      /\ \A i \in 1..n : Append(a, n + 1)[i] = i
      /\ Append(a, n + 1)[n + 1] = n + 1
  BY <1>1 DEF a
<1>4. \A i \in 1..(n + 1) : Append(a, n + 1)[i] = b[i]
  <2>1. 1..(n + 1) = 1..n \cup {n + 1}
    OBVIOUS
  <2> QED
    BY <1>2, <1>3, <2>1 DEF b
<1> QED
  BY <1>2, <1>3, <1>4 DEF a, b

\* What is shown of a session, and what is known of it, is left alone.
Untouched(s) ==
  /\ lastSequence'[s] = lastSequence[s] /\ view'[s] = view[s] /\ gap'[s] = gap[s]
  /\ fenced'[s] = fenced[s]
  /\ s \in awaiting' <=> s \in awaiting

LEMMA ReceivedElsewhere ==
  ASSUME TypeOK, NEW e \in Envelope, Receive(e), NEW s \in Sessions, s # e.session
  PROVE  Untouched(s)
<1>1. /\ lastSequence \in [Sessions -> Nat] /\ view \in [Sessions -> Seq(Nat)]
      /\ gap \in [Sessions -> BOOLEAN] /\ fenced \in [Sessions -> Nat] /\ e.session \in Sessions
  BY DEF TypeOK, RendererTypeOK, Envelope
<1>2. CASE e.kind = "session_snapshot"
  BY <1>1, <1>2 DEF Receive, ApplySnapshot, AwaitingAfterFence, Untouched
<1>3. CASE e.kind # "session_snapshot" /\ e.sequence <= lastSequence[e.session]
  BY <1>1, <1>3 DEF Receive, projectionVars, Untouched
<1>4. CASE e.kind # "session_snapshot" /\ ~(e.sequence <= lastSequence[e.session])
  BY <1>1, <1>4 DEF Receive, ApplyContent, Untouched
<1> QED
  BY <1>2, <1>3, <1>4

\* A snapshot is installed, whatever was there.
LEMMA ReceivedFence ==
  ASSUME TypeOK, NEW e \in Envelope, Receive(e), e.kind = "session_snapshot"
  PROVE  LET s == e.session IN
           /\ lastSequence'[s] = e.sequence /\ view'[s] = History(e.id)
           /\ gap'[s] = e.afterGap /\ fenced'[s] = e.inc /\ s \notin awaiting'
           /\ shown' = shown \cup {s}
  BY DEF Receive, ApplySnapshot, AwaitingAfterFence, TypeOK, RendererTypeOK, Envelope

\* An event above the last number: applied, and a jump flagged and reported.
LEMMA ReceivedContent ==
  ASSUME TypeOK, NEW e \in Envelope, Receive(e), e.kind = "content",
         e.session \in shown, lastSequence[e.session] < e.sequence
  PROVE  LET s == e.session
             reported == Jumps(e) /\ s \notin awaiting
         IN  /\ lastSequence'[s] = e.sequence /\ view'[s] = Append(view[s], e.id)
             /\ fenced'[s] = fenced[s] /\ shown' = shown
             /\ s \in awaiting' <=> s \in awaiting \/ reported
             /\ gap'[s] <=> gap[s] \/ reported
<1> DEFINE s == e.session
<1>1. /\ lastSequence \in [Sessions -> Nat] /\ view \in [Sessions -> Seq(Nat)]
      /\ gap \in [Sessions -> BOOLEAN] /\ s \in Sessions /\ e.sequence \in Nat
  BY DEF TypeOK, RendererTypeOK, Envelope
<1>2. e.kind # "session_snapshot" /\ ~(e.sequence <= lastSequence[s]) /\ e.kind # "stream_gap"
  BY <1>1
<1> DEFINE reported == Jumps(e) /\ s \notin awaiting
<1>3. /\ lastSequence' = [lastSequence EXCEPT ![s] = e.sequence]
      /\ awaiting' = IF reported THEN awaiting \cup {s} ELSE awaiting
      /\ gap' = [gap EXCEPT ![s] = @ \/ (s \in shown /\ (reported \/ e.kind = "stream_gap"))]
      /\ ApplyContent(e) /\ shown' = shown /\ fenced' = fenced
  BY <1>2 DEF Receive
<1> HIDE DEF reported
<1>4. gap'[s] = (gap[s] \/ (s \in shown /\ (reported \/ e.kind = "stream_gap")))
  BY <1>1, <1>3
<1>5. view'[s] = Append(view[s], e.id)
  BY <1>1, <1>3 DEF ApplyContent
<1> QED
  BY <1>1, <1>2, <1>3, <1>4, <1>5 DEF reported

LEMMA TakenFacts ==
  ASSUME TypeOK, CanDeliver, Taken
  PROVE  /\ rport \in Ports /\ wire[rport] \in Seq(Envelope) /\ wire[rport] # <<>>
         /\ Head(wire[rport]) \in Envelope
         /\ wire' = [wire EXCEPT ![rport] = Tail(wire[rport])]
         /\ UNCHANGED <<phase, inc, hist, sequences, pending, hport, todo, openEnd, rport>>
         /\ \A s \in Sessions : (Calm(s)' <=> Calm(s)) /\ Shift(s)' = Shift(s)
<1>1. /\ rport \in Ports /\ wire[rport] \in Seq(Envelope) /\ wire[rport] # <<>>
  BY Numbers DEF CanDeliver
<1>2. /\ wire' = [wire EXCEPT ![rport] = Tail(wire[rport])]
      /\ UNCHANGED <<phase, inc, hist, sequences, pending, hport, todo, openEnd, rport>>
  BY DEF Taken, hostVars, channelVars
<1> QED
  BY <1>1, <1>2 DEF Calm, Shift

\* On a port the host has left, or has yet to reach.
LEMMA ToldTakenElsewhere ==
  ASSUME TypeOK, NEW s \in Sessions, Told(s), CanDeliver, Taken, rport # hport,
         \/ fenced'[s] = fenced[s]
         \/ Fences(Head(wire[rport]), s) /\ fenced'[s] = Head(wire[rport]).inc
  PROVE  Told(s)'
<1>1. SUFFICES ASSUME Calm(s)' PROVE Told(s)'
  BY DEF Told
<1>2. /\ rport \in Ports /\ wire[rport] \in Seq(Envelope) /\ wire[rport] # <<>>
      /\ wire' = [wire EXCEPT ![rport] = Tail(wire[rport])]
      /\ inc' = inc /\ sequences' = sequences /\ hport' = hport /\ rport' = rport
      /\ Calm(s) /\ Shift(s)' = Shift(s) /\ wire \in [Ports -> Seq(Envelope)]
  BY <1>1, TakenFacts, Numbers
<1>3. hport # 0 /\ Flow' = Flow
  BY <1>2, TakenFromFlow DEF Calm
<1>4. /\ FollowsFence(Flow, s, inc[s], Shift(s), sequences[s])
      /\ NoFence(Flow, s) =>
           /\ fenced[s] # inc[s]
           /\ \A p \in Ports \ {hport} : \A i \in 1..Len(wire[p]) :
                Fences(wire[p][i], s) => wire[p][i].inc # inc[s]
  BY <1>2 DEF Told
<1>5. ASSUME NoFence(Flow, s) PROVE fenced'[s] # inc[s]
  <2>1. Head(wire[rport]) = wire[rport][1] /\ 1 \in 1..Len(wire[rport])
    BY <1>2
  <2> QED
    BY <1>2, <1>4, <1>5, <2>1
<1>6. ASSUME NoFence(Flow, s), NEW p \in Ports \ {hport}, NEW i \in 1..Len(wire'[p]),
             Fences(wire'[p][i], s)
      PROVE  wire'[p][i].inc # inc[s]
  <2>1. CASE p = rport
    <3>1. wire'[p] = Tail(wire[p])
      BY <1>2, <2>1
    <3>2. wire'[p][i] = wire[p][i + 1] /\ i + 1 \in 1..Len(wire[p])
      BY <1>2, <2>1, <3>1, TailFacts
    <3> QED
      BY <1>4, <1>6, <3>2
  <2>2. CASE p # rport
    BY <1>2, <1>4, <1>6, <2>2
  <2> QED
    BY <2>1, <2>2
<1> QED
  BY <1>2, <1>3, <1>4, <1>5, <1>6 DEF Told

\* An event that says nothing of the session, or is refused.
LEMMA ToldTakenPast ==
  ASSUME TypeOK, ErasPast, NEW s \in Sessions, Told(s), CanDeliver, Taken, rport = hport,
         Untouched(s), ~Fences(Head(wire[rport]), s)
  PROVE  Told(s)'
<1>1. /\ rport \in Ports /\ inc' = inc /\ sequences' = sequences /\ hport' = hport /\ rport' = rport
      /\ (Calm(s)' => Calm(s)) /\ Shift(s)' = Shift(s) /\ hport # 0
      /\ \A p \in Ports \ {hport} : wire'[p] = wire[p]
  BY TakenFacts, Numbers
<1>2. Flow # <<>> /\ Head(Flow) = Head(wire[rport]) /\ Flow' = Tail(Flow) /\ Flow \in Seq(Envelope)
  BY <1>1, TakenFromFlow, FlowType
<1>3. FollowsFence(Flow, s, inc[s], Shift(s), sequences[s])
        => FollowsFence(Tail(Flow), s, inc[s], Shift(s), sequences[s])
  BY <1>2, TailKeepsFollowing
<1>4. NoFence(Tail(Flow), s) => NoFence(Flow, s)
  <2>1. Head(Flow) = Flow[1]
    BY <1>2
  <2>2. ~LastFence(Flow, s, 1)
    BY <1>2, <2>1 DEF LastFence
  <2> QED
    BY <1>2, <2>2, TailKeepsNoFence
<1>5. \A base \in Nat : Rising(Flow, s, 0, base, Shift(s), sequences[s])
                          => Rising(Tail(Flow), s, 0, base, Shift(s), sequences[s])
  BY <1>2, TailKeepsRising
<1>6. sequences[s] \in Nat
  BY DEF TypeOK, EmitterTypeOK
<1>7. sequences'[s] = sequences[s] /\ sequences[s] <= sequences'[s] /\ sequences'[s] \in Nat
  BY <1>1, <1>6
<1> QED
  BY <1>1, <1>2, <1>3, <1>4, <1>5, <1>7, ToldOnward DEF Untouched

\* The snapshot of the session, the last on its way.
LEMMA ToldTakenFence ==
  ASSUME TypeOK, NEW s \in Sessions, Told(s), CanDeliver, Taken, rport = hport,
         Fences(Head(wire[rport]), s), Receive(Head(wire[rport]))
  PROVE  Told(s)'
<1> DEFINE e == Head(wire[rport])
<1>1. SUFFICES ASSUME Calm(s)' PROVE Told(s)'
  BY DEF Told
<1>2. /\ e \in Envelope /\ inc' = inc /\ sequences' = sequences /\ hport' = hport /\ rport' = rport
      /\ Calm(s) /\ Shift(s)' = Shift(s) /\ hport # 0 /\ hport' = rport'
  BY <1>1, TakenFacts, Numbers
<1>3. Flow # <<>> /\ e = Flow[1] /\ Flow' = Tail(Flow) /\ Flow \in Seq(Envelope)
  <2>1. Flow # <<>> /\ Head(Flow) = e /\ Flow' = Tail(Flow) /\ Flow \in Seq(Envelope)
    BY <1>2, TakenFromFlow, FlowType
  <2> QED
    BY <2>1
<1>4. FollowsFence(Flow, s, inc[s], Shift(s), sequences[s])
  BY <1>2 DEF Told
<1>5. FollowsFence(Flow', s, inc'[s], Shift(s)', sequences'[s])
  BY <1>2, <1>3, <1>4, TailKeepsFollowing
<1>6. /\ lastSequence'[s] = e.sequence /\ view'[s] = History(e.id) /\ fenced'[s] = e.inc
  BY <1>2, ReceivedFence DEF Fences
<1>7. ASSUME NoFence(Flow', s), fenced'[s] = inc'[s]
      PROVE  /\ 1 <= lastSequence'[s] /\ lastSequence'[s] <= sequences'[s]
             /\ Rising(Flow', s, 0, lastSequence'[s], Shift(s)', sequences'[s])
             /\ Shows(s)'
  <2>1. Flow[1].inc = inc[s] /\ Fences(Flow[1], s) /\ 1 \in 1..Len(Flow)
    BY <1>2, <1>3, <1>6, <1>7
  <2>2. LastFence(Flow, s, 1)
    <3>1. ~NoFence(Flow, s)
      BY <2>1 DEF NoFence
    <3> QED
      BY <1>3, <1>7, <3>1, TailKeepsNoFence
  <2>3. /\ e.sequence = 1 /\ 1 - e.id = Shift(s) /\ 1 <= sequences[s]
        /\ Rising(Tail(Flow), s, 0, 1, Shift(s), sequences[s])
    BY <1>3, <1>4, <2>1, <2>2, FenceReceived
  <2>4. e.id \in Nat
    BY <1>2 DEF Envelope
  <2>5. Shows(s)'
    <3>1. e.id = lastSequence'[s] - Shift(s)'
      <4>1. Shift(s) = 1 - e.id /\ lastSequence'[s] = 1 /\ Shift(s)' = Shift(s)
        BY <1>2, <1>6, <2>3
      <4>2. \A n \in Nat : n = 1 - (1 - n)
        OBVIOUS
      <4> HIDE DEF e, Shift
      <4> QED
        BY <2>4, <4>1, <4>2
    <3> QED
      BY <1>6, <2>4, <3>1 DEF Shows
  <2> QED
    BY <1>2, <1>3, <1>6, <2>3, <2>5
<1> QED
  BY <1>2, <1>5, <1>7 DEF Told

\* An event of the session: the next of its history, or one that shows there was a gap.
LEMMA ToldTakenEvent ==
  ASSUME TypeOK, ErasPast, FencedAreShown, NEW s \in Sessions, Told(s), CanDeliver, Taken, rport = hport,
         Head(wire[rport]).session = s, Head(wire[rport]).kind # "session_snapshot",
         Receive(Head(wire[rport]))
  PROVE  Told(s)'
<1> DEFINE e == Head(wire[rport])
<1>1. SUFFICES ASSUME Calm(s)' PROVE Told(s)'
  BY DEF Told
<1>2. /\ e \in Envelope /\ inc' = inc /\ sequences' = sequences /\ hport' = hport /\ rport' = rport
      /\ Calm(s) /\ Shift(s)' = Shift(s) /\ hport # 0 /\ hport' = rport'
  BY <1>1, TakenFacts, Numbers
<1>3. Flow # <<>> /\ Head(Flow) = e /\ Flow' = Tail(Flow) /\ Flow \in Seq(Envelope)
  BY <1>2, TakenFromFlow, FlowType
<1>4. FollowsFence(Flow, s, inc[s], Shift(s), sequences[s])
  BY <1>2 DEF Told
<1>5. FollowsFence(Flow', s, inc'[s], Shift(s)', sequences'[s])
  BY <1>2, <1>3, <1>4, TailKeepsFollowing
<1>6. fenced'[s] = fenced[s]
  BY DEF Receive, projectionVars
<1>7. ASSUME NoFence(Flow', s), fenced'[s] = inc'[s]
      PROVE  /\ 1 <= lastSequence'[s] /\ lastSequence'[s] <= sequences'[s]
             /\ Rising(Flow', s, 0, lastSequence'[s], Shift(s)', sequences'[s])
             /\ Shows(s)'
  <2>1. NoFence(Flow, s)
    <3>1. ~LastFence(Flow, s, 1)
      <4>1. Flow[1] = e
        BY <1>3
      <4> QED
        BY <4>1 DEF LastFence, Fences
    <3> QED
      BY <1>3, <1>7, <3>1, TailKeepsNoFence
  <2>2. /\ 1 <= lastSequence[s] /\ lastSequence[s] <= sequences[s]
        /\ Rising(Flow, s, 0, lastSequence[s], Shift(s), sequences[s])
        /\ Shows(s)
    BY <1>2, <1>6, <1>7, <2>1 DEF Told
  <2>3. /\ e.kind = "content" /\ e.sequence - e.id = Shift(s)
        /\ lastSequence[s] < e.sequence /\ e.sequence <= sequences[s]
        /\ Rising(Flow', s, 0, e.sequence, Shift(s), sequences[s])
    BY <1>3, <2>2, TailKeepsRising
  <2>4. s \in shown /\ (s \in awaiting => gap[s])
    <3>1. fenced[s] # 0
      BY <1>2, <1>6, <1>7 DEF ErasPast, Calm
    <3> QED
      BY <3>1 DEF FencedAreShown
  <2> DEFINE reported == Jumps(e) /\ s \notin awaiting
  <2>5. /\ lastSequence'[s] = e.sequence /\ view'[s] = Append(view[s], e.id)
        /\ s \in awaiting' <=> s \in awaiting \/ reported
        /\ gap'[s] <=> gap[s] \/ reported
    BY <1>2, <2>3, <2>4, ReceivedContent
  <2>6. lastSequence[s] \in Nat /\ sequences[s] \in Nat /\ e.sequence \in Nat /\ e.id \in Nat
    BY <1>2 DEF TypeOK, EmitterTypeOK, RendererTypeOK, Envelope
  <2>7. Shows(s)'
    <3>1. CASE s \in awaiting \/ reported
      BY <2>4, <2>5, <3>1 DEF Shows
    <3>2. CASE s \notin awaiting /\ ~reported
      <4>1. e.sequence = lastSequence[s] + 1
        <5>1. ~(lastSequence[s] # 0 /\ e.sequence > lastSequence[s] + 1)
          BY <3>2 DEF Jumps
        <5> QED
          BY <2>2, <2>3, <2>6, <5>1
      <4>2. PICK n \in Nat : n = lastSequence[s] - Shift(s) /\ view[s] = History(n)
        BY <2>2, <3>2 DEF Shows
      <4>3. e.id = n + 1
        <5> DEFINE d == Shift(s)
        <5>1. d \in Int
          BY DEF Shift, TypeOK, EmitterTypeOK
        <5>2. n = lastSequence[s] - d /\ e.sequence - e.id = d /\ e.sequence = lastSequence[s] + 1
          BY <2>3, <4>1, <4>2
        <5> HIDE DEF d, e
        <5> QED
          BY <2>6, <5>1, <5>2
      <4>4. view'[s] = History(n + 1)
        BY <2>5, <4>2, <4>3, HistoryGrows
      <4>5. n + 1 = lastSequence'[s] - Shift(s)'
        <5> DEFINE d == Shift(s)
        <5>1. d \in Int
          BY DEF Shift, TypeOK, EmitterTypeOK
        <5>2. n = lastSequence[s] - d /\ lastSequence'[s] = lastSequence[s] + 1 /\ Shift(s)' = d
          BY <1>2, <2>5, <4>1, <4>2
        <5> HIDE DEF d
        <5> QED
          BY <2>6, <5>1, <5>2
      <4>6. n + 1 \in Nat
        OBVIOUS
      <4> QED
        BY <4>4, <4>5, <4>6 DEF Shows
    <3> QED
      BY <3>1, <3>2
  <2>8. 1 <= e.sequence
    BY <2>2, <2>3, <2>6
  <2> QED
    BY <1>2, <2>3, <2>5, <2>7, <2>8
<1> QED
  BY <1>2, <1>5, <1>7 DEF Told

LEMMA ToldReceived ==
  ASSUME FencesPass, TypeOK, ErasPast, FencedAreShown, NEW s \in Sessions, Told(s), Deliver \/ Reject
  PROVE  Told(s)'
<1> DEFINE e == Head(wire[rport])
<1>1. CanDeliver /\ Taken
  BY DEF Deliver, Reject
<1>2. e \in Envelope
  BY <1>1, TakenFacts
<1>3. CASE Deliver
  <2>1. Receive(e)
    BY <1>3 DEF Deliver
  <2>2. fenced'[s] = fenced[s] \/ (Fences(e, s) /\ fenced'[s] = e.inc)
    <3>1. CASE e.session # s
      BY <1>2, <2>1, <3>1, ReceivedElsewhere DEF Untouched
    <3>2. CASE e.session = s /\ e.kind = "session_snapshot"
      BY <1>2, <2>1, <3>2, ReceivedFence DEF Fences
    <3>3. CASE e.kind # "session_snapshot"
      BY <2>1, <3>3 DEF Receive, projectionVars
    <3> QED
      BY <3>1, <3>2, <3>3
  <2>3. CASE rport # hport
    BY <1>1, <2>2, <2>3, ToldTakenElsewhere
  <2>4. CASE rport = hport /\ e.session # s
    BY <1>1, <1>2, <2>1, <2>4, ReceivedElsewhere, ToldTakenPast DEF Fences
  <2>5. CASE rport = hport /\ e.session = s /\ e.kind = "session_snapshot"
    BY <1>1, <2>1, <2>5, ToldTakenFence DEF Fences
  <2>6. CASE rport = hport /\ e.session = s /\ e.kind # "session_snapshot"
    BY <1>1, <2>1, <2>6, ToldTakenEvent
  <2> QED
    BY <2>3, <2>4, <2>5, <2>6
<1>4. CASE Reject
  <2>1. /\ e.kind # "session_snapshot"
        /\ UNCHANGED <<lastSequence, awaiting, projectionVars>>
    BY <1>4 DEF Reject, FencesPass
  <2>2. Untouched(s) /\ ~Fences(e, s) /\ fenced'[s] = fenced[s]
    BY <2>1 DEF Untouched, Fences, projectionVars
  <2> QED
    BY <1>1, <2>2, ToldTakenElsewhere, ToldTakenPast
<1> QED
  BY <1>3, <1>4

LEMMA ToldContinues ==
  ASSUME TypeOK, ErasPast, NEW s \in Sessions, Told(s), HostContinues PROVE Told(s)'
<1>1. UNCHANGED rendererVars /\ openEnd' = openEnd
  BY DEF HostContinues, channelVars
<1>2. /\ rport' = rport /\ lastSequence' = lastSequence /\ view' = view /\ gap' = gap /\ fenced' = fenced
      /\ awaiting' = awaiting
  BY <1>1 DEF rendererVars, intakeVars, projectionVars
<1>3. CASE Post(openEnd)
  <2>1. UNCHANGED <<phase, inc, hist, sequences, hport, todo>>
    BY <1>3 DEF Post
  <2>2. SUFFICES ASSUME Calm(s)' PROVE Told(s)'
    BY DEF Told
  <2>3. Calm(s) /\ hport \in openEnd /\ hport # 0
    BY <1>1, <2>1, <2>2 DEF Calm
  <2>4. Flow' = Flow /\ Shift(s)' = Shift(s)
    BY <1>3, <2>1, <2>3, PostKeepsFlow DEF Shift
  <2>5. \A p \in Ports \ {hport} : wire'[p] = wire[p]
    BY <1>3, <2>3, Numbers DEF Post
  <2>6. sequences[s] \in Nat
    BY DEF TypeOK, EmitterTypeOK
  <2>7. sequences[s] <= sequences'[s] /\ sequences'[s] \in Nat /\ sequences'[s] = sequences[s]
    BY <2>1, <2>6
  <2> QED
    BY <1>2, <2>1, <2>3, <2>4, <2>5, <2>7, ToldOnward
<1>4. CASE AnnounceGap
  <2> DEFINE x == Head(todo).session
             rest == <<ResyncTask(x, TRUE)>> \o Tail(todo)
  <2>1. todo \in Seq(SessionTask) /\ todo # <<>>
    BY <1>4, SessionTasks DEF AnnounceGap, Releasing, TypeOK, EmitterTypeOK
  <2>2. Head(todo) \in SessionTask /\ Tail(todo) \in Seq(SessionTask)
    BY <2>1
  <2>3. x \in Sessions
    BY <2>2 DEF SessionTask
  <2>4. ResyncTask(x, TRUE) \in SessionTask
    BY <2>3 DEF ResyncTask, SessionTask
  <2>5. rest \in Seq(SessionTask) /\ <<ResyncTask(x, TRUE)>> \in Seq(SessionTask)
    <3>1. rest \in Seq(SessionTask)
      BY <2>2, <2>4, ConsType
    <3>2. <<ResyncTask(x, TRUE)>> \in Seq(SessionTask)
      BY <2>3, OneTask
    <3> QED
      BY <3>1, <3>2
  <2>6. Emit(StreamGap(x), rest) /\ UNCHANGED <<phase, inc, hist>>
    BY <1>4 DEF AnnounceGap
  <2>7. StreamGap(x) \in Envelope /\ StreamGap(x).session = x
    BY <2>3, GapType DEF TypeOK, StreamGap
  <2>8. Holds(rest, s) <=> s = x \/ Holds(Tail(todo), s)
    <3>1. Holds(<<ResyncTask(x, TRUE)>>, s) <=> s = x
      BY DEF Holds, ResyncTask
    <3> QED
      BY <2>2, <2>5, <3>1, JoinedHolds
  <2>9. Holds(todo, s) => Holds(rest, s)
    BY <2>1, <2>8, HeadHolds
  <2>10. CASE s = x
    <3>1. Holds(rest, s)
      BY <2>8, <2>10
    <3>2. Holds(todo', s)
      <4> HIDE DEF rest, x
      <4> QED
        BY <2>5, <2>6, <2>7, <3>1, EmitCalls
    <3> QED
      BY <3>2, ToldUnjoined
  <2>11. CASE s # x
    <3> HIDE DEF rest, x
    <3> QED
      BY <1>1, <2>5, <2>6, <2>7, <2>9, <2>11, ToldEmit
  <2> QED
    BY <2>10, <2>11
<1>5. CASE Resync
  <2> DEFINE x == Head(todo).session
             afterGap == Head(todo).afterGap
  <2>1. todo \in Seq(SessionTask) /\ todo # <<>>
    BY <1>5, SessionTasks DEF Resync, Releasing, TypeOK, EmitterTypeOK
  <2>2. Head(todo) \in SessionTask /\ Tail(todo) \in Seq(SessionTask)
    BY <2>1
  <2>3. x \in Sessions /\ afterGap \in BOOLEAN
    BY <2>2 DEF SessionTask
  <2>4. Holds(todo, s) <=> x = s \/ Holds(Tail(todo), s)
    BY <2>1, HeadHolds
  <2>5. CASE phase[x] = "closed"
    <3>1. todo' = Tail(todo) /\ UNCHANGED <<phase, inc, hist, sequences, pending, hport, wire>>
      BY <1>5, <2>5 DEF Resync
    <3>2. Calm(s)' => Calm(s)
      BY <1>1, <2>4, <2>5, <3>1 DEF Calm
    <3> HIDE DEF x
    <3> QED
      BY <1>2, <3>1, <3>2, ToldSame
  <2>6. CASE phase[x] # "closed"
    <3>1. /\ phase' = [phase EXCEPT ![x] = "live"] /\ UNCHANGED <<inc, hist>>
          /\ Emit(SnapshotEvent(x, afterGap), Tail(todo))
      BY <1>5, <2>6 DEF Resync
    <3>2. CASE s = x
      <4> HIDE DEF afterGap
      <4>1. hist'[x] = hist[x]
        BY <3>1
      <4> HIDE DEF x
      <4> QED
        BY <1>2, <2>2, <2>3, <3>1, <3>2, <4>1, ToldFence
    <3>3. CASE s # x
      <4>1. SnapshotEvent(x, afterGap) \in Envelope /\ SnapshotEvent(x, afterGap).session = x
        BY <2>3, SnapshotType DEF TypeOK, SnapshotEvent
      <4>2. phase'[s] = "closed" \/ phase[s] # "closed"
        BY <3>1, <3>3 DEF TypeOK, EmitterTypeOK
      <4>3. Holds(todo, s) => Holds(Tail(todo), s)
        BY <2>4, <3>3
      <4> HIDE DEF x, afterGap
      <4> QED
        BY <1>1, <2>2, <3>1, <3>3, <4>1, <4>2, <4>3, ToldEmit
    <3> QED
      BY <3>2, <3>3
  <2> QED
    BY <2>5, <2>6
<1>6. CASE ReleaseOne
  <2>1. todo \in Seq({Release})
    BY <1>6, ReleasingType DEF ReleaseOne, TypeOK, EmitterTypeOK
  <2>2. ~Holds(todo, s)
    BY <2>1 DEF Holds, Release
  <2>3. UNCHANGED <<phase, inc, hist, sequences, pending, hport, wire>>
    BY <1>6 DEF ReleaseOne
  <2>4. Calm(s)' => Calm(s)
    BY <1>1, <2>2, <2>3 DEF Calm
  <2> QED
    BY <1>2, <2>3, <2>4, ToldSame
<1> QED
  BY <1>3, <1>4, <1>5, <1>6 DEF HostContinues

\* Every session is told its history by every step.
LEMMA AllToldStep ==
  ASSUME FencesPass, TypeOK, PortsInOrder, ErasPast, FencedAreShown, HostFits, AllTold, Next
  PROVE  AllTold'
<1> SUFFICES ASSUME NEW s \in Sessions PROVE Told(s)'
  BY DEF AllTold
<1>1. Told(s)
  BY DEF AllTold
<1> USE <1>1
<1>2. /\ inc \in [Sessions -> Nat] /\ phase \in [Sessions -> {"closed", "registered", "live"}]
      /\ hist \in [Sessions -> Nat] /\ sequences \in [Sessions -> Nat]
      /\ view \in [Sessions -> Seq(Nat)] /\ gap \in [Sessions -> BOOLEAN] /\ fenced \in [Sessions -> Nat]
  BY DEF TypeOK, EmitterTypeOK, RendererTypeOK
<1>3. ASSUME NEW x \in Sessions, PiEvent(x) PROVE Told(s)'
  <2>1. /\ todo = <<>> /\ Emit(ContentEvent(x), <<>>) /\ hist' = [hist EXCEPT ![x] = @ + 1]
        /\ UNCHANGED <<phase, inc, openEnd, rendererVars>>
    BY <1>3 DEF PiEvent, HostIdle, Quiescent, channelVars
  <2>2. ContentEvent(x) \in Envelope /\ ContentEvent(x).session = x
    BY ContentType DEF TypeOK, ContentEvent
  <2>3. hist'[s] = IF s = x THEN hist[s] + 1 ELSE hist[s]
    BY <1>2, <2>1
  <2>4. ~Holds(todo, s)
    BY <2>1, NoCallsHold
  <2> QED
    BY <2>1, <2>2, <2>3, <2>4, EmptySeq, ToldEmit
<1>4. ASSUME NEW x \in Sessions, CompactionEnd(x) PROVE Told(s)'
  <2>1. /\ todo = <<>> /\ todo' = <<ResyncTask(x, FALSE)>>
        /\ UNCHANGED <<phase, inc, hist, sequences, pending, hport, wire, openEnd, rport, lastSequence,
                       awaiting, view, gap, fenced>>
    BY <1>4 DEF CompactionEnd, HostIdle, Quiescent, hostVars, channelVars, rendererVars, intakeVars, projectionVars
  <2>2. Calm(s)' => Calm(s)
    BY <2>1, NoCallsHold DEF Calm
  <2> QED
    BY <2>1, <2>2, ToldSame
<1>5. CASE HostContinues
  BY <1>5, ToldContinues
<1>6. CASE HostAttach
  <2>1. PICK gaps \in SetToSeqs(dropped), rest \in SetToSeqs({x \in Sessions \ dropped : phase[x] # "closed"}) :
          todo' = Refences(gaps, rest)
    BY <1>6 DEF HostAttach, Attach
  <2>2. phase' = phase
    BY <1>6 DEF HostAttach, Attach
  <2>3. dropped \in SUBSET Sessions
    BY DEF TypeOK, EmitterTypeOK
  <2>4. phase'[s] = "closed" \/ Holds(todo', s)
    BY <2>1, <2>2, <2>3, RefencesHold
  <2> QED
    BY <2>4, ToldUnjoined
<1>7. CASE HostPortClosed \/ \E announced \in BOOLEAN : HostExit(announced)
  <2>1. hport' = 0
    BY <1>7 DEF HostPortClosed, PortClosed, HostExit
  <2> QED
    BY <2>1, ToldUnjoined
<1>8. CASE HostAck
  <2>1. /\ todo = <<>>
        /\ UNCHANGED <<phase, inc, hist, sequences, pending, hport, wire, openEnd, rport, lastSequence,
                       awaiting, view, gap, fenced>>
    BY <1>8 DEF HostAck, Acknowledge, Quiescent, rendererVars, intakeVars, projectionVars
  <2>2. Calm(s)' => Calm(s)
    BY <2>1, NoCallsHold DEF Calm
  <2> QED
    BY <2>1, <2>2, ToldSame
<1>9. CASE HostResync
  <2>1. /\ todo = <<>>
        /\ UNCHANGED <<phase, inc, hist, sequences, pending, hport, wire, openEnd, rport, lastSequence,
                       awaiting, view, gap, fenced>>
    BY <1>9 DEF HostResync, HostIdle, Quiescent, hostVars, channelVars, rendererVars, intakeVars, projectionVars
  <2>2. Calm(s)' => Calm(s)
    BY <2>1, NoCallsHold DEF Calm
  <2> QED
    BY <2>1, <2>2, ToldSame
<1>10. ASSUME NEW x \in Sessions, HostOpen(x) \/ HostOpened(x) PROVE Told(s)'
  <2>1. UNCHANGED <<hist, sequences, pending, hport, todo, wire, openEnd, rport, lastSequence,
                    awaiting, view, gap, fenced>>
    BY <1>10 DEF HostOpen, HostOpened, emitterVars, channelVars, rendererVars, intakeVars, projectionVars
  <2>2. CASE phase[x] = "closed" /\ s = x
    <3>1. HostOpen(x)
      BY <1>10, <2>2 DEF HostFits, HostOpened
    <3>2. inc'[s] = inc[s] + 1
      BY <1>2, <2>2, <3>1 DEF HostOpen
    <3> QED
      BY <2>1, <3>2, ToldAnew
  <2>3. CASE ~(phase[x] = "closed" /\ s = x)
    <3>1. inc'[s] = inc[s] /\ (phase'[s] = "closed" \/ phase[s] # "closed")
      BY <1>2, <1>10, <2>3 DEF HostOpen, HostOpened, AttachSession
    <3>2. Calm(s)' => Calm(s)
      BY <2>1, <3>1 DEF Calm
    <3> QED
      BY <2>1, <3>1, <3>2, ToldSame
  <2> QED
    BY <2>2, <2>3
<1>11. ASSUME NEW x \in Sessions, HostClose(x) PROVE Told(s)'
  <2>1. UNCHANGED <<inc, hist, pending, hport, todo, wire, openEnd, rport, lastSequence, awaiting, view, gap, fenced>>
    BY <1>11 DEF HostClose, hostVars, emitterVars, ForgetSession, channelVars, rendererVars, intakeVars, projectionVars
  <2>2. CASE phase[x] = "closed" \/ s # x
    <3>1. phase'[s] = phase[s] /\ sequences'[s] = sequences[s]
      BY <1>2, <1>11, <2>2 DEF HostClose, hostVars, emitterVars, ForgetSession
    <3>2. Calm(s)' => Calm(s)
      BY <2>1, <3>1 DEF Calm
    <3> QED
      BY <2>1, <3>1, <3>2, ToldSame
  <2>3. CASE phase[x] # "closed" /\ s = x
    <3>1. phase'[s] = "closed"
      BY <1>2, <1>11, <2>3 DEF HostClose
    <3> QED
      BY <3>1, ToldUnjoined
  <2> QED
    BY <2>2, <2>3
<1>12. CASE IssuePort \/ FlushAcks \/ \E x \in Sessions : RequestOpen(x) \/ RequestClose(x)
  <2>1. UNCHANGED <<phase, inc, hist, sequences, pending, hport, todo, wire, openEnd, rport, lastSequence,
                    awaiting, view, gap, fenced>>
    BY <1>12 DEF IssuePort, FlushAcks, RequestOpen, RequestClose, hostVars, emitterVars, channelVars,
       rendererVars, intakeVars, projectionVars
  <2>2. Calm(s)' => Calm(s)
    BY <2>1 DEF Calm
  <2> QED
    BY <2>1, <2>2, ToldSame
<1>13. CASE HostStart
  <2>1. hport' = hport /\ ~hostUp
    BY <1>13 DEF HostStart, emitterVars
  <2>2. hport' = 0
    BY <2>1 DEF PortsInOrder
  <2> QED
    BY <2>2, ToldUnjoined
<1>14. CASE Connect \/ Disconnect
  <2>1. ClosePorts({rport}) /\ UNCHANGED <<hport, pending, phase, todo, sequences, hist, inc, fenced>>
    BY <1>14 DEF Connect, Disconnect, hostVars, projectionVars
  <2> QED
    BY <2>1, ToldElsewhere
<1>15. CASE Reload
  <2>1. hport' = hport /\ openEnd' = openEnd \ (1..issued)
    BY <1>15 DEF Reload, ClosePorts
  <2>2. hport # 0 => hport \in 1..issued
    BY Numbers DEF PortsInOrder
  <2> QED
    BY <2>1, <2>2, ToldUnjoined
<1>16. CASE Deliver \/ Reject
  BY <1>16, ToldReceived
<1>17. ASSUME NEW x \in Sessions, InstallSnapshot(x) \/ CloseProjection(x) PROVE Told(s)'
  <2>1. UNCHANGED <<phase, inc, hist, sequences, pending, hport, todo, wire, openEnd, rport, lastSequence, awaiting>>
    BY <1>17 DEF InstallSnapshot, CloseProjection, hostVars, emitterVars, channelVars, intakeVars
  <2>2. \/ view'[s] = view[s] /\ gap'[s] = gap[s] /\ fenced'[s] = fenced[s]
        \/ fenced'[s] = 0
    BY <1>2, <1>17 DEF InstallSnapshot, CloseProjection
  <2>3. Calm(s)' => Calm(s)
    BY <2>1 DEF Calm
  <2> QED
    BY <2>1, <2>2, <2>3, ToldSame
<1> QED
  BY <1>3, <1>4, <1>5, <1>6, <1>7, <1>8, <1>9, <1>10, <1>11, <1>12, <1>13, <1>14, <1>15, <1>16, <1>17
     DEF Next, SessionStep

-----------------------------------------------------------------------------
(* The parts of the invariant that say what is past, shown and open. *)

\* What a step of the host emits, if it emits.
LEMMA EmittedEvent ==
  ASSUME TypeOK, Next, pending' # pending, pending' # <<>>, ~Post(openEnd)
  PROVE  \E x \in Sessions, e \in Envelope, rest \in Seq(SessionTask) :
           /\ Emit(e, rest) /\ e.session = x /\ e.inc = inc[x] /\ inc' = inc /\ hostUp
           /\ \/ e.kind = "content" /\ phase[x] # "closed" /\ e.id = hist[x] + 1
                 /\ hist' = [hist EXCEPT ![x] = @ + 1]
              \/ e.kind = "stream_gap" /\ e.id = 0 /\ hist' = hist
              \/ e.kind = "session_snapshot" /\ phase[x] # "closed" /\ e.id = hist[x] /\ hist' = hist
<1>1. ASSUME NEW x \in Sessions, PiEvent(x)
      PROVE  /\ Emit(ContentEvent(x), <<>>) /\ inc' = inc /\ hostUp /\ phase[x] # "closed"
             /\ hist' = [hist EXCEPT ![x] = @ + 1]
  BY <1>1 DEF PiEvent, HostIdle
<1>2. ASSUME HostContinues, AnnounceGap
      PROVE  \E x \in Sessions, rest \in Seq(SessionTask) :
               Emit(StreamGap(x), rest) /\ inc' = inc /\ hostUp /\ hist' = hist
  <2> DEFINE x == Head(todo).session
             rest == <<ResyncTask(x, TRUE)>> \o Tail(todo)
  <2>1. todo \in Seq(SessionTask) /\ todo # <<>>
    BY <1>2, SessionTasks DEF AnnounceGap, Releasing, TypeOK, EmitterTypeOK
  <2>2. Head(todo) \in SessionTask /\ Tail(todo) \in Seq(SessionTask)
    BY <2>1
  <2>3. x \in Sessions
    BY <2>2 DEF SessionTask
  <2>4. ResyncTask(x, TRUE) \in SessionTask
    BY <2>3 DEF ResyncTask, SessionTask
  <2>5. rest \in Seq(SessionTask)
    BY <2>2, <2>4, ConsType
  <2>6. Emit(StreamGap(x), rest) /\ inc' = inc /\ hist' = hist /\ hostUp
    BY <1>2 DEF AnnounceGap, HostContinues
  <2> HIDE DEF x, rest
  <2> QED
    BY <2>3, <2>5, <2>6
<1>3. ASSUME HostContinues, Resync
      PROVE  \E x \in Sessions, afterGap \in BOOLEAN, rest \in Seq(SessionTask) :
               /\ Emit(SnapshotEvent(x, afterGap), rest) /\ inc' = inc /\ hostUp
               /\ phase[x] # "closed" /\ hist' = hist
  <2> DEFINE x == Head(todo).session
             afterGap == Head(todo).afterGap
  <2>1. todo \in Seq(SessionTask) /\ todo # <<>>
    BY <1>3, SessionTasks DEF Resync, Releasing, TypeOK, EmitterTypeOK
  <2>2. Head(todo) \in SessionTask /\ Tail(todo) \in Seq(SessionTask)
    BY <2>1
  <2>3. x \in Sessions /\ afterGap \in BOOLEAN
    BY <2>2 DEF SessionTask
  <2>4. phase[x] # "closed"
    BY <1>3 DEF Resync
  <2>5. Emit(SnapshotEvent(x, afterGap), Tail(todo)) /\ inc' = inc /\ hist' = hist /\ hostUp
    BY <1>3, <2>4 DEF Resync, HostContinues
  <2> HIDE DEF x, afterGap
  <2> QED
    BY <2>2, <2>3, <2>4, <2>5
<1>4. ASSUME NEW x \in Sessions, PiEvent(x)
      PROVE  /\ ContentEvent(x) \in Envelope /\ ContentEvent(x).session = x /\ ContentEvent(x).inc = inc[x]
             /\ ContentEvent(x).kind = "content" /\ ContentEvent(x).id = hist[x] + 1 /\ <<>> \in Seq(SessionTask)
  BY ContentType, EmptySeq DEF TypeOK, ContentEvent
<1>5. ASSUME NEW x \in Sessions
      PROVE  /\ StreamGap(x) \in Envelope /\ StreamGap(x).session = x /\ StreamGap(x).inc = inc[x]
             /\ StreamGap(x).kind = "stream_gap" /\ StreamGap(x).id = 0
  BY GapType DEF TypeOK, StreamGap
<1>6. ASSUME NEW x \in Sessions, NEW afterGap \in BOOLEAN
      PROVE  /\ SnapshotEvent(x, afterGap) \in Envelope
             /\ SnapshotEvent(x, afterGap).session = x /\ SnapshotEvent(x, afterGap).inc = inc[x]
             /\ SnapshotEvent(x, afterGap).kind = "session_snapshot" /\ SnapshotEvent(x, afterGap).id = hist[x]
  BY SnapshotType DEF TypeOK, SnapshotEvent
<1>7. (\E x \in Sessions : PiEvent(x)) \/ (HostContinues /\ (AnnounceGap \/ Resync))
  <2>1. ~ReleaseOne
    BY DEF ReleaseOne
  <2>2. ~HostAttach /\ ~HostPortClosed /\ ~HostAck /\ ~HostResync
    BY DEF HostAttach, Attach, HostPortClosed, PortClosed, HostAck, Acknowledge, HostResync
  <2>3. ~IssuePort /\ ~HostStart /\ ~FlushAcks
    BY DEF IssuePort, HostStart, FlushAcks, emitterVars
  <2>4. ~\E announced \in BOOLEAN : HostExit(announced)
    BY DEF HostExit
  <2>5. ~Connect /\ ~Disconnect /\ ~Reload
    BY DEF Connect, Disconnect, Reload
  <2>6. ~Deliver /\ ~Reject
    BY DEF Deliver, Reject, Taken
  <2>7. ASSUME NEW x \in Sessions, SessionStep(x) PROVE PiEvent(x)
    <3>1. ~CompactionEnd(x) /\ ~HostOpen(x) /\ ~HostOpened(x)
      BY DEF CompactionEnd, HostOpen, HostOpened, emitterVars
    <3>2. ~HostClose(x)
      BY DEF HostClose, ForgetSession, emitterVars
    <3>3. ~RequestOpen(x) /\ ~InstallSnapshot(x) /\ ~RequestClose(x) /\ ~CloseProjection(x)
      BY DEF RequestOpen, InstallSnapshot, RequestClose, CloseProjection, emitterVars
    <3> QED
      BY <2>7, <3>1, <3>2, <3>3 DEF SessionStep
  <2> QED
    BY <2>1, <2>2, <2>3, <2>4, <2>5, <2>6, <2>7 DEF Next, HostContinues
<1>8. CASE \E x \in Sessions : PiEvent(x)
  <2>1. PICK x \in Sessions : PiEvent(x)
    BY <1>8
  <2>2. PICK e \in Envelope : e = ContentEvent(x)
    BY <1>4, <2>1
  <2> QED
    BY <1>1, <1>4, <2>1, <2>2
<1>9. CASE HostContinues /\ AnnounceGap
  <2>1. PICK x \in Sessions, rest \in Seq(SessionTask) :
          Emit(StreamGap(x), rest) /\ inc' = inc /\ hostUp /\ hist' = hist
    BY <1>2, <1>9
  <2>2. PICK e \in Envelope : e = StreamGap(x)
    BY <1>5
  <2> QED
    BY <1>5, <2>1, <2>2
<1>10. CASE HostContinues /\ Resync
  <2>1. PICK x \in Sessions, afterGap \in BOOLEAN, rest \in Seq(SessionTask) :
          /\ Emit(SnapshotEvent(x, afterGap), rest) /\ inc' = inc /\ hostUp
          /\ phase[x] # "closed" /\ hist' = hist
    BY <1>3, <1>10
  <2>2. PICK e \in Envelope : e = SnapshotEvent(x, afterGap)
    BY <1>6
  <2> QED
    BY <1>6, <2>1, <2>2
<1> QED
  BY <1>7, <1>8, <1>9, <1>10

\* Sessions are registered ever more often, and closed ones only by that.
LEMMA ErasGrow ==
  ASSUME TypeOK, HostFits, Next, NEW s \in Sessions
  PROVE  /\ inc[s] \in Nat /\ inc'[s] \in Nat /\ inc[s] <= inc'[s]
         /\ phase'[s] = "closed" \/ phase[s] # "closed" \/ inc'[s] = inc[s] + 1
<1>1. /\ inc \in [Sessions -> Nat] /\ phase \in [Sessions -> {"closed", "registered", "live"}]
  BY DEF TypeOK, EmitterTypeOK
<1> USE <1>1
<1>2. ASSUME inc' = inc, phase' = phase
      PROVE  /\ inc[s] \in Nat /\ inc'[s] \in Nat /\ inc[s] <= inc'[s]
             /\ phase'[s] = "closed" \/ phase[s] # "closed" \/ inc'[s] = inc[s] + 1
  BY <1>2
<1>3. ASSUME NEW x \in Sessions, HostOpen(x)
      PROVE  /\ inc'[s] \in Nat /\ inc[s] <= inc'[s]
             /\ phase'[s] = "closed" \/ phase[s] # "closed" \/ inc'[s] = inc[s] + 1
  BY <1>3 DEF HostOpen, AttachSession
<1>4. ASSUME NEW x \in Sessions, HostOpened(x) \/ HostClose(x)
      PROVE  inc' = inc /\ (phase'[s] = "closed" \/ phase[s] # "closed")
  BY <1>4 DEF HostOpened, AttachSession, HostClose, hostVars, HostFits
<1>5. CASE HostStart
  <2>1. PICK restored \in SUBSET {x \in Sessions : phase[x] # "closed" /\ inc[x] < MaxOpens} :
          inc' = [x \in Sessions |-> IF x \in restored THEN inc[x] + 1 ELSE inc[x]]
          /\ phase' = [x \in Sessions |-> IF x \in restored THEN "live" ELSE "closed"]
    BY <1>5 DEF HostStart
  <2> QED
    BY <2>1
<1>6. CASE HostContinues
  <2>1. inc' = inc /\ (phase' = phase \/ Resync)
    BY <1>6 DEF HostContinues, Post, AnnounceGap, Resync, ReleaseOne
  <2>2. ASSUME Resync PROVE phase'[s] = "closed" \/ phase[s] # "closed"
    <3> DEFINE x == Head(todo).session
    <3>1. CASE phase[x] = "closed"
      BY <2>2, <3>1 DEF Resync
    <3>2. CASE phase[x] # "closed"
      <4>1. phase' = [phase EXCEPT ![x] = "live"]
        BY <2>2, <3>2 DEF Resync
      <4> HIDE DEF x
      <4> QED
        BY <3>2, <4>1
    <3> QED
      BY <3>1, <3>2
  <2> QED
    BY <2>1, <2>2
<1>7. CASE \/ HostAttach \/ HostPortClosed \/ HostAck \/ HostResync \/ IssuePort
           \/ (\E announced \in BOOLEAN : HostExit(announced)) \/ Connect \/ Disconnect \/ Reload \/ FlushAcks
           \/ Deliver \/ Reject
  <2>1. inc' = inc /\ phase' = phase
    BY <1>7 DEF HostAttach, Attach, HostPortClosed, PortClosed, HostAck, Acknowledge, HostResync, IssuePort,
       HostExit, Connect, Disconnect, Reload, FlushAcks, Deliver, Reject, Taken, hostVars
  <2> QED
    BY <1>2, <2>1
<1>8. ASSUME NEW x \in Sessions,
             PiEvent(x) \/ CompactionEnd(x) \/ RequestOpen(x) \/ InstallSnapshot(x) \/ RequestClose(x) \/ CloseProjection(x)
      PROVE  inc' = inc /\ phase' = phase
  BY <1>8 DEF PiEvent, CompactionEnd, RequestOpen, InstallSnapshot, RequestClose, CloseProjection, hostVars
<1> QED
  BY <1>2, <1>3, <1>4, <1>5, <1>6, <1>7, <1>8 DEF Next, SessionStep

LEMMA WireMoves ==
  ASSUME Next, ~Post(openEnd), NEW p \in Ports
  PROVE  wire' = wire \/ wire'[p] \in {wire[p], <<>>} \/ (CanDeliver /\ Taken)
<1>1. CASE HostContinues
  BY <1>1 DEF HostContinues, AnnounceGap, Resync, ReleaseOne, Emit
<1>2. CASE \/ HostAttach \/ HostPortClosed \/ HostAck \/ HostResync \/ IssuePort \/ HostStart
           \/ (\E announced \in BOOLEAN : HostExit(announced)) \/ FlushAcks
  BY <1>2 DEF HostAttach, Attach, HostPortClosed, PortClosed, HostAck, Acknowledge, HostResync, IssuePort,
       HostStart, HostExit, FlushAcks, emitterVars
<1>3. CASE Connect \/ Disconnect \/ Reload
  BY <1>3 DEF Connect, Disconnect, Reload, ClosePorts
<1>4. CASE Deliver \/ Reject
  BY <1>4 DEF Deliver, Reject
<1>5. ASSUME NEW x \in Sessions, SessionStep(x) PROVE wire' = wire
  BY <1>5 DEF SessionStep, PiEvent, CompactionEnd, HostOpen, HostOpened, HostClose, ForgetSession, RequestOpen,
     InstallSnapshot, RequestClose, CloseProjection, Emit, emitterVars
<1> QED
  BY <1>1, <1>2, <1>3, <1>4, <1>5 DEF Next

LEMMA FencedMoves ==
  ASSUME TypeOK, Next, NEW s \in Sessions
  PROVE  \/ fenced'[s] = fenced[s] \/ fenced'[s] = 0
         \/ Deliver /\ Fences(Head(wire[rport]), s) /\ fenced'[s] = Head(wire[rport]).inc
<1>1. CASE Deliver
  <2> DEFINE e == Head(wire[rport])
  <2>1. e \in Envelope /\ Receive(e)
    BY <1>1, TakenFacts DEF Deliver
  <2>2. CASE e.session # s
    BY <2>1, <2>2, ReceivedElsewhere DEF Untouched
  <2>3. CASE e.session = s /\ e.kind = "session_snapshot"
    BY <1>1, <2>1, <2>3, ReceivedFence DEF Fences
  <2>4. CASE e.kind # "session_snapshot"
    BY <2>1, <2>4 DEF Receive, projectionVars
  <2> QED
    BY <2>2, <2>3, <2>4
<1>2. CASE \/ HostContinues \/ HostAttach \/ HostPortClosed \/ HostAck \/ HostResync \/ IssuePort \/ HostStart
           \/ (\E announced \in BOOLEAN : HostExit(announced)) \/ FlushAcks \/ Connect \/ Disconnect \/ Reject
  BY <1>2 DEF HostContinues, HostAttach, HostPortClosed, HostAck, HostResync, IssuePort, HostStart, HostExit,
     FlushAcks, Connect, Disconnect, Reject, rendererVars, projectionVars
<1>3. CASE Reload
  BY <1>3 DEF Reload
<1>4. ASSUME NEW x \in Sessions, SessionStep(x) PROVE fenced'[s] = fenced[s] \/ fenced'[s] = 0
  <2>1. fenced \in [Sessions -> Nat]
    BY DEF TypeOK, RendererTypeOK
  <2> QED
    BY <1>4, <2>1 DEF SessionStep, PiEvent, CompactionEnd, HostOpen, HostOpened, HostClose, RequestOpen,
       InstallSnapshot, RequestClose, CloseProjection, rendererVars, projectionVars
<1> QED
  BY <1>1, <1>2, <1>3, <1>4 DEF Next

LEMMA ErasPastStep ==
  ASSUME TypeOK, TypeOK', HostFits, ErasPast, Next PROVE ErasPast'
<1>a. /\ pending \in Seq(Item) /\ wire \in [Ports -> Seq(Envelope)]
      /\ pending' \in Seq(Item) /\ wire' \in [Ports -> Seq(Envelope)]
      /\ fenced \in [Sessions -> Nat] /\ inc \in [Sessions -> Nat]
  BY DEF TypeOK, EmitterTypeOK, RendererTypeOK
<1>b. ASSUME NEW e \in Envelope, e.inc <= inc[e.session] PROVE e.inc <= inc'[e.session]
  <2>1. e.session \in Sessions /\ e.inc \in Nat
    BY DEF Envelope
  <2>2. inc[e.session] \in Nat /\ inc'[e.session] \in Nat /\ inc[e.session] <= inc'[e.session]
    BY <2>1, ErasGrow
  <2> QED
    BY <1>b, <2>1, <2>2
<1>c. \A i \in DOMAIN pending : pending[i].envelope \in Envelope /\ pending[i].envelope.inc <= inc[pending[i].envelope.session]
  <2> TAKE i \in DOMAIN pending
  <2>1. pending[i] \in Item
    BY <1>a
  <2> QED
    BY <2>1 DEF ErasPast, Item
<1>d. \A p \in Ports : \A i \in DOMAIN wire[p] : wire[p][i] \in Envelope /\ wire[p][i].inc <= inc[wire[p][i].session]
  <2> TAKE p \in Ports
  <2> TAKE i \in DOMAIN wire[p]
  <2>1. wire[p] \in Seq(Envelope)
    BY <1>a
  <2> QED
    BY <2>1 DEF ErasPast
<1>1. ASSUME NEW i \in DOMAIN pending'
      PROVE  pending'[i].envelope.inc <= inc'[pending'[i].envelope.session]
  <2>1. CASE pending' = pending
    BY <1>b, <1>c, <2>1
  <2>2. CASE pending' = <<>>
    BY <2>2
  <2>3. CASE Post(openEnd)
    <3>1. pending' = Tail(pending) /\ pending # <<>>
      BY <2>3 DEF Post, CanPost
    <3>2. i + 1 \in DOMAIN pending /\ pending'[i] = pending[i + 1]
      BY <1>a, <3>1
    <3> QED
      BY <1>b, <1>c, <3>2
  <2>4. CASE pending' # pending /\ pending' # <<>> /\ ~Post(openEnd)
    <3>1. PICK e \in Envelope, rest \in Seq(SessionTask) :
            Emit(e, rest) /\ e.inc = inc[e.session] /\ inc' = inc
      BY <2>4, EmittedEvent
    <3>2. pending' = Append(pending, [envelope |-> e, bytes |-> Bytes(e.kind)])
      BY <2>4, <3>1 DEF Emit, Buffer
    <3>3. e.inc \in Nat
      BY DEF Envelope
    <3> DEFINE item == [envelope |-> e, bytes |-> Bytes(e.kind)]
    <3>4. /\ i \in DOMAIN pending /\ pending'[i] = pending[i]
          \/ pending'[i] = item
      <4>1. e.kind \in Kinds
        BY DEF Envelope
      <4>2. item \in Item
        BY <4>1, BytesType DEF Item
      <4> HIDE DEF item
      <4>3. pending' = Append(pending, item)
        BY <3>2 DEF item
      <4> QED
        BY <1>a, <4>2, <4>3
    <3>5. item.envelope = e
      OBVIOUS
    <3> HIDE DEF item
    <3>6. CASE i \in DOMAIN pending /\ pending'[i] = pending[i]
      BY <1>b, <1>c, <3>6
    <3>7. CASE pending'[i] = item
      BY <1>b, <3>1, <3>3, <3>5, <3>7
    <3> QED
      BY <3>4, <3>6, <3>7
  <2> QED
    BY <2>1, <2>2, <2>3, <2>4
<1>2. ASSUME NEW p \in Ports, NEW i \in DOMAIN wire'[p]
      PROVE  wire'[p][i].inc <= inc'[wire'[p][i].session]
  <2>1. CASE wire' = wire \/ wire'[p] \in {wire[p], <<>>}
    <3>1. i \in DOMAIN wire[p] /\ wire'[p][i] = wire[p][i]
      BY <2>1
    <3> QED
      BY <1>b, <1>d, <3>1
  <2>2. CASE Post(openEnd)
    <3> DEFINE e == Head(pending).envelope
    <3>1. pending # <<>> /\ 1 \in DOMAIN pending /\ e = pending[1].envelope
      BY <1>a, <2>2 DEF Post, CanPost
    <3>2. e \in Envelope /\ e.inc <= inc'[e.session]
      BY <1>b, <1>c, <3>1
    <3>3. wire'[p] = wire[p] \/ wire'[p] = Append(wire[p], e)
      BY <1>a, <2>2 DEF Post, CanPost
    <3> HIDE DEF e
    <3>4. \/ i \in DOMAIN wire[p] /\ wire'[p][i] = wire[p][i]
          \/ wire'[p][i] = e
      <4>1. wire[p] \in Seq(Envelope)
        BY <1>a
      <4>2. CASE wire'[p] = wire[p]
        BY <4>2
      <4>3. CASE wire'[p] = Append(wire[p], e)
        <5>1. i \in DOMAIN Append(wire[p], e)
          BY <4>3
        <5>2. i \in 1..(Len(wire[p]) + 1) /\ DOMAIN wire[p] = 1..Len(wire[p]) /\ Len(wire[p]) \in Nat
          BY <3>2, <4>1, <5>1
        <5>3. i \in DOMAIN wire[p] \/ i = Len(wire[p]) + 1
          BY <5>2
        <5> QED
          BY <3>2, <4>1, <4>3, <5>2, <5>3, AppendFacts
      <4> QED
        BY <3>3, <4>2, <4>3
    <3>5. CASE i \in DOMAIN wire[p] /\ wire'[p][i] = wire[p][i]
      BY <1>b, <1>d, <3>5
    <3> QED
      BY <3>2, <3>4, <3>5
  <2>3. CASE CanDeliver /\ Taken
    <3>1. wire' = [wire EXCEPT ![rport] = Tail(wire[rport])] /\ wire[rport] # <<>> /\ rport \in Ports
      BY <2>3, TakenFacts
    <3>2. \/ i \in DOMAIN wire[p] /\ wire'[p][i] = wire[p][i]
          \/ i + 1 \in DOMAIN wire[p] /\ wire'[p][i] = wire[p][i + 1]
      <4>1. CASE p # rport
        BY <1>a, <3>1, <4>1
      <4>2. CASE p = rport
        <5>1. wire'[p] = Tail(wire[p]) /\ wire[p] \in Seq(Envelope) /\ wire[p] # <<>>
          BY <1>a, <3>1, <4>2
        <5> QED
          BY <5>1
      <4> QED
        BY <4>1, <4>2
    <3> QED
      BY <1>b, <1>d, <3>2
  <2> QED
    BY <2>1, <2>2, <2>3, WireMoves
<1>3. ASSUME NEW s \in Sessions PROVE fenced'[s] <= inc'[s] /\ (phase'[s] # "closed" => inc'[s] >= 1)
  <2>1. /\ inc[s] \in Nat /\ inc'[s] \in Nat /\ inc[s] <= inc'[s]
        /\ phase'[s] = "closed" \/ phase[s] # "closed" \/ inc'[s] = inc[s] + 1
    BY ErasGrow
  <2>2. fenced[s] <= inc[s] /\ (phase[s] # "closed" => inc[s] >= 1) /\ fenced[s] \in Nat
    BY <1>a DEF ErasPast
  <2>3. phase'[s] # "closed" => inc'[s] >= 1
    BY <2>1, <2>2
  <2>4. CASE fenced'[s] = fenced[s] \/ fenced'[s] = 0
    BY <2>1, <2>2, <2>3, <2>4
  <2>5. CASE Deliver /\ Fences(Head(wire[rport]), s) /\ fenced'[s] = Head(wire[rport]).inc
    <3>1. wire[rport] \in Seq(Envelope) /\ wire[rport] # <<>> /\ rport \in Ports
      BY <2>5, TakenFacts DEF Deliver
    <3>2. Head(wire[rport]) = wire[rport][1] /\ 1 \in DOMAIN wire[rport]
      BY <3>1
    <3>3. wire[rport][1] \in Envelope /\ wire[rport][1].inc <= inc'[wire[rport][1].session]
      BY <1>b, <1>d, <3>1, <3>2
    <3> QED
      BY <2>3, <2>5, <3>2, <3>3 DEF Fences
  <2> QED
    BY <2>4, <2>5, FencedMoves
<1> QED
  BY <1>1, <1>2, <1>3 DEF ErasPast

LEMMA FencedAreShownStep ==
  ASSUME TypeOK, FencedAreShown, Next PROVE FencedAreShown'
<1>a. /\ gap \in [Sessions -> BOOLEAN] /\ fenced \in [Sessions -> Nat]
  BY DEF TypeOK, RendererTypeOK
<1>1. ASSUME UNCHANGED <<shown, gap, fenced, awaiting>> PROVE FencedAreShown'
  BY <1>1 DEF FencedAreShown
<1>2. CASE \/ HostContinues \/ HostAttach \/ HostPortClosed \/ HostAck \/ HostResync \/ IssuePort \/ HostStart
           \/ (\E announced \in BOOLEAN : HostExit(announced)) \/ FlushAcks \/ Connect \/ Reject
  <2>1. UNCHANGED <<shown, gap, fenced, awaiting>>
    BY <1>2 DEF HostContinues, HostAttach, HostPortClosed, HostAck, HostResync, IssuePort, HostStart, HostExit,
     FlushAcks, Connect, Reject, rendererVars, intakeVars, projectionVars
  <2> QED
    BY <1>1, <2>1
<1>3. CASE Disconnect
  BY <1>3 DEF Disconnect, projectionVars, FencedAreShown
<1>4. CASE Reload
  BY <1>4 DEF Reload, FencedAreShown
<1>5. CASE Deliver
  <2> DEFINE e == Head(wire[rport])
             x == e.session
  <2>1. e \in Envelope /\ Receive(e)
    BY <1>5, TakenFacts DEF Deliver
  <2>2. ASSUME NEW s \in Sessions, fenced'[s] # 0 PROVE s \in shown' /\ (s \in awaiting' => gap'[s])
    <3>1. fenced[s] # 0 => s \in shown /\ (s \in awaiting => gap[s])
      BY DEF FencedAreShown
    <3>2. shown \subseteq shown'
      BY <2>1 DEF Receive, projectionVars, ApplySnapshot
    <3>3. CASE s # x
      <4>1. Untouched(s)
        BY <2>1, <3>3, ReceivedElsewhere
      <4> QED
        BY <2>2, <3>1, <3>2, <4>1 DEF Untouched
    <3>4. CASE s = x /\ e.kind = "session_snapshot"
      BY <2>1, <3>4, ReceivedFence
    <3>5. CASE s = x /\ e.kind # "session_snapshot"
      <4>1. fenced'[s] = fenced[s]
        BY <2>1, <3>5 DEF Receive, projectionVars
      <4>2. CASE e.sequence <= lastSequence[x]
        BY <2>1, <2>2, <3>1, <3>5, <4>1, <4>2 DEF Receive, projectionVars
      <4>3. CASE ~(e.sequence <= lastSequence[x])
        <5> DEFINE reported == Jumps(e) /\ x \notin awaiting
        <5>1. /\ awaiting' = IF reported THEN awaiting \cup {x} ELSE awaiting
              /\ gap' = [gap EXCEPT ![x] = @ \/ (x \in shown /\ (reported \/ e.kind = "stream_gap"))]
          BY <2>1, <3>5, <4>3 DEF Receive
        <5> HIDE DEF reported
        <5>2. gap'[x] = (gap[x] \/ (x \in shown /\ (reported \/ e.kind = "stream_gap")))
          BY <1>a, <2>2, <3>5, <5>1
        <5>3. s \in shown /\ (s \in awaiting => gap[s])
          BY <2>2, <3>1, <4>1
        <5>4. x \in awaiting' => reported \/ x \in awaiting
          BY <5>1
        <5>5. x \in awaiting' => gap'[x]
          BY <3>5, <5>2, <5>3, <5>4
        <5> QED
          BY <3>2, <3>5, <5>3, <5>5
      <4> QED
        BY <4>2, <4>3
    <3> QED
      BY <3>3, <3>4, <3>5
  <2> QED
    BY <2>2 DEF FencedAreShown
<1>6. ASSUME NEW x \in Sessions,
             PiEvent(x) \/ CompactionEnd(x) \/ HostOpen(x) \/ HostOpened(x) \/ HostClose(x) \/ RequestOpen(x)
               \/ RequestClose(x)
      PROVE FencedAreShown'
  <2>1. UNCHANGED <<shown, gap, fenced, awaiting>>
    BY <1>6 DEF PiEvent, CompactionEnd, HostOpen, HostOpened, HostClose, RequestOpen, RequestClose, rendererVars,
       intakeVars, projectionVars
  <2> QED
    BY <1>1, <2>1
<1>7. ASSUME NEW x \in Sessions, InstallSnapshot(x) PROVE FencedAreShown'
  <2>1. shown' = shown \cup {x} /\ awaiting' = awaiting
    BY <1>7 DEF InstallSnapshot, intakeVars
  <2>2. ASSUME x \notin shown PROVE fenced' = [fenced EXCEPT ![x] = 0] /\ gap' = [gap EXCEPT ![x] = FALSE]
    BY <1>7, <2>2 DEF InstallSnapshot
  <2>3. ASSUME x \in shown PROVE fenced' = fenced /\ gap' = gap
    BY <1>7, <2>3 DEF InstallSnapshot
  <2> QED
    BY <1>a, <2>1, <2>2, <2>3 DEF FencedAreShown
<1>8. ASSUME NEW x \in Sessions, CloseProjection(x) PROVE FencedAreShown'
  BY <1>a, <1>8 DEF CloseProjection, FencedAreShown, intakeVars
<1> QED
  BY <1>2, <1>3, <1>4, <1>5, <1>6, <1>7, <1>8 DEF Next, SessionStep

LEMMA HostFitsStep ==
  ASSUME TypeOK, HostFits, Next PROVE HostFits'
<1>a. cmd \in [Sessions -> Commands] /\ phase \in [Sessions -> {"closed", "registered", "live"}]
  BY DEF TypeOK, EmitterTypeOK, MainTypeOK
<1>1. ASSUME hport' = 0 \/ dropped' = {} \/ (hport' = hport /\ dropped' \subseteq dropped)
      PROVE  hport' # 0 => dropped' = {}
  BY <1>1 DEF HostFits
<1>2. ASSUME UNCHANGED <<cmd, hostUp>>,
             \A s \in Sessions : phase'[s] = "closed" => phase[s] = "closed"
      PROVE  \A s \in Sessions : cmd'[s] = "binding" => hostUp' /\ phase'[s] # "closed"
  BY <1>2 DEF HostFits
<1>3. CASE HostContinues
  <2>1. UNCHANGED <<cmd, hostUp>>
    BY <1>3 DEF HostContinues, commandVars, mainVars
  <2>2. UNCHANGED hport /\ \A s \in Sessions : phase'[s] = "closed" => phase[s] = "closed"
    <3>1. phase' = phase \/ \E x : phase' = [phase EXCEPT ![x] = "live"]
      BY <1>3 DEF HostContinues, Post, AnnounceGap, Resync, ReleaseOne
    <3>2. UNCHANGED hport
      BY <1>3 DEF HostContinues, Post, AnnounceGap, Resync, ReleaseOne, Emit
    <3> QED
      BY <1>a, <3>1, <3>2
  <2>3. hport # 0 => dropped' = dropped \/ dropped' = {}
    BY <1>3 DEF HostContinues, Post, AnnounceGap, Resync, ReleaseOne, Emit, Buffer
  <2> QED
    BY <1>2, <2>1, <2>2, <2>3 DEF HostFits
<1>4. CASE HostAttach \/ HostPortClosed \/ HostAck \/ HostResync
  <2>1. UNCHANGED <<cmd, hostUp, phase>>
    BY <1>4 DEF HostAttach, Attach, HostPortClosed, PortClosed, HostAck, Acknowledge, HostResync, commandVars,
       mainVars, hostVars
  <2>2. hport' = 0 \/ dropped' = {} \/ (hport' = hport /\ dropped' \subseteq dropped)
    BY <1>4 DEF HostAttach, Attach, HostPortClosed, PortClosed, HostAck, Acknowledge, HostResync
  <2> QED
    BY <1>1, <1>2, <2>1, <2>2 DEF HostFits
<1>5. CASE IssuePort \/ FlushAcks \/ Connect \/ Disconnect \/ Deliver \/ Reject
  <2>1. UNCHANGED <<cmd, hostUp, phase, hport, dropped>>
    BY <1>5 DEF IssuePort, FlushAcks, Connect, Disconnect, Deliver, Reject, Taken, hostVars, emitterVars,
       commandVars, mainVars
  <2> QED
    BY <1>1, <1>2, <2>1 DEF HostFits
<1>6. CASE HostStart
  <2>1. ~hostUp /\ UNCHANGED <<hport, dropped, cmd>>
    BY <1>6 DEF HostStart, emitterVars, commandVars
  <2> QED
    BY <2>1 DEF HostFits
<1>7. ASSUME NEW announced \in BOOLEAN, HostExit(announced) PROVE HostFits'
  <2>1. /\ hport' = 0
        /\ cmd' = [s \in Sessions |-> IF cmd[s] \in {"open", "binding", "close"} THEN "idle" ELSE cmd[s]]
    BY <1>7 DEF HostExit
  <2> QED
    BY <2>1 DEF HostFits
<1>8. CASE Reload
  <2>1. UNCHANGED <<phase, hport, dropped, hostUp>>
    BY <1>8 DEF Reload, hostVars
  <2>2. cmd' = [s \in Sessions |-> IF cmd[s] \in {"opened", "closed"} THEN "idle" ELSE cmd[s]]
    BY <1>8 DEF Reload
  <2> QED
    BY <2>1, <2>2 DEF HostFits
<1>9. ASSUME NEW x \in Sessions, PiEvent(x) \/ CompactionEnd(x) PROVE HostFits'
  <2>1. UNCHANGED <<phase, hport, cmd, hostUp>>
    BY <1>9 DEF PiEvent, CompactionEnd, hostVars, Emit, commandVars, mainVars
  <2>2. hport # 0 => dropped' = dropped \/ dropped' = {}
    BY <1>9 DEF PiEvent, CompactionEnd, Emit, Buffer
  <2> QED
    BY <2>1, <2>2 DEF HostFits
<1>10. ASSUME NEW x \in Sessions, HostOpen(x) \/ HostOpened(x) PROVE HostFits'
  <2>1. UNCHANGED <<hport, dropped, hostUp>> /\ hostUp
    BY <1>10 DEF HostOpen, HostOpened, emitterVars, mainVars, HostIdle
  <2>2. \A s \in Sessions \ {x} : cmd'[s] = cmd[s] /\ phase'[s] = phase[s]
    BY <1>a, <1>10 DEF HostOpen, HostOpened, AttachSession, Answer
  <2>3. phase'[x] # "closed"
    BY <1>a, <1>10 DEF HostOpen, HostOpened, AttachSession
  <2> QED
    BY <2>1, <2>2, <2>3 DEF HostFits
<1>11. ASSUME NEW x \in Sessions, HostClose(x) PROVE HostFits'
  <2>1. UNCHANGED <<hport, hostUp>> /\ dropped' \subseteq dropped
    BY <1>11 DEF HostClose, emitterVars, mainVars, ForgetSession
  <2>2. \A s \in Sessions \ {x} : cmd'[s] = cmd[s] /\ phase'[s] = phase[s]
    BY <1>a, <1>11 DEF HostClose, Answer, hostVars
  <2>3. cmd'[x] \in {"idle", "closed"}
    BY <1>a, <1>11 DEF HostClose, Answer
  <2> QED
    BY <1>1, <2>1, <2>2, <2>3 DEF HostFits
<1>12. ASSUME NEW x \in Sessions, RequestOpen(x) \/ InstallSnapshot(x) \/ RequestClose(x) \/ CloseProjection(x)
       PROVE  HostFits'
  <2>1. UNCHANGED <<hport, hostUp, dropped, phase>>
    BY <1>12 DEF RequestOpen, InstallSnapshot, RequestClose, CloseProjection, hostVars, emitterVars, mainVars
  <2>2. \E answer \in {"open", "idle", "close"} : cmd' = [cmd EXCEPT ![x] = answer]
    BY <1>12 DEF RequestOpen, InstallSnapshot, RequestClose, CloseProjection
  <2> QED
    BY <1>a, <2>1, <2>2 DEF HostFits
<1> QED
  BY <1>3, <1>4, <1>5, <1>6, <1>7, <1>8, <1>9, <1>10, <1>11, <1>12 DEF Next, SessionStep

LEMMA RemoveAtFacts ==
  ASSUME NEW S, NEW q \in Seq(S), NEW i \in 1..Len(q)
  PROVE  /\ Len(RemoveAt(q, i)) = Len(q) - 1
         /\ \A k \in 1..(Len(q) - 1) : RemoveAt(q, i)[k] = IF k < i THEN q[k] ELSE q[k + 1]
<1> DEFINE front == SubSeq(q, 1, i - 1)
           back == SubSeq(q, i + 1, Len(q))
<1>1. front \in Seq(S) /\ Len(front) = i - 1 /\ \A k \in 1..(i - 1) : front[k] = q[k]
  OBVIOUS
<1>2. back \in Seq(S) /\ Len(back) = Len(q) - i /\ \A k \in 1..(Len(q) - i) : back[k] = q[i + k]
  OBVIOUS
<1>3. RemoveAt(q, i) = front \o back
  BY DEF RemoveAt
<1> HIDE DEF front, back
<1>4. Len(front \o back) = Len(q) - 1
  <2>1. front \in Seq(S) /\ back \in Seq(S) => Len(front \o back) = Len(front) + Len(back)
    OBVIOUS
  <2>2. Len(q) \in Nat /\ i \in Nat
    OBVIOUS
  <2>3. Len(front) = i - 1 /\ Len(back) = Len(q) - i
    BY <1>1, <1>2
  <2>4. Len(front) + Len(back) = Len(q) - 1
    BY <2>2, <2>3
  <2>5. front \in Seq(S) /\ back \in Seq(S)
    BY <1>1, <1>2
  <2> QED
    BY <2>1, <2>4, <2>5
<1>5. ASSUME NEW k \in 1..(Len(q) - 1)
      PROVE  (front \o back)[k] = IF k < i THEN q[k] ELSE q[k + 1]
  <2>1. CASE k < i
    <3>1. k \in 1..(i - 1) /\ (front \o back)[k] = front[k]
      BY <1>1, <1>2, <2>1
    <3> QED
      BY <1>1, <2>1, <3>1
  <2>2. CASE ~(k < i)
    <3>1. k - (i - 1) \in 1..(Len(q) - i) /\ (front \o back)[k] = back[k - (i - 1)]
      BY <1>1, <1>2, <2>2
    <3>2. back[k - (i - 1)] = q[i + (k - (i - 1))] /\ i + (k - (i - 1)) = k + 1
      BY <1>2, <3>1
    <3> QED
      BY <2>2, <3>1, <3>2
  <2> QED
    BY <2>1, <2>2
<1> QED
  BY <1>3, <1>4, <1>5

LEMMA PortsStandOpenStep ==
  ASSUME TypeOK, PortsInOrder, PortsStandOpen, Next PROVE PortsStandOpen'
<1>a. /\ inbox \in Seq(Ports \cup {0}) /\ Ports \subseteq Nat \ {0} /\ issued \in Nat
      /\ rport \in Ports \cup {0} /\ 1..issued \subseteq Ports /\ openEnd \subseteq Ports
  BY PortAssumption DEF TypeOK, MainTypeOK, RendererTypeOK, PortsInOrder
<1>1. ASSUME UNCHANGED <<inbox, openEnd, issued, rport>> PROVE PortsStandOpen'
  BY <1>1 DEF PortsStandOpen
<1>2. CASE HostContinues \/ HostAttach \/ HostPortClosed \/ HostAck \/ HostResync \/ HostStart
  BY <1>1, <1>2 DEF HostContinues, HostAttach, HostPortClosed, HostAck, HostResync, HostStart, channelVars,
     rendererVars, intakeVars, mainVars
<1>3. CASE FlushAcks \/ Deliver \/ Reject
  BY <1>1, <1>3 DEF FlushAcks, Deliver, Reject, Taken, channelVars, mainVars
<1>4. ASSUME NEW s \in Sessions, SessionStep(s) PROVE PortsStandOpen'
  BY <1>1, <1>4 DEF SessionStep, PiEvent, CompactionEnd, HostOpen, HostOpened, HostClose, RequestOpen,
     InstallSnapshot, RequestClose, CloseProjection, channelVars, rendererVars, intakeVars, mainVars
<1>5. CASE IssuePort
  <2>1. /\ issued' = issued + 1 /\ issued + 1 \in Ports /\ inbox' = Append(inbox, issued + 1)
        /\ UNCHANGED <<openEnd, rport>>
    BY <1>5 DEF IssuePort, rendererVars, intakeVars
  <2>2. issued + 1 \in openEnd /\ rport # issued + 1
    BY <1>a, <2>1 DEF PortsStandOpen
  <2>3. /\ Len(inbox') = Len(inbox) + 1
        /\ \A i \in 1..Len(inbox) : inbox'[i] = inbox[i]
        /\ inbox'[Len(inbox) + 1] = issued + 1
    BY <1>a, <2>1
  <2>4. DOMAIN inbox' = 1..(Len(inbox) + 1) /\ DOMAIN inbox = 1..Len(inbox) /\ Len(inbox) \in Nat
    BY <1>a, <2>1
  <2>5. \A i \in DOMAIN inbox : inbox[i] \in Nat
    <3> TAKE i \in DOMAIN inbox
    <3>1. inbox[i] \in Ports \cup {0}
      BY <1>a
    <3>2. Ports \cup {0} \subseteq Nat
      BY <1>a
    <3> QED
      BY <3>1, <3>2
  <2>6. ASSUME NEW i \in DOMAIN inbox', inbox'[i] # 0
        PROVE  /\ inbox'[i] \in openEnd' /\ inbox'[i] <= issued' /\ inbox'[i] # rport'
               /\ \A j \in DOMAIN inbox' : inbox'[j] = inbox'[i] => j = i
    <3>1. CASE i = Len(inbox) + 1
      <4>1. \A j \in 1..Len(inbox) : inbox'[j] # issued + 1
        BY <1>a, <2>1, <2>3, <2>4, <2>5 DEF PortsStandOpen
      <4> QED
        BY <1>a, <2>1, <2>2, <2>3, <2>4, <3>1, <4>1
    <3>2. CASE i \in 1..Len(inbox)
      <4>1. /\ inbox'[i] = inbox[i] /\ inbox[i] \in openEnd /\ inbox[i] <= issued /\ inbox[i] # rport
            /\ \A j \in 1..Len(inbox) : inbox[j] = inbox[i] => j = i
        BY <2>3, <2>4, <2>6, <3>2 DEF PortsStandOpen
      <4>2. inbox[i] <= issued + 1 /\ inbox[i] # issued + 1
        BY <1>a, <2>4, <2>5, <3>2, <4>1
      <4> QED
        BY <1>a, <2>1, <2>3, <2>4, <3>2, <4>1, <4>2
    <3> QED
      BY <2>4, <3>1, <3>2
  <2>7. \A p \in Ports : p > issued' => p \in openEnd'
    BY <1>a, <2>1 DEF PortsStandOpen
  <2>8. rport' # 0 => rport' \in openEnd' /\ rport' <= issued'
    BY <1>a, <2>1 DEF PortsStandOpen
  <2> QED
    BY <2>6, <2>7, <2>8 DEF PortsStandOpen
<1>6. ASSUME NEW announced \in BOOLEAN, HostExit(announced) PROVE PortsStandOpen'
  <2>1. UNCHANGED <<openEnd, rport, issued>> /\ (inbox' = inbox \/ inbox' = Append(inbox, 0))
    BY <1>6 DEF HostExit, rendererVars, intakeVars
  <2>2. CASE inbox' = Append(inbox, 0)
    <3>1. /\ Len(inbox') = Len(inbox) + 1
          /\ \A i \in 1..Len(inbox) : inbox'[i] = inbox[i]
          /\ inbox'[Len(inbox) + 1] = 0
      BY <1>a, <2>2
    <3>2. DOMAIN inbox' = 1..(Len(inbox) + 1) /\ DOMAIN inbox = 1..Len(inbox) /\ Len(inbox) \in Nat
      BY <1>a, <2>2
    <3>3. \A i \in DOMAIN inbox' : inbox'[i] # 0 => i \in DOMAIN inbox /\ inbox'[i] = inbox[i]
      BY <3>1, <3>2
    <3>4. \A i, j \in DOMAIN inbox' : inbox'[i] # 0 /\ inbox'[j] = inbox'[i] => j = i
      BY <3>3 DEF PortsStandOpen
    <3> QED
      BY <2>1, <3>3, <3>4 DEF PortsStandOpen
  <2> QED
    BY <1>1, <2>1, <2>2
<1>7. CASE Connect
  <2>1. /\ inbox # <<>> /\ inbox' = Tail(inbox) /\ rport' = Head(inbox) /\ Head(inbox) # 0
        /\ openEnd' = openEnd \ {rport} /\ issued' = issued
    BY <1>7 DEF Connect, ClosePorts, mainVars
  <2>2. /\ DOMAIN inbox = 1..Len(inbox) /\ Len(inbox) \in Nat /\ Len(inbox) >= 1 /\ Head(inbox) = inbox[1]
        /\ DOMAIN inbox' = 1..(Len(inbox) - 1) /\ \A i \in DOMAIN inbox' : inbox'[i] = inbox[i + 1]
    BY <1>a, <2>1
  <2>3. \A i \in DOMAIN inbox' : i + 1 \in DOMAIN inbox /\ 1 \in DOMAIN inbox /\ i + 1 # 1
    BY <2>2
  <2>4. inbox[1] \in openEnd \ {rport} /\ inbox[1] <= issued
    BY <2>1, <2>2 DEF PortsStandOpen
  <2>5. ASSUME NEW i \in DOMAIN inbox', inbox'[i] # 0
        PROVE  /\ inbox'[i] \in openEnd' /\ inbox'[i] <= issued' /\ inbox'[i] # rport'
               /\ \A j \in DOMAIN inbox' : inbox'[j] = inbox'[i] => j = i
    <3>1. /\ inbox[i + 1] \in openEnd \ {rport} /\ inbox[i + 1] <= issued
          /\ \A j \in DOMAIN inbox : inbox[j] = inbox[i + 1] => j = i + 1
      BY <2>2, <2>3, <2>5 DEF PortsStandOpen
    <3>2. inbox[i + 1] # inbox[1]
      BY <2>3, <3>1
    <3>3. \A j \in DOMAIN inbox' : inbox[j + 1] = inbox[i + 1] => j = i
      <4> TAKE j \in DOMAIN inbox'
      <4>1. inbox[j + 1] = inbox[i + 1] => j + 1 = i + 1
        BY <2>3, <3>1
      <4> QED
        BY <2>2, <4>1
    <3> QED
      BY <2>1, <2>2, <3>1, <3>2, <3>3
  <2>6. \A p \in Ports : p > issued' => p \in openEnd'
    BY <1>a, <2>1 DEF PortsStandOpen
  <2>7. rport' # 0 => rport' \in openEnd' /\ rport' <= issued'
    BY <2>1, <2>2, <2>4
  <2> QED
    BY <2>5, <2>6, <2>7 DEF PortsStandOpen
<1>8. CASE Disconnect
  <2>1. PICK r \in DOMAIN inbox : inbox' = RemoveAt(inbox, r)
    BY <1>8 DEF Disconnect
  <2>2. rport' = 0 /\ openEnd' = openEnd \ {rport} /\ issued' = issued
    BY <1>8 DEF Disconnect, ClosePorts, mainVars
  <2>3. DOMAIN inbox = 1..Len(inbox) /\ Len(inbox) \in Nat /\ r \in 1..Len(inbox)
    BY <1>a
  <2>4. /\ Len(inbox') = Len(inbox) - 1
        /\ \A k \in 1..(Len(inbox) - 1) : inbox'[k] = IF k < r THEN inbox[k] ELSE inbox[k + 1]
    BY <1>a, <2>1, <2>3, RemoveAtFacts
  <2>5. inbox' \in Seq(Ports \cup {0})
    BY <1>a, <2>1, RemoveAtType
  <2>6. DOMAIN inbox' = 1..(Len(inbox) - 1)
    BY <2>4, <2>5
  <2> DEFINE At(k) == IF k < r THEN k ELSE k + 1
  <2>7. \A k \in DOMAIN inbox' : At(k) \in DOMAIN inbox /\ inbox'[k] = inbox[At(k)]
    BY <2>3, <2>4, <2>6
  <2>8. \A j, k \in DOMAIN inbox' : At(j) = At(k) => j = k
    BY <2>3, <2>6
  <2> HIDE DEF At
  <2>9. ASSUME NEW i \in DOMAIN inbox', inbox'[i] # 0
        PROVE  /\ inbox'[i] \in openEnd' /\ inbox'[i] <= issued' /\ inbox'[i] # rport'
               /\ \A j \in DOMAIN inbox' : inbox'[j] = inbox'[i] => j = i
    <3>1. /\ inbox[At(i)] \in openEnd \ {rport} /\ inbox[At(i)] <= issued
          /\ \A j \in DOMAIN inbox : inbox[j] = inbox[At(i)] => j = At(i)
      BY <2>7, <2>9 DEF PortsStandOpen
    <3> QED
      BY <2>2, <2>7, <2>8, <2>9, <3>1
  <2>10. \A p \in Ports : p > issued' => p \in openEnd'
    BY <1>a, <2>2 DEF PortsStandOpen
  <2> QED
    BY <2>2, <2>9, <2>10 DEF PortsStandOpen
<1>9. CASE Reload
  <2>1. inbox' = <<>> /\ openEnd' = openEnd \ (1..issued) /\ rport' = 0 /\ issued' = issued
    BY <1>9 DEF Reload, ClosePorts
  <2>2. \A p \in Ports : p > issued => p \in openEnd'
    BY <1>a, <2>1 DEF PortsStandOpen
  <2> QED
    BY <2>1, <2>2 DEF PortsStandOpen
<1> QED
  BY <1>2, <1>3, <1>4, <1>5, <1>6, <1>7, <1>8, <1>9 DEF Next


-----------------------------------------------------------------------------
(* The invariant. *)

LEMMA FeedInit == Init => Feed
<1> SUFFICES ASSUME Init PROVE Feed
  OBVIOUS
<1>1. ErasPast
  BY DEF Init, ErasPast
<1>2. FencedAreShown
  BY DEF Init, FencedAreShown
<1>3. HostFits
  BY DEF Init, HostFits
<1>4. PortsStandOpen
  BY PortAssumption DEF Init, PortsStandOpen
<1>5. AllTold
  BY DEF Init, AllTold, Told, Calm
<1> QED
  BY <1>1, <1>2, <1>3, <1>4, <1>5 DEF Feed

LEMMA FeedStep ==
  ASSUME FencesPass, IInv, IInv', Feed, [Next]_vars PROVE Feed'
<1>1. TypeOK /\ PortsInOrder /\ TypeOK'
  BY DEF IInv
<1>2. CASE Next
  BY <1>1, <1>2, ErasPastStep, FencedAreShownStep, HostFitsStep, PortsStandOpenStep, AllToldStep DEF Feed
<1>3. CASE UNCHANGED vars
  <2> USE <1>3 DEF vars, hostVars, emitterVars, mainVars, commandVars, channelVars, rendererVars, intakeVars,
          projectionVars
  <2>1. ErasPast' /\ FencedAreShown' /\ HostFits' /\ PortsStandOpen'
    BY DEF Feed, ErasPast, FencedAreShown, HostFits, PortsStandOpen
  <2>2. ASSUME NEW s \in Sessions PROVE Told(s)'
    <3>1. Calm(s)' => Calm(s)
      BY DEF Calm
    <3>2. Told(s) /\ ErasPast
      BY DEF Feed, AllTold
    <3>3. UNCHANGED <<view, gap, fenced>>
      OBVIOUS
    <3>4. /\ view'[s] = view[s] /\ gap'[s] = gap[s] /\ fenced'[s] = fenced[s]
      BY <3>3
    <3>5. UNCHANGED <<hist, inc, sequences, hport, rport, wire, pending, lastSequence, awaiting>>
      OBVIOUS
    <3> HIDE <1>3
    <3> QED
      BY <1>1, <3>1, <3>2, <3>4, <3>5, ToldSame
  <2> QED
    BY <2>1, <2>2 DEF Feed, AllTold
<1> QED
  BY <1>2, <1>3

LEMMA FeedAlways == FencesPass => (Spec => [](IInv /\ Feed))
<1> SUFFICES ASSUME FencesPass PROVE Spec => [](IInv /\ Feed)
  OBVIOUS
<1>1. IInv /\ IInv' /\ Feed /\ [Next]_vars => Feed'
  BY FeedStep
<1> QED
  BY <1>1, FeedInit, IInvAlways, PTL DEF Spec

\* What Told says once no snapshot is on its way.
LEMMA SettledIsTold ==
  ASSUME IInv, Feed, NEW s \in Sessions, Fenced(s), Settled(s)
  PROVE  /\ Shows(s)
         /\ lastSequence[s] <= sequences[s]
<1>1. /\ TypeOK /\ PortsInOrder /\ PortsStandOpen /\ Told(s)
  BY DEF IInv, Feed, AllTold
<1>2. /\ hport = rport /\ hport \in Ports /\ hport # 0 /\ phase[s] = "live" /\ fenced[s] = inc[s]
  BY <1>1, Numbers DEF Settled, Fenced
<1>3. hport \in openEnd
  BY <1>1, <1>2 DEF PortsStandOpen
<1>4. ~Holds(todo, s)
  BY DEF Settled, SnapshotOnItsWay, Holds
<1>5. Calm(s)
  BY <1>2, <1>3, <1>4 DEF Calm
<1>6. NoFence(Flow, s)
  <2>1. wire[hport] \in Seq(Envelope) /\ Envelopes(pending) \in Seq(Envelope)
        /\ Len(Envelopes(pending)) = Len(pending) /\ pending \in Seq(Item)
        /\ \A i \in 1..Len(pending) : Envelopes(pending)[i] = pending[i].envelope
    BY <1>1, <1>2, EnvelopesType DEF TypeOK, EmitterTypeOK
  <2>2. \A i \in 1..Len(wire[hport]) : ~Fences(wire[hport][i], s)
    BY <1>2, <2>1 DEF Settled, SnapshotOnItsWay, Fences
  <2>3. \A i \in 1..Len(pending) : ~Fences(Envelopes(pending)[i], s)
    BY <2>1 DEF Settled, SnapshotOnItsWay, Fences
  <2>4. ASSUME NEW i \in 1..Len(Flow) PROVE ~Fences(Flow[i], s)
    <3> DEFINE q == wire[hport]
               r == Envelopes(pending)
    <3>1. /\ i \in 1..(Len(q) + Len(r)) /\ Len(q) \in Nat /\ Len(r) \in Nat
          /\ Flow[i] = IF i <= Len(q) THEN q[i] ELSE r[i - Len(q)]
      BY <2>1 DEF Flow
    <3>2. CASE i <= Len(q)
      BY <2>2, <3>1, <3>2
    <3>3. CASE ~(i <= Len(q))
      <4>1. i - Len(q) \in 1..Len(r)
        BY <3>1, <3>3
      <4> QED
        BY <2>1, <2>3, <3>1, <3>3, <4>1
    <3> QED
      BY <3>2, <3>3
  <2> QED
    BY <2>4 DEF NoFence
<1> QED
  BY <1>1, <1>2, <1>5, <1>6 DEF Told

LEMMA HistoryLength ==
  ASSUME NEW n \in Nat PROVE Len(History(n)) = n
  BY DEF History

\* Once a snapshot has fenced a session on the port in use and no later one is
\* under way, what the renderer shows is the session's history up to some
\* point, or it has flagged a gap and asked for a resync: for any sessions,
\* ports, sizes, reloads, host exits and refused events, as long as the schema
\* check refuses no snapshot (stream.ts #receive, emitter.ts attach and
\* resetSession).
THEOREM HistoryOrFlagged == FencesPass => (Spec => []PrefixOrFlagged)
<1>1. ASSUME IInv, Feed PROVE PrefixOrFlagged
  <2> SUFFICES ASSUME NEW s \in Sessions, Fenced(s), Settled(s)
               PROVE  view[s] = History(Len(view[s])) \/ (gap[s] /\ s \in awaiting)
    BY DEF PrefixOrFlagged
  <2>1. Shows(s)
    BY <1>1, SettledIsTold
  <2>2. CASE \E n \in Nat : view[s] = History(n)
    BY <2>2, HistoryLength
  <2> QED
    BY <2>1, <2>2 DEF Shows
<1>2. IInv /\ Feed => PrefixOrFlagged
  BY <1>1
<1> QED
  BY <1>2, FeedAlways, PTL

\* Nothing is lost silently: when the stream is quiet, a session that is not
\* waiting for a resync and whose last event arrived is shown with the whole of
\* its history (stream.ts #receive, "neither lost nor applied twice").
THEOREM NothingLostSilently == FencesPass => (Spec => []CaughtUp)
<1>1. ASSUME IInv, Feed PROVE CaughtUp
  <2> SUFFICES ASSUME NEW s \in Sessions, Quiet, Fenced(s), s \notin awaiting, lastSequence[s] = sequences[s]
               PROVE  view[s] = History(hist[s])
    BY DEF CaughtUp
  <2>1. Settled(s)
    BY DEF Quiet, Settled, SnapshotOnItsWay
  <2>2. Shows(s)
    BY <1>1, <2>1, SettledIsTold
  <2>3. PICK n \in Nat : n = lastSequence[s] - Shift(s) /\ view[s] = History(n)
    BY <2>2 DEF Shows
  <2>4. hist[s] \in Nat /\ sequences[s] \in Nat
    BY <1>1 DEF IInv, TypeOK, EmitterTypeOK
  <2>5. n = hist[s]
    BY <2>3, <2>4 DEF Shift
  <2> QED
    BY <2>3, <2>5
<1>2. IInv /\ Feed => CaughtUp
  BY <1>1
<1> QED
  BY <1>2, FeedAlways, PTL

-----------------------------------------------------------------------------
(* Nothing is taken back.  Host and renderer are related here by what is on its way between *)
(* them, on whatever port: it leads onward.                                                 *)

\* b may come behind a: of a later registration of the session, or further in its history.
Beyond(n, e) ==
  /\ e.kind = "content" => n < e.id
  /\ e.kind = "session_snapshot" => n <= e.id

Precedes(a, b) ==
  a.session = b.session => a.inc <= b.inc /\ (a.inc = b.inc => Beyond(a.id, b))

InTurn(q) == \A i, j \in 1..Len(q) : i < j => Precedes(q[i], q[j])

Before(q, r) == \A i \in 1..Len(q), j \in 1..Len(r) : Precedes(q[i], r[j])

Within(q, s, era, top) ==
  \A i \in 1..Len(q) : q[i].session = s /\ q[i].inc = era => q[i].id <= top

Above(q, s, era, base) ==
  \A i \in 1..Len(q) : q[i].session = s => q[i].inc = era /\ Beyond(base, q[i])

Queued == Envelopes(pending)

\* Wires in the order of their ports and then the queue carry a session's history onward.
Ascends ==
  /\ InTurn(Queued)
  /\ \A p \in Ports :
       /\ InTurn(wire[p]) /\ Before(wire[p], Queued)
       /\ \A r \in Ports : p < r => Before(wire[p], wire[r])

WithinHistory(s) ==
  /\ Within(Queued, s, inc[s], hist[s])
  /\ \A p \in Ports : Within(wire[p], s, inc[s], hist[s])

\* What is still to come does not fall behind what the renderer has.
Reached(s) ==
  fenced[s] = inc[s] =>
    /\ Len(view[s]) <= hist[s]
    /\ Above(Queued, s, inc[s], Len(view[s]))
    /\ \A p \in Ports : Above(wire[p], s, inc[s], Len(view[s]))

Onward ==
  /\ Ascends
  /\ \A s \in Sessions : hostUp /\ phase[s] # "closed" => WithinHistory(s) /\ Reached(s)

UsesLastPort == hport # 0 => hport = taken

InboxRises ==
  /\ \A i, j \in 1..Len(inbox) : i < j /\ inbox[i] # 0 /\ inbox[j] # 0 => inbox[i] < inbox[j]
  /\ \A i \in 1..Len(inbox) : inbox[i] # 0 => rport < inbox[i]

OpenAreAhead ==
  \A p \in Ports : p <= issued /\ p \in openEnd => p = rport \/ \E i \in 1..Len(inbox) : inbox[i] = p

NothingBehind == \A p \in Ports : wire[p] # <<>> => p \in openEnd /\ rport <= p

\* The renderer goes from port to port upwards and leaves nothing on one behind it.
PortsPass == UsesLastPort /\ InboxRises /\ OpenAreAhead /\ NothingBehind

-----------------------------------------------------------------------------
(* Parts of a sequence keep its order. *)

\* r is q from some place on.
PartOf(r, q) == \E k \in Nat : \A i \in 1..Len(r) : i + k \in 1..Len(q) /\ r[i] = q[i + k]

LEMMA PartsOf ==
  ASSUME NEW q \in Seq(Envelope)
  PROVE  PartOf(q, q) /\ PartOf(<<>>, q) /\ (q # <<>> => PartOf(Tail(q), q))
<1>1. \A i \in 1..Len(q) : i + 0 \in 1..Len(q) /\ q[i] = q[i + 0]
  OBVIOUS
<1>2. Len(<<>>) = 0
  OBVIOUS
<1>3. q # <<>> => \A i \in 1..Len(Tail(q)) : i + 1 \in 1..Len(q) /\ Tail(q)[i] = q[i + 1]
  BY TailFacts
<1>4. PartOf(q, q)
  BY <1>1 DEF PartOf
<1>5. PartOf(<<>>, q)
  <2>1. 0 \in Nat /\ \A i \in 1..Len(<<>>) : FALSE
    BY <1>2
  <2> QED
    BY <2>1 DEF PartOf
<1>6. q # <<>> => PartOf(Tail(q), q)
  <2> HAVE q # <<>>
  <2> DEFINE t == Tail(q)
  <2>1. \A i \in 1..Len(t) : i + 1 \in 1..Len(q) /\ t[i] = q[i + 1]
    BY <1>3
  <2> HIDE DEF t
  <2>2. PartOf(t, q)
    BY <2>1 DEF PartOf
  <2> QED
    BY <2>2 DEF t
<1> QED
  BY <1>4, <1>5, <1>6

LEMMA PartKeeps ==
  ASSUME NEW q \in Seq(Envelope), NEW r \in Seq(Envelope), PartOf(r, q)
  PROVE  /\ InTurn(q) => InTurn(r)
         /\ \A s, era, top : Within(q, s, era, top) => Within(r, s, era, top)
         /\ \A s, era, base : Above(q, s, era, base) => Above(r, s, era, base)
<1>1. PICK k \in Nat : \A i \in 1..Len(r) : i + k \in 1..Len(q) /\ r[i] = q[i + k]
  BY DEF PartOf
<1>2. ASSUME InTurn(q), NEW i \in 1..Len(r), NEW j \in 1..Len(r), i < j PROVE Precedes(r[i], r[j])
  <2>1. i + k < j + k
    BY <1>2
  <2> QED
    BY <1>1, <1>2, <2>1 DEF InTurn
<1>3. ASSUME NEW s, NEW era, NEW top, Within(q, s, era, top) PROVE Within(r, s, era, top)
  BY <1>1, <1>3 DEF Within
<1>4. ASSUME NEW s, NEW era, NEW base, Above(q, s, era, base) PROVE Above(r, s, era, base)
  BY <1>1, <1>4 DEF Above
<1> QED
  BY <1>2, <1>3, <1>4 DEF InTurn

LEMMA PartsKeepBefore ==
  ASSUME NEW a, NEW b, NEW c, NEW d, PartOf(c, a), PartOf(d, b), Before(a, b)
  PROVE  Before(c, d)
<1>1. PICK k \in Nat : \A i \in 1..Len(c) : i + k \in 1..Len(a) /\ c[i] = a[i + k]
  BY DEF PartOf
<1>2. PICK m \in Nat : \A i \in 1..Len(d) : i + m \in 1..Len(b) /\ d[i] = b[i + m]
  BY DEF PartOf
<1> QED
  BY <1>1, <1>2 DEF Before

LEMMA HeadPrecedes ==
  ASSUME NEW q \in Seq(Envelope), q # <<>>
  PROVE  /\ InTurn(q) => \A i \in 1..Len(Tail(q)) : Precedes(Head(q), Tail(q)[i])
         /\ \A r : Before(q, r) => \A i \in 1..Len(r) : Precedes(Head(q), r[i])
         /\ \A r : Before(r, q) => \A i \in 1..Len(r) : Precedes(r[i], Head(q))
<1>1. /\ Len(q) \in Nat \ {0} /\ Head(q) = q[1] /\ 1 \in 1..Len(q)
      /\ \A i \in 1..Len(Tail(q)) : Tail(q)[i] = q[i + 1] /\ i + 1 \in 1..Len(q) /\ 1 < i + 1
  BY TailFacts
<1> QED
  BY <1>1 DEF InTurn, Before

LEMMA AppendOnward ==
  ASSUME NEW q \in Seq(Envelope), NEW e \in Envelope
  PROVE  /\ InTurn(q) /\ (\A i \in 1..Len(q) : Precedes(q[i], e)) => InTurn(Append(q, e))
         /\ \A r : Before(q, r) /\ (\A i \in 1..Len(r) : Precedes(e, r[i])) => Before(Append(q, e), r)
         /\ \A r : Before(r, q) /\ (\A i \in 1..Len(r) : Precedes(r[i], e)) => Before(r, Append(q, e))
         /\ \A s, era, top : Within(q, s, era, top) /\ (e.session = s /\ e.inc = era => e.id <= top)
              => Within(Append(q, e), s, era, top)
         /\ \A s, era, base : Above(q, s, era, base) /\ (e.session = s => e.inc = era /\ Beyond(base, e))
              => Above(Append(q, e), s, era, base)
<1> DEFINE a == Append(q, e)
<1>1. /\ Len(q) \in Nat /\ Len(a) = Len(q) + 1
      /\ \A i \in 1..Len(q) : a[i] = q[i]
      /\ a[Len(q) + 1] = e
  BY AppendFacts
<1> HIDE DEF a
<1>2. \A i \in 1..Len(a) : (i \in 1..Len(q) /\ a[i] = q[i]) \/ (i = Len(q) + 1 /\ a[i] = e)
  <2> TAKE i \in 1..Len(a)
  <2>1. i \in 1..Len(q) \/ i = Len(q) + 1
    BY <1>1
  <2> QED
    BY <1>1, <2>1
<1>3. ASSUME InTurn(q), \A i \in 1..Len(q) : Precedes(q[i], e),
             NEW i \in 1..Len(a), NEW j \in 1..Len(a), i < j
      PROVE  Precedes(a[i], a[j])
  <2>1. i \in 1..Len(q) /\ a[i] = q[i]
    BY <1>1, <1>3
  <2> QED
    BY <1>2, <1>3, <2>1 DEF InTurn
<1>4. InTurn(q) /\ (\A i \in 1..Len(q) : Precedes(q[i], e)) => InTurn(a)
  BY <1>3 DEF InTurn
<1>5. ASSUME NEW r, Before(q, r), \A i \in 1..Len(r) : Precedes(e, r[i]) PROVE Before(a, r)
  BY <1>2, <1>5 DEF Before
<1>6. ASSUME NEW r, Before(r, q), \A i \in 1..Len(r) : Precedes(r[i], e) PROVE Before(r, a)
  BY <1>2, <1>6 DEF Before
<1>7. ASSUME NEW s, NEW era, NEW top, Within(q, s, era, top), e.session = s /\ e.inc = era => e.id <= top
      PROVE  Within(a, s, era, top)
  BY <1>2, <1>7 DEF Within
<1>8. ASSUME NEW s, NEW era, NEW base, Above(q, s, era, base),
             e.session = s => e.inc = era /\ Beyond(base, e)
      PROVE  Above(a, s, era, base)
  BY <1>2, <1>8 DEF Above
<1> QED
  BY <1>4, <1>5, <1>6, <1>7, <1>8 DEF a

LEMMA EmptyOnward ==
  /\ InTurn(<<>>)
  /\ \A r : Before(<<>>, r) /\ Before(r, <<>>)
  BY DEF InTurn, Before

\* What was ahead of a shorter history is ahead of one that starts earlier.
LEMMA BeyondLess ==
  ASSUME NEW m \in Nat, NEW n \in Nat, m <= n, NEW e \in Envelope, Beyond(n, e)
  PROVE  Beyond(m, e)
<1>1. e.id \in Nat
  BY DEF Envelope
<1> QED
  BY <1>1 DEF Beyond

-----------------------------------------------------------------------------
(* The steps. *)

LEMMA Lines ==
  ASSUME TypeOK
  PROVE  /\ Queued \in Seq(Envelope) /\ Len(Queued) = Len(pending)
         /\ \A p \in Ports : wire[p] \in Seq(Envelope)
         /\ \A s \in Sessions : inc[s] \in Nat /\ hist[s] \in Nat /\ fenced[s] \in Nat
                                /\ view[s] \in Seq(Nat) /\ Len(view[s]) \in Nat
<1>1. pending \in Seq(Item) /\ wire \in [Ports -> Seq(Envelope)]
  BY DEF TypeOK, EmitterTypeOK
<1>2. /\ inc \in [Sessions -> Nat] /\ hist \in [Sessions -> Nat] /\ fenced \in [Sessions -> Nat]
      /\ view \in [Sessions -> Seq(Nat)]
  BY DEF TypeOK, EmitterTypeOK, RendererTypeOK
<1>3. \A s \in Sessions : view[s] \in Seq(Nat) /\ Len(view[s]) \in Nat
  BY <1>2
<1> QED
  BY <1>1, <1>2, <1>3, EnvelopesType DEF Queued

LEMMA AscendsInParts ==
  ASSUME TypeOK, TypeOK', Ascends, PartOf(Queued', Queued), \A p \in Ports : PartOf(wire'[p], wire[p])
  PROVE  Ascends'
<1>1. /\ Queued \in Seq(Envelope) /\ Queued' \in Seq(Envelope)
      /\ \A p \in Ports : wire[p] \in Seq(Envelope) /\ wire'[p] \in Seq(Envelope)
  <2>1. pending' \in Seq(Item) /\ wire' \in [Ports -> Seq(Envelope)]
    BY DEF TypeOK, EmitterTypeOK
  <2> QED
    BY <2>1, Lines, EnvelopesType DEF Queued
<1>2. InTurn(Queued')
  BY <1>1, PartKeeps DEF Ascends
<1>3. ASSUME NEW p \in Ports
      PROVE  /\ InTurn(wire'[p]) /\ Before(wire'[p], Queued')
             /\ \A r \in Ports : p < r => Before(wire'[p], wire'[r])
  <2>1. InTurn(wire'[p])
    BY <1>1, PartKeeps DEF Ascends
  <2>2. Before(wire'[p], Queued')
    BY PartsKeepBefore DEF Ascends
  <2>3. ASSUME NEW r \in Ports, p < r PROVE Before(wire'[p], wire'[r])
    BY <2>3, PartsKeepBefore DEF Ascends
  <2> QED
    BY <2>1, <2>2, <2>3
<1>4. InTurn(Queued)' /\ \A p \in Ports :
        /\ InTurn(wire[p])' /\ Before(wire[p], Queued)'
        /\ \A r \in Ports : p < r => Before(wire[p], wire[r])'
  BY <1>2, <1>3 DEF InTurn, Before
<1> QED
  BY <1>4 DEF Ascends

LEMMA WithinInParts ==
  ASSUME TypeOK, TypeOK', NEW s \in Sessions, WithinHistory(s),
         PartOf(Queued', Queued), \A p \in Ports : PartOf(wire'[p], wire[p]),
         inc'[s] = inc[s], hist[s] <= hist'[s]
  PROVE  WithinHistory(s)'
<1>1. /\ Queued \in Seq(Envelope) /\ Queued' \in Seq(Envelope)
      /\ \A p \in Ports : wire[p] \in Seq(Envelope) /\ wire'[p] \in Seq(Envelope)
  <2>1. pending' \in Seq(Item) /\ wire' \in [Ports -> Seq(Envelope)]
    BY DEF TypeOK, EmitterTypeOK
  <2> QED
    BY <2>1, Lines, EnvelopesType DEF Queued
<1>2. hist[s] \in Nat /\ hist'[s] \in Nat
  BY DEF TypeOK, EmitterTypeOK
<1>3. ASSUME NEW q \in Seq(Envelope), Within(q, s, inc[s], hist[s]) PROVE Within(q, s, inc[s], hist'[s])
  <2>1. \A i \in 1..Len(q) : q[i].id \in Nat
    BY EnvelopeParts
  <2> QED
    BY <1>2, <1>3, <2>1 DEF Within
<1>4. Within(Queued', s, inc[s], hist[s]) /\ \A p \in Ports : Within(wire'[p], s, inc[s], hist[s])
  BY <1>1, PartKeeps DEF WithinHistory
<1>5. Within(Queued', s, inc[s], hist'[s]) /\ \A p \in Ports : Within(wire'[p], s, inc[s], hist'[s])
  BY <1>1, <1>3, <1>4
<1> QED
  BY <1>5 DEF WithinHistory, Within

LEMMA ReachedInParts ==
  ASSUME TypeOK, TypeOK', NEW s \in Sessions, WithinHistory(s), Reached(s),
         PartOf(Queued', Queued), \A p \in Ports : PartOf(wire'[p], wire[p]),
         inc'[s] = inc[s], hist[s] <= hist'[s],
         fenced'[s] = inc[s] => fenced[s] = inc[s] /\ view'[s] = view[s]
  PROVE  WithinHistory(s)' /\ Reached(s)'
<1>1. /\ Queued \in Seq(Envelope) /\ Queued' \in Seq(Envelope)
      /\ \A p \in Ports : wire[p] \in Seq(Envelope) /\ wire'[p] \in Seq(Envelope)
  <2>1. pending' \in Seq(Item) /\ wire' \in [Ports -> Seq(Envelope)]
    BY DEF TypeOK, EmitterTypeOK
  <2> QED
    BY <2>1, Lines, EnvelopesType DEF Queued
<1>2. /\ inc[s] \in Nat /\ hist[s] \in Nat /\ hist'[s] \in Nat /\ Len(view[s]) \in Nat
  <2>1. hist' \in [Sessions -> Nat]
    BY DEF TypeOK, EmitterTypeOK
  <2> QED
    BY <2>1, Lines
<1>3. WithinHistory(s)'
  BY WithinInParts
<1>4. ASSUME fenced'[s] = inc[s]
      PROVE  /\ Len(view'[s]) <= hist'[s]
             /\ Above(Queued', s, inc[s], Len(view'[s]))
             /\ \A p \in Ports : Above(wire'[p], s, inc[s], Len(view'[s]))
  <2>1. /\ Len(view[s]) <= hist[s]
        /\ Above(Queued, s, inc[s], Len(view[s]))
        /\ \A p \in Ports : Above(wire[p], s, inc[s], Len(view[s]))
    BY <1>4 DEF Reached
  <2>2. /\ Above(Queued', s, inc[s], Len(view[s]))
        /\ \A p \in Ports : Above(wire'[p], s, inc[s], Len(view[s]))
    BY <1>1, <2>1, PartKeeps
  <2> QED
    BY <1>2, <1>4, <2>1, <2>2
<1>5. Reached(s)'
  BY <1>4 DEF Reached, Above, Beyond
<1> QED
  BY <1>3, <1>5

LEMMA PostMoves ==
  ASSUME TypeOK, Post(openEnd)
  PROVE  /\ hport \in Ports /\ Queued # <<>> /\ Queued' = Tail(Queued) /\ Head(Queued) \in Envelope
         /\ \A p \in Ports : \/ wire'[p] = wire[p]
                             \/ p = hport /\ wire'[p] = Append(wire[p], Head(Queued))
         /\ UNCHANGED <<phase, inc, hist>>
<1>1. /\ pending # <<>> /\ hport # 0 /\ pending' = Tail(pending)
      /\ wire' = IF hport \in openEnd THEN [wire EXCEPT ![hport] = Append(@, Head(pending).envelope)] ELSE wire
      /\ UNCHANGED <<phase, inc, hist>>
  BY DEF Post, CanPost
<1>2. /\ hport \in Ports /\ pending \in Seq(Item) /\ wire \in [Ports -> Seq(Envelope)]
  BY <1>1 DEF TypeOK, EmitterTypeOK
<1>3. Queued # <<>> /\ Queued' = Tail(Queued) /\ Head(Queued) = Head(pending).envelope
  BY <1>1, <1>2, QueueLosesHead DEF Queued
<1>4. Head(Queued) \in Envelope
  BY <1>3, Lines, TailFacts
<1> QED
  BY <1>1, <1>2, <1>3, <1>4

LEMMA PostAscends ==
  ASSUME TypeOK, TypeOK', PortsInOrder, PortsPass, Ascends, Post(openEnd) PROVE Ascends'
<1>1. PICK e \in Envelope : e = Head(Queued)
  BY PostMoves
<1>2. PICK t \in Seq(Envelope) : t = Tail(Queued)
  BY PostMoves, Lines, TailFacts
<1>3. /\ hport \in Ports /\ Queued # <<>> /\ Queued' = t
      /\ \A p \in Ports : wire'[p] = wire[p] \/ (p = hport /\ wire'[p] = Append(wire[p], e))
  BY <1>1, <1>2, PostMoves
<1>4. Queued \in Seq(Envelope) /\ \A p \in Ports : wire[p] \in Seq(Envelope)
  BY Lines
<1>5. /\ \A i \in 1..Len(t) : Precedes(e, t[i])
      /\ \A p \in Ports : \A i \in 1..Len(wire[p]) : Precedes(wire[p][i], e)
  BY <1>1, <1>2, <1>3, <1>4, HeadPrecedes DEF Ascends
<1>6. InTurn(t) /\ \A p \in Ports : Before(wire[p], t)
  <2>1. PartOf(t, Queued) /\ \A p \in Ports : PartOf(wire[p], wire[p])
    BY <1>2, <1>3, <1>4, PartsOf
  <2>2. InTurn(t)
    BY <1>4, <2>1, PartKeeps DEF Ascends
  <2> QED
    BY <2>1, <2>2, PartsKeepBefore DEF Ascends
<1>7. \A r \in Ports : hport < r => wire[r] = <<>>
  <2>1. hport # 0 /\ hport <= taken /\ hport = taken
    BY <1>3, PortAssumption DEF PortsInOrder, PortsPass, UsesLastPort
  <2> QED
    BY <2>1 DEF PortsInOrder
<1>8. ASSUME NEW p \in Ports
      PROVE  /\ InTurn(wire'[p]) /\ Before(wire'[p], t)
             /\ \A r \in Ports : p < r => Before(wire'[p], wire'[r])
  <2>1. InTurn(wire'[p]) /\ Before(wire'[p], t)
    <3>1. CASE wire'[p] = wire[p]
      BY <1>6, <3>1 DEF Ascends
    <3>2. CASE wire'[p] = Append(wire[p], e)
      <4>1. InTurn(Append(wire[p], e))
        BY <1>4, <1>5, AppendOnward DEF Ascends
      <4>2. Before(Append(wire[p], e), t)
        BY <1>4, <1>5, <1>6, AppendOnward
      <4> QED
        BY <3>2, <4>1, <4>2
    <3> QED
      BY <1>3, <3>1, <3>2
  <2>2. ASSUME NEW r \in Ports, p < r PROVE Before(wire'[p], wire'[r])
    <3>1. Before(wire[p], wire[r])
      BY <2>2 DEF Ascends
    <3>2. Before(wire'[p], wire[r])
      <4>1. CASE wire'[p] = wire[p]
        BY <3>1, <4>1
      <4>2. CASE wire'[p] # wire[p]
        <5>1. p = hport
          BY <1>3, <4>2
        <5>2. wire[r] = <<>>
          BY <1>7, <2>2, <5>1
        <5> QED
          BY <5>2, EmptyOnward
      <4> QED
        BY <4>1, <4>2
    <3>3. CASE wire'[r] = wire[r]
      BY <3>2, <3>3
    <3>4. CASE r = hport /\ wire'[r] = Append(wire[r], e)
      <4>1. p # hport
        BY <2>2, <3>4, PortAssumption
      <4>2. wire'[p] = wire[p]
        BY <1>3, <4>1
      <4>3. Before(wire[p], Append(wire[r], e))
        BY <1>4, <1>5, <3>1, AppendOnward
      <4> QED
        BY <3>4, <4>2, <4>3
    <3> QED
      BY <1>3, <3>3, <3>4
  <2> QED
    BY <2>1, <2>2
<1>9. InTurn(Queued)' /\ \A p \in Ports :
        /\ InTurn(wire[p])' /\ Before(wire[p], Queued)'
        /\ \A r \in Ports : p < r => Before(wire[p], wire[r])'
  BY <1>3, <1>6, <1>8 DEF InTurn, Before
<1> QED
  BY <1>9 DEF Ascends

LEMMA PostReaches ==
  ASSUME TypeOK, TypeOK', NEW s \in Sessions, WithinHistory(s), Reached(s), Post(openEnd),
         fenced'[s] = inc[s] => fenced[s] = inc[s] /\ view'[s] = view[s]
  PROVE  WithinHistory(s)' /\ Reached(s)'
<1>1. PICK e \in Envelope : e = Head(Queued)
  BY PostMoves
<1>2. PICK t \in Seq(Envelope) : t = Tail(Queued)
  BY PostMoves, Lines, TailFacts
<1>3. /\ hport \in Ports /\ Queued # <<>> /\ Queued' = t /\ UNCHANGED <<inc, hist>>
      /\ \A p \in Ports : wire'[p] = wire[p] \/ (p = hport /\ wire'[p] = Append(wire[p], e))
  BY <1>1, <1>2, PostMoves
<1>4. Queued \in Seq(Envelope) /\ \A p \in Ports : wire[p] \in Seq(Envelope)
  BY Lines
<1>5. PartOf(t, Queued) /\ e = Queued[1] /\ 1 \in 1..Len(Queued)
  BY <1>1, <1>2, <1>3, <1>4, PartsOf, TailFacts
<1>6. /\ Within(t, s, inc[s], hist[s])
      /\ e.session = s /\ e.inc = inc[s] => e.id <= hist[s]
  <2>1. Within(Queued, s, inc[s], hist[s])
    BY DEF WithinHistory
  <2>2. Within(t, s, inc[s], hist[s])
    BY <1>4, <1>5, <2>1, PartKeeps
  <2> QED
    BY <1>5, <2>1, <2>2 DEF Within
<1>7. ASSUME NEW p \in Ports PROVE Within(wire'[p], s, inc[s], hist[s])
  <2>1. Within(wire[p], s, inc[s], hist[s])
    BY DEF WithinHistory
  <2>2. Within(Append(wire[p], e), s, inc[s], hist[s])
    BY <1>4, <1>6, <2>1, AppendOnward
  <2> QED
    BY <1>3, <2>1, <2>2
<1>8. WithinHistory(s)'
  BY <1>3, <1>6, <1>7 DEF WithinHistory, Within
<1>9. ASSUME fenced[s] = inc[s]
      PROVE  /\ Len(view[s]) <= hist[s]
             /\ Above(t, s, inc[s], Len(view[s]))
             /\ \A p \in Ports : Above(wire'[p], s, inc[s], Len(view[s]))
  <2>1. /\ Len(view[s]) <= hist[s]
        /\ Above(Queued, s, inc[s], Len(view[s]))
        /\ \A p \in Ports : Above(wire[p], s, inc[s], Len(view[s]))
    BY <1>9 DEF Reached
  <2>2. Above(t, s, inc[s], Len(view[s]))
    BY <1>4, <1>5, <2>1, PartKeeps
  <2>3. e.session = s => e.inc = inc[s] /\ Beyond(Len(view[s]), e)
    BY <1>5, <2>1 DEF Above
  <2>4. ASSUME NEW p \in Ports PROVE Above(wire'[p], s, inc[s], Len(view[s]))
    <3>1. Above(Append(wire[p], e), s, inc[s], Len(view[s]))
      BY <1>4, <2>1, <2>3, AppendOnward
    <3> QED
      BY <1>3, <2>1, <3>1
  <2> QED
    BY <2>1, <2>2, <2>4
<1>10. ASSUME fenced'[s] = inc[s]
       PROVE  /\ Len(view'[s]) <= hist[s]
              /\ Above(t, s, inc[s], Len(view'[s]))
              /\ \A p \in Ports : Above(wire'[p], s, inc[s], Len(view'[s]))
  BY <1>9, <1>10
<1>11. Reached(s)'
  BY <1>3, <1>10 DEF Reached, Above, Beyond
<1> QED
  BY <1>8, <1>11

LEMMA LinesOfThePast ==
  ASSUME TypeOK, ErasPast
  PROVE  /\ \A i \in 1..Len(Queued) : Queued[i].inc <= inc[Queued[i].session]
         /\ \A p \in Ports : \A i \in 1..Len(wire[p]) : wire[p][i].inc <= inc[wire[p][i].session]
<1>1. pending \in Seq(Item) /\ \A p \in Ports : wire[p] \in Seq(Envelope)
  BY Lines DEF TypeOK, EmitterTypeOK
<1>2. Len(Queued) = Len(pending) /\ \A i \in 1..Len(pending) : Queued[i] = pending[i].envelope
  BY <1>1, EnvelopesType DEF Queued
<1>3. DOMAIN pending = 1..Len(pending) /\ \A p \in Ports : DOMAIN wire[p] = 1..Len(wire[p])
  BY <1>1
<1> QED
  BY <1>2, <1>3 DEF ErasPast

\* What is emitted of a session goes behind all of it that is under way.
LEMMA EmitAscends ==
  ASSUME TypeOK, TypeOK', Ascends, ErasPast, NEW e \in Envelope, NEW rest, Emit(e, rest),
         e.inc = inc[e.session], Beyond(hist[e.session], e),
         e.kind # "stream_gap" => WithinHistory(e.session)
  PROVE  Ascends'
<1>1. Queued \in Seq(Envelope) /\ \A p \in Ports : wire[p] \in Seq(Envelope)
  BY Lines
<1>2. e.session \in Sessions /\ e.inc \in Nat /\ e.id \in Nat /\ hist[e.session] \in Nat
  BY Lines DEF Envelope
<1>3. ASSUME NEW q \in Seq(Envelope), NEW i \in 1..Len(q), q[i].inc <= inc[q[i].session],
             e.kind # "stream_gap" => Within(q, e.session, inc[e.session], hist[e.session])
      PROVE  Precedes(q[i], e)
  <2>1. q[i] \in Envelope /\ q[i].id \in Nat /\ q[i].inc \in Nat
    BY EnvelopeParts
  <2>2. SUFFICES ASSUME q[i].session = e.session, q[i].inc = e.inc PROVE Beyond(q[i].id, e)
    BY <1>3 DEF Precedes
  <2>3. CASE e.kind = "stream_gap"
    BY <2>3 DEF Beyond
  <2>4. CASE e.kind # "stream_gap"
    <3>1. q[i].id <= hist[e.session]
      BY <1>3, <2>2, <2>4 DEF Within
    <3> QED
      BY <1>2, <2>1, <3>1, BeyondLess
  <2> QED
    BY <2>3, <2>4
<1>4. \A i \in 1..Len(Queued) : Precedes(Queued[i], e)
  <2> TAKE i \in 1..Len(Queued)
  <2>1. Queued[i].inc <= inc[Queued[i].session]
    BY LinesOfThePast
  <2> QED
    BY <1>1, <1>3, <2>1 DEF WithinHistory
<1>5. \A p \in Ports : \A i \in 1..Len(wire[p]) : Precedes(wire[p][i], e)
  <2> TAKE p \in Ports
  <2> TAKE i \in 1..Len(wire[p])
  <2>1. wire[p][i].inc <= inc[wire[p][i].session]
    BY LinesOfThePast
  <2> QED
    BY <1>1, <1>3, <2>1 DEF WithinHistory
<1>6. wire' = wire
  BY DEF Emit
<1>7. CASE Overflows(e)
  <2>1. Queued' = <<>>
    BY <1>7, QueueGains DEF Queued
  <2>2. PartOf(Queued', Queued) /\ \A p \in Ports : PartOf(wire'[p], wire[p])
    BY <1>1, <1>6, <2>1, PartsOf
  <2> QED
    BY <2>2, AscendsInParts
<1>8. CASE ~Overflows(e)
  <2>1. Queued' = Append(Queued, e)
    BY <1>8, QueueGains DEF Queued
  <2>2. InTurn(Append(Queued, e))
    BY <1>1, <1>4, AppendOnward DEF Ascends
  <2>3. \A p \in Ports : Before(wire[p], Append(Queued, e))
    BY <1>1, <1>5, AppendOnward DEF Ascends
  <2>4. InTurn(Queued)' /\ \A p \in Ports :
          /\ InTurn(wire[p])' /\ Before(wire[p], Queued)'
          /\ \A r \in Ports : p < r => Before(wire[p], wire[r])'
    BY <1>6, <2>1, <2>2, <2>3 DEF InTurn, Before, Ascends
  <2> QED
    BY <2>4 DEF Ascends
<1> QED
  BY <1>7, <1>8

LEMMA EmitReaches ==
  ASSUME TypeOK, TypeOK', NEW s \in Sessions, WithinHistory(s), Reached(s),
         NEW e \in Envelope, NEW rest, Emit(e, rest),
         e.inc = inc[e.session], Beyond(hist[e.session], e), e.session = s => e.id <= hist'[s],
         inc'[s] = inc[s], hist[s] <= hist'[s],
         fenced'[s] = inc[s] => fenced[s] = inc[s] /\ view'[s] = view[s]
  PROVE  WithinHistory(s)' /\ Reached(s)'
<1>1. /\ Queued \in Seq(Envelope) /\ \A p \in Ports : wire[p] \in Seq(Envelope)
      /\ inc[s] \in Nat /\ hist[s] \in Nat /\ hist'[s] \in Nat /\ Len(view[s]) \in Nat
  <2>1. hist' \in [Sessions -> Nat]
    BY DEF TypeOK, EmitterTypeOK
  <2> QED
    BY <2>1, Lines
<1>2. wire' = wire
  BY DEF Emit
<1>3. CASE Overflows(e)
  <2>1. Queued' = <<>>
    BY <1>3, QueueGains DEF Queued
  <2>2. PartOf(Queued', Queued) /\ \A p \in Ports : PartOf(wire'[p], wire[p])
    BY <1>1, <1>2, <2>1, PartsOf
  <2> QED
    BY <2>2, ReachedInParts
<1>4. CASE ~Overflows(e)
  <2>1. Queued' = Append(Queued, e)
    BY <1>4, QueueGains DEF Queued
  <2>2. ASSUME NEW q \in Seq(Envelope), Within(q, s, inc[s], hist[s]) PROVE Within(q, s, inc[s], hist'[s])
    <3>1. \A i \in 1..Len(q) : q[i].id \in Nat
      BY EnvelopeParts
    <3> QED
      BY <1>1, <2>2, <3>1 DEF Within
  <2>3. Within(Append(Queued, e), s, inc[s], hist'[s]) /\ \A p \in Ports : Within(wire[p], s, inc[s], hist'[s])
    <3>1. Within(Queued, s, inc[s], hist'[s]) /\ \A p \in Ports : Within(wire[p], s, inc[s], hist'[s])
      BY <1>1, <2>2 DEF WithinHistory
    <3> QED
      BY <1>1, <3>1, AppendOnward
  <2>4. WithinHistory(s)'
    BY <1>2, <2>1, <2>3 DEF WithinHistory, Within
  <2>5. ASSUME fenced[s] = inc[s]
        PROVE  /\ Len(view[s]) <= hist'[s]
               /\ Above(Append(Queued, e), s, inc[s], Len(view[s]))
               /\ \A p \in Ports : Above(wire[p], s, inc[s], Len(view[s]))
    <3>1. /\ Len(view[s]) <= hist[s]
          /\ Above(Queued, s, inc[s], Len(view[s]))
          /\ \A p \in Ports : Above(wire[p], s, inc[s], Len(view[s]))
      BY <2>5 DEF Reached
    <3>2. e.session = s => e.inc = inc[s] /\ Beyond(Len(view[s]), e)
      BY <1>1, <3>1, BeyondLess
    <3>3. Above(Append(Queued, e), s, inc[s], Len(view[s]))
      BY <1>1, <3>1, <3>2, AppendOnward
    <3> QED
      BY <1>1, <3>1, <3>3
  <2>6. ASSUME fenced'[s] = inc[s]
        PROVE  /\ Len(view'[s]) <= hist'[s]
               /\ Above(Append(Queued, e), s, inc[s], Len(view'[s]))
               /\ \A p \in Ports : Above(wire[p], s, inc[s], Len(view'[s]))
    BY <2>5, <2>6
  <2>7. Reached(s)'
    BY <1>2, <2>1, <2>6 DEF Reached, Above, Beyond
  <2> QED
    BY <2>4, <2>7
<1> QED
  BY <1>3, <1>4

\* A session registered anew has sent nothing and is shown by nobody.
LEMMA NewEra ==
  ASSUME TypeOK, TypeOK', ErasPast, NEW s \in Sessions, inc[s] < inc'[s],
         UNCHANGED <<wire, pending, fenced>>
  PROVE  WithinHistory(s)' /\ Reached(s)'
<1>1. /\ Queued \in Seq(Envelope) /\ \A p \in Ports : wire[p] \in Seq(Envelope)
      /\ inc[s] \in Nat /\ inc'[s] \in Nat /\ fenced[s] \in Nat
  <2>1. inc' \in [Sessions -> Nat]
    BY DEF TypeOK, EmitterTypeOK
  <2> QED
    BY <2>1, Lines
<1>2. \A i \in 1..Len(Queued) : Queued[i].session = s => Queued[i].inc # inc'[s]
  <2> TAKE i \in 1..Len(Queued)
  <2>1. Queued[i].inc <= inc[Queued[i].session] /\ Queued[i].inc \in Nat
    BY <1>1, LinesOfThePast, EnvelopeParts
  <2> QED
    BY <1>1, <2>1
<1>3. \A p \in Ports : \A i \in 1..Len(wire[p]) : wire[p][i].session = s => wire[p][i].inc # inc'[s]
  <2> TAKE p \in Ports
  <2> TAKE i \in 1..Len(wire[p])
  <2>1. wire[p][i].inc <= inc[wire[p][i].session] /\ wire[p][i].inc \in Nat
    BY <1>1, LinesOfThePast, EnvelopeParts
  <2> QED
    BY <1>1, <2>1
<1>4. fenced[s] # inc'[s]
  BY <1>1 DEF ErasPast
<1>5. Queued' = Queued
  BY DEF Queued
<1>6. WithinHistory(s)'
  BY <1>2, <1>3, <1>5 DEF WithinHistory, Within
<1>7. Reached(s)'
  BY <1>4 DEF Reached
<1> QED
  BY <1>6, <1>7

-----------------------------------------------------------------------------
(* Receiving. *)

\* The front of the wire goes before everything there is.
LEMMA FrontPrecedes ==
  ASSUME TypeOK, TypeOK', PortsPass, Ascends, CanDeliver, Taken
  PROVE  LET e == Head(wire[rport]) IN
           /\ \A i \in 1..Len(Queued') : Precedes(e, Queued'[i])
           /\ \A p \in Ports : \A i \in 1..Len(wire'[p]) : Precedes(e, wire'[p][i])
           /\ PartOf(Queued', Queued) /\ \A p \in Ports : PartOf(wire'[p], wire[p])
<1> DEFINE e == Head(wire[rport])
<1>1. /\ rport \in Ports /\ wire[rport] # <<>> /\ e \in Envelope /\ Queued' = Queued
      /\ wire' = [wire EXCEPT ![rport] = Tail(wire[rport])] /\ wire \in [Ports -> Seq(Envelope)]
  BY TakenFacts DEF Queued, TypeOK, EmitterTypeOK
<1>2. Queued \in Seq(Envelope) /\ wire[rport] \in Seq(Envelope)
  BY <1>1, Lines
<1>3. \A i \in 1..Len(Queued) : Precedes(e, Queued[i])
  BY <1>1, <1>2, HeadPrecedes DEF Ascends
<1>4. ASSUME NEW p \in Ports, NEW i \in 1..Len(wire'[p]) PROVE Precedes(e, wire'[p][i])
  <2>1. CASE p = rport
    <3>1. wire'[p] = Tail(wire[rport])
      BY <1>1, <2>1
    <3>2. InTurn(wire[rport])
      BY <1>1 DEF Ascends
    <3> QED
      BY <1>1, <1>2, <1>4, <3>1, <3>2, HeadPrecedes
  <2>2. CASE rport < p
    <3>1. wire'[p] = wire[p] /\ Before(wire[rport], wire[p])
      BY <1>1, <2>2, PortAssumption DEF Ascends
    <3> QED
      BY <1>1, <1>2, <1>4, <3>1, HeadPrecedes
  <2>3. CASE p < rport
    <3>1. wire'[p] = wire[p] /\ p # rport
      BY <1>1, <2>3, PortAssumption
    <3>2. wire[p] = <<>>
      BY <1>1, <2>3, PortAssumption DEF PortsPass, NothingBehind
    <3> QED
      BY <1>4, <3>1, <3>2
  <2> QED
    BY <1>1, <2>1, <2>2, <2>3, PortAssumption
<1>5. PartOf(Queued, Queued)
  BY <1>2, PartsOf
<1>6. ASSUME NEW p \in Ports PROVE PartOf(wire'[p], wire[p])
  <2>1. wire'[p] = IF p = rport THEN Tail(wire[rport]) ELSE wire[p]
    BY <1>1
  <2>2. wire[p] \in Seq(Envelope)
    BY <1>1
  <2> QED
    BY <1>1, <2>1, <2>2, PartsOf
<1> QED
  BY <1>1, <1>3, <1>4, <1>5, <1>6

\* What is received carries the view onward, and what comes after it still will.
LEMMA DeliverReaches ==
  ASSUME TypeOK, TypeOK', PortsPass, ErasPast, Ascends, NEW s \in Sessions, WithinHistory(s), Reached(s), Deliver
  PROVE  /\ WithinHistory(s)' /\ Reached(s)'
         /\ fenced[s] = inc[s] /\ fenced'[s] = inc[s] => Len(view[s]) <= Len(view'[s])
<1>1. CanDeliver /\ Taken
  BY DEF Deliver
<1>2. PICK e \in Envelope : e = Head(wire[rport])
  BY <1>1, TakenFacts
<1>3. /\ rport \in Ports /\ wire[rport] \in Seq(Envelope) /\ wire[rport] # <<>>
      /\ UNCHANGED <<inc, hist>>
  BY <1>1, TakenFacts
<1>4. /\ \A i \in 1..Len(Queued') : Precedes(e, Queued'[i])
      /\ \A p \in Ports : \A i \in 1..Len(wire'[p]) : Precedes(e, wire'[p][i])
      /\ PartOf(Queued', Queued) /\ \A p \in Ports : PartOf(wire'[p], wire[p])
  BY <1>1, <1>2, FrontPrecedes
<1>5. /\ inc[s] \in Nat /\ hist[s] \in Nat /\ fenced[s] \in Nat /\ view[s] \in Seq(Nat) /\ Len(view[s]) \in Nat
      /\ e.id \in Nat /\ e.inc \in Nat /\ e.session \in Sessions
  BY Lines DEF Envelope
<1>6. Receive(e)
  BY <1>2 DEF Deliver
<1>7. e = wire[rport][1] /\ 1 \in 1..Len(wire[rport])
  BY <1>2, <1>3, TailFacts
<1>8. /\ e.session = s /\ e.inc = inc[s] => e.id <= hist[s]
      /\ e.session = s => e.inc <= inc[s]
      /\ fenced[s] = inc[s] /\ e.session = s => e.inc = inc[s] /\ Beyond(Len(view[s]), e)
  BY <1>3, <1>7, LinesOfThePast DEF WithinHistory, Within, Reached, Above
<1>9. ASSUME view'[s] = view[s], fenced'[s] = fenced[s]
      PROVE  /\ WithinHistory(s)' /\ Reached(s)'
             /\ fenced[s] = inc[s] /\ fenced'[s] = inc[s] => Len(view[s]) <= Len(view'[s])
  <2>1. inc'[s] = inc[s] /\ hist[s] <= hist'[s]
    BY <1>3, <1>5
  <2>2. fenced'[s] = inc[s] => fenced[s] = inc[s] /\ view'[s] = view[s]
    BY <1>9
  <2>3. WithinHistory(s)' /\ Reached(s)'
    BY <1>4, <2>1, <2>2, ReachedInParts
  <2> QED
    BY <1>5, <1>9, <2>3
\* The view does not go further than e, and all that comes behind e does.
<1>10. ASSUME e.session = s, fenced'[s] = inc[s] => e.inc = inc[s] /\ Len(view'[s]) <= e.id
       PROVE  WithinHistory(s)' /\ Reached(s)'
  <2>1. inc'[s] = inc[s] /\ hist'[s] = hist[s] /\ hist[s] <= hist'[s]
    BY <1>3, <1>5
  <2>2. WithinHistory(s)'
    BY <1>4, <2>1, WithinInParts
  <2>3. view'[s] \in Seq(Nat) /\ Len(view'[s]) \in Nat
    <3>1. view' \in [Sessions -> Seq(Nat)]
      BY DEF TypeOK, RendererTypeOK
    <3> QED
      BY <3>1
  <2>4. ASSUME NEW f \in Envelope, f.session = s, f.inc <= inc[s], Precedes(e, f), fenced'[s] = inc[s]
        PROVE  f.inc = inc[s] /\ Beyond(Len(view'[s]), f)
    <3>1. f.inc \in Nat
      BY DEF Envelope
    <3>2. f.inc = inc[s] /\ Beyond(e.id, f)
      BY <1>5, <1>10, <2>4, <3>1 DEF Precedes
    <3> QED
      BY <1>5, <1>10, <2>3, <2>4, <3>2, BeyondLess
  <2>5. ASSUME NEW q \in Seq(Envelope), NEW r, PartOf(r, q), fenced'[s] = inc[s],
               \A i \in 1..Len(r) : Precedes(e, r[i]),
               \A i \in 1..Len(q) : q[i].inc <= inc[q[i].session]
        PROVE  Above(r, s, inc[s], Len(view'[s]))
    <3>1. SUFFICES ASSUME NEW i \in 1..Len(r), r[i].session = s
                   PROVE  r[i].inc = inc[s] /\ Beyond(Len(view'[s]), r[i])
      BY DEF Above
    <3>2. PICK k \in Nat : i + k \in 1..Len(q) /\ r[i] = q[i + k]
      BY <2>5 DEF PartOf
    <3>3. r[i] \in Envelope /\ r[i].inc <= inc[s]
      BY <2>5, <3>1, <3>2, EnvelopeParts
    <3> QED
      BY <2>4, <2>5, <3>1, <3>3
  <2>6. ASSUME fenced'[s] = inc[s]
        PROVE  /\ Len(view'[s]) <= hist[s]
               /\ Above(Queued', s, inc[s], Len(view'[s]))
               /\ \A p \in Ports : Above(wire'[p], s, inc[s], Len(view'[s]))
    <3>1. Len(view'[s]) <= hist[s]
      BY <1>5, <1>8, <1>10, <2>3, <2>6
    <3>2. Above(Queued', s, inc[s], Len(view'[s]))
      BY <1>4, <2>5, <2>6, Lines, LinesOfThePast
    <3>3. \A p \in Ports : Above(wire'[p], s, inc[s], Len(view'[s]))
      BY <1>4, <2>5, <2>6, Lines, LinesOfThePast
    <3> QED
      BY <3>1, <3>2, <3>3
  <2>7. Reached(s)'
    BY <2>1, <2>6 DEF Reached, Above, Beyond
  <2> QED
    BY <2>2, <2>7
<1>11. CASE e.session # s
  <2>1. view'[s] = view[s] /\ fenced'[s] = fenced[s]
    BY <1>6, <1>11, ReceivedElsewhere DEF Untouched
  <2> QED
    BY <1>9, <2>1
<1>12. CASE e.session = s /\ e.kind = "session_snapshot"
  <2>1. view'[s] = History(e.id) /\ fenced'[s] = e.inc
    BY <1>6, <1>12, ReceivedFence
  <2>2. Len(view'[s]) = e.id
    BY <1>5, <2>1, HistoryLength
  <2>3. fenced[s] = inc[s] => Len(view[s]) <= e.id
    BY <1>8, <1>12 DEF Beyond
  <2>4. WithinHistory(s)' /\ Reached(s)'
    BY <1>5, <1>10, <1>12, <2>1, <2>2
  <2> QED
    BY <2>2, <2>3, <2>4
<1>13. CASE e.session = s /\ e.kind # "session_snapshot"
  <2>1. fenced' = fenced /\ (view' = view \/ (e.kind = "content" /\ view' = [view EXCEPT ![s] = Append(@, e.id)]))
    BY <1>6, <1>13 DEF Receive, ApplyContent, projectionVars
  <2>2. CASE view' = view
    BY <1>9, <2>1, <2>2
  <2>3. CASE e.kind = "content" /\ view' = [view EXCEPT ![s] = Append(@, e.id)]
    <3>1. view'[s] = Append(view[s], e.id)
      <4>1. view \in [Sessions -> Seq(Nat)]
        BY DEF TypeOK, RendererTypeOK
      <4> QED
        BY <2>3, <4>1
    <3>2. Len(view'[s]) = Len(view[s]) + 1
      BY <1>5, <3>1
    <3>3. fenced[s] = inc[s] => e.inc = inc[s] /\ Len(view[s]) < e.id
      BY <1>8, <1>13, <2>3 DEF Beyond
    <3>4. WithinHistory(s)' /\ Reached(s)'
      BY <1>5, <1>10, <1>13, <2>1, <3>2, <3>3
    <3> QED
      BY <1>5, <3>2, <3>4
  <2> QED
    BY <2>1, <2>2, <2>3
<1> QED
  BY <1>11, <1>12, <1>13

-----------------------------------------------------------------------------
(* Ports pass. *)

LEMMA UsesLastPortStep ==
  ASSUME TypeOK, UsesLastPort, Next PROVE UsesLastPort'
<1>1. hport \in Nat /\ taken \in Nat
  BY PortAssumption DEF TypeOK, EmitterTypeOK, MainTypeOK
<1>2. CASE HostAttach
  BY <1>1, <1>2 DEF HostAttach, Attach, UsesLastPort
<1>3. CASE HostPortClosed \/ \E announced \in BOOLEAN : HostExit(announced)
  BY <1>3 DEF HostPortClosed, PortClosed, HostExit, UsesLastPort
<1>4. CASE HostContinues
  BY <1>4 DEF HostContinues, Post, AnnounceGap, Resync, ReleaseOne, Emit, mainVars, UsesLastPort
<1>5. CASE HostAck \/ HostResync \/ IssuePort \/ HostStart
  BY <1>5 DEF HostAck, Acknowledge, HostResync, IssuePort, HostStart, emitterVars, mainVars, UsesLastPort
<1>6. CASE Connect \/ Disconnect \/ Reload \/ FlushAcks \/ Deliver \/ Reject
  BY <1>6 DEF Connect, Disconnect, Reload, FlushAcks, Deliver, Reject, Taken, emitterVars, mainVars, UsesLastPort
<1>7. ASSUME NEW s \in Sessions, SessionStep(s) PROVE UsesLastPort'
  BY <1>7 DEF SessionStep, PiEvent, CompactionEnd, HostOpen, HostOpened, HostClose, ForgetSession, RequestOpen,
     InstallSnapshot, RequestClose, CloseProjection, Emit, emitterVars, mainVars, UsesLastPort
<1> QED
  BY <1>2, <1>3, <1>4, <1>5, <1>6, <1>7 DEF Next

\* What a step can do to the ports on their way, the renderer's and those it has closed.
LEMMA PortMoves ==
  ASSUME Next
  PROVE  \/ UNCHANGED <<inbox, rport, issued, openEnd>>
         \/ IssuePort
         \/ inbox' = Append(inbox, 0) /\ UNCHANGED <<rport, issued, openEnd>>
         \/ Connect \/ Disconnect \/ Reload
<1>1. CASE HostContinues \/ HostAttach \/ HostPortClosed \/ HostAck \/ HostResync \/ HostStart
  BY <1>1 DEF HostContinues, HostAttach, HostPortClosed, HostAck, HostResync, HostStart, channelVars,
     rendererVars, intakeVars, mainVars
<1>2. CASE FlushAcks \/ Deliver \/ Reject
  BY <1>2 DEF FlushAcks, Deliver, Reject, Taken, channelVars, mainVars
<1>3. ASSUME NEW s \in Sessions, SessionStep(s) PROVE UNCHANGED <<inbox, rport, issued, openEnd>>
  BY <1>3 DEF SessionStep, PiEvent, CompactionEnd, HostOpen, HostOpened, HostClose, RequestOpen,
     InstallSnapshot, RequestClose, CloseProjection, channelVars, rendererVars, intakeVars, mainVars
<1>4. ASSUME NEW announced \in BOOLEAN, HostExit(announced)
      PROVE  UNCHANGED <<rport, issued, openEnd>> /\ (inbox' = inbox \/ inbox' = Append(inbox, 0))
  BY <1>4 DEF HostExit, rendererVars, intakeVars
<1> QED
  BY <1>1, <1>2, <1>3, <1>4 DEF Next

LEMMA InboxStep ==
  ASSUME TypeOK, PortsInOrder, PortsStandOpen, InboxRises, OpenAreAhead, Next
  PROVE  InboxRises' /\ OpenAreAhead'
<1>1. /\ inbox \in Seq(Ports \cup {0}) /\ Ports \subseteq Nat \ {0} /\ issued \in Nat /\ rport \in Nat
      /\ Len(inbox) \in Nat /\ openEnd \subseteq Ports
  BY PortAssumption DEF TypeOK, MainTypeOK, RendererTypeOK
<1>2. \A i \in 1..Len(inbox) : inbox[i] \in Nat /\ inbox[i] <= issued
  <2> TAKE i \in 1..Len(inbox)
  <2>1. inbox[i] \in Ports \cup {0} /\ i \in DOMAIN inbox
    BY <1>1
  <2>2. inbox[i] # 0 => inbox[i] <= issued
    BY <2>1 DEF PortsStandOpen
  <2>3. Ports \cup {0} \subseteq Nat
    BY <1>1
  <2>4. inbox[i] \in Nat
    BY <2>1, <2>3
  <2> QED
    BY <1>1, <2>2, <2>4
<1>3. rport <= issued
  BY <1>1 DEF PortsStandOpen
<1>4. CASE UNCHANGED <<inbox, rport, issued, openEnd>>
  BY <1>4 DEF InboxRises, OpenAreAhead
<1>5. CASE IssuePort
  <2>1. /\ issued' = issued + 1 /\ inbox' = Append(inbox, issued + 1) /\ UNCHANGED <<openEnd, rport>>
    BY <1>5 DEF IssuePort, rendererVars, intakeVars
  <2>2. /\ Len(inbox') = Len(inbox) + 1
        /\ \A i \in 1..Len(inbox) : inbox'[i] = inbox[i]
        /\ inbox'[Len(inbox) + 1] = issued + 1
    BY <1>1, <2>1
  <2>3. ASSUME NEW i \in 1..Len(inbox') PROVE i \in 1..Len(inbox) \/ i = Len(inbox) + 1
    BY <1>1, <2>2
  <2>4. ASSUME NEW i \in 1..Len(inbox'), NEW j \in 1..Len(inbox'), i < j, inbox'[i] # 0, inbox'[j] # 0
        PROVE  inbox'[i] < inbox'[j]
    <3>1. i \in 1..Len(inbox) /\ inbox'[i] = inbox[i]
      BY <1>1, <2>2, <2>4
    <3>2. CASE j \in 1..Len(inbox)
      BY <2>2, <2>4, <3>1, <3>2 DEF InboxRises
    <3>3. CASE j = Len(inbox) + 1
      BY <1>1, <1>2, <2>2, <3>1, <3>3
    <3> QED
      BY <2>3, <3>2, <3>3
  <2>5. ASSUME NEW i \in 1..Len(inbox'), inbox'[i] # 0 PROVE rport < inbox'[i]
    <3>1. CASE i \in 1..Len(inbox)
      BY <2>2, <2>5, <3>1 DEF InboxRises
    <3>2. CASE i = Len(inbox) + 1
      BY <1>1, <1>3, <2>2, <3>2
    <3> QED
      BY <2>3, <3>1, <3>2
  <2>6. ASSUME NEW p \in Ports, p <= issued + 1, p \in openEnd
        PROVE  p = rport \/ \E i \in 1..Len(inbox') : inbox'[i] = p
    <3>1. CASE p = issued + 1
      <4>1. Len(inbox) + 1 \in 1..Len(inbox')
        BY <1>1, <2>2
      <4> QED
        BY <2>2, <3>1, <4>1
    <3>2. CASE p <= issued
      <4>1. p = rport \/ \E i \in 1..Len(inbox) : inbox[i] = p
        BY <2>6, <3>2 DEF OpenAreAhead
      <4>2. \A i \in 1..Len(inbox) : i \in 1..Len(inbox')
        BY <1>1, <2>2
      <4> QED
        BY <2>2, <4>1, <4>2
    <3> QED
      BY <1>1, <2>6, <3>1, <3>2
  <2> QED
    BY <2>1, <2>4, <2>5, <2>6 DEF InboxRises, OpenAreAhead
<1>6. CASE inbox' = Append(inbox, 0) /\ UNCHANGED <<rport, issued, openEnd>>
  <2>1. /\ Len(inbox') = Len(inbox) + 1
        /\ \A i \in 1..Len(inbox) : inbox'[i] = inbox[i]
        /\ inbox'[Len(inbox) + 1] = 0
    BY <1>1, <1>6
  <2>2. \A i \in 1..Len(inbox') : inbox'[i] # 0 => i \in 1..Len(inbox) /\ inbox'[i] = inbox[i]
    BY <1>1, <2>1
  <2>3. \A i \in 1..Len(inbox) : i \in 1..Len(inbox') /\ inbox'[i] = inbox[i]
    BY <1>1, <2>1
  <2>4. InboxRises'
    BY <1>6, <2>2 DEF InboxRises
  <2>5. OpenAreAhead'
    BY <1>6, <2>3 DEF OpenAreAhead
  <2> QED
    BY <2>4, <2>5
<1>7. CASE Connect
  <2>1. /\ inbox # <<>> /\ inbox' = Tail(inbox) /\ rport' = Head(inbox) /\ Head(inbox) # 0
        /\ openEnd' = openEnd \ {rport} /\ issued' = issued
    BY <1>7 DEF Connect, ClosePorts, mainVars
  <2>2. /\ Len(inbox) >= 1 /\ rport' = inbox[1] /\ inbox[1] # 0 /\ Len(inbox') = Len(inbox) - 1
        /\ \A i \in 1..Len(inbox') : inbox'[i] = inbox[i + 1] /\ i + 1 \in 1..Len(inbox) /\ 1 < i + 1
    BY <1>1, <2>1
  <2>3. 1 \in 1..Len(inbox)
    BY <1>1, <2>2
  <2>4. ASSUME NEW i \in 1..Len(inbox'), NEW j \in 1..Len(inbox'), i < j, inbox'[i] # 0, inbox'[j] # 0
        PROVE  inbox'[i] < inbox'[j]
    <3>1. i + 1 < j + 1
      BY <2>4
    <3> QED
      BY <2>2, <2>4, <3>1 DEF InboxRises
  <2>5. \A i \in 1..Len(inbox') : inbox'[i] # 0 => rport' < inbox'[i]
    BY <2>2, <2>3 DEF InboxRises
  <2>6. ASSUME NEW p \in Ports, p <= issued, p \in openEnd \ {rport}
        PROVE  p = rport' \/ \E i \in 1..Len(inbox') : inbox'[i] = p
    <3>1. PICK i \in 1..Len(inbox) : inbox[i] = p
      BY <2>6 DEF OpenAreAhead
    <3>2. CASE i = 1
      BY <2>2, <3>1, <3>2
    <3>3. CASE i # 1
      <4>1. i - 1 \in 1..Len(inbox') /\ (i - 1) + 1 = i
        BY <1>1, <2>2, <3>3
      <4>2. inbox'[i - 1] = p
        BY <2>2, <3>1, <4>1
      <4> QED
        BY <4>1, <4>2
    <3> QED
      BY <3>2, <3>3
  <2> QED
    BY <2>1, <2>4, <2>5, <2>6 DEF InboxRises, OpenAreAhead
<1>8. CASE Disconnect
  <2>1. PICK r \in 1..Len(inbox) : inbox[r] = 0 /\ inbox' = RemoveAt(inbox, r)
    BY <1>1, <1>8 DEF Disconnect
  <2>2. rport' = 0 /\ openEnd' = openEnd \ {rport} /\ issued' = issued
    BY <1>8 DEF Disconnect, ClosePorts, mainVars
  <2>a. inbox \in Seq(Ports \cup {0})
    BY <1>1
  <2>b. /\ Len(RemoveAt(inbox, r)) = Len(inbox) - 1
        /\ \A k \in 1..(Len(inbox) - 1) : RemoveAt(inbox, r)[k] = IF k < r THEN inbox[k] ELSE inbox[k + 1]
    BY <2>a, RemoveAtFacts
  <2>3. /\ Len(inbox') = Len(inbox) - 1
        /\ \A k \in 1..(Len(inbox) - 1) : inbox'[k] = IF k < r THEN inbox[k] ELSE inbox[k + 1]
    BY <2>1, <2>b
  <2> DEFINE At(k) == IF k < r THEN k ELSE k + 1
  <2>4. \A k \in 1..Len(inbox') : At(k) \in 1..Len(inbox) /\ inbox'[k] = inbox[At(k)]
    BY <1>1, <2>3
  <2>5. \A j, k \in 1..Len(inbox') : j < k => At(j) < At(k)
    BY <1>1, <2>3
  <2>6. \A i \in 1..Len(inbox) : i # r => \E k \in 1..Len(inbox') : At(k) = i
    <3> TAKE i \in 1..Len(inbox)
    <3>1. i < r => i \in 1..Len(inbox') /\ At(i) = i
      BY <1>1, <2>3
    <3>2. r < i => i - 1 \in 1..Len(inbox') /\ At(i - 1) = i
      BY <1>1, <2>3
    <3>3. i # r => i < r \/ r < i
      BY <1>1
    <3> QED
      BY <3>1, <3>2, <3>3
  <2> HIDE DEF At
  <2>7. \A i, j \in 1..Len(inbox') : i < j /\ inbox'[i] # 0 /\ inbox'[j] # 0 => inbox'[i] < inbox'[j]
    BY <2>4, <2>5 DEF InboxRises
  <2>8. \A i \in 1..Len(inbox') : inbox'[i] # 0 => rport' < inbox'[i]
    BY <1>2, <2>2, <2>4
  <2>9. ASSUME NEW p \in Ports, p <= issued, p \in openEnd \ {rport}
        PROVE  \E i \in 1..Len(inbox') : inbox'[i] = p
    <3>1. PICK i \in 1..Len(inbox) : inbox[i] = p
      BY <2>9 DEF OpenAreAhead
    <3>2. i # r
      BY <1>1, <2>1, <3>1
    <3>3. PICK k \in 1..Len(inbox') : At(k) = i
      BY <2>6, <3>2
    <3> QED
      BY <2>4, <3>1, <3>3
  <2> QED
    BY <2>2, <2>7, <2>8, <2>9 DEF InboxRises, OpenAreAhead
<1>9. CASE Reload
  <2>1. inbox' = <<>> /\ openEnd' = openEnd \ (1..issued) /\ rport' = 0 /\ issued' = issued
    BY <1>9 DEF Reload, ClosePorts
  <2>2. Len(inbox') = 0
    BY <2>1
  <2>3. InboxRises'
    BY <2>2 DEF InboxRises
  <2>4. OpenAreAhead'
    BY <1>1, <2>1 DEF OpenAreAhead
  <2> QED
    BY <2>3, <2>4
<1> QED
  BY <1>4, <1>5, <1>6, <1>7, <1>8, <1>9, PortMoves

LEMMA NothingBehindStep ==
  ASSUME TypeOK, TypeOK', PortsInOrder, PortsStandOpen, InboxRises, OpenAreAhead, NothingBehind, Next
  PROVE  NothingBehind'
<1>1. /\ Ports \subseteq Nat \ {0} /\ issued \in Nat /\ rport \in Nat /\ inbox \in Seq(Ports \cup {0})
      /\ wire \in [Ports -> Seq(Envelope)] /\ taken \in Nat /\ taken <= issued
  BY PortAssumption DEF TypeOK, EmitterTypeOK, MainTypeOK, RendererTypeOK, PortsInOrder
<1>2. ASSUME UNCHANGED <<openEnd, rport>>, \A p \in Ports : wire'[p] # <<>> => wire[p] # <<>>
      PROVE  NothingBehind'
  BY <1>2 DEF NothingBehind
<1>3. CASE Connect \/ Disconnect \/ Reload
  <2>1. SUFFICES ASSUME NEW p \in Ports, wire'[p] # <<>> PROVE p \in openEnd' /\ rport' <= p
    BY DEF NothingBehind
  <2>2. CASE Connect
    <3>1. /\ p # rport /\ wire[p] # <<>> /\ openEnd' = openEnd \ {rport} /\ rport' = Head(inbox) /\ inbox # <<>>
          /\ Head(inbox) # 0
      BY <1>1, <2>1, <2>2 DEF Connect, ClosePorts
    <3>2. p \in openEnd /\ rport <= p
      BY <3>1 DEF NothingBehind
    <3>3. p <= issued
      BY <1>1, <3>1 DEF PortsInOrder
    <3>4. PICK i \in 1..Len(inbox) : inbox[i] = p
      BY <3>1, <3>2, <3>3 DEF OpenAreAhead
    <3>5. rport' = inbox[1] /\ 1 \in 1..Len(inbox) /\ inbox[1] # 0 /\ inbox[i] # 0 /\ (i = 1 \/ 1 < i)
      BY <1>1, <3>1, <3>4
    <3>6. i = 1 => rport' = p
      BY <3>4, <3>5
    <3>7. 1 < i => inbox[1] < inbox[i]
      BY <3>5 DEF InboxRises
    <3>8. rport' \in Nat
      BY PortAssumption DEF TypeOK, RendererTypeOK
    <3>9. rport' <= p
      BY <1>1, <3>4, <3>5, <3>6, <3>7, <3>8
    <3> QED
      BY <3>1, <3>2, <3>9
  <2>3. CASE Disconnect
    <3>1. p # rport /\ wire[p] # <<>> /\ openEnd' = openEnd \ {rport} /\ rport' = 0
      BY <1>1, <2>1, <2>3 DEF Disconnect, ClosePorts
    <3> QED
      BY <1>1, <3>1 DEF NothingBehind
  <2>4. CASE Reload
    <3>1. p \notin 1..issued /\ wire[p] # <<>>
      BY <1>1, <2>1, <2>4 DEF Reload, ClosePorts
    <3>2. p <= issued /\ p \in 1..issued
      BY <1>1, <3>1 DEF PortsInOrder
    <3> QED
      BY <3>1, <3>2
  <2> QED
    BY <1>3, <2>2, <2>3, <2>4
<1>4. CASE Post(openEnd) /\ HostContinues
  <2>1. /\ UNCHANGED <<openEnd, rport>> /\ hport # 0 /\ hport \in Ports
        /\ wire' = IF hport \in openEnd THEN [wire EXCEPT ![hport] = Append(@, Head(pending).envelope)] ELSE wire
    BY <1>4 DEF HostContinues, channelVars, rendererVars, intakeVars, Post, CanPost, TypeOK, EmitterTypeOK
  <2>2. hport \in openEnd => rport <= hport
    <3> HAVE hport \in openEnd
    <3>1. hport <= issued
      BY <1>1, <2>1 DEF PortsInOrder
    <3>2. hport = rport \/ \E i \in 1..Len(inbox) : inbox[i] = hport
      BY <2>1, <3>1 DEF OpenAreAhead
    <3>3. \A i \in 1..Len(inbox) : inbox[i] = hport => rport < hport
      BY <2>1 DEF InboxRises
    <3> QED
      BY <1>1, <2>1, <3>2, <3>3
  <2>3. \A p \in Ports : wire'[p] # <<>> => wire[p] # <<>> \/ (p = hport /\ hport \in openEnd)
    BY <1>1, <2>1
  <2> QED
    BY <2>1, <2>2, <2>3 DEF NothingBehind
<1>5. CASE Deliver \/ Reject
  <2>1. UNCHANGED <<openEnd, rport>> /\ wire' = [wire EXCEPT ![rport] = Tail(@)] /\ rport \in Ports /\ wire[rport] # <<>>
    BY <1>5, TakenFacts DEF Deliver, Reject
  <2>2. \A p \in Ports : wire'[p] # <<>> => wire[p] # <<>>
    BY <1>1, <2>1
  <2> QED
    BY <1>2, <2>1, <2>2
<1>6. CASE wire' = wire /\ UNCHANGED <<openEnd, rport>>
  BY <1>2, <1>6
<1>7. CASE HostContinues /\ ~Post(openEnd)
  BY <1>6, <1>7 DEF HostContinues, AnnounceGap, Resync, ReleaseOne, Emit, channelVars, rendererVars, intakeVars
<1>8. CASE \/ HostAttach \/ HostPortClosed \/ HostAck \/ HostResync \/ IssuePort \/ HostStart
           \/ (\E announced \in BOOLEAN : HostExit(announced)) \/ FlushAcks
  BY <1>6, <1>8 DEF HostAttach, Attach, HostPortClosed, PortClosed, HostAck, Acknowledge, HostResync, IssuePort,
     HostStart, HostExit, FlushAcks, emitterVars, channelVars, rendererVars, intakeVars
<1>9. ASSUME NEW x \in Sessions, SessionStep(x) PROVE NothingBehind'
  BY <1>6, <1>9 DEF SessionStep, PiEvent, CompactionEnd, HostOpen, HostOpened, HostClose, ForgetSession, RequestOpen,
     InstallSnapshot, RequestClose, CloseProjection, Emit, emitterVars, channelVars, rendererVars, intakeVars
<1> QED
  BY <1>3, <1>4, <1>5, <1>7, <1>8, <1>9 DEF Next

LEMMA PortsPassStep ==
  ASSUME TypeOK, TypeOK', PortsInOrder, PortsStandOpen, PortsPass, Next PROVE PortsPass'
  BY UsesLastPortStep, InboxStep, NothingBehindStep DEF PortsPass

-----------------------------------------------------------------------------
(* Every step goes onward. *)

\* Short of an event, a view is replaced only together with what it is based on.
LEMMA ViewMoves ==
  ASSUME TypeOK, Next, ~Deliver, NEW s \in Sessions
  PROVE  fenced'[s] = 0 \/ (fenced'[s] = fenced[s] /\ view'[s] = view[s])
<1>1. fenced \in [Sessions -> Nat] /\ view \in [Sessions -> Seq(Nat)]
  BY DEF TypeOK, RendererTypeOK
<1>2. CASE \/ HostContinues \/ HostAttach \/ HostPortClosed \/ HostAck \/ HostResync \/ IssuePort \/ HostStart
           \/ (\E announced \in BOOLEAN : HostExit(announced)) \/ FlushAcks \/ Connect \/ Disconnect \/ Reject
  BY <1>2 DEF HostContinues, HostAttach, HostPortClosed, HostAck, HostResync, IssuePort, HostStart, HostExit,
     FlushAcks, Connect, Disconnect, Reject, rendererVars, projectionVars
<1>3. CASE Reload
  BY <1>3 DEF Reload
<1>4. ASSUME NEW x \in Sessions, InstallSnapshot(x)
      PROVE  fenced'[s] = 0 \/ (fenced'[s] = fenced[s] /\ view'[s] = view[s])
  BY <1>1, <1>4 DEF InstallSnapshot
<1>5. ASSUME NEW x \in Sessions, CloseProjection(x)
      PROVE  fenced'[s] = 0 \/ (fenced'[s] = fenced[s] /\ view'[s] = view[s])
  BY <1>1, <1>5 DEF CloseProjection
<1>6. ASSUME NEW x \in Sessions,
             PiEvent(x) \/ CompactionEnd(x) \/ HostOpen(x) \/ HostOpened(x) \/ HostClose(x) \/ RequestOpen(x) \/ RequestClose(x)
      PROVE  fenced' = fenced /\ view' = view
  BY <1>6 DEF PiEvent, CompactionEnd, HostOpen, HostOpened, HostClose, RequestOpen, RequestClose, rendererVars,
     projectionVars
<1> QED
  BY <1>2, <1>3, <1>4, <1>5, <1>6 DEF Next, SessionStep

LEMMA LinesInParts ==
  ASSUME TypeOK, Next, ~Post(openEnd), pending' \in {pending, <<>>}
  PROVE  PartOf(Queued', Queued) /\ \A p \in Ports : PartOf(wire'[p], wire[p])
<1>1. Queued \in Seq(Envelope) /\ (\A p \in Ports : wire[p] \in Seq(Envelope)) /\ wire \in [Ports -> Seq(Envelope)]
  BY Lines DEF TypeOK, EmitterTypeOK
<1>2. Queued' = Queued \/ Queued' = <<>>
  BY DEF Queued, Envelopes
<1>3. PartOf(Queued', Queued)
  BY <1>1, <1>2, PartsOf
<1>4. ASSUME NEW p \in Ports PROVE PartOf(wire'[p], wire[p])
  <2>1. CASE wire'[p] = wire[p] \/ wire'[p] = <<>>
    BY <1>1, <2>1, PartsOf
  <2>2. CASE CanDeliver /\ Taken
    <3>1. wire[rport] # <<>> /\ wire'[p] = IF p = rport THEN Tail(wire[rport]) ELSE wire[p]
      BY <1>1, <2>2, TakenFacts
    <3> QED
      BY <1>1, <3>1, PartsOf
  <2> QED
    BY <2>1, <2>2, WireMoves
<1> QED
  BY <1>3, <1>4

\* A session that stays registered was there before, in a host that ran, and has lost no history.
LEMMA SameEra ==
  ASSUME TypeOK, HostFits, Next, NEW s \in Sessions, hostUp', phase'[s] # "closed", inc'[s] = inc[s]
  PROVE  hostUp /\ phase[s] # "closed" /\ hist[s] <= hist'[s]
<1>1. inc[s] \in Nat /\ hist \in [Sessions -> Nat] /\ hist[s] \in Nat
  BY DEF TypeOK, EmitterTypeOK
<1>2. phase[s] # "closed"
  BY <1>1, ErasGrow
<1>3. hostUp
  <2>1. ~HostStart
    <3>1. SUFFICES ASSUME HostStart PROVE FALSE
      OBVIOUS
    <3>2. PICK restored \in SUBSET {x \in Sessions : phase[x] # "closed" /\ inc[x] < MaxOpens} :
            inc' = [x \in Sessions |-> IF x \in restored THEN inc[x] + 1 ELSE inc[x]]
            /\ phase' = [x \in Sessions |-> IF x \in restored THEN "live" ELSE "closed"]
      BY <3>1 DEF HostStart
    <3> QED
      BY <1>1, <3>2
  <2>2. hostUp' = hostUp \/ hostUp' = FALSE
    <3>1. CASE \/ HostContinues \/ HostAttach \/ HostPortClosed \/ HostAck \/ HostResync \/ IssuePort
               \/ (\E announced \in BOOLEAN : HostExit(announced))
      BY <3>1 DEF HostContinues, HostAttach, HostPortClosed, HostAck, HostResync, IssuePort, HostExit, mainVars
    <3>2. CASE Connect \/ Disconnect \/ Reload \/ FlushAcks \/ Deliver \/ Reject
      BY <3>2 DEF Connect, Disconnect, Reload, FlushAcks, Deliver, Reject, Taken, mainVars
    <3>3. ASSUME NEW x \in Sessions, SessionStep(x) PROVE hostUp' = hostUp
      BY <3>3 DEF SessionStep, PiEvent, CompactionEnd, HostOpen, HostOpened, HostClose, RequestOpen,
         InstallSnapshot, RequestClose, CloseProjection, mainVars
    <3> QED
      BY <2>1, <3>1, <3>2, <3>3 DEF Next
  <2> QED
    BY <2>2
<1>4. hist[s] <= hist'[s]
  <2>1. CASE \E x \in Sessions : PiEvent(x)
    <3>1. PICK x \in Sessions : hist' = [hist EXCEPT ![x] = @ + 1]
      BY <2>1 DEF PiEvent
    <3> QED
      BY <1>1, <3>1
  <2>2. CASE \E announced \in BOOLEAN : HostExit(announced)
    BY <2>2 DEF HostExit
  <2>3. CASE HostContinues \/ HostAttach \/ HostPortClosed \/ HostAck \/ HostResync \/ IssuePort \/ HostStart
    <3>1. hist' = hist
      BY <2>3 DEF HostContinues, Post, AnnounceGap, Resync, ReleaseOne, HostAttach, Attach, HostPortClosed, PortClosed,
         HostAck, Acknowledge, HostResync, IssuePort, HostStart, hostVars
    <3> QED
      BY <1>1, <3>1
  <2>4. CASE Connect \/ Disconnect \/ Reload \/ FlushAcks \/ Deliver \/ Reject
    <3>1. hist' = hist
      BY <2>4 DEF Connect, Disconnect, Reload, FlushAcks, Deliver, Reject, Taken, hostVars
    <3> QED
      BY <1>1, <3>1
  <2>5. ASSUME NEW x \in Sessions, SessionStep(x), ~PiEvent(x) PROVE hist[s] <= hist'[s]
    <3>1. hist' = hist
      BY <2>5 DEF SessionStep, CompactionEnd, HostOpen, HostOpened, HostClose, RequestOpen, InstallSnapshot, RequestClose,
         CloseProjection, hostVars
    <3> QED
      BY <1>1, <3>1
  <2> QED
    BY <2>1, <2>2, <2>3, <2>4, <2>5 DEF Next
<1> QED
  BY <1>2, <1>3, <1>4

LEMMA NewEraSends ==
  ASSUME TypeOK, Next, NEW s \in Sessions, inc'[s] # inc[s]
  PROVE  UNCHANGED <<wire, pending, fenced>>
<1>1. ASSUME NEW x \in Sessions, HostOpen(x) PROVE UNCHANGED <<wire, pending, fenced>>
  BY <1>1 DEF HostOpen, emitterVars, rendererVars, projectionVars
<1>2. CASE HostStart
  BY <1>2 DEF HostStart, emitterVars, rendererVars, projectionVars
<1>3. ~HostContinues /\ ~HostAttach /\ ~HostPortClosed /\ ~HostAck /\ ~HostResync /\ ~IssuePort
      /\ ~(\E announced \in BOOLEAN : HostExit(announced))
  BY DEF HostContinues, Post, AnnounceGap, Resync, ReleaseOne, HostAttach, Attach, HostPortClosed, PortClosed,
     HostAck, Acknowledge, HostResync, IssuePort, HostExit, hostVars
<1>4. ~Connect /\ ~Disconnect /\ ~Reload /\ ~FlushAcks /\ ~Deliver /\ ~Reject
  BY DEF Connect, Disconnect, Reload, FlushAcks, Deliver, Reject, Taken, hostVars
<1>5. ASSUME NEW x \in Sessions, SessionStep(x) PROVE HostOpen(x)
  BY <1>5 DEF SessionStep, PiEvent, CompactionEnd, HostOpened, HostClose, RequestOpen, InstallSnapshot, RequestClose,
     CloseProjection, hostVars
<1> QED
  BY <1>1, <1>2, <1>3, <1>4, <1>5 DEF Next

LEMMA EmittedOnward ==
  ASSUME TypeOK, Next, pending' # pending, pending' # <<>>, ~Post(openEnd), Onward
  PROVE  \E e \in Envelope, rest \in Seq(SessionTask) :
           /\ Emit(e, rest) /\ e.inc = inc[e.session] /\ inc' = inc /\ Beyond(hist[e.session], e)
           /\ e.id <= hist'[e.session]
           /\ e.kind # "stream_gap" => WithinHistory(e.session)
<1>1. PICK x \in Sessions, e \in Envelope, rest \in Seq(SessionTask) :
        /\ Emit(e, rest) /\ e.session = x /\ e.inc = inc[x] /\ inc' = inc /\ hostUp
        /\ \/ e.kind = "content" /\ phase[x] # "closed" /\ e.id = hist[x] + 1
              /\ hist' = [hist EXCEPT ![x] = @ + 1]
           \/ e.kind = "stream_gap" /\ e.id = 0 /\ hist' = hist
           \/ e.kind = "session_snapshot" /\ phase[x] # "closed" /\ e.id = hist[x] /\ hist' = hist
  BY EmittedEvent
<1>2. hist \in [Sessions -> Nat] /\ hist[x] \in Nat /\ e.id \in Nat
  BY DEF TypeOK, EmitterTypeOK, Envelope
<1>3. Beyond(hist[x], e) /\ e.id <= hist'[x]
  BY <1>1, <1>2 DEF Beyond
<1>4. e.kind # "stream_gap" => WithinHistory(x)
  BY <1>1 DEF Onward
<1> QED
  BY <1>1, <1>3, <1>4

LEMMA AscendsStep ==
  ASSUME TypeOK, TypeOK', PortsInOrder, PortsPass, ErasPast, Onward, Next PROVE Ascends'
<1>1. Ascends
  BY DEF Onward
<1>2. CASE Post(openEnd)
  BY <1>1, <1>2, PostAscends
<1>3. CASE ~Post(openEnd) /\ pending' \in {pending, <<>>}
  BY <1>1, <1>3, LinesInParts, AscendsInParts
<1>4. CASE ~Post(openEnd) /\ pending' # pending /\ pending' # <<>>
  <2>1. PICK e \in Envelope, rest \in Seq(SessionTask) :
          /\ Emit(e, rest) /\ e.inc = inc[e.session] /\ Beyond(hist[e.session], e)
          /\ e.kind # "stream_gap" => WithinHistory(e.session)
    BY <1>4, EmittedOnward
  <2> QED
    BY <1>1, <2>1, EmitAscends
<1> QED
  BY <1>2, <1>3, <1>4

LEMMA ReachesStep ==
  ASSUME TypeOK, TypeOK', PortsPass, ErasPast, HostFits, Onward, Next,
         NEW s \in Sessions, hostUp', phase'[s] # "closed"
  PROVE  WithinHistory(s)' /\ Reached(s)'
<1>1. inc[s] \in Nat /\ inc'[s] \in Nat /\ inc[s] <= inc'[s]
  BY ErasGrow
<1>2. CASE inc'[s] # inc[s]
  <2>1. UNCHANGED <<wire, pending, fenced>> /\ inc[s] < inc'[s]
    BY <1>1, <1>2, NewEraSends
  <2> QED
    BY <2>1, NewEra
<1>3. CASE inc'[s] = inc[s]
  <2>1. hostUp /\ phase[s] # "closed" /\ hist[s] <= hist'[s]
    BY <1>3, SameEra
  <2>2. Ascends /\ WithinHistory(s) /\ Reached(s)
    BY <2>1 DEF Onward
  <2>3. CASE Deliver
    BY <2>2, <2>3, DeliverReaches
  <2>4. CASE ~Deliver
    <3>1. inc[s] >= 1
      BY <2>1 DEF ErasPast
    <3>2. fenced'[s] = inc[s] => fenced[s] = inc[s] /\ view'[s] = view[s]
      BY <1>1, <2>4, <3>1, ViewMoves
    <3>3. CASE Post(openEnd)
      BY <2>2, <3>2, <3>3, PostReaches
    <3>4. CASE ~Post(openEnd) /\ pending' \in {pending, <<>>}
      BY <1>3, <2>1, <2>2, <3>2, <3>4, LinesInParts, ReachedInParts
    <3>5. CASE ~Post(openEnd) /\ pending' # pending /\ pending' # <<>>
      <4>1. PICK e \in Envelope, rest \in Seq(SessionTask) :
              /\ Emit(e, rest) /\ e.inc = inc[e.session] /\ Beyond(hist[e.session], e)
              /\ e.id <= hist'[e.session]
        BY <3>5, EmittedOnward
      <4>2. e.session = s => e.id <= hist'[s]
        BY <4>1
      <4> QED
        BY <1>3, <2>1, <2>2, <3>2, <4>1, <4>2, EmitReaches
    <3> QED
      BY <3>3, <3>4, <3>5
  <2> QED
    BY <2>3, <2>4
<1> QED
  BY <1>2, <1>3

\* What is on its way leads onward, whatever the schema check refuses.
OnwardInv == ErasPast /\ HostFits /\ PortsStandOpen /\ PortsPass /\ Onward

LEMMA OnwardInit == Init => OnwardInv
<1> SUFFICES ASSUME Init PROVE OnwardInv
  OBVIOUS
<1>1. ErasPast /\ HostFits /\ PortsStandOpen
  BY PortAssumption DEF Init, ErasPast, HostFits, PortsStandOpen
<1>2. inbox = <<>> /\ Len(inbox) = 0 /\ issued = 0 /\ hport = 0
  BY DEF Init
<1>3. PortsPass
  <2>1. UsesLastPort /\ InboxRises
    BY <1>2 DEF UsesLastPort, InboxRises
  <2>2. OpenAreAhead
    BY <1>2, PortAssumption DEF OpenAreAhead
  <2>3. NothingBehind
    BY DEF Init, NothingBehind
  <2> QED
    BY <2>1, <2>2, <2>3 DEF PortsPass
<1>4. Queued = <<>> /\ \A p \in Ports : wire[p] = <<>>
  BY DEF Init, Queued, Envelopes
<1>5. Ascends
  BY <1>4, EmptyOnward DEF Ascends
<1>6. \A s \in Sessions : phase[s] = "closed"
  BY DEF Init
<1> QED
  BY <1>1, <1>3, <1>5, <1>6 DEF OnwardInv, Onward

LEMMA OnwardStep == IInv /\ IInv' /\ OnwardInv /\ [Next]_vars => OnwardInv'
<1> SUFFICES ASSUME IInv, IInv', OnwardInv, [Next]_vars PROVE OnwardInv'
  OBVIOUS
<1>1. TypeOK /\ PortsInOrder /\ TypeOK'
  BY DEF IInv
<1>2. CASE Next
  <2>1. ErasPast' /\ HostFits' /\ PortsStandOpen' /\ PortsPass'
    BY <1>1, <1>2, ErasPastStep, HostFitsStep, PortsStandOpenStep, PortsPassStep DEF OnwardInv
  <2>2. Ascends'
    BY <1>1, <1>2, AscendsStep DEF OnwardInv
  <2>3. \A s \in Sessions : hostUp' /\ phase'[s] # "closed" => WithinHistory(s)' /\ Reached(s)'
    BY <1>1, <1>2, ReachesStep DEF OnwardInv
  <2> QED
    BY <2>1, <2>2, <2>3 DEF OnwardInv, Onward, WithinHistory, Reached, Within, Above, Beyond
<1>3. CASE UNCHANGED vars
  <2> USE <1>3 DEF vars, hostVars, emitterVars, mainVars, commandVars, channelVars, rendererVars, intakeVars,
          projectionVars
  <2>1. ErasPast' /\ HostFits' /\ PortsStandOpen'
    BY DEF OnwardInv, ErasPast, HostFits, PortsStandOpen
  <2>2. PortsPass'
    BY DEF OnwardInv, PortsPass, UsesLastPort, InboxRises, OpenAreAhead, NothingBehind
  <2>3. Onward'
    <3>1. Onward /\ UNCHANGED <<pending, wire, inc, hist, view, fenced, hostUp, phase>>
      BY DEF OnwardInv
    <3> HIDE <1>3
    <3>2. Queued' = Queued
      BY <3>1 DEF Queued
    <3>3. Ascends'
      <4>1. PartOf(Queued', Queued) /\ \A p \in Ports : PartOf(wire'[p], wire[p])
        BY <1>1, <3>1, <3>2, Lines, PartsOf
      <4> QED
        BY <1>1, <3>1, <4>1, AscendsInParts DEF Onward
    <3>4. ASSUME NEW s \in Sessions, WithinHistory(s), Reached(s) PROVE WithinHistory(s)' /\ Reached(s)'
      BY <3>1, <3>2, <3>4 DEF WithinHistory, Reached, Within, Above, Beyond
    <3>5. \A s \in Sessions : hostUp /\ phase[s] # "closed" => WithinHistory(s)' /\ Reached(s)'
      BY <3>1, <3>4 DEF Onward
    <3> QED
      BY <3>1, <3>3, <3>5 DEF Onward
  <2> QED
    BY <2>1, <2>2, <2>3 DEF OnwardInv
<1> QED
  BY <1>2, <1>3

LEMMA OnwardAlways == Spec => [](IInv /\ OnwardInv)
  BY OnwardInit, OnwardStep, IInvAlways, PTL DEF Spec

\* A projection that is based on a snapshot of the session the host holds is
\* never made shorter: not by a later snapshot, not by the slower reply of an
\* open_session, not by an event replayed on another port, for any sessions,
\* ports, sizes, reloads, host exits and refused events (emitter.ts attach,
\* session-store.ts #installSnapshot).
THEOREM ViewsGoOnward == Spec => NeverTakenBack
<1>1. ASSUME IInv, IInv', OnwardInv, [Next]_vars,
             NEW s \in Sessions, Fenced(s), Fenced(s)', inc[s] = inc'[s]
      PROVE  Len(view[s]) <= Len(view'[s])
  <2>1. TypeOK /\ TypeOK' /\ PortsPass /\ ErasPast /\ Onward
    BY <1>1 DEF IInv, OnwardInv
  <2>2. /\ hostUp /\ phase[s] # "closed" /\ fenced[s] = inc[s] /\ fenced'[s] = inc[s]
    BY <1>1 DEF Fenced
  <2>3. inc[s] >= 1 /\ inc[s] \in Nat /\ Len(view[s]) \in Nat
    BY <2>1, <2>2, Lines DEF ErasPast
  <2>4. CASE UNCHANGED vars
    BY <2>3, <2>4 DEF vars, rendererVars, projectionVars
  <2>5. CASE Next /\ ~Deliver
    <3>1. view'[s] = view[s]
      BY <2>1, <2>2, <2>3, <2>5, ViewMoves
    <3> QED
      BY <2>3, <3>1
  <2>6. CASE Deliver
    <3>1. Ascends /\ WithinHistory(s) /\ Reached(s)
      BY <2>1, <2>2 DEF Onward
    <3> QED
      BY <2>1, <2>2, <2>6, <3>1, DeliverReaches
  <2> QED
    BY <1>1, <2>4, <2>5, <2>6
<1>2. IInv /\ IInv' /\ OnwardInv /\ [Next]_vars =>
        [\A s \in Sessions : Fenced(s) /\ Fenced(s)' /\ inc[s] = inc'[s] => Len(view[s]) <= Len(view'[s])]_vars
  BY <1>1
<1> QED
  BY <1>2, OnwardAlways, IInvAlways, PTL DEF Spec, NeverTakenBack

===============================================================================
