---------------------------- MODULE EventEmitter ----------------------------
(***************************************************************************)
(* The agent host's event emitter (packages/agent-host/src/emitter.ts):    *)
(* one bounded queue for every session, a delivery window of unacknowledged*)
(* bytes, per-session sequence numbers and the set of sessions that lost   *)
(* events to the cap.                                                      *)
(*                                                                         *)
(* The host is one JavaScript thread.  An entry point (a Pi event, a       *)
(* command, an acknowledgement, a new port) runs to completion, and while  *)
(* it runs it calls emit, #announceGaps, resync and #drain, which call one *)
(* another.  Here each of those calls is a step: `todo' is what is left of *)
(* the call stack, an envelope that fits the window is posted before       *)
(* anything else happens, and no entry point starts before Quiescent.  The *)
(* renderer is another process and may run between those steps.            *)
(***************************************************************************)
EXTENDS Integers, Sequences, FiniteSets, SequencesExt

CONSTANTS
  Sessions,       \* session ids
  Ports,          \* message ports the main process may mint, 1..n
  QueueCap,       \* MAX_QUEUED_SESSION_BYTES
  Window,         \* EVENT_DELIVERY_WINDOW_BYTES
  ContentBytes,   \* the size of a content event
  GapBytes,       \* the size of a stream_gap event
  SnapshotBytes   \* the size of a session_snapshot event

ASSUME SizeAssumption ==
  /\ QueueCap \in Nat \ {0}
  /\ Window \in Nat \ {0}
  /\ ContentBytes \in Nat \ {0}
  /\ GapBytes \in Nat \ {0}
  /\ SnapshotBytes \in Nat \ {0}

ASSUME SessionAssumption == IsFiniteSet(Sessions)

ASSUME PortAssumption == Ports \subseteq Nat \ {0}

VARIABLES
  phase,          \* the runtime's session table: closed, registered, live
  inc,            \* (history) how often each session id has been registered
  hist,           \* how many content events Pi's history of a session holds
  sequences,      \* EventEmitter.#sequences; 0 is an absent entry
  pending,        \* EventEmitter.#pending
  pendingBytes,   \* EventEmitter.#pendingBytes
  inFlight,       \* EventEmitter.#inFlight: bytes of unacknowledged envelopes
  inFlightBytes,  \* EventEmitter.#inFlightBytes
  dropped,        \* the keys of EventEmitter.#droppedPerSession
  hport,          \* EventEmitter.#port; 0 is undefined
  todo,           \* calls the running entry point has still to make
  wire            \* envelopes posted on each port and not yet received

emitterVars == <<sequences, pending, pendingBytes, inFlight, inFlightBytes,
                 dropped, hport, todo, wire>>

-----------------------------------------------------------------------------
(* Envelopes.  A content event stands for every session event that changes *)
(* the projection; its id is its place in the session's history.  The id   *)
(* of a snapshot says how much of that history it carries.                 *)

Kinds == {"content", "stream_gap", "session_snapshot"}

Bytes(kind) == CASE kind = "content" -> ContentBytes
                 [] kind = "stream_gap" -> GapBytes
                 [] kind = "session_snapshot" -> SnapshotBytes

Envelope == [kind : Kinds, session : Sessions, sequence : Nat, id : Nat,
             afterGap : BOOLEAN, inc : Nat]

Item == {item \in [envelope : Envelope, bytes : Nat] : item.bytes = Bytes(item.envelope.kind)}

SessionTask == [op : {"announce", "resync"}, session : Sessions, afterGap : BOOLEAN]

Release == [op |-> "release"]

Announce(s) == [op |-> "announce", session |-> s, afterGap |-> TRUE]

ResyncTask(s, afterGap) == [op |-> "resync", session |-> s, afterGap |-> afterGap]

ContentEvent(s) ==
  [kind |-> "content", session |-> s, sequence |-> sequences[s] + 1,
   id |-> hist[s] + 1, afterGap |-> FALSE, inc |-> inc[s]]

StreamGap(s) ==
  [kind |-> "stream_gap", session |-> s, sequence |-> sequences[s] + 1,
   id |-> 0, afterGap |-> FALSE, inc |-> inc[s]]

\* Mutant: the snapshot is taken of what Pi has written, not of what it holds.
BelatedSnapshotEvent(s, afterGap) ==
  [kind |-> "session_snapshot", session |-> s, sequence |-> 1,
   id |-> IF hist[s] = 0 THEN 0 ELSE hist[s] - 1, afterGap |-> afterGap, inc |-> inc[s]]

\* Emitted right after resetSession, so it always carries sequence 1.
SnapshotEvent(s, afterGap) ==
  [kind |-> "session_snapshot", session |-> s, sequence |-> 1,
   id |-> hist[s], afterGap |-> afterGap, inc |-> inc[s]]

EmitterTypeOK ==
  /\ phase \in [Sessions -> {"closed", "registered", "live"}]
  /\ inc \in [Sessions -> Nat]
  /\ hist \in [Sessions -> Nat]
  /\ sequences \in [Sessions -> Nat]
  /\ pending \in Seq(Item)
  /\ pendingBytes \in Int
  /\ inFlight \in Seq(Nat)
  /\ inFlightBytes \in Int
  /\ dropped \in SUBSET Sessions
  /\ hport \in Ports \cup {0}
  /\ todo \in Seq(SessionTask) \cup Seq({Release})
  /\ wire \in [Ports -> Seq(Envelope)]

-----------------------------------------------------------------------------
(* #drain sends while the port is there and the head fits the window; an   *)
(* envelope larger than the window travels alone.  #acknowledge drains only *)
(* after its last release.                                                 *)
Releasing == todo # <<>> /\ Head(todo).op = "release"

CanPost ==
  /\ hport # 0
  /\ ~Releasing
  /\ pending # <<>>
  /\ inFlightBytes = 0 \/ inFlightBytes + Head(pending).bytes <= Window

Quiescent == todo = <<>> /\ ~CanPost

\* A port whose renderer end is gone swallows what is posted on it.
Post(openEnd) ==
  /\ CanPost
  /\ pending' = Tail(pending)
  /\ pendingBytes' = pendingBytes - Head(pending).bytes
  /\ inFlight' = Append(inFlight, Head(pending).bytes)
  /\ inFlightBytes' = inFlightBytes + Head(pending).bytes
  /\ wire' = IF hport \in openEnd
             THEN [wire EXCEPT ![hport] = Append(@, Head(pending).envelope)]
             ELSE wire
  /\ UNCHANGED <<phase, inc, hist, sequences, dropped, hport, todo>>

(* #buffer, called by emit.  Breaching the cap drops the queue and the     *)
(* envelope, notes whose events went, and with a port attached announces   *)
(* the gaps at once, before the caller continues with `rest'.              *)
\* Mutant: the queue is checked before the envelope is counted.
OverflowsLate(envelope) == pendingBytes > QueueCap

Overflows(envelope) == pendingBytes + Bytes(envelope.kind) > QueueCap

Lost(envelope) ==
  dropped \cup {pending[i].envelope.session : i \in DOMAIN pending}
          \cup {envelope.session}

Announcements(order) == [i \in DOMAIN order |-> Announce(order[i])]

Buffer(envelope, rest) ==
  IF Overflows(envelope)
  THEN /\ pending' = <<>>
       /\ pendingBytes' = 0
       /\ IF hport # 0
          THEN /\ dropped' = {}
               /\ \E order \in SetToSeqs(Lost(envelope)) : todo' = Announcements(order) \o rest
          ELSE /\ dropped' = Lost(envelope)
               /\ todo' = rest
  ELSE /\ pending' = Append(pending, [envelope |-> envelope,
                                      bytes |-> Bytes(envelope.kind)])
       /\ pendingBytes' = pendingBytes + Bytes(envelope.kind)
       /\ todo' = rest
       /\ UNCHANGED dropped

Emit(envelope, rest) ==
  /\ sequences' = [sequences EXCEPT ![envelope.session] = envelope.sequence]
  /\ Buffer(envelope, rest)
  /\ UNCHANGED <<inFlight, inFlightBytes, hport, wire>>

-----------------------------------------------------------------------------
(* One turn of the #announceGaps loop: the gap is announced, then onGap    *)
(* asks the runtime for a snapshot of the session.                         *)
AnnounceGap ==
  /\ ~CanPost
  /\ todo # <<>> /\ Head(todo).op = "announce"
  /\ LET s == Head(todo).session
     IN  Emit(StreamGap(s), <<ResyncTask(s, TRUE)>> \o Tail(todo))
  /\ UNCHANGED <<phase, inc, hist>>

(* SessionHost.resync: subscribe, reset the counter, emit the snapshot.    *)
(* The runtime ignores a session that is no longer in its table.           *)
Resync ==
  /\ ~CanPost
  /\ todo # <<>> /\ Head(todo).op = "resync"
  /\ LET s == Head(todo).session IN
       IF phase[s] = "closed"
       THEN /\ todo' = Tail(todo)
            /\ UNCHANGED <<phase, sequences, pending, pendingBytes, inFlight,
                           inFlightBytes, dropped, hport, wire>>
       ELSE /\ phase' = [phase EXCEPT ![s] = "live"]
            /\ Emit(SnapshotEvent(s, Head(todo).afterGap), Tail(todo))
  /\ UNCHANGED <<inc, hist>>

(* attach: the port is replaced and the window reopened; the queue drains, *)
(* gaps are announced, and every session not just announced is re-fenced.  *)
Refences(gaps, rest) ==
  Announcements(gaps) \o [i \in DOMAIN rest |-> ResyncTask(rest[i], FALSE)]

\* Mutant: the new port inherits the window of the one before.
AttachKeepingWindow(port) ==
  /\ Quiescent
  /\ hport' = port
  /\ dropped' = {}
  /\ \E gaps \in SetToSeqs(dropped),
        rest \in SetToSeqs({s \in Sessions \ dropped : phase[s] # "closed"}) :
       todo' = Refences(gaps, rest)
  /\ UNCHANGED <<phase, inc, hist, sequences, pending, pendingBytes, inFlight,
                 inFlightBytes, wire>>

Attach(port) ==
  /\ Quiescent
  /\ hport' = port
  /\ inFlight' = <<>>
  /\ inFlightBytes' = 0
  /\ dropped' = {}
  /\ \E gaps \in SetToSeqs(dropped),
        rest \in SetToSeqs({s \in Sessions \ dropped : phase[s] # "closed"}) :
       todo' = Refences(gaps, rest)
  /\ UNCHANGED <<phase, inc, hist, sequences, pending, pendingBytes, wire>>

(* The port's close event: only the port still in use is given up.         *)
PortClosed ==
  /\ Quiescent
  /\ hport' = 0
  /\ inFlight' = <<>>
  /\ inFlightBytes' = 0
  /\ UNCHANGED <<phase, inc, hist, sequences, pending, pendingBytes, dropped,
                 todo, wire>>

(* #acknowledge(count): one turn of its loop per envelope it pays for; a   *)
(* turn that finds nothing in flight ends the loop.                        *)
Acknowledge(count) ==
  /\ Quiescent
  /\ todo' = [i \in 1..count |-> Release]
  /\ UNCHANGED <<phase, inc, hist, sequences, pending, pendingBytes, inFlight,
                 inFlightBytes, dropped, hport, wire>>

\* Mutant: the bytes of an acknowledged envelope stay in the window.
ReleaseWithoutBytes ==
  /\ Releasing
  /\ todo' = IF inFlight = <<>> THEN <<>> ELSE Tail(todo)
  /\ inFlight' = IF inFlight = <<>> THEN <<>> ELSE Tail(inFlight)
  /\ UNCHANGED <<phase, inc, hist, sequences, pending, pendingBytes, inFlightBytes,
                 dropped, hport, wire>>

ReleaseOne ==
  /\ Releasing
  /\ IF inFlight = <<>>
     THEN /\ todo' = <<>>
          /\ UNCHANGED <<inFlight, inFlightBytes>>
     ELSE /\ todo' = Tail(todo)
          /\ inFlight' = Tail(inFlight)
          /\ inFlightBytes' = inFlightBytes - Head(inFlight)
  /\ UNCHANGED <<phase, inc, hist, sequences, pending, pendingBytes, dropped,
                 hport, wire>>

(* forgetSession, called when a session is disposed of.                    *)
ForgetSession(s) ==
  /\ sequences' = [sequences EXCEPT ![s] = 0]
  /\ dropped' = dropped \ {s}
  /\ UNCHANGED <<pending, pendingBytes, inFlight, inFlightBytes, hport, todo, wire>>

=============================================================================
