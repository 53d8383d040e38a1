--------------------------- MODULE ToolGatesProofs ---------------------------
(***************************************************************************)
(* ToolGates and Trays for every set of sessions, calls and dialogs, every *)
(* file system and every choice of tools: nothing runs without leave, what *)
(* waits belongs to an open session, the gates implement the safety part   *)
(* of Settlement, and once the events have arrived the renderer shows what *)
(* waits.                                                                  *)
(***************************************************************************)
EXTENDS Trays, FiniteSetTheorems, SequenceTheorems, TLAPS

\* An allowance was given to this opening or to one that failed to bind, and
\* its session is open or ended so, unless the host is about to exit.
AllowancesStand ==
  \A a \in allowed :
    /\ Given(a[1], a[2], openings[a[1]])
    /\ a[1] \in open \/ <<a[1], openings[a[1]]>> \in withdrawn \/ down

\* A call that waits was put in this opening, or every opening since failed.
CallsStand ==
  \A c \in Calls : state[c] \in Waiting =>
    /\ asked[c].opening <= openings[asked[c].session]
    /\ \A n \in asked[c].opening..(openings[asked[c].session] - 1) :
         <<asked[c].session, n>> \in withdrawn
    /\ \/ asked[c].session \in open
       \/ <<asked[c].session, openings[asked[c].session]>> \in withdrawn

DialogsStand ==
  \A d \in Dialogs : state[d] \in Waiting =>
    \/ asked[d].late
    \/ asked[d].session \in open /\ asked[d].opening = openings[asked[d].session]

\* A call has a timer from the moment it is put.
CallsHaveTimers == \A c \in Calls : state[c] # "unlimited"

DownIsEmpty == down => open = {} /\ Parked \subseteq Dialogs

\* The inductive invariant.
IInv ==
  /\ TypeOK
  /\ AllowancesStand /\ CallsStand /\ DialogsStand /\ CallsHaveTimers /\ DownIsEmpty
  /\ RanWithLeave

-----------------------------------------------------------------------------
(* Types. *)

LEMMA StateNames ==
  /\ Waiting \subseteq States /\ ByPolicy \subseteq States
  /\ {"new", "allowed", "denied", "unknown", "cancelled", "answered", "defaulted"} \subseteq States
BY DEF States, Waiting, ByPolicy

\* What a step that settles without an answer does to the requests.
LEMMA CancelledType ==
  ASSUME state \in [Requests -> States], NEW requests
  PROVE  Cancelled(requests) \in [Requests -> States]
BY StateNames DEF Cancelled

LEMMA CancelledFacts ==
  ASSUME TypeOK, NEW requests \in SUBSET Parked, state' = Cancelled(requests), asked' = asked
  PROVE  /\ \A c \in Calls : state'[c] \notin {"new", "unknown"} => asked'[c] \in Card
         /\ \A d \in Dialogs : state'[d] # "new" => asked'[d] \in Question
         /\ state' \in [Requests -> States] /\ DOMAIN asked' = Requests
<1>1. state' \in [Requests -> States] /\ DOMAIN asked' = Requests
  BY CancelledType DEF TypeOK
<1>2. ASSUME NEW c \in Calls, state'[c] \notin {"new", "unknown"} PROVE asked'[c] \in Card
  <2>1. state[c] \notin {"new", "unknown"}
    BY <1>2 DEF Cancelled, Parked, Waiting, Requests
  <2> QED
    BY <2>1 DEF TypeOK
<1>3. ASSUME NEW d \in Dialogs, state'[d] # "new" PROVE asked'[d] \in Question
  <2>1. state[d] # "new"
    BY <1>3 DEF Cancelled, Parked, Waiting, Requests
  <2> QED
    BY <2>1 DEF TypeOK
<1> QED
  BY <1>1, <1>2, <1>3

LEMMA ParkedOfParked ==
  ASSUME NEW s PROVE ParkedOf(s) \subseteq Parked
BY DEF ParkedOf

LEMMA InitType == ASSUME Init PROVE TypeOK
<1> USE GatesAssumption
<1>1. state \in [Requests -> States]
  BY StateNames DEF Init
<1>2. openings \in [Sessions -> 0..MaxOpenings] /\ trusts \in 0..MaxTrusts /\ deaths \in 0..MaxDeaths
  BY DEF Init
<1>3. \A r \in Requests : state[r] = "new"
  BY DEF Init
<1> QED
  BY <1>1, <1>2, <1>3 DEF Init, TypeOK, Requests

LEMMA SessionTypes ==
  ASSUME TypeOK, SessionStep PROVE TypeOK'
<1> USE GatesAssumption DEF sessionVars, boundVars, historyVars
<1>1. ASSUME NEW s \in Sessions, Register(s) PROVE TypeOK'
  BY <1>1 DEF TypeOK, Register
<1>2. ASSUME NEW s \in Sessions, Bound(s) PROVE TypeOK'
  BY <1>2 DEF TypeOK, Bound
<1>3. ASSUME NEW s \in Sessions, BindFails(s) PROVE TypeOK'
  <2>1. withdrawn' \subseteq Sessions \X (0..MaxOpenings)
    BY <1>3 DEF TypeOK, BindFails
  <2>2. ParkedOf(s) \cap Dialogs \subseteq Parked
    BY ParkedOfParked
  <2> QED
    BY <1>3, <2>1, <2>2, CancelledFacts DEF TypeOK, BindFails
<1>4. ASSUME NEW gone \in SUBSET Sessions, Close(gone) PROVE TypeOK'
  <2>1. UNION {ParkedOf(s) : s \in gone} \subseteq Parked
    BY ParkedOfParked
  <2> QED
    BY <1>4, <2>1, CancelledFacts DEF TypeOK, Close
<1>5. CASE Shutdown
  BY <1>5, CancelledFacts DEF TypeOK, Shutdown
<1>9. CASE HostDies
  <2>1. deaths' \in 0..MaxDeaths
    BY <1>9 DEF TypeOK, HostDies
  <2> QED
    BY <1>9, <2>1, CancelledFacts DEF TypeOK, HostDies
<1>6. CASE SetProjectTrust
  BY <1>6 DEF TypeOK, SetProjectTrust
<1>7. ASSUME NEW s \in Sessions, CloseSession(s) PROVE TypeOK'
  BY <1>4, <1>7 DEF CloseSession
<1>8. CASE CloseWorkspace
  BY <1>4, <1>8 DEF CloseWorkspace, TypeOK
<1> QED
  BY <1>1, <1>2, <1>3, <1>5, <1>6, <1>7, <1>8, <1>9 DEF SessionStep

\* A step that puts or settles one request and leaves the sessions alone.
LEMMA OneType ==
  ASSUME TypeOK, NEW r \in Requests, NEW x \in States, state' = [state EXCEPT ![r] = x],
         DOMAIN asked' = Requests,
         \A q \in Requests \ {r} : asked'[q] = asked[q],
         r \in Calls /\ x \notin {"new", "unknown"} => asked'[r] \in Card,
         r \in Dialogs /\ x # "new" => asked'[r] \in Question,
         UNCHANGED <<sessionVars, boundVars>>,
         allowed' \subseteq Sessions \X Tools,
         given' \subseteq [session : Sessions, opening : 0..MaxOpenings, tool : Tools],
         withdrawn' = withdrawn
  PROVE  TypeOK'
<1>1. \A q \in Requests \ {r} : state'[q] = state[q]
  BY DEF TypeOK
<1>2. state'[r] = x /\ state' \in [Requests -> States]
  BY DEF TypeOK
<1>3. \A c \in Calls : state'[c] \notin {"new", "unknown"} => asked'[c] \in Card
  BY <1>1, <1>2 DEF TypeOK, Requests
<1>4. \A d \in Dialogs : state'[d] # "new" => asked'[d] \in Question
  BY <1>1, <1>2 DEF TypeOK, Requests
<1> QED
  BY <1>2, <1>3, <1>4 DEF TypeOK, sessionVars, boundVars

LEMMA CallTypes ==
  ASSUME TypeOK, CallStep PROVE TypeOK'
<1> PICK c \in Calls :
      \/ EvaluateUnknown(c)
      \/ \E s \in Sessions, tool \in Tools, arg \in Arguments : Evaluate(c, s, tool, arg)
      \/ \E decision \in {"allow_once", "allow_for_session", "deny"} : Respond(c, decision)
  BY DEF CallStep
<1>0. c \in Requests /\ c \notin Dialogs
  BY GatesAssumption DEF Requests
<1>1. CASE EvaluateUnknown(c)
  <2>1. state' = [state EXCEPT ![c] = "unknown"] /\ "unknown" \in States
    BY <1>1, StateNames DEF EvaluateUnknown
  <2> QED
    BY <1>0, <1>1, <2>1, OneType DEF EvaluateUnknown, TypeOK, historyVars
<1>2. ASSUME NEW s \in Sessions, NEW tool \in Tools, NEW arg \in Arguments, Evaluate(c, s, tool, arg)
      PROVE  TypeOK'
  <2>1. PICK x \in {"exempt", "allowance", "parked", "cancelled"} : state' = [state EXCEPT ![c] = x]
    BY <1>2 DEF Evaluate, Outcomes
  <2>2. x \in States
    BY <2>1, StateNames DEF Waiting, ByPolicy
  <2>3. asked'[c] \in Card
    BY <1>0, <1>2 DEF Evaluate, TypeOK, Card
  <2> QED
    BY <1>0, <1>2, <2>1, <2>2, <2>3, OneType DEF Evaluate, TypeOK, historyVars
<1>3. ASSUME NEW decision \in {"allow_once", "allow_for_session", "deny"}, Respond(c, decision)
      PROVE  TypeOK'
  <2>1. PICK x \in {"denied", "allowed"} : state' = [state EXCEPT ![c] = x]
    BY <1>3 DEF Respond
  <2>2. x \in States
    BY <2>1, StateNames
  <2>3. asked[c] \in Card
    BY <1>3 DEF Respond, TypeOK
  <2>4. /\ allowed' \subseteq Sessions \X Tools
        /\ given' \subseteq [session : Sessions, opening : 0..MaxOpenings, tool : Tools]
    BY <1>3, <2>3 DEF Respond, TypeOK, Card
  <2> QED
    BY <1>0, <1>3, <2>1, <2>2, <2>3, <2>4, OneType DEF Respond, TypeOK
<1> QED
  BY <1>1, <1>2, <1>3

LEMMA DialogTypes ==
  ASSUME TypeOK, DialogStep PROVE TypeOK'
<1> PICK d \in Dialogs :
      \/ \E s \in Sessions, standing \in Waiting \cup {"defaulted"} : Ask(d, s, standing)
      \/ \E reply \in {"answered", "defaulted"} : Answer(d, reply)
  BY DEF DialogStep
<1>0. d \in Requests /\ d \notin Calls
  BY GatesAssumption DEF Requests
<1>1. ASSUME NEW s \in Sessions, NEW x \in Waiting \cup {"defaulted"}, Ask(d, s, x) PROVE TypeOK'
  <2>1. x \in States
    BY <1>1, StateNames
  <2>2. asked'[d] \in Question
    BY <1>0, <1>1 DEF Ask, TypeOK, Question
  <2> QED
    BY <1>0, <1>1, <2>1, <2>2, OneType DEF Ask, TypeOK, historyVars
<1>2. ASSUME NEW x \in {"answered", "defaulted"}, Answer(d, x) PROVE TypeOK'
  <2>1. x \in States
    BY <1>2, StateNames
  <2>2. asked[d] \in Question
    BY <1>2 DEF Answer, TypeOK, Waiting
  <2> QED
    BY <1>0, <1>2, <2>1, <2>2, OneType DEF Answer, TypeOK, historyVars
<1> QED
  BY <1>1, <1>2

\* The steps of SettleStep are one: parked requests are cancelled.
LEMMA SettleIsCancel ==
  ASSUME SettleStep PROVE \E requests \in SUBSET Parked : Cancel(requests)
<1>1. ASSUME NEW r \in Requests, Expire(r) \/ SignalAborts(r)
      PROVE  \E requests \in SUBSET Parked : Cancel(requests)
  <2>1. r \in Parked /\ Cancel({r})
    BY <1>1 DEF Expire, SignalAborts, Parked, Waiting
  <2> QED
    BY <2>1
<1>2. ASSUME NEW s \in Sessions, Abort(s) PROVE \E requests \in SUBSET Parked : Cancel(requests)
  <2>1. PICK calls \in {{}, ParkedOf(s) \cap Calls} : Cancel((ParkedOf(s) \cap Dialogs) \cup calls)
    BY <1>2 DEF Abort
  <2>2. (ParkedOf(s) \cap Dialogs) \cup calls \subseteq Parked
    BY ParkedOfParked
  <2> QED
    BY <2>1, <2>2
<1> QED
  BY <1>1, <1>2 DEF SettleStep

LEMMA TypeStep == ASSUME TypeOK, [Next]_vars PROVE TypeOK'
<1>1. CASE SettleStep
  BY <1>1, SettleIsCancel, CancelledFacts
     DEF Cancel, TypeOK, sessionVars, boundVars, historyVars
<1>2. CASE UNCHANGED vars
  BY <1>2 DEF TypeOK, vars, sessionVars, boundVars, historyVars
<1> QED
  BY <1>1, <1>2, SessionTypes, CallTypes, DialogTypes DEF Next

\* A request, its place and the sessions keep their types.
THEOREM TypeCorrect == Spec => []TypeOK
BY InitType, TypeStep, PTL DEF Spec


-----------------------------------------------------------------------------
(* Where a write lands, against what the policy makes of its path.          *)

\* The last directory on a path that exists, when it is known.
LEMMA LandingIs ==
  ASSUME NEW path \in Seq(STRING), path \notin DOMAIN Dangling,
         NEW k \in 0..Len(path), SubSeq(path, 1, k) \in Existing,
         \A j \in (k + 1)..Len(path) : SubSeq(path, 1, j) \notin Existing
  PROVE  Landing(path) = RealPath[SubSeq(path, 1, k)] \o SubSeq(path, k + 1, Len(path))
<1> DEFINE Ends(n) == /\ SubSeq(path, 1, n) \in Existing
                      /\ \A j \in (n + 1)..Len(path) : SubSeq(path, 1, j) \notin Existing
<1>0. Len(path) \in Nat
  OBVIOUS
<1>1. Ends(k)
  OBVIOUS
<1>2. ASSUME NEW n \in 0..Len(path), Ends(n) PROVE n = k
  <2>1. ~(n < k)
    <3>1. n < k => k \in (n + 1)..Len(path)
      BY <1>0
    <3> QED
      BY <1>1, <1>2, <3>1
  <2>2. ~(k < n)
    <3>1. k < n => n \in (k + 1)..Len(path)
      BY <1>0
    <3> QED
      BY <1>1, <1>2, <3>1
  <2> QED
    BY <1>0, <2>1, <2>2
<1> HIDE DEF Ends
<1>3. (CHOOSE n \in 0..Len(path) : Ends(n)) = k
  BY <1>1, <1>2
<1> QED
  BY <1>3 DEF Landing, Ends

\* Without a parent that exists the check goes by the text of the path, as the
\* write does when no link is above it.
LEMMA LandingOfAMissingParent ==
  ASSUME NEW path \in Seq(STRING), ~Unseen(path), path \notin Existing,
         path = <<>> \/ Front(path) \notin Existing
  PROVE  Landing(path) = Canonicalize(path)
<1>1. path # <<>>
  BY FileSystemAssumption
<1>2. Front(path) \notin Existing
  BY <1>1
<1> QED
  BY <1>2 DEF Unseen, Canonicalize

\* The check sees every link but the two kinds of Unseen.
LEMMA CanonicalizeSees ==
  ASSUME NEW path \in Seq(STRING), ~Unseen(path)
  PROVE  Landing(path) = Canonicalize(path)
<1>0. path \notin DOMAIN Dangling /\ Len(path) \in Nat
  BY DEF Unseen
<1>f. \A q \in Existing : RealPath[q] \in Seq(STRING)
  BY FileSystemAssumption
<1>1. CASE path \in Existing
  <2>1. SubSeq(path, 1, Len(path)) = path
    BY SubSeqFull
  <2>2. \A j \in (Len(path) + 1)..Len(path) : SubSeq(path, 1, j) \notin Existing
    BY <1>0
  <2>3. Landing(path) = RealPath[path] \o SubSeq(path, Len(path) + 1, Len(path))
    <3>0. SubSeq(path, 1, Len(path)) \in Existing
      BY <1>1, <2>1, Zenon
    <3>1. Len(path) \in 0..Len(path)
      BY <1>0
    <3>2. Landing(path) = RealPath[SubSeq(path, 1, Len(path))]
                            \o SubSeq(path, Len(path) + 1, Len(path))
      BY <1>0, <2>2, <3>0, <3>1, LandingIs
    <3> QED
      BY <2>1, <3>2, Zenon
  <2>4. SubSeq(path, Len(path) + 1, Len(path)) = <<>>
    BY <1>0, SubSeqEmpty
  <2> QED
    BY <1>1, <1>f, <2>3, <2>4 DEF Canonicalize
<1>2. CASE path \notin Existing /\ path # <<>> /\ Front(path) \in Existing
  <2>0. Len(path) - 1 \in 0..Len(path) /\ Len(path) \in 1..Len(path)
    BY <1>0, <1>2
  <2>1. Front(path) = SubSeq(path, 1, Len(path) - 1)
    BY DEF Front
  <2>2. \A j \in ((Len(path) - 1) + 1)..Len(path) : SubSeq(path, 1, j) \notin Existing
    <3>1. \A j \in ((Len(path) - 1) + 1)..Len(path) : j = Len(path)
      BY <1>0
    <3>2. SubSeq(path, 1, Len(path)) = path
      BY SubSeqFull
    <3> QED
      BY <1>2, <3>1, <3>2
  <2>3. Landing(path) = RealPath[Front(path)] \o SubSeq(path, (Len(path) - 1) + 1, Len(path))
    BY <1>0, <1>2, <2>0, <2>1, <2>2, LandingIs
  <2>4. SubSeq(path, (Len(path) - 1) + 1, Len(path)) = <<Last(path)>>
    <3> DEFINE n == (Len(path) - 1) + 1
    <3>1. n = Len(path) /\ n \in 1..Len(path) /\ n \in 1..(Len(path) + 1)
      BY <1>0, <2>0
    <3>2. SubSeq(path, Len(path), Len(path) - 1) = <<>>
      BY <1>0, SubSeqEmpty
    <3>3. SubSeq(path, Len(path), Len(path)) = <<path[Len(path)]>>
      <4>1. SubSeq(path, Len(path), Len(path))
              = SubSeq(path, Len(path), Len(path) - 1) \o <<path[Len(path)]>>
        BY <1>0, <2>0, SubSeqRecursiveSecond
      <4>2. path[Len(path)] \in STRING
        BY <2>0
      <4>3. <<>> \o <<path[Len(path)]>> = <<path[Len(path)]>>
        BY <4>2, ConcatEmptySeq
      <4> QED
        BY <3>2, <4>1, <4>3, Zenon
    <3> QED
      BY <3>1, <3>3 DEF Last
  <2>5. RealPath[Front(path)] \in Seq(STRING) /\ Last(path) \in STRING
    BY <1>2, <1>f, <2>0 DEF Last
  <2>6. RealPath[Front(path)] \o <<Last(path)>> = Append(RealPath[Front(path)], Last(path))
    BY <2>5
  <2> QED
    BY <1>2, <2>3, <2>4, <2>6 DEF Canonicalize
<1> QED
  BY <1>1, <1>2, LandingOfAMissingParent

\* A canonical form is its own.
LEMMA CanonicalizeTwice ==
  ASSUME NEW path \in Seq(STRING)
  PROVE  /\ Canonicalize(path) \in Seq(STRING)
         /\ Canonicalize(Canonicalize(path)) = Canonicalize(path)
<1>1. CASE path \in Existing
  BY <1>1, FileSystemAssumption DEF Canonicalize
<1>2. CASE path \notin Existing /\ path # <<>> /\ Front(path) \in Existing
  <2> DEFINE q == Front(path)
             e == Append(RealPath[q], Last(path))
  <2>0. /\ q \in Existing /\ RealPath[q] \in Existing
        /\ RealPath[q] \in Seq(STRING) /\ RealPath[RealPath[q]] = RealPath[q]
    BY <1>2, FileSystemAssumption
  <2>1. Last(path) \in STRING /\ path = Append(q, Last(path))
    <3>1. Len(path) \in Nat \ {0}
      BY <1>2
    <3>2. Last(path) = path[Len(path)] /\ q = SubSeq(path, 1, Len(path) - 1)
      BY DEF Last, Front
    <3> QED
      BY <3>1, <3>2
  <2>2. /\ e \in Seq(STRING) /\ e # <<>>
        /\ Front(e) = RealPath[q] /\ Last(e) = Last(path)
    <3>1. e \in Seq(STRING) /\ Len(e) = Len(RealPath[q]) + 1 /\ e[Len(e)] = Last(path)
      BY <2>0, <2>1
    <3>2. SubSeq(e, 1, Len(e) - 1) = RealPath[q]
      BY <2>0, <2>1, <3>1
    <3> QED
      BY <3>1, <3>2 DEF Last, Front
  <2> HIDE DEF q, e
  <2>3. e \notin Existing
    <3>1. e \in Existing => Append(q, Last(e)) \in Existing
      BY <2>0, <2>2, FileSystemAssumption
    <3> QED
      BY <1>2, <2>1, <2>2, <3>1
  <2>4. Canonicalize(path) = e
    BY <1>2 DEF Canonicalize, q, e
  <2>5. Canonicalize(e) = Append(RealPath[RealPath[q]], Last(path))
    BY <2>0, <2>2, <2>3 DEF Canonicalize
  <2>6. e = Append(RealPath[q], Last(path))
    BY DEF e
  <2> QED
    BY <2>0, <2>2, <2>4, <2>5, <2>6
<1>3. CASE path \notin Existing /\ ~(path # <<>> /\ Front(path) \in Existing)
  BY <1>3 DEF Canonicalize
<1> QED
  BY <1>1, <1>2, <1>3

\* What the policy takes for inside lands inside.
LEMMA InsideLandsInside ==
  ASSUME NEW root \in Existing, NEW path \in Seq(STRING), ~Unseen(path),
         IsInside(root, Canonicalize(path))
  PROVE  LandsInside(root, path)
<1>1. Canonicalize(root) = RealPath[root] /\ RealPath[root] \in Seq(STRING)
  BY FileSystemAssumption DEF Canonicalize
<1>2. Canonicalize(Canonicalize(path)) = Landing(path)
  BY CanonicalizeSees, CanonicalizeTwice
<1>3. RealPath[root] = Landing(path) \/ IsStrictPrefix(RealPath[root], Landing(path))
  BY <1>1, <1>2 DEF IsInside
<1>4. CASE RealPath[root] = Landing(path)
  <2>1. Len(RealPath[root]) \in Nat
    BY <1>1
  <2> QED
    BY <1>1, <1>4, <2>1 DEF LandsInside, IsPrefix
<1>5. CASE IsStrictPrefix(RealPath[root], Landing(path))
  BY <1>5 DEF LandsInside, IsStrictPrefix
<1> QED
  BY <1>3, <1>4, <1>5

-----------------------------------------------------------------------------
(* Leave.  What a step leaves of the facts about allowances and calls.      *)

\* What was given for an opening stays given for it.
LEMMA GivenStays ==
  ASSUME given \subseteq given', withdrawn \subseteq withdrawn',
         NEW s, NEW tool, NEW opening, Given(s, tool, opening)
  PROVE  Given(s, tool, opening)'
BY DEF Given

\* RanWithLeave survives what only settles, gives or withdraws.
LEMMA LeaveStays ==
  ASSUME RanWithLeave, given \subseteq given', withdrawn \subseteq withdrawn',
         \A c \in Calls : state'[c] \in ByPolicy => state'[c] = state[c] /\ asked'[c] = asked[c]
  PROVE  RanWithLeave'
<1> SUFFICES ASSUME NEW c \in Calls
             PROVE  /\ state'[c] = "exempt" => Harmless(asked'[c])
                    /\ (state[c] = "allowance"
                          => Given(asked[c].session, asked[c].tool, asked[c].opening))'
  BY DEF RanWithLeave
<1>1. CASE state'[c] \notin ByPolicy
  BY <1>1 DEF ByPolicy
<1>2. CASE state'[c] \in ByPolicy
  <2>1. state'[c] = state[c] /\ asked'[c] = asked[c]
    BY <1>2
  <2>2. state[c] = "exempt" => Harmless(asked[c])
    BY DEF RanWithLeave
  <2>3. CASE state[c] = "allowance"
    <3>1. Given(asked[c].session, asked[c].tool, asked[c].opening)
      BY <2>3 DEF RanWithLeave
    <3> QED
      BY <2>1, <2>3, <3>1 DEF Given
  <2> QED
    BY <2>1, <2>2, <2>3
<1> QED
  BY <1>1, <1>2

\* The policy lets nothing through that is not harmless.
LEMMA ExemptIsHarmless ==
  ASSUME TypeOK, NEW s \in Sessions, NEW tool \in Tools, NEW arg \in Arguments,
         Reason(tool, arg) = NoReason
  PROVE  Harmless([session |-> s, opening |-> openings[s], tool |-> tool, arg |-> arg, trust |-> trust])
<1> DEFINE card == [session |-> s, opening |-> openings[s], tool |-> tool, arg |-> arg, trust |-> trust]
<1> DEFINE extracted == ExtractTargets(tool, arg, Root)
<1> DEFINE classified == ClassifyTargets(Root, extracted.targets)
<1>1. RequiresApproval(trust, classified, extracted.resolved) = NoReason
  BY DEF Reason
<1>2. trust # "untrusted"
  BY <1>1 DEF RequiresApproval, NoReason
<1>3. CASE trust = "full"
  BY <1>3 DEF Harmless
<1>4. CASE trust # "full"
  <2>1. trust = "trusted"
    BY <1>2, <1>4 DEF TypeOK, TrustLevels
  <2>2. extracted.resolved /\ ~\E t \in classified : ~t.inside /\ t.kind # "read"
    BY <1>1, <2>1 DEF RequiresApproval, NoReason
  <2>3. CASE tool \in ShellTools
    BY <2>1, <2>3 DEF Harmless
  <2>4. CASE tool \notin ShellTools
    <3>1. tool \in DOMAIN FileTools
      BY <2>2, <2>4 DEF ExtractTargets
    <3>2. CASE FileTools[tool].kind = "read"
      <4>1. tool \in Readers
        BY <3>1, <3>2 DEF FileTools, Readers
      <4> QED
        BY <2>1, <4>1 DEF Harmless
    <3>3. CASE FileTools[tool].kind # "read"
      <4>0. tool \in Writers /\ FileTools[tool].fallback = FALSE
        BY <3>1, <3>3 DEF FileTools, Writers
      <4>2. arg # NoPath
        BY <2>2, <2>4, <3>1, <4>0 DEF ExtractTargets
      <4>3. extracted.targets = {[path |-> arg, kind |-> FileTools[tool].kind]}
        BY <2>4, <3>1, <4>2 DEF ExtractTargets
      <4>4. [kind |-> FileTools[tool].kind, inside |-> IsInside(Root, Canonicalize(arg))] \in classified
        BY <4>3 DEF ClassifyTargets
      <4>5. IsInside(Root, Canonicalize(arg))
        BY <2>2, <3>3, <4>4
      <4>6. LandsInside(Root, arg) \/ Unseen(arg)
        <5>1. Root \in Existing /\ arg \in Seq(STRING)
          BY <4>2, GatesAssumption
        <5> QED
          BY <4>5, <5>1, InsideLandsInside
      <4> QED
        BY <2>1, <4>0, <4>2, <4>6 DEF Harmless
    <3> QED
      BY <3>2, <3>3
  <2> QED
    BY <2>3, <2>4
<1> QED
  BY <1>3, <1>4

\* A request that waits after a cancellation was waiting before, and was not
\* among the cancelled; nothing becomes exempt by one.
LEMMA CancelledStands ==
  ASSUME TypeOK, NEW requests \in SUBSET Requests, state' = Cancelled(requests)
  PROVE  \A r \in Requests :
           /\ state'[r] \in Waiting => state'[r] = state[r] /\ r \notin requests
           /\ state'[r] \in ByPolicy => state'[r] = state[r]
           /\ state'[r] = "unlimited" => state[r] = "unlimited"
BY DEF Cancelled, Waiting, ByPolicy

LEMMA Subsets ==
  /\ Parked \subseteq Requests /\ Calls \subseteq Requests /\ Dialogs \subseteq Requests
  /\ \A s : ParkedOf(s) \subseteq Requests
BY DEF Parked, ParkedOf, Requests

\* What stays when requests are cancelled and the sessions are left alone.
LEMMA CancelKeeps ==
  ASSUME IInv, NEW requests \in SUBSET Parked, Cancel(requests) PROVE IInv'
<1> USE DEF IInv, Cancel, sessionVars, boundVars, historyVars
<1>0. TypeOK'
  BY CancelledFacts DEF TypeOK
<1>1. \A r \in Requests :
        /\ state'[r] \in Waiting => state'[r] = state[r] /\ asked'[r] = asked[r]
        /\ state'[r] \in ByPolicy => state'[r] = state[r] /\ asked'[r] = asked[r]
        /\ state'[r] = "unlimited" => state[r] = "unlimited"
  BY CancelledStands, Subsets
<1>2. AllowancesStand'
  BY DEF AllowancesStand, Given
<1>3. CallsStand' /\ DialogsStand' /\ CallsHaveTimers'
  BY <1>1, Subsets DEF CallsStand, DialogsStand, CallsHaveTimers
<1>4. DownIsEmpty'
  BY <1>1, Subsets DEF DownIsEmpty, Parked
<1>5. RanWithLeave'
  BY <1>1, Subsets, LeaveStays
<1> QED
  BY <1>0, <1>2, <1>3, <1>4, <1>5

LEMMA RegisterKeeps ==
  ASSUME IInv, NEW s \in Sessions, Register(s) PROVE IInv'
<1> USE DEF IInv, Register, boundVars, historyVars
<1>0. TypeOK'
  BY TypeStep DEF Next, SessionStep
<1>1. openings \in [Sessions -> 0..MaxOpenings] /\ openings' = [openings EXCEPT ![s] = @ + 1]
  BY DEF TypeOK
<1>2. \A q \in Sessions : openings'[q] = IF q = s THEN openings[s] + 1 ELSE openings[q]
  BY <1>1
<1>3. AllowancesStand'
  <2> SUFFICES ASSUME NEW a \in allowed
               PROVE  /\ Given(a[1], a[2], openings[a[1]])'
                      /\ a[1] \in open' \/ (<<a[1], openings[a[1]]>> \in withdrawn \/ down)'
    BY DEF AllowancesStand
  <2>1. Given(a[1], a[2], openings[a[1]]) /\ (a[1] \in open \/ <<a[1], openings[a[1]]>> \in withdrawn)
    BY DEF AllowancesStand
  <2>2. a[1] \in Sessions
    BY DEF TypeOK
  <2>3. CASE a[1] # s
    BY <1>2, <2>1, <2>2, <2>3 DEF Given
  <2>4. CASE a[1] = s
    <3>1. <<s, openings[s]>> \in withdrawn
      BY <2>1, <2>4
    <3>2. PICK g \in given :
            /\ g.session = s /\ g.tool = a[2] /\ g.opening <= openings[s]
            /\ \A n \in g.opening..(openings[s] - 1) : <<s, n>> \in withdrawn
      BY <2>1, <2>4 DEF Given
    <3>3. g.opening \in Nat /\ openings[s] \in Nat
      BY GatesAssumption, <1>1, <3>2 DEF TypeOK
    <3>4. g.opening <= openings[s] + 1 /\ \A n \in g.opening..openings[s] : <<s, n>> \in withdrawn
      BY <3>1, <3>2, <3>3
    <3>5. openings'[s] = openings[s] + 1 /\ given' = given /\ withdrawn' = withdrawn
      BY <1>2
    <3>6. Given(a[1], a[2], openings[a[1]])'
      BY <2>4, <3>2, <3>3, <3>4, <3>5 DEF Given
    <3> QED
      BY <2>4, <3>6
  <2> QED
    BY <2>3, <2>4
<1>4. CallsStand'
  <2> SUFFICES ASSUME NEW c \in Calls, state[c] \in Waiting
               PROVE  /\ asked[c].opening <= openings'[asked[c].session]
                      /\ \A n \in asked[c].opening..(openings'[asked[c].session] - 1) :
                           <<asked[c].session, n>> \in withdrawn
                      /\ \/ asked[c].session \in open'
                         \/ <<asked[c].session, openings'[asked[c].session]>> \in withdrawn
    BY DEF CallsStand
  <2>1. asked[c] \in Card
    BY DEF TypeOK, Waiting
  <2>2. asked[c].session \in Sessions /\ asked[c].opening \in Nat
    BY GatesAssumption, <2>1 DEF Card
  <2>3. /\ asked[c].opening <= openings[asked[c].session]
        /\ \A n \in asked[c].opening..(openings[asked[c].session] - 1) :
             <<asked[c].session, n>> \in withdrawn
        /\ \/ asked[c].session \in open
           \/ <<asked[c].session, openings[asked[c].session]>> \in withdrawn
    BY DEF CallsStand
  <2>4. CASE asked[c].session # s
    BY <1>2, <2>2, <2>3, <2>4
  <2>5. CASE asked[c].session = s
    <3>1. <<s, openings[s]>> \in withdrawn /\ openings[s] \in Nat
      BY GatesAssumption, <1>1, <2>3, <2>5
    <3> QED
      BY <1>2, <2>2, <2>3, <2>5, <3>1
  <2> QED
    BY <2>4, <2>5
<1>5. DialogsStand'
  <2> SUFFICES ASSUME NEW d \in Dialogs, state[d] \in Waiting, ~asked[d].late
               PROVE  asked[d].session \in open' /\ asked[d].opening = openings'[asked[d].session]
    BY DEF DialogsStand
  <2>1. asked[d].session \in open /\ asked[d].opening = openings[asked[d].session]
    BY DEF DialogsStand
  <2>2. asked[d].session \in Sessions /\ asked[d].session # s
    BY <2>1 DEF TypeOK
  <2> QED
    BY <1>2, <2>1, <2>2
<1>6. CallsHaveTimers' /\ DownIsEmpty'
  BY DEF CallsHaveTimers, DownIsEmpty
<1>7. RanWithLeave'
  BY LeaveStays
<1> QED
  BY <1>0, <1>3, <1>4, <1>5, <1>6, <1>7

\* What stays when sessions go and some of the requests are cancelled.
LEMMA LeavingKeeps ==
  ASSUME IInv, TypeOK', NEW requests \in SUBSET Parked, state' = Cancelled(requests),
         UNCHANGED <<openings, asked, given>>,
         withdrawn \subseteq withdrawn',
         allowed' \subseteq allowed,
         \A a \in allowed' : a[1] \in open' \/ <<a[1], openings[a[1]]>> \in withdrawn' \/ down',
         \A c \in Calls \cap Parked : c \notin requests =>
            asked[c].session \in open' \/ <<asked[c].session, openings[asked[c].session]>> \in withdrawn',
         \A d \in Dialogs \cap Parked : d \notin requests =>
            asked[d].late \/ asked[d].session \in open',
         down' => open' = {} /\ (down \/ requests = Parked)
  PROVE  IInv'
<1> USE DEF IInv
<1>1. \A r \in Requests :
        /\ state'[r] \in Waiting => state[r] \in Waiting /\ r \notin requests
        /\ state'[r] \in ByPolicy => state'[r] = state[r]
        /\ state'[r] = "unlimited" => state[r] = "unlimited"
  BY CancelledStands, Subsets
<1>2. AllowancesStand'
  <2> SUFFICES ASSUME NEW a \in allowed' PROVE Given(a[1], a[2], openings[a[1]])'
    BY DEF AllowancesStand
  <2>1. Given(a[1], a[2], openings[a[1]])
    BY DEF AllowancesStand
  <2> QED
    BY <2>1 DEF Given
<1>3. CallsStand'
  <2> SUFFICES ASSUME NEW c \in Calls, state'[c] \in Waiting
               PROVE  /\ asked[c].opening <= openings[asked[c].session]
                      /\ \A n \in asked[c].opening..(openings[asked[c].session] - 1) :
                           <<asked[c].session, n>> \in withdrawn'
                      /\ \/ asked[c].session \in open'
                         \/ <<asked[c].session, openings[asked[c].session]>> \in withdrawn'
    BY DEF CallsStand
  <2>1. state[c] \in Waiting /\ c \notin requests /\ c \in Parked
    BY <1>1, Subsets DEF Parked
  <2> QED
    BY <2>1 DEF CallsStand
<1>4. DialogsStand'
  <2> SUFFICES ASSUME NEW d \in Dialogs, state'[d] \in Waiting
               PROVE  asked[d].late \/ (asked[d].session \in open' /\ asked[d].opening = openings[asked[d].session])
    BY DEF DialogsStand
  <2>1. state[d] \in Waiting /\ d \notin requests /\ d \in Parked
    BY <1>1, Subsets DEF Parked
  <2> QED
    BY <2>1 DEF DialogsStand
<1>5. CallsHaveTimers'
  BY <1>1, Subsets DEF CallsHaveTimers
<1>6. DownIsEmpty'
  <2> SUFFICES ASSUME down' PROVE Parked' \subseteq Dialogs
    BY DEF DownIsEmpty
  <2>1. Parked' \subseteq Parked \ requests
    BY <1>1 DEF Parked
  <2> QED
    BY <2>1 DEF DownIsEmpty
<1>7. RanWithLeave'
  BY <1>1, Subsets, LeaveStays
<1> QED
  BY <1>2, <1>3, <1>4, <1>5, <1>6, <1>7

LEMMA SessionKeeps ==
  ASSUME IInv, SessionStep PROVE IInv'
<1>0. TypeOK'
  BY TypeStep DEF IInv, Next
<1>1. ASSUME NEW s \in Sessions, Bound(s) PROVE IInv'
  <2>1. RanWithLeave'
    BY <1>1, LeaveStays DEF IInv, Bound, historyVars
  <2> QED
    BY <1>0, <1>1, <2>1
       DEF IInv, Bound, AllowancesStand, Given, CallsStand, DialogsStand, CallsHaveTimers,
           DownIsEmpty, Parked, historyVars
<1>2. ASSUME NEW s \in Sessions, BindFails(s) PROVE IInv'
  <2> DEFINE dropped == ParkedOf(s) \cap Dialogs
  <2>1. /\ dropped \in SUBSET Parked /\ state' = Cancelled(dropped)
        /\ UNCHANGED <<openings, asked, given, allowed, down>>
        /\ open' = open \ {s} /\ withdrawn' = withdrawn \cup {<<s, openings[s]>>}
    BY <1>2, ParkedOfParked DEF BindFails
  <2>2. \A a \in allowed' : a[1] \in open' \/ <<a[1], openings[a[1]]>> \in withdrawn' \/ down'
    BY <2>1 DEF IInv, AllowancesStand
  <2>3. \A c \in Calls \cap Parked :
          asked[c].session \in open' \/ <<asked[c].session, openings[asked[c].session]>> \in withdrawn'
    BY <2>1 DEF IInv, CallsStand, Parked
  <2>4. \A d \in Dialogs \cap Parked : d \notin dropped => asked[d].late \/ asked[d].session \in open'
    BY <2>1 DEF IInv, DialogsStand, Parked, ParkedOf
  <2>5. down' => open' = {} /\ down
    BY <2>1 DEF IInv, DownIsEmpty
  <2> HIDE DEF dropped
  <2> QED
    BY <1>0, <2>1, <2>2, <2>3, <2>4, <2>5, LeavingKeeps
<1>3. ASSUME NEW gone \in SUBSET Sessions, Close(gone) PROVE IInv'
  <2> DEFINE dropped == UNION {ParkedOf(s) : s \in gone}
  <2>1. /\ dropped \in SUBSET Parked /\ state' = Cancelled(dropped)
        /\ UNCHANGED <<openings, asked, given, withdrawn, down>>
        /\ open' = open \ gone /\ allowed' = {a \in allowed : a[1] \notin gone}
    BY <1>3, ParkedOfParked DEF Close, historyVars
  <2>2. \A a \in allowed' : a[1] \in open' \/ <<a[1], openings[a[1]]>> \in withdrawn' \/ down'
    BY <2>1 DEF IInv, AllowancesStand
  <2>3. \A r \in Parked : r \notin dropped => asked[r].session \notin gone
    BY DEF ParkedOf
  <2>4. \A c \in Calls \cap Parked : c \notin dropped =>
          asked[c].session \in open' \/ <<asked[c].session, openings[asked[c].session]>> \in withdrawn'
    BY <2>1, <2>3 DEF IInv, CallsStand, Parked
  <2>5. \A d \in Dialogs \cap Parked : d \notin dropped => asked[d].late \/ asked[d].session \in open'
    BY <2>1, <2>3 DEF IInv, DialogsStand, Parked
  <2>6. down' => open' = {} /\ down
    BY <2>1 DEF IInv, DownIsEmpty
  <2> HIDE DEF dropped
  <2> QED
    BY <1>0, <2>1, <2>2, <2>4, <2>5, <2>6, LeavingKeeps
<1>4. CASE Shutdown
  BY <1>0, <1>4, LeavingKeeps DEF Shutdown, historyVars
<1>5. CASE HostDies
  BY <1>0, <1>5, LeavingKeeps DEF HostDies, historyVars
<1>6. CASE SetProjectTrust
  <2>1. RanWithLeave'
    BY <1>6, LeaveStays DEF IInv, SetProjectTrust, historyVars
  <2> QED
    BY <1>0, <1>6, <2>1
       DEF IInv, SetProjectTrust, AllowancesStand, Given, CallsStand, DialogsStand,
           CallsHaveTimers, DownIsEmpty, Parked, historyVars
<1>7. ASSUME NEW s \in Sessions, CloseSession(s) PROVE IInv'
  BY <1>3, <1>7 DEF CloseSession
<1>8. CASE CloseWorkspace
  BY <1>3, <1>8 DEF CloseWorkspace, IInv, TypeOK
<1> QED
  BY <1>1, <1>2, <1>4, <1>5, <1>6, <1>7, <1>8, RegisterKeeps DEF SessionStep

LeaveOf(c) ==
  /\ state[c] = "exempt" => Harmless(asked[c])
  /\ state[c] = "allowance" => Given(asked[c].session, asked[c].tool, asked[c].opening)

\* A step that puts or settles the request r.
LEMMA OneKeeps ==
  ASSUME IInv, TypeOK', NEW r \in Requests, NEW x \in States, state' = [state EXCEPT ![r] = x],
         \A q \in Requests \ {r} : asked'[q] = asked[q],
         UNCHANGED <<openings, open, down, withdrawn>>,
         given \subseteq given',
         AllowancesStand',
         x \in Waiting /\ r \in Calls =>
            x # "unlimited" /\ asked'[r].session \in open
              /\ asked'[r].opening = openings[asked'[r].session],
         x \in Waiting /\ r \in Dialogs =>
            asked'[r].late \/ (asked'[r].session \in open
                                /\ asked'[r].opening = openings[asked'[r].session]),
         x \in Waiting => r \in Dialogs \/ open # {},
         r \in Calls => LeaveOf(r)'
  PROVE  IInv'
<1> USE DEF IInv
<1>1. /\ \A q \in Requests \ {r} : state'[q] = state[q] /\ asked'[q] = asked[q]
      /\ state'[r] = x
  BY DEF TypeOK
<1>2. CallsStand'
  <2> SUFFICES ASSUME NEW c \in Calls, state'[c] \in Waiting
               PROVE  /\ asked'[c].opening <= openings[asked'[c].session]
                      /\ \A n \in asked'[c].opening..(openings[asked'[c].session] - 1) :
                           <<asked'[c].session, n>> \in withdrawn
                      /\ \/ asked'[c].session \in open
                         \/ <<asked'[c].session, openings[asked'[c].session]>> \in withdrawn
    BY DEF CallsStand
  <2>1. CASE c # r
    BY <1>1, <2>1, Subsets DEF CallsStand
  <2>2. CASE c = r
    <3>1. asked'[r].session \in open /\ asked'[r].opening = openings[asked'[r].session]
      BY <1>1, <2>2
    <3>2. openings[asked'[r].session] \in Nat
      BY <3>1, GatesAssumption DEF TypeOK
    <3> QED
      BY <2>2, <3>1, <3>2
  <2> QED
    BY <2>1, <2>2
<1>3. DialogsStand'
  <2> SUFFICES ASSUME NEW d \in Dialogs, state'[d] \in Waiting
               PROVE  \/ asked'[d].late
                      \/ asked'[d].session \in open /\ asked'[d].opening = openings[asked'[d].session]
    BY DEF DialogsStand
  <2> QED
    BY <1>1, Subsets DEF DialogsStand
<1>4. CallsHaveTimers'
  BY <1>1, Subsets DEF CallsHaveTimers, Waiting
<1>5. DownIsEmpty'
  BY <1>1 DEF DownIsEmpty, Parked
<1>6. RanWithLeave'
  <2> SUFFICES ASSUME NEW c \in Calls PROVE LeaveOf(c)'
    BY DEF RanWithLeave, LeaveOf
  <2>1. CASE c = r
    BY <1>1, <2>1
  <2>2. CASE c # r
    <3>1. state'[c] = state[c] /\ asked'[c] = asked[c]
      BY <1>1, <2>2, Subsets
    <3>2. LeaveOf(c)
      BY DEF RanWithLeave, LeaveOf
    <3> QED
      BY <3>1, <3>2 DEF LeaveOf, Given
  <2> QED
    BY <2>1, <2>2
<1> QED
  BY <1>2, <1>3, <1>4, <1>5, <1>6

LEMMA CallKeeps ==
  ASSUME IInv, CallStep PROVE IInv'
<1>0. TypeOK'
  BY TypeStep DEF IInv, Next
<1> PICK c \in Calls :
      \/ EvaluateUnknown(c)
      \/ \E s \in Sessions, tool \in Tools, arg \in Arguments : Evaluate(c, s, tool, arg)
      \/ \E decision \in {"allow_once", "allow_for_session", "deny"} : Respond(c, decision)
  BY DEF CallStep
<1>c. c \in Requests /\ c \notin Dialogs
  BY GatesAssumption DEF Requests
<1>1. CASE EvaluateUnknown(c)
  <2>1. /\ state' = [state EXCEPT ![c] = "unknown"] /\ "unknown" \in States
        /\ "unknown" \notin Waiting /\ asked' = asked
        /\ UNCHANGED <<openings, open, down, withdrawn, given, allowed>>
    BY <1>1, StateNames DEF EvaluateUnknown, Waiting, sessionVars, historyVars
  <2>2. AllowancesStand'
    BY <2>1 DEF IInv, AllowancesStand, Given
  <2>3. LeaveOf(c)'
    BY <1>c, <2>1 DEF LeaveOf, IInv, TypeOK
  <2> QED
    BY <1>0, <1>c, <2>1, <2>2, <2>3, OneKeeps
<1>2. ASSUME NEW s \in Sessions, NEW tool \in Tools, NEW arg \in Arguments, Evaluate(c, s, tool, arg)
      PROVE  IInv'
  <2> DEFINE card == [session |-> s, opening |-> openings[s], tool |-> tool, arg |-> arg, trust |-> trust]
  <2>1. PICK x \in Outcomes(s, tool, arg) : state' = [state EXCEPT ![c] = x]
    BY <1>2 DEF Evaluate
  <2>2. x \in {"exempt", "allowance", "parked", "cancelled"} /\ x \in States
    BY <2>1, StateNames DEF Outcomes, Waiting, ByPolicy
  <2>3. /\ asked'[c] = card /\ \A q \in Requests \ {c} : asked'[q] = asked[q]
        /\ s \in open
        /\ UNCHANGED <<openings, open, down, withdrawn, given, allowed>>
    BY <1>2, <1>c DEF Evaluate, IInv, TypeOK, sessionVars, historyVars
  <2>4. AllowancesStand'
    BY <2>3 DEF IInv, AllowancesStand, Given
  <2>5. ASSUME x = "exempt" PROVE Harmless(asked'[c])
    <3>1. Reason(tool, arg) = NoReason
      BY <2>1, <2>5 DEF Outcomes
    <3> QED
      BY <2>3, <3>1, ExemptIsHarmless DEF IInv
  <2>6. ASSUME x = "allowance" PROVE Given(s, tool, openings[s])'
    <3>1. <<s, tool>> \in allowed
      BY <2>1, <2>6 DEF Outcomes
    <3>2. Given(s, tool, openings[s])
      BY <3>1 DEF IInv, AllowancesStand
    <3> QED
      BY <2>3, <3>2 DEF Given
  <2>7. state'[c] = x
    BY <1>c, <2>1 DEF IInv, TypeOK
  <2>8. LeaveOf(c)'
    BY <2>3, <2>5, <2>6, <2>7 DEF LeaveOf, Given
  <2>9. /\ x # "unlimited" /\ asked'[c].session \in open
        /\ asked'[c].opening = openings[asked'[c].session] /\ open # {}
    BY <2>2, <2>3
  <2> QED
    BY <1>0, <1>c, <2>1, <2>2, <2>3, <2>4, <2>8, <2>9, OneKeeps
<1>3. ASSUME NEW decision \in {"allow_once", "allow_for_session", "deny"}, Respond(c, decision)
      PROVE  IInv'
  <2>1. PICK x \in {"denied", "allowed"} : state' = [state EXCEPT ![c] = x]
    BY <1>3 DEF Respond
  <2>2. x \in States /\ x \notin Waiting /\ x \notin ByPolicy
    BY <2>1, StateNames DEF Waiting, ByPolicy
  <2>3. /\ asked' = asked /\ given \subseteq given'
        /\ UNCHANGED <<openings, open, down, withdrawn>>
    BY <1>3 DEF Respond, sessionVars
  <2>4. AllowancesStand'
    <3> SUFFICES ASSUME NEW a \in allowed'
                 PROVE  /\ Given(a[1], a[2], openings[a[1]])'
                        /\ a[1] \in open \/ <<a[1], openings[a[1]]>> \in withdrawn \/ down
      BY <2>3 DEF AllowancesStand
    <3>1. CASE a \in allowed
      BY <2>3, <3>1 DEF IInv, AllowancesStand, Given
    <3>2. CASE a \notin allowed
      <4> DEFINE card == asked[c]
      <4> DEFINE g == [session |-> card.session, opening |-> card.opening, tool |-> card.tool]
      <4>1. a = <<card.session, card.tool>> /\ g \in given'
        BY <1>3, <3>2 DEF Respond
      <4>2. /\ card.opening <= openings[card.session]
            /\ \A n \in card.opening..(openings[card.session] - 1) : <<card.session, n>> \in withdrawn
            /\ card.session \in open \/ <<card.session, openings[card.session]>> \in withdrawn
        BY <1>3 DEF IInv, CallsStand, Respond, Waiting
      <4>3. g.session = a[1] /\ g.tool = a[2] /\ g.opening <= openings[a[1]]
        BY <4>1, <4>2
      <4>4. \A n \in g.opening..(openings[a[1]] - 1) : <<a[1], n>> \in withdrawn
        BY <4>1, <4>2
      <4> HIDE DEF g
      <4>5. Given(a[1], a[2], openings[a[1]])'
        BY <2>3, <4>1, <4>3, <4>4 DEF Given
      <4> QED
        BY <4>1, <4>2, <4>5
    <3> QED
      BY <3>1, <3>2
  <2>5. LeaveOf(c)'
    BY <1>c, <2>1 DEF LeaveOf, IInv, TypeOK
  <2> QED
    BY <1>0, <1>c, <2>1, <2>2, <2>3, <2>4, <2>5, OneKeeps
<1> QED
  BY <1>1, <1>2, <1>3

LEMMA DialogKeeps ==
  ASSUME IInv, DialogStep PROVE IInv'
<1>0. TypeOK'
  BY TypeStep DEF IInv, Next
<1> PICK d \in Dialogs :
      \/ \E s \in Sessions, standing \in Waiting \cup {"defaulted"} : Ask(d, s, standing)
      \/ \E reply \in {"answered", "defaulted"} : Answer(d, reply)
  BY DEF DialogStep
<1>d. d \in Requests /\ d \notin Calls
  BY GatesAssumption DEF Requests
<1>1. ASSUME NEW s \in Sessions, NEW x \in Waiting \cup {"defaulted"}, Ask(d, s, x) PROVE IInv'
  <2>1. x \in States
    BY <1>1, StateNames
  <2>2. /\ asked'[d] = [session |-> s, opening |-> openings[s], late |-> s \notin open]
        /\ \A q \in Requests \ {d} : asked'[q] = asked[q]
        /\ state' = [state EXCEPT ![d] = x]
        /\ UNCHANGED <<openings, open, down, withdrawn, given, allowed>>
    BY <1>1, <1>d DEF Ask, IInv, TypeOK, sessionVars, historyVars
  <2>3. AllowancesStand'
    BY <2>2 DEF IInv, AllowancesStand, Given
  <2>4. asked'[d].late \/ (asked'[d].session \in open /\ asked'[d].opening = openings[asked'[d].session])
    <3>1. CASE s \in open
      BY <2>2, <3>1
    <3>2. CASE s \notin open
      <4>1. asked'[d].late = (s \notin open)
        BY <2>2
      <4> QED
        BY <3>2, <4>1
    <3> QED
      BY <3>1, <3>2
  <2> QED
    BY <1>0, <1>d, <2>1, <2>2, <2>3, <2>4, OneKeeps
<1>2. ASSUME NEW x \in {"answered", "defaulted"}, Answer(d, x) PROVE IInv'
  <2>1. x \in States /\ x \notin Waiting
    BY <1>2, StateNames DEF Waiting
  <2>2. /\ asked' = asked /\ state' = [state EXCEPT ![d] = x]
        /\ UNCHANGED <<openings, open, down, withdrawn, given, allowed>>
    BY <1>2 DEF Answer, sessionVars, historyVars
  <2>3. AllowancesStand'
    BY <2>2 DEF IInv, AllowancesStand, Given
  <2> QED
    BY <1>0, <1>d, <2>1, <2>2, <2>3, OneKeeps
<1> QED
  BY <1>1, <1>2

LEMMA InitInv == ASSUME Init PROVE IInv
<1>1. \A r \in Requests : state[r] = "new"
  BY DEF Init
<1> QED
  BY <1>1, InitType, Subsets
     DEF Init, IInv, AllowancesStand, CallsStand, DialogsStand, CallsHaveTimers, DownIsEmpty,
         RanWithLeave, Waiting, Parked

LEMMA InvStep == ASSUME IInv, [Next]_vars PROVE IInv'
<1>1. CASE SettleStep
  BY <1>1, SettleIsCancel, CancelKeeps
<1>2. CASE UNCHANGED vars
  <2>1. RanWithLeave'
    BY <1>2, LeaveStays DEF IInv, vars, historyVars
  <2> QED
    BY <1>2, <2>1, TypeStep
       DEF IInv, vars, sessionVars, boundVars, historyVars, AllowancesStand, Given, CallsStand,
           DialogsStand, CallsHaveTimers, DownIsEmpty, Parked
<1> QED
  BY <1>1, <1>2, SessionKeeps, CallKeeps, DialogKeeps DEF Next

LEMMA Invariance == Spec => []IInv
BY InitInv, InvStep, PTL DEF Spec

\* No tool runs that nobody was asked about, unless it was harmless under the
\* trust of that moment or its tool had been allowed in this opening.
THEOREM NothingRunsWithoutLeave == Spec => []RanWithLeave
<1>1. IInv => RanWithLeave
  BY DEF IInv
<1> QED
  BY <1>1, Invariance, PTL

\* An approval or a dialog that waits belongs to the present opening of its
\* session, but for the two exceptions the property names.
THEOREM WaitingBelongsToTheOpen == Spec => []WaitsForTheOpen
<1>1. ASSUME IInv PROVE WaitsForTheOpen
  <2> SUFFICES ASSUME NEW r \in Parked
               PROVE  \/ asked[r].session \in open /\ asked[r].opening = openings[asked[r].session]
                      \/ r \in Calls /\ <<asked[r].session, asked[r].opening>> \in withdrawn
                      \/ r \in Dialogs /\ asked[r].late
    BY DEF WaitsForTheOpen
  <2>1. CASE r \in Dialogs
    BY <1>1, <2>1 DEF IInv, DialogsStand, Parked
  <2>2. CASE r \in Calls
    <3>1. /\ asked[r].opening <= openings[asked[r].session]
          /\ \A n \in asked[r].opening..(openings[asked[r].session] - 1) :
               <<asked[r].session, n>> \in withdrawn
          /\ \/ asked[r].session \in open
             \/ <<asked[r].session, openings[asked[r].session]>> \in withdrawn
      BY <1>1, <2>2 DEF IInv, CallsStand, Parked
    <3>2. asked[r].opening \in Nat /\ openings[asked[r].session] \in Nat
      <4>1. asked[r] \in Card
        BY <1>1, <2>2 DEF IInv, TypeOK, Parked, Waiting
      <4> QED
        BY <1>1, <4>1, GatesAssumption DEF IInv, TypeOK, Card
    <3>3. CASE asked[r].opening = openings[asked[r].session]
      BY <2>2, <3>1, <3>3
    <3>4. CASE asked[r].opening < openings[asked[r].session]
      BY <2>2, <3>1, <3>2, <3>4
    <3> QED
      BY <3>1, <3>2, <3>3, <3>4
  <2> QED
    BY <2>1, <2>2 DEF Parked, Requests
<1> QED
  BY <1>1, Invariance, PTL

-----------------------------------------------------------------------------
(* Refinement.  Every step puts or settles requests of Settlement, or       *)
(* stutters.                                                               *)

Mapped == [r \in Requests |-> OutcomeOf(r)]

LEMMA OutcomeStates ==
  ASSUME NEW r \in Requests
  PROVE  /\ OutcomeOf(r) \in S!Outcomes
         /\ state[r] = "new" => OutcomeOf(r) = "new"
         /\ state[r] \in Waiting => OutcomeOf(r) \in S!Standing
         /\ state[r] \in {"exempt", "allowance", "allowed", "answered"} => OutcomeOf(r) = "granted"
         /\ state[r] \in {"denied", "unknown", "cancelled", "defaulted"} => OutcomeOf(r) = "refused"
BY DEF OutcomeOf, S!Outcomes, S!Standing, Waiting, ByPolicy

LEMMA NothingMaps ==
  ASSUME state' = state PROVE Mapped' = Mapped
BY DEF Mapped, OutcomeOf

\* A cancellation refuses those of the requests that are cancelled.
LEMMA CancelMaps ==
  ASSUME TypeOK, NEW requests \in SUBSET Parked, state' = Cancelled(requests)
  PROVE  [S!Next]_Mapped
<1>0. requests \subseteq Requests
  BY Subsets
<1>1. \A r \in Requests : OutcomeOf(r)' = IF r \in requests THEN "refused" ELSE OutcomeOf(r)
  <2> SUFFICES ASSUME NEW r \in Requests
               PROVE  OutcomeOf(r)' = IF r \in requests THEN "refused" ELSE OutcomeOf(r)
    OBVIOUS
  <2>1. CASE r \in requests
    <3>1. state'[r] \in {"cancelled", "defaulted"}
      BY <2>1 DEF Cancelled
    <3> QED
      BY <2>1, <3>1 DEF OutcomeOf, ByPolicy
  <2>2. CASE r \notin requests
    <3>1. state'[r] = state[r]
      BY <2>2 DEF Cancelled
    <3> QED
      BY <2>2, <3>1 DEF OutcomeOf
  <2> QED
    BY <2>1, <2>2
<1>2. Mapped' = [r \in Requests |-> IF r \in requests THEN "refused" ELSE Mapped[r]]
  BY <1>1 DEF Mapped
<1>3. \A r \in requests : Mapped[r] \in S!Standing
  BY <1>0, OutcomeStates DEF Mapped, Parked
<1>4. CASE requests = {}
  BY <1>2, <1>4 DEF Mapped
<1>5. CASE requests # {}
  <2>1. S!Refuse(requests)
    BY <1>2, <1>3, <1>5 DEF S!Refuse, Mapped
  <2> QED
    BY <1>0, <2>1 DEF S!Next, Mapped
<1> QED
  BY <1>4, <1>5

\* Putting a request, or settling it.
LEMMA OneMaps ==
  ASSUME TypeOK, NEW r \in Requests, NEW x \in States, state' = [state EXCEPT ![r] = x],
         \/ state[r] = "new" /\ x # "new"
         \/ state[r] \in Waiting /\ x \notin Waiting \cup {"new"}
  PROVE  [S!Next]_Mapped
<1>1. \A q \in Requests : OutcomeOf(q)' = IF q = r THEN OutcomeOf(r)' ELSE OutcomeOf(q)
  BY DEF OutcomeOf, TypeOK
<1>2. Mapped' = [Mapped EXCEPT ![r] = OutcomeOf(r)']
  BY <1>1 DEF Mapped
<1>3. state'[r] = x
  BY DEF TypeOK
<1>4. CASE state[r] = "new" /\ x # "new"
  <2>1. Mapped[r] = "new"
    BY <1>4, OutcomeStates DEF Mapped
  <2>2. OutcomeOf(r)' \in S!Standing \cup {"granted", "refused"}
    BY <1>3, <1>4 DEF OutcomeOf, S!Standing
  <2>3. S!Put(r) \/ S!Dismiss(r)
    BY <1>2, <2>1, <2>2 DEF S!Put, S!Dismiss, Mapped
  <2> QED
    BY <2>3 DEF S!Next, Mapped
<1>5. CASE state[r] \in Waiting /\ x \notin Waiting \cup {"new"}
  <2>1. Mapped[r] \in S!Standing
    BY <1>5, OutcomeStates DEF Mapped
  <2>2. OutcomeOf(r)' \in {"granted", "refused"}
    BY <1>3, <1>5 DEF OutcomeOf, Waiting
  <2>3. CASE OutcomeOf(r)' = "granted"
    <3>1. S!Grant(r)
      BY <1>2, <2>1, <2>3 DEF S!Grant, Mapped
    <3> QED
      BY <3>1 DEF S!Next, Mapped
  <2>4. CASE OutcomeOf(r)' = "refused"
    <3>1. Mapped' = [q \in Requests |-> IF q \in {r} THEN "refused" ELSE Mapped[q]]
      BY <1>2, <2>4 DEF Mapped
    <3>2. S!Refuse({r})
      BY <2>1, <3>1 DEF S!Refuse, Mapped
    <3> QED
      BY <3>2 DEF S!Next, Mapped
  <2> QED
    BY <2>2, <2>3, <2>4
<1> QED
  BY <1>4, <1>5

LEMMA StepMaps == ASSUME TypeOK, [Next]_vars PROVE [S!Next]_Mapped
<1>1. CASE SessionStep
  <2>1. ASSUME NEW s \in Sessions, Register(s) \/ Bound(s) PROVE [S!Next]_Mapped
    BY <2>1, NothingMaps DEF Register, Bound
  <2>2. ASSUME NEW s \in Sessions, BindFails(s) PROVE [S!Next]_Mapped
    BY <2>2, ParkedOfParked, CancelMaps DEF BindFails
  <2>3. ASSUME NEW gone, Close(gone) PROVE [S!Next]_Mapped
    <3>1. UNION {ParkedOf(s) : s \in gone} \subseteq Parked
      BY ParkedOfParked
    <3> QED
      BY <2>3, <3>1, CancelMaps DEF Close
  <2>4. CASE Shutdown \/ HostDies
    BY <2>4, CancelMaps DEF Shutdown, HostDies
  <2>5. CASE SetProjectTrust
    BY <2>5, NothingMaps DEF SetProjectTrust
  <2> QED
    BY <1>1, <2>1, <2>2, <2>3, <2>4, <2>5 DEF SessionStep, CloseSession, CloseWorkspace
<1>2. CASE CallStep
  <2>1. PICK c \in Calls :
          \/ EvaluateUnknown(c)
          \/ \E s \in Sessions, tool \in Tools, arg \in Arguments : Evaluate(c, s, tool, arg)
          \/ \E decision \in {"allow_once", "allow_for_session", "deny"} : Respond(c, decision)
    BY <1>2 DEF CallStep
  <2>2. c \in Requests
    BY Subsets
  <2>3. CASE EvaluateUnknown(c)
    <3>1. state' = [state EXCEPT ![c] = "unknown"] /\ state[c] = "new"
      BY <2>3 DEF EvaluateUnknown
    <3> QED
      BY <2>2, <3>1, OneMaps, StateNames
  <2>4. ASSUME NEW s \in Sessions, NEW tool \in Tools, NEW arg \in Arguments, Evaluate(c, s, tool, arg)
        PROVE  [S!Next]_Mapped
    <3>1. PICK x \in {"exempt", "allowance", "parked", "cancelled"} : state' = [state EXCEPT ![c] = x]
      BY <2>4 DEF Evaluate, Outcomes
    <3>2. x \in States /\ x # "new" /\ state[c] = "new"
      BY <2>4, <3>1, StateNames DEF Evaluate, Waiting, ByPolicy
    <3> QED
      BY <2>2, <3>1, <3>2, OneMaps
  <2>5. ASSUME NEW decision, Respond(c, decision) PROVE [S!Next]_Mapped
    <3>1. PICK x \in {"denied", "allowed"} : state' = [state EXCEPT ![c] = x]
      BY <2>5 DEF Respond
    <3>2. x \in States /\ x \notin Waiting \cup {"new"} /\ state[c] \in Waiting
      BY <2>5, <3>1, StateNames DEF Respond, Waiting
    <3> QED
      BY <2>2, <3>1, <3>2, OneMaps
  <2> QED
    BY <2>1, <2>3, <2>4, <2>5
<1>3. CASE DialogStep
  <2>1. PICK d \in Dialogs :
          \/ \E s \in Sessions, standing \in Waiting \cup {"defaulted"} : Ask(d, s, standing)
          \/ \E reply \in {"answered", "defaulted"} : Answer(d, reply)
    BY <1>3 DEF DialogStep
  <2>2. d \in Requests
    BY Subsets
  <2>3. ASSUME NEW s \in Sessions, NEW x \in Waiting \cup {"defaulted"}, Ask(d, s, x)
        PROVE  [S!Next]_Mapped
    <3>1. x \in States /\ x # "new" /\ state[d] = "new" /\ state' = [state EXCEPT ![d] = x]
      BY <2>3, StateNames DEF Ask, Waiting
    <3> QED
      BY <2>2, <3>1, OneMaps
  <2>4. ASSUME NEW x \in {"answered", "defaulted"}, Answer(d, x) PROVE [S!Next]_Mapped
    <3>1. /\ x \in States /\ x \notin Waiting \cup {"new"} /\ state[d] \in Waiting
          /\ state' = [state EXCEPT ![d] = x]
      BY <2>4, StateNames DEF Answer, Waiting
    <3> QED
      BY <2>2, <3>1, OneMaps
  <2> QED
    BY <2>1, <2>3, <2>4
<1>4. CASE SettleStep
  BY <1>4, SettleIsCancel, CancelMaps DEF Cancel
<1>5. CASE UNCHANGED vars
  BY <1>5, NothingMaps DEF vars
<1> QED
  BY <1>1, <1>2, <1>3, <1>4, <1>5 DEF Next

\* The gates implement Settlement without its liveness: a request is put once,
\* settled once, and stays settled.
THEOREM RequestsAreSettledOnce == Spec => S!Safe
<1>1. ASSUME Init PROVE S!Init
  <2>1. \A r \in Requests : state[r] = "new"
    BY <1>1 DEF Init
  <2>2. \A r \in Requests : OutcomeOf(r) = "new"
    BY <2>1, OutcomeStates
  <2> QED
    BY <2>2 DEF S!Init
<1>2. ASSUME TypeOK, [Next]_vars PROVE [S!Next]_Mapped
  BY <1>2, StepMaps
<1> QED
  BY <1>1, <1>2, TypeCorrect, PTL DEF Spec, S!Safe, Mapped

-----------------------------------------------------------------------------
(* What the renderer shows.  The events on their way say what will be on    *)
(* the screen when they have arrived.                                       *)

\* The event takes a call off the cards, or puts it there.
Removes(event, c) ==
  \/ event.name = "settled" /\ c \in event.requests
  \/ event.name = "snapshot" /\ event.session = asked[c].session /\ c \notin event.requests

Adds(event, c) == event.name \in {"requested", "snapshot"} /\ c \in event.requests

\* An event from the k-th on does.
Goes(c, k) == \E i \in k..Len(channel) : Removes(channel[i], c)
Comes(c, k) == \E i \in k..Len(channel) : Adds(channel[i], c)

\* The calls of which an approval may have been asked.
PutCalls == {c \in Calls : state[c] \notin {"new", "unknown"}}

\* What shows some calls will be right about c when the events have arrived.
Right(c, shown) ==
  /\ state[c] \in Waiting => c \in shown \/ Comes(c, 1)
  /\ state[c] \notin Waiting => c \notin shown \/ Goes(c, 1)

\* An event that is wrong about c is put right by a later one.
EventsTell(c) ==
  /\ state[c] \in Waiting =>
       \A i \in 1..Len(channel) : Removes(channel[i], c) => Comes(c, i + 1)
  /\ state[c] \notin Waiting =>
       \A i \in 1..Len(channel) : Adds(channel[i], c) => Goes(c, i + 1)

\* The sessions whose cards the events keep right.
Covered == {s \in projected : connected /\ (s \in open \/ owed)}

CardsTell(c) == asked[c].session \in Covered /\ c \notin missed => Right(c, cards)

\* An answer that will be installed.
RepliesTell(c) ==
  \A r \in replies :
    r.session = asked[c].session /\ r.session \notin projected /\ c \notin missed =>
      Right(c, r.requests)

CardInv == \A c \in PutCalls : EventsTell(c) /\ CardsTell(c) /\ RepliesTell(c)

\* What an event names has been put, in the session of the event.
NamesPut(event) ==
  \A r \in event.requests :
    /\ r \in Calls =>
         r \in PutCalls /\ (event.name # "settled" => asked[r].session = event.session)
    /\ r \in Dialogs => state[r] # "new"

\* What is shown or on its way has been put.
OnlyWhatWasPut ==
  /\ cards \subseteq PutCalls
  /\ \A i \in 1..Len(channel) : NamesPut(channel[i])
  /\ \A r \in replies : \A c \in r.requests : c \in PutCalls /\ asked[c].session = r.session
  /\ question \in Dialogs => state[question] # "new"

\* A dialog that is settled does not wait again.
SettledIsOver ==
  \A i \in 1..Len(channel) :
    channel[i].name = "settled" => channel[i].requests \cap (Parked \cap Dialogs) = {}

\* What the events of each kind carry.
KindOfEvent(event) ==
  /\ event.name = "asked" => \E d \in Dialogs : event.requests = {d}
  /\ event.name \in {"requested", "snapshot"} =>
       event.requests \subseteq Calls /\ event.session \in Sessions

EventsByKind == \A i \in 1..Len(channel) : KindOfEvent(channel[i])

IsAbout(event, name, d) == event.name = name /\ d \in event.requests

WaitingDialogsComeUp ==
  \A d \in (Parked \cap Dialogs) \ hidden :
    question = d \/ \E i \in 1..Len(channel) : IsAbout(channel[i], "asked", d)

SettledDialogsGo ==
  /\ question \in Dialogs \ hidden =>
       question \in Parked \/ \E i \in 1..Len(channel) : IsAbout(channel[i], "settled", question)
  /\ \A i \in 1..Len(channel) : \A d \in Dialogs \ (hidden \cup Parked) :
       IsAbout(channel[i], "asked", d) =>
         \E j \in (i + 1)..Len(channel) : IsAbout(channel[j], "settled", d)

QuestionInv == SettledIsOver /\ EventsByKind /\ WaitingDialogsComeUp /\ SettledDialogsGo

\* The inductive invariant of Trays.
TrayInv ==
  /\ TrayTypeOK /\ IsFiniteSet(open)
  /\ OnlyWhatWasPut
  /\ CardInv /\ QuestionInv

\* What a request of a session may become in a step of the host that puts no
\* approval and no dialog.
Settles ==
  /\ \A r \in Requests : state[r] # "new" => asked'[r] = asked[r] /\ state'[r] # "new"
  /\ PutCalls \subseteq PutCalls'
  /\ Parked' \subseteq Parked

Events == [name : {"requested", "asked", "settled", "snapshot"},
           session : Sessions \cup {"any"}, requests : SUBSET Requests]

-----------------------------------------------------------------------------

\* What an appended event does to the channel.
LEMMA PostOne ==
  ASSUME channel \in Seq(Events), NEW event \in Events, channel' = channel \o <<event>>
  PROVE  /\ channel' \in Seq(Events)
         /\ Len(channel) \in Nat /\ Len(channel') = Len(channel) + 1
         /\ \A i \in 1..Len(channel) : channel'[i] = channel[i]
         /\ channel'[Len(channel) + 1] = event
<1>1. <<event>> \in Seq(Events)
  OBVIOUS
<1> QED
  BY <1>1

\* Either nothing was settled, or one event says what was.
LEMMA PostSettled ==
  ASSUME TrayTypeOK, channel' = channel \o Settled
  PROVE  /\ channel' \in Seq(Events) /\ Len(channel) \in Nat
         /\ \A i \in 1..Len(channel) : channel'[i] = channel[i]
         /\ \/ Parked \subseteq Parked' /\ Len(channel') = Len(channel)
            \/ /\ Len(channel') = Len(channel) + 1
               /\ channel'[Len(channel) + 1].name = "settled"
               /\ channel'[Len(channel) + 1].requests = Parked \ Parked'
<1>0. channel \in Seq(Events)
  BY DEF TrayTypeOK, Events
<1>1. CASE Parked \subseteq Parked'
  BY <1>0, <1>1 DEF Settled
<1>2. CASE ~(Parked \subseteq Parked')
  <2> DEFINE e == Event("settled", "any", Parked \ Parked')
  <2>1. e \in Events
    BY DEF Event, Events, Parked
  <2>2. channel' = channel \o <<e>>
    BY <1>2 DEF Settled
  <2>3. e.name = "settled" /\ e.requests = Parked \ Parked'
    BY DEF Event
  <2> HIDE DEF e
  <2>4. /\ channel' \in Seq(Events)
        /\ Len(channel) \in Nat /\ Len(channel') = Len(channel) + 1
        /\ \A i \in 1..Len(channel) : channel'[i] = channel[i]
        /\ channel'[Len(channel) + 1] = e
    BY <1>0, <2>1, <2>2, PostOne
  <2> QED
    BY <2>3, <2>4
<1> QED
  BY <1>1, <1>2

\* What the events on their way say of a call stays when others follow them.
LEMMA AppendKeeps ==
  ASSUME NEW n \in Nat, NEW m \in Nat, n = Len(channel), m = Len(channel'), n <= m,
         \A i \in 1..n : channel'[i] = channel[i],
         NEW c, asked'[c] = asked[c]
  PROVE  /\ \A i \in 1..n : Removes(channel[i], c)' <=> Removes(channel[i], c)
         /\ \A i \in 1..n : Adds(channel[i], c)' <=> Adds(channel[i], c)
         /\ \A k \in 1..(n + 1) : Comes(c, k) => Comes(c, k)'
         /\ \A k \in 1..(n + 1) : Goes(c, k) => Goes(c, k)'
<1>1. ASSUME NEW i \in 1..n
      PROVE  (Removes(channel[i], c)' <=> Removes(channel[i], c)) /\ (Adds(channel[i], c)' <=> Adds(channel[i], c))
  BY DEF Removes, Adds
<1>2. ASSUME NEW k \in 1..(n + 1), Comes(c, k) PROVE Comes(c, k)'
  <2>1. PICK i \in k..n : Adds(channel[i], c)
    BY <1>2 DEF Comes
  <2>2. i \in 1..n /\ i \in k..m
    BY <2>1
  <2> QED
    BY <1>1, <2>1, <2>2 DEF Comes
<1>3. ASSUME NEW k \in 1..(n + 1), Goes(c, k) PROVE Goes(c, k)'
  <2>1. PICK i \in k..n : Removes(channel[i], c)
    BY <1>3 DEF Goes
  <2>2. i \in 1..n /\ i \in k..m
    BY <2>1
  <2> QED
    BY <1>1, <2>1, <2>2 DEF Goes
<1> QED
  BY <1>1, <1>2, <1>3

\* After the events on their way comes at most one, which takes away the calls
\* that were settled, if any.
Follows(n, m) ==
  /\ n = Len(channel) /\ m = Len(channel')
  /\ n \in Nat /\ \A i \in 1..n : channel'[i] = channel[i]
  /\ \/ m = n /\ Parked \cap Calls \subseteq Parked'
     \/ /\ m = n + 1 /\ channel'[m].name = "settled"
        /\ \A c \in Calls : c \in channel'[m].requests <=> c \in Parked \ Parked'
     \/ m = n + 1 /\ channel'[m].name = "asked" /\ Parked \cap Calls \subseteq Parked'

\* A step of the host that puts no approval keeps what the events tell, and what
\* shows calls that were put stays right.
LEMMA FollowsTells ==
  ASSUME TrayInv, NEW n, NEW m, Follows(n, m),
         \A c \in PutCalls : asked'[c] = asked[c] /\ c \in PutCalls',
         Parked' \cap Calls \subseteq Parked,
         NEW c \in PutCalls'
  PROVE  /\ EventsTell(c)'
         /\ \A shown \in SUBSET PutCalls : (c \in PutCalls => Right(c, shown)) => Right(c, shown)'
<1>0. /\ n = Len(channel) /\ m = Len(channel')
      /\ n \in Nat /\ \A i \in 1..n : channel'[i] = channel[i]
      /\ \/ m = n /\ Parked \cap Calls \subseteq Parked'
         \/ /\ m = n + 1 /\ channel'[m].name = "settled"
            /\ \A x \in Calls : x \in channel'[m].requests <=> x \in Parked \ Parked'
         \/ m = n + 1 /\ channel'[m].name = "asked" /\ Parked \cap Calls \subseteq Parked'
  BY DEF Follows
<1>1. m \in Nat /\ n <= m /\ \A i \in 1..m : i \in 1..n \/ (i = m /\ m = n + 1)
  BY <1>0
<1>c. c \in Calls /\ (c \in Parked' <=> state'[c] \in Waiting) /\ (c \in Parked <=> state[c] \in Waiting)
  BY DEF PutCalls, Parked, Requests
<1>2. ASSUME m = n + 1 PROVE ~Adds(channel[m], c)'
  BY <1>2, <1>0 DEF Adds
<1>3. CASE c \notin PutCalls
  <2>0. state'[c] \notin Waiting
    <3>1. c \in Parked => c \in PutCalls
      BY <1>c DEF Parked, PutCalls, Waiting
    <3> QED
      BY <3>1, <1>3, <1>c
  <2>1. \A i \in 1..n : c \notin channel[i].requests
    BY <1>0, <1>3, <1>c DEF TrayInv, OnlyWhatWasPut, NamesPut
  <2>2. \A i \in 1..n : ~Adds(channel[i], c)'
    BY <1>0, <2>1 DEF Adds
  <2>3. \A i \in 1..m : ~Adds(channel[i], c)'
    BY <1>1, <1>2, <2>2
  <2>4. EventsTell(c)'
    BY <1>0, <2>0, <2>3 DEF EventsTell
  <2>5. ASSUME NEW shown \in SUBSET PutCalls PROVE Right(c, shown)'
    BY <2>0, <1>3 DEF Right
  <2> QED
    BY <2>4, <2>5
<1>4. ASSUME c \in PutCalls
      PROVE  /\ \A i \in 1..n : Removes(channel[i], c)' <=> Removes(channel[i], c)
             /\ \A i \in 1..n : Adds(channel[i], c)' <=> Adds(channel[i], c)
             /\ \A k \in 1..(n + 1) : Comes(c, k) => Comes(c, k)'
             /\ \A k \in 1..(n + 1) : Goes(c, k) => Goes(c, k)'
             /\ EventsTell(c)
  <2>1. asked'[c] = asked[c]
    BY <1>4
  <2>2. EventsTell(c)
    BY <1>4 DEF TrayInv, CardInv
  <2> QED
    BY <2>1, <2>2, <1>0, <1>1, AppendKeeps
<1>5. CASE c \in PutCalls /\ c \in Parked'
  <2>0. state'[c] \in Waiting /\ state[c] \in Waiting
    BY <1>5, <1>c
  <2>1. ASSUME m = n + 1 PROVE ~Removes(channel[m], c)'
    BY <2>1, <1>5, <1>c, <1>0 DEF Removes
  <2>2. ASSUME NEW i \in 1..m, Removes(channel[i], c)' PROVE Comes(c, i + 1)'
    <3>0. i \in 1..n
      BY <2>1, <2>2, <1>1
    <3>1. i + 1 \in 1..(n + 1) /\ Removes(channel[i], c)
      BY <3>0, <2>2, <1>0, <1>4, <1>5
    <3>2. Comes(c, i + 1)
      BY <3>1, <1>4, <1>5, <2>0, <1>0 DEF EventsTell
    <3> QED
      BY <3>1, <3>2, <1>4, <1>5
  <2>3. EventsTell(c)'
    BY <1>0, <2>0, <2>2 DEF EventsTell
  <2>4. Comes(c, 1) => Comes(c, 1)'
    BY <1>0, <1>4, <1>5
  <2> QED
    BY <2>0, <2>3, <2>4, <1>5 DEF Right
<1>6. CASE c \in PutCalls /\ c \notin Parked'
  <2>0. state'[c] \notin Waiting
    BY <1>6, <1>c
  <2>1. CASE c \in Parked
    <3>1. m = n + 1 /\ Removes(channel[m], c)'
      BY <2>1, <1>6, <1>c, <1>0 DEF Removes
    <3>2. \A k \in 1..m : Goes(c, k)'
      BY <3>1, <1>0, <1>1 DEF Goes
    <3>3. ASSUME NEW i \in 1..m, Adds(channel[i], c)' PROVE Goes(c, i + 1)'
      <4>0. i \in 1..n
        BY <3>3, <1>1, <1>2
      <4>1. i + 1 \in 1..m
        BY <4>0, <3>1, <1>0
      <4> QED
        BY <4>1, <3>2
    <3>4. EventsTell(c)'
      BY <1>0, <2>0, <3>3 DEF EventsTell
    <3>5. Goes(c, 1)'
      BY <3>1, <3>2, <1>0
    <3> QED
      BY <3>4, <3>5, <2>0 DEF Right
  <2>2. CASE c \notin Parked
    <3>0. state[c] \notin Waiting
      BY <2>2, <1>c
    <3>1. ASSUME NEW i \in 1..m, Adds(channel[i], c)' PROVE Goes(c, i + 1)'
      <4>0. i \in 1..n
        BY <3>1, <1>1, <1>2
      <4>1. i + 1 \in 1..(n + 1) /\ Adds(channel[i], c)
        BY <4>0, <3>1, <1>0, <1>4, <1>6
      <4>2. Goes(c, i + 1)
        BY <4>1, <1>4, <1>6, <3>0, <1>0 DEF EventsTell
      <4> QED
        BY <4>1, <4>2, <1>4, <1>6
    <3>2. EventsTell(c)'
      BY <1>0, <2>0, <3>1 DEF EventsTell
    <3>3. Goes(c, 1) => Goes(c, 1)'
      BY <1>0, <1>4, <1>6
    <3> QED
      BY <3>0, <3>2, <3>3, <2>0, <1>6 DEF Right
  <2> QED
    BY <2>1, <2>2
<1> QED
  BY <1>3, <1>5, <1>6

\* The cards and the answers of the calls a step does not touch stay right.
LEMMA FollowsKeepsCards ==
  ASSUME TrayInv, NEW n, NEW m, Follows(n, m),
         \A c \in PutCalls : asked'[c] = asked[c] /\ c \in PutCalls',
         Parked' \cap Calls \subseteq Parked,
         \/ /\ cards' = cards /\ projected' = projected /\ missed' = missed
            /\ replies' \subseteq replies /\ Covered' \subseteq Covered
         \/ projected' = {} /\ replies' = {}
  PROVE  CardInv'
<1> SUFFICES ASSUME NEW c \in PutCalls'
             PROVE  EventsTell(c)' /\ CardsTell(c)' /\ RepliesTell(c)'
  BY DEF CardInv
<1>1. /\ EventsTell(c)'
      /\ \A shown \in SUBSET PutCalls : (c \in PutCalls => Right(c, shown)) => Right(c, shown)'
  BY FollowsTells
<1>2. CASE /\ cards' = cards /\ projected' = projected /\ missed' = missed
           /\ replies' \subseteq replies /\ Covered' \subseteq Covered
  <2>1. ASSUME asked'[c].session \in Covered', c \notin missed' PROVE Right(c, cards)'
    <3>1. c \in PutCalls => Right(c, cards)
      BY <1>2, <2>1 DEF TrayInv, CardInv, CardsTell
    <3>2. cards \in SUBSET PutCalls
      BY DEF TrayInv, OnlyWhatWasPut
    <3>3. Right(c, cards)' <=> /\ state'[c] \in Waiting => c \in cards \/ Comes(c, 1)'
                               /\ state'[c] \notin Waiting => c \notin cards \/ Goes(c, 1)'
      BY <1>2 DEF Right
    <3>4. /\ state'[c] \in Waiting => c \in cards \/ Comes(c, 1)'
          /\ state'[c] \notin Waiting => c \notin cards \/ Goes(c, 1)'
      BY <1>1, <3>1, <3>2 DEF Right
    <3> QED
      BY <3>3, <3>4
  <2>2. ASSUME NEW r \in replies', r.session = asked'[c].session, r.session \notin projected', c \notin missed'
        PROVE  /\ state'[c] \in Waiting => c \in r.requests \/ Comes(c, 1)'
               /\ state'[c] \notin Waiting => c \notin r.requests \/ Goes(c, 1)'
    <3>1. c \in PutCalls => Right(c, r.requests)
      BY <1>2, <2>2 DEF TrayInv, CardInv, RepliesTell
    <3>2. r.requests \in SUBSET PutCalls
      BY <1>2 DEF TrayInv, OnlyWhatWasPut
    <3> QED
      BY <1>1, <3>1, <3>2 DEF Right
  <2> QED
    BY <1>1, <2>1, <2>2 DEF CardsTell, RepliesTell, Right
<1>3. CASE projected' = {} /\ replies' = {}
  BY <1>1, <1>3 DEF CardsTell, RepliesTell, Covered
<1> QED
  BY <1>2, <1>3
LEMMA SettlingKeepsQuestion ==
  ASSUME TrayInv, Settles, channel' = channel \o Settled, question' = question, hidden' = hidden
  PROVE  QuestionInv'
<1> PICK n, m : n = Len(channel) /\ m = Len(channel')
  OBVIOUS
<1>0. /\ n \in Nat /\ \A i \in 1..n : channel'[i] = channel[i]
      /\ \/ Parked \subseteq Parked' /\ m = n
         \/ /\ m = n + 1
            /\ channel'[m].name = "settled"
            /\ channel'[m].requests = Parked \ Parked'
  BY PostSettled DEF TrayInv
<1>1. m \in Nat /\ n <= m /\ 1..n \subseteq 1..m /\ (m = n + 1 => m \in 1..m)
  BY <1>0
<1>2. Parked' \subseteq Parked
  BY DEF Settles
<1>3. SettledIsOver'
  <2>1. \A i \in 1..n : channel[i].name = "settled" => channel[i].requests \cap (Parked \cap Dialogs) = {}
    BY DEF TrayInv, QuestionInv, SettledIsOver
  <2>2. \A i \in 1..n : channel'[i].name = "settled" => channel'[i].requests \cap (Parked' \cap Dialogs) = {}
    BY <2>1, <1>0, <1>2
  <2>3. m = n \/ (m = n + 1 /\ channel'[m].requests \cap (Parked' \cap Dialogs) = {})
    BY <1>0
  <2>4. \A i \in 1..m : channel'[i].name = "settled" => channel'[i].requests \cap (Parked' \cap Dialogs) = {}
    BY <2>2, <2>3, <1>0
  <2> QED
    BY <2>4 DEF SettledIsOver
<1>4. EventsByKind'
  <2>1. \A i \in 1..n : KindOfEvent(channel'[i])
    BY <1>0 DEF TrayInv, QuestionInv, EventsByKind
  <2>2. m = n \/ (m = n + 1 /\ KindOfEvent(channel'[m]))
    BY <1>0 DEF KindOfEvent
  <2>3. \A i \in 1..m : KindOfEvent(channel'[i])
    BY <2>1, <2>2, <1>0
  <2> QED
    BY <2>3 DEF EventsByKind, KindOfEvent
<1>5. WaitingDialogsComeUp'
  <2> SUFFICES ASSUME NEW d \in (Parked' \cap Dialogs) \ hidden, question # d
               PROVE  \E i \in 1..m : IsAbout(channel'[i], "asked", d)
    BY DEF WaitingDialogsComeUp
  <2>1. \E i \in 1..n : IsAbout(channel[i], "asked", d)
    BY <1>2 DEF TrayInv, QuestionInv, WaitingDialogsComeUp
  <2> QED
    BY <2>1, <1>0, <1>1
<1>6. ASSUME NEW d \in Dialogs, d \in Parked, d \notin Parked'
      PROVE  m = n + 1 /\ IsAbout(channel'[m], "settled", d)
  BY <1>6, <1>0 DEF IsAbout
<1>7. SettledDialogsGo'
  <2>1. ASSUME question \in Dialogs \ hidden, question \notin Parked'
        PROVE  \E i \in 1..m : IsAbout(channel'[i], "settled", question)
    <3>1. CASE question \in Parked
      BY <2>1, <3>1, <1>6, <1>1
    <3>2. CASE question \notin Parked
      <4>1. \E i \in 1..n : IsAbout(channel[i], "settled", question)
        BY <2>1, <3>2 DEF TrayInv, QuestionInv, SettledDialogsGo
      <4> QED
        BY <4>1, <1>0, <1>1
    <3> QED
      BY <3>1, <3>2
  <2>2. ASSUME NEW i \in 1..m, NEW d \in Dialogs \ (hidden \cup Parked'),
               IsAbout(channel'[i], "asked", d)
        PROVE  \E j \in (i + 1)..m : IsAbout(channel'[j], "settled", d)
    <3>1. i \in 1..n /\ IsAbout(channel[i], "asked", d)
      BY <2>2, <1>0 DEF IsAbout
    <3>2. CASE d \in Parked
      BY <3>1, <3>2, <1>6, <1>0
    <3>3. CASE d \notin Parked
      <4>1. \E j \in (i + 1)..n : IsAbout(channel[j], "settled", d)
        BY <3>1, <3>3 DEF TrayInv, QuestionInv, SettledDialogsGo
      <4> QED
        BY <4>1, <3>1, <1>0, <1>1
    <3> QED
      BY <3>2, <3>3
  <2> QED
    BY <2>1, <2>2 DEF SettledDialogsGo
<1> QED
  BY <1>3, <1>4, <1>5, <1>7 DEF QuestionInv

LEMMA SettlingKeepsPut ==
  ASSUME TrayInv, Settles, channel' = channel \o Settled, question' = question,
         cards' \subseteq cards, replies' \subseteq replies
  PROVE  OnlyWhatWasPut'
<1> PICK n, m : n = Len(channel) /\ m = Len(channel')
  OBVIOUS
<1>0. /\ n \in Nat /\ \A i \in 1..n : channel'[i] = channel[i]
      /\ \/ Parked \subseteq Parked' /\ m = n
         \/ /\ m = n + 1
            /\ channel'[m].name = "settled"
            /\ channel'[m].requests = Parked \ Parked'
  BY PostSettled DEF TrayInv
<1>1. /\ \A c \in PutCalls : c \in PutCalls' /\ asked'[c] = asked[c]
      /\ \A r \in Dialogs : state[r] # "new" => state'[r] # "new"
  BY DEF Settles, PutCalls, Requests
<1>2. \A i \in 1..n : NamesPut(channel[i])'
  <2> SUFFICES ASSUME NEW i \in 1..n PROVE NamesPut(channel[i])'
    OBVIOUS
  <2>1. channel'[i] = channel[i] /\ NamesPut(channel[i])
    BY <1>0 DEF TrayInv, OnlyWhatWasPut
  <2>2. ASSUME NEW r \in channel[i].requests
        PROVE  /\ r \in Calls => r \in PutCalls'
                 /\ (channel[i].name # "settled" => asked'[r].session = channel[i].session)
               /\ r \in Dialogs => state'[r] # "new"
    BY <2>1, <1>1 DEF NamesPut
  <2>3. PICK e : e = channel[i]
    OBVIOUS
  <2>4. NamesPut(e)'
    BY <2>2, <2>3, Zenon DEF NamesPut
  <2>5. channel'[i] = e
    BY <2>1, <2>3
  <2> QED
    BY <2>4, <2>5 DEF NamesPut
<1>3. ASSUME m = n + 1 PROVE NamesPut(channel[m])'
  <2>0. m # n
    BY <1>0, <1>3
  <2>1. channel'[m].name = "settled" /\ channel'[m].requests = Parked \ Parked'
    BY <1>0, <2>0, Zenon
  <2>2. Parked \cap Calls \subseteq PutCalls /\ \A r \in Parked \cap Dialogs : state[r] # "new"
    BY DEF Parked, PutCalls, Waiting
  <2>3. ASSUME NEW r \in Parked \ Parked'
        PROVE  (r \in Calls => r \in PutCalls') /\ (r \in Dialogs => state'[r] # "new")
    BY <2>2, <1>1
  <2>4. PICK e : e = channel'[m]
    OBVIOUS
  <2>5. NamesPut(e)'
    BY <2>1, <2>3, <2>4 DEF NamesPut
  <2> QED
    BY <2>4, <2>5 DEF NamesPut
<1>4. \A i \in 1..m : i \in 1..n \/ (i = m /\ m = n + 1)
  BY <1>0
<1>5. \A i \in 1..m : NamesPut(channel[i])'
  BY <1>2, <1>3, <1>4
<1>6. question' \in Dialogs => state'[question'] # "new"
  BY <1>1 DEF TrayInv, OnlyWhatWasPut
<1>7. cards' \subseteq PutCalls'
  BY <1>1 DEF TrayInv, OnlyWhatWasPut
<1>8. \A r \in replies' : \A c \in r.requests : c \in PutCalls' /\ asked'[c].session = r.session
  BY <1>1 DEF TrayInv, OnlyWhatWasPut
<1> QED
  BY <1>0, <1>5, <1>6, <1>7, <1>8 DEF OnlyWhatWasPut

LEMMA SettlingKeeps ==
  ASSUME TrayInv, Settles, channel' = channel \o Settled,
         question' = question, hidden' = hidden, replies' \subseteq replies,
         \/ /\ cards' = cards /\ projected' = projected /\ missed' = missed
            /\ Covered' \subseteq Covered
         \/ cards' = {} /\ projected' = {} /\ replies' = {}
  PROVE  OnlyWhatWasPut' /\ CardInv' /\ QuestionInv'
<1>1. OnlyWhatWasPut' /\ QuestionInv'
  BY SettlingKeepsPut, SettlingKeepsQuestion
<1>2. PICK n, m : n = Len(channel) /\ m = Len(channel')
  OBVIOUS
<1>3. Follows(n, m)
  BY <1>2, PostSettled DEF TrayInv, Follows
<1>4. \A c \in PutCalls : asked'[c] = asked[c] /\ c \in PutCalls'
  BY DEF Settles, PutCalls, Requests
<1>5. Parked' \cap Calls \subseteq Parked
  BY DEF Settles
<1>6. CardInv'
  BY <1>3, <1>4, <1>5, FollowsKeepsCards
<1> QED
  BY <1>1, <1>6

-----------------------------------------------------------------------------
(* The other events of the host. *)


\* A snapshot and an approval say nothing of the dialogs.
LEMMA OtherKeepsQuestion ==
  ASSUME TrayInv, NEW event \in Events, event.name \in {"requested", "snapshot"},
         event.requests \subseteq Calls, event.session \in Sessions,
         channel' = channel \o <<event>>, question' = question, hidden' = hidden,
         Parked' \cap Dialogs = Parked \cap Dialogs
  PROVE  QuestionInv'
<1> PICK n, m : n = Len(channel) /\ m = Len(channel')
  OBVIOUS
<1>0. /\ n \in Nat /\ \A i \in 1..n : channel'[i] = channel[i]
      /\ m = n + 1 /\ channel'[m] = event
  BY PostOne DEF TrayInv, TrayTypeOK, Events
<1>1. m \in Nat /\ n <= m /\ 1..n \subseteq 1..m
  BY <1>0
<1>2. \A i \in 1..m : channel'[i].name \in {"asked", "settled"} => i \in 1..n
  BY <1>0
<1>3. SettledIsOver'
  <2>1. \A i \in 1..n : channel[i].name = "settled" => channel[i].requests \cap (Parked \cap Dialogs) = {}
    BY DEF TrayInv, QuestionInv, SettledIsOver
  <2>2. \A i \in 1..m : channel'[i].name = "settled" => channel'[i].requests \cap (Parked' \cap Dialogs) = {}
    BY <2>1, <1>0, <1>2
  <2> QED
    BY <2>2 DEF SettledIsOver
<1>4. EventsByKind'
  <2>1. \A i \in 1..n : KindOfEvent(channel'[i])
    BY <1>0 DEF TrayInv, QuestionInv, EventsByKind
  <2>2. KindOfEvent(channel'[m])
    BY <1>0 DEF KindOfEvent
  <2>3. \A i \in 1..m : KindOfEvent(channel'[i])
    BY <2>1, <2>2, <1>0
  <2> QED
    BY <2>3 DEF EventsByKind, KindOfEvent
<1>5. WaitingDialogsComeUp'
  <2> SUFFICES ASSUME NEW d \in (Parked' \cap Dialogs) \ hidden, question # d
               PROVE  \E i \in 1..m : IsAbout(channel'[i], "asked", d)
    BY DEF WaitingDialogsComeUp
  <2>1. \E i \in 1..n : IsAbout(channel[i], "asked", d)
    BY DEF TrayInv, QuestionInv, WaitingDialogsComeUp
  <2> QED
    BY <2>1, <1>0, <1>1
<1>6. SettledDialogsGo'
  <2>1. ASSUME question \in Dialogs \ hidden, question \notin Parked'
        PROVE  \E i \in 1..m : IsAbout(channel'[i], "settled", question)
    <3>1. \E i \in 1..n : IsAbout(channel[i], "settled", question)
      BY <2>1 DEF TrayInv, QuestionInv, SettledDialogsGo
    <3> QED
      BY <3>1, <1>0, <1>1
  <2>2. ASSUME NEW i \in 1..m, NEW d \in Dialogs \ (hidden \cup Parked'),
               IsAbout(channel'[i], "asked", d)
        PROVE  \E j \in (i + 1)..m : IsAbout(channel'[j], "settled", d)
    <3>1. i \in 1..n /\ IsAbout(channel[i], "asked", d) /\ d \notin Parked
      BY <2>2, <1>0, <1>2 DEF IsAbout
    <3>2. \E j \in (i + 1)..n : IsAbout(channel[j], "settled", d)
      BY <3>1 DEF TrayInv, QuestionInv, SettledDialogsGo
    <3> QED
      BY <3>2, <3>1, <1>0, <1>1
  <2> QED
    BY <2>1, <2>2 DEF SettledDialogsGo
<1> QED
  BY <1>3, <1>4, <1>5, <1>6 DEF QuestionInv
\* An approval that is put comes up.
LEMMA RequestedKeepsCards ==
  ASSUME TrayInv, NEW s \in Sessions, NEW new \in Calls, new \notin PutCalls,
         channel' = channel \o <<Event("requested", s, {new})>>,
         asked'[new].session = s, state'[new] = "parked",
         \A c \in Calls \ {new} : asked'[c] = asked[c] /\ state'[c] = state[c],
         Covered' = Covered, cards' = cards, projected' = projected, missed' = missed,
         replies' = replies
  PROVE  CardInv'
<1> PICK n, m : n = Len(channel) /\ m = Len(channel')
  OBVIOUS
<1>e. /\ Event("requested", s, {new}) \in Events
      /\ Event("requested", s, {new}).name = "requested"
      /\ Event("requested", s, {new}).session = s
      /\ Event("requested", s, {new}).requests = {new}
  BY DEF Event, Events, Requests
<1>0. /\ n \in Nat /\ \A i \in 1..n : channel'[i] = channel[i]
      /\ m = n + 1 /\ channel'[m] = Event("requested", s, {new})
  BY <1>e, PostOne DEF TrayInv, TrayTypeOK, Events
<1>1. /\ m \in Nat /\ n <= m /\ m \in 1..m
      /\ \A i \in 1..m : i \in 1..n \/ i = m
  BY <1>0
<1>2. PutCalls' = PutCalls \cup {new}
  BY DEF PutCalls
<1>3. \A x : ~Removes(channel[m], x)'
  BY <1>0, <1>e DEF Removes
<1>4. EventsTell(new)' /\ CardsTell(new)' /\ RepliesTell(new)'
  <2>0. state'[new] \in Waiting
    BY DEF Waiting
  <2>1. Adds(channel[m], new)'
    BY <1>0, <1>e DEF Adds
  <2>2. \A k \in 1..m : Comes(new, k)'
    BY <2>1, <1>0, <1>1 DEF Comes
  <2>3. ASSUME NEW i \in 1..m, Removes(channel[i], new)' PROVE Comes(new, i + 1)'
    <3>1. i \in 1..n
      BY <2>3, <1>1, <1>3
    <3>2. i + 1 \in 1..m
      BY <3>1, <1>0
    <3> QED
      BY <3>2, <2>2
  <2>4. Comes(new, 1)'
    BY <2>2, <1>0
  <2> QED
    BY <2>0, <2>3, <2>4, <1>0 DEF EventsTell, CardsTell, RepliesTell, Right
<1>5. ASSUME NEW c \in PutCalls PROVE EventsTell(c)' /\ CardsTell(c)' /\ RepliesTell(c)'
  <2>1. c \in Calls /\ c # new /\ asked'[c] = asked[c] /\ state'[c] = state[c]
    BY DEF PutCalls
  <2>2. /\ \A i \in 1..n : Removes(channel[i], c)' <=> Removes(channel[i], c)
        /\ \A i \in 1..n : Adds(channel[i], c)' <=> Adds(channel[i], c)
        /\ \A k \in 1..(n + 1) : Comes(c, k) => Comes(c, k)'
        /\ \A k \in 1..(n + 1) : Goes(c, k) => Goes(c, k)'
    BY <2>1, <1>0, <1>1, AppendKeeps
  <2>3. ~Adds(channel[m], c)'
    BY <2>1, <1>0, <1>e DEF Adds
  <2>4. EventsTell(c) /\ CardsTell(c) /\ RepliesTell(c)
    BY DEF TrayInv, CardInv
  <2>5. \A i \in 1..n : i + 1 \in 1..(n + 1)
    BY <1>0
  <2>6. ASSUME state[c] \in Waiting, NEW i \in 1..m, Removes(channel[i], c)' PROVE Comes(c, i + 1)'
    <3>1. i \in 1..n
      BY <2>6, <1>1, <1>3
    <3>2. Comes(c, i + 1)
      BY <3>1, <2>2, <2>4, <2>6, <1>0 DEF EventsTell
    <3> QED
      BY <3>1, <3>2, <2>2, <2>5
  <2>7. ASSUME state[c] \notin Waiting, NEW i \in 1..m, Adds(channel[i], c)' PROVE Goes(c, i + 1)'
    <3>1. i \in 1..n
      BY <2>7, <1>1, <2>3
    <3>2. Goes(c, i + 1)
      BY <3>1, <2>2, <2>4, <2>7, <1>0 DEF EventsTell
    <3> QED
      BY <3>1, <3>2, <2>2, <2>5
  <2>8. EventsTell(c)'
    BY <2>1, <2>6, <2>7, <1>0 DEF EventsTell
  <2>9. (Comes(c, 1) => Comes(c, 1)') /\ (Goes(c, 1) => Goes(c, 1)')
    BY <2>2, <1>0
  <2>10. CardsTell(c)'
    BY <2>1, <2>4, <2>9 DEF CardsTell, Right
  <2>11. RepliesTell(c)'
    BY <2>1, <2>4, <2>9 DEF RepliesTell, Right
  <2> QED
    BY <2>8, <2>10, <2>11
<1> QED
  BY <1>2, <1>4, <1>5 DEF CardInv

LEMMA PostingKeepsPut ==
  ASSUME TrayInv, NEW event \in Events, channel' = channel \o <<event>>, NamesPut(event)',
         \A c \in PutCalls : c \in PutCalls' /\ asked'[c] = asked[c],
         \A d \in Dialogs : state[d] # "new" => state'[d] # "new",
         cards' = cards, question' = question, replies' = replies
  PROVE  OnlyWhatWasPut'
<1> PICK n, m : n = Len(channel) /\ m = Len(channel')
  OBVIOUS
<1>0. /\ n \in Nat /\ \A i \in 1..n : channel'[i] = channel[i]
      /\ m = n + 1 /\ channel'[m] = event
  BY PostOne DEF TrayInv, TrayTypeOK, Events
<1>1. \A i \in 1..m : i \in 1..n \/ i = m
  BY <1>0
<1>2. \A i \in 1..n : NamesPut(channel[i])'
  <2> SUFFICES ASSUME NEW i \in 1..n PROVE NamesPut(channel[i])'
    OBVIOUS
  <2>1. channel'[i] = channel[i] /\ NamesPut(channel[i])
    BY <1>0 DEF TrayInv, OnlyWhatWasPut
  <2> QED
    BY <2>1 DEF NamesPut
<1>3. NamesPut(channel[m])'
  BY <1>0 DEF NamesPut
<1>4. \A i \in 1..m : NamesPut(channel[i])'
  BY <1>1, <1>2, <1>3
<1>5. cards' \subseteq PutCalls' /\ (question' \in Dialogs => state'[question'] # "new")
  BY DEF TrayInv, OnlyWhatWasPut
<1>6. \A r \in replies' : \A c \in r.requests : c \in PutCalls' /\ asked'[c].session = r.session
  BY DEF TrayInv, OnlyWhatWasPut
<1> QED
  BY <1>0, <1>4, <1>5, <1>6 DEF OnlyWhatWasPut

\* A dialog that is put arrives.
LEMMA AskedKeepsQuestion ==
  ASSUME TrayInv, NEW s \in Sessions, NEW new \in Dialogs, state[new] = "new",
         channel' = channel \o <<Event("asked", s, {new})>>, question' = question, hidden' = hidden,
         Parked' = Parked \cup {new}
  PROVE  QuestionInv'
<1> PICK n, m : n = Len(channel) /\ m = Len(channel')
  OBVIOUS
<1>e. /\ Event("asked", s, {new}) \in Events
      /\ Event("asked", s, {new}).name = "asked"
      /\ Event("asked", s, {new}).requests = {new}
  BY DEF Event, Events, Requests
<1>0. /\ n \in Nat /\ \A i \in 1..n : channel'[i] = channel[i]
      /\ m = n + 1 /\ channel'[m] = Event("asked", s, {new})
  BY <1>e, PostOne DEF TrayInv, TrayTypeOK, Events
<1>1. /\ m \in Nat /\ n <= m /\ 1..n \subseteq 1..m /\ m \in 1..m
      /\ \A i \in 1..m : i \in 1..n \/ i = m
  BY <1>0
<1>2. question # new /\ \A i \in 1..n : new \notin channel[i].requests
  BY DEF TrayInv, OnlyWhatWasPut, NamesPut
<1>3. SettledIsOver'
  <2>1. \A i \in 1..n : channel[i].name = "settled" => channel[i].requests \cap (Parked \cap Dialogs) = {}
    BY DEF TrayInv, QuestionInv, SettledIsOver
  <2>2. \A i \in 1..n : channel'[i].name = "settled" => channel'[i].requests \cap (Parked' \cap Dialogs) = {}
    BY <2>1, <1>0, <1>2
  <2>3. channel'[m].name # "settled"
    BY <1>0, <1>e
  <2>4. \A i \in 1..m : channel'[i].name = "settled" => channel'[i].requests \cap (Parked' \cap Dialogs) = {}
    BY <2>2, <2>3, <1>1
  <2> QED
    BY <2>4 DEF SettledIsOver
<1>4. EventsByKind'
  <2>1. \A i \in 1..n : KindOfEvent(channel'[i])
    BY <1>0 DEF TrayInv, QuestionInv, EventsByKind
  <2>2. KindOfEvent(channel'[m])
    BY <1>0, <1>e DEF KindOfEvent
  <2>3. \A i \in 1..m : KindOfEvent(channel'[i])
    BY <2>1, <2>2, <1>1
  <2> QED
    BY <2>3 DEF EventsByKind, KindOfEvent
<1>5. WaitingDialogsComeUp'
  <2> SUFFICES ASSUME NEW d \in (Parked' \cap Dialogs) \ hidden, question # d
               PROVE  \E i \in 1..m : IsAbout(channel'[i], "asked", d)
    BY DEF WaitingDialogsComeUp
  <2>1. CASE d = new
    BY <2>1, <1>0, <1>1, <1>e DEF IsAbout
  <2>2. CASE d # new
    <3>1. \E i \in 1..n : IsAbout(channel[i], "asked", d)
      BY <2>2 DEF TrayInv, QuestionInv, WaitingDialogsComeUp
    <3> QED
      BY <3>1, <1>0, <1>1
  <2> QED
    BY <2>1, <2>2
<1>6. SettledDialogsGo'
  <2>1. ASSUME question \in Dialogs \ hidden, question \notin Parked'
        PROVE  \E i \in 1..m : IsAbout(channel'[i], "settled", question)
    <3>1. \E i \in 1..n : IsAbout(channel[i], "settled", question)
      BY <2>1 DEF TrayInv, QuestionInv, SettledDialogsGo
    <3> QED
      BY <3>1, <1>0, <1>1
  <2>2. ASSUME NEW i \in 1..m, NEW d \in Dialogs \ (hidden \cup Parked'),
               IsAbout(channel'[i], "asked", d)
        PROVE  \E j \in (i + 1)..m : IsAbout(channel'[j], "settled", d)
    <3>0. d # new
      OBVIOUS
    <3>1. i \in 1..n /\ IsAbout(channel[i], "asked", d) /\ d \notin Parked
      BY <2>2, <3>0, <1>0, <1>1, <1>e DEF IsAbout
    <3>2. \E j \in (i + 1)..n : IsAbout(channel[j], "settled", d)
      BY <3>1 DEF TrayInv, QuestionInv, SettledDialogsGo
    <3> QED
      BY <3>2, <3>1, <1>0, <1>1
  <2> QED
    BY <2>1, <2>2 DEF SettledDialogsGo
<1> QED
  BY <1>3, <1>4, <1>5, <1>6 DEF QuestionInv
-----------------------------------------------------------------------------
(* The snapshots. *)

\* A snapshot says which calls of its session wait.
LEMMA SnapshotType ==
  ASSUME TrayTypeOK, NEW s \in Sessions
  PROVE  /\ Snapshot(s) \in Events
         /\ Snapshot(s).name = "snapshot" /\ Snapshot(s).session = s
         /\ Snapshot(s).requests = ParkedOf(s) \cap Calls
  BY DEF Snapshot, Event, Events, ParkedOf, Parked

\* The snapshots with which a document is resynced: one of each open session.
LEMMA SnapshotsOfOpen ==
  ASSUME TrayTypeOK, IsFiniteSet(open)
  PROVE  /\ Snapshots \in Seq(Events)
         /\ \A i \in 1..Len(Snapshots) : \E s \in open : Snapshots[i] = Snapshot(s)
         /\ \A s \in open : \E i \in 1..Len(Snapshots) : Snapshots[i] = Snapshot(s)
<1> DEFINE T == {Snapshot(s) : s \in open}
           f == [e \in T |-> e.session]
<1>1. T \subseteq Events /\ \A s \in open : Snapshot(s).session = s
  BY SnapshotType DEF TrayTypeOK, TypeOK
<1>2. f \in Injection(T, open)
  BY <1>1 DEF Injection, IsInjective
<1> HIDE DEF f
<1>3. IsFiniteSet(T)
  BY <1>2, FS_Injection
<1>4. PICK q : q = Snapshots
  OBVIOUS
<1>5. T \subseteq Events /\ q = SetToSeq(T)
  BY <1>1, <1>4 DEF Snapshots
<1>6. /\ \A e \in T : \E s \in open : e = Snapshot(s)
      /\ \A s \in open : Snapshot(s) \in T
  OBVIOUS
<1> HIDE DEF T
<1> PICK k : k = Cardinality(T)
  OBVIOUS
<1>7. k \in Nat /\ ExistsBijection(1..k, T)
  BY <1>3, FS_CardinalityType
<1>8. \E g \in [1..k -> T] : IsInjective(g)
  BY <1>7 DEF ExistsBijection, Bijection, Injection
<1>9. q \in [1..k -> T] /\ IsInjective(q)
  BY <1>5, <1>8 DEF SetToSeq
<1>10. IsFiniteSet(1..k) /\ Cardinality(1..k) = k
  BY <1>7, FS_Interval
<1>11. q \in Injection(1..k, T)
  BY <1>9 DEF Injection
<1>12. q \in Surjection(1..k, T)
  BY <1>3, <1>10, <1>11, FS_Injection
<1>13. \A e \in T : \E i \in 1..k : q[i] = e
  BY <1>12 DEF Surjection
<1>14. q \in Seq(T) /\ Len(q) = k
  BY <1>7, <1>9
<1>15. q \in Seq(Events)
  BY <1>5, <1>14, SeqMonotonic
<1>16. \A i \in 1..k : q[i] \in T
  BY <1>9
<1>17. /\ q \in Seq(Events)
       /\ \A i \in 1..Len(q) : \E s \in open : q[i] = Snapshot(s)
       /\ \A s \in open : \E i \in 1..Len(q) : q[i] = Snapshot(s)
  BY <1>6, <1>13, <1>14, <1>15, <1>16
<1> QED
  BY <1>4, <1>17

\* The event is the snapshot of the session.
Tells(event, s) ==
  event.name = "snapshot" /\ event.session = s /\ event.requests = ParkedOf(s) \cap Calls

\* After the first n events come the snapshots, and nothing else.
Resynced(n, m) ==
  /\ n \in Nat /\ m \in Nat /\ n <= m /\ m = Len(channel')
  /\ \A i \in (n + 1)..m : \E s \in open : Tells(channel'[i], s)
  /\ \A s \in open : \E i \in (n + 1)..m : Tells(channel'[i], s)

LEMMA ResyncedBy ==
  ASSUME TrayTypeOK, IsFiniteSet(open), NEW base \in Seq(Events), channel' = base \o Snapshots
  PROVE  /\ channel' \in Seq(Events) /\ Resynced(Len(base), Len(channel'))
         /\ \A i \in 1..Len(base) : channel'[i] = base[i]
<1>1. PICK q : q = Snapshots
  OBVIOUS
<1>2. /\ q \in Seq(Events)
      /\ \A i \in 1..Len(q) : \E s \in open : q[i] = Snapshot(s)
      /\ \A s \in open : \E i \in 1..Len(q) : q[i] = Snapshot(s)
  BY <1>1, SnapshotsOfOpen
<1>3. channel' = base \o q
  BY <1>1
<1>4. \A s \in open : Tells(Snapshot(s), s)
  BY SnapshotType DEF Tells, TrayTypeOK, TypeOK
<1>5. PICK n, k, m : n = Len(base) /\ k = Len(q) /\ m = Len(channel')
  OBVIOUS
<1>6. /\ channel' \in Seq(Events) /\ n \in Nat /\ k \in Nat /\ m = n + k
      /\ \A i \in 1..n : channel'[i] = base[i]
      /\ \A i \in 1..k : channel'[n + i] = q[i]
  BY <1>2, <1>3, <1>5
<1>7. ASSUME NEW i \in (n + 1)..m PROVE \E s \in open : Tells(channel'[i], s)
  <2>1. i - n \in 1..k /\ i = n + (i - n)
    BY <1>6
  <2>2. channel'[i] = q[i - n]
    BY <2>1, <1>6
  <2> QED
    BY <2>1, <2>2, <1>2, <1>4, <1>5
<1>8. ASSUME NEW s \in open PROVE \E i \in (n + 1)..m : Tells(channel'[i], s)
  <2>1. PICK j \in 1..k : q[j] = Snapshot(s)
    BY <1>2, <1>5
  <2>2. n + j \in (n + 1)..m
    BY <1>6
  <2>3. channel'[n + j] = Snapshot(s)
    BY <2>1, <1>6
  <2> QED
    BY <2>2, <2>3, <1>4
<1>9. n \in Nat /\ m \in Nat /\ n <= m /\ m = Len(channel')
  BY <1>5, <1>6
<1>10. Resynced(n, m)
  BY <1>7, <1>8, <1>9, Zenon DEF Resynced
<1>11. channel' \in Seq(Events) /\ Resynced(n, m) /\ \A i \in 1..n : channel'[i] = base[i]
  BY <1>6, <1>10
<1> QED
  BY <1>5, <1>11, Zenon

\* They tell the truth, and of an open session all of it.
LEMMA SnapshotsTell ==
  ASSUME TrayInv, NEW n, NEW m, Resynced(n, m), UNCHANGED <<state, asked>>,
         \/ n = 0
         \/ n = Len(channel) /\ \A i \in 1..n : channel'[i] = channel[i],
         NEW c \in PutCalls
  PROVE  /\ EventsTell(c)'
         /\ asked[c].session \in open => \A shown : Right(c, shown)'
         /\ n = Len(channel) => \A shown : Right(c, shown) => Right(c, shown)'
<1>0. /\ n \in Nat /\ m \in Nat /\ n <= m /\ m = Len(channel')
      /\ \A i \in (n + 1)..m : \E s \in open : Tells(channel'[i], s)
      /\ \A s \in open : \E i \in (n + 1)..m : Tells(channel'[i], s)
  BY DEF Resynced
<1>1. \A i \in 1..m : i \in 1..n \/ i \in (n + 1)..m
  BY <1>0
<1>c. c \in Calls /\ (c \in ParkedOf(asked[c].session) <=> state[c] \in Waiting)
  BY DEF PutCalls, ParkedOf, Parked, Requests
<1>2. ASSUME NEW i \in (n + 1)..m
      PROVE  /\ state[c] \in Waiting => ~Removes(channel[i], c)'
             /\ state[c] \notin Waiting => ~Adds(channel[i], c)'
  <2>1. PICK s \in open : Tells(channel'[i], s)
    BY <1>0
  <2>2. channel'[i].requests \subseteq Parked
    BY <2>1 DEF Tells, ParkedOf
  <2>3. state[c] \notin Waiting => c \notin channel'[i].requests
    BY <2>2 DEF Parked
  <2>4. ASSUME state[c] \in Waiting, asked[c].session = channel'[i].session
        PROVE  c \in channel'[i].requests
    BY <2>1, <2>4, <1>c DEF Tells
  <2> QED
    BY <2>1, <2>3, <2>4 DEF Tells, Removes, Adds
<1>3. ASSUME n = Len(channel), \A i \in 1..n : channel'[i] = channel[i]
      PROVE  /\ \A i \in 1..n : Removes(channel[i], c)' <=> Removes(channel[i], c)
             /\ \A i \in 1..n : Adds(channel[i], c)' <=> Adds(channel[i], c)
             /\ \A k \in 1..(n + 1) : Comes(c, k) => Comes(c, k)'
             /\ \A k \in 1..(n + 1) : Goes(c, k) => Goes(c, k)'
  BY <1>0, <1>3, AppendKeeps
<1>4. EventsTell(c) /\ \A i \in 1..n : i + 1 \in 1..(n + 1)
  BY <1>0 DEF TrayInv, CardInv
<1>5. ASSUME NEW i \in 1..n PROVE n = Len(channel) /\ \A j \in 1..n : channel'[j] = channel[j]
  BY <1>0, <1>5
<1>6. ASSUME state[c] \in Waiting, NEW i \in 1..m, Removes(channel[i], c)' PROVE Comes(c, i + 1)'
  <2>1. i \in 1..n
    BY <1>1, <1>2, <1>6
  <2>2. n = Len(channel) /\ Removes(channel[i], c)
    BY <2>1, <1>3, <1>5, <1>6
  <2>3. Comes(c, i + 1)
    BY <2>1, <2>2, <1>4, <1>6 DEF EventsTell
  <2> QED
    BY <2>1, <2>3, <1>3, <1>4, <1>5
<1>7. ASSUME state[c] \notin Waiting, NEW i \in 1..m, Adds(channel[i], c)' PROVE Goes(c, i + 1)'
  <2>1. i \in 1..n
    BY <1>1, <1>2, <1>7
  <2>2. n = Len(channel) /\ Adds(channel[i], c)
    BY <2>1, <1>3, <1>5, <1>7
  <2>3. Goes(c, i + 1)
    BY <2>1, <2>2, <1>4, <1>7 DEF EventsTell
  <2> QED
    BY <2>1, <2>3, <1>3, <1>4, <1>5
<1>8. EventsTell(c)'
  BY <1>0, <1>6, <1>7 DEF EventsTell
<1>9. ASSUME asked[c].session \in open, NEW shown PROVE Right(c, shown)'
  <2>1. PICK i \in (n + 1)..m : Tells(channel'[i], asked[c].session)
    BY <1>0, <1>9
  <2>2. i \in 1..m
    BY <1>0
  <2>3. state[c] \in Waiting => Adds(channel[i], c)'
    BY <2>1, <1>c DEF Tells, Adds
  <2>4. state[c] \notin Waiting => Removes(channel[i], c)'
    BY <2>1, <1>c DEF Tells, Removes
  <2> QED
    BY <2>2, <2>3, <2>4, <1>0 DEF Right, Comes, Goes
<1>10. ASSUME n = Len(channel), NEW shown, Right(c, shown) PROVE Right(c, shown)'
  <2>1. CASE n = 0
    <3>1. ~Comes(c, 1) /\ ~Goes(c, 1)
      BY <2>1, <1>10 DEF Comes, Goes
    <3> QED
      BY <3>1, <1>10 DEF Right
  <2>2. CASE \A i \in 1..n : channel'[i] = channel[i]
    <3>1. (Comes(c, 1) => Comes(c, 1)') /\ (Goes(c, 1) => Goes(c, 1)')
      BY <2>2, <1>0, <1>3, <1>10
    <3> QED
      BY <3>1, <1>10 DEF Right
  <2> QED
    BY <2>1, <2>2
<1> QED
  BY <1>8, <1>9, <1>10

\* They name calls of their session and say nothing of the dialogs.
LEMMA SnapshotsKeepPut ==
  ASSUME TrayInv, NEW n, NEW m, Resynced(n, m), UNCHANGED <<state, asked>>,
         \/ n = 0
         \/ n = Len(channel) /\ \A i \in 1..n : channel'[i] = channel[i],
         cards' \subseteq cards, replies' \subseteq replies, question' \in {question, NoQuestion}
  PROVE  OnlyWhatWasPut'
<1>0. /\ n \in Nat /\ m \in Nat /\ n <= m /\ m = Len(channel')
      /\ \A i \in (n + 1)..m : \E s \in open : Tells(channel'[i], s)
      /\ PutCalls' = PutCalls
  BY DEF Resynced, PutCalls
<1>1. \A i \in 1..m : i \in 1..n \/ i \in (n + 1)..m
  BY <1>0
<1>2. ASSUME NEW i \in (n + 1)..m PROVE NamesPut(channel[i])'
  <2>1. PICK s \in open : Tells(channel'[i], s)
    BY <1>0
  <2>2. \A r \in ParkedOf(s) \cap Calls : r \in PutCalls /\ asked[r].session = s /\ r \notin Dialogs
    BY GatesAssumption DEF ParkedOf, Parked, PutCalls, Waiting
  <2>3. channel'[i].session = s /\ channel'[i].requests = ParkedOf(s) \cap Calls
    BY <2>1 DEF Tells
  <2> QED
    BY <2>2, <2>3, <1>0 DEF NamesPut
<1>3. ASSUME NEW i \in 1..n PROVE NamesPut(channel[i])'
  <2>1. n = Len(channel) /\ channel'[i] = channel[i]
    BY <1>0, <1>3
  <2>2. NamesPut(channel[i])
    BY <2>1, <1>3 DEF TrayInv, OnlyWhatWasPut
  <2> QED
    BY <2>1, <2>2, <1>0 DEF NamesPut
<1>4. \A i \in 1..m : NamesPut(channel[i])'
  BY <1>1, <1>2, <1>3
<1>5. /\ cards' \subseteq PutCalls
      /\ \A r \in replies' : \A c \in r.requests : c \in PutCalls /\ asked[c].session = r.session
      /\ question' \in Dialogs => state[question'] # "new"
  BY TraysAssumption DEF TrayInv, OnlyWhatWasPut, Requests
<1> QED
  BY <1>0, <1>4, <1>5 DEF OnlyWhatWasPut

LEMMA SnapshotsKeepQuestion ==
  ASSUME TrayInv, NEW n, NEW m, Resynced(n, m), UNCHANGED <<state, asked>>,
         \/ n = 0
         \/ n = Len(channel) /\ \A i \in 1..n : channel'[i] = channel[i],
         \/ n = Len(channel) /\ question' = question /\ hidden' = hidden
         \/ question' = NoQuestion /\ hidden' = hidden \cup (Parked \cap Dialogs)
  PROVE  QuestionInv'
<1>0. /\ n \in Nat /\ m \in Nat /\ n <= m /\ m = Len(channel')
      /\ \A i \in (n + 1)..m : \E s \in open : Tells(channel'[i], s)
      /\ Parked' = Parked
  BY DEF Resynced, Parked
<1>1. \A i \in 1..m : i \in 1..n \/ i \in (n + 1)..m
  BY <1>0
<1>2. ASSUME NEW i \in (n + 1)..m PROVE channel'[i].name = "snapshot" /\ KindOfEvent(channel'[i])
  BY <1>0 DEF Tells, KindOfEvent, TrayInv, TrayTypeOK, TypeOK
<1>3. ASSUME NEW i \in 1..n PROVE n = Len(channel) /\ channel'[i] = channel[i]
  BY <1>0, <1>3
<1>4. SettledIsOver'
  <2>1. ASSUME NEW i \in 1..m, channel'[i].name = "settled"
        PROVE  channel'[i].requests \cap (Parked \cap Dialogs) = {}
    <3>1. i \in 1..n
      BY <2>1, <1>1, <1>2
    <3> QED
      BY <2>1, <3>1, <1>3 DEF TrayInv, QuestionInv, SettledIsOver
  <2> QED
    BY <2>1, <1>0 DEF SettledIsOver
<1>5. EventsByKind'
  <2>1. ASSUME NEW i \in 1..n PROVE KindOfEvent(channel'[i])
    BY <1>3 DEF TrayInv, QuestionInv, EventsByKind
  <2>2. \A i \in 1..m : KindOfEvent(channel'[i])
    BY <2>1, <1>1, <1>2
  <2> QED
    BY <2>2, <1>0 DEF EventsByKind, KindOfEvent
<1>6. WaitingDialogsComeUp'
  <2> SUFFICES ASSUME NEW d \in (Parked \cap Dialogs) \ hidden', question' # d
               PROVE  \E i \in 1..m : IsAbout(channel'[i], "asked", d)
    BY <1>0 DEF WaitingDialogsComeUp
  <2>1. n = Len(channel) /\ question' = question /\ hidden' = hidden
    OBVIOUS
  <2>2. PICK i \in 1..n : IsAbout(channel[i], "asked", d)
    BY <2>1 DEF TrayInv, QuestionInv, WaitingDialogsComeUp
  <2>3. channel'[i] = channel[i] /\ i \in 1..m
    BY <1>0, <1>3
  <2> QED
    BY <2>2, <2>3
<1>7. SettledDialogsGo'
  <2>1. ASSUME question' \in Dialogs \ hidden', question' \notin Parked
        PROVE  \E i \in 1..m : IsAbout(channel'[i], "settled", question')
    <3>1. n = Len(channel) /\ question' = question /\ hidden' = hidden
      BY <2>1, TraysAssumption DEF Requests
    <3>2. PICK i \in 1..n : IsAbout(channel[i], "settled", question)
      BY <2>1, <3>1 DEF TrayInv, QuestionInv, SettledDialogsGo
    <3>3. channel'[i] = channel[i] /\ i \in 1..m
      BY <1>0, <1>3
    <3> QED
      BY <3>1, <3>2, <3>3
  <2>2. ASSUME NEW i \in 1..m, NEW d \in Dialogs \ (hidden' \cup Parked),
               IsAbout(channel'[i], "asked", d)
        PROVE  \E j \in (i + 1)..m : IsAbout(channel'[j], "settled", d)
    <3>1. i \in 1..n
      BY <2>2, <1>1, <1>2 DEF IsAbout
    <3>2. n = Len(channel) /\ channel'[i] = channel[i]
      BY <3>1, <1>3
    <3>3. hidden \subseteq hidden'
      OBVIOUS
    <3>4. PICK j \in (i + 1)..n : IsAbout(channel[j], "settled", d)
      BY <2>2, <3>1, <3>2, <3>3 DEF TrayInv, QuestionInv, SettledDialogsGo
    <3>5. j \in 1..n /\ j \in (i + 1)..m
      BY <3>1, <1>0
    <3> QED
      BY <3>4, <3>5, <1>3
  <2> QED
    BY <2>1, <2>2, <1>0 DEF SettledDialogsGo
<1> QED
  BY <1>4, <1>5, <1>6, <1>7 DEF QuestionInv

-----------------------------------------------------------------------------
(* What the renderer does. *)

LEMMA Received ==
  ASSUME TrayTypeOK, channel # <<>>, channel' = Tail(channel)
  PROVE  /\ Len(channel) \in Nat \ {0} /\ Len(channel') = Len(channel) - 1
         /\ \A i \in 1..Len(channel') : channel'[i] = channel[i + 1]
         /\ Head(channel) = channel[1] /\ Head(channel) \in Events
         /\ channel' \in Seq(Events)
<1>1. channel \in Seq(Events)
  BY DEF TrayTypeOK, Events
<1> QED
  BY <1>1, HeadTailProperties, LenProperties, EmptySeq

\* What the reducer does to a call with the event it receives: a snapshot of its
\* session decides, another event adds or removes it where there is a projection,
\* and an answer on its way that the event is too early for is noted.
Applied(event, c) ==
  /\ projected' = projected \cup (IF event.name = "snapshot" THEN {event.session} ELSE {})
  /\ event.name = "snapshot" /\ event.session = asked[c].session =>
       (c \in cards' <=> c \in event.requests)
  /\ ~(event.name = "snapshot" /\ event.session = asked[c].session) =>
       /\ c \in missed => c \in missed'
       /\ c \in cards /\ ~Removes(event, c) => c \in cards'
       /\ Adds(event, c) /\ event.session \in projected => c \in cards'
       /\ c \notin cards /\ ~Adds(event, c) => c \notin cards'
       /\ Removes(event, c) => c \notin cards'
       /\ \A r \in replies :
            r.session = asked[c].session /\ r.session \notin projected /\ c \notin missed' =>
              /\ Adds(event, c) => c \in r.requests
              /\ Removes(event, c) => c \notin r.requests

LEMMA ReceiveApplies ==
  ASSUME NEW event, NEW c \in PutCalls, NamesPut(event),
         ApplyRequested(event) \/ ApplySettled(event) \/ ApplyAsked(event) \/ ApplySnapshot(event)
  PROVE  Applied(event, c)
<1>0. c \in Calls
  BY DEF PutCalls
<1>1. CASE ApplyRequested(event)
  <2>1. /\ event.name = "requested" /\ projected' = projected
        /\ cards' = IF event.session \in projected THEN cards \cup event.requests ELSE cards
        /\ missed' = missed \cup Overtaken(event)
    BY <1>1 DEF ApplyRequested
  <2>2. ASSUME NEW r \in replies, r.session = asked[c].session, r.session \notin projected, c \notin missed',
               c \in event.requests
        PROVE  c \in r.requests
    BY <2>1, <2>2, <1>0 DEF Overtaken
  <2> QED
    BY <2>1, <2>2 DEF Applied, Removes, Adds
<1>2. CASE ApplySettled(event)
  <2>1. /\ event.name = "settled" /\ projected' = projected
        /\ cards' = cards \ event.requests
        /\ missed' = missed \cup Overtaken(event)
    BY <1>2 DEF ApplySettled
  <2>2. ASSUME NEW r \in replies, r.session = asked[c].session, r.session \notin projected, c \notin missed',
               c \in event.requests
        PROVE  c \notin r.requests
    BY <2>1, <2>2, <1>0 DEF Overtaken
  <2> QED
    BY <2>1, <2>2 DEF Applied, Removes, Adds
<1>3. CASE ApplyAsked(event)
  BY <1>3 DEF ApplyAsked, Applied, Removes, Adds
<1>4. CASE ApplySnapshot(event)
  <2>1. /\ event.name = "snapshot" /\ projected' = projected \cup {event.session}
        /\ cards' = {x \in cards : asked[x].session # event.session} \cup event.requests
        /\ missed' = {x \in missed : asked[x].session # event.session}
    BY <1>4 DEF ApplySnapshot
  <2>2. c \in event.requests => asked[c].session = event.session
    BY <2>1, <1>0 DEF NamesPut
  <2>3. event.session # asked[c].session => ~Adds(event, c) /\ ~Removes(event, c)
    BY <2>1, <2>2 DEF Adds, Removes
  <2> QED
    BY <2>1, <2>2, <2>3 DEF Applied
<1> QED
  BY <1>1, <1>2, <1>3, <1>4

LEMMA ReceiveKeepsCards ==
  ASSUME TrayInv, Receive PROVE CardInv'
<1> PICK n, m : n = Len(channel) /\ m = Len(channel')
  OBVIOUS
<1>t. /\ TrayTypeOK /\ channel # <<>> /\ channel' = Tail(channel) /\ UNCHANGED vars
      /\ UNCHANGED linkVars
  BY DEF TrayInv, Receive
<1>0. /\ n \in Nat /\ m = n - 1 /\ n > 0 /\ 1 \in 1..n
      /\ \A i \in 1..m : channel'[i] = channel[i + 1]
      /\ Head(channel) = channel[1]
  BY <1>t, Received
<1>2. /\ PutCalls' = PutCalls /\ asked' = asked /\ state' = state /\ open' = open
      /\ connected' = connected /\ owed' = owed /\ replies' = replies
  BY <1>t DEF vars, sessionVars, linkVars, PutCalls
<1> SUFFICES ASSUME NEW c \in PutCalls PROVE EventsTell(c)' /\ CardsTell(c)' /\ RepliesTell(c)'
  BY <1>2 DEF CardInv
<1> PICK e, s : e = channel[1] /\ s = asked[c].session
  OBVIOUS
<1>1. Applied(e, c)
  <2>1. NamesPut(e)
    BY <1>0 DEF TrayInv, OnlyWhatWasPut
  <2>2. ApplyRequested(e) \/ ApplySettled(e) \/ ApplyAsked(e) \/ ApplySnapshot(e)
    BY <1>0 DEF Receive
  <2> QED
    BY <2>1, <2>2, ReceiveApplies
<1>h. Adds(e, c) => e.session = s
  <2>1. NamesPut(e)
    BY <1>0 DEF TrayInv, OnlyWhatWasPut
  <2> QED
    BY <2>1 DEF NamesPut, Adds, PutCalls
<1>i. EventsTell(c) /\ CardsTell(c) /\ RepliesTell(c)
  BY DEF TrayInv, CardInv
<1>3. ASSUME NEW i \in 1..m
      PROVE  /\ i + 1 \in 1..n
             /\ Removes(channel[i], c)' <=> Removes(channel[i + 1], c)
             /\ Adds(channel[i], c)' <=> Adds(channel[i + 1], c)
  <2>1. i + 1 \in 1..n /\ channel'[i] = channel[i + 1]
    BY <1>0
  <2> QED
    BY <2>1, <1>2 DEF Removes, Adds
<1>4. ASSUME NEW k \in 1..n, Comes(c, k + 1) PROVE Comes(c, k)'
  <2>1. PICK i \in (k + 1)..n : Adds(channel[i], c)
    BY <1>4 DEF Comes
  <2>2. i - 1 \in k..m /\ i - 1 \in 1..m /\ (i - 1) + 1 = i
    BY <1>0
  <2>3. Adds(channel[i - 1], c)'
    BY <2>1, <2>2, <1>3
  <2> QED
    BY <2>2, <2>3 DEF Comes
<1>5. ASSUME NEW k \in 1..n, Goes(c, k + 1) PROVE Goes(c, k)'
  <2>1. PICK i \in (k + 1)..n : Removes(channel[i], c)
    BY <1>5 DEF Goes
  <2>2. i - 1 \in k..m /\ i - 1 \in 1..m /\ (i - 1) + 1 = i
    BY <1>0
  <2>3. Removes(channel[i - 1], c)'
    BY <2>1, <2>2, <1>3
  <2> QED
    BY <2>2, <2>3 DEF Goes
<1>6. EventsTell(c)'
  <2>1. ASSUME state[c] \in Waiting, NEW i \in 1..m, Removes(channel[i], c)' PROVE Comes(c, i + 1)'
    <3>1. i + 1 \in 1..n /\ Removes(channel[i + 1], c)
      BY <2>1, <1>3
    <3>2. Comes(c, (i + 1) + 1)
      BY <3>1, <2>1, <1>i DEF EventsTell
    <3> QED
      BY <3>1, <3>2, <1>4
  <2>2. ASSUME state[c] \notin Waiting, NEW i \in 1..m, Adds(channel[i], c)' PROVE Goes(c, i + 1)'
    <3>1. i + 1 \in 1..n /\ Adds(channel[i + 1], c)
      BY <2>2, <1>3
    <3>2. Goes(c, (i + 1) + 1)
      BY <3>1, <2>2, <1>i DEF EventsTell
    <3> QED
      BY <3>1, <3>2, <1>5
  <2> QED
    BY <2>1, <2>2, <1>2 DEF EventsTell
\* What the first event does is put right, or it is a later one that comes.
<1>7. /\ state[c] \in Waiting /\ Removes(e, c) => Comes(c, 1)'
      /\ state[c] \notin Waiting /\ Adds(e, c) => Goes(c, 1)'
  BY <1>0, <1>i, <1>4, <1>5 DEF EventsTell
<1>8. Comes(c, 1) => Adds(e, c) \/ Comes(c, 1)'
  <2> SUFFICES ASSUME Comes(c, 1), ~Adds(e, c) PROVE Comes(c, 1 + 1)
    BY <1>0, <1>4
  <2>1. PICK i \in 1..n : Adds(channel[i], c)
    BY DEF Comes
  <2>2. i # 1
    BY <2>1
  <2>3. i \in (1 + 1)..n
    BY <2>2, <1>0
  <2> QED
    BY <2>1, <2>3 DEF Comes
<1>9. Goes(c, 1) => Removes(e, c) \/ Goes(c, 1)'
  <2> SUFFICES ASSUME Goes(c, 1), ~Removes(e, c) PROVE Goes(c, 1 + 1)
    BY <1>0, <1>5
  <2>1. PICK i \in 1..n : Removes(channel[i], c)
    BY DEF Goes
  <2>2. i # 1
    BY <2>1
  <2>3. i \in (1 + 1)..n
    BY <2>2, <1>0
  <2> QED
    BY <2>1, <2>3 DEF Goes
<1>10. CASE e.name = "snapshot" /\ e.session = s
  <2>1. (c \in cards' <=> c \in e.requests) /\ s \in projected'
    BY <1>1, <1>10 DEF Applied
  <2>2. c \in e.requests => Adds(e, c)
    BY <1>10 DEF Adds
  <2>3. c \notin e.requests => Removes(e, c)
    BY <1>10 DEF Removes
  <2>4. CardsTell(c)'
    BY <2>1, <2>2, <2>3, <1>2, <1>7 DEF CardsTell, Right
  <2>5. RepliesTell(c)'
    BY <2>1, <1>2 DEF RepliesTell
  <2> QED
    BY <1>6, <2>4, <2>5
<1>11. CASE ~(e.name = "snapshot" /\ e.session = s)
  <2>1. /\ c \in missed => c \in missed'
        /\ c \in cards /\ ~Removes(e, c) => c \in cards'
        /\ Adds(e, c) /\ e.session \in projected => c \in cards'
        /\ c \notin cards /\ ~Adds(e, c) => c \notin cards'
        /\ Removes(e, c) => c \notin cards'
        /\ \A r \in replies :
             r.session = s /\ r.session \notin projected /\ c \notin missed' =>
               /\ Adds(e, c) => c \in r.requests
               /\ Removes(e, c) => c \notin r.requests
    BY <1>1, <1>11 DEF Applied
  <2>2. s \in projected' <=> s \in projected
    BY <1>1, <1>11 DEF Applied
  <2>3. ASSUME s \in Covered', c \notin missed' PROVE Right(c, cards)'
    <3>1. s \in Covered /\ s \in projected /\ c \notin missed
      BY <2>1, <2>2, <2>3, <1>2 DEF Covered
    <3>2. Right(c, cards)
      BY <3>1, <1>i DEF CardsTell
    <3>3. ASSUME state[c] \in Waiting PROVE c \in cards' \/ Comes(c, 1)'
      BY <3>1, <3>2, <3>3, <2>1, <1>7, <1>8, <1>h DEF Right
    <3>4. ASSUME state[c] \notin Waiting PROVE c \notin cards' \/ Goes(c, 1)'
      BY <3>2, <3>4, <2>1, <1>7, <1>9 DEF Right
    <3> QED
      BY <3>3, <3>4, <1>2 DEF Right
  <2>4. ASSUME NEW r \in replies, r.session = s, r.session \notin projected', c \notin missed'
        PROVE  /\ state[c] \in Waiting => c \in r.requests \/ Comes(c, 1)'
               /\ state[c] \notin Waiting => c \notin r.requests \/ Goes(c, 1)'
    <3>1. r.session \notin projected /\ c \notin missed
      BY <2>1, <2>2, <2>4
    <3>2. Right(c, r.requests)
      BY <3>1, <2>4, <1>i DEF RepliesTell
    <3>3. (Adds(e, c) => c \in r.requests) /\ (Removes(e, c) => c \notin r.requests)
      BY <3>1, <2>1, <2>4
    <3> QED
      BY <3>2, <3>3, <1>8, <1>9 DEF Right
  <2>5. CardsTell(c)'
    BY <2>3, <1>2 DEF CardsTell
  <2>6. RepliesTell(c)'
    BY <2>4, <1>2 DEF RepliesTell, Right
  <2> QED
    BY <1>6, <2>5, <2>6
<1> QED
  BY <1>10, <1>11

LEMMA ReceiveKeepsPut ==
  ASSUME TrayInv, Receive PROVE OnlyWhatWasPut'
<1> PICK n, m : n = Len(channel) /\ m = Len(channel')
  OBVIOUS
<1>t. TrayTypeOK /\ channel # <<>> /\ channel' = Tail(channel) /\ UNCHANGED <<vars, linkVars>>
  BY DEF TrayInv, Receive
<1>0. /\ n \in Nat /\ m = n - 1 /\ n > 0 /\ 1 \in 1..n
      /\ \A i \in 1..m : i + 1 \in 1..n /\ channel'[i] = channel[i + 1]
      /\ Head(channel) = channel[1]
  BY <1>t, Received
<1>1. PutCalls' = PutCalls /\ state' = state /\ asked' = asked /\ replies' = replies
  BY <1>t DEF vars, sessionVars, linkVars, PutCalls
<1>2. /\ \A i \in 1..n : NamesPut(channel[i]) /\ KindOfEvent(channel[i])
      /\ cards \subseteq PutCalls /\ (question \in Dialogs => state[question] # "new")
  BY DEF TrayInv, OnlyWhatWasPut, QuestionInv, EventsByKind
<1>3. ASSUME NEW i \in 1..m PROVE NamesPut(channel[i])'
  <2>1. channel'[i] = channel[i + 1] /\ NamesPut(channel[i + 1])
    BY <1>0, <1>2
  <2> QED
    BY <2>1, <1>1 DEF NamesPut
<1>4. NamesPut(channel[1]) /\ KindOfEvent(channel[1])
  BY <1>0, <1>2
<1>5. cards' \subseteq PutCalls /\ (question' \in Dialogs => state[question'] # "new")
  <2>1. CASE ApplyRequested(channel[1])
    BY <2>1, <1>2, <1>4 DEF ApplyRequested, NamesPut, KindOfEvent
  <2>2. CASE ApplySettled(channel[1])
    BY <2>2, <1>2, TraysAssumption DEF ApplySettled, Requests
  <2>3. CASE ApplyAsked(channel[1])
    BY <2>3, <1>2, <1>4 DEF ApplyAsked, NamesPut
  <2>4. CASE ApplySnapshot(channel[1])
    BY <2>4, <1>2, <1>4 DEF ApplySnapshot, NamesPut, KindOfEvent
  <2> QED
    BY <2>1, <2>2, <2>3, <2>4, <1>0 DEF Receive
<1>6. \A r \in replies' : \A c \in r.requests : c \in PutCalls' /\ asked'[c].session = r.session
  BY <1>1 DEF TrayInv, OnlyWhatWasPut
<1> QED
  BY <1>0, <1>1, <1>3, <1>5, <1>6 DEF OnlyWhatWasPut

LEMMA ReceiveKeepsQuestion ==
  ASSUME TrayInv, Receive PROVE QuestionInv'
<1> PICK n, m : n = Len(channel) /\ m = Len(channel')
  OBVIOUS
<1>t. TrayTypeOK /\ channel # <<>> /\ channel' = Tail(channel) /\ UNCHANGED vars
  BY DEF TrayInv, Receive
<1>0. /\ n \in Nat /\ m = n - 1 /\ n > 0 /\ 1 \in 1..n
      /\ \A i \in 1..m : i + 1 \in 1..n /\ channel'[i] = channel[i + 1]
      /\ Head(channel) = channel[1]
  BY <1>t, Received
<1>1. Parked' = Parked
  BY <1>t DEF vars, Parked
<1>2. /\ \A i \in 1..n : channel[i].name = "settled" => channel[i].requests \cap (Parked \cap Dialogs) = {}
      /\ \A i \in 1..n : KindOfEvent(channel[i])
  BY DEF TrayInv, QuestionInv, SettledIsOver, EventsByKind
<1>3. SettledIsOver'
  <2>1. \A i \in 1..m : channel'[i].name = "settled" => channel'[i].requests \cap (Parked' \cap Dialogs) = {}
    BY <1>0, <1>1, <1>2
  <2> QED
    BY <2>1 DEF SettledIsOver
<1>4. EventsByKind'
  <2>1. \A i \in 1..m : KindOfEvent(channel'[i])
    BY <1>0, <1>2
  <2> QED
    BY <2>1 DEF EventsByKind, KindOfEvent
\* What the reducer does to the question.
<1>q. /\ hidden \subseteq hidden'
      /\ channel[1].name \in {"requested", "snapshot"} => question' = question /\ hidden' = hidden
      /\ channel[1].name = "settled" =>
           /\ hidden' = hidden
           /\ question' = IF question \in channel[1].requests THEN NoQuestion ELSE question
      /\ channel[1].name = "asked" =>
           question' \in channel[1].requests /\ hidden' = hidden \cup ({question} \cap Parked)
      /\ channel[1].name \in {"requested", "snapshot", "settled", "asked"}
  BY <1>0 DEF Receive, ApplyRequested, ApplySettled, ApplyAsked, ApplySnapshot
<1>o. channel[1].name = "asked" => question' \in Dialogs /\ channel[1].requests = {question'}
  BY <1>q, <1>2, <1>0 DEF KindOfEvent
<1>s. \A i \in 1..n : i = 1 \/ (i - 1 \in 1..m /\ channel'[i - 1] = channel[i])
  BY <1>0
<1>5. WaitingDialogsComeUp'
  <2> SUFFICES ASSUME NEW d \in (Parked \cap Dialogs) \ hidden', question' # d
               PROVE  \E i \in 1..m : IsAbout(channel'[i], "asked", d)
    BY <1>0, <1>1 DEF WaitingDialogsComeUp
  <2>1. d \notin hidden
    BY <1>q
  <2>2. CASE question = d
    <3>1. CASE channel[1].name = "settled"
      BY <3>1, <2>2, <1>q, <1>2, <1>0
    <3>2. CASE channel[1].name = "asked"
      BY <3>2, <2>2, <1>q
    <3> QED
      BY <3>1, <3>2, <2>2, <1>q
  <2>3. CASE question # d
    <3>1. PICK i \in 1..n : IsAbout(channel[i], "asked", d)
      BY <2>1, <2>3, <1>0 DEF TrayInv, QuestionInv, WaitingDialogsComeUp
    <3>2. i # 1
      BY <3>1, <1>o DEF IsAbout
    <3> QED
      BY <3>1, <3>2, <1>s
  <2> QED
    BY <2>2, <2>3
<1>6. ASSUME NEW i \in 1..n, NEW d \in Dialogs \ (hidden \cup Parked), IsAbout(channel[i], "asked", d)
      PROVE  \E j \in i..m : IsAbout(channel'[j], "settled", d)
  <2>1. PICK j \in (i + 1)..n : IsAbout(channel[j], "settled", d)
    BY <1>6, <1>0 DEF TrayInv, QuestionInv, SettledDialogsGo
  <2>2. j - 1 \in i..m /\ channel'[j - 1] = channel[j]
    BY <1>0
  <2> QED
    BY <2>1, <2>2
<1>7. SettledDialogsGo'
  <2>1. ASSUME question' \in Dialogs \ hidden', question' \notin Parked
        PROVE  \E i \in 1..m : IsAbout(channel'[i], "settled", question')
    <3>0. question' \in Dialogs \ (hidden \cup Parked)
      BY <2>1, <1>q
    <3>1. CASE channel[1].name = "asked"
      BY <3>1, <3>0, <1>o, <1>6, <1>0 DEF IsAbout
    <3>2. CASE channel[1].name # "asked"
      <4>1. question' = question
        BY <3>2, <3>0, <1>q, TraysAssumption DEF Requests
      <4>2. PICK i \in 1..n : IsAbout(channel[i], "settled", question)
        BY <3>0, <4>1, <1>0 DEF TrayInv, QuestionInv, SettledDialogsGo
      <4>3. i # 1
        BY <4>1, <4>2, <3>0, <1>q, TraysAssumption DEF IsAbout, Requests
      <4> QED
        BY <4>1, <4>2, <4>3, <1>s
    <3> QED
      BY <3>1, <3>2
  <2>2. ASSUME NEW i \in 1..m, NEW d \in Dialogs \ (hidden' \cup Parked),
               IsAbout(channel'[i], "asked", d)
        PROVE  \E j \in (i + 1)..m : IsAbout(channel'[j], "settled", d)
    <3>1. i + 1 \in 1..n /\ IsAbout(channel[i + 1], "asked", d)
      BY <2>2, <1>0
    <3>2. d \in Dialogs \ (hidden \cup Parked)
      BY <1>q
    <3> QED
      BY <3>1, <3>2, <1>6
  <2> QED
    BY <2>1, <2>2, <1>0, <1>1 DEF SettledDialogsGo
<1> QED
  BY <1>3, <1>4, <1>5, <1>7 DEF QuestionInv

LEMMA ReceiveKeepsType ==
  ASSUME TrayInv, Receive PROVE TrayTypeOK'
<1>t. /\ TrayTypeOK /\ channel # <<>> /\ channel' = Tail(channel)
      /\ UNCHANGED <<vars, closing, linkVars, reloads>>
  BY DEF TrayInv, Receive
<1>1. channel' \in Seq(Events) /\ Head(channel) = channel[1] /\ channel[1] \in Events
      /\ 1 \in 1..Len(channel)
  BY <1>t, Received
<1>2. KindOfEvent(channel[1])
  BY <1>1 DEF TrayInv, QuestionInv, EventsByKind
<1>3. TypeOK'
  BY <1>t, TypeStep DEF TrayTypeOK
<1>4. projected' \subseteq Sessions /\ cards' \subseteq Calls /\ hidden' \subseteq Dialogs
      /\ question' \in Dialogs \cup {NoQuestion} /\ missed' \subseteq Calls
  <2>1. CASE ApplyRequested(channel[1])
    BY <2>1, <1>t, <1>2 DEF ApplyRequested, Overtaken, TrayTypeOK, KindOfEvent
  <2>2. CASE ApplySettled(channel[1])
    BY <2>2, <1>t DEF ApplySettled, Overtaken, TrayTypeOK
  <2>3. CASE ApplyAsked(channel[1])
    <3>1. {question} \cap Parked \subseteq Dialogs
      BY <1>t, TraysAssumption, GatesAssumption DEF TrayTypeOK, TrayInv, Parked, Requests
    <3> QED
      BY <2>3, <3>1, <1>t, <1>2 DEF ApplyAsked, TrayTypeOK, KindOfEvent
  <2>4. CASE ApplySnapshot(channel[1])
    BY <2>4, <1>t, <1>1, <1>2 DEF ApplySnapshot, TrayTypeOK, KindOfEvent, Events
  <2> QED
    BY <2>1, <2>2, <2>3, <2>4, <1>1 DEF Receive
<1> QED
  BY <1>t, <1>1, <1>3, <1>4 DEF TrayTypeOK, linkVars, Events

-----------------------------------------------------------------------------
(* The steps between the two ends. *)

LEMMA ReloadKeeps ==
  ASSUME TrayInv, Reload PROVE TrayInv'
<1>t. /\ TrayTypeOK /\ IsFiniteSet(open) /\ UNCHANGED vars /\ owed' = owed
      /\ projected' = {} /\ closing' = {} /\ cards' = {} /\ question' = NoQuestion
      /\ awaited' = {} /\ replies' = {} /\ missed' = {}
      /\ hidden' = hidden \cup (Parked \cap Dialogs)
      /\ \/ connected' = TRUE /\ channel' = (IF connected THEN <<>> ELSE channel) \o Snapshots
         \/ ~connected /\ UNCHANGED <<connected, channel>>
      /\ channel \in Seq(Events)
  BY DEF TrayInv, TrayTypeOK, Events, Reload
<1>v. UNCHANGED <<state, asked, open>> /\ PutCalls' = PutCalls /\ Parked' = Parked
  BY <1>t DEF vars, sessionVars, PutCalls, Parked
<1>1. TypeOK'
  BY <1>t, TypeStep DEF TrayTypeOK
<1>2. \A c \in PutCalls : CardsTell(c)' /\ RepliesTell(c)'
  BY <1>t DEF CardsTell, RepliesTell, Covered
<1>3. CASE connected' = TRUE /\ channel' = (IF connected THEN <<>> ELSE channel) \o Snapshots
  <2>1. PICK base \in Seq(Events) :
          /\ channel' = base \o Snapshots
          /\ base = <<>> \/ base = channel
    BY <1>3, <1>t, EmptySeq
  <2>2. PICK n, m : n = Len(base) /\ m = Len(channel')
    OBVIOUS
  <2>3. channel' \in Seq(Events) /\ Resynced(n, m) /\ \A i \in 1..n : channel'[i] = base[i]
    BY <1>t, <2>1, <2>2, ResyncedBy
  <2>4. n = 0 \/ (n = Len(channel) /\ \A i \in 1..n : channel'[i] = channel[i])
    BY <2>1, <2>2, <2>3
  <2>5. \A c \in PutCalls : EventsTell(c)'
    BY <1>v, <2>3, <2>4, SnapshotsTell
  <2>6. OnlyWhatWasPut'
    BY <1>t, <1>v, <2>3, <2>4, SnapshotsKeepPut
  <2>7. QuestionInv'
    BY <1>t, <1>v, <2>3, <2>4, SnapshotsKeepQuestion
  <2>8. TrayTypeOK'
    BY <1>t, <1>1, <1>3, <2>3 DEF TrayTypeOK, Events
  <2> QED
    BY <1>2, <1>t, <1>v, <2>5, <2>6, <2>7, <2>8 DEF TrayInv, CardInv
<1>4. CASE ~connected /\ UNCHANGED <<connected, channel>>
  <2>1. \A c \in PutCalls : EventsTell(c)'
    BY <1>4, <1>v DEF TrayInv, CardInv, EventsTell, Comes, Goes, Adds, Removes
  <2>2. OnlyWhatWasPut'
    BY <1>4, <1>t, <1>v, TraysAssumption DEF TrayInv, OnlyWhatWasPut, NamesPut, Requests
  <2>3. QuestionInv'
    BY <1>4, <1>t, <1>v, TraysAssumption
       DEF TrayInv, QuestionInv, SettledIsOver, EventsByKind, WaitingDialogsComeUp,
           SettledDialogsGo, Requests
  <2>4. TrayTypeOK'
    BY <1>t, <1>1, <1>4 DEF TrayTypeOK
  <2> QED
    BY <1>2, <1>t, <1>v, <2>1, <2>2, <2>3, <2>4 DEF TrayInv, CardInv
<1> QED
  BY <1>3, <1>4, <1>t

LEMMA AttachKeeps ==
  ASSUME TrayInv, TrayAttach PROVE TrayInv'
<1>t. /\ TrayTypeOK /\ IsFiniteSet(open) /\ owed' = FALSE /\ connected' = TRUE
      /\ channel' = channel \o Snapshots
      /\ UNCHANGED <<vars, awaited, replies, projected, closing, cards, question, reloads, hidden, missed>>
      /\ channel \in Seq(Events)
  BY DEF TrayInv, TrayTypeOK, Events, TrayAttach, Post, Still, rendererVars, pastVars
<1>v. UNCHANGED <<state, asked, open>> /\ PutCalls' = PutCalls
  BY <1>t DEF vars, sessionVars, PutCalls
<1>1. PICK n, m : n = Len(channel) /\ m = Len(channel')
  OBVIOUS
<1>2. channel' \in Seq(Events) /\ Resynced(n, m) /\ \A i \in 1..n : channel'[i] = channel[i]
  BY <1>t, <1>1, ResyncedBy
<1>3. ASSUME NEW c \in PutCalls
      PROVE  /\ EventsTell(c)'
             /\ asked[c].session \in open => \A shown : Right(c, shown)'
             /\ \A shown : Right(c, shown) => Right(c, shown)'
  BY <1>v, <1>1, <1>2, SnapshotsTell
<1>4. ASSUME NEW c \in PutCalls PROVE CardsTell(c)'
  <2>1. asked'[c].session \in Covered' => asked[c].session \in open
    BY <1>t, <1>v DEF Covered
  <2>2. asked[c].session \in open => Right(c, cards)'
    BY <1>3, <1>t DEF Right
  <2> QED
    BY <2>1, <2>2 DEF CardsTell
<1>5. ASSUME NEW c \in PutCalls PROVE RepliesTell(c)'
  <2>1. RepliesTell(c)
    BY DEF TrayInv, CardInv
  <2> QED
    BY <2>1, <1>3, <1>t, <1>v DEF RepliesTell, Right
<1>6. OnlyWhatWasPut'
  BY <1>t, <1>v, <1>1, <1>2, SnapshotsKeepPut
<1>7. QuestionInv'
  BY <1>t, <1>v, <1>1, <1>2, SnapshotsKeepQuestion
<1>8. TypeOK'
  BY <1>t, TypeStep DEF TrayTypeOK
<1>9. TrayTypeOK'
  BY <1>t, <1>2, <1>8 DEF TrayTypeOK, Events
<1> QED
  BY <1>t, <1>v, <1>3, <1>4, <1>5, <1>6, <1>7, <1>9 DEF TrayInv, CardInv

\* A death leaves nothing on its way and nothing that waits.
LEMMA DeathKeeps ==
  ASSUME TrayInv, TrayHostDies PROVE TrayInv'
<1>t. /\ TrayTypeOK /\ channel' = <<>> /\ closing' = {}
      /\ awaited' = {} /\ replies' = {} /\ connected' = FALSE /\ owed' = TRUE
      /\ hidden' = hidden \cup {d \in Dialogs : state[d] # "new"}
      /\ UNCHANGED <<projected, cards, question, reloads, missed>>
      /\ state' = Cancelled(Parked) /\ open' = {} /\ asked' = asked /\ HostDies
  BY DEF TrayInv, TrayHostDies, HostDies
<1>1. /\ PutCalls \subseteq PutCalls' /\ Parked' = {}
      /\ \A r \in Requests : state[r] # "new" => state'[r] # "new"
  BY <1>t DEF Cancelled, PutCalls, Parked, Requests, Waiting
<1>2. TrayTypeOK'
  <2>1. TypeOK'
    BY <1>t, TypeStep DEF TrayTypeOK, Next, SessionStep
  <2> QED
    BY <2>1, <1>t, EmptySeq DEF TrayTypeOK
<1>3. Len(channel') = 0
  BY <1>t
<1>4. IsFiniteSet(open')
  BY <1>t, FS_EmptySet
<1>5. OnlyWhatWasPut'
  BY <1>1, <1>3, <1>t DEF TrayInv, OnlyWhatWasPut, Requests
<1>6. CardInv'
  BY <1>3, <1>t DEF CardInv, EventsTell, CardsTell, RepliesTell, Covered
<1>7. QuestionInv'
  BY <1>1, <1>3, <1>t
     DEF TrayInv, OnlyWhatWasPut, QuestionInv, SettledIsOver, EventsByKind,
         WaitingDialogsComeUp, SettledDialogsGo
<1> QED
  BY <1>2, <1>4, <1>5, <1>6, <1>7 DEF TrayInv

\* A step of the renderer alone, which leaves what is on its way.
LEMMA AloneKeeps ==
  ASSUME TrayInv, UNCHANGED <<vars, channel, question, hidden>>, TrayTypeOK',
         cards' \subseteq PutCalls,
         \A r \in replies' : \A c \in r.requests : c \in PutCalls /\ asked[c].session = r.session,
         \A c \in PutCalls : CardsTell(c)' /\ RepliesTell(c)'
  PROVE  TrayInv'
<1>1. UNCHANGED <<state, asked, open>> /\ PutCalls' = PutCalls /\ Parked' = Parked
  BY DEF vars, sessionVars, PutCalls, Parked
<1>2. \A c \in PutCalls : EventsTell(c)'
  BY <1>1 DEF TrayInv, CardInv, EventsTell, Comes, Goes, Adds, Removes
<1>3. OnlyWhatWasPut'
  BY <1>1 DEF TrayInv, OnlyWhatWasPut, NamesPut
<1>4. QuestionInv'
  BY <1>1 DEF TrayInv, QuestionInv, SettledIsOver, EventsByKind, WaitingDialogsComeUp,
              SettledDialogsGo
<1> QED
  BY <1>1, <1>2, <1>3, <1>4 DEF TrayInv, CardInv

LEMMA AloneRight ==
  ASSUME UNCHANGED <<state, asked, channel>>, NEW c, NEW shown
  PROVE  Right(c, shown)' <=> Right(c, shown)
BY DEF Right, Comes, Goes, Adds, Removes

\* The cards and the projection of a closed session go; of the others nothing.
LEMMA ClosedKeeps ==
  ASSUME TrayInv, NEW s \in Sessions, SessionClosed(s) PROVE TrayInv'
<1>t. /\ TrayTypeOK /\ s \notin Answered /\ closing' = closing \ {s}
      /\ projected' = projected \ {s} /\ cards' = {c \in cards : asked[c].session # s}
      /\ missed' = {c \in missed : asked[c].session # s}
      /\ UNCHANGED <<vars, channel, question, linkVars, reloads, hidden>>
  BY DEF TrayInv, SessionClosed
<1>v. UNCHANGED <<state, asked, open, awaited, replies, connected, owed>>
  BY <1>t DEF vars, sessionVars, linkVars
<1>1. TrayTypeOK'
  <2>1. TypeOK'
    BY <1>t, TypeStep DEF TrayTypeOK
  <2> QED
    BY <2>1, <1>t, <1>v DEF TrayTypeOK
<1>2. cards' \subseteq PutCalls
  BY <1>t DEF TrayInv, OnlyWhatWasPut
<1>3. \A r \in replies' : \A c \in r.requests : c \in PutCalls /\ asked[c].session = r.session
  BY <1>v DEF TrayInv, OnlyWhatWasPut
<1>4. ASSUME NEW c \in PutCalls, asked[c].session # s PROVE CardsTell(c)' /\ RepliesTell(c)'
  <2>1. CardsTell(c) /\ RepliesTell(c)
    BY DEF TrayInv, CardInv
  <2>2. (c \in cards' <=> c \in cards) /\ (c \in missed' <=> c \in missed)
    BY <1>4, <1>t
  <2>3. asked[c].session \in Covered' => asked[c].session \in Covered
    BY <1>t, <1>v DEF Covered
  <2>4. Right(c, cards)' <=> Right(c, cards)
    BY <2>2, <1>t, <1>v DEF Right, Comes, Goes, Adds, Removes
  <2>5. CardsTell(c)'
    BY <2>1, <2>2, <2>3, <2>4, <1>v DEF CardsTell
  <2>6. ASSUME NEW r \in replies, r.session = asked[c].session, r.session \notin projected', c \notin missed'
        PROVE  Right(c, r.requests)'
    <3>1. r.session \notin projected
      BY <2>6, <1>4, <1>t
    <3>2. Right(c, r.requests)
      BY <3>1, <2>1, <2>2, <2>6 DEF RepliesTell
    <3> QED
      BY <3>2, <1>t, <1>v, AloneRight
  <2> QED
    BY <2>5, <2>6, <1>v DEF RepliesTell
<1>5. ASSUME NEW c \in PutCalls, asked[c].session = s PROVE CardsTell(c)' /\ RepliesTell(c)'
  <2>1. s \notin Covered'
    BY <1>t DEF Covered
  <2>2. \A r \in replies' : r.session # s
    BY <1>t, <1>v DEF Answered
  <2> QED
    BY <2>1, <2>2, <1>5, <1>v DEF CardsTell, RepliesTell
<1>6. \A c \in PutCalls : CardsTell(c)' /\ RepliesTell(c)'
  BY <1>4, <1>5
<1> QED
  BY <1>t, <1>1, <1>2, <1>3, <1>6, AloneKeeps

\* An answer supplies a missing projection.
LEMMA ReplyKeeps ==
  ASSUME TrayInv, NEW r \in replies, ReplyArrives(r) PROVE TrayInv'
<1>t. /\ TrayTypeOK /\ replies' = replies \ {r}
      /\ UNCHANGED <<vars, channel, closing, awaited, connected, owed, question, reloads, hidden, missed>>
  BY DEF TrayInv, ReplyArrives, pastVars
<1>v. UNCHANGED <<state, asked, open>>
  BY <1>t DEF vars, sessionVars
<1>0. TypeOK' /\ r.session \in Sessions /\ r.requests \subseteq Calls
  BY <1>t, TypeStep DEF TrayTypeOK
<1>1. \A q \in replies' : \A c \in q.requests : c \in PutCalls /\ asked[c].session = q.session
  BY <1>t DEF TrayInv, OnlyWhatWasPut
<1>2. CASE r.session \in projected
  <2>1. UNCHANGED <<projected, cards>>
    BY <1>2 DEF ReplyArrives
  <2>2. TrayTypeOK'
    BY <2>1, <1>t, <1>0 DEF TrayTypeOK
  <2>3. cards' \subseteq PutCalls
    BY <2>1 DEF TrayInv, OnlyWhatWasPut
  <2>4. ASSUME NEW c \in PutCalls PROVE CardsTell(c)' /\ RepliesTell(c)'
    <3>1. CardsTell(c) /\ RepliesTell(c)
      BY DEF TrayInv, CardInv
    <3>2. \A shown : Right(c, shown)' <=> Right(c, shown)
      BY <1>t, <1>v, AloneRight
    <3>3. Right(c, cards)' <=> Right(c, cards)
      BY <2>1, <1>t, <1>v DEF Right, Comes, Goes, Adds, Removes
    <3>4. CardsTell(c)'
      BY <3>1, <3>3, <2>1, <1>t, <1>v DEF CardsTell, Covered
    <3>5. RepliesTell(c)'
      BY <3>1, <3>2, <2>1, <1>t, <1>v DEF RepliesTell, Right
    <3> QED
      BY <3>4, <3>5
  <2> QED
    BY <1>t, <1>1, <2>2, <2>3, <2>4, AloneKeeps
<1>3. CASE r.session \notin projected
  <2>1. /\ projected' = projected \cup {r.session}
        /\ cards' = {c \in cards : asked[c].session # r.session} \cup r.requests
    BY <1>3 DEF ReplyArrives
  <2>2. TrayTypeOK'
    BY <2>1, <1>t, <1>0 DEF TrayTypeOK
  <2>3. /\ cards \subseteq PutCalls
        /\ \A c \in r.requests : c \in PutCalls /\ asked[c].session = r.session
    BY DEF TrayInv, OnlyWhatWasPut
  <2>4. ASSUME NEW c \in PutCalls PROVE CardsTell(c)' /\ RepliesTell(c)'
    <3>1. CardsTell(c) /\ RepliesTell(c)
      BY DEF TrayInv, CardInv
    <3>2. \A shown : Right(c, shown)' <=> Right(c, shown)
      BY <1>t, <1>v, AloneRight
    <3>3. PICK shown : shown = cards'
      OBVIOUS
    <3>4. Right(c, cards)' <=> Right(c, shown)'
      BY <3>3 DEF Right
    <3>5. ASSUME asked[c].session = r.session, c \notin missed PROVE Right(c, shown)
      <4>1. Right(c, r.requests)
        BY <3>1, <3>5, <1>3 DEF RepliesTell
      <4>2. c \in shown <=> c \in r.requests
        BY <3>3, <3>5, <2>1
      <4> QED
        BY <4>1, <4>2 DEF Right
    <3>6. ASSUME asked[c].session # r.session, asked[c].session \in Covered', c \notin missed
          PROVE  Right(c, shown)
      <4>1. asked[c].session \in Covered
        BY <3>6, <2>1, <1>t, <1>v DEF Covered
      <4>2. Right(c, cards)
        BY <4>1, <3>1, <3>6 DEF CardsTell
      <4>3. c \in shown <=> c \in cards
        BY <3>3, <3>6, <2>1, <2>3
      <4> QED
        BY <4>2, <4>3 DEF Right
    <3>7. CardsTell(c)'
      BY <3>2, <3>4, <3>5, <3>6, <1>t, <1>v DEF CardsTell
    <3>8. RepliesTell(c)'
      <4>1. \A q \in replies' : q \in replies /\ (q.session \notin projected' => q.session \notin projected)
        BY <1>t, <2>1
      <4>2. ASSUME NEW q \in replies', q.session = asked[c].session, q.session \notin projected', c \notin missed
            PROVE  Right(c, q.requests)'
        BY <4>1, <4>2, <3>1, <3>2 DEF RepliesTell
      <4> QED
        BY <4>2, <1>t, <1>v DEF RepliesTell
    <3> QED
      BY <3>7, <3>8
  <2>5. cards' \subseteq PutCalls
    BY <2>1, <2>3
  <2> QED
    BY <1>t, <1>1, <2>2, <2>4, <2>5, AloneKeeps
<1> QED
  BY <1>2, <1>3

-----------------------------------------------------------------------------
(* The steps of the host. *)

LEMMA CancelSettles ==
  ASSUME NEW requests \in SUBSET Parked, state' = Cancelled(requests), asked' = asked
  PROVE  Settles
<1>1. \A r \in Requests :
        /\ r \notin requests => state'[r] = state[r]
        /\ r \in requests => state'[r] \in {"cancelled", "defaulted"}
  BY DEF Cancelled
<1>2. Calls \subseteq Requests
  BY DEF Requests
<1> QED
  BY <1>1, <1>2 DEF Settles, PutCalls, Parked, Waiting

LEMMA OneSettles ==
  ASSUME TypeOK, NEW r \in Requests, NEW x \in States \ (Waiting \cup {"new", "unknown"}),
         state' = [state EXCEPT ![r] = x],
         \A q \in Requests : state[q] # "new" => asked'[q] = asked[q]
  PROVE  Settles
<1>1. /\ state'[r] = x /\ \A q \in Requests : q # r => state'[q] = state[q]
      /\ Calls \subseteq Requests
  BY DEF TypeOK, Requests
<1> QED
  BY <1>1 DEF Settles, PutCalls, Parked

LEMMA SettlingStep ==
  ASSUME TrayInv, TypeOK', Settles, channel' = channel \o Settled, IsFiniteSet(open'),
         closing' \subseteq Sessions, awaited' \subseteq Sessions, replies' \subseteq replies,
         UNCHANGED <<question, hidden, connected, owed>>,
         \/ UNCHANGED <<cards, projected, missed>> /\ Covered' \subseteq Covered
         \/ cards' = {} /\ projected' = {} /\ replies' = {} /\ missed' = {}
  PROVE  TrayInv'
<1>1. OnlyWhatWasPut' /\ CardInv' /\ QuestionInv'
  BY SettlingKeeps
<1>2. channel' \in Seq(Events) /\ TrayTypeOK
  BY PostSettled DEF TrayInv
<1>3. TrayTypeOK'
  BY <1>2 DEF TrayTypeOK, Events
<1> QED
  BY <1>1, <1>3 DEF TrayInv

\* A quiet step of the host with what it settles.
LEMMA QuietStep ==
  ASSUME TrayInv, [Next]_vars, Settles, channel' = channel \o Settled, Quiet, open' \subseteq open
  PROVE  TrayInv'
<1>q. UNCHANGED <<projected, closing, cards, question, reloads, hidden, missed, awaited, replies, connected, owed>>
  BY DEF Quiet, Still, rendererVars, pastVars, linkVars
<1>1. TypeOK'
  BY TypeStep DEF TrayInv, TrayTypeOK
<1>2. IsFiniteSet(open') /\ closing' \subseteq Sessions /\ awaited' \subseteq Sessions
  BY <1>q, FS_Subset DEF TrayInv, TrayTypeOK
<1>3. Covered' \subseteq Covered
  BY <1>q DEF Covered
<1> QED
  BY <1>q, <1>1, <1>2, <1>3, SettlingStep

\* A step of the host that only answers.
LEMMA AnswerStep ==
  ASSUME TrayInv, NEW s \in Sessions, TypeOK', UNCHANGED <<state, asked, open, channel, connected, owed>>,
         Still, awaited' \subseteq Sessions, replies' \subseteq replies \cup {Reply(s)}
  PROVE  TrayInv'
<1>q. UNCHANGED <<projected, closing, cards, question, reloads, hidden, missed>>
  BY DEF Still, rendererVars, pastVars
<1>1. PutCalls' = PutCalls /\ Parked' = Parked
  BY DEF PutCalls, Parked
<1>2. /\ Reply(s) \in [session : Sessions, requests : SUBSET Calls]
      /\ Reply(s).session = s /\ Reply(s).requests = ParkedOf(s) \cap Calls
  BY DEF Reply
<1>3. \A c \in ParkedOf(s) \cap Calls : c \in PutCalls /\ asked[c].session = s
  BY DEF ParkedOf, Parked, PutCalls, Waiting
<1>4. TrayTypeOK'
  BY <1>q, <1>2 DEF TrayInv, TrayTypeOK
<1>5. OnlyWhatWasPut'
  <2>1. \A r \in replies' : \A c \in r.requests : c \in PutCalls /\ asked[c].session = r.session
    BY <1>2, <1>3 DEF TrayInv, OnlyWhatWasPut
  <2> QED
    BY <2>1, <1>q, <1>1 DEF TrayInv, OnlyWhatWasPut, NamesPut
<1>6. ASSUME NEW c \in PutCalls PROVE EventsTell(c)' /\ CardsTell(c)' /\ RepliesTell(c)'
  <2>1. EventsTell(c) /\ CardsTell(c) /\ RepliesTell(c)
    BY DEF TrayInv, CardInv
  <2>2. \A shown : Right(c, shown)' <=> Right(c, shown)
    BY AloneRight
  <2>3. Right(c, cards)' <=> Right(c, cards)
    BY <1>q DEF Right, Comes, Goes, Adds, Removes
  <2>4. EventsTell(c)'
    BY <2>1 DEF EventsTell, Comes, Goes, Adds, Removes
  <2>5. CardsTell(c)'
    BY <2>1, <2>3, <1>q DEF CardsTell, Covered
  <2>6. asked[c].session = s => Right(c, ParkedOf(s) \cap Calls)
    BY DEF Right, ParkedOf, Parked, PutCalls, Requests
  <2>7. ASSUME NEW r \in replies', r.session = asked[c].session, r.session \notin projected, c \notin missed
        PROVE  Right(c, r.requests)
    <3>1. CASE r \in replies
      BY <3>1, <2>1, <2>7 DEF RepliesTell
    <3>2. CASE r = Reply(s)
      BY <3>2, <2>6, <2>7, <1>2
    <3> QED
      BY <3>1, <3>2
  <2>8. RepliesTell(c)'
    BY <2>2, <2>7, <1>q DEF RepliesTell
  <2> QED
    BY <2>4, <2>5, <2>8
<1>7. QuestionInv'
  BY <1>q, <1>1 DEF TrayInv, QuestionInv, SettledIsOver, EventsByKind, WaitingDialogsComeUp,
                    SettledDialogsGo
<1> QED
  BY <1>1, <1>4, <1>5, <1>6, <1>7 DEF TrayInv, CardInv

LEMMA SessionSteps ==
  ASSUME TrayInv, NEW s \in Sessions,
         \/ TrayRegister(s) \/ TrayBound(s) \/ OpenAgain(s) \/ TrayClose(s) \/ TrayBindFails(s)
         \/ Host(Abort(s), Settled)
  PROVE  TrayInv'
<1>t. TypeOK /\ IsFiniteSet(open) /\ channel \in Seq(Events) /\ TrayTypeOK
  BY DEF TrayInv, TrayTypeOK, Events
<1>1. CASE TrayRegister(s)
  <2>1. /\ Register(s) /\ UNCHANGED <<channel, replies, connected, owed>>
        /\ UNCHANGED <<projected, closing, cards, question, reloads, hidden, missed>>
        /\ s \notin projected \/ owed
        /\ awaited' \subseteq awaited \cup {s}
        /\ state' = state /\ asked' = asked /\ open' = open \cup {s}
    BY <1>1 DEF TrayRegister, Register, Still, rendererVars, pastVars
  <2>2. Settles /\ Parked' = Parked
    BY <2>1 DEF Settles, PutCalls, Parked
  <2>3. channel' = channel \o Settled
    BY <2>1, <2>2, <1>t DEF Settled
  <2>4. Covered' \subseteq Covered
    BY <2>1 DEF Covered
  <2>5. IsFiniteSet(open')
    BY <1>t, <2>1, FS_AddElement
  <2>6. closing' \subseteq Sessions /\ awaited' \subseteq Sessions
    BY <1>t, <2>1 DEF TrayTypeOK
  <2>7. TypeOK'
    BY <1>t, <2>1, TypeStep DEF Next, SessionStep
  <2> QED
    BY <2>1, <2>2, <2>3, <2>4, <2>5, <2>6, <2>7, SettlingStep
<1>2. CASE TrayBound(s)
  <2>1. /\ Bound(s) /\ UNCHANGED <<channel, connected, owed>> /\ Still
        /\ replies' \subseteq replies \cup {Reply(s)} /\ awaited' \subseteq awaited
        /\ UNCHANGED <<state, asked, open>>
    BY <1>2 DEF TrayBound, Bound
  <2>2. awaited' \subseteq Sessions
    BY <1>t, <2>1 DEF TrayTypeOK
  <2>3. TypeOK'
    BY <1>t, <2>1, TypeStep DEF Next, SessionStep
  <2> QED
    BY <2>1, <2>2, <2>3, AnswerStep
<1>3. CASE OpenAgain(s)
  <2>1. /\ UNCHANGED <<vars, channel, awaited, connected, owed>> /\ Still
        /\ replies' \subseteq replies \cup {Reply(s)}
    BY <1>3 DEF OpenAgain
  <2>2. awaited' \subseteq Sessions /\ UNCHANGED <<state, asked, open>>
    BY <1>t, <2>1 DEF TrayTypeOK, vars, sessionVars
  <2>3. TypeOK'
    BY <1>t, <2>1, TypeStep
  <2> QED
    BY <2>1, <2>2, <2>3, AnswerStep
<1>4. CASE TrayClose(s)
  <2>1. /\ CloseSession(s) /\ channel' = channel \o Settled
        /\ closing' = closing \cup {s} /\ awaited' = awaited \ {s}
        /\ UNCHANGED <<projected, cards, question, replies, connected, owed, reloads, hidden, missed>>
        /\ state' = Cancelled(UNION {ParkedOf(t) : t \in {s}}) /\ asked' = asked
        /\ open' = open \ {s}
    BY <1>4 DEF TrayClose, Post, CloseSession, Close, pastVars
  <2>2. Settles
    BY <2>1, CancelSettles, ParkedOfParked
  <2>3. Covered' \subseteq Covered
    BY <2>1 DEF Covered
  <2>4. IsFiniteSet(open')
    BY <1>t, <2>1, FS_RemoveElement
  <2>5. closing' \subseteq Sessions /\ awaited' \subseteq Sessions
    BY <1>t, <2>1 DEF TrayTypeOK
  <2>6. TypeOK'
    BY <1>t, <2>1, TypeStep DEF Next, SessionStep
  <2> QED
    BY <2>1, <2>2, <2>3, <2>4, <2>5, <2>6, SettlingStep
<1>5. CASE TrayBindFails(s)
  <2>1. /\ BindFails(s) /\ channel' = channel \o Settled
        /\ awaited' = awaited \ {s} /\ UNCHANGED <<replies, connected, owed>>
        /\ UNCHANGED <<projected, closing, cards, question, reloads, hidden, missed>>
        /\ state' = Cancelled(ParkedOf(s) \cap Dialogs) /\ asked' = asked
        /\ open' = open \ {s}
    BY <1>5 DEF TrayBindFails, Post, BindFails, Still, rendererVars, pastVars
  <2>2. Settles
    BY <2>1, CancelSettles, ParkedOfParked
  <2>3. Covered' \subseteq Covered
    BY <2>1 DEF Covered
  <2>4. IsFiniteSet(open')
    BY <1>t, <2>1, FS_RemoveElement
  <2>5. closing' \subseteq Sessions /\ awaited' \subseteq Sessions
    BY <1>t, <2>1 DEF TrayTypeOK
  <2>6. TypeOK'
    BY <1>t, <2>1, TypeStep DEF Next, SessionStep
  <2> QED
    BY <2>1, <2>2, <2>3, <2>4, <2>5, <2>6, SettlingStep
<1>6. CASE Host(Abort(s), Settled)
  <2>1. Abort(s) /\ channel' = channel \o Settled /\ Quiet
    BY <1>6 DEF Host, Post
  <2>2. PICK requests \in SUBSET Parked : Cancel(requests)
    BY <2>1, SettleIsCancel DEF SettleStep
  <2>3. Settles
    BY <2>2, CancelSettles DEF Cancel
  <2>4. open' = open
    BY <2>2 DEF Cancel, sessionVars
  <2>5. [Next]_vars
    BY <2>1 DEF Next, SettleStep
  <2> QED
    BY <2>1, <2>3, <2>4, <2>5, QuietStep
<1> QED
  BY <1>1, <1>2, <1>3, <1>4, <1>5, <1>6

LEMMA WholeSteps ==
  ASSUME TrayInv, TrayCloseWorkspace \/ Host(Shutdown, Settled)
  PROVE  TrayInv'
<1>t. TypeOK /\ IsFiniteSet(open)
  BY DEF TrayInv, TrayTypeOK
<1>1. CASE TrayCloseWorkspace
  <2>1. /\ CloseWorkspace /\ channel' = channel \o Settled
        /\ closing' = {} /\ projected' = {} /\ cards' = {}
        /\ awaited' = {} /\ replies' = {} /\ missed' = {}
        /\ UNCHANGED <<question, connected, owed, reloads, hidden>>
        /\ state' = Cancelled(UNION {ParkedOf(t) : t \in open}) /\ asked' = asked
        /\ open' = open \ open
    BY <1>1 DEF TrayCloseWorkspace, Post, CloseWorkspace, Close
  <2>2. Settles
    BY <2>1, CancelSettles, ParkedOfParked
  <2>3. open' = {}
    BY <2>1
  <2>4. IsFiniteSet(open')
    BY <2>3, FS_EmptySet
  <2>5. TypeOK'
    BY <1>t, <2>1, TypeStep DEF Next, SessionStep
  <2> QED
    BY <2>1, <2>2, <2>4, <2>5, SettlingStep
<1>2. CASE Host(Shutdown, Settled)
  <2>1. /\ Shutdown /\ channel' = channel \o Settled /\ Quiet
        /\ state' = Cancelled(Parked) /\ asked' = asked /\ open' = {}
    BY <1>2 DEF Host, Post, Shutdown
  <2>2. Settles
    BY <2>1, CancelSettles
  <2>3. open' \subseteq open
    BY <2>1
  <2>4. [Next]_vars
    BY <2>1 DEF Next, SessionStep
  <2> QED
    BY <2>1, <2>2, <2>3, <2>4, QuietStep
<1> QED
  BY <1>1, <1>2

LEMMA CallSteps ==
  ASSUME TrayInv, NEW c \in Calls, TrayEvaluate(c) \/ TrayRespond(c)
  PROVE  TrayInv'
<1>t. TypeOK /\ IsFiniteSet(open) /\ channel \in Seq(Events) /\ TrayTypeOK /\ c \in Requests
  BY DEF TrayInv, TrayTypeOK, Events, Requests
<1>1. CASE TrayEvaluate(c)
  <2>1. PICK s \in Sessions, tool \in Tools, arg \in Arguments :
          /\ Evaluate(c, s, tool, arg) /\ Quiet
          /\ channel' = channel \o IF state'[c] = "parked" THEN <<Event("requested", s, {c})>> ELSE <<>>
    BY <1>1 DEF TrayEvaluate, Host, Post
  <2>q. UNCHANGED <<projected, closing, cards, question, reloads, hidden, missed, awaited, replies, connected, owed>>
    BY <2>1 DEF Quiet, Still, rendererVars, pastVars, linkVars
  <2>2. PICK outcome \in Outcomes(s, tool, arg) : state' = [state EXCEPT ![c] = outcome]
    BY <2>1 DEF Evaluate
  <2>3. /\ state[c] = "new" /\ state'[c] = outcome
        /\ asked' = [asked EXCEPT ![c] = [session |-> s, opening |-> openings[s],
                                          tool |-> tool, arg |-> arg, trust |-> trust]]
        /\ open' = open
    BY <1>t, <2>1, <2>2 DEF Evaluate, sessionVars, TypeOK
  <2>4. outcome \in {"exempt", "allowance", "parked", "cancelled"}
    BY DEF Outcomes
  <2>5. [Next]_vars
    BY <2>1 DEF Next, CallStep
  <2>6. \A q \in Requests : q # c => asked'[q] = asked[q] /\ state'[q] = state[q]
    BY <1>t, <2>2, <2>3 DEF TypeOK
  <2>7. CASE outcome # "parked"
    <3>1. outcome \in States \ (Waiting \cup {"new", "unknown"})
      BY <2>4, <2>7, StateNames DEF Waiting, States, ByPolicy
    <3>2. Settles
      BY <1>t, <2>2, <2>3, <2>6, <3>1, OneSettles
    <3>3. Parked' = Parked
      BY <1>t, <2>3, <2>6, <3>1 DEF Parked, Waiting
    <3>4. channel' = channel \o Settled
      BY <2>1, <2>3, <2>7, <3>3 DEF Settled
    <3> QED
      BY <2>1, <2>3, <2>5, <3>2, <3>4, QuietStep
  <2>8. CASE outcome = "parked"
    <3> DEFINE e == Event("requested", s, {c})
    <3>1. channel' = channel \o <<e>>
      BY <2>1, <2>3, <2>8
    <3>2. /\ e \in Events /\ e.name = "requested" /\ e.session = s /\ e.requests = {c}
      BY <1>t DEF Event, Events
    <3>3. asked'[c].session = s /\ state'[c] = "parked" /\ c \notin PutCalls
      BY <1>t, <2>3, <2>8 DEF TypeOK, PutCalls
    <3>4. \A q \in Calls \ {c} : asked'[q] = asked[q] /\ state'[q] = state[q]
      BY <2>6 DEF Requests
    <3>5. Covered' = Covered
      BY <2>q, <2>3 DEF Covered
    <3>6. CardInv'
      BY <2>q, <3>1, <3>3, <3>4, <3>5, RequestedKeepsCards
    <3>7. Parked' \cap Dialogs = Parked \cap Dialogs
      BY <2>6, GatesAssumption DEF Parked, Requests
    <3> HIDE DEF e
    <3>8. QuestionInv'
      BY <2>q, <3>1, <3>2, <3>7, OtherKeepsQuestion
    <3>9. /\ \A x \in PutCalls : x \in PutCalls' /\ asked'[x] = asked[x]
          /\ c \in PutCalls' /\ \A d \in Dialogs : state[d] # "new" => state'[d] # "new"
      BY <2>6, <3>3, <3>4 DEF PutCalls, Requests
    <3>10. NamesPut(e)'
      BY <3>2, <3>3, <3>9, GatesAssumption DEF NamesPut
    <3>11. OnlyWhatWasPut'
      BY <2>q, <3>1, <3>2, <3>9, <3>10, PostingKeepsPut
    <3>12. TypeOK'
      BY <1>t, <2>5, TypeStep
    <3>13. channel' \in Seq(Events)
      BY <1>t, <3>1, <3>2, PostOne
    <3>14. TrayTypeOK'
      BY <1>t, <2>q, <3>12, <3>13 DEF TrayTypeOK, Events
    <3> QED
      BY <1>t, <2>3, <3>6, <3>8, <3>11, <3>14 DEF TrayInv
  <2> QED
    BY <2>7, <2>8
<1>2. CASE TrayRespond(c)
  <2>1. PICK decision \in {"allow_once", "allow_for_session", "deny"} :
          Respond(c, decision) /\ channel' = channel \o Settled /\ Quiet
    BY <1>2 DEF TrayRespond, Host, Post
  <2>2. PICK x \in {"denied", "allowed"} : state' = [state EXCEPT ![c] = x]
    BY <2>1 DEF Respond
  <2>3. x \in States \ (Waiting \cup {"new", "unknown"}) /\ asked' = asked
    BY <2>1, StateNames DEF Respond, Waiting
  <2>4. Settles
    BY <1>t, <2>2, <2>3, OneSettles
  <2>5. open' = open
    BY <2>1 DEF Respond, sessionVars
  <2>6. [Next]_vars
    BY <2>1 DEF Next, CallStep
  <2> QED
    BY <2>1, <2>4, <2>5, <2>6, QuietStep
<1> QED
  BY <1>1, <1>2

LEMMA DialogSteps ==
  ASSUME TrayInv, NEW d \in Dialogs, TrayAsk(d) \/ TrayAnswer(d)
  PROVE  TrayInv'
<1>t. TypeOK /\ IsFiniteSet(open) /\ channel \in Seq(Events) /\ TrayTypeOK /\ d \in Requests /\ d \notin Calls
  BY GatesAssumption DEF TrayInv, TrayTypeOK, Events, Requests
<1>1. CASE TrayAsk(d)
  <2>1. PICK s \in Sessions, standing \in Waiting \cup {"defaulted"} :
          /\ Ask(d, s, standing) /\ Quiet
          /\ channel' = channel \o IF standing \in Waiting THEN <<Event("asked", s, {d})>> ELSE <<>>
    BY <1>1 DEF TrayAsk, Host, Post
  <2>q. UNCHANGED <<projected, closing, cards, question, reloads, hidden, missed, awaited, replies, connected, owed>>
    BY <2>1 DEF Quiet, Still, rendererVars, pastVars, linkVars
  <2>2. /\ state[d] = "new" /\ state' = [state EXCEPT ![d] = standing]
        /\ asked' = [asked EXCEPT ![d] = [session |-> s, opening |-> openings[s], late |-> s \notin open]]
        /\ open' = open
    BY <2>1 DEF Ask, sessionVars
  <2>3. [Next]_vars
    BY <2>1 DEF Next, DialogStep
  <2>4. /\ state'[d] = standing
        /\ \A q \in Requests : q # d => asked'[q] = asked[q] /\ state'[q] = state[q]
    BY <1>t, <2>2 DEF TypeOK
  <2>5. CASE standing = "defaulted"
    <3>1. standing \in States \ (Waiting \cup {"new", "unknown"})
      BY <2>5, StateNames DEF Waiting
    <3>2. Settles
      BY <1>t, <2>2, <2>4, <3>1, OneSettles
    <3>3. Parked' = Parked
      BY <1>t, <2>2, <2>4, <3>1 DEF Parked, Waiting
    <3>4. channel' = channel \o Settled
      BY <2>1, <3>1, <3>3 DEF Settled
    <3> QED
      BY <2>1, <2>2, <2>3, <3>2, <3>4, QuietStep
  <2>6. CASE standing \in Waiting
    <3> DEFINE e == Event("asked", s, {d})
    <3>1. channel' = channel \o <<e>>
      BY <2>1, <2>6
    <3>2. e \in Events /\ e.name = "asked" /\ e.requests = {d}
      BY <1>t DEF Event, Events
    <3>3. Parked' = Parked \cup {d}
      BY <1>t, <2>4, <2>6 DEF Parked
    <3>4. QuestionInv'
      BY <2>q, <2>2, <3>1, <3>3, AskedKeepsQuestion
    <3> HIDE DEF e
    <3>5. /\ state'[d] # "new"
          /\ \A x \in Dialogs : state[x] # "new" => state'[x] # "new"
          /\ \A c \in PutCalls : asked'[c] = asked[c] /\ c \in PutCalls'
          /\ Parked' \cap Calls \subseteq Parked /\ Parked \cap Calls \subseteq Parked'
      BY <1>t, <2>4, <2>6, <3>3 DEF PutCalls, Requests, Waiting
    <3>6. NamesPut(e)'
      BY <1>t, <3>2, <3>5 DEF NamesPut
    <3>7. OnlyWhatWasPut'
      BY <2>q, <3>1, <3>2, <3>5, <3>6, PostingKeepsPut
    <3>8. PICK n, m : n = Len(channel) /\ m = Len(channel')
      OBVIOUS
    <3>9. /\ channel' \in Seq(Events) /\ n \in Nat /\ m = n + 1
          /\ \A i \in 1..n : channel'[i] = channel[i]
          /\ channel'[m] = e
      BY <1>t, <3>1, <3>2, <3>8, PostOne
    <3>10. Follows(n, m)
      BY <3>2, <3>5, <3>8, <3>9 DEF Follows
    <3>11. Covered' \subseteq Covered
      BY <2>q, <2>2 DEF Covered
    <3>12. CardInv'
      BY <2>q, <3>5, <3>10, <3>11, FollowsKeepsCards
    <3>13. TypeOK'
      BY <1>t, <2>3, TypeStep
    <3>14. TrayTypeOK'
      BY <1>t, <2>q, <3>9, <3>13 DEF TrayTypeOK, Events
    <3> QED
      BY <1>t, <2>2, <3>4, <3>7, <3>12, <3>14 DEF TrayInv
  <2> QED
    BY <2>5, <2>6
<1>2. CASE TrayAnswer(d)
  <2>1. PICK x \in {"answered", "defaulted"} :
          Answer(d, x) /\ channel' = channel \o Settled /\ Quiet
    BY <1>2 DEF TrayAnswer, Host, Post
  <2>2. /\ x \in States \ (Waiting \cup {"new", "unknown"})
        /\ asked' = asked /\ state' = [state EXCEPT ![d] = x]
    BY <2>1, StateNames DEF Answer, Waiting
  <2>3. Settles
    BY <1>t, <2>2, OneSettles
  <2>4. open' = open
    BY <2>1 DEF Answer, sessionVars
  <2>5. [Next]_vars
    BY <2>1 DEF Next, DialogStep
  <2> QED
    BY <2>1, <2>3, <2>4, <2>5, QuietStep
<1> QED
  BY <1>1, <1>2

LEMMA SignalSteps ==
  ASSUME TrayInv, NEW r \in Requests, Host(SignalAborts(r), Settled) PROVE TrayInv'
<1>1. SignalAborts(r) /\ channel' = channel \o Settled /\ Quiet
  BY DEF Host, Post
<1>2. PICK requests \in SUBSET Parked : Cancel(requests)
  BY <1>1, SettleIsCancel DEF SettleStep
<1>3. Settles
  BY <1>2, CancelSettles DEF Cancel
<1>4. open' = open
  BY <1>2 DEF Cancel, sessionVars
<1>5. [Next]_vars
  BY <1>1 DEF Next, SettleStep
<1> QED
  BY <1>1, <1>3, <1>4, <1>5, QuietStep

LEMMA ReceiveKeeps == ASSUME TrayInv, Receive PROVE TrayInv'
<1>1. open' = open
  BY DEF Receive, vars, sessionVars
<1> QED
  BY <1>1, ReceiveKeepsType, ReceiveKeepsPut, ReceiveKeepsCards, ReceiveKeepsQuestion DEF TrayInv

LEMMA StutterKeeps == ASSUME TrayInv, UNCHANGED trayVars PROVE TrayInv'
<1>1. /\ UNCHANGED <<vars, channel, projected, closing, cards, question, reloads, hidden, missed>>
      /\ UNCHANGED <<awaited, replies, connected, owed>>
  BY DEF trayVars, rendererVars, linkVars, pastVars
<1>2. TypeOK'
  BY <1>1, TypeStep DEF TrayInv, TrayTypeOK
<1>3. TrayTypeOK'
  BY <1>1, <1>2 DEF TrayInv, TrayTypeOK
<1>4. UNCHANGED <<state, asked, open>>
  BY <1>1 DEF vars, sessionVars
<1>5. \A c \in PutCalls : CardsTell(c)' /\ RepliesTell(c)'
  BY <1>1, <1>4 DEF TrayInv, CardInv, CardsTell, RepliesTell, Covered, Right, Comes, Goes, Adds, Removes
<1>6. /\ cards' \subseteq PutCalls
      /\ \A r \in replies' : \A c \in r.requests : c \in PutCalls /\ asked[c].session = r.session
  BY <1>1 DEF TrayInv, OnlyWhatWasPut
<1> QED
  BY <1>1, <1>3, <1>5, <1>6, AloneKeeps

LEMMA InitTray == ASSUME TrayInit PROVE TrayInv
<1>1. /\ TypeOK /\ open = {} /\ channel = <<>> /\ cards = {} /\ question = NoQuestion /\ hidden = {}
      /\ projected = {} /\ closing = {} /\ awaited = {} /\ replies = {} /\ missed = {}
      /\ connected = TRUE /\ owed = FALSE
      /\ \A r \in Requests : state[r] = "new"
  BY InitType DEF TrayInit, Init
<1>2. IsFiniteSet(open)
  BY <1>1, FS_EmptySet
<1>3. Len(channel) = 0 /\ PutCalls = {} /\ Parked = {} /\ question \notin Dialogs
  BY <1>1, TraysAssumption DEF PutCalls, Parked, Waiting, Requests
<1>4. TrayTypeOK
  <2>1. channel \in Seq([name : {"requested", "asked", "settled", "snapshot"},
                         session : Sessions \cup {"any"}, requests : SUBSET Requests])
    BY <1>1, EmptySeq
  <2>2. /\ projected \subseteq Sessions /\ closing \subseteq Sessions /\ cards \subseteq Calls
        /\ awaited \subseteq Sessions /\ replies \subseteq [session : Sessions, requests : SUBSET Calls]
        /\ hidden \subseteq Dialogs /\ missed \subseteq Calls
        /\ question \in Dialogs \cup {NoQuestion}
    BY <1>1
  <2> QED
    BY <1>1, <2>1, <2>2 DEF TrayTypeOK
<1>5. OnlyWhatWasPut
  BY <1>1, <1>3 DEF OnlyWhatWasPut
<1>6. CardInv
  BY <1>3 DEF CardInv
<1>7. QuestionInv
  BY <1>3 DEF QuestionInv, SettledIsOver, EventsByKind, WaitingDialogsComeUp, SettledDialogsGo
<1> QED
  BY <1>2, <1>4, <1>5, <1>6, <1>7 DEF TrayInv

LEMMA TrayStep == ASSUME TrayInv, [TrayNext]_trayVars PROVE TrayInv'
BY SessionSteps, ClosedKeeps, WholeSteps, DeathKeeps, AttachKeeps, CallSteps, DialogSteps, SignalSteps,
   ReloadKeeps, ReceiveKeeps, ReplyKeeps, StutterKeeps
   DEF TrayNext

LEMMA TrayInvariance == TraySpec => []TrayInv
BY InitTray, TrayStep, PTL DEF TraySpec

\* Once the events have arrived, the cards are the calls Pi is blocked on, but
\* for those whose event an answer has not seen, and the question is the dialog
\* that waits, whatever was reloaded, closed, cancelled or answered while the
\* events and the answers were on their way.
THEOREM TheScreenMatches == TraySpec => []ScreenMatches
<1>1. ASSUME TrayInv PROVE ScreenMatches
  <2> SUFFICES ASSUME channel = <<>>, connected PROVE CardsMatch /\ QuestionShown
    BY DEF ScreenMatches, CardsMatch, QuestionShown, Told
  <2>0. Len(channel) = 0
    OBVIOUS
  <2>1. CardsMatch
    <3> SUFFICES ASSUME NEW s \in open \cap projected
                 PROVE  CardsOf(s) \ missed = (ParkedOf(s) \cap Calls) \ missed
      BY DEF CardsMatch
    <3>0. s \in Covered
      BY DEF Covered
    <3>1. ASSUME NEW c \in PutCalls \ missed, asked[c].session = s
          PROVE  c \in cards <=> state[c] \in Waiting
      <4>1. Right(c, cards)
        BY <1>1, <3>0, <3>1 DEF TrayInv, CardInv, CardsTell
      <4>2. ~Comes(c, 1) /\ ~Goes(c, 1)
        BY <2>0 DEF Comes, Goes
      <4> QED
        BY <4>1, <4>2 DEF Right
    <3>2. \A c \in CardsOf(s) : c \in PutCalls /\ asked[c].session = s /\ c \in cards
      BY <1>1 DEF TrayInv, OnlyWhatWasPut, CardsOf
    <3>3. \A c \in ParkedOf(s) \cap Calls : c \in PutCalls /\ asked[c].session = s /\ state[c] \in Waiting
      BY DEF ParkedOf, Parked, PutCalls, Waiting
    <3>4. \A c \in PutCalls : c \in Requests
      BY DEF PutCalls, Requests
    <3>5. ASSUME NEW c \in CardsOf(s) \ missed PROVE c \in ParkedOf(s) \cap Calls
      BY <3>1, <3>2, <3>4, <3>5 DEF ParkedOf, Parked, PutCalls
    <3>6. ASSUME NEW c \in (ParkedOf(s) \cap Calls) \ missed PROVE c \in CardsOf(s)
      BY <3>1, <3>3, <3>6 DEF CardsOf
    <3> QED
      BY <3>5, <3>6
  <2>2. QuestionShown
    BY <1>1, <2>0 DEF TrayInv, QuestionInv, WaitingDialogsComeUp, SettledDialogsGo, QuestionShown
  <2> QED
    BY <2>1, <2>2
<1> QED
  BY <1>1, TrayInvariance, PTL

=============================================================================
