---------------------------- MODULE TimingsProofs ----------------------------
(***************************************************************************)
(* What a host tells of its time is true, for any number of sessions and of *)
(* prompts and any size of the ring, of the table of sessions and of the   *)
(* open spans: its last turns, tools and commands are what was recorded,   *)
(* each with its session or with none, and no count is off.                *)
(***************************************************************************)
EXTENDS TurnTimings, FiniteSetTheorems, TLAPS

-----------------------------------------------------------------------------
(* What a store is, and what is true of one. *)

Figures == [count : Nat, abandoned : Nat]

Keys ==
  {<<"turn", s>> : s \in Conversations} \cup {<<"tool", c>> : c \in ToolCalls}
    \cup {<<"command", q>> : q \in Requests}

SpanFits(span) ==
  /\ span.key[1] = "turn" =>
       /\ span.session \in Conversations /\ span.key = <<"turn", span.session>>
       /\ span.name = "total"
  /\ span.key[1] = "tool" => span.session = NoOne /\ span.name = "tool"
  /\ span.key[1] = "command" => span.session = NoOne /\ span.name \in {"command", "unknown"}

Spans ==
  {span \in [key : Keys, name : Names, session : Conversations \cup {NoOne}, turn : Nat, delta : Nat] :
     SpanFits(span)}

Rows == [session : Conversations, index : Nat \ {0}, closed : BOOLEAN, turns : [Legs -> Figures]]

RingSlots == [name : Names, index : Nat, turn : Nat, delta : Nat]

Stores ==
  [spans : Seq(Spans), table : Seq(Rows), free : Seq(Nat \ {0}), nextIndex : Nat \ {0},
   ring : [0..Capacity - 1 -> RingSlots], ringNext : 0..Capacity - 1, ringFilled : 0..Capacity,
   figures : [Names -> Figures]]

Records == [name : Names, session : Conversations \cup {NoOne}, turn : Nat]

Histories(rec, forg) ==
  /\ rec \in Seq(Records) /\ forg \in [Conversations -> Nat]
  /\ \A s \in Conversations : forg[s] <= Len(rec)

\* No key is open twice, and the turns that are open are of live sessions.
SpansFit(t, live) ==
  /\ \A i, j \in DOMAIN t.spans : t.spans[i].key = t.spans[j].key => i = j
  /\ \A i \in DOMAIN t.spans : t.spans[i].session \in live \cup {NoOne}
  /\ Len(t.spans) <= MaxOpenSpans

\* The live sessions are those whose entry is not closed.
LiveAre(t, live) ==
  \A s \in Conversations :
    s \in live <=> \E i \in DOMAIN t.table : t.table[i].session = s /\ ~t.table[i].closed

SessionsApart(t) ==
  \A i, j \in DOMAIN t.table : t.table[i].session = t.table[j].session => i = j

\* An index is of one entry, or free once, or yet to be given.
IndexesApart(t) ==
  /\ \A i, j \in DOMAIN t.table : t.table[i].index = t.table[j].index => i = j
  /\ \A i, j \in DOMAIN t.free : t.free[i] = t.free[j] => i = j
  /\ \A i \in DOMAIN t.table : t.table[i].index < t.nextIndex
  /\ \A i \in DOMAIN t.free : t.free[i] < t.nextIndex
  /\ \A i \in DOMAIN t.table, j \in DOMAIN t.free : t.table[i].index # t.free[j]

\* Whatever index was given is in the table or free, and the counter gives no
\* more of them than the table has room for.
TableSized(t) ==
  /\ Len(t.table) <= MaxTracked /\ t.nextIndex <= MaxTracked + 1
  /\ t.nextIndex = Len(t.table) + Len(t.free) + 1

\* The turns of a session that were recorded since it was last forgotten.
Mine(rec, forg, s, leg) ==
  {i \in DOMAIN rec : rec[i].name = leg /\ rec[i].session = s /\ i > forg[s]}

FiguresTrue(t, rec, forg) ==
  \A i \in DOMAIN t.table, leg \in Legs :
    t.table[i].turns[leg].count = Cardinality(Mine(rec, forg, t.table[i].session, leg))

\* Of a session that has no entry, everything is forgotten.
OthersForgotten(t, rec, forg) ==
  \A s \in Conversations :
    \/ \E i \in DOMAIN t.table : t.table[i].session = s
    \/ \A i \in DOMAIN rec : rec[i].session = s => ~(i > forg[s])

\* Where the ring has its k-th record, the oldest first.
At(t, k) ==
  IF t.ringFilled < Capacity THEN k - 1
  ELSE IF t.ringNext + k - 1 < Capacity THEN t.ringNext + k - 1 ELSE t.ringNext + k - 1 - Capacity

\* The slot r holds the i-th record, with the index its session has, or with
\* none when the session was forgotten since.
Tells(t, r, rec, forg, i) ==
  /\ r.name = rec[i].name /\ r.turn = rec[i].turn
  /\ rec[i].session # NoOne /\ i > forg[rec[i].session] =>
       \E j \in DOMAIN t.table : t.table[j].session = rec[i].session /\ t.table[j].index = r.index
  /\ ~(rec[i].session # NoOne /\ i > forg[rec[i].session]) => r.index = 0

RingTrue(t, rec, forg) ==
  /\ t.ringFilled <= Len(rec)
  /\ t.ringFilled < Capacity => t.ringNext = t.ringFilled
  /\ \A k \in 1..t.ringFilled :
       Tells(t, t.ring[At(t, k)], rec, forg, Len(rec) - t.ringFilled + k)

TableFits(t, rec, forg) ==
  /\ SessionsApart(t) /\ IndexesApart(t) /\ TableSized(t)
  /\ FiguresTrue(t, rec, forg) /\ OthersForgotten(t, rec, forg) /\ RingTrue(t, rec, forg)

\* Spans that are recorded, abandoned or open.
Told(t, name) == t.figures[name].count + t.figures[name].abandoned

Open(t, kind) == Cardinality({i \in DOMAIN t.spans : t.spans[i].key[1] = kind})

Balanced(t, b) ==
  /\ b["turn"] = Told(t, "total") + Open(t, "turn")
  /\ b["tool"] = Told(t, "tool") + Open(t, "tool")
  /\ b["command"] = Told(t, "command") + Told(t, "unknown") + Open(t, "command")

Kinds == {"turn", "tool", "command"}

\* Nothing is open under the key.
NoneUnder(t, key) == \A j \in DOMAIN t.spans : t.spans[j].key # key

\* All of it, between two steps.
StoreTrue(t, live, rec, forg, b) ==
  t \in Stores /\ SpansFit(t, live) /\ LiveAre(t, live) /\ TableFits(t, rec, forg) /\ Balanced(t, b)

\* What the runtime keeps.
RuntimeFits ==
  /\ open \in Seq(Conversations) /\ Len(open) <= MaxLive
  /\ \A i, j \in DOMAIN open : open[i] = open[j] => i = j
  /\ counted \subseteq ToSet(open)
  /\ turns \in 0..MaxTurns /\ prompts \in [Conversations -> Seq(Nat)]

\* The inductive invariant.
TimingsInv ==
  /\ StoreTrue(store, counted, recorded, forgotten, begun)
  /\ Histories(recorded, forgotten) /\ begun \in [Kinds -> Nat] /\ RuntimeFits

-----------------------------------------------------------------------------
(* Sequences. *)

LEMMA RemoveAtFacts ==
  ASSUME NEW S, NEW q \in Seq(S), NEW i \in 1..Len(q)
  PROVE  /\ RemoveAt(q, i) \in Seq(S) /\ Len(RemoveAt(q, i)) = Len(q) - 1
         /\ \A k \in 1..(Len(q) - 1) : RemoveAt(q, i)[k] = IF k < i THEN q[k] ELSE q[k + 1]
<1> DEFINE ahead == SubSeq(q, 1, i - 1)
           back == SubSeq(q, i + 1, Len(q))
<1>1. ahead \in Seq(S) /\ Len(ahead) = i - 1 /\ \A k \in 1..(i - 1) : ahead[k] = q[k]
  OBVIOUS
<1>2. back \in Seq(S) /\ Len(back) = Len(q) - i /\ \A k \in 1..(Len(q) - i) : back[k] = q[i + k]
  OBVIOUS
<1>3. RemoveAt(q, i) = ahead \o back
  BY DEF RemoveAt
<1> HIDE DEF ahead, back
<1>4. ahead \o back \in Seq(S) /\ Len(ahead \o back) = Len(q) - 1
  <2>1. ahead \in Seq(S) /\ back \in Seq(S) =>
          ahead \o back \in Seq(S) /\ Len(ahead \o back) = Len(ahead) + Len(back)
    OBVIOUS
  <2>2. Len(q) \in Nat /\ i \in Nat
    OBVIOUS
  <2>3. Len(ahead) = i - 1 /\ Len(back) = Len(q) - i
    BY <1>1, <1>2
  <2>4. Len(ahead) + Len(back) = Len(q) - 1
    BY <2>2, <2>3
  <2>5. ahead \in Seq(S) /\ back \in Seq(S)
    BY <1>1, <1>2
  <2> QED
    BY <2>1, <2>4, <2>5
<1>5. ASSUME NEW k \in 1..(Len(q) - 1)
      PROVE  (ahead \o back)[k] = IF k < i THEN q[k] ELSE q[k + 1]
  <2>1. CASE k < i
    <3>1. k \in 1..(i - 1) /\ (ahead \o back)[k] = ahead[k]
      BY <1>1, <1>2, <2>1
    <3> QED
      BY <1>1, <2>1, <3>1
  <2>2. CASE ~(k < i)
    <3>1. k - (i - 1) \in 1..(Len(q) - i) /\ (ahead \o back)[k] = back[k - (i - 1)]
      BY <1>1, <1>2, <2>2
    <3>2. back[k - (i - 1)] = q[i + (k - (i - 1))] /\ i + (k - (i - 1)) = k + 1
      BY <1>2, <3>1
    <3> QED
      BY <2>2, <3>1, <3>2
  <2> QED
    BY <2>1, <2>2
<1> QED
  BY <1>3, <1>4, <1>5

LEMMA LeastIsThere ==
  ASSUME NEW T, T \subseteq Nat, T # {}
  PROVE  Min(T) \in T
<1>1. PICK x \in T : \A y \in T : <<y, x>> \notin OpToRel(<, Nat)
  BY NatLessThanWellFounded, WFMin
<1>2. \A y \in T : ~(y < x)
  BY <1>1 DEF OpToRel
<1>3. \A y \in T : x =< y
  BY <1>2
<1> QED
  BY <1>3 DEF Min

HowMany(q, K) == Cardinality({i \in DOMAIN q : q[i] \in K})

\* What is left when one is taken out.
LEMMA CountLess ==
  ASSUME NEW S, NEW q \in Seq(S), NEW j \in 1..Len(q), NEW K
  PROVE  /\ q[j] \in K => HowMany(q, K) = HowMany(RemoveAt(q, j), K) + 1
         /\ q[j] \notin K => HowMany(q, K) = HowMany(RemoveAt(q, j), K)
         /\ HowMany(RemoveAt(q, j), K) \in Nat
<1> DEFINE r == RemoveAt(q, j)
           of == {i \in DOMAIN q : q[i] \in K}
           left == {i \in DOMAIN r : r[i] \in K}
           f == [i \in left |-> IF i < j THEN i ELSE i + 1]
<1>1. r \in Seq(S) /\ Len(r) = Len(q) - 1 /\ \A k \in 1..(Len(q) - 1) : r[k] = IF k < j THEN q[k] ELSE q[k + 1]
  BY RemoveAtFacts
<1>2. DOMAIN q = 1..Len(q) /\ DOMAIN r = 1..(Len(q) - 1) /\ Len(q) \in Nat /\ Len(q) >= 1
  BY <1>1
<1> HIDE DEF r
<1>3. IsFiniteSet(of) /\ IsFiniteSet(left)
  <2>1. of \subseteq 1..Len(q) /\ left \subseteq 1..Len(q)
    BY <1>2
  <2>2. IsFiniteSet(1..Len(q))
    BY <1>2, FS_Interval
  <2> QED
    BY <2>1, <2>2, FS_Subset
<1>4. f \in Bijection(left, of \ {j})
  <2>1. \A i \in left : f[i] \in of \ {j}
    BY <1>1, <1>2
  <2>2. f \in Injection(left, of \ {j})
    BY <2>1, <1>2 DEF Injection, IsInjective
  <2>3. ASSUME NEW k \in of \ {j} PROVE \E i \in left : f[i] = k
    <3>1. CASE k < j
      BY <1>1, <1>2, <3>1
    <3>2. CASE ~(k < j)
      <4>1. k - 1 \in left /\ f[k - 1] = k
        BY <1>1, <1>2, <3>2
      <4> QED
        BY <4>1
    <3> QED
      BY <3>1, <3>2
  <2>4. f \in Surjection(left, of \ {j})
    BY <2>1, <2>3 DEF Surjection
  <2> QED
    BY <2>2, <2>4 DEF Bijection
<1>5. Cardinality(left) = Cardinality(of \ {j})
  <2>1. ExistsBijection(left, of \ {j})
    BY <1>4 DEF ExistsBijection
  <2> HIDE DEF left, of
  <2> QED
    BY <1>3, <2>1, FS_Bijection
<1>6. Cardinality(of) \in Nat /\ Cardinality(left) \in Nat
  BY <1>3, FS_CardinalityType
<1>7. q[j] \in K => Cardinality(of) = Cardinality(left) + 1
  <2> HAVE q[j] \in K
  <2>1. j \in of
    BY <1>2
  <2>2. Cardinality(of \ {j}) = Cardinality(of) - 1
    BY <1>3, <2>1, FS_RemoveElement
  <2> QED
    BY <1>5, <1>6, <2>2
<1>8. q[j] \notin K => Cardinality(of) = Cardinality(left)
  <2> HAVE q[j] \notin K
  <2>1. of \ {j} = of
    OBVIOUS
  <2> QED
    BY <1>5, <2>1
<1> QED
  BY <1>6, <1>7, <1>8 DEF r, HowMany

LEMMA AppendFacts ==
  ASSUME NEW S, NEW q \in Seq(S), NEW e \in S, NEW r, r = Append(q, e)
  PROVE  /\ DOMAIN q = 1..Len(q) /\ Len(q) \in Nat /\ DOMAIN r = 1..(Len(q) + 1)
         /\ r[Len(q) + 1] = e /\ \A i \in 1..Len(q) : r[i] = q[i]
<1>1. DOMAIN q = 1..Len(q) /\ Len(q) \in Nat
  OBVIOUS
<1>2. Append(q, e) \in Seq(S) /\ Len(Append(q, e)) = Len(q) + 1
  OBVIOUS
<1>3. Append(q, e)[Len(q) + 1] = e
  OBVIOUS
<1>4. \A i \in 1..Len(q) : Append(q, e)[i] = q[i]
  OBVIOUS
<1>5. DOMAIN r = 1..(Len(q) + 1)
  BY <1>2
<1> QED
  BY <1>1, <1>3, <1>4, <1>5

LEMMA CountMore ==
  ASSUME NEW S, NEW q \in Seq(S), NEW e \in S, NEW r, r = Append(q, e), NEW K
  PROVE  /\ e \in K => HowMany(r, K) = HowMany(q, K) + 1
         /\ e \notin K => HowMany(r, K) = HowMany(q, K)
         /\ HowMany(q, K) \in Nat
<1> DEFINE of == {i \in DOMAIN q : q[i] \in K}
           more == {i \in DOMAIN r : r[i] \in K}
           n == Len(q) + 1
<1>1. /\ DOMAIN q = 1..Len(q) /\ DOMAIN r = 1..n /\ Len(q) \in Nat
      /\ r[n] = e /\ \A i \in 1..Len(q) : r[i] = q[i]
  BY AppendFacts
<1>2. IsFiniteSet(of)
  <2>1. of \subseteq 1..Len(q)
    BY <1>1
  <2> HIDE DEF of, more, n
  <2>2. IsFiniteSet(1..Len(q))
    <3>1. Len(q) \in Int /\ 1 \in Int
      BY <1>1
    <3> QED
      BY <3>1, FS_Interval
  <2> QED
    BY <2>1, <2>2, FS_Subset
<1>3. more = IF e \in K THEN of \cup {n} ELSE of
  BY <1>1
<1>4. n \notin of
  BY <1>1
<1>5. Cardinality(of) \in Nat
  BY <1>2, FS_CardinalityType
<1> HIDE DEF of, more, n
<1>6. Cardinality(of \cup {n}) = Cardinality(of) + 1
  BY <1>2, <1>4, FS_AddElement
<1> QED
  <2>1. e \in K => Cardinality(more) = Cardinality(of) + 1
    BY <1>3, <1>6
  <2>2. e \notin K => Cardinality(more) = Cardinality(of)
    BY <1>3
  <2> QED
    BY <1>5, <2>1, <2>2 DEF of, more, HowMany

LEMMA OpenUnderFact ==
  ASSUME NEW t \in Stores, NEW key
  PROVE  \/ OpenUnder(t, key) = 0 /\ \A i \in DOMAIN t.spans : t.spans[i].key # key
         \/ OpenUnder(t, key) \in 1..Len(t.spans) /\ t.spans[OpenUnder(t, key)].key = key
<1> DEFINE I == {i \in 1..Len(t.spans) : t.spans[i].key = key}
<1>1. t.spans \in Seq(Spans)
  BY DEF Stores
<1>2. DOMAIN t.spans = 1..Len(t.spans)
  BY <1>1
<1>3. OpenUnder(t, key) = IF I # {} THEN Min(I) ELSE 0
  BY DEF OpenUnder, SelectInSeq
<1>4. I # {} => Min(I) \in I
  <2>1. I \subseteq Nat
    OBVIOUS
  <2> HIDE DEF I
  <2> QED
    BY <2>1, LeastIsThere
<1> QED
  BY <1>2, <1>3, <1>4

LEMMA PlaceOfFact ==
  ASSUME NEW t \in Stores, NEW s
  PROVE  \/ PlaceOf(t, s) = 0 /\ \A i \in DOMAIN t.table : t.table[i].session # s
         \/ PlaceOf(t, s) \in 1..Len(t.table) /\ t.table[PlaceOf(t, s)].session = s
<1> DEFINE I == {i \in 1..Len(t.table) : t.table[i].session = s}
<1>1. t.table \in Seq(Rows)
  BY DEF Stores
<1>2. DOMAIN t.table = 1..Len(t.table)
  BY <1>1
<1>3. PlaceOf(t, s) = IF I # {} THEN Min(I) ELSE 0
  BY DEF PlaceOf, SelectInSeq
<1>4. I # {} => Min(I) \in I
  <2>1. I \subseteq Nat
    OBVIOUS
  <2> HIDE DEF I
  <2> QED
    BY <2>1, LeastIsThere
<1> QED
  BY <1>2, <1>3, <1>4

-----------------------------------------------------------------------------
(* What the operations of the store leave alone. *)

\* The entries are the same but for their order, whether they are closed and how
\* many turns were abandoned: m says where each was.
Rearranged(t, u, m) ==
  /\ u.free = t.free /\ u.nextIndex = t.nextIndex
  /\ u.ring = t.ring /\ u.ringNext = t.ringNext /\ u.ringFilled = t.ringFilled
  /\ Len(u.table) = Len(t.table)
  /\ m \in [1..Len(u.table) -> 1..Len(t.table)]
  /\ \A i, j \in 1..Len(u.table) : m[i] = m[j] => i = j
  /\ \A i \in 1..Len(t.table) : \E j \in 1..Len(u.table) : m[j] = i
  /\ \A j \in 1..Len(u.table) :
       /\ u.table[j].session = t.table[m[j]].session
       /\ u.table[j].index = t.table[m[j]].index
       /\ \A leg \in Legs : u.table[j].turns[leg].count = t.table[m[j]].turns[leg].count

LEMMA TableDomain ==
  ASSUME NEW t \in Stores
  PROVE  /\ DOMAIN t.table = 1..Len(t.table) /\ Len(t.table) \in Nat /\ t.table \in Seq(Rows)
         /\ \A i \in 1..Len(t.table) : t.table[i] \in Rows
         /\ DOMAIN t.spans = 1..Len(t.spans) /\ Len(t.spans) \in Nat /\ t.spans \in Seq(Spans)
         /\ \A i \in 1..Len(t.spans) : t.spans[i] \in Spans
         /\ DOMAIN t.free = 1..Len(t.free) /\ Len(t.free) \in Nat /\ t.free \in Seq(Nat \ {0})
         /\ \A i \in 1..Len(t.free) : t.free[i] \in Nat \ {0}
         /\ t.ringFilled \in 0..Capacity /\ t.ringNext \in 0..Capacity - 1
         /\ t.ring \in [0..Capacity - 1 -> RingSlots] /\ t.nextIndex \in Nat \ {0}
         /\ t.figures \in [Names -> Figures]
<1>1. t.table \in Seq(Rows) /\ t.spans \in Seq(Spans) /\ t.free \in Seq(Nat \ {0})
  BY DEF Stores
<1>2. /\ t.ringFilled \in 0..Capacity /\ t.ringNext \in 0..Capacity - 1
      /\ t.ring \in [0..Capacity - 1 -> RingSlots] /\ t.nextIndex \in Nat \ {0}
      /\ t.figures \in [Names -> Figures]
  BY DEF Stores
<1>3. DOMAIN t.table = 1..Len(t.table) /\ Len(t.table) \in Nat /\ \A i \in 1..Len(t.table) : t.table[i] \in Rows
  BY <1>1
<1>4. DOMAIN t.spans = 1..Len(t.spans) /\ Len(t.spans) \in Nat /\ \A i \in 1..Len(t.spans) : t.spans[i] \in Spans
  BY <1>1
<1>5. DOMAIN t.free = 1..Len(t.free) /\ Len(t.free) \in Nat /\ \A i \in 1..Len(t.free) : t.free[i] \in Nat \ {0}
  BY <1>1
<1> QED
  BY <1>1, <1>2, <1>3, <1>4, <1>5

\* Nothing of the table and the ring depends on the order of the entries.
LEMMA RearrangedFits ==
  ASSUME NEW t \in Stores, NEW u \in Stores, NEW m, Rearranged(t, u, m),
         NEW rec, NEW forg, TableFits(t, rec, forg)
  PROVE  TableFits(u, rec, forg)
<1>1. DOMAIN t.table = 1..Len(t.table) /\ DOMAIN u.table = 1..Len(u.table)
  BY TableDomain
<1>2. \A j \in DOMAIN u.table : m[j] \in DOMAIN t.table
  BY <1>1 DEF Rearranged
<1>3. SessionsApart(u)
  <2>1. \A i, j \in DOMAIN t.table : t.table[i].session = t.table[j].session => i = j
    BY DEF TableFits, SessionsApart
  <2>2. \A j \in DOMAIN u.table : u.table[j].session = t.table[m[j]].session
    BY <1>1 DEF Rearranged
  <2>3. \A i, j \in DOMAIN u.table : m[i] = m[j] => i = j
    BY <1>1 DEF Rearranged
  <2> QED
    BY <1>2, <2>1, <2>2, <2>3 DEF SessionsApart
<1>4. IndexesApart(u)
  <2>1. IndexesApart(t)
    BY DEF TableFits
  <2>2. u.free = t.free /\ u.nextIndex = t.nextIndex
    BY DEF Rearranged
  <2>3. \A j \in DOMAIN u.table : u.table[j].index = t.table[m[j]].index
    BY <1>1 DEF Rearranged
  <2>4. \A i, j \in DOMAIN u.table : m[i] = m[j] => i = j
    BY <1>1 DEF Rearranged
  <2>5. \A i, j \in DOMAIN u.table : u.table[i].index = u.table[j].index => i = j
    BY <1>2, <2>1, <2>3, <2>4 DEF IndexesApart
  <2>6. \A i \in DOMAIN u.table : u.table[i].index < u.nextIndex
    BY <1>2, <2>1, <2>2, <2>3 DEF IndexesApart
  <2>7. \A i \in DOMAIN u.table, j \in DOMAIN u.free : u.table[i].index # u.free[j]
    BY <1>2, <2>1, <2>2, <2>3 DEF IndexesApart
  <2> QED
    BY <2>1, <2>2, <2>5, <2>6, <2>7 DEF IndexesApart
<1>5. FiguresTrue(u, rec, forg)
  <2>1. FiguresTrue(t, rec, forg)
    BY DEF TableFits
  <2>2. \A j \in DOMAIN u.table : u.table[j].session = t.table[m[j]].session
    BY <1>1 DEF Rearranged
  <2>3. \A j \in DOMAIN u.table, leg \in Legs : u.table[j].turns[leg].count = t.table[m[j]].turns[leg].count
    BY <1>1 DEF Rearranged
  <2> QED
    BY <1>2, <2>1, <2>2, <2>3 DEF FiguresTrue
<1>6. ASSUME NEW i \in DOMAIN t.table
      PROVE  \E j \in DOMAIN u.table : u.table[j].session = t.table[i].session /\ u.table[j].index = t.table[i].index
  <2>1. i \in 1..Len(t.table)
    BY <1>1
  <2>2. PICK j \in 1..Len(u.table) : m[j] = i
    BY <2>1 DEF Rearranged
  <2>3. u.table[j].session = t.table[m[j]].session /\ u.table[j].index = t.table[m[j]].index
    BY DEF Rearranged
  <2> QED
    BY <1>1, <2>2, <2>3
<1>7. OthersForgotten(u, rec, forg)
  <2> SUFFICES ASSUME NEW s \in Conversations
               PROVE  \/ \E i \in DOMAIN u.table : u.table[i].session = s
                      \/ \A i \in DOMAIN rec : rec[i].session = s => ~(i > forg[s])
    BY DEF OthersForgotten
  <2>1. \/ \E i \in DOMAIN t.table : t.table[i].session = s
        \/ \A i \in DOMAIN rec : rec[i].session = s => ~(i > forg[s])
    BY DEF TableFits, OthersForgotten
  <2> QED
    BY <1>6, <2>1
<1>8. RingTrue(u, rec, forg)
  <2>1. u.ring = t.ring /\ u.ringNext = t.ringNext /\ u.ringFilled = t.ringFilled
    BY DEF Rearranged
  <2>2. \A k : At(u, k) = At(t, k)
    BY <2>1 DEF At
  <2>3. ASSUME NEW r, NEW i, Tells(t, r, rec, forg, i) PROVE Tells(u, r, rec, forg, i)
    <3>1. ASSUME rec[i].session # NoOne /\ i > forg[rec[i].session]
          PROVE  \E j \in DOMAIN u.table : u.table[j].session = rec[i].session /\ u.table[j].index = r.index
      <4>1. PICK j \in DOMAIN t.table : t.table[j].session = rec[i].session /\ t.table[j].index = r.index
        BY <2>3, <3>1 DEF Tells
      <4> QED
        BY <1>6, <4>1
    <3> QED
      BY <2>3, <3>1 DEF Tells
  <2> QED
    BY <2>1, <2>2, <2>3 DEF RingTrue, TableFits
<1> QED
  <2>1. TableSized(u)
    BY DEF Rearranged, TableFits, TableSized
  <2> QED
    BY <1>3, <1>4, <1>5, <1>7, <1>8, <2>1 DEF TableFits

LEMMA LegNames == Legs \subseteq Names /\ {"tool", "command", "unknown"} \subseteq Names /\ "total" \in Legs
  BY DEF Legs, Names

\* From t to u, the entry n has one more in one figure.
Bumped(t, u, n, leg, field) ==
  /\ u \in Stores /\ Len(u.table) = n
  /\ u.spans = t.spans /\ u.figures = t.figures
  /\ u.free = t.free /\ u.nextIndex = t.nextIndex
  /\ u.ring = t.ring /\ u.ringNext = t.ringNext /\ u.ringFilled = t.ringFilled
  /\ \A j \in 1..n :
       /\ u.table[j].session = t.table[j].session
       /\ u.table[j].index = t.table[j].index
       /\ u.table[j].closed = t.table[j].closed
       /\ \A l \in Legs :
            u.table[j].turns[l].count =
              t.table[j].turns[l].count + (IF j = n /\ l = leg /\ field = "count" THEN 1 ELSE 0)

\* One more in one figure of the last entry.
LEMMA AddToLastFacts ==
  ASSUME NEW t \in Stores, Len(t.table) >= 1, NEW leg \in Legs, NEW field \in {"count", "abandoned"},
         NEW u, u = AddToLast(t, leg, field), NEW n, n = Len(t.table)
  PROVE  Bumped(t, u, n, leg, field)
<1> DEFINE e == t.table[n]
           f == [e.turns[leg] EXCEPT ![field] = @ + 1]
           e1 == [e EXCEPT !.turns = [e.turns EXCEPT ![leg] = f]]
<1>1. u = [t EXCEPT !.table = [t.table EXCEPT ![n] = e1]]
  BY DEF AddToLast
<1>2. n \in Nat /\ n >= 1 /\ t.table \in Seq(Rows) /\ DOMAIN t.table = 1..n /\ \A j \in 1..n : t.table[j] \in Rows
  BY TableDomain
<1>3. e \in Rows
  BY <1>2
<1>4. e.turns[leg] \in Figures
  BY <1>3 DEF Rows
<1>5. f \in Figures /\ f.count = e.turns[leg].count + (IF field = "count" THEN 1 ELSE 0)
  <2>1. \A x \in Figures :
          /\ [x EXCEPT ![field] = @ + 1] \in Figures
          /\ [x EXCEPT ![field] = @ + 1].count = x.count + (IF field = "count" THEN 1 ELSE 0)
    BY DEF Figures
  <2> QED
    BY <1>4, <2>1
<1> HIDE DEF f
<1>6. e1 \in Rows
  BY <1>3, <1>5 DEF Rows
<1>7. /\ e1.session = e.session /\ e1.index = e.index /\ e1.closed = e.closed
      /\ \A l \in Legs : e1.turns[l].count = e.turns[l].count + (IF l = leg /\ field = "count" THEN 1 ELSE 0)
  <2>1. e1.session = e.session /\ e1.index = e.index /\ e1.closed = e.closed
    BY <1>3 DEF Rows
  <2>2. e1.turns = [e.turns EXCEPT ![leg] = f] /\ e.turns \in [Legs -> Figures]
    BY <1>3 DEF Rows
  <2>3. \A l \in Legs : e.turns[l].count \in Nat
    BY <2>2 DEF Figures
  <2>4. e1.turns[leg] = f /\ \A l \in Legs \ {leg} : e1.turns[l] = e.turns[l]
    BY <2>2
  <2> QED
    BY <1>5, <2>1, <2>3, <2>4
<1> HIDE DEF e1
<1>8. /\ [t.table EXCEPT ![n] = e1] \in Seq(Rows) /\ Len([t.table EXCEPT ![n] = e1]) = n
      /\ [t.table EXCEPT ![n] = e1][n] = e1
      /\ \A j \in 1..(n - 1) : [t.table EXCEPT ![n] = e1][j] = t.table[j]
  BY <1>2, <1>6
<1>9. u \in Stores
  BY <1>1, <1>8 DEF Stores
<1>10. /\ u.spans = t.spans /\ u.figures = t.figures /\ u.free = t.free /\ u.nextIndex = t.nextIndex
       /\ u.ring = t.ring /\ u.ringNext = t.ringNext /\ u.ringFilled = t.ringFilled
       /\ u.table = [t.table EXCEPT ![n] = e1]
  BY <1>1 DEF Stores
<1>11. ASSUME NEW j \in 1..n
       PROVE  /\ u.table[j].session = t.table[j].session
              /\ u.table[j].index = t.table[j].index
              /\ u.table[j].closed = t.table[j].closed
              /\ \A l \in Legs :
                   u.table[j].turns[l].count =
                     t.table[j].turns[l].count + (IF j = n /\ l = leg /\ field = "count" THEN 1 ELSE 0)
  <2>1. CASE j = n
    BY <1>7, <1>8, <1>10, <2>1
  <2>2. CASE j # n
    <3>1. u.table[j] = t.table[j]
      BY <1>2, <1>8, <1>10, <2>2
    <3>2. \A l \in Legs : t.table[j].turns[l].count \in Nat
      BY <1>2 DEF Rows, Figures
    <3> QED
      BY <2>2, <3>1, <3>2
  <2> QED
    BY <2>1, <2>2
<1> QED
  BY <1>8, <1>9, <1>10, <1>11 DEF Bumped

\* A session that is tracked moves to the back and is not closed any more.
LEMMA InternedFacts ==
  ASSUME NEW t \in Stores, NEW s \in Conversations, NEW i \in 1..Len(t.table), i = PlaceOf(t, s)
  PROVE  LET u == Interned(t, s) n == Len(t.table) IN
         /\ u \in Stores /\ Len(u.table) = n
         /\ u.spans = t.spans /\ u.figures = t.figures
         /\ u.free = t.free /\ u.nextIndex = t.nextIndex
         /\ u.ring = t.ring /\ u.ringNext = t.ringNext /\ u.ringFilled = t.ringFilled
         /\ \A j \in 1..(n - 1) : u.table[j] = IF j < i THEN t.table[j] ELSE t.table[j + 1]
         /\ u.table[n] = [t.table[i] EXCEPT !.closed = FALSE]
<1> DEFINE n == Len(t.table)
           e == [t.table[i] EXCEPT !.closed = FALSE]
           q == RemoveAt(t.table, i)
           u == [t EXCEPT !.table = Append(q, e)]
<1>1. n \in Nat /\ t.table \in Seq(Rows) /\ t.table[i] \in Rows
  BY TableDomain
<1>2. Interned(t, s) = u
  BY DEF Interned
<1>3. e \in Rows
  BY <1>1 DEF Rows
<1>4. q \in Seq(Rows) /\ Len(q) = n - 1 /\ \A k \in 1..(n - 1) : q[k] = IF k < i THEN t.table[k] ELSE t.table[k + 1]
  BY <1>1, RemoveAtFacts
<1> HIDE DEF q, e
<1>5. /\ Append(q, e) \in Seq(Rows) /\ Len(Append(q, e)) = n /\ Append(q, e)[n] = e
      /\ \A k \in 1..(n - 1) : Append(q, e)[k] = q[k]
  BY <1>1, <1>3, <1>4
<1>6. u \in Stores
  BY <1>5 DEF Stores
<1>7. /\ u.spans = t.spans /\ u.figures = t.figures /\ u.free = t.free /\ u.nextIndex = t.nextIndex
      /\ u.ring = t.ring /\ u.ringNext = t.ringNext /\ u.ringFilled = t.ringFilled
      /\ u.table = Append(q, e)
  BY DEF Stores
<1>8. \A j \in 1..(n - 1) : u.table[j] = IF j < i THEN t.table[j] ELSE t.table[j + 1]
  BY <1>4, <1>5, <1>7
<1> HIDE DEF u
<1> QED
  BY <1>2, <1>5, <1>6, <1>7, <1>8 DEF e

-----------------------------------------------------------------------------
(* Abandoning and beginning. *)

Sound(t, live, rec, forg) ==
  t \in Stores /\ SpansFit(t, live) /\ LiveAre(t, live) /\ TableFits(t, rec, forg)

LEMMA TrackedSessions ==
  ASSUME NEW t \in Stores
  PROVE  Tracked(t) = {t.table[i].session : i \in 1..Len(t.table)}
<1>1. DOMAIN t.table = 1..Len(t.table)
  BY TableDomain
<1>2. ToSet(t.table) = {t.table[i] : i \in DOMAIN t.table}
  BY DEF ToSet
<1> QED
  BY <1>1, <1>2 DEF Tracked

LEMMA RearrangedTracked ==
  ASSUME NEW t \in Stores, NEW u \in Stores, NEW m, Rearranged(t, u, m)
  PROVE  Tracked(u) = Tracked(t)
<1>1. \A j \in 1..Len(u.table) : m[j] \in 1..Len(t.table) /\ u.table[j].session = t.table[m[j]].session
  BY DEF Rearranged
<1>2. \A i \in 1..Len(t.table) : \E j \in 1..Len(u.table) : u.table[j].session = t.table[i].session
  <2> TAKE i \in 1..Len(t.table)
  <2>1. PICK j \in 1..Len(u.table) : m[j] = i
    BY DEF Rearranged
  <2> QED
    BY <1>1, <2>1
<1>3. Tracked(u) = {u.table[j].session : j \in 1..Len(u.table)}
  BY TrackedSessions
<1>4. Tracked(t) = {t.table[i].session : i \in 1..Len(t.table)}
  BY TrackedSessions
<1>5. \A i \in 1..Len(u.table) : u.table[i].session \in Tracked(t)
  BY <1>1, <1>4
<1>6. \A i \in 1..Len(t.table) : t.table[i].session \in Tracked(u)
  BY <1>2, <1>3
<1> HIDE DEF Tracked
<1> QED
  BY <1>3, <1>4, <1>5, <1>6

\* From t to u, s gets an entry that is the last of the table.
Enters(t, u, s, live, rec, forg) ==
  /\ Sound(u, live \cup {s}, rec, forg) /\ u.spans = t.spans /\ u.figures = t.figures
  /\ Tracked(u) = Tracked(t) \cup {s}
  /\ Len(u.table) >= 1 /\ u.table[Len(u.table)].session = s

\* A session that has an entry becomes live, and its entry the last one.
LEMMA InternedKnown ==
  ASSUME NEW live, NEW rec, NEW forg, NEW t, Sound(t, live, rec, forg),
         NEW s \in Conversations, PlaceOf(t, s) # 0, NEW u, u = Interned(t, s)
  PROVE  Enters(t, u, s, live, rec, forg) /\ s \in Tracked(t)
<1> DEFINE i == PlaceOf(t, s)
           n == Len(t.table)
           m == [j \in 1..n |-> IF j = n THEN i ELSE IF j < i THEN j ELSE j + 1]
<1>1. t \in Stores
  BY DEF Sound
<1>2. i \in 1..n /\ t.table[i].session = s
  BY <1>1, PlaceOfFact
<1> HIDE DEF i
<1>3. /\ u \in Stores /\ Len(u.table) = n
      /\ u.spans = t.spans /\ u.figures = t.figures
      /\ u.free = t.free /\ u.nextIndex = t.nextIndex
      /\ u.ring = t.ring /\ u.ringNext = t.ringNext /\ u.ringFilled = t.ringFilled
      /\ \A j \in 1..(n - 1) : u.table[j] = IF j < i THEN t.table[j] ELSE t.table[j + 1]
      /\ u.table[n] = [t.table[i] EXCEPT !.closed = FALSE]
  BY <1>1, <1>2, InternedFacts DEF i
<1>4. n \in Nat /\ n >= 1 /\ t.table[i] \in Rows
  BY <1>1, <1>2, TableDomain
<1>5. /\ u.table[n].session = s /\ u.table[n].index = t.table[i].index /\ u.table[n].turns = t.table[i].turns
      /\ u.table[n].closed = FALSE
  BY <1>2, <1>3, <1>4 DEF Rows
<1>12. ASSUME NEW j \in 1..n, j # n PROVE m[j] \in 1..n /\ u.table[j] = t.table[m[j]]
  <2>1. j \in 1..(n - 1) /\ m[j] = IF j < i THEN j ELSE j + 1
    BY <1>4, <1>12
  <2>2. CASE j < i
    BY <1>3, <1>4, <2>1, <2>2
  <2>3. CASE ~(j < i)
    <3>1. m[j] = j + 1 /\ j + 1 \in 1..n
      BY <1>4, <2>1, <2>3
    <3>2. u.table[j] = t.table[j + 1]
      BY <1>3, <2>1, <2>3
    <3> QED
      BY <3>1, <3>2
  <2> QED
    BY <2>2, <2>3
<1>6. Rearranged(t, u, m)
  <2>1. m \in [1..n -> 1..n]
    BY <1>2, <1>4
  <2>2. \A k, j \in 1..n : m[k] = m[j] => k = j
    BY <1>2, <1>4
  <2>3. \A k \in 1..n : \E j \in 1..n : m[j] = k
    <3> TAKE k \in 1..n
    <3>1. CASE k = i
      BY <1>4, <3>1
    <3>2. CASE k < i
      BY <1>2, <1>4, <3>2
    <3>3. CASE k > i
      <4>1. k - 1 \in 1..n /\ m[k - 1] = k
        BY <1>2, <1>4, <3>3
      <4> QED
        BY <4>1
    <3> QED
      BY <1>2, <3>1, <3>2, <3>3
  <2>4. \A j \in 1..n :
          /\ u.table[j].session = t.table[m[j]].session
          /\ u.table[j].index = t.table[m[j]].index
          /\ u.table[j].turns = t.table[m[j]].turns
    <3> TAKE j \in 1..n
    <3>1. CASE j = n
      BY <1>2, <1>5, <3>1
    <3>2. CASE j # n
      <4>1. u.table[j] = t.table[m[j]]
        BY <1>12, <3>2
      <4> QED
        BY <4>1
    <3> QED
      BY <3>1, <3>2
  <2> HIDE DEF m, n
  <2> QED
    BY <1>3, <2>1, <2>2, <2>3, <2>4 DEF Rearranged, n
<1>7. TableFits(u, rec, forg)
  BY <1>1, <1>3, <1>6, RearrangedFits DEF Sound
<1>8. SpansFit(u, live \cup {s})
  BY <1>3 DEF Sound, SpansFit
<1>9. Tracked(u) = Tracked(t)
  BY <1>1, <1>3, <1>6, RearrangedTracked
<1>10. LiveAre(u, live \cup {s})
  <2>1. DOMAIN u.table = 1..n /\ DOMAIN t.table = 1..n
    BY <1>1, <1>3, TableDomain
  <2> SUFFICES ASSUME NEW x \in Conversations
               PROVE  x \in live \cup {s} <=> \E j \in 1..n : u.table[j].session = x /\ ~u.table[j].closed
    BY <2>1 DEF LiveAre
  <2>2. CASE x = s
    BY <1>4, <1>5, <2>2
  <2>3. CASE x # s
    <3>1. x \in live <=> \E j \in 1..n : t.table[j].session = x /\ ~t.table[j].closed
      BY <2>1 DEF Sound, LiveAre
    <3>2. ASSUME NEW j \in 1..n, u.table[j].session = x /\ ~u.table[j].closed
          PROVE  \E k \in 1..n : t.table[k].session = x /\ ~t.table[k].closed
      <4>1. j # n
        BY <1>5, <2>3, <3>2
      <4>2. m[j] \in 1..n /\ u.table[j] = t.table[m[j]]
        BY <1>12, <4>1
      <4> QED
        BY <3>2, <4>2
    <3>3. ASSUME NEW k \in 1..n, t.table[k].session = x /\ ~t.table[k].closed
          PROVE  \E j \in 1..n : u.table[j].session = x /\ ~u.table[j].closed
      <4>1. k # i
        BY <1>2, <2>3, <3>3
      <4>2. CASE k < i
        <5>1. k \in 1..(n - 1) /\ u.table[k] = t.table[k]
          BY <1>2, <1>3, <1>4, <4>2
        <5> QED
          BY <3>3, <5>1
      <4>3. CASE k > i
        <5>1. k - 1 \in 1..(n - 1) /\ ~(k - 1 < i) /\ (k - 1) + 1 = k
          BY <1>2, <1>4, <4>3
        <5>2. u.table[k - 1] = t.table[k]
          BY <1>3, <5>1
        <5> QED
          BY <3>3, <5>1, <5>2
      <4> QED
        BY <1>2, <4>1, <4>2, <4>3
    <3> QED
      BY <2>3, <3>1, <3>2, <3>3
  <2> QED
    BY <2>2, <2>3
<1>11. Len(u.table) >= 1
  BY <1>3, <1>4
<1>13. Sound(u, live \cup {s}, rec, forg)
  BY <1>3, <1>7, <1>8, <1>10 DEF Sound
<1>14. s \in Tracked(t)
  BY <1>1, <1>2, TrackedSessions
<1>15. Tracked(u) = Tracked(t) \cup {s}
  BY <1>9, <1>14
<1>16. u.table[Len(u.table)].session = s
  BY <1>3, <1>5
<1> QED
  BY <1>3, <1>11, <1>13, <1>14, <1>15, <1>16 DEF Enters

\* A figure of the last entry, that is no count of the report.
LEMMA AbandonedInEntry ==
  ASSUME NEW live, NEW rec, NEW forg, NEW t, Sound(t, live, rec, forg), Len(t.table) >= 1
  PROVE  LET u == AddToLast(t, "total", "abandoned") IN
         /\ Sound(u, live, rec, forg)
         /\ u.spans = t.spans /\ u.figures = t.figures /\ Tracked(u) = Tracked(t)
<1> DEFINE u == AddToLast(t, "total", "abandoned")
           n == Len(t.table)
           m == [j \in 1..n |-> j]
<1>1. t \in Stores
  BY DEF Sound
<1>2. /\ u \in Stores /\ Len(u.table) = n
      /\ u.spans = t.spans /\ u.figures = t.figures
      /\ u.free = t.free /\ u.nextIndex = t.nextIndex
      /\ u.ring = t.ring /\ u.ringNext = t.ringNext /\ u.ringFilled = t.ringFilled
      /\ \A j \in 1..n :
           /\ u.table[j].session = t.table[j].session
           /\ u.table[j].index = t.table[j].index
           /\ u.table[j].closed = t.table[j].closed
           /\ \A l \in Legs : u.table[j].turns[l].count = t.table[j].turns[l].count + 0
  <2>1. Bumped(t, u, n, "total", "abandoned")
    BY <1>1, AddToLastFacts, LegNames
  <2> QED
    BY <2>1 DEF Bumped
<1> HIDE DEF u
<1>3. n \in Nat /\ DOMAIN u.table = 1..n /\ DOMAIN t.table = 1..n
  BY <1>1, <1>2, TableDomain
<1>4. \A j \in 1..n, l \in Legs : u.table[j].turns[l].count = t.table[j].turns[l].count
  <2>1. \A j \in 1..n, l \in Legs : t.table[j].turns[l].count \in Nat
    BY <1>1, TableDomain DEF Rows, Figures
  <2> QED
    BY <1>2, <2>1
<1>5. Rearranged(t, u, m)
  BY <1>2, <1>4 DEF Rearranged
<1>6. TableFits(u, rec, forg) /\ Tracked(u) = Tracked(t)
  BY <1>1, <1>2, <1>5, RearrangedFits, RearrangedTracked DEF Sound
<1>7. SpansFit(u, live)
  BY <1>2 DEF Sound, SpansFit
<1>8. LiveAre(u, live)
  BY <1>2, <1>3 DEF Sound, LiveAre
<1> QED
  BY <1>2, <1>6, <1>7, <1>8 DEF Sound, u

\* The figures are apart from the table.
LEMMA FiguresApart ==
  ASSUME NEW live, NEW rec, NEW forg, NEW t, Sound(t, live, rec, forg), NEW f \in [Names -> Figures]
  PROVE  LET u == [t EXCEPT !.figures = f] IN
         /\ Sound(u, live, rec, forg)
         /\ u.spans = t.spans /\ u.figures = f /\ u.table = t.table /\ Tracked(u) = Tracked(t)
<1> DEFINE u == [t EXCEPT !.figures = f]
<1>1. t \in Stores
  BY DEF Sound
<1>2. u \in Stores
  BY <1>1 DEF Stores
<1>3. /\ u.spans = t.spans /\ u.figures = f /\ u.table = t.table
      /\ u.free = t.free /\ u.nextIndex = t.nextIndex
      /\ u.ring = t.ring /\ u.ringNext = t.ringNext /\ u.ringFilled = t.ringFilled
  BY <1>1 DEF Stores
<1> HIDE DEF u
<1>4. Tracked(u) = Tracked(t)
  BY <1>3 DEF Tracked
<1>5. \A k : At(u, k) = At(t, k)
  BY <1>3 DEF At
<1>6. RingTrue(u, rec, forg)
  BY <1>3, <1>5 DEF Sound, TableFits, RingTrue, Tells
<1>7. SessionsApart(u) /\ IndexesApart(u)
  BY <1>3 DEF Sound, TableFits, SessionsApart, IndexesApart
<1>8. FiguresTrue(u, rec, forg) /\ OthersForgotten(u, rec, forg)
  BY <1>3 DEF Sound, TableFits, FiguresTrue, OthersForgotten
<1>9. SpansFit(u, live) /\ LiveAre(u, live)
  BY <1>3 DEF Sound, SpansFit, LiveAre
<1>10. TableSized(u)
  BY <1>3 DEF Sound, TableFits, TableSized
<1> QED
  BY <1>2, <1>3, <1>4, <1>6, <1>7, <1>8, <1>9, <1>10 DEF Sound, TableFits, u

\* Nothing of the table depends on the spans.
LEMMA SpansAside ==
  ASSUME NEW live, NEW rec, NEW forg, NEW t, Sound(t, live, rec, forg),
         NEW q \in Seq(Spans), NEW u, u = [t EXCEPT !.spans = q], SpansFit(u, live)
  PROVE  /\ Sound(u, live, rec, forg)
         /\ u.spans = q /\ u.figures = t.figures /\ u.table = t.table /\ Tracked(u) = Tracked(t)
<1>1. t \in Stores
  BY DEF Sound
<1>2. u \in Stores
  BY <1>1 DEF Stores
<1>3. /\ u.spans = q /\ u.figures = t.figures /\ u.table = t.table
      /\ u.free = t.free /\ u.nextIndex = t.nextIndex
      /\ u.ring = t.ring /\ u.ringNext = t.ringNext /\ u.ringFilled = t.ringFilled
  BY <1>1 DEF Stores
<1>4. SpansFit(u, live)
  OBVIOUS
<1>5. Tracked(u) = Tracked(t)
  BY <1>3 DEF Tracked
<1>6. \A k : At(u, k) = At(t, k)
  BY <1>3 DEF At
<1>7. RingTrue(u, rec, forg)
  BY <1>3, <1>6 DEF Sound, TableFits, RingTrue, Tells
<1>8. SessionsApart(u) /\ IndexesApart(u)
  BY <1>3 DEF Sound, TableFits, SessionsApart, IndexesApart
<1>9. FiguresTrue(u, rec, forg) /\ OthersForgotten(u, rec, forg)
  BY <1>3 DEF Sound, TableFits, FiguresTrue, OthersForgotten
<1>10. LiveAre(u, live)
  BY <1>3 DEF Sound, LiveAre
<1>11. TableSized(u)
  BY <1>3 DEF Sound, TableFits, TableSized
<1> QED
  BY <1>2, <1>3, <1>4, <1>5, <1>7, <1>8, <1>9, <1>10, <1>11 DEF Sound, TableFits

\* A span of nobody, or of a live session, is counted once as abandoned.
LEMMA AbandonFacts ==
  ASSUME NEW live, NEW rec, NEW forg, NEW t, Sound(t, live, rec, forg),
         live \subseteq Conversations, NEW span \in Spans, span.session \in live \cup {NoOne}
  PROVE  LET u == Abandon(t, span) IN
         /\ Sound(u, live, rec, forg)
         /\ u.spans = t.spans /\ Tracked(u) = Tracked(t)
         /\ u.figures = [t.figures EXCEPT ![span.name].abandoned = @ + 1]
<1> DEFINE f == [t.figures EXCEPT ![span.name].abandoned = @ + 1]
           c == [t EXCEPT !.figures = f]
           s == span.session
           u == Abandon(t, span)
<1>1. t \in Stores
  BY DEF Sound
<1>2. c = [t EXCEPT !.figures[span.name].abandoned = @ + 1]
  BY <1>1 DEF Stores
<1>3. f \in [Names -> Figures]
  <2>1. t.figures \in [Names -> Figures] /\ span.name \in Names
    BY <1>1, TableDomain DEF Spans
  <2>2. t.figures[span.name] \in Figures
    BY <2>1
  <2>3. [t.figures[span.name] EXCEPT !.abandoned = @ + 1] \in Figures
    BY <2>2 DEF Figures
  <2> QED
    BY <2>1, <2>3
<1> HIDE DEF f
<1>4. Sound(c, live, rec, forg) /\ c.spans = t.spans /\ c.figures = f /\ c.table = t.table /\ Tracked(c) = Tracked(t)
  BY <1>3, FiguresApart
<1>5. u = IF s = NoOne THEN c ELSE AddToLast(Interned(c, s), "total", "abandoned")
  BY <1>2 DEF Abandon
<1> HIDE DEF c
<1>6. CASE s = NoOne
  BY <1>4, <1>5, <1>6 DEF f
<1>7. CASE s # NoOne
  <2> DEFINE v == Interned(c, s)
  <2>1. s \in live /\ s \in Conversations
    BY <1>7
  <2>2. PlaceOf(c, s) # 0
    <3>1. \E i \in DOMAIN c.table : c.table[i].session = s
      BY <1>4, <2>1 DEF Sound, LiveAre
    <3>2. c \in Stores
      BY <1>4 DEF Sound
    <3> QED
      BY <3>1, <3>2, PlaceOfFact, TableDomain
  <2>3. live \cup {s} = live
    BY <2>1
  <2>6. Enters(c, v, s, live, rec, forg) /\ s \in Tracked(c)
    <3>1. Sound(c, live, rec, forg)
      BY <1>4
    <3>2. s \in Conversations /\ PlaceOf(c, s) # 0
      BY <2>1, <2>2
    <3>3. v = Interned(c, s)
      OBVIOUS
    <3> HIDE DEF s, v
    <3> QED
      BY <3>1, <3>2, <3>3, InternedKnown
  <2>4. /\ Sound(v, live, rec, forg) /\ v.spans = c.spans /\ v.figures = c.figures
        /\ Tracked(v) = Tracked(c) /\ Len(v.table) >= 1
    BY <2>3, <2>6 DEF Enters
  <2> HIDE DEF v
  <2>5. u = AddToLast(v, "total", "abandoned")
    BY <1>5, <1>7 DEF v
  <2> QED
    BY <1>4, <2>4, <2>5, AbandonedInEntry DEF f
<1> QED
  BY <1>6, <1>7

LEMMA SpanKinds ==
  ASSUME NEW span \in Spans
  PROVE  /\ span.key \in Keys /\ span.key[1] \in Kinds /\ span.name \in Names
         /\ span.session \in Conversations \cup {NoOne} /\ SpanFits(span)
         /\ span.turn \in Nat /\ span.delta \in Nat
<1>1. /\ span.key \in Keys /\ span.name \in Names /\ span.session \in Conversations \cup {NoOne}
      /\ SpanFits(span) /\ span.turn \in Nat /\ span.delta \in Nat
  BY DEF Spans
<1>2. \A key \in Keys : key[1] \in Kinds
  BY DEF Keys, Kinds
<1> QED
  BY <1>1, <1>2

LEMMA OpenIsNat ==
  ASSUME NEW t \in Stores, NEW kind
  PROVE  Open(t, kind) \in Nat
<1> DEFINE I == {i \in DOMAIN t.spans : t.spans[i].key[1] = kind}
<1>1. DOMAIN t.spans = 1..Len(t.spans) /\ Len(t.spans) \in Nat
  BY TableDomain
<1>2. I \subseteq 1..Len(t.spans)
  BY <1>1
<1>3. IsFiniteSet(1..Len(t.spans))
  BY <1>1, FS_Interval
<1>4. IsFiniteSet(I)
  BY <1>2, <1>3, FS_Subset
<1> HIDE DEF I
<1>5. Cardinality(I) \in Nat
  BY <1>4, FS_CardinalityType
<1> QED
  BY <1>5 DEF Open, I

LEMMA ToldIsNat ==
  ASSUME NEW t \in Stores, NEW name \in Names
  PROVE  Told(t, name) \in Nat /\ t.figures[name].count \in Nat /\ t.figures[name].abandoned \in Nat
<1>1. t.figures[name] \in Figures
  BY TableDomain
<1> QED
  BY <1>1 DEF Figures, Told

\* A span is taken out.
LEMMA WithoutFacts ==
  ASSUME NEW live, NEW rec, NEW forg, NEW t, Sound(t, live, rec, forg),
         NEW i \in 1..Len(t.spans), NEW u, u = Without(t, i)
  PROVE  /\ Sound(u, live, rec, forg)
         /\ u.figures = t.figures /\ u.table = t.table /\ Tracked(u) = Tracked(t)
         /\ Len(u.spans) = Len(t.spans) - 1
         /\ NoneUnder(u, t.spans[i].key)
         /\ \A key : NoneUnder(t, key) => NoneUnder(u, key)
         /\ \A kind : Open(t, kind) = Open(u, kind) + (IF t.spans[i].key[1] = kind THEN 1 ELSE 0)
<1> DEFINE q == RemoveAt(t.spans, i)
           n == Len(t.spans)
<1>1. t \in Stores
  BY DEF Sound
<1>2. t.spans \in Seq(Spans) /\ DOMAIN t.spans = 1..n /\ n \in Nat
  BY <1>1, TableDomain
<1>3. q \in Seq(Spans) /\ Len(q) = n - 1 /\ \A k \in 1..(n - 1) : q[k] = IF k < i THEN t.spans[k] ELSE t.spans[k + 1]
  BY <1>2, RemoveAtFacts
<1>4. u = [t EXCEPT !.spans = q]
  BY DEF Without
<1>5. u.spans = q
  BY <1>1, <1>4 DEF Stores
<1> HIDE DEF q
<1>6. DOMAIN q = 1..(n - 1)
  BY <1>3
<1>7. \A k \in 1..(n - 1) : \E j \in 1..n : j # i /\ q[k] = t.spans[j]
  <2> TAKE k \in 1..(n - 1)
  <2>1. CASE k < i
    BY <1>2, <1>3, <2>1
  <2>2. CASE ~(k < i)
    <3>1. k + 1 \in 1..n /\ k + 1 # i /\ q[k] = t.spans[k + 1]
      BY <1>2, <1>3, <2>2
    <3> QED
      BY <3>1
  <2> QED
    BY <2>1, <2>2
<1>8. \A j, k \in 1..n : t.spans[j].key = t.spans[k].key => j = k
  BY <1>2 DEF Sound, SpansFit
<1>9. NoneUnder(u, t.spans[i].key)
  BY <1>5, <1>6, <1>7, <1>8 DEF NoneUnder
<1>10. \A j, k \in 1..(n - 1) : q[j].key = q[k].key => j = k
  <2> SUFFICES ASSUME NEW j \in 1..(n - 1), NEW k \in 1..(n - 1), q[j].key = q[k].key PROVE j = k
    OBVIOUS
  <2> DEFINE a == IF j < i THEN j ELSE j + 1
             b == IF k < i THEN k ELSE k + 1
  <2>1. a \in 1..n /\ b \in 1..n /\ (a = b => j = k)
    BY <1>2
  <2>2. q[j] = t.spans[a] /\ q[k] = t.spans[b]
    BY <1>3
  <2> HIDE DEF a, b
  <2> QED
    BY <1>8, <2>1, <2>2
<1>11. \A k \in 1..(n - 1) : q[k].session \in live \cup {NoOne}
  BY <1>2, <1>7 DEF Sound, SpansFit
<1>12. SpansFit(u, live)
  <2>1. Len(q) = n - 1 /\ n <= MaxOpenSpans /\ n \in Nat
    BY <1>2, <1>3 DEF Sound, SpansFit
  <2>2. Len(u.spans) <= MaxOpenSpans
    BY <1>5, <2>1, TimingsAssumption
  <2> QED
    BY <1>5, <1>6, <1>10, <1>11, <2>2 DEF SpansFit
<1>13. /\ Sound(u, live, rec, forg)
       /\ u.figures = t.figures /\ u.table = t.table /\ Tracked(u) = Tracked(t)
  BY <1>3, <1>4, <1>12, SpansAside
<1>14. ASSUME NEW kind
       PROVE  Open(t, kind) = Open(u, kind) + (IF t.spans[i].key[1] = kind THEN 1 ELSE 0)
  <2> DEFINE K == {x \in Spans : x.key[1] = kind}
  <2>1. {j \in DOMAIN t.spans : t.spans[j].key[1] = kind} = {j \in DOMAIN t.spans : t.spans[j] \in K}
    BY <1>2
  <2>2. {j \in DOMAIN q : q[j].key[1] = kind} = {j \in DOMAIN q : q[j] \in K}
    BY <1>3, <1>6
  <2>3. t.spans[i] \in K <=> t.spans[i].key[1] = kind
    BY <1>2
  <2> HIDE DEF K
  <2>4. /\ t.spans[i] \in K => HowMany(t.spans, K) = HowMany(q, K) + 1
        /\ t.spans[i] \notin K => HowMany(t.spans, K) = HowMany(q, K)
        /\ HowMany(q, K) \in Nat
    BY <1>2, CountLess DEF q
  <2>5. Open(u, kind) = HowMany(q, K) /\ Open(t, kind) = HowMany(t.spans, K)
    BY <1>5, <2>1, <2>2 DEF Open, HowMany
  <2> QED
    BY <2>3, <2>4, <2>5
<1>15. ASSUME NEW key, NoneUnder(t, key)
       PROVE  NoneUnder(u, key)
  <2>1. \A j \in 1..n : t.spans[j].key # key
    BY <1>2, <1>15 DEF NoneUnder
  <2>2. \A k \in 1..(n - 1) : q[k].key # key
    BY <1>7, <2>1
  <2> QED
    BY <1>5, <1>6, <2>2 DEF NoneUnder
<1>16. Len(u.spans) = Len(t.spans) - 1
  BY <1>3, <1>5
<1> QED
  BY <1>9, <1>13, <1>14, <1>15, <1>16

\* One more abandoned.
LEMMA OneMoreAbandoned ==
  ASSUME NEW t \in Stores, NEW u \in Stores, NEW name \in Names,
         u.figures = [t.figures EXCEPT ![name].abandoned = @ + 1]
  PROVE  \A n \in Names : Told(u, n) = Told(t, n) + (IF n = name THEN 1 ELSE 0)
<1> TAKE n \in Names
<1>1. t.figures \in [Names -> Figures]
  BY TableDomain
<1>2. CASE n = name
  <2>1. u.figures[n] = [t.figures[n] EXCEPT !.abandoned = @ + 1] /\ t.figures[n] \in Figures
    BY <1>1, <1>2
  <2>2. u.figures[n].count = t.figures[n].count /\ u.figures[n].abandoned = t.figures[n].abandoned + 1
    BY <2>1 DEF Figures
  <2> QED
    BY <1>2, <2>2, ToldIsNat DEF Told
<1>3. CASE n # name
  <2>1. u.figures[n] = t.figures[n]
    BY <1>1, <1>3
  <2> QED
    BY <1>3, <2>1, ToldIsNat DEF Told
<1> QED
  BY <1>2, <1>3

\* The names that are told of a kind.
TellsOf(kind) ==
  CASE kind = "turn" -> {"total"} [] kind = "tool" -> {"tool"} [] kind = "command" -> {"command", "unknown"}

\* A span that is told of when it is taken out changes no balance.
LEMMA StillBalanced ==
  ASSUME NEW t \in Stores, NEW u \in Stores, NEW b, Balanced(t, b),
         NEW span \in Spans,
         \A n \in {"total", "tool", "command", "unknown"} : Told(u, n) = Told(t, n) + (IF n = span.name THEN 1 ELSE 0),
         \A kind : Open(t, kind) = Open(u, kind) + (IF span.key[1] = kind THEN 1 ELSE 0)
  PROVE  Balanced(u, b)
<1>1. span.key[1] \in Kinds /\ SpanFits(span)
  BY SpanKinds
<1>2. \A n \in {"total", "tool", "command", "unknown"} : n \in Names /\ Told(t, n) \in Nat
  BY ToldIsNat DEF Names, Legs
<1>3. \A kind : Open(u, kind) \in Nat
  BY OpenIsNat
<1>4. /\ Told(u, "total") = Told(t, "total") + (IF "total" = span.name THEN 1 ELSE 0)
      /\ Told(u, "tool") = Told(t, "tool") + (IF "tool" = span.name THEN 1 ELSE 0)
      /\ Told(u, "command") = Told(t, "command") + (IF "command" = span.name THEN 1 ELSE 0)
      /\ Told(u, "unknown") = Told(t, "unknown") + (IF "unknown" = span.name THEN 1 ELSE 0)
  BY <1>2
<1>5. /\ Open(t, "turn") = Open(u, "turn") + (IF span.key[1] = "turn" THEN 1 ELSE 0)
      /\ Open(t, "tool") = Open(u, "tool") + (IF span.key[1] = "tool" THEN 1 ELSE 0)
      /\ Open(t, "command") = Open(u, "command") + (IF span.key[1] = "command" THEN 1 ELSE 0)
  OBVIOUS
<1>6. CASE span.key[1] = "turn"
  <2>1. span.name = "total"
    BY <1>1, <1>6 DEF SpanFits
  <2> QED
    BY <1>2, <1>3, <1>4, <1>5, <1>6, <2>1 DEF Balanced
<1>7. CASE span.key[1] = "tool"
  <2>1. span.name = "tool"
    BY <1>1, <1>7 DEF SpanFits
  <2> QED
    BY <1>2, <1>3, <1>4, <1>5, <1>7, <2>1 DEF Balanced
<1>8. CASE span.key[1] = "command"
  <2>1. span.name \in {"command", "unknown"}
    BY <1>1, <1>8 DEF SpanFits
  <2> QED
    BY <1>2, <1>3, <1>4, <1>5, <1>8, <2>1 DEF Balanced
<1> QED
  BY <1>1, <1>6, <1>7, <1>8 DEF Kinds

LEMMA DiscardedFacts ==
  ASSUME NEW live, NEW rec, NEW forg, NEW t, Sound(t, live, rec, forg), live \subseteq Conversations,
         NEW i \in 1..Len(t.spans), NEW u, u = Discarded(t, i)
  PROVE  /\ Sound(u, live, rec, forg) /\ Tracked(u) = Tracked(t)
         /\ NoneUnder(u, t.spans[i].key) /\ Len(u.spans) = Len(t.spans) - 1
         /\ \A key : NoneUnder(t, key) => NoneUnder(u, key)
         /\ \A b : Balanced(t, b) => Balanced(u, b)
<1> DEFINE span == t.spans[i]
           v == Abandon(t, span)
<1>1. t \in Stores /\ DOMAIN t.spans = 1..Len(t.spans) /\ span \in Spans
  BY TableDomain DEF Sound
<1>2. span.session \in live \cup {NoOne}
  BY <1>1 DEF Sound, SpansFit
<1>3. v.figures = [t.figures EXCEPT ![span.name].abandoned = @ + 1] /\ Sound(v, live, rec, forg)
      /\ v.spans = t.spans /\ Tracked(v) = Tracked(t)
  BY <1>1, <1>2, AbandonFacts
<1>4. u = Without(v, i)
  BY DEF Discarded
<1>5. v.spans[i] = span
  BY <1>3
<1> HIDE DEF v, span
<1>6. i \in 1..Len(v.spans)
  BY <1>3
<1>12. /\ Sound(u, live, rec, forg) /\ u.figures = v.figures /\ Tracked(u) = Tracked(v)
       /\ NoneUnder(u, v.spans[i].key)
       /\ \A key : NoneUnder(v, key) => NoneUnder(u, key)
  <2>1. Sound(v, live, rec, forg)
    BY <1>3
  <2>2. Sound(u, live, rec, forg) /\ u.figures = v.figures /\ Tracked(u) = Tracked(v)
    BY <1>4, <1>6, <2>1, WithoutFacts
  <2>3. NoneUnder(u, v.spans[i].key)
    BY <1>4, <1>6, <2>1, WithoutFacts
  <2>4. \A key : NoneUnder(v, key) => NoneUnder(u, key)
    BY <1>4, <1>6, <2>1, WithoutFacts
  <2> QED
    BY <2>2, <2>3, <2>4
<1>13. \A kind : Open(v, kind) = Open(u, kind) + (IF v.spans[i].key[1] = kind THEN 1 ELSE 0)
  BY <1>3, <1>4, <1>6, WithoutFacts
<1>7. /\ Sound(u, live, rec, forg) /\ u.figures = v.figures /\ Tracked(u) = Tracked(v)
      /\ NoneUnder(u, span.key)
      /\ \A key : NoneUnder(v, key) => NoneUnder(u, key)
      /\ \A kind : Open(v, kind) = Open(u, kind) + (IF span.key[1] = kind THEN 1 ELSE 0)
  BY <1>5, <1>12, <1>13
<1>8. u \in Stores /\ v \in Stores
  BY <1>3, <1>7 DEF Sound
<1>9. \A n \in Names : Told(u, n) = Told(t, n) + (IF n = span.name THEN 1 ELSE 0)
  <2>1. u.figures = [t.figures EXCEPT ![span.name].abandoned = @ + 1] /\ span.name \in Names
    BY <1>1, <1>3, <1>7, SpanKinds
  <2> QED
    BY <1>1, <1>8, <2>1, OneMoreAbandoned
<1>10. \A kind : Open(t, kind) = Open(u, kind) + (IF span.key[1] = kind THEN 1 ELSE 0)
  <2>1. \A kind : Open(t, kind) = Open(v, kind)
    BY <1>3 DEF Open
  <2> QED
    BY <1>7, <2>1
<1>16. \A n \in {"total", "tool", "command", "unknown"} : Told(u, n) = Told(t, n) + (IF n = span.name THEN 1 ELSE 0)
  BY <1>9 DEF Names, Legs
<1>11. \A b : Balanced(t, b) => Balanced(u, b)
  BY <1>1, <1>8, <1>10, <1>16, StillBalanced
<1>14. \A key : NoneUnder(t, key) => NoneUnder(u, key)
  <2>1. \A key : NoneUnder(t, key) => NoneUnder(v, key)
    BY <1>3 DEF NoneUnder
  <2> QED
    BY <1>7, <2>1
<1>15. NoneUnder(u, t.spans[i].key)
  BY <1>7 DEF span
<1>17. Len(u.spans) = Len(t.spans) - 1
  <2>1. Sound(v, live, rec, forg) /\ Len(v.spans) = Len(t.spans)
    BY <1>3
  <2>2. Len(u.spans) = Len(v.spans) - 1
    BY <1>4, <1>6, <2>1, WithoutFacts
  <2> QED
    BY <2>1, <2>2
<1> QED
  BY <1>3, <1>7, <1>11, <1>14, <1>15, <1>17

\* A span opens under a key that nothing else is open under.
HasRoom(t) == Len(t.spans) < MaxOpenSpans

LEMMA AppendedFacts ==
  ASSUME NEW live, NEW rec, NEW forg, NEW t, Sound(t, live, rec, forg), live \subseteq Conversations,
         NEW span \in Spans, span.session \in live \cup {NoOne},
         NoneUnder(t, span.key), HasRoom(t),
         NEW u, u = [t EXCEPT !.spans = Append(@, span)]
  PROVE  /\ Sound(u, live, rec, forg) /\ Tracked(u) = Tracked(t) /\ u.figures = t.figures
         /\ Len(u.spans) \in DOMAIN u.spans /\ u.spans[Len(u.spans)] = span
         /\ \A kind : Open(u, kind) = Open(t, kind) + (IF span.key[1] = kind THEN 1 ELSE 0)
<1> DEFINE q == Append(t.spans, span)
           n == Len(t.spans)
<1>1. t \in Stores
  BY DEF Sound
<1>2. t.spans \in Seq(Spans) /\ DOMAIN t.spans = 1..n /\ n \in Nat
  BY <1>1, TableDomain
<1>3. /\ q \in Seq(Spans) /\ Len(q) = n + 1 /\ DOMAIN q = 1..(n + 1) /\ q[n + 1] = span
      /\ \A j \in 1..n : q[j] = t.spans[j]
  BY <1>2
<1>4. u = [t EXCEPT !.spans = q]
  OBVIOUS
<1>5. u.spans = q
  BY <1>1, <1>4 DEF Stores
<1>6. \A kind : Open(u, kind) = Open(t, kind) + (IF span.key[1] = kind THEN 1 ELSE 0)
  <2> TAKE kind
  <2> DEFINE K == {x \in Spans : x.key[1] = kind}
  <2>1. {j \in DOMAIN t.spans : t.spans[j].key[1] = kind} = {j \in DOMAIN t.spans : t.spans[j] \in K}
    BY <1>2
  <2> HIDE DEF q
  <2>2. {j \in DOMAIN q : q[j].key[1] = kind} = {j \in DOMAIN q : q[j] \in K}
    BY <1>3
  <2>3. span \in K <=> span.key[1] = kind
    OBVIOUS
  <2> HIDE DEF K
  <2>4. /\ span \in K => HowMany(q, K) = HowMany(t.spans, K) + 1
        /\ span \notin K => HowMany(q, K) = HowMany(t.spans, K)
        /\ HowMany(t.spans, K) \in Nat
    BY <1>2, CountMore DEF q
  <2>5. Open(u, kind) = HowMany(q, K) /\ Open(t, kind) = HowMany(t.spans, K)
    BY <1>5, <2>1, <2>2 DEF Open, HowMany
  <2> QED
    BY <2>3, <2>4, <2>5
<1> HIDE DEF q
<1>7. \A i, j \in 1..(n + 1) : q[i].key = q[j].key => i = j
  <2> SUFFICES ASSUME NEW i \in 1..(n + 1), NEW j \in 1..(n + 1), q[i].key = q[j].key PROVE i = j
    OBVIOUS
  <2>1. CASE i = n + 1 /\ j = n + 1
    BY <2>1
  <2>2. CASE i = n + 1 /\ j # n + 1
    <3>1. j \in 1..n
      BY <1>2, <2>2
    <3> QED
      BY <1>2, <1>3, <2>2, <3>1 DEF NoneUnder
  <2>3. CASE i # n + 1 /\ j = n + 1
    <3>1. i \in 1..n
      BY <1>2, <2>3
    <3> QED
      BY <1>2, <1>3, <2>3, <3>1 DEF NoneUnder
  <2>4. CASE i # n + 1 /\ j # n + 1
    <3>1. i \in 1..n /\ j \in 1..n
      BY <1>2, <2>4
    <3>2. q[i] = t.spans[i] /\ q[j] = t.spans[j]
      BY <1>3, <3>1
    <3>3. \A k, l \in 1..n : t.spans[k].key = t.spans[l].key => k = l
      BY <1>2 DEF Sound, SpansFit
    <3> QED
      BY <3>1, <3>2, <3>3
  <2> QED
    BY <2>1, <2>2, <2>3, <2>4
<1>8. \A j \in 1..(n + 1) : q[j].session \in live \cup {NoOne}
  <2> TAKE j \in 1..(n + 1)
  <2>1. CASE j = n + 1
    BY <1>3, <2>1
  <2>2. CASE j # n + 1
    <3>1. j \in 1..n
      BY <1>2, <2>2
    <3> QED
      BY <1>2, <1>3, <3>1 DEF Sound, SpansFit
  <2> QED
    BY <2>1, <2>2
<1>9. SpansFit(u, live)
  <2>1. Len(q) = n + 1 /\ n < MaxOpenSpans /\ n \in Nat
    BY <1>2, <1>3 DEF HasRoom
  <2>2. Len(u.spans) <= MaxOpenSpans
    BY <1>5, <2>1, TimingsAssumption
  <2> QED
    BY <1>3, <1>5, <1>7, <1>8, <2>2 DEF SpansFit
<1>10. Sound(u, live, rec, forg) /\ Tracked(u) = Tracked(t) /\ u.figures = t.figures
  BY <1>3, <1>4, <1>9, SpansAside
<1>11. Len(u.spans) \in DOMAIN u.spans /\ u.spans[Len(u.spans)] = span
  BY <1>2, <1>3, <1>5
<1> QED
  BY <1>6, <1>10, <1>11

\* From t to u, the span is opened.
Opens(t, u, span, live, rec, forg, b) ==
  /\ StoreTrue(u, live, rec, forg, b) /\ Tracked(u) = Tracked(t)
  /\ Len(u.spans) \in DOMAIN u.spans /\ u.spans[Len(u.spans)] = span

\* Whatever begins is one more of its kind.
LEMMA BeginFacts ==
  ASSUME NEW live, NEW rec, NEW forg, NEW b, NEW t, StoreTrue(t, live, rec, forg, b),
         b \in [Kinds -> Nat], live \subseteq Conversations,
         NEW span \in Spans, span.session \in live \cup {NoOne}, NEW u, u = Begin(t, span)
  PROVE  Opens(t, u, span, live, rec, forg, [b EXCEPT ![span.key[1]] = @ + 1])
<1> DEFINE i == OpenUnder(t, span.key)
           t1 == IF i = 0 THEN t ELSE Discarded(t, i)
           t2 == IF Len(t1.spans) < MaxOpenSpans THEN t1 ELSE Discarded(t1, 1)
<1>1. Sound(t, live, rec, forg) /\ Balanced(t, b) /\ t \in Stores
  BY DEF StoreTrue, Sound
<1>2. u = [t2 EXCEPT !.spans = Append(@, span)]
  BY DEF Begin
<1>3. /\ Sound(t1, live, rec, forg) /\ Balanced(t1, b) /\ Tracked(t1) = Tracked(t)
      /\ NoneUnder(t1, span.key)
  <2>1. CASE i = 0
    BY <1>1, <2>1, OpenUnderFact, TableDomain DEF NoneUnder
  <2>2. CASE i # 0
    <3>1. i \in 1..Len(t.spans) /\ t.spans[i].key = span.key
      BY <1>1, <2>2, OpenUnderFact
    <3>2. t1 = Discarded(t, i)
      BY <2>2
    <3> HIDE DEF i, t1
    <3> QED
      BY <1>1, <3>1, <3>2, DiscardedFacts
  <2> QED
    BY <2>1, <2>2
<1> HIDE DEF t1
<1>4. /\ Sound(t2, live, rec, forg) /\ Balanced(t2, b) /\ Tracked(t2) = Tracked(t)
      /\ NoneUnder(t2, span.key) /\ HasRoom(t2)
  <2>1. CASE Len(t1.spans) < MaxOpenSpans
    BY <1>3, <2>1 DEF HasRoom
  <2>2. CASE ~(Len(t1.spans) < MaxOpenSpans)
    <3>1. Len(t1.spans) \in Nat
      BY <1>3, TableDomain DEF Sound
    <3>2. 1 \in 1..Len(t1.spans)
      BY <2>2, <3>1, TimingsAssumption
    <3>3. t2 = Discarded(t1, 1)
      BY <2>2
    <3> HIDE DEF t2
    <3>4. Sound(t2, live, rec, forg) /\ Tracked(t2) = Tracked(t1)
      BY <1>3, <3>2, <3>3, DiscardedFacts
    <3>5. \A key : NoneUnder(t1, key) => NoneUnder(t2, key)
      BY <1>3, <3>2, <3>3, DiscardedFacts
    <3>6. \A c : Balanced(t1, c) => Balanced(t2, c)
      BY <1>3, <3>2, <3>3, DiscardedFacts
    <3>7. Len(t2.spans) = Len(t1.spans) - 1
      BY <1>3, <3>2, <3>3, DiscardedFacts
    <3>8. Len(t1.spans) <= MaxOpenSpans
      BY <1>3 DEF Sound, SpansFit
    <3>9. Len(t2.spans) < MaxOpenSpans
      BY <3>1, <3>7, <3>8, TimingsAssumption
    <3> QED
      BY <1>3, <3>4, <3>5, <3>6, <3>9 DEF HasRoom
  <2> QED
    BY <2>1, <2>2
<1> HIDE DEF t2
<1>5. /\ Sound(u, live, rec, forg) /\ Tracked(u) = Tracked(t2) /\ u.figures = t2.figures
      /\ Len(u.spans) \in DOMAIN u.spans /\ u.spans[Len(u.spans)] = span
      /\ \A kind : Open(u, kind) = Open(t2, kind) + (IF span.key[1] = kind THEN 1 ELSE 0)
  <2>4. Sound(t2, live, rec, forg) /\ NoneUnder(t2, span.key) /\ HasRoom(t2)
    BY <1>4
  <2>1. Sound(u, live, rec, forg) /\ Tracked(u) = Tracked(t2) /\ u.figures = t2.figures
    BY <1>2, <2>4, AppendedFacts
  <2>2. Len(u.spans) \in DOMAIN u.spans /\ u.spans[Len(u.spans)] = span
    BY <1>2, <2>4, AppendedFacts
  <2>3. \A kind : Open(u, kind) = Open(t2, kind) + (IF span.key[1] = kind THEN 1 ELSE 0)
    BY <1>2, <2>4, AppendedFacts
  <2> QED
    BY <2>1, <2>2, <2>3
<1>6. Balanced(u, [b EXCEPT ![span.key[1]] = @ + 1])
  <2> DEFINE c == [b EXCEPT ![span.key[1]] = @ + 1]
  <2>1. t2 \in Stores /\ span.key[1] \in Kinds
    BY <1>4, SpanKinds DEF Sound
  <2>2. \A n : Told(u, n) = Told(t2, n)
    BY <1>5 DEF Told
  <2>3. \A kind : Open(t2, kind) \in Nat
    BY <2>1, OpenIsNat
  <2>4. \A n \in {"total", "tool", "command", "unknown"} : Told(t2, n) \in Nat
    BY <2>1, ToldIsNat DEF Names, Legs
  <2>5. \A kind \in Kinds : c[kind] = b[kind] + (IF span.key[1] = kind THEN 1 ELSE 0)
    BY <2>1
  <2> HIDE DEF c
  <2>6. c["turn"] = Told(t2, "total") + Open(u, "turn")
    BY <1>4, <1>5, <2>3, <2>4, <2>5 DEF Balanced, Kinds
  <2>7. c["tool"] = Told(t2, "tool") + Open(u, "tool")
    BY <1>4, <1>5, <2>3, <2>4, <2>5 DEF Balanced, Kinds
  <2>8. c["command"] = Told(t2, "command") + Told(t2, "unknown") + Open(u, "command")
    BY <1>4, <1>5, <2>3, <2>4, <2>5 DEF Balanced, Kinds
  <2>9. Balanced(u, c)
    BY <2>2, <2>6, <2>7, <2>8 DEF Balanced
  <2> QED
    BY <2>9 DEF c
<1> QED
  BY <1>4, <1>5, <1>6 DEF StoreTrue, Sound, Opens

-----------------------------------------------------------------------------
(* Forgetting one session and admitting another. *)

LEMMA RingPlaces ==
  ASSUME NEW t \in Stores, NEW rec, NEW forg, RingTrue(t, rec, forg), Len(rec) \in Nat,
         NEW k \in 1..t.ringFilled
  PROVE  /\ At(t, k) \in 0..Capacity - 1 /\ t.ring[At(t, k)] \in RingSlots
         /\ Len(rec) - t.ringFilled + k \in 1..Len(rec)
<1>1. /\ t.ringFilled \in 0..Capacity /\ t.ringNext \in 0..Capacity - 1
      /\ t.ring \in [0..Capacity - 1 -> RingSlots]
  BY TableDomain
<1>2. Capacity \in Nat /\ Capacity >= 1
  BY TimingsAssumption
<1>3. At(t, k) \in 0..Capacity - 1
  BY <1>1, <1>2 DEF At
<1>4. t.ringFilled <= Len(rec)
  BY DEF RingTrue
<1>5. Len(rec) - t.ringFilled + k \in 1..Len(rec)
  BY <1>1, <1>2, <1>4
<1>6. t.ring[At(t, k)] \in RingSlots
  BY <1>1, <1>3
<1> QED
  BY <1>3, <1>5, <1>6

\* From t to u, v loses its entry.
Leaves(t, u, v, live, rec, g) ==
  /\ Sound(u, live, rec, g) /\ u.spans = t.spans /\ u.figures = t.figures
  /\ v \in Tracked(t) /\ Tracked(u) = Tracked(t) \ {v} /\ Len(u.table) < Len(t.table)

\* One entry less and one free index more.
LEMMA OneMoreFree ==
  ASSUME NEW n \in Nat, NEW l \in Nat, NEW max \in Nat, n <= max
  PROVE  n - 1 < n /\ n - 1 <= max /\ n + l + 1 = (n - 1) + (l + 1) + 1
  OBVIOUS

\* One entry more, and a free index less or a new one.
LEMMA OneMoreUsed ==
  ASSUME NEW n \in Nat, NEW l \in Nat, NEW k \in Nat, NEW next \in Nat, next + l = n + l + 1 + k + 1
  PROVE  next = (n + 1) + k + 1
  OBVIOUS

\* The session whose entry goes is forgotten, and nobody else is.
LEMMA ForgetOneFacts ==
  ASSUME NEW live, NEW rec, NEW forg, Histories(rec, forg),
         NEW t, Sound(t, live, rec, forg), \E i \in DOMAIN t.table : t.table[i].closed,
         NEW u, u = ForgetOne(t), NEW v, v = t.table[Victim(t)].session,
         NEW g, g = [forg EXCEPT ![v] = Len(rec)]
  PROVE  Leaves(t, u, v, live, rec, g)
<1> DEFINE n == Len(t.table)
           C == {i \in DOMAIN t.table : t.table[i].closed}
           p == Victim(t)
           e == t.table[p]
           q == RemoveAt(t.table, p)
           f == <<e.index>> \o t.free
           r == [i \in DOMAIN t.ring |-> IF t.ring[i].index = e.index THEN [t.ring[i] EXCEPT !.index = 0] ELSE t.ring[i]]
<1>1. t \in Stores
  BY DEF Sound
<1> USE DEF Histories
<1>2. /\ t.table \in Seq(Rows) /\ DOMAIN t.table = 1..n /\ n \in Nat
      /\ \A i \in 1..n : t.table[i] \in Rows
      /\ t.free \in Seq(Nat \ {0}) /\ t.ring \in [0..Capacity - 1 -> RingSlots]
  BY <1>1, TableDomain
<1>3. p \in 1..n /\ e.closed
  <2>1. C # {} /\ C \subseteq Nat
    BY <1>2
  <2>2. p = Min(C)
    BY <2>1 DEF Victim
  <2>3. p \in C
    BY <2>1, <2>2, LeastIsThere
  <2> QED
    BY <1>2, <2>3
<1> HIDE DEF p, C
<1>4. e \in Rows /\ v = e.session /\ v \in Conversations /\ e.index \in Nat \ {0}
  <2>1. e \in Rows /\ v = e.session
    BY <1>2, <1>3 DEF p
  <2> QED
    BY <2>1 DEF Rows
<1>5. q \in Seq(Rows) /\ Len(q) = n - 1 /\ \A k \in 1..(n - 1) : q[k] = IF k < p THEN t.table[k] ELSE t.table[k + 1]
  BY <1>2, <1>3, RemoveAtFacts
<1>6. /\ f \in Seq(Nat \ {0}) /\ Len(f) = Len(t.free) + 1 /\ f[1] = e.index
      /\ \A k \in 1..Len(t.free) : f[k + 1] = t.free[k]
  BY <1>2, <1>4
<1>7. r \in [0..Capacity - 1 -> RingSlots]
  <2>1. \A i \in 0..Capacity - 1 : t.ring[i] \in RingSlots
    BY <1>2
  <2>2. \A x \in RingSlots : [x EXCEPT !.index = 0] \in RingSlots
    BY DEF RingSlots
  <2> QED
    BY <1>2, <2>1, <2>2
<1>8. u = [t EXCEPT !.table = q, !.free = f, !.ring = r]
  BY DEF ForgetOne, p
<1> HIDE DEF q, f, r, e
<1>9. u \in Stores
  BY <1>1, <1>5, <1>6, <1>7, <1>8 DEF Stores
<1>10. /\ u.table = q /\ u.free = f /\ u.ring = r /\ u.spans = t.spans /\ u.figures = t.figures
       /\ u.nextIndex = t.nextIndex /\ u.ringNext = t.ringNext /\ u.ringFilled = t.ringFilled
  BY <1>1, <1>8 DEF Stores
<1>11. DOMAIN q = 1..(n - 1) /\ DOMAIN f = 1..(Len(t.free) + 1) /\ DOMAIN t.free = 1..Len(t.free) /\ Len(t.free) \in Nat
  BY <1>2, <1>5, <1>6
\* Where an entry that is left was.
<1> DEFINE m(k) == IF k < p THEN k ELSE k + 1
<1>12. \A k \in 1..(n - 1) : m(k) \in 1..n /\ m(k) # p /\ q[k] = t.table[m(k)]
  <2> TAKE k \in 1..(n - 1)
  <2>1. CASE k < p
    BY <1>2, <1>3, <1>5, <2>1
  <2>2. CASE ~(k < p)
    <3>1. m(k) = k + 1 /\ k + 1 \in 1..n /\ k + 1 # p
      BY <1>2, <1>3, <2>2
    <3> QED
      BY <1>5, <2>2, <3>1
  <2> QED
    BY <2>1, <2>2
<1>13. \A k, l \in 1..(n - 1) : m(k) = m(l) => k = l
  BY <1>2, <1>3
<1>14. \A i \in 1..n : i # p => \E k \in 1..(n - 1) : m(k) = i
  <2> TAKE i \in 1..n
  <2> HAVE i # p
  <2>1. CASE i < p
    <3>1. i \in 1..(n - 1) /\ m(i) = i
      BY <1>2, <1>3, <2>1
    <3> QED
      BY <3>1
  <2>2. CASE i > p
    <3>1. i - 1 \in 1..(n - 1) /\ m(i - 1) = i
      BY <1>2, <1>3, <2>2
    <3> QED
      BY <3>1
  <2> QED
    BY <1>3, <2>1, <2>2
<1> HIDE DEF m
<1>15. SessionsApart(t) /\ IndexesApart(t) /\ FiguresTrue(t, rec, forg) /\ OthersForgotten(t, rec, forg)
       /\ RingTrue(t, rec, forg) /\ SpansFit(t, live) /\ LiveAre(t, live)
  BY DEF Sound, TableFits
<1>16. \A i \in 1..n : i # p => t.table[i].session # v /\ t.table[i].index # e.index
  BY <1>2, <1>3, <1>4, <1>15 DEF SessionsApart, IndexesApart, e
<1>17. \A i \in 1..n : i # p => \E k \in 1..(n - 1) : q[k] = t.table[i]
  BY <1>12, <1>14
<1>18. SessionsApart(u)
  <2>1. \A k, l \in 1..(n - 1) : q[k].session = q[l].session => k = l
    <3>1. \A i, j \in 1..n : t.table[i].session = t.table[j].session => i = j
      BY <1>2, <1>15 DEF SessionsApart
    <3> TAKE k, l \in 1..(n - 1)
    <3>2. m(k) \in 1..n /\ q[k] = t.table[m(k)] /\ m(l) \in 1..n /\ q[l] = t.table[m(l)]
      BY <1>12
    <3>3. t.table[m(k)].session = t.table[m(l)].session => m(k) = m(l)
      BY <3>1, <3>2
    <3> QED
      BY <1>13, <3>2, <3>3
  <2> QED
    BY <1>10, <1>11, <2>1 DEF SessionsApart
<1>19. IndexesApart(u)
  <2>1. \A k, l \in 1..(n - 1) : q[k].index = q[l].index => k = l
    <3>1. \A i, j \in 1..n : t.table[i].index = t.table[j].index => i = j
      BY <1>2, <1>15 DEF IndexesApart
    <3> TAKE k, l \in 1..(n - 1)
    <3>2. m(k) \in 1..n /\ q[k] = t.table[m(k)] /\ m(l) \in 1..n /\ q[l] = t.table[m(l)]
      BY <1>12
    <3>3. t.table[m(k)].index = t.table[m(l)].index => m(k) = m(l)
      BY <3>1, <3>2
    <3> QED
      BY <1>13, <3>2, <3>3
  <2>2. \A k \in 1..(n - 1) : q[k].index < t.nextIndex /\ q[k].index # e.index
    BY <1>2, <1>12, <1>15, <1>16 DEF IndexesApart
  <2>3. \A k \in 1..(Len(t.free) + 1) : f[k] = e.index \/ \E j \in 1..Len(t.free) : k = j + 1 /\ f[k] = t.free[j]
    <3> TAKE k \in 1..(Len(t.free) + 1)
    <3>1. CASE k = 1
      BY <1>6, <3>1
    <3>2. CASE k # 1
      <4>1. k - 1 \in 1..Len(t.free) /\ (k - 1) + 1 = k
        BY <1>11, <3>2
      <4>2. f[k] = t.free[k - 1]
        BY <1>6, <4>1
      <4> QED
        BY <4>1, <4>2
    <3> QED
      BY <3>1, <3>2
  <2>4. \A j \in 1..Len(t.free) : t.free[j] # e.index /\ t.free[j] < t.nextIndex
    BY <1>2, <1>3, <1>11, <1>15 DEF IndexesApart, e
  <2>5. e.index < t.nextIndex
    BY <1>2, <1>3, <1>15 DEF IndexesApart, e
  <2>6. \A k \in 1..(Len(t.free) + 1) : f[k] < t.nextIndex
    BY <2>3, <2>4, <2>5
  <2>7. \A k, l \in 1..(Len(t.free) + 1) : f[k] = f[l] => k = l
    <3> SUFFICES ASSUME NEW k \in 1..(Len(t.free) + 1), NEW l \in 1..(Len(t.free) + 1), f[k] = f[l] PROVE k = l
      OBVIOUS
    <3>5. \A x \in 2..(Len(t.free) + 1) : x - 1 \in 1..Len(t.free) /\ (x - 1) + 1 = x
      BY <1>11
    <3>6. \A x \in 2..(Len(t.free) + 1) : f[x] = t.free[x - 1]
      <4> TAKE x \in 2..(Len(t.free) + 1)
      <4>1. x - 1 \in 1..Len(t.free) /\ (x - 1) + 1 = x
        BY <3>5
      <4>2. f[(x - 1) + 1] = t.free[x - 1]
        BY <1>6, <4>1
      <4> QED
        BY <4>1, <4>2
    <3>1. CASE k = 1 /\ l = 1
      BY <3>1
    <3>2. CASE k = 1 /\ l # 1
      <4>1. l \in 2..(Len(t.free) + 1)
        BY <1>11, <3>2
      <4>2. l - 1 \in 1..Len(t.free) /\ f[l] = t.free[l - 1]
        BY <3>5, <3>6, <4>1
      <4> QED
        BY <1>6, <2>4, <3>2, <4>2
    <3>3. CASE k # 1 /\ l = 1
      <4>1. k \in 2..(Len(t.free) + 1)
        BY <1>11, <3>3
      <4>2. k - 1 \in 1..Len(t.free) /\ f[k] = t.free[k - 1]
        BY <3>5, <3>6, <4>1
      <4> QED
        BY <1>6, <2>4, <3>3, <4>2
    <3>4. CASE k # 1 /\ l # 1
      <4>1. k \in 2..(Len(t.free) + 1) /\ l \in 2..(Len(t.free) + 1)
        BY <1>11, <3>4
      <4>2. k - 1 \in 1..Len(t.free) /\ f[k] = t.free[k - 1] /\ l - 1 \in 1..Len(t.free) /\ f[l] = t.free[l - 1]
        BY <3>5, <3>6, <4>1
      <4>3. t.free[k - 1] = t.free[l - 1]
        BY <4>2
      <4>4. \A i, j \in 1..Len(t.free) : t.free[i] = t.free[j] => i = j
        BY <1>11, <1>15 DEF IndexesApart
      <4>5. k - 1 = l - 1
        BY <4>2, <4>3, <4>4
      <4> QED
        BY <4>5, <1>11
    <3> QED
      BY <3>1, <3>2, <3>3, <3>4
  <2>8. \A k \in 1..(n - 1), l \in 1..(Len(t.free) + 1) : q[k].index # f[l]
    <3> TAKE k \in 1..(n - 1), l \in 1..(Len(t.free) + 1)
    <3>3. m(k) \in 1..n /\ q[k] = t.table[m(k)]
      BY <1>12
    <3>4. \A i \in 1..n, j \in 1..Len(t.free) : t.table[i].index # t.free[j]
      BY <1>2, <1>11, <1>15 DEF IndexesApart
    <3>1. \A j \in 1..Len(t.free) : q[k].index # t.free[j]
      BY <3>3, <3>4
    <3> QED
      BY <2>2, <2>3, <3>1
  <2>9. DOMAIN u.table = 1..(n - 1) /\ DOMAIN u.free = 1..(Len(t.free) + 1)
    BY <1>10, <1>11
  <2>10. \A k, l \in DOMAIN u.table : u.table[k].index = u.table[l].index => k = l
    BY <1>10, <2>1, <2>9
  <2>11. \A k, l \in DOMAIN u.free : u.free[k] = u.free[l] => k = l
    BY <1>10, <2>7, <2>9
  <2>12. \A k \in DOMAIN u.table : u.table[k].index < u.nextIndex
    BY <1>10, <2>2, <2>9
  <2>13. \A k \in DOMAIN u.free : u.free[k] < u.nextIndex
    BY <1>10, <2>6, <2>9
  <2>14. \A k \in DOMAIN u.table, l \in DOMAIN u.free : u.table[k].index # u.free[l]
    BY <1>10, <2>8, <2>9
  <2> QED
    BY <2>10, <2>11, <2>12, <2>13, <2>14 DEF IndexesApart
<1>20. /\ g[v] = Len(rec) /\ \A s \in Conversations : s # v => g[s] = forg[s]
  BY <1>4
<1>21. FiguresTrue(u, rec, g)
  <2>1. ASSUME NEW k \in 1..(n - 1), NEW leg \in Legs
        PROVE  q[k].turns[leg].count = Cardinality(Mine(rec, g, q[k].session, leg))
    <3>1. q[k] = t.table[m(k)] /\ m(k) \in 1..n /\ q[k].session # v
      BY <1>12, <1>16
    <3>2. q[k].session \in Conversations
      BY <1>2, <3>1 DEF Rows
    <3>3. g[q[k].session] = forg[q[k].session]
      BY <1>20, <3>1, <3>2
    <3>4. Mine(rec, g, q[k].session, leg) = Mine(rec, forg, q[k].session, leg)
      BY <3>3 DEF Mine
    <3>5. t.table[m(k)].turns[leg].count = Cardinality(Mine(rec, forg, t.table[m(k)].session, leg))
      BY <1>2, <1>15, <3>1 DEF FiguresTrue
    <3> QED
      BY <3>1, <3>4, <3>5
  <2> QED
    BY <1>10, <1>11, <2>1 DEF FiguresTrue
<1>22. OthersForgotten(u, rec, g)
  <2> SUFFICES ASSUME NEW s \in Conversations
               PROVE  \/ \E i \in DOMAIN u.table : u.table[i].session = s
                      \/ \A i \in DOMAIN rec : rec[i].session = s => ~(i > g[s])
    BY DEF OthersForgotten
  <2>1. CASE s = v
    <3>1. \A i \in DOMAIN rec : ~(i > Len(rec))
      OBVIOUS
    <3> QED
      BY <1>20, <2>1, <3>1
  <2>2. CASE s # v
    <3>1. CASE \E i \in DOMAIN t.table : t.table[i].session = s
      <4>1. PICK i \in 1..n : t.table[i].session = s
        BY <1>2, <3>1
      <4>2. i # p
        BY <1>4, <2>2, <4>1 DEF e
      <4>3. \E k \in 1..(n - 1) : q[k] = t.table[i]
        BY <1>17, <4>2
      <4> QED
        BY <1>10, <1>11, <4>1, <4>3
    <3>2. CASE \A i \in DOMAIN rec : rec[i].session = s => ~(i > forg[s])
      BY <1>20, <2>2, <3>2
    <3> QED
      BY <1>15, <3>1, <3>2 DEF OthersForgotten
  <2> QED
    BY <2>1, <2>2
<1>23. RingTrue(u, rec, g)
  <2>1. \A k : At(u, k) = At(t, k)
    BY <1>10 DEF At
  <2>2. Len(rec) \in Nat /\ DOMAIN rec = 1..Len(rec)
    OBVIOUS
  <2>3. ASSUME NEW k \in 1..t.ringFilled
        PROVE  Tells(u, u.ring[At(u, k)], rec, g, Len(rec) - t.ringFilled + k)
    <3> DEFINE i == Len(rec) - t.ringFilled + k
               x == t.ring[At(t, k)]
               y == r[At(t, k)]
               s == rec[i].session
    <3>1. At(t, k) \in 0..Capacity - 1 /\ x \in RingSlots /\ i \in 1..Len(rec)
      BY <1>1, <1>15, <2>2, RingPlaces
    <3>2. Tells(t, x, rec, forg, i)
      BY <1>15 DEF RingTrue
    <3>3. y = IF x.index = e.index THEN [x EXCEPT !.index = 0] ELSE x
      BY <1>2, <3>1 DEF r
    <3> HIDE DEF x, y
    <3>4. /\ y.name = x.name /\ y.turn = x.turn
          /\ y.index = IF x.index = e.index THEN 0 ELSE x.index
      BY <3>1, <3>3 DEF RingSlots
    <3>5. rec[i] \in Records
      BY <2>2, <3>1
    <3>6. s \in Conversations \cup {NoOne}
      BY <3>5 DEF Records
    <3> HIDE DEF i, s
    <3>7. ASSUME s # NoOne, i > g[s]
          PROVE  \E j \in DOMAIN u.table : u.table[j].session = s /\ u.table[j].index = y.index
      <4>1. s \in Conversations
        BY <3>6, <3>7
      <4>2. s # v
        BY <1>20, <3>1, <3>7
      <4>3. i > forg[s]
        BY <1>20, <3>7, <4>1, <4>2
      <4>4. PICK j \in DOMAIN t.table : t.table[j].session = s /\ t.table[j].index = x.index
        BY <3>2, <3>7, <4>3 DEF Tells, s
      <4>5. j \in 1..n /\ j # p
        BY <1>2, <1>4, <4>2, <4>4 DEF e
      <4>6. x.index # e.index
        BY <1>16, <4>4, <4>5
      <4>7. PICK l \in 1..(n - 1) : q[l] = t.table[j]
        BY <1>17, <4>5
      <4> QED
        BY <1>10, <1>11, <3>4, <4>4, <4>6, <4>7
    <3>8. ASSUME ~(s # NoOne /\ i > g[s])
          PROVE  y.index = 0
      <4>1. CASE s # NoOne /\ i > forg[s]
        <5>1. s \in Conversations
          BY <3>6, <4>1
        <5>2. s = v
          BY <1>20, <3>8, <4>1, <5>1
        <5>3. PICK j \in DOMAIN t.table : t.table[j].session = s /\ t.table[j].index = x.index
          BY <3>2, <4>1 DEF Tells, s
        <5>4. j = p
          BY <1>2, <1>16, <5>2, <5>3
        <5> QED
          BY <3>4, <5>3, <5>4 DEF e
      <4>2. CASE ~(s # NoOne /\ i > forg[s])
        <5>1. x.index = 0
          BY <3>2, <4>2 DEF Tells, s
        <5> QED
          BY <3>4, <5>1
      <4> QED
        BY <4>1, <4>2
    <3>9. y.name = rec[i].name /\ y.turn = rec[i].turn
      BY <3>2, <3>4 DEF Tells
    <3>10. u.ring[At(u, k)] = y
      BY <1>10, <2>1 DEF y
    <3> QED
      BY <3>7, <3>8, <3>9, <3>10 DEF Tells, s, i
  <2> QED
    BY <1>10, <1>15, <2>3 DEF RingTrue
<1>24. SpansFit(u, live)
  BY <1>10, <1>15 DEF SpansFit
<1>25. LiveAre(u, live)
  <2> SUFFICES ASSUME NEW s \in Conversations
               PROVE  s \in live <=> \E k \in 1..(n - 1) : q[k].session = s /\ ~q[k].closed
    BY <1>10, <1>11 DEF LiveAre
  <2>1. s \in live <=> \E i \in 1..n : t.table[i].session = s /\ ~t.table[i].closed
    BY <1>2, <1>15 DEF LiveAre
  <2>2. ASSUME NEW i \in 1..n, t.table[i].session = s /\ ~t.table[i].closed
        PROVE  \E k \in 1..(n - 1) : q[k].session = s /\ ~q[k].closed
    <3>1. i # p
      BY <1>3, <2>2 DEF e
    <3> QED
      BY <1>17, <2>2, <3>1
  <2>3. ASSUME NEW k \in 1..(n - 1), q[k].session = s /\ ~q[k].closed
        PROVE  \E i \in 1..n : t.table[i].session = s /\ ~t.table[i].closed
    BY <1>12, <2>3
  <2> QED
    BY <2>1, <2>2, <2>3
<1>26. v \in Tracked(t)
  BY <1>1, <1>3, <1>4, TrackedSessions DEF e
<1>27. Tracked(u) = Tracked(t) \ {v}
  <2>1. Tracked(u) = {q[k].session : k \in 1..(n - 1)}
    BY <1>5, <1>9, <1>10, TrackedSessions
  <2>2. Tracked(t) = {t.table[i].session : i \in 1..n}
    BY <1>1, TrackedSessions
  <2>3. \A k \in 1..(n - 1) : q[k].session \in Tracked(t) \ {v}
    BY <1>12, <1>16, <2>2
  <2>5. \A x \in Tracked(t) \ {v} : x \in Tracked(u)
    <3> TAKE x \in Tracked(t) \ {v}
    <3>1. PICK i \in 1..n : t.table[i].session = x
      BY <2>2
    <3>2. i # p
      BY <1>4, <3>1 DEF e
    <3>3. PICK k \in 1..(n - 1) : q[k] = t.table[i]
      BY <1>17, <3>2
    <3> QED
      BY <2>1, <3>1, <3>3
  <2>6. \A x \in Tracked(u) : x \in Tracked(t) \ {v}
    BY <2>1, <2>3
  <2> QED
    BY <2>5, <2>6
<1>29. Len(u.table) < Len(t.table) /\ TableSized(u)
  <2>1. n <= MaxTracked /\ t.nextIndex <= MaxTracked + 1 /\ t.nextIndex = n + Len(t.free) + 1
    BY DEF Sound, TableFits, TableSized
  <2>2. Len(u.table) = n - 1 /\ Len(u.free) = Len(t.free) + 1 /\ u.nextIndex = t.nextIndex
    BY <1>5, <1>6, <1>10
  <2>4. n \in Nat /\ Len(t.free) \in Nat /\ MaxTracked \in Nat
    BY <1>2, <1>11, TimingsAssumption
  <2>3. n - 1 < n /\ n - 1 <= MaxTracked /\ n + Len(t.free) + 1 = (n - 1) + (Len(t.free) + 1) + 1
    BY <2>1, <2>4, OneMoreFree
  <2> QED
    BY <2>1, <2>2, <2>3 DEF TableSized
<1>28. TableFits(u, rec, g)
  BY <1>18, <1>19, <1>21, <1>22, <1>23, <1>29 DEF TableFits
<1> QED
  BY <1>9, <1>10, <1>24, <1>25, <1>26, <1>27, <1>28, <1>29 DEF Sound, Leaves

\* An index that nobody has, for a session that has no entry.
LEMMA AdmittedFacts ==
  ASSUME NEW live, NEW rec, NEW forg, Histories(rec, forg),
         NEW t, Sound(t, live, rec, forg),
         NEW s \in Conversations, s \notin Tracked(t), ~(Len(t.table) >= MaxTracked), NEW u, u = Admitted(t, s)
  PROVE  Enters(t, u, s, live, rec, forg)
<1> DEFINE n == Len(t.table)
           l == Len(t.free)
           fresh == t.free = <<>>
           x == IF fresh THEN t.nextIndex ELSE Head(t.free)
           f == IF fresh THEN t.free ELSE Tail(t.free)
           next == IF fresh THEN t.nextIndex + 1 ELSE t.nextIndex
           e == [session |-> s, index |-> x, closed |-> FALSE, turns |-> [leg \in Legs |-> NoFigures]]
           q == Append(t.table, e)
<1>1. t \in Stores
  BY DEF Sound
<1>2. /\ t.table \in Seq(Rows) /\ DOMAIN t.table = 1..n /\ n \in Nat
      /\ \A i \in 1..n : t.table[i] \in Rows
      /\ t.free \in Seq(Nat \ {0}) /\ DOMAIN t.free = 1..l /\ l \in Nat /\ \A i \in 1..l : t.free[i] \in Nat \ {0}
      /\ t.nextIndex \in Nat \ {0}
  BY <1>1, TableDomain
<1>3. SessionsApart(t) /\ IndexesApart(t) /\ FiguresTrue(t, rec, forg) /\ OthersForgotten(t, rec, forg)
      /\ RingTrue(t, rec, forg) /\ SpansFit(t, live) /\ LiveAre(t, live)
  BY DEF Sound, TableFits
<1>4. /\ \A i \in 1..n : t.table[i].index < t.nextIndex
      /\ \A i \in 1..l : t.free[i] < t.nextIndex
      /\ \A i \in 1..n, j \in 1..l : t.table[i].index # t.free[j]
      /\ \A i, j \in 1..l : t.free[i] = t.free[j] => i = j
      /\ \A i, j \in 1..n : t.table[i].index = t.table[j].index => i = j
  BY <1>2, <1>3 DEF IndexesApart
<1>5. /\ x \in Nat \ {0} /\ f \in Seq(Nat \ {0}) /\ next \in Nat \ {0} /\ x < next /\ t.nextIndex <= next
      /\ next + l = t.nextIndex + Len(f) + 1
      /\ \A i \in 1..n : t.table[i].index # x
      /\ \A j \in 1..Len(f) : f[j] # x /\ f[j] < t.nextIndex
      /\ \A i \in 1..n, j \in 1..Len(f) : t.table[i].index # f[j]
      /\ \A i, j \in 1..Len(f) : f[i] = f[j] => i = j
  <2>1. CASE fresh
    <3>1. x = t.nextIndex /\ f = t.free /\ next = t.nextIndex + 1 /\ Len(f) = 0
      BY <2>1
    <3>6. l = 0
      BY <2>1
    <3> HIDE DEF f, l
    <3>7. next + l = t.nextIndex + Len(f) + 1
      BY <1>2, <3>1, <3>6
    <3>2. \A j \in 1..Len(f) : FALSE
      BY <3>1
    <3>3. \A i \in 1..n : t.table[i].index \in Nat
      BY <1>2 DEF Rows
    <3>4. \A i \in 1..n : t.table[i].index # x
      BY <1>2, <1>4, <3>1, <3>3
    <3>5. x \in Nat \ {0} /\ f \in Seq(Nat \ {0}) /\ next \in Nat \ {0} /\ x < next /\ t.nextIndex <= next
      BY <1>2, <3>1
    <3> QED
      BY <3>2, <3>4, <3>5, <3>7
  <2>2. CASE ~fresh
    <3>1. x = Head(t.free) /\ f = Tail(t.free) /\ next = t.nextIndex
      BY <2>2
    <3>2. l >= 1
      BY <1>2, <2>2
    <3>3. x = t.free[1] /\ f \in Seq(Nat \ {0}) /\ Len(f) = l - 1 /\ \A j \in 1..(l - 1) : f[j] = t.free[j + 1]
      BY <1>2, <2>2, <3>1, <3>2
    <3> HIDE DEF x, f, next, fresh
    <3>4. \A j \in 1..(l - 1) : j + 1 \in 1..l /\ j + 1 # 1
      BY <1>2
    <3>5. x \in Nat \ {0} /\ x < t.nextIndex /\ 1 \in 1..l
      BY <1>2, <1>4, <3>2, <3>3
    <3>6. \A j \in 1..(l - 1) : f[j] # x /\ f[j] < t.nextIndex
      BY <1>4, <3>3, <3>4, <3>5
    <3>7. \A i \in 1..n, j \in 1..(l - 1) : t.table[i].index # f[j]
      <4> TAKE i \in 1..n, j \in 1..(l - 1)
      <4>1. j + 1 \in 1..l /\ f[j] = t.free[j + 1]
        BY <3>3, <3>4
      <4> HIDE DEF n, l
      <4> QED
        BY <1>4, <4>1
    <3>8. \A i, j \in 1..(l - 1) : f[i] = f[j] => i = j
      <4> TAKE i, j \in 1..(l - 1)
      <4>1. t.free[i + 1] = t.free[j + 1] => i + 1 = j + 1
        BY <1>4, <3>4
      <4>2. f[i] = t.free[i + 1] /\ f[j] = t.free[j + 1]
        BY <3>3
      <4>3. i + 1 = j + 1 => i = j
        BY <1>2
      <4> QED
        BY <4>1, <4>2, <4>3
    <3>9. \A i \in 1..n : t.table[i].index # x
      BY <1>4, <3>3, <3>5
    <3>10. next \in Nat \ {0} /\ x < next /\ t.nextIndex <= next
      BY <1>2, <3>1, <3>5
    <3>11. next + l = t.nextIndex + Len(f) + 1
      BY <1>2, <3>1, <3>3
    <3> QED
      BY <3>3, <3>5, <3>6, <3>7, <3>8, <3>9, <3>10, <3>11
  <2> QED
    BY <2>1, <2>2
<1>28. next <= MaxTracked + 1
  <2>1. /\ t.nextIndex = n + l + 1 /\ t.nextIndex <= MaxTracked + 1 /\ ~(n >= MaxTracked)
        /\ n \in Nat /\ l \in Nat /\ MaxTracked \in Nat /\ t.nextIndex \in Nat
    BY <1>2, TimingsAssumption DEF Sound, TableFits, TableSized
  <2>2. CASE fresh
    <3>1. next = t.nextIndex + 1 /\ l = 0
      BY <2>2
    <3> HIDE DEF next, l, n
    <3> QED
      BY <2>1, <3>1
  <2>3. CASE ~fresh
    BY <2>1, <2>3
  <2> QED
    BY <2>2, <2>3
<1>6. u = [t EXCEPT !.table = q, !.free = f, !.nextIndex = next]
  BY <1>1 DEF Admitted, Stores
<1> HIDE DEF x, f, next, fresh
<1>7. e \in Rows /\ e.session = s /\ e.index = x /\ e.closed = FALSE
      /\ \A leg \in Legs : e.turns[leg].count = 0
  <2>1. NoFigures \in Figures /\ NoFigures.count = 0
    BY DEF NoFigures, Figures
  <2>2. [leg \in Legs |-> NoFigures] \in [Legs -> Figures]
    BY <2>1
  <2>3. e \in Rows
    BY <1>5, <2>2 DEF Rows
  <2> QED
    BY <2>1, <2>3
<1> HIDE DEF e
<1>8. /\ q \in Seq(Rows) /\ Len(q) = n + 1 /\ DOMAIN q = 1..(n + 1) /\ q[n + 1] = e
      /\ \A i \in 1..n : q[i] = t.table[i]
  BY <1>2, <1>7
<1> HIDE DEF q
<1>9. u \in Stores
  BY <1>1, <1>5, <1>6, <1>8 DEF Stores
<1>10. /\ u.table = q /\ u.free = f /\ u.nextIndex = next /\ u.spans = t.spans /\ u.figures = t.figures
       /\ u.ring = t.ring /\ u.ringNext = t.ringNext /\ u.ringFilled = t.ringFilled
  BY <1>1, <1>6 DEF Stores
<1>11. \A i \in 1..n : i \in 1..(n + 1) /\ i # n + 1
  BY <1>2
<1>12. \A i \in 1..(n + 1) : i = n + 1 \/ i \in 1..n
  BY <1>2
<1>13. n + 1 \in 1..(n + 1)
  BY <1>2
<1>14. Tracked(t) = {t.table[i].session : i \in 1..n}
  BY <1>1, TrackedSessions
<1>15. \A i \in 1..n : t.table[i].session # s
  BY <1>14
<1>16. SessionsApart(u)
  <2>1. \A i, j \in 1..n : t.table[i].session = t.table[j].session => i = j
    BY <1>2, <1>3 DEF SessionsApart
  <2>2. \A i, j \in 1..(n + 1) : q[i].session = q[j].session => i = j
    <3> TAKE i, j \in 1..(n + 1)
    <3>1. CASE i = n + 1 /\ j = n + 1
      BY <3>1
    <3>2. CASE i = n + 1 /\ j \in 1..n
      BY <1>7, <1>8, <1>15, <3>2
    <3>3. CASE i \in 1..n /\ j = n + 1
      BY <1>7, <1>8, <1>15, <3>3
    <3>4. CASE i \in 1..n /\ j \in 1..n
      BY <1>8, <2>1, <3>4
    <3> QED
      BY <1>12, <3>1, <3>2, <3>3, <3>4
  <2> QED
    BY <1>8, <1>10, <2>2 DEF SessionsApart
<1>17. IndexesApart(u)
  <2>1. \A i, j \in 1..(n + 1) : q[i].index = q[j].index => i = j
    <3> TAKE i, j \in 1..(n + 1)
    <3>1. CASE i = n + 1 /\ j = n + 1
      BY <3>1
    <3>2. CASE i = n + 1 /\ j \in 1..n
      BY <1>5, <1>7, <1>8, <3>2
    <3>3. CASE i \in 1..n /\ j = n + 1
      BY <1>5, <1>7, <1>8, <3>3
    <3>4. CASE i \in 1..n /\ j \in 1..n
      BY <1>4, <1>8, <3>4
    <3> QED
      BY <1>12, <3>1, <3>2, <3>3, <3>4
  <2>2. \A i \in 1..(n + 1) : q[i].index < next
    <3> TAKE i \in 1..(n + 1)
    <3>1. CASE i = n + 1
      BY <1>5, <1>7, <1>8, <3>1
    <3>2. CASE i \in 1..n
      <4>1. q[i].index < t.nextIndex /\ q[i].index \in Nat
        BY <1>2, <1>4, <1>8, <3>2 DEF Rows
      <4> QED
        BY <1>2, <1>5, <4>1
    <3> QED
      BY <1>12, <3>1, <3>2
  <2>3. DOMAIN f = 1..Len(f) /\ Len(f) \in Nat /\ \A i \in 1..Len(f) : f[i] \in Nat
    BY <1>5
  <2>4. \A i \in 1..Len(f) : f[i] < next
    <3> TAKE i \in 1..Len(f)
    <3>1. f[i] < t.nextIndex /\ f[i] \in Nat
      BY <1>5, <2>3
    <3> QED
      BY <1>2, <1>5, <3>1
  <2>5. \A i \in 1..(n + 1), j \in 1..Len(f) : q[i].index # f[j]
    <3> TAKE i \in 1..(n + 1), j \in 1..Len(f)
    <3>1. CASE i = n + 1
      BY <1>5, <1>7, <1>8, <3>1
    <3>2. CASE i \in 1..n
      BY <1>5, <1>8, <3>2
    <3> QED
      BY <1>12, <3>1, <3>2
  <2>6. DOMAIN u.table = 1..(n + 1) /\ DOMAIN u.free = 1..Len(f)
    BY <1>8, <1>10, <2>3
  <2>7. \A i, j \in DOMAIN u.table : u.table[i].index = u.table[j].index => i = j
    BY <1>10, <2>1, <2>6
  <2>8. \A i, j \in DOMAIN u.free : u.free[i] = u.free[j] => i = j
    BY <1>5, <1>10, <2>6
  <2>9. \A i \in DOMAIN u.table : u.table[i].index < u.nextIndex
    BY <1>10, <2>2, <2>6
  <2>10. \A i \in DOMAIN u.free : u.free[i] < u.nextIndex
    BY <1>10, <2>4, <2>6
  <2>11. \A i \in DOMAIN u.table, j \in DOMAIN u.free : u.table[i].index # u.free[j]
    BY <1>10, <2>5, <2>6
  <2> QED
    BY <2>7, <2>8, <2>9, <2>10, <2>11 DEF IndexesApart
<1>18. FiguresTrue(u, rec, forg)
  <2>1. ASSUME NEW i \in 1..(n + 1), NEW leg \in Legs
        PROVE  q[i].turns[leg].count = Cardinality(Mine(rec, forg, q[i].session, leg))
    <3>1. CASE i = n + 1
      <4>1. \A j \in DOMAIN rec : rec[j].session = s => ~(j > forg[s])
        BY <1>2, <1>3, <1>15 DEF OthersForgotten
      <4>2. Mine(rec, forg, s, leg) = {}
        BY <4>1 DEF Mine
      <4>3. Cardinality({}) = 0
        BY FS_EmptySet
      <4> QED
        BY <1>7, <1>8, <3>1, <4>2, <4>3
    <3>2. CASE i \in 1..n
      BY <1>2, <1>3, <1>8, <3>2 DEF FiguresTrue
    <3> QED
      BY <1>12, <3>1, <3>2
  <2> QED
    BY <1>8, <1>10, <2>1 DEF FiguresTrue
<1>19. \A i \in DOMAIN t.table : i \in DOMAIN u.table /\ u.table[i] = t.table[i]
  BY <1>2, <1>8, <1>10, <1>11
<1>20. OthersForgotten(u, rec, forg)
  BY <1>3, <1>19 DEF OthersForgotten
<1>21. RingTrue(u, rec, forg)
  <2>1. \A k : At(u, k) = At(t, k)
    BY <1>10 DEF At
  <2>2. ASSUME NEW r, NEW i, Tells(t, r, rec, forg, i) PROVE Tells(u, r, rec, forg, i)
    <3>1. ASSUME rec[i].session # NoOne /\ i > forg[rec[i].session]
          PROVE  \E j \in DOMAIN u.table : u.table[j].session = rec[i].session /\ u.table[j].index = r.index
      <4>1. PICK j \in DOMAIN t.table : t.table[j].session = rec[i].session /\ t.table[j].index = r.index
        BY <2>2, <3>1 DEF Tells
      <4> QED
        BY <1>19, <4>1
    <3> QED
      BY <2>2, <3>1 DEF Tells
  <2> QED
    BY <1>3, <1>10, <2>1, <2>2 DEF RingTrue
<1>22. SpansFit(u, live \cup {s})
  BY <1>3, <1>10 DEF SpansFit
<1>23. LiveAre(u, live \cup {s})
  <2> SUFFICES ASSUME NEW y \in Conversations
               PROVE  y \in live \cup {s} <=> \E i \in 1..(n + 1) : q[i].session = y /\ ~q[i].closed
    BY <1>8, <1>10 DEF LiveAre
  <2>1. CASE y = s
    BY <1>7, <1>8, <1>13, <2>1
  <2>2. CASE y # s
    <3>1. y \in live <=> \E i \in 1..n : t.table[i].session = y /\ ~t.table[i].closed
      BY <1>2, <1>3 DEF LiveAre
    <3>2. (\E i \in 1..n : t.table[i].session = y /\ ~t.table[i].closed)
             <=> \E i \in 1..(n + 1) : q[i].session = y /\ ~q[i].closed
      BY <1>7, <1>8, <1>11, <1>12, <2>2
    <3> QED
      BY <2>2, <3>1, <3>2
  <2> QED
    BY <2>1, <2>2
<1>24. Tracked(u) = Tracked(t) \cup {s}
  <2>1. Tracked(u) = {q[i].session : i \in 1..(n + 1)}
    BY <1>8, <1>9, <1>10, TrackedSessions
  <2>2. \A y \in Tracked(u) : y \in Tracked(t) \cup {s}
    BY <1>7, <1>8, <1>12, <1>14, <2>1
  <2>3. \A y \in Tracked(t) : y \in Tracked(u)
    BY <1>8, <1>11, <1>14, <2>1
  <2>4. s \in Tracked(u)
    BY <1>7, <1>8, <1>13, <2>1
  <2> QED
    BY <2>2, <2>3, <2>4
<1>25. Len(u.table) >= 1 /\ u.table[Len(u.table)].session = s
  BY <1>2, <1>7, <1>8, <1>10
<1>27. TableSized(u)
  <2>1. t.nextIndex = n + l + 1 /\ n < MaxTracked
    BY <1>2, TimingsAssumption DEF Sound, TableFits, TableSized
  <2>2. Len(u.table) = n + 1 /\ Len(u.free) = Len(f) /\ u.nextIndex = next
    BY <1>8, <1>10
  <2>3. n + 1 <= MaxTracked
    BY <1>2, <2>1, TimingsAssumption
  <2>4. Len(f) \in Nat
    BY <1>5
  <2>6. next + l = t.nextIndex + Len(f) + 1 /\ next \in Nat
    BY <1>5
  <2>7. n \in Nat /\ l \in Nat
    BY <1>2
  <2>5. next = (n + 1) + Len(f) + 1
    <3>1. next + l = n + l + 1 + Len(f) + 1
      BY <2>1, <2>6
    <3>2. next \in Nat /\ n \in Nat /\ l \in Nat /\ Len(f) \in Nat
      BY <2>4, <2>6, <2>7
    <3> HIDE DEF next, l, f, n
    <3> QED
      BY <3>1, <3>2, OneMoreUsed
  <2> QED
    BY <1>28, <2>2, <2>3, <2>5 DEF TableSized
<1>26. TableFits(u, rec, forg)
  BY <1>16, <1>17, <1>18, <1>20, <1>21, <1>27 DEF TableFits
<1> QED
  BY <1>9, <1>10, <1>22, <1>23, <1>24, <1>25, <1>26 DEF Sound, Enters

\* Whom a step of the store forgets.
Forgets(t, u, forg, at) == [x \in Conversations |-> IF x \in Tracked(t) \ Tracked(u) THEN at ELSE forg[x]]

LEMMA NobodyForgotten ==
  ASSUME NEW t, NEW u, Tracked(t) \subseteq Tracked(u), NEW rec, NEW forg, Histories(rec, forg)
  PROVE  Forgets(t, u, forg, Len(rec)) = forg
<1>1. Forgets(t, u, forg, Len(rec)) = [x \in Conversations |-> forg[x]]
  BY DEF Forgets
<1> QED
  BY <1>1 DEF Histories

\* Where there is room, or a closed session to forget.
Room(t, s) ==
  \/ s \in Tracked(t)
  \/ ~(Len(t.table) >= MaxTracked)
  \/ \E i \in DOMAIN t.table : t.table[i].closed

\* From t to u, s is made live.
Welcomes(t, u, s, live, rec, g) ==
  /\ Sound(u, live \cup {s}, rec, g) /\ Histories(rec, g)
  /\ u.spans = t.spans /\ u.figures = t.figures
  /\ Len(u.table) >= 1 /\ u.table[Len(u.table)].session = s

\* The session is live, the last in the table, and at most a closed one is forgotten for it.
LEMMA InternedSound ==
  ASSUME NEW live, NEW rec, NEW forg, Histories(rec, forg),
         NEW t, Sound(t, live, rec, forg), NEW s \in Conversations, Room(t, s),
         NEW u, u = Interned(t, s), NEW g, g = Forgets(t, u, forg, Len(rec))
  PROVE  Welcomes(t, u, s, live, rec, g)
<1>1. t \in Stores
  BY DEF Sound
<1>2. PlaceOf(t, s) # 0 <=> s \in Tracked(t)
  <2>1. Tracked(t) = {t.table[i].session : i \in 1..Len(t.table)}
    BY <1>1, TrackedSessions
  <2>2. DOMAIN t.table = 1..Len(t.table)
    BY <1>1, TableDomain
  <2>3. \/ PlaceOf(t, s) = 0 /\ \A i \in DOMAIN t.table : t.table[i].session # s
        \/ PlaceOf(t, s) \in 1..Len(t.table) /\ t.table[PlaceOf(t, s)].session = s
    BY <1>1, PlaceOfFact
  <2> QED
    BY <2>1, <2>2, <2>3
<1>3. CASE PlaceOf(t, s) # 0
  <2>1. Enters(t, u, s, live, rec, forg)
    BY <1>3, InternedKnown
  <2>2. g = forg
    BY <2>1, NobodyForgotten DEF Enters
  <2> QED
    BY <2>1, <2>2 DEF Enters, Welcomes
<1>4. CASE PlaceOf(t, s) = 0 /\ ~(Len(t.table) >= MaxTracked)
  <2>1. u = Admitted(t, s) /\ s \notin Tracked(t)
    BY <1>2, <1>4 DEF Interned
  <2>2. Enters(t, u, s, live, rec, forg)
    BY <1>4, <2>1, AdmittedFacts
  <2>7. Tracked(t) \subseteq Tracked(u)
    BY <2>2 DEF Enters
  <2>3. g = forg
    <3>1. Forgets(t, u, forg, Len(rec)) = forg
      BY <2>7, NobodyForgotten
    <3> QED
      BY <3>1
  <2> QED
    BY <2>2, <2>3 DEF Enters, Welcomes
<1>5. CASE PlaceOf(t, s) = 0 /\ Len(t.table) >= MaxTracked
  <2> DEFINE w == ForgetOne(t)
             v == t.table[Victim(t)].session
             h == [forg EXCEPT ![v] = Len(rec)]
  <2>1. u = Admitted(w, s) /\ s \notin Tracked(t)
    BY <1>2, <1>5 DEF Interned
  <2>2. \E i \in DOMAIN t.table : t.table[i].closed
    BY <1>5, <2>1 DEF Room
  <2>10. w = ForgetOne(t) /\ v = t.table[Victim(t)].session /\ h = [forg EXCEPT ![v] = Len(rec)]
    OBVIOUS
  <2>3. /\ Sound(w, live, rec, h) /\ w.spans = t.spans /\ w.figures = t.figures
        /\ v \in Tracked(t) /\ Tracked(w) = Tracked(t) \ {v} /\ Len(w.table) < Len(t.table)
    <3> HIDE DEF w, v, h
    <3>1. Leaves(t, w, v, live, rec, h)
      BY <2>2, <2>10, ForgetOneFacts
    <3> QED
      BY <3>1 DEF Leaves
  <2>4. v \in Conversations
    <3>1. \A x \in Tracked(t) : x \in Conversations
      <4>1. Tracked(t) = {t.table[i].session : i \in 1..Len(t.table)}
        BY <1>1, TrackedSessions
      <4>2. \A i \in 1..Len(t.table) : t.table[i].session \in Conversations
        BY <1>1, TableDomain DEF Rows
      <4> QED
        BY <4>1, <4>2
    <3> QED
      BY <2>3, <3>1
  <2>5. Histories(rec, h)
    <3>1. rec \in Seq(Records) /\ Len(rec) \in Nat /\ forg \in [Conversations -> Nat]
      BY DEF Histories
    <3>2. \A x \in Conversations : h[x] = IF x = v THEN Len(rec) ELSE forg[x]
      BY <3>1
    <3>3. \A x \in Conversations : h[x] <= Len(rec)
      BY <3>1, <3>2 DEF Histories
    <3>4. h \in [Conversations -> Nat]
      BY <3>1, <2>4
    <3> HIDE DEF h
    <3> QED
      BY <3>1, <3>3, <3>4 DEF Histories
  <2>6. h = [x \in Conversations |-> IF x = v THEN Len(rec) ELSE forg[x]]
    BY <2>4 DEF Histories
  <2> HIDE DEF w, v, h
  <2>11. s \notin Tracked(w) /\ Sound(w, live, rec, h) /\ ~(Len(w.table) >= MaxTracked)
    <3>1. Len(t.table) <= MaxTracked /\ Len(t.table) \in Nat
      BY <1>1, TableDomain DEF Sound, TableFits, TableSized
    <3>2. Len(w.table) \in Nat
      BY <2>3, TableDomain DEF Sound
    <3>3. ~(Len(w.table) >= MaxTracked)
      BY <2>3, <3>1, <3>2, TimingsAssumption
    <3> QED
      BY <2>1, <2>3, <3>3
  <2>12. Enters(w, u, s, live, rec, h)
    BY <2>1, <2>5, <2>11, AdmittedFacts
  <2>7. /\ Sound(u, live \cup {s}, rec, h) /\ Tracked(u) = Tracked(w) \cup {s}
        /\ u.spans = w.spans /\ u.figures = w.figures
        /\ Len(u.table) >= 1 /\ u.table[Len(u.table)].session = s
    BY <2>12 DEF Enters
  <2>8. Tracked(t) \ Tracked(u) = {v}
    BY <2>1, <2>3, <2>7
  <2>9. g = h
    BY <2>6, <2>8 DEF Forgets
  <2> QED
    BY <2>3, <2>5, <2>7, <2>9 DEF Welcomes
<1> QED
  BY <1>3, <1>4, <1>5
-----------------------------------------------------------------------------
(* Recording. *)

\* The record that is new is the last one, and each other one is where it was.
LEMMA RingMoved ==
  ASSUME NEW t \in Stores, NEW u, t.ringFilled < Capacity => t.ringNext = t.ringFilled,
         u.ringNext = IF t.ringNext + 1 = Capacity THEN 0 ELSE t.ringNext + 1,
         u.ringFilled = IF t.ringFilled < Capacity THEN t.ringFilled + 1 ELSE t.ringFilled
  PROVE  /\ u.ringFilled \in 1..Capacity /\ u.ringNext \in 0..Capacity - 1
         /\ u.ringFilled < Capacity => u.ringNext = u.ringFilled
         /\ At(u, u.ringFilled) = t.ringNext
         /\ \A k \in 1..(u.ringFilled - 1) :
              \E j \in 1..t.ringFilled :
                At(u, k) = At(t, j) /\ At(t, j) # t.ringNext /\ k - u.ringFilled = j - t.ringFilled - 1
<1> DEFINE C == Capacity
           N == t.ringNext
           F == t.ringFilled
<1>1. C \in Nat /\ C >= 1
  BY TimingsAssumption
<1>2. F \in 0..C /\ N \in 0..C - 1
  BY TableDomain
<1>3. CASE F < C
  <2>1. u.ringFilled = F + 1 /\ N = F /\ u.ringNext = IF F + 1 = C THEN 0 ELSE F + 1
    BY <1>3
  <2>2. \A k \in 1..(F + 1) : At(u, k) = k - 1
    <3> TAKE k \in 1..(F + 1)
    <3>1. CASE F + 1 < C
      BY <1>1, <1>2, <2>1, <3>1 DEF At
    <3>2. CASE F + 1 = C
      BY <1>1, <1>2, <2>1, <3>2 DEF At
    <3> QED
      BY <1>1, <1>2, <1>3, <3>1, <3>2
  <2>3. \A k \in 1..F : At(t, k) = k - 1 /\ k - 1 # F
    BY <1>2, <1>3 DEF At
  <2>4. u.ringFilled \in 1..C /\ u.ringNext \in 0..C - 1 /\ (u.ringFilled < C => u.ringNext = u.ringFilled)
    BY <1>1, <1>2, <1>3, <2>1
  <2>5. At(u, F + 1) = F
    <3>1. F + 1 \in 1..(F + 1) /\ (F + 1) - 1 = F
      BY <1>2
    <3> QED
      BY <2>2, <3>1
  <2>6. \A k \in 1..F : k \in 1..(F + 1) /\ k - (F + 1) = k - F - 1
    BY <1>2
  <2>7. \A k \in 1..F : At(u, k) = At(t, k) /\ At(t, k) # N /\ k - u.ringFilled = k - F - 1
    BY <2>1, <2>2, <2>3, <2>6
  <2>8. u.ringFilled - 1 = F
    BY <1>2, <2>1
  <2> QED
    BY <2>1, <2>4, <2>5, <2>7, <2>8
<1>4. CASE ~(F < C)
  <2>1. F = C /\ u.ringFilled = C /\ u.ringNext = IF N + 1 = C THEN 0 ELSE N + 1
    BY <1>1, <1>2, <1>4
  <2>2. u.ringFilled \in 1..C /\ u.ringNext \in 0..C - 1 /\ (u.ringFilled < C => u.ringNext = u.ringFilled)
    BY <1>1, <1>2, <2>1
  <2>3. \A k : At(u, k) = IF u.ringNext + k - 1 < C THEN u.ringNext + k - 1 ELSE u.ringNext + k - 1 - C
    BY <1>1, <2>1 DEF At
  <2>4. \A k : At(t, k) = IF N + k - 1 < C THEN N + k - 1 ELSE N + k - 1 - C
    BY <1>1, <2>1 DEF At
  <2>5. At(u, C) = N
    BY <1>1, <1>2, <2>1, <2>3
  <2>6. ASSUME NEW k \in 1..(C - 1)
        PROVE  At(u, k) = At(t, k + 1) /\ At(t, k + 1) # N /\ k + 1 \in 1..F /\ k - u.ringFilled = (k + 1) - F - 1
    <3>1. At(u, k) = IF u.ringNext + k - 1 < C THEN u.ringNext + k - 1 ELSE u.ringNext + k - 1 - C
      BY <2>3
    <3>2. At(t, k + 1) = IF N + (k + 1) - 1 < C THEN N + (k + 1) - 1 ELSE N + (k + 1) - 1 - C
      BY <2>4
    <3>3. CASE N + 1 = C
      <4>1. At(u, k) = k - 1
        BY <1>1, <2>1, <3>1, <3>3
      <4>2. At(t, k + 1) = k - 1 /\ k - 1 # N
        BY <1>1, <1>2, <3>2, <3>3
      <4>3. k + 1 \in 1..F /\ k - u.ringFilled = (k + 1) - F - 1
        BY <1>1, <2>1
      <4> QED
        BY <4>1, <4>2, <4>3
    <3>4. CASE N + 1 # C
      <4>1. At(u, k) = IF N + k < C THEN N + k ELSE N + k - C
        BY <1>1, <1>2, <2>1, <3>1, <3>4
      <4>2. At(t, k + 1) = IF N + k < C THEN N + k ELSE N + k - C
        BY <1>1, <1>2, <3>2
      <4>3. At(t, k + 1) # N
        BY <1>1, <1>2, <4>2
      <4>4. k + 1 \in 1..F /\ k - u.ringFilled = (k + 1) - F - 1
        BY <1>1, <2>1
      <4> QED
        BY <4>1, <4>2, <4>3, <4>4
    <3> QED
      BY <3>3, <3>4
  <2> QED
    BY <2>1, <2>2, <2>5, <2>6
<1> QED
  BY <1>3, <1>4

\* The sessions and the indexes of the table.
SameNames(t, u) ==
  /\ DOMAIN u.table = DOMAIN t.table
  /\ \A j \in DOMAIN t.table : u.table[j].session = t.table[j].session /\ u.table[j].index = t.table[j].index

\* A slot that tells the last record.
TellsLast(t, r, e) ==
  /\ r.name = e.name /\ r.turn = e.turn
  /\ \/ e.session = NoOne /\ r.index = 0
     \/ \E j \in DOMAIN t.table : t.table[j].session = e.session /\ t.table[j].index = r.index

LEMMA RingRecords ==
  ASSUME NEW rec, NEW forg, Histories(rec, forg), NEW e \in Records, NEW more, more = Append(rec, e),
         NEW t \in Stores, RingTrue(t, rec, forg),
         NEW u, SameNames(t, u), NEW r, TellsLast(t, r, e), u.ring = [t.ring EXCEPT ![t.ringNext] = r],
         u.ringNext = IF t.ringNext + 1 = Capacity THEN 0 ELSE t.ringNext + 1,
         u.ringFilled = IF t.ringFilled < Capacity THEN t.ringFilled + 1 ELSE t.ringFilled
  PROVE  RingTrue(u, more, forg)
<1> DEFINE n == Len(rec)
           F == t.ringFilled
           G == u.ringFilled
<1>1. /\ rec \in Seq(Records) /\ n \in Nat /\ more \in Seq(Records) /\ Len(more) = n + 1
      /\ more[n + 1] = e /\ \A i \in 1..n : more[i] = rec[i]
  BY DEF Histories
<1>2. /\ F <= n /\ (F < Capacity => t.ringNext = F)
      /\ \A k \in 1..F : Tells(t, t.ring[At(t, k)], rec, forg, n - F + k)
  BY DEF RingTrue
<1>3. /\ F \in 0..Capacity /\ t.ringNext \in 0..Capacity - 1 /\ t.ring \in [0..Capacity - 1 -> RingSlots]
      /\ Capacity \in Nat
  BY TableDomain, TimingsAssumption
<1>4. G \in 1..Capacity /\ (G < Capacity => u.ringNext = G) /\ At(u, G) = t.ringNext
  BY <1>2, RingMoved
<1>5. \A k \in 1..(G - 1) : \E j \in 1..F :
        At(u, k) = At(t, j) /\ At(t, j) # t.ringNext /\ k - G = j - F - 1
  BY <1>2, RingMoved
<1>6. G <= n + 1
  BY <1>1, <1>2, <1>3
<1>7. Tells(u, u.ring[At(u, G)], more, forg, (n + 1) - G + G)
  <2>1. u.ring[At(u, G)] = r
    BY <1>3, <1>4
  <2>2. (n + 1) - G + G = n + 1
    BY <1>1, <1>4
  <2>3. e.session # NoOne => n + 1 > forg[e.session]
    <3> HAVE e.session # NoOne
    <3>1. e.session \in Conversations
      BY DEF Records
    <3>2. forg[e.session] \in Nat /\ forg[e.session] <= n
      BY <3>1 DEF Histories
    <3> QED
      BY <1>1, <3>2
  <2>4. e.session # NoOne => \E j \in DOMAIN u.table : u.table[j].session = e.session /\ u.table[j].index = r.index
    BY DEF TellsLast, SameNames
  <2>5. e.session = NoOne => r.index = 0
    <3>1. t.table \in Seq(Rows) /\ \A j \in DOMAIN t.table : t.table[j].session \in Conversations
      BY TableDomain DEF Rows
    <3> QED
      BY <3>1, TimingsAssumption DEF TellsLast
  <2> QED
    BY <1>1, <2>1, <2>2, <2>3, <2>4, <2>5 DEF Tells, TellsLast
<1>8. ASSUME NEW k \in 1..(G - 1)
      PROVE  Tells(u, u.ring[At(u, k)], more, forg, (n + 1) - G + k)
  <2>1. PICK j \in 1..F : At(u, k) = At(t, j) /\ At(t, j) # t.ringNext /\ k - G = j - F - 1
    BY <1>5
  <2>2. At(t, j) \in 0..Capacity - 1 /\ n - F + j \in 1..n
    BY <1>1, RingPlaces
  <2>3. u.ring[At(u, k)] = t.ring[At(t, j)]
    <3>1. \A y \in 0..Capacity - 1 : y # t.ringNext => u.ring[y] = t.ring[y]
      BY <1>3
    <3> QED
      BY <2>1, <2>2, <3>1
  <2>4. (n + 1) - G + k = n - F + j
    <3>1. n \in Nat /\ G \in Nat /\ F \in Nat /\ j \in Nat /\ k \in Nat
      BY <1>1, <1>3, <1>4
    <3>2. k - G = j - F - 1
      BY <2>1
    <3> HIDE DEF n, F, G
    <3> QED
      BY <3>1, <3>2
  <2> DEFINE i == n - F + j
             x == t.ring[At(t, j)]
  <2>5. Tells(t, x, rec, forg, i) /\ more[i] = rec[i]
    BY <1>1, <1>2, <2>2
  <2> HIDE DEF i, x
  <2>6. Tells(u, x, more, forg, i)
    BY <2>5 DEF Tells, SameNames
  <2> QED
    BY <2>3, <2>4, <2>6 DEF i, x
<1>9. ASSUME NEW k \in 1..G
      PROVE  Tells(u, u.ring[At(u, k)], more, forg, (n + 1) - G + k)
  <2>1. k = G \/ k \in 1..(G - 1)
    BY <1>4
  <2> QED
    BY <1>7, <1>8, <2>1
<1> QED
  BY <1>1, <1>4, <1>6, <1>9 DEF RingTrue
MineGrows(rec, more, forg, e, s, leg) ==
  /\ Cardinality(Mine(more, forg, s, leg)) =
       Cardinality(Mine(rec, forg, s, leg)) + (IF e.name = leg /\ e.session = s THEN 1 ELSE 0)
  /\ Cardinality(Mine(rec, forg, s, leg)) \in Nat

LEMMA MineMore ==
  ASSUME NEW rec, NEW forg, Histories(rec, forg), NEW e \in Records, NEW more, more = Append(rec, e),
         NEW s \in Conversations, NEW leg
  PROVE  MineGrows(rec, more, forg, e, s, leg)
<1> DEFINE n == Len(rec)
           M == Mine(rec, forg, s, leg)
<1>1. /\ rec \in Seq(Records) /\ n \in Nat /\ DOMAIN rec = 1..n /\ DOMAIN more = 1..(n + 1)
      /\ more[n + 1] = e /\ (\A i \in 1..n : more[i] = rec[i]) /\ forg[s] \in Nat /\ forg[s] <= n
  BY DEF Histories
<1>2. M \subseteq 1..n
  BY <1>1 DEF Mine
<1>3. IsFiniteSet(M)
  <2>1. IsFiniteSet(1..n)
    BY <1>1, FS_Interval
  <2> HIDE DEF M
  <2> QED
    BY <1>2, <2>1, FS_Subset
<1>4. n + 1 \notin M
  BY <1>1, <1>2
<1>5. n + 1 > forg[s]
  BY <1>1
<1>6. \A i \in 1..(n + 1) : i = n + 1 \/ i \in 1..n
  BY <1>1
<1>7. \A i \in 1..n : i \in 1..(n + 1)
  BY <1>1
<1>8. n + 1 \in 1..(n + 1)
  BY <1>1
<1>9. Cardinality(M) \in Nat
  BY <1>3, FS_CardinalityType
<1>10. CASE e.name = leg /\ e.session = s
  <2>1. \A i : i \in Mine(more, forg, s, leg) => i \in M \cup {n + 1}
    BY <1>1, <1>6 DEF Mine
  <2>2. \A i : i \in M \cup {n + 1} => i \in Mine(more, forg, s, leg)
    BY <1>1, <1>5, <1>7, <1>8, <1>10 DEF Mine
  <2>3. Mine(more, forg, s, leg) = M \cup {n + 1}
    BY <2>1, <2>2
  <2>4. Cardinality(M \cup {n + 1}) = Cardinality(M) + 1
    <3> HIDE DEF M, n
    <3> QED
      BY <1>3, <1>4, FS_AddElement
  <2> QED
    BY <1>9, <1>10, <2>3, <2>4 DEF MineGrows
<1>11. CASE ~(e.name = leg /\ e.session = s)
  <2>1. \A i : i \in Mine(more, forg, s, leg) => i \in M
    BY <1>1, <1>6, <1>11 DEF Mine
  <2>2. \A i : i \in M => i \in Mine(more, forg, s, leg)
    BY <1>1, <1>7 DEF Mine
  <2>3. Mine(more, forg, s, leg) = M
    BY <2>1, <2>2
  <2> QED
    BY <1>9, <1>11, <2>3 DEF MineGrows
<1> QED
  BY <1>10, <1>11

LEMMA OthersMore ==
  ASSUME NEW rec, NEW forg, Histories(rec, forg), NEW e \in Records, NEW more, more = Append(rec, e),
         NEW t, OthersForgotten(t, rec, forg), NEW u, SameNames(t, u),
         e.session = NoOne \/ \E j \in DOMAIN t.table : t.table[j].session = e.session
  PROVE  OthersForgotten(u, more, forg) /\ Histories(more, forg)
<1> DEFINE n == Len(rec)
<1>1. /\ rec \in Seq(Records) /\ n \in Nat /\ DOMAIN rec = 1..n /\ DOMAIN more = 1..(n + 1)
      /\ more[n + 1] = e /\ (\A i \in 1..n : more[i] = rec[i]) /\ forg \in [Conversations -> Nat]
      /\ more \in Seq(Records) /\ Len(more) = n + 1 /\ \A s \in Conversations : forg[s] <= n
  BY DEF Histories
<1>2. \A s \in Conversations : forg[s] \in Nat
  BY <1>1
<1>3. \A s \in Conversations : forg[s] <= n + 1
  BY <1>1, <1>2
<1>4. Histories(more, forg)
  BY <1>1, <1>3 DEF Histories
<1>5. \A i \in 1..(n + 1) : i = n + 1 \/ i \in 1..n
  BY <1>1
<1>6. OthersForgotten(u, more, forg)
  <2> SUFFICES ASSUME NEW s \in Conversations, \A j \in DOMAIN u.table : u.table[j].session # s,
                      NEW i \in 1..(n + 1), more[i].session = s
               PROVE  ~(i > forg[s])
    BY <1>1 DEF OthersForgotten
  <2>1. \A j \in DOMAIN t.table : t.table[j].session # s
    BY DEF SameNames
  <2>2. e.session # s
    BY <2>1, TimingsAssumption
  <2>3. i \in 1..n
    BY <1>1, <1>5, <2>2
  <2> QED
    BY <1>1, <2>1, <2>3 DEF OthersForgotten
<1> QED
  BY <1>4, <1>6

SlotOf(name, index, span) == [name |-> name, index |-> index, turn |-> span.turn, delta |-> span.delta]

LEMMA RecordFacts ==
  ASSUME NEW t \in Stores, NEW name \in Names, NEW index \in Nat, NEW span \in Spans,
         NEW u, u = Record(t, name, index, span)
  PROVE  /\ u \in Stores /\ u.spans = t.spans /\ u.table = t.table /\ u.free = t.free /\ u.nextIndex = t.nextIndex
         /\ u.ring = [t.ring EXCEPT ![t.ringNext] = SlotOf(name, index, span)]
         /\ u.ringNext = IF t.ringNext + 1 = Capacity THEN 0 ELSE t.ringNext + 1
         /\ u.ringFilled = IF t.ringFilled < Capacity THEN t.ringFilled + 1 ELSE t.ringFilled
         /\ \A n \in Names : Told(u, n) = Told(t, n) + (IF n = name THEN 1 ELSE 0)
<1> DEFINE ring == [t.ring EXCEPT ![t.ringNext] = SlotOf(name, index, span)]
           next == IF t.ringNext + 1 = Capacity THEN 0 ELSE t.ringNext + 1
           filled == IF t.ringFilled < Capacity THEN t.ringFilled + 1 ELSE t.ringFilled
           one == [t.figures[name] EXCEPT !.count = @ + 1]
           figures == [t.figures EXCEPT ![name] = one]
<1>1. /\ t.figures \in [Names -> Figures] /\ t.ring \in [0..Capacity - 1 -> RingSlots]
      /\ t.ringNext \in 0..Capacity - 1 /\ t.ringFilled \in 0..Capacity /\ Capacity \in Nat /\ Capacity >= 1
  BY TableDomain, TimingsAssumption
<1>2. SlotOf(name, index, span) \in RingSlots
  BY SpanKinds DEF SlotOf, RingSlots
<1>3. ring \in [0..Capacity - 1 -> RingSlots]
  BY <1>1, <1>2
<1>4. next \in 0..Capacity - 1 /\ filled \in 0..Capacity
  BY <1>1
<1>5. t.figures[name] \in Figures
  BY <1>1
<1>6. one \in Figures /\ one.count = t.figures[name].count + 1 /\ one.abandoned = t.figures[name].abandoned
  BY <1>5 DEF Figures
<1> HIDE DEF one
<1>7. figures \in [Names -> Figures] /\ figures[name] = one /\ \A n \in Names : n # name => figures[n] = t.figures[n]
  BY <1>1, <1>6
<1>8. u = [t EXCEPT !.ring = ring, !.ringNext = next, !.ringFilled = filled, !.figures = figures]
  BY <1>1 DEF Record, SlotOf, Stores, one
<1> HIDE DEF ring, next, filled, figures
<1>9. u \in Stores
  BY <1>3, <1>4, <1>7, <1>8 DEF Stores
<1>10. /\ u.spans = t.spans /\ u.table = t.table /\ u.free = t.free /\ u.nextIndex = t.nextIndex
       /\ u.ring = ring /\ u.ringNext = next /\ u.ringFilled = filled /\ u.figures = figures
  BY <1>8 DEF Stores
<1>11. \A n \in Names : Told(u, n) = Told(t, n) + (IF n = name THEN 1 ELSE 0)
  <2> TAKE n \in Names
  <2>1. Told(t, n) \in Nat /\ t.figures[n].count \in Nat /\ t.figures[n].abandoned \in Nat
    BY ToldIsNat
  <2>2. CASE n = name
    <3>1. Told(u, n) = (t.figures[n].count + 1) + t.figures[n].abandoned
      BY <1>6, <1>7, <1>10, <2>2 DEF Told
    <3>2. Told(t, n) = t.figures[n].count + t.figures[n].abandoned
      BY DEF Told
    <3> QED
      BY <2>1, <2>2, <3>1, <3>2
  <2>3. CASE n # name
    <3>1. Told(u, n) = Told(t, n)
      BY <1>7, <1>10, <2>3 DEF Told
    <3> QED
      BY <2>1, <2>3, <3>1
  <2> QED
    BY <2>2, <2>3
<1> QED
  BY <1>9, <1>10, <1>11 DEF ring, next, filled

\* From t to u there is one more record, that is told under the name.
Adds(t, u, live, more, forg, name) ==
  /\ Sound(u, live, more, forg) /\ Histories(more, forg) /\ Tracked(u) = Tracked(t) /\ u.spans = t.spans
  /\ Len(u.table) = Len(t.table)
  /\ \A j \in 1..Len(t.table) : u.table[j].session = t.table[j].session
  /\ \A n \in Names : Told(u, n) = Told(t, n) + (IF n = name THEN 1 ELSE 0)

\* A record of no session.
LEMMA RecordAdds ==
  ASSUME NEW live, NEW rec, NEW forg, Histories(rec, forg), NEW t, Sound(t, live, rec, forg),
         NEW name \in Names, NEW span \in Spans, NEW u, u = Record(t, name, 0, span),
         NEW more, more = Append(rec, Entry(name, NoOne, span))
  PROVE  Adds(t, u, live, more, forg, name)
<1> DEFINE e == Entry(name, NoOne, span)
<1>1. t \in Stores /\ OthersForgotten(t, rec, forg) /\ FiguresTrue(t, rec, forg) /\ RingTrue(t, rec, forg)
  BY DEF Sound, TableFits
<1>2. /\ u \in Stores /\ u.spans = t.spans /\ u.table = t.table /\ u.free = t.free /\ u.nextIndex = t.nextIndex
      /\ u.ring = [t.ring EXCEPT ![t.ringNext] = SlotOf(name, 0, span)]
      /\ u.ringNext = IF t.ringNext + 1 = Capacity THEN 0 ELSE t.ringNext + 1
      /\ u.ringFilled = IF t.ringFilled < Capacity THEN t.ringFilled + 1 ELSE t.ringFilled
      /\ \A n \in Names : Told(u, n) = Told(t, n) + (IF n = name THEN 1 ELSE 0)
  BY <1>1, RecordFacts
<1>3. e \in Records /\ e.name = name /\ e.session = NoOne /\ e.turn = span.turn
  BY SpanKinds DEF Entry, Records
<1>4. SameNames(t, u)
  BY <1>2 DEF SameNames
<1>5. TellsLast(t, SlotOf(name, 0, span), e)
  BY <1>3 DEF TellsLast, SlotOf
<1> HIDE DEF e
<1>6. more = Append(rec, e)
  BY DEF e
<1>7. RingTrue(u, more, forg)
  BY <1>1, <1>2, <1>3, <1>4, <1>5, <1>6, RingRecords
<1>8. OthersForgotten(u, more, forg) /\ Histories(more, forg)
  BY <1>1, <1>3, <1>4, <1>6, OthersMore
<1>9. FiguresTrue(u, more, forg)
  <2> SUFFICES ASSUME NEW i \in DOMAIN t.table, NEW leg \in Legs
               PROVE  t.table[i].turns[leg].count = Cardinality(Mine(more, forg, t.table[i].session, leg))
    BY <1>2 DEF FiguresTrue
  <2>1. t.table[i].session \in Conversations
    BY <1>1, TableDomain DEF Rows
  <2>2. e.session # t.table[i].session
    BY <1>3, <2>1, TimingsAssumption
  <2>3. MineGrows(rec, more, forg, e, t.table[i].session, leg)
    BY <1>3, <1>6, <2>1, MineMore
  <2>5. Cardinality(Mine(more, forg, t.table[i].session, leg)) = Cardinality(Mine(rec, forg, t.table[i].session, leg))
    BY <2>2, <2>3 DEF MineGrows
  <2> QED
    BY <1>1, <2>5 DEF FiguresTrue
<1>10. SessionsApart(u) /\ IndexesApart(u)
  BY <1>2 DEF Sound, TableFits, SessionsApart, IndexesApart
<1>11. SpansFit(u, live) /\ LiveAre(u, live)
  BY <1>2 DEF Sound, SpansFit, LiveAre
<1>12. Tracked(u) = Tracked(t)
  BY <1>2 DEF Tracked
<1>14. TableSized(u)
  BY <1>2 DEF Sound, TableFits, TableSized
<1>13. TableFits(u, more, forg)
  BY <1>7, <1>8, <1>9, <1>10, <1>14 DEF TableFits
<1> QED
  BY <1>2, <1>8, <1>11, <1>12, <1>13 DEF Sound, Adds

\* A record of the session that is the last in the table.
LEMMA RecordTurnAdds ==
  ASSUME NEW live, NEW rec, NEW forg, Histories(rec, forg), NEW t, Sound(t, live, rec, forg),
         Len(t.table) >= 1, NEW s, s = t.table[Len(t.table)].session,
         NEW leg \in Legs, NEW span \in Spans, NEW u, u = RecordTurn(t, leg, span),
         NEW more, more = Append(rec, Entry(leg, s, span))
  PROVE  Adds(t, u, live, more, forg, leg)
<1> DEFINE e == Entry(leg, s, span)
           n == Len(t.table)
           x == t.table[n].index
           w == Record(t, leg, x, span)
           m == [j \in 1..n |-> j]
<1>1. t \in Stores /\ OthersForgotten(t, rec, forg) /\ FiguresTrue(t, rec, forg) /\ RingTrue(t, rec, forg)
      /\ SessionsApart(t) /\ IndexesApart(t)
  BY DEF Sound, TableFits
<1>2. n \in Nat /\ DOMAIN t.table = 1..n /\ n \in 1..n /\ t.table[n] \in Rows
      /\ \A i \in 1..n : t.table[i] \in Rows
  BY <1>1, TableDomain
<1>3. leg \in Names /\ x \in Nat /\ s \in Conversations
  BY <1>2, LegNames DEF Rows
<1>4. e \in Records /\ e.name = leg /\ e.session = s /\ e.turn = span.turn
  BY <1>3, SpanKinds DEF Entry, Records
<1>5. u = AddToLast(w, leg, "count")
  BY DEF RecordTurn
<1> HIDE DEF w
<1>6. /\ w \in Stores /\ w.spans = t.spans /\ w.table = t.table /\ w.free = t.free /\ w.nextIndex = t.nextIndex
      /\ w.ring = [t.ring EXCEPT ![t.ringNext] = SlotOf(leg, x, span)]
      /\ w.ringNext = IF t.ringNext + 1 = Capacity THEN 0 ELSE t.ringNext + 1
      /\ w.ringFilled = IF t.ringFilled < Capacity THEN t.ringFilled + 1 ELSE t.ringFilled
      /\ \A k \in Names : Told(w, k) = Told(t, k) + (IF k = leg THEN 1 ELSE 0)
  BY <1>1, <1>3, RecordFacts DEF w
<1>7. /\ u \in Stores /\ Len(u.table) = n
      /\ u.spans = w.spans /\ u.figures = w.figures
      /\ u.free = w.free /\ u.nextIndex = w.nextIndex
      /\ u.ring = w.ring /\ u.ringNext = w.ringNext /\ u.ringFilled = w.ringFilled
      /\ \A j \in 1..n :
           /\ u.table[j].session = t.table[j].session
           /\ u.table[j].index = t.table[j].index
           /\ u.table[j].closed = t.table[j].closed
           /\ \A l \in Legs :
                u.table[j].turns[l].count =
                  t.table[j].turns[l].count + (IF j = n /\ l = leg THEN 1 ELSE 0)
  <2>1. Len(w.table) = n /\ Len(w.table) >= 1 /\ w \in Stores /\ w.table = t.table
    BY <1>2, <1>6
  <2>2. Bumped(w, u, n, leg, "count")
    BY <1>5, <2>1, AddToLastFacts
  <2> QED
    BY <2>1, <2>2 DEF Bumped
<1>8. DOMAIN u.table = 1..n
  BY <1>7, TableDomain
<1>9. SameNames(t, u)
  BY <1>2, <1>7, <1>8 DEF SameNames
<1>10. TellsLast(t, SlotOf(leg, x, span), e)
  BY <1>2, <1>4 DEF TellsLast, SlotOf
<1> HIDE DEF e, x
<1>11. more = Append(rec, e)
  BY DEF e
<1>12. RingTrue(u, more, forg)
  <2>1. /\ u.ring = [t.ring EXCEPT ![t.ringNext] = SlotOf(leg, x, span)]
        /\ u.ringNext = IF t.ringNext + 1 = Capacity THEN 0 ELSE t.ringNext + 1
        /\ u.ringFilled = IF t.ringFilled < Capacity THEN t.ringFilled + 1 ELSE t.ringFilled
    BY <1>6, <1>7
  <2> QED
    BY <1>1, <1>4, <1>9, <1>10, <1>11, <2>1, RingRecords
<1>13. OthersForgotten(u, more, forg) /\ Histories(more, forg)
  BY <1>1, <1>2, <1>4, <1>9, <1>11, OthersMore
<1>14. FiguresTrue(u, more, forg)
  <2> SUFFICES ASSUME NEW i \in 1..n, NEW l \in Legs
               PROVE  u.table[i].turns[l].count = Cardinality(Mine(more, forg, t.table[i].session, l))
    BY <1>7, <1>8 DEF FiguresTrue
  <2>1. t.table[i].session \in Conversations
    BY <1>2 DEF Rows
  <2>2. t.table[i].session = s <=> i = n
    BY <1>1, <1>2 DEF SessionsApart
  <2>3. MineGrows(rec, more, forg, e, t.table[i].session, l)
    BY <1>4, <1>11, <2>1, MineMore
  <2>4. t.table[i].turns[l].count = Cardinality(Mine(rec, forg, t.table[i].session, l))
    BY <1>1, <1>2 DEF FiguresTrue
  <2>5. u.table[i].turns[l].count = t.table[i].turns[l].count + (IF i = n /\ l = leg THEN 1 ELSE 0)
    BY <1>7
  <2>6. (e.name = l /\ e.session = t.table[i].session) <=> (i = n /\ l = leg)
    BY <1>4, <2>2
  <2> QED
    BY <2>3, <2>4, <2>5, <2>6 DEF MineGrows
<1>15. SessionsApart(u)
  BY <1>1, <1>2, <1>7, <1>8 DEF SessionsApart
<1>16. IndexesApart(u)
  BY <1>1, <1>2, <1>6, <1>7, <1>8 DEF IndexesApart
<1>17. SpansFit(u, live)
  BY <1>6, <1>7 DEF Sound, SpansFit
<1>18. LiveAre(u, live)
  <2>1. \A y \in Conversations : y \in live <=> \E j \in 1..n : t.table[j].session = y /\ ~t.table[j].closed
    BY <1>2 DEF Sound, LiveAre
  <2>2. \A y \in Conversations : y \in live <=> \E j \in 1..n : u.table[j].session = y /\ ~u.table[j].closed
    BY <1>7, <2>1
  <2> QED
    BY <1>8, <2>2 DEF LiveAre
<1>19. Tracked(u) = Tracked(t)
  <2>1. Tracked(u) = {u.table[i].session : i \in 1..n} /\ Tracked(t) = {t.table[i].session : i \in 1..n}
    BY <1>1, <1>7, TrackedSessions
  <2> QED
    BY <1>7, <2>1
<1>23. TableSized(u)
  BY <1>6, <1>7 DEF Sound, TableFits, TableSized
<1>20. TableFits(u, more, forg)
  BY <1>12, <1>13, <1>14, <1>15, <1>16, <1>23 DEF TableFits
<1>21. \A k \in Names : Told(u, k) = Told(t, k) + (IF k = leg THEN 1 ELSE 0)
  BY <1>6, <1>7 DEF Told
<1>22. Sound(u, live, more, forg)
  BY <1>7, <1>17, <1>18, <1>20 DEF Sound
<1> QED
  BY <1>6, <1>7, <1>13, <1>19, <1>21, <1>22 DEF Adds
-----------------------------------------------------------------------------
(* Ending. *)

FourNames == {"total", "tool", "command", "unknown"}

\* A span is taken out and told of once.
LEMMA TakenOut ==
  ASSUME NEW live, NEW rec, NEW forg, NEW b, NEW t, StoreTrue(t, live, rec, forg, b),
         NEW i \in 1..Len(t.spans), NEW w, w = Without(t, i),
         NEW u, u.spans = w.spans, NEW also, NEW more, NEW g, Sound(u, also, more, g),
         \A n \in FourNames : Told(u, n) = Told(t, n) + (IF n = t.spans[i].name THEN 1 ELSE 0)
  PROVE  StoreTrue(u, also, more, g, b)
<1> DEFINE span == t.spans[i]
<1>1. Sound(t, live, rec, forg) /\ Balanced(t, b) /\ t \in Stores /\ u \in Stores /\ span \in Spans
  BY TableDomain DEF StoreTrue, Sound
<1>2. Sound(w, live, rec, forg) /\ \A kind : Open(t, kind) = Open(w, kind) + (IF span.key[1] = kind THEN 1 ELSE 0)
  BY <1>1, WithoutFacts
<1>3. \A kind : Open(w, kind) = Open(u, kind)
  BY DEF Open
<1>4. \A kind : Open(t, kind) = Open(u, kind) + (IF span.key[1] = kind THEN 1 ELSE 0)
  BY <1>2, <1>3
<1>5. \A n \in {"total", "tool", "command", "unknown"} : Told(u, n) = Told(t, n) + (IF n = span.name THEN 1 ELSE 0)
  BY DEF FourNames
<1> HIDE DEF span
<1>6. Balanced(u, b)
  BY <1>1, <1>4, <1>5, StillBalanced
<1> QED
  BY <1>6 DEF Sound, StoreTrue

\* From t to u, the span is recorded, under no session.
EndsSpan(t, u, i, span, rec, more) ==
  /\ i \in 1..Len(t.spans) /\ span = t.spans[i]
  /\ u = Record(Without(t, i), span.name, 0, span)
  /\ more = Append(rec, Entry(span.name, NoOne, span))

EndsWell(t, u, live, more, forg, b) ==
  StoreTrue(u, live, more, forg, b) /\ Histories(more, forg) /\ Tracked(u) = Tracked(t)

\* A tool or a command ends: nothing of the table changes.
LEMMA EndedFacts ==
  ASSUME NEW live, NEW rec, NEW forg, NEW b, NEW t, Histories(rec, forg), StoreTrue(t, live, rec, forg, b),
         NEW u, NEW i, NEW span, NEW more, EndsSpan(t, u, i, span, rec, more)
  PROVE  EndsWell(t, u, live, more, forg, b)
<1> DEFINE w == Without(t, i)
<1>10. /\ i \in 1..Len(t.spans) /\ span = t.spans[i]
       /\ u = Record(w, span.name, 0, span)
       /\ more = Append(rec, Entry(span.name, NoOne, span))
  BY DEF EndsSpan
<1>1. Sound(t, live, rec, forg) /\ t \in Stores /\ span \in Spans
  BY <1>10, TableDomain DEF StoreTrue, Sound
<1>2. span.name \in Names
  BY <1>1, SpanKinds
<1>3. Sound(w, live, rec, forg) /\ w.figures = t.figures /\ Tracked(w) = Tracked(t)
  BY <1>1, <1>10, WithoutFacts
<1>8. w = Without(t, i)
  OBVIOUS
<1> HIDE DEF w
<1>4. Adds(w, u, live, more, forg, span.name)
  BY <1>1, <1>2, <1>3, <1>10, RecordAdds
<1>5. Sound(u, live, more, forg) /\ Histories(more, forg) /\ Tracked(u) = Tracked(w) /\ u.spans = w.spans
  BY <1>4 DEF Adds
<1>6. \A n \in FourNames : Told(u, n) = Told(t, n) + (IF n = t.spans[i].name THEN 1 ELSE 0)
  <2>1. \A n : Told(w, n) = Told(t, n)
    BY <1>3 DEF Told
  <2>2. \A n \in FourNames : n \in Names
    BY DEF FourNames, Names, Legs
  <2> QED
    BY <1>4, <1>10, <2>1, <2>2 DEF Adds
<1>7. StoreTrue(u, live, more, forg, b)
  BY <1>5, <1>6, <1>8, <1>10, TakenOut
<1> QED
  BY <1>3, <1>5, <1>7 DEF EndsWell

LEMMA LegsInTurn ==
  ASSUME NEW s, NEW span, NEW rec \in Seq(Records),
         NEW legs, legs = [k \in DOMAIN LegsOf(span) |-> Entry(LegsOf(span)[k], s, span)],
         \A leg \in Legs : Entry(leg, s, span) \in Records
  PROVE  /\ span.delta = 0 => rec \o legs = Append(rec, Entry("total", s, span))
         /\ span.delta # 0 =>
              rec \o legs =
                Append(Append(Append(rec, Entry("first", s, span)), Entry("rest", s, span)), Entry("total", s, span))
<1> DEFINE e(leg) == Entry(leg, s, span)
<1>1. e("first") \in Records /\ e("rest") \in Records /\ e("total") \in Records
  BY DEF Legs
<1>2. span.delta = 0 => legs = <<e("total")>>
  BY DEF LegsOf
<1>3. span.delta # 0 => legs = <<e("first"), e("rest"), e("total")>>
  <2> HAVE span.delta # 0
  <2>1. LegsOf(span) = <<"first", "rest", "total">>
    BY DEF LegsOf
  <2>2. DOMAIN <<"first", "rest", "total">> = 1..3
    OBVIOUS
  <2>3. legs = [k \in 1..3 |-> e(<<"first", "rest", "total">>[k])]
    BY <2>1, <2>2
  <2> HIDE DEF e
  <2> QED
    BY <2>3
<1> HIDE DEF e
<1>4. \A x \in Records : rec \o <<x>> = Append(rec, x)
  OBVIOUS
<1>5. \A x, y, z \in Records : rec \o <<x, y, z>> = Append(Append(Append(rec, x), y), z)
  OBVIOUS
<1>6. span.delta = 0 => rec \o legs = Append(rec, e("total"))
  BY <1>1, <1>2, <1>4
<1>7. span.delta # 0 => rec \o legs = Append(Append(Append(rec, e("first")), e("rest")), e("total"))
  <2>1. rec \o <<e("first"), e("rest"), e("total")>> = Append(Append(Append(rec, e("first")), e("rest")), e("total"))
    BY <1>1, <1>5
  <2> QED
    BY <1>3, <2>1
<1> QED
  BY <1>6, <1>7 DEF e

\* From t to u a turn of the last session is recorded.
AddsTurn(t, u, live, more, forg) ==
  /\ Sound(u, live, more, forg) /\ Histories(more, forg) /\ Tracked(u) = Tracked(t) /\ u.spans = t.spans
  /\ \A n \in FourNames : Told(u, n) = Told(t, n) + (IF n = "total" THEN 1 ELSE 0)

LEMMA RecordLegsFacts ==
  ASSUME NEW live, NEW rec, NEW forg, Histories(rec, forg), NEW t, Sound(t, live, rec, forg),
         Len(t.table) >= 1, NEW s, s = t.table[Len(t.table)].session,
         NEW span \in Spans, NEW u, u = RecordLegs(t, span),
         NEW more, more = rec \o [k \in DOMAIN LegsOf(span) |-> Entry(LegsOf(span)[k], s, span)]
  PROVE  AddsTurn(t, u, live, more, forg)
<1>1. {"first", "rest", "total"} \subseteq Legs /\ Legs \subseteq Names
  BY LegNames DEF Legs
<1>2. t \in Stores /\ Len(t.table) \in 1..Len(t.table)
  BY TableDomain DEF Sound
<1>3. s \in Conversations
  BY <1>2, TableDomain DEF Rows
<1>4. \A leg \in Legs : Entry(leg, s, span) \in Records
  BY <1>1, <1>3, SpanKinds DEF Entry, Records
<1>5. rec \in Seq(Records)
  BY DEF Histories
<1>6. /\ span.delta = 0 => more = Append(rec, Entry("total", s, span))
      /\ span.delta # 0 =>
           more = Append(Append(Append(rec, Entry("first", s, span)), Entry("rest", s, span)), Entry("total", s, span))
  BY <1>4, <1>5, LegsInTurn
<1>7. \A n \in FourNames : n \in Names /\ n # "first" /\ n # "rest"
  BY DEF FourNames, Names, Legs
<1>8. CASE span.delta = 0
  <2>1. u = RecordTurn(t, "total", span)
    BY <1>8 DEF RecordLegs
  <2>2. Adds(t, u, live, more, forg, "total")
    BY <1>1, <1>6, <1>8, <2>1, RecordTurnAdds
  <2> QED
    BY <1>7, <2>2 DEF Adds, AddsTurn
<1>9. CASE span.delta # 0
  <2> DEFINE t1 == RecordTurn(t, "first", span)
             t2 == RecordTurn(t1, "rest", span)
             r1 == Append(rec, Entry("first", s, span))
             r2 == Append(r1, Entry("rest", s, span))
  <2>1. u = RecordTurn(t2, "total", span) /\ more = Append(r2, Entry("total", s, span))
    BY <1>6, <1>9 DEF RecordLegs
  <2>2. t1 = RecordTurn(t, "first", span) /\ t2 = RecordTurn(t1, "rest", span)
        /\ r1 = Append(rec, Entry("first", s, span)) /\ r2 = Append(r1, Entry("rest", s, span))
    OBVIOUS
  <2> HIDE DEF t1, t2, r1, r2
  <2>3. Adds(t, t1, live, r1, forg, "first")
    BY <1>1, <2>2, RecordTurnAdds
  <2>4. Sound(t1, live, r1, forg) /\ Histories(r1, forg) /\ Len(t1.table) >= 1 /\ t1.table[Len(t1.table)].session = s
    BY <1>2, <2>3 DEF Adds
  <2>5. Adds(t1, t2, live, r2, forg, "rest")
    BY <1>1, <2>2, <2>4, RecordTurnAdds
  <2>6. Sound(t2, live, r2, forg) /\ Histories(r2, forg) /\ Len(t2.table) >= 1 /\ t2.table[Len(t2.table)].session = s
    <3>1. t1.table[Len(t1.table)].session = s /\ Len(t1.table) \in 1..Len(t1.table)
      BY <1>2, <2>3, <2>4 DEF Adds
    <3> QED
      BY <2>4, <2>5, <3>1 DEF Adds
  <2>7. Adds(t2, u, live, more, forg, "total")
    BY <1>1, <2>1, <2>6, RecordTurnAdds
  <2>8. \A n \in FourNames : Told(u, n) = Told(t, n) + (IF n = "total" THEN 1 ELSE 0)
    <3> TAKE n \in FourNames
    <3>1. Told(t, n) \in Nat
      BY <1>2, <1>7, ToldIsNat
    <3>2. Told(t1, n) = Told(t, n) + (IF n = "first" THEN 1 ELSE 0)
      BY <1>7, <2>3 DEF Adds
    <3>3. Told(t1, n) = Told(t, n)
      BY <1>7, <3>1, <3>2
    <3>4. Told(t2, n) = Told(t1, n) + (IF n = "rest" THEN 1 ELSE 0)
      BY <1>7, <2>5 DEF Adds
    <3>5. Told(t2, n) = Told(t, n)
      BY <1>7, <3>1, <3>3, <3>4
    <3>6. Told(u, n) = Told(t2, n) + (IF n = "total" THEN 1 ELSE 0)
      BY <1>7, <2>7 DEF Adds
    <3> QED
      BY <3>5, <3>6
  <2> QED
    BY <2>3, <2>5, <2>7, <2>8 DEF Adds, AddsTurn
<1> QED
  BY <1>8, <1>9
-----------------------------------------------------------------------------
(* Closing. *)

LEMMA SpanOfTurn ==
  ASSUME NEW span \in Spans, span.session # NoOne
  PROVE  span.key = <<"turn", span.session>> /\ span.session \in Conversations
<1>1. span.key[1] \in Kinds /\ SpanFits(span) /\ span.session \in Conversations \cup {NoOne}
  BY SpanKinds
<1>2. span.key[1] # "tool" /\ span.key[1] # "command"
  BY <1>1 DEF SpanFits
<1> QED
  BY <1>1, <1>2 DEF SpanFits, Kinds

LEMMA ClosedFacts ==
  ASSUME NEW live, live \subseteq Conversations, NEW rec, NEW forg, NEW b, NEW t, StoreTrue(t, live, rec, forg, b),
         NEW s \in Conversations, NEW u, u = Closed(t, s)
  PROVE  StoreTrue(u, live \ {s}, rec, forg, b) /\ Tracked(u) = Tracked(t)
<1> DEFINE i == OpenUnder(t, <<"turn", s>>)
           t1 == IF i = 0 THEN t ELSE Discarded(t, i)
           n == Len(t1.table)
           q == [k \in DOMAIN t1.table |->
                   IF t1.table[k].session = s THEN [t1.table[k] EXCEPT !.closed = TRUE] ELSE t1.table[k]]
<1>1. Sound(t, live, rec, forg) /\ Balanced(t, b) /\ t \in Stores
  BY DEF StoreTrue, Sound
<1>2. u = [t1 EXCEPT !.table = q]
  BY DEF Closed
<1>3. /\ Sound(t1, live, rec, forg) /\ Balanced(t1, b) /\ Tracked(t1) = Tracked(t)
      /\ NoneUnder(t1, <<"turn", s>>)
  <2>1. CASE i = 0
    <3>1. \A j \in DOMAIN t.spans : t.spans[j].key # <<"turn", s>>
      <4> DEFINE key == <<"turn", s>>
      <4>1. i = OpenUnder(t, key)
        OBVIOUS
      <4> HIDE DEF key, i
      <4>2. \A j \in DOMAIN t.spans : t.spans[j].key # key
        BY <1>1, <2>1, <4>1, OpenUnderFact
      <4> QED
        BY <4>2 DEF key
    <3>2. t1 = t
      BY <2>1
    <3> HIDE DEF t1, i
    <3> QED
      BY <1>1, <3>1, <3>2 DEF NoneUnder
  <2>2. CASE i # 0
    <3>1. i \in 1..Len(t.spans) /\ t.spans[i].key = <<"turn", s>>
      BY <1>1, <2>2, OpenUnderFact
    <3>2. t1 = Discarded(t, i)
      BY <2>2
    <3> HIDE DEF i, t1
    <3>3. Sound(t1, live, rec, forg) /\ Tracked(t1) = Tracked(t)
      BY <1>1, <3>1, <3>2, DiscardedFacts
    <3>4. NoneUnder(t1, t.spans[i].key)
      BY <1>1, <3>1, <3>2, DiscardedFacts
    <3>5. \A c : Balanced(t, c) => Balanced(t1, c)
      BY <1>1, <3>1, <3>2, DiscardedFacts
    <3> QED
      BY <1>1, <3>1, <3>3, <3>4, <3>5
  <2> QED
    BY <2>1, <2>2
<1> HIDE DEF t1
<1>4. t1 \in Stores /\ SpansFit(t1, live) /\ LiveAre(t1, live) /\ TableFits(t1, rec, forg)
  BY <1>3 DEF Sound
<1>5. /\ t1.table \in Seq(Rows) /\ DOMAIN t1.table = 1..n /\ n \in Nat
      /\ (\A k \in 1..n : t1.table[k] \in Rows)
      /\ DOMAIN t1.spans = 1..Len(t1.spans) /\ \A k \in 1..Len(t1.spans) : t1.spans[k] \in Spans
  BY <1>4, TableDomain
<1>6. \A k \in 1..n : [t1.table[k] EXCEPT !.closed = TRUE] \in Rows
  BY <1>5 DEF Rows
<1>7. q \in Seq(Rows) /\ Len(q) = n /\ DOMAIN q = 1..n
  BY <1>5, <1>6
<1>8. \A k \in 1..n :
        /\ q[k].session = t1.table[k].session /\ q[k].index = t1.table[k].index /\ q[k].turns = t1.table[k].turns
        /\ q[k].closed <=> t1.table[k].closed \/ t1.table[k].session = s
  <2> TAKE k \in 1..n
  <2>1. t1.table[k] \in Rows /\ q[k] = IF t1.table[k].session = s THEN [t1.table[k] EXCEPT !.closed = TRUE] ELSE t1.table[k]
    BY <1>5
  <2> DEFINE e == t1.table[k]
  <2>2. e \in Rows /\ q[k] = IF e.session = s THEN [e EXCEPT !.closed = TRUE] ELSE e
    BY <2>1
  <2> HIDE DEF e, q
  <2>3. q[k].session = e.session /\ q[k].index = e.index /\ q[k].turns = e.turns
    BY <2>2 DEF Rows
  <2>4. q[k].closed <=> e.closed \/ e.session = s
    BY <2>2 DEF Rows
  <2> QED
    BY <2>3, <2>4 DEF e
<1> HIDE DEF q
<1>9. u \in Stores
  BY <1>2, <1>4, <1>7 DEF Stores
<1>10. /\ u.table = q /\ u.spans = t1.spans /\ u.figures = t1.figures
       /\ u.free = t1.free /\ u.nextIndex = t1.nextIndex
       /\ u.ring = t1.ring /\ u.ringNext = t1.ringNext /\ u.ringFilled = t1.ringFilled
  BY <1>2, <1>4 DEF Stores
<1> DEFINE m == [k \in 1..n |-> k]
<1>11. Rearranged(t1, u, m)
  <2>1. m \in [1..n -> 1..n] /\ (\A k, j \in 1..n : m[k] = m[j] => k = j) /\ \A k \in 1..n : m[k] = k
    OBVIOUS
  <2> HIDE DEF m
  <2>2. \A k \in 1..n :
          /\ u.table[k].session = t1.table[m[k]].session
          /\ u.table[k].index = t1.table[m[k]].index
          /\ u.table[k].turns = t1.table[m[k]].turns
    BY <1>8, <1>10, <2>1
  <2>3. \A k \in 1..n : \E j \in 1..n : m[j] = k
    BY <2>1
  <2>4. Len(u.table) = n
    BY <1>7, <1>10
  <2> HIDE DEF n
  <2> QED
    BY <1>10, <2>1, <2>2, <2>3, <2>4 DEF Rearranged, n
<1>12. TableFits(u, rec, forg) /\ Tracked(u) = Tracked(t1)
  BY <1>4, <1>9, <1>11, RearrangedFits, RearrangedTracked
<1>13. \A k \in 1..Len(t1.spans) : t1.spans[k].session \in (live \ {s}) \cup {NoOne}
  <2> TAKE k \in 1..Len(t1.spans)
  <2>1. t1.spans[k].session \in live \cup {NoOne} /\ t1.spans[k] \in Spans
    BY <1>4, <1>5 DEF SpansFit
  <2>2. t1.spans[k].key # <<"turn", s>>
    BY <1>3, <1>5 DEF NoneUnder
  <2>3. t1.spans[k].session # NoOne => t1.spans[k].key = <<"turn", t1.spans[k].session>>
    BY <2>1, SpanOfTurn
  <2> QED
    BY <2>1, <2>2, <2>3
<1>14. SpansFit(u, live \ {s})
  BY <1>4, <1>5, <1>10, <1>13 DEF SpansFit
<1>15. LiveAre(u, live \ {s})
  <2>1. \A y \in Conversations : y \in live <=> \E j \in 1..n : t1.table[j].session = y /\ ~t1.table[j].closed
    BY <1>4, <1>5 DEF LiveAre
  <2>2. \A y \in Conversations : y \in live \ {s} <=> \E j \in 1..n : q[j].session = y /\ ~q[j].closed
    <3> TAKE y \in Conversations
    <3>1. CASE y = s
      BY <1>8, <3>1
    <3>2. CASE y # s
      BY <1>8, <2>1, <3>2
    <3> QED
      BY <3>1, <3>2
  <2> QED
    BY <1>7, <1>10, <2>2 DEF LiveAre
<1>16. Balanced(u, b)
  <2>1. \A name : Told(u, name) = Told(t1, name)
    BY <1>10 DEF Told
  <2>2. \A kind : Open(u, kind) = Open(t1, kind)
    BY <1>10 DEF Open
  <2> QED
    BY <1>3, <2>1, <2>2 DEF Balanced
<1> QED
  BY <1>3, <1>9, <1>12, <1>14, <1>15, <1>16 DEF StoreTrue

\* What holds at 0, and at each next one, holds up to n.
LEMMA UpTo ==
  ASSUME NEW n \in Nat, NEW T, 0 \in T, \A k \in 0..n : k \in T /\ k < n => k + 1 \in T
  PROVE  0..n \subseteq T
<1> DEFINE Z == (0..n) \ T
<1> SUFFICES ASSUME Z # {} PROVE FALSE
  OBVIOUS
<1>1. Z \subseteq Nat
  OBVIOUS
<1>2. PICK x \in Z : \A y \in Z : <<y, x>> \notin OpToRel(<, Nat)
  BY <1>1, NatLessThanWellFounded, WFMin
<1>3. \A y \in Z : ~(y < x)
  BY <1>1, <1>2 DEF OpToRel
<1>4. x \in 0..n /\ x \notin T /\ x # 0
  OBVIOUS
<1>5. x - 1 \in 0..n /\ x - 1 < n /\ (x - 1) + 1 = x /\ x - 1 < x
  BY <1>4
<1>6. x - 1 \in T
  BY <1>3, <1>5
<1> QED
  BY <1>4, <1>5, <1>6

LEMMA AllClosedFacts ==
  ASSUME NEW live, live \subseteq Conversations, NEW rec, NEW forg, NEW b, NEW t, StoreTrue(t, live, rec, forg, b),
         NEW gone \in Seq(Conversations), NEW u, u = AllClosed(t, gone)
  PROVE  StoreTrue(u, live \ ToSet(gone), rec, forg, b) /\ Tracked(u) = Tracked(t)
<1> DEFINE n == Len(gone)
           Step(f, k) == [j \in 0..k |-> IF j = 0 THEN t ELSE Closed(f[j - 1], gone[j])]
           after == CHOOSE f : f = Step(f, n)
<1>1. n \in Nat /\ DOMAIN gone = 1..n /\ \A k \in 1..n : gone[k] \in Conversations
  OBVIOUS
<1>2. u = after[n]
  BY DEF AllClosed
<1>3. \E f : f = Step(f, n)
  <2> DEFINE T == {k \in 0..n : \E f : f = Step(f, k)}
  <2>1. 0 \in T
    <3> DEFINE f == [j \in 0..0 |-> t]
    <3>1. f = Step(f, 0)
      OBVIOUS
    <3>2. 0 \in 0..n
      BY <1>1
    <3> QED
      BY <3>1, <3>2
  <2>2. \A k \in 0..n : k \in T /\ k < n => k + 1 \in T
    <3> SUFFICES ASSUME NEW k \in 0..n, k < n, NEW f, f = Step(f, k) PROVE k + 1 \in T
      OBVIOUS
    <3> DEFINE h == [j \in 0..(k + 1) |-> IF j = k + 1 THEN Closed(f[k], gone[k + 1]) ELSE f[j]]
    <3>1. \A j \in 0..k : f[j] = IF j = 0 THEN t ELSE Closed(f[j - 1], gone[j])
      OBVIOUS
    <3>2. \A j \in 0..(k + 1) : h[j] = IF j = 0 THEN t ELSE Closed(h[j - 1], gone[j])
      <4> TAKE j \in 0..(k + 1)
      <4>1. CASE j = 0
        <5>1. 0 \in 0..(k + 1) /\ 0 # k + 1 /\ 0 \in 0..k
          BY <1>1
        <5>2. h[0] = f[0] /\ f[0] = t
          BY <3>1, <5>1
        <5> QED
          BY <4>1, <5>2
      <4>2. CASE j # 0 /\ j # k + 1
        <5>1. j \in 0..k /\ j - 1 \in 0..(k + 1) /\ j - 1 # k + 1
          BY <1>1, <4>2
        <5>2. h[j] = f[j] /\ h[j - 1] = f[j - 1]
          BY <4>2, <5>1
        <5>3. f[j] = Closed(f[j - 1], gone[j])
          BY <3>1, <4>2, <5>1
        <5> QED
          BY <4>2, <5>2, <5>3
      <4>3. CASE j = k + 1
        <5>1. j # 0 /\ j - 1 = k /\ k \in 0..(k + 1) /\ k # k + 1
          BY <1>1, <4>3
        <5>2. h[k] = f[k] /\ h[j] = Closed(f[k], gone[k + 1])
          BY <4>3, <5>1
        <5> QED
          BY <4>3, <5>1, <5>2
      <4> QED
        BY <4>1, <4>2, <4>3
    <3>3. h = [j \in 0..(k + 1) |-> h[j]]
      OBVIOUS
    <3>4. Step(h, k + 1) = [j \in 0..(k + 1) |-> h[j]]
      BY <3>2
    <3>5. k + 1 \in 0..n
      BY <1>1
    <3>6. h = Step(h, k + 1)
      BY <3>3, <3>4
    <3> HIDE DEF Step, h
    <3> QED
      BY <3>5, <3>6
  <2> HIDE DEF T
  <2>3. 0..n \subseteq T
    BY <1>1, <2>1, <2>2, UpTo
  <2>4. n \in T
    BY <1>1, <2>3
  <2> QED
    BY <2>4 DEF T
<1>4. after = Step(after, n)
  <2> HIDE DEF Step
  <2> QED
    BY <1>3
<1> HIDE DEF after
<1>5. \A k \in 0..n : after[k] = IF k = 0 THEN t ELSE Closed(after[k - 1], gone[k])
  BY <1>4
<1> DEFINE some(k) == {gone[j] : j \in 1..k}
           R == {k \in 0..n : StoreTrue(after[k], live \ some(k), rec, forg, b) /\ Tracked(after[k]) = Tracked(t)}
<1>6. 0 \in R
  <2>1. 0 \in 0..n /\ live \ some(0) = live
    BY <1>1
  <2>2. after[0] = t
    BY <1>5, <2>1
  <2> QED
    BY <2>1, <2>2
<1>7. \A k \in 0..n : k \in R /\ k < n => k + 1 \in R
  <2> SUFFICES ASSUME NEW k \in 0..n, k < n, StoreTrue(after[k], live \ some(k), rec, forg, b),
                      Tracked(after[k]) = Tracked(t)
               PROVE  k + 1 \in R
    OBVIOUS
  <2>1. k + 1 \in 0..n /\ k + 1 # 0 /\ (k + 1) - 1 = k /\ k + 1 \in 1..n
    BY <1>1
  <2>2. after[k + 1] = Closed(after[k], gone[k + 1])
    BY <1>5, <2>1
  <2>3. gone[k + 1] \in Conversations
    BY <1>1, <2>1
  <2>4. some(k + 1) = some(k) \cup {gone[k + 1]}
    <3>1. 1..(k + 1) = (1..k) \cup {k + 1}
      BY <1>1
    <3> QED
      BY <3>1
  <2>5. live \ some(k + 1) = (live \ some(k)) \ {gone[k + 1]}
    BY <2>4
  <2>6. live \ some(k) \subseteq Conversations
    OBVIOUS
  <2> HIDE DEF some
  <2>7. /\ StoreTrue(after[k + 1], (live \ some(k)) \ {gone[k + 1]}, rec, forg, b)
        /\ Tracked(after[k + 1]) = Tracked(after[k])
    <3> DEFINE l == live \ some(k)
               v == after[k]
               w == after[k + 1]
               s == gone[k + 1]
    <3>1. l \subseteq Conversations /\ StoreTrue(v, l, rec, forg, b) /\ s \in Conversations /\ w = Closed(v, s)
      BY <2>2, <2>3, <2>6
    <3> HIDE DEF l, v, w, s
    <3>2. StoreTrue(w, l \ {s}, rec, forg, b) /\ Tracked(w) = Tracked(v)
      BY <3>1, ClosedFacts
    <3> QED
      BY <3>2 DEF l, v, w, s
  <2> QED
    BY <2>1, <2>5, <2>7
<1> HIDE DEF R
<1>8. 0..n \subseteq R
  BY <1>1, <1>6, <1>7, UpTo
<1>9. n \in R
  BY <1>1, <1>8
<1>10. ToSet(gone) = some(n)
  BY <1>1 DEF ToSet
<1> QED
  BY <1>2, <1>9, <1>10 DEF R
-----------------------------------------------------------------------------
(* The actions. *)

LEMMA InvNow ==
  ASSUME TimingsInv
  PROVE  /\ StoreTrue(store, counted, recorded, forgotten, begun) /\ store \in Stores
         /\ Sound(store, counted, recorded, forgotten) /\ Balanced(store, begun)
         /\ Histories(recorded, forgotten) /\ begun \in [Kinds -> Nat]
         /\ counted \subseteq Conversations /\ recorded \in Seq(Records)
<1>1. StoreTrue(store, counted, recorded, forgotten, begun) /\ Histories(recorded, forgotten)
      /\ begun \in [Kinds -> Nat] /\ RuntimeFits
  BY DEF TimingsInv
<1>2. counted \subseteq Conversations
  BY <1>1 DEF RuntimeFits, ToSet
<1> QED
  BY <1>1, <1>2 DEF StoreTrue, Sound, Histories


\* When the table is full there is one to forget: the others are open, and s is open besides.
LEMMA RoomForOne ==
  ASSUME TimingsInv, NEW s \in Conversations, IsOpen(s)
  PROVE  Room(store, s)
<1> SUFFICES ASSUME s \notin Tracked(store), Len(store.table) >= MaxTracked,
                    \A i \in DOMAIN store.table : ~store.table[i].closed
             PROVE  FALSE
  BY DEF Room
<1> DEFINE n == Len(store.table)
<1>1. store \in Stores /\ SessionsApart(store) /\ LiveAre(store, counted)
  BY InvNow DEF Sound, TableFits
<1>2. DOMAIN store.table = 1..n /\ n \in Nat /\ \A i \in 1..n : store.table[i].session \in Conversations
  BY <1>1, TableDomain DEF Rows
<1>3. /\ open \in Seq(Conversations) /\ Len(open) <= MaxLive /\ counted \subseteq ToSet(open)
      /\ Len(open) \in Nat /\ DOMAIN open = 1..Len(open)
  BY DEF TimingsInv, RuntimeFits
<1>4. PICK p \in 1..Len(open) : open[p] = s
  BY DEF IsOpen, Contains
<1>5. \A i \in 1..n : \E k \in 1..Len(open) \ {p} : open[k] = store.table[i].session
  <2> TAKE i \in 1..n
  <2>1. store.table[i].session \in counted
    BY <1>1, <1>2 DEF LiveAre
  <2>2. PICK k \in 1..Len(open) : open[k] = store.table[i].session
    BY <1>3, <2>1 DEF ToSet
  <2>3. k # p
    BY <1>1, <1>4, <2>2, TrackedSessions
  <2> QED
    BY <2>2, <2>3
<1> DEFINE f == [i \in 1..n |-> CHOOSE k \in 1..Len(open) \ {p} : open[k] = store.table[i].session]
           T == 1..Len(open) \ {p}
<1>6. \A i \in 1..n : f[i] \in T /\ open[f[i]] = store.table[i].session
  BY <1>5
<1>7. f \in Injection(1..n, T)
  <2>1. f \in [1..n -> T]
    BY <1>6
  <2>2. \A i, j \in 1..n : f[i] = f[j] => i = j
    <3> HIDE DEF f, n, T
    <3> QED
      BY <1>1, <1>2, <1>6 DEF SessionsApart
  <2> HIDE DEF f, T, n
  <2> QED
    BY <2>1, <2>2 DEF Injection, IsInjective
<1>8. IsFiniteSet(1..Len(open)) /\ Cardinality(1..Len(open)) = Len(open)
  BY <1>3, FS_Interval
<1>9. IsFiniteSet(T) /\ Cardinality(T) = Len(open) - 1
  BY <1>4, <1>8, FS_RemoveElement, FS_Subset
<1>10. Cardinality(1..n) = n
  BY <1>2, FS_Interval
<1>11. Cardinality(1..n) <= Cardinality(T)
  <2> HIDE DEF T, n, f
  <2> QED
    BY <1>7, <1>9, FS_Injection
<1> QED
  BY <1>2, <1>3, <1>9, <1>10, <1>11, TimingsAssumption

\* What a step of the store keeps, with what it notes.
StoreKeeps ==
  /\ StoreTrue(store', counted', recorded', forgotten', begun')
  /\ Histories(recorded', forgotten') /\ begun' \in [Kinds -> Nat]

LEMMA BothKeep ==
  ASSUME StoreKeeps, RuntimeFits'
  PROVE  TimingsInv'
BY DEF StoreKeeps, TimingsInv

LEMMA Noted ==
  ASSUME NoteForgotten
  PROVE  forgotten' = Forgets(store, store', forgotten, Len(recorded'))
BY DEF NoteForgotten, Forgets

\* A tool or a command begins.
LEMMA OpenedKeeps ==
  ASSUME TimingsInv, NEW span \in Spans, span.session = NoOne, NEW kind, kind = span.key[1],
         store' = Begin(store, span), NoteForgotten, Began(kind), UNCHANGED <<recorded, counted>>
  PROVE  /\ StoreKeeps /\ forgotten' = forgotten
         /\ Len(store'.spans) \in DOMAIN store'.spans /\ store'.spans[Len(store'.spans)] = span
<1> DEFINE b == [begun EXCEPT ![span.key[1]] = @ + 1]
<1>1. Opens(store, store', span, counted, recorded, forgotten, b)
  BY InvNow, BeginFacts
<1>2. begun' = b
  BY DEF Began
<1>3. forgotten' = forgotten
  <2>1. forgotten' = Forgets(store, store', forgotten, Len(recorded))
    BY Noted
  <2>2. Tracked(store) \subseteq Tracked(store')
    BY <1>1 DEF Opens
  <2> QED
    BY <2>1, <2>2, InvNow, NobodyForgotten
<1>4. b \in [Kinds -> Nat]
  BY InvNow, SpanKinds
<1> HIDE DEF b
<1> QED
  BY <1>1, <1>2, <1>3, <1>4, InvNow DEF Opens, StoreKeeps

LEMMA PromptKeeps ==
  ASSUME TimingsInv, NEW s \in Conversations, Prompt(s)
  PROVE  TimingsInv'
<1> DEFINE w == Interned(store, s)
           span == Span(<<"turn", s>>, "total", s, turns + 1)
           g == Forgets(store, w, forgotten, Len(recorded))
           live == counted \cup {s}
           b == [begun EXCEPT ![span.key[1]] = @ + 1]
<1>1. RuntimeFits /\ turns \in Nat /\ counted' = live
  BY DEF Prompt, TimingsInv, RuntimeFits
<1>2. Room(store, s)
  BY RoomForOne DEF Prompt
<1>3. Welcomes(store, w, s, counted, recorded, g)
  <2>1. w = Interned(store, s) /\ g = Forgets(store, w, forgotten, Len(recorded))
    OBVIOUS
  <2> HIDE DEF w, g
  <2> QED
    BY <1>2, <2>1, InvNow, InternedSound
<1>4. span \in Spans /\ span.session = s /\ span.key[1] = "turn"
  BY <1>1, TimingsAssumption DEF Span, Spans, SpanFits, Keys, Names, Legs
<1>5. store' = Begin(w, span) /\ begun' = b /\ recorded' = recorded
  BY <1>4 DEF Prompt, Began
<1>6. live \subseteq Conversations
  BY InvNow
<1>7. b \in [Kinds -> Nat]
  BY <1>4, InvNow DEF Kinds
<1>12. forgotten' = Forgets(store, store', forgotten, Len(recorded))
  BY <1>5, Noted DEF Prompt
<1>13. g = Forgets(store, w, forgotten, Len(recorded))
  OBVIOUS
<1>14. b = [begun EXCEPT ![span.key[1]] = @ + 1] /\ s \in live
  OBVIOUS
<1> HIDE DEF w, span, g, live, b
<1>8. StoreTrue(w, live, recorded, g, begun) /\ Histories(recorded, g)
  <2>1. w.spans = store.spans /\ w.figures = store.figures
    BY <1>3 DEF Welcomes
  <2>2. Balanced(w, begun)
    BY <2>1, InvNow DEF Balanced, Told, Open
  <2>3. Sound(w, live, recorded, g)
    BY <1>3 DEF Welcomes, live
  <2> QED
    BY <1>3, <2>2, <2>3 DEF Sound, StoreTrue, Welcomes
<1>9. Opens(w, store', span, live, recorded, g, b)
  BY <1>4, <1>5, <1>6, <1>8, <1>14, InvNow, BeginFacts
<1>10. forgotten' = g
  BY <1>9, <1>12, <1>13 DEF Opens, Forgets
<1>11. RuntimeFits'
  <2>1. /\ open' = open /\ turns' = turns + 1 /\ prompts' = [prompts EXCEPT ![s] = Append(@, turns + 1)]
        /\ counted' = counted \cup {s}
    BY DEF Prompt
  <2>2. s \in ToSet(open)
    BY <1>1 DEF Prompt, IsOpen, Contains, ToSet, RuntimeFits
  <2>3. prompts' \in [Conversations -> Seq(Nat)]
    BY <1>1, <2>1 DEF RuntimeFits
  <2>4. turns' \in 0..MaxTurns
    BY <1>1, <2>1, TimingsAssumption DEF Prompt, RuntimeFits
  <2> QED
    BY <1>1, <2>1, <2>2, <2>3, <2>4 DEF RuntimeFits
<1> QED
  BY <1>1, <1>5, <1>7, <1>8, <1>9, <1>10, <1>11, BothKeep DEF Opens, StoreKeeps

LEMMA MessageUpdateKeeps ==
  ASSUME TimingsInv, NEW s \in Conversations, MessageUpdate(s)
  PROVE  TimingsInv'
<1> DEFINE d == Head(prompts[s])
           q == [i \in DOMAIN store.spans |->
                   IF store.spans[i].name = "total" /\ store.spans[i].turn = slot[s] /\ store.spans[i].delta = 0
                   THEN [store.spans[i] EXCEPT !.delta = d] ELSE store.spans[i]]
           n == Len(store.spans)
<1>1. store' = [store EXCEPT !.spans = q]
      /\ UNCHANGED <<open, prompts, turns, recorded, begun, forgotten, counted>>
  BY DEF MessageUpdate
<1>2. store \in Stores /\ DOMAIN store.spans = 1..n /\ n \in Nat /\ \A i \in 1..n : store.spans[i] \in Spans
  BY InvNow, TableDomain
<1>3. d \in Nat
  <2>1. prompts \in [Conversations -> Seq(Nat)]
    BY DEF TimingsInv, RuntimeFits
  <2> QED
    BY <2>1 DEF MessageUpdate
<1> HIDE DEF d
<1>4. ASSUME NEW i \in 1..n
      PROVE  q[i] \in Spans /\ q[i].key = store.spans[i].key /\ q[i].session = store.spans[i].session
  <2> DEFINE e == store.spans[i]
             r == [e EXCEPT !.delta = d]
  <2>1. e \in Spans
    BY <1>2
  <2>2. q[i] \in {e, r}
    BY <1>2
  <2>8. e = store.spans[i]
    OBVIOUS
  <2> HIDE DEF e, q
  <2>3. e \in [key : Keys, name : Names, session : Conversations \cup {NoOne}, turn : Nat, delta : Nat] /\ SpanFits(e)
    BY <2>1 DEF Spans
  <2>4. /\ r \in [key : Keys, name : Names, session : Conversations \cup {NoOne}, turn : Nat, delta : Nat]
        /\ r.key = e.key /\ r.session = e.session /\ r.name = e.name
    BY <1>3, <2>3
  <2> HIDE DEF r
  <2>5. SpanFits(r)
    BY <2>3, <2>4 DEF SpanFits
  <2>6. r \in Spans
    BY <2>4, <2>5 DEF Spans
  <2>7. q[i] \in Spans /\ q[i].key = e.key /\ q[i].session = e.session
    BY <2>1, <2>2, <2>4, <2>6
  <2> QED
    BY <2>7, <2>8
<1>5. DOMAIN q = 1..n /\ q \in Seq(Spans)
  <2>1. q \in [1..n -> Spans]
    BY <1>2, <1>4
  <2> HIDE DEF q, n
  <2> QED
    BY <1>2, <2>1
<1> HIDE DEF q
<1>6. store'.spans = q /\ store'.figures = store.figures
  BY <1>1, <1>2 DEF Stores
<1>7. SpansFit(store', counted)
  <2>1. SpansFit(store, counted)
    BY InvNow DEF Sound
  <2> QED
    BY <1>2, <1>4, <1>5, <1>6, <2>1 DEF SpansFit
<1>8. Sound(store', counted, recorded, forgotten)
  BY <1>1, <1>5, <1>7, InvNow, SpansAside
<1>9. Balanced(store', begun)
  <2>1. \A kind : {i \in DOMAIN q : q[i].key[1] = kind} = {i \in DOMAIN store.spans : store.spans[i].key[1] = kind}
    BY <1>2, <1>4, <1>5
  <2>2. \A kind : Open(store', kind) = Open(store, kind)
    BY <1>6, <2>1 DEF Open
  <2>3. \A name : Told(store', name) = Told(store, name)
    BY <1>6 DEF Told
  <2> QED
    BY <2>2, <2>3, InvNow DEF Balanced
<1>10. StoreKeeps
  BY <1>1, <1>8, <1>9, InvNow DEF StoreKeeps, StoreTrue, Sound
<1>11. RuntimeFits'
  BY <1>1 DEF TimingsInv, RuntimeFits
<1> QED
  BY <1>10, <1>11, BothKeep

\* The store is left as it is.
LEMMA StoreApart ==
  ASSUME TimingsInv, UNCHANGED <<store, recorded, begun, forgotten, counted>>, RuntimeFits'
  PROVE  TimingsInv'
<1>1. StoreKeeps
  BY InvNow DEF StoreKeeps
<1> QED
  BY <1>1, BothKeep

LEMMA PromptEndsKeeps ==
  ASSUME TimingsInv, NEW s \in Conversations, PromptEnds(s)
  PROVE  TimingsInv'
<1>1. /\ UNCHANGED <<store, recorded, begun, forgotten, counted, open, turns>>
      /\ prompts[s] # <<>> /\ prompts' = [prompts EXCEPT ![s] = Tail(@)]
  BY DEF PromptEnds
<1>2. RuntimeFits
  BY DEF TimingsInv
<1>3. prompts' \in [Conversations -> Seq(Nat)]
  <2>1. prompts \in [Conversations -> Seq(Nat)]
    BY <1>2 DEF RuntimeFits
  <2>2. Tail(prompts[s]) \in Seq(Nat)
    BY <1>1, <2>1
  <2> QED
    BY <1>1, <2>1, <2>2
<1>4. RuntimeFits'
  BY <1>1, <1>2, <1>3 DEF RuntimeFits
<1> QED
  BY <1>1, <1>4, StoreApart

LEMMA OpenSessionKeeps ==
  ASSUME TimingsInv, NEW s \in Conversations, OpenSession(s)
  PROVE  TimingsInv'
<1>1. /\ UNCHANGED <<store, recorded, begun, forgotten, counted, turns, prompts>>
      /\ open' = Append(open, s) /\ Len(open) < MaxLive /\ ~IsOpen(s)
  BY DEF OpenSession
<1>2. RuntimeFits /\ open \in Seq(Conversations) /\ Len(open) \in Nat
  BY DEF TimingsInv, RuntimeFits
<1>3. /\ open' \in Seq(Conversations) /\ Len(open') = Len(open) + 1 /\ DOMAIN open' = 1..(Len(open) + 1)
      /\ DOMAIN open = 1..Len(open)
      /\ open'[Len(open) + 1] = s /\ \A i \in 1..Len(open) : open'[i] = open[i]
  BY <1>1, <1>2
<1>4. Len(open') <= MaxLive
  BY <1>1, <1>2, <1>3, TimingsAssumption
<1>5. \A i \in 1..Len(open) : open[i] # s
  BY <1>1 DEF IsOpen, Contains
<1>6. ASSUME NEW i \in 1..(Len(open) + 1), NEW j \in 1..(Len(open) + 1), open'[i] = open'[j]
      PROVE  i = j
  <2>1. CASE i \in 1..Len(open) /\ j \in 1..Len(open)
    BY <1>2, <1>3, <1>6, <2>1 DEF RuntimeFits
  <2>2. CASE i = Len(open) + 1 /\ j \in 1..Len(open)
    BY <1>3, <1>5, <1>6, <2>2
  <2>3. CASE j = Len(open) + 1 /\ i \in 1..Len(open)
    BY <1>3, <1>5, <1>6, <2>3
  <2>4. CASE i = Len(open) + 1 /\ j = Len(open) + 1
    BY <2>4
  <2> QED
    BY <1>2, <2>1, <2>2, <2>3, <2>4
<1>7. counted' \subseteq ToSet(open')
  <2>1. \A x \in ToSet(open) : x \in ToSet(open')
    BY <1>3 DEF ToSet
  <2> QED
    BY <1>1, <1>2, <2>1 DEF RuntimeFits
<1>8. RuntimeFits'
  BY <1>1, <1>2, <1>3, <1>4, <1>6, <1>7 DEF RuntimeFits
<1> QED
  BY <1>1, <1>8, StoreApart

LEMMA RuntimeApart ==
  ASSUME TimingsInv, UNCHANGED <<open, turns, prompts, counted>>
  PROVE  RuntimeFits'
BY DEF TimingsInv, RuntimeFits

LEMMA BootKeeps ==
  ASSUME TimingsInv, Boot
  PROVE  TimingsInv'
BY RuntimeApart, StoreApart DEF Boot

LEMMA SettleKeeps ==
  ASSUME TimingsInv, NEW s \in Conversations, Settle(s)
  PROVE  TimingsInv'
<1> DEFINE i == OpenUnder(store, <<"turn", s>>)
           span == store.spans[i]
           w == Without(store, i)
           x == Interned(w, s)
<1>1. UNCHANGED <<open, turns, begun, counted>> /\ prompts' = [prompts EXCEPT ![s] = <<>>] /\ NoteForgotten
  BY DEF Settle
<1>2. RuntimeFits'
  <2>1. RuntimeFits /\ prompts \in [Conversations -> Seq(Nat)]
    BY DEF TimingsInv, RuntimeFits
  <2>2. prompts' \in [Conversations -> Seq(Nat)]
    BY <1>1, <2>1
  <2> QED
    BY <1>1, <2>1, <2>2 DEF RuntimeFits
<1>3. forgotten' = Forgets(store, store', forgotten, Len(recorded'))
  BY <1>1, Noted
<1>4. CASE i = 0
  <2>1. store' = store /\ recorded' = recorded
    BY <1>4 DEF Settle
  <2>2. forgotten' = forgotten
    BY <1>3, <2>1, InvNow, NobodyForgotten
  <2> QED
    BY <1>1, <1>2, <2>1, <2>2, StoreApart
<1>5. CASE i # 0
  <2>1. /\ store' = RecordLegs(x, span)
        /\ recorded' = recorded \o [k \in DOMAIN LegsOf(span) |-> Entry(LegsOf(span)[k], s, span)]
    BY <1>5 DEF Settle
  <2>2. i \in 1..Len(store.spans) /\ span.key = <<"turn", s>>
    BY <1>5, InvNow, OpenUnderFact
  <2>3. w = Without(store, i) /\ x = Interned(w, s) /\ span = store.spans[i]
    OBVIOUS
  <2> HIDE DEF i, span, w, x
  <2>4. span \in Spans /\ i \in DOMAIN store.spans
    BY <2>2, <2>3, InvNow, TableDomain
  <2>5. span.session = s /\ span.name = "total"
    BY <2>2, <2>4 DEF Spans, SpanFits
  <2>6. s \in counted
    BY <2>3, <2>4, <2>5, InvNow, TimingsAssumption DEF Sound, SpansFit
  <2>7. Sound(w, counted, recorded, forgotten) /\ w.figures = store.figures /\ Tracked(w) = Tracked(store)
    BY <2>2, <2>3, InvNow, WithoutFacts
  <2>8. PlaceOf(w, s) # 0
    <3>1. w \in Stores /\ \E j \in DOMAIN w.table : w.table[j].session = s
      BY <2>6, <2>7 DEF Sound, LiveAre
    <3> QED
      BY <3>1, PlaceOfFact
  <2>9. Enters(w, x, s, counted, recorded, forgotten) /\ s \in Tracked(w)
    BY <2>3, <2>7, <2>8, InternedKnown
  <2>10. counted \cup {s} = counted
    BY <2>6
  <2>11. Sound(x, counted, recorded, forgotten) /\ Len(x.table) >= 1 /\ s = x.table[Len(x.table)].session
         /\ Tracked(x) = Tracked(store) /\ x.spans = w.spans /\ x.figures = store.figures
    BY <2>7, <2>9, <2>10 DEF Enters
  <2>12. AddsTurn(x, store', counted, recorded', forgotten)
    BY <2>1, <2>4, <2>11, InvNow, RecordLegsFacts
  <2>13. forgotten' = forgotten
    <3>1. Histories(recorded', forgotten) /\ Tracked(store) \subseteq Tracked(store')
      BY <2>11, <2>12 DEF AddsTurn
    <3> QED
      BY <1>3, <3>1, NobodyForgotten
  <2>14. \A n \in FourNames : Told(store', n) = Told(store, n) + (IF n = span.name THEN 1 ELSE 0)
    <3>1. \A n : Told(x, n) = Told(store, n)
      BY <2>11 DEF Told
    <3> QED
      BY <2>5, <2>12, <3>1 DEF AddsTurn
  <2>15. Sound(store', counted, recorded', forgotten) /\ store'.spans = w.spans
    BY <2>11, <2>12 DEF AddsTurn
  <2>16. StoreTrue(store', counted, recorded', forgotten, begun)
    BY <2>2, <2>3, <2>14, <2>15, InvNow, TakenOut
  <2>17. StoreKeeps
    BY <1>1, <2>12, <2>13, <2>16, InvNow DEF StoreKeeps, AddsTurn
  <2> QED
    BY <1>2, <2>17, BothKeep
<1> QED
  BY <1>4, <1>5

LEMMA ToolSpan ==
  ASSUME NEW c \in ToolCalls, NEW span, span = Span(<<"tool", c>>, "tool", NoOne, 0)
  PROVE  span \in Spans /\ span.session = NoOne /\ span.key[1] = "tool"
BY DEF Span, Spans, SpanFits, Keys, Names

LEMMA CommandSpan ==
  ASSUME NEW q \in Requests, NEW name \in {"unknown", "command"},
         NEW span, span = Span(<<"command", q>>, name, NoOne, 0)
  PROVE  /\ span \in Spans /\ span.session = NoOne /\ span.key = <<"command", q>> /\ span.key[1] = "command"
         /\ span.name = name
BY DEF Span, Spans, SpanFits, Keys, Names

LEMMA ToolStartKeeps ==
  ASSUME TimingsInv, NEW c \in ToolCalls, NEW s \in Conversations, ToolStart(c, s)
  PROVE  TimingsInv'
<1> DEFINE span == Span(<<"tool", c>>, "tool", NoOne, 0)
<1>1. /\ store' = Begin(store, span) /\ Began("tool") /\ NoteForgotten
      /\ UNCHANGED <<open, turns, prompts, recorded, counted>>
  BY DEF ToolStart
<1>2. span \in Spans /\ span.session = NoOne /\ span.key[1] = "tool"
  BY ToolSpan
<1> HIDE DEF span
<1>3. StoreKeeps
  BY <1>1, <1>2, OpenedKeeps
<1> QED
  BY <1>1, <1>3, RuntimeApart, BothKeep

LEMMA HandleKeeps ==
  ASSUME TimingsInv, NEW q \in Requests, Handle(q)
  PROVE  TimingsInv'
<1> DEFINE span == Span(<<"command", q>>, "command", NoOne, 0)
<1>1. /\ store' = Begin(store, span) /\ Began("command") /\ NoteForgotten
      /\ UNCHANGED <<open, turns, prompts, recorded, counted>>
  BY DEF Handle
<1>2. span \in Spans /\ span.session = NoOne /\ span.key[1] = "command"
  BY CommandSpan
<1> HIDE DEF span
<1>3. StoreKeeps
  BY <1>1, <1>2, OpenedKeeps
<1> QED
  BY <1>1, <1>3, RuntimeApart, BothKeep

LEMMA EndedKeeps ==
  ASSUME TimingsInv, NEW key, Ended(key), UNCHANGED <<open, turns, prompts, begun, forgotten, counted>>
  PROVE  TimingsInv'
<1> DEFINE i == OpenUnder(store, key)
           span == store.spans[i]
<1>1. CASE i = 0
  BY <1>1, RuntimeApart, StoreApart DEF Ended
<1>2. CASE i # 0
  <2>1. /\ store' = Record(Without(store, i), span.name, 0, span)
        /\ recorded' = Append(recorded, Entry(span.name, NoOne, span))
    BY <1>2 DEF Ended
  <2>2. i \in 1..Len(store.spans) /\ span = store.spans[i]
    BY <1>2, InvNow, OpenUnderFact
  <2> HIDE DEF i, span
  <2>5. EndsSpan(store, store', i, span, recorded, recorded')
    BY <2>1, <2>2 DEF EndsSpan
  <2>3. StoreTrue(store', counted, recorded', forgotten, begun) /\ Histories(recorded', forgotten)
    BY <2>5, InvNow, EndedFacts DEF EndsWell
  <2>4. StoreKeeps
    BY <2>3, InvNow DEF StoreKeeps
  <2> QED
    BY <2>4, RuntimeApart, BothKeep
<1> QED
  BY <1>1, <1>2

LEMMA ToolEndKeeps ==
  ASSUME TimingsInv, NEW c \in ToolCalls, ToolEnd(c)
  PROVE  TimingsInv'
BY EndedKeeps DEF ToolEnd

LEMMA FinishKeeps ==
  ASSUME TimingsInv, NEW q \in Requests, Finish(q)
  PROVE  TimingsInv'
BY EndedKeeps DEF Finish

\* The span that was just opened is the one that is found.
LEMMA RefuseKeeps ==
  ASSUME TimingsInv, NEW q \in Requests, Refuse(q)
  PROVE  TimingsInv'
<1>1. UNCHANGED <<open, prompts, turns, counted>> /\ Began("command") /\ NoteForgotten
  BY DEF Refuse
<1>2. PICK name \in {"unknown", "command"} :
        LET opened == Begin(store, Span(<<"command", q>>, name, NoOne, 0))
            i == OpenUnder(opened, <<"command", q>>)
            span == opened.spans[i]
        IN store' = Record(Without(opened, i), name, 0, span) /\ recorded' = Append(recorded, Entry(name, NoOne, span))
  BY DEF Refuse
<1> DEFINE first == Span(<<"command", q>>, name, NoOne, 0)
           opened == Begin(store, first)
           i == OpenUnder(opened, <<"command", q>>)
           span == opened.spans[i]
           b == [begun EXCEPT ![first.key[1]] = @ + 1]
<1>3. store' = Record(Without(opened, i), name, 0, span) /\ recorded' = Append(recorded, Entry(name, NoOne, span))
  BY <1>2
<1>4. /\ first \in Spans /\ first.session = NoOne /\ first.key = <<"command", q>> /\ first.key[1] = "command"
      /\ first.name = name
  <2> HIDE DEF opened, i, span, b
  <2> QED
    BY CommandSpan
<1>5. opened = Begin(store, first) /\ i = OpenUnder(opened, <<"command", q>>) /\ span = opened.spans[i]
      /\ b = [begun EXCEPT ![first.key[1]] = @ + 1]
  OBVIOUS
<1> HIDE DEF first, opened, i, span, b
<1>6. Opens(store, opened, first, counted, recorded, forgotten, b)
  BY <1>4, <1>5, InvNow, BeginFacts
<1>7. /\ StoreTrue(opened, counted, recorded, forgotten, b) /\ opened \in Stores /\ Tracked(opened) = Tracked(store)
      /\ Len(opened.spans) \in DOMAIN opened.spans /\ opened.spans[Len(opened.spans)] = first
  BY <1>6 DEF Opens, StoreTrue
<1>8. i \in 1..Len(opened.spans) /\ span.key = <<"command", q>>
  BY <1>4, <1>5, <1>7, OpenUnderFact
<1>9. span = first
  <2>1. i \in DOMAIN opened.spans
    BY <1>7, <1>8, TableDomain
  <2>2. i = Len(opened.spans)
    BY <1>4, <1>5, <1>7, <1>8, <2>1 DEF StoreTrue, SpansFit
  <2> QED
    BY <1>5, <1>7, <2>2
<1>10. store' = Record(Without(opened, i), span.name, 0, span) /\ recorded' = Append(recorded, Entry(span.name, NoOne, span))
  BY <1>3, <1>4, <1>9
<1>11. /\ StoreTrue(store', counted, recorded', forgotten, b) /\ Histories(recorded', forgotten)
       /\ Tracked(store') = Tracked(opened)
  <2>1. Histories(recorded, forgotten)
    BY InvNow
  <2>2. StoreTrue(opened, counted, recorded, forgotten, b)
    BY <1>7
  <2>3. EndsSpan(opened, store', i, span, recorded, recorded')
    BY <1>5, <1>8, <1>10 DEF EndsSpan
  <2> QED
    BY <2>1, <2>2, <2>3, EndedFacts DEF EndsWell
<1>12. forgotten' = forgotten
  <2>1. Tracked(store) \subseteq Tracked(store')
    BY <1>7, <1>11
  <2> QED
    BY <1>1, <1>11, <2>1, Noted, NobodyForgotten
<1>13. begun' = b /\ b \in [Kinds -> Nat]
  BY <1>1, <1>4, <1>5, InvNow DEF Began, Kinds
<1>14. StoreKeeps
  BY <1>1, <1>11, <1>12, <1>13 DEF StoreKeeps
<1> QED
  BY <1>1, <1>14, RuntimeApart, BothKeep

\* Whoever goes away is closed, one after the other.
LEMMA GoAwayKeeps ==
  ASSUME TimingsInv, NEW b, b = begun', b \in [Kinds -> Nat], NEW t, NEW gone \in Seq(Conversations), GoAway(t, gone),
         StoreTrue(t, counted, recorded, forgotten, b), Tracked(t) = Tracked(store)
  PROVE  StoreKeeps /\ prompts' \in [Conversations -> Seq(Nat)] /\ turns' = turns
<1>1. /\ store' = AllClosed(t, gone) /\ counted' = counted \ ToSet(gone) /\ NoteForgotten
      /\ UNCHANGED <<turns, recorded>>
      /\ prompts' = [s \in Conversations |-> IF Contains(gone, s) THEN <<>> ELSE prompts[s]]
  BY DEF GoAway
<1>2. StoreTrue(store', counted', recorded, forgotten, b) /\ Tracked(store') = Tracked(t)
  <2>1. StoreTrue(store', counted \ ToSet(gone), recorded, forgotten, b) /\ Tracked(store') = Tracked(t)
    BY <1>1, InvNow, AllClosedFacts
  <2> QED
    BY <1>1, <2>1
<1>4. forgotten' = forgotten
  <2>1. Tracked(store) \subseteq Tracked(store')
    BY <1>2
  <2>2. forgotten' = Forgets(store, store', forgotten, Len(recorded))
    BY <1>1, Noted
  <2> QED
    BY <2>1, <2>2, InvNow, NobodyForgotten
<1>5. StoreKeeps
  BY <1>1, <1>2, <1>4, InvNow DEF StoreKeeps
<1>6. prompts' \in [Conversations -> Seq(Nat)]
  <2>1. prompts \in [Conversations -> Seq(Nat)]
    BY DEF TimingsInv, RuntimeFits
  <2> QED
    BY <1>1, <2>1
<1> QED
  BY <1>1, <1>5, <1>6

LEMMA CloseSessionKeeps ==
  ASSUME TimingsInv, NEW s \in Conversations, CloseSession(s)
  PROVE  TimingsInv'
<1>1. GoAway(store, <<s>>) /\ begun' = begun
  BY DEF CloseSession
<1>2. PICK i \in DOMAIN open : open[i] = s /\ open' = RemoveAt(open, i)
  BY DEF CloseSession
<1>3. /\ RuntimeFits /\ open \in Seq(Conversations) /\ Len(open) \in Nat /\ Len(open) <= MaxLive
      /\ DOMAIN open = 1..Len(open) /\ counted \subseteq ToSet(open)
  BY DEF TimingsInv, RuntimeFits
<1>4. /\ open' \in Seq(Conversations) /\ Len(open') = Len(open) - 1
      /\ \A k \in 1..(Len(open) - 1) : open'[k] = IF k < i THEN open[k] ELSE open[k + 1]
  BY <1>2, <1>3, RemoveAtFacts
<1>5. StoreKeeps /\ prompts' \in [Conversations -> Seq(Nat)] /\ turns' = turns
  <2>1. <<s>> \in Seq(Conversations)
    OBVIOUS
  <2> QED
    BY <1>1, <2>1, InvNow, GoAwayKeeps
<1>6. counted' = counted \ {s}
  <2>1. counted' = counted \ ToSet(<<s>>)
    BY <1>1 DEF GoAway
  <2>2. ToSet(<<s>>) = {s}
    BY DEF ToSet
  <2> QED
    BY <2>1, <2>2
<1>7. DOMAIN open' = 1..(Len(open) - 1)
  BY <1>4
<1>8. counted' \subseteq ToSet(open')
  <2> SUFFICES ASSUME NEW x \in counted, x # s PROVE \E k \in DOMAIN open' : open'[k] = x
    BY <1>6 DEF ToSet
  <2>1. PICK k \in 1..Len(open) : open[k] = x
    BY <1>3 DEF ToSet
  <2>2. k # i
    BY <1>2, <2>1
  <2>3. CASE k < i
    <3>1. k \in 1..(Len(open) - 1)
      BY <1>2, <1>3, <2>3
    <3> QED
      BY <1>4, <1>7, <2>1, <2>3, <3>1
  <2>4. CASE ~(k < i)
    <3>1. k - 1 \in 1..(Len(open) - 1) /\ ~(k - 1 < i) /\ k - 1 + 1 = k
      BY <1>2, <1>3, <2>2, <2>4
    <3> QED
      BY <1>4, <1>7, <2>1, <3>1
  <2> QED
    BY <2>3, <2>4
<1>9. ASSUME NEW j \in 1..(Len(open) - 1), NEW k \in 1..(Len(open) - 1), open'[j] = open'[k]
      PROVE  j = k
  <2> DEFINE at(n) == IF n < i THEN n ELSE n + 1
  <2>1. \A n \in 1..(Len(open) - 1) : at(n) \in 1..Len(open) /\ open'[n] = open[at(n)]
    BY <1>2, <1>3, <1>4
  <2>2. at(j) = at(k) => j = k
    BY <1>2, <1>3
  <2> HIDE DEF at
  <2>3. at(j) = at(k)
    BY <1>3, <1>9, <2>1 DEF RuntimeFits
  <2> QED
    BY <2>2, <2>3
<1>10. turns' \in 0..MaxTurns /\ Len(open') <= MaxLive
  BY <1>3, <1>4, <1>5, TimingsAssumption DEF RuntimeFits
<1>11. RuntimeFits'
  BY <1>4, <1>5, <1>7, <1>8, <1>9, <1>10 DEF RuntimeFits
<1> QED
  BY <1>5, <1>11, BothKeep

LEMMA ShutdownAllKeeps ==
  ASSUME TimingsInv, NEW q \in Requests, ShutdownAll(q)
  PROVE  TimingsInv'
<1> DEFINE span == Span(<<"command", q>>, "command", NoOne, 0)
           t == Begin(store, span)
           b == [begun EXCEPT ![span.key[1]] = @ + 1]
<1>1. GoAway(t, open) /\ Began("command") /\ open' = <<>>
  BY DEF ShutdownAll
<1>2. span \in Spans /\ span.session = NoOne /\ span.key[1] = "command"
  BY CommandSpan
<1>3. t = Begin(store, span) /\ b = [begun EXCEPT ![span.key[1]] = @ + 1]
  OBVIOUS
<1> HIDE DEF span, t, b
<1>4. begun' = b /\ b \in [Kinds -> Nat]
  <2>1. begun' = b
    BY <1>1, <1>2, <1>3 DEF Began
  <2>2. b \in [Kinds -> Nat]
    BY <1>2, <1>3, InvNow DEF Kinds
  <2> QED
    BY <2>1, <2>2
<1>5. Opens(store, t, span, counted, recorded, forgotten, b)
  BY <1>2, <1>3, InvNow, BeginFacts
<1>6. StoreTrue(t, counted, recorded, forgotten, b) /\ Tracked(t) = Tracked(store)
  BY <1>5 DEF Opens
<1>7. RuntimeFits /\ open \in Seq(Conversations)
  BY DEF TimingsInv, RuntimeFits
<1>8. StoreKeeps /\ prompts' \in [Conversations -> Seq(Nat)] /\ turns' = turns
  BY <1>1, <1>4, <1>6, <1>7, GoAwayKeeps
<1>9. counted' = {}
  BY <1>1, <1>7 DEF GoAway, RuntimeFits
<1>10. RuntimeFits'
  <2>1. turns' \in 0..MaxTurns /\ 0 <= MaxLive /\ open' = <<>>
    BY <1>1, <1>7, <1>8, TimingsAssumption DEF RuntimeFits
  <2>2. open' \in Seq(Conversations) /\ Len(open') = 0 /\ DOMAIN open' = {}
    BY <2>1
  <2> QED
    BY <1>8, <1>9, <2>1, <2>2 DEF RuntimeFits
<1> QED
  BY <1>8, <1>10, BothKeep

LEMMA InitHolds == TimingsInit => TimingsInv
<1> HAVE TimingsInit
<1>1. 0 \in 0..Capacity - 1 /\ 0 \in 0..Capacity /\ 0 < Capacity /\ MaxLive \in Nat /\ 0 <= MaxLive
  BY TimingsAssumption
<1>2. store \in Stores
  <2>1. NoFigures \in Figures
    BY DEF NoFigures, Figures
  <2>2. EmptySlot \in RingSlots
    BY DEF EmptySlot, RingSlots, Names
  <2> QED
    BY <1>1, <2>1, <2>2 DEF TimingsInit, NewStore, Stores
<1>3. /\ store.spans = <<>> /\ store.table = <<>> /\ store.free = <<>> /\ store.nextIndex = 1
      /\ store.ringFilled = 0 /\ store.ringNext = 0 /\ store.figures = [n \in Names |-> NoFigures]
      /\ recorded = <<>> /\ forgotten = [s \in Conversations |-> 0] /\ counted = {} /\ open = <<>>
      /\ begun = [n \in Kinds |-> 0] /\ turns = 0 /\ prompts = [s \in Conversations |-> <<>>]
  BY DEF TimingsInit, NewStore, Kinds
<1>4. DOMAIN store.spans = {} /\ DOMAIN store.table = {} /\ DOMAIN store.free = {} /\ DOMAIN recorded = {}
      /\ Len(recorded) = 0
  BY <1>3
<1>5. SpansFit(store, counted) /\ LiveAre(store, counted)
  <2>1. Len(store.spans) = 0 /\ 0 <= MaxOpenSpans
    BY <1>3, TimingsAssumption
  <2> QED
    BY <1>3, <1>4, <2>1 DEF SpansFit, LiveAre
<1>6. TableFits(store, recorded, forgotten)
  <2>1. SessionsApart(store) /\ IndexesApart(store) /\ FiguresTrue(store, recorded, forgotten)
        /\ OthersForgotten(store, recorded, forgotten)
    BY <1>4 DEF SessionsApart, IndexesApart, FiguresTrue, OthersForgotten
  <2>2. RingTrue(store, recorded, forgotten)
    BY <1>3, <1>4 DEF RingTrue
  <2>3. TableSized(store)
    <3>1. 0 <= MaxTracked /\ 1 <= MaxTracked + 1
      BY TimingsAssumption
    <3> QED
      BY <1>3, <3>1 DEF TableSized
  <2> QED
    BY <2>1, <2>2, <2>3 DEF TableFits
<1>7. Balanced(store, begun)
  <2>1. \A n \in Names : Told(store, n) = 0
    BY <1>3 DEF Told, NoFigures
  <2>2. \A kind : Open(store, kind) = 0
    <3>1. \A kind : {i \in DOMAIN store.spans : store.spans[i].key[1] = kind} = {}
      BY <1>4
    <3> QED
      BY <3>1, FS_EmptySet DEF Open
  <2> QED
    BY <1>3, <2>1, <2>2 DEF Balanced, Names, Legs, Kinds
<1>8. Histories(recorded, forgotten) /\ begun \in [Kinds -> Nat]
  BY <1>3, <1>4 DEF Histories
<1>9. RuntimeFits
  <2>1. <<>> \in Seq(Conversations) /\ <<>> \in Seq(Nat)
    OBVIOUS
  <2>2. DOMAIN open = {} /\ Len(open) = 0
    BY <1>3
  <2>3. turns \in 0..MaxTurns /\ 0 <= MaxLive
    BY <1>3, TimingsAssumption
  <2> QED
    BY <1>1, <1>3, <2>1, <2>2, <2>3 DEF RuntimeFits
<1> QED
  BY <1>2, <1>5, <1>6, <1>7, <1>8, <1>9 DEF TimingsInv, StoreTrue

\* Whatever happens, the store keeps to it, for any capacity of the ring, the table and the spans.
LEMMA StepKeeps ==
  ASSUME TimingsInv, [TimingsNext]_timingVars
  PROVE  TimingsInv'
<1>1. ASSUME NEW s \in Conversations, Prompt(s) \/ MessageUpdate(s) \/ PromptEnds(s) \/ Settle(s) PROVE TimingsInv'
  BY <1>1, PromptKeeps, MessageUpdateKeeps, PromptEndsKeeps, SettleKeeps
<1>2. ASSUME NEW c \in ToolCalls, ToolEnd(c) PROVE TimingsInv'
  BY <1>2, ToolEndKeeps
<1>3. ASSUME NEW c \in ToolCalls, NEW s \in Conversations, ToolStart(c, s) PROVE TimingsInv'
  BY <1>3, ToolStartKeeps
<1>4. CASE Boot
  BY <1>4, BootKeeps
<1>5. ASSUME NEW s \in Conversations, OpenSession(s) \/ CloseSession(s) PROVE TimingsInv'
  BY <1>5, OpenSessionKeeps, CloseSessionKeeps
<1>6. ASSUME NEW q \in Requests, Refuse(q) \/ Handle(q) \/ ShutdownAll(q) \/ Finish(q) PROVE TimingsInv'
  BY <1>6, RefuseKeeps, HandleKeeps, ShutdownAllKeeps, FinishKeeps
<1>7. CASE UNCHANGED timingVars
  BY <1>7, RuntimeApart, StoreApart DEF timingVars
<1> QED
  BY <1>1, <1>2, <1>3, <1>4, <1>5, <1>6, <1>7 DEF TimingsNext, PiNext, HostNext

\* The inductive invariant: what the store holds is what the history says it should.
THEOREM TimingsKeep == TimingsSpec => []TimingsInv
<1>1. TimingsInit => TimingsInv
  BY InitHolds
<1>2. TimingsInv /\ [TimingsNext]_timingVars => TimingsInv'
  BY StepKeeps
<1> QED
  BY <1>1, <1>2, PTL DEF TimingsSpec

\* The k-th slot that is read is the k-th there is.
LEMMA ReadPlace ==
  ASSUME NEW t \in Stores, t.ringFilled < Capacity => t.ringNext = t.ringFilled, NEW k \in 1..t.ringFilled
  PROVE  ((IF t.ringFilled < Capacity THEN 0 ELSE t.ringNext) + k - 1) % Capacity = At(t, k)
<1>1. /\ t.ringFilled \in 0..Capacity /\ t.ringNext \in 0..Capacity - 1 /\ Capacity \in Nat /\ Capacity > 0
  BY TableDomain, TimingsAssumption
<1>2. \A n \in 0..Capacity - 1 : n % Capacity = n
  BY <1>1
<1>3. \A n \in 0..Capacity - 1 : (n + Capacity) % Capacity = n
  BY <1>1
<1>4. CASE t.ringFilled < Capacity
  <2>1. k - 1 \in 0..Capacity - 1 /\ 0 + k - 1 = k - 1
    BY <1>1, <1>4
  <2>2. (0 + k - 1) % Capacity = k - 1
    BY <1>2, <2>1
  <2> QED
    BY <1>4, <2>2 DEF At
<1>5. CASE ~(t.ringFilled < Capacity)
  <2> DEFINE n == t.ringNext + k - 1
  <2>1. n \in 0..2 * Capacity - 1 /\ n \in Int
    BY <1>1, <1>5
  <2>2. At(t, k) = IF n < Capacity THEN n ELSE n - Capacity
    BY <1>1, <1>5, <2>1 DEF At
  <2> HIDE DEF n
  <2>3. CASE n < Capacity
    <3>1. n \in 0..Capacity - 1
      BY <1>1, <2>1, <2>3
    <3>2. n % Capacity = At(t, k)
      BY <1>2, <2>2, <2>3, <3>1
    <3> QED
      BY <1>5, <3>2 DEF n
  <2>4. CASE ~(n < Capacity)
    <3>1. n - Capacity \in 0..Capacity - 1 /\ (n - Capacity) + Capacity = n
      BY <1>1, <2>1, <2>4
    <3>2. n % Capacity = n - Capacity
      BY <1>3, <3>1
    <3>3. n % Capacity = At(t, k)
      BY <2>2, <2>4, <3>2
    <3> QED
      BY <1>5, <3>3 DEF n
  <2> QED
    BY <2>3, <2>4
<1> QED
  BY <1>4, <1>5

LEMMA InvTells == TimingsInv => RecentIsTrue
<1> HAVE TimingsInv
<1> DEFINE n == store.ringFilled
           from == IF store.ringFilled < Capacity THEN 0 ELSE store.ringNext
           Named(r) == [name |-> r.name, turn |-> r.turn,
                        session |-> IF \E i \in DOMAIN store.table : store.table[i].index = r.index
                                    THEN (CHOOSE e \in ToSet(store.table) : e.index = r.index).session
                                    ELSE NoOne]
           slotAt(k) == store.ring[(from + k - 1) % Capacity]
           of(k) == Len(recorded) - n + k
<1>1. store \in Stores /\ Histories(recorded, forgotten) /\ TableFits(store, recorded, forgotten)
  BY InvNow DEF Sound
<1>2. RingTrue(store, recorded, forgotten) /\ IndexesApart(store) /\ Len(recorded) \in Nat /\ recorded \in Seq(Records)
  BY <1>1 DEF TableFits, Histories
<1>3. ReadRing(store) = [k \in 1..n |-> Named(slotAt(k))]
  BY DEF ReadRing
<1>4. ASSUME NEW k \in 1..n PROVE Named(slotAt(k)) = Known(of(k))
  <2> DEFINE r == store.ring[At(store, k)]
             i == of(k)
             kept == recorded[i].session # NoOne /\ i > forgotten[recorded[i].session]
  <2>1. slotAt(k) = r
    BY <1>1, <1>2, ReadPlace DEF RingTrue
  <2>2. Tells(store, r, recorded, forgotten, i)
    BY <1>2 DEF RingTrue
  <2>3. i \in 1..Len(recorded) /\ r \in RingSlots
    BY <1>1, <1>2, RingPlaces
  <2>4. recorded[i] \in Records
    BY <1>2, <2>3
  <2> HIDE DEF r, i, Named, slotAt
  <2>5. Known(i) = [recorded[i] EXCEPT !.session = IF kept THEN recorded[i].session ELSE NoOne]
    BY <2>4 DEF Known, Records
  <2>6. Known(i) = [name |-> recorded[i].name, session |-> IF kept THEN recorded[i].session ELSE NoOne,
                    turn |-> recorded[i].turn]
    BY <2>4, <2>5 DEF Records
  <2>7. Named(r).session = IF kept THEN recorded[i].session ELSE NoOne
    <3>1. CASE kept
      <4>1. PICK j \in DOMAIN store.table :
              store.table[j].session = recorded[i].session /\ store.table[j].index = r.index
        BY <2>2, <3>1 DEF Tells
      <4> DEFINE e == CHOOSE e \in ToSet(store.table) : e.index = r.index
      <4>2. e \in ToSet(store.table) /\ e.index = r.index
        BY <4>1 DEF ToSet
      <4> HIDE DEF e
      <4>3. e = store.table[j]
        BY <1>2, <4>1, <4>2 DEF ToSet, IndexesApart
      <4>4. Named(r).session = e.session
        BY <4>1 DEF Named, e
      <4> QED
        BY <3>1, <4>1, <4>3, <4>4
    <3>2. CASE ~kept
      <4>1. r.index = 0
        BY <2>2, <3>2 DEF Tells
      <4>2. \A j \in DOMAIN store.table : store.table[j].index # 0
        BY <1>1, TableDomain DEF Rows
      <4>3. Named(r).session = NoOne
        BY <4>1, <4>2 DEF Named
      <4> QED
        BY <3>2, <4>3
    <3> QED
      BY <3>1, <3>2
  <2>8. Named(r) = [name |-> recorded[i].name, session |-> IF kept THEN recorded[i].session ELSE NoOne,
                    turn |-> recorded[i].turn]
    <3>1. Named(r) = [name |-> r.name, turn |-> r.turn, session |-> Named(r).session]
      BY DEF Named
    <3>2. r.name = recorded[i].name /\ r.turn = recorded[i].turn
      BY <2>2 DEF Tells
    <3> QED
      BY <2>7, <3>1, <3>2
  <2> QED
    BY <2>1, <2>6, <2>8 DEF i
<1> HIDE DEF Named, slotAt
<1>5. RecentIsTrue <=> ReadRing(store) = [k \in 1..n |-> Known(of(k))]
  BY DEF RecentIsTrue
<1> HIDE DEF of
<1> QED
  BY <1>3, <1>4, <1>5

\* TurnTimings!RecentIsTrue: what the report tells of the last spans is what was
\* recorded, each with the session that ran it, whatever was evicted and however
\* often the ring came round.
THEOREM RecentSpansAreTrue == TimingsSpec => []RecentIsTrue
BY TimingsKeep, InvTells, PTL

\* TurnTimings!TimingsTypeOK: no more spans are open and no more sessions tracked
\* than there is room for, and no index is past the size of the table, however many
\* sessions come and go.
THEOREM TimingsSized == TimingsSpec => []TimingsTypeOK
<1>1. TimingsInv => TimingsTypeOK
  <2> HAVE TimingsInv
  <2>1. SpansFit(store, counted) /\ TableSized(store) /\ store \in Stores /\ RuntimeFits
    BY InvNow DEF TimingsInv, Sound, TableFits
  <2>2. Len(store.spans) <= MaxOpenSpans /\ Len(store.table) <= MaxTracked
    BY <2>1 DEF SpansFit, TableSized
  <2>3. store.nextIndex \in Nat \ {0}
    BY <2>1 DEF Stores
  <2>4. store.nextIndex \in 1..MaxTracked + 1
    <3>1. store.nextIndex <= MaxTracked + 1
      BY <2>1 DEF TableSized
    <3>2. MaxTracked + 1 \in Nat
      BY TimingsAssumption
    <3> QED
      BY <2>3, <3>1, <3>2
  <2>5. ToSet(open) \subseteq Conversations
    BY <2>1 DEF RuntimeFits, ToSet
  <2> QED
    BY <2>1, <2>2, <2>4, <2>5 DEF RuntimeFits, TimingsTypeOK
<1> QED
  BY <1>1, TimingsKeep, PTL

LEMMA InvCounts == TimingsInv => NothingMiscounted
<1> HAVE TimingsInv
<1>1. Balanced(store, begun) /\ FiguresTrue(store, recorded, forgotten)
  BY InvNow DEF Sound, TableFits
<1>2. /\ begun["turn"] = Finished("total") + Unfinished("turn")
      /\ begun["tool"] = Finished("tool") + Unfinished("tool")
      /\ begun["command"] = Finished("command") + Finished("unknown") + Unfinished("command")
  BY <1>1 DEF Balanced, Told, Open, Finished, Unfinished
<1>3. \A e \in ToSet(store.table), leg \in Legs :
        e.turns[leg].count = Cardinality(Mine(recorded, forgotten, e.session, leg))
  BY <1>1 DEF FiguresTrue, ToSet
<1> QED
  BY <1>2, <1>3 DEF NothingMiscounted, Mine

\* TurnTimings!NothingMiscounted: what began is recorded once, abandoned once or
\* open, and the figures of a session are of its own turns.
THEOREM NothingIsMiscounted == TimingsSpec => []NothingMiscounted
BY TimingsKeep, InvCounts, PTL

\* TurnTimings!WatchedAreRemembered: a session that is open and was prompted keeps
\* its entry, whatever the others do.
THEOREM WatchedRemain == TimingsSpec => []WatchedAreRemembered
<1>1. TimingsInv => WatchedAreRemembered
  <2> HAVE TimingsInv
  <2> SUFFICES ASSUME NEW s \in counted PROVE \E e \in ToSet(store.table) : e.session = s /\ ~e.closed
    BY DEF WatchedAreRemembered
  <2>1. PICK i \in DOMAIN store.table : store.table[i].session = s /\ ~store.table[i].closed
    BY InvNow DEF Sound, LiveAre
  <2> QED
    BY <2>1 DEF ToSet
<1> QED
  BY <1>1, TimingsKeep, PTL

=============================================================================
