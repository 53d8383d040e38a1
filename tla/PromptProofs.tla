----------------------------- MODULE PromptProofs -----------------------------
(***************************************************************************)
(* PromptIntake for any messages, cap and bounds: prompts reach Pi one at a  *)
(* time and within the cap, and another program's append stops what would   *)
(* be written over it.                                                      *)
(*                                                                         *)
(* Composer for any tabs, words, files and bounds: what a person types is in *)
(* one place until Pi has it, the menu answers the mention it is open for,  *)
(* and a stop is refused no longer than its turn.                           *)
(***************************************************************************)
EXTENDS PromptIntake, Composer, FiniteSetTheorems, SequenceTheorems, WellFoundedInduction, TLAPS

-----------------------------------------------------------------------------
(* PromptIntake. *)

(* The inductive invariant. *)

InChain(chain, m) == \E i \in DOMAIN chain : chain[i] = m

Once(chain) == \A i, j \in DOMAIN chain : chain[i] = chain[j] => i = j

Precedes(chain, a, b) == \E i, j \in DOMAIN chain : i < j /\ chain[i] = a /\ chain[j] = b

\* The chain of preflights holds the prompts that wait or are on their way into Pi.
ChainFits ==
  /\ Once(preflights)
  /\ \A m \in Messages :
       InChain(preflights, m) <=> kind[m] = "prompt" /\ stage[m] \in {"waiting", "entering"}

\* Pi's queue holds the messages that were queued, each once.
QueueFits ==
  /\ Once(queue)
  /\ \A m \in Messages : InChain(queue, m) => stage[m] = "queued"

\* What will be queued has a position: a prompt without one finds Pi idle.
Claimed ==
  \A m \in Messages :
    /\ stage[m] = "waiting" => m \in claims
    /\ kind[m] = "queue" /\ stage[m] \in {"attaching", "entering"} => m \in claims
    /\ kind[m] = "prompt" /\ stage[m] = "attaching" => m \notin claims
    /\ stage[m] = "entering" /\ Present(m) /\ m \notin claims => phase # "run"

\* No prompt is on its way into Pi while one that was sent to the same SessionHost before
\* it has not finished.
InOrder ==
  \A a, b \in Messages : Precedes(preflights, a, b) /\ at[a] = at[b] => stage[b] # "entering"

FewClaims == IsFiniteSet(claims)

NoHostNoRun == ~live => phase = "idle"

Taken == ChainFits /\ QueueFits /\ Claimed /\ InOrder /\ FewClaims /\ QueueBounded /\ NoHostNoRun

-----------------------------------------------------------------------------
(* Sequences. *)

LEMMA RemoveAtFacts ==
  ASSUME NEW S, NEW q \in Seq(S), NEW i \in 1..Len(q)
  PROVE  /\ RemoveAt(q, i) \in Seq(S) /\ Len(RemoveAt(q, i)) = Len(q) - 1
         /\ \A k \in 1..(Len(q) - 1) : RemoveAt(q, i)[k] = IF k < i THEN q[k] ELSE q[k + 1]
<1> DEFINE ahead == SubSeq(q, 1, i - 1)
           back == SubSeq(q, i + 1, Len(q))
<1>1. ahead \in Seq(S) /\ Len(ahead) = i - 1 /\ \A k \in 1..(i - 1) : ahead[k] = q[k]
  OBVIOUS
<1>2. back \in Seq(S) /\ Len(back) = Len(q) - i /\ \A k \in 1..(Len(q) - i) : back[k] = q[i + k]
  OBVIOUS
<1>3. RemoveAt(q, i) = ahead \o back
  BY DEF RemoveAt
<1> HIDE DEF ahead, back
<1>4. ahead \o back \in Seq(S) /\ Len(ahead \o back) = Len(q) - 1
  <2>1. ahead \in Seq(S) /\ back \in Seq(S) =>
          ahead \o back \in Seq(S) /\ Len(ahead \o back) = Len(ahead) + Len(back)
    OBVIOUS
  <2>2. Len(q) \in Nat /\ i \in Nat
    OBVIOUS
  <2>3. Len(ahead) = i - 1 /\ Len(back) = Len(q) - i
    BY <1>1, <1>2
  <2>4. Len(ahead) + Len(back) = Len(q) - 1
    BY <2>2, <2>3
  <2>5. ahead \in Seq(S) /\ back \in Seq(S)
    BY <1>1, <1>2
  <2> QED
    BY <2>1, <2>4, <2>5
<1>5. ASSUME NEW k \in 1..(Len(q) - 1)
      PROVE  (ahead \o back)[k] = IF k < i THEN q[k] ELSE q[k + 1]
  <2>1. CASE k < i
    <3>1. k \in 1..(i - 1) /\ (ahead \o back)[k] = ahead[k]
      BY <1>1, <1>2, <2>1
    <3> QED
      BY <1>1, <2>1, <3>1
  <2>2. CASE ~(k < i)
    <3>1. k - (i - 1) \in 1..(Len(q) - i) /\ (ahead \o back)[k] = back[k - (i - 1)]
      BY <1>1, <1>2, <2>2
    <3>2. back[k - (i - 1)] = q[i + (k - (i - 1))] /\ i + (k - (i - 1)) = k + 1
      BY <1>2, <3>1
    <3> QED
      BY <2>2, <3>1, <3>2
  <2> QED
    BY <2>1, <2>2
<1> QED
  BY <1>3, <1>4, <1>5

\* Taking an element out leaves the others in their order.
LEMMA WithoutFacts ==
  ASSUME NEW S, NEW chain \in Seq(S), Once(chain), NEW m
  PROVE  /\ Without(chain, m) \in Seq(S) /\ Once(Without(chain, m))
         /\ \A x : InChain(Without(chain, m), x) <=> InChain(chain, x) /\ x # m
         /\ \A a, b : Precedes(Without(chain, m), a, b) => Precedes(chain, a, b)
<1> DEFINE r == Without(chain, m)
<1>1. CASE ~InChain(chain, m)
  <2>1. r = chain
    BY <1>1 DEF Without, InChain
  <2> QED
    BY <1>1, <2>1 DEF InChain
<1>2. CASE InChain(chain, m)
  <2>1. PICK i \in DOMAIN chain : chain[i] = m /\ r = RemoveAt(chain, i)
    BY <1>2 DEF Without, InChain
  <2>2. i \in 1..Len(chain) /\ DOMAIN chain = 1..Len(chain) /\ Len(chain) \in Nat
    OBVIOUS
  <2>3. /\ r \in Seq(S) /\ Len(r) = Len(chain) - 1
        /\ \A k \in 1..(Len(chain) - 1) : r[k] = IF k < i THEN chain[k] ELSE chain[k + 1]
    BY <2>1, <2>2, RemoveAtFacts
  <2>4. DOMAIN r = 1..(Len(chain) - 1)
    BY <2>3
  <2> DEFINE Was(k) == IF k < i THEN k ELSE k + 1
  <2>5. \A k \in DOMAIN r : Was(k) \in DOMAIN chain /\ Was(k) # i /\ r[k] = chain[Was(k)]
    BY <2>2, <2>3, <2>4
  <2>6. \A j, k \in DOMAIN r : (j < k => Was(j) < Was(k)) /\ (Was(j) = Was(k) => j = k)
    BY <2>2, <2>4
  <2>7. \A j \in DOMAIN chain : j # i => \E k \in DOMAIN r : Was(k) = j
    <3> TAKE j \in DOMAIN chain
    <3> HAVE j # i
    <3>1. CASE j < i
      <4>1. j \in DOMAIN r /\ Was(j) = j
        BY <2>2, <2>4, <3>1
      <4> QED
        BY <4>1
    <3>2. CASE j > i
      <4>1. j - 1 \in DOMAIN r /\ Was(j - 1) = j
        BY <2>2, <2>4, <3>2
      <4> QED
        BY <4>1
    <3> QED
      BY <2>2, <3>1, <3>2
  <2>8. r \in Seq(S) /\ r = Without(chain, m)
    BY <2>3
  <2> HIDE DEF Was, r
  <2>9. Once(r)
    BY <2>5, <2>6 DEF Once
  <2>10. ASSUME NEW x PROVE InChain(r, x) <=> InChain(chain, x) /\ x # m
    BY <2>1, <2>5, <2>7 DEF InChain, Once
  <2>11. ASSUME NEW a, NEW b, Precedes(r, a, b) PROVE Precedes(chain, a, b)
    BY <2>5, <2>6, <2>11 DEF Precedes
  <2> QED
    BY <2>8, <2>9, <2>10, <2>11
<1> QED
  BY <1>1, <1>2

\* A new element comes last.
LEMMA AppendFacts ==
  ASSUME NEW S, NEW chain \in Seq(S), NEW m \in S, Once(chain), ~InChain(chain, m)
  PROVE  /\ Append(chain, m) \in Seq(S) /\ Once(Append(chain, m)) /\ Len(Append(chain, m)) = Len(chain) + 1
         /\ \A x : InChain(Append(chain, m), x) <=> InChain(chain, x) \/ x = m
         /\ \A a, b : Precedes(Append(chain, m), a, b) => Precedes(chain, a, b) \/ (b = m /\ InChain(chain, a))
<1> DEFINE r == Append(chain, m)
<1>1. /\ r \in Seq(S) /\ DOMAIN r = 1..(Len(chain) + 1) /\ DOMAIN chain = 1..Len(chain) /\ Len(chain) \in Nat
      /\ \A i \in 1..Len(chain) : r[i] = chain[i]
      /\ r[Len(chain) + 1] = m /\ Len(r) = Len(chain) + 1
  OBVIOUS
<1>2. r = Append(chain, m)
  OBVIOUS
<1> HIDE DEF r
<1>3. Once(r)
  BY <1>1 DEF Once, InChain
<1>4. ASSUME NEW x PROVE InChain(r, x) <=> InChain(chain, x) \/ x = m
  BY <1>1 DEF InChain
<1>5. ASSUME NEW a, NEW b, Precedes(r, a, b) PROVE Precedes(chain, a, b) \/ (b = m /\ InChain(chain, a))
  <2>1. PICK i, j \in DOMAIN r : i < j /\ r[i] = a /\ r[j] = b
    BY <1>5 DEF Precedes
  <2>2. i \in DOMAIN chain /\ chain[i] = a
    BY <1>1, <2>1
  <2>3. CASE j = Len(chain) + 1
    BY <1>1, <2>1, <2>2, <2>3 DEF InChain
  <2>4. CASE j \in DOMAIN chain
    BY <1>1, <2>1, <2>2, <2>4 DEF Precedes
  <2> QED
    BY <1>1, <2>3, <2>4
<1> QED
  BY <1>1, <1>2, <1>3, <1>4, <1>5

LEMMA TailFacts ==
  ASSUME NEW S, NEW q \in Seq(S), q # <<>>, Once(q)
  PROVE  /\ Tail(q) \in Seq(S) /\ Len(Tail(q)) = Len(q) - 1 /\ Head(q) \in S /\ InChain(q, Head(q))
         /\ Once(Tail(q)) /\ \A x : InChain(Tail(q), x) => InChain(q, x) /\ x # Head(q)
<1>1. /\ Tail(q) \in Seq(S) /\ Len(Tail(q)) = Len(q) - 1 /\ Head(q) = q[1] /\ Len(q) \in Nat \ {0}
      /\ DOMAIN q = 1..Len(q) /\ DOMAIN Tail(q) = 1..(Len(q) - 1)
      /\ \A i \in 1..(Len(q) - 1) : Tail(q)[i] = q[i + 1]
  OBVIOUS
<1> DEFINE r == Tail(q)
<1>2. r = Tail(q)
  OBVIOUS
<1> HIDE DEF r
<1>3. Once(r)
  BY <1>1, <1>2 DEF Once
<1>4. ASSUME NEW x, InChain(r, x) PROVE InChain(q, x) /\ x # Head(q)
  <2>1. PICK i \in 1..(Len(q) - 1) : q[i + 1] = x
    BY <1>1, <1>2, <1>4 DEF InChain
  <2>2. i + 1 \in DOMAIN q /\ 1 \in DOMAIN q /\ i + 1 # 1
    BY <1>1, <2>1
  <2> QED
    BY <1>1, <2>1, <2>2 DEF InChain, Once
<1>5. Head(q) \in S /\ InChain(q, Head(q))
  BY <1>1 DEF InChain
<1> QED
  BY <1>1, <1>2, <1>3, <1>4, <1>5

LEMMA EmptyFacts ==
  ASSUME NEW S PROVE <<>> \in Seq(S) /\ Len(<<>>) = 0 /\ Once(<<>>) /\ \A x : ~InChain(<<>>, x)
  BY DEF Once, InChain

-----------------------------------------------------------------------------
(* Type correctness. *)

WatchTypeOK ==
  /\ since \subseteq {"own", "foreign"} /\ known \in BOOLEAN
  /\ unreadable \in 0..MaxUnreadable
  /\ unseen \in BOOLEAN /\ accused \subseteq SUBSET {"own", "foreign"}

MessageTypeOK ==
  /\ stage \in [Messages -> Stages]
  /\ kind \in [Messages -> {"prompt", "queue"}]
  /\ at \in [Messages -> 0..MaxOpenings]
  /\ preflights \in Seq(Messages) /\ claims \subseteq Messages
  /\ queue \in Seq(Messages)

LEMMA TypeParts == TypeOK => WatchTypeOK /\ MessageTypeOK
  BY DEF TypeOK, WatchTypeOK, MessageTypeOK

\* What the watch does with its variables.
LEMMA WatchType ==
  ASSUME TypeOK, NEW writers \in SUBSET {"own", "foreign"},
         Passes \/ Readable \/ Refuses \/ RecordWrites \/ Write(writers)
  PROVE  WatchTypeOK'
<1>1. unreadable < MaxUnreadable => unreadable + 1 \in 0..MaxUnreadable
  BY IntakeAssumption DEF TypeOK
<1>2. CASE Readable
  BY <1>2 DEF Readable, watchVars, TypeOK, WatchTypeOK
<1>3. CASE Unreadable
  BY <1>1, <1>3 DEF Unreadable, TypeOK, WatchTypeOK
<1>4. CASE Refuses
  BY <1>4 DEF Refuses, TypeOK, WatchTypeOK
<1>5. CASE RecordWrites
  BY <1>1, <1>5 DEF RecordWrites, TypeOK, WatchTypeOK
<1>6. CASE Write(writers)
  BY <1>6 DEF Write, TypeOK, WatchTypeOK
<1> QED
  BY <1>2, <1>3, <1>4, <1>5, <1>6 DEF Passes

LEMMA EnterType ==
  ASSUME TypeOK, ChainFits, NEW m \in Messages, NEW chain \in Seq(Messages), Once(chain),
         NEW held \in SUBSET Messages, Enter(m, chain, held), UNCHANGED <<kind, at, queue>>
  PROVE  MessageTypeOK' /\ WatchTypeOK'
<1>1. Without(chain, m) \in Seq(Messages)
  BY WithoutFacts
<1>2. WatchTypeOK'
  BY WatchType DEF Enter
<1>3. stage' \in [Messages -> Stages]
  BY DEF Enter, TypeOK, Stages
<1>4. preflights' \in Seq(Messages) /\ claims' \subseteq Messages
  BY <1>1 DEF Enter
<1> QED
  BY <1>2, <1>3, <1>4 DEF TypeOK, MessageTypeOK

LEMMA FinishType ==
  ASSUME TypeOK, ChainFits, NEW m \in Messages, NEW end \in {"queued", "sent", "refused"}, Finish(m, end)
  PROVE  (queue' \in Seq(Messages) => MessageTypeOK')
<1>1. Without(preflights, m) \in Seq(Messages)
  BY WithoutFacts DEF TypeOK, ChainFits
<1>2. stage' \in [Messages -> Stages]
  BY DEF Finish, TypeOK, Stages
<1> QED
  BY <1>1, <1>2 DEF Finish, TypeOK, MessageTypeOK

LEMMA DropType ==
  ASSUME TypeOK, DropQueue PROVE stage' \in [Messages -> Stages] /\ queue' \in Seq(Messages)
  BY EmptyFacts DEF DropQueue, TypeOK, Stages

LEMMA SendStepType ==
  ASSUME TypeOK, ChainFits, NEW m \in Messages,
         Send(m) \/ AttachmentsFail(m) \/ MessageAttached(m) \/ PromptAttached(m) \/ Proceed(m)
  PROVE  TypeOK'
<1>1. preflights \in Seq(Messages) /\ Once(preflights) /\ claims \subseteq Messages
  BY DEF TypeOK, ChainFits
<1>2. ASSUME MessageTypeOK', WatchTypeOK', UNCHANGED <<hostVars, phase, doing, mutations, foreign>>
      PROVE  TypeOK'
  BY <1>2 DEF TypeOK, MessageTypeOK, WatchTypeOK, hostVars
<1>3. CASE Send(m)
  <2>1. WatchTypeOK'
    BY <1>3, WatchType DEF Send
  <2>2. stage' \in [Messages -> Stages] /\ claims' \subseteq Messages
    <3>1. /\ \E end \in {"refused", "attaching"} : stage' = [stage EXCEPT ![m] = end]
          /\ claims' \in {claims, claims \cup {m}}
      BY <1>3 DEF Send
    <3> QED
      BY <3>1 DEF TypeOK, Stages
  <2>3. kind' \in [Messages -> {"prompt", "queue"}] /\ at' \in [Messages -> 0..MaxOpenings]
    <3>1. \E k \in {"prompt", "queue"} : kind' = [kind EXCEPT ![m] = k] /\ at' = [at EXCEPT ![m] = opening]
      BY <1>3 DEF Send
    <3> QED
      BY <3>1 DEF TypeOK
  <2> QED
    BY <1>2, <1>3, <2>1, <2>2, <2>3 DEF Send, piVars, TypeOK, MessageTypeOK
<1>4. CASE AttachmentsFail(m)
  <2>1. stage' \in [Messages -> Stages] /\ claims' \subseteq Messages
    BY <1>4 DEF AttachmentsFail, TypeOK, Stages
  <2>2. WatchTypeOK'
    BY <1>4 DEF AttachmentsFail, TypeOK, WatchTypeOK, watchVars
  <2> QED
    BY <1>2, <1>4, <2>1, <2>2 DEF AttachmentsFail, piVars, TypeOK, MessageTypeOK
<1>5. CASE MessageAttached(m) \/ Proceed(m)
  <2>1. Enter(m, preflights, claims) /\ UNCHANGED <<hostVars, kind, at, piVars, doing, mutations, foreign>>
    BY <1>5 DEF MessageAttached, Proceed
  <2>2. UNCHANGED <<kind, at, queue, phase>>
    BY <2>1 DEF piVars
  <2>3. MessageTypeOK' /\ WatchTypeOK'
    BY <1>1, <2>1, <2>2, EnterType
  <2> QED
    BY <1>2, <2>1, <2>2, <2>3
<1>6. CASE PromptAttached(m)
  <2> DEFINE chain == Append(preflights, m)
             held == IF Waits(m) THEN claims \cup {m} ELSE claims
  <2>1. UNCHANGED <<hostVars, kind, at, queue, phase, doing, mutations, foreign>>
    BY <1>6 DEF PromptAttached, piVars
  <2>2. ~InChain(preflights, m)
    BY <1>6 DEF PromptAttached, ChainFits
  <2>3. chain \in Seq(Messages) /\ Once(chain) /\ held \subseteq Messages
    BY <1>1, <2>2, AppendFacts
  <2>4. CASE Enter(m, chain, held)
    <3>1. MessageTypeOK' /\ WatchTypeOK'
      <4> HIDE DEF chain, held
      <4> QED
        BY <2>1, <2>3, <2>4, EnterType
    <3> QED
      BY <1>2, <2>1, <3>1
  <2>5. CASE ~Enter(m, chain, held)
    <3>1. /\ UNCHANGED watchVars /\ stage' \in [Messages -> Stages]
          /\ preflights' \in {preflights, chain} /\ claims' \in {claims, held}
      BY <1>6, <2>5 DEF PromptAttached, TypeOK, Stages
    <3>2. MessageTypeOK' /\ WatchTypeOK'
      BY <1>1, <2>1, <2>3, <3>1 DEF TypeOK, MessageTypeOK, WatchTypeOK, watchVars
    <3> QED
      BY <1>2, <2>1, <3>2
  <2> QED
    BY <2>4, <2>5
<1> QED
  BY <1>3, <1>4, <1>5, <1>6

LEMMA PiStepType ==
  ASSUME TypeOK, ChainFits, PiStep PROVE TypeOK'
<1>1. queue \in Seq(Messages)
  BY DEF TypeOK
<1>2. ASSUME MessageTypeOK', WatchTypeOK', phase' \in {"idle", "run", "compact"},
             UNCHANGED <<hostVars, doing, mutations, foreign>>
      PROVE  TypeOK'
  BY <1>2 DEF TypeOK, MessageTypeOK, WatchTypeOK, hostVars
<1>3. ASSUME NEW m \in Messages, PiQueues(m) PROVE TypeOK'
  <2>1. Finish(m, "queued") /\ queue' = Append(queue, m) /\ UNCHANGED <<phase, watchVars>>
    BY <1>3 DEF PiQueues
  <2>2. MessageTypeOK'
    BY <1>1, <2>1, FinishType
  <2>3. WatchTypeOK'
    BY <2>1 DEF watchVars, TypeOK, WatchTypeOK
  <2> QED
    BY <1>2, <2>1, <2>2, <2>3 DEF Finish, TypeOK
<1>4. ASSUME NEW m \in Messages, PiRuns(m) PROVE TypeOK'
  <2>1. Finish(m, "sent") /\ queue' = queue /\ phase' = "run" /\ Write({"own"})
    BY <1>4 DEF PiRuns
  <2>2. MessageTypeOK'
    BY <1>1, <2>1, FinishType
  <2>3. WatchTypeOK'
    BY <2>1, WatchType
  <2> QED
    BY <1>2, <2>1, <2>2, <2>3 DEF Finish
<1>5. ASSUME NEW m \in Messages, PiRejects(m) PROVE TypeOK'
  <2>1. Finish(m, "refused") /\ UNCHANGED <<queue, phase>> /\ \E writers \in {{}, {"own"}} : Write(writers)
    BY <1>5 DEF PiRejects, piVars
  <2>2. MessageTypeOK'
    BY <1>1, <2>1, FinishType
  <2>3. WatchTypeOK'
    BY <2>1, WatchType
  <2> QED
    BY <1>2, <2>1, <2>2, <2>3 DEF Finish, TypeOK
<1>6. CASE RunContinues
  <2>1. queue # <<>> /\ queue' = Tail(queue) /\ stage' = [stage EXCEPT ![Head(queue)] = "sent"] /\ Write({"own"})
        /\ UNCHANGED <<hostVars, kind, at, preflights, claims, phase, doing, mutations, foreign>>
    BY <1>6 DEF RunContinues
  <2>2. Tail(queue) \in Seq(Messages)
    BY <1>1, <2>1
  <2>3. WatchTypeOK'
    BY <2>1, WatchType
  <2>4. MessageTypeOK'
    BY <2>1, <2>2 DEF TypeOK, MessageTypeOK, Stages
  <2> QED
    BY <1>2, <2>1, <2>3, <2>4 DEF TypeOK
<1>7. CASE RunSettles
  <2>1. phase' = "idle" /\ RecordWrites /\ UNCHANGED <<hostVars, messageVars, queue, doing, mutations, foreign>>
    BY <1>7 DEF RunSettles
  <2>2. WatchTypeOK'
    BY <2>1, WatchType
  <2>3. MessageTypeOK'
    BY <2>1 DEF TypeOK, MessageTypeOK, messageVars
  <2> QED
    BY <1>2, <2>1, <2>2, <2>3
<1> QED
  BY <1>3, <1>4, <1>5, <1>6, <1>7 DEF PiStep

LEMMA MutationStepType ==
  ASSUME TypeOK, MutationStep PROVE TypeOK'
<1>1. ASSUME WatchTypeOK', Unmoved, phase' \in {"idle", "run", "compact"}, doing' \subseteq Operations,
             mutations' \in 0..MaxMutations
      PROVE  TypeOK'
  BY <1>1 DEF TypeOK, WatchTypeOK, Unmoved, hostVars, messageVars
<1>2. mutations < MaxMutations => mutations + 1 \in 0..MaxMutations
  BY IntakeAssumption DEF TypeOK
<1>3. ASSUME NEW op \in Operations, Begin(op) PROVE TypeOK'
  <2>1. WatchTypeOK'
    BY <1>3, WatchType DEF Begin
  <2> QED
    BY <1>1, <1>2, <1>3, <2>1 DEF Begin, TypeOK
<1>4. ASSUME NEW op \in Operations, End(op) PROVE TypeOK'
  <2>1. WatchTypeOK'
    BY <1>4, WatchType DEF End
  <2> QED
    BY <1>1, <1>4, <2>1 DEF End, TypeOK
<1>5. CASE SetThinkingLevel
  <2>1. CASE RecordWrites \/ Refuses
    <3>1. WatchTypeOK'
      BY <2>1, WatchType
    <3> QED
      BY <1>1, <1>2, <1>5, <3>1 DEF SetThinkingLevel, TypeOK
  <2>2. CASE ~(RecordWrites \/ Refuses)
    <3>1. /\ unreadable < MaxUnreadable /\ unreadable' = unreadable + 1
          /\ since' = {} /\ known' = TRUE /\ unseen' = FALSE /\ UNCHANGED accused
      BY <1>5, <2>2 DEF SetThinkingLevel
    <3>2. unreadable + 1 \in 0..MaxUnreadable /\ accused \subseteq SUBSET {"own", "foreign"}
      BY <3>1, IntakeAssumption DEF TypeOK
    <3>3. WatchTypeOK'
      BY <3>1, <3>2 DEF WatchTypeOK
    <3> QED
      BY <1>1, <1>2, <1>5, <3>3 DEF SetThinkingLevel, TypeOK
  <2> QED
    BY <2>1, <2>2
<1>6. CASE ModelWritten \/ ReloadWrites
  <2>1. WatchTypeOK'
    BY <1>6, WatchType DEF ModelWritten, ReloadWrites
  <2> QED
    BY <1>1, <1>6, <2>1 DEF ModelWritten, ReloadWrites, TypeOK, Operations
<1>7. CASE ModelFails \/ Installed
  <2>1. WatchTypeOK'
    BY <1>7 DEF ModelFails, Installed, watchVars, TypeOK, WatchTypeOK
  <2> QED
    BY <1>1, <1>7, <2>1 DEF ModelFails, Installed, TypeOK, Operations
<1> QED
  BY <1>3, <1>4, <1>5, <1>6, <1>7 DEF MutationStep

LEMMA TypeStep ==
  ASSUME TypeOK, ChainFits, [Next]_vars PROVE TypeOK'
<1>1. CASE Open
  <2>1. opening + 1 \in 0..MaxOpenings
    BY <1>1, IntakeAssumption DEF Open, TypeOK
  <2> QED
    BY <1>1, <2>1 DEF Open, TypeOK, messageVars, piVars
<1>2. CASE Close
  BY <1>2, DropType DEF Close, TypeOK
<1>3. CASE Abort
  BY <1>3, DropType DEF Abort, TypeOK, hostVars, watchVars
<1>4. CASE ForeignWrite
  <2>1. foreign + 1 \in 0..MaxForeign
    BY <1>4, IntakeAssumption DEF ForeignWrite, TypeOK
  <2> QED
    BY <1>4, <2>1 DEF ForeignWrite, TypeOK, hostVars, messageVars, piVars
<1>5. CASE UNCHANGED vars
  BY <1>5 DEF vars, hostVars, messageVars, piVars, watchVars, TypeOK
<1> QED
  BY <1>1, <1>2, <1>3, <1>4, <1>5, SendStepType, PiStepType, MutationStepType DEF Next, SendStep

LEMMA TypeInit == Init => TypeOK
<1> SUFFICES ASSUME Init PROVE TypeOK
  OBVIOUS
<1>1. preflights \in Seq(Messages) /\ queue \in Seq(Messages)
  BY EmptyFacts DEF Init
<1>2. stage \in [Messages -> Stages] /\ kind \in [Messages -> {"prompt", "queue"}]
      /\ at \in [Messages -> 0..MaxOpenings]
  BY IntakeAssumption DEF Init, Stages
<1>3. opening \in 0..MaxOpenings /\ mutations \in 0..MaxMutations /\ foreign \in 0..MaxForeign
      /\ unreadable \in 0..MaxUnreadable
  BY IntakeAssumption DEF Init
<1> QED
  BY <1>1, <1>2, <1>3 DEF Init, TypeOK


-----------------------------------------------------------------------------
(* One prompt at a time, and within the cap. *)

LEMMA ClaimedMore ==
  ASSUME NEW S, IsFiniteSet(S), NEW m
  PROVE  /\ IsFiniteSet(S \cup {m}) /\ Cardinality(S \cup {m}) <= Cardinality(S) + 1
         /\ IsFiniteSet(S \ {m}) /\ Cardinality(S \ {m}) <= Cardinality(S)
         /\ m \in S => Cardinality(S \ {m}) = Cardinality(S) - 1
         /\ Cardinality(S) \in Nat /\ Cardinality(S \ {m}) \in Nat /\ Cardinality(S \cup {m}) \in Nat
<1>1. /\ IsFiniteSet(S \cup {m}) /\ Cardinality(S \cup {m}) = IF m \in S THEN Cardinality(S) ELSE Cardinality(S) + 1
  BY FS_AddElement
<1>2. /\ IsFiniteSet(S \ {m}) /\ Cardinality(S \ {m}) = IF m \in S THEN Cardinality(S) - 1 ELSE Cardinality(S)
  BY FS_RemoveElement
<1>3. Cardinality(S) \in Nat /\ Cardinality(S \ {m}) \in Nat /\ Cardinality(S \cup {m}) \in Nat
  BY <1>1, <1>2, FS_CardinalityType
<1> QED
  BY <1>1, <1>2, <1>3

\* Nothing that a message is known by changes, and no run begins.
LEMMA TakenSame ==
  ASSUME Taken, UNCHANGED <<messageVars, queue>>, opening' = opening, live' = live,
         phase' = "run" => phase = "run", ~live => phase' = "idle"
  PROVE  Taken'
<1> USE DEF messageVars
<1>1. ChainFits' /\ QueueFits' /\ FewClaims' /\ QueueBounded'
  BY DEF Taken, ChainFits, QueueFits, FewClaims, QueueBounded, InChain, Once
<1>2. InOrder'
  BY DEF Taken, InOrder, Precedes
<1>3. Claimed'
  BY DEF Taken, Claimed, Present
<1> QED
  BY <1>1, <1>2, <1>3 DEF Taken, NoHostNoRun

\* What is queued in Pi is dropped.
LEMMA TakenDropped ==
  ASSUME TypeOK, Taken, DropQueue, UNCHANGED <<kind, at, preflights, claims, opening>>,
         live' => live, phase' = "run" => phase = "run", ~live' => phase' = "idle"
  PROVE  Taken'
<1>1. /\ queue' = <<>>
      /\ \A m \in Messages : stage'[m] = IF stage[m] = "queued" THEN "dropped" ELSE stage[m]
  BY DEF DropQueue, TypeOK
<1>2. ChainFits' /\ InOrder'
  BY <1>1 DEF Taken, ChainFits, InOrder, InChain, Once, Precedes
<1>3. QueueFits'
  BY <1>1, EmptyFacts DEF QueueFits
<1>4. Claimed'
  BY <1>1 DEF Taken, Claimed, Present
<1>5. FewClaims' /\ QueueBounded'
  <2>1. Len(queue') = 0 /\ Len(queue) \in Nat /\ Cardinality(claims) \in Nat
    BY <1>1, EmptyFacts, FS_CardinalityType DEF TypeOK, Taken, FewClaims
  <2>2. MaxQueued \in Nat
    BY IntakeAssumption
  <2>3. Len(queue') + Cardinality(claims') <= MaxQueued
    BY <2>1, <2>2 DEF Taken, QueueBounded
  <2>4. \A m \in claims : stage'[m] \in Pending
    BY <1>1 DEF Taken, QueueBounded, TypeOK, Pending
  <2> QED
    BY <2>3, <2>4 DEF Taken, QueueBounded, FewClaims
<1> QED
  BY <1>2, <1>3, <1>4, <1>5 DEF Taken, NoHostNoRun

\* A message enters Pi, or is refused on the threshold: `chain' and `held' are what the
\* chain of preflights and the claims are by then.
LEMMA TakenEntered ==
  ASSUME TypeOK, Taken, NEW m \in Messages, NEW chain \in Seq(Messages), NEW held,
         Enter(m, chain, held), UNCHANGED <<hostVars, kind, at, piVars>>,
         stage[m] \in {"attaching", "waiting"},
         Once(chain), InChain(chain, m) <=> kind[m] = "prompt",
         \A x \in Messages \ {m} : InChain(chain, x) <=> InChain(preflights, x),
         \A a, b \in Messages : Precedes(chain, a, b) => Precedes(preflights, a, b) \/ b = m,
         \A a \in Messages : Precedes(chain, a, m) => at[a] # at[m],
         held \in {claims, claims \cup {m}}, Len(queue) + Cardinality(held) <= MaxQueued,
         m \in held \/ (kind[m] = "prompt" /\ ~(Present(m) /\ phase = "run"))
  PROVE  Taken'
<1> USE DEF hostVars, piVars
<1>1. /\ stage \in [Messages -> Stages] /\ claims \subseteq Messages /\ IsFiniteSet(claims) /\ queue \in Seq(Messages)
  BY DEF TypeOK, Taken, FewClaims
<1>2. IsFiniteSet(held) /\ held \ {m} = claims \ {m}
  BY <1>1, ClaimedMore
<1>3. \A x \in claims : stage[x] \in Pending
  BY DEF Taken, QueueBounded
<1>4. ~InChain(queue, m)
  BY DEF Taken, QueueFits
<1>5. \A x \in Messages : x # m => stage'[x] = stage[x]
  BY <1>1 DEF Enter
<1>6. QueueFits' /\ NoHostNoRun'
  BY <1>4, <1>5 DEF Taken, QueueFits, NoHostNoRun
<1>7. CASE stage' = [stage EXCEPT ![m] = "entering"] /\ preflights' = chain /\ claims' = held
  <2>1. stage'[m] = "entering"
    BY <1>1, <1>7
  <2>2. ChainFits'
    BY <1>5, <1>7, <2>1 DEF Taken, ChainFits
  <2>3. InOrder'
    BY <1>5, <1>7 DEF Taken, InOrder
  <2>4. Claimed'
    BY <1>2, <1>5, <1>7, <2>1 DEF Taken, Claimed, Present
  <2>5. FewClaims' /\ QueueBounded'
    BY <1>1, <1>2, <1>3, <1>5, <1>7, <2>1 DEF FewClaims, QueueBounded, Pending
  <2> QED
    BY <1>6, <2>2, <2>3, <2>4, <2>5 DEF Taken
<1>8. CASE stage' = [stage EXCEPT ![m] = "refused"] /\ preflights' = Without(chain, m) /\ claims' = held \ {m}
  <2>1. stage'[m] = "refused"
    BY <1>1, <1>8
  <2> DEFINE r == Without(chain, m)
  <2>2. /\ Once(r) /\ \A x : InChain(r, x) <=> InChain(chain, x) /\ x # m
        /\ \A a, b : Precedes(r, a, b) => Precedes(chain, a, b)
    BY WithoutFacts
  <2>3. preflights' = r
    BY <1>8
  <2> HIDE DEF r
  <2>4. ChainFits'
    BY <1>5, <2>1, <2>2, <2>3 DEF Taken, ChainFits
  <2>5. InOrder'
    BY <1>5, <2>1, <2>2, <2>3 DEF Taken, InOrder
  <2>6. Claimed'
    BY <1>2, <1>5, <1>8, <2>1 DEF Taken, Claimed, Present
  <2>7. FewClaims' /\ QueueBounded'
    <3>1. /\ IsFiniteSet(held \ {m}) /\ Cardinality(held \ {m}) <= Cardinality(held)
          /\ Cardinality(held \ {m}) \in Nat /\ Cardinality(held) \in Nat
      BY <1>2, ClaimedMore
    <3>2. Len(queue) \in Nat /\ MaxQueued \in Nat
      BY <1>1, IntakeAssumption
    <3>3. Len(queue) + Cardinality(held \ {m}) <= MaxQueued
      BY <3>1, <3>2
    <3>4. \A x \in held \ {m} : stage'[x] \in Pending
      BY <1>1, <1>2, <1>3, <1>5
    <3> QED
      BY <1>8, <3>1, <3>3, <3>4 DEF FewClaims, QueueBounded
  <2> QED
    BY <1>6, <2>4, <2>5, <2>6, <2>7 DEF Taken
<1> QED
  BY <1>7, <1>8 DEF Enter


\* A message is sent, or its attachments fail.
LEMMA TakenSent ==
  ASSUME TypeOK, Taken, NEW m \in Messages, Send(m) \/ AttachmentsFail(m) PROVE Taken'
<1>1. /\ stage \in [Messages -> Stages] /\ kind \in [Messages -> {"prompt", "queue"}]
      /\ at \in [Messages -> 0..MaxOpenings] /\ claims \subseteq Messages /\ IsFiniteSet(claims)
  BY DEF TypeOK, Taken, FewClaims
<1>2. \A x \in claims : stage[x] \in Pending
  BY DEF Taken, QueueBounded
<1>3. UNCHANGED <<opening, live, preflights, phase, queue>>
  BY DEF Send, AttachmentsFail, hostVars, piVars
<1>4. /\ stage[m] \in {"new", "attaching"} /\ stage'[m] \in {"attaching", "refused"}
      /\ \A x \in Messages : x # m => stage'[x] = stage[x] /\ kind'[x] = kind[x] /\ at'[x] = at[x]
  BY <1>1 DEF Send, AttachmentsFail
<1>5. ~InChain(preflights, m) /\ ~InChain(queue, m)
  BY <1>4 DEF Taken, ChainFits, QueueFits
<1>6. ChainFits'
  BY <1>3, <1>4, <1>5 DEF Taken, ChainFits
<1>7. QueueFits' /\ NoHostNoRun'
  BY <1>3, <1>4, <1>5 DEF Taken, QueueFits, NoHostNoRun
<1>8. InOrder'
  <2>1. \A a, b \in Messages : Precedes(preflights, a, b) => a # m /\ b # m
    BY <1>5 DEF Precedes, InChain
  <2> QED
    BY <1>3, <1>4, <2>1 DEF Taken, InOrder
<1>9. \/ claims' = claims /\ m \notin claims /\ (stage'[m] = "refused" \/ kind'[m] = "prompt")
      \/ claims' = claims \cup {m} /\ ~Full /\ stage'[m] = "attaching" /\ kind'[m] = "queue"
      \/ claims' = claims \ {m} /\ stage'[m] = "refused"
  <2>1. CASE AttachmentsFail(m)
    BY <1>1, <2>1 DEF AttachmentsFail
  <2>2. CASE Send(m)
    <3>1. m \notin claims
      BY <1>2, <2>2 DEF Send, Pending
    <3>2. PICK k \in {"prompt", "queue"} :
            /\ kind' = [kind EXCEPT ![m] = k]
            /\ \/ stage' = [stage EXCEPT ![m] = "refused"] /\ UNCHANGED claims
               \/ /\ ~(k = "queue" /\ Full) /\ stage' = [stage EXCEPT ![m] = "attaching"]
                  /\ claims' = IF k = "queue" THEN claims \cup {m} ELSE claims
      BY <2>2 DEF Send
    <3> QED
      BY <1>1, <3>1, <3>2
  <2> QED
    BY <2>1, <2>2
<1>10. Claimed'
  BY <1>3, <1>4, <1>9 DEF Taken, Claimed, Present
<1>11. FewClaims' /\ QueueBounded'
  <2>1. /\ IsFiniteSet(claims') /\ Cardinality(claims') \in Nat /\ Cardinality(claims) \in Nat
        /\ Cardinality(claims') <= Cardinality(claims) \/ (~Full /\ Cardinality(claims') <= Cardinality(claims) + 1)
    <3>1. /\ Cardinality(claims) \in Nat /\ Cardinality(claims \ {m}) \in Nat /\ Cardinality(claims \cup {m}) \in Nat
          /\ IsFiniteSet(claims \cup {m}) /\ Cardinality(claims \cup {m}) <= Cardinality(claims) + 1
          /\ IsFiniteSet(claims \ {m}) /\ Cardinality(claims \ {m}) <= Cardinality(claims)
      BY <1>1, ClaimedMore
    <3>2. CASE claims' = claims
      BY <1>1, <3>1, <3>2
    <3> QED
      BY <1>9, <3>1, <3>2
  <2>2. Len(queue) \in Nat /\ MaxQueued \in Nat
    BY IntakeAssumption DEF TypeOK
  <2>3. Len(queue) + Cardinality(claims) <= MaxQueued
    BY DEF Taken, QueueBounded
  <2>4. Len(queue) + Cardinality(claims') <= MaxQueued
    BY <2>1, <2>2, <2>3 DEF Full
  <2>5. \A x \in claims' : stage'[x] \in Pending
    BY <1>1, <1>2, <1>4, <1>9 DEF Pending
  <2> QED
    BY <1>3, <2>1, <2>4, <2>5 DEF FewClaims, QueueBounded
<1> QED
  BY <1>6, <1>7, <1>8, <1>10, <1>11 DEF Taken

LEMMA TakenAttached ==
  ASSUME TypeOK, Taken, NEW m \in Messages, MessageAttached(m) PROVE Taken'
<1>1. /\ preflights \in Seq(Messages) /\ Once(preflights) /\ m \in claims
      /\ kind[m] = "queue" /\ stage[m] = "attaching" /\ ~InChain(preflights, m)
      /\ Len(queue) + Cardinality(claims) <= MaxQueued
  BY DEF TypeOK, Taken, ChainFits, MessageAttached, Claimed, QueueBounded
<1>2. Enter(m, preflights, claims) /\ UNCHANGED <<hostVars, kind, at, piVars>>
  BY DEF MessageAttached
<1>3. \A a \in Messages : ~Precedes(preflights, a, m)
  BY <1>1 DEF Precedes, InChain
<1> QED
  BY <1>1, <1>2, <1>3, TakenEntered

LEMMA TakenProceeded ==
  ASSUME TypeOK, Taken, NEW m \in Messages, Proceed(m) PROVE Taken'
<1>1. /\ preflights \in Seq(Messages) /\ Once(preflights) /\ stage[m] = "waiting" /\ m \in claims
      /\ Len(queue) + Cardinality(claims) <= MaxQueued
  BY DEF TypeOK, Taken, ChainFits, Proceed, First, Claimed, QueueBounded
<1>2. Enter(m, preflights, claims) /\ UNCHANGED <<hostVars, kind, at, piVars>>
  BY DEF Proceed
<1>3. InChain(preflights, m) <=> kind[m] = "prompt"
  BY <1>1 DEF Taken, ChainFits
<1>4. ASSUME NEW a \in Messages, Precedes(preflights, a, m) PROVE at[a] # at[m]
  <2>1. PICK i, j \in DOMAIN preflights : i < j /\ preflights[i] = a /\ preflights[j] = m
    BY <1>4 DEF Precedes
  <2>2. a # m
    BY <1>1, <2>1 DEF Once
  <2>3. ASSUME at[a] = at[m] PROVE FALSE
    <3>1. i \in ActiveBefore(m)
      BY <2>1, <2>2, <2>3 DEF ActiveBefore
    <3>2. PICK k \in DOMAIN preflights : preflights[k] = m /\ k < i
      BY <3>1 DEF Proceed, First
    <3>3. k = j
      BY <1>1, <2>1, <3>2 DEF Once
    <3> QED
      BY <1>1, <2>1, <3>2, <3>3
  <2> QED
    BY <2>3
<1> QED
  BY <1>1, <1>2, <1>3, <1>4, TakenEntered

LEMMA TakenPrompted ==
  ASSUME TypeOK, Taken, NEW m \in Messages, PromptAttached(m) PROVE Taken'
<1> DEFINE chain == Append(preflights, m)
           held == IF Waits(m) THEN claims \cup {m} ELSE claims
<1>1. /\ preflights \in Seq(Messages) /\ Once(preflights) /\ stage[m] = "attaching" /\ kind[m] = "prompt"
      /\ ~InChain(preflights, m) /\ IsFiniteSet(claims) /\ claims \subseteq Messages /\ queue \in Seq(Messages)
      /\ stage \in [Messages -> Stages]
  BY DEF TypeOK, Taken, ChainFits, PromptAttached, FewClaims
<1>2. /\ chain \in Seq(Messages) /\ Once(chain)
      /\ \A x : InChain(chain, x) <=> InChain(preflights, x) \/ x = m
      /\ \A a, b : Precedes(chain, a, b) => Precedes(preflights, a, b) \/ (b = m /\ InChain(preflights, a))
  BY <1>1, AppendFacts
<1>3. UNCHANGED <<hostVars, kind, at, piVars>>
  BY DEF PromptAttached
<1>4. \/ /\ stage' = [stage EXCEPT ![m] = "refused"] /\ UNCHANGED <<preflights, claims>>
      \/ /\ ~(Waits(m) /\ Full) /\ ActiveBefore(m) # {}
         /\ stage' = [stage EXCEPT ![m] = "waiting"] /\ preflights' = chain /\ claims' = held
      \/ /\ ~(Waits(m) /\ Full) /\ ActiveBefore(m) = {} /\ Enter(m, chain, held)
  BY DEF PromptAttached
<1>5. /\ IsFiniteSet(held) /\ Cardinality(held) \in Nat
      /\ ~(Waits(m) /\ Full) => Len(queue) + Cardinality(held) <= MaxQueued
  <2>1. Len(queue) + Cardinality(claims) <= MaxQueued
    BY DEF Taken, QueueBounded
  <2>2. Len(queue) \in Nat /\ MaxQueued \in Nat
    BY <1>1, IntakeAssumption
  <2>3. /\ Cardinality(claims) \in Nat /\ Cardinality(claims \cup {m}) \in Nat /\ IsFiniteSet(claims \cup {m})
        /\ Cardinality(claims \cup {m}) <= Cardinality(claims) + 1
    BY <1>1, ClaimedMore
  <2>4. CASE Waits(m)
    <3>1. held = claims \cup {m}
      BY <2>4
    <3>2. ~Full => Len(queue) + Cardinality(claims \cup {m}) <= MaxQueued
      BY <2>1, <2>2, <2>3 DEF Full
    <3> QED
      BY <2>3, <2>4, <3>1, <3>2
  <2>5. CASE ~Waits(m)
    <3>1. held = claims
      BY <2>5
    <3> QED
      BY <1>1, <2>1, <2>3, <3>1
  <2> QED
    BY <2>4, <2>5
<1>6. held \in {claims, claims \cup {m}} /\ (Waits(m) => m \in held)
  OBVIOUS
<1>7. ActiveBefore(m) # {} => Waits(m)
  BY DEF Waits
<1>8. \A x \in claims : stage[x] \in Pending
  BY DEF Taken, QueueBounded
<1>9. \A a, b \in Messages : Precedes(preflights, a, b) => InChain(preflights, a) /\ InChain(preflights, b)
  BY DEF Precedes, InChain
<1> HIDE DEF chain, held
<1>10. CASE stage' = [stage EXCEPT ![m] = "refused"] /\ UNCHANGED <<preflights, claims>>
  <2>1. stage'[m] = "refused" /\ \A x \in Messages : x # m => stage'[x] = stage[x]
    BY <1>1, <1>10
  <2>2. m \notin claims
    BY <1>1 DEF Taken, Claimed
  <2>3. ChainFits' /\ QueueFits' /\ NoHostNoRun'
    BY <1>1, <1>3, <1>10, <2>1 DEF Taken, ChainFits, QueueFits, NoHostNoRun, hostVars, piVars
  <2>4. InOrder' /\ Claimed'
    BY <1>3, <1>10, <2>1 DEF Taken, InOrder, Claimed, Present, hostVars, piVars
  <2>5. FewClaims' /\ QueueBounded'
    BY <1>1, <1>3, <1>10, <2>1, <2>2 DEF Taken, FewClaims, QueueBounded, piVars
  <2> QED
    BY <2>3, <2>4, <2>5 DEF Taken
<1>11. CASE /\ ~(Waits(m) /\ Full) /\ ActiveBefore(m) # {}
            /\ stage' = [stage EXCEPT ![m] = "waiting"] /\ preflights' = chain /\ claims' = held
  <2>1. stage'[m] = "waiting" /\ m \in held /\ \A x \in Messages : x # m => stage'[x] = stage[x]
    BY <1>1, <1>6, <1>7, <1>11
  <2>2. ~InChain(queue, m)
    BY <1>1 DEF Taken, QueueFits
  <2>3. ChainFits'
    BY <1>1, <1>2, <1>3, <1>11, <2>1 DEF Taken, ChainFits
  <2>4. QueueFits' /\ NoHostNoRun'
    BY <1>3, <1>11, <2>1, <2>2 DEF Taken, QueueFits, NoHostNoRun, hostVars, piVars
  <2>5. InOrder'
    BY <1>2, <1>3, <1>11, <2>1 DEF Taken, InOrder
  <2>6. Claimed'
    BY <1>3, <1>6, <1>11, <2>1 DEF Taken, Claimed, Present, hostVars, piVars
  <2>7. FewClaims' /\ QueueBounded'
    BY <1>3, <1>5, <1>6, <1>8, <1>1, <1>11, <2>1 DEF FewClaims, QueueBounded, Pending, piVars
  <2> QED
    BY <2>3, <2>4, <2>5, <2>6, <2>7 DEF Taken
<1>12. CASE ~(Waits(m) /\ Full) /\ ActiveBefore(m) = {} /\ Enter(m, chain, held)
  <2>1. \A a \in Messages : InChain(preflights, a) => at[a] # at[m]
    BY <1>1, <1>12 DEF ActiveBefore, InChain
  <2>2. \A a \in Messages : Precedes(chain, a, m) => at[a] # at[m]
    BY <1>2, <1>9, <2>1
  <2>3. m \in held \/ ~(Present(m) /\ phase = "run")
    BY <1>6 DEF Waits
  <2> QED
    BY <1>1, <1>2, <1>3, <1>5, <1>6, <1>12, <2>2, <2>3, TakenEntered
<1> QED
  BY <1>4, <1>10, <1>11, <1>12

\* Pi takes a message or hands it back, and the handler comes to its end.
LEMMA TakenFinished ==
  ASSUME TypeOK, Taken, NEW m \in Messages, stage[m] = "entering",
         NEW end \in {"queued", "sent", "refused"}, Finish(m, end),
         \/ /\ end = "queued" /\ Present(m) /\ (kind[m] = "queue" \/ phase = "run")
            /\ queue' = Append(queue, m) /\ phase' = phase
         \/ /\ end = "sent" /\ Present(m) /\ kind[m] = "prompt" /\ queue' = queue /\ phase' = "run"
         \/ end = "refused" /\ queue' = queue /\ phase' = phase
  PROVE  Taken'
<1> DEFINE r == Without(preflights, m)
<1>1. /\ stage \in [Messages -> Stages] /\ kind \in [Messages -> {"prompt", "queue"}]
      /\ claims \subseteq Messages /\ IsFiniteSet(claims)
      /\ queue \in Seq(Messages) /\ Once(queue) /\ preflights \in Seq(Messages) /\ Once(preflights)
  BY DEF TypeOK, Taken, FewClaims, ChainFits, QueueFits
<1>2. /\ preflights' = r /\ claims' = claims \ {m} /\ UNCHANGED <<opening, live, kind, at>>
      /\ stage'[m] = end /\ \A x \in Messages : x # m => stage'[x] = stage[x]
  BY <1>1 DEF Finish, hostVars
<1>3. /\ Once(r) /\ \A x : InChain(r, x) <=> InChain(preflights, x) /\ x # m
      /\ \A a, b : Precedes(r, a, b) => Precedes(preflights, a, b)
  BY <1>1, WithoutFacts
<1> HIDE DEF r
<1>4. ~InChain(queue, m)
  BY DEF Taken, QueueFits
<1>5. ChainFits'
  BY <1>2, <1>3 DEF Taken, ChainFits
<1>6. InOrder'
  BY <1>2, <1>3 DEF Taken, InOrder
<1>7. QueueFits'
  <2>1. CASE queue' = queue
    BY <1>2, <1>4, <2>1 DEF Taken, QueueFits
  <2>2. CASE queue' = Append(queue, m) /\ end = "queued"
    <3>1. Once(Append(queue, m)) /\ \A x : InChain(Append(queue, m), x) <=> InChain(queue, x) \/ x = m
      BY <1>1, <1>4, AppendFacts
    <3> QED
      BY <1>2, <2>2, <3>1 DEF Taken, QueueFits
  <2> QED
    BY <2>1, <2>2
<1>8. Claimed'
  <2>1. ASSUME NEW x \in Messages, x # m, stage[x] = "entering", Present(x), x \notin claims,
               Present(m), kind[m] = "prompt"
        PROVE  FALSE
    <3>1. kind[x] = "prompt" /\ at[x] = at[m]
      BY <1>1, <2>1 DEF Taken, Claimed, Present
    <3>2. InChain(preflights, x) /\ InChain(preflights, m)
      BY <2>1, <3>1 DEF Taken, ChainFits
    <3>3. Precedes(preflights, x, m) \/ Precedes(preflights, m, x)
      <4>1. PICK i, j \in DOMAIN preflights : preflights[i] = x /\ preflights[j] = m
        BY <3>2 DEF InChain
      <4>2. i \in Int /\ j \in Int /\ i # j
        BY <1>1, <2>1, <4>1
      <4> QED
        BY <4>1, <4>2 DEF Precedes
    <3> QED
      BY <2>1, <3>1, <3>3 DEF Taken, InOrder
  <2>2. ASSUME NEW x \in Messages, stage'[x] = "entering", Present(x)', x \notin claims'
        PROVE  phase' # "run"
    <3>1. x # m /\ stage[x] = "entering" /\ Present(x) /\ x \notin claims
      BY <1>2, <2>2 DEF Present
    <3>2. phase # "run"
      BY <3>1 DEF Taken, Claimed
    <3> QED
      BY <2>1, <3>1, <3>2
  <2>3. ASSUME NEW x \in Messages
        PROVE  /\ stage'[x] = "waiting" => x \in claims'
               /\ kind'[x] = "queue" /\ stage'[x] \in {"attaching", "entering"} => x \in claims'
               /\ kind'[x] = "prompt" /\ stage'[x] = "attaching" => x \notin claims'
    BY <1>2 DEF Taken, Claimed
  <2> QED
    BY <2>2, <2>3 DEF Claimed
<1>9. FewClaims' /\ QueueBounded'
  <2>1. /\ IsFiniteSet(claims') /\ Cardinality(claims') \in Nat /\ Cardinality(claims) \in Nat
        /\ Cardinality(claims') <= Cardinality(claims)
        /\ m \in claims => Cardinality(claims') = Cardinality(claims) - 1
    BY <1>1, <1>2, ClaimedMore
  <2>2. Len(queue) \in Nat /\ MaxQueued \in Nat
    BY <1>1, IntakeAssumption
  <2>3. Len(queue) + Cardinality(claims) <= MaxQueued /\ \A x \in claims : stage[x] \in Pending
    BY DEF Taken, QueueBounded
  <2>4. queue' = queue \/ (queue' = Append(queue, m) /\ m \in claims)
    BY DEF Taken, Claimed
  <2>5. queue' = Append(queue, m) => Len(queue') = Len(queue) + 1
    BY <1>1
  <2>6. Len(queue') + Cardinality(claims') <= MaxQueued
    BY <2>1, <2>2, <2>3, <2>4, <2>5
  <2>7. \A x \in claims' : stage'[x] \in Pending
    BY <1>1, <1>2, <2>3
  <2> QED
    BY <2>1, <2>6, <2>7 DEF FewClaims, QueueBounded
<1>10. NoHostNoRun'
  BY <1>2 DEF Taken, NoHostNoRun, Present
<1> QED
  BY <1>5, <1>6, <1>7, <1>8, <1>9, <1>10 DEF Taken

\* The run takes the first message of the queue.
LEMMA TakenContinued ==
  ASSUME TypeOK, Taken, RunContinues PROVE Taken'
<1> DEFINE m == Head(queue)
<1>1. /\ queue \in Seq(Messages) /\ queue # <<>> /\ Once(queue) /\ stage \in [Messages -> Stages]
      /\ queue' = Tail(queue) /\ stage' = [stage EXCEPT ![m] = "sent"]
      /\ UNCHANGED <<opening, live, kind, at, preflights, claims, phase>>
  BY DEF TypeOK, Taken, QueueFits, RunContinues, hostVars
<1>2. /\ Len(Tail(queue)) = Len(queue) - 1 /\ m \in Messages /\ InChain(queue, m)
      /\ Once(Tail(queue)) /\ \A x : InChain(Tail(queue), x) => InChain(queue, x) /\ x # m
  BY <1>1, TailFacts
<1> HIDE DEF m
<1>3. stage[m] = "queued" /\ stage'[m] = "sent" /\ \A x \in Messages : x # m => stage'[x] = stage[x]
  BY <1>1, <1>2 DEF Taken, QueueFits
<1>4. ChainFits' /\ InOrder'
  BY <1>1, <1>3 DEF Taken, ChainFits, InOrder
<1>5. QueueFits' /\ NoHostNoRun'
  BY <1>1, <1>2, <1>3 DEF Taken, QueueFits, NoHostNoRun
<1>6. Claimed'
  BY <1>1, <1>3 DEF Taken, Claimed, Present
<1>7. FewClaims' /\ QueueBounded'
  <2>1. Len(queue) \in Nat /\ MaxQueued \in Nat /\ Cardinality(claims) \in Nat
    BY <1>1, IntakeAssumption, FS_CardinalityType DEF Taken, FewClaims
  <2>2. Len(queue') + Cardinality(claims') <= MaxQueued
    BY <1>1, <1>2, <2>1 DEF Taken, QueueBounded
  <2>3. \A x \in claims' : stage'[x] \in Pending
    BY <1>1, <1>3 DEF Taken, QueueBounded, Pending, TypeOK
  <2> QED
    BY <1>1, <2>2, <2>3 DEF Taken, FewClaims, QueueBounded
<1> QED
  BY <1>4, <1>5, <1>6, <1>7 DEF Taken

LEMMA TakenStep ==
  ASSUME TypeOK, Taken, [Next]_vars PROVE Taken'
<1>1. CASE Open
  <2>1. /\ ~live /\ UNCHANGED <<messageVars, piVars>> /\ phase = "idle"
    BY <1>1 DEF Open, Taken, NoHostNoRun
  <2>2. ChainFits' /\ QueueFits' /\ FewClaims' /\ QueueBounded' /\ InOrder' /\ NoHostNoRun'
    BY <2>1 DEF Taken, ChainFits, QueueFits, FewClaims, QueueBounded, InOrder, NoHostNoRun, messageVars, piVars,
       InChain, Once, Precedes
  <2>3. Claimed'
    BY <2>1 DEF Taken, Claimed, messageVars, piVars
  <2> QED
    BY <2>2, <2>3 DEF Taken
<1>2. CASE Close
  BY <1>2, TakenDropped DEF Close
<1>3. CASE Abort
  <2>1. DropQueue /\ UNCHANGED <<kind, at, preflights, claims, opening, live, phase>>
    BY <1>3 DEF Abort, hostVars
  <2> QED
    BY <2>1, TakenDropped DEF Taken, NoHostNoRun
<1>4. CASE ForeignWrite \/ RunSettles \/ UNCHANGED vars
  <2>1. UNCHANGED <<messageVars, queue, opening, live>> /\ phase' \in {phase, "idle"}
    BY <1>4 DEF ForeignWrite, RunSettles, vars, hostVars, piVars
  <2> QED
    BY <2>1, TakenSame DEF Taken, NoHostNoRun
<1>5. CASE MutationStep
  <2>1. UNCHANGED <<messageVars, queue, opening, live>>
    BY <1>5 DEF MutationStep, Begin, End, SetThinkingLevel, ModelWritten, ModelFails, ReloadWrites, Installed,
       Unmoved, hostVars
  <2>2. phase' \in {phase, "idle"} \/ (phase' = "compact" /\ live)
    BY <1>5 DEF MutationStep, Begin, End, SetThinkingLevel, ModelWritten, ModelFails, ReloadWrites, Installed
  <2> QED
    BY <2>1, <2>2, TakenSame DEF Taken, NoHostNoRun
<1>6. CASE SendStep
  BY <1>6, TakenSent, TakenAttached, TakenPrompted, TakenProceeded DEF SendStep
<1>7. ASSUME NEW m \in Messages, PiQueues(m) \/ PiRuns(m) \/ PiRejects(m) PROVE Taken'
  <2>1. CASE PiQueues(m)
    BY <2>1, TakenFinished DEF PiQueues
  <2>2. CASE PiRuns(m)
    BY <2>2, TakenFinished DEF PiRuns
  <2>3. CASE PiRejects(m)
    BY <2>3, TakenFinished DEF PiRejects, piVars
  <2> QED
    BY <1>7, <2>1, <2>2, <2>3
<1> QED
  BY <1>1, <1>2, <1>3, <1>4, <1>5, <1>6, <1>7, TakenContinued DEF Next, PiStep

LEMMA TakenInit == Init => Taken
<1> SUFFICES ASSUME Init PROVE Taken
  OBVIOUS
<1>1. ChainFits /\ QueueFits /\ InOrder
  BY EmptyFacts DEF Init, ChainFits, QueueFits, InOrder, Precedes
<1>2. FewClaims /\ QueueBounded
  BY FS_EmptySet, EmptyFacts, IntakeAssumption DEF Init, FewClaims, QueueBounded
<1> QED
  BY <1>1, <1>2 DEF Init, Taken, Claimed, NoHostNoRun

-----------------------------------------------------------------------------
(* The watch. *)

LEMMA WatchStep ==
  ASSUME TypeOK, ForeignWritesStop, [Next]_vars PROVE ForeignWritesStop'
<1> SUFFICES ASSUME unseen' PROVE ForeignWritesStop'
  BY DEF ForeignWritesStop
<1>1. CASE ForeignWrite
  BY <1>1 DEF ForeignWrite, ForeignWritesStop, hostVars, messageVars, piVars, Present
<1>2. CASE ~ForeignWrite
  <2>1. unseen
    BY <1>2 DEF Next, vars, Open, Close, Abort, SendStep, PiStep, MutationStep, Send, AttachmentsFail,
       MessageAttached, PromptAttached, Proceed, Enter, Passes, Readable, Unreadable, Refuses, PiQueues, PiRuns,
       PiRejects, RunContinues, RunSettles, RecordWrites, Write, Begin, End, SetThinkingLevel, ModelWritten,
       ModelFails, ReloadWrites, Installed, watchVars
  <2>2. /\ live /\ known /\ "foreign" \in since /\ phase = "idle" /\ doing = {}
        /\ \A m \in Messages : Present(m) => stage[m] # "entering"
    BY <2>1 DEF ForeignWritesStop
  <2>3. ~SoleWriter
    BY <2>2 DEF SoleWriter
  <2>4. ~Passes
    BY <2>3 DEF Passes, Unreadable
  <2>5. ASSUME RecordWrites PROVE since' = {} /\ known' = TRUE
    BY <2>5 DEF RecordWrites
  <2>6. ASSUME UNCHANGED <<opening, live, at, stage>>, UNCHANGED <<phase, doing, since, known>>
        PROVE  ForeignWritesStop'
    BY <2>2, <2>6 DEF ForeignWritesStop, Present
  <2>7. CASE MutationStep
    <3>1. ASSUME NEW op \in Operations, Begin(op) PROVE ForeignWritesStop'
      BY <2>4, <2>6, <3>1 DEF Begin, Refuses, Unmoved, hostVars, messageVars
    <3>2. CASE SetThinkingLevel
      BY <2>3, <2>6, <3>2 DEF SetThinkingLevel, Refuses, Unmoved, hostVars, messageVars
    <3>3. ~(ModelWritten \/ ModelFails \/ ReloadWrites \/ Installed \/ \E op \in Operations : End(op))
      BY <2>2 DEF ModelWritten, ModelFails, ReloadWrites, Installed, End
    <3> QED
      BY <2>7, <3>1, <3>2, <3>3 DEF MutationStep
  <2>8. ASSUME NEW m \in Messages,
               Send(m) \/ AttachmentsFail(m) \/ MessageAttached(m) \/ PromptAttached(m) \/ Proceed(m)
        PROVE  ForeignWritesStop'
    <3>1. UNCHANGED <<opening, live, phase, doing, since, known>>
      BY <2>4, <2>8 DEF Send, AttachmentsFail, MessageAttached, PromptAttached, Proceed, Enter, Readable, Refuses,
         hostVars, piVars, watchVars
    <3>2. \A x \in Messages : x # m => stage'[x] = stage[x] /\ at'[x] = at[x]
      BY <2>8 DEF Send, AttachmentsFail, MessageAttached, PromptAttached, Proceed, Enter, TypeOK
    <3>3. stage'[m] = "entering" => ~Present(m)'
      <4>1. CASE Send(m) \/ AttachmentsFail(m)
        BY <4>1 DEF Send, AttachmentsFail, TypeOK
      <4>2. CASE ~(Send(m) \/ AttachmentsFail(m))
        <5>1. stage' = [stage EXCEPT ![m] = "refused"] \/ stage' = [stage EXCEPT ![m] = "waiting"]
          BY <2>4, <2>8, <4>2 DEF MessageAttached, PromptAttached, Proceed, Enter
        <5> QED
          BY <5>1 DEF TypeOK
      <4> QED
        BY <4>1, <4>2
    <3> QED
      BY <2>2, <3>1, <3>2, <3>3 DEF ForeignWritesStop, Present
  <2>9. CASE PiStep
    <3>1. ASSUME NEW m \in Messages, PiRejects(m) PROVE ForeignWritesStop'
      <4>1. /\ UNCHANGED <<opening, live, at, phase, doing, known>> /\ since \subseteq since'
            /\ stage' = [stage EXCEPT ![m] = "refused"]
        BY <3>1 DEF PiRejects, Finish, Write, hostVars, piVars
      <4> QED
        BY <2>2, <4>1 DEF ForeignWritesStop, Present, TypeOK
    <3>2. ~(RunContinues \/ RunSettles \/ \E m \in Messages : PiQueues(m) \/ PiRuns(m))
      BY <2>2 DEF RunContinues, RunSettles, PiQueues, PiRuns
    <3> QED
      BY <2>9, <3>1, <3>2 DEF PiStep
  <2>10. CASE Abort
    <3>1. UNCHANGED <<opening, live, at, phase, doing, known, since>>
      BY <2>10 DEF Abort, hostVars, watchVars
    <3>2. \A m \in Messages : stage'[m] = "entering" => stage[m] = "entering"
      BY <2>10 DEF Abort, DropQueue, TypeOK
    <3> QED
      BY <2>2, <3>1, <3>2 DEF ForeignWritesStop, Present
  <2>11. ~Open /\ ~Close
    BY <2>2 DEF Open, Close
  <2>12. CASE UNCHANGED vars
    BY <2>6, <2>12 DEF vars, hostVars, messageVars, piVars, watchVars
  <2> QED
    BY <1>2, <2>7, <2>8, <2>9, <2>10, <2>11, <2>12 DEF Next, SendStep
<1> QED
  BY <1>1, <1>2

-----------------------------------------------------------------------------
(* Theorems. *)

IInv == TypeOK /\ Taken /\ ForeignWritesStop

LEMMA IInvInit == Init => IInv
  BY TypeInit, TakenInit DEF Init, IInv, ForeignWritesStop

LEMMA IInvStep == IInv /\ [Next]_vars => IInv'
  BY TypeStep, TakenStep, WatchStep DEF IInv, Taken

LEMMA IInvAlways == Spec => []IInv
  BY IInvInit, IInvStep, PTL DEF Spec

LEMMA OrderIsOneAtATime ==
  ASSUME TypeOK, InOrder PROVE OneAtATime
<1> SUFFICES ASSUME NEW i \in DOMAIN preflights, NEW j \in DOMAIN preflights,
                    i < j, at[preflights[i]] = at[preflights[j]]
             PROVE  stage[preflights[j]] # "entering"
  BY DEF OneAtATime
<1>1. preflights[i] \in Messages /\ preflights[j] \in Messages
  BY DEF TypeOK
<1>2. Precedes(preflights, preflights[i], preflights[j])
  BY DEF Precedes
<1> QED
  BY <1>1, <1>2 DEF InOrder

\* Every variable of the intake keeps its shape; in particular the chain of
\* preflights and Pi's queue hold messages (runtime.ts beginPromptPreflight).
THEOREM TypeCorrect == Spec => []TypeOK
  BY IInvAlways, PTL DEF IInv

\* Prompts of one SessionHost reach Pi one at a time, in the order in which
\* their preflights began, whatever is refused, closed or reopened in between
\* (runtime.ts beginPromptPreflight, waitForPrevious).
THEOREM PromptsInTurn == Spec => []OneAtATime
<1>1. IInv => OneAtATime
  BY OrderIsOneAtATime DEF IInv, Taken
<1> QED
  BY <1>1, IInvAlways, PTL

\* What waits in Pi and what is on its way there stay within the cap, and only
\* a message that is on its way holds a position (session/budget.ts).
THEOREM QueueStaysBounded == Spec => []QueueBounded
  BY IInvAlways, PTL DEF IInv, Taken

\* After another program has written to a session that does nothing, nothing is
\* handed to Pi and nothing recorded over it until the session is closed
\* (session-host.ts assertSoleWriter).
THEOREM ForeignWriteIsRespected == Spec => []ForeignWritesStop
  BY IInvAlways, PTL DEF IInv

-----------------------------------------------------------------------------
(* Composer. *)

(* The stop. *)

StopTyped ==
  /\ front \in Tabs \cup {NoSession} /\ status \in [Tabs -> Statuses] /\ aborting \in Tabs \cup {NoSession}
  /\ life \in [Tabs -> Nat] /\ (front \in Tabs => status[front] # "closed")

\* A stop is refused for a session that is at work.
LEMMA StopInit == ComposerInit => StopTyped /\ StopNotSpent
  BY ComposerAssumption DEF ComposerInit, StopTyped, StopNotSpent, Statuses, HostStatuses

LEMMA StopStep ==
  ASSUME StopTyped, StopNotSpent, [ComposerNext]_composerVars
  PROVE  StopTyped' /\ StopNotSpent'
<1> DEFINE G == StopTyped' /\ StopNotSpent'
<1>1. ASSUME UNCHANGED <<aborting, stranded, status, life>>, front' \in Tabs \cup {NoSession},
             front' \in Tabs => status[front'] # "closed"
      PROVE  G
  BY <1>1 DEF StopTyped, StopNotSpent
<1>2. ASSUME UNCHANGED <<front, aborting, stranded, status, life>> PROVE G
  BY <1>1, <1>2 DEF StopTyped
<1>3. CASE Stop
  BY <1>3 DEF Stop, StopTyped, StopNotSpent, Shown, tabVars
<1>4. ASSUME NEW c, Failed(c) PROVE G
  <2>1. /\ UNCHANGED <<front, status, life>> /\ aborting' \in {aborting, NoSession}
        /\ stranded' = (stranded /\ aborting' # NoSession)
    BY <1>4 DEF Failed, tabVars
  <2> QED
    BY <2>1 DEF StopTyped, StopNotSpent
<1>5. ASSUME NEW s \in Tabs, NEW to \in HostStatuses, StatusMoves(s, to) PROVE G
  <2>1. /\ status' = [status EXCEPT ![s] = to] /\ aborting' = AbortingAfter(s, to) /\ UNCHANGED <<front, life>>
        /\ stranded' = (stranded /\ aborting' # NoSession)
    BY <1>5 DEF StatusMoves
  <2>2. TurnInFlight \subseteq Stoppable
    BY DEF TurnInFlight, Stoppable, Streaming
  <2>3. to \in Statuses /\ to # "closed"
    BY DEF Statuses, HostStatuses
  <2> QED
    BY <2>1, <2>2, <2>3 DEF StopTyped, StopNotSpent, AbortingAfter
<1>6. ASSUME NEW s \in Tabs, Select(s) PROVE G
  BY <1>1, <1>6 DEF Select, tabVars
<1>7. ASSUME NEW s \in Tabs, CloseTab(s) PROVE G
  <2>1. /\ status' = [status EXCEPT ![s] = "closed"] /\ UNCHANGED aborting
        /\ stranded' = (stranded \/ aborting \in {s})
        /\ life' = [t \in Tabs |-> IF t \in {s} THEN life[t] + 1 ELSE life[t]]
        /\ \/ front # s /\ UNCHANGED front
           \/ front' \in Tabs \ {s} /\ status[front'] # "closed"
           \/ front' = NoSession
    BY <1>7 DEF CloseTab, Leaves, StopTyped
  <2>2. life' \in [Tabs -> Nat] /\ status' \in [Tabs -> Statuses]
    BY <2>1 DEF StopTyped, Statuses
  <2> QED
    BY <2>1, <2>2, ComposerAssumption DEF StopTyped, StopNotSpent
<1>13. CASE HostLost
  <2>1. /\ status' = [s \in Tabs |-> IF status[s] = "closed" THEN "closed" ELSE "disconnected"]
        /\ stranded' = (stranded \/ aborting \in Tabs) /\ UNCHANGED <<front, aborting>>
        /\ life' = [s \in Tabs |-> IF s \in Tabs THEN life[s] + 1 ELSE life[s]]
    BY <1>13 DEF HostLost, Leaves
  <2>2. life' \in [Tabs -> Nat] /\ status' \in [Tabs -> Statuses]
    BY <2>1 DEF StopTyped, Statuses
  <2> QED
    BY <2>1, <2>2 DEF StopTyped, StopNotSpent
<1>14. ASSUME NEW s \in Tabs, NEW to \in HostStatuses, Reopen(s, to) PROVE G
  <2>1. /\ status' = [status EXCEPT ![s] = to] /\ status[s] = "closed" /\ UNCHANGED <<aborting, stranded, life>>
        /\ front' \in {front, s}
    BY <1>14 DEF Reopen
  <2>2. "closed" \notin Stoppable /\ to \in Statuses /\ to # "closed"
    BY DEF Stoppable, Streaming, Statuses, HostStatuses
  <2> QED
    BY <2>1, <2>2 DEF StopTyped, StopNotSpent
<1>8. CASE ListingAnswered \/ ListingFails \/ Erase \/ Escape \/ LeaveMenu \/ TogglePlus \/ ChooseEntry \/ ChooseVerb
  BY <1>2, <1>8 DEF ListingAnswered, ListingFails, Erase, Escape, LeaveMenu, TogglePlus, ChooseEntry, ChooseVerb,
                    storeVars, tabVars, FieldOnly
<1>9. ASSUME NEW piece, Type(piece) \/ MoveCaret(piece) \/ Highlight(piece) \/ Drop(piece) \/ RemoveAttachment(piece)
      PROVE  G
  BY <1>2, <1>9 DEF Type, MoveCaret, Highlight, Drop, RemoveAttachment, storeVars, tabVars, FieldOnly
<1>10. ASSUME NEW c, Performs(c) \/ SubmitAnswered(c) \/ AbortAnswered(c) \/ Picked(c) PROVE G
  BY <1>2, <1>10 DEF Performs, SubmitAnswered, AbortAnswered, Picked, storeVars, tabVars
<1>11. CASE SubmitByKey \/ SubmitByButton \/ \E s \in Tabs : PiTakes(s)
  BY <1>2, <1>11 DEF SubmitByKey, SubmitByButton, PiTakes, storeVars, tabVars
<1>12. CASE UNCHANGED composerVars
  BY <1>2, <1>12 DEF composerVars, storeVars, tabVars
<1> QED
  BY <1>3, <1>4, <1>5, <1>6, <1>7, <1>8, <1>9, <1>10, <1>11, <1>12, <1>13, <1>14 DEF ComposerNext

\* Whatever happens around the bar, a stop is refused no longer than the turn it was
\* pressed in (session-store.ts 360-362, 772), unless that turn ended with its host or its
\* tab, of which no event tells (177-188, 680-700).
THEOREM StopIsFreed == ComposerSpec => []StopNotSpent
<1>1. StopTyped /\ StopNotSpent /\ [ComposerNext]_composerVars => (StopTyped /\ StopNotSpent)'
  BY StopStep
<1> QED
  BY <1>1, StopInit, PTL DEF ComposerSpec

-----------------------------------------------------------------------------
(* The menu. *)

MenuTyped ==
  /\ token.kind \in {"none", "file", "command"} /\ (token.kind = "none" <=> token = NoToken)
  /\ token = NoToken => rows = <<>> /\ walk = NoWalk
  /\ walk.wants \in DOMAIN Tree => token.kind = "file" /\ walk.query = token.query
  /\ Shown \/ token = NoToken

MenuIInv == MenuTyped /\ MenuAnswersMention

LEMMA TreeFacts ==
  /\ DOMAIN Tree = {<<>>, <<"d/">>}
  /\ NoWalk.wants \notin DOMAIN Tree /\ FailedWalk.wants \notin DOMAIN Tree
  /\ \A S \in SUBSET DOMAIN Tree : S # {} => Shortest(S) \in S
<1>1. DOMAIN Tree = {<<>>, <<"d/">>}
  BY DEF Tree
<1>2. NoWalk.wants \notin DOMAIN Tree /\ FailedWalk.wants \notin DOMAIN Tree
  BY <1>1 DEF NoWalk, FailedWalk
<1>3. ASSUME NEW S \in SUBSET DOMAIN Tree, S # {} PROVE Shortest(S) \in S
  <2>1. \E p \in S : \A q \in S : Len(p) <= Len(q)
    <3>1. CASE <<>> \in S
      BY <1>1, <3>1
    <3>2. CASE <<>> \notin S
      BY <1>1, <1>3, <3>2
    <3> QED
      BY <3>1, <3>2
  <2> QED
    BY <2>1 DEF Shortest
<1> QED
  BY <1>1, <1>2, <1>3

LEMMA TokenKinds ==
  \A text, spot : \/ TokenAt(text, spot) = NoToken
                  \/ TokenAt(text, spot).kind \in {"file", "command"} /\ TokenAt(text, spot) # NoToken
<1> SUFFICES ASSUME NEW text, NEW spot, TokenAt(text, spot) # NoToken
             PROVE  TokenAt(text, spot).kind \in {"file", "command"}
  OBVIOUS
<1>1. \E start, query : TokenAt(text, spot) = [kind |-> IF text[start + 1] = "@" THEN "file" ELSE "command",
                                             start |-> start, query |-> query]
  BY DEF TokenAt
<1> QED
  BY <1>1

\* What a mention calls for is there, or it is being looked for.
LEMMA ResolveAnswers ==
  ASSUME NEW t, NEW plus \in BOOLEAN, NEW of, Resolve(t, plus, of), token' = t,
         t.kind \in {"none", "file", "command"}, t.kind = "none" <=> t = NoToken,
         Shown' => status'[front'] = of \/ t = NoToken, Shown' \/ t = NoToken
  PROVE  MenuIInv'
<1>1. CASE t = NoToken
  BY <1>1, TreeFacts DEF Resolve, MenuIInv, MenuTyped, MenuAnswersMention, NoToken
<1>2. CASE t.kind = "command"
  <2>1. rows' = CommandRows(t.query, of) /\ walk' = NoWalk /\ t # NoToken
    BY <1>2 DEF Resolve, NoToken
  <2> QED
    BY <1>2, <2>1, TreeFacts DEF MenuIInv, MenuTyped, MenuAnswersMention
<1>3. CASE t.kind = "file"
  <2>0. t # NoToken /\ viaPlus' = plus
    BY <1>3 DEF Resolve, NoToken
  <2>1. CASE rows' = FileRows(t.query, plus) /\ walk' = NoWalk
    BY <1>3, <2>0, <2>1, TreeFacts DEF MenuIInv, MenuTyped, MenuAnswersMention
  <2>2. CASE Unread(t.query, listings) # {} /\ walk' = [query |-> t.query, wants |-> Shortest(Unread(t.query, listings))]
    <3>1. Unread(t.query, listings) \in SUBSET DOMAIN Tree
      BY DEF Unread
    <3>2. walk'.wants \in DOMAIN Tree /\ walk'.query = t.query
      BY <2>2, <3>1, TreeFacts
    <3>3. walk' # NoWalk
      BY <3>2, TreeFacts
    <3> QED
      BY <1>3, <2>0, <3>2, <3>3 DEF MenuIInv, MenuTyped, MenuAnswersMention
  <2> QED
    BY <1>3, <2>0, <2>1, <2>2 DEF Resolve
<1> QED
  BY <1>1, <1>2, <1>3

LEMMA TokenIsSet ==
  ASSUME MenuIInv, viaPlus \in BOOLEAN, NEW t, NEW plus \in BOOLEAN, SetToken(t, plus),
         t.kind \in {"none", "file", "command"}, t.kind = "none" <=> t = NoToken,
         UNCHANGED status, UNCHANGED front \/ t = NoToken, Shown' \/ t = NoToken, t # NoToken => Shown
  PROVE  MenuIInv'
<1> DEFINE same == t.kind = token.kind /\ t.query = token.query
<1>1. CASE same /\ plus = viaPlus
  <2>1. token' = t /\ UNCHANGED <<rows, viaPlus, listings, walk, strays>>
    BY <1>1 DEF SetToken
  <2>2. t = NoToken <=> token = NoToken
    BY <1>1 DEF MenuIInv, MenuTyped
  <2>3. MenuTyped'
    BY <1>1, <2>1, <2>2 DEF MenuIInv, MenuTyped
  <2>4. CASE t = NoToken
    BY <2>1, <2>2, <2>3, <2>4 DEF MenuIInv, MenuTyped, MenuAnswersMention
  <2>5. CASE t # NoToken
    BY <1>1, <2>1, <2>2, <2>3, <2>5 DEF MenuIInv, MenuTyped, MenuAnswersMention, Shown
  <2> QED
    BY <2>4, <2>5
<1>2. CASE ~(same /\ plus = viaPlus)
  <2>1. Resolve(t, plus, status[front]) /\ token' = t
    BY <1>2 DEF SetToken
  <2> QED
    BY <2>1, ResolveAnswers
<1> QED
  BY <1>1, <1>2

LEMMA MenuCloses ==
  ASSUME MenuIInv, viaPlus \in BOOLEAN, CloseMenu, UNCHANGED status
  PROVE  MenuIInv'
<1>1. NoToken.kind = "none"
  BY DEF NoToken
<1>2. SetToken(NoToken, FALSE)
  BY DEF CloseMenu
<1> QED
  BY <1>1, <1>2, TokenIsSet

LEMMA PlusTyped ==
  ASSUME viaPlus \in BOOLEAN, [ComposerNext]_composerVars
  PROVE  viaPlus' \in BOOLEAN
<1>1. ASSUME NEW t, NEW plus \in BOOLEAN, SetToken(t, plus) PROVE viaPlus' \in BOOLEAN
  BY <1>1 DEF SetToken, Resolve
<1>2. ASSUME NEW piece, Type(piece) \/ MoveCaret(piece) \/ Highlight(piece) \/ Drop(piece) \/ RemoveAttachment(piece)
      PROVE  viaPlus' \in BOOLEAN
  BY <1>1, <1>2 DEF Type, MoveCaret, Highlight, Drop, RemoveAttachment, menuVars, Edited, CloseMenu
<1>3. CASE ListingAnswered \/ ListingFails \/ Erase \/ Escape \/ LeaveMenu \/ TogglePlus \/ ChooseVerb
  BY <1>1, <1>3 DEF ListingAnswered, ListingFails, Erase, Escape, LeaveMenu, TogglePlus, ChooseVerb, Edited,
                    CloseMenu, Listed
<1>4. CASE ChooseEntry
  BY <1>1, <1>4 DEF ChooseEntry, CloseMenu
<1>5. ASSUME NEW c, Performs(c) \/ SubmitAnswered(c) \/ AbortAnswered(c) \/ Picked(c) \/ Failed(c) PROVE viaPlus' \in BOOLEAN
  BY <1>5 DEF Performs, SubmitAnswered, AbortAnswered, Picked, Failed, menuVars
<1>6. CASE SubmitByKey \/ SubmitByButton \/ Stop
  BY <1>1, <1>6 DEF SubmitByKey, SubmitByButton, Stop, menuVars, CloseMenu
<1>7. ASSUME NEW s, PiTakes(s) \/ Select(s) PROVE viaPlus' \in BOOLEAN
  BY <1>1, <1>7 DEF PiTakes, Select, menuVars, CloseMenu
<1>10. ASSUME NEW s, Follows(s) PROVE viaPlus' \in BOOLEAN
  BY <1>10 DEF Follows, Resolve
<1>8. ASSUME NEW s, NEW to, StatusMoves(s, to) \/ Reopen(s, to) \/ HostLost PROVE viaPlus' \in BOOLEAN
  BY <1>8, <1>10 DEF StatusMoves, Reopen, HostLost, menuVars
<1>11. ASSUME NEW s, CloseTab(s) PROVE viaPlus' \in BOOLEAN
  <2>1. UNCHANGED viaPlus \/ CloseMenu \/ \E next : Follows(next)
    BY <1>11 DEF CloseTab, menuVars
  <2> QED
    BY <1>1, <1>10, <2>1 DEF CloseMenu
<1>9. CASE UNCHANGED composerVars
  BY <1>9 DEF composerVars, menuVars
<1> QED
  BY <1>2, <1>3, <1>4, <1>5, <1>6, <1>7, <1>8, <1>9, <1>11 DEF ComposerNext

\* The menu follows the session that is in front.
LEMMA FollowsAnswers ==
  ASSUME MenuIInv, viaPlus \in BOOLEAN, NEW s \in Tabs, Shown, Follows(s), front' = s
  PROVE  MenuIInv'
<1>1. token' = token /\ Shown'
  BY ComposerAssumption DEF Follows, Shown
<1>2. CASE Resolve(token, viaPlus, status'[s])
  BY <1>1, <1>2, ResolveAnswers DEF MenuIInv, MenuTyped
<1>3. CASE status'[s] = status[front] /\ UNCHANGED <<rows, viaPlus, listings, walk, strays>>
  BY <1>1, <1>3 DEF MenuIInv, MenuTyped, MenuAnswersMention
<1> QED
  BY <1>2, <1>3 DEF Follows

\* No status that the menu looks at moves.
LEMMA MenuSame ==
  ASSUME MenuIInv, UNCHANGED <<menuVars, front>>, Shown => status'[front] = status[front]
  PROVE  MenuIInv'
BY DEF menuVars, MenuIInv, MenuTyped, MenuAnswersMention, Shown

LEMMA MenuStep ==
  ASSUME MenuIInv, viaPlus \in BOOLEAN, StopTyped, [ComposerNext]_composerVars
  PROVE  MenuIInv'
<1> DEFINE G == MenuIInv'
<1>1. ASSUME UNCHANGED <<token, rows, viaPlus, walk, front, status>> PROVE G
  BY <1>1 DEF MenuIInv, MenuTyped, MenuAnswersMention, Shown
<1>2. ASSUME NEW text, NEW spot, NEW plus \in BOOLEAN, SetToken(TokenAt(text, spot), plus), UNCHANGED <<front, status>>, Shown
      PROVE  G
  <2>1. TokenAt(text, spot).kind \in {"none", "file", "command"} /\ (TokenAt(text, spot).kind = "none" <=> TokenAt(text, spot) = NoToken)
    BY TokenKinds DEF NoToken
  <2> QED
    BY <1>2, <2>1, TokenIsSet DEF Shown
<1>3. ASSUME CloseMenu, UNCHANGED status PROVE G
  BY <1>3, MenuCloses
<1>4. ASSUME NEW path \in DOMAIN Tree, path \in strays \cup {walk.wants}, Listed(path), UNCHANGED <<front, status>> PROVE G
  <2>1. UNCHANGED <<token, viaPlus>>
    BY <1>4 DEF Listed
  <2>2. CASE UNCHANGED <<walk, rows>>
    BY <1>1, <1>4, <2>1, <2>2
  <2>3. CASE /\ walk.wants = path
             /\ LET left == Unread(walk.query, listings \cup {path})
                IN IF left = {} THEN walk' = NoWalk /\ rows' = FileRows(walk.query, viaPlus)
                   ELSE walk' = [walk EXCEPT !.wants = Shortest(left)] /\ UNCHANGED rows
    <3>1. token.kind = "file" /\ walk.query = token.query /\ token # NoToken /\ Shown
      BY <1>4, <2>3 DEF MenuIInv, MenuTyped, NoToken
    <3>2. CASE walk' = NoWalk /\ rows' = FileRows(walk.query, viaPlus)
      BY <1>4, <2>1, <3>1, <3>2, TreeFacts DEF MenuIInv, MenuTyped, MenuAnswersMention, Shown
    <3>3. CASE Unread(walk.query, listings \cup {path}) # {}
               /\ walk' = [walk EXCEPT !.wants = Shortest(Unread(walk.query, listings \cup {path}))]
      <4>1. Unread(walk.query, listings \cup {path}) \in SUBSET DOMAIN Tree
        BY DEF Unread
      <4>2. Shortest(Unread(walk.query, listings \cup {path})) \in DOMAIN Tree
        BY <3>3, <4>1, TreeFacts
      <4>3. walk'.query = walk.query
        BY <3>3
      <4>4. walk' # NoWalk
        BY <3>3, <4>2, TreeFacts DEF NoWalk
      <4> QED
        BY <1>4, <2>1, <3>1, <4>3, <4>4 DEF MenuIInv, MenuTyped, MenuAnswersMention, Shown
    <3> QED
      BY <2>3, <3>2, <3>3
  <2> QED
    BY <1>4, <2>2, <2>3 DEF Listed
<1>5. CASE ListingAnswered
  <2>1. UNCHANGED <<front, status>>
    BY <1>5 DEF ListingAnswered, storeVars, tabVars
  <2> QED
    BY <1>4, <1>5, <2>1 DEF ListingAnswered
<1>6. CASE ListingFails
  <2>1. UNCHANGED <<front, status, token, rows, viaPlus>> /\ walk' = FailedWalk /\ walk # NoWalk
    BY <1>6 DEF ListingFails, storeVars, tabVars
  <2>2. FailedWalk # NoWalk
    BY DEF FailedWalk, NoWalk
  <2> QED
    BY <2>1, <2>2, TreeFacts DEF MenuIInv, MenuTyped, MenuAnswersMention, Shown
<1>7. ASSUME NEW piece, Type(piece) PROVE G
  BY <1>2, <1>7 DEF Type, Edited, storeVars, tabVars
<1>8. CASE Erase
  BY <1>2, <1>8 DEF Erase, Edited, storeVars, tabVars
<1>9. ASSUME NEW spot, MoveCaret(spot) PROVE G
  <2>1. UNCHANGED <<front, status>> /\ Shown
    BY <1>9 DEF MoveCaret, FieldOnly, storeVars, tabVars
  <2>2. CASE viaPlus
    BY <1>1, <1>9, <2>1, <2>2 DEF MoveCaret
  <2>3. CASE ~viaPlus /\ dismissed
    BY <1>3, <1>9, <2>1, <2>3 DEF MoveCaret, CloseMenu
  <2>4. CASE ~viaPlus /\ ~dismissed
    BY <1>2, <1>9, <2>1, <2>4 DEF MoveCaret
  <2> QED
    BY <2>2, <2>3, <2>4
<1>10. CASE Escape \/ LeaveMenu \/ ChooseVerb \/ SubmitByButton \/ Stop
  <2>1. CloseMenu /\ UNCHANGED status
    BY <1>10 DEF Escape, LeaveMenu, ChooseVerb, SubmitByButton, Stop, FieldOnly, tabVars
  <2> QED
    BY <1>3, <2>1
<1>11. ASSUME NEW name, Drop(name) PROVE G
  BY <1>3, <1>11 DEF Drop, FieldOnly, tabVars
<1>12. CASE TogglePlus
  <2> DEFINE t == [kind |-> "file", start |-> caret, query |-> <<>>]
  <2>1. SetToken(t, TRUE) /\ UNCHANGED <<front, status>> /\ Shown
    BY <1>12 DEF TogglePlus, FieldOnly, storeVars, tabVars
  <2>2. t.kind = "file" /\ t # NoToken
    BY DEF NoToken
  <2> HIDE DEF t
  <2> QED
    BY <2>1, <2>2, TokenIsSet DEF Shown
<1>13. ASSUME NEW row, Highlight(row) PROVE G
  BY <1>1, <1>13 DEF Highlight, FieldOnly, storeVars, tabVars
<1>14. CASE ChooseEntry
  <2>1. UNCHANGED <<front, status>> /\ token # NoToken
    BY <1>14 DEF ChooseEntry, MenuOpen, storeVars, tabVars
  <2>2. Shown
    BY <2>1 DEF MenuIInv, MenuTyped
  <2>3. CloseMenu \/ \E text, spot : SetToken(TokenAt(text, spot), viaPlus)
    BY <1>14 DEF ChooseEntry
  <2> QED
    BY <1>2, <1>3, <2>1, <2>2, <2>3
<1>15. ASSUME NEW c, RemoveAttachment(c) \/ Performs(c) \/ SubmitAnswered(c) \/ AbortAnswered(c) \/ Failed(c) \/ Picked(c)
       PROVE  G
  BY <1>1, <1>15 DEF RemoveAttachment, Performs, SubmitAnswered, AbortAnswered, Failed, Picked, menuVars, storeVars, tabVars
<1>16. CASE SubmitByKey \/ \E s \in Tabs : PiTakes(s)
  BY <1>1, <1>16 DEF SubmitByKey, PiTakes, menuVars, storeVars, tabVars
<1>17. ASSUME NEW s \in Tabs, Select(s) PROVE G
  <2>1. CASE Shown
    BY <1>3, <1>17, <2>1 DEF Select, tabVars
  <2>2. CASE ~Shown
    <3>1. token = NoToken /\ UNCHANGED menuVars
      BY <1>17, <2>2 DEF Select, MenuIInv, MenuTyped
    <3> QED
      BY <3>1 DEF menuVars, MenuIInv, MenuTyped, MenuAnswersMention
  <2> QED
    BY <2>1, <2>2
<1>18. ASSUME NEW s \in Tabs, NEW to \in HostStatuses, StatusMoves(s, to) PROVE G
  <2>1. UNCHANGED front /\ status' = [status EXCEPT ![s] = to]
    BY <1>18 DEF StatusMoves
  <2>2. CASE s = front
    <3>1. Follows(s) /\ Shown /\ front' = s
      BY <1>18, <2>1, <2>2, ComposerAssumption DEF StatusMoves, Shown
    <3> QED
      BY <3>1, FollowsAnswers
  <2>3. CASE s # front
    <3>1. UNCHANGED menuVars /\ (Shown => status'[front] = status[front])
      BY <1>18, <2>1, <2>3 DEF StatusMoves, StopTyped, Shown
    <3> QED
      BY <2>1, <3>1, MenuSame
  <2> QED
    BY <2>2, <2>3
<1>20. CASE HostLost
  <2>1. UNCHANGED front
    BY <1>20 DEF HostLost
  <2>2. CASE Shown
    <3>1. Follows(front) /\ front \in Tabs
      BY <1>20, <2>2 DEF HostLost, StopTyped, Shown
    <3> QED
      BY <2>1, <2>2, <3>1, FollowsAnswers
  <2>3. CASE ~Shown
    <3>1. UNCHANGED menuVars
      BY <1>20, <2>3 DEF HostLost
    <3> QED
      BY <2>1, <2>3, <3>1, MenuSame
  <2> QED
    BY <2>2, <2>3
<1>21. ASSUME NEW s \in Tabs, CloseTab(s) PROVE G
  <2>0. status' = [status EXCEPT ![s] = "closed"]
    BY <1>21 DEF CloseTab
  <2>1. CASE front # s /\ UNCHANGED <<menuVars, front>>
    <3>1. Shown => status'[front] = status[front]
      BY <2>0, <2>1 DEF StopTyped, Shown
    <3> QED
      BY <2>1, <3>1, MenuSame
  <2>2. ASSUME front = s, NEW next \in Tabs, front' = next, Follows(next) PROVE G
    <3>1. Shown
      BY <2>2, ComposerAssumption DEF Shown
    <3> QED
      BY <2>2, <3>1, FollowsAnswers
  <2>3. CASE front' = NoSession /\ CloseMenu
    <3>1. token' = NoToken /\ (token # NoToken \/ viaPlus => rows' = <<>> /\ walk' = NoWalk)
      <4>1. NoToken.kind = "none" /\ SetToken(NoToken, FALSE)
        BY <2>3 DEF CloseMenu, NoToken
      <4> QED
        BY <4>1 DEF SetToken, Resolve, MenuIInv, MenuTyped
    <3>2. rows' = <<>> /\ walk' = NoWalk
      <4>1. CASE token # NoToken \/ viaPlus
        BY <3>1, <4>1
      <4>2. CASE token = NoToken /\ ~viaPlus
        <5>1. UNCHANGED <<rows, walk>>
          BY <2>3, <4>2 DEF CloseMenu, SetToken
        <5> QED
          BY <4>2, <5>1 DEF MenuIInv, MenuTyped
      <4> QED
        BY <4>1, <4>2
    <3> QED
      BY <3>1, <3>2, <2>3, TreeFacts DEF MenuIInv, MenuTyped, MenuAnswersMention, NoToken, Shown
  <2> QED
    BY <1>21, <2>1, <2>2, <2>3 DEF CloseTab
<1>22. ASSUME NEW s \in Tabs, NEW to \in HostStatuses, Reopen(s, to) PROVE G
  <2>0. status' = [status EXCEPT ![s] = to] /\ status[s] = "closed"
    BY <1>22 DEF Reopen
  <2>1. CASE UNCHANGED <<front, menuVars, bar>>
    <3>1. Shown => status'[front] = status[front]
      BY <2>0 DEF StopTyped, Shown
    <3> QED
      BY <2>1, <3>1, MenuSame
  <2>2. CASE front' = s /\ Shown /\ Follows(s)
    BY <2>2, FollowsAnswers
  <2>3. CASE front' = s /\ ~Shown /\ UNCHANGED menuVars
    BY <2>3 DEF menuVars, MenuIInv, MenuTyped, MenuAnswersMention
  <2> QED
    BY <1>22, <2>1, <2>2, <2>3 DEF Reopen
<1>19. CASE UNCHANGED composerVars
  BY <1>1, <1>19 DEF composerVars, menuVars, storeVars, tabVars
<1> QED
  BY <1>5, <1>6, <1>7, <1>8, <1>9, <1>10, <1>11, <1>12, <1>13, <1>14, <1>15, <1>16, <1>17, <1>18, <1>19, <1>20, <1>21,
     <1>22 DEF ComposerNext

LEMMA MenuInit == ComposerInit => MenuIInv /\ viaPlus \in BOOLEAN
<1> SUFFICES ASSUME ComposerInit PROVE MenuIInv /\ viaPlus \in BOOLEAN
  OBVIOUS
<1>1. token = NoToken /\ rows = <<>> /\ walk = NoWalk /\ viaPlus = FALSE
  BY DEF ComposerInit
<1>2. NoToken.kind = "none"
  BY DEF NoToken
<1> QED
  BY <1>1, <1>2, TreeFacts DEF MenuIInv, MenuTyped, MenuAnswersMention

\* When no listing is awaited the menu offers what the mention and the session call for,
\* whichever answer came last (Composer.tsx 318-358).
THEOREM MenuFollowsMention == ComposerSpec => []MenuAnswersMention
<1> DEFINE I == MenuIInv /\ viaPlus \in BOOLEAN /\ StopTyped /\ StopNotSpent
<1>1. I /\ [ComposerNext]_composerVars => I'
  BY StopStep, MenuStep, PlusTyped
<1>2. ComposerInit => I
  BY StopInit, MenuInit
<1>3. I => MenuAnswersMention
  BY DEF MenuIInv
<1> QED
  BY <1>1, <1>2, <1>3, PTL DEF ComposerSpec

-----------------------------------------------------------------------------
(* What is in a draft. *)

Pieces == Words \cup Marks

\* No word but those in M is twice in s.
Single(s, M) == \A i, j \in 1..Len(s) : s[i] = s[j] /\ s[i] \in Words \ M => i = j

LEMMA InFacts ==
  ASSUME NEW S, NEW s \in Seq(S)
  PROVE  In(s) = {s[i] : i \in 1..Len(s)} /\ In(s) \subseteq S /\ Len(s) \in Nat
<1>1. DOMAIN s = 1..Len(s) /\ Len(s) \in Nat /\ \A i \in 1..Len(s) : s[i] \in S
  BY LenProperties, ElementOfSeq
<1> QED
  BY <1>1 DEF In, ToSet

LEMMA JoinFacts ==
  ASSUME NEW S, NEW s \in Seq(S), NEW t \in Seq(S)
  PROVE  /\ s \o t \in Seq(S) /\ In(s \o t) = In(s) \cup In(t)
         /\ \A M : Single(s, M) /\ Single(t, M) /\ In(s) \cap In(t) \cap Words \subseteq M => Single(s \o t, M)
<1>1. /\ s \o t \in Seq(S) /\ Len(s \o t) = Len(s) + Len(t)
      /\ \A i \in 1..Len(s) + Len(t) : (s \o t)[i] = IF i <= Len(s) THEN s[i] ELSE t[i - Len(s)]
  BY ConcatProperties
<1>2. /\ In(s) = {s[i] : i \in 1..Len(s)} /\ In(t) = {t[i] : i \in 1..Len(t)}
      /\ In(s \o t) = {(s \o t)[i] : i \in 1..Len(s) + Len(t)} /\ Len(s) \in Nat /\ Len(t) \in Nat
  BY <1>1, InFacts
<1>3. In(s \o t) \subseteq In(s) \cup In(t)
  <2> SUFFICES ASSUME NEW i \in 1..Len(s) + Len(t) PROVE (s \o t)[i] \in In(s) \cup In(t)
    BY <1>2
  <2>1. CASE i <= Len(s)
    BY <1>1, <1>2, <2>1
  <2>2. CASE ~(i <= Len(s))
    <3>1. i - Len(s) \in 1..Len(t)
      BY <1>2, <2>2
    <3> QED
      BY <1>1, <1>2, <2>2, <3>1
  <2> QED
    BY <2>1, <2>2
<1>4. In(s) \subseteq In(s \o t)
  <2> SUFFICES ASSUME NEW i \in 1..Len(s) PROVE s[i] \in In(s \o t)
    BY <1>2
  <2>1. i \in 1..Len(s) + Len(t) /\ i <= Len(s)
    BY <1>2
  <2> QED
    BY <1>1, <1>2, <2>1
<1>5. In(t) \subseteq In(s \o t)
  <2> SUFFICES ASSUME NEW i \in 1..Len(t) PROVE t[i] \in In(s \o t)
    BY <1>2
  <2>1. i + Len(s) \in 1..Len(s) + Len(t) /\ ~(i + Len(s) <= Len(s)) /\ (i + Len(s)) - Len(s) = i
    BY <1>2
  <2> QED
    BY <1>1, <1>2, <2>1
<1>6. ASSUME NEW M, Single(s, M), Single(t, M), In(s) \cap In(t) \cap Words \subseteq M PROVE Single(s \o t, M)
  <2> SUFFICES ASSUME NEW i \in 1..Len(s) + Len(t), NEW j \in 1..Len(s) + Len(t),
                      (s \o t)[i] = (s \o t)[j], (s \o t)[i] \in Words \ M
               PROVE  i = j
    BY <1>1 DEF Single
  <2>1. ASSUME NEW k \in 1..Len(s) + Len(t)
        PROVE  /\ k <= Len(s) => k \in 1..Len(s) /\ (s \o t)[k] = s[k] /\ (s \o t)[k] \in In(s)
               /\ ~(k <= Len(s)) => k - Len(s) \in 1..Len(t) /\ (s \o t)[k] = t[k - Len(s)] /\ (s \o t)[k] \in In(t)
    <3>1. ~(k <= Len(s)) => k - Len(s) \in 1..Len(t)
      BY <1>2
    <3>2. k <= Len(s) => k \in 1..Len(s)
      BY <1>2
    <3> QED
      BY <1>1, <1>2, <3>1, <3>2
  <2>2. (i <= Len(s)) <=> (j <= Len(s))
    BY <1>6, <2>1
  <2>3. CASE i <= Len(s)
    BY <1>6, <2>1, <2>2, <2>3 DEF Single
  <2>4. CASE ~(i <= Len(s))
    <3>1. i - Len(s) = j - Len(s)
      BY <1>6, <2>1, <2>2, <2>4 DEF Single
    <3> QED
      BY <1>2, <3>1
  <2> QED
    BY <2>3, <2>4
<1> QED
  BY <1>1, <1>3, <1>4, <1>5, <1>6

LEMMA PartFacts ==
  ASSUME NEW S, NEW s \in Seq(S), NEW m \in Nat \ {0}, NEW n \in Nat, n <= Len(s)
  PROVE  /\ SubSeq(s, m, n) \in Seq(S) /\ In(SubSeq(s, m, n)) = {s[i] : i \in m..n}
         /\ \A M : Single(s, M) => Single(SubSeq(s, m, n), M)
<1>0. Len(s) \in Nat /\ \A i \in m..n : i \in 1..Len(s) /\ s[i] \in S
  BY LenProperties, ElementOfSeq
<1>1. /\ SubSeq(s, m, n) \in Seq(S) /\ Len(SubSeq(s, m, n)) = IF m <= n THEN n - m + 1 ELSE 0
      /\ \A i \in 1..n - m + 1 : SubSeq(s, m, n)[i] = s[m + i - 1]
  BY <1>0, SubSeqProperties
<1>2. \A i \in 1..Len(SubSeq(s, m, n)) : i \in 1..n - m + 1 /\ m + i - 1 \in m..n /\ SubSeq(s, m, n)[i] = s[m + i - 1]
  BY <1>1
<1>3. \A i \in m..n : i - m + 1 \in 1..Len(SubSeq(s, m, n)) /\ SubSeq(s, m, n)[i - m + 1] = s[i]
  <2> SUFFICES ASSUME NEW i \in m..n
               PROVE  i - m + 1 \in 1..Len(SubSeq(s, m, n)) /\ SubSeq(s, m, n)[i - m + 1] = s[i]
    OBVIOUS
  <2>1. i - m + 1 \in 1..Len(SubSeq(s, m, n)) /\ m + (i - m + 1) - 1 = i
    BY <1>1
  <2> QED
    BY <1>2, <2>1
<1>4. In(SubSeq(s, m, n)) = {SubSeq(s, m, n)[i] : i \in 1..Len(SubSeq(s, m, n))}
  BY <1>1, InFacts
<1>5. In(SubSeq(s, m, n)) = {s[i] : i \in m..n}
  <2> DEFINE q == SubSeq(s, m, n)
  <2>1. \A i \in 1..Len(q) : \E k \in m..n : q[i] = s[k]
    BY <1>2
  <2>2. \A k \in m..n : \E i \in 1..Len(q) : q[i] = s[k]
    BY <1>3
  <2>3. In(q) = {q[i] : i \in 1..Len(q)}
    BY <1>4
  <2> HIDE DEF q
  <2>4. ASSUME NEW i \in 1..Len(q) PROVE q[i] \in {s[k] : k \in m..n}
    BY <2>1
  <2>5. ASSUME NEW k \in m..n PROVE s[k] \in {q[i] : i \in 1..Len(q)}
    BY <2>2
  <2>6. {q[i] : i \in 1..Len(q)} = {s[k] : k \in m..n}
    BY <2>4, <2>5
  <2>7. In(q) = {s[i] : i \in m..n}
    BY <2>3, <2>6
  <2> QED
    BY <2>7 DEF q
<1>6. ASSUME NEW M, Single(s, M) PROVE Single(SubSeq(s, m, n), M)
  <2> SUFFICES ASSUME NEW i \in 1..Len(SubSeq(s, m, n)), NEW j \in 1..Len(SubSeq(s, m, n)),
                      SubSeq(s, m, n)[i] = SubSeq(s, m, n)[j], SubSeq(s, m, n)[i] \in Words \ M
               PROVE  i = j
    BY DEF Single
  <2>1. m + i - 1 \in 1..Len(s) /\ m + j - 1 \in 1..Len(s) /\ s[m + i - 1] = s[m + j - 1] /\ s[m + i - 1] \in Words \ M
    BY <1>0, <1>2
  <2>2. m + i - 1 = m + j - 1
    BY <1>6, <2>1 DEF Single
  <2> QED
    BY <2>2
<1> QED
  BY <1>1, <1>5, <1>6

\* What is before a place and what is after it.
LEMMA SplitFacts ==
  ASSUME NEW S, NEW s \in Seq(S), NEW a \in 0..Len(s), NEW b \in 0..Len(s)
  PROVE  /\ SubSeq(s, 1, a) \in Seq(S) /\ SubSeq(s, b + 1, Len(s)) \in Seq(S)
         /\ In(SubSeq(s, 1, a)) = {s[i] : i \in 1..a} /\ In(SubSeq(s, b + 1, Len(s))) = {s[i] : i \in b + 1..Len(s)}
         /\ In(s) = In(SubSeq(s, 1, a)) \cup {s[i] : i \in a + 1..b} \cup In(SubSeq(s, b + 1, Len(s)))
         /\ \A M : Single(s, M) =>
              /\ Single(SubSeq(s, 1, a), M) /\ Single(SubSeq(s, b + 1, Len(s)), M)
              /\ In(SubSeq(s, 1, a)) \cap In(SubSeq(s, b + 1, Len(s))) \cap Words \subseteq M \cup {s[i] : i \in b + 1..a}
<1>0. Len(s) \in Nat /\ a \in Nat /\ b \in Nat /\ b + 1 \in Nat \ {0} /\ a <= Len(s)
  BY LenProperties
<1>1. /\ SubSeq(s, 1, a) \in Seq(S) /\ In(SubSeq(s, 1, a)) = {s[i] : i \in 1..a}
      /\ \A M : Single(s, M) => Single(SubSeq(s, 1, a), M)
  <2>1. 1 \in Nat \ {0}
    OBVIOUS
  <2> QED
    BY <1>0, <2>1, PartFacts
<1>2. /\ SubSeq(s, b + 1, Len(s)) \in Seq(S) /\ In(SubSeq(s, b + 1, Len(s))) = {s[i] : i \in b + 1..Len(s)}
      /\ \A M : Single(s, M) => Single(SubSeq(s, b + 1, Len(s)), M)
  BY <1>0, PartFacts
<1>3. In(s) = {s[i] : i \in 1..Len(s)}
  BY InFacts
<1>4. \A i \in Int : i \in 1..Len(s) <=> i \in 1..a \/ i \in a + 1..b \/ i \in b + 1..Len(s)
  BY <1>0
<1>5. In(s) = In(SubSeq(s, 1, a)) \cup {s[i] : i \in a + 1..b} \cup In(SubSeq(s, b + 1, Len(s)))
  BY <1>1, <1>2, <1>3, <1>4
<1>6. ASSUME NEW M, Single(s, M), NEW i \in 1..a, NEW j \in b + 1..Len(s), s[i] = s[j], s[i] \in Words
      PROVE  s[i] \in M \cup {s[k] : k \in b + 1..a}
  <2>1. i \in 1..Len(s) /\ j \in 1..Len(s)
    BY <1>0
  <2>2. CASE i = j
    BY <1>0, <2>2
  <2>3. CASE i # j
    BY <1>6, <2>1, <2>3 DEF Single
  <2> QED
    BY <2>2, <2>3
<1>7. ASSUME NEW M, Single(s, M)
      PROVE  In(SubSeq(s, 1, a)) \cap In(SubSeq(s, b + 1, Len(s))) \cap Words \subseteq M \cup {s[i] : i \in b + 1..a}
  BY <1>1, <1>2, <1>6, <1>7
<1> QED
  BY <1>1, <1>2, <1>5, <1>7

LEMMA Loosened == \A s, M, N : M \subseteq N /\ Single(s, M) => Single(s, N)
  BY DEF Single

LEMMA OnePiece == \A p : <<p>> \in Seq({p}) /\ In(<<p>>) = {p} /\ \A M : Single(<<p>>, M)
<1> SUFFICES ASSUME NEW p PROVE <<p>> \in Seq({p}) /\ In(<<p>>) = {p} /\ \A M : Single(<<p>>, M)
  OBVIOUS
<1>1. <<p>> \in Seq({p}) /\ Len(<<p>>) = 1 /\ <<p>>[1] = p
  OBVIOUS
<1>2. In(<<p>>) = {p}
  <2>1. In(<<p>>) = {<<p>>[i] : i \in 1..Len(<<p>>)}
    BY <1>1, InFacts
  <2> QED
    BY <1>1, <2>1
<1> QED
  BY <1>1, <1>2 DEF Single

LEMMA InSequence ==
  ASSUME NEW S, S \subseteq Words
  PROVE  SetToSeq(S) \in Seq(S) /\ In(SetToSeq(S)) = S /\ Single(SetToSeq(S), {})
<1>1. IsFiniteSet(S) /\ Cardinality(S) \in Nat
  BY ComposerAssumption, FS_Subset, FS_CardinalityType
<1>2. PICK f \in Bijection(1..Cardinality(S), S) : TRUE
  BY <1>1, FS_CardinalityType DEF ExistsBijection
<1>3. f \in [1..Cardinality(S) -> S] /\ IsInjective(f)
  BY DEF Bijection, Injection
<1>4. SetToSeq(S) \in [1..Cardinality(S) -> S] /\ IsInjective(SetToSeq(S))
  BY <1>3 DEF SetToSeq
<1> DEFINE q == SetToSeq(S)
<1>5. q \in Seq(S) /\ Len(q) = Cardinality(S)
  BY <1>1, <1>4
<1>6. In(q) \subseteq S /\ In(q) = {q[i] : i \in 1..Len(q)}
  BY <1>5, InFacts
<1>7. Single(q, {})
  BY <1>4, <1>5 DEF Single, IsInjective
<1>8. q \in Bijection(1..Cardinality(S), S)
  <2>1. q \in Injection(1..Cardinality(S), S)
    BY <1>4 DEF Injection
  <2> HIDE DEF q
  <2>2. q \in Surjection(1..Cardinality(S), S)
    <3>1. IsFiniteSet(1..Cardinality(S)) /\ Cardinality(1..Cardinality(S)) = Cardinality(S)
      BY <1>1, FS_Interval
    <3> QED
      BY <1>1, <2>1, <3>1, FS_Injection
  <2> QED
    BY <2>1, <2>2 DEF Bijection
<1>9. S \subseteq In(q)
  BY <1>5, <1>6, <1>8 DEF Bijection, Surjection
<1> QED
  BY <1>5, <1>6, <1>7, <1>9

-----------------------------------------------------------------------------
(* Mentions and rows. *)

LEMMA LeastFact ==
  ASSUME NEW T, T \subseteq Nat, T # {}
  PROVE  \E x \in T : \A y \in T : x <= y
<1>1. PICK x \in T : \A y \in T : <<y, x>> \notin OpToRel(<, Nat)
  BY NatLessThanWellFounded, WFMin
<1>2. \A y \in T : ~(y < x)
  BY <1>1 DEF OpToRel
<1> QED
  BY <1>2

Rows ==
  {Row("directory", "d/"), Row("file", "f"), Row("file", "g"), Row("attach", "files"),
   Row("command", "compact"), Row("command", "attach")}

TokenTyped == token.start \in Nat /\ token.query \in Seq(Loose) /\ rows \in Seq(Rows) /\ active \in Nat

LEMMA TokenAtFacts ==
  ASSUME NEW text \in Seq(Pieces), NEW spot \in 0..Len(text)
  PROVE  TokenAt(text, spot).start \in Nat /\ TokenAt(text, spot).query \in Seq(Loose)
<1>0. Len(text) \in Nat /\ spot \in Nat /\ \A i \in 1..Len(text) : text[i] \in Pieces
  BY LenProperties, ElementOfSeq
<1> DEFINE P(i) == (i > 0 => text[i] \in Closed) /\ \A j \in i+1..spot : text[j] \notin Closed
           T == {n \in 0..spot : n = spot \/ text[spot - n] \in Closed}
           start == CHOOSE i \in 0..spot : P(i)
<1>1. \E i \in 0..spot : P(i)
  <2>1. T \subseteq Nat /\ T # {}
    BY <1>0
  <2>2. PICK n \in T : \A m \in T : n <= m
    BY <2>1, LeastFact
  <2>3. n \in 0..spot /\ spot - n \in 0..spot /\ (n = spot \/ text[spot - n] \in Closed)
    BY <1>0, <2>2
  <2>4. ASSUME NEW j \in (spot - n) + 1..spot PROVE text[j] \notin Closed
    <3>1. spot - j \in 0..spot /\ spot - (spot - j) = j /\ ~(n <= spot - j)
      BY <1>0, <2>3
    <3> QED
      BY <2>2, <3>1
  <2>5. P(spot - n)
    BY <1>0, <2>3, <2>4
  <2> QED
    BY <2>3, <2>5
<1>2. start \in 0..spot /\ P(start)
  BY <1>1
<1> HIDE DEF start
<1> DEFINE query == SubSeq(text, start + 2, spot)
<1>3. query \in Seq(Loose)
  <2>1. \A i \in start + 2..spot : text[i] \in Loose
    <3> SUFFICES ASSUME NEW i \in start + 2..spot PROVE text[i] \in Loose
      OBVIOUS
    <3>1. i \in 1..Len(text) /\ i \in start + 1..spot
      BY <1>0, <1>2
    <3> QED
      BY <1>0, <1>2, <3>1 DEF Pieces, Marks, Closed
  <2>2. start + 2 \in Int /\ spot \in Int
    BY <1>0, <1>2
  <2> QED
    BY <2>1, <2>2, SubSeqProperties
<1>4. TokenAt(text, spot) = IF start < spot /\ (text[start + 1] = "@" \/ (text[start + 1] = "/" /\ start = 0))
                          THEN [kind |-> IF text[start + 1] = "@" THEN "file" ELSE "command",
                                start |-> start, query |-> query]
                          ELSE NoToken
  BY DEF TokenAt, start
<1>5. NoToken.start \in Nat /\ NoToken.query \in Seq(Loose)
  BY DEF NoToken
<1> HIDE DEF query
<1> QED
  BY <1>0, <1>2, <1>3, <1>4, <1>5

LEMMA RowFacts ==
  /\ \A query, plus : FileRows(query, plus) \in Seq(Rows)
  /\ \A query, of : CommandRows(query, of) \in Seq(Rows)
<1>1. ASSUME NEW query, NEW of PROVE CommandRows(query, of) \in Seq(Rows)
  <2> DEFINE a == IF of = "idle" THEN <<Row("command", "compact")>> ELSE <<>>
             b == <<Row("command", "attach")>>
  <2>1. \A r \in Rows : <<r>> \in Seq(Rows)
    OBVIOUS
  <2>2. Row("command", "compact") \in Rows /\ Row("command", "attach") \in Rows
    BY DEF Rows
  <2>3. a \in Seq(Rows) /\ b \in Seq(Rows)
    BY <2>1, <2>2
  <2>4. CommandRows(query, of) = IF query # <<>> THEN <<>> ELSE a \o b
    BY DEF CommandRows
  <2> HIDE DEF a, b
  <2> QED
    BY <2>3, <2>4, ConcatProperties
<1>2. ASSUME NEW entries \in Seq(Rows), NEW leaf PROVE Matching(entries, leaf) \in Seq(Rows)
  <2>1. \A i \in DOMAIN entries : entries[i] \in Rows
    BY LenProperties, ElementOfSeq
  <2>2. \A r \in Rows : <<r>> \in Seq(Rows)
    OBVIOUS
  <2> DEFINE named == {i \in DOMAIN entries : entries[i].name = leaf}
             i == CHOOSE i \in named : TRUE
  <2>3. named # {} => i \in DOMAIN entries
    OBVIOUS
  <2>4. Matching(entries, leaf) = IF leaf = "" THEN entries ELSE IF named = {} THEN <<>> ELSE <<entries[i]>>
    BY DEF Matching
  <2>5. named # {} => <<entries[i]>> \in Seq(Rows)
    BY <2>1, <2>2, <2>3
  <2> HIDE DEF named, i
  <2>6. <<>> \in Seq(Rows)
    OBVIOUS
  <2>7. CASE leaf = "" \/ named = {}
    BY <2>4, <2>6, <2>7
  <2>8. CASE leaf # "" /\ named # {}
    BY <2>4, <2>5, <2>8
  <2> QED
    BY <2>7, <2>8
<1>3. \A path \in DOMAIN Tree : Tree[path] \in Seq(Rows)
  <2>1. Tree[<<>>] = <<Row("directory", "d/"), Row("file", "f")>> /\ Tree[<<"d/">>] = <<Row("file", "g")>>
    BY DEF Tree
  <2>2. Row("directory", "d/") \in Rows /\ Row("file", "f") \in Rows /\ Row("file", "g") \in Rows
    BY DEF Rows
  <2>3. \A r, q \in Rows : <<r, q>> \in Seq(Rows) /\ <<r>> \in Seq(Rows)
    OBVIOUS
  <2> QED
    BY <2>1, <2>2, <2>3, TreeFacts
<1>4. ASSUME NEW query, NEW plus PROVE FileRows(query, plus) \in Seq(Rows)
  <2> DEFINE listed == IF Directories(query) \in DOMAIN Tree THEN Matching(Tree[Directories(query)], Leaf(query)) ELSE <<>>
  <2>1. listed \in Seq(Rows)
    BY <1>2, <1>3
  <2>2. <<Row("attach", "files")>> \in Seq(Rows)
    BY DEF Rows
  <2>3. FileRows(query, plus) = IF plus /\ query = <<>> THEN <<Row("attach", "files")>> \o listed ELSE listed
    BY DEF FileRows
  <2> HIDE DEF listed
  <2> QED
    BY <2>1, <2>2, <2>3, ConcatProperties
<1> QED
  BY <1>1, <1>4

LEMMA TokenSetTyped ==
  ASSUME TokenTyped, NEW t, NEW plus, SetToken(t, plus), t.start \in Nat, t.query \in Seq(Loose)
  PROVE  TokenTyped'
<1>1. token' = t /\ (UNCHANGED rows \/ Resolve(t, plus, status[front]))
  BY DEF SetToken
<1>0. active' \in Nat
  BY DEF SetToken, TokenTyped
<1>2. CASE UNCHANGED rows
  BY <1>0, <1>1, <1>2 DEF TokenTyped
<1>3. CASE Resolve(t, plus, status[front])
  <2>1. UNCHANGED rows \/ rows' = <<>> \/ rows' = CommandRows(t.query, status[front]) \/ rows' = FileRows(t.query, plus)
    BY <1>3 DEF Resolve
  <2>2. <<>> \in Seq(Rows)
    OBVIOUS
  <2>3. rows' \in Seq(Rows)
    BY <2>1, <2>2, RowFacts DEF TokenTyped
  <2> QED
    BY <1>0, <1>1, <2>3 DEF TokenTyped
<1> QED
  BY <1>1, <1>2, <1>3

LEMMA ClosedTyped ==
  ASSUME TokenTyped, CloseMenu
  PROVE  TokenTyped'
<1>1. NoToken.start \in Nat /\ NoToken.query \in Seq(Loose)
  BY DEF NoToken
<1>2. SetToken(NoToken, FALSE)
  BY DEF CloseMenu
<1> QED
  BY <1>1, <1>2, TokenSetTyped

-----------------------------------------------------------------------------
(* Words. *)

CallState ==
  [do : {"submit", "abort", "pick"}, id : Nat, session : Tabs, words : SUBSET Words, files : SUBSET Files,
   bar : Nat, life : Nat, stage : {"sent", "done"}]

FieldTyped == draft \in Seq(Pieces) /\ caret \in 0..Len(draft)

CallsTyped ==
  /\ calls \subseteq CallState
  /\ \A c, d \in calls : c.id = d.id => c = d
  /\ \A c \in calls : c.id < used["calls"] /\ c.bar <= bar /\ c.words \cup c.files \subseteq entered
  /\ used \in [{"keys", "calls", "events"} -> Nat] /\ bar \in Nat
  /\ waiting \in [Tabs -> SUBSET Words] /\ given \subseteq Words \cup Files /\ attached \subseteq Files
  /\ \A s \in Tabs : waiting[s] \subseteq entered
  /\ given \cup attached \subseteq entered /\ entered \subseteq Words \cup Files

\* Pi has this word, or an abort is on its way back with it.
Has(w) == (\E s \in Tabs : w \in waiting[s]) \/ w \in given \/ \E c \in calls : c.do = "abort" /\ w \in c.words

\* A submit of this bar clears the field when its answer comes.
Mine(c) == c.bar = bar /\ Shown

\* What the draft holds besides Pi is about to be cleared.
Cleaned == \A w \in (In(draft) \cap Words) \ mishaps :
             Has(w) => \E c \in calls : c.do = "submit" /\ c.stage = "done" /\ Mine(c) /\ w \in c.words

\* Pi has a word in one place.
GotOnce ==
  \A w \in Words \ mishaps :
    /\ \A s, t \in Tabs : w \in waiting[s] /\ w \in waiting[t] => s = t
    /\ w \in given => \A s \in Tabs : w \notin waiting[s]
    /\ \A c \in calls : c.do = "abort" /\ w \in c.words =>
         /\ w \notin given /\ \A s \in Tabs : w \notin waiting[s]
         /\ \A d \in calls : d.do = "abort" /\ w \in d.words => c = d

\* What is in a submit that Pi has not seen is not there yet.
SentIsNew ==
  \A c \in calls : c.do = "submit" /\ c.stage = "sent" => \A w \in c.words \ mishaps : ~Has(w)

\* No word is in two submits.
SubmitsApart ==
  \A c, d \in calls : c.do = "submit" /\ d.do = "submit" /\ c # d => c.words \cap d.words \subseteq mishaps

\* A submit of another bar has nothing in this one.
LeftBehind == \A c \in calls : c.do = "submit" /\ ~Mine(c) => c.words \cap In(draft) \subseteq mishaps

\* A bar sends one message at a time.
OneSubmit ==
  \A c \in calls : c.do = "submit" /\ Mine(c) => busy /\ \A d \in calls : d.do = "submit" /\ Mine(d) => c = d

\* What was performed is with Pi or on its way back.
DoneIsGot ==
  \A c \in calls :
    /\ c.do = "submit" /\ c.stage = "done" => \A w \in c.words \ mishaps : Has(w)
    /\ c.do = "abort" /\ c.stage = "sent" => c.words = {}

Kept == \A w \in entered \cap Words : w \in withdrawn \cup mishaps \cup In(draft) \/ Has(w)

KnownWords == In(draft) \cap Words \subseteq entered

WordsIInv ==
  /\ Single(draft, mishaps) /\ Cleaned /\ GotOnce /\ SentIsNew /\ SubmitsApart /\ LeftBehind /\ OneSubmit
  /\ DoneIsGot /\ Kept /\ KnownWords

LEMMA SameWords ==
  ASSUME WordsIInv, UNCHANGED <<draft, calls, waiting, given, bar, busy, mishaps, withdrawn, entered>>, Shown' = Shown
  PROVE  WordsIInv'
<1>1. \A w : Has(w)' = Has(w)
  BY DEF Has
<1>2. \A c : Mine(c)' = Mine(c)
  BY DEF Mine
<1> QED
  BY <1>1, <1>2 DEF WordsIInv, Cleaned, GotOnce, SentIsNew, SubmitsApart, LeftBehind, OneSubmit, DoneIsGot, Kept,
                    KnownWords, Single

\* The person edits the draft; no call but that for the file picker is made.
LEMMA EditedWords ==
  ASSUME FieldTyped, CallsTyped, WordsIInv, NEW new \in SUBSET (Words \ entered), NEW picks,
         \A c \in picks : c.do = "pick", calls' = calls \cup picks,
         UNCHANGED <<waiting, given, bar, busy, front>>,
         mishaps \subseteq mishaps', withdrawn \subseteq withdrawn', entered' = entered \cup new,
         new \subseteq In(draft'), In(draft') \cap Words \subseteq In(draft) \cup new,
         In(draft) \cap Words \subseteq In(draft') \cup withdrawn' \cup mishaps', Single(draft', mishaps')
  PROVE  WordsIInv'
<1>1. \A w : Has(w)' <=> Has(w)
  BY DEF Has
<1>2. \A c : Mine(c)' <=> Mine(c)
  BY DEF Mine, Shown
<1>3. \A w \in new : ~Has(w) /\ \A c \in calls : w \notin c.words
  BY DEF Has, CallsTyped
<1>4. Cleaned'
  BY <1>1, <1>2, <1>3 DEF WordsIInv, Cleaned
<1>5. GotOnce'
  BY DEF WordsIInv, GotOnce
<1>6. SentIsNew' /\ SubmitsApart' /\ DoneIsGot'
  BY <1>1 DEF WordsIInv, SentIsNew, SubmitsApart, DoneIsGot
<1>7. LeftBehind'
  <2> SUFFICES ASSUME NEW c \in calls, c.do = "submit", ~Mine(c) PROVE c.words \cap In(draft') \subseteq mishaps'
    BY <1>2 DEF LeftBehind
  <2>1. c.words \subseteq Words /\ c.words \cap new = {}
    BY <1>3 DEF CallsTyped, CallState
  <2>2. c.words \cap In(draft) \subseteq mishaps
    BY DEF WordsIInv, LeftBehind
  <2> QED
    BY <2>1, <2>2
<1>8. OneSubmit'
  BY <1>2 DEF WordsIInv, OneSubmit
<1>9. Kept' /\ KnownWords'
  BY <1>1 DEF WordsIInv, Kept, KnownWords
<1> QED
  BY <1>4, <1>5, <1>6, <1>7, <1>8, <1>9 DEF WordsIInv

\* The same, when nothing is typed and nothing is sent.
LEMMA EditedAlone ==
  ASSUME FieldTyped, CallsTyped, WordsIInv, UNCHANGED <<calls, waiting, given, bar, busy, front, entered>>,
         mishaps \subseteq mishaps', withdrawn \subseteq withdrawn', In(draft') \cap Words \subseteq In(draft),
         In(draft) \cap Words \subseteq In(draft') \cup withdrawn' \cup mishaps', Single(draft', mishaps')
  PROVE  WordsIInv'
<1> DEFINE none == {}
<1>1. /\ none \in SUBSET (Words \ entered) /\ calls' = calls \cup none /\ entered' = entered \cup none
      /\ none \subseteq In(draft') /\ In(draft') \cap Words \subseteq In(draft) \cup none
      /\ \A c \in none : c.do = "pick"
  OBVIOUS
<1> HIDE DEF none
<1> QED
  BY <1>1, EditedWords

\* The same, when something is typed.
LEMMA TypedWords ==
  ASSUME FieldTyped, CallsTyped, WordsIInv, UNCHANGED <<calls, waiting, given, bar, busy, front, mishaps, withdrawn>>,
         NEW new \in SUBSET (Words \ entered), entered' = entered \cup new, new \subseteq In(draft'),
         In(draft') \cap Words \subseteq In(draft) \cup new, In(draft) \cap Words \subseteq In(draft'),
         Single(draft', mishaps')
  PROVE  WordsIInv'
<1> DEFINE none == {}
<1>1. calls' = calls \cup none /\ \A c \in none : c.do = "pick"
  OBVIOUS
<1> HIDE DEF none
<1>2. mishaps \subseteq mishaps' /\ withdrawn \subseteq withdrawn' /\ In(draft) \cap Words \subseteq In(draft') \cup withdrawn' \cup mishaps'
  OBVIOUS
<1> QED
  BY <1>1, <1>2, EditedWords

LEMMA CallFacts ==
  ASSUME CallsTyped, StopTyped, Shown, NEW what \in {"submit", "abort", "pick"}, NEW words \in SUBSET Words,
         NEW files \in SUBSET Files, Uses("calls")
  PROVE  LET n == Call(what, front, words, files)
         IN /\ n \in CallState /\ n.do = what /\ n.words = words /\ n.files = files /\ n.stage = "sent"
            /\ n.bar = bar /\ n.id = used["calls"] /\ n \notin calls /\ used'["calls"] = used["calls"] + 1
            /\ used' \in [{"keys", "calls", "events"} -> Nat]
<1> DEFINE n == Call(what, front, words, files)
<1>1. front \in Tabs /\ used["calls"] \in Nat /\ bar \in Nat /\ life[front] \in Nat
  BY DEF StopTyped, Shown, CallsTyped
<1>2. /\ n \in CallState /\ n.do = what /\ n.words = words /\ n.files = files /\ n.stage = "sent"
      /\ n.bar = bar /\ n.id = used["calls"]
  BY <1>1 DEF Call, CallState
<1>3. n \notin calls
  BY <1>1, <1>2 DEF CallsTyped
<1>4. used'["calls"] = used["calls"] + 1 /\ used' \in [{"keys", "calls", "events"} -> Nat]
  BY <1>1 DEF Uses, CallsTyped
<1> QED
  BY <1>2, <1>3, <1>4

\* The field is sent.
LEMMA SentWords ==
  ASSUME CallsTyped, StopTyped, WordsIInv, Shown, ~busy, Uses("calls"), busy',
         calls' = calls \cup {Call("submit", front, In(draft) \cap Words, attached)},
         UNCHANGED <<draft, waiting, given, bar, front, mishaps, withdrawn, entered>>
  PROVE  WordsIInv'
<1> DEFINE n == Call("submit", front, In(draft) \cap Words, attached)
<1>0. In(draft) \cap Words \in SUBSET Words /\ attached \in SUBSET Files
  BY DEF CallsTyped
<1>1. n.do = "submit" /\ n.words = In(draft) \cap Words /\ n.stage = "sent" /\ n.bar = bar /\ calls' = calls \cup {n}
  BY <1>0, CallFacts
<1> HIDE DEF n
<1>2. \A w : Has(w)' <=> Has(w)
  BY <1>1 DEF Has
<1>3. \A c : Mine(c)' <=> Mine(c)
  BY DEF Mine, Shown
<1>4. Mine(n) /\ \A c \in calls : c.do = "submit" => ~Mine(c)
  BY <1>1 DEF Mine, WordsIInv, OneSubmit
<1>5. \A w \in n.words \ mishaps : ~Has(w) /\ \A c \in calls : c.do = "submit" => w \notin c.words
  BY <1>1, <1>4 DEF WordsIInv, Cleaned, LeftBehind
<1>6. Cleaned' /\ GotOnce'
  BY <1>1, <1>2, <1>3 DEF WordsIInv, Cleaned, GotOnce
<1>7. SentIsNew' /\ SubmitsApart'
  BY <1>1, <1>2, <1>5 DEF WordsIInv, SentIsNew, SubmitsApart
<1>8. LeftBehind' /\ OneSubmit'
  BY <1>1, <1>3, <1>4 DEF WordsIInv, LeftBehind, OneSubmit
<1>9. DoneIsGot' /\ Kept' /\ KnownWords'
  BY <1>1, <1>2 DEF WordsIInv, DoneIsGot, Kept, KnownWords
<1> QED
  BY <1>6, <1>7, <1>8, <1>9 DEF WordsIInv

\* A stop is sent, or the file picker opens.
LEMMA AskedWords ==
  ASSUME CallsTyped, StopTyped, WordsIInv, NEW n, n.do \in {"abort", "pick"}, n.words = {}, calls' = calls \cup {n},
         UNCHANGED <<draft, waiting, given, bar, busy, mishaps, withdrawn, entered>>, Shown' = Shown
  PROVE  WordsIInv'
<1>2. \A w : Has(w)' <=> Has(w)
  BY DEF Has
<1>3. \A c : Mine(c)' <=> Mine(c)
  BY DEF Mine
<1>6. Cleaned' /\ GotOnce'
  BY <1>2, <1>3 DEF WordsIInv, Cleaned, GotOnce
<1>7. SentIsNew' /\ SubmitsApart' /\ LeftBehind' /\ OneSubmit'
  BY <1>2, <1>3 DEF WordsIInv, SentIsNew, SubmitsApart, LeftBehind, OneSubmit
<1>9. DoneIsGot' /\ Kept' /\ KnownWords' /\ Single(draft', mishaps')
  BY <1>2 DEF WordsIInv, DoneIsGot, Kept, KnownWords
<1> QED
  BY <1>6, <1>7, <1>9 DEF WordsIInv

\* The host performs a submit: what is in it goes to Pi.
LEMMA PerformedSubmit ==
  ASSUME CallsTyped, WordsIInv, NEW c \in calls, c.do = "submit", Performs(c)
  PROVE  WordsIInv'
<1> DEFINE d == [c EXCEPT !.stage = "done"]
<1>1. /\ c \in CallState /\ c.stage = "sent" /\ calls' = (calls \ {c}) \cup {d}
      /\ \/ \E s \in Tabs : waiting' = [waiting EXCEPT ![s] = @ \cup c.words] /\ given' = given \cup c.files
         \/ given' = given \cup c.words \cup c.files /\ UNCHANGED waiting
  BY DEF Performs, CallsTyped, CallState
<1>2. UNCHANGED <<draft, bar, front, busy, mishaps, withdrawn, entered>>
  BY DEF Performs, fieldVars, storeVars, historyVars
<1>3. d.do = "submit" /\ d.stage = "done" /\ d.words = c.words /\ d.bar = c.bar /\ c.words \subseteq Words /\ c.files \subseteq Files
  BY <1>1 DEF CallState
<1> HIDE DEF d
<1>4. \A w \in Words : Has(w)' <=> Has(w) \/ w \in c.words
  <2>1. \A w \in Words : w \notin c.files
    BY <1>3, ComposerAssumption
  <2>2. \A w : (\E e \in calls' : e.do = "abort" /\ w \in e.words) <=> \E e \in calls : e.do = "abort" /\ w \in e.words
    BY <1>1, <1>3
  <2>3. \A w \in Words : (\E s \in Tabs : w \in waiting'[s]) \/ w \in given'
                           <=> (\E s \in Tabs : w \in waiting[s]) \/ w \in given \/ w \in c.words
    <3>1. CASE \E s \in Tabs : waiting' = [waiting EXCEPT ![s] = @ \cup c.words] /\ given' = given \cup c.files
      <4>1. PICK s \in Tabs : waiting' = [waiting EXCEPT ![s] = @ \cup c.words] /\ given' = given \cup c.files
        BY <3>1
      <4>2. waiting'[s] = waiting[s] \cup c.words /\ \A t \in Tabs : t # s => waiting'[t] = waiting[t]
        BY <4>1 DEF CallsTyped
      <4> QED
        BY <2>1, <4>1, <4>2
    <3>2. CASE given' = given \cup c.words \cup c.files /\ UNCHANGED waiting
      BY <2>1, <3>2
    <3> QED
      BY <1>1, <3>1, <3>2
  <2> QED
    BY <2>2, <2>3 DEF Has
<1>5. \A e : Mine(e)' <=> Mine(e)
  BY <1>2 DEF Mine, Shown
<1>6. Mine(d) <=> Mine(c)
  BY <1>3 DEF Mine
<1>7. \A w \in c.words \ mishaps : ~Has(w)
  BY <1>1 DEF WordsIInv, SentIsNew
<1>8. Cleaned'
  <2> SUFFICES ASSUME NEW w \in (In(draft) \cap Words) \ mishaps, Has(w)'
               PROVE  \E e \in calls' : e.do = "submit" /\ e.stage = "done" /\ Mine(e) /\ w \in e.words
    BY <1>2, <1>5 DEF Cleaned
  <2>1. CASE Has(w)
    BY <1>1, <2>1 DEF WordsIInv, Cleaned
  <2>2. CASE w \in c.words
    <3>1. Mine(c)
      BY <2>2 DEF WordsIInv, LeftBehind
    <3> QED
      BY <1>1, <1>3, <1>6, <2>2, <3>1
  <2> QED
    BY <1>4, <2>1, <2>2
<1>9. GotOnce'
  <2> SUFFICES ASSUME NEW w \in Words \ mishaps
               PROVE  /\ \A s, t \in Tabs : w \in waiting'[s] /\ w \in waiting'[t] => s = t
                      /\ w \in given' => \A s \in Tabs : w \notin waiting'[s]
                      /\ \A e \in calls' : e.do = "abort" /\ w \in e.words =>
                           /\ w \notin given' /\ \A s \in Tabs : w \notin waiting'[s]
                           /\ \A f \in calls' : f.do = "abort" /\ w \in f.words => e = f
    BY <1>2 DEF GotOnce
  <2>1. w \notin c.files
    BY <1>3, ComposerAssumption
  <2>2. CASE w \notin c.words
    <3>1. \A s \in Tabs : w \in waiting'[s] <=> w \in waiting[s]
      BY <1>1, <2>2 DEF CallsTyped
    <3>2. w \in given' <=> w \in given
      BY <1>1, <2>1, <2>2
    <3> QED
      BY <1>1, <1>3, <3>1, <3>2 DEF WordsIInv, GotOnce
  <2>3. CASE w \in c.words
    <3>1. (\A s \in Tabs : w \notin waiting[s]) /\ w \notin given /\ \A e \in calls : e.do = "abort" => w \notin e.words
      BY <1>7, <2>3 DEF Has
    <3>2. \A s, t \in Tabs : w \in waiting'[s] /\ w \in waiting'[t] => s = t
      BY <1>1, <3>1 DEF CallsTyped
    <3>3. w \in given' => \A s \in Tabs : w \notin waiting'[s]
      BY <1>1, <2>1, <3>1
    <3> QED
      BY <1>1, <1>3, <3>1, <3>2, <3>3
  <2> QED
    BY <2>2, <2>3
<1>10. SentIsNew'
  <2> SUFFICES ASSUME NEW e \in calls \ {c}, e.do = "submit", e.stage = "sent", NEW w \in e.words \ mishaps PROVE ~Has(w)'
    BY <1>1, <1>2, <1>3 DEF SentIsNew
  <2>1. ~Has(w) /\ w \notin c.words /\ w \in Words
    BY DEF WordsIInv, SentIsNew, SubmitsApart, CallsTyped, CallState
  <2> QED
    BY <1>4, <2>1
<1>11. SubmitsApart'
  BY <1>1, <1>2, <1>3 DEF WordsIInv, SubmitsApart
<1>12. LeftBehind'
  BY <1>1, <1>2, <1>3, <1>5, <1>6 DEF WordsIInv, LeftBehind
<1>13. OneSubmit'
  BY <1>1, <1>2, <1>3, <1>5, <1>6 DEF WordsIInv, OneSubmit
<1>14. DoneIsGot'
  <2>1. ASSUME NEW e \in calls', e.do = "submit", e.stage = "done", NEW w \in e.words \ mishaps PROVE Has(w)'
    <3>1. w \in Words
      BY <1>1, <1>3, <2>1 DEF CallsTyped, CallState
    <3> QED
      BY <1>1, <1>3, <1>4, <2>1, <3>1 DEF WordsIInv, DoneIsGot
  <2>2. ASSUME NEW e \in calls', e.do = "abort", e.stage = "sent" PROVE e.words = {}
    BY <1>1, <1>3, <2>2 DEF WordsIInv, DoneIsGot
  <2> QED
    BY <1>2, <2>1, <2>2 DEF DoneIsGot
<1>15. Kept' /\ KnownWords' /\ Single(draft', mishaps')
  BY <1>2, <1>4 DEF WordsIInv, Kept, KnownWords
<1> QED
  BY <1>8, <1>9, <1>10, <1>11, <1>12, <1>13, <1>14, <1>15 DEF WordsIInv

\* The host performs an abort: what Pi had waiting is on its way back.
LEMMA PerformedAbort ==
  ASSUME CallsTyped, WordsIInv, NEW c \in calls, c.do = "abort", Performs(c)
  PROVE  WordsIInv'
<1> DEFINE s == c.session
           d == [c EXCEPT !.stage = "done", !.words = waiting[s]]
<1>1. /\ c \in CallState /\ c.stage = "sent" /\ calls' = (calls \ {c}) \cup {d}
      /\ waiting' = [waiting EXCEPT ![s] = {}] /\ UNCHANGED given
  BY DEF Performs, CallsTyped, CallState
<1>2. UNCHANGED <<draft, bar, front, busy, mishaps, withdrawn, entered>>
  BY DEF Performs, fieldVars, storeVars, historyVars
<1>3. d.do = "abort" /\ d.stage = "done" /\ d.words = waiting[s] /\ s \in Tabs
  BY <1>1 DEF CallState
<1>4. waiting'[s] = {} /\ (\A t \in Tabs : t # s => waiting'[t] = waiting[t]) /\ c.words = {}
  BY <1>1, <1>3 DEF CallsTyped, WordsIInv, DoneIsGot
<1> HIDE DEF d, s
<1>5. \A w : Has(w)' <=> Has(w)
  BY <1>1, <1>3, <1>4 DEF Has
<1>6. \A e : Mine(e)' <=> Mine(e)
  BY <1>2 DEF Mine, Shown
<1>7. \A e : e \in calls' /\ e.do = "submit" <=> e \in calls /\ e.do = "submit"
  BY <1>1, <1>3
<1>8. Cleaned'
  BY <1>2, <1>5, <1>6, <1>7 DEF WordsIInv, Cleaned
<1>9. GotOnce'
  <2> SUFFICES ASSUME NEW w \in Words \ mishaps
               PROVE  /\ \A r, t \in Tabs : w \in waiting'[r] /\ w \in waiting'[t] => r = t
                      /\ w \in given => \A t \in Tabs : w \notin waiting'[t]
                      /\ \A e \in calls' : e.do = "abort" /\ w \in e.words =>
                           /\ w \notin given /\ \A t \in Tabs : w \notin waiting'[t]
                           /\ \A f \in calls' : f.do = "abort" /\ w \in f.words => e = f
    BY <1>1, <1>2 DEF GotOnce
  <2>1. \A t \in Tabs : w \in waiting'[t] => w \in waiting[t] /\ t # s
    BY <1>4
  <2>2. /\ \A r, t \in Tabs : w \in waiting[r] /\ w \in waiting[t] => r = t
        /\ w \in given => \A t \in Tabs : w \notin waiting[t]
        /\ \A e \in calls : e.do = "abort" /\ w \in e.words =>
             /\ w \notin given /\ \A t \in Tabs : w \notin waiting[t]
             /\ \A f \in calls : f.do = "abort" /\ w \in f.words => e = f
    BY DEF WordsIInv, GotOnce
  <2>3. CASE w \in waiting[s]
    BY <1>1, <1>3, <2>1, <2>2, <2>3
  <2>4. CASE w \notin waiting[s]
    BY <1>1, <1>3, <2>1, <2>2, <2>4
  <2> QED
    BY <2>3, <2>4
<1>10. SentIsNew' /\ SubmitsApart'
  BY <1>2, <1>5, <1>7 DEF WordsIInv, SentIsNew, SubmitsApart
<1>11. LeftBehind' /\ OneSubmit'
  BY <1>2, <1>6, <1>7 DEF WordsIInv, LeftBehind, OneSubmit
<1>12. DoneIsGot'
  BY <1>1, <1>2, <1>3, <1>5, <1>7 DEF WordsIInv, DoneIsGot
<1>13. Kept' /\ KnownWords' /\ Single(draft', mishaps')
  BY <1>2, <1>5 DEF WordsIInv, Kept, KnownWords
<1> QED
  BY <1>8, <1>9, <1>10, <1>11, <1>12, <1>13 DEF WordsIInv

LEMMA TakenWords ==
  ASSUME CallsTyped, WordsIInv, NEW s \in Tabs, PiTakes(s)
  PROVE  WordsIInv'
<1>1. /\ waiting' = [waiting EXCEPT ![s] = {}] /\ given' = given \cup waiting[s]
      /\ UNCHANGED <<draft, calls, bar, front, busy, mishaps, withdrawn, entered>>
  BY DEF PiTakes, fieldVars, storeVars, historyVars
<1>2. waiting'[s] = {} /\ \A t \in Tabs : t # s => waiting'[t] = waiting[t]
  BY <1>1 DEF CallsTyped
<1>3. \A w : Has(w)' <=> Has(w)
  BY <1>1, <1>2 DEF Has
<1>4. \A e : Mine(e)' <=> Mine(e)
  BY <1>1 DEF Mine, Shown
<1>5. Cleaned' /\ SentIsNew' /\ SubmitsApart' /\ LeftBehind' /\ OneSubmit'
  BY <1>1, <1>3, <1>4 DEF WordsIInv, Cleaned, SentIsNew, SubmitsApart, LeftBehind, OneSubmit
<1>6. DoneIsGot' /\ Kept' /\ KnownWords' /\ Single(draft', mishaps')
  BY <1>1, <1>3 DEF WordsIInv, DoneIsGot, Kept, KnownWords
<1>7. GotOnce'
  <2> SUFFICES ASSUME NEW w \in Words \ mishaps
               PROVE  /\ \A r, t \in Tabs : w \in waiting'[r] /\ w \in waiting'[t] => r = t
                      /\ w \in given' => \A t \in Tabs : w \notin waiting'[t]
                      /\ \A e \in calls : e.do = "abort" /\ w \in e.words =>
                           /\ w \notin given' /\ \A t \in Tabs : w \notin waiting'[t]
                           /\ \A f \in calls : f.do = "abort" /\ w \in f.words => e = f
    BY <1>1 DEF GotOnce
  <2>1. \A t \in Tabs : w \in waiting'[t] => w \in waiting[t] /\ t # s
    BY <1>2
  <2>2. /\ \A r, t \in Tabs : w \in waiting[r] /\ w \in waiting[t] => r = t
        /\ w \in given => \A t \in Tabs : w \notin waiting[t]
        /\ \A e \in calls : e.do = "abort" /\ w \in e.words =>
             /\ w \notin given /\ \A t \in Tabs : w \notin waiting[t]
             /\ \A f \in calls : f.do = "abort" /\ w \in f.words => e = f
    BY DEF WordsIInv, GotOnce
  <2> QED
    BY <1>1, <2>1, <2>2
<1> QED
  BY <1>5, <1>6, <1>7 DEF WordsIInv

LEMMA EmptyDraft == In(<<>>) = {} /\ \A M : Single(<<>>, M)
  BY DEF In, ToSet, Single

\* A submit is answered: the field it was sent from is cleared.
LEMMA AnsweredSubmit ==
  ASSUME CallsTyped, WordsIInv, NEW c \in calls, SubmitAnswered(c)
  PROVE  WordsIInv'
<1>1. /\ c.do = "submit" /\ c.stage = "done" /\ calls' = calls \ {c} /\ busy' = (busy /\ c.bar # bar)
      /\ Cleared(c) /\ UNCHANGED <<bar, front, waiting, given, withdrawn, entered>>
  BY DEF SubmitAnswered, tabVars
<1>2. mishaps \subseteq mishaps' /\ c.words \subseteq Words
  BY <1>1 DEF Cleared, CallsTyped, CallState
<1>3. \A w : Has(w)' <=> Has(w)
  BY <1>1 DEF Has
<1>4. \A e : Mine(e)' <=> Mine(e)
  BY <1>1 DEF Mine, Shown
<1>5. GotOnce' /\ SubmitsApart' /\ SentIsNew' /\ DoneIsGot'
  BY <1>1, <1>2, <1>3 DEF WordsIInv, GotOnce, SubmitsApart, SentIsNew, DoneIsGot
<1>6. OneSubmit'
  BY <1>1, <1>4 DEF WordsIInv, OneSubmit, Mine
<1>7. CASE Mine(c)
  <2>1. draft' = <<>> /\ \A w \in In(draft) \cap Words : w \in c.words \/ w \in mishaps'
    BY <1>1, <1>7 DEF Cleared, Mine
  <2>2. In(draft') = {} /\ Single(draft', mishaps')
    BY <2>1, EmptyDraft
  <2>3. \A w \in c.words : w \in mishaps \/ Has(w)
    BY <1>1 DEF WordsIInv, DoneIsGot
  <2>4. Kept' /\ KnownWords'
    BY <1>1, <1>2, <1>3, <2>1, <2>2, <2>3 DEF WordsIInv, Kept, KnownWords
  <2>5. Cleaned' /\ LeftBehind'
    BY <2>2 DEF Cleaned, LeftBehind
  <2> QED
    BY <1>5, <1>6, <2>2, <2>4, <2>5 DEF WordsIInv
<1>8. CASE ~Mine(c)
  <2>1. UNCHANGED draft
    BY <1>1, <1>8 DEF Cleared, Mine, fieldVars
  <2>2. Cleaned' /\ LeftBehind'
    BY <1>1, <1>2, <1>3, <1>4, <1>8, <2>1 DEF WordsIInv, Cleaned, LeftBehind
  <2>3. Kept' /\ KnownWords'
    BY <1>1, <1>2, <1>3, <2>1 DEF WordsIInv, Kept, KnownWords
  <2>4. Single(draft', mishaps')
    BY <1>2, <2>1, Loosened DEF WordsIInv
  <2> QED
    BY <1>5, <1>6, <2>2, <2>3, <2>4 DEF WordsIInv
<1> QED
  BY <1>7, <1>8

\* An abort is answered: what it took back goes before the draft.
LEMMA AnsweredAbort ==
  ASSUME FieldTyped, CallsTyped, WordsIInv, NEW c \in calls, AbortAnswered(c)
  PROVE  WordsIInv'
<1>1. /\ c.do = "abort" /\ c.stage = "done" /\ calls' = calls \ {c} /\ Recovered(c)
      /\ UNCHANGED <<busy, bar, front, waiting, given, withdrawn, entered>>
      /\ \A d \in calls : d.do = "submit" /\ d.stage = "done" => d.words \cap c.words = {}
  BY DEF AbortAnswered, storeVars, tabVars
<1>2. mishaps \subseteq mishaps' /\ c.words \subseteq Words /\ c.words \subseteq entered /\ \A w \in c.words : Has(w)
  BY <1>1 DEF Recovered, CallsTyped, CallState, Has
<1>3. \A w : Has(w)' => Has(w)
  BY <1>1 DEF Has
<1>4. \A w : Has(w) => Has(w)' \/ w \in c.words
  BY <1>1 DEF Has
<1>5. \A w \in c.words \ mishaps : ~Has(w)'
  BY <1>1, <1>2 DEF Has, WordsIInv, GotOnce
<1>6. \A e : Mine(e)' <=> Mine(e)
  BY <1>1 DEF Mine, Shown
<1>7. GotOnce' /\ SubmitsApart' /\ SentIsNew'
  BY <1>1, <1>2, <1>3 DEF WordsIInv, GotOnce, SubmitsApart, SentIsNew
<1>8. OneSubmit'
  BY <1>1, <1>6 DEF WordsIInv, OneSubmit
<1>9. DoneIsGot'
  BY <1>1, <1>2, <1>4 DEF WordsIInv, DoneIsGot
<1>10. \A w \in c.words \ mishaps : w \notin In(draft)
  BY <1>1, <1>2 DEF WordsIInv, Cleaned
<1>11. CASE draft' = SetToSeq(c.words) \o draft /\ UNCHANGED mishaps
  <2> DEFINE back == SetToSeq(c.words)
  <2>1. back \in Seq(Pieces) /\ In(back) = c.words /\ Single(back, mishaps)
    <3>1. back \in Seq(c.words) /\ In(back) = c.words /\ Single(back, {})
      BY <1>2, InSequence
    <3>2. c.words \subseteq Pieces
      BY <1>2 DEF Pieces
    <3> HIDE DEF back
    <3> QED
      BY <3>1, <3>2, SeqMonotonic, Loosened
  <2> HIDE DEF back
  <2>2. draft' = back \o draft
    BY <1>11 DEF back
  <2>3. In(draft') = c.words \cup In(draft)
    BY <2>1, <2>2, JoinFacts DEF FieldTyped
  <2>4. Single(draft', mishaps')
    BY <1>10, <1>11, <2>1, <2>2, JoinFacts DEF FieldTyped, WordsIInv
  <2>5. Cleaned'
    BY <1>1, <1>3, <1>5, <1>6, <1>11, <2>3 DEF WordsIInv, Cleaned
  <2>6. LeftBehind'
    <3> SUFFICES ASSUME NEW e \in calls', e.do = "submit", ~Mine(e), NEW w \in e.words \cap In(draft') PROVE w \in mishaps
      BY <1>6, <1>11 DEF LeftBehind
    <3>1. CASE w \in In(draft)
      BY <1>1, <3>1 DEF WordsIInv, LeftBehind
    <3>2. CASE w \in c.words
      <4>1. e \in CallState /\ e.stage = "sent"
        BY <1>1, <3>2 DEF CallsTyped, CallState
      <4> QED
        BY <1>1, <1>2, <3>2, <4>1 DEF WordsIInv, SentIsNew
    <3> QED
      BY <2>3, <3>1, <3>2
  <2>7. Kept' /\ KnownWords'
    BY <1>1, <1>2, <1>4, <2>3 DEF WordsIInv, Kept, KnownWords
  <2> QED
    BY <1>7, <1>8, <1>9, <2>4, <2>5, <2>6, <2>7 DEF WordsIInv
<1>12. CASE mishaps' = mishaps \cup c.words /\ UNCHANGED draft
  <2>1. Cleaned' /\ LeftBehind'
    BY <1>1, <1>3, <1>6, <1>12 DEF WordsIInv, Cleaned, LeftBehind
  <2>2. Kept' /\ KnownWords'
    BY <1>1, <1>4, <1>12 DEF WordsIInv, Kept, KnownWords
  <2>3. Single(draft', mishaps')
    BY <1>2, <1>12, Loosened DEF WordsIInv
  <2> QED
    BY <1>7, <1>8, <1>9, <2>1, <2>2, <2>3 DEF WordsIInv
<1> QED
  BY <1>1, <1>11, <1>12 DEF Recovered, fieldVars

\* A command fails: what was performed unheard is one of the gaps.
LEMMA FailedWords ==
  ASSUME CallsTyped, WordsIInv, NEW c \in calls, Failed(c)
  PROVE  WordsIInv'
<1>1. /\ calls' = calls \ {c} /\ mishaps' = mishaps \cup (IF c.stage = "done" THEN c.words \cup c.files ELSE {})
      /\ busy' = (busy /\ (c.bar # bar \/ c.do # "submit"))
      /\ UNCHANGED <<draft, bar, front, waiting, given, withdrawn, entered>>
  BY DEF Failed, fieldVars, tabVars
<1>2. c \in CallState /\ mishaps \subseteq mishaps'
  BY <1>1 DEF CallsTyped
<1>3. \A w : Has(w)' => Has(w)
  BY <1>1 DEF Has
<1>4. \A w : Has(w) => Has(w)' \/ w \in mishaps'
  <2>1. c.do = "abort" => \A w \in c.words : w \in mishaps'
    BY <1>1, <1>2 DEF WordsIInv, DoneIsGot, CallState
  <2> QED
    BY <1>1, <2>1 DEF Has
<1>5. \A e : Mine(e)' <=> Mine(e)
  BY <1>1 DEF Mine, Shown
<1>6. Cleaned'
  <2> SUFFICES ASSUME NEW w \in (In(draft) \cap Words) \ mishaps', Has(w)
               PROVE  \E e \in calls' : e.do = "submit" /\ e.stage = "done" /\ Mine(e) /\ w \in e.words
    BY <1>1, <1>3, <1>5 DEF Cleaned
  <2>1. PICK e \in calls : e.do = "submit" /\ e.stage = "done" /\ Mine(e) /\ w \in e.words
    BY <1>2 DEF WordsIInv, Cleaned
  <2>2. e # c
    BY <1>1, <2>1
  <2> QED
    BY <1>1, <2>1, <2>2
<1>7. GotOnce' /\ SubmitsApart' /\ SentIsNew' /\ DoneIsGot'
  BY <1>1, <1>2, <1>3, <1>4 DEF WordsIInv, GotOnce, SubmitsApart, SentIsNew, DoneIsGot
<1>8. LeftBehind' /\ Kept' /\ KnownWords'
  BY <1>1, <1>2, <1>4, <1>5 DEF WordsIInv, LeftBehind, Kept, KnownWords
<1>9. OneSubmit'
  BY <1>1, <1>5 DEF WordsIInv, OneSubmit, Mine
<1>10. Single(draft', mishaps')
  BY <1>1, <1>2, Loosened DEF WordsIInv
<1> QED
  BY <1>6, <1>7, <1>8, <1>9, <1>10 DEF WordsIInv

LEMMA PickedWords ==
  ASSUME CallsTyped, WordsIInv, NEW c \in calls, Picked(c)
  PROVE  WordsIInv'
<1>1. PICK files \in SUBSET (Files \ entered) :
        /\ c.do = "pick" /\ calls' = calls \ {c} /\ entered' = entered \cup files
        /\ withdrawn \subseteq withdrawn' /\ UNCHANGED <<draft, busy, bar, front, waiting, given, mishaps>>
  BY DEF Picked, fieldVars, tabVars
<1>2. \A w \in Words : w \in entered' => w \in entered
  BY <1>1, ComposerAssumption
<1>3. \A w : Has(w)' <=> Has(w)
  BY <1>1 DEF Has
<1>4. \A e : Mine(e)' <=> Mine(e)
  BY <1>1 DEF Mine, Shown
<1>5. Cleaned' /\ GotOnce' /\ SentIsNew' /\ SubmitsApart' /\ LeftBehind'
  BY <1>1, <1>3, <1>4 DEF WordsIInv, Cleaned, GotOnce, SentIsNew, SubmitsApart, LeftBehind
<1>6. OneSubmit' /\ DoneIsGot' /\ Single(draft', mishaps')
  BY <1>1, <1>3, <1>4 DEF WordsIInv, OneSubmit, DoneIsGot
<1>7. Kept' /\ KnownWords'
  BY <1>1, <1>2, <1>3 DEF WordsIInv, Kept, KnownWords
<1> QED
  BY <1>5, <1>6, <1>7 DEF WordsIInv

\* A bar comes where there was none.
LEMMA NewBarWords ==
  ASSUME CallsTyped, WordsIInv, ~Shown, bar' = bar + 1,
         UNCHANGED <<draft, calls, waiting, given, busy, mishaps, withdrawn, entered>>
  PROVE  WordsIInv'
<1>1. \A w : Has(w)' <=> Has(w)
  BY DEF Has
<1>2. \A e \in calls : ~Mine(e) /\ ~Mine(e)'
  BY DEF Mine, CallsTyped, CallState
<1>3. Cleaned' /\ LeftBehind' /\ OneSubmit'
  BY <1>1, <1>2 DEF WordsIInv, Cleaned, LeftBehind, OneSubmit
<1>4. GotOnce' /\ SentIsNew' /\ SubmitsApart' /\ DoneIsGot' /\ Kept' /\ KnownWords'
  BY <1>1 DEF WordsIInv, GotOnce, SentIsNew, SubmitsApart, DoneIsGot, Kept, KnownWords
<1>5. Single(draft', mishaps')
  BY DEF WordsIInv
<1> QED
  BY <1>3, <1>4, <1>5 DEF WordsIInv

\* Sessions lose their place in a host; the bar stays, or goes with its draft.
LEMMA GoneWords ==
  ASSUME CallsTyped, WordsIInv, NEW gone \in SUBSET Tabs, Leaves(gone), UNCHANGED bar,
         mishaps \subseteq mishaps', LostWords(gone) \subseteq mishaps',
         \/ UNCHANGED <<draft, busy>> /\ Shown' = Shown
         \/ draft' = <<>> /\ ~Shown' /\ In(draft) \cap Words \subseteq mishaps'
  PROVE  WordsIInv'
<1>1. /\ waiting' = [s \in Tabs |-> IF s \in gone THEN {} ELSE waiting[s]]
      /\ UNCHANGED <<given, calls, entered, withdrawn>>
  BY DEF Leaves
<1>2. \A w : Has(w)' => Has(w)
  BY <1>1 DEF Has
<1>3. \A w : Has(w) => Has(w)' \/ w \in mishaps'
  BY <1>1 DEF Has, LostWords
<1>4. GotOnce' /\ SentIsNew' /\ SubmitsApart'
  BY <1>1, <1>2 DEF WordsIInv, GotOnce, SentIsNew, SubmitsApart
<1>5. DoneIsGot'
  BY <1>1, <1>3 DEF WordsIInv, DoneIsGot
<1>6. CASE UNCHANGED <<draft, busy>> /\ Shown' = Shown
  <2>1. \A c : Mine(c)' <=> Mine(c)
    BY <1>6 DEF Mine
  <2>2. Cleaned' /\ LeftBehind' /\ OneSubmit'
    BY <1>1, <1>2, <1>6, <2>1 DEF WordsIInv, Cleaned, LeftBehind, OneSubmit
  <2>3. Kept' /\ KnownWords' /\ Single(draft', mishaps')
    BY <1>1, <1>3, <1>6, Loosened DEF WordsIInv, Kept, KnownWords
  <2> QED
    BY <1>4, <1>5, <2>2, <2>3 DEF WordsIInv
<1>7. CASE draft' = <<>> /\ ~Shown' /\ In(draft) \cap Words \subseteq mishaps'
  <2>1. In(draft') = {} /\ Single(draft', mishaps')
    BY <1>7, EmptyDraft
  <2>2. \A e : ~Mine(e)'
    BY <1>7 DEF Mine
  <2>3. Cleaned' /\ LeftBehind' /\ OneSubmit'
    BY <2>1, <2>2 DEF Cleaned, LeftBehind, OneSubmit
  <2>4. Kept' /\ KnownWords'
    BY <1>1, <1>3, <1>7, <2>1 DEF WordsIInv, Kept, KnownWords
  <2> QED
    BY <1>4, <1>5, <2>1, <2>3, <2>4 DEF WordsIInv
<1> QED
  BY <1>6, <1>7

-----------------------------------------------------------------------------
(* The field. *)

LEMMA PieceFacts ==
  /\ Words \subseteq Pieces /\ Loose \subseteq Pieces /\ Mention("f") \in Pieces /\ Mention("g") \in Pieces
  /\ Loose \cap Words = {} /\ Mention("f") \notin Words /\ Mention("g") \notin Words
  /\ \A p \in Pieces : <<p>> \in Seq(Pieces)
<1>1. /\ Words \subseteq Pieces /\ Loose \subseteq Pieces /\ Mention("f") \in Pieces /\ Mention("g") \in Pieces
      /\ Loose \cap Words = {} /\ Mention("f") \notin Words /\ Mention("g") \notin Words
  BY ComposerAssumption DEF Pieces, Marks
<1> QED
  BY <1>1

LEMMA FieldFacts == FieldTyped => caret \in Nat /\ Len(draft) \in Nat /\ caret <= Len(draft)
  BY LenProperties DEF FieldTyped

LEMMA Inserted ==
  ASSUME FieldTyped, NEW p \in Pieces, Single(draft, mishaps), p \in Words => p \notin In(draft)
  PROVE  LET after == Insert(draft, caret, <<p>>)
         IN /\ after \in Seq(Pieces) /\ caret + 1 \in 0..Len(after)
            /\ In(after) = In(draft) \cup {p} /\ Single(after, mishaps)
<1> DEFINE a == SubSeq(draft, 1, caret)
           b == SubSeq(draft, caret + 1, Len(draft))
<1>1. /\ a \in Seq(Pieces) /\ b \in Seq(Pieces) /\ Single(a, mishaps) /\ Single(b, mishaps)
      /\ In(draft) = In(a) \cup {draft[i] : i \in caret + 1..caret} \cup In(b)
      /\ In(a) \cap In(b) \cap Words \subseteq mishaps \cup {draft[i] : i \in caret + 1..caret}
  BY SplitFacts DEF FieldTyped
<1>2. {draft[i] : i \in caret + 1..caret} = {}
  BY FieldFacts
<1>3. <<p>> \in Seq(Pieces) /\ In(<<p>>) = {p} /\ Single(<<p>>, mishaps) /\ Len(<<p>>) = 1
  BY PieceFacts, OnePiece
<1>4. Len(a) = caret
  BY FieldFacts, LenProperties, SubSeqProperties DEF FieldTyped
<1>5. Insert(draft, caret, <<p>>) = (a \o <<p>>) \o b
  BY DEF Insert
<1> HIDE DEF a, b
<1> DEFINE one == <<p>>
<1>6. one \in Seq(Pieces) /\ In(one) = {p} /\ Single(one, mishaps) /\ Len(one) = 1
  BY <1>3
<1> HIDE DEF one
<1> DEFINE q == a \o one
<1>7. q \in Seq(Pieces) /\ In(q) = In(a) \cup {p} /\ Len(q) = caret + 1
  <2>1. q \in Seq(Pieces) /\ In(q) = In(a) \cup In(one)
    BY <1>1, <1>6, JoinFacts
  <2>2. Len(q) = Len(a) + Len(one)
    BY <1>1, <1>6, ConcatProperties
  <2> QED
    BY <1>4, <1>6, <2>1, <2>2
<1>8. Single(q, mishaps)
  <2>1. In(a) \cap In(one) \cap Words \subseteq mishaps
    BY <1>1, <1>6
  <2> QED
    BY <1>1, <1>6, <2>1, JoinFacts
<1> HIDE DEF q
<1>9. q \o b \in Seq(Pieces) /\ In(q \o b) = In(q) \cup In(b) /\ Len(q \o b) = Len(q) + Len(b)
  <2>1. q \o b \in Seq(Pieces) /\ In(q \o b) = In(q) \cup In(b)
    BY <1>1, <1>7, JoinFacts
  <2>2. q \in Seq(Pieces) /\ b \in Seq(Pieces)
    BY <1>1, <1>7
  <2>3. Len(q \o b) = Len(q) + Len(b)
    BY <2>2, ConcatProperties
  <2> QED
    BY <2>1, <2>3
<1>10. Single(q \o b, mishaps)
  <2>1. In(q) \cap In(b) \cap Words \subseteq mishaps
    BY <1>1, <1>2, <1>7
  <2> QED
    BY <1>1, <1>7, <1>8, <2>1, JoinFacts
<1>11. caret + 1 \in 0..Len(q) + Len(b)
  BY <1>1, <1>7, FieldFacts, LenProperties
<1>12. Insert(draft, caret, <<p>>) = q \o b
  BY <1>5 DEF q, one
<1> QED
  BY <1>1, <1>2, <1>7, <1>9, <1>10, <1>11, <1>12

LEMMA Removed ==
  ASSUME FieldTyped, caret > 0, Single(draft, mishaps)
  PROVE  LET after == RemoveAt(draft, caret)
         IN /\ after \in Seq(Pieces) /\ caret - 1 \in 0..Len(after)
            /\ In(after) \subseteq In(draft) /\ In(draft) \subseteq In(after) \cup {draft[caret]}
            /\ Single(after, mishaps)
<1> DEFINE a == SubSeq(draft, 1, caret - 1)
           b == SubSeq(draft, caret + 1, Len(draft))
<1>0. caret - 1 \in 0..Len(draft) /\ caret \in 0..Len(draft)
  BY FieldFacts
<1>1. /\ a \in Seq(Pieces) /\ b \in Seq(Pieces) /\ Single(a, mishaps) /\ Single(b, mishaps)
      /\ In(draft) = In(a) \cup {draft[i] : i \in (caret - 1) + 1..caret} \cup In(b)
      /\ In(a) \cap In(b) \cap Words \subseteq mishaps \cup {draft[i] : i \in caret + 1..caret - 1}
  BY <1>0, SplitFacts DEF FieldTyped
<1>2. {draft[i] : i \in caret + 1..caret - 1} = {} /\ {draft[i] : i \in (caret - 1) + 1..caret} = {draft[caret]}
  BY FieldFacts
<1>3. Len(a) = caret - 1
  <2>1. \A i \in 1..caret - 1 : draft[i] \in Pieces
    BY FieldFacts, ElementOfSeq DEF FieldTyped
  <2>2. 1 \in Int /\ caret - 1 \in Int
    BY FieldFacts
  <2>3. Len(a) = IF 1 <= caret - 1 THEN (caret - 1) - 1 + 1 ELSE 0
    BY <2>1, <2>2, SubSeqProperties
  <2> QED
    BY <2>3, FieldFacts
<1>4. RemoveAt(draft, caret) = a \o b
  BY DEF RemoveAt
<1> HIDE DEF a, b
<1>5. a \o b \in Seq(Pieces) /\ In(a \o b) = In(a) \cup In(b) /\ Len(a \o b) = Len(a) + Len(b)
  BY <1>1, JoinFacts, ConcatProperties
<1>6. Single(a \o b, mishaps)
  BY <1>1, <1>2, JoinFacts
<1>7. caret - 1 \in 0..Len(a) + Len(b)
  BY <1>1, <1>3, FieldFacts, LenProperties
<1> QED
  BY <1>1, <1>2, <1>4, <1>5, <1>6, <1>7

LEMMA Written ==
  ASSUME FieldTyped, TokenTyped, Single(draft, mishaps), NEW pieces \in Seq(Pieces), In(pieces) \cap Words = {},
         Overwrite(pieces)
  PROVE  /\ FieldTyped' /\ In(draft') \cap Words \subseteq In(draft) /\ mishaps \subseteq mishaps'
         /\ In(draft) \cap Words \subseteq In(draft') \cup mishaps' /\ Single(draft', mishaps')
         /\ BeforeToken \o pieces \in Seq(Pieces) /\ Len(BeforeToken \o pieces) \in 0..Len(BeforeToken \o pieces)
<1> DEFINE a == SubSeq(draft, 1, Start)
           b == SubSeq(draft, caret + 1, Len(draft))
<1>0. Start \in 0..Len(draft) /\ caret \in 0..Len(draft)
  BY FieldFacts DEF Start, TokenTyped
<1>1. /\ a \in Seq(Pieces) /\ b \in Seq(Pieces) /\ Single(a, mishaps) /\ Single(b, mishaps)
      /\ In(draft) = In(a) \cup {draft[i] : i \in Start + 1..caret} \cup In(b)
      /\ In(a) \cap In(b) \cap Words \subseteq mishaps \cup {draft[i] : i \in caret + 1..Start}
  BY <1>0, SplitFacts DEF FieldTyped
<1>2. Overwritten = {draft[i] : i \in Start + 1..caret} \cup {draft[i] : i \in caret + 1..Start}
  <2>1. Start + 1 \in Nat \ {0} /\ caret + 1 \in Nat \ {0} /\ Start \in Nat /\ caret \in Nat /\ Start <= Len(draft) /\ caret <= Len(draft)
    BY <1>0, FieldFacts
  <2>2. In(SubSeq(draft, Start + 1, caret)) = {draft[i] : i \in Start + 1..caret}
    BY <2>1, PartFacts DEF FieldTyped
  <2>3. In(SubSeq(draft, caret + 1, Start)) = {draft[i] : i \in caret + 1..Start}
    BY <2>1, PartFacts DEF FieldTyped
  <2> QED
    BY <2>2, <2>3 DEF Overwritten
<1>3. BeforeToken = a
  BY DEF BeforeToken
<1>4. /\ draft' = (a \o pieces) \o b /\ caret' = Len(a \o pieces) /\ mishaps' = mishaps \cup (Overwritten \cap Words)
  BY <1>3 DEF Overwrite
<1> HIDE DEF a, b
<1>5. a \o pieces \in Seq(Pieces) /\ In(a \o pieces) = In(a) \cup In(pieces)
  BY <1>1, JoinFacts
<1>6. Single(a, mishaps') /\ Single(b, mishaps') /\ Single(pieces, mishaps')
  <2>1. Single(pieces, mishaps')
    <3>1. \A i \in 1..Len(pieces) : pieces[i] \notin Words
      BY InFacts
    <3> QED
      BY <3>1 DEF Single
  <2> QED
    BY <1>1, <1>4, <2>1, Loosened
<1>7. Single(a \o pieces, mishaps')
  BY <1>1, <1>6, JoinFacts
<1> DEFINE q == a \o pieces
<1>8. q \in Seq(Pieces) /\ In(q) = In(a) \cup In(pieces) /\ Single(q, mishaps') /\ draft' = q \o b /\ caret' = Len(q)
  BY <1>4, <1>5, <1>7
<1> HIDE DEF q
<1>9. q \o b \in Seq(Pieces) /\ In(q \o b) = In(q) \cup In(b) /\ Len(q \o b) = Len(q) + Len(b)
  BY <1>1, <1>8, JoinFacts, ConcatProperties
<1>10. Single(q \o b, mishaps')
  <2>1. In(q) \cap In(b) \cap Words \subseteq mishaps'
    BY <1>1, <1>2, <1>4, <1>8
  <2> QED
    BY <1>1, <1>6, <1>8, <2>1, JoinFacts
<1>11. FieldTyped' /\ Len(q) \in 0..Len(q)
  BY <1>1, <1>8, <1>9, LenProperties DEF FieldTyped
<1>12. In(draft') \cap Words \subseteq In(draft)
  BY <1>1, <1>8, <1>9
<1>13. In(draft) \cap Words \subseteq In(draft') \cup mishaps'
  BY <1>1, <1>2, <1>4, <1>8, <1>9
<1> QED
  BY <1>3, <1>4, <1>5, <1>8, <1>9, <1>10, <1>11, <1>12, <1>13 DEF q

-----------------------------------------------------------------------------
(* The steps of the bar. *)

FieldIInv == FieldTyped /\ TokenTyped /\ WordsIInv

LEMMA KeyStep ==
  ASSUME FieldTyped, TokenTyped, CallsTyped, WordsIInv, NEW piece \in Words \cup Loose, Type(piece)
  PROVE  FieldIInv'
<1> DEFINE after == Insert(draft, caret, <<piece>>)
           new == {piece} \cap Words
<1>w. Single(draft, mishaps)
  BY DEF WordsIInv
<1>1. piece \in Pieces /\ (piece \in Words => piece \notin entered)
  <2>1. piece \in Pieces
    BY PieceFacts
  <2>2. piece \in Words => piece \notin Loose
    BY PieceFacts
  <2>3. piece \in Words \ entered \/ piece \in Loose
    BY DEF Type, Loose
  <2> QED
    BY <2>1, <2>2, <2>3
<1>2. piece \in Words => piece \notin In(draft)
  BY <1>1 DEF WordsIInv, KnownWords
<1>3. /\ after \in Seq(Pieces) /\ caret + 1 \in 0..Len(after)
      /\ In(after) = In(draft) \cup {piece} /\ Single(after, mishaps)
  BY <1>w, <1>1, <1>2, Inserted
<1>4. /\ draft' = after /\ caret' = caret + 1 /\ SetToken(TokenAt(after, caret + 1), viaPlus)
      /\ UNCHANGED <<calls, waiting, given, bar, busy, front, mishaps, withdrawn>> /\ entered' = entered \cup new
  BY DEF Type, Edited, storeVars, tabVars
<1> HIDE DEF after
<1>5. FieldTyped'
  BY <1>3, <1>4 DEF FieldTyped
<1>6. TokenTyped'
  BY <1>3, <1>4, TokenAtFacts, TokenSetTyped
<1>7. new \in SUBSET (Words \ entered)
  BY <1>1
<1>8. /\ new \subseteq In(draft') /\ In(draft') \cap Words \subseteq In(draft) \cup new
      /\ In(draft) \cap Words \subseteq In(draft') /\ Single(draft', mishaps')
  BY <1>3, <1>4
<1> HIDE DEF new
<1>9. WordsIInv'
  BY <1>4, <1>7, <1>8, TypedWords
<1> QED
  BY <1>5, <1>6, <1>9 DEF FieldIInv

LEMMA EraseStep ==
  ASSUME FieldTyped, TokenTyped, CallsTyped, WordsIInv, Erase
  PROVE  FieldIInv'
<1> DEFINE after == RemoveAt(draft, caret)
<1>w. Single(draft, mishaps) /\ caret > 0
  BY DEF WordsIInv, Erase
<1>1. /\ after \in Seq(Pieces) /\ caret - 1 \in 0..Len(after)
      /\ In(after) \subseteq In(draft) /\ In(draft) \subseteq In(after) \cup {draft[caret]} /\ Single(after, mishaps)
  BY <1>w, Removed
<1>2. /\ draft' = after /\ caret' = caret - 1 /\ SetToken(TokenAt(after, caret - 1), viaPlus)
      /\ UNCHANGED <<calls, waiting, given, bar, busy, front, mishaps, entered>>
      /\ withdrawn' = withdrawn \cup ({draft[caret]} \cap Words)
  BY DEF Erase, Edited, storeVars, tabVars
<1> HIDE DEF after
<1>3. FieldTyped'
  BY <1>1, <1>2 DEF FieldTyped
<1>4. TokenTyped'
  BY <1>1, <1>2, TokenAtFacts, TokenSetTyped
<1>5. /\ mishaps \subseteq mishaps' /\ withdrawn \subseteq withdrawn' /\ In(draft') \cap Words \subseteq In(draft)
      /\ In(draft) \cap Words \subseteq In(draft') \cup withdrawn' \cup mishaps' /\ Single(draft', mishaps')
  BY <1>1, <1>2
<1>6. WordsIInv'
  BY <1>2, <1>5, EditedAlone
<1> QED
  BY <1>3, <1>4, <1>6 DEF FieldIInv

LEMMA DropStep ==
  ASSUME FieldTyped, TokenTyped, CallsTyped, WordsIInv, Drop("f")
  PROVE  FieldIInv'
<1> DEFINE piece == Mention("f")
           after == Insert(draft, caret, <<piece>>)
<1>w. Single(draft, mishaps)
  BY DEF WordsIInv
<1>1. piece \in Pieces /\ piece \notin Words
  BY PieceFacts
<1>2. /\ draft' = after /\ caret' = caret + 1 /\ CloseMenu
      /\ UNCHANGED <<calls, waiting, given, bar, busy, front, mishaps, entered, withdrawn>>
  BY DEF Drop, FieldOnly, storeVars, tabVars, historyVars
<1> HIDE DEF piece
<1>3. /\ after \in Seq(Pieces) /\ caret + 1 \in 0..Len(after)
      /\ In(after) = In(draft) \cup {piece} /\ Single(after, mishaps)
  BY <1>w, <1>1, Inserted
<1> HIDE DEF after
<1>4. FieldTyped' /\ TokenTyped'
  BY <1>2, <1>3, ClosedTyped DEF FieldTyped
<1>5. /\ mishaps \subseteq mishaps' /\ withdrawn \subseteq withdrawn' /\ In(draft') \cap Words \subseteq In(draft)
      /\ In(draft) \cap Words \subseteq In(draft') \cup withdrawn' \cup mishaps' /\ Single(draft', mishaps')
  BY <1>1, <1>2, <1>3
<1>6. WordsIInv'
  BY <1>2, <1>5, EditedAlone
<1> QED
  BY <1>4, <1>6 DEF FieldIInv

\* What is written in the place of a mention holds no word.
LEMMA EntryPieces ==
  ASSUME NEW query \in Seq(Loose)
  PROVE  LET pieces == <<"@">> \o Directories(query) \o <<"d/">>
         IN pieces \in Seq(Pieces) /\ In(pieces) \cap Words = {}
<1> DEFINE dirs == Directories(query)
           pieces == <<"@">> \o dirs \o <<"d/">>
<1>1. dirs \in Seq(Loose)
  <2>1. CASE dirs = query
    BY <2>1
  <2>2. CASE dirs = Front(query) /\ query # <<>>
    <3>1. Front(query) = SubSeq(query, 1, Len(query) - 1)
      BY DEF Front
    <3>2. Len(query) \in Nat /\ Len(query) > 0
      BY <2>2, LenProperties, EmptySeq
    <3>3. 1 \in Nat \ {0} /\ Len(query) - 1 \in Nat /\ Len(query) - 1 <= Len(query)
      BY <3>2
    <3> QED
      BY <2>2, <3>1, <3>3, PartFacts
  <2> QED
    BY <2>1, <2>2 DEF Directories
<1> HIDE DEF dirs
<1>2. <<"@">> \in Seq(Loose) /\ <<"d/">> \in Seq(Loose)
  BY DEF Loose, Names
<1>3. pieces \in Seq(Loose)
  BY <1>1, <1>2, ConcatProperties
<1> HIDE DEF pieces
<1>4. In(pieces) \subseteq Loose
  BY <1>3, InFacts
<1>5. pieces \in Seq(Pieces)
  <2>1. Loose \subseteq Pieces
    BY PieceFacts
  <2> QED
    BY <1>3, <2>1
<1> QED
  BY <1>4, <1>5, PieceFacts DEF pieces, dirs

LEMMA ChooseEntryStep ==
  ASSUME FieldTyped, TokenTyped, CallsTyped, WordsIInv, ChooseEntry
  PROVE  FieldIInv'
<1> DEFINE row == rows[active + 1]
           way == <<"@">> \o Directories(token.query) \o <<"d/">>
<1>w. Single(draft, mishaps)
  BY DEF WordsIInv
<1>1. UNCHANGED <<calls, waiting, given, bar, busy, front, entered, withdrawn>>
  BY DEF ChooseEntry, storeVars, tabVars
<1>2. row \in Rows
  <2>1. active \in Nat /\ active < Len(rows) /\ Len(rows) \in Nat /\ \A i \in 1..Len(rows) : rows[i] \in Rows
    BY LenProperties, ElementOfSeq DEF ChooseEntry, TokenTyped
  <2>2. active + 1 \in 1..Len(rows)
    BY <2>1
  <2> QED
    BY <2>1, <2>2
<1>3. ASSUME NEW pieces \in Seq(Pieces), In(pieces) \cap Words = {}, Overwrite(pieces),
             CloseMenu \/ SetToken(TokenAt(BeforeToken \o pieces, Len(BeforeToken \o pieces)), viaPlus)
      PROVE  FieldIInv'
  <2>1. /\ FieldTyped' /\ In(draft') \cap Words \subseteq In(draft) /\ mishaps \subseteq mishaps'
        /\ In(draft) \cap Words \subseteq In(draft') \cup mishaps' /\ Single(draft', mishaps')
        /\ BeforeToken \o pieces \in Seq(Pieces) /\ Len(BeforeToken \o pieces) \in 0..Len(BeforeToken \o pieces)
    BY <1>w, <1>3, Written
  <2>2. TokenTyped'
    <3>1. CASE CloseMenu
      BY <3>1, ClosedTyped
    <3>2. CASE SetToken(TokenAt(BeforeToken \o pieces, Len(BeforeToken \o pieces)), viaPlus)
      BY <2>1, <3>2, TokenAtFacts, TokenSetTyped
    <3> QED
      BY <1>3, <3>1, <3>2
  <2>3. withdrawn \subseteq withdrawn' /\ In(draft) \cap Words \subseteq In(draft') \cup withdrawn' \cup mishaps'
    BY <1>1, <2>1
  <2>4. WordsIInv'
    BY <1>1, <2>1, <2>3, EditedAlone
  <2> QED
    BY <2>1, <2>2, <2>4 DEF FieldIInv
<1>4. CASE row.kind = "directory"
  <2>1. row.name = "d/"
    BY <1>2, <1>4 DEF Rows, Row
  <2>2. Overwrite(way) /\ SetToken(TokenAt(BeforeToken \o way, Len(BeforeToken \o way)), viaPlus)
    BY <1>4, <2>1 DEF ChooseEntry
  <2>3. way \in Seq(Pieces) /\ In(way) \cap Words = {}
    BY EntryPieces DEF TokenTyped
  <2> HIDE DEF way
  <2> QED
    BY <1>3, <2>2, <2>3
<1>5. CASE row.kind = "file"
  <2>1. row.name \in {"f", "g"}
    BY <1>2, <1>5 DEF Rows, Row
  <2> DEFINE piece == Mention(row.name)
             one == <<piece>>
  <2>2. Overwrite(one) /\ CloseMenu
    BY <1>5 DEF ChooseEntry
  <2>3. piece \in Pieces /\ piece \notin Words
    BY <2>1, PieceFacts
  <2> HIDE DEF piece
  <2>4. one \in Seq(Pieces) /\ In(one) \cap Words = {}
    BY <2>3, PieceFacts, OnePiece
  <2> HIDE DEF one
  <2> QED
    BY <1>3, <2>2, <2>4
<1> QED
  BY <1>4, <1>5 DEF ChooseEntry

LEMMA ChooseVerbStep ==
  ASSUME FieldTyped, TokenTyped, CallsTyped, WordsIInv, ChooseVerb
  PROVE  FieldIInv'
<1> DEFINE pick == Call("pick", front, {}, {})
<1>1. CloseMenu /\ UNCHANGED <<waiting, given, bar, busy, front, entered, mishaps>>
  BY DEF ChooseVerb, storeVars, tabVars
<1>2. \E picks \in {{}, {pick}} : calls' = calls \cup picks
  BY DEF ChooseVerb, Ask
<1>3. pick.do = "pick"
  BY DEF Call
<1> HIDE DEF pick
<1>4. PICK picks : calls' = calls \cup picks /\ \A c \in picks : c.do = "pick"
  BY <1>2, <1>3
<1>5. FieldTyped' /\ In(draft') \cap Words \subseteq In(draft) /\ withdrawn \subseteq withdrawn'
      /\ In(draft) \cap Words \subseteq In(draft') \cup withdrawn' /\ Single(draft', mishaps')
  <2>1. CASE UNCHANGED <<fieldVars, withdrawn>>
    BY <1>1, <2>1 DEF fieldVars, FieldTyped, WordsIInv
  <2>2. CASE draft' = <<>> /\ caret' = 0 /\ withdrawn' = withdrawn \cup (In(draft) \cap Words)
    <3>1. In(draft') = {} /\ Single(draft', mishaps')
      BY <2>2, EmptyDraft
    <3>2. FieldTyped'
      BY <2>2, EmptySeq DEF FieldTyped
    <3> QED
      BY <2>2, <3>1, <3>2
  <2> QED
    BY <2>1, <2>2 DEF ChooseVerb
<1> DEFINE none == {}
<1>6. /\ none \in SUBSET (Words \ entered) /\ entered' = entered \cup none /\ none \subseteq In(draft')
      /\ In(draft') \cap Words \subseteq In(draft) \cup none /\ mishaps \subseteq mishaps'
      /\ In(draft) \cap Words \subseteq In(draft') \cup withdrawn' \cup mishaps'
  BY <1>1, <1>5
<1> HIDE DEF none
<1>7. WordsIInv'
  BY <1>1, <1>4, <1>5, <1>6, EditedWords
<1> QED
  BY <1>1, <1>5, <1>7, ClosedTyped DEF FieldIInv

LEMMA FieldStep ==
  ASSUME StopTyped, FieldTyped, TokenTyped, CallsTyped, WordsIInv, [ComposerNext]_composerVars
  PROVE  FieldIInv'
<1> DEFINE G == FieldIInv'
<1>t. ASSUME UNCHANGED <<token, rows, active>> PROVE TokenTyped'
  BY <1>t DEF TokenTyped
<1>f. ASSUME UNCHANGED fieldVars PROVE FieldTyped'
  BY <1>f DEF FieldTyped, fieldVars
<1>1. ASSUME UNCHANGED <<draft, calls, waiting, given, bar, busy, mishaps, withdrawn, entered>>, Shown' = Shown,
             TokenTyped', caret' \in 0..Len(draft)
      PROVE  G
  BY <1>1, SameWords DEF FieldTyped, FieldIInv
<1>s. ASSUME UNCHANGED <<draft, calls, waiting, given, bar, busy, mishaps, withdrawn, entered, front, caret>>, TokenTyped'
      PROVE  G
  BY <1>s, <1>1 DEF FieldTyped, Shown
<1>2. ASSUME NEW piece \in Words \cup Loose, Type(piece) PROVE G
  BY <1>2, KeyStep
<1>3. CASE Erase
  BY <1>3, EraseStep DEF G
<1>4. CASE Drop("f")
  BY <1>4, DropStep DEF G
<1>5. CASE ChooseEntry
  BY <1>5, ChooseEntryStep DEF G
<1>6. CASE ChooseVerb
  BY <1>6, ChooseVerbStep DEF G
<1>7. CASE ListingAnswered
  <2>1. PICK path : Listed(path)
    BY <1>7 DEF ListingAnswered
  <2>2. UNCHANGED <<token, active>> /\ (UNCHANGED rows \/ \E query, plus : rows' = FileRows(query, plus))
    BY <2>1 DEF Listed
  <2>3. TokenTyped'
    BY <2>2, RowFacts DEF TokenTyped
  <2> QED
    BY <1>7, <1>s, <2>3 DEF ListingAnswered, G, fieldVars, tabVars, storeVars, historyVars
<1>8. CASE ListingFails
  <2>1. TokenTyped'
    BY <1>8, <1>t DEF ListingFails
  <2> QED
    BY <1>8, <1>s, <2>1 DEF ListingFails, G, fieldVars, tabVars, storeVars, historyVars
<1>9. ASSUME NEW to \in 0..Len(draft), MoveCaret(to) PROVE G
  <2>1. TokenTyped'
    <3>1. CASE UNCHANGED <<token, rows, active>>
      BY <1>t, <3>1
    <3>2. CASE SetToken(NoToken, FALSE)
      BY <3>2, ClosedTyped DEF CloseMenu
    <3>3. CASE SetToken(TokenAt(draft, to), FALSE)
      BY <3>3, TokenAtFacts, TokenSetTyped DEF FieldTyped
    <3> QED
      BY <1>9, <3>1, <3>2, <3>3 DEF MoveCaret
  <2>2. caret' \in 0..Len(draft) /\ UNCHANGED <<draft, calls, waiting, given, bar, busy, mishaps, withdrawn, entered, front>>
    BY <1>9 DEF MoveCaret, FieldOnly, storeVars, tabVars, historyVars
  <2> QED
    BY <1>1, <2>1, <2>2 DEF Shown
<1>10. CASE Escape \/ LeaveMenu \/ TogglePlus
  <2>1. UNCHANGED <<fieldVars, busy, bar, storeVars, tabVars, calls, historyVars>>
    BY <1>10 DEF Escape, LeaveMenu, TogglePlus, FieldOnly
  <2>2. TokenTyped'
    <3>1. CASE CloseMenu
      BY <3>1, ClosedTyped
    <3>2. CASE TogglePlus
      <4> DEFINE t == [kind |-> "file", start |-> caret, query |-> <<>>]
      <4>1. SetToken(t, TRUE) /\ t.start \in Nat /\ t.query \in Seq(Loose)
        BY <3>2, FieldFacts, EmptySeq DEF TogglePlus
      <4> HIDE DEF t
      <4> QED
        BY <4>1, TokenSetTyped
    <3> QED
      BY <1>10, <3>1, <3>2 DEF Escape, LeaveMenu
  <2> QED
    BY <1>s, <2>1, <2>2 DEF fieldVars, tabVars, storeVars, historyVars, G
<1>11. ASSUME NEW row \in 1..Len(rows), Highlight(row) PROVE G
  <2>1. row - 1 \in Nat
    BY LenProperties DEF TokenTyped
  <2>2. TokenTyped' /\ UNCHANGED <<fieldVars, busy, bar, storeVars, tabVars, calls, historyVars>>
    BY <1>11, <2>1 DEF Highlight, TokenTyped, FieldOnly
  <2> QED
    BY <1>s, <2>2 DEF fieldVars, tabVars, storeVars, historyVars
<1>12. ASSUME NEW file \in attached, RemoveAttachment(file) PROVE G
  <2>1. /\ UNCHANGED <<fieldVars, token, rows, active, calls, waiting, given, bar, busy, front, entered, mishaps>>
        /\ withdrawn \subseteq withdrawn'
    BY <1>12 DEF RemoveAttachment, menuVars, tabVars
  <2>2. TokenTyped' /\ FieldTyped'
    BY <1>t, <1>f, <2>1
  <2>3. UNCHANGED draft /\ Single(draft', mishaps')
    BY <2>1 DEF fieldVars, WordsIInv
  <2>4. /\ mishaps \subseteq mishaps' /\ In(draft') \cap Words \subseteq In(draft)
        /\ In(draft) \cap Words \subseteq In(draft') \cup withdrawn' \cup mishaps'
    BY <2>1, <2>3
  <2>5. WordsIInv'
    BY <2>1, <2>3, <2>4, EditedAlone
  <2> QED
    BY <2>2, <2>5 DEF FieldIInv
<1>13. CASE SubmitByKey \/ SubmitByButton
  <2>1. /\ Shown /\ ~busy /\ Uses("calls") /\ busy'
        /\ calls' = calls \cup {Call("submit", front, In(draft) \cap Words, attached)}
        /\ UNCHANGED <<draft, caret, waiting, given, bar, front, mishaps, withdrawn, entered>>
    BY <1>13 DEF SubmitByKey, SubmitByButton, Ask, fieldVars, tabVars, storeVars, historyVars
  <2>2. TokenTyped'
    BY <1>13, <1>t, ClosedTyped DEF SubmitByKey, SubmitByButton, menuVars
  <2>3. FieldTyped'
    BY <2>1 DEF FieldTyped
  <2>4. WordsIInv'
    BY <2>1, SentWords
  <2> QED
    BY <2>2, <2>3, <2>4 DEF FieldIInv, G
<1>14. CASE Stop
  <2> DEFINE n == Call("abort", front, {}, {})
  <2>1. CloseMenu /\ calls' = calls \cup {n} /\ UNCHANGED <<draft, caret, waiting, given, bar, busy, front, mishaps, withdrawn, entered>>
    BY <1>14 DEF Stop, Ask, fieldVars, tabVars, historyVars
  <2>2. n.do \in {"abort", "pick"} /\ n.words = {}
    BY DEF Call
  <2> HIDE DEF n
  <2>3. WordsIInv'
    <3>1. Shown' = Shown
      BY <2>1 DEF Shown
    <3> QED
      BY <2>1, <2>2, <3>1, AskedWords
  <2>4. FieldTyped'
    BY <2>1 DEF FieldTyped
  <2> QED
    BY <2>1, <2>3, <2>4, ClosedTyped DEF FieldIInv, G
<1>15. ASSUME NEW c \in calls, Performs(c) PROVE G
  <2>1. c.do \in {"submit", "abort"}
    BY <1>15 DEF Performs
  <2>2. WordsIInv'
    BY <1>15, <2>1, PerformedSubmit, PerformedAbort
  <2> QED
    BY <1>15, <1>t, <1>f, <2>2 DEF FieldIInv, Performs, menuVars
<1>16. ASSUME NEW c \in calls, SubmitAnswered(c) PROVE G
  <2>1. WordsIInv'
    BY <1>16, AnsweredSubmit
  <2>2. FieldTyped'
    <3>1. UNCHANGED fieldVars \/ (draft' = <<>> /\ caret' = 0)
      BY <1>16 DEF SubmitAnswered, Cleared
    <3>2. <<>> \in Seq(Pieces) /\ 0 \in 0..Len(<<>>)
      BY EmptySeq
    <3> QED
      BY <1>f, <3>1, <3>2 DEF FieldTyped
  <2> QED
    BY <1>16, <1>t, <2>1, <2>2 DEF FieldIInv, SubmitAnswered, menuVars
<1>17. ASSUME NEW c \in calls, AbortAnswered(c) PROVE G
  <2>1. WordsIInv'
    BY <1>17, AnsweredAbort
  <2>2. FieldTyped'
    <3>1. c.words \subseteq Words
      BY DEF CallsTyped, CallState
    <3> DEFINE back == SetToSeq(c.words)
    <3>2. back \in Seq(Words)
      BY <3>1, InSequence
    <3>3. (UNCHANGED fieldVars) \/ (draft' = back \o draft /\ caret' = Len(draft'))
      BY <1>17 DEF AbortAnswered, Recovered
    <3> HIDE DEF back
    <3>4. back \in Seq(Pieces)
      BY <3>2, PieceFacts
    <3>5. back \o draft \in Seq(Pieces)
      BY <3>4, ConcatProperties DEF FieldTyped
    <3>6. Len(back \o draft) \in 0..Len(back \o draft)
      BY <3>5, LenProperties
    <3> QED
      BY <1>f, <3>3, <3>5, <3>6 DEF FieldTyped
  <2> QED
    BY <1>17, <1>t, <2>1, <2>2 DEF FieldIInv, AbortAnswered, menuVars
<1>18. ASSUME NEW c \in calls, Failed(c) PROVE G
  BY <1>18, <1>t, <1>f, FailedWords DEF FieldIInv, Failed, menuVars
<1>19. ASSUME NEW c \in calls, Picked(c) PROVE G
  BY <1>19, <1>t, <1>f, PickedWords DEF FieldIInv, Picked, menuVars
<1>20. ASSUME NEW s \in Tabs, PiTakes(s) PROVE G
  BY <1>20, <1>t, <1>f, TakenWords DEF FieldIInv, PiTakes, menuVars
<1>21. ASSUME NEW s \in Tabs, Select(s) PROVE G
  <2>1. UNCHANGED <<draft, caret, calls, waiting, given, busy, mishaps, withdrawn, entered>> /\ FieldTyped'
    BY <1>21, <1>f DEF Select, fieldVars, tabVars, historyVars
  <2>4. Shown'
    BY <1>21, ComposerAssumption DEF Select, Shown
  <2>2. CASE Shown
    BY <1>1, <1>21, <2>1, <2>2, <2>4, ClosedTyped, FieldFacts DEF Select, FieldTyped
  <2>3. CASE ~Shown
    <3>1. bar' = bar + 1 /\ TokenTyped'
      BY <1>21, <1>t, <2>3 DEF Select, menuVars
    <3>2. WordsIInv'
      BY <2>1, <2>3, <3>1, NewBarWords
    <3> QED
      BY <2>1, <3>1, <3>2 DEF FieldIInv
  <2> QED
    BY <2>2, <2>3
<1>25. ASSUME NEW s, Follows(s) \/ UNCHANGED menuVars PROVE TokenTyped'
  <2>1. UNCHANGED <<token, active>>
    BY <1>25 DEF Follows, menuVars
  <2>2. \/ UNCHANGED rows \/ rows' = <<>> \/ \E query, of : rows' = CommandRows(query, of)
        \/ \E query, plus : rows' = FileRows(query, plus)
    BY <1>25 DEF Follows, Resolve, menuVars
  <2> QED
    BY <1>t, <2>1, <2>2, RowFacts, EmptySeq DEF TokenTyped
<1>22. ASSUME NEW s \in Tabs, NEW to \in HostStatuses, StatusMoves(s, to) PROVE G
  <2>1. UNCHANGED <<fieldVars, busy, bar, front, waiting, given, calls, historyVars>>
    BY <1>22 DEF StatusMoves
  <2>2. Follows(s) \/ UNCHANGED menuVars
    BY <1>22 DEF StatusMoves
  <2>3. TokenTyped'
    BY <1>25, <2>2
  <2> QED
    BY <1>s, <2>1, <2>3 DEF fieldVars, historyVars
<1>23. ASSUME NEW s \in Tabs, CloseTab(s) PROVE G
  <2>1. Leaves({s}) /\ UNCHANGED bar /\ mishaps \subseteq mishaps' /\ LostWords({s}) \subseteq mishaps'
    BY <1>23 DEF CloseTab
  <2>2. \/ UNCHANGED <<fieldVars, busy>> /\ Shown' = Shown
        \/ draft' = <<>> /\ caret' = 0 /\ ~Shown' /\ In(draft) \cap Words \subseteq mishaps'
    BY <1>23, ComposerAssumption DEF CloseTab, Shown
  <2>3. WordsIInv'
    <3>1. {s} \in SUBSET Tabs
      OBVIOUS
    <3>2. \/ UNCHANGED <<draft, busy>> /\ Shown' = Shown
          \/ draft' = <<>> /\ ~Shown' /\ In(draft) \cap Words \subseteq mishaps'
      BY <2>2 DEF fieldVars
    <3> QED
      BY <2>1, <3>1, <3>2, GoneWords
  <2>4. FieldTyped'
    <3>1. CASE UNCHANGED fieldVars
      BY <1>f, <3>1
    <3>2. CASE draft' = <<>> /\ caret' = 0
      BY <3>2, EmptySeq DEF FieldTyped
    <3> QED
      BY <2>2, <3>1, <3>2
  <2>5. CloseMenu \/ UNCHANGED menuVars \/ \E next : Follows(next)
    BY <1>23 DEF CloseTab
  <2>6. TokenTyped'
    BY <1>25, <2>5, ClosedTyped
  <2> QED
    BY <2>3, <2>4, <2>6 DEF FieldIInv
<1>26. CASE HostLost
  <2>1. Leaves(Tabs) /\ UNCHANGED <<fieldVars, busy, bar, front>> /\ mishaps' = mishaps \cup LostWords(Tabs)
    BY <1>26 DEF HostLost
  <2>2. Shown' = Shown
    BY <2>1 DEF Shown
  <2>3. WordsIInv'
    BY <2>1, <2>2, GoneWords DEF fieldVars
  <2>4. TokenTyped'
    BY <1>25, <1>26 DEF HostLost
  <2> QED
    BY <1>f, <2>1, <2>3, <2>4 DEF FieldIInv, fieldVars, FieldTyped
<1>27. ASSUME NEW s \in Tabs, NEW to \in HostStatuses, Reopen(s, to) PROVE G
  <2>1. UNCHANGED <<fieldVars, busy, waiting, given, calls, historyVars>>
    BY <1>27 DEF Reopen
  <2>2. Follows(s) \/ UNCHANGED menuVars
    BY <1>27 DEF Reopen
  <2>3. TokenTyped'
    BY <1>25, <2>2
  <2>4. CASE UNCHANGED <<front, bar>> \/ (Shown /\ front' = s /\ UNCHANGED bar)
    <3>1. Shown' = Shown
      BY <2>4, ComposerAssumption DEF Shown
    <3>2. WordsIInv'
      BY <2>1, <2>4, <3>1, SameWords DEF fieldVars, historyVars
    <3> QED
      BY <1>f, <2>1, <2>3, <3>2 DEF FieldIInv, fieldVars, FieldTyped
  <2>5. CASE ~Shown /\ bar' = bar + 1
    <3>1. WordsIInv'
      BY <2>1, <2>5, NewBarWords DEF fieldVars, historyVars
    <3> QED
      BY <1>f, <2>1, <2>3, <3>1 DEF FieldIInv, fieldVars, FieldTyped
  <2> QED
    BY <1>27, <2>4, <2>5 DEF Reopen
<1>24. CASE UNCHANGED composerVars
  BY <1>24, <1>t, <1>s DEF composerVars, fieldVars, menuVars, storeVars, tabVars, historyVars, G
<1> QED
  BY <1>2, <1>3, <1>4, <1>5, <1>6, <1>7, <1>8, <1>9, <1>10, <1>11, <1>12, <1>13, <1>14, <1>15, <1>16, <1>17, <1>18,
     <1>19, <1>20, <1>21, <1>22, <1>23, <1>24, <1>26, <1>27 DEF ComposerNext

-----------------------------------------------------------------------------
(* Calls and files. *)

LEMMA CallsKept ==
  ASSUME CallsTyped, calls' \subseteq calls, used' \in [{"keys", "calls", "events"} -> Nat], used'["calls"] >= used["calls"],
         bar' \in {bar, bar + 1}, entered \subseteq entered', entered' \subseteq Words \cup Files,
         waiting' \in [Tabs -> SUBSET (Words \cap entered')], given' \subseteq entered', attached' \subseteq Files \cap entered'
  PROVE  CallsTyped'
<1>1. calls' \subseteq CallState /\ \A c, d \in calls' : c.id = d.id => c = d
  BY DEF CallsTyped
<1>2. \A c \in calls' : c.id < used'["calls"] /\ c.bar <= bar' /\ c.words \cup c.files \subseteq entered'
  <2> SUFFICES ASSUME NEW c \in calls' PROVE c.id < used'["calls"] /\ c.bar <= bar' /\ c.words \cup c.files \subseteq entered'
    OBVIOUS
  <2>1. c.id \in Nat /\ c.bar \in Nat /\ c.id < used["calls"] /\ c.bar <= bar /\ bar \in Nat /\ used["calls"] \in Nat
        /\ used'["calls"] \in Nat
    BY DEF CallsTyped, CallState
  <2>2. c.words \cup c.files \subseteq entered
    BY DEF CallsTyped
  <2> QED
    BY <2>1, <2>2
<1>3. bar' \in Nat
  BY DEF CallsTyped
<1>4. waiting' \in [Tabs -> SUBSET Words] /\ \A s \in Tabs : waiting'[s] \subseteq entered'
  OBVIOUS
<1> QED
  BY <1>1, <1>2, <1>3, <1>4 DEF CallsTyped

LEMMA CallAdded ==
  ASSUME CallsTyped, StopTyped, Shown, NEW what \in {"submit", "abort", "pick"}, NEW words \in SUBSET (Words \cap entered),
         NEW files \in SUBSET (Files \cap entered), Uses("calls"), calls' = calls \cup {Call(what, front, words, files)},
         UNCHANGED <<bar, entered, waiting, given, attached>>
  PROVE  CallsTyped'
<1> DEFINE n == Call(what, front, words, files)
<1>1. /\ n \in CallState /\ n.do = what /\ n.words = words /\ n.files = files
      /\ n.bar = bar /\ n.id = used["calls"] /\ used'["calls"] = used["calls"] + 1
      /\ used' \in [{"keys", "calls", "events"} -> Nat]
  BY CallFacts
<1>2. calls' = calls \cup {n}
  OBVIOUS
<1> HIDE DEF n
<1>3. \A c \in calls : c.id \in Nat /\ c.id < used["calls"]
  BY DEF CallsTyped, CallState
<1>4. used["calls"] \in Nat /\ bar \in Nat
  BY DEF CallsTyped
<1>5. calls' \subseteq CallState
  BY <1>1, <1>2 DEF CallsTyped
<1>6. \A c, d \in calls' : c.id = d.id => c = d
  <2>1. \A c \in calls : c.id # n.id
    BY <1>1, <1>3, <1>4
  <2> QED
    BY <1>2, <2>1 DEF CallsTyped
<1>7. \A c \in calls' : c.id < used'["calls"] /\ c.bar <= bar' /\ c.words \cup c.files \subseteq entered'
  <2>1. \A c \in calls : c.id < used'["calls"]
    BY <1>1, <1>3, <1>4
  <2>2. \A c \in calls : c.bar <= bar /\ c.words \cup c.files \subseteq entered
    BY DEF CallsTyped
  <2>3. n.id < used'["calls"] /\ n.bar <= bar /\ n.words \cup n.files \subseteq entered
    BY <1>1, <1>4
  <2> QED
    BY <1>2, <2>1, <2>2, <2>3
<1> QED
  BY <1>1, <1>4, <1>5, <1>6, <1>7 DEF CallsTyped

LEMMA CallMoved ==
  ASSUME CallsTyped, NEW c \in calls, NEW words \in SUBSET (Words \cap entered),
         calls' = (calls \ {c}) \cup {[c EXCEPT !.stage = "done", !.words = words]},
         waiting' \in [Tabs -> SUBSET (Words \cap entered)], given' \subseteq entered,
         UNCHANGED <<bar, entered, attached, used>>
  PROVE  CallsTyped'
<1> DEFINE d == [c EXCEPT !.stage = "done", !.words = words]
<1>1. c \in CallState
  BY DEF CallsTyped
<1>2. d \in CallState /\ d.id = c.id /\ d.bar = c.bar /\ d.words = words /\ d.files = c.files
  BY <1>1 DEF CallState
<1>3. calls' = (calls \ {c}) \cup {d}
  OBVIOUS
<1> HIDE DEF d
<1>4. calls' \subseteq CallState /\ \A e, f \in calls' : e.id = f.id => e = f
  BY <1>2, <1>3 DEF CallsTyped
<1>5. \A e \in calls' : e.id < used'["calls"] /\ e.bar <= bar' /\ e.words \cup e.files \subseteq entered'
  BY <1>2, <1>3 DEF CallsTyped
<1>6. waiting' \in [Tabs -> SUBSET Words] /\ \A s \in Tabs : waiting'[s] \subseteq entered'
  OBVIOUS
<1> QED
  BY <1>4, <1>5, <1>6 DEF CallsTyped

LEMMA UsesTyped ==
  ASSUME CallsTyped, NEW what \in {"keys", "calls", "events"}, Uses(what) \/ UNCHANGED used
  PROVE  used' \in [{"keys", "calls", "events"} -> Nat] /\ used'["calls"] >= used["calls"]
<1>1. used \in [{"keys", "calls", "events"} -> Nat]
  BY DEF CallsTyped
<1>2. CASE UNCHANGED used
  BY <1>1, <1>2
<1>3. CASE Uses(what)
  BY <1>1, <1>3 DEF Uses
<1> QED
  BY <1>2, <1>3

LEMMA CallsStep ==
  ASSUME MenuIInv, StopTyped, FieldTyped, CallsTyped, WordsIInv, [ComposerNext]_composerVars
  PROVE  CallsTyped'
<1> DEFINE G == CallsTyped'
<1>0. /\ calls \subseteq CallState /\ waiting \in [Tabs -> SUBSET (Words \cap entered)] /\ given \subseteq entered
      /\ attached \subseteq Files \cap entered /\ entered \subseteq Words \cup Files
  BY DEF CallsTyped
<1>1. ASSUME calls' \subseteq calls, UNCHANGED used \/ Uses("keys") \/ Uses("calls") \/ Uses("events"), bar' \in {bar, bar + 1},
             UNCHANGED <<entered, waiting, given, attached>>
      PROVE  G
  <2>1. used' \in [{"keys", "calls", "events"} -> Nat] /\ used'["calls"] >= used["calls"]
    BY <1>1, UsesTyped
  <2> QED
    BY <1>0, <1>1, <2>1, CallsKept
<1>2. ASSUME NEW piece \in Words \cup Loose, Type(piece) PROVE G
  <2>1. /\ UNCHANGED <<calls, bar, waiting, given, attached>> /\ Uses("keys")
        /\ entered' = entered \cup ({piece} \cap Words)
    BY <1>2 DEF Type, storeVars, tabVars
  <2>2. used' \in [{"keys", "calls", "events"} -> Nat] /\ used'["calls"] >= used["calls"]
    BY <2>1, UsesTyped
  <2>3. /\ entered \subseteq entered' /\ entered' \subseteq Words \cup Files
        /\ waiting' \in [Tabs -> SUBSET (Words \cap entered')] /\ given' \subseteq entered' /\ attached' \subseteq Files \cap entered'
    BY <1>0, <2>1
  <2> QED
    BY <2>1, <2>2, <2>3, CallsKept
<1>3. CASE Erase \/ Escape \/ LeaveMenu \/ TogglePlus \/ ListingAnswered \/ ListingFails \/ ChooseEntry
  BY <1>1, <1>3 DEF Erase, Escape, LeaveMenu, TogglePlus, ListingAnswered, ListingFails, ChooseEntry, FieldOnly,
                    storeVars, tabVars, historyVars, G
<1>4. ASSUME NEW what, MoveCaret(what) \/ Highlight(what) \/ Drop(what) PROVE G
  BY <1>1, <1>4 DEF MoveCaret, Highlight, Drop, FieldOnly, storeVars, tabVars, historyVars
<1>5. CASE ChooseVerb
  <2>1. UNCHANGED <<bar, entered, waiting, given, attached>>
    BY <1>5 DEF ChooseVerb, storeVars, tabVars
  <2>2. CASE Uses("keys") /\ UNCHANGED calls
    BY <1>1, <2>1, <2>2
  <2>3. CASE Uses("calls") /\ calls' = calls \cup {Call("pick", front, {}, {})}
    <3>1. CASE Shown
      <4>1. {} \in SUBSET (Words \cap entered) /\ {} \in SUBSET (Files \cap entered)
        OBVIOUS
      <4> QED
        BY <2>1, <2>3, <3>1, <4>1, CallAdded
    <3> QED
      BY <3>1, <1>5 DEF ChooseVerb, MenuOpen, MenuIInv, MenuTyped
  <2> QED
    BY <1>5, <2>2, <2>3 DEF ChooseVerb, Ask
<1>6. ASSUME NEW file \in attached, RemoveAttachment(file) PROVE G
  <2>1. /\ UNCHANGED <<calls, bar, waiting, given, entered, used>> /\ attached' \subseteq attached
    BY <1>6 DEF RemoveAttachment, tabVars
  <2>2. used' \in [{"keys", "calls", "events"} -> Nat] /\ used'["calls"] >= used["calls"]
    BY <2>1, UsesTyped
  <2>3. /\ waiting' \in [Tabs -> SUBSET (Words \cap entered')] /\ given' \subseteq entered' /\ attached' \subseteq Files \cap entered'
    BY <1>0, <2>1
  <2> QED
    BY <1>0, <2>1, <2>2, <2>3, CallsKept
<1>7. CASE SubmitByKey \/ SubmitByButton
  <2> DEFINE words == In(draft) \cap Words
  <2>1. /\ Shown /\ Uses("calls") /\ calls' = calls \cup {Call("submit", front, words, attached)}
        /\ UNCHANGED <<bar, entered, waiting, given, attached>>
    BY <1>7 DEF SubmitByKey, SubmitByButton, Ask, storeVars, tabVars, historyVars
  <2>2. words \in SUBSET (Words \cap entered)
    BY DEF WordsIInv, KnownWords
  <2> HIDE DEF words
  <2>3. attached \in SUBSET (Files \cap entered)
    BY <1>0
  <2> QED
    BY <2>1, <2>2, <2>3, CallAdded DEF G
<1>8. CASE Stop
  <2>1. /\ Shown /\ Uses("calls") /\ calls' = calls \cup {Call("abort", front, {}, {})}
        /\ UNCHANGED <<bar, entered, waiting, given, attached>>
    BY <1>8 DEF Stop, Ask, tabVars, historyVars
  <2>2. {} \in SUBSET (Words \cap entered) /\ {} \in SUBSET (Files \cap entered)
    OBVIOUS
  <2> QED
    BY <2>1, <2>2, CallAdded DEF G
<1>9. ASSUME NEW c \in calls, Performs(c) PROVE G
  <2>1. UNCHANGED <<bar, entered, attached, used>>
    BY <1>9 DEF Performs, storeVars, historyVars
  <2>2. c \in CallState /\ c.words \subseteq Words \cap entered /\ c.files \subseteq entered
    <3>1. c \in CallState /\ c.words \subseteq entered /\ c.files \subseteq entered
      BY <1>9 DEF CallsTyped
    <3> QED
      BY <3>1 DEF CallState
  <2>3. CASE c.do = "submit"
    <3>1. /\ calls' = (calls \ {c}) \cup {[c EXCEPT !.stage = "done"]}
          /\ \/ waiting' = [waiting EXCEPT ![c.session] = @ \cup c.words] /\ given' = given \cup c.files
             \/ given' = given \cup c.words \cup c.files /\ UNCHANGED waiting
      BY <1>9, <2>3 DEF Performs
    <3>2. [c EXCEPT !.stage = "done"] = [c EXCEPT !.stage = "done", !.words = c.words]
      BY <2>2 DEF CallState
    <3>3. c.words \in SUBSET (Words \cap entered) /\ given' \subseteq entered
      BY <1>0, <2>2, <3>1
    <3>4. waiting' \in [Tabs -> SUBSET (Words \cap entered)]
      BY <1>0, <2>2, <3>1
    <3> QED
      BY <2>1, <3>1, <3>2, <3>3, <3>4, CallMoved
  <2>4. CASE c.do = "abort"
    <3>1. /\ calls' = (calls \ {c}) \cup {[c EXCEPT !.stage = "done", !.words = waiting[c.session]]}
          /\ waiting' = [waiting EXCEPT ![c.session] = {}] /\ UNCHANGED given
      BY <1>9, <2>4 DEF Performs
    <3>2. c.session \in Tabs
      BY <2>2 DEF CallState
    <3>3. waiting[c.session] \in SUBSET (Words \cap entered) /\ given' \subseteq entered
          /\ waiting' \in [Tabs -> SUBSET (Words \cap entered)]
      BY <1>0, <3>1, <3>2
    <3> QED
      BY <2>1, <3>1, <3>3, CallMoved
  <2> QED
    BY <1>9, <2>3, <2>4 DEF Performs
<1>10. ASSUME NEW c \in calls, SubmitAnswered(c) PROVE G
  <2>1. /\ UNCHANGED <<bar, waiting, given, entered, used>> /\ attached' = {} /\ calls' \subseteq calls
    BY <1>10 DEF SubmitAnswered, Cleared, tabVars
  <2>2. used' \in [{"keys", "calls", "events"} -> Nat] /\ used'["calls"] >= used["calls"]
    BY <2>1, UsesTyped
  <2> QED
    BY <1>0, <2>1, <2>2, CallsKept
<1>11. ASSUME NEW c \in calls, AbortAnswered(c) \/ Failed(c) PROVE G
  BY <1>1, <1>11 DEF AbortAnswered, Failed, storeVars, tabVars
<1>12. ASSUME NEW c \in calls, Picked(c) PROVE G
  <2>1. PICK files \in SUBSET (Files \ entered) :
          attached' = (IF files = {} THEN attached ELSE files) /\ entered' = entered \cup files
    BY <1>12 DEF Picked
  <2>2. UNCHANGED <<bar, waiting, given, used>> /\ calls' \subseteq calls
    BY <1>12 DEF Picked, tabVars
  <2>3. used' \in [{"keys", "calls", "events"} -> Nat] /\ used'["calls"] >= used["calls"]
    BY <2>2, UsesTyped
  <2>4. /\ entered \subseteq entered' /\ entered' \subseteq Words \cup Files
        /\ waiting' \in [Tabs -> SUBSET (Words \cap entered')] /\ given' \subseteq entered' /\ attached' \subseteq Files \cap entered'
    BY <1>0, <2>1, <2>2
  <2> QED
    BY <2>2, <2>3, <2>4, CallsKept
<1>13. ASSUME NEW s \in Tabs, PiTakes(s) PROVE G
  <2>1. /\ UNCHANGED <<calls, bar, entered, attached, used>>
        /\ given' = given \cup waiting[s] /\ waiting' = [waiting EXCEPT ![s] = {}]
    BY <1>13 DEF PiTakes, storeVars, historyVars
  <2>2. used' \in [{"keys", "calls", "events"} -> Nat] /\ used'["calls"] >= used["calls"]
    BY <2>1, UsesTyped
  <2>3. waiting' \in [Tabs -> SUBSET (Words \cap entered')] /\ given' \subseteq entered' /\ attached' \subseteq Files \cap entered'
    BY <1>0, <2>1
  <2> QED
    BY <1>0, <2>1, <2>2, <2>3, CallsKept
<1>14. ASSUME NEW s \in Tabs, Select(s) PROVE G
  BY <1>1, <1>14 DEF Select, tabVars, historyVars
<1>15. ASSUME NEW s, NEW to, StatusMoves(s, to) \/ Reopen(s, to) PROVE G
  BY <1>1, <1>15 DEF StatusMoves, Reopen, historyVars
<1>17. ASSUME NEW gone \in SUBSET Tabs, Leaves(gone), Uses("events"), UNCHANGED bar PROVE G
  <2>1. used' \in [{"keys", "calls", "events"} -> Nat] /\ used'["calls"] >= used["calls"]
    BY <1>17, UsesTyped
  <2>2. /\ waiting' = [s \in Tabs |-> IF s \in gone THEN {} ELSE waiting[s]]
        /\ UNCHANGED <<attached, given, calls, entered>>
    BY <1>17 DEF Leaves
  <2>3. waiting' \in [Tabs -> SUBSET (Words \cap entered')]
    BY <1>0, <2>2
  <2> QED
    BY <1>0, <1>17, <2>1, <2>2, <2>3, CallsKept
<1>18. CASE HostLost \/ \E s \in Tabs : CloseTab(s)
  <2>1. Uses("events") /\ UNCHANGED bar /\ \E gone \in SUBSET Tabs : Leaves(gone)
    BY <1>18 DEF HostLost, CloseTab
  <2> QED
    BY <1>17, <2>1
<1>16. CASE UNCHANGED composerVars
  BY <1>1, <1>16 DEF composerVars, storeVars, tabVars, historyVars, G
<1> QED
  BY <1>2, <1>3, <1>4, <1>5, <1>6, <1>7, <1>8, <1>9, <1>10, <1>11, <1>12, <1>13, <1>14, <1>15, <1>16, <1>18
     DEF ComposerNext

\* A file that is attached and that Pi has is in a submit that has been performed, so that
\* the answer takes it away.
FilesOnce ==
  \A f \in (attached \cap given) \ (mishaps \cup withdrawn) :
    \E c \in calls : c.do = "submit" /\ c.stage = "done" /\ f \in c.files

LEMMA FilesStep ==
  ASSUME StopTyped, CallsTyped, FilesOnce, [ComposerNext]_composerVars
  PROVE  FilesOnce'
<1> DEFINE G == FilesOnce'
<1>0. attached \subseteq Files /\ Words \cap Files = {}
  BY ComposerAssumption DEF CallsTyped
<1>1. ASSUME attached' \subseteq attached, UNCHANGED given, calls \subseteq calls', mishaps \subseteq mishaps', withdrawn \subseteq withdrawn'
      PROVE  G
  BY <1>1 DEF FilesOnce
<1>2. ASSUME NEW what, Type(what) \/ MoveCaret(what) \/ Highlight(what) \/ Drop(what) \/ RemoveAttachment(what) PROVE G
  BY <1>1, <1>2 DEF Type, MoveCaret, Highlight, Drop, RemoveAttachment, FieldOnly, storeVars, tabVars, historyVars
<1>3. CASE Erase \/ Escape \/ LeaveMenu \/ TogglePlus \/ ListingAnswered \/ ListingFails
  BY <1>1, <1>3 DEF Erase, Escape, LeaveMenu, TogglePlus, ListingAnswered, ListingFails, FieldOnly,
                    storeVars, tabVars, historyVars, G
<1>4. CASE ChooseEntry \/ ChooseVerb
  <2>1. UNCHANGED <<attached, given>> /\ calls \subseteq calls'
    BY <1>4 DEF ChooseEntry, ChooseVerb, storeVars, tabVars, Ask
  <2>2. mishaps \subseteq mishaps' /\ withdrawn \subseteq withdrawn'
    BY <1>4 DEF ChooseEntry, ChooseVerb, Overwrite
  <2> QED
    BY <1>1, <2>1, <2>2
<1>5. CASE SubmitByKey \/ SubmitByButton \/ Stop
  BY <1>1, <1>5 DEF SubmitByKey, SubmitByButton, Stop, Ask, storeVars, tabVars, historyVars, G
<1>6. ASSUME NEW c \in calls, Performs(c) PROVE G
  <2>1. UNCHANGED <<attached, mishaps, withdrawn>> /\ c \in CallState /\ c.stage = "sent"
    BY <1>6 DEF Performs, storeVars, historyVars, CallsTyped
  <2>2. CASE c.do = "submit"
    <3> DEFINE d == [c EXCEPT !.stage = "done"]
    <3>1. /\ calls' = (calls \ {c}) \cup {d} /\ given' \subseteq given \cup c.words \cup c.files
      BY <1>6, <2>2 DEF Performs
    <3>2. d.do = "submit" /\ d.stage = "done" /\ d.files = c.files /\ c.words \subseteq Words
      BY <2>1, <2>2 DEF CallState
    <3> HIDE DEF d
    <3> QED
      BY <1>0, <2>1, <3>1, <3>2 DEF FilesOnce
  <2>3. CASE c.do = "abort"
    <3>1. calls \ {c} \subseteq calls' /\ UNCHANGED given
      BY <1>6, <2>3 DEF Performs
    <3> QED
      BY <2>1, <2>3, <3>1 DEF FilesOnce
  <2> QED
    BY <1>6, <2>2, <2>3 DEF Performs
<1>7. ASSUME NEW c \in calls, SubmitAnswered(c) PROVE G
  BY <1>7 DEF SubmitAnswered, Cleared, FilesOnce
<1>8. ASSUME NEW c \in calls, AbortAnswered(c) PROVE G
  <2>1. UNCHANGED <<attached, given, withdrawn>> /\ calls' = calls \ {c} /\ c.do = "abort"
    BY <1>8 DEF AbortAnswered, storeVars, tabVars
  <2>2. mishaps \subseteq mishaps'
    BY <1>8 DEF AbortAnswered, Recovered
  <2> QED
    BY <2>1, <2>2 DEF FilesOnce
<1>9. ASSUME NEW c \in calls, Failed(c) PROVE G
  BY <1>9 DEF Failed, tabVars, FilesOnce
<1>10. ASSUME NEW c \in calls, Picked(c) PROVE G
  <2>1. PICK files \in SUBSET (Files \ entered) :
          attached' = (IF files = {} THEN attached ELSE files)
    BY <1>10 DEF Picked
  <2>2. UNCHANGED <<given, mishaps>> /\ calls' = calls \ {c} /\ c.do = "pick" /\ withdrawn \subseteq withdrawn' /\ given \subseteq entered
    BY <1>10 DEF Picked, tabVars, CallsTyped
  <2> QED
    BY <2>1, <2>2 DEF FilesOnce
<1>11. ASSUME NEW s \in Tabs, PiTakes(s) PROVE G
  <2>1. UNCHANGED <<attached, calls, mishaps, withdrawn>> /\ given' = given \cup waiting[s] /\ waiting[s] \subseteq Words
    BY <1>11 DEF PiTakes, storeVars, historyVars, CallsTyped
  <2> QED
    BY <1>0, <2>1 DEF FilesOnce
<1>12. ASSUME NEW s, Select(s) PROVE G
  BY <1>1, <1>12 DEF Select, tabVars, historyVars
<1>13. ASSUME NEW s, NEW to, StatusMoves(s, to) \/ Reopen(s, to) PROVE G
  BY <1>1, <1>13 DEF StatusMoves, Reopen, historyVars
<1>15. CASE HostLost \/ \E s \in Tabs : CloseTab(s)
  BY <1>1, <1>15 DEF HostLost, CloseTab, Leaves
<1>14. CASE UNCHANGED composerVars
  BY <1>1, <1>14 DEF composerVars, storeVars, tabVars, historyVars, G
<1> QED
  BY <1>2, <1>3, <1>4, <1>5, <1>6, <1>7, <1>8, <1>9, <1>10, <1>11, <1>12, <1>13, <1>14, <1>15
     DEF ComposerNext

-----------------------------------------------------------------------------

\* The inductive invariant.
BarIInv ==
  /\ StopTyped /\ StopNotSpent /\ viaPlus \in BOOLEAN /\ MenuIInv
  /\ FieldIInv /\ CallsTyped /\ FilesOnce

LEMMA BarInit == ComposerInit => BarIInv
<1> SUFFICES ASSUME ComposerInit PROVE BarIInv
  OBVIOUS
<1>1. StopTyped /\ StopNotSpent /\ viaPlus \in BOOLEAN /\ MenuIInv
  BY StopInit, MenuInit
<1>2. /\ draft = <<>> /\ caret = 0 /\ token = NoToken /\ rows = <<>> /\ active = 0 /\ calls = {} /\ attached = {}
      /\ given = {} /\ entered = {} /\ waiting = [s \in Tabs |-> {}] /\ bar = 1
      /\ used = [what \in DOMAIN Bounds |-> 0]
  BY DEF ComposerInit
<1>3. FieldTyped /\ TokenTyped
  BY <1>2, EmptySeq DEF FieldTyped, TokenTyped, NoToken
<1>4. In(draft) = {} /\ Single(draft, mishaps)
  BY <1>2, EmptyDraft
<1>5. \A w : ~Has(w)
  BY <1>2 DEF Has
<1>6. WordsIInv
  BY <1>2, <1>4, <1>5 DEF WordsIInv, Cleaned, GotOnce, SentIsNew, SubmitsApart, LeftBehind, OneSubmit, DoneIsGot, Kept, KnownWords
<1>7. used \in [{"keys", "calls", "events"} -> Nat]
  BY <1>2 DEF Bounds
<1>8. CallsTyped /\ FilesOnce
  BY <1>2, <1>7 DEF CallsTyped, FilesOnce
<1> QED
  BY <1>1, <1>3, <1>6, <1>8 DEF BarIInv, FieldIInv

LEMMA OnceHolds == BarIInv => TypedOnce
<1> SUFFICES ASSUME BarIInv PROVE TypedOnce
  OBVIOUS
<1>1. WordsIInv /\ CallsTyped /\ FilesOnce /\ FieldTyped
  BY DEF BarIInv, FieldIInv
<1>2. \A w : Has(w) <=> w \in Queued \cup given \cup Returning
  BY DEF Has, Queued, Returning
<1>3. NothingLost
  BY <1>1, <1>2 DEF NothingLost, WordsIInv, Kept
<1>4. ASSUME calls = {} PROVE (In(draft) \cup attached) \cap (Queued \cup given) \subseteq mishaps \cup withdrawn
  <2>1. Queued \subseteq Words /\ given \subseteq Words \cup Files /\ attached \subseteq Files
    BY <1>1 DEF CallsTyped, Queued
  <2>2. In(draft) \subseteq Words \cup Marks
    BY <1>1, InFacts DEF FieldTyped, Pieces
  <2>3. Words \cap Files = {} /\ Files \cap Marks = {} /\ Words \cap Marks = {}
    BY ComposerAssumption
  <2>4. ASSUME NEW w \in In(draft) \cap Words, w \in Queued \cup given PROVE w \in mishaps
    BY <1>1, <1>2, <1>4, <2>4 DEF WordsIInv, Cleaned
  <2>5. ASSUME NEW f \in attached, f \in given PROVE f \in mishaps \cup withdrawn
    BY <1>1, <1>4, <2>5 DEF FilesOnce
  <2> QED
    BY <2>1, <2>2, <2>3, <2>4, <2>5
<1>5. \A i, j \in 1..Len(draft) : draft[i] = draft[j] /\ draft[i] \in Words \ mishaps => i = j
  BY <1>1 DEF WordsIInv, Single
<1> QED
  BY <1>3, <1>4, <1>5 DEF TypedOnce, NothingTwice

\* Whatever answers late, fails or is stopped, and whichever bar it finds: a word a person
\* typed is in the draft, with Pi or on its way back, and once all is answered nothing Pi
\* has waits to be sent again (Composer.tsx 428-458, session-store.ts 754-761).
THEOREM WordsStayOnce == ComposerSpec => []TypedOnce
<1>1. BarIInv /\ [ComposerNext]_composerVars => BarIInv'
  <2> SUFFICES ASSUME BarIInv, [ComposerNext]_composerVars PROVE BarIInv'
    OBVIOUS
  <2>1. /\ StopTyped /\ StopNotSpent /\ viaPlus \in BOOLEAN /\ MenuIInv
        /\ FieldTyped /\ TokenTyped /\ CallsTyped /\ WordsIInv /\ FilesOnce
    BY DEF BarIInv, FieldIInv
  <2>2. StopTyped' /\ StopNotSpent' /\ viaPlus' \in BOOLEAN /\ MenuIInv'
    BY <2>1, StopStep, PlusTyped, MenuStep
  <2>3. FieldIInv'
    BY <2>1, FieldStep
  <2>4. CallsTyped'
    BY <2>1, CallsStep
  <2>5. FilesOnce'
    BY <2>1, FilesStep
  <2> QED
    BY <2>2, <2>3, <2>4, <2>5 DEF BarIInv
<1> QED
  BY <1>1, BarInit, OnceHolds, PTL DEF ComposerSpec

===============================================================================
