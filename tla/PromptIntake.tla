---------------------------- MODULE PromptIntake ----------------------------
(***************************************************************************)
(* How what a person sends reaches Pi (runtime.ts prompt, steer, follow_up, *)
(* abort), the cap on what waits (session/budget.ts), and the watch for     *)
(* writers that take no lock (session-host.ts, session/ownership.ts).       *)
(*                                                                         *)
(* One session, which may be closed and opened again under its id.  Pi is   *)
(* external: `phase' and `queue' are what the host sees of it, and a prompt *)
(* that reaches Pi while Pi compacts is assumed to wait for the end of it.  *)
(***************************************************************************)
EXTENDS Naturals, Sequences, FiniteSets, SequencesExt

CONSTANTS
  Messages,      \* what a person sends
  MaxQueued,     \* MAX_QUEUED_PROMPTS
  MaxOpenings,   \* bound: how often the session is opened
  MaxMutations,  \* bound: model changes, compactions, reloads and updates
  MaxForeign,    \* bound: appends by other programs
  MaxUnreadable  \* bound: times the session file cannot be read

ASSUME IntakeAssumption ==
  {MaxQueued, MaxOpenings, MaxMutations, MaxForeign, MaxUnreadable} \subseteq Nat

VARIABLES
  opening,    \* the SessionHost that is registered, by number
  live,       \* whether one is registered
  stage,      \* where a message is
  kind,       \* "prompt", or "queue" for steer and follow_up
  at,         \* the SessionHost a message was sent to
  preflights, \* prompts whose preflight is active, in the order it began
  claims,     \* messages that hold a position of the queue
  phase,      \* of Pi
  queue,      \* Pi's steering and follow-up messages
  doing,      \* commands that may append and are at an await
  since,      \* who has appended since the fingerprint was recorded
  known,      \* whether the fingerprint is known
  mutations, foreign, unreadable,
  unseen,     \* (history) another program appended while the host did nothing
  accused     \* (history) the writers that made the watch refuse a command

hostVars == <<opening, live>>
messageVars == <<stage, kind, at, preflights, claims>>
piVars == <<phase, queue>>
watchVars == <<since, known, unseen, unreadable, accused>>

vars == <<hostVars, messageVars, piVars, watchVars, doing, mutations, foreign>>

-----------------------------------------------------------------------------

Stages == {"new", "attaching", "waiting", "entering", "queued", "sent", "refused", "dropped"}

Pending == {"attaching", "waiting", "entering"}

Operations == {"model", "model written", "compact", "reload", "update"}

TypeOK ==
  /\ opening \in 0..MaxOpenings /\ live \in BOOLEAN
  /\ stage \in [Messages -> Stages]
  /\ kind \in [Messages -> {"prompt", "queue"}]
  /\ at \in [Messages -> 0..MaxOpenings]
  /\ preflights \in Seq(Messages) /\ claims \subseteq Messages
  /\ phase \in {"idle", "run", "compact"} /\ queue \in Seq(Messages)
  /\ doing \subseteq Operations
  /\ since \subseteq {"own", "foreign"} /\ known \in BOOLEAN
  /\ mutations \in 0..MaxMutations /\ foreign \in 0..MaxForeign
  /\ unreadable \in 0..MaxUnreadable
  /\ unseen \in BOOLEAN /\ accused \subseteq SUBSET {"own", "foreign"}

Init ==
  /\ opening = 0 /\ live = FALSE
  /\ stage = [m \in Messages |-> "new"]
  /\ kind = [m \in Messages |-> "prompt"]
  /\ at = [m \in Messages |-> 0]
  /\ preflights = <<>> /\ claims = {}
  /\ phase = "idle" /\ queue = <<>>
  /\ doing = {} /\ since = {} /\ known = FALSE
  /\ mutations = 0 /\ foreign = 0 /\ unreadable = 0
  /\ unseen = FALSE /\ accused = {}

Present(m) == live /\ at[m] = opening

-----------------------------------------------------------------------------
(* The watch. *)

\* A fingerprint that is not known, a run of our own and a file that cannot be
\* read are no reason to refuse.
SoleWriter == ~known \/ phase # "idle" \/ since = {}

Unreadable ==
  /\ known /\ phase = "idle" /\ unreadable < MaxUnreadable
  /\ unreadable' = unreadable + 1
  /\ unseen' = FALSE
  /\ UNCHANGED <<since, known, accused>>

Readable == UNCHANGED watchVars

\* assertSoleWriter passes, or refuses.
Passes == (SoleWriter /\ Readable) \/ Unreadable

Refuses ==
  /\ ~SoleWriter
  /\ accused' = accused \cup {since}
  /\ UNCHANGED <<since, known, unseen, unreadable>>

\* A record that fails leaves the fingerprint unknown until the next one.
RecordWrites ==
  \/ /\ since' = {} /\ known' = TRUE
     /\ UNCHANGED <<unseen, unreadable, accused>>
  \/ /\ unreadable < MaxUnreadable
     /\ unreadable' = unreadable + 1
     /\ since' = {} /\ known' = FALSE /\ unseen' = FALSE
     /\ UNCHANGED accused

Write(writers) ==
  /\ since' = since \cup writers
  /\ UNCHANGED <<known, unseen, unreadable, accused>>

ForeignWrite ==
  /\ live /\ foreign < MaxForeign
  /\ foreign' = foreign + 1
  /\ since' = since \cup {"foreign"}
  /\ unseen' = (unseen \/ (/\ known /\ phase = "idle" /\ doing = {}
                           /\ \A m \in Messages : Present(m) => stage[m] # "entering"))
  /\ UNCHANGED <<hostVars, messageVars, piVars, doing, known, unreadable, accused, mutations>>

-----------------------------------------------------------------------------
(* The session. *)

Open ==
  /\ ~live /\ opening < MaxOpenings
  /\ opening' = opening + 1 /\ live' = TRUE
  /\ since' = {} /\ known' = TRUE
  /\ UNCHANGED <<messageVars, piVars, doing, unseen, unreadable, accused, mutations, foreign>>

DropQueue ==
  /\ queue' = <<>>
  /\ stage' = [m \in Messages |-> IF stage[m] = "queued" THEN "dropped" ELSE stage[m]]

\* close_session disposes of the Pi session; commands that are at an await find
\* out when they continue.
Close ==
  /\ live /\ live' = FALSE
  /\ DropQueue
  /\ phase' = "idle" /\ doing' = {}
  /\ since' = {} /\ known' = FALSE /\ unseen' = FALSE
  /\ UNCHANGED <<opening, kind, at, preflights, claims, unreadable, accused, mutations, foreign>>

-----------------------------------------------------------------------------
(* Sending. *)

\* The reservations are kept by session id, so those of a closed host count.
Full == Len(queue) + Cardinality(claims) >= MaxQueued

Send(m) ==
  /\ live /\ stage[m] = "new"
  /\ \E k \in {"prompt", "queue"} :
       /\ kind' = [kind EXCEPT ![m] = k]
       /\ at' = [at EXCEPT ![m] = opening]
       /\ \/ /\ Passes
             /\ IF k = "queue" /\ Full
                THEN stage' = [stage EXCEPT ![m] = "refused"] /\ UNCHANGED claims
                ELSE /\ stage' = [stage EXCEPT ![m] = "attaching"]
                     /\ claims' = IF k = "queue" THEN claims \cup {m} ELSE claims
          \/ Refuses /\ stage' = [stage EXCEPT ![m] = "refused"] /\ UNCHANGED claims
  /\ UNCHANGED <<hostVars, preflights, piVars, doing, mutations, foreign>>

\* An attachment that changed, grew too large or is gone.
AttachmentsFail(m) ==
  /\ stage[m] = "attaching"
  /\ stage' = [stage EXCEPT ![m] = "refused"]
  /\ claims' = claims \ {m}
  /\ UNCHANGED <<hostVars, kind, at, preflights, piVars, watchVars, doing, mutations, foreign>>

\* A preflight that has finished, or never began, is not in the chain.
Without(chain, m) ==
  IF \E i \in DOMAIN chain : chain[i] = m
  THEN RemoveAt(chain, CHOOSE i \in DOMAIN chain : chain[i] = m)
  ELSE chain

\* Mutant: whether somebody else wrote is decided before the attachments.
EnterUnchecked(m, chain, held) ==
  \/ /\ Present(m) /\ Readable
     /\ stage' = [stage EXCEPT ![m] = "entering"]
     /\ preflights' = chain /\ claims' = held
  \/ /\ ~Present(m) /\ Readable
     /\ stage' = [stage EXCEPT ![m] = "refused"]
     /\ preflights' = Without(chain, m) /\ claims' = held \ {m}

\* Mutant: a command that is refused after its preflight began does not end it.
EnterUnfinished(m, chain, held) ==
  \/ /\ Present(m) /\ Passes
     /\ stage' = [stage EXCEPT ![m] = "entering"]
     /\ preflights' = chain /\ claims' = held
  \/ /\ \/ ~Present(m) /\ Readable
        \/ Present(m) /\ Refuses
     /\ stage' = [stage EXCEPT ![m] = "refused"]
     /\ preflights' = chain /\ claims' = held \ {m}

\* The last synchronous stretch before Pi: the session is still this one, and
\* nobody else has written to its file.
Enter(m, chain, held) ==
  \/ /\ Present(m) /\ Passes
     /\ stage' = [stage EXCEPT ![m] = "entering"]
     /\ preflights' = chain /\ claims' = held
  \/ /\ \/ ~Present(m) /\ Readable
        \/ Present(m) /\ Refuses
     /\ stage' = [stage EXCEPT ![m] = "refused"]
     /\ preflights' = Without(chain, m) /\ claims' = held \ {m}

\* steer and follow_up.
MessageAttached(m) ==
  /\ stage[m] = "attaching" /\ kind[m] = "queue"
  /\ Enter(m, preflights, claims)
  /\ UNCHANGED <<hostVars, kind, at, piVars, doing, mutations, foreign>>

ActiveBefore(m) == {i \in DOMAIN preflights : preflights[i] # m /\ at[preflights[i]] = at[m]}

\* isStreaming || followsAnother
Waits(m) == (Present(m) /\ phase = "run") \/ ActiveBefore(m) # {}

\* beginPromptPreflight; a prompt that follows another one awaits it.
PromptAttached(m) ==
  /\ stage[m] = "attaching" /\ kind[m] = "prompt"
  /\ LET chain == Append(preflights, m)
         held == IF Waits(m) THEN claims \cup {m} ELSE claims
     IN \/ /\ Waits(m) /\ Full
           /\ stage' = [stage EXCEPT ![m] = "refused"]
           /\ UNCHANGED <<preflights, claims, watchVars>>
        \/ /\ ~(Waits(m) /\ Full) /\ ActiveBefore(m) # {}
           /\ stage' = [stage EXCEPT ![m] = "waiting"]
           /\ preflights' = chain /\ claims' = held
           /\ UNCHANGED watchVars
        \/ /\ ~(Waits(m) /\ Full) /\ ActiveBefore(m) = {}
           /\ Enter(m, chain, held)
  /\ UNCHANGED <<hostVars, kind, at, piVars, doing, mutations, foreign>>

\* Mutant: a prompt awaits nothing that began before it.
FirstOfAll(m) == stage[m] = "waiting"

\* waitForPrevious: every preflight that began before has finished.
First(m) ==
  /\ stage[m] = "waiting"
  /\ \A i \in ActiveBefore(m) :
       \E j \in DOMAIN preflights : preflights[j] = m /\ j < i

Proceed(m) ==
  /\ First(m)
  /\ Enter(m, preflights, claims)
  /\ UNCHANGED <<hostVars, kind, at, piVars, doing, mutations, foreign>>

-----------------------------------------------------------------------------
(* Pi. *)

\* preflightResult and the finally of the call.
Finish(m, end) ==
  /\ stage' = [stage EXCEPT ![m] = end]
  /\ preflights' = Without(preflights, m)
  /\ claims' = claims \ {m}
  /\ UNCHANGED <<hostVars, kind, at, doing, mutations, foreign>>

PiQueues(m) ==
  /\ stage[m] = "entering" /\ Present(m)
  /\ kind[m] = "queue" \/ phase = "run"
  /\ queue' = Append(queue, m)
  /\ Finish(m, "queued")
  /\ UNCHANGED <<phase, watchVars>>

PiRuns(m) ==
  /\ stage[m] = "entering" /\ Present(m) /\ kind[m] = "prompt" /\ phase = "idle"
  /\ phase' = "run"
  /\ Write({"own"})
  /\ Finish(m, "sent")
  /\ UNCHANGED queue

\* An extension handles the prompt or Pi refuses it; a hook may have appended.
PiRejects(m) ==
  /\ stage[m] = "entering"
  /\ \E writers \in {{}, {"own"}} :
       /\ writers = {} \/ (Present(m) /\ kind[m] = "prompt")
       /\ Write(writers)
  /\ Finish(m, "refused")
  /\ UNCHANGED piVars

RunContinues ==
  /\ phase = "run" /\ queue # <<>>
  /\ queue' = Tail(queue)
  /\ stage' = [stage EXCEPT ![Head(queue)] = "sent"]
  /\ Write({"own"})
  /\ UNCHANGED <<hostVars, kind, at, preflights, claims, phase, doing, mutations, foreign>>

\* agent_settled.  A run that fails leaves what was queued.
RunSettles ==
  /\ phase = "run"
  /\ phase' = "idle"
  /\ RecordWrites
  /\ UNCHANGED <<hostVars, messageVars, queue, doing, mutations, foreign>>

\* abort returns what was queued to the composer; the run settles on its own.
Abort ==
  /\ live /\ (queue # <<>>)
  /\ DropQueue
  /\ UNCHANGED <<hostVars, kind, at, preflights, claims, phase, watchVars, doing, mutations, foreign>>

-----------------------------------------------------------------------------
(* The other commands that append to the session file. *)

Unmoved == UNCHANGED <<hostVars, messageVars, queue, foreign>>

\* reload_resources and update_resources refuse while Pi is not idle.
Begin(op) ==
  /\ live /\ mutations < MaxMutations
  /\ op \in {"model", "compact", "reload", "update"} /\ op \notin doing
  /\ op # "model" => phase = "idle"
  /\ mutations' = mutations + 1
  /\ \/ /\ Passes
        /\ doing' = doing \cup {op}
        /\ phase' = IF op = "compact" THEN "compact" ELSE phase
     \/ Refuses /\ UNCHANGED <<doing, phase>>
  /\ Unmoved

\* set_thinking_level appends and records without an await.
SetThinkingLevel ==
  /\ live /\ mutations < MaxMutations
  /\ mutations' = mutations + 1
  /\ \/ SoleWriter /\ RecordWrites
     \/ Refuses
     \/ /\ ~SoleWriter /\ unreadable < MaxUnreadable
        /\ unreadable' = unreadable + 1
        /\ since' = {} /\ known' = TRUE /\ unseen' = FALSE
        /\ UNCHANGED accused
  /\ UNCHANGED <<phase, doing>>
  /\ Unmoved

\* setModel appends, and Pi awaits its hooks after that.
ModelWritten ==
  /\ "model" \in doing
  /\ doing' = (doing \ {"model"}) \cup {"model written"}
  /\ Write({"own"})
  /\ UNCHANGED <<phase, mutations>>
  /\ Unmoved

\* Without a credential nothing is appended and nothing recorded.
ModelFails ==
  /\ "model" \in doing
  /\ doing' = doing \ {"model"}
  /\ UNCHANGED <<phase, watchVars, mutations>>
  /\ Unmoved

\* A reload hook appends.
ReloadWrites ==
  /\ "reload" \in doing /\ "own" \notin since
  /\ Write({"own"})
  /\ UNCHANGED <<phase, doing, mutations>>
  /\ Unmoved

\* The packages are installed; the sessions that were idle before are reloaded.
Installed ==
  /\ "update" \in doing /\ "reload" \notin doing
  /\ doing' = (doing \ {"update"}) \cup {"reload"}
  /\ UNCHANGED <<phase, watchVars, mutations>>
  /\ Unmoved

\* Whether it failed or not, what was appended is recorded.
End(op) ==
  /\ op \in doing /\ op \in {"model written", "compact", "reload"}
  /\ doing' = doing \ {op}
  /\ phase' = IF op = "compact" THEN "idle" ELSE phase
  /\ RecordWrites
  /\ UNCHANGED mutations
  /\ Unmoved

-----------------------------------------------------------------------------

SendStep ==
  \E m \in Messages :
    \/ Send(m) \/ AttachmentsFail(m) \/ MessageAttached(m) \/ PromptAttached(m) \/ Proceed(m)

PiStep ==
  \/ \E m \in Messages : PiQueues(m) \/ PiRuns(m) \/ PiRejects(m)
  \/ RunContinues \/ RunSettles

MutationStep ==
  \/ \E op \in Operations : Begin(op) \/ End(op)
  \/ SetThinkingLevel \/ ModelWritten \/ ModelFails \/ ReloadWrites \/ Installed

Next == Open \/ Close \/ Abort \/ ForeignWrite \/ SendStep \/ PiStep \/ MutationStep

\* Handlers continue, and Pi comes to the end of a preflight.
Spec ==
  /\ Init /\ [][Next]_vars
  /\ \A m \in Messages : WF_vars(Proceed(m)) /\ WF_vars(PiQueues(m) \/ PiRuns(m) \/ PiRejects(m))

-----------------------------------------------------------------------------
(* What holds. *)

\* runtime.ts:250 "Pi will later reject it despite this host having reported it
\* accepted": prompts reach Pi one at a time, in the order their preflights
\* began, whatever is refused, closed or reopened in between.
OneAtATime ==
  \A i, j \in DOMAIN preflights :
    i < j /\ at[preflights[i]] = at[preflights[j]] => stage[preflights[j]] # "entering"

\* budget.ts:218: what waits in Pi and what is on its way there stay within the
\* cap, and a position is held only by a message that is on its way.
QueueBounded ==
  /\ Len(queue) + Cardinality(claims) <= MaxQueued
  /\ \A m \in claims : stage[m] \in Pending

\* session-host.ts:140: after another program wrote to a session that does
\* nothing, nothing is handed to Pi and nothing is recorded over it until the
\* session is closed, however many commands were on their way.
ForeignWritesStop ==
  unseen =>
    /\ live /\ known /\ "foreign" \in since
    /\ phase = "idle" /\ doing = {}
    /\ \A m \in Messages : Present(m) => stage[m] # "entering"

\* A prompt that awaits the ones before it does not wait for good.
Answered == \A m \in Messages : stage[m] = "waiting" ~> stage[m] # "waiting"

\* runtime.ts:186 "Updating one while another workspace is mid-turn would replace
\* executable code under that turn", which update_resources does not keep.
ReloadedWhenIdle ==
  [][("reload" \in doing' \ doing) => phase = "idle"]_vars

\* session-host.ts:193 "so they are not mistaken for someone else's", which does
\* not hold while a command that has appended is at an await.
OwnWritesNotBlamed == {"own"} \notin accused

=============================================================================
