------------------------------ MODULE ToolGates ------------------------------
(***************************************************************************)
(* The two places where Pi waits for a person: the approval of a tool call *)
(* (policy/gate.ts, policy/extension.ts) and the dialogs of an extension   *)
(* (extension-ui/gate.ts), with the sessions they belong to (runtime.ts).  *)
(* Trays.tla adds what the renderer shows of them.                         *)
(*                                                                         *)
(* The handlers that touch the gates do so without an await, so each is    *)
(* one step.                                                               *)
(***************************************************************************)
EXTENDS Targets, FiniteSets

CONSTANTS
  Sessions,
  Calls,       \* tool calls
  Dialogs,     \* questions of extensions
  Tools,       \* the tools that are called
  Arguments,   \* the paths they are called with, or NoPath
  Root,        \* the workspace, which is also the working directory
  MaxOpenings, \* bound: how often a session is opened
  MaxTrusts,   \* bound: how often the trust of the workspace is changed
  MaxDeaths    \* bound: deaths of the host

Requests == Calls \cup Dialogs

ASSUME GatesAssumption ==
  /\ Calls \cap Dialogs = {}
  /\ Root \in Existing
  /\ \A arg \in Arguments : arg # NoPath => arg \in Seq(STRING)
  /\ {MaxOpenings, MaxTrusts, MaxDeaths} \subseteq Nat

VARIABLES
  openings,   \* how often a session has been registered
  open,       \* runtime.ts `sessions': those registered now
  binding,    \* those whose bindExtensions is pending
  down,       \* the host has answered shutdown and is about to exit
  trust,      \* the trust of the workspace
  state,      \* where a request stands
  asked,      \* the session, the opening and the call of a request
  allowed,    \* SessionAllowances: a tool of a session
  trusts, deaths,
  given,      \* (history) what a person allowed for a session, at which opening
  withdrawn   \* (history) openings that ended with a failed bind

sessionVars == <<openings, open, binding, down, trust>>
boundVars == <<trusts, deaths>>
historyVars == <<given, withdrawn>>

vars == <<sessionVars, state, asked, allowed, boundVars, historyVars>>

-----------------------------------------------------------------------------
(* Requests. *)

Waiting == {"parked", "unlimited"}  \* unlimited: a dialog put without a timer

ByPolicy == {"exempt", "allowance"}

States == Waiting \cup ByPolicy
            \cup {"new", "allowed", "denied", "unknown", "cancelled", "answered", "defaulted"}

Parked == {r \in Requests : state[r] \in Waiting}

ParkedOf(s) == {r \in Parked : asked[r].session = s}

Card == [session : Sessions, opening : 0..MaxOpenings, tool : Tools, arg : Arguments,
         trust : TrustLevels]

Question == [session : Sessions, opening : 0..MaxOpenings, late : BOOLEAN]

Unasked == [put |-> FALSE]

\* #resolve of both gates, for every path that is no answer: a denial, or the
\* default of the dialog.
Cancelled(requests) ==
  [r \in Requests |-> IF r \notin requests THEN state[r]
                      ELSE IF r \in Calls THEN "cancelled" ELSE "defaulted"]

TypeOK ==
  /\ openings \in [Sessions -> 0..MaxOpenings]
  /\ open \subseteq Sessions /\ binding \subseteq open
  /\ down \in BOOLEAN
  /\ trust \in TrustLevels
  /\ state \in [Requests -> States]
  /\ DOMAIN asked = Requests
  /\ \A c \in Calls : state[c] \notin {"new", "unknown"} => asked[c] \in Card
  /\ \A d \in Dialogs : state[d] # "new" => asked[d] \in Question
  /\ allowed \subseteq Sessions \X Tools
  /\ given \subseteq [session : Sessions, opening : 0..MaxOpenings, tool : Tools]
  /\ withdrawn \subseteq Sessions \X (0..MaxOpenings)
  /\ trusts \in 0..MaxTrusts /\ deaths \in 0..MaxDeaths

Init ==
  /\ openings = [s \in Sessions |-> 0]
  /\ open = {} /\ binding = {} /\ down = FALSE
  /\ trust \in TrustLevels
  /\ state = [r \in Requests |-> "new"]
  /\ asked = [r \in Requests |-> Unasked]
  /\ allowed = {}
  /\ trusts = 0 /\ deaths = 0
  /\ given = {} /\ withdrawn = {}

-----------------------------------------------------------------------------
(* Sessions. *)

\* hostFor registers the host before it binds the extensions.
Register(s) ==
  /\ s \notin open /\ ~down /\ openings[s] < MaxOpenings
  /\ openings' = [openings EXCEPT ![s] = @ + 1]
  /\ open' = open \cup {s} /\ binding' = binding \cup {s}
  /\ UNCHANGED <<down, trust, state, asked, allowed, boundVars, historyVars>>

Bound(s) ==
  /\ s \in binding
  /\ binding' = binding \ {s}
  /\ UNCHANGED <<openings, open, down, trust, state, asked, allowed, boundVars, historyVars>>

\* Mutant: the failed host is left among those that bind.
BindFailsHalf(s) ==
  /\ s \in binding
  /\ state' = Cancelled(ParkedOf(s) \cap Dialogs)
  /\ open' = open \ {s}
  /\ withdrawn' = withdrawn \cup {<<s, openings[s]>>}
  /\ UNCHANGED <<openings, binding, down, trust, asked, allowed, boundVars, given>>

\* The catch of hostFor cancels the dialogs; approvals and allowances stay.
BindFails(s) ==
  /\ s \in binding
  /\ state' = Cancelled(ParkedOf(s) \cap Dialogs)
  /\ open' = open \ {s} /\ binding' = binding \ {s}
  /\ withdrawn' = withdrawn \cup {<<s, openings[s]>>}
  /\ UNCHANGED <<openings, down, trust, asked, allowed, boundVars, given>>

\* Mutant: the allowances of a session outlive it.
CloseKeepingAllowances(gone) ==
  /\ gone \subseteq open
  /\ state' = Cancelled(UNION {ParkedOf(s) : s \in gone})
  /\ open' = open \ gone /\ binding' = binding \ gone
  /\ UNCHANGED <<openings, down, trust, asked, allowed, boundVars, historyVars>>

\* Mutant: only the approvals of a session are cancelled.
CloseKeepingDialogs(gone) ==
  /\ gone \subseteq open
  /\ state' = Cancelled(UNION {ParkedOf(s) \cap Calls : s \in gone})
  /\ allowed' = {a \in allowed : a[1] \notin gone}
  /\ open' = open \ gone /\ binding' = binding \ gone
  /\ UNCHANGED <<openings, down, trust, asked, boundVars, historyVars>>

\* cancelSession of both gates for each session that is closed.
Close(gone) ==
  /\ gone \subseteq open
  /\ state' = Cancelled(UNION {ParkedOf(s) : s \in gone})
  /\ allowed' = {a \in allowed : a[1] \notin gone}
  /\ open' = open \ gone /\ binding' = binding \ gone
  /\ UNCHANGED <<openings, down, trust, asked, boundVars, historyVars>>

CloseSession(s) == s \in open /\ Close({s})

CloseWorkspace == open # {} /\ Close(open)

\* shutdown: cancelAll of both gates, whatever session a request belongs to.
Shutdown ==
  /\ ~down
  /\ down' = TRUE
  /\ state' = Cancelled(Parked)
  /\ open' = {} /\ binding' = {}
  /\ UNCHANGED <<openings, trust, asked, allowed, boundVars, historyVars>>

\* The process is gone, and with it what Pi waited for; another takes over.
HostDies ==
  /\ deaths < MaxDeaths
  /\ deaths' = deaths + 1
  /\ state' = Cancelled(Parked)
  /\ allowed' = {} /\ open' = {} /\ binding' = {} /\ down' = FALSE
  /\ UNCHANGED <<openings, trust, asked, trusts, historyVars>>

SetProjectTrust ==
  /\ trusts < MaxTrusts
  /\ trusts' = trusts + 1
  /\ trust' \in TrustLevels \ {trust}
  /\ UNCHANGED <<openings, open, binding, down, state, asked, allowed, deaths, historyVars>>

-----------------------------------------------------------------------------
(* Tool calls: the tool_call hook of the approval extension.                *)

Reason(tool, arg) ==
  LET extracted == ExtractTargets(tool, arg, Root)
  IN RequiresApproval(trust, ClassifyTargets(Root, extracted.targets), extracted.resolved)

\* A session that has been disposed of may still run tools to their end.
EvaluateUnknown(c) ==
  /\ state[c] = "new"
  /\ \E s \in Sessions : openings[s] > 0 /\ s \notin open
  /\ state' = [state EXCEPT ![c] = "unknown"]
  /\ UNCHANGED <<sessionVars, asked, allowed, boundVars, historyVars>>

\* The policy, then the allowances, then #park; a signal that was aborted
\* before settles the request at once.
Outcomes(s, tool, arg) ==
  IF Reason(tool, arg) = NoReason THEN {"exempt"}
  ELSE IF <<s, tool>> \in allowed THEN {"allowance"}
  ELSE {"parked", "cancelled"}

Evaluate(c, s, tool, arg) ==
  /\ state[c] = "new" /\ s \in open
  /\ asked' = [asked EXCEPT ![c] = [session |-> s, opening |-> openings[s],
                                    tool |-> tool, arg |-> arg, trust |-> trust]]
  /\ \E outcome \in Outcomes(s, tool, arg) : state' = [state EXCEPT ![c] = outcome]
  /\ UNCHANGED <<sessionVars, allowed, boundVars, historyVars>>

\* Mutant: a late click is applied to a request that has been cancelled.
RespondLate(c, decision) ==
  /\ state[c] \in {"parked", "cancelled"}
  /\ state' = [state EXCEPT ![c] = IF decision = "deny" THEN "denied" ELSE "allowed"]
  /\ IF decision = "allow_for_session"
     THEN /\ allowed' = allowed \cup {<<asked[c].session, asked[c].tool>>}
          /\ given' = given \cup {[session |-> asked[c].session, opening |-> asked[c].opening,
                                   tool |-> asked[c].tool]}
     ELSE UNCHANGED <<allowed, given>>
  /\ UNCHANGED <<sessionVars, asked, boundVars, withdrawn>>

\* respond_tool_approval for a request that is pending; any other is answered
\* with accepted: false and changes nothing.  The allowance is recorded by
\* evaluate when its promise continues, before any other handler runs.
Respond(c, decision) ==
  /\ state[c] = "parked"
  /\ state' = [state EXCEPT ![c] = IF decision = "deny" THEN "denied" ELSE "allowed"]
  /\ IF decision = "allow_for_session"
     THEN /\ allowed' = allowed \cup {<<asked[c].session, asked[c].tool>>}
          /\ given' = given \cup {[session |-> asked[c].session, opening |-> asked[c].opening,
                                   tool |-> asked[c].tool]}
     ELSE UNCHANGED <<allowed, given>>
  /\ UNCHANGED <<sessionVars, asked, boundVars, withdrawn>>

-----------------------------------------------------------------------------
(* Dialogs: contextFor.  An extension keeps the context of a session that   *)
(* has been disposed of, so a dialog may be put for one that is not open.   *)

\* A select without options, or a signal aborted before, gets the default at
\* once.
Ask(d, s, standing) ==
  /\ state[d] = "new" /\ openings[s] > 0
  /\ asked' = [asked EXCEPT ![d] = [session |-> s, opening |-> openings[s], late |-> s \notin open]]
  /\ state' = [state EXCEPT ![d] = standing]
  /\ UNCHANGED <<sessionVars, allowed, boundVars, historyVars>>

\* The command of the kind of the dialog, with a value it offers or the empty
\* one; any other changes nothing.
Answer(d, reply) ==
  /\ state[d] \in Waiting
  /\ state' = [state EXCEPT ![d] = reply]
  /\ UNCHANGED <<sessionVars, asked, allowed, boundVars, historyVars>>

-----------------------------------------------------------------------------
(* What settles a request without a person. *)

Cancel(requests) ==
  /\ requests # {}
  /\ state' = Cancelled(requests)
  /\ UNCHANGED <<sessionVars, asked, allowed, boundVars, historyVars>>

Expire(r) == state[r] = "parked" /\ Cancel({r})

\* The signal of one call or one dialog.
SignalAborts(r) == r \in Parked /\ Cancel({r})

\* abort: cancelSession of the dialogs, and the signal of the run for its calls;
\* while the session is compacting the calls are left.
Abort(s) ==
  /\ s \in open
  /\ \E calls \in {{}, ParkedOf(s) \cap Calls} : Cancel((ParkedOf(s) \cap Dialogs) \cup calls)

-----------------------------------------------------------------------------

SessionStep ==
  \/ \E s \in Sessions : Register(s) \/ Bound(s) \/ BindFails(s) \/ CloseSession(s)
  \/ CloseWorkspace \/ Shutdown \/ HostDies \/ SetProjectTrust

CallStep ==
  \E c \in Calls :
    \/ EvaluateUnknown(c)
    \/ \E s \in Sessions, tool \in Tools, arg \in Arguments : Evaluate(c, s, tool, arg)
    \/ \E decision \in {"allow_once", "allow_for_session", "deny"} : Respond(c, decision)

DialogStep ==
  \E d \in Dialogs :
    \/ \E s \in Sessions, standing \in Waiting \cup {"defaulted"} : Ask(d, s, standing)
    \/ \E reply \in {"answered", "defaulted"} : Answer(d, reply)

SettleStep ==
  \/ \E r \in Requests : Expire(r) \/ SignalAborts(r)
  \/ \E s \in Sessions : Abort(s)

Next == SessionStep \/ CallStep \/ DialogStep \/ SettleStep

\* A timer that is due fires.
Spec == Init /\ [][Next]_vars /\ \A r \in Requests : WF_vars(Expire(r))

-----------------------------------------------------------------------------
(* What holds. *)

\* What a person said about one opening of a session counts for a later one
\* only when each opening from the first up to the other ended with a failed
\* bind: hostFor does not tell the approval gate of those.
Given(s, tool, opening) ==
  \E g \in given :
    /\ g.session = s /\ g.tool = tool /\ g.opening <= opening
    /\ \A n \in g.opening..(opening - 1) : <<s, n>> \in withdrawn

\* What Pi's file tools do, from their own documentation and not from the table
\* of the policy.
Readers == {"read", "ls", "grep", "find"}

Writers == {"write", "edit"}

\* approval.ts:12 "asks before anything that writes or executes outside the
\* workspace root" and 15 "asks before a tool whose targets this host cannot
\* determine", but for the writes whose links the check does not see.
Harmless(card) ==
  \/ card.trust = "full"
  \/ card.trust = "trusted" /\ card.tool \in Readers \cup ShellTools
  \/ /\ card.trust = "trusted" /\ card.tool \in Writers
     /\ card.arg # NoPath
     /\ LandsInside(Root, card.arg) \/ Unseen(card.arg)

\* policy/gate.ts:81 "Nothing runs on a decision that did not arrive": a call
\* that nobody was asked about was harmless under the trust of that moment, or
\* a person had allowed its tool in this opening of its session.
RanWithLeave ==
  \A c \in Calls :
    /\ state[c] = "exempt" => Harmless(asked[c])
    /\ state[c] = "allowance" => Given(asked[c].session, asked[c].tool, asked[c].opening)

\* policy/gate.ts:176 "Called on close and dispose": what waits belongs to the
\* opening of the session it was put in, except an approval whose opening ended
\* with a failed bind and a dialog put for a session that was already closed.
WaitsForTheOpen ==
  \A r \in Parked :
    \/ asked[r].session \in open /\ asked[r].opening = openings[asked[r].session]
    \/ r \in Calls /\ <<asked[r].session, asked[r].opening>> \in withdrawn
    \/ r \in Dialogs /\ asked[r].late

\* The same without the exception for approvals, which the code does not keep.
CloseCancels ==
  \A r \in Parked \cap Calls :
    asked[r].session \in open /\ asked[r].opening = openings[asked[r].session]

\* Rule 2 of approval.ts without that exception, which the code does not keep.
WritesStayInside ==
  \A c \in Calls :
    state[c] = "exempt" /\ asked[c].trust = "trusted" /\ asked[c].tool \in Writers
      => LandsInside(Root, asked[c].arg)

OutcomeOf(r) ==
  CASE state[r] = "new" -> "new"
    [] state[r] = "parked" -> "open"
    [] state[r] = "unlimited" -> "unlimited"
    [] state[r] \in ByPolicy \cup {"allowed", "answered"} -> "granted"
    [] OTHER -> "refused"

S == INSTANCE Settlement WITH outcome <- [r \in Requests |-> OutcomeOf(r)]

\* The gates implement Settlement: a request is settled once and stays settled,
\* and one with a timer is settled in the end, whatever closes, fails or dies.
RequestsSettle == S!Spec

=============================================================================
