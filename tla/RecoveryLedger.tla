--------------------------- MODULE RecoveryLedger ---------------------------
(***************************************************************************)
(* What main remembers of the host it supervises, from the commands that   *)
(* go out and the answers that come back, and what it makes of that when   *)
(* the host dies (apps/desktop/src/main/supervisor/recovery.ts and         *)
(* health.ts).                                                             *)
(*                                                                         *)
(* A command is [name, arg]; the argument is a session, a workspace root,  *)
(* a workspace id or, of a credential write, nothing.  Latencies are left  *)
(* out.                                                                    *)
(***************************************************************************)
EXTENDS Integers, Sequences, FiniteSets

CONSTANTS
  Sessions,     \* session ids
  Roots,        \* workspace directories
  Slots,        \* commands main can have in flight
  MaxIds,       \* bound: workspace ids minted by hosts
  MaxRestarts   \* RestartPolicy.maxRestarts

NoRoot == "none"

Nothing == "nothing"

ASSUME LedgerAssumption ==
  /\ {NoRoot, Nothing} \cap (Roots \cup Sessions) = {}
  /\ MaxIds \in Nat /\ MaxRestarts \in Nat

Ids == 1..MaxIds

SessionCommands == {"open_session", "close_session", "prompt"}

Commands ==
  [name : SessionCommands, arg : Sessions] \cup [name : {"open_workspace"}, arg : Roots]
    \cup [name : {"close_workspace"}, arg : Ids] \cup [name : {"set_api_key"}, arg : {Nothing}]

VARIABLES
  open,         \* #open: sessions to bring back after a crash
  quarantined,  \* #quarantined: sessions a crash is blamed on
  roots,        \* #workspaceRoots
  rootById,     \* #workspaceRootById
  wsOf,         \* #workspaceBySession; 0 is unknown
  rootOf,       \* #workspaceRootBySession
  inFlight,     \* #inFlight: slot to command, of the slots in use
  failures      \* RestartBudget.#failures: whether each led to a restart

memory == <<open, quarantined, roots, rootById, wsOf, rootOf>>

ledger == <<memory, inFlight, failures>>

LedgerTypeOK ==
  /\ open \in SUBSET Sessions /\ quarantined \in SUBSET Sessions
  /\ roots \in SUBSET Roots
  /\ rootById \in [Ids -> Roots \cup {NoRoot}]
  /\ wsOf \in [Sessions -> 0..MaxIds]
  /\ rootOf \in [Sessions -> Roots \cup {NoRoot}]
  /\ DOMAIN inFlight \in SUBSET Slots
  /\ \A c \in DOMAIN inFlight : inFlight[c] \in Commands
  /\ failures \in Seq(BOOLEAN)

Idle == [c \in {} |-> Nothing]

LedgerInit ==
  /\ open = {} /\ quarantined = {} /\ roots = {}
  /\ rootById = [id \in Ids |-> NoRoot]
  /\ wsOf = [s \in Sessions |-> 0]
  /\ rootOf = [s \in Sessions |-> NoRoot]
  /\ inFlight = Idle
  /\ failures = <<>>

Sent(flight, c, command) ==
  [x \in DOMAIN flight \cup {c} |-> IF x = c THEN command ELSE flight[x]]

Settled(flight, done) == [x \in DOMAIN flight \ done |-> flight[x]]

-----------------------------------------------------------------------------
(* noteSettled: what a successful answer says about which sessions exist.  *)

Forget(gone) ==
  /\ wsOf' = [s \in Sessions |-> IF s \in gone THEN 0 ELSE wsOf[s]]
  /\ rootOf' = [s \in Sessions |-> IF s \in gone THEN NoRoot ELSE rootOf[s]]

NoteSessionOpened(s, id) ==
  /\ open' = open \cup {s}
  /\ quarantined' = quarantined \ {s}
  /\ wsOf' = [wsOf EXCEPT ![s] = id]
  /\ rootOf' = [rootOf EXCEPT ![s] = IF rootById[id] = NoRoot THEN @ ELSE rootById[id]]
  /\ UNCHANGED <<roots, rootById>>

NoteSessionClosed(s) ==
  /\ open' = open \ {s}
  /\ Forget({s})
  /\ UNCHANGED <<quarantined, roots, rootById>>

NoteWorkspaceOpened(id, r) ==
  /\ roots' = roots \cup {r}
  /\ rootById' = [rootById EXCEPT ![id] = r]
  /\ UNCHANGED <<open, quarantined, wsOf, rootOf>>

\* Mutant: only the sessions an earlier host had opened under the same root.
BelongingToOther(id) ==
  {s \in Sessions : wsOf[s] \notin {0, id} /\ rootById[id] # NoRoot /\ rootOf[s] = rootById[id]}

\* The sessions of a workspace, by its id or by the root it was opened under in
\* an earlier host.
SameRoot(s, id) == rootById[id] # NoRoot /\ rootOf[s] = rootById[id]

Belonging(id) == {s \in Sessions : wsOf[s] # 0 /\ (wsOf[s] = id \/ SameRoot(s, id))}

NoteWorkspaceClosed(id) ==
  /\ rootById' = [rootById EXCEPT ![id] = NoRoot]
  /\ roots' = IF \E other \in Ids : rootById'[other] = rootById[id] THEN roots
              ELSE roots \ {rootById[id]}
  /\ open' = open \ Belonging(id)
  /\ quarantined' = quarantined \ Belonging(id)
  /\ Forget(Belonging(id))

-----------------------------------------------------------------------------
(* noteRestoreFailed of some sessions, noteWorkspaceRestoreFailed of roots. *)

NoteRestoreFailed(ss, rs) ==
  /\ open' = open \ ss
  /\ Forget(ss)
  /\ roots' = roots \ rs
  /\ rootById' = [id \in Ids |-> IF rootById[id] \in rs THEN NoRoot ELSE rootById[id]]
  /\ UNCHANGED quarantined

-----------------------------------------------------------------------------
(* planRestart.                                                            *)

\* Mutant: pending commands are failed before the crash is attributed.
NoEvidence == Idle

Evidence == inFlight

SessionsOf(flight) ==
  {flight[c].arg : c \in {x \in DOMAIN flight : flight[x].name \in SessionCommands}}

Blame == SessionsOf(Evidence)

Ambiguous == \E c \in DOMAIN Evidence : Evidence[c].name = "set_api_key"

\* Mutant: one restart too many.
BudgetOverrun == Len(failures) <= MaxRestarts

\* RestartBudget.record, which counts the failure at hand.
BudgetRemains == Len(failures) + 1 <= MaxRestarts

Automatic == ~Ambiguous /\ BudgetRemains

ToRestore == open \ (quarantined \cup Blame)

\* The plan, and what a restore loop does after it that has not noticed the
\* crash: it notes each remaining item as failed.
PlanRestart(ss, rs) ==
  /\ quarantined' = quarantined \cup Blame
  /\ open' = ToRestore \ ss
  /\ roots' = roots \ rs
  /\ rootById' = [id \in Ids |-> NoRoot]
  /\ Forget(ss)
  /\ inFlight' = Idle

ResetRuntime ==
  /\ open' = {} /\ quarantined' = {} /\ roots' = {}
  /\ rootById' = [id \in Ids |-> NoRoot]
  /\ Forget(Sessions)

=============================================================================
