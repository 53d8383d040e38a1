------------------------------ MODULE WslNode ------------------------------
(***************************************************************************)
(* The Node a host behind WSL runs on, and the bundle it runs               *)
(* (apps/desktop/src/main/supervisor/wsl-node.ts, wsl-node-install.ts,      *)
(* wsl-process.ts, the staging in wsl-launcher.ts): it is looked for,       *)
(* brought by Bake Pi when there is none, and the bundle is staged beside   *)
(* it, by shell scripts that share one directory with those of other        *)
(* installations of Bake Pi and with those main no longer waits for.        *)
(*                                                                         *)
(* An installation is known by the Node version it pins, and so is the      *)
(* directory it unpacks that into.  A directory being filled or removed is  *)
(* "part": its node may run or not.                                         *)
(***************************************************************************)
EXTENDS Naturals

CONSTANTS
  Apps,          \* installations of Bake Pi, one for each pinned version
  MaxConnects,   \* bound: times a workspace of the distribution is opened
  MaxMishaps     \* bound: scripts cut short, timeouts, downloads that fail

VARIABLES
  trees,       \* $root/<version>
  current,     \* where the link $root/current leads
  own,         \* the person's Node: none, one a plain script finds, or only their own shell
  staged,      \* the directory of an installation's bundle
  app,         \* what main is at, the Node it has found, and what was there then
  remembered,  \* the map of that name
  job,         \* the script main waits for, and the one it has given up
  mixed,       \* (history) two decisions have overlapped
  used         \* connects and faults so far

nodeVars == <<trees, current, own, staged, app, remembered, job, mixed, used>>

Orphan == "orphan"
Scripts == Apps \cup {Orphan}

ASSUME NodeAssumption == Apps # {} /\ {"none", "own", Orphan} \cap Apps = {} /\ {MaxConnects, MaxMishaps} \subseteq Nat

NoScript == [does |-> "nothing", of |-> "none", pc |-> "none", tmp |-> "none", stale |-> {}]
Idle == [pc |-> "idle", node |-> "none", saw |-> "none", retry |-> FALSE]
Unstaged == [index |-> FALSE, deps |-> "none", ready |-> FALSE]

Mishap == used.faults < MaxMishaps /\ used' = [used EXCEPT !.faults = @ + 1]

MainOnly == UNCHANGED <<trees, current, own, staged>>

NodeInit ==
  /\ trees = [v \in Apps |-> "none"] /\ current = "none"
  /\ own \in {"none", "plain", "shell"}
  /\ staged = [a \in Apps |-> Unstaged]
  /\ app = [a \in Apps |-> Idle] /\ remembered = [a \in Apps |-> "none"]
  /\ job = [s \in Scripts |-> NoScript]
  /\ mixed = FALSE /\ used = [connects |-> 0, faults |-> 0]

-----------------------------------------------------------------------------
(* Looking for a Node. *)

\* check(): what the answers about one candidate can be.
Check(path) ==
  IF path = "own" THEN {own # "none"}
  ELSE IF path \notin Apps THEN {FALSE}
  ELSE IF trees[path] = "part" THEN BOOLEAN ELSE {trees[path] = "whole"}

\* Mutant: the managed Node is looked for where it was unpacked last.
LinkUnread(a, shell) ==
  <<remembered[a], IF own = "plain" \/ (shell /\ own = "shell") THEN "own" ELSE "none", "none">>

\* NODE_PROBE: the hint, then what the person has, and the managed Node last.
Candidates(a, shell) ==
  <<remembered[a], IF own = "plain" \/ (shell /\ own = "shell") THEN "own" ELSE "none", current>>

ProbeAnswers(a, shell) ==
  LET at == Candidates(a, shell)
      passed(i) == \A k \in 1..(i - 1) : FALSE \in Check(at[k])
  IN {at[i] : i \in {j \in 1..3 : passed(j) /\ TRUE \in Check(at[j])}} \cup (IF passed(4) THEN {"none"} ELSE {})

\* The launcher starts, or starts again after an install.
ConnectApp(a) ==
  /\ app[a].pc = "idle" /\ used.connects < MaxConnects
  /\ used' = [used EXCEPT !.connects = @ + 1]
  /\ app' = [app EXCEPT ![a] = [Idle EXCEPT !.pc = "direct"]]
  /\ UNCHANGED <<remembered, job, mixed>> /\ MainOnly

Found(a, path) ==
  /\ remembered' = [remembered EXCEPT ![a] = path]
  /\ app' = [app EXCEPT ![a].pc = "staging", ![a].node = path, ![a].saw = own]
  /\ job' = [job EXCEPT ![a] = [NoScript EXCEPT !.does = "stage", !.of = a, !.pc = "look"]]

DirectAnswers(a) ==
  /\ app[a].pc = "direct"
  /\ \E path \in ProbeAnswers(a, FALSE) :
       IF path # "none" THEN Found(a, path)
       ELSE app' = [app EXCEPT ![a].pc = "shell"] /\ UNCHANGED <<remembered, job>>
  /\ UNCHANGED <<mixed, used>> /\ MainOnly

\* wsl.exe gives no answer.
NoWsl(a) ==
  /\ app[a].pc = "direct" /\ Mishap
  /\ app' = [app EXCEPT ![a] = Idle]
  /\ UNCHANGED <<remembered, job, mixed>> /\ MainOnly

\* The login shell, if it is one that is asked and that answers in time.
ShellAnswers(a) ==
  /\ app[a].pc = "shell"
  /\ \E path \in ProbeAnswers(a, TRUE) \cup {"none"} :
       IF path # "none" THEN Found(a, path)
       ELSE /\ app' = [app EXCEPT ![a].pc = "missing"]
            /\ remembered' = [remembered EXCEPT ![a] = "none"]
            /\ UNCHANGED job
  /\ UNCHANGED <<mixed, used>> /\ MainOnly

-----------------------------------------------------------------------------
(* Bringing one. *)

Extracting == {s \in Scripts : job[s].does = "extract"}

\* The person chooses "Install".  The verdict that there is no Node may be an old one.
InstallChosen(a) ==
  /\ app[a].pc = "missing"
  /\ app' = [app EXCEPT ![a].pc = "fetching"]
  /\ mixed' = (mixed \/ current # "none" \/ Extracting # {} \/ \E b \in Apps \ {a} : app[b].pc = "fetching")
  /\ UNCHANGED <<remembered, job, used>> /\ MainOnly

\* fetchVerified: whole and of the pinned digest, or not at all.
Fetched(a) ==
  /\ app[a].pc = "fetching"
  /\ app' = [app EXCEPT ![a].pc = "extracting"]
  /\ job' = [job EXCEPT ![a] = [NoScript EXCEPT !.does = "extract", !.of = a, !.pc = "untar", !.tmp = "part"]]
  /\ UNCHANGED <<remembered, mixed, used>> /\ MainOnly

\* Somebody declines, the machine has no known architecture, the download fails.
InstallEnds(a) ==
  /\ \/ app[a].pc = "missing" /\ UNCHANGED used
     \/ app[a].pc = "fetching" /\ Mishap
  /\ app' = [app EXCEPT ![a] = Idle]
  /\ UNCHANGED <<remembered, job, mixed>> /\ MainOnly

\* The steps of EXTRACT, as scripts of their own.
To(s, pc) == job' = [job EXCEPT ![s].pc = pc]
AtStep(s, does, pc) == job[s].does = does /\ job[s].pc = pc
ScriptOnly == UNCHANGED <<own, app, remembered, mixed, used>>

\* The archive is unpacked beside, and its node runs; if not, the trap removes it.
Untar(s) ==
  /\ AtStep(s, "extract", "untar")
  /\ \/ job' = [job EXCEPT ![s].tmp = "whole", ![s].pc = "clear"] /\ UNCHANGED used
     \/ job' = [job EXCEPT ![s].tmp = "none", ![s].pc = "failed"] /\ Mishap
  /\ UNCHANGED <<trees, current, staged, own, app, remembered, mixed>>

Removed(v) == trees' = [trees EXCEPT ![v] = IF @ = "whole" THEN "part" ELSE "none"]

ClearTarget(s) ==
  /\ AtStep(s, "extract", "clear")
  /\ Removed(job[s].of)
  /\ IF trees'[job[s].of] = "none" THEN To(s, "move") ELSE UNCHANGED job
  /\ UNCHANGED <<current, staged>> /\ ScriptOnly

\* mv: into the directory, if one is there again.
MoveIn(s) ==
  /\ AtStep(s, "extract", "move")
  /\ trees' = [trees EXCEPT ![job[s].of] = IF @ = "none" THEN job[s].tmp ELSE @]
  /\ job' = [job EXCEPT ![s].tmp = "none", ![s].pc = "swap"]
  /\ UNCHANGED <<current, staged>> /\ ScriptOnly

\* mv -T, or unlink and mv where there is none; then the list of what is stale.
SwapLink(s) ==
  /\ \/ AtStep(s, "extract", "swap") /\ current' = "none" /\ To(s, "relink")
     \/ /\ job[s].does = "extract" /\ job[s].pc \in {"swap", "relink"}
        /\ current' = job[s].of
        /\ job' = [job EXCEPT ![s].pc = "sweep", ![s].stale = {v \in Apps \ {job[s].of} : trees[v] # "none"}]
  /\ UNCHANGED <<trees, staged>> /\ ScriptOnly

Sweep(s) ==
  /\ AtStep(s, "extract", "sweep")
  /\ \/ \E v \in job[s].stale :
          Removed(v) /\ job' = [job EXCEPT ![s].stale = IF trees'[v] = "none" THEN @ \ {v} ELSE @]
     \/ job[s].stale = {} /\ To(s, "report") /\ UNCHANGED trees
  /\ UNCHANGED <<current, staged>> /\ ScriptOnly

Report(s) ==
  /\ AtStep(s, "extract", "report")
  /\ \E ok \in Check(job[s].of) : To(s, IF ok THEN "ok" ELSE "failed")
  /\ UNCHANGED <<trees, current, staged>> /\ ScriptOnly

-----------------------------------------------------------------------------
(* #stageBundle. *)

StagedByOther(s) == \E t \in Scripts \ {s} : job[t].does = "stage" /\ job[t].of = job[s].of

\* Mutant: what is there is taken for finished.
LooksUnmarked(s) ==
  /\ AtStep(s, "stage", "look")
  /\ IF staged[job[s].of].index THEN To(s, "ok") /\ UNCHANGED mixed
     ELSE To(s, "copy") /\ mixed' = (mixed \/ StagedByOther(s))
  /\ UNCHANGED <<trees, current, staged, own, app, remembered, used>>

StageLooks(s) ==
  /\ AtStep(s, "stage", "look")
  /\ IF staged[job[s].of].ready THEN To(s, "ok") /\ UNCHANGED mixed
     ELSE To(s, "copy") /\ mixed' = (mixed \/ StagedByOther(s))
  /\ UNCHANGED <<trees, current, staged, own, app, remembered, used>>

StageCopies(s) ==
  /\ AtStep(s, "stage", "copy") /\ To(s, "npm")
  /\ staged' = [staged EXCEPT ![job[s].of].ready = FALSE, ![job[s].of].index = TRUE]
  /\ UNCHANGED <<trees, current>> /\ ScriptOnly

\* npm install, which may take what is there apart.
NpmStarts(s) ==
  /\ AtStep(s, "stage", "npm") /\ To(s, "npm ends")
  /\ staged' = [staged EXCEPT ![job[s].of].deps = "part"]
  /\ UNCHANGED <<trees, current>> /\ ScriptOnly

NpmEnds(s) ==
  /\ AtStep(s, "stage", "npm ends") /\ To(s, "touch")
  /\ staged' = [staged EXCEPT ![job[s].of].deps = "whole"]
  /\ UNCHANGED <<trees, current>> /\ ScriptOnly

StageMarks(s) ==
  /\ AtStep(s, "stage", "touch") /\ To(s, "ok")
  /\ staged' = [staged EXCEPT ![job[s].of].ready = TRUE]
  /\ UNCHANGED <<trees, current>> /\ ScriptOnly

-----------------------------------------------------------------------------
(* Main and its scripts. *)

ScriptEnded(s) == job[s].pc \in {"ok", "failed"}

\* collect() has the exit code: the host is started, or looked for a Node again.
ScriptReturns(a) ==
  /\ job[a].does # "nothing" /\ ScriptEnded(a)
  /\ job' = [job EXCEPT ![a] = NoScript]
  /\ app' = [app EXCEPT ![a] =
       IF job[a].pc = "failed" THEN Idle
       ELSE IF job[a].does = "stage" THEN [@ EXCEPT !.pc = "running"]
       ELSE [Idle EXCEPT !.pc = "direct", !.retry = TRUE]]
  /\ UNCHANGED <<remembered, mixed, used>> /\ MainOnly

\* Its timeout, or the end of main: wsl.exe is killed, and the script may go on without it.
GivesUp(a) ==
  /\ job[a].does # "nothing" /\ ~ScriptEnded(a) /\ Mishap
  /\ \/ job' = [job EXCEPT ![a] = NoScript]
     \/ job[Orphan].does = "nothing" /\ job' = [job EXCEPT ![a] = NoScript, ![Orphan] = job[a]]
  /\ app' = [app EXCEPT ![a] = Idle]
  /\ remembered' \in {remembered, [remembered EXCEPT ![a] = "none"]}
  /\ UNCHANGED mixed /\ MainOnly

OrphanEnds ==
  /\ job[Orphan].does # "nothing"
  /\ \/ ScriptEnded(Orphan) /\ UNCHANGED used
     \/ ~ScriptEnded(Orphan) /\ Mishap
  /\ job' = [job EXCEPT ![Orphan] = NoScript]
  /\ UNCHANGED <<app, remembered, mixed>> /\ MainOnly

HostStops(a) ==
  /\ app[a].pc = "running" /\ app' = [app EXCEPT ![a] = Idle]
  /\ UNCHANGED <<remembered, job, mixed, used>> /\ MainOnly

\* The person installs a Node, or removes theirs.
OwnChanges ==
  /\ own' \in {"none", "plain", "shell"} \ {own} /\ Mishap
  /\ UNCHANGED <<trees, current, staged, app, remembered, job, mixed>>

ScriptNext ==
  \E s \in Scripts :
    \/ Untar(s) \/ ClearTarget(s) \/ MoveIn(s) \/ SwapLink(s) \/ Sweep(s) \/ Report(s)
    \/ StageLooks(s) \/ StageCopies(s) \/ NpmStarts(s) \/ NpmEnds(s) \/ StageMarks(s)

NodeNext ==
  \/ \E a \in Apps :
       \/ ConnectApp(a) \/ DirectAnswers(a) \/ NoWsl(a) \/ ShellAnswers(a)
       \/ InstallChosen(a) \/ Fetched(a) \/ InstallEnds(a)
       \/ ScriptReturns(a) \/ GivesUp(a) \/ HostStops(a)
  \/ ScriptNext \/ OrphanEnds \/ OwnChanges

NodeSpec == NodeInit /\ [][NodeNext]_nodeVars

-----------------------------------------------------------------------------

NodeTypeOK ==
  /\ trees \in [Apps -> {"none", "part", "whole"}] /\ current \in Apps \cup {"none"}
  /\ own \in {"none", "plain", "shell"}
  /\ staged \in [Apps -> [index : BOOLEAN, deps : {"none", "part", "whole"}, ready : BOOLEAN]]
  /\ remembered \in [Apps -> Apps \cup {"none", "own"}]
  /\ \A a \in Apps : app[a].node \in Apps \cup {"none", "own"}
  /\ \A s \in Scripts : job[s].does \in {"nothing", "extract", "stage"} /\ job[s].of \in Apps \cup {"none"}

\* Whatever is cut short, the link leads to a tree that is all there, what is marked as
\* staged is all there, and so is what a host runs on, as long as no two decisions to
\* install have overlapped (wsl-node-install.ts 66-118, wsl-launcher.ts 267-330).
RunsOnWhole ==
  ~mixed =>
    /\ current # "none" => trees[current] = "whole"
    /\ \A a \in Apps :
         /\ staged[a].ready => staged[a].index /\ staged[a].deps = "whole"
         /\ app[a].pc = "running" => staged[a].ready /\ (app[a].node \in Apps => trees[app[a].node] = "whole")

\* Where an install has succeeded the Node it brought is found, and no other is offered
\* (wsl-node.ts 112-118, main/index.ts 516-518).
InstalledIsFound ==
  ~mixed => \A a \in Apps : app[a].retry => app[a].pc \notin {"shell", "missing"}

-----------------------------------------------------------------------------
(* What does not hold. *)

\* "A half-written tree is therefore never reachable through current" (wsl-node-install.ts
\* 72): a second install removes the tree the link of the first leads to.
CurrentIsWhole == current # "none" => trees[current] # "part"

\* "A Node you install yourself later takes precedence over it" (main/index.ts 507): the
\* path remembered from an earlier start is asked first.
OwnTakesPrecedence ==
  \A a \in Apps : app[a].pc = "staging" /\ app[a].saw = "plain" => app[a].node = "own"

=============================================================================
