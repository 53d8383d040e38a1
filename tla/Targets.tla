------------------------------- MODULE Targets -------------------------------
(***************************************************************************)
(* What a tool call is about to touch and whether it has to be asked       *)
(* about: policy/targets.ts, policy/paths.ts, policy/approval.ts and the   *)
(* trust a workspace opens with, session/workspace-permissions.ts.         *)
(*                                                                         *)
(* A path is the sequence of its names from the file system root.  RealPath *)
(* and Dangling are the file system: RealPath maps every path that exists   *)
(* to its canonical form, so a link or a junction is a path mapped to       *)
(* another; Dangling has the links whose target is missing.                *)
(***************************************************************************)
EXTENDS Naturals, Sequences, SequencesExt

CONSTANTS
  RealPath,     \* the canonical form of each path that exists
  Dangling,     \* where a write through a link with a missing target lands
  DotNames,     \* the names that begin with two dots
  MaxRemembered \* how many workspaces the permission file keeps

Existing == DOMAIN RealPath

\* The root exists, with a path its parents do, a canonical form is canonical,
\* and what is below the canonical form of a directory is below the directory.
ASSUME FileSystemAssumption ==
  /\ <<>> \in Existing
  /\ \A q \in Existing :
       /\ q \in Seq(STRING)
       /\ q # <<>> => Front(q) \in Existing
       /\ RealPath[q] \in Existing /\ RealPath[RealPath[q]] = RealPath[q]
  /\ \A q, e \in Existing : e # <<>> /\ Front(e) = RealPath[q] => Append(q, Last(e)) \in Existing
  /\ DOMAIN Dangling \cap Existing = {}

TrustLevels == {"untrusted", "trusted", "full"}

-----------------------------------------------------------------------------
(* Built-in tools: the kind of access and whether a missing path means the  *)
(* working directory.  A shell runs in the working directory; a tool that   *)
(* is not here came with an extension.                                      *)

FileTools ==
  [read  |-> [kind |-> "read",  fallback |-> FALSE],
   ls    |-> [kind |-> "read",  fallback |-> TRUE],
   grep  |-> [kind |-> "read",  fallback |-> TRUE],
   find  |-> [kind |-> "read",  fallback |-> TRUE],
   write |-> [kind |-> "write", fallback |-> FALSE],
   edit  |-> [kind |-> "write", fallback |-> FALSE]]

ShellTools == {"bash", "powershell"}

NoPath == "no path"

\* arg is the absolute path the call names, or NoPath when the field is
\* missing, empty or not a string.
ExtractTargets(tool, arg, cwd) ==
  IF tool \in ShellTools
  THEN [resolved |-> TRUE, targets |-> {[path |-> cwd, kind |-> "execute"]}]
  ELSE IF tool \notin DOMAIN FileTools
       THEN [resolved |-> FALSE, targets |-> {}]
       ELSE IF arg # NoPath
            THEN [resolved |-> TRUE, targets |-> {[path |-> arg, kind |-> FileTools[tool].kind]}]
            ELSE IF FileTools[tool].fallback
                 THEN [resolved |-> TRUE, targets |-> {[path |-> cwd, kind |-> FileTools[tool].kind]}]
                 ELSE [resolved |-> FALSE, targets |-> {}]

-----------------------------------------------------------------------------
(* Containment. *)

\* Mutant: a path that is not there yet is judged by its own text.
CanonicalizeByText(path) == IF path \in Existing THEN RealPath[path] ELSE path

\* A path that is not there yet is judged by its parent, and by its own text
\* when the parent is not there either.
Canonicalize(path) ==
  IF path \in Existing
  THEN RealPath[path]
  ELSE IF path # <<>> /\ Front(path) \in Existing
       THEN Append(RealPath[Front(path)], Last(path))
       ELSE path

\* relative(root, path) starts with two dots when path is not below root, and
\* also when the first name below root does.
IsInside(root, path) ==
  LET r == Canonicalize(root)
      p == Canonicalize(path)
  IN \/ r = p
     \/ /\ IsStrictPrefix(r, p)
        /\ p[Len(r) + 1] \notin DotNames

ClassifyTargets(root, targets) ==
  {[kind |-> t.kind, inside |-> IsInside(root, Canonicalize(t.path))] : t \in targets}

-----------------------------------------------------------------------------
(* The policy. *)

NoReason == "none"

RequiresApproval(trust, targets, resolved) ==
  IF trust = "untrusted" THEN "workspace_untrusted"
  ELSE IF trust = "full" THEN NoReason
  ELSE IF \E t \in targets : ~t.inside /\ t.kind # "read" THEN "outside_workspace"
  ELSE IF ~resolved THEN "targets_unknown"
  ELSE NoReason

-----------------------------------------------------------------------------
(* Where a write really lands, whatever the policy makes of its path: the    *)
(* directories that are missing are made below the last one that exists.     *)

Landing(path) ==
  LET n == CHOOSE k \in 0..Len(path) :
             /\ SubSeq(path, 1, k) \in Existing
             /\ \A j \in (k + 1)..Len(path) : SubSeq(path, 1, j) \notin Existing
  IN IF path \in DOMAIN Dangling
     THEN Dangling[path]
     ELSE RealPath[SubSeq(path, 1, n)] \o SubSeq(path, n + 1, Len(path))

LandsInside(root, path) == IsPrefix(RealPath[root], Landing(path))

\* What Canonicalize does not see: a link with a missing target, and a link
\* above a parent that is missing.
Unseen(path) ==
  \/ path \in DOMAIN Dangling
  \/ path \notin Existing /\ Front(path) \notin Existing /\ Landing(path) # path

-----------------------------------------------------------------------------
(* The trust a workspace opens with.  The file is a sequence of choices in   *)
(* insertion order; Undecided stands for a root that is not in it.           *)

Undecided == "undecided"

ResolveWorkspaceTrust(piTrusted, remembered, fallback) ==
  IF remembered # Undecided
  THEN IF remembered # "untrusted" /\ piTrusted THEN remembered ELSE "untrusted"
  ELSE IF piTrusted THEN "trusted" ELSE fallback

\* A root chosen again moves to the end; the oldest beyond the cap are dropped.
Remember(file, root, trust) ==
  LET rest == SelectSeq(file, LAMBDA entry : entry.root # root)
      all  == Append(rest, [root |-> root, trust |-> trust])
  IN SubSeq(all, 1 + (IF Len(all) > MaxRemembered THEN Len(all) - MaxRemembered ELSE 0), Len(all))

Remembered(file, root) ==
  LET entries == {file[i] : i \in DOMAIN file}
  IN IF \E entry \in entries : entry.root = root
     THEN (CHOOSE entry \in entries : entry.root = root).trust
     ELSE Undecided

=============================================================================
