-------------------------------- MODULE FullTree --------------------------------
(***************************************************************************)
(* ApplyFullTree (internal/gitops/workflow/apply.go), behind `apply gitops *)
(* --full` and where there is no SRC: after an expand that refused         *)
(* nothing, whole repositories are applied, one after the other in the     *)
(* order their first units have in spec.resolved.packages, in which the    *)
(* units of bindings and controllers come last, a consumer's before its    *)
(* provider's.  The waves play no part.                                    *)
(***************************************************************************)
EXTENDS UnitOrder, FiniteSetsExt

CONSTANTS RepoOf,   \* unit -> the repository it is rendered to
          Service   \* the service-resources repositories, which are skipped

ASSUME RepoAssumption == RepoOf \in [1..N -> Nat] /\ Service \subseteq Nat

VARIABLES tree,     \* the repositories applied, in order
          ended     \* whether the command is over, and how

treeVars == <<tree, ended>>
expandVars == <<dependsOn, packages, waveVars, sortVars>>

AppliedRepos == {tree[k] : k \in DOMAIN tree}

\* The places, in the expanded file, of units whose repository is to come.
ToCome == {k \in DOMAIN packages : RepoOf[packages[k]] \notin Service \cup AppliedRepos}

\* Mutant of NextUnit: the repositories are taken by name.
NextUnitByName ==
  packages[CHOOSE k \in ToCome :
             \A m \in ToCome : RepoOf[packages[k]] <= RepoOf[packages[m]]]

\* The first of them: its repository is the next.
NextUnit == packages[Min(ToCome)]

\* What the manifests of a unit need is there once the units it depends on are
\* applied; within one repository the second pass makes up for the order.
Accepted(repo) ==
  \A j \in Units : RepoOf[j] = repo =>
    \A i \in Units : Edge(i, j) => RepoOf[i] \in AppliedRepos \cup {repo} \cup Service

TreeInit == tree = <<>> /\ ended = "no"

\* The whole repository in one call, in two passes; any call may fail, and both
\* passes do when something is missing.
ApplyRepo ==
  /\ ended = "no" /\ ToCome # {}
  /\ \/ Accepted(RepoOf[NextUnit]) /\ tree' = Append(tree, RepoOf[NextUnit]) /\ UNCHANGED ended
     \/ ended' = "failed" /\ UNCHANGED tree

TreeDone ==
  /\ ended = "no" /\ ToCome = {}
  /\ ended' = "ok"
  /\ UNCHANGED tree

FullInit == ExpandInit /\ TreeInit

\* The command reads the file of an expand that refused nothing.
FullNext ==
  \/ ExpandNext /\ UNCHANGED treeVars
  \/ result = "ok" /\ (ApplyRepo \/ TreeDone)
     /\ UNCHANGED expandVars

FullSpec == FullInit /\ [][FullNext]_<<expandVars, treeVars>>

-------------------------------------------------------------------------------
(* The order of the repositories comes from the order of the units: when a  *)
(* repository's turn comes, the collected units its first unit depends on   *)
(* are in it, in one that was applied, or in one that never is.  Of later   *)
(* units, and of dependencies on the units of bindings and controllers,     *)
(* this is not true.                                                        *)
FirstUnitServed ==
  (result = "ok" /\ ToCome # {}) =>
    \A i \in Refs : Edge(i, NextUnit) =>
      RepoOf[i] \in AppliedRepos \cup {RepoOf[NextUnit]} \cup Service

-------------------------------------------------------------------------------
(* "apply the whole rendered tree even when spec.controllers declares a     *)
(* KRC/SRC (for SRC-less setups or disaster recovery)"                      *)
(* (gitops_publish.go:297): a tree some order of repositories could bring   *)
(* in is brought in, the next repository being one the cluster accepts.     *)
WholeTree ==
  (result = "ok" /\ ToCome # {}) =>
    LET left == {RepoOf[packages[k]] : k \in ToCome}
    IN  (\E repo \in left : Accepted(repo)) => Accepted(RepoOf[NextUnit])
===============================================================================
