------------------------------ MODULE ApplyWaves ------------------------------
(***************************************************************************)
(* computeApplyWaves (internal/gitops/resolve/waves.go): every resolved    *)
(* unit gets the wave in which `apply gitops` may apply it.                *)
(*                                                                         *)
(* It goes through spec.resolved.packages, where Expand has put the units  *)
(* it sorted and behind them those of bindings and controllers.  dependsOn *)
(* entries are names; buildPackageAliasIndex maps a name to every unit     *)
(* that answers to it (instance, <package>/install,                        *)
(* .../resources/<template>), and a name nobody answers to is skipped.     *)
(* The sort is Kahn's: a work list of units whose dependencies were all    *)
(* visited, the first in the list of packages first, each visit relaxing   *)
(* the waves of its dependents.                                            *)
(***************************************************************************)
EXTENDS Integers, FiniteSets

CONSTANTS N,        \* number of resolved units
          Names,    \* the names dependsOn entries may use
          ByName,   \* name -> units answering to it ({}: unknown name)
          DepLists  \* the dependsOn lists descriptors may carry

ASSUME NAssumption == N \in Nat \ {0}
ASSUME ByNameAssumption == ByName \in [Names -> SUBSET (1..N)]
ASSUME DepListsAssumption == DepLists \subseteq {list \in SUBSET Names : IsFiniteSet(list)}

Units == 1..N

VARIABLES
  dependsOn,  \* unit -> set of names, fixed before the sort
  packages,   \* spec.resolved.packages: the units, in order
  indeg,      \* unit -> dependencies not visited yet
  ready,      \* the work list, kept sorted by the code: a set here
  visited,    \* units taken from the work list so far
  waves,      \* unit -> wave computed so far
  result      \* "running", "ok" or "cycle"

waveVars == <<indeg, ready, visited, waves, result>>

\* Mutant of Edge: a unit that names itself waits for itself.
EdgeToItself(src, dst) == \E name \in dependsOn[dst] : src \in ByName[name]

\* src is a dependency of dst; the code skips self references and counts an
\* edge once (seenEdge) however many names lead to it.
Edge(src, dst) ==
  src # dst /\ \E name \in dependsOn[dst] : src \in ByName[name]

Sources(dst, S) == {src \in S : Edge(src, dst)}

\* Where a unit is in the list, and whether it heads the work list.
Place(i) == CHOOSE p \in DOMAIN packages : packages[p] = i
Heads(i) == i \in ready /\ \A k \in ready : Place(i) <= Place(k)

Init ==
  /\ indeg = [i \in Units |-> Cardinality(Sources(i, Units))]
  /\ ready = {i \in Units : indeg[i] = 0}
  /\ visited = {}
  /\ waves = [i \in Units |-> 0]
  /\ result = "running"

\* Mutant of Visit: the wave of a dependent is the last visit's, not the maximum.
VisitLastWriter(i) ==
  /\ result = "running"
  /\ Heads(i)
  /\ visited' = visited \cup {i}
  /\ waves' = [j \in Units |-> IF Edge(i, j) THEN waves[i] + 1 ELSE waves[j]]
  /\ indeg' = [j \in Units |-> IF Edge(i, j) THEN indeg[j] - 1 ELSE indeg[j]]
  /\ ready' = (ready \ {i}) \cup {j \in Units : Edge(i, j) /\ indeg[j] = 1}
  /\ UNCHANGED <<dependsOn, packages, result>>

\* Mutant of Visit: every relaxation raises the dependent, needed or not.
VisitAlwaysRaises(i) ==
  /\ result = "running"
  /\ Heads(i)
  /\ visited' = visited \cup {i}
  /\ waves' = [j \in Units |-> IF Edge(i, j) THEN waves[j] + waves[i] + 1
                                 ELSE waves[j]]
  /\ indeg' = [j \in Units |-> IF Edge(i, j) THEN indeg[j] - 1 ELSE indeg[j]]
  /\ ready' = (ready \ {i}) \cup {j \in Units : Edge(i, j) /\ indeg[j] = 1}
  /\ UNCHANGED <<dependsOn, packages, result>>

\* Mutant of Visit: the released dependents replace the rest of the work list.
VisitDropsReady(i) ==
  /\ result = "running"
  /\ Heads(i)
  /\ visited' = visited \cup {i}
  /\ waves' = [j \in Units |->
                 IF Edge(i, j) /\ waves[i] + 1 > waves[j]
                   THEN waves[i] + 1 ELSE waves[j]]
  /\ indeg' = [j \in Units |-> IF Edge(i, j) THEN indeg[j] - 1 ELSE indeg[j]]
  /\ ready' = {j \in Units : Edge(i, j) /\ indeg[j] = 1}
  /\ UNCHANGED <<dependsOn, packages, result>>

\* One turn of the loop: take the head of the work list and relax its dependents.
Visit(i) ==
  /\ result = "running"
  /\ Heads(i)
  /\ visited' = visited \cup {i}
  /\ waves' = [j \in Units |->
                 IF Edge(i, j) /\ waves[i] + 1 > waves[j]
                   THEN waves[i] + 1 ELSE waves[j]]
  /\ indeg' = [j \in Units |-> IF Edge(i, j) THEN indeg[j] - 1 ELSE indeg[j]]
  /\ ready' = (ready \ {i}) \cup {j \in Units : Edge(i, j) /\ indeg[j] = 1}
  /\ UNCHANGED <<dependsOn, packages, result>>

\* The work list is empty: publish the waves, or refuse the package set.
Finish ==
  /\ result = "running"
  /\ ready = {}
  /\ result' = IF visited = Units THEN "ok" ELSE "cycle"
  /\ UNCHANGED <<dependsOn, packages, indeg, ready, visited, waves>>

\* The units the refusal names ("dependency cycle involving").
Involved == {i \in Units : indeg[i] > 0}

Next == Finish \/ \E i \in Units : Visit(i)

-------------------------------------------------------------------------------
TypeOK ==
  /\ dependsOn \in [Units -> {list \in SUBSET Names : IsFiniteSet(list)}]
  /\ indeg \in [Units -> Nat]
  /\ ready \subseteq Units
  /\ visited \subseteq Units
  /\ waves \in [Units -> Nat]
  /\ result \in {"running", "ok", "cycle"}

(* Once computeApplyWaves succeeds, a unit's wave is above the wave of     *)
(* every unit its dependsOn names: applying wave by wave respects          *)
(* dependsOn, though a unit can come before what it needs in the list.     *)
WaveOrder ==
  result = "ok" =>
    \A i, j \in Units : Edge(i, j) => waves[i] < waves[j]

(* The waves are also tight: a unit in wave w > 0 has a dependency in wave *)
(* w - 1, so wave is the longest dependency path and no unit waits for a   *)
(* wave it does not need.                                                  *)
WavesTight ==
  result = "ok" =>
    \A j \in Units : waves[j] > 0 =>
      \E i \in Units : Edge(i, j) /\ waves[i] = waves[j] - 1

(* A refusal is never spurious: there is a nonempty set of units, each     *)
(* with a dependency inside the set, that is, a cycle; and the message     *)
(* names exactly the units that could not be scheduled.                    *)
RefusedOnlyOnCycle ==
  result = "cycle" =>
    /\ Involved # {}
    /\ \A j \in Involved : \E i \in Involved : Edge(i, j)
    /\ Involved = Units \ visited

===============================================================================
