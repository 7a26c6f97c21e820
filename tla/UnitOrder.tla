------------------------------- MODULE UnitOrder -------------------------------
(***************************************************************************)
(* The two sorts of one Expand (internal/gitops/resolve/resolve.go).       *)
(* topoSort puts the units collectRefs found in order, or Expand ends.     *)
(* The units of bindings (a consumer's, then its provider's) and of the    *)
(* controllers are appended behind them, and computeApplyWaves gives every *)
(* unit its wave, or Expand ends there.  Each sort builds its own graph,   *)
(* one with parallel edges and one without, and the first does not see the *)
(* appended units, which may close a cycle the second finds.               *)
(***************************************************************************)
EXTENDS ApplyWaves, Sequences

CONSTANTS NRefs,          \* the units of collectRefs are 1..NRefs, the others appended
          Entries,        \* name -> the collected units registered under it, in turn
          extraDependsOn  \* unit -> for a consumer's, the name of its provider's unit

ASSUME NRefsAssumption == NRefs \in 1..N

\* Both sorts index the same aliases of the collected units.
ASSUME EntriesAssumption ==
  /\ Entries \in [Names -> Seq(1..NRefs)]
  /\ \A name \in Names :
       ByName[name] \cap (1..NRefs) = {Entries[name][k] : k \in DOMAIN Entries[name]}

ASSUME ExtraAssumption ==
  /\ extraDependsOn \in [1..N -> {list \in SUBSET Names : IsFiniteSet(list)}]
  /\ \A i \in 1..NRefs : extraDependsOn[i] = {}

Refs == 1..NRefs

VARIABLES edgesLeft, queue, order, sorted   \* topoSort's indeg, ready, out, result

Sort == INSTANCE TopoSort
          WITH N <- NRefs, dependsOn <- [i \in Refs |-> dependsOn[i]],
               indeg <- edgesLeft, ready <- queue, out <- order, result <- sorted

sortVars == <<edgesLeft, queue, order, sorted>>

\* A unit depends on what its descriptor lists, a consumer's also on its provider's.
ExpandInit ==
  /\ \E lists \in [Units -> DepLists] :
       dependsOn = [i \in Units |-> lists[i] \cup extraDependsOn[i]]
  /\ packages = <<>>
  /\ Init /\ Sort!Init

\* resolveOne for the sorted units, then resolveBindings and resolveControllers.
Assemble ==
  /\ sorted = "ok" /\ packages = <<>>
  /\ packages' = order \o [k \in 1..(N - NRefs) |-> NRefs + k]
  /\ UNCHANGED <<dependsOn, waveVars, sortVars>>

ExpandNext ==
  \/ Sort!Next /\ UNCHANGED <<dependsOn, packages, waveVars>>
  \/ Assemble
  \/ packages # <<>> /\ Next /\ UNCHANGED sortVars

-------------------------------------------------------------------------------
(* The order topoSort returns is one of dependencies, for the units it is   *)
(* given (TopoSort).                                                        *)
DependenciesFirst == Sort!DependenciesFirst

(* topoSort refuses only what waits for itself: the units its message names *)
(* each depend on another of them, and they are those it could not place.   *)
(* A parallel edge counted twice and taken back once would refuse a set     *)
(* that has an order.                                                       *)
SortRefusedOnlyOnCycle ==
  sorted = "cycle" =>
    LET stuck == {i \in Refs : edgesLeft[i] > 0}
    IN  /\ stuck # {} /\ stuck = Refs \ {order[k] : k \in DOMAIN order}
        /\ \A j \in stuck : \E i \in stuck : Edge(i, j)

(* A set that topoSort put in order is refused by computeApplyWaves only    *)
(* for an appended unit: the units it names are not all collected ones,     *)
(* though the two count edges differently and through different indexes.    *)
LateCycles == result = "cycle" => ~ (Involved \subseteq Refs)
===============================================================================
