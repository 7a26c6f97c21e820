---------------------------- MODULE UnitOrderProofs ----------------------------
(***************************************************************************)
(* For every number of units, alias index and dependsOn lists: the waves   *)
(* computeApplyWaves publishes respect dependsOn and are tight, and it     *)
(* refuses a package set only when its dependencies contain a cycle; the   *)
(* order topoSort returns respects dependsOn, it too refuses only cycles,  *)
(* what it could order is refused later only for a unit appended to it,    *)
(* and the order of the repositories a full tree is applied in serves the  *)
(* first unit of each with the collected units it needs.                   *)
(*                                                                         *)
(* And for every package set and catalog: in the file an expand writes a   *)
(* consumer's unit comes in a later wave than its provider's, every unit   *)
(* is rendered to a repository somebody reconciles, and no two units share *)
(* a directory.                                                            *)
(*                                                                         *)
(* The inductive invariants say what the loops keep true between turns:    *)
(* the counts are those of the dependencies, or of the parallel edges, not *)
(* visited yet, the work list is exactly the unvisited units at zero,      *)
(* visited units have visited dependencies (so a wave is final once its    *)
(* unit is visited) and every visited unit has relaxed its dependents.     *)
(***************************************************************************)
EXTENDS FullTree, ExpandUnits, FiniteSetTheorems, FunctionTheorems, WellFoundedInduction, TLAPS

IndegCounts ==
  \A j \in Units : indeg[j] = Cardinality(Sources(j, Units \ visited))

ReadyExact == ready = {j \in Units \ visited : indeg[j] = 0}

VisitedClosed ==
  \A j \in visited : \A i \in Units : Edge(i, j) => i \in visited

Relaxed ==
  \A i \in visited : \A j \in Units : Edge(i, j) => waves[i] < waves[j]

Justified ==
  \A j \in Units : waves[j] > 0 =>
    \E i \in visited : Edge(i, j) /\ waves[i] = waves[j] - 1

ResultMeans ==
  /\ result = "ok" => visited = Units
  /\ result = "cycle" => ready = {} /\ visited # Units

IInv ==
  /\ TypeOK
  /\ IndegCounts
  /\ ReadyExact
  /\ VisitedClosed
  /\ Relaxed
  /\ Justified
  /\ ResultMeans

-------------------------------------------------------------------------------
(* The second sort: computeApplyWaves, an edge counted once.               *)

(* The units are a finite set, so the counts of sources are naturals.      *)
LEMMA UnitsFinite == IsFiniteSet(Units)
  BY NAssumption, FS_Interval DEF Units

LEMMA SourcesFinite ==
  ASSUME NEW j, NEW S \in SUBSET Units
  PROVE  /\ IsFiniteSet(Sources(j, S))
         /\ Cardinality(Sources(j, S)) \in Nat
         /\ Cardinality(Sources(j, S)) = 0 <=> Sources(j, S) = {}
<1>1. IsFiniteSet(Sources(j, S))
  BY UnitsFinite, FS_Subset DEF Sources
<1>2. QED
  BY <1>1, FS_CardinalityType, FS_EmptySet

(* Init establishes the invariant: nothing is visited, indeg counts every  *)
(* dependency and every wave is 0.                                         *)
LEMMA InitIInv ==
  ASSUME dependsOn \in [Units -> {list \in SUBSET Names : IsFiniteSet(list)}], Init
  PROVE  IInv
<1>1. \A j \in Units : Cardinality(Sources(j, Units)) \in Nat
  BY SourcesFinite
<1>2. TypeOK
  BY <1>1 DEF Init, TypeOK
<1>3. IndegCounts
  BY DEF Init, IndegCounts
<1>4. ReadyExact
  BY DEF Init, ReadyExact
<1>5. VisitedClosed /\ Relaxed
  BY DEF Init, VisitedClosed, Relaxed
<1>6. Justified
  BY DEF Init, Justified
<1>7. ResultMeans
  BY DEF Init, ResultMeans
<1> QED
  BY <1>2, <1>3, <1>4, <1>5, <1>6, <1>7 DEF IInv

(* A turn of the loop keeps the invariant.                                 *)
LEMMA VisitIInv ==
  ASSUME IInv, NEW k \in Units, Visit(k)
  PROVE  IInv'
<1> USE DEF Units
<1>1. /\ k \in ready
      /\ k \notin visited
      /\ indeg[k] = 0
  BY DEF IInv, ReadyExact, Visit, Heads
<1>2. \A i, j : Edge(i, j)' <=> Edge(i, j)
  BY DEF Visit, Edge
<1>3. \A i : ~ Edge(i, i)
  BY DEF Edge
<1>4. \A i \in visited : waves'[i] = waves[i]
  BY <1>1 DEF IInv, TypeOK, VisitedClosed, Visit
<1>5. waves'[k] = waves[k]
  BY <1>3 DEF Visit
<1>6. \A j \in Units : waves[j] \in Nat /\ waves'[j] \in Nat /\ waves'[j] >= waves[j]
  BY DEF IInv, TypeOK, Visit
<1>7. IndegCounts'
  <2> SUFFICES ASSUME NEW j \in Units
               PROVE  indeg'[j] = Cardinality(Sources(j, Units \ visited)')
    BY DEF IndegCounts, Visit
  <2> DEFINE Before == Sources(j, Units \ visited)
  <2>1. Sources(j, Units \ visited)' = Before \ {k}
    BY <1>2 DEF Sources, Visit
  <2>2. IsFiniteSet(Before) /\ Cardinality(Before) \in Nat
    BY SourcesFinite
  <2>3. indeg[j] = Cardinality(Before)
    BY DEF IInv, IndegCounts
  <2>4. CASE Edge(k, j)
    <3>1. k \in Before
      BY <2>4, <1>1 DEF Sources
    <3>2. Cardinality(Before \ {k}) = Cardinality(Before) - 1
      BY <3>1, <2>2, FS_RemoveElement
    <3>3. indeg'[j] = indeg[j] - 1
      BY <2>4 DEF Visit
    <3>4. QED
      BY <2>1, <2>3, <3>2, <3>3
  <2>5. CASE ~ Edge(k, j)
    <3>1. Before \ {k} = Before
      BY <2>5 DEF Sources
    <3>2. indeg'[j] = indeg[j]
      BY <2>5 DEF Visit
    <3>3. QED
      BY <2>1, <2>3, <3>1, <3>2
  <2>6. QED
    BY <2>4, <2>5
<1>8. TypeOK'
  <2>1. indeg' \in [Units -> Nat]
    <3>1. \A j \in Units : indeg'[j] = Cardinality(Sources(j, Units \ visited'))
      BY <1>2, <1>7 DEF IndegCounts, Sources
    <3>2. \A j \in Units : indeg'[j] \in Nat
      BY <3>1, SourcesFinite
    <3>3. QED
      BY <3>2 DEF Visit
  <2>2. waves' \in [Units -> Nat]
    BY DEF IInv, TypeOK, Visit
  <2>3. QED
    BY <2>1, <2>2 DEF IInv, TypeOK, Visit
<1>9. VisitedClosed'
  <2>1. \A i \in Units : Edge(i, k) => i \in visited
    <3>1. Cardinality(Sources(k, Units \ visited)) = 0
      BY <1>1 DEF IInv, IndegCounts
    <3>2. Sources(k, Units \ visited) = {}
      BY <3>1, SourcesFinite
    <3>3. QED
      BY <3>2 DEF Sources
  <2>2. QED
    BY <2>1, <1>2 DEF IInv, VisitedClosed, Visit
<1>10. ReadyExact'
  <2>1. \A j \in Units : Edge(k, j) => j \notin visited /\ j # k
    BY <1>1, <1>3 DEF IInv, VisitedClosed
  <2>2. \A j \in Units : indeg[j] \in Int
    BY DEF IInv, TypeOK
  <2>3. \A j \in Units : indeg'[j] = IF Edge(k, j) THEN indeg[j] - 1 ELSE indeg[j]
    BY DEF Visit
  <2>4. \A j \in Units : Edge(k, j) => indeg[j] # 0
    <3> SUFFICES ASSUME NEW j \in Units, Edge(k, j), indeg[j] = 0 PROVE FALSE
      OBVIOUS
    <3>1. Sources(j, Units \ visited) = {}
      BY SourcesFinite DEF IInv, IndegCounts
    <3>2. QED
      BY <3>1, <1>1 DEF Sources
  <2>5. \A j \in Units : j \in ready' <=> j \in Units \ visited' /\ indeg'[j] = 0
    <3> TAKE j \in Units
    <3>1. j \in ready' <=> (j \in ready /\ j # k) \/ (Edge(k, j) /\ indeg[j] = 1)
      BY DEF Visit
    <3>2. j \in visited' <=> j \in visited \/ j = k
      BY DEF Visit
    <3>3. j \in ready <=> j \notin visited /\ indeg[j] = 0
      BY DEF IInv, ReadyExact
    <3>4. QED
      BY <3>1, <3>2, <3>3, <2>1, <2>2, <2>3, <2>4
  <2>6. ready' \subseteq Units
    BY <1>8 DEF TypeOK
  <2>7. QED
    BY <2>5, <2>6 DEF ReadyExact
<1>11. Relaxed'
  <2> SUFFICES ASSUME NEW i \in visited', NEW j \in Units, Edge(i, j)
               PROVE  waves'[i] < waves'[j]
    BY <1>2 DEF Relaxed
  <2>1. CASE i \in visited
    BY <2>1, <1>4, <1>6 DEF IInv, Relaxed, TypeOK
  <2>2. CASE i = k
    <3>1. waves'[j] >= waves[k] + 1
      BY <2>2, <1>6 DEF Visit
    <3>2. QED
      BY <2>2, <3>1, <1>5, <1>6
  <2>3. QED
    BY <2>1, <2>2 DEF Visit
<1>12. Justified'
  <2> SUFFICES ASSUME NEW j \in Units, waves'[j] > 0
               PROVE  \E i \in visited' : Edge(i, j) /\ waves'[i] = waves'[j] - 1
    BY <1>2 DEF Justified
  <2>1. CASE waves'[j] = waves[j]
    <3>1. PICK i \in visited : Edge(i, j) /\ waves[i] = waves[j] - 1
      BY <2>1 DEF IInv, Justified
    <3>2. QED
      BY <3>1, <2>1, <1>4 DEF Visit
  <2>2. CASE waves'[j] # waves[j]
    <3>1. Edge(k, j) /\ waves'[j] = waves[k] + 1
      BY <2>2 DEF Visit
    <3>2. k \in visited' /\ waves'[k] = waves'[j] - 1
      BY <3>1, <1>5, <1>6 DEF Visit
    <3>3. QED
      BY <3>1, <3>2
  <2>3. QED
    BY <2>1, <2>2
<1>13. ResultMeans'
  BY DEF ResultMeans, Visit
<1> QED
  BY <1>7, <1>8, <1>9, <1>10, <1>11, <1>12, <1>13 DEF IInv

(* Ending the loop keeps the invariant.                                    *)
LEMMA FinishIInv == ASSUME IInv, Finish PROVE IInv'
<1>1. \A i, j : Edge(i, j)' <=> Edge(i, j)
  BY DEF Finish, Edge
<1>2. TypeOK'
  BY DEF IInv, TypeOK, Finish
<1>3. IndegCounts'
  <2>1. \A j : Sources(j, Units \ visited)' = Sources(j, Units \ visited)
    BY <1>1 DEF Finish, Sources
  <2>2. QED
    BY <2>1 DEF IInv, IndegCounts, Finish
<1>4. ReadyExact'
  BY DEF IInv, ReadyExact, Finish
<1>5. VisitedClosed' /\ Relaxed' /\ Justified'
  BY <1>1 DEF IInv, VisitedClosed, Relaxed, Justified, Finish
<1>6. ResultMeans'
  BY DEF ResultMeans, Finish
<1> QED
  BY <1>2, <1>3, <1>4, <1>5, <1>6 DEF IInv

(* Stuttering keeps the invariant.                                         *)
LEMMA StutterIInv == ASSUME IInv, UNCHANGED <<dependsOn, waveVars>> PROVE IInv'
<1>1. \A i, j : Edge(i, j)' <=> Edge(i, j)
  BY DEF waveVars, Edge
<1>2. IndegCounts'
  <2>1. \A j : Sources(j, Units \ visited)' = Sources(j, Units \ visited)
    BY <1>1 DEF waveVars, Sources
  <2>2. QED
    BY <2>1 DEF IInv, IndegCounts, waveVars
<1>3. VisitedClosed' /\ Relaxed' /\ Justified'
  BY <1>1 DEF IInv, VisitedClosed, Relaxed, Justified, waveVars
<1> QED
  BY <1>2, <1>3 DEF IInv, TypeOK, ReadyExact, ResultMeans, waveVars

-------------------------------------------------------------------------------
(* The first sort: topoSort, with parallel edges.                          *)

Emitted == {order[k] : k \in 1..Len(order)}

\* The edges into j from units that are not out yet.
Left(j) == {edge \in Sort!EdgesInto(j) : Sort!Source(edge) \notin Emitted}

SortTypes ==
  /\ dependsOn \in [Units -> {list \in SUBSET Names : IsFiniteSet(list)}]
  /\ edgesLeft \in [Refs -> Nat]
  /\ queue \subseteq Refs
  /\ order \in Seq(Refs)
  /\ sorted \in {"running", "ok", "cycle"}

EdgesCounted == \A j \in Refs : edgesLeft[j] = Cardinality(Left(j))

QueueExact == queue = {j \in Refs \ Emitted : edgesLeft[j] = 0}

\* Each unit is out once.
OutOnce == Cardinality(Emitted) = Len(order)

\* And after the units it depends on.
OutInOrder ==
  \A k \in 1..Len(order) : \A i \in Refs :
    Edge(i, order[k]) => \E m \in 1..(k - 1) : order[m] = i

SortMeans ==
  /\ sorted = "ok" => Emitted = Refs
  /\ sorted = "cycle" => queue = {} /\ Emitted # Refs

SortInv ==
  /\ SortTypes /\ EdgesCounted /\ QueueExact /\ OutOnce /\ OutInOrder /\ SortMeans

\* The list of packages is the sorted units and the appended ones, and the waves
\* come after it.
Appended == [k \in 1..(N - NRefs) |-> NRefs + k]
InTurn ==
  /\ packages # <<>> => sorted = "ok" /\ packages = order \o Appended
  /\ result # "running" => packages # <<>>

OrderInv == IInv /\ SortInv /\ InTurn

(* A set of numbers has a least.                                           *)
LEMMA Least ==
  ASSUME NEW S \in SUBSET Nat, S # {}
  PROVE  \E x \in S : \A y \in S : x <= y
<1> DEFINE Below(x) == {k \in Nat : k < x}
           Starts == {Below(x) : x \in S}
<1>1. \A x \in S : Below(x) \in FiniteSubsetsOf(Nat)
  <2> TAKE x \in S
  <2>1. x \in Nat /\ \A k \in Below(x) : k <= x
    OBVIOUS
  <2>2. IsFiniteSet(Below(x))
    BY <2>1, FS_BoundedSetOfNaturals
  <2> QED
    BY <2>2 DEF FiniteSubsetsOf
<1>2. Starts \subseteq FiniteSubsetsOf(Nat) /\ Starts # {}
  BY <1>1
<1>3. PICK B \in Starts : \A C \in Starts : ~ (<<C, B>> \in StrictSubsetOrdering(Nat))
  <2> HIDE DEF Starts
  <2> QED
    BY <1>2, FS_StrictSubsetOrderingWellFounded, WFMin
<1>4. PICK x \in S : B = Below(x)
  OBVIOUS
<1>5. ASSUME NEW y \in S, y < x PROVE FALSE
  <2>1. x \in Nat /\ y \in Nat
    OBVIOUS
  <2>2. Below(y) \subseteq Below(x) /\ y \in Below(x) /\ y \notin Below(y)
    BY <1>5, <2>1
  <2>3. <<Below(y), B>> \in StrictSubsetOrdering(Nat)
    BY <1>4, <2>2 DEF StrictSubsetOrdering
  <2> QED
    BY <1>3, <2>3
<1> QED
  BY <1>5

(* The sort counts as everybody does.                                      *)
LEMMA SameCount == \A S : Sort!Cardinality(S) = Cardinality(S)
  BY DEF Sort!Cardinality, Cardinality, Sort!IsFiniteSet, IsFiniteSet

(* The edges into a unit are finitely many.                                *)
LEMMA EdgesFinite ==
  ASSUME dependsOn \in [Units -> {list \in SUBSET Names : IsFiniteSet(list)}], NEW j \in Refs
  PROVE  IsFiniteSet(Sort!EdgesInto(j))
<1> DEFINE Places(name) == {name} \X {k \in DOMAIN Entries[name] : Entries[name][k] # j}
           Parts == {Places(name) : name \in dependsOn[j]}
<1>0. j \in Units
  BY NAssumption, NRefsAssumption DEF Refs, Units
<1>1. IsFiniteSet(dependsOn[j]) /\ dependsOn[j] \subseteq Names
  BY <1>0
<1>2. ASSUME NEW name \in dependsOn[j] PROVE IsFiniteSet(Places(name))
  <2>1. Entries[name] \in Seq(Refs)
    BY <1>1, EntriesAssumption DEF Refs
  <2>2. DOMAIN Entries[name] = 1..Len(Entries[name]) /\ Len(Entries[name]) \in Nat
    BY <2>1
  <2>3. IsFiniteSet(1..Len(Entries[name]))
    <3>1. 1 \in Int /\ Len(Entries[name]) \in Int
      BY <2>2
    <3> QED
      BY <3>1, FS_Interval
  <2>4. IsFiniteSet({k \in DOMAIN Entries[name] : Entries[name][k] # j})
    BY <2>2, <2>3, FS_Subset
  <2> QED
    BY <2>4, FS_Product, FS_Singleton
<1>3. IsFiniteSet(Parts)
  <2> DEFINE f == [name \in dependsOn[j] |-> Places(name)]
  <2>1. f \in Surjection(dependsOn[j], Parts)
    BY DEF Surjection
  <2> QED
    BY <1>1, <2>1, FS_Surjection
<1>4. \A T \in Parts : IsFiniteSet(T)
  BY <1>2
<1>5. Sort!EdgesInto(j) = UNION Parts
  BY DEF Sort!EdgesInto, Refs
<1> HIDE DEF Parts
<1> QED
  BY <1>3, <1>4, <1>5, FS_UNION

(* An edge of topoSort is one of computeApplyWaves, whatever it counts.    *)
LEMMA SameEdges ==
  ASSUME dependsOn \in [Units -> {list \in SUBSET Names : IsFiniteSet(list)}], NEW j \in Refs
  PROVE  /\ \A edge \in Sort!EdgesInto(j) : Sort!Source(edge) \in Refs /\ Edge(Sort!Source(edge), j)
         /\ \A i \in Refs : Edge(i, j) => \E edge \in Sort!EdgesInto(j) : Sort!Source(edge) = i
         /\ \A i \in Refs : Sort!Edges(i, j) \in Nat /\ (Sort!Edges(i, j) > 0 <=> Edge(i, j))
<1>0. j \in Units
  BY NAssumption, NRefsAssumption DEF Refs, Units
<1>1. dependsOn[j] \subseteq Names /\ [i \in Refs |-> dependsOn[i]][j] = dependsOn[j]
  BY <1>0
<1>2. ASSUME NEW edge \in Sort!EdgesInto(j)
      PROVE  Sort!Source(edge) \in Refs /\ Edge(Sort!Source(edge), j)
  <2>1. PICK name \in dependsOn[j] :
           edge \in {name} \X {k \in DOMAIN Entries[name] : Entries[name][k] # j}
    BY <1>1, <1>2 DEF Sort!EdgesInto
  <2>2. edge[1] = name /\ edge[2] \in DOMAIN Entries[name] /\ Entries[name][edge[2]] # j
    BY <2>1
  <2>3. Sort!Source(edge) = Entries[name][edge[2]]
    BY <2>2 DEF Sort!Source
  <2>4. name \in Names /\ Entries[name] \in Seq(Refs)
    BY <1>1, EntriesAssumption DEF Refs
  <2>5. Sort!Source(edge) \in ByName[name] \cap Refs
    BY <2>2, <2>3, <2>4, EntriesAssumption DEF Refs
  <2> QED
    BY <2>2, <2>3, <2>5 DEF Edge
<1>3. ASSUME NEW i \in Refs, Edge(i, j)
      PROVE  \E edge \in Sort!EdgesInto(j) : Sort!Source(edge) = i
  <2>1. PICK name \in dependsOn[j] : i \in ByName[name]
    BY <1>3 DEF Edge
  <2>2. PICK k \in DOMAIN Entries[name] : Entries[name][k] = i
    BY <1>1, <1>3, <2>1, EntriesAssumption DEF Refs
  <2>3. <<name, k>> \in {name} \X {m \in DOMAIN Entries[name] : Entries[name][m] # j}
    BY <1>3, <2>2 DEF Edge
  <2>4. <<name, k>> \in Sort!EdgesInto(j)
    BY <1>1, <2>1, <2>3 DEF Sort!EdgesInto
  <2>5. Sort!Source(<<name, k>>) = i
    BY <2>2 DEF Sort!Source
  <2> QED
    BY <2>4, <2>5
<1>4. ASSUME NEW i \in Refs
      PROVE  Sort!Edges(i, j) \in Nat /\ (Sort!Edges(i, j) > 0 <=> Edge(i, j))
  <2> DEFINE From == {edge \in Sort!EdgesInto(j) : Sort!Source(edge) = i}
  <2>1. IsFiniteSet(From)
    BY EdgesFinite, FS_Subset
  <2>2. Cardinality(From) \in Nat /\ (Cardinality(From) = 0 <=> From = {})
    BY <2>1, FS_CardinalityType, FS_EmptySet
  <2>3. Sort!Edges(i, j) = Cardinality(From)
    BY SameCount DEF Sort!Edges
  <2>4. From # {} <=> Edge(i, j)
    BY <1>2, <1>3
  <2> HIDE DEF From
  <2> QED
    BY <2>2, <2>3, <2>4
<1> QED
  BY <1>2, <1>3, <1>4

(* What is left of the edges into a unit, as a number.                     *)
LEMMA LeftCounts ==
  ASSUME SortInv, NEW j \in Refs
  PROVE  /\ IsFiniteSet(Left(j))
         /\ edgesLeft[j] = Cardinality(Left(j)) /\ edgesLeft[j] \in Nat
         /\ edgesLeft[j] = 0 <=> Left(j) = {}
         /\ edgesLeft[j] = 0 <=> \A i \in Refs : Edge(i, j) => i \in Emitted
<1>1. IsFiniteSet(Left(j))
  BY EdgesFinite, FS_Subset DEF SortInv, SortTypes, Left
<1>2. edgesLeft[j] = Cardinality(Left(j)) /\ edgesLeft[j] \in Nat
  BY DEF SortInv, EdgesCounted, SortTypes
<1>3. edgesLeft[j] = 0 <=> Left(j) = {}
  BY <1>1, <1>2, FS_EmptySet
<1>4. Left(j) = {} <=> \A i \in Refs : Edge(i, j) => i \in Emitted
  BY SameEdges DEF SortInv, SortTypes, Left
<1> QED
  BY <1>1, <1>2, <1>3, <1>4

(* What is out is finite, and of the units.                                *)
LEMMA EmittedUnits ==
  ASSUME SortTypes
  PROVE  /\ Emitted \subseteq Refs /\ IsFiniteSet(Emitted) /\ Len(order) \in Nat
         /\ IsFiniteSet(Refs) /\ Cardinality(Refs) = NRefs
<1>1. Emitted \subseteq Refs /\ Len(order) \in Nat
  BY DEF SortTypes, Emitted
<1>2. IsFiniteSet(Refs) /\ Cardinality(Refs) = NRefs
  <2>1. 1 \in Int /\ NRefs \in Int /\ ~ (1 > NRefs) /\ NRefs - 1 + 1 = NRefs
    BY NAssumption, NRefsAssumption
  <2> QED
    BY <2>1, FS_Interval DEF Refs
<1> QED
  BY <1>1, <1>2, FS_Subset

(* Nothing is out in the beginning, and every edge is counted.             *)
LEMMA SortInitInv ==
  ASSUME dependsOn \in [Units -> {list \in SUBSET Names : IsFiniteSet(list)}], Sort!Init
  PROVE  SortInv
<1>1. /\ order = <<>> /\ sorted = "running"
      /\ edgesLeft = [j \in Refs |-> Cardinality(Sort!EdgesInto(j))]
      /\ queue = {j \in Refs : edgesLeft[j] = 0}
  BY SameCount DEF Sort!Init, Sort!Units, Refs
<1>2. Emitted = {}
  BY <1>1 DEF Emitted
<1>3. \A j \in Refs : Left(j) = Sort!EdgesInto(j)
  BY <1>2 DEF Left
<1>4. SortTypes
  <2>1. \A j \in Refs : Cardinality(Sort!EdgesInto(j)) \in Nat
    BY <1>1, EdgesFinite, FS_CardinalityType
  <2> QED
    BY <1>1, <2>1 DEF SortTypes
<1> QED
  BY <1>1, <1>2, <1>3, <1>4, FS_EmptySet
  DEF SortInv, EdgesCounted, QueueExact, OutOnce, OutInOrder, SortMeans

(* A turn of the first sort keeps its invariant: the count of a dependent  *)
(* goes down by its parallel edges, all of which were counted.             *)
LEMMA SortVisitInv ==
  ASSUME SortInv, dependsOn' = dependsOn, NEW i, Sort!Visit(i)
  PROVE  SortInv'
<1>1. /\ i \in queue /\ sorted' = "running" /\ dependsOn' = dependsOn
      /\ order' = Append(order, i)
      /\ edgesLeft' = [j \in Refs |-> edgesLeft[j] - Sort!Edges(i, j)]
      /\ queue' = (queue \ {i}) \cup {j \in Refs : edgesLeft[j] > 0 /\ edgesLeft[j] <= Sort!Edges(i, j)}
  BY DEF Sort!Visit, Sort!Units, Refs
<1>2. /\ i \in Refs /\ i \notin Emitted /\ edgesLeft[i] = 0
      /\ order \in Seq(Refs) /\ Len(order) \in Nat
      /\ dependsOn \in [Units -> {list \in SUBSET Names : IsFiniteSet(list)}]
  BY <1>1 DEF SortInv, SortTypes, QueueExact
<1>3. /\ order' \in Seq(Refs) /\ Len(order') = Len(order) + 1 /\ order'[Len(order) + 1] = i
      /\ \A k \in 1..Len(order) : order'[k] = order[k]
  BY <1>1, <1>2
<1>4. Emitted' = Emitted \cup {i}
  <2>1. \A k \in 1..Len(order') : k \in 1..Len(order) \/ k = Len(order) + 1
    BY <1>2, <1>3
  <2>2. \A k \in 1..Len(order) : k \in 1..Len(order')
    BY <1>2, <1>3
  <2>3. Len(order) + 1 \in 1..Len(order')
    BY <1>2, <1>3
  <2> QED
    BY <1>3, <2>1, <2>2, <2>3 DEF Emitted
<1>5. /\ \A j : Sort!EdgesInto(j)' = Sort!EdgesInto(j)
      /\ \A k, j : Edge(k, j)' <=> Edge(k, j)
  BY <1>1 DEF Sort!EdgesInto, Edge
<1>6. ASSUME NEW j \in Refs
      PROVE  /\ edgesLeft'[j] = edgesLeft[j] - Sort!Edges(i, j)
             /\ edgesLeft'[j] = Cardinality(Left(j)') /\ edgesLeft'[j] \in Nat
             /\ Sort!Edges(i, j) \in Nat
  <2> DEFINE From == {edge \in Sort!EdgesInto(j) : Sort!Source(edge) = i}
  <2>1. edgesLeft'[j] = edgesLeft[j] - Sort!Edges(i, j)
    BY <1>1
  <2>2. IsFiniteSet(Left(j)) /\ edgesLeft[j] = Cardinality(Left(j)) /\ edgesLeft[j] \in Nat
    BY LeftCounts
  <2>3. Left(j)' = Left(j) \ From /\ Left(j) \cap From = From
    BY <1>2, <1>4, <1>5 DEF Left, Sort!Source
  <2>4. Sort!Edges(i, j) = Cardinality(From)
    BY SameCount DEF Sort!Edges
  <2>5. IsFiniteSet(Left(j)') /\ Cardinality(Left(j)') = Cardinality(Left(j)) - Cardinality(From)
    <3>1. /\ IsFiniteSet(Left(j) \ From)
          /\ Cardinality(Left(j) \ From) = Cardinality(Left(j)) - Cardinality(Left(j) \cap From)
      BY <2>2, FS_Difference
    <3> HIDE DEF From
    <3> QED
      BY <2>3, <3>1
  <2>6. Cardinality(Left(j)') \in Nat
    BY <2>5, FS_CardinalityType
  <2>7. Sort!Edges(i, j) \in Nat
    BY <1>2, SameEdges
  <2> QED
    BY <2>1, <2>2, <2>4, <2>5, <2>6, <2>7
<1>7. SortTypes'
  BY <1>1, <1>2, <1>3, <1>6 DEF SortInv, SortTypes
<1>8. EdgesCounted'
  BY <1>6 DEF EdgesCounted
<1>9. QueueExact'
  <2>1. \A j \in Refs : (j \in queue' <=> j \in Refs \ Emitted' /\ edgesLeft'[j] = 0)
    <3> TAKE j \in Refs
    <3>1. /\ edgesLeft'[j] = edgesLeft[j] - Sort!Edges(i, j) /\ edgesLeft[j] \in Nat
          /\ Sort!Edges(i, j) \in Nat /\ edgesLeft'[j] \in Nat
      BY <1>6, LeftCounts
    <3>2. j \in Emitted \/ j = i => edgesLeft[j] = 0
      <4>1. CASE j \in Emitted
        <5>1. PICK k \in 1..Len(order) : order[k] = j
          BY <4>1 DEF Emitted
        <5>2. \A m \in 1..(k - 1) : m \in 1..Len(order)
          BY <1>2
        <5>3. \A u \in Refs : Edge(u, j) => u \in Emitted
          BY <5>1, <5>2 DEF SortInv, OutInOrder, Emitted
        <5> QED
          BY <5>3, LeftCounts
      <4> QED
        BY <1>2, <4>1
    <3>3. j \in queue <=> j \notin Emitted /\ edgesLeft[j] = 0
      BY DEF SortInv, QueueExact
    <3>4. j \in queue' <=> (j \in queue /\ j # i) \/ (edgesLeft[j] > 0 /\ edgesLeft[j] <= Sort!Edges(i, j))
      BY <1>1
    <3>5. j \in queue => Sort!Edges(i, j) = 0
      BY <3>1, <3>3
    <3> QED
      BY <1>4, <3>1, <3>2, <3>3, <3>4, <3>5
  <2>2. queue' \subseteq Refs
    BY <1>7 DEF SortTypes
  <2> QED
    BY <2>1, <2>2 DEF QueueExact
<1>10. OutOnce'
  <2>1. IsFiniteSet(Emitted) /\ Cardinality(Emitted) = Len(order)
    BY EmittedUnits DEF SortInv, OutOnce
  <2>2. Cardinality(Emitted \cup {i}) = Cardinality(Emitted) + 1
    BY <1>2, <2>1, FS_AddElement
  <2> QED
    BY <1>3, <1>4, <2>1, <2>2 DEF OutOnce
<1>11. OutInOrder'
  <2> SUFFICES ASSUME NEW k \in 1..Len(order'), NEW u \in Refs, Edge(u, order'[k])
               PROVE  \E m \in 1..(k - 1) : order'[m] = u
    BY <1>5 DEF OutInOrder
  <2>1. k \in 1..Len(order) \/ k = Len(order) + 1
    BY <1>2, <1>3
  <2>2. CASE k \in 1..Len(order)
    <3>1. PICK m \in 1..(k - 1) : order[m] = u
      BY <1>3, <2>2 DEF SortInv, OutInOrder
    <3>2. m \in 1..Len(order)
      BY <1>2, <2>2
    <3> QED
      BY <1>3, <3>1, <3>2
  <2>3. CASE k = Len(order) + 1
    <3>1. u \in Emitted
      BY <1>2, <1>3, <2>3, LeftCounts
    <3>2. PICK m \in 1..Len(order) : order[m] = u
      BY <3>1 DEF Emitted
    <3> QED
      BY <1>2, <1>3, <2>3, <3>2
  <2> QED
    BY <2>1, <2>2, <2>3
<1>12. SortMeans'
  BY <1>1 DEF SortMeans
<1> QED
  BY <1>7, <1>8, <1>9, <1>10, <1>11, <1>12 DEF SortInv

(* And so does its end: as many units out as in are all of them.           *)
LEMMA SortFinishInv ==
  ASSUME SortInv, dependsOn' = dependsOn, Sort!Finish
  PROVE  SortInv'
<1>1. /\ queue = {} /\ sorted' = IF Len(order) = NRefs THEN "ok" ELSE "cycle"
      /\ UNCHANGED <<dependsOn, edgesLeft, queue, order>>
  BY DEF Sort!Finish
<1>2. /\ Emitted' = Emitted
      /\ \A j : Left(j)' = Left(j)
      /\ \A k, j : Edge(k, j)' <=> Edge(k, j)
  BY <1>1 DEF Emitted, Left, Sort!EdgesInto, Sort!Source, Edge
<1>3. SortTypes'
  BY <1>1 DEF SortInv, SortTypes
<1>4. EdgesCounted' /\ QueueExact' /\ OutOnce'
  BY <1>1, <1>2 DEF SortInv, EdgesCounted, QueueExact, OutOnce
<1>5. OutInOrder'
  BY <1>1, <1>2 DEF SortInv, OutInOrder
<1>6. Emitted = Refs <=> Len(order) = NRefs
  <2>1. Cardinality(Refs) = NRefs /\ IsFiniteSet(Refs) /\ Emitted \subseteq Refs
    BY EmittedUnits DEF SortInv
  <2>2. Cardinality(Emitted) = Len(order)
    BY DEF SortInv, OutOnce
  <2> QED
    BY <2>1, <2>2, FS_Subset
<1>7. SortMeans'
  BY <1>1, <1>2, <1>6 DEF SortMeans
<1> QED
  BY <1>3, <1>4, <1>5, <1>7 DEF SortInv

(* It reads nothing that the second sort writes.                           *)
LEMMA SortStutters ==
  ASSUME SortInv, UNCHANGED <<dependsOn, edgesLeft, queue, order, sorted>>
  PROVE  SortInv'
<1>1. /\ Emitted' = Emitted
      /\ \A j : Left(j)' = Left(j)
      /\ \A k, j : Edge(k, j)' <=> Edge(k, j)
  BY DEF Emitted, Left, Sort!EdgesInto, Sort!Source, Edge
<1>2. SortTypes'
  BY DEF SortInv, SortTypes
<1>3. EdgesCounted' /\ QueueExact' /\ OutOnce' /\ SortMeans'
  BY <1>1 DEF SortInv, EdgesCounted, QueueExact, OutOnce, SortMeans
<1>4. OutInOrder'
  BY <1>1 DEF SortInv, OutInOrder
<1> QED
  BY <1>2, <1>3, <1>4 DEF SortInv

-------------------------------------------------------------------------------
(* The two sorts, and the full tree.                                       *)

(* An expand starts with nothing sorted.                                   *)
LEMMA OrderInit == FullInit => OrderInv
<1> SUFFICES ASSUME FullInit PROVE OrderInv
  OBVIOUS
<1>1. Init /\ Sort!Init /\ packages = <<>>
  BY DEF FullInit, ExpandInit
<1>2. dependsOn \in [Units -> {list \in SUBSET Names : IsFiniteSet(list)}]
  <2>1. PICK lists \in [Units -> DepLists] :
           dependsOn = [i \in Units |-> lists[i] \cup extraDependsOn[i]]
    BY DEF FullInit, ExpandInit
  <2>2. ASSUME NEW i \in Units
        PROVE  lists[i] \cup extraDependsOn[i] \in {list \in SUBSET Names : IsFiniteSet(list)}
    <3>1. /\ lists[i] \in SUBSET Names /\ IsFiniteSet(lists[i])
          /\ extraDependsOn[i] \in SUBSET Names /\ IsFiniteSet(extraDependsOn[i])
      BY <2>1, DepListsAssumption, ExtraAssumption DEF Units
    <3> QED
      BY <3>1, FS_Union
  <2> QED
    BY <2>1, <2>2
<1>3. InTurn
  BY <1>1 DEF Init, InTurn
<1> QED
  BY <1>1, <1>2, <1>3, InitIInv, SortInitInv DEF OrderInv

(* Each sort keeps its own invariant, and leaves what the other reads as   *)
(* it is; the list is made between them, and the full tree reads all three *)
(* and writes none.                                                        *)
LEMMA OrderKeeps ==
  ASSUME OrderInv, [FullNext]_<<expandVars, treeVars>>
  PROVE  OrderInv'
<1>1. CASE Sort!Next /\ UNCHANGED <<dependsOn, packages, waveVars>>
  <2>1. SortInv' /\ sorted = "running"
    BY <1>1, SortVisitInv, SortFinishInv DEF OrderInv, Sort!Next, Sort!Visit, Sort!Finish
  <2>2. IInv'
    BY <1>1, StutterIInv DEF OrderInv
  <2>3. InTurn'
    BY <1>1, <2>1 DEF OrderInv, InTurn, waveVars
  <2> QED
    BY <2>1, <2>2, <2>3 DEF OrderInv
<1>2. CASE Assemble
  <2>1. IInv' /\ SortInv'
    BY <1>2, StutterIInv, SortStutters DEF OrderInv, Assemble, sortVars
  <2>2. InTurn'
    BY <1>2 DEF OrderInv, InTurn, Assemble, Appended, sortVars, waveVars
  <2> QED
    BY <2>1, <2>2 DEF OrderInv
<1>3. CASE packages # <<>> /\ Next /\ UNCHANGED sortVars
  <2>1. IInv' /\ dependsOn' = dependsOn /\ packages' = packages
    BY <1>3, VisitIInv, FinishIInv DEF OrderInv, Next, Visit, Finish
  <2>2. SortInv'
    BY <1>3, <2>1, SortStutters DEF OrderInv, sortVars
  <2>3. InTurn'
    BY <1>3, <2>1 DEF OrderInv, InTurn, sortVars
  <2> QED
    BY <2>1, <2>2, <2>3 DEF OrderInv
<1>4. CASE UNCHANGED expandVars
  <2>1. IInv' /\ SortInv'
    BY <1>4, StutterIInv, SortStutters DEF OrderInv, expandVars, sortVars
  <2>2. InTurn'
    BY <1>4 DEF OrderInv, InTurn, expandVars, waveVars, sortVars
  <2> QED
    BY <2>1, <2>2 DEF OrderInv
<1> QED
  BY <1>1, <1>2, <1>3, <1>4 DEF FullNext, ExpandNext

(* So it always holds.                                                     *)
LEMMA OrderInductive == FullSpec => []OrderInv
BY OrderInit, OrderKeeps, PTL DEF FullSpec

(* The variables keep their types, for every number of units.              *)
THEOREM TypeCorrect == FullSpec => []TypeOK
<1>1. OrderInv => TypeOK
  BY DEF OrderInv, IInv
<1> QED
  BY OrderInductive, <1>1, PTL

(* Published waves respect dependsOn: visited units have relaxed their     *)
(* dependents, and success means that every unit was visited.              *)
THEOREM WavesRespectDependencies == FullSpec => []WaveOrder
<1>1. OrderInv => WaveOrder
  BY DEF OrderInv, IInv, ResultMeans, Relaxed, WaveOrder
<1> QED
  BY OrderInductive, <1>1, PTL

(* Published waves are tight: each positive wave is one above the wave of  *)
(* some dependency.                                                        *)
THEOREM WavesAreTight == FullSpec => []WavesTight
<1>1. OrderInv => WavesTight
  BY DEF OrderInv, IInv, ResultMeans, Justified, WavesTight
<1> QED
  BY OrderInductive, <1>1, PTL

(* A refusal names a set of units each of which depends on another of the  *)
(* set: the dependencies really contain a cycle.                           *)
THEOREM RefusalIsJustified == FullSpec => []RefusedOnlyOnCycle
<1>1. ASSUME IInv, result = "cycle"
      PROVE  /\ Involved # {}
             /\ \A j \in Involved : \E i \in Involved : Edge(i, j)
             /\ Involved = Units \ visited
  <2>1. ready = {} /\ visited # Units /\ visited \subseteq Units
    BY <1>1 DEF OrderInv, IInv, ResultMeans, TypeOK
  <2>2. \A j \in Units : /\ indeg[j] \in Nat
                         /\ indeg[j] = 0 <=> Sources(j, Units \ visited) = {}
    BY <1>1, SourcesFinite DEF IInv, IndegCounts
  <2>3. \A j \in Units \ visited : indeg[j] # 0
    BY <1>1, <2>1 DEF IInv, ReadyExact
  <2>4. \A j \in visited : Sources(j, Units \ visited) = {}
    BY <1>1 DEF IInv, VisitedClosed, Sources
  <2>5. Involved = Units \ visited
    <3>1. ASSUME NEW j \in Units, j \in visited PROVE ~ (indeg[j] > 0)
      <4>1. Sources(j, Units \ visited) = {}
        BY <3>1, <2>4
      <4>2. indeg[j] = 0
        BY <4>1, <2>2
      <4>3. QED
        BY <4>2
    <3>2. ASSUME NEW j \in Units, j \notin visited PROVE indeg[j] > 0
      <4>1. indeg[j] # 0 /\ indeg[j] \in Nat
        BY <3>2, <2>2, <2>3
      <4>2. QED
        BY <4>1
    <3>3. QED
      BY <3>1, <3>2 DEF Involved
  <2>6. \A j \in Involved : \E i \in Involved : Edge(i, j)
    BY <2>2, <2>3, <2>5 DEF Sources
  <2>7. QED
    BY <2>1, <2>5, <2>6
<1>2. OrderInv => RefusedOnlyOnCycle
  BY <1>1 DEF OrderInv, RefusedOnlyOnCycle
<1> QED
  BY OrderInductive, <1>2, PTL

(* The order of the collected units has each of them once and after the    *)
(* collected ones it depends on, for every number of units and however     *)
(* many edges run in parallel (resolve.go, topoSort).                      *)
THEOREM OrderRespectsDependencies == FullSpec => []DependenciesFirst
<1>1. ASSUME OrderInv PROVE DependenciesFirst
  <2>1. Sort!Emitted = Emitted
    BY DEF Sort!Emitted, Emitted
  <2>2. Sort!Cardinality(Emitted) = Len(order)
    BY <1>1, SameCount DEF OrderInv, SortInv, OutOnce
  <2>3. ASSUME NEW k \in 1..Len(order), NEW i \in Refs, Sort!Edges(i, order[k]) > 0
        PROVE  \E m \in 1..(k - 1) : order[m] = i
    <3>1. order[k] \in Refs
      BY <1>1 DEF OrderInv, SortInv, SortTypes
    <3>2. Edge(i, order[k])
      BY <1>1, <2>3, <3>1, SameEdges DEF OrderInv, SortInv, SortTypes
    <3> QED
      BY <1>1, <3>2 DEF OrderInv, SortInv, OutInOrder
  <2> QED
    BY <2>1, <2>2, <2>3 DEF DependenciesFirst, Sort!DependenciesFirst, Sort!Units, Refs
<1> QED
  BY <1>1, OrderInductive, PTL

(* When topoSort refuses, every unit it could not place waits for another  *)
(* of them, so its count, which is of edges and not of units, never kept   *)
(* back a unit that could have been placed (resolve.go, topoSort).         *)
THEOREM SortRefusalIsJustified == FullSpec => []SortRefusedOnlyOnCycle
<1>1. ASSUME OrderInv, sorted = "cycle"
      PROVE  LET stuck == {i \in Refs : edgesLeft[i] > 0}
             IN  /\ stuck # {} /\ stuck = Refs \ {order[k] : k \in DOMAIN order}
                 /\ \A j \in stuck : \E i \in stuck : Edge(i, j)
  <2> DEFINE stuck == {i \in Refs : edgesLeft[i] > 0}
  <2>1. /\ queue = {} /\ Emitted # Refs /\ Emitted \subseteq Refs
        /\ {order[k] : k \in DOMAIN order} = Emitted
    BY <1>1, EmittedUnits DEF OrderInv, SortInv, SortMeans, SortTypes, Emitted
  <2>2. ASSUME NEW j \in Refs PROVE j \in stuck <=> j \notin Emitted
    <3>1. edgesLeft[j] \in Nat
      BY <1>1, LeftCounts DEF OrderInv
    <3>2. CASE j \in Emitted
      <4>1. PICK k \in 1..Len(order) : order[k] = j
        BY <3>2 DEF Emitted
      <4>2. \A m \in 1..(k - 1) : m \in 1..Len(order)
        BY <1>1, EmittedUnits DEF OrderInv, SortInv
      <4>3. \A i \in Refs : Edge(i, j) => i \in Emitted
        BY <1>1, <4>1, <4>2 DEF OrderInv, SortInv, OutInOrder, Emitted
      <4> QED
        BY <1>1, <3>1, <3>2, <4>3, LeftCounts DEF OrderInv
    <3>3. CASE j \notin Emitted
      <4>1. edgesLeft[j] # 0
        BY <1>1, <2>1, <3>3 DEF OrderInv, SortInv, QueueExact
      <4> QED
        BY <3>1, <3>3, <4>1
    <3> QED
      BY <3>2, <3>3
  <2>3. stuck = Refs \ Emitted
    BY <2>2
  <2>4. ASSUME NEW j \in stuck PROVE \E i \in stuck : Edge(i, j)
    <3>1. j \in Refs /\ edgesLeft[j] # 0
      OBVIOUS
    <3> HIDE DEF stuck
    <3> QED
      BY <1>1, <2>3, <3>1, LeftCounts DEF OrderInv
  <2> HIDE DEF stuck
  <2>5. stuck # {} /\ stuck = Refs \ {order[k] : k \in DOMAIN order}
    BY <2>1, <2>3
  <2> QED
    BY <2>4, <2>5 DEF stuck
<1>2. OrderInv => SortRefusedOnlyOnCycle
  BY <1>1 DEF SortRefusedOnlyOnCycle
<1> QED
  BY <1>2, OrderInductive, PTL

(* computeApplyWaves refuses nothing that topoSort could order but for an  *)
(* appended unit: of collected units only, the one that comes first in the *)
(* order would wait for an earlier one (waves.go, computeApplyWaves).      *)
THEOREM LateCyclesAreAppended == FullSpec => []LateCycles
<1>1. ASSUME OrderInv, RefusedOnlyOnCycle, result = "cycle", Involved \subseteq Refs PROVE FALSE
  <2> DEFINE Stuck == {k \in 1..Len(order) : order[k] \in Involved}
  <2>1. /\ Emitted = Refs /\ Involved # {}
        /\ \A j \in Involved : \E i \in Involved : Edge(i, j)
    BY <1>1 DEF OrderInv, InTurn, SortInv, SortMeans, RefusedOnlyOnCycle
  <2>2. Stuck # {} /\ Stuck \subseteq Nat
    BY <1>1, <2>1 DEF Emitted
  <2>3. PICK k \in Stuck : \A m \in Stuck : k <= m
    <3> HIDE DEF Stuck
    <3> QED
      BY <2>2, Least
  <2>4. k \in 1..Len(order) /\ order[k] \in Involved
    OBVIOUS
  <2>5. PICK i \in Involved : Edge(i, order[k])
    BY <2>1, <2>4
  <2>6. PICK m \in 1..(k - 1) : order[m] = i
    BY <1>1, <2>4, <2>5 DEF OrderInv, SortInv, OutInOrder
  <2>7. m \in Stuck /\ ~ (k <= m)
    BY <1>1, <2>4, <2>5, <2>6, EmittedUnits DEF OrderInv, SortInv
  <2> QED
    BY <2>3, <2>7
<1>2. OrderInv /\ RefusedOnlyOnCycle => LateCycles
  BY <1>1 DEF LateCycles
<1> QED
  BY <1>2, OrderInductive, RefusalIsJustified, PTL

(* Where the units of the list are: the collected ones first, in order.    *)
LEMMA ListedInOrder ==
  ASSUME OrderInv, packages # <<>>
  PROVE  /\ DOMAIN packages \subseteq Nat /\ DOMAIN order \subseteq DOMAIN packages
         /\ \A k \in DOMAIN order : packages[k] = order[k]
         /\ \A k \in DOMAIN packages : k \in DOMAIN order \/ \A m \in DOMAIN order : m < k
<1>1. order \in Seq(Refs) /\ packages = order \o Appended
  BY DEF OrderInv, SortInv, SortTypes, InTurn
<1>2. N - NRefs \in Nat
  BY NAssumption, NRefsAssumption
<1>3. Appended \in Seq(Int)
  <2>1. \A k \in 1..(N - NRefs) : NRefs + k \in Int
    BY NAssumption, NRefsAssumption
  <2> QED
    BY <1>2, <2>1 DEF Appended
<1>4. order \in Seq(Int)
  BY <1>1, NAssumption, NRefsAssumption DEF Refs
<1>5. /\ DOMAIN packages = 1..Len(packages) /\ Len(packages) = Len(order) + Len(Appended)
      /\ DOMAIN order = 1..Len(order) /\ Len(order) \in Nat /\ Len(Appended) \in Nat
      /\ \A k \in 1..Len(order) : packages[k] = order[k]
  BY <1>1, <1>3, <1>4
<1> QED
  BY <1>5

(* When the turn of a repository comes, in the order of the first units,   *)
(* the collected units its first unit depends on are in it, in one that    *)
(* was applied, or in one that never is (apply.go, ApplyFullTree).         *)
THEOREM FirstUnitIsServed == FullSpec => []FirstUnitServed
<1>1. ASSUME OrderInv, result = "ok", ToCome # {}, NEW i \in Refs, Edge(i, NextUnit)
      PROVE  RepoOf[i] \in AppliedRepos \cup {RepoOf[NextUnit]} \cup Service
  <2>1. packages # <<>> /\ Emitted = Refs /\ order \in Seq(Refs)
    BY <1>1 DEF OrderInv, InTurn, SortInv, SortMeans, SortTypes
  <2>2. ToCome \subseteq Nat
    BY <1>1, <2>1, ListedInOrder DEF ToCome
  <2>3. PICK k \in ToCome : k = Min(ToCome) /\ \A m \in ToCome : k <= m
    BY <1>1, <2>2, Least DEF Min
  <2>4. k \in DOMAIN packages /\ k \in Nat /\ NextUnit = packages[k]
    BY <2>2, <2>3 DEF ToCome, NextUnit
  <2>5. \E m \in DOMAIN order : m < k /\ order[m] = i
    <3>1. CASE k \in DOMAIN order
      <4>1. k \in 1..Len(order) /\ Edge(i, order[k])
        BY <1>1, <2>1, <2>4, <3>1, ListedInOrder
      <4>2. PICK m \in 1..(k - 1) : order[m] = i
        BY <1>1, <4>1 DEF OrderInv, SortInv, OutInOrder
      <4> QED
        BY <2>1, <4>1, <4>2
    <3>2. CASE k \notin DOMAIN order
      <4>1. PICK m \in 1..Len(order) : order[m] = i
        BY <2>1 DEF Emitted
      <4> QED
        BY <1>1, <2>1, <2>4, <3>2, <4>1, ListedInOrder
    <3> QED
      BY <3>1, <3>2
  <2>6. PICK m \in DOMAIN order : m < k /\ order[m] = i
    BY <2>5
  <2>7. m \in DOMAIN packages /\ packages[m] = i /\ m \in Nat
    BY <1>1, <2>1, <2>6, ListedInOrder
  <2>8. m \notin ToCome
    BY <2>3, <2>4, <2>6, <2>7
  <2> QED
    BY <2>7, <2>8 DEF ToCome
<1>2. OrderInv => FirstUnitServed
  BY <1>1 DEF FirstUnitServed
<1> QED
  BY <1>2, OrderInductive, PTL

-------------------------------------------------------------------------------
(* The expansion of a package set.  Lists and finite sets first: the units  *)
(* of an expanded set can be counted.                                       *)

(* What a function takes finitely many arguments to is finite.             *)
LEMMA FiniteImage ==
  ASSUME NEW S, IsFiniteSet(S), NEW f
  PROVE  IsFiniteSet({f[x] : x \in S})
<1> DEFINE T == {f[x] : x \in S}
           g == [x \in S |-> f[x]]
<1>1. g \in Surjection(S, T)
  BY DEF Surjection
<1> QED
  BY <1>1, FS_Surjection

(* And so is a union of finitely many finite sets.                         *)
LEMMA FiniteUnion ==
  ASSUME NEW S, IsFiniteSet(S), NEW f, \A x \in S : IsFiniteSet(f[x])
  PROVE  IsFiniteSet(UNION {f[x] : x \in S})
  BY FiniteImage, FS_UNION

(* A set of positions is finite.                                           *)
LEMMA Positions ==
  ASSUME NEW n \in Nat, NEW I \in SUBSET (1..n)
  PROVE  IsFiniteSet(I) /\ Cardinality(I) \in Nat /\ \A j \in I : j \in Nat /\ 1 <= j /\ j <= n
<1>1. IsFiniteSet(1..n)
  BY FS_Interval
<1>2. IsFiniteSet(I)
  BY <1>1, FS_Subset
<1>3. \A j \in I : j \in 1..n
  OBVIOUS
<1> QED
  BY <1>2, <1>3, FS_CardinalityType

(* Of a finite set of numbers each rank is somebody's.                     *)
LEMMA Ranked ==
  ASSUME NEW n \in Nat, NEW I \in SUBSET (1..n), NEW k \in 1..Cardinality(I)
  PROVE  \E i \in I : Cardinality({j \in I : j <= i}) = k
<1> DEFINE Upto(m) == {j \in I : j <= m}
           Many == {m \in Nat : Cardinality(Upto(m)) >= k}
<1>0. \A j \in I : j \in Nat /\ 1 <= j /\ j <= n
  BY Positions
<1>1. \A m \in Nat : IsFiniteSet(Upto(m)) /\ Cardinality(Upto(m)) \in Nat
  <2> TAKE m \in Nat
  <2>1. Upto(m) \in SUBSET (1..n)
    BY <1>0
  <2> QED
    BY <2>1, Positions
<1>k. k \in Nat /\ k >= 1 /\ k <= Cardinality(I)
  BY Positions
<1>2. n \in Many
  <2>1. Upto(n) = I
    BY <1>0
  <2> QED
    BY <2>1, <1>k, Positions
<1>3. PICK m \in Many : \A y \in Many : m <= y
  <2>1. Many \subseteq Nat
    OBVIOUS
  <2> HIDE DEF Many
  <2> QED
    BY <1>2, <2>1, Least
<1>4. m \in Nat /\ Cardinality(Upto(m)) >= k
  OBVIOUS
<1>5. m # 0
  <2>1. Upto(0) = {}
    <3>1. \A j \in I : ~ (j <= 0)
      BY <1>0
    <3> QED
      BY <3>1
  <2>2. Cardinality(Upto(0)) = 0
    BY <2>1, FS_EmptySet
  <2>3. ~ (0 >= k)
    BY <1>k
  <2>4. 0 \notin Many
    BY <2>2, <2>3
  <2> HIDE DEF Upto, Many
  <2> QED
    BY <2>4, <1>3
<1>6. m - 1 \in Nat /\ m - 1 \notin Many
  <2>1. m - 1 \in Nat /\ ~ (m <= m - 1)
    BY <1>4, <1>5
  <2> HIDE DEF Many
  <2> QED
    BY <1>3, <2>1
<1>7. Cardinality(Upto(m - 1)) < k
  <2>1. ~ (Cardinality(Upto(m - 1)) >= k) /\ Cardinality(Upto(m - 1)) \in Nat
    BY <1>1, <1>6
  <2> HIDE DEF Upto
  <2> QED
    BY <2>1, <1>k
<1>8. m \in I
  <2> SUFFICES ASSUME m \notin I PROVE FALSE
    OBVIOUS
  <2>1. Upto(m) = Upto(m - 1)
    <3>1. \A j \in I : j # m
      OBVIOUS
    <3>2. \A j \in I : j <= m <=> j <= m - 1
      BY <3>1, <1>0, <1>4
    <3> QED
      BY <3>2
  <2> HIDE DEF Upto, Many
  <2> QED
    BY <2>1, <1>1, <1>4, <1>6, <1>7, <1>k
<1>9. Upto(m) \ {m} = Upto(m - 1)
  <2>1. \A j \in I : (j <= m /\ j # m) <=> j <= m - 1
    BY <1>0, <1>4
  <2> QED
    BY <2>1
<1>10. Cardinality(Upto(m - 1)) = Cardinality(Upto(m)) - 1
  <2>1. m \in Upto(m)
    BY <1>8, <1>4
  <2> HIDE DEF Upto, Many
  <2> QED
    BY <2>1, <1>1, <1>4, <1>9, FS_RemoveElement
<1>11. Cardinality(Upto(m)) = k
  <2> HIDE DEF Upto, Many
  <2> QED
    BY <1>1, <1>4, <1>6, <1>7, <1>10, <1>k
<1> QED
  BY <1>8, <1>11

(* A sublist is a list of the entries at the positions it keeps.           *)
LEMMA SublistEntries ==
  ASSUME NEW s, NEW n \in Nat, NEW I \in SUBSET (1..n)
  PROVE  /\ Cardinality(I) \in Nat
         /\ Sublist(s, I) \in Seq({s[i] : i \in I})
<1> DEFINE entries == {s[i] : i \in I}
           at == [k \in 1..Cardinality(I) |-> CHOOSE i \in I : Cardinality({j \in I : j <= i}) = k]
<1>1. Cardinality(I) \in Nat
  BY Positions
<1>2. ASSUME NEW k \in 1..Cardinality(I)
      PROVE  at[k] \in I
  <2>1. \E i \in I : Cardinality({j \in I : j <= i}) = k
    BY Ranked
  <2> QED
    BY <2>1
<1>3. Sublist(s, I) = [k \in 1..Cardinality(I) |-> s[at[k]]]
  BY DEF Sublist
<1>4. \A k \in 1..Cardinality(I) : s[at[k]] \in entries
  <2> HIDE DEF at
  <2> QED
    BY <1>2
<1> HIDE DEF at, entries
<1>5. [k \in 1..Cardinality(I) |-> s[at[k]]] \in Seq(entries)
  BY <1>1, <1>4
<1> QED
  BY <1>1, <1>3, <1>5 DEF entries

-------------------------------------------------------------------------------
(* The waves, as layers of units: a layer holds the units whose             *)
(* dependencies are in the layer below.                                     *)

(* The units below a unit: one layer of the longest-path computation.      *)
Above(U, below) == {u \in U : DependsOn(u, U) \subseteq below}

(* There is a function that goes up layer by layer, as high as one likes.  *)
LEMMA LayersExist ==
  ASSUME NEW U, NEW n \in Nat
  PROVE  \E f : f = [k \in 0..n |-> IF k = 0 THEN {} ELSE Above(U, f[k - 1])]
<1> DEFINE Fits(f, m) == f = [k \in 0..m |-> IF k = 0 THEN {} ELSE Above(U, f[k - 1])]
           Bad == {m \in Nat : \A f : ~ Fits(f, m)}
<1>1. SUFFICES Bad = {}
  <2>1. n \notin Bad
    BY <1>1
  <2> QED
    BY <2>1
<1>2. SUFFICES ASSUME Bad # {} PROVE FALSE
  OBVIOUS
<1>3. PICK m \in Bad : \A y \in Bad : m <= y
  <2>1. Bad \subseteq Nat
    OBVIOUS
  <2> HIDE DEF Bad
  <2> QED
    BY <1>2, <2>1, Least
<1>4. m \in Nat /\ \A f : ~ Fits(f, m)
  OBVIOUS
<1>5. CASE m = 0
  <2>1. Fits([k \in 0..0 |-> {}], 0)
    OBVIOUS
  <2> QED
    BY <2>1, <1>4, <1>5
<1>6. CASE m # 0
  <2>1. m - 1 \in Nat /\ ~ (m <= m - 1)
    BY <1>4, <1>6
  <2>2. PICK f : Fits(f, m - 1)
    <3>1. m - 1 \notin Bad
      <4> HIDE DEF Bad
      <4> QED
        BY <1>3, <2>1
    <3> QED
      BY <3>1, <2>1
  <2> DEFINE g == [k \in 0..m |-> IF k = m THEN Above(U, f[m - 1]) ELSE f[k]]
  <2>3. \A k \in 0..m : g[k] = IF k = 0 THEN {} ELSE Above(U, g[k - 1])
    <3> TAKE k \in 0..m
    <3>1. CASE k = 0
      BY <3>1, <2>1, <2>2, <1>6
    <3>2. CASE k = m
      <4>1. g[m - 1] = f[m - 1] /\ g[m] = Above(U, f[m - 1])
        BY <2>1, <1>4
      <4> HIDE DEF g
      <4> QED
        BY <3>2, <4>1, <1>6
    <3>3. CASE k # 0 /\ k # m
      <4>1. k \in 0..(m - 1) /\ k - 1 \in 0..(m - 1) /\ k - 1 # m
        BY <3>3, <1>4
      <4>2. f[k] = Above(U, f[k - 1])
        BY <2>2, <4>1, <3>3
      <4>3. g[k] = f[k] /\ g[k - 1] = f[k - 1]
        BY <4>1, <3>3, <1>4
      <4> HIDE DEF g
      <4> QED
        BY <4>2, <4>3, <3>3
    <3> QED
      BY <3>1, <3>2, <3>3
  <2>4. g = [k \in 0..m |-> g[k]]
    OBVIOUS
  <2>5. Fits(g, m)
    <3> HIDE DEF g
    <3> QED
      BY <2>3, <2>4
  <2> QED
    BY <2>5, <1>4
<1> QED
  BY <1>5, <1>6

(* What Layers computes.                                                   *)
LEMMA LayersUp ==
  ASSUME NEW U, Cardinality(U) \in Nat
  PROVE  /\ Layers(U)[0] = {}
         /\ \A k \in 1..Cardinality(U) : Layers(U)[k] = Above(U, Layers(U)[k - 1])
<1> DEFINE n == Cardinality(U)
           needs == [u \in U |-> DependsOn(u, U)]
           Fits(f) == f = [k \in 0..n |-> IF k = 0 THEN {} ELSE {u \in U : needs[u] \subseteq f[k - 1]}]
<1>1. \A below : {u \in U : needs[u] \subseteq below} = Above(U, below)
  BY DEF Above
<1>2. Layers(U) = CHOOSE f : Fits(f)
  BY DEF Layers
<1>3. PICK f : f = [k \in 0..n |-> IF k = 0 THEN {} ELSE Above(U, f[k - 1])]
  BY LayersExist
<1>4. Fits(f)
  <2>1. [k \in 0..n |-> IF k = 0 THEN {} ELSE Above(U, f[k - 1])]
          = [k \in 0..n |-> IF k = 0 THEN {} ELSE {u \in U : needs[u] \subseteq f[k - 1]}]
    <3> HIDE DEF needs
    <3> QED
      BY <1>1
  <2> QED
    BY <2>1, <1>3
<1>5. Fits(Layers(U))
  <2> HIDE DEF Fits
  <2> QED
    BY <1>2, <1>4
<1>6. PICK g : g = Layers(U)
  OBVIOUS
<1>7. Fits(g)
  BY <1>5, <1>6
<1>8. g[0] = {}
  <2>1. 0 \in 0..n
    OBVIOUS
  <2> HIDE DEF needs, n
  <2> QED
    BY <1>7, <2>1
<1>9. \A k \in 1..n : g[k] = {u \in U : needs[u] \subseteq g[k - 1]}
  <2>1. \A k \in 1..n : k \in 0..n /\ k # 0
    OBVIOUS
  <2> HIDE DEF needs, n
  <2> QED
    BY <1>7, <2>1
<1> QED
  <2>1. \A k \in 1..n : g[k] = Above(U, g[k - 1])
    <3> HIDE DEF needs, n
    <3> QED
      BY <1>9, <1>1
  <2> QED
    BY <2>1, <1>8, <1>6 DEF n

(* Each layer holds the one below.                                         *)
LEMMA LayersGrow ==
  ASSUME NEW U, Cardinality(U) \in Nat
  PROVE  \A k \in 1..Cardinality(U) : Layers(U)[k - 1] \subseteq Layers(U)[k]
<1> DEFINE n == Cardinality(U)
<1>1. PICK g : g = Layers(U)
  OBVIOUS
<1>2. g[0] = {} /\ \A k \in 1..n : g[k] = Above(U, g[k - 1])
  BY LayersUp, <1>1
<1> DEFINE Bad == {k \in Nat : k \in 1..n /\ ~ (g[k - 1] \subseteq g[k])}
<1>3. SUFFICES ASSUME Bad # {} PROVE FALSE
  BY <1>1
<1>4. PICK m \in Bad : \A y \in Bad : m <= y
  <2>1. Bad \subseteq Nat
    OBVIOUS
  <2> HIDE DEF Bad
  <2> QED
    BY <1>3, <2>1, Least
<1>5. m \in Nat /\ m \in 1..n /\ ~ (g[m - 1] \subseteq g[m])
  OBVIOUS
<1>6. m # 1
  BY <1>2, <1>5
<1>7. m - 1 \in 1..n /\ m - 1 \in Nat /\ ~ (m <= m - 1)
  BY <1>5, <1>6
<1>8. g[(m - 1) - 1] \subseteq g[m - 1]
  <2>1. m - 1 \notin Bad
    <3> HIDE DEF Bad
    <3> QED
      BY <1>4, <1>7
  <2> QED
    BY <2>1, <1>7
<1>9. g[m - 1] = Above(U, g[(m - 1) - 1]) /\ g[m] = Above(U, g[m - 1])
  BY <1>2, <1>5, <1>7
<1> QED
  BY <1>5, <1>8, <1>9 DEF Above

(* So does every higher layer.                                             *)
LEMMA LayersNest ==
  ASSUME NEW U, Cardinality(U) \in Nat,
         NEW i \in 0..Cardinality(U), NEW j \in 0..Cardinality(U), i <= j
  PROVE  Layers(U)[i] \subseteq Layers(U)[j]
<1> DEFINE n == Cardinality(U)
<1>1. PICK g : g = Layers(U)
  OBVIOUS
<1>2. \A k \in 1..n : g[k - 1] \subseteq g[k]
  BY LayersGrow, <1>1
<1> DEFINE Bad == {k \in Nat : k \in i..n /\ ~ (g[i] \subseteq g[k])}
<1>3. SUFFICES ASSUME Bad # {} PROVE FALSE
  BY <1>1
<1>4. PICK m \in Bad : \A y \in Bad : m <= y
  <2>1. Bad \subseteq Nat
    OBVIOUS
  <2> HIDE DEF Bad
  <2> QED
    BY <1>3, <2>1, Least
<1>5. m \in Nat /\ m \in i..n /\ ~ (g[i] \subseteq g[m])
  OBVIOUS
<1>6. m # i /\ m \in 1..n
  BY <1>5
<1>7. m - 1 \in i..n /\ m - 1 \in Nat /\ ~ (m <= m - 1)
  BY <1>5, <1>6
<1>8. g[i] \subseteq g[m - 1]
  <2>1. m - 1 \notin Bad
    <3> HIDE DEF Bad
    <3> QED
      BY <1>4, <1>7
  <2> QED
    BY <2>1, <1>7
<1> QED
  BY <1>2, <1>5, <1>6, <1>8

(* Where there is no cycle a unit has a later wave than each unit it       *)
(* depends on.                                                             *)
LEMMA WavesOrdered ==
  ASSUME NEW U, Cardinality(U) \in Nat, Acyclic(U),
         NEW c \in U, NEW q \in DependsOn(c, U)
  PROVE  Waves(U)[q] < Waves(U)[c]
<1> DEFINE n == Cardinality(U)
<1>1. PICK g : g = Layers(U)
  OBVIOUS
<1>2. g[0] = {} /\ g[n] = U /\ \A k \in 1..n : g[k] = Above(U, g[k - 1])
  BY LayersUp, <1>1 DEF Acyclic
<1>3. ASSUME NEW u \in U
      PROVE  Waves(U)[u] \in 0..(n - 1) /\ u \in g[Waves(U)[u] + 1] \ g[Waves(U)[u]]
  <2> DEFINE In == {k \in Nat : k \in 0..n /\ u \in g[k]}
  <2>1. n \in In
    BY <1>2
  <2>2. PICK m \in In : \A y \in In : m <= y
    <3>1. In \subseteq Nat
      OBVIOUS
    <3> HIDE DEF In
    <3> QED
      BY <2>1, <3>1, Least
  <2>3. m \in Nat /\ m \in 0..n /\ u \in g[m]
    OBVIOUS
  <2>4. m # 0
    BY <2>3, <1>2
  <2>5. m - 1 \in Nat /\ m - 1 \in 0..n /\ ~ (m <= m - 1) /\ (m - 1) + 1 = m
    BY <2>3, <2>4
  <2>6. u \notin g[m - 1]
    <3>1. m - 1 \notin In
      <4> HIDE DEF In
      <4> QED
        BY <2>2, <2>5
    <3> QED
      BY <3>1, <2>5
  <2>7. \E k \in 0..n : u \in g[k + 1] \ g[k]
    BY <2>3, <2>5, <2>6
  <2>8. PICK w : w = Waves(U)[u]
    OBVIOUS
  <2>9. w = CHOOSE k \in 0..n : u \in g[k + 1] \ g[k]
    BY <2>8, <1>1 DEF Waves
  <2>10. w \in 0..n /\ u \in g[w + 1] \ g[w]
    BY <2>7, <2>9
  <2>11. w # n
    BY <2>10, <1>2
  <2> QED
    BY <2>8, <2>10, <2>11
<1>4. PICK k : k = Waves(U)[c]
  OBVIOUS
<1>5. PICK j : j = Waves(U)[q]
  OBVIOUS
<1>6. q \in U
  BY DEF DependsOn
<1>7. k \in 0..(n - 1) /\ c \in g[k + 1] /\ j \in 0..(n - 1) /\ q \notin g[j]
  BY <1>3, <1>4, <1>5, <1>6
<1>8. q \in g[k]
  <2>1. k + 1 \in 1..n /\ (k + 1) - 1 = k
    BY <1>7
  <2>2. g[k + 1] = Above(U, g[k])
    BY <2>1, <1>2
  <2> QED
    BY <2>2, <1>7 DEF Above
<1>9. ~ (k <= j)
  <2> SUFFICES ASSUME k <= j PROVE FALSE
    OBVIOUS
  <2>1. k \in 0..n /\ j \in 0..n
    BY <1>7
  <2>2. g[k] \subseteq g[j]
    BY <2>1, <1>1, LayersNest
  <2> QED
    BY <2>2, <1>7, <1>8
<1> QED
  BY <1>4, <1>5, <1>7, <1>9

-------------------------------------------------------------------------------
(* What the phases of expand keep true of the units: each is a unit of the  *)
(* set, the consumer's unit of a binding has the provider's unit beside it, *)
(* the scripts are the SRC's and the KRC is told of the repositories.       *)

UnitParts == {"at", "pkg", "pkgInst", "repo", "role", "type", "inst", "tmpl", "name", "ctl", "bind", "deps"}

\* What a unit of package set p is: its instance is made of its other names, and
\* it is rendered to a repository of the set.
UnitOf(p, u) ==
  /\ DOMAIN u = UnitParts
  /\ u.pkg \in DOMAIN Catalog
  /\ u.type \in {"install", "resource"}
  /\ u.inst = IF u.type = "install" THEN u.pkgInst ELSE ResourceInstance(u.pkgInst, u.tmpl, u.name)
  /\ Valid(p) => u.repo \in OutputNames(p)

\* The other side of a consumer's unit.
Serves(q, c) ==
  /\ q.bind = <<c.bind[1], "provider">> /\ q.name = c.name
  /\ Aliases(q) \cap c.deps # {}

IsConsumer(c) == c.bind # NoBinding /\ c.bind[2] = "consumer"

Served(U) == \A c \in U : IsConsumer(c) => \E q \in U : Serves(q, c)

(* What the parts of an install and of a resource unit are.                *)
LEMMA UnitFields ==
  ASSUME NEW at, NEW sel, NEW repo
  PROVE  LET u == Unit(at, sel, repo)
         IN /\ DOMAIN u = UnitParts
            /\ u.pkg = sel.pkg /\ u.pkgInst = sel.inst /\ u.repo = repo /\ u.type = "install"
            /\ u.inst = sel.inst /\ u.bind = NoBinding
  BY DEF Unit, UnitParts

LEMMA ResourceFields ==
  ASSUME NEW at, NEW sel, NEW repo, NEW tmpl, NEW name
  PROVE  LET u == Resource(at, sel, repo, tmpl, name)
         IN /\ DOMAIN u = UnitParts
            /\ u.pkg = sel.pkg /\ u.pkgInst = sel.inst /\ u.repo = repo /\ u.type = "resource"
            /\ u.tmpl = tmpl /\ u.name = name
            /\ u.inst = ResourceInstance(sel.inst, tmpl, name) /\ u.bind = NoBinding
  BY DEF Resource, Unit, UnitParts

(* A set that extends another is still one: its lists are lists of theirs. *)
LEMMA MergedIsPackageSet ==
  ASSUME NEW b, NEW e, IsPackageSet(b), IsPackageSet(e)
  PROVE  IsPackageSet(Merged(b, e)) /\ Merged(b, e).krc = <<>>
<1> DEFINE over(r) == {q \in 1..Len(e.repos) : e.repos[q].name = r.name}
           mine == [r \in 1..Len(b.repos) |->
                      IF over(b.repos[r]) = {} THEN b.repos[r]
                      ELSE e.repos[CHOOSE q \in over(b.repos[r]) : TRUE]]
           new == {q \in 1..Len(e.repos) : e.repos[q].name \notin RepoNames(b)}
           all == {b.repos[r] : r \in DOMAIN b.repos} \cup {e.repos[r] : r \in DOMAIN e.repos}
<1>1. /\ Len(b.repos) \in Nat /\ DOMAIN b.repos = 1..Len(b.repos)
      /\ Len(e.repos) \in Nat /\ DOMAIN e.repos = 1..Len(e.repos)
  BY DEF IsPackageSet, IsList
<1>2. \A r \in all : IsRepository(r)
  BY DEF IsPackageSet
<1>3. mine \in Seq(all)
  <2>1. \A r \in 1..Len(b.repos) : mine[r] \in all
    <3> TAKE r \in 1..Len(b.repos)
    <3>1. CASE over(b.repos[r]) = {}
      <4>1. b.repos[r] \in all
        BY <1>1
      <4> HIDE DEF all
      <4> QED
        BY <3>1, <4>1
    <3>2. CASE over(b.repos[r]) # {}
      <4>1. (CHOOSE q \in over(b.repos[r]) : TRUE) \in over(b.repos[r])
        BY <3>2
      <4>2. (CHOOSE q \in over(b.repos[r]) : TRUE) \in DOMAIN e.repos
        BY <4>1, <1>1
      <4>3. mine[r] = e.repos[CHOOSE q \in over(b.repos[r]) : TRUE]
        BY <3>2
      <4> HIDE DEF mine, over
      <4> QED
        BY <4>2, <4>3
    <3> HIDE DEF mine, over, all
    <3> QED
      BY <3>1, <3>2
  <2>2. mine = [r \in 1..Len(b.repos) |-> mine[r]]
    OBVIOUS
  <2> HIDE DEF all, mine
  <2> QED
    BY <2>1, <2>2, <1>1
<1>4. Sublist(e.repos, new) \in Seq(all)
  <2>1. Sublist(e.repos, new) \in Seq({e.repos[i] : i \in new})
    BY <1>1, SublistEntries
  <2>2. {e.repos[i] : i \in new} \subseteq all
    BY <1>1
  <2> HIDE DEF all, new
  <2> QED
    BY <2>1, <2>2
<1>5. PICK s : s = mine \o Sublist(e.repos, new)
  OBVIOUS
<1>6. Merged(b, e) = [repos |-> s, krc |-> <<>>, src |-> <<>>]
  BY <1>5 DEF Merged
<1>7. s \in Seq(all)
  <2> HIDE DEF mine, new, all
  <2> QED
    BY <1>3, <1>4, <1>5
<1>8. IsList(s) /\ \A k \in DOMAIN s : IsRepository(s[k])
  <2> HIDE DEF all
  <2>1. DOMAIN s = 1..Len(s) /\ Len(s) \in Nat /\ \A k \in DOMAIN s : s[k] \in all
    BY <1>7
  <2>2. s \in Seq({s[k] : k \in DOMAIN s})
    BY <2>1, <1>7
  <2> QED
    BY <2>1, <2>2, <1>2 DEF IsList
<1> QED
  BY <1>6, <1>8 DEF IsPackageSet

(* A package set's repositories and their selections are counted.          *)
LEMMA Listed ==
  ASSUME NEW p, IsPackageSet(p)
  PROVE  /\ Len(p.repos) \in Nat /\ IsFiniteSet(1..Len(p.repos)) /\ DOMAIN p.repos = 1..Len(p.repos)
         /\ \A r \in 1..Len(p.repos) :
              /\ p.repos[r].name \in DOMAIN Subst
              /\ Len(p.repos[r].pkgs) \in Nat /\ IsFiniteSet(1..Len(p.repos[r].pkgs))
              /\ \A k \in 1..Len(p.repos[r].pkgs) : IsFiniteSet(p.repos[r].pkgs[k].res)
<1>1. Len(p.repos) \in Nat /\ DOMAIN p.repos = 1..Len(p.repos)
  BY DEF IsPackageSet, IsList
<1>2. IsFiniteSet(1..Len(p.repos))
  BY <1>1, Positions
<1>3. ASSUME NEW r \in 1..Len(p.repos)
      PROVE  /\ p.repos[r].name \in DOMAIN Subst
             /\ Len(p.repos[r].pkgs) \in Nat /\ IsFiniteSet(1..Len(p.repos[r].pkgs))
             /\ \A k \in 1..Len(p.repos[r].pkgs) : IsFiniteSet(p.repos[r].pkgs[k].res)
  <2>1. IsRepository(p.repos[r])
    BY <1>1 DEF IsPackageSet
  <2>2. Len(p.repos[r].pkgs) \in Nat /\ DOMAIN p.repos[r].pkgs = 1..Len(p.repos[r].pkgs)
    BY <2>1 DEF IsRepository, IsList
  <2>3. IsFiniteSet(1..Len(p.repos[r].pkgs))
    BY <2>2, Positions
  <2> QED
    BY <2>1, <2>2, <2>3 DEF IsRepository
<1> QED
  BY <1>1, <1>2, <1>3

(* The packages an environment repository takes over are counted too.      *)
LEMMA SelectionsListed ==
  ASSUME NEW p, IsPackageSet(p), NEW r \in 1..Len(p.repos)
  PROVE  /\ IsFiniteSet(1..Len(Selections(p, r)))
         /\ \A k \in 1..Len(Selections(p, r)) : IsFiniteSet(Selections(p, r)[k].res)
<1> DEFINE gen == Repo(p, p.repos[r].ref, "generic")
<1>1. CASE p.repos[r].kind = "env" /\ p.repos[r].pkgs = <<>> /\ gen # {}
  <2>1. PICK g : g = CHOOSE from \in gen : TRUE
    OBVIOUS
  <2>2. g \in 1..Len(p.repos)
    BY <1>1, <2>1 DEF Repo
  <2>3. Selections(p, r) = p.repos[g].pkgs
    BY <1>1, <2>1 DEF Selections
  <2> QED
    BY <2>2, <2>3, Listed
<1>2. CASE ~ (p.repos[r].kind = "env" /\ p.repos[r].pkgs = <<>> /\ gen # {})
  <2>1. Selections(p, r) = p.repos[r].pkgs
    BY <1>2 DEF Selections
  <2> QED
    BY <2>1, Listed
<1> QED
  BY <1>1, <1>2

(* collectRefs makes finitely many units, each of the set and of no binding. *)
LEMMA CollectedUnits ==
  ASSUME NEW p, IsPackageSet(p), Collectable(p)
  PROVE  /\ IsFiniteSet(Collected(p))
         /\ \A u \in Collected(p) : UnitOf(p, u) /\ u.bind = NoBinding
<1> DEFINE home(r) == Subst[p.repos[r].name]
           sel(r, k) == Selections(p, r)[k]
           made(r, k) ==
             IF p.repos[r].kind = "generic" THEN {Unit(<<r, k>>, sel(r, k), home(r))}
             ELSE {Resource(<<r, k, x>>, sel(r, k), home(r), x[1], x[2]) : x \in ResourcesOf(sel(r, k))}
           ks(r) == 1..Len(Selections(p, r))
           rs == {q \in 1..Len(p.repos) : p.repos[q].kind # "service"}
<1>1. Collected(p) = UNION {UNION {made(r, k) : k \in ks(r)} : r \in rs}
  BY DEF Collected
<1>2. ASSUME NEW r \in rs, NEW k \in ks(r)
      PROVE  /\ IsFiniteSet(made(r, k))
             /\ \A u \in made(r, k) : UnitOf(p, u) /\ u.bind = NoBinding
  <2>1. r \in 1..Len(p.repos) /\ p.repos[r].kind # "service"
    OBVIOUS
  <2>2. sel(r, k).pkg \in DOMAIN Catalog /\ IsFiniteSet(sel(r, k).res)
    BY <2>1, SelectionsListed DEF Collectable
  <2>3. home(r) \in OutputNames(p)
    BY <2>1 DEF OutputNames
  <2> HIDE DEF home, sel, ks, rs
  <2>4. CASE p.repos[r].kind = "generic"
    <3>1. made(r, k) = {Unit(<<r, k>>, sel(r, k), home(r))}
      BY <2>4
    <3>2. IsFiniteSet(made(r, k))
      BY <3>1, FS_Singleton
    <3> HIDE DEF made
    <3> QED
      BY <3>1, <3>2, <2>2, <2>3, UnitFields DEF UnitOf
  <2>5. CASE p.repos[r].kind # "generic"
    <3> DEFINE f == [x \in ResourcesOf(sel(r, k)) |->
                       Resource(<<r, k, x>>, sel(r, k), home(r), x[1], x[2])]
    <3>1. made(r, k) = {f[x] : x \in ResourcesOf(sel(r, k))}
      BY <2>5
    <3>2. IsFiniteSet(ResourcesOf(sel(r, k)))
      BY <2>2, CatalogAssumption DEF ResourcesOf
    <3>3. IsFiniteSet({f[x] : x \in ResourcesOf(sel(r, k))})
      <4> HIDE DEF f
      <4> QED
        BY <3>2, FiniteImage
    <3>4. ASSUME NEW x \in ResourcesOf(sel(r, k))
          PROVE  UnitOf(p, f[x]) /\ f[x].bind = NoBinding
      <4>1. f[x] = Resource(<<r, k, x>>, sel(r, k), home(r), x[1], x[2])
        OBVIOUS
      <4> HIDE DEF f
      <4> QED
        BY <4>1, <2>2, <2>3, ResourceFields DEF UnitOf
    <3> HIDE DEF f, made
    <3> QED
      BY <3>1, <3>3, <3>4
  <2> QED
    BY <2>4, <2>5
<1>3. \A u \in Collected(p) : UnitOf(p, u) /\ u.bind = NoBinding
  <2> HIDE DEF made, ks, rs
  <2> QED
    BY <1>1, <1>2
<1>4. ASSUME NEW r \in rs
      PROVE  IsFiniteSet(UNION {made(r, k) : k \in ks(r)})
  <2>1. IsFiniteSet(ks(r))
    BY SelectionsListed
  <2> DEFINE f == [k \in ks(r) |-> made(r, k)]
  <2> HIDE DEF made, ks, rs
  <2>2. \A k \in ks(r) : IsFiniteSet(f[k])
    BY <1>2
  <2>3. UNION {made(r, k) : k \in ks(r)} = UNION {f[k] : k \in ks(r)}
    OBVIOUS
  <2> HIDE DEF f
  <2> QED
    BY <2>1, <2>2, <2>3, FiniteUnion
<1>5. IsFiniteSet(Collected(p))
  <2> DEFINE f == [r \in rs |-> UNION {made(r, k) : k \in ks(r)}]
  <2>1. IsFiniteSet(rs)
    BY Listed, Positions
  <2> HIDE DEF made, ks, rs
  <2>2. \A r \in rs : IsFiniteSet(f[r])
    BY <1>4
  <2>3. Collected(p) = UNION {f[r] : r \in rs}
    BY <1>1
  <2> HIDE DEF f
  <2> QED
    BY <2>1, <2>2, <2>3, FiniteUnion
<1> QED
  BY <1>3, <1>5

(* A binding adds finitely many units of the set, and with a consumer's     *)
(* unit the provider's.                                                     *)
LEMMA BoundUnits ==
  ASSUME NEW p, IsPackageSet(p), NEW U, NEW x \in Bound(p), Bindable(p, U, x)
  PROVE  /\ IsFiniteSet(BindingUnits(p, x))
         /\ \A u \in BindingUnits(p, x) : UnitOf(p, u)
         /\ Served(BindingUnits(p, x))
<1> DEFINE b == Bindings[x[3]]
           consumer == p.repos[x[1]].pkgs[x[2]]
           ctmpl == Catalog[consumer.pkg].requires[b.cap]
<1>1. PICK provider : provider = CHOOSE q \in Selected(p, b.repo, b.inst) : TRUE
  OBVIOUS
<1>2. provider.pkg \in DOMAIN Catalog /\ provider.inst = b.inst
  BY <1>1 DEF Bindable, Selected
<1>3. consumer.pkg \in DOMAIN Catalog
  BY DEF Bindable
<1>4. /\ x[1] \in 1..Len(p.repos)
      /\ x[2] \in 1..Len(p.repos[x[1]].pkgs)
  BY DEF Bound, BoundIn
<1> DEFINE ptmpl == Catalog[provider.pkg].provides[b.cap]
           home(e) == Subst[p.repos[e].name]
           name(e) == x[3] \o home(e)
           c0(e) == Resource(<<x, e, "consumer">>, consumer, home(x[1]), ctmpl, name(e))
           q0(e) == Resource(<<x, e, "provider">>, provider, home(e), ptmpl, name(e))
           c(e) == [c0(e) EXCEPT !.bind = <<x[3], "consumer">>, !.role = Catalog[consumer.pkg].role,
                      !.deps = @ \cup {<<"resources", b.inst, ptmpl, name(e)>>}]
           q(e) == [q0(e) EXCEPT !.bind = <<x[3], "provider">>, !.role = Catalog[provider.pkg].role]
           homes == EnvReposOf(p, b.repo)
<1>5. BindingUnits(p, x) = UNION {{c(e), q(e)} : e \in homes}
  BY <1>1 DEF BindingUnits
<1>6. ASSUME NEW e \in homes
      PROVE  /\ UnitOf(p, c(e)) /\ c(e).bind = <<x[3], "consumer">> /\ c(e).name = name(e)
             /\ <<"resources", b.inst, ptmpl, name(e)>> \in c(e).deps
             /\ UnitOf(p, q(e)) /\ q(e).bind = <<x[3], "provider">> /\ q(e).name = name(e)
             /\ q(e).type = "resource" /\ q(e).tmpl = ptmpl /\ q(e).pkgInst = b.inst
  <2>1. home(e) \in OutputNames(p)
    BY DEF EnvReposOf, OutputNames
  <2>2. Valid(p) => home(x[1]) \in OutputNames(p)
    <3> SUFFICES ASSUME Valid(p) PROVE home(x[1]) \in OutputNames(p)
      OBVIOUS
    <3>1. p.repos[x[1]].pkgs # <<>>
      BY <1>4
    <3>2. p.repos[x[1]].kind # "service"
      BY <3>1, <1>4 DEF Valid
    <3> QED
      BY <3>2, <1>4 DEF OutputNames
  <2> HIDE DEF b, consumer, ctmpl, ptmpl, home, name, homes
  <2>3. /\ DOMAIN c0(e) = UnitParts
        /\ c0(e).pkg = consumer.pkg /\ c0(e).pkgInst = consumer.inst /\ c0(e).repo = home(x[1])
        /\ c0(e).type = "resource" /\ c0(e).tmpl = ctmpl /\ c0(e).name = name(e)
        /\ c0(e).inst = ResourceInstance(consumer.inst, ctmpl, name(e))
    BY ResourceFields
  <2>4. /\ DOMAIN q0(e) = UnitParts
        /\ q0(e).pkg = provider.pkg /\ q0(e).pkgInst = provider.inst /\ q0(e).repo = home(e)
        /\ q0(e).type = "resource" /\ q0(e).tmpl = ptmpl /\ q0(e).name = name(e)
        /\ q0(e).inst = ResourceInstance(provider.inst, ptmpl, name(e))
    BY ResourceFields
  <2> HIDE DEF c0, q0
  <2>5. /\ DOMAIN c(e) = UnitParts
        /\ c(e).pkg = consumer.pkg /\ c(e).pkgInst = consumer.inst /\ c(e).repo = home(x[1])
        /\ c(e).type = "resource" /\ c(e).tmpl = ctmpl /\ c(e).name = name(e)
        /\ c(e).inst = ResourceInstance(consumer.inst, ctmpl, name(e))
        /\ c(e).bind = <<x[3], "consumer">>
        /\ <<"resources", b.inst, ptmpl, name(e)>> \in c(e).deps
    BY <2>3 DEF UnitParts
  <2>6. /\ DOMAIN q(e) = UnitParts
        /\ q(e).pkg = provider.pkg /\ q(e).pkgInst = provider.inst /\ q(e).repo = home(e)
        /\ q(e).type = "resource" /\ q(e).tmpl = ptmpl /\ q(e).name = name(e)
        /\ q(e).inst = ResourceInstance(provider.inst, ptmpl, name(e))
        /\ q(e).bind = <<x[3], "provider">>
    BY <2>4 DEF UnitParts
  <2> HIDE DEF c, q
  <2>7. UnitOf(p, c(e)) /\ UnitOf(p, q(e))
    BY <1>2, <2>1, <2>2, <2>5, <2>6, consumer.pkg \in DOMAIN Catalog DEF UnitOf
  <2> QED
    BY <1>2, <2>5, <2>6, <2>7
<1> HIDE DEF b, consumer, ctmpl, ptmpl, home, name, c0, q0, c, q
<1>7. ASSUME NEW u \in BindingUnits(p, x)
      PROVE  UnitOf(p, u) /\ (IsConsumer(u) => \E v \in BindingUnits(p, x) : Serves(v, u))
  <2>1. PICK e \in homes : u = c(e) \/ u = q(e)
    <3> HIDE DEF homes
    <3> QED
      BY <1>5
  <2>2. c(e) \in BindingUnits(p, x) /\ q(e) \in BindingUnits(p, x)
    <3> HIDE DEF homes
    <3> QED
      BY <1>5
  <2> HIDE DEF homes
  <2>3. CASE u = q(e)
    <3>1. u.bind = <<x[3], "provider">> /\ UnitOf(p, u)
      BY <2>3, <1>6
    <3>2. u.bind[2] # "consumer"
      BY <3>1
    <3> QED
      BY <3>1, <3>2 DEF IsConsumer
  <2>4. CASE u = c(e)
    <3>1. <<"resources", b.inst, ptmpl, name(e)>> \in Aliases(q(e))
      BY <1>6 DEF Aliases
    <3>2. Serves(q(e), c(e))
      BY <3>1, <1>6 DEF Serves
    <3> QED
      BY <2>2, <2>4, <3>2, <1>6
  <2> QED
    BY <2>1, <2>3, <2>4
<1>8. IsFiniteSet(BindingUnits(p, x))
  <2> DEFINE f == [e \in homes |-> {c(e), q(e)}]
  <2>1. IsFiniteSet(homes)
    BY Listed, Positions DEF EnvReposOf
  <2> HIDE DEF homes
  <2>2. \A e \in homes : IsFiniteSet(f[e])
    <3> TAKE e \in homes
    <3>1. IsFiniteSet({c(e)} \cup {q(e)})
      BY FS_Singleton, FS_Union
    <3>2. f[e] = {c(e)} \cup {q(e)}
      OBVIOUS
    <3> QED
      BY <3>1, <3>2
  <2>3. BindingUnits(p, x) = UNION {f[e] : e \in homes}
    BY <1>5
  <2> HIDE DEF f
  <2> QED
    BY <2>1, <2>2, <2>3, FiniteUnion
<1> QED
  BY <1>7, <1>8 DEF Served

(* The controllers are wired in without touching what a unit is.           *)
LEMMA RewiredUnits ==
  ASSUME NEW p, NEW U, IsFiniteSet(U), \A u \in U : UnitOf(p, u), Served(U)
  PROVE  /\ IsFiniteSet(Rewired(p, U))
         /\ \A u \in Rewired(p, U) : UnitOf(p, u)
         /\ Served(Rewired(p, U))
<1>1. PICK src : src = IF p.src = <<>> THEN {} ELSE Selected(p, p.src[1], p.src[2])
  OBVIOUS
<1> DEFINE intent(u) == u.type = "resource" /\ \E q \in src : u.tmpl \in Catalog[q.pkg].intents
           wired(u) == IF IsScript(u) THEN [u EXCEPT !.ctl = <<"src", "managed-script">>]
                       ELSE IF intent(u) THEN [u EXCEPT !.ctl = <<"src", u.tmpl>>] ELSE u
<1>2. Rewired(p, U) = {wired(u) : u \in U}
  BY <1>1 DEF Rewired
<1>3. ASSUME NEW u \in U
      PROVE  /\ DOMAIN wired(u) = UnitParts
             /\ wired(u).pkg = u.pkg /\ wired(u).pkgInst = u.pkgInst /\ wired(u).repo = u.repo
             /\ wired(u).type = u.type /\ wired(u).inst = u.inst /\ wired(u).tmpl = u.tmpl
             /\ wired(u).name = u.name /\ wired(u).bind = u.bind /\ wired(u).deps = u.deps
  <2>1. DOMAIN u = UnitParts
    BY DEF UnitOf
  <2>2. CASE IsScript(u)
    BY <2>1, <2>2 DEF UnitParts
  <2>3. CASE ~ IsScript(u) /\ intent(u)
    BY <2>1, <2>3 DEF UnitParts
  <2>4. CASE ~ IsScript(u) /\ ~ intent(u)
    BY <2>1, <2>4
  <2> QED
    BY <2>2, <2>3, <2>4
<1>4. \A u \in U : UnitOf(p, wired(u))
  <2> TAKE u \in U
  <2> HIDE DEF wired
  <2> QED
    BY <1>3 DEF UnitOf
<1>5. \A u, q \in U : /\ IsConsumer(wired(u)) => IsConsumer(u)
                      /\ Serves(q, u) => Serves(wired(q), wired(u))
  <2> TAKE u, q \in U
  <2> HIDE DEF wired
  <2>1. Aliases(wired(q)) = Aliases(q)
    BY <1>3 DEF Aliases
  <2> QED
    BY <2>1, <1>3 DEF IsConsumer, Serves
<1>6. IsFiniteSet({wired(u) : u \in U})
  <2> DEFINE f == [u \in U |-> wired(u)]
  <2> HIDE DEF wired
  <2>1. {wired(u) : u \in U} = {f[u] : u \in U}
    OBVIOUS
  <2> HIDE DEF f
  <2> QED
    BY <2>1, FiniteImage
<1> HIDE DEF wired
<1>7. Served(Rewired(p, U))
  <2> SUFFICES ASSUME NEW u \in U, IsConsumer(wired(u))
               PROVE  \E q \in U : Serves(wired(q), wired(u))
    BY <1>2 DEF Served
  <2> QED
    BY <1>5 DEF Served
<1> QED
  BY <1>2, <1>4, <1>6, <1>7

\* The KRC is told of every repository but the one it is named to be in.
Told(p, U) ==
  \A name \in OutputNames(p) \ {<<p.krc[1]>>} :
    \E u \in U : u.ctl = <<"krc", "managed-repo">> /\ u.name = name

(* The managed-repo units are finitely many units of the set, one for each *)
(* repository the KRC is to be told of.                                    *)
LEMMA ManagedUnits ==
  ASSUME NEW p, IsPackageSet(p), NEW U, Controllable(p, U), p.krc # <<>>
  PROVE  /\ IsFiniteSet(ManagedRepos(p))
         /\ \A u \in ManagedRepos(p) :
              UnitOf(p, u) /\ u.bind = NoBinding /\ u.ctl = <<"krc", "managed-repo">>
         /\ Told(p, ManagedRepos(p))
<1>1. PICK krc : krc = CHOOSE q \in Selected(p, p.krc[1], p.krc[2]) : TRUE
  OBVIOUS
<1>2. krc.pkg \in DOMAIN Catalog
  <2>1. krc \in Selected(p, p.krc[1], p.krc[2])
    BY <1>1 DEF Controllable
  <2> QED
    BY <2>1 DEF Selected
<1> DEFINE homes == EnvReposOf(p, p.krc[1])
           targets == OutputNames(p) \ {<<p.krc[1]>>}
           plain(e, target) == Unit(<<"krc", e, target>>, krc, Subst[p.repos[e].name])
           managed(e, target) ==
             [plain(e, target) EXCEPT
                !.type = "resource", !.role = Catalog[krc.pkg].role,
                !.inst = ResourceInstance(krc.inst, <<"managed-repo">>, target),
                !.tmpl = <<"managed-repo">>, !.name = target,
                !.deps = Catalog[krc.pkg].managed.deps, !.ctl = <<"krc", "managed-repo">>]
<1>3. ManagedRepos(p) = {managed(e, target) : e \in homes, target \in targets}
  BY <1>1 DEF ManagedRepos
<1>4. ASSUME NEW e \in homes, NEW target \in targets
      PROVE  /\ UnitOf(p, managed(e, target)) /\ managed(e, target).bind = NoBinding
             /\ managed(e, target).ctl = <<"krc", "managed-repo">>
             /\ managed(e, target).name = target
  <2>1. Subst[p.repos[e].name] \in OutputNames(p)
    BY DEF EnvReposOf, OutputNames
  <2> HIDE DEF homes, targets
  <2>2. /\ DOMAIN plain(e, target) = UnitParts
        /\ plain(e, target).pkg = krc.pkg /\ plain(e, target).pkgInst = krc.inst
        /\ plain(e, target).repo = Subst[p.repos[e].name] /\ plain(e, target).bind = NoBinding
    BY UnitFields
  <2> HIDE DEF plain
  <2>3. /\ DOMAIN managed(e, target) = UnitParts
        /\ managed(e, target).pkg = krc.pkg /\ managed(e, target).pkgInst = krc.inst
        /\ managed(e, target).repo = Subst[p.repos[e].name]
        /\ managed(e, target).bind = NoBinding /\ managed(e, target).name = target
        /\ managed(e, target).type = "resource" /\ managed(e, target).tmpl = <<"managed-repo">>
        /\ managed(e, target).ctl = <<"krc", "managed-repo">>
        /\ managed(e, target).inst = ResourceInstance(krc.inst, <<"managed-repo">>, target)
    BY <2>2 DEF UnitParts
  <2> HIDE DEF managed
  <2> QED
    BY <1>2, <2>1, <2>3 DEF UnitOf
<1> HIDE DEF plain, managed
<1>5. Told(p, ManagedRepos(p))
  <2>1. homes # {}
    BY DEF Controllable
  <2> HIDE DEF homes
  <2> QED
    BY <2>1, <1>3, <1>4 DEF Told
<1>6. IsFiniteSet(ManagedRepos(p))
  <2>1. IsFiniteSet(homes)
    BY Listed, Positions DEF EnvReposOf
  <2>2. IsFiniteSet(targets)
    <3> DEFINE rs == {q \in 1..Len(p.repos) : p.repos[q].kind # "service"}
               f == [r \in rs |-> Subst[p.repos[r].name]]
    <3>1. IsFiniteSet(rs)
      BY Listed, Positions
    <3>2. OutputNames(p) = {f[r] : r \in rs}
      BY DEF OutputNames
    <3>3. IsFiniteSet(OutputNames(p))
      <4> HIDE DEF rs, f
      <4> QED
        BY <3>1, <3>2, FiniteImage
    <3> QED
      BY <3>3, FS_Difference
  <2> DEFINE pairs == homes \X targets
             f == [z \in pairs |-> managed(z[1], z[2])]
  <2> HIDE DEF homes, targets
  <2>3. IsFiniteSet(pairs)
    BY <2>1, <2>2, FS_Product
  <2>4. ManagedRepos(p) = {f[z] : z \in pairs}
    <3>1. \A e \in homes, target \in targets :
            <<e, target>> \in pairs /\ f[<<e, target>>] = managed(e, target)
      OBVIOUS
    <3>2. \A z \in pairs : z[1] \in homes /\ z[2] \in targets /\ f[z] = managed(z[1], z[2])
      OBVIOUS
    <3> HIDE DEF pairs, f
    <3>3. ManagedRepos(p) \subseteq {f[z] : z \in pairs}
      <4> SUFFICES ASSUME NEW u \in ManagedRepos(p) PROVE \E z \in pairs : u = f[z]
        OBVIOUS
      <4>1. PICK e \in homes, target \in targets : u = managed(e, target)
        BY <1>3
      <4>2. <<e, target>> \in pairs /\ u = f[<<e, target>>]
        BY <3>1, <4>1
      <4> QED
        BY <4>2
    <3>4. {f[z] : z \in pairs} \subseteq ManagedRepos(p)
      BY <1>3, <3>2
    <3> QED
      BY <3>3, <3>4
  <2> HIDE DEF pairs, f
  <2> QED
    BY <2>3, <2>4, FiniteImage
<1>7. \A u \in ManagedRepos(p) :
         UnitOf(p, u) /\ u.bind = NoBinding /\ u.ctl = <<"krc", "managed-repo">>
  <2> HIDE DEF homes, targets
  <2> QED
    BY <1>3, <1>4
<1> QED
  BY <1>5, <1>6, <1>7

(* Bindings come from selections, and there are finitely many.             *)
LEMMA BoundFinite ==
  ASSUME NEW p, IsPackageSet(p)
  PROVE  IsFiniteSet(Bound(p))
<1> DEFINE rs == 1..Len(p.repos)
           ks(r) == 1..Len(p.repos[r].pkgs)
           in(r) == UNION {BoundIn(p, r, k) : k \in ks(r)}
           f == [r \in rs |-> in(r)]
<1>1. ASSUME NEW r \in rs
      PROVE  IsFiniteSet(in(r))
  <2> DEFINE g == [k \in ks(r) |-> BoundIn(p, r, k)]
  <2>1. ASSUME NEW k \in ks(r)
        PROVE  IsFiniteSet(BoundIn(p, r, k))
    <3> DEFINE names == p.repos[r].pkgs[k].bind \cap DOMAIN Bindings
               h == [b \in names |-> <<r, k, b>>]
    <3>1. IsFiniteSet(names)
      BY BindingsAssumption, FS_Intersection
    <3>2. BoundIn(p, r, k) = {h[b] : b \in names}
      BY DEF BoundIn
    <3> HIDE DEF names, h
    <3> QED
      BY <3>1, <3>2, FiniteImage
  <2>2. IsFiniteSet(ks(r))
    BY Listed
  <2> HIDE DEF ks
  <2>3. \A k \in ks(r) : IsFiniteSet(g[k])
    BY <2>1
  <2>4. in(r) = UNION {g[k] : k \in ks(r)}
    OBVIOUS
  <2> HIDE DEF g, in
  <2> QED
    BY <2>2, <2>3, <2>4, FiniteUnion
<1>2. IsFiniteSet(rs)
  BY Listed
<1>3. Bound(p) = UNION {f[r] : r \in rs}
  <2>1. Bound(p) = UNION {in(r) : r \in rs}
    BY DEF Bound
  <2>2. {in(r) : r \in rs} = {f[r] : r \in rs}
    <3> HIDE DEF in, rs
    <3> QED
      OBVIOUS
  <2> HIDE DEF in, rs, f
  <2> QED
    BY <2>1, <2>2
<1> HIDE DEF rs, ks, in
<1>4. \A r \in rs : IsFiniteSet(f[r])
  <2>1. \A r \in rs : f[r] = in(r)
    OBVIOUS
  <2> HIDE DEF f
  <2> QED
    BY <1>1, <2>1
<1> HIDE DEF f
<1> QED
  BY <1>2, <1>3, <1>4, FiniteUnion

-------------------------------------------------------------------------------
UnitsIInv ==
  /\ IsPackageSet(base) /\ IsPackageSet(env) /\ IsPackageSet(set)
  /\ pc \notin {"source", "refused"} /\ set.krc # <<>> => Valid(set)
  /\ pc = "source" => units = {}
  /\ IsFiniteSet(units) /\ \A u \in units : UnitOf(set, u)
  /\ Served(units)
  /\ pc \in {"wave", "written", "loaded"} /\ set.krc # <<>> => Told(set, units)
  /\ pc \in {"written", "loaded", "unloadable"} => Acyclic(units) /\ wave = Waves(units)
  /\ pc = "loaded" => Distinct(units)

(* Nothing is made of the empty set of units.                              *)
LEMMA NoUnits == IsFiniteSet({}) /\ (\A p : \A u \in {} : UnitOf(p, u)) /\ Served({})
  BY FS_EmptySet DEF Served

(* Units put together, each half complete, are complete.                   *)
LEMMA ServedTogether ==
  ASSUME NEW U, NEW V, Served(U), Served(V)
  PROVE  Served(U \cup V)
  BY DEF Served

(* Init establishes the invariant.                                         *)
LEMMA InitUnits == UnitsInit => UnitsIInv
<1> SUFFICES ASSUME UnitsInit PROVE UnitsIInv
  OBVIOUS
<1>1. IsPackageSet(base) /\ IsPackageSet(env)
  BY PackageSetsAssumption DEF UnitsInit
<1>2. IsPackageSet(set)
  <2>1. NoSet.repos = <<>> /\ DOMAIN <<>> = {} /\ <<>> \in Seq({<<>>[k] : k \in {}})
    BY DEF NoSet
  <2> QED
    BY <2>1 DEF UnitsInit, IsPackageSet, IsList
<1> QED
  BY <1>1, <1>2, NoUnits DEF UnitsInit, UnitsIInv

(* Loading keeps it: what is loaded is the user's set or the merged one.   *)
LEMMA LoadSourceUnits == ASSUME UnitsIInv, LoadSource PROVE UnitsIInv'
<1>1. units = {} /\ units' = {} /\ pc' \in {"collect", "refused"}
  BY DEF UnitsIInv, LoadSource, Phase
<1>2. IsPackageSet(set') /\ IsPackageSet(base') /\ IsPackageSet(env')
  BY MergedIsPackageSet DEF UnitsIInv, LoadSource
<1>3. pc' = "collect" /\ set'.krc # <<>> => Valid(set')
  BY MergedIsPackageSet DEF UnitsIInv, LoadSource, Phase
<1> QED
  BY <1>1, <1>2, <1>3, NoUnits DEF UnitsIInv

(* Collecting keeps it.                                                    *)
LEMMA CollectUnits == ASSUME UnitsIInv, Collect PROVE UnitsIInv'
<1>1. set' = set /\ base' = base /\ env' = env /\ pc = "collect" /\ pc' \in {"bind", "refused"}
  BY DEF Collect, Phase
<1>2. /\ IsFiniteSet(units') /\ (\A u \in units' : UnitOf(set, u))
      /\ Served(units')
  <2>1. CASE pc' = "bind"
    <3>1. units' = Collected(set) /\ Collectable(set)
      BY <2>1 DEF Collect, Phase
    <3>2. \A u \in units' : ~ IsConsumer(u)
      BY <3>1, CollectedUnits DEF UnitsIInv, IsConsumer
    <3> QED
      BY <3>1, <3>2, CollectedUnits DEF UnitsIInv, Served
  <2>2. CASE pc' # "bind"
    <3>1. units' = {}
      BY <2>2 DEF Collect
    <3> QED
      BY <3>1, NoUnits
  <2> QED
    BY <2>1, <2>2
<1> QED
  BY <1>1, <1>2 DEF UnitsIInv

(* Binding keeps it.                                                       *)
LEMMA BindUnits == ASSUME UnitsIInv, Bind PROVE UnitsIInv'
<1>1. set' = set /\ base' = base /\ env' = env /\ pc = "bind" /\ pc' \in {"control", "refused"}
  BY DEF Bind, Phase
<1>2. /\ IsFiniteSet(units') /\ (\A u \in units' : UnitOf(set, u))
      /\ Served(units')
  <2>1. CASE pc' = "control"
    <3> DEFINE made == UNION {BindingUnits(set, x) : x \in Bound(set)}
    <3>1. units' = units \cup made /\ \A x \in Bound(set) : Bindable(set, units, x)
      BY <2>1 DEF Bind, Phase
    <3>2. ASSUME NEW x \in Bound(set)
          PROVE  /\ IsFiniteSet(BindingUnits(set, x))
                 /\ \A u \in BindingUnits(set, x) : UnitOf(set, u)
                 /\ Served(BindingUnits(set, x))
      BY <3>1, BoundUnits DEF UnitsIInv
    <3>3. IsFiniteSet(made)
      <4> DEFINE f == [x \in Bound(set) |-> BindingUnits(set, x)]
      <4>1. made = UNION {f[x] : x \in Bound(set)}
        OBVIOUS
      <4>2. \A x \in Bound(set) : IsFiniteSet(f[x])
        BY <3>2
      <4>3. IsFiniteSet(Bound(set))
        BY BoundFinite DEF UnitsIInv
      <4> HIDE DEF f, made
      <4> QED
        BY <4>1, <4>2, <4>3, FiniteUnion
    <3>4. Served(made)
      BY <3>2 DEF Served
    <3>5. \A u \in made : UnitOf(set, u)
      BY <3>2
    <3> HIDE DEF made
    <3> QED
      BY <3>1, <3>3, <3>4, <3>5, FS_Union, ServedTogether DEF UnitsIInv
  <2>2. CASE pc' # "control"
    <3>1. units' = {}
      BY <2>2 DEF Bind
    <3> QED
      BY <3>1, NoUnits
  <2> QED
    BY <2>1, <2>2
<1> QED
  BY <1>1, <1>2 DEF UnitsIInv

(* Wiring the controllers in keeps it.                                     *)
LEMMA ControlUnits == ASSUME UnitsIInv, Control PROVE UnitsIInv'
<1>1. set' = set /\ base' = base /\ env' = env /\ pc = "control" /\ pc' \in {"wave", "refused"}
  BY DEF Control, Phase
<1>2. CASE pc' = "wave"
  <2>1. PICK R : R = Rewired(set, units)
    OBVIOUS
  <2>2. PICK M : M = IF set.krc = <<>> THEN {} ELSE ManagedRepos(set)
    OBVIOUS
  <2>3. units' = R \cup M /\ Controllable(set, units)
    BY <1>2, <2>1, <2>2 DEF Control, Phase
  <2>4. /\ IsFiniteSet(R) /\ (\A u \in R : UnitOf(set, u)) /\ Served(R)
    BY <2>1, RewiredUnits DEF UnitsIInv
  <2>5. /\ IsFiniteSet(M)
        /\ \A u \in M : UnitOf(set, u) /\ u.bind = NoBinding /\ u.ctl = <<"krc", "managed-repo">>
        /\ set.krc # <<>> => Told(set, M)
    <3>1. CASE set.krc = <<>>
      BY <3>1, <2>2, NoUnits
    <3>2. CASE set.krc # <<>>
      BY <3>2, <2>2, <2>3, ManagedUnits DEF UnitsIInv
    <3> QED
      BY <3>1, <3>2
  <2>6. IsFiniteSet(units') /\ \A u \in units' : UnitOf(set, u)
    BY <2>3, <2>4, <2>5, FS_Union
  <2>7. Served(units')
    <3>1. Served(M)
      BY <2>5 DEF Served, IsConsumer
    <3> QED
      BY <2>3, <2>4, <3>1, ServedTogether
  <2>8. set.krc # <<>> => Told(set, units')
    BY <2>3, <2>5 DEF Told
  <2> QED
    BY <1>1, <1>2, <2>6, <2>7, <2>8 DEF UnitsIInv
<1>3. CASE pc' # "wave"
  <2>1. units' = {} /\ pc' = "refused"
    BY <1>1, <1>3 DEF Control
  <2> QED
    BY <1>1, <2>1, NoUnits DEF UnitsIInv
<1> QED
  BY <1>2, <1>3

(* Computing the waves, and reading the file back, keep it.                *)
LEMMA WaveUnits == ASSUME UnitsIInv, Wave PROVE UnitsIInv'
<1>1. /\ set' = set /\ base' = base /\ env' = env /\ units' = units
      /\ pc = "wave" /\ pc' \in {"written", "refused"}
  BY DEF Wave, Phase
<1>2. pc' = "written" => Acyclic(units) /\ wave' = Waves(units)
  BY DEF Wave, Phase
<1> QED
  BY <1>1, <1>2 DEF UnitsIInv

LEMMA LoadExpandedUnits == ASSUME UnitsIInv, LoadExpanded PROVE UnitsIInv'
<1>1. /\ set' = set /\ base' = base /\ env' = env /\ units' = units /\ wave' = wave
      /\ pc = "written" /\ pc' \in {"loaded", "unloadable"}
  BY DEF LoadExpanded
<1>2. pc' = "loaded" => Distinct(units)
  BY DEF LoadExpanded
<1> QED
  BY <1>1, <1>2 DEF UnitsIInv

(* So it always holds.                                                     *)
LEMMA UnitsInductive == UnitsSpec => []UnitsIInv
<1>1. ASSUME UnitsIInv, UNCHANGED unitVars PROVE UnitsIInv'
  BY <1>1 DEF UnitsIInv, unitVars
<1>2. UnitsIInv /\ [UnitsNext]_unitVars => UnitsIInv'
  BY <1>1, LoadSourceUnits, CollectUnits, BindUnits, ControlUnits, WaveUnits, LoadExpandedUnits
     DEF UnitsNext
<1> QED
  BY InitUnits, <1>2, PTL DEF UnitsSpec

(* The type invariant: every unit is of a package of the catalog, and what  *)
(* is written has a wave for each unit.                                     *)
THEOREM UnitsTypeCorrect == UnitsSpec => []UnitsTypeOK
<1>1. UnitsInit => UnitsTypeOK
  BY DEF UnitsInit, UnitsTypeOK
<1>2. ASSUME UnitsTypeOK, UnitsIInv', [UnitsNext]_unitVars
      PROVE  UnitsTypeOK'
  <2>1. /\ base' = base /\ env' = env
        /\ pc' \in {"source", "collect", "bind", "control", "wave", "written",
                    "loaded", "unloadable", "refused"}
    <3>1. CASE UnitsNext
      BY <3>1 DEF UnitsNext, LoadSource, Collect, Bind, Control, Wave, LoadExpanded, Phase
    <3>2. CASE UNCHANGED unitVars
      BY <1>2, <3>2 DEF UnitsTypeOK, unitVars
    <3> QED
      BY <1>2, <3>1, <3>2
  <2>2. \A u \in units' : u.pkg \in DOMAIN Catalog /\ u.type \in {"install", "resource"}
    BY <1>2 DEF UnitsIInv, UnitOf
  <2>3. pc' \in {"written", "loaded", "unloadable"} => DOMAIN wave' = units'
    BY <1>2 DEF UnitsIInv, Waves
  <2> QED
    BY <1>2, <2>1, <2>2, <2>3 DEF UnitsTypeOK
<1> QED
  BY UnitsInductive, <1>1, <1>2, PTL DEF UnitsSpec

(* No two units of a file that loads share a directory: a directory's      *)
(* parts make the instance, and a file with two equal instances is refused. *)
THEOREM DirectoriesAreDistinct == UnitsSpec => []DirsDistinct
<1>1. UnitsIInv => DirsDistinct
  <2> SUFFICES ASSUME UnitsIInv, pc = "loaded", NEW u \in units, NEW v \in units,
                      u.pkgInst = v.pkgInst, u.type = v.type, u.tmpl = v.tmpl, u.name = v.name
               PROVE  u = v
    BY DEF DirsDistinct
  <2>1. u.inst = v.inst
    BY DEF UnitsIInv, UnitOf
  <2> QED
    BY <2>1 DEF UnitsIInv, Distinct
<1> QED
  BY UnitsInductive, <1>1, PTL

(* With a KRC every unit is rendered to a repository the KRC reconciles or  *)
(* to the one it is installed from: the managed-repo units name every       *)
(* output repository of the set but one, and a name that is left out as     *)
(* the assignment wrote it is the name its own substitution gives.          *)
THEOREM RepositoriesAreReconciled == UnitsSpec => []ReposReconciled
<1>1. UnitsIInv => ReposReconciled
  <2> SUFFICES ASSUME UnitsIInv, pc = "loaded", set.krc # <<>>,
                      NEW u \in units, u.repo \notin Reconciled
               PROVE  u.repo = Subst[set.krc[1]]
    BY DEF ReposReconciled
  <2>1. Valid(set) /\ u.repo \in OutputNames(set) /\ Told(set, units)
    BY DEF UnitsIInv, UnitOf
  <2>2. u.repo = <<set.krc[1]>>
    BY <2>1 DEF Told, Reconciled
  <2>3. PICK r \in 1..Len(set.repos) : u.repo = Subst[set.repos[r].name]
    BY <2>1 DEF OutputNames
  <2>4. set.repos[r].name \in DOMAIN Subst
    BY Listed DEF UnitsIInv
  <2>5. set.krc[1] \in DOMAIN Subst
    <3>1. set.krc[1] \in RepoNames(set)
      BY <2>1 DEF Valid
    <3> QED
      BY <3>1, Listed DEF RepoNames, UnitsIInv
  <2>6. Subst[set.repos[r].name] = <<set.krc[1]>>
    BY <2>2, <2>3
  <2> QED
    BY <2>2, <2>4, <2>5, <2>6, SubstAssumption
<1> QED
  BY UnitsInductive, <1>1, PTL

(* The provider's unit of a binding is in an earlier wave than the          *)
(* consumer's: it answers to the name the consumer's dependency was given,  *)
(* and without a cycle a wave is above those of the dependencies.           *)
THEOREM BindingsAreOrdered == UnitsSpec => []BindingsOrdered
<1>1. UnitsIInv => BindingsOrdered
  <2> SUFFICES ASSUME UnitsIInv, pc = "loaded", NEW c \in units, IsConsumer(c)
               PROVE  \E q \in units : /\ q.bind = <<c.bind[1], "provider">> /\ q.name = c.name
                                       /\ wave[q] < wave[c]
    BY DEF BindingsOrdered, IsConsumer
  <2>1. PICK q \in units : Serves(q, c)
    BY DEF UnitsIInv, Served
  <2>2. q # c
    <3>1. q.bind[2] = "provider"
      BY <2>1 DEF Serves
    <3> QED
      BY <3>1 DEF IsConsumer
  <2>3. q \in DependsOn(c, units)
    BY <2>1, <2>2 DEF Serves, DependsOn
  <2>4. Cardinality(units) \in Nat
    BY FS_CardinalityType DEF UnitsIInv
  <2>5. wave[q] < wave[c]
    BY <2>3, <2>4, WavesOrdered DEF UnitsIInv
  <2> QED
    BY <2>1, <2>5 DEF Serves
<1> QED
  BY UnitsInductive, <1>1, PTL
===============================================================================
