------------------------------- MODULE TopoSort -------------------------------
(***************************************************************************)
(* topoSort (internal/gitops/resolve/resolve.go): the order in which       *)
(* Expand resolves the collected units.  They are the beginning of         *)
(* spec.resolved.packages; what bindings and controllers append is not     *)
(* sorted.                                                                 *)
(*                                                                         *)
(* Unlike computeApplyWaves this sort keeps parallel edges: a unit whose   *)
(* instance name equals its package name is registered twice under         *)
(* <name>/install, and a dependency may be named in several ways, so       *)
(* indeg and the adjacency lists count an edge once per name and place in  *)
(* the list of the units registered under it.                              *)
(* Each visit then decrements the dependent once per parallel edge.        *)
(***************************************************************************)
EXTENDS Integers, FiniteSets, Sequences

CONSTANTS N,         \* number of collected units
          Names,     \* names dependsOn entries may use
          Entries    \* name -> the units registered under it, in turn (byName)

Units == 1..N

VARIABLES dependsOn,  \* unit -> the names its descriptor lists: given, never written
          indeg, ready, out, result

\* The edges into dst, by the name that leads to the source and its place among
\* the units of that name; a self reference adds none.
EdgesInto(dst) ==
  UNION {{name} \X {k \in DOMAIN Entries[name] : Entries[name][k] # dst} : name \in dependsOn[dst]}
Source(edge) == Entries[edge[1]][edge[2]]

\* How many of them are from src.
Edges(src, dst) == Cardinality({edge \in EdgesInto(dst) : Source(edge) = src})

Init ==
  /\ indeg = [j \in Units |-> Cardinality(EdgesInto(j))]
  /\ ready = {i \in Units : indeg[i] = 0}
  /\ out = <<>>
  /\ result = "running"

\* Mutant of Visit: one decrement per dependent instead of one per edge.
VisitOneDecrement(i) ==
  /\ result = "running"
  /\ i \in ready
  /\ \A k \in ready : i <= k
  /\ out' = Append(out, i)
  /\ indeg' = [j \in Units |-> IF Edges(i, j) > 0 THEN indeg[j] - 1 ELSE indeg[j]]
  /\ ready' = (ready \ {i}) \cup {j \in Units : Edges(i, j) > 0 /\ indeg[j] = 1}
  /\ UNCHANGED result

\* Mutant of Visit: a dependent joins the work list on its first decrement.
VisitReadyTooEarly(i) ==
  /\ result = "running"
  /\ i \in ready
  /\ \A k \in ready : i <= k
  /\ out' = Append(out, i)
  /\ indeg' = [j \in Units |-> indeg[j] - Edges(i, j)]
  /\ ready' = (ready \ {i}) \cup {j \in Units : Edges(i, j) > 0}
  /\ UNCHANGED result

\* Take the smallest ready index.  A dependent joins the work list when the
\* decrement of one of its parallel edges reaches zero.
Visit(i) ==
  /\ result = "running"
  /\ i \in ready
  /\ \A k \in ready : i <= k
  /\ out' = Append(out, i)
  /\ indeg' = [j \in Units |-> indeg[j] - Edges(i, j)]
  /\ ready' = (ready \ {i}) \cup
              {j \in Units : indeg[j] > 0 /\ indeg[j] <= Edges(i, j)}
  /\ UNCHANGED result

\* Fewer units out than in: a dependency cycle, Expand fails.
Finish ==
  /\ result = "running"
  /\ ready = {}
  /\ result' = IF Len(out) = N THEN "ok" ELSE "cycle"
  /\ UNCHANGED <<indeg, ready, out>>

Next == Finish \/ \E i \in Units : Visit(i)

-------------------------------------------------------------------------------
Emitted == {out[k] : k \in 1..Len(out)}

(* A collected unit is emitted once, and only after every collected unit   *)
(* it depends on.  Parallel edges are the hazard: one decrement too few    *)
(* blocks a unit for ever, one too many lets it out early.                 *)
DependenciesFirst ==
  /\ Cardinality(Emitted) = Len(out)
  /\ \A k \in 1..Len(out) : \A i \in Units :
       Edges(i, out[k]) > 0 => \E m \in 1..(k - 1) : out[m] = i
===============================================================================
