------------------------------ MODULE OrderedApply ------------------------------
(***************************************************************************)
(* What `apply gitops` promises of the bootstrap subset, whatever the      *)
(* passes, waits, failures, dry runs and re-runs it takes: a unit lands on *)
(* the cluster once, after every unit of the lower waves, it never goes    *)
(* away again, and the handoff to the in-cluster controllers is announced  *)
(* only when everything landed.                                            *)
(***************************************************************************)
EXTENDS Integers

CONSTANTS Direct, \* the units bootwright applies itself
          Wave    \* unit -> apply wave

VARIABLES landed,   \* units on the cluster
          handedOff \* the handoff was announced

Lower(u) == {v \in Direct : Wave[v] < Wave[u]}

Init == landed = {} /\ handedOff = FALSE

Land(u) ==
  /\ u \in Direct \ landed
  /\ Lower(u) \subseteq landed
  /\ landed' = landed \cup {u}
  /\ UNCHANGED handedOff

HandOff ==
  /\ landed = Direct
  /\ handedOff' = TRUE
  /\ UNCHANGED landed

Next == HandOff \/ \E u \in Direct : Land(u)

Spec == Init /\ [][Next]_<<landed, handedOff>>
===============================================================================
