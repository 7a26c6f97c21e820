------------------------- MODULE BootstrapApplyProofs -------------------------
(***************************************************************************)
(* For every bootstrap subset, wave assignment and kind of unit, and for   *)
(* any number of runs: the apply command keeps the wave barrier, gives the *)
(* SRC's CLI applied manifests only, announces the handoff only with the   *)
(* whole subset landed, and implements OrderedApply.                       *)
(*                                                                         *)
(* The invariant adds to these what a run knows of its own progress: what  *)
(* it took off the plan has landed, the unit in hand is first in what is   *)
(* left of the plan, and how far the unit in hand has got.                 *)
(*                                                                         *)
(* The second part is about the wait for the operators a unit installs.    *)
(***************************************************************************)
EXTENDS BootstrapApply, SubscriptionWait, TLAPS

Working == {"pass1", "crdwait", "pass2", "cli", "settle", "subwait"}

DoneLanded ==
  pc \notin Ended /\ ~ dry => \A u \in Direct \ todo : u \in Landed

InHand ==
  pc \in Working => cur \in todo /\ \A v \in todo : Before(cur, v)

HowFar ==
  /\ pc \in {"pass1", "crdwait", "pass2"} => cur \notin SRCOnly
  /\ pc = "cli" => cur \in SRCOnly \cup SRCIntent
  /\ pc = "cli" /\ ~ dry /\ cur \in SRCIntent => applied[cur] = "full"
  /\ pc \in {"settle", "subwait"} /\ ~ dry => cur \in Landed

IInv ==
  /\ TypeOK
  /\ DoneLanded
  /\ InHand
  /\ HowFar
  /\ WaveBarrier
  /\ ManifestBeforeCLI
  /\ HandoffAfterDirectSet

(* The unit of a lower wave is not left on a plan whose first is higher.   *)
LEMMA LowerWavesDone ==
  ASSUME IInv, pc \in Working, NEW u \in Direct, Wave[u] < Wave[cur]
  PROVE  u \notin todo
<1>1. Wave[u] \in Nat /\ Wave[cur] \in Nat
  BY UnitsAssumption, WaveAssumption DEF IInv, TypeOK
<1>2. SUFFICES ASSUME u \in todo PROVE FALSE
  OBVIOUS
<1>3. Before(cur, u)
  BY <1>2 DEF IInv, InHand
<1> QED
  BY <1>1, <1>3 DEF Before

LEMMA InitIInv == Init => IInv
<1> SUFFICES ASSUME Init PROVE IInv
  OBVIOUS
<1>1. cur \in Direct
  BY UnitsAssumption DEF Init
<1>2. TypeOK
  BY <1>1 DEF Init, TypeOK, PCs, Ended
<1>3. pc = "idle" /\ invoked = {} /\ handed = FALSE
  BY DEF Init
<1>4. \A u \in Direct : ~ Touched(u)
  BY UnitsAssumption DEF Init, Touched
<1>5. DoneLanded /\ InHand /\ HowFar
  BY <1>3 DEF DoneLanded, InHand, HowFar, Ended, Working
<1>6. WaveBarrier /\ ManifestBeforeCLI /\ HandoffAfterDirectSet
  BY <1>3, <1>4 DEF WaveBarrier, ManifestBeforeCLI, HandoffAfterDirectSet
<1> QED
  BY <1>2, <1>5, <1>6 DEF IInv

-------------------------------------------------------------------------------
(* The steps that leave the cluster alone.                                 *)
ClusterSame == applied' = applied /\ invoked' = invoked

LEMMA ClusterSameLanded ==
  ASSUME ClusterSame
  PROVE  Landed' = Landed /\ \A u : Touched(u)' <=> Touched(u)
  BY DEF ClusterSame, Landed, Touched

LEMMA ClusterSameSafe ==
  ASSUME IInv, ClusterSame, handed' = handed
  PROVE  WaveBarrier' /\ ManifestBeforeCLI' /\ HandoffAfterDirectSet'
<1>1. Landed' = Landed /\ \A u : Touched(u)' <=> Touched(u)
  BY ClusterSameLanded
<1> QED
  BY <1>1 DEF IInv, ClusterSame, WaveBarrier, ManifestBeforeCLI, HandoffAfterDirectSet

(* A command step that neither touches the cluster nor takes a unit off    *)
(* the plan keeps the invariant when its new position is accounted for.    *)
LEMMA QuietStep ==
  ASSUME IInv, ClusterSame, handed' = handed, TypeOK', todo' = todo,
         pc \notin Ended, dry' = dry, InHand', HowFar'
  PROVE  IInv'
<1>1. Landed' = Landed
  BY ClusterSameLanded
<1>2. DoneLanded'
  BY <1>1 DEF IInv, DoneLanded
<1> QED
  BY <1>2, ClusterSameSafe DEF IInv

LEMMA StartIInv == ASSUME IInv, NEW d \in BOOLEAN, Start(d) PROVE IInv'
<1>1. TypeOK'
  BY DEF IInv, TypeOK, Start, cluster, PCs, Ended
<1>2. DoneLanded' /\ InHand' /\ HowFar'
  BY DEF Start, DoneLanded, InHand, HowFar, Working
<1>3. ClusterSame /\ handed' = handed
  BY DEF Start, cluster, ClusterSame
<1> QED
  BY <1>1, <1>2, <1>3, ClusterSameSafe DEF IInv

LEMMA EnterGateIInv == ASSUME IInv, EnterGate PROVE IInv'
<1> USE DEF EnterGate, cluster, command
<1>1. TypeOK'
  BY DEF IInv, TypeOK, PCs, Ended
<1>2. InHand' /\ HowFar'
  BY DEF InHand, HowFar, Working
<1> QED
  BY <1>1, <1>2, QuietStep DEF ClusterSame, Ended

LEMMA GateTargetIInv == ASSUME IInv, NEW u \in Direct, GateTarget(u) PROVE IInv'
<1> USE DEF GateTarget, cluster, command
<1>1. TypeOK'
  BY DEF IInv, TypeOK, PCs, Ended
<1>2. InHand' /\ HowFar'
  BY DEF InHand, HowFar, Working
<1> QED
  BY <1>1, <1>2, QuietStep DEF ClusterSame, Ended

LEMMA NextUnitIInv == ASSUME IInv, NEW u \in Direct, NextUnit(u) PROVE IInv'
<1> USE DEF NextUnit, cluster, command
<1>1. TypeOK'
  <2>1. Wave[u] \in Nat
    BY UnitsAssumption, WaveAssumption
  <2>2. pc' \in PCs
    BY DEF PCs
  <2>3. gates' \subseteq Direct \cap Gated
    BY DEF IInv, TypeOK
  <2> QED
    BY <2>1, <2>2, <2>3 DEF IInv, TypeOK
<1>2. InHand'
  BY DEF InHand, IsNext, Before
<1>3. HowFar'
  <2>1. ~ dry' /\ cur' \in SRCIntent => pc' = "pass1"
    BY KindsAssumption
  <2> QED
    BY <2>1 DEF HowFar
<1> QED
  BY <1>1, <1>2, <1>3, QuietStep DEF ClusterSame, Ended

LEMMA CRDWaitOverIInv == ASSUME IInv, CRDWaitOver PROVE IInv'
<1> USE DEF CRDWaitOver, cluster, command
<1>1. TypeOK'
  BY DEF IInv, TypeOK, PCs, Ended
<1>2. InHand' /\ HowFar'
  BY DEF IInv, InHand, HowFar, Before, Working
<1> QED
  BY <1>1, <1>2, QuietStep DEF ClusterSame, Ended

LEMMA SubscriptionTimeoutIInv == ASSUME IInv, SubscriptionTimeout PROVE IInv'
<1> USE DEF SubscriptionTimeout, cluster, command
<1>1. TypeOK'
  BY DEF IInv, TypeOK, PCs, Ended
<1>2. InHand' /\ HowFar'
  BY DEF InHand, HowFar, Working
<1> QED
  BY <1>1, <1>2, QuietStep DEF ClusterSame, Ended

LEMMA StopIInv == ASSUME IInv, Stop PROVE IInv'
<1> USE DEF Stop, cluster, command
<1>1. TypeOK'
  BY DEF IInv, TypeOK, PCs, Ended
<1>2. InHand' /\ HowFar'
  BY DEF InHand, HowFar, Working
<1> QED
  BY <1>1, <1>2, QuietStep DEF ClusterSame

-------------------------------------------------------------------------------
(* The steps that take the unit in hand off the plan: it has landed.       *)
LEMMA OffThePlan ==
  ASSUME IInv, ClusterSame, handed' = handed, dry' = dry, pc \in {"settle", "subwait"},
         pc' = "loop", todo' = todo \ {cur}
  PROVE  DoneLanded'
<1>1. Landed' = Landed
  BY ClusterSameLanded
<1> QED
  BY <1>1 DEF IInv, DoneLanded, HowFar, Ended

LEMMA SettleIInv == ASSUME IInv, NEW u \in Direct, Settle(u) PROVE IInv'
<1> USE DEF Settle, cluster, command
<1>1. TypeOK'
  BY DEF IInv, TypeOK, PCs, Ended
<1>2. ClusterSame /\ handed' = handed
  BY DEF ClusterSame
<1>3. CASE pc' = "subwait" /\ todo' = todo
  <2>1. InHand'
    BY <1>3 DEF IInv, InHand, Before, Working
  <2>2. Landed' = Landed
    BY <1>2, ClusterSameLanded
  <2>3. HowFar'
    BY <1>3, <2>2 DEF IInv, HowFar
  <2> QED
    BY <1>1, <1>2, <1>3, <2>1, <2>3, QuietStep DEF Ended
<1>4. CASE pc' = "loop" /\ todo' = todo \ {u}
  <2>1. DoneLanded'
    BY <1>2, <1>4, OffThePlan
  <2>2. InHand' /\ HowFar'
    BY <1>4 DEF InHand, HowFar, Working
  <2> QED
    BY <1>1, <1>2, <2>1, <2>2, ClusterSameSafe DEF IInv
<1> QED
  BY <1>3, <1>4

LEMMA SubscribedIInv == ASSUME IInv, NEW u \in Direct, Subscribed(u) PROVE IInv'
<1> USE DEF Subscribed, cluster, command
<1>1. TypeOK'
  BY DEF IInv, TypeOK, PCs, Ended
<1>2. ClusterSame /\ handed' = handed
  BY DEF ClusterSame
<1>3. DoneLanded'
  BY <1>2, OffThePlan
<1>4. InHand' /\ HowFar'
  BY DEF InHand, HowFar, Working
<1> QED
  BY <1>1, <1>2, <1>3, <1>4, ClusterSameSafe DEF IInv

LEMMA FinishIInv == ASSUME IInv, Finish PROVE IInv'
<1> USE DEF Finish, cluster, command
<1>1. TypeOK'
  BY DEF IInv, TypeOK, PCs, Ended
<1>2. Landed' = Landed /\ \A u : Touched(u)' <=> Touched(u)
  BY ClusterSameLanded DEF ClusterSame
<1>3. DoneLanded' /\ InHand' /\ HowFar'
  BY DEF DoneLanded, InHand, HowFar, Working, Ended
<1>4. ~ dry => Landed = Direct
  BY DEF IInv, DoneLanded, Ended, Landed
<1>5. HandoffAfterDirectSet'
  BY <1>2, <1>4 DEF IInv, TypeOK, HandoffAfterDirectSet
<1>6. WaveBarrier' /\ ManifestBeforeCLI'
  BY <1>2 DEF IInv, WaveBarrier, ManifestBeforeCLI
<1> QED
  BY <1>1, <1>3, <1>5, <1>6 DEF IInv

-------------------------------------------------------------------------------
(* The steps that change the cluster for the unit in hand, in a run that   *)
(* is not dry.  Every unit of a lower wave has landed already.             *)
LEMMA LowerLanded ==
  ASSUME IInv, pc \in Working, ~ dry, NEW u \in Direct, Wave[u] < Wave[cur]
  PROVE  u \in Landed
<1>1. u \notin todo
  BY LowerWavesDone
<1> QED
  BY <1>1 DEF IInv, DoneLanded, Ended, Working

(* Landing more and touching only the unit in hand keeps the barrier.      *)
LEMMA BarrierKept ==
  ASSUME IInv, pc \in Working, ~ dry, Landed \subseteq Landed',
         \A v \in Direct : Touched(v)' => Touched(v) \/ v = cur
  PROVE  WaveBarrier'
<1> SUFFICES ASSUME NEW u \in Direct, NEW v \in Direct, Wave[u] < Wave[v], Touched(v)'
             PROVE  u \in Landed'
  BY DEF WaveBarrier
<1>1. CASE Touched(v)
  BY <1>1 DEF IInv, WaveBarrier
<1>2. CASE v = cur
  BY <1>2, LowerLanded
<1> QED
  BY <1>1, <1>2

LEMMA HandoffKept ==
  ASSUME IInv, Landed \subseteq Landed', handed' = handed
  PROVE  HandoffAfterDirectSet'
  BY DEF IInv, HandoffAfterDirectSet, Landed

LEMMA ApplyOkIInv == ASSUME IInv, NEW u \in Direct, ApplyOk(u) PROVE IInv'
<1> USE DEF ApplyOk, command
<1>0. u = cur /\ u \in Units /\ pc \in Working /\ todo' = todo /\ cur' = cur
  BY UnitsAssumption DEF Working
<1>1. pc' \in {"cli", "settle"} /\ (pc' = "cli" <=> u \in SRCIntent)
  BY DEF AfterApply
<1>2. TypeOK'
  BY <1>1 DEF IInv, TypeOK, PCs
<1>3. InHand'
  BY <1>0, <1>1 DEF IInv, InHand, Before
<1>4. CASE dry
  <2>1. ClusterSame /\ handed' = handed
    BY <1>4 DEF ClusterSame
  <2>2. HowFar'
    BY <1>4, <1>1 DEF HowFar
  <2> QED
    BY <1>0, <1>2, <1>3, <2>1, <2>2, QuietStep DEF Ended, Working
<1>5. CASE ~ dry
  <2>1. /\ \A v \in Direct : v # u => applied'[v] = applied[v]
        /\ applied'[u] = "full"
        /\ invoked' = invoked
    BY <1>0, <1>5, UnitsAssumption DEF IInv, TypeOK
  <2>2. Landed \subseteq Landed'
    BY <2>1 DEF Landed
  <2>3. WaveBarrier'
    BY <1>0, <1>5, <2>1, <2>2, BarrierKept DEF Touched
  <2>4. ManifestBeforeCLI'
    BY <2>1, KindsAssumption DEF IInv, ManifestBeforeCLI
  <2>5. HandoffAfterDirectSet'
    BY <2>2, HandoffKept
  <2>6. DoneLanded'
    BY <1>0, <1>5, <2>2 DEF IInv, DoneLanded, Ended, Working
  <2>7. u \notin SRCOnly
    BY <1>0 DEF IInv, HowFar
  <2>8. HowFar'
    BY <1>0, <1>1, <2>1, <2>7 DEF HowFar, Landed
  <2> QED
    BY <1>2, <1>3, <2>3, <2>4, <2>5, <2>6, <2>8 DEF IInv
<1> QED
  BY <1>4, <1>5

LEMMA ApplyFailsIInv == ASSUME IInv, NEW u \in Direct, ApplyFails(u) PROVE IInv'
<1> USE DEF ApplyFails, command
<1>0. u = cur /\ u \in Units /\ pc \in Working /\ todo' = todo /\ cur' = cur
  BY UnitsAssumption DEF Working
<1>1. pc' \in {"crdwait", "failed"}
  OBVIOUS
<1>2. /\ applied' \in [Units -> {"none", "partial", "full"}]
      /\ \A v \in Direct : v # u => applied'[v] = applied[v]
      /\ applied[u] = "full" => applied'[u] = "full"
      /\ dry => applied' = applied
  BY <1>0, UnitsAssumption DEF IInv, TypeOK
<1>3. TypeOK'
  BY <1>1, <1>2 DEF IInv, TypeOK, PCs, Ended
<1>4. InHand'
  BY <1>0, <1>1 DEF IInv, InHand, Before, Working
<1>5. HowFar'
  BY <1>0, <1>1 DEF IInv, HowFar
<1>6. CASE dry
  <2>1. ClusterSame /\ handed' = handed
    BY <1>2, <1>6 DEF ClusterSame
  <2> QED
    BY <1>0, <1>3, <1>4, <1>5, <2>1, QuietStep DEF Ended, Working
<1>7. CASE ~ dry
  <2>1. Landed \subseteq Landed'
    BY <1>2 DEF Landed
  <2>2. WaveBarrier'
    BY <1>0, <1>2, <1>7, <2>1, BarrierKept DEF Touched
  <2>3. ManifestBeforeCLI'
    BY <1>2, KindsAssumption DEF IInv, ManifestBeforeCLI
  <2>4. HandoffAfterDirectSet'
    BY <2>1, HandoffKept
  <2>5. DoneLanded'
    BY <1>0, <1>7, <2>1 DEF IInv, DoneLanded, Ended, Working
  <2> QED
    BY <1>3, <1>4, <1>5, <2>2, <2>3, <2>4, <2>5 DEF IInv
<1> QED
  BY <1>6, <1>7

LEMMA InvokeCLIIInv == ASSUME IInv, NEW u \in Direct, InvokeCLI(u) PROVE IInv'
<1> USE DEF InvokeCLI, command
<1>0. u = cur /\ pc \in Working /\ todo' = todo /\ cur' = cur /\ applied' = applied
  BY DEF Working
<1>1. TypeOK'
  BY DEF IInv, TypeOK, PCs
<1>2. InHand'
  BY <1>0 DEF IInv, InHand, Before
<1>3. CASE dry
  <2>1. ClusterSame /\ handed' = handed
    BY <1>3 DEF ClusterSame
  <2>2. HowFar'
    BY <1>3 DEF HowFar
  <2> QED
    BY <1>0, <1>1, <1>2, <2>1, <2>2, QuietStep DEF Ended, Working
<1>4. CASE ~ dry
  <2>1. invoked' = invoked \cup {u}
    BY <1>4
  <2>2. Landed \subseteq Landed'
    BY <1>0, <2>1 DEF Landed
  <2>3. WaveBarrier'
    BY <1>0, <1>4, <2>1, <2>2, BarrierKept DEF Touched
  <2>4. u \in SRCIntent => applied[u] = "full"
    BY <1>0, <1>4 DEF IInv, HowFar
  <2>5. ManifestBeforeCLI'
    BY <1>0, <2>1, <2>4 DEF IInv, ManifestBeforeCLI
  <2>6. HandoffAfterDirectSet'
    BY <2>2, HandoffKept
  <2>7. DoneLanded'
    BY <1>0, <1>4, <2>2 DEF IInv, DoneLanded, Ended, Working
  <2>8. u \in Landed'
    BY <1>0, <2>1, <2>4 DEF IInv, HowFar, Landed
  <2>9. HowFar'
    BY <1>0, <2>8 DEF HowFar
  <2> QED
    BY <1>1, <1>2, <2>3, <2>5, <2>6, <2>7, <2>9 DEF IInv
<1> QED
  BY <1>3, <1>4

(* The cluster's own steps touch no unit bootwright applies.               *)
LEMMA ClusterIInv ==
  ASSUME IInv, NEW u \in Units, KRCApplies(u) \/ \E c \in CRDs : Establish(u, c)
  PROVE  IInv'
<1>1. /\ \A v \in Direct : applied'[v] = applied[v]
      /\ applied' \in [Units -> {"none", "partial", "full"}]
      /\ crds' \subseteq CRDs
      /\ UNCHANGED <<pc, dry, todo, cur, wave, gates, runs, invoked, handed>>
  BY UnitsAssumption DEF IInv, TypeOK, KRCApplies, Establish, command
<1>2. TypeOK'
  BY <1>1 DEF IInv, TypeOK
<1>3. Landed' = Landed /\ \A v \in Direct : Touched(v)' <=> Touched(v)
  BY <1>1 DEF Landed, Touched
<1>4. DoneLanded' /\ InHand'
  BY <1>1, <1>3 DEF IInv, DoneLanded, InHand, Before
<1>5. HowFar'
  BY <1>1, <1>3 DEF IInv, HowFar, TypeOK
<1>6. WaveBarrier' /\ HandoffAfterDirectSet'
  BY <1>1, <1>3 DEF IInv, WaveBarrier, HandoffAfterDirectSet
<1>7. ManifestBeforeCLI'
  BY <1>1, KindsAssumption DEF IInv, ManifestBeforeCLI
<1> QED
  BY <1>2, <1>4, <1>5, <1>6, <1>7 DEF IInv

LEMMA StutterIInv == ASSUME IInv, UNCHANGED vars PROVE IInv'
<1>1. Landed' = Landed /\ \A u : Touched(u)' <=> Touched(u)
  BY DEF vars, Landed, Touched
<1>2. TypeOK' /\ DoneLanded' /\ InHand' /\ HowFar'
  BY <1>1 DEF vars, IInv, TypeOK, DoneLanded, InHand, HowFar, Before
<1>3. WaveBarrier' /\ ManifestBeforeCLI' /\ HandoffAfterDirectSet'
  BY <1>1 DEF vars, IInv, WaveBarrier, ManifestBeforeCLI, HandoffAfterDirectSet
<1> QED
  BY <1>2, <1>3 DEF IInv

LEMMA NextIInv == IInv /\ [Next]_vars => IInv'
<1> SUFFICES ASSUME IInv, [Next]_vars PROVE IInv'
  OBVIOUS
<1>1. CASE EnterGate \/ CRDWaitOver \/ SubscriptionTimeout \/ Finish \/ Stop
  BY <1>1, EnterGateIInv, CRDWaitOverIInv, SubscriptionTimeoutIInv, FinishIInv, StopIInv
<1>2. CASE \E u \in Direct : GateTarget(u) \/ NextUnit(u) \/ Settle(u) \/ Subscribed(u)
  BY <1>2, GateTargetIInv, NextUnitIInv, SettleIInv, SubscribedIInv
<1>3. CASE \E u \in Direct : ApplyOk(u) \/ ApplyFails(u) \/ InvokeCLI(u)
  BY <1>3, ApplyOkIInv, ApplyFailsIInv, InvokeCLIIInv
<1>4. CASE Cluster
  BY <1>4, ClusterIInv DEF Cluster
<1>5. CASE \E d \in BOOLEAN : Start(d)
  BY <1>5, StartIInv
<1>6. CASE UNCHANGED vars
  BY <1>6, StutterIInv
<1> QED
  BY <1>1, <1>2, <1>3, <1>4, <1>5, <1>6 DEF Next, Step

LEMMA Inductive == Spec => []IInv
  BY InitIInv, NextIInv, PTL DEF Spec

-------------------------------------------------------------------------------
(* The variables keep their types.                                         *)
THEOREM TypeCorrect == Spec => []TypeOK
<1>1. IInv => TypeOK
  BY DEF IInv
<1> QED
  BY Inductive, <1>1, PTL

(* Nothing of a wave is on the cluster before the waves below it landed,   *)
(* for every plan and every sequence of failed, killed and repeated runs.  *)
THEOREM WaveBarrierHolds == Spec => []WaveBarrier
<1>1. IInv => WaveBarrier
  BY DEF IInv
<1> QED
  BY Inductive, <1>1, PTL

(* The SRC's CLI gets a unit with a bootstrap-sync intent only once its    *)
(* manifests are applied.                                                  *)
THEOREM CLIAfterManifest == Spec => []ManifestBeforeCLI
<1>1. IInv => ManifestBeforeCLI
  BY DEF IInv
<1> QED
  BY Inductive, <1>1, PTL

(* The handoff is announced only with the whole bootstrap subset landed.   *)
THEOREM HandoffIsEarned == Spec => []HandoffAfterDirectSet
<1>1. IInv => HandoffAfterDirectSet
  BY DEF IInv
<1> QED
  BY Inductive, <1>1, PTL

-------------------------------------------------------------------------------
(* The refinement: a step lands the unit in hand, announces the handoff, or *)
(* is invisible to OrderedApply.                                            *)
LEMMA Invisible ==
  ASSUME Landed' = Landed, handed' = handed
  PROVE  [Promise!Next]_<<Landed, handed>>
  OBVIOUS

LEMMA LandsInHand ==
  ASSUME IInv, pc \in Working, ~ dry, handed' = handed,
         Landed' \in {Landed, Landed \cup {cur}}
  PROVE  [Promise!Next]_<<Landed, handed>>
<1>1. CASE Landed' = Landed
  BY <1>1
<1>2. CASE Landed' = Landed \cup {cur} /\ cur \notin Landed
  <2>1. cur \in Direct \ Landed
    BY <1>2 DEF IInv, TypeOK
  <2>2. Promise!Lower(cur) \subseteq Landed
    BY LowerLanded DEF Promise!Lower
  <2>3. Promise!Land(cur)
    BY <1>2, <2>1, <2>2 DEF Promise!Land
  <2> QED
    BY <2>1, <2>3 DEF Promise!Next
<1> QED
  BY <1>1, <1>2

LEMMA ApplyOkLands ==
  ASSUME IInv, NEW u \in Direct, ApplyOk(u)
  PROVE  [Promise!Next]_<<Landed, handed>>
<1> USE DEF ApplyOk, command
<1>1. CASE dry
  BY <1>1, Invisible DEF Landed
<1>2. CASE ~ dry
  <2>1. applied'[cur] = "full" /\ \A v \in Direct : v # cur => applied'[v] = applied[v]
    BY <1>2, UnitsAssumption DEF IInv, TypeOK
  <2>2. Landed' \in {Landed, Landed \cup {cur}}
    BY <2>1 DEF Landed
  <2> QED
    BY <1>2, <2>2, LandsInHand DEF Working
<1> QED
  BY <1>1, <1>2

LEMMA InvokeCLILands ==
  ASSUME IInv, NEW u \in Direct, InvokeCLI(u)
  PROVE  [Promise!Next]_<<Landed, handed>>
<1> USE DEF InvokeCLI, command
<1>1. CASE dry
  BY <1>1, Invisible DEF Landed
<1>2. CASE ~ dry
  <2>1. Landed' \in {Landed, Landed \cup {cur}}
    BY <1>2 DEF Landed
  <2> QED
    BY <1>2, <2>1, LandsInHand DEF Working
<1> QED
  BY <1>1, <1>2

LEMMA ApplyFailsInvisible ==
  ASSUME IInv, NEW u \in Direct, ApplyFails(u)
  PROVE  [Promise!Next]_<<Landed, handed>>
<1>1. \A v \in Direct : applied'[v] = "full" <=> applied[v] = "full"
  BY UnitsAssumption DEF IInv, TypeOK, ApplyFails
<1>2. invoked' = invoked /\ handed' = handed
  BY DEF ApplyFails, command
<1> QED
  BY <1>1, <1>2, Invisible DEF Landed

LEMMA FinishHandsOff ==
  ASSUME IInv, Finish
  PROVE  [Promise!Next]_<<Landed, handed>>
<1>1. Landed' = Landed
  BY ClusterSameLanded DEF Finish, cluster, ClusterSame
<1>2. CASE dry
  BY <1>1, <1>2, Invisible DEF Finish, IInv, TypeOK
<1>3. CASE ~ dry
  <2>1. Landed = Direct
    BY <1>3 DEF IInv, DoneLanded, Finish, Ended, Landed
  <2>2. handed' = TRUE
    BY <1>3 DEF Finish
  <2> QED
    BY <1>1, <2>1, <2>2 DEF Promise!Next, Promise!HandOff
<1> QED
  BY <1>2, <1>3

LEMMA StepRefines == IInv /\ [Next]_vars => [Promise!Next]_<<Landed, handed>>
<1> SUFFICES ASSUME IInv, [Next]_vars PROVE [Promise!Next]_<<Landed, handed>>
  OBVIOUS
<1>1. CASE EnterGate \/ CRDWaitOver \/ SubscriptionTimeout \/ Stop
  BY <1>1, Invisible DEF EnterGate, CRDWaitOver, SubscriptionTimeout, Stop, cluster, Landed
<1>2. CASE \E u \in Direct : GateTarget(u) \/ NextUnit(u) \/ Settle(u) \/ Subscribed(u)
  BY <1>2, Invisible DEF GateTarget, NextUnit, Settle, Subscribed, cluster, Landed
<1>3. CASE \E u \in Direct : ApplyOk(u) \/ ApplyFails(u) \/ InvokeCLI(u)
  BY <1>3, ApplyOkLands, ApplyFailsInvisible, InvokeCLILands
<1>4. CASE Finish
  BY <1>4, FinishHandsOff
<1>5. CASE Cluster
  <2>1. /\ \A v \in Direct : applied'[v] = applied[v]
        /\ invoked' = invoked /\ handed' = handed
    BY <1>5, UnitsAssumption DEF IInv, TypeOK, Cluster, KRCApplies, Establish
  <2> QED
    BY <2>1, Invisible DEF Landed
<1>6. CASE (\E d \in BOOLEAN : Start(d)) \/ UNCHANGED vars
  BY <1>6, Invisible DEF Start, vars, cluster, Landed
<1> QED
  BY <1>1, <1>2, <1>3, <1>4, <1>5, <1>6 DEF Next, Step

LEMMA InitRefines == Init => Promise!Init
  BY UnitsAssumption DEF Init, Promise!Init, Landed

(* ApplyBootstrapOnly implements OrderedApply: whatever passes, failures,  *)
(* kills, dry runs and re-runs it takes, units land in wave order, stay    *)
(* landed, and the handoff follows the last.                               *)
THEOREM Refinement == Spec => ImplementsOrderedApply
<1>1. Init => Promise!Init
  BY InitRefines
<1>2. IInv /\ [Next]_vars => [Promise!Next]_<<Landed, handed>>
  BY StepRefines
<1> QED
  BY Inductive, <1>1, <1>2, PTL DEF Spec, ImplementsOrderedApply, Promise!Spec

-------------------------------------------------------------------------------
(* A dry run leaves the cluster alone, the SRC's CLI included.             *)
THEOREM DryRunIsDry == Spec => DryRunTouchesNothing
<1> DEFINE Untouched == dry /\ pc \notin Ended =>
             invoked' = invoked /\ \A u \in Direct : applied'[u] = applied[u]
<1>1. IInv /\ [Next]_vars => [Untouched]_vars
  <2> SUFFICES ASSUME IInv, Next, dry, pc \notin Ended
               PROVE  invoked' = invoked /\ \A u \in Direct : applied'[u] = applied[u]
    OBVIOUS
  <2>1. CASE EnterGate \/ CRDWaitOver \/ SubscriptionTimeout \/ Finish \/ Stop
    BY <2>1 DEF EnterGate, CRDWaitOver, SubscriptionTimeout, Finish, Stop, cluster
  <2>2. CASE \E u \in Direct : GateTarget(u) \/ NextUnit(u) \/ Settle(u) \/ Subscribed(u)
    BY <2>2 DEF GateTarget, NextUnit, Settle, Subscribed, cluster
  <2>3. CASE \E u \in Direct : ApplyOk(u) \/ ApplyFails(u) \/ InvokeCLI(u)
    BY <2>3 DEF ApplyOk, ApplyFails, InvokeCLI
  <2>4. CASE Cluster
    BY <2>4, UnitsAssumption DEF IInv, TypeOK, Cluster, KRCApplies, Establish
  <2>5. CASE \E d \in BOOLEAN : Start(d)
    BY <2>5 DEF Start
  <2> QED
    BY <2>1, <2>2, <2>3, <2>4, <2>5 DEF Next, Step
<1> QED
  BY Inductive, <1>1, PTL DEF Spec, DryRunTouchesNothing

(* A readiness target leaves the list by being waited for only, and none   *)
(* is left when a run that is not dry ends well.                           *)
THEOREM NoTargetIsDropped == Spec => NoTargetDropped
<1> DEFINE Kept == pc \notin Ended /\ ~ dry =>
             /\ gates \ gates' # {} => pc = "gate"
             /\ pc' = "done" => gates' = {}
<1>1. IInv /\ [Next]_vars => [Kept]_vars
  <2> SUFFICES ASSUME IInv, Next, ~ dry, pc \notin Ended
               PROVE  /\ gates \ gates' # {} => pc = "gate"
                      /\ pc' = "done" => gates' = {}
    OBVIOUS
  <2>1. CASE EnterGate \/ CRDWaitOver \/ SubscriptionTimeout \/ Finish \/ Stop
    BY <2>1 DEF EnterGate, CRDWaitOver, SubscriptionTimeout, Finish, Stop, cluster
  <2>2. CASE \E u \in Direct : GateTarget(u) \/ NextUnit(u) \/ Settle(u) \/ Subscribed(u)
    BY <2>2 DEF GateTarget, NextUnit, Settle, Subscribed, cluster
  <2>3. CASE \E u \in Direct : ApplyOk(u) \/ ApplyFails(u) \/ InvokeCLI(u)
    BY <2>3 DEF ApplyOk, ApplyFails, InvokeCLI, AfterApply
  <2>4. CASE Cluster
    BY <2>4 DEF Cluster, KRCApplies, Establish, Ended
  <2>5. CASE \E d \in BOOLEAN : Start(d)
    BY <2>5 DEF Start
  <2> QED
    BY <2>1, <2>2, <2>3, <2>4, <2>5 DEF Next, Step
<1> QED
  BY Inductive, <1>1, PTL DEF Spec, NoTargetDropped

-------------------------------------------------------------------------------
(* The wait for an operator, for any number of subscriptions and versions   *)
(* and any budget: the budget holds, and a success was earned by every      *)
(* subscription, whatever the lifecycle manager does meanwhile.             *)

\* When the last poll is over at the latest.
LastPoll == Timeout + CallTime + Interval

\* Nobody moves the deadline, every loop looks at it before it spends more, and
\* the diagnostics spend a call each on the CSV, the list of pods and a pod.
Budget ==
  /\ deadline = Timeout
  /\ WithinBudget
  /\ stage = "show" => clock <= LastPoll
  /\ stage = "list" => clock <= LastPoll + CallTime
  /\ stage = "logs" => clock <= LastPoll + (2 + (MaxPods - pods)) * CallTime

\* The diagnostics are of a wait that has failed.
Diagnosing == stage \in {"show", "list", "logs"} => verdict \in {"timeout", "csvFailed"}

\* What was seen Succeeded is on record; the loop is past nothing else.
Earned ==
  /\ stage = "csv" => csv # 0
  /\ \A s \in SubIds, c \in CSVs : phase[s][c] = "Succeeded" => s \in good
  /\ \A s \in SubIds : s < sub => s \in good
  /\ OnlyAfterSuccess

WaitIInv == WaitTypeOK /\ Budget /\ Earned /\ Diagnosing

\* Calls take time, more of them no less.
LEMMA CallsTakeTime ==
  /\ (2 + MaxPods) * CallTime \in Nat
  /\ 2 * CallTime <= (2 + MaxPods) * CallTime /\ 2 * CallTime = CallTime + CallTime
  /\ \A k \in Nat : k * CallTime \in Nat /\ (k + 1) * CallTime = k * CallTime + CallTime
  /\ \A k \in Nat : k <= 2 + MaxPods => k * CallTime <= (2 + MaxPods) * CallTime
<1>1. CallTime \in Nat /\ MaxPods \in Nat
  BY TimeAssumption, PodsAssumption
<1>2. \A k, c \in Nat : k * c \in Nat /\ (k + 1) * c = k * c + c
  BY SMT
<1>3. \A j, c \in Nat, k \in Nat : k <= j => k * c <= j * c
  BY SMT
<1> QED
  BY <1>1, <1>2, <1>3

\* The invariant holds when the wait begins.
LEMMA InitWaitIInv == WaitInit => WaitIInv
<1> SUFFICES ASSUME WaitInit PROVE WaitIInv
  OBVIOUS
<1> USE SubsAssumption, TimeAssumption, PodsAssumption DEF WaitInit, SubIds, CSVs, diagnosis
<1>1. WaitTypeOK
  BY DEF WaitTypeOK, Phases, Over
<1>2. Budget
  BY CallsTakeTime DEF Budget, WithinBudget
<1>3. Earned /\ Diagnosing
  BY DEF Earned, OnlyAfterSuccess, Diagnosing
<1> QED
  BY <1>1, <1>2, <1>3 DEF WaitIInv

\* A poll that began within the deadline is over in time, and leaves time for
\* the diagnostics.
LEMMA PollsInTime ==
  ASSUME WaitTypeOK, deadline = Timeout, clock <= deadline, NEW d \in 0..CallTime,
         deadline' = deadline, stage' \in {"resolve", "csv", "show", "ok"},
         \/ clock' = clock + d
         \/ clock' = clock + d + Interval /\ stage' \in {"resolve", "csv"}
  PROVE  clock' \in Nat /\ Budget'
<1>1. /\ Timeout \in Nat /\ Interval \in Nat /\ CallTime \in Nat /\ d \in Nat /\ clock \in Nat
      /\ (2 + MaxPods) * CallTime \in Nat
  BY TimeAssumption, CallsTakeTime DEF WaitTypeOK
<1>2. clock' \in Nat /\ clock' <= LastPoll /\ (stage' = "ok" => clock' <= Timeout + CallTime)
  BY <1>1 DEF LastPoll
<1>3. LastPoll <= LastPoll + (2 + MaxPods) * CallTime /\ LastPoll \in Nat
  BY <1>1 DEF LastPoll
<1>4. clock' <= LastPoll + (2 + MaxPods) * CallTime
  BY <1>1, <1>2, <1>3
<1> QED
  BY <1>2, <1>4 DEF Budget, WithinBudget, LastPoll

\* One call of the first loop keeps it.
LEMMA ResolveKeeps ==
  ASSUME WaitIInv, NEW d \in 0..CallTime, NEW found \in BOOLEAN, Resolve(d, found)
  PROVE  WaitIInv'
<1> USE SubsAssumption, TimeAssumption, PodsAssumption
    DEF WaitIInv, Resolve, SubIds, CSVs, olm, diagnosis
<1>1. CASE found
  <2>1. installed[sub] \in 1..Versions
    BY <1>1 DEF WaitTypeOK
  <2>2. clock' \in Nat /\ Budget'
    BY <1>1, PollsInTime DEF Budget
  <2>4. WaitTypeOK'
    BY <1>1, <2>1, <2>2 DEF WaitTypeOK, Phases, Over
  <2>3. Earned' /\ Diagnosing'
    BY <1>1, <2>1 DEF Earned, OnlyAfterSuccess, Diagnosing, WaitTypeOK
  <2> QED
    BY <2>2, <2>3, <2>4
<1>2. CASE ~found
  <2>1. clock' \in Nat /\ Budget'
    BY <1>2, PollsInTime DEF Budget
  <2>3. WaitTypeOK'
    BY <1>2, <2>1 DEF WaitTypeOK, Phases, Over
  <2>2. Earned' /\ Diagnosing'
    BY <1>2 DEF Earned, OnlyAfterSuccess, Diagnosing, WaitTypeOK
  <2> QED
    BY <2>1, <2>2, <2>3
<1> QED
  BY <1>1, <1>2

\* So does one call of the second, which alone moves on to the next subscription.
LEMMA CheckCSVKeeps ==
  ASSUME WaitIInv, NEW d \in 0..CallTime, NEW answer, CheckCSV(d, answer)
  PROVE  WaitIInv'
<1> USE SubsAssumption, TimeAssumption, PodsAssumption
    DEF WaitIInv, SubIds, CSVs, olm, diagnosis
<1>1. CASE answer = "Succeeded"
  <2>1. /\ phase[sub][csv] = "Succeeded" /\ clock' = clock + d /\ clock <= deadline
        /\ NextSub /\ UNCHANGED <<csv, installed, phase, good, verdict, pods>>
    BY <1>1 DEF CheckCSV
  <2>2. sub \in good
    BY <2>1 DEF CheckCSV, Earned, WaitTypeOK
  <2>3. CASE sub = Subs
    <3>1. stage' = "ok" /\ UNCHANGED <<sub, deadline>>
      BY <2>1, <2>3 DEF NextSub
    <3>2. clock' \in Nat /\ Budget'
      BY <2>1, <3>1, PollsInTime DEF Budget
    <3>5. WaitTypeOK'
      BY <2>1, <3>1, <3>2 DEF WaitTypeOK, Phases, Over
    <3>3. good = SubIds
      <4>1. \A t \in SubIds : t < sub \/ t = sub
        BY <2>3
      <4>2. SubIds \subseteq good
        BY <4>1, <2>2 DEF Earned
      <4> QED
        BY <4>2 DEF WaitTypeOK
    <3>4. Earned' /\ Diagnosing'
      BY <2>1, <3>1, <3>3 DEF Earned, OnlyAfterSuccess, Diagnosing
    <3> QED
      BY <3>2, <3>4, <3>5
  <2>4. CASE sub # Subs
    <3>1. stage' = "resolve" /\ sub' = sub + 1 /\ UNCHANGED deadline
      BY <2>1, <2>4 DEF NextSub
    <3>2. clock' \in Nat /\ Budget'
      BY <2>1, <3>1, PollsInTime DEF Budget
    <3>4. WaitTypeOK'
      BY <2>1, <2>4, <3>1, <3>2 DEF WaitTypeOK, Phases, Over
    <3>3. Earned' /\ Diagnosing'
      BY <2>1, <2>2, <3>1 DEF Earned, OnlyAfterSuccess, Diagnosing, WaitTypeOK
    <3> QED
      BY <3>2, <3>3, <3>4
  <2> QED
    BY <2>3, <2>4
<1>2. CASE answer = "Failed"
  <2>1. /\ clock <= deadline /\ stage' = "show" /\ stage = "csv" /\ verdict' = "csvFailed"
        /\ clock' = clock + d
        /\ UNCHANGED <<deadline, sub, csv, installed, phase, good, pods>>
    BY <1>2 DEF CheckCSV, Diagnosed
  <2>2. clock' \in Nat /\ Budget'
    BY <2>1, PollsInTime DEF Budget
  <2>4. WaitTypeOK'
    BY <2>1, <2>2 DEF WaitTypeOK, Phases, Over
  <2>3. Earned' /\ Diagnosing'
    BY <2>1 DEF Earned, OnlyAfterSuccess, Diagnosing
  <2> QED
    BY <2>2, <2>3, <2>4
<1>3. CASE answer \notin {"Succeeded", "Failed"}
  <2>1. /\ clock <= deadline /\ stage' = stage /\ stage = "csv"
        /\ clock' = clock + d + Interval
        /\ UNCHANGED <<deadline, sub, csv, installed, phase, good, verdict, pods>>
    BY <1>3 DEF CheckCSV
  <2>2. clock' \in Nat /\ Budget'
    BY <2>1, PollsInTime DEF Budget
  <2>4. WaitTypeOK'
    BY <2>1, <2>2 DEF WaitTypeOK, Phases, Over
  <2>3. Earned' /\ Diagnosing'
    BY <2>1 DEF Earned, OnlyAfterSuccess, Diagnosing
  <2> QED
    BY <2>2, <2>3, <2>4
<1> QED
  BY <1>1, <1>2, <1>3

\* A loop gives up.
LEMMA TimedOutKeeps ==
  ASSUME WaitIInv, TimedOut
  PROVE  WaitIInv'
<1> USE SubsAssumption, TimeAssumption, PodsAssumption, CallsTakeTime
    DEF WaitIInv, SubIds, CSVs, olm, diagnosis, TimedOut, Diagnosed
<1>1. WaitTypeOK'
  BY DEF WaitTypeOK, Over
<1>2. Budget'
  BY DEF WaitTypeOK, Budget, WithinBudget, LastPoll
<1>3. Earned' /\ Diagnosing'
  BY DEF Earned, OnlyAfterSuccess, Diagnosing
<1> QED
  BY <1>1, <1>2, <1>3

\* The diagnostics cost a call each.
LEMMA DiagnoseKeeps ==
  ASSUME WaitIInv, NEW d \in 0..CallTime, NEW n \in 0..MaxPods, Diagnose(d, n)
  PROVE  WaitIInv'
<1> USE TimeAssumption, PodsAssumption DEF WaitIInv, olm
<1>1. /\ clock' = clock + d /\ clock \in Nat
      /\ UNCHANGED <<deadline, sub, csv, verdict, installed, phase, good>>
  BY DEF Diagnose, WaitTypeOK
<1>2. CASE stage = "show" /\ stage' = "list" /\ UNCHANGED pods
  <2>1. WaitTypeOK' /\ Earned' /\ Diagnosing'
    BY <1>1, <1>2 DEF WaitTypeOK, Earned, OnlyAfterSuccess, Diagnosing, SubIds, CSVs
  <2>2. Budget'
    BY <1>1, <1>2, CallsTakeTime DEF Budget, WithinBudget, LastPoll
  <2> QED
    BY <2>1, <2>2
<1>3. CASE stage = "list" /\ stage' = "logs" /\ pods' = n
  <2>1. WaitTypeOK' /\ Earned' /\ Diagnosing'
    BY <1>1, <1>3 DEF WaitTypeOK, Earned, OnlyAfterSuccess, Diagnosing, SubIds, CSVs
  <2>2. 2 * CallTime <= (2 + (MaxPods - n)) * CallTime
    <3>1. MaxPods - n \in Nat /\ CallTime \in Nat
      OBVIOUS
    <3>2. \A k, c \in Nat : 2 * c <= (2 + k) * c
      BY SMT
    <3> QED
      BY <3>1, <3>2
  <2>3. clock' <= LastPoll + 2 * CallTime
    BY <1>1, <1>3, CallsTakeTime DEF Budget, LastPoll
  <2>4. (2 + (MaxPods - n)) * CallTime \in Nat
    BY CallsTakeTime
  <2>5. clock' <= LastPoll + (2 + MaxPods) * CallTime /\ clock' <= LastPoll + (2 + (MaxPods - n)) * CallTime
    BY <1>1, <2>2, <2>3, <2>4, CallsTakeTime DEF LastPoll
  <2>6. Budget'
    BY <1>1, <1>3, <2>5 DEF Budget, WithinBudget, LastPoll
  <2> QED
    BY <2>1, <2>6
<1>4. CASE stage = "logs" /\ pods > 0 /\ pods' = pods - 1 /\ UNCHANGED stage
  <2>1. WaitTypeOK' /\ Earned' /\ Diagnosing'
    BY <1>1, <1>4 DEF WaitTypeOK, Earned, OnlyAfterSuccess, Diagnosing, SubIds, CSVs
  <2> DEFINE k == 2 + (MaxPods - pods)
  <2>2. k \in Nat /\ k + 1 <= 2 + MaxPods /\ 2 + (MaxPods - (pods - 1)) = k + 1 /\ k + 1 \in Nat
    BY <1>4 DEF WaitTypeOK
  <2>3. clock <= LastPoll + k * CallTime
    BY <1>4 DEF Budget
  <2> HIDE DEF k
  <2>4. /\ k * CallTime \in Nat /\ (k + 1) * CallTime = k * CallTime + CallTime
        /\ (k + 1) * CallTime <= (2 + MaxPods) * CallTime
    BY <2>2, CallsTakeTime
  <2>5. clock' <= LastPoll + (k + 1) * CallTime /\ clock' <= LastPoll + (2 + MaxPods) * CallTime
    BY <1>1, <2>3, <2>4, CallsTakeTime DEF LastPoll
  <2>6. Budget'
    BY <1>1, <1>4, <2>2, <2>5 DEF Budget, WithinBudget, LastPoll
  <2> QED
    BY <2>1, <2>6
<1> QED
  BY <1>2, <1>3, <1>4 DEF Diagnose

\* The error they precede.
LEMMA GiveUpKeeps ==
  ASSUME WaitIInv, GiveUp
  PROVE  WaitIInv'
<1> USE DEF WaitIInv, GiveUp, olm, diagnosis
<1>1. stage' \in {"timeout", "csvFailed"}
  BY DEF Diagnosing
<1>2. WaitTypeOK'
  BY <1>1 DEF WaitTypeOK, Over
<1>3. Budget' /\ Earned' /\ Diagnosing'
  BY <1>1 DEF Budget, WithinBudget, Earned, OnlyAfterSuccess, Diagnosing
<1> QED
  BY <1>2, <1>3

\* And so does whatever the lifecycle manager does to one subscription.
LEMMA OlmKeeps ==
  ASSUME WaitIInv, NEW s \in SubIds, InstallNext(s) \/ Retry(s) \/ \E p \in {"Succeeded", "Failed"} : Progress(s, p)
  PROVE  WaitIInv'
<1> USE SubsAssumption, TimeAssumption, PodsAssumption, CallsTakeTime
    DEF WaitIInv, SubIds, CSVs, diagnosis
<1>1. PICK inst \in CSVs, ph \in [CSVs -> Phases] :
          /\ OlmStep(s, inst, ph)
          /\ \A c \in CSVs \ {inst} : ph[c] \in {"absent", phase[s][c]}
  <2>1. CASE InstallNext(s)
    <3>1. installed[s] + 1 \in CSVs
      BY <2>1 DEF InstallNext, WaitTypeOK
    <3> QED
      BY <2>1, <3>1 DEF InstallNext, Phases
  <2>2. ASSUME NEW p \in Phases, installed[s] # 0,
               OlmStep(s, installed[s], [phase[s] EXCEPT ![installed[s]] = p])
        PROVE  \E inst \in CSVs, ph \in [CSVs -> Phases] :
                 /\ OlmStep(s, inst, ph)
                 /\ \A c \in CSVs \ {inst} : ph[c] \in {"absent", phase[s][c]}
    <3> DEFINE next == [phase[s] EXCEPT ![installed[s]] = p]
    <3>1. installed[s] \in CSVs /\ phase[s] \in [CSVs -> Phases]
      BY <2>2 DEF WaitTypeOK
    <3>2. next \in [CSVs -> Phases] /\ \A c \in CSVs \ {installed[s]} : next[c] = phase[s][c]
      BY <3>1
    <3> QED
      BY <2>2, <3>1, <3>2
  <2>3. CASE Retry(s)
    BY <2>2, <2>3 DEF Retry, Phases
  <2>4. CASE \E p \in {"Succeeded", "Failed"} : Progress(s, p)
    BY <2>2, <2>4 DEF Progress, Phases
  <2> QED
    BY <2>1, <2>3, <2>4
<1>2. /\ stage \notin Over /\ UNCHANGED <<stage, clock, deadline, sub, csv, verdict, pods>>
      /\ installed' = [installed EXCEPT ![s] = inst] /\ phase' = [phase EXCEPT ![s] = ph]
      /\ good' = IF inst # 0 /\ ph[inst] = "Succeeded" THEN good \cup {s} ELSE good
  BY <1>1 DEF OlmStep
<1>3. WaitTypeOK' /\ Budget'
  BY <1>1, <1>2 DEF WaitTypeOK, Phases, Over, Budget, WithinBudget, LastPoll
<1>4. Earned' /\ Diagnosing'
  <2>1. good \subseteq good'
    BY <1>2
  <2>2. ASSUME NEW t \in SubIds, NEW c \in CSVs, phase'[t][c] = "Succeeded"
        PROVE  t \in good'
    <3>1. CASE t # s
      BY <1>2, <2>1, <2>2, <3>1 DEF Earned, WaitTypeOK
    <3>2. CASE t = s /\ c = inst
      BY <1>1, <1>2, <2>2, <3>2 DEF WaitTypeOK
    <3>3. CASE t = s /\ c # inst
      BY <1>1, <1>2, <2>1, <2>2, <3>3 DEF Earned, WaitTypeOK
    <3> QED
      BY <3>1, <3>2, <3>3
  <2> QED
    BY <1>2, <2>1, <2>2 DEF Earned, OnlyAfterSuccess, Diagnosing
<1> QED
  BY <1>3, <1>4

\* Every step of the wait and of the cluster keeps the invariant.
LEMMA NextWaitIInv == WaitIInv /\ [WaitNext]_waitVars => WaitIInv'
<1> SUFFICES ASSUME WaitIInv, [WaitNext]_waitVars PROVE WaitIInv'
  OBVIOUS
<1>1. CASE TimedOut \/ GiveUp
  BY <1>1, TimedOutKeeps, GiveUpKeeps
<1>6. CASE \E d \in 0..CallTime, n \in 0..MaxPods : Diagnose(d, n)
  BY <1>6, DiagnoseKeeps
<1>2. CASE \E d \in 0..CallTime, found \in BOOLEAN : Resolve(d, found)
  BY <1>2, ResolveKeeps
<1>3. CASE \E d \in 0..CallTime, a \in {"absent", "Installing", "Succeeded", "Failed", "error"} : CheckCSV(d, a)
  BY <1>3, CheckCSVKeeps
<1>4. CASE LifecycleManager
  BY <1>4, OlmKeeps DEF LifecycleManager
<1>5. CASE UNCHANGED waitVars
  BY <1>5 DEF waitVars, olm, diagnosis, WaitIInv, WaitTypeOK, Budget, WithinBudget, Earned, OnlyAfterSuccess,
              Diagnosing
<1> QED
  BY <1>1, <1>2, <1>3, <1>4, <1>5, <1>6 DEF WaitNext, Wait

\* The type invariant of the wait, for any subscriptions, versions and budget.
THEOREM WaitTypeCorrect == WaitSpec => []WaitTypeOK
<1>1. WaitIInv => WaitTypeOK
  BY DEF WaitIInv
<1> QED
  BY <1>1, InitWaitIInv, NextWaitIInv, PTL DEF WaitSpec

\* However many subscriptions there are and whatever becomes of them, the wait
\* takes a success only within its budget, and it is over one call, one sleep and
\* the diagnostics of one CSV after it (wait.go, WaitForSubscriptions,
\* surfaceCSVDiagnostics).
THEOREM BudgetHolds == WaitSpec => []WithinBudget
<1>1. WaitIInv => WithinBudget
  BY DEF WaitIInv, Budget
<1> QED
  BY <1>1, InitWaitIInv, NextWaitIInv, PTL DEF WaitSpec

\* The wait reports success only when each subscription had a CSV that Succeeded
\* while it lasted (wait.go, waitOne).
THEOREM SuccessIsEarned == WaitSpec => []OnlyAfterSuccess
<1>1. WaitIInv => OnlyAfterSuccess
  BY DEF WaitIInv, Earned
<1> QED
  BY <1>1, InitWaitIInv, NextWaitIInv, PTL DEF WaitSpec
===============================================================================
