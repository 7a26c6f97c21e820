----------------------------- MODULE BootstrapApply -----------------------------
(***************************************************************************)
(* ApplyBootstrapOnly (internal/gitops/workflow/apply.go): one command     *)
(* walks the bootstrap subset in (wave, instance) order.  Each unit goes   *)
(* through `apply -k` (a second pass after a CRD wait when the first       *)
(* fails), the SRC's CLI when an SRC owns it, and a subscription wait when *)
(* it installs an operator; between two waves the readiness targets of the *)
(* finished wave are waited for, best effort.  The command may fail        *)
(* anywhere, be killed, be a dry run, and be run again; the cluster keeps  *)
(* what was applied.                                                       *)
(***************************************************************************)
EXTENDS Integers, FiniteSets

CONSTANTS Units,     \* resolved units, numbered in instance-name order
          Direct,    \* BootstrapSubset: installs, controller-bound, KRC/SRC
          Wave,      \* unit -> applyWave
          DependsOn, \* unit -> units its dependsOn names
          SRCIntent, \* SRC-owned, the SRC CLI declares their intent
          SRCOnly,   \* SRC-owned, the CLI's default invocation
          Gated,     \* units with a readiness target
          Olm,       \* units of the OLM renderer that name a namespace
          Needs,     \* unit -> CRDs its manifests use
          Brings,    \* unit -> CRDs that get established once it is applied
          WaitCRDs,  \* --wait-crds
          MaxRuns    \* bound: how often the command is started

ASSUME UnitsAssumption == Units \subseteq Nat /\ Direct \subseteq Units /\ Direct # {}
ASSUME WaveAssumption == Wave \in [Units -> Nat]
ASSUME KindsAssumption ==
  /\ SRCIntent \subseteq Direct /\ SRCOnly \subseteq Direct
  /\ SRCIntent \cap SRCOnly = {}
  /\ Gated \subseteq Units /\ Olm \subseteq Units

VARIABLES
  pc,      \* where the command is
  dry,     \* --dry-run
  todo,    \* planned units not finished in this run
  cur,     \* the unit being applied
  wave,    \* currentWave
  gates,   \* waveReady: units whose readiness target is to be waited for
  runs,    \* commands started so far
  applied, \* cluster: unit -> "none", "partial" or "full"
  invoked, \* cluster: units the SRC CLI was run for with success
  crds,    \* cluster: established CRDs
  handed   \* ghost: a run that was not dry announced the handoff

command == <<dry, runs>>
cluster == <<applied, invoked, crds>>
vars == <<pc, dry, todo, cur, wave, gates, runs, applied, invoked, crds, handed>>

CRDs == UNION {Needs[u] \cup Brings[u] : u \in Units}
Ended == {"idle", "done", "failed"}

\* SortPlan: by wave, then by instance name.
\* Mutant: by instance name only.
BeforeByName(u, v) == u <= v

Before(u, v) == Wave[u] < Wave[v] \/ (Wave[u] = Wave[v] /\ u <= v)

IsNext(u) == u \in todo /\ \A v \in todo : Before(u, v)

Init ==
  /\ pc = "idle" /\ dry = FALSE /\ todo = {} /\ wave = -1 /\ gates = {} /\ runs = 0
  /\ cur = CHOOSE u \in Direct : TRUE
  /\ applied = [u \in Units |-> "none"]
  /\ invoked = {} /\ crds = {} /\ handed = FALSE

Start(d) ==
  /\ pc \in Ended
  /\ runs < MaxRuns
  /\ pc' = "loop" /\ dry' = d /\ todo' = Direct /\ wave' = -1 /\ gates' = {}
  /\ runs' = runs + 1
  /\ UNCHANGED <<cur, cluster, handed>>

\* A new wave begins, or the plan is through: wait for the last wave's targets.
EnterGate ==
  /\ pc = "loop"
  /\ ~ dry
  /\ gates # {}
  /\ \A u \in todo : IsNext(u) => Wave[u] # wave
  /\ pc' = "gate"
  /\ UNCHANGED <<command, todo, cur, wave, gates, cluster, handed>>

\* `wait --for=condition` on one target succeeds, or is given up ("continuing").
GateTarget(u) ==
  /\ pc = "gate"
  /\ u \in gates
  /\ gates' = gates \ {u}
  /\ pc' = IF gates' = {} THEN "loop" ELSE "gate"
  /\ UNCHANGED <<command, todo, cur, wave, cluster, handed>>

NextUnit(u) ==
  /\ pc = "loop"
  /\ IsNext(u)
  /\ Wave[u] = wave \/ dry \/ gates = {}
  /\ cur' = u
  /\ wave' = Wave[u]
  /\ gates' = IF Wave[u] = wave THEN gates ELSE {}
  /\ pc' = IF u \in SRCOnly THEN "cli" ELSE "pass1"
  /\ UNCHANGED <<command, todo, cluster, handed>>

AfterApply(u) == IF u \in SRCIntent THEN "cli" ELSE "settle"

\* `apply -k` (or the KRC's dry-run intent) succeeds: every kind it uses is known.
ApplyOk(u) ==
  /\ pc \in {"pass1", "pass2"} /\ u = cur
  /\ Needs[u] \subseteq crds
  /\ applied' = IF dry THEN applied ELSE [applied EXCEPT ![u] = "full"]
  /\ pc' = AfterApply(u)
  /\ UNCHANGED <<command, todo, cur, wave, gates, invoked, crds, handed>>

\* Mutant of ApplyFails: an error of pass 2 is dropped.
ApplyFailsUnnoticed(u) ==
  /\ pc \in {"pass1", "pass2"} /\ u = cur
  /\ applied' \in {applied,
                   IF dry \/ applied[u] = "full" THEN applied
                   ELSE [applied EXCEPT ![u] = "partial"]}
  /\ pc' = IF pc = "pass1" /\ ~ dry THEN "crdwait" ELSE AfterApply(u)
  /\ UNCHANGED <<command, todo, cur, wave, gates, invoked, crds, handed>>

\* It fails, for a missing kind or any other reason; some of the unit's objects
\* may have been created.  Pass 2, or a dry run, has no further try.
ApplyFails(u) ==
  /\ pc \in {"pass1", "pass2"} /\ u = cur
  /\ applied' \in {applied,
                   IF dry \/ applied[u] = "full" THEN applied
                   ELSE [applied EXCEPT ![u] = "partial"]}
  /\ pc' = IF pc = "pass1" /\ ~ dry THEN "crdwait" ELSE "failed"
  /\ UNCHANGED <<command, todo, cur, wave, gates, invoked, crds, handed>>

\* WaitForCRDsEstablished returns: all established, none there, or timed out.
CRDWaitOver ==
  /\ pc = "crdwait"
  /\ pc' = "pass2"
  /\ UNCHANGED <<command, todo, cur, wave, gates, cluster, handed>>

\* invokeSRCCliWithArgs: run the SRC's binary, or say what a dry run skips.
InvokeCLI(u) ==
  /\ pc = "cli" /\ u = cur
  /\ invoked' = IF dry THEN invoked ELSE invoked \cup {u}
  /\ pc' = "settle"
  /\ UNCHANGED <<command, todo, cur, wave, gates, applied, crds, handed>>

\* The unit is through; queue its readiness target, wait for its operator.
Settle(u) ==
  /\ pc = "settle" /\ u = cur
  /\ gates' = gates \cup ({u} \cap Gated)
  /\ IF WaitCRDs /\ ~ dry /\ u \in Olm
       THEN pc' = "subwait" /\ UNCHANGED todo
       ELSE pc' = "loop" /\ todo' = todo \ {u}
  /\ UNCHANGED <<command, cur, wave, cluster, handed>>

\* WaitForSubscriptions returns: the operator's CSV Succeeded, so its CRDs exist.
Subscribed(u) ==
  /\ pc = "subwait" /\ u = cur
  /\ Brings[u] \subseteq crds
  /\ pc' = "loop" /\ todo' = todo \ {u}
  /\ UNCHANGED <<command, cur, wave, gates, cluster, handed>>

\* Mutant of SubscriptionTimeout: every poll starts the deadline anew.
TimeoutRearmed ==
  /\ pc = "subwait"
  /\ pc' = "subwait"
  /\ UNCHANGED <<command, todo, cur, wave, gates, cluster, handed>>

\* ... or the deadline passed, or the CSV Failed.
SubscriptionTimeout ==
  /\ pc = "subwait"
  /\ pc' = "failed"
  /\ UNCHANGED <<command, todo, cur, wave, gates, cluster, handed>>

\* An error return (no SRC binary, unit not rendered, SRC CLI failed) or the
\* process is killed.
Stop ==
  /\ pc \notin Ended
  /\ pc' = "failed"
  /\ UNCHANGED <<command, todo, cur, wave, gates, cluster, handed>>

\* Mutant of Finish: the last wave is not waited for, failed or not.
FinishEarly ==
  /\ pc = "loop"
  /\ pc' = "done"
  /\ handed' = (handed \/ ~ dry)
  /\ UNCHANGED <<command, todo, cur, wave, gates, cluster>>

\* "bootstrap complete; handoff to in-cluster KRC/SRC."
Finish ==
  /\ pc = "loop"
  /\ todo = {}
  /\ dry \/ gates = {}
  /\ pc' = "done"
  /\ handed' = (handed \/ ~ dry)
  /\ UNCHANGED <<command, todo, cur, wave, gates, cluster>>

\* The cluster: CRDs of what was applied get established, and once handed over
\* the KRC applies the units left to it.
Establish(u, c) ==
  /\ c \in Brings[u] /\ applied[u] # "none"
  /\ crds' = crds \cup {c}
  /\ UNCHANGED <<pc, command, todo, cur, wave, gates, applied, invoked, handed>>

KRCApplies(u) ==
  /\ handed
  /\ u \in Units \ Direct
  /\ applied' = [applied EXCEPT ![u] = "full"]
  /\ UNCHANGED <<pc, command, todo, cur, wave, gates, invoked, crds, handed>>

Step ==
  \/ EnterGate \/ CRDWaitOver \/ SubscriptionTimeout \/ Finish
  \/ \E u \in Direct : \/ GateTarget(u) \/ NextUnit(u) \/ ApplyOk(u) \/ ApplyFails(u)
                       \/ InvokeCLI(u) \/ Settle(u) \/ Subscribed(u)

Cluster ==
  \E u \in Units : KRCApplies(u) \/ \E c \in CRDs : Establish(u, c)

Next == Step \/ Stop \/ Cluster \/ \E d \in BOOLEAN : Start(d)

Spec == Init /\ [][Next]_vars

\* Every wait of the command has a deadline and every call it makes returns.
FairSpec == Spec /\ WF_vars(Step)

-------------------------------------------------------------------------------
PCs == Ended \cup {"loop", "gate", "pass1", "crdwait", "pass2", "cli", "settle", "subwait"}

TypeOK ==
  /\ pc \in PCs
  /\ dry \in BOOLEAN
  /\ todo \subseteq Direct
  /\ cur \in Direct
  /\ wave \in Nat \cup {-1}
  /\ gates \subseteq Direct \cap Gated
  /\ runs \in Nat
  /\ applied \in [Units -> {"none", "partial", "full"}]
  /\ invoked \subseteq Direct
  /\ crds \subseteq CRDs
  /\ handed \in BOOLEAN

\* The unit's manifests and, for the SRC's units, its CLI went through.
Landed == {u \in Direct : /\ u \notin SRCOnly => applied[u] = "full"
                          /\ u \in SRCIntent \cup SRCOnly => u \in invoked}

\* Something of the unit may be on the cluster.
Touched(u) == applied[u] # "none" \/ u \in invoked

(* Nothing of a wave is on the cluster before every unit of the waves below *)
(* has landed: across failed passes, kills and re-runs, dry ones included.  *)
WaveBarrier ==
  \A u, v \in Direct : Wave[u] < Wave[v] /\ Touched(v) => u \in Landed

(* The SRC's CLI is given a unit with a bootstrap-sync intent only once its *)
(* manifests are applied.                                                   *)
ManifestBeforeCLI ==
  \A u \in SRCIntent : u \in invoked => applied[u] = "full"

(* "handoff after direct set succeeds": the handoff is announced only with  *)
(* the whole bootstrap subset on the cluster.                               *)
HandoffAfterDirectSet == handed => Landed = Direct

(* A dry run leaves the cluster alone, the SRC's CLI included.              *)
DryRunTouchesNothing ==
  [][dry /\ pc \notin Ended =>
       invoked' = invoked /\ \A u \in Direct : applied'[u] = applied[u]]_vars

(* No readiness target is forgotten: it leaves the list by being waited     *)
(* for, and the handoff is not announced while one is left.                 *)
NoTargetDropped ==
  [][pc \notin Ended /\ ~ dry =>
       /\ gates \ gates' # {} => pc = "gate"
       /\ pc' = "done" => gates' = {}]_vars

(* The command ends, whatever the cluster does.                             *)
Terminates == (pc \notin Ended) ~> (pc \in Ended)

(* Every step of the command and of the cluster is a step of OrderedApply.  *)
Promise == INSTANCE OrderedApply WITH landed <- Landed, handedOff <- handed

ImplementsOrderedApply == Promise!Spec

-------------------------------------------------------------------------------
(* "wave gate skipped ... (continuing; dependsOn ordering is still          *)
(* authoritative)" (apply.go:261): a unit is applied after the units its    *)
(* dependsOn names.                                                         *)
DependsOnAuthoritative ==
  \A v \in Direct : \A u \in DependsOn[v] :
    Touched(v) => u \in Landed \/ applied[u] = "full"
===============================================================================
