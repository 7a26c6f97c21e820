---------------------------- MODULE SubscriptionWait ----------------------------
(***************************************************************************)
(* WaitForSubscriptions (internal/gitops/cluster/wait.go), behind `wait    *)
(* gitops` and --wait-crds: one subscription after the other, first until  *)
(* it names an installed CSV, then until that CSV is Succeeded, all within *)
(* one deadline.  A CSV that failed or was waited for in vain is diagnosed *)
(* before the wait ends: its phase, and the logs of its pods.  The         *)
(* operator lifecycle manager resolves, installs, fails and upgrades       *)
(* meanwhile.  Time is a clock the calls and sleeps advance.               *)
(***************************************************************************)
EXTENDS Integers

CONSTANTS Subs,     \* number of subscriptions to wait for
          Versions, \* CSVs a subscription may go through
          Timeout, Interval, \* WaitOptions
          CallTime, \* bound: how long one call to the cluster takes
          MaxPods   \* bound: pods a CSV owns

ASSUME SubsAssumption == Subs \in Nat \ {0} /\ Versions \in Nat \ {0}
ASSUME TimeAssumption ==
  Timeout \in Nat \ {0} /\ Interval \in Nat \ {0} /\ CallTime \in Nat
ASSUME PodsAssumption == MaxPods \in Nat

VARIABLES
  stage,     \* "resolve" and "csv" are the heads of the two loops of waitOne,
             \* "show", "list" and "logs" the calls of surfaceCSVDiagnostics
  clock,     \* since the wait began
  deadline,
  sub,       \* the subscription waitOne is at
  csv,       \* the CSV it resolved to
  verdict,   \* what waitOne returns after the diagnostics
  pods,      \* pods whose logs they have still to show
  installed, \* cluster: subscription -> status.installedCSV, 0 if none
  phase,     \* cluster: subscription -> CSV -> its phase, "absent" if it is not there
  good       \* ghost: subscriptions one of whose CSVs was Succeeded during the wait

olm == <<installed, phase>>
diagnosis == <<verdict, pods>>
waitVars == <<stage, clock, deadline, sub, csv, diagnosis, olm, good>>

SubIds == 1..Subs
CSVs == 1..Versions
Succeeded(s) == installed[s] # 0 /\ phase[s][installed[s]] = "Succeeded"

WaitInit ==
  /\ stage = "resolve" /\ clock = 0 /\ deadline = Timeout
  /\ sub = 1 /\ csv = 0
  /\ verdict = "none" /\ pods = 0
  /\ installed = [s \in SubIds |-> 0]
  /\ phase = [s \in SubIds |-> [c \in CSVs |-> "absent"]]
  /\ good = {}

\* waitOne returns an error about a CSV, its diagnostics first.
Diagnosed(outcome) == stage' = "show" /\ verdict' = outcome /\ UNCHANGED pods

\* Mutant of TimedOut: the second loop does not look at the clock.
TimedOutFirstLoop ==
  /\ stage = "resolve"
  /\ clock > deadline
  /\ stage' = "timeout"
  /\ UNCHANGED <<clock, deadline, sub, csv, diagnosis, olm, good>>

\* The head of either loop: give up once the deadline is past, in the second
\* with diagnostics.
TimedOut ==
  /\ clock > deadline
  /\ \/ stage = "resolve" /\ stage' = "timeout" /\ UNCHANGED diagnosis
     \/ stage = "csv" /\ Diagnosed("timeout")
  /\ UNCHANGED <<clock, deadline, sub, csv, olm, good>>

\* `get subscription`: an installed CSV ends the loop, an error or none sleeps.
Resolve(d, found) ==
  /\ stage = "resolve"
  /\ clock <= deadline
  /\ IF found
       THEN /\ installed[sub] # 0
            /\ csv' = installed[sub] /\ stage' = "csv"
            /\ clock' = clock + d
       ELSE /\ clock' = clock + d + Interval
            /\ UNCHANGED <<csv, stage>>
  /\ UNCHANGED <<deadline, sub, diagnosis, olm, good>>

\* Mutant of NextSub: every subscription gets the whole budget.
NextSubRearms ==
  /\ deadline' = clock' + Timeout
  /\ IF sub = Subs THEN stage' = "ok" /\ UNCHANGED sub
                   ELSE stage' = "resolve" /\ sub' = sub + 1

\* waitOne is through: on to the next subscription, with the same deadline.
NextSub ==
  /\ UNCHANGED deadline
  /\ IF sub = Subs THEN stage' = "ok" /\ UNCHANGED sub
                   ELSE stage' = "resolve" /\ sub' = sub + 1

\* `get csv`: Succeeded is success, Failed is failure, anything else sleeps.
CheckCSV(d, answer) ==
  /\ stage = "csv"
  /\ clock <= deadline
  /\ answer \in {phase[sub][csv], "error"}
  /\ \/ /\ answer = "Succeeded"
        /\ clock' = clock + d
        /\ NextSub
        /\ UNCHANGED diagnosis
     \/ /\ answer = "Failed"
        /\ clock' = clock + d
        /\ Diagnosed("csvFailed")
        /\ UNCHANGED <<deadline, sub>>
     \/ /\ answer \notin {"Succeeded", "Failed"}
        /\ clock' = clock + d + Interval
        /\ UNCHANGED <<stage, deadline, sub, diagnosis>>
  /\ UNCHANGED <<csv, olm, good>>

\* surfaceCSVDiagnostics: the CSV once more, the pods it owns (none if the call
\* fails), and the log of each; what the calls answer is only printed.
Diagnose(d, n) ==
  /\ \/ stage = "show" /\ stage' = "list" /\ UNCHANGED pods
     \/ stage = "list" /\ stage' = "logs" /\ pods' = n
     \/ stage = "logs" /\ pods > 0 /\ pods' = pods - 1 /\ UNCHANGED stage
  /\ clock' = clock + d
  /\ UNCHANGED <<deadline, sub, csv, verdict, olm, good>>

\* ... and the error.
GiveUp ==
  /\ stage = "logs" /\ pods = 0
  /\ stage' = verdict
  /\ UNCHANGED <<clock, deadline, sub, csv, diagnosis, olm, good>>

-------------------------------------------------------------------------------
(* The lifecycle manager.                                                   *)
Over == {"ok", "timeout", "csvFailed"}

OlmStep(s, inst, ph) ==
  /\ stage \notin Over
  /\ installed' = [installed EXCEPT ![s] = inst]
  /\ phase' = [phase EXCEPT ![s] = ph]
  /\ good' = IF inst # 0 /\ ph[inst] = "Succeeded" THEN good \cup {s} ELSE good
  /\ UNCHANGED <<stage, clock, deadline, sub, csv, diagnosis>>

\* The first CSV, or the next one, which replaces an installed one in any phase.
InstallNext(s) ==
  /\ installed[s] < Versions
  /\ OlmStep(s, installed[s] + 1,
             [c \in CSVs |-> IF c = installed[s] + 1 THEN "Installing" ELSE "absent"])

Progress(s, p) ==
  /\ installed[s] # 0
  /\ phase[s][installed[s]] = "Installing"
  /\ p \in {"Succeeded", "Failed"}
  /\ OlmStep(s, installed[s], [phase[s] EXCEPT ![installed[s]] = p])

Retry(s) ==
  /\ installed[s] # 0
  /\ phase[s][installed[s]] = "Failed"
  /\ OlmStep(s, installed[s], [phase[s] EXCEPT ![installed[s]] = "Installing"])

Wait ==
  \/ TimedOut \/ GiveUp
  \/ \E d \in 0..CallTime : \/ \E n \in 0..MaxPods : Diagnose(d, n)
                            \/ \E found \in BOOLEAN : Resolve(d, found)
                            \/ \E a \in {"absent", "Installing", "Succeeded", "Failed", "error"} :
                                 CheckCSV(d, a)

LifecycleManager ==
  \E s \in SubIds : \/ InstallNext(s) \/ Retry(s)
                    \/ \E p \in {"Succeeded", "Failed"} : Progress(s, p)

WaitNext == Wait \/ LifecycleManager

WaitSpec == WaitInit /\ [][WaitNext]_waitVars

\* The loop runs on: calls return and sleeps end.
FairWaitSpec == WaitSpec /\ WF_waitVars(Wait)

-------------------------------------------------------------------------------
Phases == {"absent", "Installing", "Succeeded", "Failed"}

WaitTypeOK ==
  /\ stage \in {"resolve", "csv", "show", "list", "logs"} \cup Over
  /\ clock \in Nat /\ deadline \in Nat
  /\ sub \in SubIds
  /\ csv \in 0..Versions
  /\ verdict \in {"none", "timeout", "csvFailed"}
  /\ pods \in 0..MaxPods
  /\ installed \in [SubIds -> 0..Versions]
  /\ phase \in [SubIds -> [CSVs -> Phases]]
  /\ good \subseteq SubIds

(* "overall wait budget across all subscriptions": however many there are,  *)
(* the wait looks for a success only within the budget, and it is over one  *)
(* call, one sleep and the diagnostics of one CSV after it at the latest.   *)
WithinBudget ==
  /\ stage = "ok" => clock <= Timeout + CallTime
  /\ stage \in {"resolve", "csv"} => clock <= Timeout + CallTime + Interval
  /\ clock <= Timeout + CallTime + Interval + (2 + MaxPods) * CallTime

(* Success says of every subscription that a CSV of it was Succeeded at     *)
(* some time of the wait.                                                   *)
OnlyAfterSuccess == stage = "ok" => good = SubIds

(* The wait ends, whatever the lifecycle manager does.                      *)
Ends == <>(stage \in Over)

-------------------------------------------------------------------------------
(* "Block until OLM subscriptions referenced by <name> have Succeeded CSVs" *)
(* (gitops_lifecycle.go:30): when the wait succeeds, they have.             *)
SucceededAtTheEnd == [][stage # "ok" /\ stage' = "ok" => \A s \in SubIds : Succeeded(s)]_waitVars
===============================================================================
