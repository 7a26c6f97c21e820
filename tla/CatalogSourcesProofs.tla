------------------------- MODULE CatalogSourcesProofs -------------------------
(***************************************************************************)
(* For any number of terminals, commands, commits and OCI sources: what a  *)
(* calm git source resolves to is the commit its ref names, and a catalog  *)
(* that is built has every package of its last OCI source.                 *)
(*                                                                         *)
(* GitInv says where the clone directory stands at every label of the one  *)
(* session that runs while it is calm; OciInv that a package leaves *)
(* the list of pulls only with its package.yaml in the cache.              *)
(***************************************************************************)
EXTENDS CatalogSources, TLAPS

-------------------------------------------------------------------------------
(* The git source.                                                          *)

\* As long as it is calm one session is running.
OneTerminal == \A s, t \in Sessions : pc[s] \notin Resting /\ pc[t] \notin Resting => s = t
AllRest == \A s \in Sessions : pc[s] \in Resting

\* A shallow clone is only made of what --branch names.
ShallowRefs == \A s \in Sessions : pc[s] = "shallow" => ref.is \in {"tag", "branch"}

\* The directory holds nothing, or the worktree of the ref.
Clean == dest = Absent \/ dest.tree = at

\* Where the directory stands when session s is at its label.
Stands(s) ==
  /\ pc[s] = "stat" => Clean
  /\ pc[s] \in {"clone", "remove", "full"} => dest = Absent
  /\ pc[s] \in {"shallow", "fullclone"} => dest.by = s
  /\ pc[s] = "checkout" => dest.git
  /\ pc[s] \in {"verify", "root"} => dest.tree = at

Pinned == ref.is \in {"tag", "commit"}

GitInv ==
  /\ TypeOK
  /\ ShallowRefs
  /\ Pinned => at # 0
  /\ calm => OneTerminal
  /\ calm /\ Pinned => \A s \in Sessions : Stands(s)
  /\ calm /\ Pinned /\ AllRest => Clean

(* Init establishes the invariant.                                          *)
LEMMA InitGitInv == Init => GitInv
<1> SUFFICES ASSUME Init PROVE GitInv
  OBVIOUS
<1>1. tip = 1 /\ 1 \in Commits /\ at \in 0..MaxCommits
  BY GitAssumption DEF Init, Commits
<1>2. TypeOK
  BY <1>1, GitAssumption DEF Init, TypeOK, Absent, Labels, Resting, Part, Commits
<1>3. QED
  BY <1>2 DEF Init, GitInv, ShallowRefs, Pinned, OneTerminal, Clean, Stands, Resting

(* A session is at one label after its step, the others where they were.    *)
LEMMA GotoTyped ==
  ASSUME TypeOK, NEW s \in Sessions, NEW l \in Labels, Goto(s, l)
  PROVE  /\ pc' \in [Sessions -> Labels]
         /\ pc'[s] = l /\ \A t \in Sessions \ {s} : pc'[t] = pc[t]
  BY DEF TypeOK, Goto

(* The labels and what a clone directory can be.                            *)
Dests == [git : BOOLEAN, refs : SUBSET {"tag", "branch"}, tree : 0..MaxCommits,
          by : Sessions \cup {0}]

LEMMA AbsentTyped == Absent \in Dests
  BY GitAssumption DEF Absent, Dests

(* A step types the directory, the label and the commit loaded.             *)
LEMMA TypedStep ==
  ASSUME TypeOK, NEW s \in Sessions, NEW l \in Labels, Goto(s, l),
         dest' \in Dests, ~ dest'.git => dest' = Absent,
         l # "loaded", got' = [got EXCEPT ![s] = 0] \/ (pc[s] # "loaded" /\ got' = got),
         cmds' \in 0..MaxCmds, calm' \in BOOLEAN, UNCHANGED <<ref, at, tip>>
  PROVE  TypeOK'
<1>1. /\ pc' \in [Sessions -> Labels]
      /\ pc'[s] = l /\ \A t \in Sessions \ {s} : pc'[t] = pc[t]
  BY GotoTyped
<1>2. got' \in [Sessions -> 0..Part]
  BY GitAssumption DEF TypeOK, Part
<1>3. got'[s] = 0 /\ \A t \in Sessions \ {s} : got'[t] = got[t]
  BY DEF TypeOK
<1>4. \A t \in Sessions : pc'[t] = "loaded" <=> got'[t] # 0
  BY <1>1, <1>3 DEF TypeOK
<1>5. QED
  BY <1>1, <1>2, <1>4 DEF TypeOK, Dests

(* Every step keeps the types and makes shallow clones of named refs only.  *)
LEMMA NextTyped ==
  ASSUME TypeOK, ShallowRefs, [Next]_vars
  PROVE  TypeOK' /\ ShallowRefs'
<1> USE DEF Labels, Resting
<1>1. ASSUME NEW s \in Sessions, NEW l \in Labels, Goto(s, l), UNCHANGED ref,
             l = "shallow" => ref.is \in {"tag", "branch"}
      PROVE  ShallowRefs'
  BY <1>1, GotoTyped DEF ShallowRefs
<1>2. CASE UpstreamPush
  <2>1. tip' \in Commits /\ at' \in 0..MaxCommits
    BY <1>2, GitAssumption DEF UpstreamPush, TypeOK, Commits
  <2>2. UNCHANGED <<ref, dest, pc, got, cmds, calm>>
    BY <1>2 DEF UpstreamPush
  <2>3. QED
    BY <2>1, <2>2 DEF TypeOK, ShallowRefs
<1>3. CASE Wipe
  <2>1. dest' = Absent /\ calm' = TRUE /\ UNCHANGED <<ref, at, tip, pc, got, cmds>>
    BY <1>3 DEF Wipe
  <2>2. QED
    BY <2>1, AbsentTyped DEF TypeOK, ShallowRefs, Dests
<1>4. ASSUME NEW s \in Sessions, Start(s)
      PROVE  TypeOK' /\ ShallowRefs'
  <2> DEFINE l == IF RejectBranchRef(ref) THEN "refused" ELSE "stat"
  <2>1. cmds' \in 0..MaxCmds
    BY <1>4, GitAssumption DEF Start, TypeOK
  <2>2. calm' \in BOOLEAN
    <3>1. calm' = (calm /\ Alone(s))
      BY <1>4 DEF Start
    <3>2. QED
      BY <3>1, Zenon DEF TypeOK
  <2>3. /\ Goto(s, l) /\ got' = [got EXCEPT ![s] = 0]
        /\ UNCHANGED <<ref, at, tip, dest>>
    BY <1>4 DEF Start
  <2>4. dest' \in Dests /\ (~ dest'.git => dest' = Absent)
    BY <2>3 DEF TypeOK, Dests
  <2>5. l \in {"refused", "stat"}
    OBVIOUS
  <2> HIDE DEF l
  <2>6. QED
    BY <2>1, <2>2, <2>3, <2>4, <2>5, <1>1, TypedStep
<1>5. ASSUME NEW s \in Sessions,
             Stat(s) \/ CloneShallow(s) \/ CloneShallowEnd(s) \/ RemoveAll(s)
               \/ CloneFull(s) \/ CloneFullEnd(s) \/ Checkout(s) \/ Verify(s)
      PROVE  TypeOK' /\ ShallowRefs'
  <2>1. /\ pc[s] # "loaded" /\ UNCHANGED <<ref, at, tip, got, cmds>> /\ calm' \in {calm, FALSE}
    BY <1>5 DEF Stat, CloneShallow, CloneShallowEnd, RemoveAll, CloneFull, CloneFullEnd,
                Checkout, Verify
  <2>2. \E l \in Labels \ {"loaded"} :
          Goto(s, l) /\ (l = "shallow" => ref.is \in {"tag", "branch"})
    BY <1>5 DEF Stat, CloneShallow, CloneShallowEnd, RemoveAll, CloneFull, CloneFullEnd,
                Checkout, Verify
  <2>3. dest' \in Dests /\ (~ dest'.git => dest' = Absent)
    <3>1. dest \in Dests /\ (~ dest.git => dest = Absent) /\ Absent \in Dests
      BY AbsentTyped DEF TypeOK, Dests
    <3>2. CASE Stat(s) \/ RemoveAll(s) \/ Verify(s)
      BY <3>1, <3>2 DEF Stat, RemoveAll, Verify
    <3>3. CASE CloneShallow(s) \/ CloneFull(s)
      <4> DEFINE d == [Absent EXCEPT !.git = TRUE, !.by = s]
      <4>1. dest' = d \/ dest' = dest
        BY <3>3 DEF CloneShallow, CloneFull
      <4>2. d \in Dests /\ d.git
        BY <3>1 DEF Dests, Absent
      <4>3. QED
        BY <3>1, <4>1, <4>2
    <3>4. CASE CloneShallowEnd(s)
      <4> DEFINE d == [git |-> TRUE, refs |-> {ref.is}, tree |-> at, by |-> 0]
      <4>1. dest' = d \/ dest' = Absent \/ dest' = dest
        BY <3>4 DEF CloneShallowEnd
      <4>2. ref.is \in {"tag", "branch"}
        BY <3>4 DEF CloneShallowEnd, ShallowRefs
      <4>3. d \in Dests /\ d.git
        BY <4>2 DEF Dests, TypeOK
      <4>4. QED
        BY <3>1, <4>1, <4>3
    <3>5. CASE CloneFullEnd(s)
      <4> DEFINE d == [git |-> TRUE, tree |-> tip, by |-> 0,
                       refs |-> {ref.is} \cap {"tag", "branch"}]
      <4>1. dest' = d \/ dest' = Absent \/ dest' = dest
        BY <3>5 DEF CloneFullEnd
      <4>2. tip \in 0..MaxCommits
        BY DEF TypeOK, Commits
      <4>3. d \in Dests /\ d.git
        BY <4>2 DEF Dests
      <4>4. QED
        BY <3>1, <4>1, <4>3
    <3>6. CASE Checkout(s)
      <4>1. \/ dest' = dest
            \/ dest.git /\ \E c \in 0..MaxCommits : dest' = [dest EXCEPT !.tree = c]
        BY <3>6, GitAssumption DEF Checkout, TypeOK
      <4>2. ASSUME NEW c \in 0..MaxCommits
            PROVE  [dest EXCEPT !.tree = c] \in Dests /\ [dest EXCEPT !.tree = c].git = dest.git
        BY <3>1 DEF Dests
      <4>3. QED
        BY <3>1, <4>1, <4>2
    <3>7. QED
      BY <1>5, <3>2, <3>3, <3>4, <3>5, <3>6
  <2>4. cmds' \in 0..MaxCmds /\ calm' \in BOOLEAN
    BY <2>1 DEF TypeOK
  <2>5. QED
    BY <2>1, <2>2, <2>3, <2>4, <1>1, TypedStep
<1>6. ASSUME NEW s \in Sessions, Load(s)
      PROVE  TypeOK' /\ ShallowRefs'
  <2>1. /\ pc[s] = "root" /\ UNCHANGED <<ref, at, tip, dest, cmds, calm>>
    BY <1>6 DEF Load
  <2>2. CASE Goto(s, "failed") /\ got' = got
    BY <1>1, <2>1, <2>2, TypedStep DEF TypeOK, Dests
  <2>3. ASSUME NEW c \in 1..Part, Goto(s, "loaded"), got' = [got EXCEPT ![s] = c]
        PROVE  TypeOK' /\ ShallowRefs'
    <3>1. /\ pc' \in [Sessions -> Labels]
          /\ pc'[s] = "loaded" /\ \A t \in Sessions \ {s} : pc'[t] = pc[t]
      BY <2>3, GotoTyped
    <3>2. got' \in [Sessions -> 0..Part] /\ got'[s] = c /\ c # 0
          /\ \A t \in Sessions \ {s} : got'[t] = got[t]
      BY <2>3, GitAssumption DEF TypeOK, Part
    <3>3. \A t \in Sessions : pc'[t] = "loaded" <=> got'[t] # 0
      BY <3>1, <3>2 DEF TypeOK
    <3>4. ShallowRefs'
      BY <1>1, <2>1, <2>3
    <3>5. QED
      BY <2>1, <3>1, <3>2, <3>3, <3>4 DEF TypeOK
  <2>4. dest.tree # 0 => dest.tree \in 1..Part
    BY GitAssumption DEF TypeOK, Part
  <2>5. Part \in 1..Part
    BY GitAssumption DEF Part
  <2>6. QED
    BY <1>6, <2>2, <2>3, <2>4, <2>5 DEF Load
<1>7. ASSUME NEW s \in Sessions, Kill(s)
      PROVE  TypeOK' /\ ShallowRefs'
  <2>0. (calm /\ pc[s] \notin {"shallow", "fullclone", "checkout"}) \in BOOLEAN
    OBVIOUS
  <2>1. /\ pc[s] # "loaded" /\ Goto(s, "idle") /\ calm' \in BOOLEAN
        /\ dest' = [dest EXCEPT !.by = IF dest.by = s THEN 0 ELSE dest.by]
        /\ UNCHANGED <<ref, at, tip, got, cmds>>
    BY <1>7, <2>0 DEF Kill
  <2>2. dest' \in Dests
    BY <2>1 DEF TypeOK, Dests
  <2>3. ~ dest'.git => dest' = Absent
    <3>1. dest'.git = dest.git
      BY <2>1 DEF TypeOK
    <3>2. ~ dest.git => dest = Absent
      BY DEF TypeOK
    <3>3. [Absent EXCEPT !.by = IF Absent.by = s THEN 0 ELSE Absent.by] = Absent
      BY DEF Absent
    <3>4. QED
      BY <2>1, <3>1, <3>2, <3>3
  <2>4. cmds' \in 0..MaxCmds /\ calm' \in BOOLEAN
    BY <2>1 DEF TypeOK
  <2>5. QED
    BY <2>1, <2>2, <2>3, <2>4, <1>1, TypedStep
<1>8. CASE UNCHANGED vars
  BY <1>8 DEF vars, TypeOK, ShallowRefs
<1>9. QED
  BY <1>2, <1>3, <1>4, <1>5, <1>6, <1>7, <1>8 DEF Next, Step

(* While it is calm a step belongs to the one session that runs: the others *)
(* rest.                                                                    *)
LEMMA OnlyThisOne ==
  ASSUME GitInv, NEW s \in Sessions, Step(s), calm'
  PROVE  /\ calm /\ OneTerminal'
         /\ \A t \in Sessions \ {s} : pc[t] \in Resting /\ pc'[t] = pc[t]
<1>1. calm /\ \A t \in Sessions \ {s} : pc'[t] = pc[t]
  <2>1. \E l : Goto(s, l)
    BY DEF Step, Start, Stat, CloneShallow, CloneShallowEnd, RemoveAll, CloneFull,
           CloneFullEnd, Checkout, Verify, Load, Kill
  <2>2. calm
    BY Zenon DEF Step, Start, Stat, CloneShallow, CloneShallowEnd, RemoveAll, CloneFull,
           CloneFullEnd, Checkout, Verify, Load, Kill
  <2>3. QED
    BY <2>1, <2>2 DEF Goto, GitInv, TypeOK
<1>2. \A t \in Sessions \ {s} : pc[t] \in Resting
  <2>1. CASE Start(s)
    <3>1. Alone(s)
      BY <2>1, Zenon DEF Start
    <3>2. QED
      BY <3>1 DEF Alone
  <2>2. CASE ~ Start(s)
    <3>1. pc[s] \notin Resting
      BY <2>2 DEF Step, Stat, CloneShallow, CloneShallowEnd, RemoveAll, CloneFull,
                  CloneFullEnd, Checkout, Verify, Load, Kill, Resting
    <3>2. QED
      BY <1>1, <3>1 DEF GitInv, OneTerminal
  <2>3. QED
    BY <2>1, <2>2
<1>3. QED
  BY <1>1, <1>2 DEF OneTerminal

(* The directory stands where the next label of the session needs it.       *)
LEMMA StepStands ==
  ASSUME GitInv, NEW s \in Sessions, Step(s), calm', Pinned
  PROVE  Stands(s)' /\ (pc'[s] \in Resting => Clean')
<1> USE DEF Resting
<1>1. /\ TypeOK /\ calm /\ at # 0 /\ Stands(s)
      /\ \A t \in Sessions \ {s} : pc[t] \in Resting
  BY OnlyThisOne DEF GitInv
<1>2. ~ dest.git => dest = Absent
  BY <1>1 DEF TypeOK
<1>3. CASE Start(s)
  <2>1. Clean
    BY <1>1, <1>3 DEF Start, AllRest, GitInv
  <2>2. \E l \in {"refused", "stat"} : Goto(s, l)
    BY <1>3 DEF Start
  <2>3. pc'[s] \in {"refused", "stat"}
    BY <1>1, <2>2, GotoTyped DEF Labels
  <2>4. UNCHANGED <<at, dest>>
    BY <1>3 DEF Start
  <2>5. QED
    BY <2>1, <2>3, <2>4 DEF Stands, Clean
<1>4. CASE Stat(s)
  <2>1. /\ pc[s] = "stat" /\ UNCHANGED <<at, dest>>
        /\ pc'[s] = IF dest.git THEN "verify" ELSE "clone"
    BY <1>1, <1>4 DEF Stat, Goto, TypeOK
  <2>2. Clean
    BY <1>1, <2>1 DEF Stands
  <2>3. dest.git => dest.tree = at
    BY <2>2 DEF Clean, Absent
  <2>4. QED
    BY <1>2, <2>1, <2>3 DEF Stands
<1>5. CASE CloneShallow(s)
  <2>1. \/ pc'[s] = "shallow" /\ dest' = [Absent EXCEPT !.git = TRUE, !.by = s]
        \/ pc'[s] = "remove" /\ dest' = dest
    BY <1>1, <1>5 DEF CloneShallow, Goto, TypeOK
  <2>2. dest = Absent
    BY <1>1, <1>5 DEF CloneShallow, Stands
  <2>3. QED
    BY <2>1, <2>2 DEF Stands, Absent
<1>6. CASE CloneShallowEnd(s)
  <2>1. dest.by = s
    BY <1>1, <1>6 DEF CloneShallowEnd, Stands
  <2>2. \/ pc'[s] = "verify" /\ dest'.tree = at /\ at' = at
        \/ pc'[s] = "remove" /\ dest' = Absent
    BY <1>1, <1>6, <2>1 DEF CloneShallowEnd, Goto, TypeOK
  <2>3. QED
    BY <2>2 DEF Stands
<1>7. CASE RemoveAll(s)
  <2>1. pc'[s] = "full" /\ dest' = Absent
    BY <1>1, <1>7 DEF RemoveAll, Goto, TypeOK
  <2>2. QED
    BY <2>1 DEF Stands, Absent
<1>8. CASE CloneFull(s)
  <2>1. /\ pc[s] = "full" /\ at' = at
        /\ \/ pc'[s] = "fullclone" /\ dest' = [Absent EXCEPT !.git = TRUE, !.by = s]
           \/ pc'[s] = "failed" /\ dest' = dest
    BY <1>1, <1>8 DEF CloneFull, Goto, TypeOK
  <2>2. dest = Absent
    BY <1>1, <2>1 DEF Stands
  <2>3. QED
    BY <2>1, <2>2 DEF Stands, Clean, Absent
<1>9. CASE CloneFullEnd(s)
  <2>1. pc[s] = "fullclone" /\ at' = at
    BY <1>9 DEF CloneFullEnd
  <2>2. dest.by = s
    BY <1>1, <2>1 DEF Stands
  <2>3. \/ pc'[s] = "checkout" /\ dest'.git
        \/ pc'[s] = "failed" /\ dest' = Absent
    BY <1>1, <1>9, <2>2 DEF CloneFullEnd, Goto, TypeOK
  <2>4. QED
    BY <2>1, <2>3 DEF Stands, Clean, Absent
<1>10. CASE Checkout(s)
  <2>1. pc[s] = "checkout" /\ at' = at
    BY <1>10 DEF Checkout
  <2>2. Goto(s, "verify") /\ dest' = [dest EXCEPT !.tree = at]
    BY <1>10, Zenon DEF Checkout
  <2>3. pc'[s] = "verify" /\ dest'.tree = at
    BY <1>1, <2>2 DEF Goto, TypeOK
  <2>4. QED
    BY <2>1, <2>3 DEF Stands
<1>11. CASE Verify(s)
  <2>1. /\ pc[s] = "verify" /\ UNCHANGED <<at, dest>>
        /\ pc'[s] \in {"root", "failed"}
    BY <1>1, <1>11 DEF Verify, Goto, TypeOK
  <2>2. dest.tree = at
    BY <1>1, <2>1 DEF Stands
  <2>3. QED
    BY <2>1, <2>2 DEF Stands, Clean
<1>12. CASE Load(s)
  <2>1. pc[s] = "root" /\ UNCHANGED <<at, dest>>
    BY <1>12 DEF Load
  <2>2. dest.tree = at
    BY <1>1, <2>1 DEF Stands
  <2>3. pc'[s] = "loaded"
    BY <1>1, <1>12, <2>2 DEF Load, Goto, TypeOK
  <2>4. QED
    BY <2>1, <2>2, <2>3 DEF Stands, Clean
<1>13. CASE Kill(s)
  <2>1. /\ pc'[s] = "idle" /\ at' = at /\ pc[s] \notin Resting
        /\ dest' = [dest EXCEPT !.by = IF dest.by = s THEN 0 ELSE dest.by]
    BY <1>1, <1>13 DEF Kill, Goto, TypeOK
  <2>2. pc[s] \notin {"shallow", "fullclone", "checkout"}
    BY <1>13, Zenon DEF Kill
  <2>3. Clean
    <3>1. pc[s] \in {"stat", "clone", "remove", "full", "verify", "root"}
      BY <1>1, <2>1, <2>2 DEF TypeOK, Labels
    <3>2. QED
      BY <1>1, <3>1 DEF Stands, Clean
  <2>4. dest = Absent => dest' = Absent
    BY <2>1 DEF Absent
  <2>5. dest'.tree = dest.tree
    BY <1>1, <2>1 DEF TypeOK
  <2>6. QED
    BY <2>1, <2>3, <2>4, <2>5 DEF Stands, Clean
<1>14. QED
  BY <1>3, <1>4, <1>5, <1>6, <1>7, <1>8, <1>9, <1>10, <1>11, <1>12, <1>13 DEF Step

(* Every step keeps the invariant.                                          *)
LEMMA NextGitInv == GitInv /\ [Next]_vars => GitInv'
<1> SUFFICES ASSUME GitInv, [Next]_vars PROVE GitInv'
  OBVIOUS
<1>1. TypeOK' /\ ShallowRefs'
  BY NextTyped DEF GitInv
<1>2. CASE UpstreamPush
  <2>1. Pinned' = Pinned /\ (Pinned => at' = at) /\ UNCHANGED <<dest, pc, got, calm>>
    BY <1>2 DEF UpstreamPush, Pinned
  <2>2. QED
    BY <1>1, <2>1 DEF GitInv, OneTerminal, AllRest, Stands, Clean
<1>3. CASE Wipe
  <2>1. /\ dest' = Absent /\ UNCHANGED <<ref, at, pc>>
        /\ \A s \in Sessions : pc[s] \in Resting
    BY <1>3 DEF Wipe
  <2>2. \A s \in Sessions : Stands(s)'
    BY <2>1 DEF Stands, Resting
  <2>3. QED
    BY <1>1, <2>1, <2>2 DEF GitInv, OneTerminal, Clean, Pinned
<1>4. ASSUME NEW s \in Sessions, Step(s)
      PROVE  GitInv'
  <2>1. UNCHANGED <<ref, at>>
    BY <1>4 DEF Step, Start, Stat, CloneShallow, CloneShallowEnd, RemoveAll, CloneFull,
                CloneFullEnd, Checkout, Verify, Load, Kill
  <2>2. calm' => OneTerminal'
    BY <1>4, OnlyThisOne
  <2>3. ASSUME calm', Pinned', NEW t \in Sessions
        PROVE  Stands(t)'
    <3>1. CASE t = s
      BY <1>4, <2>1, <2>3, <3>1, StepStands DEF Pinned
    <3>2. CASE t # s
      <4>1. pc'[t] \in Resting
        BY <1>4, <2>3, <3>2, OnlyThisOne
      <4>2. QED
        BY <4>1 DEF Stands, Resting
    <3>3. QED
      BY <3>1, <3>2
  <2>4. calm' /\ Pinned' /\ AllRest' => Clean'
    BY <1>4, <2>1, StepStands DEF Pinned, AllRest
  <2>5. Pinned' => at' # 0
    BY <2>1 DEF GitInv, Pinned
  <2>6. QED
    BY <1>1, <2>2, <2>3, <2>4, <2>5 DEF GitInv
<1>5. CASE UNCHANGED vars
  BY <1>1, <1>5 DEF vars, GitInv, OneTerminal, AllRest, Stands, Clean, Pinned
<1>6. QED
  BY <1>2, <1>3, <1>4, <1>5 DEF Next

(* A catalog of either kind runs the git source as GitSource says.          *)
LEMMA GitRefines == CatalogSpec => Spec
<1>1. CatalogInit => Init
  BY DEF CatalogInit
<1>2. [CatalogNext]_<<kind, vars, ociVars>> => [Next]_vars
  BY Zenon DEF CatalogNext
<1>3. QED
  BY <1>1, <1>2, PTL DEF CatalogSpec, Spec

LEMMA GitInvariance == Spec => []GitInv
  BY InitGitInv, NextGitInv, PTL DEF Spec

(* The type invariant of the git source, for any number of terminals.       *)
THEOREM GitTypeCorrect == CatalogSpec => []TypeOK
<1>1. GitInv => TypeOK
  BY DEF GitInv
<1>2. QED
  BY GitRefines, GitInvariance, <1>1, PTL

\* What a load in a calm cache reads.
LoadsPinned ==
  \A s \in Sessions :
    calm /\ ref.is \in {"tag", "commit"} /\ pc[s] # "loaded" /\ pc'[s] = "loaded" => got'[s] = at

(* A session loads in one place only, from where its label stands.          *)
LEMMA LoadKeepsToRef == GitInv /\ [Next]_vars => LoadsPinned
<1> SUFFICES ASSUME GitInv, [Next]_vars, NEW s \in Sessions, calm, Pinned,
                    pc[s] # "loaded", pc'[s] = "loaded"
             PROVE  got'[s] = at
  BY DEF LoadsPinned, Pinned
<1>1. PICK t \in Sessions : Step(t)
  BY DEF Next, UpstreamPush, Wipe, vars
<1>2. ASSUME NEW l, l # "loaded", Goto(t, l) PROVE FALSE
  BY <1>2 DEF Goto, GitInv, TypeOK
<1>3. Load(t) /\ ~ Goto(t, "failed")
  <2>1. CASE Load(t)
    BY <1>2, <2>1
  <2>2. CASE Start(t)
    <3>1. Goto(t, "refused") \/ Goto(t, "stat")
      BY <2>2 DEF Start
    <3>2. QED
      BY <1>2, <3>1
  <2>3. CASE Stat(t) \/ CloneShallow(t) \/ CloneShallowEnd(t) \/ RemoveAll(t) \/ CloneFull(t)
               \/ CloneFullEnd(t) \/ Checkout(t) \/ Verify(t) \/ Kill(t)
    <3>1. \E l : l # "loaded" /\ Goto(t, l)
      BY <2>3 DEF Stat, CloneShallow, CloneShallowEnd, RemoveAll, CloneFull, CloneFullEnd,
                  Checkout, Verify, Kill
    <3>2. QED
      BY <1>2, <3>1
  <2>4. QED
    BY <1>1, <2>1, <2>2, <2>3 DEF Step
<1>4. t = s /\ pc[s] = "root"
  BY <1>3 DEF Load, Goto, GitInv, TypeOK
<1>5. dest.tree = at /\ at # 0
  BY <1>4 DEF GitInv, Stands
<1>6. QED
  BY <1>3, <1>4, <1>5 DEF Load, GitInv, TypeOK

(* A ref that exists is resolved to its own commit through the shallow      *)
(* clone, the full clone and the cache alike, whatever is pushed meanwhile  *)
(* and wherever else commands are killed, unless since the cache was last   *)
(* emptied two commands overlapped, or a git that was writing it was cut or *)
(* failed in the checkout (git.go, Resolve, clone).                         *)
THEOREM PinnedHolds == CatalogSpec => PinnedWhenResolved
<1>1. GitInv /\ [Next]_vars =>
        [\A s \in Sessions :
           calm /\ ref.is \in {"tag", "commit"} /\ pc[s] # "loaded" /\ pc'[s] = "loaded"
             => got'[s] = at]_vars
  BY LoadKeepsToRef DEF LoadsPinned
<1>2. QED
  BY GitRefines, GitInvariance, <1>1, PTL DEF Spec, PinnedWhenResolved

-------------------------------------------------------------------------------
(* The OCI sources.                                                         *)

Last == sources[Len(sources)]

\* A package that is not to be pulled is there; the resolver is the last
\* source's, and a command that resolves is at one of the sources.
OciInv ==
  /\ sources \in Declared
  /\ Oci!TypeOK
  /\ step \in {"resolve", "pull"} => src \in Oci!Sources /\ pulls = Last.selects
  /\ step = "pull" => \A n \in pulls \ todo : Oci!Complete(src, n)
  /\ Oci!LastSourceComplete

(* A package set declares a source, and what a source selects has a name.   *)
LEMMA DeclaredShape ==
  ASSUME sources \in Declared
  PROVE  /\ Len(sources) \in Nat \ {0} /\ Oci!Sources = 1..Len(sources)
         /\ Last.selects \subseteq Names
<1>1. /\ sources # <<>> /\ sources \in Seq({sources[i] : i \in DOMAIN sources})
      /\ \A i \in DOMAIN sources : sources[i].selects \subseteq Names
  BY OciAssumption
<1>2. Len(sources) \in Nat \ {0} /\ DOMAIN sources = 1..Len(sources)
  BY <1>1
<1>3. QED
  BY <1>1, <1>2 DEF Oci!Sources, Last

LEMMA InitOciInv == CatalogInit => OciInv
<1> SUFFICES ASSUME CatalogInit PROVE OciInv
  OBVIOUS
<1>1. Oci!Init /\ sources \in Declared
  BY DEF CatalogInit, Oci!Init
<1>2. Len(sources) \in Nat /\ 0 \in 0..Len(sources) /\ 0 \in 0..MaxCmds
  BY <1>1, DeclaredShape, GitAssumption
<1>3. Oci!TypeOK
  BY <1>1, <1>2 DEF Oci!Init, Oci!TypeOK, Oci!Empty, Oci!Resting
<1>4. QED
  BY <1>1, <1>3 DEF Oci!Init, OciInv, Oci!LastSourceComplete

(* Every step of an OCI catalog keeps the invariant.                        *)
LEMMA NextOciInv == OciInv /\ [Oci!Next]_ociVars => OciInv'
<1> SUFFICES ASSUME OciInv, [Oci!Next]_ociVars PROVE OciInv'
  OBVIOUS
<1> USE DEF Oci!Resting
<1>1. /\ sources \in Declared
      /\ cache \in [Oci!Sources -> [Names -> SUBSET Files]]
      /\ step \in {"idle", "built", "failed", "resolve", "pull"}
      /\ src \in 0..Len(sources) /\ builds \in 0..MaxCmds
      /\ step = "pull" => todo \subseteq pulls
      /\ pulls \subseteq Names /\ entries \subseteq (1..src) \X Names
  BY DEF OciInv, Oci!TypeOK
<1>2. /\ Len(sources) \in Nat \ {0} /\ Oci!Sources = 1..Len(sources)
      /\ Last.selects \subseteq Names
  BY <1>1, DeclaredShape
<1>3. CASE Oci!Register
  <2>1. /\ step' = "resolve" /\ src' = 1 /\ pulls' = Last.selects /\ entries' = {}
        /\ builds < MaxCmds /\ builds' = builds + 1
        /\ UNCHANGED <<sources, cache, todo>>
    BY <1>3 DEF Oci!Register, Last
  <2>2. builds' \in 0..MaxCmds /\ src' \in 1..Len(sources)
    BY <1>1, <1>2, <2>1, GitAssumption
  <2>3. Oci!TypeOK'
    BY <1>1, <1>2, <2>1, <2>2 DEF Oci!TypeOK, Oci!Sources
  <2>4. QED
    BY <1>1, <1>2, <2>1, <2>2, <2>3 DEF OciInv, Last, Oci!LastSourceComplete, Oci!Sources
<1>4. CASE Oci!Resolve
  <2>1. /\ step = "resolve" /\ UNCHANGED <<sources, pulls, cache, src, entries, builds>>
        /\ \/ step' = "failed" /\ todo' = todo
           \/ step' = "pull" /\ todo' = {n \in pulls : ~ Oci!Complete(src, n)}
    BY <1>4 DEF Oci!Resolve
  <2>2. step' = "pull" => todo' \subseteq pulls
    BY <2>1
  <2>3. step' = "pull" => \A n \in pulls \ todo' : Oci!Complete(src, n)
    BY <2>1
  <2>4. Oci!TypeOK'
    BY <1>1, <2>1, <2>2 DEF Oci!TypeOK, Oci!Sources
  <2>5. QED
    BY <1>1, <2>1, <2>3, <2>4
       DEF OciInv, Last, Oci!LastSourceComplete, Oci!Sources, Oci!Complete
<1>5. ASSUME NEW n \in Names, Oci!Pull(n)
      PROVE  OciInv'
  <2>1. /\ step = "pull" /\ n \in todo
        /\ UNCHANGED <<sources, pulls, src, entries, builds>>
    BY <1>5 DEF Oci!Pull
  <2>2. src \in Oci!Sources /\ pulls = Last.selects
    BY <2>1 DEF OciInv
  <2>3. CASE cache' = [cache EXCEPT ![src][n] = Files] /\ todo' = todo \ {n} /\ step' = step
    <3>1. cache' \in [Oci!Sources -> [Names -> SUBSET Files]]
      BY <1>1, <2>2, <2>3
    <3>2. /\ cache'[src][n] = Files
          /\ \A m \in Names \ {n} : cache'[src][m] = cache[src][m]
      BY <1>1, <2>2, <2>3
    <3>3. \A m \in pulls \ todo' : "package.yaml" \in cache'[src][m]
      BY <1>1, <2>1, <2>3, <3>2, OciAssumption DEF OciInv, Oci!Complete
    <3>4. Oci!TypeOK'
      BY <1>1, <2>1, <2>3, <3>1 DEF Oci!TypeOK, Oci!Sources
    <3>5. QED
      BY <1>1, <2>1, <2>2, <2>3, <3>3, <3>4
         DEF OciInv, Last, Oci!LastSourceComplete, Oci!Sources, Oci!Complete
  <2>4. ASSUME NEW some \in SUBSET Files, step' = "failed",
               cache' = [cache EXCEPT ![src][n] = cache[src][n] \cup some]
        PROVE  OciInv'
    <3>1. cache' \in [Oci!Sources -> [Names -> SUBSET Files]]
      BY <1>1, <2>2, <2>4
    <3>2. Oci!TypeOK'
      BY <1>1, <2>1, <2>4, <3>1 DEF Oci!TypeOK, Oci!Sources
    <3>3. QED
      BY <1>1, <2>1, <2>4, <3>2 DEF OciInv, Oci!LastSourceComplete
  <2>5. CASE step' = "failed" /\ cache' = cache
    <3>1. Oci!TypeOK'
      BY <1>1, <2>1, <2>5 DEF Oci!TypeOK, Oci!Sources
    <3>2. QED
      BY <1>1, <2>1, <2>5, <3>1 DEF OciInv, Oci!LastSourceComplete
  <2>6. QED
    BY <1>5, <2>3, <2>4, <2>5 DEF Oci!Pull
<1>6. CASE Oci!LoadSource
  <2>1. /\ step = "pull" /\ todo = {}
        /\ UNCHANGED <<sources, pulls, cache, todo, builds>>
    BY <1>6 DEF Oci!LoadSource
  <2>2. src \in Oci!Sources /\ pulls = Last.selects
    BY <2>1 DEF OciInv
  <2>3. CASE step' = "failed" /\ UNCHANGED <<src, entries>>
    <3>1. Oci!TypeOK'
      BY <1>1, <2>1, <2>3 DEF Oci!TypeOK, Oci!Sources
    <3>2. QED
      BY <1>1, <2>1, <2>3, <3>1 DEF OciInv, Oci!LastSourceComplete
  <2>4. CASE entries' = entries \cup ({src} \X Oci!Loadable(src))
             /\ step' = "built" /\ src' = src /\ src = Len(sources)
    <3>1. entries' \subseteq (1..src') \X Names
      BY <1>1, <1>2, <2>2, <2>4 DEF Oci!Loadable
    <3>2. Oci!TypeOK'
      BY <1>1, <2>1, <2>4, <3>1 DEF Oci!TypeOK, Oci!Sources
    <3>3. \A n \in Last.selects : <<src, n>> \in entries'
      <4>1. \A n \in Last.selects : Oci!Complete(src, n) /\ n \in Names
        BY <1>2, <2>1, <2>2 DEF OciInv
      <4>2. QED
        BY <2>4, <4>1 DEF Oci!Loadable
    <3>4. QED
      BY <1>1, <2>1, <2>4, <3>2, <3>3 DEF OciInv, Last, Oci!LastSourceComplete
  <2>5. CASE entries' = entries \cup ({src} \X Oci!Loadable(src))
             /\ step' = "resolve" /\ src' = src + 1 /\ src # Len(sources)
    <3>1. src' \in 1..Len(sources)
      BY <1>2, <2>2, <2>5
    <3>2. entries' \subseteq (1..src') \X Names
      BY <1>1, <1>2, <2>2, <2>5 DEF Oci!Loadable
    <3>3. Oci!TypeOK'
      BY <1>1, <2>1, <2>5, <3>1, <3>2 DEF Oci!TypeOK, Oci!Sources
    <3>4. QED
      BY <1>1, <1>2, <2>1, <2>2, <2>5, <3>1, <3>3
         DEF OciInv, Last, Oci!LastSourceComplete, Oci!Sources
  <2>6. QED
    BY <1>6, <2>3, <2>4, <2>5 DEF Oci!LoadSource
<1>7. CASE Oci!Wipe
  <2>1. /\ cache' = [i \in Oci!Sources |-> Oci!Empty] /\ step' = "idle" /\ entries' = {}
        /\ UNCHANGED <<sources, pulls, src, todo, builds>>
    BY <1>7 DEF Oci!Wipe
  <2>2. Oci!TypeOK'
    BY <1>1, <2>1 DEF Oci!TypeOK, Oci!Sources, Oci!Empty
  <2>3. QED
    BY <1>1, <2>1, <2>2 DEF OciInv, Oci!LastSourceComplete
<1>8. CASE UNCHANGED ociVars
  <2>1. UNCHANGED <<sources, pulls, cache, step, src, todo, entries, builds>>
    BY <1>8 DEF ociVars
  <2>2. QED
    BY <2>1 DEF OciInv, Oci!TypeOK, Oci!Sources, Oci!Complete, Last, Oci!LastSourceComplete
<1>9. QED
  BY <1>3, <1>4, <1>5, <1>6, <1>7, <1>8 DEF Oci!Next

LEMMA OciInvariance == CatalogSpec => []OciInv
<1>1. OciInv /\ [CatalogNext]_<<kind, vars, ociVars>> => OciInv'
  <2>1. [CatalogNext]_<<kind, vars, ociVars>> => [Oci!Next]_ociVars
    BY Zenon DEF CatalogNext
  <2>2. QED
    BY <2>1, NextOciInv
<1>2. QED
  BY InitOciInv, <1>1, PTL DEF CatalogSpec

(* The type invariant of the OCI sources, for any package set.              *)
THEOREM OciTypeCorrect == CatalogSpec => []Oci!TypeOK
<1>1. OciInv => Oci!TypeOK
  BY DEF OciInv
<1>2. QED
  BY OciInvariance, <1>1, PTL

(* A catalog that is built has every package its last source selects,       *)
(* whatever earlier pulls that were cut left in the cache.                  *)
THEOREM LastSourceHolds == CatalogSpec => []LastSourceComplete
<1>1. OciInv => LastSourceComplete
  BY DEF OciInv, LastSourceComplete
<1>2. QED
  BY OciInvariance, <1>1, PTL
===============================================================================
