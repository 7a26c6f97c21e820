----------------------------- MODULE FleetProofs -----------------------------
(***************************************************************************)
(* Proofs about Fleet, for every fleet validation accepts: that installed  *)
(* disks outlive every command but `destroy infra`; that `apply all` boots *)
(* only what it built; that --scope is a boundary; and that an apply no    *)
(* host failed has placed all.                                             *)
(*                                                                         *)
(* The argument goes in four steps. The playbooks are spelled out, so that *)
(* a role tells its play and its command (Located). A run stays well       *)
(* formed, and a host that leaves a role moves it in one of four ways      *)
(* (LeftFacts). Each role does to the hosts what its Effect says, whether  *)
(* it succeeds, fails or is cut. The invariants then follow a run through  *)
(* its playbook: what has been built (Built) and what has been placed      *)
(* (Placed).                                                               *)
(***************************************************************************)
EXTENDS Fleet, TLAPS

\* Two states that differ in nothing but install configs.
Alike(s, t) ==
  /\ IsState(s) /\ IsState(t)
  /\ s.provider = t.provider /\ s.proxied = t.proxied /\ Names(s) = Names(t)
  /\ \A c \in Names(s) :
       /\ s.cluster[c].refs = t.cluster[c].refs
       /\ s.cluster[c].place = t.cluster[c].place
       /\ s.cluster[c].bridge = t.cluster[c].bridge
       /\ s.cluster[c].lbs = t.cluster[c].lbs

\* An edit changes the install config of one cluster and nothing else.
LEMMA EditAlike ==
  ASSUME IsState(fleet), NEW c \in Names(fleet), Edit(c)
  PROVE  /\ Alike(fleet', fleet)
         /\ fleet'.cluster[c].config = fleet.cluster[c].config + 1
         /\ \A d \in Names(fleet) \ {c} : fleet'.cluster[d] = fleet.cluster[d]
<1> DEFINE old == fleet.cluster[c]
           new == [old EXCEPT !.config = old.config + 1]
           clusters == [fleet.cluster EXCEPT ![c] = new]
<1>1. fleet' = [fleet EXCEPT !.cluster = clusters]
  BY DEF Edit
<1>2a. old = [refs |-> old.refs, place |-> old.place, bridge |-> old.bridge,
                lbs |-> old.lbs, hub |-> old.hub, config |-> old.config]
  BY DEF IsState
<1>2b. old \in [refs : {old.refs}, place : {old.place}, bridge : {old.bridge}, lbs : {old.lbs},
                hub : {old.hub}, config : {old.config}]
  BY <1>2a
<1>2. /\ new.refs = old.refs /\ new.place = old.place /\ new.bridge = old.bridge
      /\ new.lbs = old.lbs /\ new.hub = old.hub /\ new.config = old.config + 1
      /\ new = [refs |-> new.refs, place |-> new.place, bridge |-> new.bridge,
                lbs |-> new.lbs, hub |-> new.hub, config |-> new.config]
  BY <1>2b
<1>3. DOMAIN clusters = Names(fleet) /\ clusters[c] = new
      /\ \A d \in Names(fleet) \ {c} : clusters[d] = fleet.cluster[d]
  BY DEF Names
<1> HIDE DEF new, clusters
<1>4. fleet' = [provider |-> fleet.provider, cluster |-> clusters, proxied |-> fleet.proxied]
  BY <1>1 DEF IsState
<1>5. QED
  BY <1>2, <1>3, <1>4 DEF Alike, IsState, Names

\* What --scope leaves: the named clusters, unchanged, and their providers.
LEMMA FilteredFacts ==
  ASSUME NEW s, IsState(s), NEW names \in SUBSET Names(s)
  PROVE  /\ Names(Filtered(s, names)) = names
         /\ \A c \in names : Filtered(s, names).cluster[c] = s.cluster[c]
         /\ DOMAIN Filtered(s, names).provider = UNION {s.cluster[c].refs : c \in names}
         /\ \A p \in DOMAIN Filtered(s, names).provider : Filtered(s, names).provider[p] = s.provider[p]
         /\ Filtered(s, names).proxied = s.proxied
<1>1. Filtered(s, names) = [provider |-> [p \in UNION {s.cluster[c].refs : c \in names} |-> s.provider[p]],
                     cluster |-> [c \in names |-> s.cluster[c]], proxied |-> s.proxied]
  BY DEF Filtered
<1>2. QED
  BY <1>1 DEF Names

-------------------------------------------------------------------------------
(* The playbooks, spelled out.                                              *)
Ops == {"apply-infra", "apply-clusters", "apply-all", "destroy-infra", "destroy-clusters"}

\* Each playbook and its plays.
LEMMA Plays ==
  /\ DOMAIN Playbook = Ops
  /\ Playbook["apply-infra"] = <<ApplyProviders, ApplySubstrate>>
  /\ Playbook["apply-clusters"] = <<InstallAgent>>
  /\ Playbook["apply-all"] = <<ApplyProviders, ApplySubstrate, InstallAgent>>
  /\ Playbook["destroy-infra"] = <<DestroySubstrate, DestroyProviders>>
  /\ Playbook["destroy-clusters"] = <<DestroyAgent>>
  BY DEF Playbook, Ops

\* What the proofs ask of a playbook: how many plays, and of each play its
\* group, how many roles, and which.
NumPlays(op) == Len(Playbook[op])
NumRoles(op, k) == Len(Playbook[op][k].roles)
GroupAt(op, k) == Playbook[op][k].group
RoleAt(op, k, j) == Playbook[op][k].roles[j]

\* Length and elements of short sequences.
LEMMA One == ASSUME NEW f, NEW a, f = <<a>> PROVE Len(f) = 1 /\ f[1] = a
  OBVIOUS
\* The same of two elements.
LEMMA Two == ASSUME NEW f, NEW a, NEW b, f = <<a, b>> PROVE Len(f) = 2 /\ f[1] = a /\ f[2] = b
  OBVIOUS
\* The same of three.
LEMMA Three ==
  ASSUME NEW f, NEW a, NEW b, NEW d, f = <<a, b, d>>
  PROVE  Len(f) = 3 /\ f[1] = a /\ f[2] = b /\ f[3] = d
  OBVIOUS
\* The same of four.
LEMMA Four ==
  ASSUME NEW f, NEW a, NEW b, NEW d, NEW e, f = <<a, b, d, e>>
  PROVE  Len(f) = 4 /\ f[1] = a /\ f[2] = b /\ f[3] = d /\ f[4] = e
  OBVIOUS
\* The same of five.
LEMMA Five ==
  ASSUME NEW f, NEW a, NEW b, NEW d, NEW e, NEW g, f = <<a, b, d, e, g>>
  PROVE  Len(f) = 5 /\ f[1] = a /\ f[2] = b /\ f[3] = d /\ f[4] = e /\ f[5] = g
  OBVIOUS

\* Play k of playbook op is play.
Is(op, k, play) == Playbook[op][k] = play

\* How many plays each playbook has, and which.
LEMMA PlayShape ==
  /\ NumPlays("apply-infra") = 2 /\ Is("apply-infra", 1, ApplyProviders)
                                 /\ Is("apply-infra", 2, ApplySubstrate)
  /\ NumPlays("apply-clusters") = 1 /\ Is("apply-clusters", 1, InstallAgent)
  /\ NumPlays("apply-all") = 3 /\ Is("apply-all", 1, ApplyProviders)
                               /\ Is("apply-all", 2, ApplySubstrate)
                               /\ Is("apply-all", 3, InstallAgent)
  /\ NumPlays("destroy-infra") = 2 /\ Is("destroy-infra", 1, DestroySubstrate)
                                   /\ Is("destroy-infra", 2, DestroyProviders)
  /\ NumPlays("destroy-clusters") = 1 /\ Is("destroy-clusters", 1, DestroyAgent)
<1>1. NumPlays("apply-infra") = 2 /\ Is("apply-infra", 1, ApplyProviders)
                                  /\ Is("apply-infra", 2, ApplySubstrate)
  <2>1. Playbook["apply-infra"] = <<ApplyProviders, ApplySubstrate>>
    BY Plays
  <2>2. QED
    BY <2>1, Two DEF NumPlays, Is
<1>2. NumPlays("apply-clusters") = 1 /\ Is("apply-clusters", 1, InstallAgent)
  BY Plays, One DEF NumPlays, Is
<1>3. NumPlays("apply-all") = 3 /\ Is("apply-all", 1, ApplyProviders)
                                /\ Is("apply-all", 2, ApplySubstrate)
                                /\ Is("apply-all", 3, InstallAgent)
  <2>1. Playbook["apply-all"] = <<ApplyProviders, ApplySubstrate, InstallAgent>>
    BY Plays
  <2>2. QED
    BY <2>1, Three DEF NumPlays, Is
<1>4. NumPlays("destroy-infra") = 2 /\ Is("destroy-infra", 1, DestroySubstrate)
                                    /\ Is("destroy-infra", 2, DestroyProviders)
  <2>1. Playbook["destroy-infra"] = <<DestroySubstrate, DestroyProviders>>
    BY Plays
  <2>2. QED
    BY <2>1, Two DEF NumPlays, Is
<1>5. NumPlays("destroy-clusters") = 1 /\ Is("destroy-clusters", 1, DestroyAgent)
  BY Plays, One DEF NumPlays, Is
<1>6. QED
  BY <1>1, <1>2, <1>3, <1>4, <1>5

\* The group and the roles of each play.
LEMMA RolesOfPlay ==
  ASSUME NEW op, NEW k
  PROVE  /\ Is(op, k, ApplyProviders) =>
              /\ GroupAt(op, k) = "provider" /\ NumRoles(op, k) = 5
              /\ RoleAt(op, k, 1) = "squid" /\ RoleAt(op, k, 2) = "proxy"
              /\ RoleAt(op, k, 3) = "bmc" /\ RoleAt(op, k, 4) = "mirror"
              /\ RoleAt(op, k, 5) = "balancers"
         /\ Is(op, k, ApplySubstrate) =>
              /\ GroupAt(op, k) = "infra" /\ NumRoles(op, k) = 3
              /\ RoleAt(op, k, 1) = "proxy" /\ RoleAt(op, k, 2) = "substrate"
              /\ RoleAt(op, k, 3) = "hosts"
         /\ Is(op, k, InstallAgent) =>
              /\ GroupAt(op, k) = "ocp" /\ NumRoles(op, k) = 4
              /\ RoleAt(op, k, 1) = "proxy" /\ RoleAt(op, k, 2) = "image"
              /\ RoleAt(op, k, 3) = "boot" /\ RoleAt(op, k, 4) = "wait"
         /\ Is(op, k, DestroySubstrate) =>
              /\ GroupAt(op, k) = "infra" /\ NumRoles(op, k) = 4
              /\ RoleAt(op, k, 1) = "undefine" /\ RoleAt(op, k, 2) = "unhosts"
              /\ RoleAt(op, k, 3) = "undisk" /\ RoleAt(op, k, 4) = "unproxy"
         /\ Is(op, k, DestroyProviders) =>
              /\ GroupAt(op, k) = "provider" /\ NumRoles(op, k) = 5
              /\ RoleAt(op, k, 1) = "unmirror" /\ RoleAt(op, k, 2) = "unbmc"
              /\ RoleAt(op, k, 3) = "unbalancers" /\ RoleAt(op, k, 4) = "unsquid"
              /\ RoleAt(op, k, 5) = "unproxy"
         /\ Is(op, k, DestroyAgent) =>
              /\ GroupAt(op, k) = "ocp" /\ NumRoles(op, k) = 2
              /\ RoleAt(op, k, 1) = "unwork" /\ RoleAt(op, k, 2) = "unproxy"
<1> DEFINE play == Playbook[op][k]
           R == play.roles
<1> USE DEF Is
<1>1. ASSUME Is(op, k, ApplyProviders)
      PROVE  /\ play.group = "provider" /\ Len(R) = 5
             /\ R[1] = "squid" /\ R[2] = "proxy" /\ R[3] = "bmc" /\ R[4] = "mirror" /\ R[5] = "balancers"
  <2>1. play.group = "provider" /\ R = <<"squid", "proxy", "bmc", "mirror", "balancers">>
    BY <1>1 DEF ApplyProviders
  <2> HIDE DEF R
  <2>2. QED
    BY <2>1, Five
<1>2. ASSUME Is(op, k, ApplySubstrate)
      PROVE  /\ play.group = "infra" /\ Len(R) = 3
             /\ R[1] = "proxy" /\ R[2] = "substrate" /\ R[3] = "hosts"
  <2>1. play.group = "infra" /\ R = <<"proxy", "substrate", "hosts">>
    BY <1>2 DEF ApplySubstrate
  <2> HIDE DEF R
  <2>2. QED
    BY <2>1, Three
<1>3. ASSUME Is(op, k, InstallAgent)
      PROVE  /\ play.group = "ocp" /\ Len(R) = 4
             /\ R[1] = "proxy" /\ R[2] = "image" /\ R[3] = "boot" /\ R[4] = "wait"
  <2>1. play.group = "ocp" /\ R = <<"proxy", "image", "boot", "wait">>
    BY <1>3 DEF InstallAgent
  <2> HIDE DEF R
  <2>2. QED
    BY <2>1, Four
<1>4. ASSUME Is(op, k, DestroySubstrate)
      PROVE  /\ play.group = "infra" /\ Len(R) = 4
             /\ R[1] = "undefine" /\ R[2] = "unhosts" /\ R[3] = "undisk" /\ R[4] = "unproxy"
  <2>1. play.group = "infra" /\ R = <<"undefine", "unhosts", "undisk", "unproxy">>
    BY <1>4 DEF DestroySubstrate
  <2> HIDE DEF R
  <2>2. QED
    BY <2>1, Four
<1>5. ASSUME Is(op, k, DestroyProviders)
      PROVE  /\ play.group = "provider" /\ Len(R) = 5
             /\ R[1] = "unmirror" /\ R[2] = "unbmc" /\ R[3] = "unbalancers" /\ R[4] = "unsquid" /\ R[5] = "unproxy"
  <2>1. play.group = "provider" /\ R = <<"unmirror", "unbmc", "unbalancers", "unsquid", "unproxy">>
    BY <1>5 DEF DestroyProviders
  <2> HIDE DEF R
  <2>2. QED
    BY <2>1, Five
<1>6. ASSUME Is(op, k, DestroyAgent)
      PROVE  /\ play.group = "ocp" /\ Len(R) = 2
             /\ R[1] = "unwork" /\ R[2] = "unproxy"
  <2>1. play.group = "ocp" /\ R = <<"unwork", "unproxy">>
    BY <1>6 DEF DestroyAgent
  <2> HIDE DEF R
  <2>2. QED
    BY <2>1, Two
<1>7. QED
  BY <1>1, <1>2, <1>3, <1>4, <1>5, <1>6 DEF GroupAt, NumRoles, RoleAt

\* Place j of play k of playbook op holds a role.
Place(op, k, j) == op \in Ops /\ k \in 1..NumPlays(op) /\ j \in 1..NumRoles(op, k)

\* Every playbook has plays, and every play roles.
LEMMA Counts ==
  ASSUME NEW op \in Ops
  PROVE  /\ NumPlays(op) \in 1..3 /\ DOMAIN Playbook[op] = 1..NumPlays(op)
         /\ \A k \in 1..NumPlays(op) : NumRoles(op, k) \in 2..5
<1>1. NumPlays(op) \in 1..3 
  BY PlayShape DEF Ops
<1>2. DOMAIN Playbook[op] = 1..NumPlays(op)
  <2>1. CASE op = "apply-infra"
    BY <2>1, Plays, PlayShape
  <2>2. CASE op = "apply-clusters"
    BY <2>2, Plays, PlayShape
  <2>3. CASE op = "apply-all"
    BY <2>3, Plays, PlayShape
  <2>4. CASE op = "destroy-infra"
    BY <2>4, Plays, PlayShape
  <2>5. CASE op = "destroy-clusters"
    BY <2>5, Plays, PlayShape
  <2>6. QED
    BY <2>1, <2>2, <2>3, <2>4, <2>5 DEF Ops
<1>3. ASSUME NEW k \in 1..NumPlays(op) PROVE NumRoles(op, k) \in 2..5
  BY <1>1, <1>3, PlayShape, RolesOfPlay DEF Ops, Is
<1>4. QED
  BY <1>1, <1>2, <1>3

\* Where the roles are that the properties are about.
Located(op, k, j, role, group) ==
  /\ role = "balancers" <=> (op \in {"apply-infra", "apply-all"} /\ k = 1 /\ j = 5)
  /\ role = "substrate" <=> (op \in {"apply-infra", "apply-all"} /\ k = 2 /\ j = 2)
  /\ role \in {"substrate", "hosts", "image", "boot", "wait", "undefine", "unhosts",
               "undisk", "unwork"}
       => group # "provider"
  /\ role = "undisk" => op = "destroy-infra"
  /\ role = "boot" /\ op = "apply-all" => k = 3
  /\ role \in {"undefine", "unhosts", "undisk", "unproxy", "unmirror", "unbmc", "unbalancers",
               "unsquid", "unwork"} => op \notin Applies

\* Every role of every playbook is where Located says.
LEMMA RolePlaces ==
  ASSUME NEW op, NEW k, NEW j, Place(op, k, j)
  PROVE  Located(op, k, j, RoleAt(op, k, j), GroupAt(op, k))
<1> USE DEF Place, Located, Applies
<1>1. CASE op = "apply-infra"
  <2>1. k \in {1, 2}
    BY <1>1, PlayShape
  <2>2. CASE k = 1
    <3>1. j \in {1, 2, 3, 4, 5}
      BY <1>1, <2>2, PlayShape, RolesOfPlay DEF Is
    <3>2. QED
      BY <1>1, <2>2, <3>1, PlayShape, RolesOfPlay DEF Is
  <2>3. CASE k = 2
    <3>1. j \in {1, 2, 3}
      BY <1>1, <2>3, PlayShape, RolesOfPlay DEF Is
    <3>2. QED
      BY <1>1, <2>3, <3>1, PlayShape, RolesOfPlay DEF Is
  <2>4. QED
    BY <2>1, <2>2, <2>3
<1>2. CASE op = "apply-clusters"
  BY <1>2, PlayShape, RolesOfPlay DEF Is
<1>3. CASE op = "apply-all"
  <2>1. k \in {1, 2, 3}
    BY <1>3, PlayShape
  <2>2. CASE k = 1
    BY <1>3, <2>2, PlayShape, RolesOfPlay DEF Is
  <2>3. CASE k = 2
    BY <1>3, <2>3, PlayShape, RolesOfPlay DEF Is
  <2>4. CASE k = 3
    BY <1>3, <2>4, PlayShape, RolesOfPlay DEF Is
  <2>5. QED
    BY <2>1, <2>2, <2>3, <2>4
<1>4. CASE op = "destroy-infra"
  <2>1. k \in {1, 2}
    BY <1>4, PlayShape
  <2>2. CASE k = 1
    BY <1>4, <2>2, PlayShape, RolesOfPlay DEF Is
  <2>3. CASE k = 2
    BY <1>4, <2>3, PlayShape, RolesOfPlay DEF Is
  <2>4. QED
    BY <2>1, <2>2, <2>3
<1>5. CASE op = "destroy-clusters"
  BY <1>5, PlayShape, RolesOfPlay DEF Is
<1>6. QED
  BY <1>1, <1>2, <1>3, <1>4, <1>5 DEF Ops

-------------------------------------------------------------------------------
(* How a run goes through its playbook.                                     *)

\* The hosts a run may be on, and the runs themselves.
Hosts(on) == ProviderHosts(on) \cup ClusterHosts(on)

Runs(on) == [op : Ops, on : {on}, play : Nat, role : Nat, left : SUBSET Hosts(on),
             failed : SUBSET Hosts(on), built : SUBSET Hosts(on)]

\* A run is at a role some hosts have still to leave, none of them failed, or
\* it is over.
RunOK(r) ==
  /\ r \in Runs(r.on)
  /\ r.play \in 1..NumPlays(r.op) + 1
  /\ r.play <= NumPlays(r.op) =>
       /\ r.role \in 1..NumRoles(r.op, r.play)
       /\ r.left # {} /\ r.left \subseteq PlayHosts(r.op, r.on, r.play) \ r.failed
  /\ r.play > NumPlays(r.op) => r.left = {}

\* The hosts of a play are those of its group.
LEMMA PlayHostsFacts ==
  ASSUME NEW op, NEW on, NEW k
  PROVE  /\ PlayHosts(op, on, k) \subseteq Hosts(on)
         /\ GroupAt(op, k) # "provider" => PlayHosts(op, on, k) = ClusterHosts(on)
         /\ GroupAt(op, k) = "provider" => PlayHosts(op, on, k) = ProviderHosts(on)
  BY DEF PlayHosts, Inventory, Hosts, GroupAt

\* The play after play k: those in between have no host left.
LEMMA PlayAfterFacts ==
  ASSUME NEW on, NEW r \in Runs(on), NEW k \in 0..NumPlays(r.op)
  PROVE  /\ PlayAfter(r, k) \in k + 1 .. NumPlays(r.op) + 1
         /\ \A j \in k + 1 .. PlayAfter(r, k) - 1 : PlayHosts(r.op, r.on, j) \subseteq r.failed
         /\ PlayAfter(r, k) <= NumPlays(r.op) =>
              ~ PlayHosts(r.op, r.on, PlayAfter(r, k)) \subseteq r.failed
<1> DEFINE n == NumPlays(r.op)
           live == {j \in 1..n : j > k /\ ~ PlayHosts(r.op, r.on, j) \subseteq r.failed}
<1>1. n \in 1..3 /\ DOMAIN Playbook[r.op] = 1..n
  BY Counts DEF Runs
<1>2. PlayAfter(r, k) = IF live = {} THEN n + 1 ELSE CHOOSE j \in live : \A i \in live : j <= i
  BY <1>1 DEF PlayAfter, NumPlays
<1>3. CASE live = {}
  BY <1>1, <1>2, <1>3
<1>4. CASE live # {}
  <2>1. \E j \in live : \A i \in live : j <= i
    <3>1. CASE 1 \in live
      BY <1>1, <3>1
    <3>2. CASE 1 \notin live /\ 2 \in live
      BY <1>1, <3>2
    <3>3. CASE 1 \notin live /\ 2 \notin live
      BY <1>1, <1>4, <3>3
    <3>4. QED
      BY <3>1, <3>2, <3>3
  <2>2. PlayAfter(r, k) \in live /\ \A i \in live : PlayAfter(r, k) <= i
    BY <1>2, <1>4, <2>1
  <2>3. QED
    BY <1>1, <2>2
<1>5. QED
  BY <1>3, <1>4

\* e is run r at the beginning of play k.
IsEntered(r, e, k) ==
  /\ e \in Runs(r.on)
  /\ e.op = r.op /\ e.on = r.on /\ e.failed = r.failed /\ e.built = r.built
  /\ e.play = k /\ e.role = 1
  /\ e.left = IF k > NumPlays(r.op) THEN {} ELSE PlayHosts(r.op, r.on, k) \ r.failed

\* Entering a play changes the play, the role and the hosts to come.
LEMMA EnterFacts ==
  ASSUME NEW on, NEW r \in Runs(on), NEW k \in 1..NumPlays(r.op) + 1
  PROVE  IsEntered(r, Enter(r, k), k)
<1>1. NumPlays(r.op) \in 1..3 /\ r.on = on
  BY Counts DEF Runs
<1> DEFINE left == IF k > NumPlays(r.op) THEN {} ELSE PlayHosts(r.op, r.on, k) \ r.failed
<1>2. left \in SUBSET Hosts(on)
  BY <1>1, PlayHostsFacts
<1>3. Enter(r, k) = [r EXCEPT !.play = k, !.role = 1, !.left = left]
  BY DEF Enter, NumPlays
<1>4. k \in Nat
  BY <1>1
<1> HIDE DEF left
<1>5. Enter(r, k) \in Runs(on)
  <2>1. Enter(r, k) = [op |-> r.op, on |-> r.on, play |-> k, role |-> 1, left |-> left,
                       failed |-> r.failed, built |-> r.built]
    BY <1>3 DEF Runs
  <2>2. r.op \in Ops /\ r.on \in {on} /\ r.failed \in SUBSET Hosts(on) /\ r.built \in SUBSET Hosts(on)
    BY DEF Runs
  <2>3. QED
    BY <1>2, <1>4, <2>1, <2>2 DEF Runs
<1>6. /\ Enter(r, k).op = r.op /\ Enter(r, k).on = r.on
      /\ Enter(r, k).failed = r.failed /\ Enter(r, k).built = r.built
      /\ Enter(r, k).play = k /\ Enter(r, k).role = 1 /\ Enter(r, k).left = left
  BY <1>3 DEF Runs
<1>7. QED
  BY <1>1, <1>5, <1>6 DEF IsEntered, left

\* What entering a play makes of a run.
LEMMA EnterOK ==
  ASSUME NEW on, NEW r \in Runs(on), NEW k \in 1..NumPlays(r.op) + 1,
         k <= NumPlays(r.op) => ~ PlayHosts(r.op, r.on, k) \subseteq r.failed
  PROVE  RunOK(Enter(r, k))
<1>1. NumPlays(r.op) \in 1..3 /\ r.on = on
      /\ \A j \in 1..NumPlays(r.op) : NumRoles(r.op, j) \in 2..5
  BY Counts DEF Runs
<1> DEFINE e == Enter(r, k)
<1>0. IsEntered(r, e, k)
  BY <1>1, EnterFacts
<1> HIDE DEF e
<1>2. /\ e \in Runs(on) /\ e.op = r.op /\ e.on = on /\ e.failed = r.failed /\ e.play = k /\ e.role = 1
      /\ e.left = IF k > NumPlays(r.op) THEN {} ELSE PlayHosts(r.op, on, k) \ r.failed
  BY <1>0, <1>1 DEF IsEntered
<1>3. e.play \in 1..NumPlays(e.op) + 1
  BY <1>2
<1>4. ASSUME e.play <= NumPlays(e.op)
      PROVE  /\ e.role \in 1..NumRoles(e.op, e.play)
             /\ e.left # {} /\ e.left \subseteq PlayHosts(e.op, e.on, e.play) \ e.failed
  <2>1. k \in 1..NumPlays(r.op) /\ ~ PlayHosts(r.op, on, k) \subseteq r.failed
    BY <1>1, <1>2, <1>4
  <2>2. e.left = PlayHosts(r.op, on, k) \ r.failed
    BY <1>1, <1>2, <2>1
  <2>3. NumRoles(r.op, k) \in 2..5
    BY <1>1, <2>1
  <2>4. QED
    BY <1>2, <2>1, <2>2, <2>3
<1>5. e.play > NumPlays(e.op) => e.left = {}
  BY <1>2
<1>6. QED
  BY <1>2, <1>3, <1>4, <1>5 DEF RunOK, e

\* What Left makes of a run, before it moves on: host i is out of the role.
Without(r, i, failed) ==
  [r EXCEPT !.left = @ \ {i}, !.failed = IF failed THEN @ \cup {i} ELSE @,
            !.built = IF RoleOf(r) = "substrate" /\ ~failed THEN @ \cup {i} ELSE @]

\* s is run r without host i in its role.
IsWithout(r, s, i, failed) ==
  /\ s \in Runs(r.on)
  /\ s.op = r.op /\ s.on = r.on /\ s.play = r.play /\ s.role = r.role
  /\ s.left = r.left \ {i}
  /\ s.failed = IF failed THEN r.failed \cup {i} ELSE r.failed
  /\ s.built = IF RoleOf(r) = "substrate" /\ ~failed THEN r.built \cup {i} ELSE r.built

\* Taking host i out of its role changes nothing else of the run.
LEMMA WithoutFacts ==
  ASSUME NEW r, r \in Runs(r.on), NEW i \in r.left, NEW failed \in BOOLEAN
  PROVE  IsWithout(r, Without(r, i, failed), i, failed)
<1> DEFINE on == r.on
<1> DEFINE left == r.left \ {i}
           out == IF failed THEN r.failed \cup {i} ELSE r.failed
           built == IF RoleOf(r) = "substrate" /\ ~failed THEN r.built \cup {i} ELSE r.built
<1>1. /\ r.op \in Ops /\ r.on \in {on} /\ r.play \in Nat /\ r.role \in Nat
      /\ r.left \in SUBSET Hosts(on) /\ r.failed \in SUBSET Hosts(on) /\ r.built \in SUBSET Hosts(on)
  BY DEF Runs
<1>2. left \in SUBSET Hosts(on) /\ out \in SUBSET Hosts(on) /\ built \in SUBSET Hosts(on)
  BY <1>1
<1>3. Without(r, i, failed) = [r EXCEPT !.left = left, !.failed = out, !.built = built]
  BY DEF Without, Runs
<1> HIDE DEF left, out, built
<1>4. Without(r, i, failed) = [op |-> r.op, on |-> r.on, play |-> r.play, role |-> r.role,
                               left |-> left, failed |-> out, built |-> built]
  BY <1>3 DEF Runs
<1>5. Without(r, i, failed) \in Runs(on)
  BY <1>1, <1>2, <1>4 DEF Runs
<1>6. QED
  BY <1>4, <1>5 DEF IsWithout, left, out, built

\* s is run r at its next role.
IsMoved(r, s, left) ==
  /\ s \in Runs(r.on)
  /\ s.op = r.op /\ s.on = r.on /\ s.play = r.play /\ s.role = r.role + 1
  /\ s.left = left /\ s.failed = r.failed /\ s.built = r.built

\* The record of a run that moved to another role.
LEMMA MovedRecord ==
  ASSUME NEW on, NEW r \in Runs(on), NEW next, NEW left, NEW s,
         s = [r EXCEPT !.role = next, !.left = left]
  PROVE  s = [op |-> r.op, on |-> r.on, play |-> r.play, role |-> next,
              left |-> left, failed |-> r.failed, built |-> r.built]
  BY DEF Runs

\* Moving to the next role changes the role and the hosts to come.
LEMMA NextRoleFacts ==
  ASSUME NEW r, r \in Runs(r.on), NEW left \in SUBSET Hosts(r.on)
  PROVE  IsMoved(r, [r EXCEPT !.role = r.role + 1, !.left = left], left)
<1> DEFINE next == r.role + 1
<1>1. /\ r.op \in Ops /\ r.play \in Nat /\ next \in Nat
      /\ r.failed \in SUBSET Hosts(r.on) /\ r.built \in SUBSET Hosts(r.on)
  BY DEF Runs
<1> DEFINE s == [r EXCEPT !.role = next, !.left = left]
<1> HIDE DEF next
<1>2. s = [op |-> r.op, on |-> r.on, play |-> r.play, role |-> next,
           left |-> left, failed |-> r.failed, built |-> r.built]
  BY <1>1, MovedRecord
<1>3. s \in Runs(r.on)
  BY <1>1, <1>2 DEF Runs
<1> HIDE DEF s
<1>4. QED
  BY <1>2, <1>3 DEF IsMoved, s, next

\* How r goes on when host i leaves its role: in the same role; in the next
\* one, with the hosts that have not failed; in a later play, those in between
\* having no host left; or at the end, the whole play having failed.
SameRole(r, s, i) == s.play = r.play /\ s.role = r.role /\ s.left = r.left \ {i}

NextRole(r, s, i) ==
  /\ r.left = {i} /\ s.play = r.play /\ s.role = r.role + 1
  /\ s.left = PlayHosts(r.op, r.on, r.play) \ s.failed

NextPlay(r, s, i) ==
  /\ r.left = {i} /\ r.role = NumRoles(r.op, r.play) /\ s.play > r.play /\ s.role = 1
  /\ \A j \in r.play + 1 .. s.play - 1 : PlayHosts(r.op, r.on, j) \subseteq s.failed
  /\ s.play <= NumPlays(r.op) => s.left = PlayHosts(r.op, r.on, s.play) \ s.failed

AllFailed(r, s, i) ==
  r.left = {i} /\ s.play = NumPlays(r.op) + 1 /\ PlayHosts(r.op, r.on, r.play) \subseteq s.failed

Advance(r, s, i, failed) ==
  /\ s.op = r.op /\ s.on = r.on
  /\ s.failed = IF failed THEN r.failed \cup {i} ELSE r.failed
  /\ s.built = IF RoleOf(r) = "substrate" /\ ~failed THEN r.built \cup {i} ELSE r.built
  /\ SameRole(r, s, i) \/ NextRole(r, s, i) \/ NextPlay(r, s, i) \/ AllFailed(r, s, i)

\* A host that leaves its role leaves a well-formed run, moved on as Advance says.
LEMMA LeftFacts ==
  ASSUME NEW r, RunOK(r), NEW i \in r.left, NEW failed \in BOOLEAN
  PROVE  RunOK(Left(r, i, failed)) /\ Advance(r, Left(r, i, failed), i, failed)
<1> DEFINE w == Without(r, i, failed)
           alive == PlayHosts(w.op, w.on, w.play) \ w.failed
           moved == [w EXCEPT !.role = w.role + 1, !.left = alive]
           n == NumPlays(r.op)
<1>1. r \in Runs(r.on)
  BY DEF RunOK
<1>2. /\ w \in Runs(r.on)
      /\ w.op = r.op /\ w.on = r.on /\ w.play = r.play /\ w.role = r.role
      /\ w.left = r.left \ {i}
      /\ w.failed = IF failed THEN r.failed \cup {i} ELSE r.failed
      /\ w.built = IF RoleOf(r) = "substrate" /\ ~failed THEN r.built \cup {i} ELSE r.built
  <2>1. IsWithout(r, w, i, failed)
    BY <1>1, WithoutFacts
  <2> HIDE DEF w
  <2>2. QED
    BY <2>1 DEF IsWithout
<1>3. Left(r, i, failed) =
        IF w.left # {} THEN w
        ELSE IF alive = {} THEN Enter(w, n + 1)
        ELSE IF w.role < NumRoles(w.op, w.play) THEN moved
        ELSE Enter(w, PlayAfter(w, w.play))
  <2>1. Left(r, i, failed) =
        IF w.left # {} THEN w
        ELSE IF alive = {} THEN Enter(w, NumPlays(w.op) + 1)
        ELSE IF w.role < NumRoles(w.op, w.play) THEN [w EXCEPT !.role = @ + 1, !.left = alive]
        ELSE Enter(w, PlayAfter(w, w.play))
    BY DEF Left, Without, NumPlays, NumRoles
  <2> HIDE DEF w, alive
  <2>2. [w EXCEPT !.role = @ + 1, !.left = alive] = [w EXCEPT !.role = w.role + 1, !.left = alive]
    BY <1>2 DEF Runs
  <2>3. QED
    BY <1>2, <2>1, <2>2
<1>4. /\ n \in 1..3 /\ r.play \in 1..n
      /\ r.role \in 1..NumRoles(r.op, r.play) /\ NumRoles(r.op, r.play) \in 2..5
      /\ r.left \subseteq PlayHosts(r.op, r.on, r.play) \ r.failed
  BY Counts DEF RunOK, Runs
<1> HIDE DEF w, moved, n
<1>5. CASE w.left # {}
  <2>1. Left(r, i, failed) = w
    BY <1>3, <1>5
  <2>2. w.left \subseteq PlayHosts(r.op, r.on, r.play) \ w.failed
    BY <1>2, <1>4
  <2>3. RunOK(w)
    BY <1>2, <1>4, <1>5, <2>2 DEF RunOK, n
  <2>4. Advance(r, w, i, failed)
    BY <1>2 DEF Advance, SameRole
  <2>5. QED
    BY <2>1, <2>3, <2>4
<1>6. CASE w.left = {} /\ alive = {}
  <2>1. Left(r, i, failed) = Enter(w, n + 1)
    BY <1>3, <1>6
  <2>2. n + 1 \in 1..NumPlays(w.op) + 1 /\ ~ (n + 1 <= NumPlays(w.op))
    BY <1>2, <1>4 DEF n
  <2>3. RunOK(Enter(w, n + 1))
    BY <1>2, <2>2, EnterOK
  <2>4. Enter(w, n + 1).play = n + 1 /\ Enter(w, n + 1).failed = w.failed
        /\ Enter(w, n + 1).op = w.op /\ Enter(w, n + 1).on = w.on /\ Enter(w, n + 1).built = w.built
    <3>1. w \in Runs(r.on)
      BY <1>2
    <3>2. IsEntered(w, Enter(w, n + 1), n + 1)
      BY <2>2, <3>1, EnterFacts
    <3>3. QED
      BY <3>2 DEF IsEntered
  <2>5. r.left = {i}
    BY <1>2, <1>6
  <2>6. PlayHosts(r.op, r.on, r.play) \subseteq w.failed
    BY <1>2, <1>6
  <2>7. Advance(r, Enter(w, n + 1), i, failed)
    BY <1>2, <2>4, <2>5, <2>6 DEF Advance, AllFailed, n
  <2>8. QED
    BY <2>1, <2>3, <2>7
<1>7. CASE w.left = {} /\ alive # {} /\ w.role < NumRoles(w.op, w.play)
  <2>1. Left(r, i, failed) = moved
    BY <1>3, <1>7
  <2>2. alive \in SUBSET Hosts(r.on)
    BY <1>2, PlayHostsFacts
  <2> HIDE DEF alive
  <2>0. w \in Runs(w.on) /\ alive \in SUBSET Hosts(w.on) /\ w.on = r.on
    BY <1>2, <2>2
  <2>3. /\ moved \in Runs(r.on)
        /\ moved.op = w.op /\ moved.on = w.on /\ moved.play = w.play /\ moved.role = w.role + 1
        /\ moved.left = alive /\ moved.failed = w.failed /\ moved.built = w.built
    <3>1. IsMoved(w, moved, alive)
      BY <2>0, NextRoleFacts DEF moved
    <3>2. QED
      BY <2>0, <3>1 DEF IsMoved
  <2>4. RunOK(moved)
    <3>1. /\ moved.op = r.op /\ moved.on = r.on /\ moved.play = r.play /\ moved.role = r.role + 1
          /\ w.op = r.op /\ w.play = r.play /\ w.role = r.role
      BY <1>2, <2>3
    <3>2. moved.play \in 1..NumPlays(moved.op) /\ moved.role \in 1..NumRoles(moved.op, moved.play)
      <4>1. r.role < NumRoles(r.op, r.play)
        BY <1>7, <3>1
      <4>2. r.role + 1 \in 1..NumRoles(r.op, r.play)
        BY <1>4, <4>1
      <4>3. r.play \in 1..NumPlays(r.op)
        BY <1>4 DEF n
      <4> QED
        BY <3>1, <4>2, <4>3
    <3>3. moved.left = PlayHosts(moved.op, moved.on, moved.play) \ moved.failed /\ moved.left # {}
      BY <1>2, <1>7, <2>3, <3>1 DEF alive
    <3>4. NumPlays(moved.op) \in Nat
      BY <1>4, <3>1 DEF n
    <3>5. moved.play \in 1..NumPlays(moved.op) + 1 /\ ~ (moved.play > NumPlays(moved.op))
      BY <3>2, <3>4
    <3>6. moved \in Runs(moved.on)
      BY <2>3, <3>1
    <3>7. QED
      BY <3>2, <3>3, <3>5, <3>6 DEF RunOK
  <2>5. Advance(r, moved, i, failed)
    BY <1>2, <1>7, <2>3 DEF Advance, NextRole, alive
  <2>6. QED
    BY <2>1, <2>4, <2>5
<1>8. CASE w.left = {} /\ alive # {} /\ ~ (w.role < NumRoles(w.op, w.play))
  <2> DEFINE k == PlayAfter(w, w.play)
  <2>1. Left(r, i, failed) = Enter(w, k)
    BY <1>3, <1>8
  <2>2. w.play \in 0..NumPlays(w.op)
    BY <1>2, <1>4 DEF n
  <2>3. /\ k \in w.play + 1 .. NumPlays(w.op) + 1
        /\ \A j \in w.play + 1 .. k - 1 : PlayHosts(w.op, w.on, j) \subseteq w.failed
        /\ k <= NumPlays(w.op) => ~ PlayHosts(w.op, w.on, k) \subseteq w.failed
    BY <1>2, <2>2, PlayAfterFacts
  <2> HIDE DEF k
  <2>4. k \in 1..NumPlays(w.op) + 1
    BY <1>2, <1>4, <2>3 DEF n
  <2>5. RunOK(Enter(w, k))
    BY <1>2, <2>3, <2>4, EnterOK
  <2>6. /\ Enter(w, k).op = w.op /\ Enter(w, k).on = w.on
        /\ Enter(w, k).failed = w.failed /\ Enter(w, k).built = w.built
        /\ Enter(w, k).play = k /\ Enter(w, k).role = 1
        /\ Enter(w, k).left = IF k > NumPlays(w.op) THEN {} ELSE PlayHosts(w.op, w.on, k) \ w.failed
    BY <1>2, <2>4, EnterFacts DEF IsEntered
  <2>7. r.left = {i} /\ r.role = NumRoles(r.op, r.play)
    BY <1>2, <1>4, <1>8
  <2> DEFINE e == Enter(w, k)
  <2> HIDE DEF e
  <2>8. NextPlay(r, e, i)
    <3>1. e.play > r.play /\ e.role = 1
      BY <1>2, <1>4, <2>3, <2>6 DEF n, e
    <3>2. \A j \in r.play + 1 .. e.play - 1 : PlayHosts(r.op, r.on, j) \subseteq e.failed
      BY <1>2, <2>3, <2>6 DEF e
    <3>3. e.play <= NumPlays(r.op) => e.left = PlayHosts(r.op, r.on, e.play) \ e.failed
      BY <1>2, <1>4, <2>4, <2>6 DEF e, n
    <3>4. QED
      BY <2>7, <3>1, <3>2, <3>3 DEF NextPlay
  <2>9. Advance(r, e, i, failed)
    BY <1>2, <2>6, <2>8 DEF Advance, e
  <2>10. QED
    BY <2>1, <2>5, <2>9 DEF e
<1>9. QED
  BY <1>5, <1>6, <1>7, <1>8

-------------------------------------------------------------------------------
(* What the roles do to the hosts.                                          *)

\* The fields of things.
LEMMA ThingFacts ==
  ASSUME NEW kind, NEW h, NEW key, NEW for, NEW image
  PROVE  /\ Thing(kind, h, key, for).kind = kind /\ Thing(kind, h, key, for).host = h
         /\ Thing(kind, h, key, for).key = key /\ Thing(kind, h, key, for).for = for
         /\ Thing(kind, h, key, for).image = Blank
         /\ OfImage(kind, h, key, image).kind = kind /\ OfImage(kind, h, key, image).host = h
         /\ OfImage(kind, h, key, image).key = key /\ OfImage(kind, h, key, image).for = key
         /\ OfImage(kind, h, key, image).image = image
<1>1. \A f : Thing(kind, h, key, f) \in
        [kind : {kind}, host : {h}, key : {key}, for : {f}, image : {Blank}]
  BY DEF Thing
<1>2. /\ OfImage(kind, h, key, image).kind = kind /\ OfImage(kind, h, key, image).host = h
      /\ OfImage(kind, h, key, image).key = key /\ OfImage(kind, h, key, image).for = key
      /\ OfImage(kind, h, key, image).image = image
  <2> DEFINE t == Thing(kind, h, key, key)
  <2>1. t \in [kind : {kind}, host : {h}, key : {key}, for : {key}, image : {Blank}]
    BY <1>1
  <2>2. OfImage(kind, h, key, image) = [t EXCEPT !.image = image]
    BY DEF OfImage
  <2> HIDE DEF t
  <2>3. QED
    BY <2>1, <2>2
<1>3. QED
  BY <1>2 DEF Thing

\* Role i of the run is left, failed or not.
Leaves(i) == \E failed \in BOOLEAN : run' = Left(run, i, failed)

\* What a role may take and put, and that it has done so when it succeeds.
RoleEffect(role, i, gone, new) ==
  /\ At(role, i) /\ fleet' = fleet
  /\ has \ has' \subseteq gone /\ has' \ has \subseteq new
  /\ \E failed \in BOOLEAN :
       run' = Left(run, i, failed) /\ (~failed => has' = (has \ gone) \cup new)

\* A role that can always succeed has its effect.
LEMMA RoleFacts ==
  ASSUME NEW role, NEW i, NEW gone, NEW new, Role(role, i, gone, new, TRUE)
  PROVE  RoleEffect(role, i, gone, new)
<1>1. At(role, i) /\ fleet' = fleet
  BY DEF Role
<1>2. CASE has' = (has \ gone) \cup new /\ run' = Left(run, i, FALSE)
  BY <1>1, <1>2 DEF RoleEffect
<1>3. ASSUME NEW lost \in SUBSET (gone \cap has), NEW put \in SUBSET (new \ has),
             has' = (has \ lost) \cup put, run' = Left(run, i, TRUE)
      PROVE  RoleEffect(role, i, gone, new)
  <2>1. has \ has' \subseteq gone /\ has' \ has \subseteq new
    BY <1>3
  <2>2. \E failed \in BOOLEAN :
          run' = Left(run, i, failed) /\ (~failed => has' = (has \ gone) \cup new)
    BY <1>3
  <2>3. QED
    BY <1>1, <2>1, <2>2 DEF RoleEffect
<1>4. QED
  BY <1>2, <1>3 DEF Role

\* What the properties are not about.
Quiet(t) == t.kind \notin {"haproxy", "network", "domain", "hosts", "disk", "up", "booting"}

QuietStep == \A t \in (has \ has') \cup (has' \ has) : Quiet(t)

QuietNames == {"squid", "bmc", "mirror", "proxy", "unproxy", "unmirror", "unbmc", "unsquid",
               "image", "wait", "unwork"}

\* A role the properties are not about.
QuietEffect(i) ==
  /\ fleet' = fleet /\ Leaves(i) /\ QuietStep
  /\ \E role \in QuietNames : At(role, i)

\* A role that touches only quiet things has a quiet effect.
LEMMA QuietRole ==
  ASSUME NEW role \in QuietNames, NEW i, NEW gone, NEW new, Role(role, i, gone, new, TRUE),
         \A t \in gone \cup new : Quiet(t)
  PROVE  QuietEffect(i)
<1>1. /\ At(role, i) /\ fleet' = fleet
      /\ has \ has' \subseteq gone /\ has' \ has \subseteq new
  BY RoleFacts DEF RoleEffect
<1>2. Leaves(i)
  BY RoleFacts DEF RoleEffect, Leaves
<1>3. QED
  BY <1>1, <1>2 DEF QuietEffect, QuietStep

\* The roles the properties are not about.
LEMMA QuietRoles ==
  ASSUME NEW p, NEW h,
         \/ ApplySquid(p, h) \/ ApplyBMC(p, h) \/ ApplyMirror(p, h)
         \/ PersistProxy(p, h) \/ StripProxy(p, h)
         \/ DestroyMirror(p, h) \/ DestroyBMC(p, h) \/ DestroySquid(p, h)
         \/ CreateImage(p, h) \/ Wait(p, h) \/ RemoveWork(p, h)
  PROVE  QuietEffect(<<p, h>>)
<1>1. /\ \A kind : Service(h, kind, p).kind = kind
      /\ Quiet(Proxy(h)) /\ Quiet(Service(h, "squid", p)) /\ Quiet(Service(h, "bmc", p))
      /\ Quiet(Service(h, "mirror", p))
  BY ThingFacts DEF Service, Proxy, Quiet
<1>2. CASE ApplySquid(p, h)
  <2> DEFINE gone == {}
             new == IF run.on.provider[p].squid = h THEN {Service(h, "squid", p)} ELSE {}
  <2>1. Role("squid", <<p, h>>, gone, new, TRUE)
    BY <1>2 DEF ApplySquid
  <2>2. \A t \in gone \cup new : Quiet(t)
    BY <1>1
  <2> HIDE DEF gone, new
  <2>3. QED
    BY <2>1, <2>2, QuietRole DEF QuietNames
<1>3. CASE ApplyBMC(p, h)
  <2> DEFINE gone == {}
             new == IF run.on.provider[p].machine = Libvirt THEN {Service(h, "bmc", p)} ELSE {}
  <2>1. Role("bmc", <<p, h>>, gone, new, TRUE)
    BY <1>3 DEF ApplyBMC
  <2>2. \A t \in gone \cup new : Quiet(t)
    BY <1>1
  <2> HIDE DEF gone, new
  <2>3. QED
    BY <2>1, <2>2, QuietRole DEF QuietNames
<1>4. CASE ApplyMirror(p, h)
  <2> DEFINE gone == {}
             new == IF run.on.provider[p].mirror = h THEN {Service(h, "mirror", p)} ELSE {}
  <2>1. Role("mirror", <<p, h>>, gone, new, TRUE)
    BY <1>4 DEF ApplyMirror
  <2>2. \A t \in gone \cup new : Quiet(t)
    BY <1>1
  <2> HIDE DEF gone, new
  <2>3. QED
    BY <2>1, <2>2, QuietRole DEF QuietNames
<1>5. CASE PersistProxy(p, h)
  <2> DEFINE gone == {Proxy(h)}
             new == IF run.on.proxied THEN {Proxy(h)} ELSE {}
  <2>1. Role("proxy", <<p, h>>, gone, new, TRUE)
    BY <1>5 DEF PersistProxy
  <2>2. \A t \in gone \cup new : Quiet(t)
    <3>1. Quiet(Proxy(h))
      BY <1>1
    <3>2. \A t \in gone \cup new : t = Proxy(h)
      OBVIOUS
    <3>3. QED
      BY <3>1, <3>2
  <2> HIDE DEF gone, new
  <2>3. QED
    BY <2>1, <2>2, QuietRole DEF QuietNames
<1>6. CASE StripProxy(p, h)
  <2> DEFINE gone == {Proxy(h)}
             new == {}
  <2>1. Role("unproxy", <<p, h>>, gone, new, TRUE)
    BY <1>6 DEF StripProxy
  <2>2. \A t \in gone \cup new : Quiet(t)
    BY <1>1
  <2> HIDE DEF gone, new
  <2>3. QED
    BY <2>1, <2>2, QuietRole DEF QuietNames
<1>7. CASE DestroyMirror(p, h)
  <2> DEFINE gone == IF run.on.provider[p].mirror = h THEN {Service(h, "mirror", p)} ELSE {}
             new == {}
  <2>1. Role("unmirror", <<p, h>>, gone, new, TRUE)
    BY <1>7 DEF DestroyMirror
  <2>2. \A t \in gone \cup new : Quiet(t)
    BY <1>1
  <2> HIDE DEF gone, new
  <2>3. QED
    BY <2>1, <2>2, QuietRole DEF QuietNames
<1>8. CASE DestroyBMC(p, h)
  <2> DEFINE gone == IF run.on.provider[p].machine = Libvirt THEN {Service(h, "bmc", p)} ELSE {}
             new == {}
  <2>1. Role("unbmc", <<p, h>>, gone, new, TRUE)
    BY <1>8 DEF DestroyBMC
  <2>2. \A t \in gone \cup new : Quiet(t)
    BY <1>1
  <2> HIDE DEF gone, new
  <2>3. QED
    BY <2>1, <2>2, QuietRole DEF QuietNames
<1>9. CASE DestroySquid(p, h)
  <2> DEFINE gone == IF run.on.provider[p].squid = h THEN {Service(h, "squid", p)} ELSE {}
             new == {}
  <2>1. Role("unsquid", <<p, h>>, gone, new, TRUE)
    BY <1>9 DEF DestroySquid
  <2>2. \A t \in gone \cup new : Quiet(t)
    BY <1>1
  <2> HIDE DEF gone, new
  <2>3. QED
    BY <2>1, <2>2, QuietRole DEF QuietNames
<1>10. CASE CreateImage(p, h)
  BY <1>10 DEF CreateImage, Leaves, QuietStep, QuietEffect, QuietNames
<1>11. CASE Wait(p, h)
  BY <1>11 DEF Wait, Leaves, QuietStep, QuietEffect, QuietNames, Role
<1>12. CASE RemoveWork(p, h)
  BY <1>12 DEF RemoveWork, Leaves, QuietStep, QuietEffect, QuietNames
<1>13. QED
  BY <1>2, <1>3, <1>4, <1>5, <1>6, <1>7, <1>8, <1>9, <1>10, <1>11, <1>12

\* The fields of what belongs to a cluster.
LEMMA OwnedFacts ==
  ASSUME NEW h, NEW c, NEW n, NEW image
  PROVE  /\ HAProxy(h, n, c).kind = "haproxy" /\ HAProxy(h, n, c).host = h
         /\ HAProxy(h, n, c).key = n /\ HAProxy(h, n, c).for = c
         /\ Network(h, c).kind = "network" /\ Network(h, c).host = h /\ Network(h, c).for = c
         /\ Domain(h, c, n).kind = "domain" /\ Domain(h, c, n).host = h /\ Domain(h, c, n).for = c
         /\ HostsBlock(h, c).kind = "hosts" /\ HostsBlock(h, c).for = c
         /\ Disk(h, c, image).kind = "disk" /\ Disk(h, c, image).host = h
         /\ Disk(h, c, image).for = c /\ Disk(h, c, image).image = image
         /\ Booting(h, c, image).kind = "booting" /\ Booting(h, c, image).host = h
         /\ Booting(h, c, image).for = c
         /\ Up(h, c, image).kind = "up" /\ Up(h, c, image).host = h /\ Up(h, c, image).for = c
  BY ThingFacts DEF HAProxy, Network, Domain, HostsBlock, Disk, Booting, Up

\* The provider a load balancer of cluster c is on.
SupplierOf(s, c) == CHOOSE p \in BalancerSuppliers(s, c) : TRUE

\* The fields of a load balancer of the variables.
LEMMA BalancerFacts ==
  ASSUME NEW s, NEW b \in Balancers(s)
  PROVE  /\ b.cluster \in Names(s) /\ b.name \in s.cluster[b.cluster].lbs
         /\ b.provider = SupplierOf(s, b.cluster)
         /\ b.provider \in BalancerSuppliers(s, b.cluster)
         /\ b = [name |-> b.name, cluster |-> b.cluster, provider |-> b.provider]
<1>1. PICK c \in {d \in Names(s) : BalancerSuppliers(s, d) # {}} :
        \E n \in s.cluster[c].lbs :
          b = [name |-> n, cluster |-> c, provider |-> CHOOSE p \in BalancerSuppliers(s, c) : TRUE]
  BY DEF Balancers
<1>2. b.provider \in BalancerSuppliers(s, c)
  BY <1>1
<1>3. QED
  BY <1>1, <1>2 DEF SupplierOf

\* The containers a provider's host selects are recreated, each for a cluster
\* that names it.
BalancersEffect(p, h) ==
  /\ fleet' = fleet
  /\ \A t \in has \ has' :
       t.kind = "haproxy" /\ t.host = h /\ \E b \in BalancersOn(run.on, p, h) : b.name = t.key
  /\ \A t \in has' \ has : \E b \in BalancersOn(run.on, p, h) : t = HAProxy(h, b.name, b.cluster)
  /\ \E failed \in BOOLEAN :
       /\ run' = Left(run, <<p, h>>, failed)
       /\ ~failed => \A b \in BalancersOn(run.on, p, h) :
            \E d \in BalancersOn(run.on, p, h) :
              d.name = b.name /\ HAProxy(h, b.name, d.cluster) \in has'

\* load_balancer_haproxy on apply.
LEMMA ApplyBalancersFacts ==
  ASSUME NEW p, NEW h, ApplyBalancers(p, h)
  PROVE  At("balancers", <<p, h>>) /\ BalancersEffect(p, h)
<1> DEFINE mine == BalancersOn(run.on, p, h)
           names == {b.name : b \in mine}
           old == {t \in OnHost(h, {"haproxy"}) : t.key \in names}
           new(last) == {HAProxy(h, n, last[n]) : n \in names}
<1>1. PICK last \in [names -> {b.cluster : b \in mine}] :
        /\ \A n \in names : \E b \in mine : b.name = n /\ b.cluster = last[n]
        /\ Role("balancers", <<p, h>>, old, new(last), TRUE)
  BY DEF ApplyBalancers
<1>2. /\ At("balancers", <<p, h>>) /\ fleet' = fleet
      /\ has \ has' \subseteq old /\ has' \ has \subseteq new(last)
      /\ \E failed \in BOOLEAN :
           run' = Left(run, <<p, h>>, failed) /\ (~failed => has' = (has \ old) \cup new(last))
  <2> HIDE DEF old, new
  <2>1. RoleEffect("balancers", <<p, h>>, old, new(last))
    BY <1>1, RoleFacts
  <2>2. QED
    BY <2>1 DEF RoleEffect
<1>3. \A t \in has \ has' : t.kind = "haproxy" /\ t.host = h /\ \E b \in mine : b.name = t.key
  BY <1>2 DEF OnHost
<1>4. \A t \in has' \ has : \E b \in mine : t = HAProxy(h, b.name, b.cluster)
  <2>1. ASSUME NEW t \in has' \ has PROVE \E b \in mine : t = HAProxy(h, b.name, b.cluster)
    <3>1. PICK n \in names : t = HAProxy(h, n, last[n])
      BY <1>2, <2>1
    <3>2. QED
      BY <1>1, <3>1
  <2>2. QED
    BY <2>1
<1>5. ASSUME has' = (has \ old) \cup new(last), NEW b \in mine
      PROVE  \E d \in mine : d.name = b.name /\ HAProxy(h, b.name, d.cluster) \in has'
  <2>1. PICK d \in mine : d.name = b.name /\ d.cluster = last[b.name]
    BY <1>1
  <2>2. HAProxy(h, b.name, last[b.name]) \in has'
    BY <1>5
  <2>3. QED
    BY <2>1, <2>2
<1> HIDE DEF mine, old, new
<1>6. QED
  BY <1>2, <1>3, <1>4, <1>5 DEF BalancersEffect, mine

\* Containers go, all of names the host selects.
DestroyBalancersEffect(p, h) ==
  /\ fleet' = fleet /\ Leaves(<<p, h>>) /\ has' \subseteq has
  /\ \A t \in has \ has' :
       t.kind = "haproxy" /\ t.host = h /\ \E b \in BalancersOn(run.on, p, h) : b.name = t.key

\* load_balancer_haproxy on destroy takes the containers it would recreate.
LEMMA DestroyBalancersFacts ==
  ASSUME NEW p, NEW h, DestroyBalancers(p, h)
  PROVE  At("unbalancers", <<p, h>>) /\ DestroyBalancersEffect(p, h)
<1> DEFINE gone == {t \in OnHost(h, {"haproxy"}) :
                      t.key \in {b.name : b \in BalancersOn(run.on, p, h)}}
<1>1. Role("unbalancers", <<p, h>>, gone, {}, TRUE)
  BY DEF DestroyBalancers
<1>2. RoleEffect("unbalancers", <<p, h>>, gone, {})
  <2> HIDE DEF gone
  <2>1. QED
    BY <1>1, RoleFacts
<1>3. Leaves(<<p, h>>)
  BY <1>2 DEF RoleEffect, Leaves
<1>4. QED
  BY <1>2, <1>3 DEF RoleEffect, DestroyBalancersEffect, OnHost

\* A network that is not there yet takes the bridge from the others of the
\* host; disks are only added.
SubstrateEffect(c, h) ==
  /\ fleet' = fleet
  /\ \A t \in has \ has' :
       t.kind = "network" /\ \E d \in Names(fleet) \ {c} :
          t = Network(h, d) /\ fleet.cluster[d].bridge = run.on.cluster[c].bridge
  /\ \A t \in has' \ has : t = Network(h, c) \/ t.kind \in {"disk", "domain"}
  /\ \E failed \in BOOLEAN :
       /\ run' = Left(run, <<c, h>>, failed)
       /\ ~failed => /\ Network(h, c) \in has'
                     /\ \A m \in DOMAIN run.on.cluster[c].place : Domain(h, c, m) \in has'
                     /\ Of(h, c, {"disk"})' # {}

\* substrate_libvirt on apply.
LEMMA SubstrateFacts ==
  ASSUME NEW c, NEW h, ApplySubstrateRole(c, h)
  PROVE  At("substrate", <<c, h>>) /\ SubstrateEffect(c, h)
<1> DEFINE rivals == {Network(h, d) : d \in {e \in Names(fleet) \ {c} :
                          fleet.cluster[e].bridge = run.on.cluster[c].bridge}}
           gone == IF Network(h, c) \in has THEN {} ELSE rivals
           disk == IF Of(h, c, {"disk"}) = {} THEN {Disk(h, c, Blank)} ELSE {}
           machines == {Domain(h, c, m) : m \in DOMAIN run.on.cluster[c].place}
           new == {Network(h, c)} \cup disk \cup machines
<1>1. RoleEffect("substrate", <<c, h>>, gone, new)
  <2>1. Role("substrate", <<c, h>>, gone, new, TRUE)
    BY DEF ApplySubstrateRole
  <2> HIDE DEF gone, new
  <2>2. QED
    BY <2>1, RoleFacts
<1>2. /\ At("substrate", <<c, h>>) /\ fleet' = fleet
      /\ has \ has' \subseteq gone /\ has' \ has \subseteq new
      /\ \E failed \in BOOLEAN :
           run' = Left(run, <<c, h>>, failed) /\ (~failed => has' = (has \ gone) \cup new)
  <2> HIDE DEF gone, new
  <2>1. QED
    BY <1>1 DEF RoleEffect
<1>3. \A t \in has \ has' :
        t.kind = "network" /\ \E d \in Names(fleet) \ {c} :
          t = Network(h, d) /\ fleet.cluster[d].bridge = run.on.cluster[c].bridge
  BY <1>2, OwnedFacts
<1>4. \A t \in has' \ has : t = Network(h, c) \/ t.kind \in {"disk", "domain"}
  BY <1>2, OwnedFacts
<1>5. ASSUME has' = (has \ gone) \cup new
      PROVE  /\ Network(h, c) \in has'
             /\ \A m \in DOMAIN run.on.cluster[c].place : Domain(h, c, m) \in has'
             /\ Of(h, c, {"disk"})' # {}
  <2>1. Network(h, c) \in has' /\ \A m \in DOMAIN run.on.cluster[c].place : Domain(h, c, m) \in has'
    BY <1>5
  <2>2. \E t \in has' : t.kind = "disk" /\ t.host = h /\ t.for = c
    <3>1. CASE Of(h, c, {"disk"}) = {}
      <4>1. Disk(h, c, Blank) \in has'
        BY <1>5, <3>1
      <4>2. QED
        BY <4>1, OwnedFacts
    <3>2. CASE Of(h, c, {"disk"}) # {}
      <4>1. PICK t \in has : t.kind = "disk" /\ t.host = h /\ t.for = c
        BY <3>2 DEF Of, OnHost
      <4>2. t \notin rivals
        BY <4>1, OwnedFacts
      <4>3. QED
        BY <1>5, <4>1, <4>2
    <3>3. QED
      BY <3>1, <3>2
  <2>3. QED
    BY <2>1, <2>2 DEF Of, OnHost
<1> HIDE DEF gone, new
<1>6. QED
  BY <1>2, <1>3, <1>4, <1>5 DEF SubstrateEffect

\* Only hosts blocks come, and nothing goes.
HostsEffect(c, h) ==
  /\ fleet' = fleet /\ Leaves(<<c, h>>)
  /\ has \subseteq has' /\ \A t \in has' \ has : t.kind = "hosts"

\* The hosts block is only added.
LEMMA ApplyHostsFacts ==
  ASSUME NEW c, NEW h, ApplyHosts(c, h)
  PROVE  At("hosts", <<c, h>>) /\ HostsEffect(c, h)
<1> DEFINE new == IF h \in UNION {run.on.provider[p].names : p \in NameSuppliers(run.on, c)}
                  THEN {HostsBlock(h, c)} ELSE {}
<1>1. Role("hosts", <<c, h>>, {}, new, TRUE)
  BY DEF ApplyHosts
<1>2. \A t \in new : t.kind = "hosts"
  BY OwnedFacts
<1> HIDE DEF new
<1>3. RoleEffect("hosts", <<c, h>>, {}, new)
  BY <1>1, RoleFacts
<1>4. QED
  BY <1>2, <1>3 DEF RoleEffect, HostsEffect, Leaves

\* What destroys a cluster on a host takes what is the cluster's.
ForEffect(c, h) ==
  /\ fleet' = fleet /\ Leaves(<<c, h>>) /\ has' \subseteq has
  /\ \A t \in has \ has' : t.for = c

\* The hosts block of the cluster is only removed.
LEMMA RemoveHostsFacts ==
  ASSUME NEW c, NEW h, RemoveHosts(c, h)
  PROVE  At("unhosts", <<c, h>>) /\ ForEffect(c, h) /\ \A t \in has \ has' : t.kind = "hosts"
<1> DEFINE gone == {HostsBlock(h, c)}
<1>1. Role("unhosts", <<c, h>>, gone, {}, TRUE)
  BY DEF RemoveHosts
<1>2. \A t \in gone : t.kind = "hosts" /\ t.for = c
  BY OwnedFacts
<1> HIDE DEF gone
<1>3. RoleEffect("unhosts", <<c, h>>, gone, {})
  BY <1>1, RoleFacts
<1>4. QED
  BY <1>2, <1>3 DEF RoleEffect, ForEffect, Leaves

\* The disks of the cluster are only removed.
LEMMA RemoveDisksFacts ==
  ASSUME NEW c, NEW h, RemoveDisks(c, h)
  PROVE  At("undisk", <<c, h>>) /\ ForEffect(c, h)
<1> DEFINE gone == Of(h, c, {"disk"})
<1>1. Role("undisk", <<c, h>>, gone, {}, TRUE)
  BY DEF RemoveDisks
<1>2. \A t \in gone : t.for = c
  BY DEF Of
<1> HIDE DEF gone
<1>3. RoleEffect("undisk", <<c, h>>, gone, {})
  BY <1>1, RoleFacts
<1>4. QED
  BY <1>2, <1>3 DEF RoleEffect, ForEffect, Leaves

\* Undefining machines takes only what is the cluster's, and no disk.
LEMMA UndefineFacts ==
  ASSUME NEW c, NEW h, Undefine(c, h)
  PROVE  At("undefine", <<c, h>>) /\ ForEffect(c, h) /\ \A t \in has \ has' : t.kind # "disk"
<1> DEFINE soft == Of(h, c, {"up", "booting", "domain", "network"})
<1>1. PICK gone \in SUBSET soft : Role("undefine", <<c, h>>, gone, {}, TRUE)
  BY DEF Undefine
<1>2. \A t \in gone : t.for = c /\ t.kind # "disk"
  BY DEF Of, OnHost
<1>3. RoleEffect("undefine", <<c, h>>, gone, {})
  BY <1>1, RoleFacts
<1>4. QED
  BY <1>2, <1>3 DEF RoleEffect, ForEffect, Leaves

\* Only nodes are powered off, and only the cluster is started.
BootEffect(c, h) ==
  /\ fleet' = fleet /\ Leaves(<<c, h>>)
  /\ \A t \in has \ has' : t.kind \in {"up", "booting"}
  /\ \A t \in has' \ has : t.kind \in {"up", "booting"} /\ t.for = c /\ t.host = h

\* Booting a cluster.
LEMMA BootFacts ==
  ASSUME NEW c, NEW h, Boot(c, h)
  PROVE  At("boot", <<c, h>>) /\ BootEffect(c, h)
<1> DEFINE installed == {t.image : t \in Of(h, c, {"disk"})} \ {Blank}
           off == Of(h, c, {"up", "booting"})
           new == IF installed = {} THEN {Booting(h, c, work[c].image)} ELSE {Up(h, c, g) : g \in installed}
<1>1. /\ At("boot", <<c, h>>) /\ fleet' = fleet /\ Leaves(<<c, h>>)
      /\ has \ has' \subseteq off /\ has' \ has \subseteq new
  BY DEF Boot, Role, Leaves
<1>2. \A t \in new : t.kind \in {"up", "booting"} /\ t.for = c /\ t.host = h
  <2>1. \A g : /\ Booting(h, c, g).kind = "booting" /\ Booting(h, c, g).host = h
              /\ Booting(h, c, g).for = c
              /\ Up(h, c, g).kind = "up" /\ Up(h, c, g).host = h /\ Up(h, c, g).for = c
    BY OwnedFacts
  <2>2. QED
    BY <2>1
<1>3. \A t \in off : t.kind \in {"up", "booting"}
  BY DEF Of, OnHost
<1> HIDE DEF new, off
<1>4. QED
  BY <1>1, <1>2, <1>3 DEF BootEffect

\* One role on one host.
HostStep(c, h) == PersistProxy(c, h) \/ StripProxy(c, h) \/ ProviderRole(c, h) \/ ClusterRole(c, h)

\* The effect of each role.
Effect(c, h) ==
  \/ QuietEffect(<<c, h>>)
  \/ At("balancers", <<c, h>>) /\ BalancersEffect(c, h)
  \/ At("unbalancers", <<c, h>>) /\ DestroyBalancersEffect(c, h)
  \/ At("substrate", <<c, h>>) /\ SubstrateEffect(c, h)
  \/ At("hosts", <<c, h>>) /\ HostsEffect(c, h)
  \/ At("unhosts", <<c, h>>) /\ ForEffect(c, h) /\ (\A t \in has \ has' : t.kind = "hosts")
  \/ At("undefine", <<c, h>>) /\ ForEffect(c, h) /\ (\A t \in has \ has' : t.kind # "disk")
  \/ At("undisk", <<c, h>>) /\ ForEffect(c, h)
  \/ At("boot", <<c, h>>) /\ BootEffect(c, h)

\* One role on one host, by its effect.
LEMMA StepEffect ==
  ASSUME NEW c, NEW h, HostStep(c, h)
  PROVE  Effect(c, h)
<1>1. CASE \/ ApplySquid(c, h) \/ ApplyBMC(c, h) \/ ApplyMirror(c, h)
           \/ PersistProxy(c, h) \/ StripProxy(c, h)
           \/ DestroyMirror(c, h) \/ DestroyBMC(c, h) \/ DestroySquid(c, h)
           \/ CreateImage(c, h) \/ Wait(c, h) \/ RemoveWork(c, h)
  BY <1>1, QuietRoles DEF Effect
<1>2. CASE ApplyBalancers(c, h)
  BY <1>2, ApplyBalancersFacts DEF Effect
<1>3. CASE DestroyBalancers(c, h)
  BY <1>3, DestroyBalancersFacts DEF Effect
<1>4. CASE ApplySubstrateRole(c, h)
  BY <1>4, SubstrateFacts DEF Effect
<1>5. CASE ApplyHosts(c, h)
  BY <1>5, ApplyHostsFacts DEF Effect
<1>6. CASE RemoveHosts(c, h)
  BY <1>6, RemoveHostsFacts DEF Effect
<1>7. CASE Undefine(c, h)
  BY <1>7, UndefineFacts DEF Effect
<1>8. CASE Boot(c, h)
  BY <1>8, BootFacts DEF Effect
<1>9. CASE RemoveDisks(c, h)
  BY <1>9, RemoveDisksFacts DEF Effect
<1>10. QED
  BY <1>1, <1>2, <1>3, <1>4, <1>5, <1>6, <1>7, <1>8, <1>9 DEF HostStep, ProviderRole, ClusterRole

\* Whatever the role, its host leaves it, and the fleet stays.
LEMMA EffectLeaves ==
  ASSUME NEW c, NEW h, Effect(c, h)
  PROVE  /\ fleet' = fleet /\ Leaves(<<c, h>>)
         /\ run # Idle /\ ~ Done(run) /\ <<c, h>> \in run.left
<1>1. fleet' = fleet
  BY DEF Effect, QuietEffect, BalancersEffect, DestroyBalancersEffect, SubstrateEffect,
         HostsEffect, ForEffect, BootEffect
<1>2. Leaves(<<c, h>>)
  BY DEF Effect, QuietEffect, BalancersEffect, DestroyBalancersEffect, SubstrateEffect,
         HostsEffect, ForEffect, BootEffect, Leaves
<1>3. \E role : At(role, <<c, h>>)
  BY DEF Effect, QuietEffect
<1>4. QED
  BY <1>1, <1>2, <1>3 DEF At

-------------------------------------------------------------------------------
(* The runs of a fleet.                                                     *)

\* The fleet is a declared one but for install configs, and a run works on it
\* or on the part --scope left of it.
FleetOK == IsState(fleet) /\ \E s \in Fleets : Alike(fleet, s) /\ Valid(s)

Selected(on) == on = fleet \/ \E names \in SUBSET Names(fleet) : on = Filtered(fleet, names)

\* Whatever runs is a well-formed run on a selection of the fleet.
RunInv == run # Idle => RunOK(run) /\ Selected(run.on)

\* A well-formed run is not Idle.
LEMMA NotIdle == ASSUME NEW r, RunOK(r) PROVE r # Idle
<1>1. r.op \in Ops
  BY DEF RunOK, Runs
<1>2. Idle.op = "none"
  BY DEF Idle, None
<1>3. QED
  BY <1>1, <1>2 DEF Ops

\* A command starts a run before its first play, on what --scope left.
LEMMA StartFacts ==
  ASSUME NEW names \in SUBSET Names(fleet), NEW op \in DOMAIN Playbook, Start(op, names)
  PROVE  /\ fleet' = fleet /\ has' = has
         /\ \E on : /\ Selected(on)
                    /\ \E r \in Runs(on) :
                         /\ r.op = op /\ r.on = on /\ r.play = 0
                         /\ r.left = {} /\ r.failed = {} /\ r.built = {}
                         /\ run' = Enter(r, PlayAfter(r, 0))
<1> DEFINE on == IF names = {} THEN fleet ELSE Filtered(fleet, names)
           r == [op |-> op, on |-> on, play |-> 0, role |-> 1, left |-> {}, failed |-> {}, built |-> {}]
<1>1. run' = Enter(r, PlayAfter(r, 0)) /\ fleet' = fleet /\ has' = has
  BY DEF Start
<1>2. Selected(on)
  BY DEF Selected
<1>3. op \in Ops
  BY Plays
<1> HIDE DEF on
<1>4. r \in Runs(on)
  BY <1>3 DEF Runs
<1>5. QED
  BY <1>1, <1>2, <1>4

\* A run enters the first of its plays that has hosts.
LEMMA StartEnters ==
  ASSUME NEW on, NEW r \in Runs(on), r.play = 0, r.failed = {}
  PROVE  LET e == Enter(r, PlayAfter(r, 0))
         IN  /\ RunOK(e) /\ e.op = r.op /\ e.on = on /\ e.failed = {} /\ e.built = r.built
             /\ e.play \in 1..NumPlays(r.op) + 1 /\ e.role = 1
             /\ \A j \in 1..e.play - 1 : PlayHosts(r.op, on, j) = {}
             /\ e.play <= NumPlays(r.op) => e.left = PlayHosts(r.op, on, e.play)
<1> DEFINE k == PlayAfter(r, 0)
<1>1. NumPlays(r.op) \in 1..3 /\ r.on = on
  BY Counts DEF Runs
<1>2. /\ k \in 1 .. NumPlays(r.op) + 1
      /\ \A j \in 1 .. k - 1 : PlayHosts(r.op, on, j) \subseteq {}
      /\ k <= NumPlays(r.op) => ~ PlayHosts(r.op, on, k) \subseteq r.failed
  <2>1. 0 \in 0..NumPlays(r.op)
    BY <1>1
  <2>2. /\ k \in 0 + 1 .. NumPlays(r.op) + 1
        /\ \A j \in 0 + 1 .. k - 1 : PlayHosts(r.op, r.on, j) \subseteq r.failed
        /\ k <= NumPlays(r.op) => ~ PlayHosts(r.op, r.on, k) \subseteq r.failed
    BY <2>1, PlayAfterFacts
  <2> HIDE DEF k
  <2>3. QED
    BY <1>1, <2>2
<1> HIDE DEF k
<1>3. RunOK(Enter(r, k))
  BY <1>1, <1>2, EnterOK
<1>4. IsEntered(r, Enter(r, k), k)
  BY <1>1, <1>2, EnterFacts
<1>5. /\ Enter(r, k).op = r.op /\ Enter(r, k).on = on /\ Enter(r, k).failed = {}
      /\ Enter(r, k).built = r.built /\ Enter(r, k).play = k /\ Enter(r, k).role = 1
      /\ k <= NumPlays(r.op) => Enter(r, k).left = PlayHosts(r.op, on, k)
  BY <1>1, <1>2, <1>4 DEF IsEntered
<1>6. QED
  BY <1>1, <1>2, <1>3, <1>5 DEF k

\* A role that is left leaves a well-formed run of the same command.
LEMMA LeavesFacts ==
  ASSUME NEW c, NEW h, RunOK(run), Effect(c, h)
  PROVE  /\ RunOK(run') /\ run'.on = run.on /\ run'.op = run.op
         /\ \E failed \in BOOLEAN : Advance(run, run', <<c, h>>, failed)
<1>1. Leaves(<<c, h>>) /\ <<c, h>> \in run.left
  BY EffectLeaves
<1>2. PICK failed \in BOOLEAN : run' = Left(run, <<c, h>>, failed)
  BY <1>1 DEF Leaves
<1>3. RunOK(run') /\ Advance(run, run', <<c, h>>, failed)
  BY <1>1, <1>2, LeftFacts
<1>4. QED
  BY <1>3 DEF Advance

\* Where a role is in the playbook of the run.
LEMMA AtFacts ==
  ASSUME NEW role, NEW i, RunOK(run), At(role, i)
  PROVE  /\ Place(run.op, run.play, run.role) /\ role = RoleAt(run.op, run.play, run.role)
         /\ Located(run.op, run.play, run.role, role, GroupAt(run.op, run.play))
         /\ i \in PlayHosts(run.op, run.on, run.play) \ run.failed
<1>1. run.op \in Ops /\ run.play \in 1..NumPlays(run.op) + 1
  BY DEF RunOK, Runs
<1>2. NumPlays(run.op) \in 1..3
  BY <1>1, Counts
<1>3. run.play <= NumPlays(run.op) /\ RoleAt(run.op, run.play, run.role) = role /\ i \in run.left
  BY <1>1, <1>2 DEF At, Done, RoleOf, RoleAt, NumPlays
<1>4. Place(run.op, run.play, run.role)
  BY <1>1, <1>2, <1>3 DEF RunOK, Place
<1>5. i \in PlayHosts(run.op, run.on, run.play) \ run.failed
  BY <1>3 DEF RunOK
<1>6. QED
  BY <1>3, <1>4, <1>5, RolePlaces

\* The fleet stays a declared one when the operator edits it.
LEMMA EditFleetOK ==
  ASSUME FleetOK, NEW c \in Names(fleet), Edit(c)
  PROVE  FleetOK'
<1>1. Alike(fleet', fleet)
  BY EditAlike DEF FleetOK
<1>2. PICK s \in Fleets : Alike(fleet, s) /\ Valid(s)
  BY DEF FleetOK
<1>3. IsState(fleet') /\ Alike(fleet', s)
  BY <1>1, <1>2 DEF Alike
<1>4. QED
  BY <1>2, <1>3 DEF FleetOK

\* The invariant the others build on.
FleetInv == FleetOK /\ RunInv

\* Every step of the specification, by what it does.
LEMMA NextCases ==
  ASSUME [Next]_vars
  PROVE  \/ \E names \in SUBSET Names(fleet), op \in DOMAIN Playbook : Start(op, names)
         \/ Stop
         \/ \E c, h : Effect(c, h)
         \/ \E t \in has : t.kind = "booting" /\ Install(t.host, t.for, t.image)
         \/ \E c \in Names(fleet) : Edit(c)
         \/ UNCHANGED vars
<1>1. ASSUME Step PROVE \E c, h : HostStep(c, h)
  BY <1>1 DEF Step, HostStep
<1>2. QED
  BY <1>1, StepEffect DEF Next, Command, Agent

\* FleetInv holds to begin with.
LEMMA FleetInvInit == Init => FleetInv
<1> SUFFICES ASSUME Init PROVE FleetInv
  OBVIOUS
<1>1. fleet \in Fleets /\ Valid(fleet) /\ run = Idle
  BY DEF Init
<1>2. IsState(fleet)
  BY <1>1, FleetsAssumption
<1>3. Alike(fleet, fleet)
  BY <1>2 DEF Alike
<1>4. QED
  BY <1>1, <1>2, <1>3 DEF FleetInv, FleetOK, RunInv

\* Every step keeps FleetInv.
LEMMA FleetInvNext ==
  ASSUME FleetInv, [Next]_vars
  PROVE  FleetInv'
<1>1. FleetOK /\ RunInv
  BY DEF FleetInv
<1>2. CASE \E names \in SUBSET Names(fleet), op \in DOMAIN Playbook : Start(op, names)
  <2>1. PICK names \in SUBSET Names(fleet), op \in DOMAIN Playbook : Start(op, names)
    BY <1>2
  <2>2. PICK on : /\ fleet' = fleet /\ Selected(on)
                  /\ \E r \in Runs(on) :
                         /\ r.op = op /\ r.on = on /\ r.play = 0
                         /\ r.left = {} /\ r.failed = {} /\ r.built = {}
                         /\ run' = Enter(r, PlayAfter(r, 0))
    BY <2>1, StartFacts
  <2>3. RunOK(run') /\ run'.on = on
    BY <2>2, StartEnters
  <2>4. Selected(run.on)'
    BY <2>2, <2>3 DEF Selected
  <2>5. QED
    BY <1>1, <2>2, <2>3, <2>4 DEF FleetInv, FleetOK, RunInv
<1>3. CASE Stop
  BY <1>1, <1>3 DEF Stop, FleetInv, FleetOK, RunInv
<1>4. ASSUME NEW c, NEW h, Effect(c, h) PROVE FleetInv'
  <2>1. fleet' = fleet /\ run # Idle
    BY <1>4, EffectLeaves
  <2>2. RunOK(run) /\ Selected(run.on)
    BY <1>1, <2>1 DEF RunInv
  <2>3. RunOK(run') /\ run'.on = run.on
    BY <1>4, <2>2, LeavesFacts
  <2>4. Selected(run.on)'
    BY <2>1, <2>2, <2>3 DEF Selected
  <2>5. QED
    BY <1>1, <2>1, <2>3, <2>4 DEF FleetInv, FleetOK, RunInv
<1>5. CASE \E t \in has : t.kind = "booting" /\ Install(t.host, t.for, t.image)
  <2>1. fleet' = fleet /\ run' = run
    BY <1>5 DEF Install
  <2>2. QED
    BY <1>1, <2>1 DEF FleetInv, FleetOK, RunInv, Selected
<1>6. ASSUME NEW c \in Names(fleet), Edit(c) PROVE FleetInv'
  <2>1. FleetOK'
    BY <1>1, <1>6, EditFleetOK
  <2>2. run' = Idle
    BY <1>6 DEF Edit
  <2>3. QED
    BY <2>1, <2>2 DEF FleetInv, RunInv
<1>7. CASE UNCHANGED vars
  BY <1>1, <1>7 DEF vars, FleetInv, FleetOK, RunInv, Selected
<1>8. QED
  BY <1>2, <1>3, <1>4, <1>5, <1>6, <1>7, NextCases

-------------------------------------------------------------------------------
(* Disks.                                                                   *)

\* A step that takes an installed disk is one of `destroy infra`.
LEMMA DisksKeptStep ==
  ASSUME FleetInv, [Next]_vars
  PROVE  \A t \in has \ has' :
           t.kind = "disk" /\ t.image # Blank => run # Idle /\ run.op = "destroy-infra"
<1> SUFFICES ASSUME NEW t \in has \ has', t.kind = "disk", t.image # Blank
             PROVE  run # Idle /\ run.op = "destroy-infra"
  OBVIOUS
<1>1. ASSUME NEW c, NEW h, Effect(c, h) PROVE run # Idle /\ run.op = "destroy-infra"
  <2>1. run # Idle /\ RunOK(run)
    BY <1>1, EffectLeaves DEF FleetInv, RunInv
  <2>2. At("undisk", <<c, h>>)
    BY <1>1 DEF Effect, QuietEffect, QuietStep, Quiet, BalancersEffect, DestroyBalancersEffect,
                SubstrateEffect, HostsEffect, BootEffect
  <2>3. QED
    BY <2>1, <2>2, AtFacts DEF Located
<1>2. ASSUME NEW u \in has, Install(u.host, u.for, u.image) PROVE FALSE
  <2>1. t \in {Booting(u.host, u.for, u.image), Disk(u.host, u.for, Blank)}
    BY <1>2 DEF Install
  <2>2. QED
    BY <2>1, OwnedFacts
<1>3. ASSUME has' = has PROVE FALSE
  BY <1>3
<1>4. QED
  BY <1>1, <1>2, <1>3, NextCases DEF Stop, Edit, Start, vars

\* An installed disk outlives all but `destroy infra`, in every fleet
\* (DisksKept): the roles that take a disk away are in no other playbook.
THEOREM DisksOutlive == Spec => DisksKept
<1>1. Init => FleetInv
  BY FleetInvInit
<1>2. FleetInv /\ [Next]_vars => FleetInv'
  BY FleetInvNext
<1>3. FleetInv /\ [Next]_vars => [\A t \in has \ has' :
        t.kind = "disk" /\ t.image # Blank => run # Idle /\ run.op = "destroy-infra"]_vars
  BY DisksKeptStep
<1>4. QED
  BY <1>1, <1>2, <1>3, PTL DEF Spec, DisksKept

-------------------------------------------------------------------------------
(* `apply all` boots what it built.                                         *)

\* The plays of `apply all`: the providers, then the clusters twice.
LEMMA ApplyAllShape ==
  /\ NumPlays("apply-all") = 3
  /\ NumRoles("apply-all", 1) = 5 /\ NumRoles("apply-all", 2) = 3 /\ NumRoles("apply-all", 3) = 4
  /\ \A on : /\ PlayHosts("apply-all", on, 1) = ProviderHosts(on)
             /\ PlayHosts("apply-all", on, 2) = ClusterHosts(on)
             /\ PlayHosts("apply-all", on, 3) = ClusterHosts(on)
<1>1. /\ NumPlays("apply-all") = 3
      /\ NumRoles("apply-all", 1) = 5 /\ NumRoles("apply-all", 2) = 3 /\ NumRoles("apply-all", 3) = 4
      /\ GroupAt("apply-all", 1) = "provider" /\ GroupAt("apply-all", 2) = "infra"
      /\ GroupAt("apply-all", 3) = "ocp"
  BY PlayShape, RolesOfPlay
<1>2. QED
  BY <1>1, PlayHostsFacts

\* The hosts of the clusters that have not failed are built once the
\* substrate role has left them.
Built(r) ==
  LET up == ClusterHosts(r.on) \ r.failed
  IN  /\ r.play = 2 /\ r.role = 2 => up \ r.left \subseteq r.built
      /\ r.play = 2 /\ r.role = 3 => up \subseteq r.built
      /\ r.play = 3 => up \subseteq r.built

\* Built holds on as hosts leave their roles.
LEMMA BuiltStep ==
  ASSUME NEW r, NEW s, NEW i, NEW failed \in BOOLEAN, RunOK(r), i \in r.left, r.op = "apply-all",
         Built(r), Advance(r, s, i, failed)
  PROVE  Built(s)
<1> DEFINE C == ClusterHosts(r.on)
<1>1. /\ s.on = r.on
      /\ s.failed = IF failed THEN r.failed \cup {i} ELSE r.failed
      /\ s.built = IF RoleOf(r) = "substrate" /\ ~failed THEN r.built \cup {i} ELSE r.built
  BY DEF Advance
<1>2. r.play \in 1..3 /\ r.role \in 1..NumRoles(r.op, r.play)
  <2>1. r.left # {}
    OBVIOUS
  <2>2. r.play \in 1..4
    BY ApplyAllShape DEF RunOK
  <2>3. QED
    BY <2>1, <2>2, ApplyAllShape DEF RunOK
<1>3. r.play = 2 /\ r.role = 2 => RoleOf(r) = "substrate"
  <2>1. RoleAt("apply-all", 2, 2) = "substrate"
    BY PlayShape, RolesOfPlay
  <2>2. QED
    BY <2>1 DEF RoleAt, RoleOf
<1>4. r.failed \subseteq s.failed /\ r.built \subseteq s.built
      /\ (r.play = 2 /\ r.role = 2 => i \in s.failed \/ i \in s.built)
  BY <1>1, <1>3
<1>5. CASE SameRole(r, s, i)
  BY <1>1, <1>4, <1>5 DEF SameRole, Built
<1>6. CASE NextRole(r, s, i)
  <2>1. r.left = {i} /\ s.play = r.play /\ s.role = r.role + 1
        /\ s.left = PlayHosts("apply-all", r.on, r.play) \ s.failed
    BY <1>6 DEF NextRole
  <2>2. s.play = 2 /\ s.role = 2 => (C \ s.failed) \ s.left \subseteq s.built
    BY <2>1, ApplyAllShape
  <2>3. s.play = 2 /\ s.role = 3 => C \ s.failed \subseteq s.built
    BY <1>2, <1>4, <2>1 DEF Built
  <2>4. s.play = 3 => C \ s.failed \subseteq s.built
    BY <1>4, <2>1 DEF Built
  <2>5. QED
    BY <1>1, <2>2, <2>3, <2>4 DEF Built
<1>7. CASE NextPlay(r, s, i)
  <2>1. /\ r.left = {i} /\ r.role = NumRoles("apply-all", r.play) /\ s.play > r.play /\ s.role = 1
        /\ \A j \in r.play + 1 .. s.play - 1 : PlayHosts("apply-all", r.on, j) \subseteq s.failed
    BY <1>7 DEF NextPlay
  <2>2. ASSUME s.play = 3 PROVE C \ s.failed \subseteq s.built
    <3>1. CASE r.play = 2
      <4>1. r.role = 3
        BY <2>1, <3>1, ApplyAllShape
      <4>2. QED
        BY <1>4, <3>1, <4>1 DEF Built
    <3>2. CASE r.play = 1
      <4>1. 2 \in r.play + 1 .. s.play - 1
        BY <2>2, <3>2
      <4>2. C \subseteq s.failed
        BY <2>1, <4>1, ApplyAllShape
      <4>3. QED
        BY <4>2
    <3>3. QED
      BY <1>2, <2>1, <2>2, <3>1, <3>2
  <2>3. QED
    BY <1>1, <2>1, <2>2 DEF Built
<1>8. CASE AllFailed(r, s, i)
  BY <1>8, ApplyAllShape DEF AllFailed, Built
<1>9. QED
  BY <1>5, <1>6, <1>7, <1>8 DEF Advance

\* The invariant of `apply all`.
BuiltInv == run # Idle /\ run.op = "apply-all" => Built(run)

\* Every step keeps BuiltInv.
LEMMA BuiltNext ==
  ASSUME FleetInv, BuiltInv, [Next]_vars
  PROVE  BuiltInv'
<1>1. CASE \E names \in SUBSET Names(fleet), op \in DOMAIN Playbook : Start(op, names)
  <2>1. PICK on : \E r \in Runs(on) :
                         /\ r.on = on /\ r.play = 0 /\ r.failed = {}
                         /\ run' = Enter(r, PlayAfter(r, 0))
    BY <1>1, StartFacts
  <2>2. PICK r \in Runs(on) : r.on = on /\ r.play = 0 /\ r.failed = {}
                              /\ run' = Enter(r, PlayAfter(r, 0))
    BY <2>1
  <2>3. /\ run'.op = r.op /\ run'.on = on /\ run'.failed = {} /\ run'.role = 1
        /\ run'.play \in 1..NumPlays(r.op) + 1
        /\ \A j \in 1..run'.play - 1 : PlayHosts(r.op, on, j) = {}
    BY <2>2, StartEnters
  <2>4. ASSUME run'.op = "apply-all", run'.play = 3 PROVE ClusterHosts(on) = {}
    <3>1. 2 \in 1..run'.play - 1
      BY <2>4
    <3>2. QED
      BY <2>3, <2>4, <3>1, ApplyAllShape
  <2>5. run'.op = "apply-all" => Built(run')
    BY <2>3, <2>4 DEF Built
  <2>6. QED
    BY <2>5 DEF BuiltInv
<1>2. ASSUME NEW c, NEW h, Effect(c, h), run'.op = "apply-all" PROVE Built(run')
  <2>1. RunOK(run) /\ run # Idle /\ <<c, h>> \in run.left
    BY <1>2, EffectLeaves DEF FleetInv, RunInv
  <2>2. run'.op = run.op /\ \E failed \in BOOLEAN : Advance(run, run', <<c, h>>, failed)
    BY <1>2, <2>1, LeavesFacts
  <2>3. Built(run)
    BY <1>2, <2>1, <2>2 DEF BuiltInv
  <2>4. QED
    BY <1>2, <2>1, <2>2, <2>3, BuiltStep
<1>3. CASE run' = run
  BY <1>3 DEF BuiltInv
<1>4. CASE run' = Idle
  BY <1>4 DEF BuiltInv
<1>5. QED
  BY <1>1, <1>2, <1>3, <1>4, NextCases DEF BuiltInv, Stop, Install, Edit, vars

\* A step of `apply all` starts a cluster only on a host it has built.
LEMMA BootedStep ==
  ASSUME FleetInv, BuiltInv, [Next]_vars
  PROVE  run' # run /\ run # Idle /\ run.op = "apply-all" =>
           \A t \in has' \ has : t.kind \in {"booting", "up"} => <<t.for, t.host>> \in run.built
<1> SUFFICES ASSUME run' # run, run # Idle, run.op = "apply-all",
                    NEW t \in has' \ has, t.kind \in {"booting", "up"}
             PROVE  <<t.for, t.host>> \in run.built
  OBVIOUS
<1>1. ASSUME NEW c, NEW h, Effect(c, h) PROVE <<t.for, t.host>> \in run.built
  <2>1. RunOK(run) /\ Built(run)
    BY DEF FleetInv, RunInv, BuiltInv
  <2>2. At("boot", <<c, h>>) /\ t.for = c /\ t.host = h
    <3>1. Network(h, c).kind = "network" /\ \A n, d : HAProxy(h, n, d).kind = "haproxy"
      BY OwnedFacts
    <3>2. QED
      BY <1>1, <3>1 DEF Effect, QuietEffect, QuietStep, Quiet, BalancersEffect, DestroyBalancersEffect,
                SubstrateEffect, HostsEffect, ForEffect, BootEffect
  <2>3. run.play = 3 /\ <<c, h>> \in PlayHosts(run.op, run.on, run.play) \ run.failed
    BY <2>1, <2>2, AtFacts DEF Located
  <2>4. <<c, h>> \in ClusterHosts(run.on) \ run.failed
    BY <2>3, ApplyAllShape
  <2>5. QED
    BY <2>1, <2>2, <2>3, <2>4 DEF Built
<1>2. QED
  BY <1>1, NextCases DEF Start, Stop, Install, Edit, vars

\* `apply all` boots a cluster on a host only after it built its machines
\* there itself, whatever failed before (BootedOnlyBuilt).
THEOREM BootsWhatItBuilt == Spec => BootedOnlyBuilt
<1>1. Init => FleetInv /\ BuiltInv
  BY FleetInvInit DEF Init, BuiltInv
<1>2. FleetInv /\ BuiltInv /\ [Next]_vars => (FleetInv /\ BuiltInv)'
  BY FleetInvNext, BuiltNext
<1>3. FleetInv /\ BuiltInv /\ [Next]_vars => [run' # run /\ run # Idle /\ run.op = "apply-all" =>
        \A t \in has' \ has : t.kind \in {"booting", "up"} => <<t.for, t.host>> \in run.built]_vars
  BY BootedStep
<1>4. QED
  BY <1>1, <1>2, <1>3, PTL DEF Spec, BootedOnlyBuilt

-------------------------------------------------------------------------------
(* --scope, and what a clean apply leaves.                                  *)

\* Alike states derive the same providers and flavours for their clusters.
LEMMA AlikeFlavor ==
  ASSUME NEW s, NEW t, Alike(s, t)
  PROVE  \A c \in Names(s) : Known(s, c) = Known(t, c) /\ Flavor(s, c) = Flavor(t, c)
<1>1. /\ s.provider = t.provider /\ Names(s) = Names(t)
      /\ \A c \in Names(s) : Known(s, c) = Known(t, c)
  BY DEF Alike, Known
<1>2. ASSUME NEW c \in Names(s) PROVE MachineSuppliers(s, c) = MachineSuppliers(t, c)
  <2>1. Known(s, c) = Known(t, c) /\ \A p : s.provider[p] = t.provider[p]
    BY <1>1, <1>2
  <2>2. QED
    BY <2>1 DEF MachineSuppliers
<1>3. ASSUME NEW c \in Names(s) PROVE Flavor(s, c) = Flavor(t, c)
  <2>1. s.provider = t.provider /\ MachineSuppliers(s, c) = MachineSuppliers(t, c)
    BY <1>1, <1>2, <1>3
  <2>2. QED
    BY <2>1 DEF Flavor
<1>4. QED
  BY <1>1, <1>3

\* What validation makes of the fleet, whatever its install configs say.
LEMMA FleetFacts ==
  ASSUME FleetOK
  PROVE  /\ \A p \in DOMAIN fleet.provider : ProviderValid(fleet.provider[p])
         /\ \A c \in Names(fleet) :
              /\ fleet.cluster[c].refs \subseteq DOMAIN fleet.provider
              /\ Flavor(fleet, c) = Libvirt => fleet.cluster[c].bridge # None
<1>1. PICK s \in Fleets : Alike(fleet, s) /\ Valid(s)
  BY DEF FleetOK
<1>2. \A p \in DOMAIN fleet.provider : ProviderValid(fleet.provider[p])
  BY <1>1 DEF Valid, Alike
<1>3. ASSUME NEW c \in Names(fleet)
      PROVE  /\ fleet.cluster[c].refs \subseteq DOMAIN fleet.provider
             /\ Flavor(fleet, c) = Libvirt => fleet.cluster[c].bridge # None
  <2>1. c \in Names(s) /\ ClusterValid(s, c)
    BY <1>1, <1>3 DEF Valid, Alike
  <2>2. Flavor(fleet, c) = Flavor(s, c)
    BY <1>1, <1>3, AlikeFlavor
  <2>3. s.cluster[c].refs \subseteq DOMAIN s.provider
    BY <2>1 DEF ClusterValid, ClosureBuilds
  <2>4. Flavor(s, c) = Libvirt => s.cluster[c].bridge # None
    BY <2>1 DEF ClusterValid
  <2>5. QED
    BY <1>1, <1>3, <2>2, <2>3, <2>4 DEF Alike
<1>4. QED
  BY <1>1, <1>2, <1>3

\* The part of the fleet a run works on has the clusters it names as the
\* fleet has them, with the providers they refer to.
LEMMA SelectedFacts ==
  ASSUME FleetOK, NEW on, Selected(on)
  PROVE  /\ Names(on) \subseteq Names(fleet)
         /\ \A c \in Names(on) :
              /\ on.cluster[c] = fleet.cluster[c]
              /\ Known(on, c) = Known(fleet, c) /\ Flavor(on, c) = Flavor(fleet, c)
         /\ \A p \in DOMAIN on.provider :
              on.provider[p] = fleet.provider[p] /\ ProviderValid(on.provider[p])
<1>1. CASE on = fleet
  BY <1>1, FleetFacts
<1>2. ASSUME NEW names \in SUBSET Names(fleet), on = Filtered(fleet, names)
      PROVE  /\ Names(on) \subseteq Names(fleet)
             /\ \A c \in Names(on) :
                  /\ on.cluster[c] = fleet.cluster[c]
                  /\ Known(on, c) = Known(fleet, c) /\ Flavor(on, c) = Flavor(fleet, c)
             /\ \A p \in DOMAIN on.provider :
                  on.provider[p] = fleet.provider[p] /\ ProviderValid(on.provider[p])
  <2>1. /\ Names(on) = names
        /\ \A c \in names : on.cluster[c] = fleet.cluster[c]
        /\ DOMAIN on.provider = UNION {fleet.cluster[c].refs : c \in names}
        /\ \A p \in DOMAIN on.provider : on.provider[p] = fleet.provider[p]
    BY <1>2, FilteredFacts DEF FleetOK
  <2>2. \A c \in Names(fleet) : fleet.cluster[c].refs \subseteq DOMAIN fleet.provider
    BY FleetFacts
  <2>3. DOMAIN on.provider \subseteq DOMAIN fleet.provider
    BY <2>1, <2>2
  <2>4. ASSUME NEW c \in names
        PROVE  Known(on, c) = Known(fleet, c) /\ Flavor(on, c) = Flavor(fleet, c)
    <3>1. fleet.cluster[c].refs \subseteq DOMAIN on.provider
      BY <2>1, <2>4
    <3>2. Known(on, c) = Known(fleet, c) /\ Known(on, c) \subseteq DOMAIN on.provider
      BY <2>1, <2>2, <2>4, <3>1 DEF Known
    <3>3. MachineSuppliers(on, c) = MachineSuppliers(fleet, c)
      BY <2>1, <3>2 DEF MachineSuppliers
    <3>4. ASSUME MachineSuppliers(on, c) # {} PROVE (CHOOSE p \in MachineSuppliers(on, c) : TRUE) \in DOMAIN on.provider
      <4>1. (CHOOSE p \in MachineSuppliers(on, c) : TRUE) \in MachineSuppliers(on, c)
        BY <3>4
      <4>2. QED
        BY <3>2, <4>1 DEF MachineSuppliers
    <3>5. QED
      BY <2>1, <3>2, <3>3, <3>4 DEF Flavor
  <2>5. QED
    BY <2>1, <2>3, <2>4, FleetFacts
<1>3. QED
  BY <1>1, <1>2 DEF Selected

\* The hosts of the infra group are hosts of libvirt clusters.
LEMMA ClusterHostFacts ==
  ASSUME NEW s, NEW i \in ClusterHosts(s)
  PROVE  i = <<i[1], i[2]>> /\ i[1] \in Names(s) /\ Flavor(s, i[1]) = Libvirt
  BY DEF ClusterHosts

\* A step that takes what a cluster owns is of a command that selects it.
LEMMA ScopeStep ==
  ASSUME FleetInv, [Next]_vars
  PROVE  \A t \in has \ has' :
           t.kind \in OwnedKinds \/ (t.kind = "disk" /\ t.image # Blank)
             => run # Idle /\ \E c \in Names(run.on) : Claims(run.on, c, t)
<1> SUFFICES ASSUME NEW t \in has \ has',
                    t.kind \in OwnedKinds \/ (t.kind = "disk" /\ t.image # Blank)
             PROVE  run # Idle /\ \E c \in Names(run.on) : Claims(run.on, c, t)
  OBVIOUS
<1>1. ASSUME NEW c, NEW h, Effect(c, h)
      PROVE  run # Idle /\ \E d \in Names(run.on) : Claims(run.on, d, t)
  <2>1. FleetOK /\ run # Idle /\ RunOK(run) /\ Selected(run.on)
    BY <1>1, EffectLeaves DEF FleetInv, RunInv
  <2>2. CASE /\ ForEffect(c, h)
             /\ At("unhosts", <<c, h>>) \/ At("undefine", <<c, h>>) \/ At("undisk", <<c, h>>)
    <3>1. <<c, h>> \in ClusterHosts(run.on)
      BY <2>1, <2>2, AtFacts, PlayHostsFacts DEF Located
    <3>2. c \in Names(run.on) /\ t.for = c
      BY <2>2, <3>1, ClusterHostFacts DEF ForEffect
    <3>3. QED
      BY <2>1, <3>2 DEF Claims
  <2>3. CASE BalancersEffect(c, h) \/ DestroyBalancersEffect(c, h)
    <3>1. PICK b \in BalancersOn(run.on, c, h) : t.kind = "haproxy" /\ t.host = h /\ b.name = t.key
      BY <2>3 DEF BalancersEffect, DestroyBalancersEffect
    <3>2. b \in Balancers(run.on) /\ run.on.provider[b.provider].haproxy = h
      BY DEF BalancersOn
    <3>3. /\ b.cluster \in Names(run.on) /\ t.key \in run.on.cluster[b.cluster].lbs
          /\ t.host \in BalancerHosts(run.on, b.cluster)
      BY <3>1, <3>2, BalancerFacts DEF BalancerHosts
    <3>4. QED
      BY <2>1, <3>1, <3>3 DEF Claims
  <2>4. CASE At("substrate", <<c, h>>) /\ SubstrateEffect(c, h)
    <3>1. <<c, h>> \in ClusterHosts(run.on)
      BY <2>1, <2>4, AtFacts, PlayHostsFacts DEF Located
    <3>2. PICK d \in Names(fleet) \ {c} :
            t = Network(h, d) /\ fleet.cluster[d].bridge = run.on.cluster[c].bridge
      BY <2>4 DEF SubstrateEffect
    <3>3. t.kind = "network" /\ t.for = d /\ t.host = h
      BY <3>2, OwnedFacts
    <3>4. c \in Names(run.on) /\ h \in NetworkHosts(run.on, c)
      BY <3>1, ClusterHostFacts DEF NetworkHosts
    <3>5. QED
      BY <2>1, <3>2, <3>3, <3>4 DEF Claims
  <2>5. QED
    BY <1>1, <2>2, <2>3, <2>4 DEF Effect, QuietEffect, QuietStep, Quiet, HostsEffect, BootEffect,
                                  OwnedKinds
<1>2. ASSUME NEW u \in has, Install(u.host, u.for, u.image) PROVE FALSE
  <2>1. t \in {Booting(u.host, u.for, u.image), Disk(u.host, u.for, Blank)}
    BY <1>2 DEF Install
  <2>2. QED
    BY <2>1, OwnedFacts DEF OwnedKinds
<1>3. ASSUME has' = has PROVE FALSE
  BY <1>3
<1>4. QED
  BY <1>1, <1>2, <1>3, NextCases DEF Stop, Edit, Start, vars

\* --scope is a boundary in every fleet (ScopeIsolation): what a command
\* takes away its own clusters have a claim to.
THEOREM ScopeIsBoundary == Spec => ScopeIsolation
<1>1. Init => FleetInv
  BY FleetInvInit
<1>2. FleetInv /\ [Next]_vars => FleetInv'
  BY FleetInvNext
<1>3. FleetInv /\ [Next]_vars => [\A t \in has \ has' :
        t.kind \in OwnedKinds \/ (t.kind = "disk" /\ t.image # Blank)
          => run # Idle /\ \E c \in Names(run.on) : Claims(run.on, c, t)]_vars
  BY ScopeStep
<1>4. QED
  BY <1>1, <1>2, <1>3, PTL DEF Spec, ScopeIsolation

-------------------------------------------------------------------------------
(* Convergence.                                                             *)

\* Host i has left role j of play k.
Past(r, i, k, j) ==
  r.play > k \/ (r.play = k /\ (r.role > j \/ (r.role = j /\ i \notin r.left)))

\* A host past a role after the step was past it before, or has just left it.
PastKept(r, s, x) ==
  \A k \in 1..NumPlays(r.op) : \A j \in 1..NumRoles(r.op, k) : \A i \in PlayHosts(r.op, r.on, k) :
    Past(s, i, k, j) => Past(r, i, k, j) \/ (r.play = k /\ r.role = j /\ i = x)

\* A host is past a role only by leaving it: no role and no play with hosts
\* is passed over while no host fails.
LEMMA PastSteps ==
  ASSUME NEW r, NEW s, NEW x \in r.left, NEW failed \in BOOLEAN,
         RunOK(r), RunOK(s), Advance(r, s, x, failed), s.failed = {}
  PROVE  PastKept(r, s, x)
<1> SUFFICES ASSUME NEW k \in 1..NumPlays(r.op), NEW j \in 1..NumRoles(r.op, k),
                    NEW i \in PlayHosts(r.op, r.on, k), Past(s, i, k, j)
             PROVE  Past(r, i, k, j) \/ (r.play = k /\ r.role = j /\ i = x)
  BY DEF PastKept
<1>1. /\ NumPlays(r.op) \in 1..3 /\ NumRoles(r.op, k) \in 2..5
      /\ r.play \in 1..NumPlays(r.op) /\ r.role \in 1..NumRoles(r.op, r.play)
      /\ NumRoles(r.op, r.play) \in 2..5
      /\ x \in PlayHosts(r.op, r.on, r.play)
  <2>1. r.op \in Ops /\ r.play \in 1..NumPlays(r.op) + 1
    BY DEF RunOK, Runs
  <2>2. NumPlays(r.op) \in 1..3
    BY <2>1, Counts
  <2>3. r.play <= NumPlays(r.op)
    BY <2>1, <2>2 DEF RunOK
  <2>4. QED
    BY <2>1, <2>2, <2>3, Counts DEF RunOK
<1>2. CASE SameRole(r, s, x)
  BY <1>2 DEF SameRole, Past
<1>3. CASE NextRole(r, s, x)
  <2>1. r.left = {x} /\ s.play = r.play /\ s.role = r.role + 1 /\ s.left = PlayHosts(r.op, r.on, r.play)
    BY <1>3 DEF NextRole
  <2>2. QED
    BY <1>1, <2>1 DEF Past
<1>4. CASE NextPlay(r, s, x)
  <2>1. /\ r.left = {x} /\ r.role = NumRoles(r.op, r.play) /\ s.play > r.play /\ s.role = 1
        /\ \A l \in r.play + 1 .. s.play - 1 : PlayHosts(r.op, r.on, l) \subseteq {}
        /\ s.play <= NumPlays(r.op) => s.left = PlayHosts(r.op, r.on, s.play)
    BY <1>4 DEF NextPlay
  <2>2. s.play \in Nat
    BY DEF RunOK, Runs
  <2>3. CASE s.play = k
    BY <1>1, <2>1, <2>3 DEF Past
  <2>4. CASE s.play > k /\ r.play < k
    <3>1. k \in r.play + 1 .. s.play - 1
      BY <1>1, <2>2, <2>4
    <3>2. QED
      BY <2>1, <3>1
  <2>5. CASE s.play > k /\ r.play = k
    BY <1>1, <2>1, <2>5 DEF Past
  <2>6. CASE r.play > k
    BY <2>6 DEF Past
  <2>7. QED
    BY <1>1, <2>2, <2>3, <2>4, <2>5, <2>6 DEF Past
<1>5. CASE AllFailed(r, s, x)
  BY <1>1, <1>5 DEF AllFailed
<1>6. QED
  BY <1>2, <1>3, <1>4, <1>5 DEF Advance

\* Where a load balancer of a run goes.
HostOf(on, b) == <<b.provider, BalancerHost(on, b)>>

Builds == {"apply-infra", "apply-all"}

\* A run that no host has failed has put in place what its roles so far are
\* for.
Placed(r, H) ==
  r.op \in Builds /\ r.failed = {} =>
    /\ \A b \in Balancers(r.on) : Past(r, HostOf(r.on, b), 1, 5) => BalancerIn(r.on, b, H)
    /\ \A i \in ClusterHosts(r.on) : Past(r, i, 2, 2) => SubstrateIn(r.on, i[1], i[2], H)

\* Where the two applies of infrastructure build.
LEMMA BuildsShape ==
  ASSUME NEW op \in Builds
  PROVE  /\ NumPlays(op) \in 2..3 /\ NumRoles(op, 1) = 5 /\ NumRoles(op, 2) = 3
         /\ RoleAt(op, 1, 5) = "balancers" /\ RoleAt(op, 2, 2) = "substrate"
         /\ \A on : PlayHosts(op, on, 1) = ProviderHosts(on) /\ PlayHosts(op, on, 2) = ClusterHosts(on)
<1>1. /\ NumPlays(op) \in 2..3 /\ NumRoles(op, 1) = 5 /\ NumRoles(op, 2) = 3
      /\ GroupAt(op, 1) = "provider" /\ GroupAt(op, 2) = "infra"
      /\ RoleAt(op, 1, 5) = "balancers" /\ RoleAt(op, 2, 2) = "substrate"
  BY PlayShape, RolesOfPlay DEF Builds
<1>2. QED
  BY <1>1, PlayHostsFacts

\* The provider of a load balancer has the host it is placed on.
LEMMA HostOfFacts ==
  ASSUME FleetOK, NEW on, Selected(on), NEW b \in Balancers(on)
  PROVE  HostOf(on, b) \in ProviderHosts(on)
<1> DEFINE p == b.provider
<1>1. p \in DOMAIN on.provider /\ on.provider[p].haproxy # None
  BY BalancerFacts DEF BalancerSuppliers, Known
<1>2. on.provider[p].haproxy \in on.provider[p].hosts
  BY <1>1, SelectedFacts DEF ProviderValid
<1>3. QED
  BY <1>1, <1>2 DEF HostOf, BalancerHost, ProviderHosts

\* The role a step of a run is at.
LEMMA RoleHere ==
  ASSUME RunOK(run), NEW role, NEW i, At(role, i)
  PROVE  role = RoleAt(run.op, run.play, run.role)
  BY DEF At, RoleOf, RoleAt

\* A host of a run no host has failed leaves its role without failing.
LEMMA NotFailed ==
  ASSUME RunOK(run), NEW i \in run.left, NEW failed \in BOOLEAN, run' = Left(run, i, failed),
         run'.failed = {}
  PROVE  ~failed
<1>1. Advance(run, run', i, failed)
  BY LeftFacts
<1>2. QED
  BY <1>1 DEF Advance

\* A balancers role that does not fail has each of its names on the host.
LEMMA Recreated ==
  ASSUME RunOK(run), NEW c, NEW h, At("balancers", <<c, h>>), BalancersEffect(c, h), run'.failed = {},
         NEW b, NEW e \in BalancersOn(run.on, c, h), e.name = b.name
  PROVE  \E f \in BalancersOn(run.on, c, h) : f.name = b.name /\ HAProxy(h, b.name, f.cluster) \in has'
<1>1. PICK failed \in BOOLEAN :
       /\ run' = Left(run, <<c, h>>, failed)
       /\ ~failed => \A d \in BalancersOn(run.on, c, h) :
            \E f \in BalancersOn(run.on, c, h) :
              f.name = d.name /\ HAProxy(h, d.name, f.cluster) \in has'
  BY DEF BalancersEffect
<1>2. ~failed
  BY <1>1, NotFailed DEF At
<1>3. QED
  BY <1>1, <1>2

\* A substrate role that does not fail has built all of its cluster.
LEMMA Settled ==
  ASSUME RunOK(run), NEW c, NEW h, At("substrate", <<c, h>>), SubstrateEffect(c, h), run'.failed = {}
  PROVE  /\ Network(h, c) \in has'
         /\ \A m \in DOMAIN run.on.cluster[c].place : Domain(h, c, m) \in has'
         /\ Of(h, c, {"disk"})' # {}
<1>1. PICK failed \in BOOLEAN :
       /\ run' = Left(run, <<c, h>>, failed)
       /\ ~failed => /\ Network(h, c) \in has'
                     /\ \A m \in DOMAIN run.on.cluster[c].place : Domain(h, c, m) \in has'
                     /\ Of(h, c, {"disk"})' # {}
  BY DEF SubstrateEffect
<1>2. ~failed
  BY <1>1, NotFailed DEF At
<1>3. QED
  BY <1>1, <1>2

\* A load balancer in place stays in place, or its container is recreated for
\* another cluster that has one of its name on its host.
LEMMA BalancersStay ==
  ASSUME RunOK(run), run.op \in Builds, NEW c, NEW h, Effect(c, h), run'.failed = {},
         NEW b \in Balancers(run.on), BalancerIn(run.on, b, has)
  PROVE  BalancerIn(run.on, b, has')
<1>1. PICK d \in Balancers(run.on) :
        /\ d.name = b.name /\ BalancerHost(run.on, d) = BalancerHost(run.on, b)
        /\ HAProxy(BalancerHost(run.on, b), b.name, d.cluster) \in has
  BY DEF BalancerIn
<1> DEFINE H == BalancerHost(run.on, b)
           t == HAProxy(H, b.name, d.cluster)
<1>2. t \in has /\ t.kind = "haproxy" /\ t.host = H /\ t.key = b.name
  BY <1>1, OwnedFacts
<1> HIDE DEF t
<1>3. SUFFICES ASSUME t \notin has' PROVE BalancerIn(run.on, b, has')
  BY <1>1 DEF BalancerIn, t
<1>4. run.op \in Applies
  BY DEF Builds, Applies
<1>5. ~ At("unbalancers", <<c, h>>) /\ ~ At("undefine", <<c, h>>) /\ ~ At("undisk", <<c, h>>)
  BY <1>4, AtFacts DEF Located
<1>6. At("balancers", <<c, h>>) /\ BalancersEffect(c, h)
  BY <1>2, <1>3, <1>5 DEF Effect, QuietEffect, QuietStep, Quiet, SubstrateEffect, HostsEffect, BootEffect
<1>7. PICK e \in BalancersOn(run.on, c, h) : e.name = b.name /\ H = h
  BY <1>2, <1>3, <1>6 DEF BalancersEffect
<1>8. PICK f \in BalancersOn(run.on, c, h) : f.name = b.name /\ HAProxy(h, b.name, f.cluster) \in has'
  BY <1>6, <1>7, Recreated
<1>9. f \in Balancers(run.on) /\ BalancerHost(run.on, f) = h
  BY DEF BalancersOn, BalancerHost
<1>10. QED
  BY <1>7, <1>8, <1>9 DEF BalancerIn

\* A load balancer is in place once its host has left the role.
LEMMA BalancerArrives ==
  ASSUME RunOK(run), run.op \in Builds, NEW c, NEW h, Effect(c, h), run'.failed = {},
         NEW b \in Balancers(run.on), run.play = 1, run.role = 5, HostOf(run.on, b) = <<c, h>>
  PROVE  BalancerIn(run.on, b, has')
<1>1. RoleAt(run.op, run.play, run.role) = "balancers"
  BY BuildsShape
<1>2. At("balancers", <<c, h>>) /\ BalancersEffect(c, h)
  BY <1>1, RoleHere DEF Effect, QuietEffect, QuietNames
<1>3. BalancerHost(run.on, b) = h /\ b \in BalancersOn(run.on, c, h)
  BY DEF HostOf, BalancerHost, BalancersOn
<1>4. PICK f \in BalancersOn(run.on, c, h) : f.name = b.name /\ HAProxy(h, b.name, f.cluster) \in has'
  BY <1>2, <1>3, Recreated
<1>5. f \in Balancers(run.on) /\ BalancerHost(run.on, f) = h
  BY DEF BalancersOn, BalancerHost
<1>6. QED
  BY <1>3, <1>4, <1>5 DEF BalancerIn

\* The substrate of a cluster stays while the run goes on; of its network
\* another cluster of the run with its bridge may take the place.
LEMMA SubstrateStays ==
  ASSUME FleetOK, Selected(run.on), RunOK(run), run.op \in Builds,
         NEW c, NEW h, Effect(c, h), run'.failed = {}, NEW d, NEW g, SubstrateIn(run.on, d, g, has)
  PROVE  SubstrateIn(run.on, d, g, has')
<1>1. run.op \in Applies
  BY DEF Builds, Applies
<1>2. ~ At("undefine", <<c, h>>) /\ ~ At("undisk", <<c, h>>)
  BY <1>1, AtFacts DEF Located
<1>3. \A t \in has \ has' : t.kind \notin {"domain", "disk"}
  BY <1>2 DEF Effect, QuietEffect, QuietStep, Quiet, BalancersEffect, DestroyBalancersEffect,
        SubstrateEffect, HostsEffect, BootEffect
<1>4. \A m : Domain(g, d, m).kind = "domain"
  BY OwnedFacts
<1>5. PICK e \in Names(run.on) :
        /\ <<e, g>> \in ClusterHosts(run.on) /\ run.on.cluster[e].bridge = run.on.cluster[d].bridge
        /\ Network(g, e) \in has
  BY DEF SubstrateIn
<1>6. CASE Network(g, e) \in has'
  BY <1>3, <1>4, <1>5, <1>6 DEF SubstrateIn
<1>7. CASE Network(g, e) \notin has'
  <2>1. Network(g, e).kind = "network" /\ Network(g, e).host = g /\ Network(g, e).for = e
    BY OwnedFacts
  <2>2. At("substrate", <<c, h>>) /\ SubstrateEffect(c, h)
    BY <1>2, <1>5, <1>7, <2>1 DEF Effect, QuietEffect, QuietStep, Quiet, BalancersEffect,
          DestroyBalancersEffect, HostsEffect, BootEffect
  <2>3. PICK i \in Names(fleet) \ {c} :
          Network(g, e) = Network(h, i) /\ fleet.cluster[i].bridge = run.on.cluster[c].bridge
    BY <1>5, <1>7, <2>2 DEF SubstrateEffect
  <2>4. g = h /\ e = i
    <3>1. Network(h, i).host = h /\ Network(h, i).for = i
      BY OwnedFacts
    <3>2. QED
      BY <2>1, <2>3, <3>1
  <2>5. run.on.cluster[c].bridge = run.on.cluster[d].bridge
    BY <1>5, <2>3, <2>4, SelectedFacts
  <2>6. <<c, h>> \in ClusterHosts(run.on)
    BY <2>2, AtFacts, PlayHostsFacts DEF Located
  <2>7. c \in Names(run.on) /\ Network(h, c) \in has'
    BY <2>2, <2>6, ClusterHostFacts, Settled
  <2>8. QED
    BY <1>3, <1>4, <2>4, <2>5, <2>6, <2>7 DEF SubstrateIn
<1>8. QED
  BY <1>6, <1>7

\* The substrate of a cluster is in place once its host has left the role.
LEMMA SubstrateArrives ==
  ASSUME RunOK(run), run.op \in Builds, NEW c, NEW h, Effect(c, h), run'.failed = {},
         run.play = 2, run.role = 2
  PROVE  SubstrateIn(run.on, c, h, has')
<1>1. RoleAt(run.op, run.play, run.role) = "substrate"
  BY BuildsShape
<1>2. At("substrate", <<c, h>>) /\ SubstrateEffect(c, h)
  BY <1>1, RoleHere DEF Effect, QuietEffect, QuietNames
<1>3. /\ Network(h, c) \in has'
      /\ \A m \in DOMAIN run.on.cluster[c].place : Domain(h, c, m) \in has'
      /\ Of(h, c, {"disk"})' # {}
  BY <1>2, Settled
<1>4. <<c, h>> \in ClusterHosts(run.on)
  BY <1>2, AtFacts, PlayHostsFacts DEF Located
<1>5. c \in Names(run.on)
  BY <1>4, ClusterHostFacts
<1>6. QED
  BY <1>3, <1>4, <1>5 DEF SubstrateIn, Of, OnHost

\* The invariant of the applies.
ConvInv == run # Idle => Placed(run, has)

\* A role keeps Placed.
LEMMA PlacedStep ==
  ASSUME FleetInv, ConvInv, NEW c, NEW h, Effect(c, h)
  PROVE  Placed(run', has')
<1> DEFINE on == run.on
           x == <<c, h>>
<1>1. FleetOK /\ Selected(run.on) /\ RunOK(run) /\ Placed(run, has) /\ x \in run.left
  BY EffectLeaves DEF FleetInv, RunInv, ConvInv
<1>2. PICK failed \in BOOLEAN : Advance(run, run', x, failed)
  BY <1>1, LeavesFacts
<1>3. RunOK(run') /\ run'.op = run.op /\ run'.on = run.on
      /\ run'.failed = IF failed THEN run.failed \cup {x} ELSE run.failed
  BY <1>1, <1>2, LeavesFacts DEF Advance
<1> SUFFICES ASSUME run.op \in Builds, run'.failed = {}
    PROVE /\ \A b \in Balancers(run.on) : Past(run', HostOf(run.on, b), 1, 5) => BalancerIn(run.on, b, has')
          /\ \A i \in ClusterHosts(run.on) : Past(run', i, 2, 2) => SubstrateIn(run.on, i[1], i[2], has')
  BY <1>3 DEF Placed
<1>4. run.failed = {}
  BY <1>3
<1>5. PastKept(run, run', x)
  <2>1. run'.failed = {} /\ RunOK(run) /\ RunOK(run') /\ Advance(run, run', x, failed) /\ x \in run.left
    BY <1>1, <1>2, <1>3
  <2> HIDE DEF x
  <2>2. QED
    BY <2>1, PastSteps
<1>6. ASSUME NEW b \in Balancers(run.on), Past(run', HostOf(run.on, b), 1, 5)
      PROVE  BalancerIn(run.on, b, has')
  <2> DEFINE i == HostOf(run.on, b)
  <2>1. i \in PlayHosts(run.op, run.on, 1)
    BY <1>1, HostOfFacts, BuildsShape
  <2> HIDE DEF i
  <2>2. 1 \in 1..NumPlays(run.op) /\ 5 \in 1..NumRoles(run.op, 1)
    BY BuildsShape
  <2>3. Past(run, i, 1, 5) \/ (run.play = 1 /\ run.role = 5 /\ i = x)
    BY <1>6, <1>5, <2>1, <2>2 DEF i, PastKept
  <2>4. CASE Past(run, i, 1, 5)
    <3>1. BalancerIn(run.on, b, has)
      BY <1>1, <1>4, <1>6, <2>4 DEF Placed, i
    <3>2. QED
      BY <1>1, <1>6, <2>4, <3>1, BalancersStay DEF i
  <2>5. CASE run.play = 1 /\ run.role = 5 /\ i = x
    BY <1>1, <1>6, <2>5, BalancerArrives DEF i
  <2>6. QED
    BY <2>3, <2>4, <2>5
<1>7. ASSUME NEW i \in ClusterHosts(run.on), Past(run', i, 2, 2)
      PROVE  SubstrateIn(run.on, i[1], i[2], has')
  <2>1. i \in PlayHosts(run.op, run.on, 2)
    BY <1>7, BuildsShape
  <2>2. 2 \in 1..NumPlays(run.op) /\ 2 \in 1..NumRoles(run.op, 2)
    BY BuildsShape
  <2>3. Past(run, i, 2, 2) \/ (run.play = 2 /\ run.role = 2 /\ i = x)
    BY <1>7, <1>5, <2>1, <2>2 DEF PastKept
  <2>4. CASE Past(run, i, 2, 2)
    <3>1. SubstrateIn(run.on, i[1], i[2], has)
      BY <1>1, <1>4, <1>7, <2>4 DEF Placed
    <3>2. QED
      BY <1>1, <3>1, SubstrateStays
  <2>5. CASE run.play = 2 /\ run.role = 2 /\ i = x
    <3>1. SubstrateIn(run.on, c, h, has')
      BY <1>1, <2>5, SubstrateArrives
    <3>2. i[1] = c /\ i[2] = h
      BY <2>5
    <3>3. QED
      BY <3>1, <3>2
  <2>6. QED
    BY <2>3, <2>4, <2>5
<1>8. QED
  BY <1>6, <1>7

\* No host of a play is past a role of it when a run begins.
LEMMA PlacedStart ==
  ASSUME FleetOK, NEW on, Selected(on), NEW r \in Runs(on), r.play = 0, r.failed = {}, NEW H
  PROVE  Placed(Enter(r, PlayAfter(r, 0)), H)
<1> DEFINE e == Enter(r, PlayAfter(r, 0))
<1>1. /\ e.op = r.op /\ e.on = on /\ e.role = 1 /\ e.play \in 1..NumPlays(r.op) + 1
      /\ \A j \in 1..e.play - 1 : PlayHosts(r.op, on, j) = {}
      /\ e.play <= NumPlays(r.op) => e.left = PlayHosts(r.op, on, e.play)
  BY StartEnters
<1> HIDE DEF e
<1> SUFFICES ASSUME r.op \in Builds
             PROVE  /\ \A b \in Balancers(on) : ~ Past(e, HostOf(on, b), 1, 5)
                    /\ \A i \in ClusterHosts(on) : ~ Past(e, i, 2, 2)
  BY <1>1 DEF Placed, e
<1>2. NumPlays(r.op) \in 2..3
  BY BuildsShape
<1>3. ASSUME NEW b \in Balancers(on), Past(e, HostOf(on, b), 1, 5) PROVE FALSE
  <2>1. HostOf(on, b) \in PlayHosts(r.op, on, 1)
    BY HostOfFacts, BuildsShape
  <2>2. e.play > 1
    BY <1>1, <1>3 DEF Past
  <2>3. 1 \in 1..e.play - 1
    BY <1>1, <1>2, <2>2
  <2>4. QED
    BY <1>1, <2>1, <2>3
<1>4. ASSUME NEW i \in ClusterHosts(on), Past(e, i, 2, 2) PROVE FALSE
  <2>1. i \in PlayHosts(r.op, on, 2)
    BY BuildsShape
  <2>2. e.play > 2
    BY <1>1, <1>4 DEF Past
  <2>3. 2 \in 1..e.play - 1
    BY <1>1, <1>2, <2>2
  <2>4. QED
    BY <1>1, <2>1, <2>3
<1>5. QED
  BY <1>3, <1>4

\* An installation in the background keeps Placed.
LEMMA PlacedInstall ==
  ASSUME NEW u \in has, Install(u.host, u.for, u.image), NEW r, Placed(r, has)
  PROVE  Placed(r, has')
<1> DEFINE old == Disk(u.host, u.for, Blank)
           new == Disk(u.host, u.for, u.image)
<1>1. /\ has \ has' \subseteq {Booting(u.host, u.for, u.image), old}
      /\ new \in has'
  BY DEF Install
<1>2. \A t \in has \ has' : t.kind = "booting" \/ (t.kind = "disk" /\ t.host = u.host /\ t.for = u.for)
  BY <1>1, OwnedFacts
<1>3. new.kind = "disk" /\ new.host = u.host /\ new.for = u.for
  BY OwnedFacts
<1> HIDE DEF new
<1>4. ASSUME NEW on, NEW b, BalancerIn(on, b, has) PROVE BalancerIn(on, b, has')
  <2>1. \A d : HAProxy(BalancerHost(on, b), b.name, d).kind = "haproxy"
    BY OwnedFacts
  <2>2. QED
    BY <1>2, <1>4, <2>1 DEF BalancerIn
<1>5. ASSUME NEW on, NEW c, NEW h, SubstrateIn(on, c, h, has) PROVE SubstrateIn(on, c, h, has')
  <2>1. \A d, m : Network(h, d).kind = "network" /\ Domain(h, c, m).kind = "domain"
    BY OwnedFacts
  <2>2. /\ \A d : Network(h, d) \in has => Network(h, d) \in has'
        /\ \A m \in DOMAIN on.cluster[c].place : Domain(h, c, m) \in has'
    BY <1>2, <1>5, <2>1 DEF SubstrateIn
  <2>3. PICK t \in has : t.kind = "disk" /\ t.host = h /\ t.for = c
    BY <1>5 DEF SubstrateIn
  <2>4. t \in has' \/ (h = u.host /\ c = u.for)
    BY <1>2, <2>3
  <2>5. QED
    BY <1>1, <1>3, <1>5, <2>2, <2>3, <2>4 DEF SubstrateIn
<1>6. QED
  BY <1>4, <1>5 DEF Placed

\* Every step keeps ConvInv.
LEMMA ConvNext ==
  ASSUME FleetInv, ConvInv, [Next]_vars
  PROVE  ConvInv'
<1>1. CASE \E names \in SUBSET Names(fleet), op \in DOMAIN Playbook : Start(op, names)
  <2>1. PICK on : /\ Selected(on) /\ \E r \in Runs(on) :
                         /\ r.on = on /\ r.play = 0 /\ r.failed = {}
                         /\ run' = Enter(r, PlayAfter(r, 0))
    BY <1>1, StartFacts
  <2>2. PICK r \in Runs(on) : r.play = 0 /\ r.failed = {} /\ run' = Enter(r, PlayAfter(r, 0))
    BY <2>1
  <2>3. Placed(run', has')
    BY <2>1, <2>2, PlacedStart DEF FleetInv
  <2>4. QED
    BY <2>3 DEF ConvInv
<1>2. ASSUME NEW c, NEW h, Effect(c, h) PROVE ConvInv'
  BY <1>2, PlacedStep DEF ConvInv
<1>3. ASSUME NEW u \in has, Install(u.host, u.for, u.image) PROVE ConvInv'
  <2>1. run' = run
    BY <1>3 DEF Install
  <2>2. QED
    BY <1>3, <2>1, PlacedInstall DEF ConvInv
<1>4. CASE run' = run /\ has' = has
  BY <1>4 DEF ConvInv
<1>5. CASE run' = Idle
  BY <1>5 DEF ConvInv
<1>6. QED
  BY <1>1, <1>2, <1>3, <1>4, <1>5, NextCases DEF Stop, Edit, vars

\* A run that is over and that no host failed is past every role.
LEMMA ConvergedHolds == FleetInv /\ ConvInv => Converged
<1> SUFFICES ASSUME FleetInv, ConvInv, Clean(Builds)
             PROVE  /\ \A b \in Balancers(run.on) : BalancerIn(run.on, b, has)
                    /\ \A i \in ClusterHosts(run.on) : SubstrateIn(run.on, i[1], i[2], has)
  BY DEF Converged, Builds
<1>1. RunOK(run) /\ Placed(run, has) /\ run.op \in Builds /\ run.failed = {}
      /\ run.play > NumPlays(run.op)
  BY DEF FleetInv, RunInv, ConvInv, Clean, Done, NumPlays
<1>2. run.play > 1 /\ run.play > 2
  <2>1. NumPlays(run.op) \in 2..3 /\ run.play \in Nat
    BY <1>1, BuildsShape DEF RunOK, Runs
  <2>2. QED
    BY <1>1, <2>1
<1>3. \A i : Past(run, i, 1, 5) /\ Past(run, i, 2, 2)
  BY <1>2 DEF Past
<1>4. QED
  BY <1>1, <1>3 DEF Placed

\* An apply that no host failed has put in place all its clusters ask for
\* (Converged), in every fleet and whatever was there before.
THEOREM AppliesConverge == Spec => []Converged
<1>1. Init => FleetInv /\ ConvInv
  BY FleetInvInit DEF Init, ConvInv
<1>2. FleetInv /\ ConvInv /\ [Next]_vars => (FleetInv /\ ConvInv)'
  BY FleetInvNext, ConvNext
<1>3. FleetInv /\ ConvInv => Converged
  BY ConvergedHolds
<1>4. QED
  BY <1>1, <1>2, <1>3, PTL DEF Spec

==============================================================================
