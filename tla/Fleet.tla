-------------------------------- MODULE Fleet --------------------------------
(***************************************************************************)
(* The Ansible half of bootwright: what the playbooks of `apply infra`,    *)
(* `apply clusters`, `apply all`, `destroy infra` and `destroy clusters`   *)
(* do to the hosts of the fleet. A command filters the desired state to    *)
(* the clusters of --scope and runs the plays of its playbook one after    *)
(* the other; a play runs role by role on all its hosts, a host that fails *)
(* a role is out of the rest of the playbook, and a play no host survives  *)
(* ends the playbook. Commands are interrupted at any step, and between    *)
(* commands the operator edits what the install config of a cluster says.  *)
(*                                                                         *)
(* One action stands for one role on one host. A role that fails has done  *)
(* any part of its work.                                                   *)
(***************************************************************************)
EXTENDS DesiredState, Sequences

\* No image, and no config: the operator's first is 1.
Blank == 0

CONSTANTS
    Fleets,     \* the desired states to begin with
    MaxRuns,    \* bound: commands started
    MaxEdits,   \* bound: edits of a cluster's install config
    MaxISO      \* bound: agent images created

ASSUME FleetsAssumption ==
    \A s \in Fleets :
        /\ IsState(s)
        /\ \A c \in Names(s) : s.cluster[c].config \in 1 .. MaxEdits + 1
ASSUME BoundsAssumption == {MaxRuns, MaxEdits, MaxISO} \subseteq Nat

VARIABLES
    fleet,      \* the desired state on the operator's disk
    has,        \* what is on the hosts: a set of things
    work,       \* cluster -> the installer's work directory on the bastion
    made,       \* agent images created so far
    run,        \* the playbook that runs, or Idle
    runs        \* commands started

vars == <<fleet, has, work, made, run, runs>>

\* Something on a host: its kind, the host, the key the role finds it again
\* by, what it is for, and the agent image it comes from.
Thing(kind, h, key, for) == [kind |-> kind, host |-> h, key |-> key, for |-> for, image |-> Blank]
OfImage(kind, h, c, image) == [Thing(kind, h, c, c) EXCEPT !.image = image]

HAProxy(h, name, c) == Thing("haproxy", h, name, c)     \* container bootwright-haproxy-<name>
Service(h, kind, p) == Thing(kind, h, p, p)             \* squid, bmc or mirror of a provider
Proxy(h)            == Thing("proxy", h, None, None)    \* proxy settings of the host
Network(h, c)       == Thing("network", h, c, c)
Domain(h, c, m)     == Thing("domain", h, m, c)
HostsBlock(h, c)    == Thing("hosts", h, c, c)
Disk(h, c, image)    == OfImage("disk", h, c, image)     \* Blank while nothing is installed
Booting(h, c, image) == OfImage("booting", h, c, image)  \* the agent installs the cluster
Up(h, c, image)      == OfImage("up", h, c, image)       \* the cluster runs from its disk

Idle == [op |-> None]
EmptyWork == [written |-> Blank, image |-> Blank, config |-> Blank]

-----------------------------------------------------------------------------
(* The playbooks: plays of a group of the inventory, and their roles.       *)

ApplyProviders == [group |-> "provider", roles |-> <<"squid", "proxy", "bmc", "mirror", "balancers">>]
ApplySubstrate == [group |-> "infra",    roles |-> <<"proxy", "substrate", "hosts">>]
InstallAgent   == [group |-> "ocp",      roles |-> <<"proxy", "image", "boot", "wait">>]
DestroySubstrate == [group |-> "infra",  roles |-> <<"undefine", "unhosts", "undisk", "unproxy">>]
DestroyProviders == [group |-> "provider",
                     roles |-> <<"unmirror", "unbmc", "unbalancers", "unsquid", "unproxy">>]
DestroyAgent   == [group |-> "ocp",      roles |-> <<"unwork", "unproxy">>]

Playbook == [op \in {"apply-infra", "apply-clusters", "apply-all", "destroy-infra", "destroy-clusters"} |->
    CASE op = "apply-infra"      -> <<ApplyProviders, ApplySubstrate>>
      [] op = "apply-clusters"   -> <<InstallAgent>>
      [] op = "apply-all"        -> <<ApplyProviders, ApplySubstrate, InstallAgent>>
      [] op = "destroy-infra"    -> <<DestroySubstrate, DestroyProviders>>
      [] op = "destroy-clusters" -> <<DestroyAgent>>]

Applies == {"apply-infra", "apply-clusters", "apply-all"}

Inventory(s, group) == IF group = "provider" THEN ProviderHosts(s) ELSE ClusterHosts(s)

PlayHosts(op, s, k) == Inventory(s, Playbook[op][k].group)

\* The first play after play k with a host that has not failed; a play with
\* none is skipped.
PlayAfter(r, k) ==
    LET live == {j \in DOMAIN Playbook[r.op] : j > k /\ ~ PlayHosts(r.op, r.on, j) \subseteq r.failed}
    IN  IF live = {} THEN Len(Playbook[r.op]) + 1 ELSE CHOOSE j \in live : \A i \in live : j <= i

Enter(r, k) ==
    [r EXCEPT !.play = k, !.role = 1,
              !.left = IF k > Len(Playbook[r.op]) THEN {} ELSE PlayHosts(r.op, r.on, k) \ r.failed]

Done(r) == r # Idle /\ r.play > Len(Playbook[r.op])

RoleOf(r) == Playbook[r.op][r.play].roles[r.role]

LeftForgiving(r, i, failed) ==      \* mutant: a failed task is passed over
    LET s == [r EXCEPT !.left = @ \ {i}, !.built = IF RoleOf(r) = "substrate" THEN @ \cup {i} ELSE @]
    IN  IF s.left # {} THEN s
        ELSE IF s.role < Len(Playbook[s.op][s.play].roles)
             THEN [s EXCEPT !.role = @ + 1, !.left = PlayHosts(s.op, s.on, s.play)]
             ELSE Enter(s, PlayAfter(s, s.play))

LeftRejoining(r, i, failed) ==      \* mutant: a host that failed a role gets the next one
    LET s == [r EXCEPT !.left = @ \ {i}, !.failed = IF failed THEN @ \cup {i} ELSE @,
                       !.built = IF RoleOf(r) = "substrate" /\ ~failed THEN @ \cup {i} ELSE @]
    IN  IF s.left # {} THEN s
        ELSE IF s.role < Len(Playbook[s.op][s.play].roles)
             THEN [s EXCEPT !.role = @ + 1, !.left = PlayHosts(s.op, s.on, s.play)]
             ELSE Enter(s, PlayAfter(s, s.play))

\* Host i leaves the current role, failed or not. The last one to leave
\* moves the play to its next role, or the playbook to its next play; it
\* ends where the whole play has failed.
Left(r, i, failed) ==
    LET s == [r EXCEPT !.left = @ \ {i}, !.failed = IF failed THEN @ \cup {i} ELSE @,
                       !.built = IF RoleOf(r) = "substrate" /\ ~failed THEN @ \cup {i} ELSE @]
        alive == PlayHosts(s.op, s.on, s.play) \ s.failed
    IN  IF s.left # {} THEN s
        ELSE IF alive = {} THEN Enter(s, Len(Playbook[s.op]) + 1)
        ELSE IF s.role < Len(Playbook[s.op][s.play].roles) THEN [s EXCEPT !.role = @ + 1, !.left = alive]
        ELSE Enter(s, PlayAfter(s, s.play))

-----------------------------------------------------------------------------
(* Commands.                                                                *)

Init ==
    /\ fleet \in {s \in Fleets : Valid(s)}
    /\ has = {}
    /\ work = [c \in Names(fleet) |-> EmptyWork]
    /\ made = 0
    /\ run = Idle
    /\ runs = 0

\* A command on the clusters of names, or on the whole state when names is
\* empty. `clusters` limits the playbook to a group, and Ansible refuses a
\* limit that matches no host.
Start(op, names) ==
    LET on == IF names = {} THEN fleet ELSE Filtered(fleet, names)
        r  == [op |-> op, on |-> on, play |-> 0, role |-> 1, left |-> {}, failed |-> {}, built |-> {}]
    IN  /\ run = Idle /\ runs < MaxRuns
        /\ op \in Applies => ApplySupported(on)
        /\ op = "apply-all" => OneHub(on)
        /\ op \in {"apply-clusters", "destroy-clusters"} => ClusterHosts(on) # {}
        /\ op \in {"apply-infra", "destroy-infra"} => ClusterHosts(on) \cup ProviderHosts(on) # {}
        /\ run' = Enter(r, PlayAfter(r, 0))
        /\ runs' = runs + 1
        /\ UNCHANGED <<fleet, has, work, made>>

\* The playbook is over, or the operator or the machine ends it.
Stop == run # Idle /\ run' = Idle /\ UNCHANGED <<fleet, has, work, made, runs>>

Edit(c) ==
    /\ run = Idle
    /\ fleet.cluster[c].config <= MaxEdits
    /\ fleet' = [fleet EXCEPT !.cluster[c].config = @ + 1]
    /\ UNCHANGED <<has, work, made, run, runs>>

-----------------------------------------------------------------------------
(* Roles.                                                                   *)

At(role, i) == run # Idle /\ ~ Done(run) /\ RoleOf(run) = role /\ i \in run.left

\* The role removes gone and puts new in place. It succeeds, or puts anything
\* in place, only when it can; it may fail halfway.
Role(role, i, gone, new, can) ==
    /\ At(role, i)
    /\ \/ can /\ has' = (has \ gone) \cup new /\ run' = Left(run, i, FALSE)
       \/ /\ \E lost \in SUBSET (gone \cap has), put \in SUBSET IF can THEN new \ has ELSE {} :
                has' = (has \ lost) \cup put
          /\ run' = Left(run, i, TRUE)
    /\ UNCHANGED <<fleet, work, made, runs>>

OnHost(h, kinds) == {t \in has : t.host = h /\ t.kind \in kinds}
Of(h, c, kinds) == {t \in OnHost(h, kinds) : t.for = c}

\* proxy_squid, bmc_emulated with boot_artifacts_http, mirror_registry: one
\* service per provider, on the hosts the provider names.
ApplySquid(p, h) ==
    Role("squid", <<p, h>>, {}, IF run.on.provider[p].squid = h THEN {Service(h, "squid", p)} ELSE {}, TRUE)

ApplyBMC(p, h) ==
    Role("bmc", <<p, h>>, {}, IF run.on.provider[p].machine = Libvirt THEN {Service(h, "bmc", p)} ELSE {}, TRUE)

ApplyMirror(p, h) ==
    Role("mirror", <<p, h>>, {}, IF run.on.provider[p].mirror = h THEN {Service(h, "mirror", p)} ELSE {}, TRUE)

\* host_proxy, in every play: it writes the settings of the host, or removes
\* them when the environment declares no proxy.
PersistProxy(owner, h) ==
    Role("proxy", <<owner, h>>, {Proxy(h)}, IF run.on.proxied THEN {Proxy(h)} ELSE {}, TRUE)

\* load_balancer_haproxy writes the directory and recreates the container of
\* each load balancer of the host, by its name: of two with one name, the
\* later in the list remains. The list is in the order the clusters were
\* read, which is left open.
ApplyBalancers(p, h) ==
    LET mine  == BalancersOn(run.on, p, h)
        names == {b.name : b \in mine}
    IN  \E last \in {f \in [names -> {b.cluster : b \in mine}] :
                        \A n \in names : \E b \in mine : b.name = n /\ b.cluster = f[n]} :
            Role("balancers", <<p, h>>,
                 {t \in OnHost(h, {"haproxy"}) : t.key \in names},
                 {HAProxy(h, n, last[n]) : n \in names}, TRUE)

RecreateSubstrate(c, h) ==      \* mutant: the disks are created without `creates`
    LET machines == {Domain(h, c, m) : m \in DOMAIN run.on.cluster[c].place}
    IN  Role("substrate", <<c, h>>, Of(h, c, {"disk"}),
             {Network(h, c), Disk(h, c, Blank)} \cup machines, TRUE)

\* substrate_libvirt: a network that is not there yet takes the bridge from
\* any other network of the host; then a disk that is there is kept; then
\* every machine of the cluster is defined, on whichever host the play is.
ApplySubstrateRole(c, h) ==
    LET rivals == {Network(h, d) : d \in {e \in Names(fleet) \ {c} :
                       fleet.cluster[e].bridge = run.on.cluster[c].bridge}}
        disk == IF Of(h, c, {"disk"}) = {} THEN {Disk(h, c, Blank)} ELSE {}
        machines == {Domain(h, c, m) : m \in DOMAIN run.on.cluster[c].place}
    IN  /\ Role("substrate", <<c, h>>, IF Network(h, c) \in has THEN {} ELSE rivals,
                {Network(h, c)} \cup disk \cup machines, TRUE)
        /\ disk \cap has' # {} => Network(h, c) \in has'
        /\ machines \cap (has' \ has) # {} => disk \subseteq has'

ApplyHosts(c, h) ==
    LET resolvers == UNION {run.on.provider[p].names : p \in NameSuppliers(run.on, c)}
    IN  Role("hosts", <<c, h>>, {}, IF h \in resolvers THEN {HostsBlock(h, c)} ELSE {}, TRUE)

-----------------------------------------------------------------------------
(* The install.                                                             *)

\* agent-iso: the effective configs are written; if that changed them, or no
\* image is there, what an earlier install left is removed and an image is
\* created. It may end between any two of these steps. openshift-install may
\* take the configs it read out of its directory.
CreateImage(c, h) ==
    LET config == run.on.cluster[c].config
        written == [work[c] EXCEPT !.written = config]
        stale   == work[c].image = Blank \/ work[c].written # config
        cleared == [EmptyWork EXCEPT !.written = config]
    IN  /\ At("image", <<c, h>>)
        /\ \/ /\ ~stale
              /\ run' = Left(run, <<c, h>>, FALSE)
              /\ UNCHANGED <<work, made>>
           \/ /\ stale /\ made < MaxISO
              /\ made' = made + 1
              /\ \E left \in {Blank, config} :
                     work' = [work EXCEPT ![c] = [written |-> left, image |-> made + 1, config |-> config]]
              /\ run' = Left(run, <<c, h>>, FALSE)
           \/ /\ \E w \in {work[c], written} \cup (IF stale THEN {cleared} ELSE {}) : work' = [work EXCEPT ![c] = w]
              /\ run' = Left(run, <<c, h>>, TRUE)
              /\ UNCHANGED made
        /\ UNCHANGED <<fleet, has, runs>>

\* The image is staged, and every node is powered off, given the image as a
\* CD, and powered on; the disk comes first in its boot order, so a node
\* with an installed disk starts what is on it.
Boot(c, h) ==
    LET wanted == {Domain(h, c, m) : m \in DOMAIN run.on.cluster[c].place}
        installed == {t.image : t \in Of(h, c, {"disk"})} \ {Blank}
        off == Of(h, c, {"up", "booting"})
    IN  Role("boot", <<c, h>>, off,
             IF installed = {} THEN {Booting(h, c, work[c].image)} ELSE {Up(h, c, g) : g \in installed},
             /\ wanted \cup {Network(h, c), Service(h, "bmc", MachineProvider(run.on, c))} \subseteq has
             /\ Of(h, c, {"disk"}) # {})

\* wait-for install-complete knows the cluster of the image's own install
\* state, and waits for no other.
Wait(c, h) == Role("wait", <<c, h>>, {}, {}, Up(h, c, work[c].image) \in has)

\* The agent installs on its own, whether a playbook waits for it or not.
Install(h, c, image) ==
    /\ Booting(h, c, image) \in has /\ Disk(h, c, Blank) \in has /\ Network(h, c) \in has
    /\ has' = (has \ {Booting(h, c, image), Disk(h, c, Blank)}) \cup {Disk(h, c, image), Up(h, c, image)}
    /\ UNCHANGED <<fleet, work, made, run, runs>>

-----------------------------------------------------------------------------
(* Destroy.                                                                 *)

\* The machines are stopped and undefined and the network removed, each with
\* failures ignored.
Undefine(c, h) ==
    LET soft == Of(h, c, {"up", "booting", "domain", "network"})
    IN  \E gone \in {soft} \cup {{t \in soft : t.kind \in kinds} : kinds \in
                        {{"domain", "network"}, {"up", "booting", "domain"}, {"network"}}} :
            Role("undefine", <<c, h>>, gone, {}, TRUE)

\* The hosts block goes, and only after it the cluster's state directory, so
\* its disks, each with a task that must succeed.
RemoveHosts(c, h) == Role("unhosts", <<c, h>>, {HostsBlock(h, c)}, {}, TRUE)
RemoveDisks(c, h) == Role("undisk", <<c, h>>, Of(h, c, {"disk"}), {}, TRUE)

\* host_proxy cleanup: of the host, whoever else needs the settings.
StripProxy(owner, h) == Role("unproxy", <<owner, h>>, {Proxy(h)}, {}, TRUE)

DestroyMirror(p, h) ==
    Role("unmirror", <<p, h>>, IF run.on.provider[p].mirror = h THEN {Service(h, "mirror", p)} ELSE {}, {}, TRUE)

DestroyBMC(p, h) ==
    Role("unbmc", <<p, h>>, IF run.on.provider[p].machine = Libvirt THEN {Service(h, "bmc", p)} ELSE {}, {}, TRUE)

DestroyEveryBalancer(p, h) ==      \* mutant: every HAProxy container of the host
    Role("unbalancers", <<p, h>>,
         IF run.on.provider[p].haproxy = h THEN OnHost(h, {"haproxy"}) ELSE {}, {}, TRUE)

DestroyBalancers(p, h) ==
    Role("unbalancers", <<p, h>>,
         {t \in OnHost(h, {"haproxy"}) : t.key \in {b.name : b \in BalancersOn(run.on, p, h)}}, {}, TRUE)

DestroySquid(p, h) ==
    Role("unsquid", <<p, h>>, IF run.on.provider[p].squid = h THEN {Service(h, "squid", p)} ELSE {}, {}, TRUE)

\* destroy_agent: the installer's files go; machines and disks stay.
RemoveWork(c, h) ==
    /\ At("unwork", <<c, h>>)
    /\ \E failed \in BOOLEAN :
         /\ work' = IF failed THEN work ELSE [work EXCEPT ![c] = EmptyWork]
         /\ run' = Left(run, <<c, h>>, failed)
    /\ UNCHANGED <<fleet, has, made, runs>>

-----------------------------------------------------------------------------

ProviderRole(p, h) ==
    \/ ApplySquid(p, h) \/ ApplyBMC(p, h) \/ ApplyMirror(p, h) \/ ApplyBalancers(p, h)
    \/ DestroyMirror(p, h) \/ DestroyBMC(p, h) \/ DestroyBalancers(p, h) \/ DestroySquid(p, h)

ClusterRole(c, h) ==
    \/ ApplySubstrateRole(c, h) \/ ApplyHosts(c, h)
    \/ CreateImage(c, h) \/ Boot(c, h) \/ Wait(c, h)
    \/ Undefine(c, h) \/ RemoveHosts(c, h) \/ RemoveDisks(c, h) \/ RemoveWork(c, h)

Command ==
    \E names \in SUBSET Names(fleet), op \in DOMAIN Playbook : Start(op, names)

Step ==
    \E i \in IF run = Idle THEN {} ELSE run.left :
        PersistProxy(i[1], i[2]) \/ StripProxy(i[1], i[2]) \/ ProviderRole(i[1], i[2]) \/ ClusterRole(i[1], i[2])

Agent == \E t \in has : t.kind = "booting" /\ Install(t.host, t.for, t.image)

Next ==
    \/ Command \/ Stop \/ Step \/ Agent
    \/ \E c \in Names(fleet) : Edit(c)

Spec == Init /\ [][Next]_vars

-----------------------------------------------------------------------------
(* What is promised.                                                        *)

TypeOK ==
    /\ Valid(fleet)
    /\ \A t \in has : t.for \in Names(fleet) \cup DOMAIN fleet.provider \cup {None}
    /\ work \in [Names(fleet) -> [written : 0 .. MaxEdits + 1, image : 0 .. MaxISO,
                                  config : 0 .. MaxEdits + 1]]
    /\ made \in 0 .. MaxISO /\ runs \in 0 .. MaxRuns

OwnedKinds == {"haproxy", "network", "domain", "hosts"}

\* Where the load balancers of a cluster go, and where its libvirt network does.
BalancerHosts(s, c) == {s.provider[p].haproxy : p \in BalancerSuppliers(s, c)}
NetworkHosts(s, c) == {i[2] : i \in {j \in ClusterHosts(s) : j[1] = c}}

\* Cluster c has a claim to a thing on a host: the thing is its own, or a load
\* balancer of a name that c gives one of its own there, or a network with the
\* bridge that c's own has there.
Claims(s, c, t) ==
    \/ t.for = c
    \/ t.kind = "haproxy" /\ t.key \in s.cluster[c].lbs /\ t.host \in BalancerHosts(s, c)
    \/ /\ t.kind = "network" /\ t.host \in NetworkHosts(s, c)
       /\ s.cluster[c].bridge = fleet.cluster[t.for].bridge

\* --scope is a boundary: a machine, hosts block or installed disk of a
\* cluster is only ever taken away by a command whose selection has that
\* cluster, and a load balancer or network by one whose selection has a
\* cluster with a claim to its name or bridge on that host, whatever fails
\* and whatever stays behind on hosts that clusters share.
ScopeIsolation ==
    [][\A t \in has \ has' :
           t.kind \in OwnedKinds \/ (t.kind = "disk" /\ t.image # Blank)
               => run # Idle /\ \E c \in Names(run.on) : Claims(run.on, c, t)]_vars

\* An installed disk outlives every apply and `destroy clusters`, in
\* whatever order they run, fail and run again: only `destroy infra` takes it.
DisksKept ==
    [][\A t \in has \ has' : t.kind = "disk" /\ t.image # Blank => run # Idle /\ run.op = "destroy-infra"]_vars

Clean(ops) == Done(run) /\ run.op \in ops /\ run.failed = {}

BalancerHost(s, b) == s.provider[b.provider].haproxy

\* The container of load balancer b is there, and serves a cluster that has a
\* load balancer of this name on this host: b's own, where no other has.
BalancerIn(s, b, H) ==
    \E d \in Balancers(s) :
        /\ d.name = b.name /\ BalancerHost(s, d) = BalancerHost(s, b)
        /\ HAProxy(BalancerHost(s, b), b.name, d.cluster) \in H

\* Cluster c has what it needs on host h: its machines, a disk for them, and a
\* network on its bridge, of a cluster that has this bridge on this host: its
\* own, where no other has.
SubstrateIn(s, c, h, H) ==
    /\ \E d \in Names(s) :
         /\ <<d, h>> \in ClusterHosts(s) /\ s.cluster[d].bridge = s.cluster[c].bridge
         /\ Network(h, d) \in H
    /\ \A m \in DOMAIN s.cluster[c].place : Domain(h, c, m) \in H
    /\ \E t \in H : t.kind = "disk" /\ t.host = h /\ t.for = c

\* An apply of the infrastructure that no host failed has put in place all
\* its clusters ask for, over whatever earlier commands did or left half
\* done: every load balancer on its host and, on every host of a cluster, its
\* network, its machines and a disk for them. What two clusters of the
\* selection both claim goes to one of them.
Converged ==
    Clean({"apply-infra", "apply-all"}) =>
        /\ \A b \in Balancers(run.on) : BalancerIn(run.on, b, has)
        /\ \A i \in ClusterHosts(run.on) : SubstrateIn(run.on, i[1], i[2], has)

\* `apply all` boots a cluster on a host only after this very run built the
\* cluster's machines there: a host whose substrate failed is not installed.
BootedOnlyBuilt ==
    [][run' # run /\ run # Idle /\ run.op = "apply-all" =>
           \A t \in has' \ has : t.kind \in {"booting", "up"} => <<t.for, t.host>> \in run.built]_vars

(* What the documents say and the code does not keep (README.md, section 6, *)
(* says with which configuration TLC refutes each).                         *)

\* desired-state.md: a load balancer a cluster declares is placed on the
\* chosen provider host. Two clusters that both call theirs "default" share
\* one container.
BalancersPlaced ==
    Clean({"apply-infra", "apply-all"}) =>
        \A b \in Balancers(run.on) : HAProxy(BalancerHost(run.on, b), b.name, b.cluster) \in has

\* state-model.md: --scope selects clusters. The network that owns a bridge is
\* removed by an apply of any cluster that names the bridge as its own.
NetworksKept == [][\A t \in has \ has' : t.kind = "network" => t.for \in Names(run.on)]_vars

\* architecture.md: every phase is safe to re-run. A second install powers
\* off the nodes of the cluster the first one brought up.
SafeToRerun == [][\A t \in has \ has' : t.kind = "up" => run.op \notin Applies]_vars

\* concepts.md: every cluster of the desired state is installed by the agent.
AllInstalled ==
    Clean({"apply-all"}) => \A c \in Names(run.on) : \E h \in ClosureHosts(run.on, c) : Up(h, c, work[c].image) \in has

\* state-model.md: libvirt.hostRef places a machine. The substrate role
\* defines every machine of a cluster on every host of its provider.
OnOwnHost == \A t \in has : t.kind = "domain" => t.host = fleet.cluster[t.for].place[t.key]

\* architecture.md: every phase is safe to re-run. A run that ended after it
\* wrote the new configs and before it removed the old image makes the next
\* one boot the old image.
ImageOfConfig == [][\A t \in has' \ has : t.kind = "booting" => work[t.for].config = run.on.cluster[t.for].config]_vars

\* state-model.md: --scope selects clusters. Destroying one takes the services
\* of its provider from the others.
SharedKept ==
    [][\A t \in has \ has' : t.kind \in {"squid", "bmc", "mirror"} =>
           \A c \in Names(fleet) \ Names(run.on) : t.for \notin fleet.cluster[c].refs]_vars
=============================================================================
