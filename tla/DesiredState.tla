---------------------------- MODULE DesiredState ----------------------------
(***************************************************************************)
(* The fleet an operator declares, and what the bastion derives from it    *)
(* before it starts a playbook: the closure of a cluster's providers, the  *)
(* validation of a whole state, the part of it that --scope leaves, the    *)
(* inventory and the load balancers of the rendered variables.             *)
(*                                                                         *)
(* A state is a record                                                     *)
(*   provider  provider name -> [hosts, machine, libvirtOn, haproxy,       *)
(*             names, mirror, squid]: its ssh hosts, the flavour of its    *)
(*             machine capability, and the hosts its capabilities are on;  *)
(*   cluster   cluster name -> [refs, place, bridge, lbs, hub, config]:    *)
(*             its providers, the host of each machine, its libvirt        *)
(*             bridge, the names of its load balancers, whether it is the  *)
(*             hub, and a value for everything its install config says;    *)
(*   proxied   whether the environment declares a proxy.                   *)
(* A ClusterInfrastructure and the one OCPCluster bound to it are one      *)
(* entry of cluster. A host stands for the machine behind its ssh address. *)
(***************************************************************************)
EXTENDS Naturals, FiniteSets

None == "none"

Libvirt == "libvirt"
BareMetal == "baremetal"

Names(s) == DOMAIN s.cluster

IsState(s) ==
    /\ s = [provider |-> s.provider, cluster |-> s.cluster, proxied |-> s.proxied]
    /\ \A c \in Names(s) :
           s.cluster[c] = [refs   |-> s.cluster[c].refs,   place |-> s.cluster[c].place,
                           bridge |-> s.cluster[c].bridge, lbs   |-> s.cluster[c].lbs,
                           hub    |-> s.cluster[c].hub,    config |-> s.cluster[c].config]

-----------------------------------------------------------------------------
(* The closure: what the providers of one cluster supply together.          *)

Known(s, c) == s.cluster[c].refs \cap DOMAIN s.provider

MachineSuppliers(s, c)  == {p \in Known(s, c) : s.provider[p].machine # None}
BalancerSuppliers(s, c) == {p \in Known(s, c) : s.provider[p].haproxy # None}
NameSuppliers(s, c)     == {p \in Known(s, c) : s.provider[p].names # {}}
MirrorSuppliers(s, c)   == {p \in Known(s, c) : s.provider[p].mirror # None}
ProxySuppliers(s, c)    == {p \in Known(s, c) : s.provider[p].squid # None}

ClosureHosts(s, c) == UNION {s.provider[p].hosts : p \in Known(s, c)}

\* Every reference resolves, no two providers of a cluster share the name of
\* a host, and each capability has at most one supplier.
ClosureBuilds(s, c) ==
    /\ s.cluster[c].refs \subseteq DOMAIN s.provider
    /\ \A p, q \in Known(s, c) : p # q => s.provider[p].hosts \cap s.provider[q].hosts = {}
    /\ \A supply \in {MachineSuppliers(s, c), BalancerSuppliers(s, c), NameSuppliers(s, c),
                      MirrorSuppliers(s, c), ProxySuppliers(s, c)} : Cardinality(supply) <= 1

\* The machine capability, or None when no provider supplies one.
Flavor(s, c) ==
    IF MachineSuppliers(s, c) = {} THEN None
    ELSE s.provider[CHOOSE p \in MachineSuppliers(s, c) : TRUE].machine

-----------------------------------------------------------------------------
(* Validation, of the whole state: a command that fails it does nothing.    *)

ProviderValid(v) ==
    /\ v.libvirtOn \cup v.names \cup ({v.haproxy, v.mirror, v.squid} \ {None}) \subseteq v.hosts
    /\ v.libvirtOn # {} => v.machine = Libvirt

ClusterValid(s, c) ==
    /\ s.cluster[c].refs # {}
    /\ ClosureBuilds(s, c)
    /\ Flavor(s, c) = Libvirt =>
         /\ s.cluster[c].bridge # None
         /\ \A m \in DOMAIN s.cluster[c].place : s.cluster[c].place[m] \in ClosureHosts(s, c)
    /\ s.cluster[c].lbs # {} => BalancerSuppliers(s, c) # {}

\* One provider at most runs the managed proxy; every cluster refers to it,
\* and a libvirt machine of a cluster behind it is on the proxy's own host.
ProxyPlaced(s) ==
    LET squids == {p \in DOMAIN s.provider : s.provider[p].squid # None}
    IN  squids # {} =>
          /\ s.proxied
          /\ \E q \in squids :
               /\ squids = {q}
               /\ \A c \in Names(s) :
                    /\ q \in s.cluster[c].refs
                    /\ Flavor(s, c) = Libvirt =>
                         \A m \in DOMAIN s.cluster[c].place :
                             s.cluster[c].place[m] = s.provider[q].squid

Valid(s) ==
    /\ \A p \in DOMAIN s.provider : ProviderValid(s.provider[p])
    /\ \A c \in Names(s) : ClusterValid(s, c)
    /\ ProxyPlaced(s)

\* apply, and only apply, refuses the flavours it has no role for.
ApplySupported(s) == \A c \in Names(s) : Flavor(s, c) \in {Libvirt, BareMetal}

OneHub(s) == Cardinality({c \in Names(s) : s.cluster[c].hub}) = 1

-----------------------------------------------------------------------------
(* What the command works on: the clusters --scope names, and the providers *)
(* those refer to. The environment, so the proxy, stays.                    *)

Filtered(s, names) ==
    [provider |-> [p \in UNION {s.cluster[c].refs : c \in names} |-> s.provider[p]],
     cluster  |-> [c \in names |-> s.cluster[c]],
     proxied  |-> s.proxied]

-----------------------------------------------------------------------------
(* The inventory. A host appears once per provider that has it and once per *)
(* cluster whose libvirt machines may be on it; the infra and the ocp group *)
(* hold the same names, so a host that failed in one is out of the other.   *)

ProviderHosts(s) == UNION {{p} \X s.provider[p].hosts : p \in DOMAIN s.provider}

MachineProvider(s, c) == CHOOSE p \in MachineSuppliers(s, c) : TRUE

ClusterHosts(s) ==
    UNION {{c} \X s.provider[MachineProvider(s, c)].libvirtOn :
               c \in {d \in Names(s) : Flavor(s, d) = Libvirt}}

-----------------------------------------------------------------------------
(* The load balancers of the variables, and the ones a provider's host      *)
(* selects: they are told apart by name only from there on.                 *)

Balancers(s) ==
    UNION {{[name |-> n, cluster |-> c,
             provider |-> CHOOSE p \in BalancerSuppliers(s, c) : TRUE] : n \in s.cluster[c].lbs} :
               c \in {d \in Names(s) : BalancerSuppliers(s, d) # {}}}

BalancersOn(s, p, h) == {b \in Balancers(s) : b.provider = p /\ s.provider[p].haproxy = h}
=============================================================================
