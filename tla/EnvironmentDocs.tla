--------------------------- MODULE EnvironmentDocs ---------------------------
(***************************************************************************)
(* The documents of an environment and what loading makes of them: the     *)
(* four kinds (their zero values, as the decoder leaves the fields a       *)
(* document omits), the closure of a cluster's providers, and Normalize,   *)
(* which fills in defaults, most of them from another document.            *)
(*                                                                         *)
(* An optional block is a set of at most one element, a map a function     *)
(* over its keys.  Names are naturals in the order the code sorts them by, *)
(* 0 the empty one; secrets are strings, "" none.  An address is           *)
(* <<network, number>>, <<0, 0>> one that does not parse and <<>> none; a  *)
(* CIDR is its network, 0 one that does not parse.  The cpu, memory and    *)
(* disk of a machine, filled alike, are one number.  A mirror's URL is     *)
(* <<host, port>>, an image in it <<url, path>>; a proxy's is a record.    *)
(***************************************************************************)
EXTENDS Naturals, FiniteSets, FiniteSetsExt, Sequences, SequencesExt

NoMap == <<>>
BadIP == <<0, 0>>
NoURL == [scheme |-> "", host |-> <<>>, port |-> 0, auth |-> ""]
URL(host, port) == [scheme |-> "http", host |-> host, port |-> port, auth |-> ""]

The(option) == CHOOSE x \in option : TRUE

\* The entries of f, and those of g where f has none.
f ++ g == [x \in DOMAIN f \cup DOMAIN g |-> IF x \in DOMAIN f THEN f[x] ELSE g[x]]

\* The values of a map, in the order of its keys.
InOrder(f) ==
    [k \in 1..Cardinality(DOMAIN f) |->
        f[CHOOSE n \in DOMAIN f : Cardinality({m \in DOMAIN f : m <= n}) = k]]

\* The entries of a list at the given positions.
Entries(docs, positions) == InOrder(Restrict(docs, positions))

\* What a field has when the document leaves it at the zero value.
Default(v, zero, d) == IF v = zero THEN d ELSE v

Never == "NeverContactSource"
Allow == "AllowContactingSource"

-----------------------------------------------------------------------------
(* The zero values of the four kinds.                                       *)

EmptyEnvironment ==
    [name |-> 0, baseDomain |-> "", install |-> "", proxy |-> {}, registries |-> {},
     secrets |-> NoMap, release |-> {}, images |-> NoMap]

EmptyProxy == [http |-> NoURL, https |-> NoURL, noProxy |-> {}, auth |-> ""]

EmptyMirror == [url |-> <<>>, credentials |-> "", trust |-> ""]

\* Where a secret comes from: a file, or what is generated (a user, a validity).
EmptySecret == [file |-> FALSE, generated |-> {}]

EmptyProvider ==
    [name |-> 0, hosts |-> NoMap, machine |-> {}, loadBalancer |-> {}, nameResolution |-> {},
     registry |-> {}, proxy |-> {}]

EmptyMachineCapability == [libvirt |-> {}, baremetal |-> {}, vsphere |-> {}, kubevirt |-> {}]

EmptyBMC == [enabled |-> {}, emulator |-> "", port |-> 0, auth |-> ""]

EmptyInfrastructure ==
    [name |-> 0, providerRefs |-> <<>>, networks |-> NoMap, machines |-> NoMap,
     endpoints |-> NoMap, loadBalancers |-> NoMap]

EmptyNetwork == [cidr |-> 0, gateway |-> <<>>, dns |-> {}, libvirt |-> {}, vsphere |-> {}]

EmptyMachine ==
    [profile |-> 0, resources |-> {}, interfaces |-> NoMap, hints |-> {},
     libvirt |-> {}, baremetal |-> {}, vsphere |-> {}]

EmptyInterface == [network |-> 0, ip |-> <<>>, mac |-> <<>>, primary |-> {}]

EmptyCluster ==
    [name |-> 0, role |-> "", topology |-> "", infra |-> 0, method |-> "", release |-> {},
     baseDomain |-> "", pullSecret |-> "", sshKey |-> "", trust |-> "", sources |-> <<>>,
     installOverrides |-> NoMap, agentOverrides |-> NoMap, networking |-> {}, nodes |-> NoMap]

EmptyState == [environments |-> <<>>, providers |-> <<>>, infras |-> <<>>, clusters |-> <<>>]

-----------------------------------------------------------------------------
(* Looking documents up.  An index keeps the last document of a name, a     *)
(* search finds the first.                                                  *)

IndexOf(docs) ==
    [n \in {docs[i].name : i \in DOMAIN docs} |->
        docs[Max({i \in DOMAIN docs : docs[i].name = n})]]

primaryEnvironment(s) == {s.environments[i] : i \in DOMAIN s.environments \cap {1}}

\* The position of the first ClusterInfrastructure of a name, 0 when there is none.
clusterInfraByName(s, name) ==
    LET found == {i \in DOMAIN s.infras : s.infras[i].name = name}
    IN  IF found = {} THEN 0 ELSE Min(found)

OCPInstallKind(env) == Default(env.install, "", "connected")

Disconnected(s) == \E env \in primaryEnvironment(s) : OCPInstallKind(env) = "disconnected"

MachineLibvirt(p) == UNION {m.libvirt : m \in p.machine}
MirrorRegistry(p) == UNION p.registry
ProxySquid(p)     == UNION p.proxy
HAProxy(p)        == UNION p.loadBalancer

MachineFlavor(p) ==
    LET flavors == <<"libvirt", "baremetal", "vsphere", "kubevirt">>
        set     == {i \in DOMAIN flavors : \E m \in p.machine : m[flavors[i]] # {}}
    IN  IF set = {} THEN "" ELSE flavors[Min(set)]

Mirrors(s) == UNION {r.mirror : r \in UNION {env.registries : env \in primaryEnvironment(s)}}

\* The networks the provider bridges.
LibvirtNetworks(ci) == {n \in DOMAIN ci.networks : ci.networks[n].libvirt # {}}

-----------------------------------------------------------------------------
(* The closure of a cluster's providers: the first to have a host or to     *)
(* supply a capability gives it, any other is an error.                     *)

Capabilities == <<"loadBalancer", "machine", "nameResolution", "registry", "proxy">>

\* The positions of the references that resolve, and of those that supply a capability.
Resolved(ci, index) == {i \in DOMAIN ci.providerRefs : ci.providerRefs[i] \in DOMAIN index}

Supplying(ci, index, cap) == {i \in Resolved(ci, index) : index[ci.providerRefs[i]][cap] # {}}

HostNames(ci, index, i) == DOMAIN index[ci.providerRefs[i]].hosts

ClosureBuilds(ci, index) ==
    /\ Resolved(ci, index) = DOMAIN ci.providerRefs
    /\ \A i, j \in DOMAIN ci.providerRefs :
           i # j => HostNames(ci, index, i) \cap HostNames(ci, index, j) = {}
    /\ \A c \in ToSet(Capabilities) : Cardinality(Supplying(ci, index, c)) <= 1

SupplierOf(ci, index, cap) ==
    LET by == Supplying(ci, index, cap) IN IF by = {} THEN 0 ELSE ci.providerRefs[Min(by)]

ClosureHosts(ci, index) ==
    LET has(h) == {i \in Resolved(ci, index) : h \in HostNames(ci, index, i)}
    IN  [h \in UNION {HostNames(ci, index, i) : i \in Resolved(ci, index)} |->
            index[ci.providerRefs[Min(has(h))]].hosts[h]]

\* The closure as one provider, named for the first capability it has.
closureProvider(ci, index) ==
    LET from(cap) == UNION {index[r][cap] : r \in {SupplierOf(ci, index, cap)} \ {0}}
        supplied  == {i \in DOMAIN Capabilities : SupplierOf(ci, index, Capabilities[i]) # 0}
    IN  [name           |-> IF supplied = {} THEN ci.name ELSE SupplierOf(ci, index, Capabilities[Min(supplied)]),
         hosts          |-> ClosureHosts(ci, index),
         machine        |-> from("machine"),
         loadBalancer   |-> from("loadBalancer"),
         nameResolution |-> from("nameResolution"),
         registry       |-> from("registry"),
         proxy          |-> from("proxy")]

-----------------------------------------------------------------------------
(* Normalize: one document at a time.                                       *)

defaultEnvironmentSecrets(env) ==
    [env EXCEPT !.secrets = [n \in DOMAIN env.secrets |->
        [env.secrets[n] EXCEPT !.generated =
            {[cert |-> {Default(days, 0, 3650) : days \in g.cert},
              user |-> {Default(u, "", "admin") : u \in g.user}] : g \in env.secrets[n].generated}]]]

normalizeBMC(b) ==
    [enabled |-> Default(b.enabled, {}, {TRUE}), emulator |-> Default(b.emulator, "", "sushy-tools"),
     port |-> Default(b.port, 0, 8000), auth |-> b.auth]

\* user: who runs the command, "" when nothing says.
normalizeProvider(p, user) ==
    [p EXCEPT
        !.hosts = [h \in DOMAIN p.hosts |->
            [p.hosts[h] EXCEPT !.ssh =
                {[a EXCEPT !.user = Default(a.user, "", user)] : a \in p.hosts[h].ssh}]],
        !.machine = {[m EXCEPT !.libvirt =
            {[l EXCEPT !.bmc = {normalizeBMC(b) : b \in l.bmc}] : l \in m.libvirt}] : m \in p.machine},
        !.proxy = {{[q EXCEPT !.port = Default(q.port, 0, 3128)] : q \in squid} : squid \in p.proxy}]

\* A machine's own resources win, then its profile's, then the defaults.
Resources(m, libvirt) ==
    LET profiled == {l \in libvirt : m.profile \in DOMAIN l.profiles}
        own(d)   == {Default(r, 0, d) : r \in Default(m.resources, {}, {0})}
        shaped   == IF profiled = {} THEN m.resources ELSE own(The(profiled).profiles[m.profile])
    IN  IF libvirt = {} \/ m.libvirt = {} THEN shaped
        ELSE {Default(r, 0, 8) : r \in Default(shaped, {}, {0})}

normalizeClusterInfrastructure(ci, p) ==
    [ci EXCEPT !.machines = [n \in DOMAIN ci.machines |->
        LET m == ci.machines[n]
        IN  [m EXCEPT
               !.resources  = Resources(m, MachineLibvirt(p)),
               !.interfaces = [i \in DOMAIN m.interfaces |->
                   IF m.libvirt = {} THEN m.interfaces[i]
                   ELSE [m.interfaces[i] EXCEPT !.mac = Default(m.interfaces[i].mac, <<>>, <<ci.name, n, i>>)]]]]]

-----------------------------------------------------------------------------
(* A cluster: its defaults from the environment, its image sources, the     *)
(* host names of its infrastructure's endpoints.                            *)

Known(sources) == {sources[i].source : i \in DOMAIN sources}

\* Mutant of mergeImageDigestSources: a source that is there is derived all the same.
MergeWithoutLooking(existing, derived) == existing \o derived

\* The existing sources, then the derived ones of sources not there yet.
mergeImageDigestSources(existing, derived) ==
    LET new == {i \in DOMAIN derived :
                    derived[i].source \notin Known(existing) \cup {derived[j].source : j \in 1..(i - 1)}}
    IN  existing \o Entries(derived, new)

deriveDisconnectedReleaseSources(r) ==
    LET mirrored(source, url) == [source |-> source, mirrors |-> <<<<url, "release-images">>>>, policy |-> Never]
        both(url)   == <<mirrored("ocp-release", url), mirrored("art-dev", url)>>
        absent(url) == Entries(both(url), {i \in {1, 2} : both(url)[i].source \notin Known(r.sources)})
        urls == {mirror.url : mirror \in r.mirror} \ {<<>>}
    IN  IF urls = {} THEN r.sources ELSE r.sources \o absent(The(urls))

ImageSources(own, env) ==
    IF env.registries = {} THEN own
    ELSE LET r == The(env.registries)
             all == mergeImageDigestSources(own, deriveDisconnectedReleaseSources(r))
         IN  IF OCPInstallKind(env) = "disconnected"
             THEN [i \in DOMAIN all |-> [all[i] EXCEPT !.policy = Default(all[i].policy, "", Never)]]
             ELSE Default(own, <<>>, r.sources)

applyEnvironment(ocp, env) ==
    [ocp EXCEPT
        !.baseDomain = Default(ocp.baseDomain, "", env.baseDomain),
        !.pullSecret = Default(ocp.pullSecret, "", "openshift-pull-secret"),
        !.sshKey     = Default(ocp.sshKey, "", "cluster-admin-key"),
        !.release    = Default(ocp.release, {}, env.release),
        !.trust      = LET trusts == {mirror.trust : mirror \in UNION {r.mirror : r \in env.registries}}
                       IN  IF trusts = {} THEN ocp.trust ELSE Default(ocp.trust, "", The(trusts)),
        !.sources    = ImageSources(ocp.sources, env)]

\* hub: the names the code takes for a hub's.
normalizeOCPCluster(ocp, envs, hub) ==
    LET own == [ocp EXCEPT
            !.role     = Default(ocp.role, "", IF ocp.name \in hub THEN "hub" ELSE "managed"),
            !.topology = Default(ocp.topology, "",
                                 IF Cardinality(DOMAIN ocp.nodes) <= 1 THEN "single-node" ELSE "multi-node"),
            !.method   = Default(ocp.method, "", "agent"),
            !.nodes    = [n \in DOMAIN ocp.nodes |->
                             [ocp.nodes[n] EXCEPT !.machine = Default(ocp.nodes[n].machine, 0, n)]]]
    IN  IF envs = {} THEN own ELSE applyEnvironment(own, The(envs))

defaultEndpointHostnames(ci, envs, name) ==
    IF \A env \in envs : env.baseDomain = "" THEN ci
    ELSE [ci EXCEPT !.endpoints = [e \in DOMAIN ci.endpoints |->
             [ci.endpoints[e] EXCEPT !.hostname = Default(ci.endpoints[e].hostname, <<>>, <<e, name>>)]]]

\* One round of the loop over the clusters: the cluster, and the endpoints of
\* the infrastructure it names.
NormalizeClusterAt(s, i, hub) ==
    LET ocp == s.clusters[i]
        ci  == clusterInfraByName(s, ocp.infra)
        env == primaryEnvironment(s)
        t   == [s EXCEPT !.clusters[i] = normalizeOCPCluster(ocp, env, hub)]
    IN  IF ci = 0 THEN t
        ELSE [t EXCEPT !.infras[ci] = defaultEndpointHostnames(s.infras[ci], env, ocp.name)]

NormalizeInfras(s) ==
    [s EXCEPT !.infras = [i \in DOMAIN s.infras |->
        normalizeClusterInfrastructure(s.infras[i], closureProvider(s.infras[i], IndexOf(s.providers)))]]

NormalizeSuppliers(s, user) ==
    [s EXCEPT !.environments = [i \in DOMAIN s.environments |-> defaultEnvironmentSecrets(s.environments[i])],
              !.providers    = [i \in DOMAIN s.providers |-> normalizeProvider(s.providers[i], user)]]

Normalize(s, user, hub) ==
    FoldLeft(LAMBDA t, i : NormalizeClusterAt(t, i, hub),
             NormalizeInfras(NormalizeSuppliers(s, user)),
             [i \in DOMAIN s.clusters |-> i])
=============================================================================
