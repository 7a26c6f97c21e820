------------------------------ MODULE InstallVars ------------------------------
(***************************************************************************)
(* What the render package makes of a validated state, second half: the    *)
(* inventory, the variables of the playbooks and the component versions.   *)
(* Last, what the install_agent role makes of an install config and the    *)
(* variables.                                                              *)
(*                                                                         *)
(* Where the code takes the last entry of a map in the order Go iterates   *)
(* it, the value here is the set of what it can take.                      *)
(***************************************************************************)
EXTENDS InstallRender

\* The mirror a disconnected installation uses.
LocalMirror(envs) ==
    UNION {UNION {r.mirror : r \in env.registries} :
           env \in {e \in envs : OCPInstallKind(e) = "disconnected"}}

ClosureOf(s, ci) == closureProvider(ci, IndexOf(s.providers))

\* The last cluster of an infrastructure, a zero one when there is none.
ocpByInfrastructure(s, ci) ==
    LET of == {i \in DOMAIN s.clusters : s.clusters[i].infra = ci.name}
    IN  IF of = {} THEN EmptyCluster ELSE s.clusters[Max(of)]

\* A component's image: what the environment declares, else the default public one.
componentImageURLs(envs, typ) ==
    LET declared == {env \in envs : typ \in DOMAIN env.images}
    IN  IF declared = {} THEN [local |-> "", public |-> "default"] ELSE The(declared).images[typ]

-----------------------------------------------------------------------------
(* The inventory and the component versions.                                *)

HostEntry(envs, provider, cluster, name, ssh) ==
    [address |-> ssh.address, user |-> ssh.user, provider |-> provider, cluster |-> cluster,
     host |-> name, key |-> resolvedSecretPath(envs, ssh.key)]

\* The hosts of every provider, and of every cluster those its machines run on.
\* A name joins its parts with a hyphen; the names of an instance hold none.
Inventory(s) ==
    LET envs     == primaryEnvironment(s)
        index    == IndexOf(s.providers)
        hosts    == UNION {{<<p.name, h>> : h \in {k \in DOMAIN p.hosts : p.hosts[k].ssh # {}}} : p \in ToSet(s.providers)}
        libvirt(ci) == UNION {l.hosts : l \in MachineLibvirt(ClosureOf(s, ci))}
        machines == UNION {{<<ci.name, h>> : h \in {k \in libvirt(ci) \cap DOMAIN ClosureHosts(ci, index) :
                                                    ClosureHosts(ci, index)[k].ssh # {}}} : ci \in ToSet(s.infras)}
        infras   == IndexOf(s.infras)
    IN  [providerHosts |-> [k \in hosts |-> HostEntry(envs, k[1], 0, k[2], The(index[k[1]].hosts[k[2]].ssh))],
         ocpHosts      |-> [k \in machines |->
             HostEntry(envs, SupplierOf(infras[k[1]], index, "machine"), k[1], k[2],
                       The(ClosureHosts(infras[k[1]], index)[k[2]].ssh))]]

openshiftInstallVersions(s) == UNION {ocp.release : ocp \in ToSet(s.clusters)} \ {""}

usesSushyTools(s) ==
    \E p \in ToSet(s.providers) : \E l \in MachineLibvirt(p) : \E b \in l.bmc :
        TRUE \in b.enabled /\ b.emulator = "sushy-tools"
usesManagedHAProxy(s)        == \E ci \in ToSet(s.infras) : ci.loadBalancers # NoMap
usesManagedMirrorRegistry(s) == \E p \in ToSet(s.providers) : MirrorRegistry(p) # {}
usesManagedProxy(s)          == \E p \in ToSet(s.providers) : ProxySquid(p) # {}

\* The lock file holds them, and so do the variables.
ComponentPins(s) ==
    {<<"ansible-core">>, <<"yaml">>}
    \cup {<<"sushy-tools">> : x \in {TRUE} \cap {usesSushyTools(s)}}
    \cup {<<"haproxy">> : x \in {TRUE} \cap {usesManagedHAProxy(s)}}
    \cup {<<"mirror-registry">> : x \in {TRUE} \cap {usesManagedMirrorRegistry(s)}}
    \cup {<<"squid">> : x \in {TRUE} \cap {usesManagedProxy(s)}}
    \cup {<<"openshift-install", version>> : version \in openshiftInstallVersions(s)}

-----------------------------------------------------------------------------
(* The environment's variables: the proxy as hosts and as machines see it,  *)
(* and the mirror.                                                          *)

effectiveProxyURLs(eff, fallback) ==
    [http |-> Default(eff.http, NoURL, fallback), https |-> Default(eff.https, NoURL, fallback)]

ocpInstallEnvVars(s) ==
    LET envs  == primaryEnvironment(s)
        hosts == managedProxyClientURLForState(s, "host")
        vms   == managedProxyClientURLForState(s, "machine")
    IN  [disconnected |-> Disconnected(s),
         proxy |-> {[host    |-> effectiveProxyURLs(eff, hosts), vm |-> effectiveProxyURLs(eff, vms),
                     noProxy |-> eff.noProxy, auth |-> resolvedSecretPath(envs, eff.auth)] : eff \in proxyResolve(s)},
         registry |-> {[url |-> mirror.url, credentials |-> resolvedSecretPath(envs, mirror.credentials)] :
                          mirror \in Mirrors(s)}]

\* The squid of each provider, by name, behind the URL the hosts use.
forwardProxyRunVars(s) ==
    LET run(p, eff) ==
            LET squid == The(ProxySquid(p))
                url   == effectiveProxyURLs(eff, managedProxyClientURLForState(s, "host"))
            IN  [provider |-> p.name, host |-> squid.host, port |-> ProxyPort(squid),
                 url      |-> Default(eff.http, NoURL, url.https),
                 address  |-> UNION {{a.address : a \in p.hosts[h].ssh} : h \in {squid.host} \cap DOMAIN p.hosts},
                 auth     |-> resolvedSecretPath(primaryEnvironment(s), eff.auth),
                 image    |-> componentImageURLs(primaryEnvironment(s), "squid")]
    IN  {run(p, eff) : p \in {q \in ToSet(s.providers) : ProxySquid(q) # {}}, eff \in proxyResolve(s)}

\* What the mirror must hold: each release, each component's image, its own.
buildMirrorSet(s, mirror) ==
    LET images == UNION {{<<typ, env.images[typ]>> : typ \in DOMAIN env.images} : env \in primaryEnvironment(s)}
        own    == componentImageURLs(primaryEnvironment(s), "mirror-registry")
    IN  {[kind |-> "releasePayload", public |-> v, local |-> <<<<mirror.url, "release-images">>, v>>] :
            v \in openshiftInstallVersions(s)}
        \cup {[kind |-> "componentImage", public |-> i[2].public, local |-> <<i[2].local>>] :
                 i \in {j \in images : j[1] # "mirror-registry" /\ "" \notin {j[2].local, j[2].public}}}
        \cup {[kind |-> "registryServer", public |-> Default(own.public, "", "default"), local |-> <<own.local>>] :
                 x \in {own.local} \ {""}}

\* The registry each provider runs: on its own port, else the URL's, else the default.
mirrorRegistryRunVars(s) ==
    LET envs  == primaryEnvironment(s)
        certs == UNION {{n \in DOMAIN env.secrets : \E g \in env.secrets[n].generated : g.cert # {}} : env \in envs}
        run(p, mirror) ==
            LET mr   == The(MirrorRegistry(p))
                port == IF mirror.url = <<>> THEN 0 ELSE mirror.url[2]
            IN  [provider    |-> p.name, host |-> mr.host, url |-> mirror.url,
                 port        |-> Default(mr.port, 0, Default(port, 0, 5000)),
                 credentials |-> resolvedSecretPath(envs, mirror.credentials),
                 caCert      |-> resolvedSecretPath(envs, mirror.trust),
                 caKey       |-> {<<"generated", mirror.trust, "key">> : t \in {mirror.trust} \cap certs},
                 image       |-> componentImageURLs(envs, "mirror-registry"),
                 mirrorSet   |-> buildMirrorSet(s, mirror)]
    IN  {run(p, mirror) : p \in {q \in ToSet(s.providers) : MirrorRegistry(q) # {}}, mirror \in LocalMirror(envs)}

-----------------------------------------------------------------------------
(* Providers, hosts and machines.                                           *)

providerDispatch(p) ==
    LET flavor == MachineFlavor(p)
    IN  [substrate |-> flavor,
         bmc       |-> CASE flavor = "libvirt" -> "emulated" [] flavor = "baremetal" -> "redfish" [] OTHER -> "none",
         http      |-> BootPort(p)]

providerHostVars(hosts, envs) ==
    InOrder([h \in DOMAIN hosts |->
        [name |-> h, caps |-> hosts[h].caps,
         ssh  |-> {[a EXCEPT !.key = resolvedSecretPath(envs, a.key)] : a \in hosts[h].ssh}]])

\* Where a machine runs and how it is reached.
MachineVars(ci, n) ==
    LET primary == primaryInterface(ci.machines[n])
    IN  [name |-> n, host |-> ci.machines[n].libvirt, ip |-> primary.ip, mac |-> primary.mac]

bmcVars(b, nodes, envs) ==
    [enabled |-> TRUE \in b.enabled, emulator |-> b.emulator, port |-> b.port, nodes |-> nodes,
     auth    |-> resolvedSecretPath(envs, b.auth)]

\* The machines of every cluster that gets its machines from the provider.
providerBMCNodes(s, p) ==
    LET of(ci)  == SupplierOf(ci, IndexOf(s.providers), "machine") = p.name /\ MachineLibvirt(ClosureOf(s, ci)) # {}
        nodes(ci) == InOrder([n \in DOMAIN ci.machines |-> <<ci.name, MachineVars(ci, n)>>])
    IN  FoldLeft(LAMBDA seq, ci : seq \o nodes(ci), <<>>, SelectSeq(s.infras, of))

providerComponentVars(s) ==
    LET envs == primaryEnvironment(s)
    IN  [i \in DOMAIN s.providers |->
            LET p == s.providers[i]
            IN  [name |-> p.name, kind |-> MachineFlavor(p), dispatch |-> providerDispatch(p),
                 hosts |-> providerHostVars(p.hosts, envs),
                 bmc   |-> UNION {{bmcVars(b, providerBMCNodes(s, p), envs) : b \in l.bmc} : l \in MachineLibvirt(p)}]]

\* Mutant of nodeRolesByMachineRef: by the node's own name.
RolesByNodeName(ocp) == {[n \in DOMAIN ocp.nodes |-> ocp.nodes[n].role]}

\* The roles a cluster gives its machines: of two nodes on one machine, either's.
nodeRolesByMachineRef(ocp) ==
    LET machines == {ocp.nodes[n].machine : n \in DOMAIN ocp.nodes}
        roles    == {ocp.nodes[n].role : n \in DOMAIN ocp.nodes}
    IN  {f \in [machines -> roles] :
            \A m \in machines : \E n \in DOMAIN ocp.nodes : ocp.nodes[n].machine = m /\ ocp.nodes[n].role = f[m]}

providerNodes(ci, ocp) ==
    LET roles == nodeRolesByMachineRef(ocp)
    IN  InOrder([n \in DOMAIN ci.machines |->
            <<MachineVars(ci, n), {f[n] : f \in {g \in roles : n \in DOMAIN g}}, ci.machines[n].resources>>])

\* The machines resolve the mirror's name to their own gateway.
libvirtDNSHosts(network, envs) ==
    IF network.gateway = <<>> THEN {}
    ELSE {[ip |-> network.gateway, name |-> mirror.url[1]] : mirror \in {m \in LocalMirror(envs) : m.url # <<>>}}

\* Of the networks only the first is described.
libvirtVars(ci, p, envs) ==
    LET first      == {ci.networks[Min(DOMAIN ci.networks)] : n \in {ci.networks} \ {NoMap}}
        restricted == managedProxyIsolationEnabled(ci, p, envs)
    IN  {[bridge    |-> network.libvirt, restricted |-> restricted,
          proxyURL  |-> managedProxyClientURL(ci, p, envs),
          proxyPort |-> IF restricted THEN ProxyPort(The(ProxySquid(p))) ELSE 0,
          dnsHosts  |-> libvirtDNSHosts(network, envs)] : network \in {n \in first : n.libvirt # {}}}

\* What a machine without a profile is made of: the first profile, when there is one.
defaultNodeVars(l) == IF l.profiles = NoMap THEN 8 ELSE l.profiles[Min(DOMAIN l.profiles)]

providerVars(ci, p, ocp, envs) ==
    [kind     |-> MachineFlavor(p),
     dispatch |-> providerDispatch(p),
     libvirt  |-> {[hosts       |-> providerHostVars(p.hosts, envs),
                    network     |-> libvirtVars(ci, p, envs),
                    defaultNode |-> defaultNodeVars(l),
                    bmc         |-> {bmcVars(b, <<>>, envs) : b \in l.bmc},
                    nodes       |-> providerNodes(ci, ocp)] : l \in MachineLibvirt(p)}]

-----------------------------------------------------------------------------
(* Load balancers.                                                          *)

StandardEndpointBackendRole(ep) == IF ep \in {"api", "apiInt"} THEN "control-plane" ELSE ""

StandardLoadBalancerPorts(ep) ==
    CASE ep = "api" -> {6443} [] ep = "apiInt" -> {22623} [] ep = "ingress" -> {80, 443} [] OTHER -> {}

\* With no role of its own, a frontend goes to the workers, without them to all.
BackendsGiven(ci, roles, want) ==
    LET of(role) == {m \in DOMAIN roles : roles[m] = role}
        wanted   == Default(want, "", IF of("worker") # {} THEN "worker" ELSE "control-plane")
    IN  InOrder([m \in of(wanted) \cap DOMAIN ci.machines |->
            [name |-> m, address |-> primaryInterface(ci.machines[m]).ip, role |-> roles[m]]])

backendNodes(ci, ocp, want) == {BackendsGiven(ci, roles, want) : roles \in nodeRolesByMachineRef(ocp)}

frontendForEndpoint(ci, ocp, ep) ==
    [endpoint |-> ep,
     ports    |-> StandardLoadBalancerPorts(ep),
     bind     |-> IF ep \in DOMAIN ci.endpoints THEN ci.endpoints[ep].address ELSE <<>>,
     backends |-> backendNodes(ci, ocp, StandardEndpointBackendRole(ep))]

sharedLoadBalancerVars(s) ==
    LET balancer(ci, lb) ==
            [name     |-> lb, cluster |-> ci.name, provider |-> ClosureOf(s, ci).name,
             image    |-> componentImageURLs(primaryEnvironment(s), "haproxy"),
             host     |-> The(HAProxy(ClosureOf(s, ci))).host,
             frontends |-> [i \in DOMAIN ci.loadBalancers[lb] |->
                               frontendForEndpoint(ci, ocpByInfrastructure(s, ci), ci.loadBalancers[lb][i])]]
    IN  UNION {{balancer(ci, lb) : lb \in DOMAIN ci.loadBalancers} :
               ci \in {c \in ToSet(s.infras) : HAProxy(ClosureOf(s, c)) # {}}}

\* refs: the balancer of each endpoint, any of them when several name it.
clusterLoadBalancerVars(ci) ==
    LET refs == UNION {{<<ep, lb>> : ep \in ToSet(ci.loadBalancers[lb])} : lb \in DOMAIN ci.loadBalancers}
    IN  [mode     |-> IF ci.loadBalancers = NoMap THEN "external" ELSE "managed",
         external |-> ~({"api", "apiInt", "ingress"} \subseteq {r[1] : r \in refs}),
         refs     |-> refs]

-----------------------------------------------------------------------------
(* Clusters.                                                                *)

\* The entries of a hosts file; ingress has one for the additional names only.
hostsFileEntries(ci, additional) ==
    {[address |-> ci.endpoints[e].address, names |-> {ci.endpoints[e].hostname}] : e \in {"api", "apiInt"} \cap DOMAIN ci.endpoints}
    \cup {[address |-> ci.endpoints[e].address, names |-> additional] :
             e \in {x \in {"ingress"} \cap DOMAIN ci.endpoints : additional # {}}}

networkVars(ci, p) ==
    [networks     |-> machineNetworksList(ci),
     endpoints    |-> ci.endpoints,
     loadBalancer |-> clusterLoadBalancerVars(ci),
     names        |-> {[hosts |-> hf.hosts, entries |-> hostsFileEntries(ci, hf.ingress)] : hf \in UNION p.nameResolution}]

\* The mirror's copy of the release: the first mirror of its first source.
releaseImageOverride(ocp) ==
    LET mirrored == {i \in DOMAIN ocp.sources :
                        ocp.sources[i].source = "ocp-release" /\ 1 \in DOMAIN ocp.sources[i].mirrors}
        first    == {i \in mirrored : \A j \in mirrored : i <= j}
    IN  IF ocp.release \subseteq {""} \/ first = {} THEN <<>>
        ELSE <<ocp.sources[The(first)].mirrors[1], The(ocp.release)>>

localRegistryVars(envs, ocp) ==
    {[url         |-> mirror.url,
      credentials |-> resolvedSecretPath(envs, mirror.credentials),
      trust       |-> resolvedSecretPath(envs, ocp.trust)] : mirror \in LocalMirror(envs)}

generatedSecretVarsFromEnv(envs) ==
    UNION {UNION {{[name |-> n, days |-> g.cert] : g \in {x \in env.secrets[n].generated : x.cert # {}}} :
                  n \in DOMAIN env.secrets} : env \in envs}

ocpInstallVars(ocp, envs) ==
    [method     |-> ocp.method,
     baseDomain |-> ocp.baseDomain,
     pullSecret |-> resolvedSecretPath(envs, ocp.pullSecret),
     sshKey     |-> resolvedSecretPath(envs, ocp.sshKey),
     trust      |-> resolvedSecretPath(envs, ocp.trust),
     override   |-> releaseImageOverride(ocp),
     generated  |-> generatedSecretVarsFromEnv(envs),
     registry   |-> localRegistryVars(envs, ocp)]

ocpClusterNodes(ci, ocp, envs) ==
    LET bmcs(m) == UNION {b.bmc : b \in ci.machines[m].baremetal}
        node(n) ==
            LET m == ocp.nodes[n].machine
            IN  [name |-> n, role |-> ocp.nodes[n].role, machine |-> MachineVars(ci, m),
                 bmc  |-> {[b EXCEPT !.credential = resolvedSecretPath(envs, b.credential)] : b \in bmcs(m)}]
    IN  InOrder([n \in DOMAIN ocp.nodes |-> node(n)])

clusterVars(s, ci) ==
    LET ocp  == ocpByInfrastructure(s, ci)
        envs == primaryEnvironment(s)
    IN  [name     |-> ci.name,
         ocp      |-> [name |-> ocp.name, topology |-> ocp.topology, release |-> ocp.release,
                       install |-> ocpInstallVars(ocp, envs), nodes |-> ocpClusterNodes(ci, ocp, envs)],
         provider |-> providerVars(ci, ClosureOf(s, ci), ocp, envs),
         network  |-> networkVars(ci, ClosureOf(s, ci))]

Vars(s) ==
    [ocpInstall       |-> ocpInstallEnvVars(s),
     providers        |-> providerComponentVars(s),
     loadBalancers    |-> sharedLoadBalancerVars(s),
     mirrorRegistries |-> mirrorRegistryRunVars(s),
     forwardProxies   |-> forwardProxyRunVars(s),
     clusters         |-> [i \in DOMAIN s.infras |-> clusterVars(s, s.infras[i])],
     pins             |-> ComponentPins(s)]

-----------------------------------------------------------------------------
(* The install_agent role: the config it gives openshift-install.           *)

\* The role puts credentials into a URL that has a scheme, and leaves any other as it is.
Credentialed(u, auth) == IF u.scheme = "" THEN u ELSE [u EXCEPT !.auth = auth]

\* vars: the environment's; install: the cluster's; config: what was rendered.
EffectiveInstallConfig(config, vars, install) ==
    LET enabled == {p \in vars.proxy : p.host # [http |-> NoURL, https |-> NoURL] /\ p.auth # <<>>}
        own(p)  == [http |-> Default(p.vm.http, NoURL, p.host.http), https |-> Default(p.vm.https, NoURL, p.host.https)]
        urls    == [path \in {<<"proxy", "httpProxy">>, <<"proxy", "httpsProxy">>, <<"proxy", "noProxy">>} |->
                       LET p == The(enabled)
                       IN  CASE path[2] = "httpProxy"  -> <<Credentialed(own(p).http, p.auth[2])>>
                             [] path[2] = "httpsProxy" -> <<Credentialed(own(p).https, p.auth[2])>>
                             [] path[2] = "noProxy"    -> <<p.noProxy>>]
        secrets == [path \in {<<"pullSecret">>, <<"sshKey">>} |->
                       IF path[1] = "pullSecret" THEN <<<<install.pullSecret, {r.credentials : r \in install.registry}>>>>
                       ELSE <<install.sshKey>>]
        trust   == [path \in {<<"additionalTrustBundle">> : t \in {install.trust} \ {<<>>}} |-> <<install.trust>>]
    IN  mergeYAMLMaps(trust ++ secrets ++ config, IF enabled = {} THEN NoMap ELSE urls)

\* A disconnected installation needs the mirror's copy of the release.
RoleBuilds(vars, install) == vars.disconnected => install.override # <<>>
=============================================================================
