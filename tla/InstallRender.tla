----------------------------- MODULE InstallRender -----------------------------
(***************************************************************************)
(* What the render package makes of a validated state, first half: the     *)
(* effective proxy and the two files openshift-install reads for each      *)
(* cluster, with placeholders or with the secrets in them.                 *)
(*                                                                         *)
(* A configuration file is a function from the paths of its leaves to      *)
(* one-element tuples; the value of an override is the empty tuple.        *)
(***************************************************************************)
EXTENDS EnvironmentDocs

\* The path of a secret's file: where it is declared, else in the secrets directory.
resolvedSecretPath(envs, name) ==
    IF name = "" THEN <<>>
    ELSE IF \E env \in envs : name \in DOMAIN env.secrets /\ env.secrets[name].file
         THEN <<"declared", name>>
         ELSE <<"generated", name>>

-----------------------------------------------------------------------------
(* The effective proxy: what the environment declares, and every address of *)
(* the state at hand in noProxy.                                            *)

noProxyAuto(s, env) ==
    {<<"local">>, <<"domain", env.baseDomain>>}
    \cup UNION {{<<"network", ci.networks[n].cidr>> : n \in DOMAIN ci.networks}
                \cup UNION {{<<"address", ci.endpoints[e].address>>, <<"name", ci.endpoints[e].hostname>>} :
                            e \in DOMAIN ci.endpoints} : ci \in ToSet(s.infras)}
    \cup UNION {{<<"cluster", ocp.name>>}
                \cup UNION {{<<"network", n>> : n \in ToSet(net.cluster) \cup ToSet(net.service)} :
                            net \in ocp.networking} : ocp \in ToSet(s.clusters)}
    \cup {<<"mirror", mirror.url[1]>> : mirror \in Mirrors(s)}
    \cup UNION {UNION {{<<"address", a.address>> : a \in p.hosts[h].ssh} : h \in DOMAIN p.hosts} :
                p \in ToSet(s.providers)}

proxyResolve(s) ==
    UNION {{[p EXCEPT !.noProxy = @ \cup noProxyAuto(s, env)] : p \in env.proxy} : env \in primaryEnvironment(s)}

machineNetworksList(ci) == InOrder(ci.networks)

primaryLibvirtMachineNetwork(ci) ==
    IF LibvirtNetworks(ci) = {} THEN {} ELSE {ci.networks[Min(LibvirtNetworks(ci))]}

managedProxyIsolationEnabled(ci, p, envs) ==
    /\ \E env \in envs : env.proxy # {}
    /\ ProxySquid(p) # {}
    /\ MachineLibvirt(p) # {}
    /\ primaryLibvirtMachineNetwork(ci) # {}

ProxyPort(squid) == Default(squid.port, 0, 3128)

\* The proxy as the cluster's machines reach it: their own network's gateway.
managedProxyClientURL(ci, p, envs) ==
    IF ~managedProxyIsolationEnabled(ci, p, envs) THEN NoURL
    ELSE LET gateway == The(primaryLibvirtMachineNetwork(ci)).gateway
         IN  IF gateway = <<>> THEN NoURL ELSE URL(gateway, ProxyPort(The(ProxySquid(p))))

\* The proxy as the hosts reach it: the ssh address of the host it runs on.
managedProxyClientHostURL(ci, p, envs) ==
    IF ~managedProxyIsolationEnabled(ci, p, envs) THEN NoURL
    ELSE LET squid   == The(ProxySquid(p))
             address == UNION {p.hosts[h].ssh : h \in {squid.host} \cap DOMAIN p.hosts}
         IN  IF address = {} THEN NoURL ELSE URL(The(address).address, ProxyPort(squid))

\* For a whole state, on the machines' or the hosts' side: the URL of the first
\* cluster, by name, that has one.
managedProxyClientURLForState(s, side) ==
    LET index == IndexOf(s.infras)
        of(n) == LET p == closureProvider(index[n], IndexOf(s.providers))
                 IN  IF side = "host" THEN managedProxyClientHostURL(index[n], p, primaryEnvironment(s))
                     ELSE managedProxyClientURL(index[n], p, primaryEnvironment(s))
        some  == {n \in DOMAIN index : of(n) # NoURL}
    IN  IF some = {} THEN NoURL ELSE of(Min(some))

-----------------------------------------------------------------------------
(* install-config.yaml                                                      *)

infraOf(s, ocp) == {s.infras[i] : i \in {clusterInfraByName(s, ocp.infra)} \ {0}}

\* The provider to render with, none when the closure does not hold together.
providerForInfrastructure(s, ci) ==
    LET index == IndexOf(s.providers)
    IN  IF ClosureBuilds(ci, index) /\ SupplierOf(ci, index, "machine") # 0
        THEN {closureProvider(ci, index)} ELSE {}

CanRender(s, ocp) == \E ci \in infraOf(s, ocp) : providerForInfrastructure(s, ci) # {}

PlaceholderInstallerSecrets(ocp) ==
    [pull |-> <<"ref", ocp.pullSecret>>, ssh |-> <<"ref", ocp.sshKey>>,
     trust |-> IF ocp.trust = "" THEN <<>> ELSE <<"ref", ocp.trust>>, http |-> NoURL, https |-> NoURL]

networkingConfig(ci, ocp) ==
    LET cidrs == [i \in DOMAIN machineNetworksList(ci) |-> machineNetworksList(ci)[i].cidr]
    IN  [p \in {<<"networking", "machineNetwork">>} |-> <<cidrs>>]
        ++ [p \in {<<"networking", "networkType">> : n \in {m \in ocp.networking : m.type # ""}} |->
               <<The(ocp.networking).type>>]
        ++ [p \in {<<"networking", "clusterNetwork">> : n \in {m \in ocp.networking : m.cluster # <<>>}} |->
               <<The(ocp.networking).cluster>>]
        ++ [p \in {<<"networking", "serviceNetwork">> : n \in {m \in ocp.networking : m.service # <<>>}} |->
               <<The(ocp.networking).service>>]

platformConfig(p, ci, ocp) ==
    LET flavor == MachineFlavor(p)
        key    == IF flavor = "vsphere" THEN "vsphere" ELSE "baremetal"
        vip(e) == IF e \in DOMAIN ci.endpoints THEN ci.endpoints[e].address ELSE <<>>
    IN  IF ocp.topology = "single-node" \/ flavor \in {"", "kubevirt"}
        THEN [path \in {<<"platform", "none">>} |-> <<>>]
        ELSE [path \in {<<"platform", key, "apiVIPs">>, <<"platform", key, "ingressVIPs">>} |->
                 <<vip(IF path[3] = "apiVIPs" THEN "api" ELSE "ingress")>>]

\* The secrets carry the URLs with the credentials in them, when there are any.
installerProxyConfig(effs, secrets, fallback) ==
    LET eff   == IF effs = {} THEN EmptyProxy ELSE The(effs)
        http  == Default(secrets.http, NoURL, Default(eff.http, NoURL, fallback))
        https == Default(secrets.https, NoURL, Default(eff.https, NoURL, fallback))
    IN  [path \in {<<"proxy", "httpProxy">> : u \in {http} \ {NoURL}} |-> <<http>>]
        ++ [path \in {<<"proxy", "httpsProxy">> : u \in {https} \ {NoURL}} |-> <<https>>]
        ++ [path \in {<<"proxy", "noProxy">> : n \in {eff.noProxy} \ {{}}} |-> <<eff.noProxy>>]

\* The leaves of both: an override replaces what is at its path, above it and below it.
mergeYAMLMaps(base, over) ==
    over ++ [path \in {q \in DOMAIN base : \A o \in DOMAIN over : ~IsPrefix(o, q) /\ ~IsPrefix(q, o)} |-> base[path]]

nodeRoleCount(ocp, role) == Cardinality({n \in DOMAIN ocp.nodes : ocp.nodes[n].role = role})

\* Mutant of ProxyOfCluster: the state's proxy URL, not the cluster's.
ProxyOfState(s, ocp, ci, p, secrets) ==
    installerProxyConfig(proxyResolve(s), secrets, managedProxyClientURLForState(s, "machine"))

ProxyOfCluster(s, ocp, ci, p, secrets) ==
    installerProxyConfig(proxyResolve(s), secrets, managedProxyClientURL(ci, p, primaryEnvironment(s)))

\* All of it that is not the proxy's.
InstallConfigBase(ocp, ci, p, secrets) ==
    LET keys == {<<"baseDomain">>, <<"metadata">>, <<"compute">>, <<"controlPlane">>, <<"pullSecret">>, <<"sshKey">>}
        top  == [path \in keys |->
                    CASE path[1] = "baseDomain"   -> <<ocp.baseDomain>>
                      [] path[1] = "metadata"     -> <<ocp.name>>
                      [] path[1] = "compute"      -> <<nodeRoleCount(ocp, "worker")>>
                      [] path[1] = "controlPlane" -> <<nodeRoleCount(ocp, "control-plane")>>
                      [] path[1] = "pullSecret"   -> <<secrets.pull>>
                      [] path[1] = "sshKey"       -> <<secrets.ssh>>]
        trust == [path \in {<<"additionalTrustBundle">> : t \in {secrets.trust} \ {<<>>}} |-> <<secrets.trust>>]
        mirrors == [path \in {<<"imageDigestSources">> : x \in {ocp.sources} \ {<<>>}} |-> <<ocp.sources>>]
    IN  top ++ trust ++ mirrors ++ networkingConfig(ci, ocp) ++ platformConfig(p, ci, ocp)

InstallerConfigWithSecrets(s, ocp, secrets) ==
    LET ci == The(infraOf(s, ocp))
        p  == The(providerForInfrastructure(s, ci))
    IN  mergeYAMLMaps(InstallConfigBase(ocp, ci, p, secrets) ++ ProxyOfCluster(s, ocp, ci, p, secrets),
                      ocp.installOverrides)

InstallerConfig(s, ocp) == InstallerConfigWithSecrets(s, ocp, PlaceholderInstallerSecrets(ocp))

-----------------------------------------------------------------------------
(* agent-config.yaml                                                        *)

primaryInterface(m) ==
    LET marked == {i \in DOMAIN m.interfaces : m.interfaces[i].primary = {TRUE}}
    IN  IF m.interfaces = NoMap THEN EmptyInterface
        ELSE m.interfaces[Min(IF marked = {} THEN DOMAIN m.interfaces ELSE marked)]

\* A static address for each interface that has one, with its network's routes and servers.
agentNetworkConfig(m, networks) ==
    LET static == {i \in DOMAIN m.interfaces : m.interfaces[i].network \in DOMAIN networks
                                               /\ m.interfaces[i].ip # <<>>}
        net(i) == networks[m.interfaces[i].network]
    IN  IF static = {} THEN {}
        ELSE {[interfaces |-> {[name |-> i, ip |-> m.interfaces[i].ip, mac |-> m.interfaces[i].mac,
                                prefix |-> net(i).cidr] : i \in static},
               dns        |-> UNION {net(i).dns : i \in static},
               routes     |-> {[hop |-> net(i).gateway, interface |-> i] :
                                  i \in {j \in static : net(j).gateway # <<>>}}]}

AgentHost(ci, ocp, n) ==
    LET m == ci.machines[ocp.nodes[n].machine]
    IN  [hostname   |-> n,
         role       |-> IF ocp.nodes[n].role = "worker" THEN "worker" ELSE "master",
         interfaces |-> {<<i, m.interfaces[i].mac>> : i \in DOMAIN m.interfaces},
         hints      |-> m.hints,
         network    |-> agentNetworkConfig(m, ci.networks)]

agentHosts(ci, ocp) == InOrder([n \in DOMAIN ocp.nodes |-> AgentHost(ci, ocp, n)])

\* The first control-plane node that has an address; there may be none.
rendezvousIP(ci, ocp) ==
    LET ip(n) == primaryInterface(ci.machines[ocp.nodes[n].machine]).ip
        able  == {n \in DOMAIN ocp.nodes : ocp.nodes[n].role = "control-plane" /\ ip(n) # <<>>}
    IN  IF able = {} THEN <<>> ELSE ip(Min(able))

\* A provider serves the boot artifacts next to its BMC emulation.
BootPort(p) == LET ports == UNION {{b.port : b \in l.bmc} : l \in MachineLibvirt(p)} \ {0}
               IN  {port + 2 : port \in ports}

disconnectedBootArtifactsConfig(s, ci, p) ==
    LET first    == SubSeq(machineNetworksList(ci), 1, Min({1, Cardinality(DOMAIN ci.networks)}))
        gateways == {n.gateway : n \in ToSet(first)} \ {<<>>}
    IN  IF ~Disconnected(s) \/ BootPort(p) = {} \/ gateways = {} THEN NoMap
        ELSE [path \in {<<"minimalISO">>, <<"bootArtifactsBaseURL">>} |->
                 IF path = <<"minimalISO">> THEN <<TRUE>> ELSE <<URL(The(gateways), The(BootPort(p)))>>]

AgentConfig(s, ocp) ==
    LET ci   == The(infraOf(s, ocp))
        p    == The(providerForInfrastructure(s, ci))
        base == [path \in {<<"metadata">>, <<"rendezvousIP">>, <<"hosts">>} |->
                    CASE path[1] = "metadata"     -> <<ocp.name>>
                      [] path[1] = "rendezvousIP" -> <<rendezvousIP(ci, ocp)>>
                      [] path[1] = "hosts"        -> <<agentHosts(ci, ocp)>>]
    IN  mergeYAMLMaps(base ++ disconnectedBootArtifactsConfig(s, ci, p), ocp.agentOverrides)

-----------------------------------------------------------------------------
(* The secrets of one cluster, read from their files.                       *)

\* A URL that takes credentials: the code parses it, and fails without a scheme or a host.
bakeProxyCredentials(u, creds) == [u EXCEPT !.auth = creds]

Bakes(u) == u = NoURL \/ (u.scheme # "" /\ u.host # <<>>)

\* The credentials that go into the pull secret: the mirror's, when disconnected.
MirrorAuth(s) ==
    IF Disconnected(s) THEN {mirror.credentials : mirror \in Mirrors(s)} \ {""} ELSE {}

\* The URLs that get the credentials, and whether every one of them takes them.
ClientURLs(s, ocp) ==
    LET effs == proxyResolve(s)
        ci   == The(infraOf(s, ocp))
        own  == managedProxyClientURL(ci, The(providerForInfrastructure(s, ci)), primaryEnvironment(s))
    IN  IF effs = {} THEN [http |-> NoURL, https |-> NoURL, auth |-> ""]
        ELSE LET eff == The(effs)
             IN  [http |-> Default(eff.http, NoURL, own), https |-> Default(eff.https, NoURL, own),
                  auth |-> eff.auth]

SecretsLoad(s, ocp) ==
    LET c == ClientURLs(s, ocp) IN c.auth # "" => Bakes(c.http) /\ Bakes(c.https)

LoadInstallerSecrets(s, ocp) ==
    LET c        == ClientURLs(s, ocp)
        baked(u) == IF c.auth = "" \/ u = NoURL THEN u ELSE bakeProxyCredentials(u, c.auth)
    IN  [pull  |-> <<"file", ocp.pullSecret, MirrorAuth(s)>>,
         ssh   |-> <<"file", ocp.sshKey>>,
         trust |-> IF ocp.trust = "" THEN <<>> ELSE <<"file", ocp.trust>>,
         http  |-> baked(c.http),
         https |-> baked(c.https)]
=============================================================================
