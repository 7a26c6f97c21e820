--------------------------- MODULE EnvironmentValid ---------------------------
(***************************************************************************)
(* Validate: what a normalized state must satisfy before a command does    *)
(* anything with it.  The code collects every error and refuses when there *)
(* is one; here each check is a conjunct.  A check that the code skips     *)
(* because an earlier one failed comes after it.                           *)
(***************************************************************************)
EXTENDS EnvironmentDocs

validateName(doc) == doc.name # 0

Distinct(docs) == \A i, j \in DOMAIN docs : i # j => docs[i].name # docs[j].name

\* With no port, or one that fits.
PortInRange(port) == port \in 0..65535

-----------------------------------------------------------------------------
(* The environment.                                                         *)

validateGeneratedSecret(g) ==
    /\ Cardinality(g.user) + Cardinality(g.cert) = 1
    /\ g.user \cap {"a b", "a:b"} = {}

validateEnvironmentSecrets(env) ==
    \A n \in DOMAIN env.secrets :
        LET secret == env.secrets[n]
        IN  /\ secret.file <=> secret.generated = {}
            /\ \A g \in secret.generated : validateGeneratedSecret(g)

validateComponentImages(env) ==
    \A c \in DOMAIN env.images : env.images[c].local # "" \/ env.images[c].public # ""

\* What the code takes for credentials in a URL needs a scheme before it.
proxyURLHasInlineCredentials(u) == u.scheme # "" /\ u.auth # ""

validateEnvironmentProxy(env) ==
    \A p \in env.proxy : \A u \in {p.http, p.https} : ~proxyURLHasInlineCredentials(u)

validateImageDigestSource(src) ==
    /\ src.source # ""
    /\ src.mirrors # <<>>
    /\ src.policy \in {"", Never, Allow}

isLocalMirrorRef(ref, url) == ref[1] = url

validateMirrorRefs(src, url) == \A m \in ToSet(src.mirrors) : isLocalMirrorRef(m, url)

validateDisconnectedRegistrySources(r) ==
    \A mirror \in r.mirror : \A src \in ToSet(r.sources) :
        /\ validateImageDigestSource(src)
        /\ validateMirrorRefs(src, mirror.url)
        /\ src.policy # Allow

validateRegistriesBlock(r, requireMirror) ==
    /\ requireMirror => r.mirror # {}
    /\ \A mirror \in r.mirror :
           /\ mirror.url # <<>>
           /\ requireMirror => mirror.trust # ""
    /\ requireMirror => validateDisconnectedRegistrySources(r)

validateOCPInstall(env) ==
    LET requireMirror == OCPInstallKind(env) = "disconnected"
    IN  /\ env.install \in {"", "connected", "disconnected"}
        /\ requireMirror => env.registries # {}
        /\ \A r \in env.registries : validateRegistriesBlock(r, requireMirror)
        /\ validateEnvironmentProxy(env)

validateEnvironments(s) ==
    /\ Len(s.environments) = 1
    /\ \A env \in primaryEnvironment(s) :
           /\ validateName(env)
           /\ env.baseDomain # ""
           /\ validateOCPInstall(env)
           /\ validateEnvironmentSecrets(env)
           /\ validateComponentImages(env)

-----------------------------------------------------------------------------
(* The providers.                                                           *)

hasCapability(host, want) == want \in host.caps

\* A component runs on a host of the provider, reached over ssh.
Hosted(p, ref) == ref \in DOMAIN p.hosts /\ p.hosts[ref].ssh # {}

validateProviderHosts(p) ==
    \A h \in DOMAIN p.hosts :
        /\ p.hosts[h].ssh # {}
        /\ \A a \in p.hosts[h].ssh : a.address # <<>> /\ a.user # "" /\ a.key # ""

validateProviderRegistry(p) ==
    \A block \in p.registry :
        /\ block # {}
        /\ \A mr \in block :
               /\ Hosted(p, mr.host)
               /\ hasCapability(p.hosts[mr.host], "mirror-registry")
               /\ PortInRange(mr.port)

validateProviderProxy(p) ==
    \A block \in p.proxy :
        /\ block # {}
        /\ \A squid \in block :
               /\ Hosted(p, squid.host)
               /\ hasCapability(p.hosts[squid.host], "proxy")
               /\ PortInRange(squid.port)

validateProviderLoadBalancer(p) ==
    \A block \in p.loadBalancer : block # {} /\ \A hp \in block : Hosted(p, hp.host)

validateProviderNameResolution(p) ==
    \A block \in p.nameResolution :
        /\ block # {}
        /\ \A hf \in block : \A ref \in hf.hosts :
               Hosted(p, ref) /\ hasCapability(p.hosts[ref], "hosts-file")

validateLibvirtProvider(p)   == \A l \in MachineLibvirt(p) : \A ref \in l.hosts : Hosted(p, ref)
validateBareMetalProvider(m) == m.baremetal \subseteq {"", "redfish"}
validateVSphereProvider(m)   == \A v \in m.vsphere : v.vcenter # "" /\ v.placed
validateKubeVirtProvider(m)  == \A k \in m.kubevirt : k.cluster # "" /\ k.placed

validateProviderMachine(p) ==
    \A m \in p.machine :
        /\ Cardinality({flavor \in DOMAIN m : m[flavor] # {}}) = 1
        /\ validateLibvirtProvider(p)
        /\ validateBareMetalProvider(m)
        /\ validateVSphereProvider(m)
        /\ validateKubeVirtProvider(m)

validateProviders(s) ==
    /\ Distinct(s.providers)
    /\ \A p \in ToSet(s.providers) :
           /\ validateName(p)
           /\ validateProviderHosts(p)
           /\ \E c \in ToSet(Capabilities) : p[c] # {}
           /\ validateProviderMachine(p)
           /\ validateProviderLoadBalancer(p)
           /\ validateProviderNameResolution(p)
           /\ validateProviderRegistry(p)
           /\ validateProviderProxy(p)

-----------------------------------------------------------------------------
(* The infrastructures, against the closure of their providers.             *)

validateNetworks(ci, p) ==
    LET flavor == MachineFlavor(p)
    IN  \A n \in DOMAIN ci.networks :
            LET network == ci.networks[n]
            IN  /\ network.cidr # 0
                /\ BadIP \notin network.dns \cup {network.gateway}
                /\ IF flavor = "libvirt" THEN network.libvirt \notin {{}, {""}} ELSE network.libvirt = {}
                /\ flavor # "vsphere" => network.vsphere = {}

validateMachineInterfaces(ci, m) ==
    LET primary == {i \in DOMAIN m.interfaces : m.interfaces[i].primary = {TRUE}}
    IN  /\ m.interfaces # NoMap
        /\ \A i \in DOMAIN m.interfaces :
               LET iface == m.interfaces[i]
               IN  /\ iface.network \in DOMAIN ci.networks
                   /\ iface.ip = <<>> \/ iface.ip[1] = ci.networks[iface.network].cidr
        /\ Cardinality(DOMAIN m.interfaces) > 1 => Cardinality(primary) = 1

validateMachines(ci, p) ==
    \A n \in DOMAIN ci.machines :
        LET m     == ci.machines[n]
            kinds == {k \in {"libvirt", "baremetal", "vsphere"} : m[k] # {}}
        IN  /\ Cardinality(kinds) = 1
            /\ kinds \subseteq {MachineFlavor(p)}
            /\ MachineLibvirt(p) # {} => m.libvirt \subseteq DOMAIN p.hosts
            /\ \A b \in m.baremetal : \A bmc \in b.bmc :
                   bmc.address # <<>> /\ bmc.protocol \in {"", "redfish"}
            /\ validateMachineInterfaces(ci, m)

validateEndpoints(ci) == \A e \in DOMAIN ci.endpoints : ci.endpoints[e].address \notin {<<>>, BadIP}

validateLoadBalancers(ci, p) ==
    /\ ci.loadBalancers # NoMap => HAProxy(p) # {}
    /\ \A lb \in DOMAIN ci.loadBalancers :
           /\ ci.loadBalancers[lb] # <<>>
           /\ ToSet(ci.loadBalancers[lb]) \subseteq DOMAIN ci.endpoints

\* Mutant of validateClusterInfrastructures: the closure's errors are dropped.
InfrastructuresAnyClosure(s) ==
    /\ Distinct(s.infras)
    /\ \A ci \in ToSet(s.infras) :
           LET p == closureProvider(ci, IndexOf(s.providers))
           IN  /\ validateName(ci) /\ ci.providerRefs # <<>>
               /\ validateNetworks(ci, p) /\ validateMachines(ci, p)
               /\ validateEndpoints(ci) /\ validateLoadBalancers(ci, p)

validateClusterInfrastructures(s) ==
    /\ Distinct(s.infras)
    /\ \A ci \in ToSet(s.infras) :
           LET index == IndexOf(s.providers)
               p     == closureProvider(ci, index)
           IN  /\ validateName(ci)
               /\ ci.providerRefs # <<>>
               /\ ClosureBuilds(ci, index)
               /\ validateNetworks(ci, p)
               /\ validateMachines(ci, p)
               /\ validateEndpoints(ci)
               /\ validateLoadBalancers(ci, p)

-----------------------------------------------------------------------------
(* The clusters.                                                            *)

NodesOf(ocp, role) == {n \in DOMAIN ocp.nodes : ocp.nodes[n].role = role}

validateNodes(ocp, ci) ==
    /\ DOMAIN ocp.nodes # {}
    /\ \A n \in DOMAIN ocp.nodes :
           /\ ocp.nodes[n].role \in {"control-plane", "worker"}
           /\ ocp.nodes[n].machine \in DOMAIN ci.machines
    /\ ocp.topology = "single-node" =>
           Cardinality(NodesOf(ocp, "control-plane")) = 1 /\ NodesOf(ocp, "worker") = {}

installOverrideForbiddenKeys ==
    {"apiVersion", "metadata", "baseDomain", "pullSecret", "sshKey", "additionalTrustBundle",
     "controlPlane", "compute", "imageDigestSources"}

installOverrideForbiddenNestedPaths ==
    {<<"networking", "machineNetwork">>} \cup
    ({"platform"} \X {"baremetal", "vsphere"} \X {"apiVIPs", "ingressVIPs"})

agentConfigForbiddenKeys ==
    {"apiVersion", "kind", "metadata", "rendezvousIP", "hosts", "minimalISO", "bootArtifactsBaseURL"}

\* Overrides are the leaves of a map, each under its path of keys.
TopKeys(over) == {path[1] : path \in DOMAIN over}

validateSensitiveOverridePaths(over) == \A path \in DOMAIN over : "password" \notin ToSet(path)

hasNestedKey(over, nested) == \E path \in DOMAIN over : IsPrefix(nested, path)

validateInstallOverrides(ocp) ==
    /\ TopKeys(ocp.installOverrides) \cap installOverrideForbiddenKeys = {}
    /\ \A nested \in installOverrideForbiddenNestedPaths : ~hasNestedKey(ocp.installOverrides, nested)
    /\ TopKeys(ocp.agentOverrides) \cap agentConfigForbiddenKeys = {}
    /\ validateSensitiveOverridePaths(ocp.installOverrides)
    /\ validateSensitiveOverridePaths(ocp.agentOverrides)
    /\ \A src \in ToSet(ocp.sources) : validateImageDigestSource(src)
    /\ "" \notin {ocp.pullSecret, ocp.sshKey, ocp.baseDomain}

validateOCPClusters(s) ==
    /\ Distinct(s.clusters)
    /\ \A ocp \in ToSet(s.clusters) :
           /\ validateName(ocp)
           /\ ocp.role \in {"", "hub", "managed"}
           /\ ocp.topology \in {"", "single-node", "multi-node"}
           /\ ocp.method \in {"", "agent"}
           /\ ocp.infra \in DOMAIN IndexOf(s.infras)
           /\ validateNodes(ocp, IndexOf(s.infras)[ocp.infra])
           /\ validateInstallOverrides(ocp)

-----------------------------------------------------------------------------
(* Across the layers.                                                       *)

\* A URL's port, 0 when it has none.
mirrorURLPort(url) == IF url = <<>> THEN 0 ELSE url[2]

\* Mutant of validateDisconnectedOCPImageSources: the policy is not looked at.
SourcesAnyPolicy(ocp, url) ==
    /\ \A src \in ToSet(ocp.sources) : validateMirrorRefs(src, url)
    /\ {"ocp-release", "art-dev"} \subseteq Known(ocp.sources)

validateDisconnectedOCPImageSources(ocp, url) ==
    /\ \A src \in ToSet(ocp.sources) : src.policy = Never /\ validateMirrorRefs(src, url)
    /\ {"ocp-release", "art-dev"} \subseteq Known(ocp.sources)

validateDisconnectedOpenShiftSources(s) ==
    Disconnected(s) =>
        \A mirror \in Mirrors(s) : \A ocp \in ToSet(s.clusters) :
            validateDisconnectedOCPImageSources(ocp, mirror.url)

validateMirrorRegistryPlacement(s) ==
    Disconnected(s) =>
        \A mirror \in Mirrors(s) :
            LET suppliers == {p \in ToSet(s.providers) : MirrorRegistry(p) # {}}
            IN  /\ Cardinality(suppliers) = 1
                /\ \A mr \in UNION {MirrorRegistry(p) : p \in suppliers} :
                       0 \in {mr.port, mirrorURLPort(mirror.url)} \/ mr.port = mirrorURLPort(mirror.url)

\* Of the first network, by name, that is a libvirt one.
primaryMachineNetworkGateway(ci) ==
    IF LibvirtNetworks(ci) = {} THEN <<>> ELSE ci.networks[Min(LibvirtNetworks(ci))].gateway

validateManagedProxyURLPort(u, port) ==
    u # NoURL => u.scheme = "http" /\ u.host # <<>> /\ u.port = Default(port, 0, 3128)

\* Mutant of ManagedProxyReachable: no gateway is asked for.
ReachableWithoutGateway(ci, closure, proxy, squid) ==
    (MachineLibvirt(closure) # {} /\ LibvirtNetworks(ci) # {}) =>
        \A m \in DOMAIN ci.machines : ci.machines[m].libvirt \subseteq {squid.host}

\* A cluster behind the managed proxy: its machines are on the proxy's host, and
\* what the proxy's URLs leave out is made of its own gateway.
ManagedProxyReachable(ci, closure, proxy, squid) ==
    (MachineLibvirt(closure) # {} /\ LibvirtNetworks(ci) # {}) =>
        /\ NoURL \in {proxy.http, proxy.https} => primaryMachineNetworkGateway(ci) # <<>>
        /\ \A m \in DOMAIN ci.machines : ci.machines[m].libvirt \subseteq {squid.host}

validateManagedProxyPlacement(s) ==
    LET suppliers == {p \in ToSet(s.providers) : ProxySquid(p) # {}}
        proxies   == UNION {env.proxy : env \in primaryEnvironment(s)}
    IN  suppliers # {} =>
        /\ Cardinality(suppliers) = 1
        /\ proxies # {}
        /\ \A p \in suppliers, proxy \in proxies : \A squid \in ProxySquid(p) :
               /\ proxy.auth # ""
               /\ \A u \in {proxy.http, proxy.https} : validateManagedProxyURLPort(u, squid.port)
               /\ \A ci \in ToSet(s.infras) :
                      LET index   == IndexOf(s.providers)
                          closure == closureProvider(ci, index)
                      IN  ClosureBuilds(ci, index) =>
                            /\ closure.proxy # {}
                            /\ SupplierOf(ci, index, "proxy") = p.name =>
                                   ManagedProxyReachable(ci, closure, proxy, squid)

\* One cluster for each infrastructure, no more and no fewer.
Bound(s) ==
    \A ci \in ToSet(s.infras) : Cardinality({i \in DOMAIN s.clusters : s.clusters[i].infra = ci.name}) = 1

validateCrossLayer(s) ==
    /\ Bound(s)
    /\ validateDisconnectedOpenShiftSources(s)
    /\ validateMirrorRegistryPlacement(s)
    /\ validateManagedProxyPlacement(s)

\* Every secret a document refers to is one the environment declares.
SecretRefs(s) ==
    UNION {{p.auth : p \in env.proxy} : env \in primaryEnvironment(s)}
    \cup UNION {{mirror.credentials, mirror.trust} : mirror \in Mirrors(s)}
    \cup UNION {UNION {{a.key : a \in p.hosts[h].ssh} : h \in DOMAIN p.hosts}
                \cup UNION {{b.auth : b \in l.bmc} : l \in MachineLibvirt(p)}
                \cup UNION {{v.vcenter : v \in m.vsphere} \cup {k.cluster : k \in m.kubevirt} : m \in p.machine} :
                p \in ToSet(s.providers)}
    \cup UNION {UNION {UNION {{bmc.credential : bmc \in b.bmc} : b \in ci.machines[m].baremetal} :
                       m \in DOMAIN ci.machines} : ci \in ToSet(s.infras)}
    \cup UNION {{ocp.pullSecret, ocp.sshKey, ocp.trust} : ocp \in ToSet(s.clusters)}

validateSecretReferences(s) ==
    \A env \in primaryEnvironment(s) : SecretRefs(s) \ {""} \subseteq DOMAIN env.secrets

Validate(s) ==
    /\ validateEnvironments(s)
    /\ validateProviders(s)
    /\ validateClusterInfrastructures(s)
    /\ validateOCPClusters(s)
    /\ validateCrossLayer(s)
    /\ validateSecretReferences(s)
=============================================================================
