------------------------- MODULE EnvironmentState_MC -------------------------
(***************************************************************************)
(* Environments to load: four that install, each with up to two edits of   *)
(* what a user could as well have written.                                 *)
(***************************************************************************)
EXTENDS EnvironmentState

CONSTANT Bases, Edits  \* the environments and the edits a run takes

File == [file |-> TRUE, generated |-> {}]
Cert == [file |-> FALSE, generated |-> {[cert |-> {0}, user |-> {}]}]

Secrets == [n \in {"openshift-pull-secret", "cluster-admin-key", "ssh", "creds", "ca"} |->
               IF n = "ca" THEN Cert ELSE File]

Registry == <<"mirror", 5000>>
Image(source, url, policy) == [source |-> source, mirrors |-> <<<<url, "own">>>>, policy |-> policy]

Environment(install, proxy, registries) ==
    [EmptyEnvironment EXCEPT !.name = 1, !.baseDomain = "lab", !.install = install, !.proxy = proxy,
        !.registries = registries, !.secrets = Secrets, !.release = {"4.20"}]

Host == [ssh |-> {[address |-> <<9, 9>>, user |-> "root", key |-> "ssh"]},
         caps |-> {"proxy", "mirror-registry", "hosts-file"}]

Libvirt(profiles) ==
    {[EmptyMachineCapability EXCEPT !.libvirt =
        {[hosts |-> {1}, bmc |-> {[EmptyBMC EXCEPT !.auth = "creds"]}, profiles |-> profiles]}]}

Provider(name, machine) ==
    [EmptyProvider EXCEPT !.name = name, !.hosts = <<Host>>, !.machine = machine,
        !.loadBalancer = {{[host |-> 1]}}, !.nameResolution = {{[hosts |-> {1}, ingress |-> {}]}}]

Interface(net, k) == [EmptyInterface EXCEPT !.network = 1, !.ip = <<net, 10 + k>>]

Machine(net, k) == [EmptyMachine EXCEPT !.interfaces = <<Interface(net, k)>>]
Virtual(net, k) == [Machine(net, k) EXCEPT !.libvirt = {1}]
Metal(net, k)   == [Machine(net, k) EXCEPT !.baremetal =
                       {[bmc |-> {[address |-> <<8, k>>, protocol |-> "redfish", credential |-> "creds"]}]}]

Network(net, bridge) == [EmptyNetwork EXCEPT !.cidr = net, !.gateway = <<net, 1>>, !.dns = {<<net, 1>>}, !.libvirt = bridge]

Endpoint(net, k) == [address |-> <<net, k>>, hostname |-> <<>>]

Infra(name, machines, bridge) ==
    [EmptyInfrastructure EXCEPT !.name = name, !.providerRefs = <<1>>,
        !.networks = <<Network(name, bridge)>>, !.machines = machines,
        !.endpoints = [e \in {"api", "apiInt", "ingress"} |-> Endpoint(name, IF e = "ingress" THEN 3 ELSE 2)],
        !.loadBalancers = <<<<"api", "apiInt", "ingress">>>>]

Node(role) == [role |-> role, machine |-> 0]

OCP(name, roles) == [EmptyCluster EXCEPT !.name = name, !.infra = name, !.nodes = [n \in DOMAIN roles |-> Node(roles[n])]]

State(env, p, infras, clusters) ==
    [environments |-> <<env>>, providers |-> <<p>>, infras |-> infras, clusters |-> clusters]

-----------------------------------------------------------------------------
(* The environments.                                                        *)

Squid == {{[host |-> 1, port |-> 0]}}
Behind == {[EmptyProxy EXCEPT !.auth = "creds"]}

\* Two clusters, each on a network of its own, behind the proxy their provider runs.
isolated ==
    State(Environment("", Behind, {}), [Provider(1, Libvirt(<<4>>)) EXCEPT !.proxy = Squid],
          <<Infra(1, <<Virtual(1, 1), Virtual(1, 2)>>, {"br"}), Infra(2, <<Virtual(2, 1)>>, {"br"})>>,
          <<OCP(1, <<"control-plane", "worker">>), OCP(2, <<"control-plane">>)>>)

Mirrored(url) == {[mirror |-> {[url |-> url, credentials |-> "creds", trust |-> "ca"]}, sources |-> <<>>]}

\* A disconnected cluster, with the mirror its provider runs.
local ==
    State(Environment("disconnected", {}, Mirrored(Registry)),
          [Provider(1, Libvirt(<<4>>)) EXCEPT !.registry = {{[host |-> 1, port |-> 0]}}],
          <<Infra(1, <<Virtual(1, 1), Virtual(1, 2)>>, {"br"})>>, <<OCP(1, <<"control-plane", "worker">>)>>)

\* Both: a disconnected cluster behind the proxy.
both == [local EXCEPT !.environments[1].proxy = Behind, !.providers[1].proxy = Squid]

\* Machines that are there, reached over their own management controllers.
metal ==
    State(Environment("connected", {}, {}),
          Provider(1, {[EmptyMachineCapability EXCEPT !.baremetal = {"redfish"}]}),
          <<Infra(1, <<Metal(1, 1), Metal(1, 2)>>, {})>>, <<OCP(1, <<"control-plane", "worker">>)>>)

Base == [isolated |-> isolated, local |-> local, both |-> both, metal |-> metal]

-----------------------------------------------------------------------------
(* The edits.                                                               *)

Env(s)      == s.environments[1]
NewEnv(s, env)   == [s EXCEPT !.environments[1] = env]
NewInfra(s, ci)  == [s EXCEPT !.infras[1] = ci]
NewOCP(s, ocp)   == [s EXCEPT !.clusters[1] = ocp]
Proxied(s, p)    == NewEnv(s, [Env(s) EXCEPT !.proxy = {[p EXCEPT !.auth = "creds"]}])
Sourced(s, src)  == NewEnv(s, [Env(s) EXCEPT !.registries = {[r EXCEPT !.sources = <<src>>] : r \in Env(s).registries}])

Edit(e, s) ==
    LET ci  == s.infras[1]
        ocp == s.clusters[1]
        p   == s.providers[1]
        iface == ci.machines[1].interfaces[1]
    IN
    CASE e = "proxy http"      -> Proxied(s, [EmptyProxy EXCEPT !.http = URL(<<7, 7>>, 3128)])
      [] e = "proxy bare"      -> Proxied(s, [EmptyProxy EXCEPT !.https = [URL(<<7, 7>>, 3128) EXCEPT !.scheme = ""]])
      [] e = "proxy port"      -> Proxied(s, [EmptyProxy EXCEPT !.https = URL(<<7, 7>>, 8080)])
      [] e = "proxy anonymous" -> NewEnv(s, [Env(s) EXCEPT !.proxy = {[EmptyProxy EXCEPT !.http = URL(<<7, 7>>, 3128)]}])
      [] e = "proxy none"      -> NewEnv(s, [Env(s) EXCEPT !.proxy = {}])
      [] e = "source allowed"  -> Sourced(s, Image("ocp-release", Registry, Allow))
      [] e = "source foreign"  -> Sourced(s, Image("other", <<"quay", 0>>, Never))
      [] e = "source release"  -> Sourced(s, Image("ocp-release", Registry, ""))
      [] e = "mirror moved"    -> NewEnv(s, [Env(s) EXCEPT !.registries = Mirrored(<<"mirror", 5001>>)])
      [] e = "mirror untrusted" -> NewEnv(s, [Env(s) EXCEPT !.registries =
                                      {[r EXCEPT !.mirror = {[m EXCEPT !.trust = ""] : m \in r.mirror}] : r \in @}])
      [] e = "mirror kept"     -> NewEnv(s, [Env(s) EXCEPT !.registries = Mirrored(Registry)])
      [] e = "no release"      -> NewEnv(s, [Env(s) EXCEPT !.release = {}])
      [] e = "no base domain"  -> NewEnv(s, [Env(s) EXCEPT !.baseDomain = ""])
      [] e = "no secret"       -> NewEnv(s, [Env(s) EXCEPT !.secrets = [n \in DOMAIN Secrets \ {"ssh"} |-> Secrets[n]]])
      [] e = "own source"      -> NewOCP(s, [ocp EXCEPT !.sources = <<Image("ocp-release", Registry, "")>>])
      [] e = "own source allowed" -> NewOCP(s, [ocp EXCEPT !.sources = <<Image("other", Registry, Allow)>>])
      [] e = "own source foreign" -> NewOCP(s, [ocp EXCEPT !.sources = <<Image("other", <<"quay", 0>>, Never)>>])
      [] e = "own trust"       -> NewOCP(s, [ocp EXCEPT !.trust = "creds"])
      [] e = "override proxy"  -> NewOCP(s, [ocp EXCEPT !.installOverrides = [k \in {<<"proxy", "httpProxy">>} |-> <<>>]])
      [] e = "override compute" -> NewOCP(s, [ocp EXCEPT !.installOverrides = [k \in {<<"compute">>} |-> <<>>]])
      [] e = "workers only"    -> NewOCP(s, [ocp EXCEPT !.nodes = [n \in {2} |-> Node("worker")]])
      [] e = "node renamed"    -> NewOCP(s, [ocp EXCEPT !.nodes =
                                      [n \in {2, 3} |-> IF n = 2 THEN Node("worker") ELSE [role |-> "control-plane", machine |-> 1]]])
      [] e = "node doubled"    -> NewOCP(s, [ocp EXCEPT !.nodes[2] = [role |-> "worker", machine |-> 1]])
      [] e = "infra shared"    -> NewOCP(s, [ocp EXCEPT !.infra = 2])
      [] e = "no gateway"      -> NewInfra(s, [ci EXCEPT !.networks[1].gateway = <<>>])
      [] e = "second network"  -> NewInfra(s, [ci EXCEPT !.networks = Append(@, Network(4, ci.networks[1].libvirt))])
      [] e = "second interface" -> NewInfra(s, [ci EXCEPT !.networks = Append(@, Network(4, ci.networks[1].libvirt)),
                                      !.machines[1].interfaces = <<iface, [EmptyInterface EXCEPT !.network = 2,
                                                                              !.ip = <<4, 1>>, !.primary = {TRUE}]>>])
      [] e = "no address"      -> NewInfra(s, [ci EXCEPT !.machines[1].interfaces[1].ip = <<>>])
      [] e = "own mac"         -> NewInfra(s, [ci EXCEPT !.machines[1].interfaces[1].mac = <<0, 0, 1>>])
      [] e = "profile"         -> NewInfra(s, [ci EXCEPT !.machines[1].profile = 1])
      [] e = "endpoint named"  -> NewInfra(s, [ci EXCEPT !.endpoints["api"].hostname = <<"api", 9>>])
      [] e = "ingress apart"   -> NewInfra(s, [ci EXCEPT !.loadBalancers = <<<<"api", "apiInt">>, <<"ingress">>>>])
      [] e = "unknown provider" -> NewInfra(s, [ci EXCEPT !.providerRefs = <<1, 9>>])
      [] e = "two suppliers"   -> [NewInfra(s, [ci EXCEPT !.providerRefs = <<1, 3>>]) EXCEPT
                                      !.providers = Append(@, [p EXCEPT !.name = 3])]
      [] e = "apart"           -> [NewInfra(s, [ci EXCEPT !.providerRefs = <<1, 3>>]) EXCEPT
                                      !.providers = <<[p EXCEPT !.proxy = {}, !.loadBalancer = {}],
                                                      [EmptyProvider EXCEPT !.name = 3, !.hosts = [h \in {3} |-> Host],
                                                       !.loadBalancer = {{[host |-> 3]}},
                                                       !.proxy = {{[squid EXCEPT !.host = 3] : squid \in q} : q \in p.proxy}]>>]
      [] e = "elsewhere"       -> [s EXCEPT !.providers[1].hosts = <<Host, Host>>, !.infras[1].machines[1].libvirt = {2}]
      [] e = "no machines"     -> [s EXCEPT !.providers[1].machine = {}]
      [] e = "kubevirt"        -> [s EXCEPT !.providers[1].machine =
                                      {[EmptyMachineCapability EXCEPT !.kubevirt = {[cluster |-> "creds", placed |-> TRUE]}]}]
      [] e = "registry port"   -> [s EXCEPT !.providers[1].registry = {{[mr EXCEPT !.port = 6000] : mr \in r} : r \in @}]
      [] e = "no user"         -> [s EXCEPT !.providers[1].hosts[1].ssh = {[a EXCEPT !.user = ""] : a \in @}]

Pairs == {{a, b} : a, b \in Edits}

\* Both edits, one after the other.
Applied(s, edits) == FoldSet(LAMBDA e, t : Edit(e, t), s, edits)

Files(s) ==
    LET of(kind) == [i \in DOMAIN s[kind] |-> <<kind, s[kind][i]>>]
    IN  of("environments") \o of("providers") \o of("infras") \o of("clusters")

Given == {Base[b] : b \in Bases}

MCInputs ==
    {Files(s) : s \in Given} \cup {Reverse(Files(s)) : s \in Given}
    \cup {Files(Applied(s, pair)) : s \in Given, pair \in Pairs}
    \cup {<<>>} \cup {Append(Files(s), <<"other", 0>>) : s \in Given}
=============================================================================
