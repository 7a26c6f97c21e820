--------------------------- MODULE EnvironmentState ---------------------------
(***************************************************************************)
(* One command over an environment, from its documents to the config of    *)
(* each cluster's installer: load the files, normalize document by         *)
(* document, validate, keep the clusters of the scope, write the rendered  *)
(* files, write the ones with the secrets in them, and what the playbook's *)
(* install_agent role makes of them.  Any write may fail, and ends the     *)
(* command where it is.                                                    *)
(***************************************************************************)
EXTENDS EnvironmentValid, InstallVars

CONSTANTS
    Inputs,  \* the sequences of files, each <<kind, document>>, a command may be given
    Users,   \* who may run it, "" when nothing says
    Hubs,    \* the names the code takes for a hub's
    Scopes   \* the sets of cluster names a command may be given, {} for none

VARIABLES
    input,   \* the files not read yet, in the order of their paths
    user,
    state,   \* the documents, as far as they are loaded
    scope,   \* the clusters the command is for
    phase,   \* what the command does
    at,      \* and the step of it that comes next
    files,   \* what it has written: from path to content
    outcome  \* how it ended, "" while it has not

vars == <<input, user, state, scope, phase, at, files, outcome>>

Kinds == {"environments", "providers", "infras", "clusters"}

IsList(x) == x \in Seq(ToSet(x))

\* An optional block.
IsOption(x) == \A a, b \in x : a = b

Empty ==
    [environments |-> EmptyEnvironment, providers |-> EmptyProvider,
     infras |-> EmptyInfrastructure, clusters |-> EmptyCluster]

IsURL(u) == u = [part \in DOMAIN NoURL |-> u[part]]

IsSources(sources) == IsList(sources) /\ \A src \in ToSet(sources) : DOMAIN src = {"source", "mirrors", "policy"}

\* A map whose keys are names.
IsNamed(map) ==
    map = [n \in DOMAIN map |-> map[n]] /\ IsFiniteSet(DOMAIN map) /\ DOMAIN map \subseteq Nat

\* The leaves of an override, each under one key at least.
IsOverride(over) == \A path \in DOMAIN over : IsList(path) /\ path # <<>>

\* A document has all its fields.
IsDocument(kind, doc) ==
    /\ DOMAIN doc = DOMAIN Empty[kind]
    /\ doc.name \in Nat
    /\ kind = "environments" =>
           /\ IsOption(doc.proxy)
           /\ \A p \in doc.proxy : DOMAIN p = DOMAIN EmptyProxy /\ IsURL(p.http) /\ IsURL(p.https)
           /\ \A r \in doc.registries : IsSources(r.sources)
    /\ kind = "infras" =>
           /\ IsList(doc.providerRefs)
           /\ IsNamed(doc.networks) /\ IsNamed(doc.machines)
           /\ \A n \in DOMAIN doc.machines : /\ DOMAIN doc.machines[n] = DOMAIN EmptyMachine
                                             /\ IsNamed(doc.machines[n].interfaces)
           /\ DOMAIN doc.endpoints \subseteq {"api", "apiInt", "ingress"}
    /\ kind = "clusters" =>
           /\ IsSources(doc.sources)
           /\ IsNamed(doc.nodes)
           /\ IsOverride(doc.installOverrides) /\ IsOverride(doc.agentOverrides)

ASSUME InputsAssumption ==
    \A given \in Inputs :
        /\ IsList(given)
        /\ \A file \in ToSet(given) : file[1] \in Kinds => IsDocument(file[1], file[2])

ClusterNames(s) == {ocp.name : ocp \in ToSet(s.clusters)}

-----------------------------------------------------------------------------
(* Loading.                                                                 *)

\* By name, and by path under one name.
sortByName(docs) ==
    LET upTo(i) == {j \in DOMAIN docs :
                        docs[j].name < docs[i].name \/ (docs[j].name = docs[i].name /\ j <= i)}
    IN  [k \in DOMAIN docs |-> docs[CHOOSE i \in DOMAIN docs : Cardinality(upTo(i)) = k]]

sortState(s) == [kind \in Kinds |-> sortByName(s[kind])]

Init ==
    /\ input \in Inputs
    /\ user \in Users
    /\ state = EmptyState
    /\ scope = {}
    /\ phase = "load"
    /\ at = 1
    /\ files = NoMap
    /\ outcome = ""

Goto(p) == phase' = p /\ at' = 1

End(how) == outcome' = how /\ Goto("end")

LoadFile ==
    /\ phase = "load" /\ input # <<>>
    /\ input' = Tail(input)
    /\ IF input[1][1] \in Kinds
       THEN /\ state' = [state EXCEPT ![input[1][1]] = Append(@, input[1][2])]
            /\ UNCHANGED <<phase, at, outcome>>
       ELSE End("refused") /\ UNCHANGED state
    /\ UNCHANGED <<user, scope, files>>

Loaded ==
    /\ phase = "load" /\ input = <<>>
    /\ IF state = EmptyState
       THEN End("refused") /\ UNCHANGED state
       ELSE state' = sortState(state) /\ Goto("suppliers") /\ UNCHANGED outcome
    /\ UNCHANGED <<input, user, scope, files>>

-----------------------------------------------------------------------------
(* Normalizing: the environments and the providers, then the                *)
(* infrastructures, which need the providers, then cluster by cluster.      *)

Suppliers ==
    /\ phase = "suppliers"
    /\ state' = NormalizeSuppliers(state, user)
    /\ Goto("infras")
    /\ UNCHANGED <<input, user, scope, files, outcome>>

Infrastructures ==
    /\ phase = "infras"
    /\ state' = NormalizeInfras(state)
    /\ Goto("clusters")
    /\ UNCHANGED <<input, user, scope, files, outcome>>

Cluster ==
    /\ phase = "clusters" /\ at <= Len(state.clusters)
    /\ state' = NormalizeClusterAt(state, at, Hubs)
    /\ at' = at + 1
    /\ UNCHANGED <<input, user, scope, phase, files, outcome>>

Check ==
    /\ phase = "clusters" /\ at > Len(state.clusters)
    /\ IF Validate(state) THEN Goto("scope") /\ UNCHANGED outcome ELSE End("refused")
    /\ UNCHANGED <<input, user, state, scope, files>>

-----------------------------------------------------------------------------
(* The scope.                                                               *)

filterStateToClusters(s, names) ==
    LET clusters  == {i \in DOMAIN s.clusters : s.clusters[i].name \in names}
        infras    == {i \in DOMAIN s.infras : \E c \in clusters : s.clusters[c].infra = s.infras[i].name}
        providers == {i \in DOMAIN s.providers :
                          \E c \in infras : s.providers[i].name \in ToSet(s.infras[c].providerRefs)}
    IN  [s EXCEPT !.clusters  = Entries(@, clusters),
                  !.infras    = Entries(@, infras),
                  !.providers = Entries(@, providers)]

\* With no names the state stays as it is: what no cluster needs, too.
scopeState(s, names) == IF names = {} THEN s ELSE filterStateToClusters(s, names)

\* What the command works on.
Scoped == scopeState(state, scope)

\* A cluster that is not there is refused. With no --scope, check, apply and
\* destroy go on with the state as it is; `render installer` names every
\* cluster, and is refused when there is none.
Scope ==
    /\ phase = "scope"
    /\ \E names \in Scopes :
           \/ names = {} /\ scope' = {} /\ Goto("render") /\ UNCHANGED outcome
           \/ LET chosen == Default(names, {}, ClusterNames(state))
              IN  IF chosen = {} \/ ~(chosen \subseteq ClusterNames(state))
                  THEN End("refused") /\ UNCHANGED scope
                  ELSE scope' = chosen /\ Goto("render") /\ UNCHANGED outcome
    /\ UNCHANGED <<input, user, state, files>>

-----------------------------------------------------------------------------
(* Writing.                                                                 *)

\* Two files of each cluster, under the repository or under the runtime directory.
ClusterFiles(top, s) ==
    [i \in 1..(2 * Len(s.clusters)) |->
        <<top, s.clusters[(i + 1) \div 2].name, IF i % 2 = 1 THEN "install-config" ELSE "agent-config">>]

Rendered == <<<<"effective-state">>, <<"lock">>, <<"inventory">>, <<"vars">>>> \o ClusterFiles("bootstrap", Scoped)
Resolving == ClusterFiles("runtime", Scoped)

ClusterNamed(s, name) == s.clusters[Min({i \in DOMAIN s.clusters : s.clusters[i].name = name})]

RenderedContent(path) ==
    CASE path[1] = "effective-state" -> Scoped
      [] path[1] = "lock"            -> ComponentPins(Scoped)
      [] path[1] = "inventory"       -> Inventory(Scoped)
      [] path[1] = "vars"            -> Vars(Scoped)
      [] path[1] = "bootstrap"       ->
             LET ocp == ClusterNamed(Scoped, path[2])
             IN  IF path[3] = "install-config" THEN InstallerConfig(Scoped, ocp) ELSE AgentConfig(Scoped, ocp)

ResolvedContent(path) ==
    LET ocp == ClusterNamed(Scoped, path[2])
    IN  IF path[3] = "install-config"
        THEN InstallerConfigWithSecrets(Scoped, ocp, LoadInstallerSecrets(Scoped, ocp))
        ELSE AgentConfig(Scoped, ocp)

\* A config cannot be made of a cluster whose providers do not hold together.
Renders(path) == Len(path) = 1 \/ CanRender(Scoped, ClusterNamed(Scoped, path[2]))

\* The whole file or nothing: a temporary file, then a rename.
Write(path, content) ==
    \/ files' = [p \in {path} |-> content] ++ files /\ at' = at + 1 /\ UNCHANGED <<phase, outcome>>
    \/ End("unwritten") /\ UNCHANGED files

Render ==
    /\ phase = "render" /\ at <= Len(Rendered)
    /\ IF Renders(Rendered[at])
       THEN Write(Rendered[at], RenderedContent(Rendered[at]))
       ELSE End("unrenderable") /\ UNCHANGED files
    /\ UNCHANGED <<input, user, state, scope>>

\* Then the command is over, or it is `render installer` and resolves the
\* secrets, or the playbook runs.
AfterRender ==
    /\ phase = "render" /\ at > Len(Rendered)
    /\ \/ End("done")
       \/ scope # {} /\ Goto("resolve") /\ UNCHANGED outcome
       \/ Goto("role") /\ UNCHANGED outcome
    /\ UNCHANGED <<input, user, state, scope, files>>

\* The secrets of a cluster are read before its first file is written; a
\* secret's file may be missing or not hold what it should.
ResolveInstaller ==
    /\ phase = "resolve"
    /\ IF at > Len(Resolving)
       THEN End("done") /\ UNCHANGED files
       ELSE LET path == Resolving[at]
            IN  \/ /\ SecretsLoad(Scoped, ClusterNamed(Scoped, path[2]))
                   /\ Write(path, ResolvedContent(path))
                \/ path[3] = "install-config" /\ End("credentials") /\ UNCHANGED files
    /\ UNCHANGED <<input, user, state, scope>>

\* One cluster after another, from what was rendered for it.
InstallAgent ==
    /\ phase = "role"
    /\ IF at > Len(Scoped.clusters)
       THEN End("done") /\ UNCHANGED files
       ELSE LET name    == Scoped.clusters[at].name
                read    == files[<<"vars">>]
                cluster == CHOOSE c \in ToSet(read.clusters) : c.ocp.name = name
                install == cluster.ocp.install
                config  == files[<<"bootstrap", name, "install-config">>]
            IN  IF RoleBuilds(read.ocpInstall, install)
                THEN Write(<<"installer", name, "install-config">>,
                           EffectiveInstallConfig(config, read.ocpInstall, install))
                ELSE End("unreleased") /\ UNCHANGED files
    /\ UNCHANGED <<input, user, state, scope>>

Next ==
    \/ LoadFile \/ Loaded
    \/ Suppliers \/ Infrastructures \/ Cluster \/ Check
    \/ Scope
    \/ Render \/ AfterRender \/ ResolveInstaller \/ InstallAgent

Spec == Init /\ [][Next]_vars

-----------------------------------------------------------------------------
(* Properties.                                                              *)

Ended == phase = "end"

\* The written configs of one kind, under their cluster's name.
Written(top, file) == {path \in DOMAIN files : path[1] = top /\ path[3] = file}

Without(config, keys) == [path \in {p \in DOMAIN config : ~\E k \in keys : IsPrefix(k, p)} |-> config[path]]

\* What validation lets through can be rendered: the providers of an
\* infrastructure hold together and supply its machines.  The renderer builds
\* the closure again, for every cluster (installer.go, providerForInfrastructure).
ValidRenders == outcome # "unrenderable"

\* Normalizing a state that is loaded changes nothing: no default is taken from
\* a document that is normalized later, and no derived image source is derived
\* again.  Every command loads, and the effective state it writes is loaded by
\* the next one (normalize.go, Normalize).
NormalizeSettles == phase = "scope" => Normalize(state, user, Hubs) = state

\* A cluster is rendered the same whether the command is for it alone or for all:
\* its two configs, but for the addresses of the others in noProxy, and the load
\* balancers in the variables (cluster_select.go, filterStateToClusters).
ScopedAsWhole ==
    Ended =>
        /\ \A path \in Written("bootstrap", "install-config") :
               LET noProxy == {<<"proxy", "noProxy">>}
               IN  Without(files[path], noProxy) =
                       Without(InstallerConfig(state, ClusterNamed(state, path[2])), noProxy)
        /\ \A path \in Written("bootstrap", "agent-config") :
               files[path] = AgentConfig(state, ClusterNamed(state, path[2]))
        /\ <<"vars">> \in DOMAIN files =>
               files[<<"vars">>].loadBalancers \subseteq sharedLoadBalancerVars(state)

\* What is behind a frontend is what the installer makes nodes of: as many
\* backends as agent-config has hosts of the role, each at an address of one of
\* them.  The balancer goes by machines, agent-config by nodes, and a node may
\* name any machine (vars_components.go, backendNodes).
BackendsAreNodes ==
    \A path \in Written("bootstrap", "agent-config") :
        LET ocp   == ClusterNamed(Scoped, path[2])
            hosts == ToSet(files[path][<<"hosts">>][1])
            role(ep) == IF ep = "ingress" /\ \E h \in hosts : h.role = "worker" THEN "worker" ELSE "master"
            of(ep)   == {h \in hosts : h.role = role(ep)}
            ips(h)   == UNION {{i.ip : i \in net.interfaces} : net \in h.network}
            apart    == \A m, n \in DOMAIN ocp.nodes : m # n => ocp.nodes[m].machine # ocp.nodes[n].machine
            own      == {lb \in files[<<"vars">>].loadBalancers : lb.cluster = ocp.infra}
        IN  (Ended /\ apart) =>
                \A lb \in own : \A front \in ToSet(lb.frontends) : \A backends \in front.backends :
                    /\ Len(backends) = Cardinality(of(front.endpoint))
                    /\ \A b \in ToSet(backends) : b.address = <<>> \/ \E h \in of(front.endpoint) : b.address \in ips(h)

\* A disconnected cluster installs from its mirror alone: the config it is given
\* has both sources of a release, none may fall back to the source itself, every
\* mirror is the environment's, and so is the release the role overrides with
\* (validate_cluster_infra.go, validateDisconnectedOpenShiftSources).
DisconnectedStaysLocal ==
    (Ended /\ Disconnected(state)) =>
        LET url == The({mirror.url : mirror \in Mirrors(state)})
        IN  /\ \A path \in Written("bootstrap", "install-config") :
                   LET sources == files[path][<<"imageDigestSources">>][1]
                   IN  /\ {"ocp-release", "art-dev"} \subseteq Known(sources)
                       /\ \A src \in ToSet(sources) :
                              src.policy = Never /\ \A m \in ToSet(src.mirrors) : m[1] = url
            /\ <<"vars">> \in DOMAIN files =>
                   \A cluster \in ToSet(files[<<"vars">>].clusters) :
                       LET override == cluster.ocp.install.override
                       IN  override # <<>> => override[1][1] = url

\* A cluster whose machines may only get out through the proxy is told of it, for
\* http and for https: at the declared URL, else at its own gateway.  What its
\* documents override is theirs (validate_environment.go, managed proxy).
ClusterProxied ==
    Ended =>
        \A path \in Written("bootstrap", "install-config") \cup Written("runtime", "install-config") :
            LET ocp  == ClusterNamed(Scoped, path[2])
                ci   == The(infraOf(Scoped, ocp))
                eff  == The(proxyResolve(Scoped))
                gate == URL(ci.networks[Min(DOMAIN ci.networks)].gateway, ProxyPort(The(ProxySquid(ClosureOf(Scoped, ci)))))
                restricted == \E l \in libvirtVars(ci, ClosureOf(Scoped, ci), primaryEnvironment(Scoped)) : l.restricted
                says(key, u) == /\ <<"proxy", key>> \in DOMAIN files[path]
                                /\ [files[path][<<"proxy", key>>][1] EXCEPT !.auth = ""] = Default(u, NoURL, gate)
            IN  (restricted /\ "proxy" \notin TopKeys(ocp.installOverrides)) =>
                    says("httpProxy", eff.http) /\ says("httpsProxy", eff.https)

\* VARS_CONTRACT.md calls the two URLs the role works with those embedded in
\* install-config.yaml: the role puts credentials into them and changes nothing
\* else.  They are the environment's, made of its first cluster's gateway; the
\* embedded ones are made of each cluster's own (proxy.go, managedProxyClientURLForState).
RoleKeepsProxy ==
    \A path \in Written("installer", "install-config") :
        LET given == files[path]
            read  == files[<<"bootstrap", path[2], "install-config">>]
            urls  == {<<"proxy", "httpProxy">>, <<"proxy", "httpsProxy">>}
                         \ DOMAIN ClusterNamed(Scoped, path[2]).installOverrides
        IN  \A key \in urls \cap DOMAIN read :
                [given[key][1] EXCEPT !.auth = ""] = [read[key][1] EXCEPT !.auth = ""]
=============================================================================
