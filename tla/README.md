# A verification of Bootwright

Bootwright (the Go program and the Ansible bundle under `src/`) takes a
declarative description of OpenShift clusters and of the GitOps content that
belongs on them, and turns it into running clusters. This directory holds TLA+
modules translated from that code, the TLC configurations that check them on
small instances, and theorems about them whose proofs TLAPS checks.
`PROJECT.json` lists the runs, the theorems, the hazards the properties are for
and, for every definition, the lines of source it models.

    tlc -workers 2 -config Fleet.cfg Fleet_MC        check a model
    tlapm BootstrapApplyProofs.tla                   check a proof

Sections: 1 the system, 2 the modules, 3 the runs and their bounds, 4 fairness,
5 what is proved, 6 where the documents and the code disagree, 7 what is not
modelled, 8 the plan.

## 1. The system

A Bootwright command is one process. It loads YAML the operator edits, works on
a directory tree, and calls programs (git, oras, kubectl, ansible-playbook). It
takes no lock, it may be killed anywhere, and two terminals may run two commands
at once. What outlives a command is what it left on disk, on the git provider, on
the hosts or on the cluster. Those, with what a running command holds in memory,
are the state of the models.

The system has two halves that share the command line: the **environment** half
builds clusters on hosts with Ansible; the **GitOps** half authors, publishes and
applies what goes on them.

### The environment half

| component | state it keeps | operations | what is hard | what makes it correct |
|---|---|---|---|---|
| **environment loading, normalisation, validation** (`internal/infra`) | none: files to a `State` | load, normalise, validate | many optional parts; a default taken from another document, maybe not normalised yet; checks skipped because an earlier one failed | what validates renders; loading what was loaded changes nothing |
| **provider closure** (`api/v1alpha1/infrastructure.go`) | none | `BuildProviderClosure` | capabilities of several providers make one cluster | one supplier per capability |
| **rendering of inventory, vars, installer configs** (`internal/provisioning/render`) | `<state-dir>/ansible`, `…/clusters-bootstrap.git/<cluster>/openshift` | `render.All`, `ResolveInstaller` | several files, each atomic, no transaction; closures built again; a scope removes documents that others refer to; one fact rendered in several files | the files agree; a scoped render is a part of the whole one; a disconnected or proxied cluster is told so everywhere |
| **scope commands** (`internal/cli/scope_cmd.go`, `scopes.go`, `cluster_select.go`) | none of their own | `check`, `apply`, `destroy` of `infra`, `clusters`, `all`, with `--scope`, `--dry-run` | all share one state directory; a scope is a part of a fleet on shared hosts | a scope is a boundary; a command does what it loaded |
| **environment pipeline and Ansible runner** (`internal/workflow`, `internal/ansible`, `internal/embedded`) | the extracted bundle, the rendered files, the artifacts | clear, extract, render, run | a kill in the middle; another build's bundle; another command's files | the playbook that runs is the build's own |
| **preflight** (`internal/cli/preflight*.go`) | none | the host check of `check` and `apply` | what is looked at is not what is used later | nothing unusable passes |
| **secrets** (`internal/cli/secrets*.go`) | `<secrets-dir>`: certificate, key, credentials | `secret generate`, `secret set` | pairs of files; several terminals; kills | a certificate and a key that belong together |
| **Ansible playbooks and roles** (`ansible/`) | services, machines, disks, images, proxies and hosts files on the hosts | the plays of `infra`, `clusters`, `all` | order of plays, failed hosts, re-runs, interruptions | convergence, isolation, nothing lost |
| **bastion, operator, status, init, proxy commands** | the controller's packages, scaffolds | installs, prompts, prints | little | not modelled, section 7 |

### The GitOps half

| component | state it keeps | operations | what is hard | what makes it correct |
|---|---|---|---|---|
| **package sources and catalog** (`gitops/catalog`) | a clone per git source, a directory per OCI package; resolvers by kind | resolve (clone, verify the ref, or pull), build the catalog | a killed clone or pull looks complete; resolvers replace one another | the catalog holds what the ref or digest names |
| **loading of a package set** (`gitops/load`) | none | load, `extends`, validate | what expand writes must load; merging loses fields | a set that loads is consistent |
| **resolution order** (`gitops/resolve/resolve.go`) | none | `topoSort`, then the units of bindings and controllers are appended | parallel edges, determinism; units the sort never saw | dependencies first; only real cycles refused |
| **apply waves** (`gitops/resolve/waves.go`) | none | `computeApplyWaves` | a count per edge over aliases | tight waves; only real cycles refused |
| **expansion** (`gitops/resolve`, `cli/gitops.go`) | `expanded/gitops-package-set.yaml` | `expand`, `expand --force` | merges source, defaults, the earlier file, both ends of a binding; truncate, then write | fills survive; every unit is someone's |
| **placeholders** (`gitops/placeholders`, `cli/gitops_plan_fill.go`) | the list inside the expanded file | `fill` | two copies of one fact | what is unfilled is listed |
| **rendering of units** (`gitops/render`) | `render/<repo>/`, a temporary sibling | `render`, `--dry-run` | several directories swapped one by one | what it reports rendered is on disk |
| **publishing** (`gitops/push`, `cli/gitops_lifecycle.go`) | a `.git` per repository; the remote's history | `push`, `--force`, `--dry-run`, `status` | a re-render deletes `.git`; one repository of several fails | published history is kept |
| **bootstrap apply and handoff** (`gitops/workflow`) | the cluster | `apply`, `--dry-run` | barriers, gates, best-effort waits, kill and re-run | lower waves first; handoff at the end |
| **waiting for readiness** (`gitops/cluster/wait.go`) | none; polls OLM | `wait` | one deadline for several waits while OLM acts | success is not reported early |

### How they interact

* By files. `expand` writes what `fill` edits, `render` reads, `apply` looks at;
  `render` writes what `push` publishes and `apply` applies. `secret generate`
  writes what the host check stats and the playbooks copy. A scope command writes
  the bundle and the rendered files that its playbook, and any other's, reads.
* By the cluster and the hosts. A second `apply` finds what the first left.
* By external actors: git, the git provider, oras, OLM, the API server, the
  in-cluster controllers KRC and SRC, Ansible's strategy, the agent installer and
  the operator. They are modelled from how the code uses them and marked external
  in the map.
* Not by memory: the one shared structure is the registry of source resolvers,
  within one process.

## 2. The modules

| module | models | its state | its actions |
|---|---|---|---|
| `ApplyWaves` | `computeApplyWaves` | the list of units, indegrees, ready list, waves | one per visit of Kahn's algorithm, one for the end |
| `TopoSort` | `topoSort` | the same with edge multiplicities and a sorted queue | likewise |
| `UnitOrder` | both, as one `expand` runs them: `topoSort` over the collected units, those of bindings and controllers appended, `computeApplyWaves` over all | composed | the sort, the assembly of the list, the waves |
| `ExpandedSet` | the expanded file's values: `expand`, `--force`, `fill`, the placeholder list, the sync of exports | source, file, each terminal's command | load, resolve, truncate, write, crash, edit, remove |
| `GitopsPipeline` | `ExpandedSet` with `render`'s gate and `apply` | adds the rendered tree and the cluster | load, swap, apply, stop |
| `ExpandUnits` | which units a set makes and who applies them; loading of source and result | the phase and the units | one per phase of `expand`, then the next command's load |
| `RenderPublish` | `render`'s swap, `push`, `status`, per file, git and REST call | workspace, `.git`s, the provider, the terminals' commands | one per call, and kills |
| `OrderedApply` | the promise of the bootstrap: wave by wave, handoff at the end | landed, handed off | land a unit, hand off |
| `BootstrapApply` | `ApplyBootstrapOnly` with waits, gates, the SRC's CLI, dry runs and re-runs | the loop's variables and the cluster | one per branch of the loop body |
| `SubscriptionWait` | `WaitForSubscriptions` with its diagnostics, against OLM | clock, loop position, subscriptions and CSVs | one per call and sleep, OLM's own |
| `GitSource`, `OciSources`, `CatalogSources` | the caches of package sources, and both kinds together | the clone, the pulled files, the commands | one per git or oras step, and kills |
| `FullTree` | `ApplyFullTree`, after `UnitOrder` | the repositories applied, in order | apply the next repository, fail, end |
| `EnvironmentDocs` | the four kinds of document, the closure, `Normalize` | none: operators | |
| `EnvironmentValid` | `Validate` and every check it calls | none: operators | |
| `InstallRender`, `InstallVars` | the render package: effective proxy, installer configs, secrets; inventory, variables, pins; what the `install_agent` role makes of them | none: operators | |
| `EnvironmentState` | one command over an environment, from its files to each installer's config | the files still to read, the state loaded, the scope, the files written | read a file, normalise a document, validate, scope, write a file, resolve secrets, the role |
| `DesiredState` | closure, validity, `--scope`, inventory, balancers | none: operators | |
| `Fleet` | what the playbooks do to hosts | the things on the hosts, work directories, the play that runs | one role on one host, plays, failures, interruptions, edits |
| `SecretFiles` | `secret generate`, `secret set` | three files, the terminals' commands | one per system call, kills, removals |
| `ScopeCommand` | a scope command on the bastion, over `SecretFiles` | adds the bundle and the rendered files | load, host check, clear, extract, render, run, end |
| `UnitOrderProofs`, `BootstrapApplyProofs`, `RenderPublishProofs`, `GitopsPipelineProofs`, `CatalogSourcesProofs`, `FleetProofs`, `SecretFilesProofs`, `EnvironmentProofs` | the theorems of section 5, each about the module it is named for and those that one extends; `UnitOrderProofs` also those about `ExpandUnits`, `BootstrapApplyProofs` those about `SubscriptionWait` | | |
| `*_MC` | the instances TLC checks | | |

How the models read: a variable is a file, a directory, a remote or a host thing,
or a command's place in its own code (`pc`, `step`) with what it read earlier, so
that a value read before a call and used after it can be stale in the model
exactly where it can be in the code. A command that may fail at a call has a step
that ends it there. Data is a model value wherever no property reads it: a
rendered repository is one value, an install config a version number, a password
nothing.

Conventions. A mutant is a definition placed before the one it replaces and says
in its comment which bug it stands for; it is not part of any model.
Definitions under "What the documents say and the code does not keep" are claims
of the repository's documents, comments or messages that TLC refutes; section 6 says
with which configuration.

### Correspondence in more detail

**Sorting.** `Visit` of either module is one iteration of the loop over the ready
list; `Finish` is the comparison of lengths after it. `topoSort` runs first, on the
units `collectRefs` found (`1..NRefs`), and its refusal ends `Expand`. `Assemble` puts
its order into `spec.resolved.packages` and behind it the units of bindings and
controllers, in the order the code appends them, a binding's consumer before its
provider; these have dependencies of their own (`extraDependsOn`), and
`computeApplyWaves` goes through the whole list. `ApplyWaves` counts an edge
once per pair of units, as the code's set of edges does, `TopoSort` once per
reference, as its slices do: `EdgesInto` has an edge for every place of a name's list.
The aliases are `ByName`, a set of units for each name, and `Entries`, the list of
units registered under it, so a name that several units answer to, or none, is a value
of a constant.

**The expanded file.** A leaf is one path of one unit. `Resolve` is the whole of
`Expand` for values: defaults and source, the prior file over them
(`OverlayUserEdits`), the exports from either side (`ExportValue`). `Truncate` and
`Write` are the two halves of `os.WriteFile`.

**Units.** `ExpandUnits` gives each phase of `Expand` one step. Names the code
joins with `-` are tuples, joined by concatenation, so that two of them may be equal
where the texts would be.

**Bootstrap.** `pc` has the positions of the loop body of `ApplyBootstrapOnly`:
start, gate, apply, CRD wait, second apply, CLI, subscription wait, end. A failed
first pass leaves a unit *partial*, waits for CRDs only when that was asked for,
and is tried again. A gate that times out is passed (best effort), a subscription
wait that fails ends the command.

**Full tree.** `FullTree` begins where `UnitOrder` has given every unit a place in
`spec.resolved.packages` and a wave, and applies whole repositories in the order in
which their first units stand in that list, appended ones included, as `ApplyFullTree`
does: the waves play no part, and the service-resources repositories are skipped. Its state is the list of repositories applied.

**Render and push.** `want` is the expanded file, `tree` the render root,
`local` the `.git`s, `remote` the provider. A history is told apart by the
`git init` that began it, its length, and its head. `status`, and the determinism check
of a `render`, compare one repository after the other with what they rendered aside:
first the files of that render (`CompareFiles`), then, for `status`, what else the
directory holds (`CompareExtras`), and at the end the orphan directories; other terminals
work between these steps. The files of one repository are compared in one step.

**Waiting.** `stage` is the place in `waitOne` or in `surfaceCSVDiagnostics`, which runs
before the wait gives up on a CSV: one more `get`, a list of the pods the CSV owns and the
log of each, past the deadline or not. Every call takes up to `CallTime`.

**Environment.** The Go structs are records and the maps functions; an optional
block is a set of at most one element; names are numbers in the order the code sorts
them. `Normalize` and `Validate` are operators with one definition per function of
the source; `EnvironmentState` calls them in the order a command does: files one by
one in path order, then each provider, infrastructure and cluster is normalised while
the later ones are not yet, then `Validate`, then the filter of `--scope`, which leaves
the state as it is when there is no `--scope` (`check`, `apply`, `destroy`) and which
`render installer` always applies, refusing a state without clusters. A secret that
cannot be read ends the resolution before the cluster's first file. Each file
of `render.All` and of `render installer` is one step, which writes the whole file
(temporary file and rename) or ends the command. A config is a function from the
paths of its leaves, so `mergeYAMLMaps`, in which an override wins above, at and below
its path, is a union of functions. Where Go iterates a map and keeps the last entry,
the value is the set of what it can be. `DesiredState`, which `Fleet` uses, is a coarser
view of the same documents: there a fleet is given valid, and only who has which
hosts matters.

**Fleet.** A *thing* is a record of a kind (service, machine, disk, image, hosts
entry, node that boots or is up), a host, and the cluster or provider it is for.
An action is one role on one host; a failing role leaves any part of its work.
`Enter`, `Left`, `PlayAfter` are the linear strategy: a host that failed is out
of the later plays, a play nobody survives ends the playbook. A host stands for a
machine behind one ssh address, so two providers may name one.

**Bastion.** A terminal runs one command at a time, a `generate` or a scope
command. A `generate` is a chain of system calls: two stats, the read of the
certificate, exclusive creations, writes, and the removal of the certificate when
the key cannot be made. `Clear` is `RemoveAll` and may fail half way; `Extract` and
`Render` write one file each, `Render` the next one in `Order` that the selection has. `alone` is a ghost: no other command has written
since this one cleared the bundle.

## 3. The runs and their bounds

| run | module, configuration | instance | states |
|---|---|---|---|
| `unit_order` | `UnitOrder_MC`, `UnitOrder.cfg` | three collected units and the two of a binding; aliases of one, of two, listed twice and of nobody; ten lists a descriptor may have; then the full tree of three repositories | 686,376 |
| `expanded_set` | `ExpandedSet_MC`, `ExpandedSet.cfg` | two terminals; an input, an export made from it, a consumed secret; leaves that are or contain the sentinel | 558,094 |
| `pipeline` | `GitopsPipeline_MC`, `GitopsPipeline.cfg` | one terminal for `expand` and `fill`, another for `render` and `apply`; one unit with two inputs, one sentinel embedded in text | 4,200,240 |
| `bootstrap` | `BootstrapApply_MC`, `BootstrapApply.cfg` | six units in three waves, one deferred; an SRC intent, a script, an OLM operator, two CRDs; three runs | 2,830 |
| `render_publish` | `RenderPublish_MC`, `RenderPublish.cfg` | two terminals, two repositories, two package sets: one with packages in both repositories, one with none, for which the first is a service-resources repository and the second an orphan; three commands | 1,912,682 |
| `subscription_wait` | `SubscriptionWait`, `SubscriptionWait.cfg` | three subscriptions with two versions; a budget of three polls; a CSV owns up to two pods; OLM installs, fails, retries and replaces a CSV in any phase | 196,425 |
| `expand_units` | `ExpandUnits_MC`, `ExpandUnits.cfg` | 7,680 package sets over four packages: a KRC, an SRC, a provider, a consumer | 33,440 |
| `catalog_sources` | `CatalogSources_MC`, `CatalogSources.cfg` | two terminals, four commands, kills, failing clones and checkouts; a git source with three commits, one or two OCI sources | 44,452 |
| `fleet` | `Fleet_MC`, `Fleet.cfg` | seven fleets: two clusters on one host, the same with one load-balancer name and one bridge between them, one cluster on two providers, a libvirt and a bare-metal one, and three that must be refused; two commands of any scope, an edit, two image builds | 519,114 |
| `controller` | `ScopeCommand_MC`, `ScopeCommand.cfg` | two terminals, two builds of which the newer has lost a file, two clusters, three commands, an edit | 1,509,772 |
| `environment` | `EnvironmentState_MC`, `EnvironmentState.cfg` | four environments that install (two clusters behind a proxy, one disconnected, one both, one on bare metal), each with up to two of forty edits, or none and its files in reverse order; one command, with or without `--scope` | 146,971 |
| `fleet_balancers` | `Fleet_MC`, `Fleet_Balancers.cfg` | two clusters on one host, both with the load balancer `default`: refutes `BalancersPlaced` | |

What each passing run shows:

* `unit_order`: for every package set of the instance `Expand` ends with either a
  refusal that only a real cycle justifies, or an order of the collected units in which
  every dependency comes first, and waves of all units that strictly rise along every
  dependency and by no more than needed. What `topoSort` has ordered the waves refuse
  only for a cycle through an appended unit (`LateCycles`): a descriptor that names a
  binding's unit can close one. When the full-tree apply takes a repository, the collected
  units its first unit depends on were applied, are in it, or are in a repository that is
  not applied; of its other units, and of appended ones, this cannot be said (section 6).
* `expanded_set`: what a `fill` wrote survives any later `expand`; every sentinel
  in the file is listed; a second `expand` changes nothing; a secret that one fill supplies for both ends reaches both. Terminals
  interleave between loading, truncating and writing, and either may be killed there.
* `pipeline`: a value with the sentinel in it never reaches the cluster, unless the
  tree was rendered with `--allow-placeholders`.
* `bootstrap`: waves are barriers over all runs, the handoff comes after the whole
  direct set, every command ends, and the whole is an implementation of `OrderedApply`.
* `render_publish`: a render that says it succeeded is on disk, "published" is
  true, published history is only rewritten by `--force`, and "up to date" is true of a
  walk that no other terminal disturbs (of one that is disturbed it is not: a render can
  put back what the walk has passed).
* `subscription_wait`: one budget bounds all waits: no poll comes later than one call and
  one sleep after it, and no end later than the diagnostics of one CSV after that; and
  the wait ends, though the name
  of the CSV is captured once (`wait.go:105`) and OLM may replace it: the wait then
  looks at a CSV that nobody installs, up to its deadline, and fails.
* `expand_units`: a binding's provider side is ordered before its consumer side, a
  repository that is to be reconciled gets its managed-repo unit, no two units of a file
  that loads share a directory.
* `catalog_sources`: what enters the catalog from git is a tag's or commit's
  content as long as no two commands overlapped, and no clone or checkout was cut or
  failed, since the cache was last emptied, and the last OCI source is complete.
* `fleet`: with shared hosts, failing hosts, cut runs and edits, `--scope` is a
  boundary for what belongs to one cluster, and what two clusters claim under one name on
  one host is only touched by a command for one of the two; installed disks are taken by
  `destroy infra` only; a clean apply has placed what the state asks for whatever
  came before; a host that failed in the substrate play is not booted.
* `environment`: what validates renders, in every scope (`ValidRenders`); a second load
  changes nothing, so no default waits for a document normalised after it
  (`NormalizeSettles`); a cluster's configs and balancers are those it gets when the
  command is for all (`ScopedAsWhole`); what is behind a balancer's frontend is what the
  installer makes nodes of (`BackendsAreNodes`); a disconnected cluster has no source
  but the environment's mirror, in the config and in the role's release override
  (`DisconnectedStaysLocal`); a cluster whose network is closed is told of a proxy
  (`ClusterProxied`).
* `controller`: a certificate and a key that are whole are one pair and stay so
  while generates race; a playbook nobody disturbs reads the bundle of its own
  build and files rendered from its own selection.

**Why the bounds are enough.** Each instance was grown until the case its
properties are about occurs, and the mutants show that it does: for every property
of a passing run there is a bug planted in the model that this run, with these
bounds, finds. Two terminals make every pairwise race; three or four commands are
one that is cut, one that disturbs and one that finds the result; two units,
clusters or sources of each kind are needed for one to be mistaken for another,
and three waves for a barrier that is skipped. Of the environment, two edits at once
make one optional block depend on another's absence; the edits include what must be
refused (an unknown reference, two suppliers of a capability, a mirror that is not the
environment's) so that `Validate` is exercised on both sides. Symmetry is used for terminals
only: no property or initial state names one. The lists of `unit_order` make parallel
edges, self-loops, a unit that waits for two, cycles among the collected units and cycles
that only the appended ones close; the theorems of section 5 remove that bound.

`MaxCmds`, `MaxCommands`, `MaxRuns`, `MaxSets`, `MaxEdits`, `MaxWant`, `MaxISO` and
`MaxCommits` are bounds of the model and not of the program, and so are `CallTime` and
`MaxPods`: a call returns some time, and a CSV owns finitely many pods. `CHECK_DEADLOCK FALSE`
appears where a behaviour really stops: the commands allowed are used up, or the
one command of the module has ended. `ExpandedSet` and `GitopsPipeline` are checked
for deadlock: there, some command is always possible.

The modules of concurrent processes have a type invariant each. The runs do not list
it; it is a theorem of most proof modules, and elsewhere is kept for whoever
edits the module.

## 4. Fairness

Safety is checked without fairness. Two specifications assume some, each of one
process that does nothing but call and wait:

| specification | fairness | why the code justifies it |
|---|---|---|
| `BootstrapApply!FairSpec` | weak, on the command's own steps | each is a call or a sleep of a program that does nothing else; the readiness and CRD waits have a timeout, `apply -k`, `get` and the SRC's CLI have none, and that they return is an assumption |
| `SubscriptionWait!FairWaitSpec` | weak, on the wait's own steps | likewise: one call, one sleep, one comparison with the deadline; that a call returns (within `CallTime`) is an assumption |

Nothing is assumed of the cluster, of OLM, the controllers, git, the provider, the
hosts or the operator: `Terminates` and `Ends` hold although operators may never
install, CRDs may never be established and gates may never open, because each wait
has a deadline. A kubectl that hangs, which the program does not guard against, is outside
both. Commands that may be killed have no liveness property.

## 5. What is proved

TLAPS checks the theorems of eight modules for every value of the constants. Every
inductive invariant below was an invariant of the run before it was proved.

**Waves and order** (`ApplyWaves`, `TopoSort`, `FullTree`; `UnitOrderProofs`).
Assumptions: `NAssumption` (there is a unit), `ByNameAssumption` (a name stands for a
set of units, maybe none), `DepListsAssumption` (lists are sets of names),
`EntriesAssumption` (`byName` of the one sort lists, in any order and any number of
times, the collected units that the other's index has under the name; a list is finite),
`NRefsAssumption` (there is a collected unit), `ExtraAssumption` (only appended units have
dependencies beyond their descriptor's), `RepoAssumption` (a repository is a number, the
order of names). They are what the loader guarantees; how many units are appended, cycles,
self-references, unknown and ambiguous names are all free.

| theorem | says |
|---|---|
| `TypeCorrect` | the type invariant |
| `WavesRespectDependencies` | a unit's wave is above the wave of all it depends on |
| `WavesAreTight` | a unit in a positive wave has a dependency exactly one wave below |
| `RefusalIsJustified` | a refusal names units each of which waits for another of them |
| `OrderRespectsDependencies` | the order of `topoSort` has every unit once, after all it depends on |
| `SortRefusalIsJustified` | a refusal of `topoSort` names units each of which waits for another of them |
| `LateCyclesAreAppended` | of what `topoSort` put in order, the waves refuse only a cycle with an appended unit in it |
| `FirstUnitIsServed` | in the full tree, a repository's turn comes after those its first unit needs collected units of |

None of these is inductive alone: nothing in `WaveOrder` says that a unit not yet
ready keeps its claim on the waves of its dependents. `IInv` says what the loop
maintains: the indegree of a unit is the number of its dependencies not yet visited
(`IndegCounts`), the ready list is the units not visited whose count is zero
(`ReadyExact`), what is visited has all its dependencies visited (`VisitedClosed`),
each visited unit has relaxed its dependents (`Relaxed`), a positive wave is owed to
a visited dependency (`Justified`), and the result means what it says
(`ResultMeans`). The step that matters is `VisitIInv`: that decrementing once per
edge keeps `IndegCounts` is a fact about the cardinality of a set that loses one
element. `WavesAreTight` and `WavesRespectDependencies` read off `Relaxed`,
`Justified` and `VisitedClosed` when the list is empty.

`SortInv` is the same of the sort, where the count is of edges, not of units
(`EdgesCounted`: the edges into a unit whose source is not out yet), and a visit takes
away all parallel edges of one source at once, a set difference. Edges are a set so that
this can be said; as a sum over the names, which they were, it would be an induction
over data. `LateCyclesAreAppended` puts the two together: if all units the waves name
were collected ones, the one of them that comes first in `topoSort`'s order would wait for
another of them, which comes earlier. A set of numbers has a least element (`Least`, from
the well-foundedness of strict inclusion). `FirstUnitIsServed` needs of the assembled list
that it begins with `topoSort`'s order: what a repository's first unit depends on among
the collected units is earlier in the list, so its repository's first unit is no later.

**The expansion** (`ExpandUnits`; `UnitOrderProofs`). Assumptions: a package set is a list
of repositories, each a list of selections with finitely many resources, and the names of
the repositories are those `Subst` substitutes (`PackageSetsAssumption`); a package has
finitely many default resources (`CatalogAssumption`); there are finitely many bindings,
each with its provider in a repository that has a name (`BindingsAssumption`); and what a
substitution of `{{.Env}}` made, another leaves alone (`SubstAssumption`), which holds of
every environment key without that token: names are checked (`validateRepoName`), the key
is not, and one that contains the token is not considered. Packages, roles, dependencies,
names that coincide when joined, and which sets are valid are unconstrained.

| theorem | says |
|---|---|
| `UnitsTypeCorrect` | the type invariant |
| `BindingsAreOrdered` | the provider's unit of a binding is in an earlier wave than the consumer's |
| `RepositoriesAreReconciled` | with a KRC every unit is in a repository the KRC is told of, or in the one it is installed from |
| `DirectoriesAreDistinct` | no two units of a file that loads share a directory |

None says where it comes from, so `UnitsIInv` does. Each unit is a unit *of the set*
(`UnitOf`): its instance is made of its other names, so units with one directory have one
instance, and loading refuses two of those; and its repository is one of the set's, which
is what `managed-repo` units are made for (`Told`). The one name the KRC is not told of is
compared as the assignment wrote it; that a unit in a repository with this name is in the
repository the KRC comes from is `SubstAssumption`. Beside each consumer's unit there is
the provider's, answering to a name the consumer depends on (`Served`); wiring the
controllers touches neither (`RewiredUnits`), and units from elsewhere take none away.
That a unit's wave is then above its dependency's is a fact about `Waves`
(`WavesOrdered`), for which the recursive function `Layers` must be shown to exist
(`LayersExist`: the least height it could not have cannot be) and its layers to grow, and
the units must be finitely many, which every phase keeps.

**Bootstrap** (`BootstrapApply`). Assumptions: units are numbers, the order of
their names; the direct set is a part of them and not empty; waves are natural
numbers; a unit is not both an intent and a script of the SRC; the kinds are sets of
units. `Needs`, `Brings`, `DependsOn` and `MaxRuns` are unconstrained.

| theorem | says |
|---|---|
| `TypeCorrect` | the type invariant |
| `WaveBarrierHolds` | no unit of a wave is touched before all lower waves have landed, over any number of runs |
| `CLIAfterManifest` | the SRC's CLI only sees units whose manifests are applied |
| `HandoffIsEarned` | the handoff is announced with the whole direct set landed |
| `Refinement` | every step is a step or a stutter of `OrderedApply`: units land in wave order, none is taken back, the handoff is last |
| `DryRunIsDry` | a dry run changes nothing of the direct set |
| `NoTargetIsDropped` | a readiness target leaves the list of gates only by being waited for |

The invariant ties the loop to the cluster: what the command counts as done has
landed (`DoneLanded`), the unit in hand is as far along as `pc` says (`InHand`,
`HowFar`). The barrier itself is part of it because an interrupted run leaves units
of the current wave landed, and the next run, whose list starts again, must still
find the lower waves landed; `LowerWavesDone` is where the order of the plan is
used. For the refinement, each action is shown either to leave `Landed` and `handed`
alone, or to land the unit in hand (`LandsInHand`), or to hand off
(`FinishHandsOff`), and `StepRefines` puts them together.

**Render and push** (`RenderPublish`). Assumptions: the repositories are a finite set of
numbers, the order of their names (`ReposAssumption`); what is packaged is rendered
(`RendersAssumption`); flags are those of the commands (`FlagsAssumption`); the bound on
commands is a number. Terminals, package sets and contents are unconstrained.

| theorem | says |
|---|---|
| `TypeCorrect` | the type invariant |
| `PublishedHolds` | what a push got past is published: remote and local histories are equal there |
| `HistoryHolds` | without `--force` no push takes a commit from a remote |
| `RenderedHolds` | a render that reports success has its whole set in place, and with `--prune` nothing else |
| `UpToDateHolds` | a status that says nothing leaves the whole set it loaded on disk, and nothing besides, when no other terminal ran |

`HistoryHolds` rests on `AgesOf`: each `git init` has a number above all histories there
are, so a local history that a render destroyed and a push began again cannot be taken
for the remote's, and one that began like the remote's is never behind it. The other
three are about the first session to run; what it is done with is in place
(`InPlaceOf`) or published (`PublishedBy`), and what it still has to do is of the set it
loaded (`TodoOf`), whichever file calls of earlier, killed commands left the directories
half removed; and of a walk, what it has passed without finding a difference has none.
The user, who writes into service-resources repositories at any time, can only add to
what a walk would find extra while it is past it, so that `UpToDateHolds` says of each
repository that its rendered files are there and that nothing was pushed from it. `Stepping` reduces each action to the session that takes it. That a set of
repositories has a first one (`FirstIsIn`) follows from the well-foundedness of strict
inclusion among the subsets of a finite set.

**Waiting** (`SubscriptionWait`; `BootstrapApplyProofs`). Assumptions: there are a subscription and a version
(`SubsAssumption`); the budget and the sleep are positive, and a call takes a bounded
time, maybe none (`TimeAssumption`); a CSV owns a bounded number of pods
(`PodsAssumption`).

| theorem | says |
|---|---|
| `WaitTypeCorrect` | the type invariant |
| `BudgetHolds` | however many subscriptions there are and whatever OLM does, a success is within one call of the budget, the last poll within a call and a sleep of it, and the end within the diagnostics of one CSV after that |
| `SuccessIsEarned` | a wait that succeeds saw each subscription with a CSV that Succeeded, though not all at once |

`Budget` adds to the bound that nobody moves the deadline, which a wait with a budget
for each subscription would, and that each call of the diagnostics uses up one of those
that are left, two and one for each pod; `Earned` says that the loop is past no subscription that
was not seen Succeeded, whatever it became since.

**The expanded file and the pipeline** (`ExpandedSet`, `GitopsPipeline`). Assumption:
`ShapeAssumption`, the shape of a package set: inputs, exports and the consumers' copies
are different leaves, a consumed export has one copy of its own, an export is made from
an input or not at all. (An export with `from: binding:<key>` reads a value of the
binding, which is a leaf of no unit: it is an export made from an input that nothing
fills.) Sessions, source values and fills are unconstrained.

| theorem | says |
|---|---|
| `TypeCorrect`, `PipelineTypeCorrect` | the type invariants |
| `FillsSurvive` | an expand without `--force` keeps every value it found filled in |
| `SecretsTogether` | what an expand writes has both sides of a consumed secret filled, or neither |
| `ExpandTwice` | expanding what expand wrote changes nothing |
| `ListIsComplete` | the placeholder list names every leaf that is the sentinel or a structure with one in it |
| `ClusterHasNoSentinel` | no sentinel reaches the cluster but through `--allow-placeholders` |
| `PipelineImplementsExpandedSet` | `render` and `apply` only read the file: each step of the pipeline is a step or a stutter of `ExpandedSet` |

`ExpandTwice` is a fact about `ResolvedValues`, of any source and any prior, and needs no
invariant; the lemmas before it say what an export and a copy are filled with. Idempotence
is `ResolvedTwice`: a leaf that is filled is kept, one that is not is filled from leaves
that have not changed. The others are about a session between its read and its write.
`IInv` says that the text in its hand keeps what it read (`JobKeeps`) and has secrets in
pairs (`JobPairs`); that what a command reads is what was last written needs
`KeptIsFile`, which a truncated file breaks and the refusal of an unreadable prior
restores. `ListIsComplete` is proved for fills that are not the sentinel itself, which
`fill` would take for a value; a fill may contain it otherwise. Proving `ExportValue`
showed that two of its cases overlapped where an export is made from an input, which TLC
had hidden by taking the first; the code takes them in order, and so does the
definition now.

**Sources** (`GitSource`, `OciSources`, `CatalogSources`). Assumptions: `GitAssumption`
(there is a commit, the bounds are numbers), `OciAssumption` (a package set declares a
source, a source offers what it selects, a package has a `package.yaml`).

| theorem | says |
|---|---|
| `GitTypeCorrect`, `OciTypeCorrect` | the type invariants |
| `PinnedHolds` | while commands did not overlap and no clone or checkout was cut or failed since the cache was last emptied, a tag or commit is resolved to its own commit |
| `LastSourceHolds` | a catalog that is built has every package of its last OCI source, whatever cut pulls left |

`GitInv` has, for every label of the code, what the directory holds there (`Stands`); in
between commands it is absent or stands at the ref (`Clean`). After an overlap, a kill or a
`git checkout` that failed and left the clone on its default branch neither is so, which
is what `calm` is for and section 6 shows; deleting the cache makes it calm again. `OciInv` says that a
package leaves the list of pulls only when it is complete, and stays so.

**The fleet** (`Fleet`). Assumptions: a desired state is a record of that shape
(`FleetsAssumption`), the bounds are numbers. Providers, hosts, clusters and their
placement are unconstrained.

| theorem | says |
|---|---|
| `DisksOutlive` | installed disks outlive every command but `destroy infra`, in every fleet |
| `BootsWhatItBuilt` | `apply all` boots a node only on machines its own substrate play built, in every fleet |
| `ScopeIsBoundary` | `--scope` is a boundary, in every fleet |
| `AppliesConverge` | an apply that no host failed has placed what its clusters ask for, in every fleet |

Two clusters may have, on one host, a load balancer of the same name or the same bridge:
validation does not refuse it, and `examples/libvirt-redfish-fleet` has it. No theorem
assumes that they do not. The last two say what then holds: a thing of a cluster is only
touched by a command for a cluster with a claim to it (`Claims`: its own, or one of this
name or bridge on this host), and what two clusters of the selection both claim is there
for one of them. That it is not there for each is `BalancersPlaced`, and that the other
one's network goes is `NetworksKept`, both in section 6. Where nobody else has a claim the
two theorems are about a cluster's own things.

A playbook is a constant table, and the proof spells it out: which role in which play
belongs to which command (`Located`), where a host goes that leaves a role
(`LeftFacts`: the next role, the next play, out of the playbook, or the end), and what a
role can do to the hosts whether it succeeds, fails or is cut (`Effect`). `FleetInv` says
that a run is somewhere in its own playbook, with hosts of its own clusters. What it has
done so far is in `Built` (after the substrate role of the substrate play, every host that
has not failed has its machines) and `Placed` (past the role for balancers, or for
substrates, what that role is for is there, for the cluster or one that claims it too).

**Secrets and the state directory** (`SecretFiles`, `ScopeCommand`). Assumptions: the
bounds are numbers; the clusters are listed, and a build's bundle has a part
(`ListsAssumption`). Terminals, kinds of command, builds and clusters are unconstrained.

| theorem | says |
|---|---|
| `TypeCorrect` | what is in the directory and what runs in each terminal |
| `PairsMatch` | a certificate and a key that are whole are one pair |
| `PairsKept` | no generate replaces or removes a whole certificate or key of another |
| `OwnHolds` | a playbook that nobody disturbed reads the bundle and the files of its own command |

Neither of the two about pairs follows from itself: the generate whose key fails removes
the certificate *by name*. `IInv` has three parts. The certificate of a generate that is
past creating it, and has not let go of it, is its own (`Held`), so one generate at most
holds one (`OneHolder`) and nobody else can create or drop it; a generate that has made no
key owns none; and a whole key is never without its certificate (`Paired`), which is why
the certificate that is dropped is never that of a whole key. The model's assumption that
the operator removes the files only while no generate runs is the guard of `RemovePair`: a
removal in the middle would let a second generate create the name the first one drops.

`OwnHolds` follows a command that is alone from `Clear` on (`OwnOf`): the parts of the
bundle it has extracted so far are its build's and the others are absent, and the files of
its selection that come before its place in `Order` are rendered from its own state. That
it comes to the last of them is why `Render` speaks of the least later place that the
selection has (`Later`); a list filtered of what is not selected, which it used, says the
same and cannot be reasoned about without induction over the list.

**The environment** (`EnvironmentDocs`, `EnvironmentValid`, `InstallRender`, `InstallVars`,
`EnvironmentState`). Assumption: `InputsAssumption`, the shape of a decoded document
(`IsDocument`): a struct of `api/v1alpha1` has all its fields, a slice is a list, an
optional block at most one value, the keys of the networks, of the machines, of their
interfaces and of a cluster's nodes are finitely many names, the endpoints are `api`,
`apiInt` and `ingress` at most, the three of `ClusterEndpointsSpec`, and an override is
under one key at least. The decoder refuses what does not fit these types and
fills in what is missing with zero values, so every state `Load` returns is of that shape.
How many documents there are, what they say and refer to, whether they are valid, the
users, the hub names and the scopes are unconstrained: it is `Validate` that a proof gets
its facts from, as the code does.

| theorem | says |
|---|---|
| `DocumentsAreKept` | the inductive invariant |
| `ValidIsRendered` | a state that validates is rendered, in every scope, but for a failing write |
| `NormalizationSettles` | a second normalization changes nothing |
| `ScopeIsRenderedAsWhole` | a cluster's configs, `noProxy` apart, and its balancers do not depend on the scope |
| `MirrorsAreLocal` | a disconnected cluster's sources, and the release override, are the environment's mirror and no other |
| `RestrictedIsProxied` | a cluster whose network is closed is told of a proxy for http and https, with credentials and without |
| `BackendsAreTheNodes` | where every node has a machine of its own, a frontend has as many backends as agent-config has hosts of the role, each at an address of one of them |

`IInv` has four parts. The documents keep their shape through loading, sorting and every
pass of `Normalize`; from the scope on the state is valid and the scope is some of its
clusters, or none given; each file that is there is what the renderer makes of that state and scope,
because nothing changes either any more; and the variables are written before the first
config of a cluster (`VarsFirst`), which is what lets a property speak of both. Each theorem but the second is then about a
state and a scope instead of a behaviour. `ScopeIsRenderedAsWhole`, `ValidIsRendered` and
`RestrictedIsProxied` share the lemma that a cluster of the scope keeps its infrastructure
and its closure (`ScopedCluster`): the filter keeps what a kept document refers to, and
validation has refused two documents of one name, so that the first of a name is the same
one before and after. Positions move when a list is filtered; `Ranks` shows that counting
what is not above an element gives each position exactly once, which replaces an induction
over the sort.

`NormalizationSettles` needs `Settled` beside `IInv`: what the passes that are over have
done would not be done again, and the later passes do not touch what they read. Of a
default that is plain (`DefaultSettles`), since what it is replaced with is not the zero
value or the field stays as it was. The image sources are a fold over the derived ones,
which adds the unknown and leaves the known; `FoldSettles` shows of `FoldLeft` itself that
when each single step leaves a list alone so does the fold, without induction over data:
the constant function solves the fold's recursion, and a set of prefixes on which it
differs would have a least one. `MirrorsAreLocal` reads
`validateDisconnectedOCPImageSources` on the sources that are written, and
`RestrictedIsProxied` the checks of `validateManagedProxyPlacement` together with which
gateway `managedProxyClientURL` takes, the first network's, where `Validate` looks at
another function's. `BackendsAreTheNodes` counts: the balancer lists the machines of a role
in the order of their names and agent-config the nodes in the order of theirs, and both
are as many as the role's nodes (`MachinesCounted`, `HostsOfRole`), the machines because
no two nodes share one, the hosts because no two have one name. That a backend's address
is one of a host's needs `validateMachineInterfaces`: an interface is on a network the
infrastructure has, else the balancer would know an address that agent-config leaves out
(`PrimaryAddress`).

**Only model-checked**:

* the liveness properties `Terminates` and `Ends`: the prover does not do fairness and
  ENABLED;
* the type invariants of the modules without a theorem of that name.

## 6. Where the documents and the code disagree

Each definition below states what a document, a comment, a message or a test of the
repository says; TLC finds a behaviour of the code that breaks it. Where no
configuration of its own is named, put the definition as the only `INVARIANT` (or
`PROPERTY`, when it is a `[][...]`) of the one that is. Some need
other values of its constants, given there. `BalancersPlaced` is a run of the project.

The GitOps half:

* `SecretsAgree` (`ExpandedSet_SecretsAgree.cfg`). Both sides of a consumed secret
  can be filled with different values and an expand leaves them different.
  src/internal/gitops/resolve/bindings.go:262-264 says "Secret exports sync across
  consumer/provider by preferring any non-sentinel prior fill on either side";
  computeExportValues does prefer the provider's fill, but buildConsumerValues
  overlays the consumer's own prior afterwards, so a fill on each side leaves the
  two sides with different values for ever.
  (`internal/gitops/resolve/bindings.go:262`)
* `SourceIsAuthoritative` (`ExpandedSet_SourceEdits.cfg`). An edit of the source
  never reaches an expanded file that already has a value. src/specs/gitops.md:32
  says "Expanded and rendered artifacts live under `.bootwright/`; users edit the
  source `gitops-package-set.yaml`"; overlayUserEdits lets every non-sentinel prior
  value win, defaults and earlier source values included, so an edited source value
  has no effect on the next expand without --force.
  (`internal/gitops/resolve/resolve.go:533`)
* `ForceKeepsFills` (with `ExpandedSet_SecretsAgree.cfg`). expand --force discards what
  was filled in. src/internal/gitops/resolve/resolve_test.go:170 says "force expand
  should preserve user-authored fill"; the command's --force passes no prior at all
  (gitops.go:106-114), so a forced expand resets every filled placeholder to the
  sentinel. (`internal/cli/gitops.go:106`)
* `RemainingIsExact` (with `ExpandedSet_SecretsAgree.cfg`). fill counts as remaining a
  placeholder it has just filled. src/internal/cli/gitops_plan_fill.go:172 prints
  "(%d placeholder(s) remaining)"; the filter of lines 153-164 keeps every entry of
  a unit that holds the sentinel anywhere, so entries already filled are counted,
  and listed in the file, until the unit's last one is.
  (`internal/cli/gitops_plan_fill.go:172`)
* `ReadyToRender` (with `GitopsPipeline.cfg`). expand says a file is ready to
  render that render refuses. src/internal/cli/gitops_lifecycle.go:168 prints
  "bootwright: no placeholders; ready to render." when the placeholder list is
  empty; the list holds exact sentinels only, while render's gate
  (render.go:285-298) refuses a value with the sentinel embedded.
  (`internal/cli/gitops_lifecycle.go:168`)
* `AppliesWhatItLoaded` (`GitopsPipeline_Stale.cfg`). apply applies a tree rendered
  from an older expanded file. src/specs/gitops.md:133 says "bootwright apply gitops
  <name> # render/push/bootstrap"; the command neither renders nor pushes, it
  applies whatever tree is under .bootwright/render, so after a fill or an expand it
  applies values the file it loaded no longer holds.
  (`internal/cli/gitops_publish.go:284`)
* `DependsOnAuthoritative` (with `BootstrapApply.cfg`). A bootstrap unit is applied
  though a unit its dependsOn names was deferred to the KRC.
  src/internal/gitops/workflow/apply.go:261 prints "wave gate skipped ...
  (continuing; dependsOn ordering is still authoritative)"; BootstrapSubset
  (plan.go:44-58) leaves provider units to the in-cluster KRC, and the wave barrier
  covers only the units bootwright applies itself, so a consumer unit is applied
  before the provider unit its dependsOn names exists.
  (`internal/gitops/workflow/apply.go:261`)
* `SwapIsAtomic` (with `RenderPublish_Drift.cfg`). A render killed in the swap
  leaves repositories of two renders, or half of one.
  src/internal/gitops/render/render.go:88-89 says "It renders into a temporary
  sibling directory first and swaps it into place atomically"; swapEntries removes
  and renames one repository directory after the other, so a kill or a rename error
  in between leaves a mix of two renders, with a repository missing or half removed.
  (`internal/gitops/render/render.go:230`)
* `DriftIsReal` (`RenderPublish_Drift.cfg`). status reports drift of a tree that is
  exactly the set's render, once it was pushed.
  src/internal/cli/gitops_lifecycle.go:97 says "Report drift between rendered repos
  and expanded GitOpsPackageSet <name>"; compareRepoTree walks the whole directory,
  so the .git a push leaves there is reported as extra files and every pushed
  workspace drifts. (`internal/gitops/workflow/diff.go:133`)
* `AuthoredKept` (with `RenderPublish_Drift.cfg`). A re-render deletes files the
  user added to a service-resources repository.
  src/internal/gitops/render/render.go:679 writes "Contents are authored directly by
  users" into each service-resources repository; swapEntries removes the whole
  directory at the next render, the user's files and .git included.
  (`internal/gitops/render/render.go:241`)
* `NeverRejected` (with `RenderPublish_Drift.cfg`). push, render, push ends in a
  rejected push though nobody else published. src/internal/gitops/push/push.go:28-29
  says "Push publishes each rendered repo dir to Config.Provider in stable
  alphabetical order so output diffs cleanly across runs"; a re-render deletes the
  directory's .git, the next push begins a new history with git init, and the
  provider rejects it as a non-fast-forward unless --force rewrites the published
  history. (`internal/gitops/render/render.go:241`)
* `PublishesEachRendered` (with `RenderPublish_Drift.cfg`). A completed push leaves
  a rendered repository unpublished. src/internal/gitops/push/push.go:28 says "Push
  publishes each rendered repo dir to Config.Provider"; RenderedRepoNames lists the
  repositories of resolved packages only, so the service-resources repositories
  render writes (render.go:152-173) are never pushed.
  (`internal/gitops/workflow/repos.go:5`)
* `SucceededAtTheEnd` (with `SubscriptionWait.cfg`). The wait succeeds while a
  subscription it passed earlier is being upgraded.
  src/internal/cli/gitops_lifecycle.go:30 says "Block until OLM subscriptions
  referenced by <name> have Succeeded CSVs"; WaitForSubscriptions looks at one
  subscription after the other and never again at one it passed, so it can succeed
  while an earlier subscription's CSV is installing or failed.
  (`internal/gitops/cluster/wait.go:60`)
* `WrittenLoads` (with `ExpandUnits.cfg`). expand writes a file that every later
  command, the next expand included, refuses to load.
  src/internal/gitops/load/load.go:546 requires distinct instances ("duplicate
  instance %q"), as collectRefs does for selected packages; the units of bindings
  and controllers are appended unchecked, and the instance of a managed-repo unit
  does not name the environment repository it is for, so a KRC with two environment
  repositories expands to a file that does not load.
  (`internal/gitops/resolve/controllers.go:85`)
* `KRCNotItsOwn` (with `ExpandUnits.cfg`). The KRC is told to reconcile the
  repository it is installed from. src/internal/gitops/resolve/controllers.go:81
  says "KRC cannot reconcile its own install; bootstrap applies it directly."; the
  comparison is of the substituted output name with the unsubstituted assignment, so
  with {{.Env}} in the repository's name, which load.go:470-474 allows, the
  managed-repo unit is made. (`internal/gitops/resolve/controllers.go:80`)
* `ControllersKept` (with `ExpandUnits.cfg`). A package set that extends another is
  expanded without its controllers. src/specs/gitops.md:42 says
  "`spec.controllers.{kubernetesResources,serviceResources}` assigns KRC/SRC roles
  to selected package instances"; mergeGitOpsPackageSets copies sources and
  repositories only, so the expanded set of a package set with spec.extends has no
  controllers, no managed-repo units and no SRC bindings, while apply reads the
  controllers from the source. (`internal/gitops/load/load.go:96`)
* `DeferredLand` (with `ExpandUnits.cfg`). A consumer's unit in the KRC's own
  repository is neither applied by bootwright nor reconciled by the KRC.
  src/internal/cli/gitops_plan_fill.go:95 prints "deferred to KRC — %d unit(s) land
  after handoff"; BootstrapSubset defers a workload's consumer unit, resolveBindings
  puts it in the consumer's generic repository, and when that is the KRC's own
  repository no managed-repo unit reconciles it.
  (`internal/gitops/workflow/plan.go:44`)
* `PlanTellsApply` (with `ExpandUnits.cfg`). plan prints a bootstrap plan where
  apply applies the full tree. src/internal/cli/gitops_plan_fill.go:27 says "Print
  the ordered apply plan without touching the cluster"; plan chooses the bootstrap
  mode when either controller is assigned, apply (gitops_publish.go:285) only with
  an SRC, so with a KRC alone the plan defers units the apply applies at once.
  (`internal/cli/gitops_plan_fill.go:50`)
* `WholeTree` (with `UnitOrder.cfg`). A full-tree apply fails on a tree that another
  order of the repositories would bring in.
  src/internal/cli/gitops_publish.go:297 says "apply the whole rendered tree even when
  spec.controllers declares a KRC/SRC (for SRC-less setups or disaster recovery)";
  ApplyFullTree applies whole repositories in the order of their first units, so a later
  unit of an early repository can need one of a repository whose turn has not come, and a
  binding's consumer can stand before its provider (bindings.go:118-194), which
  a second pass over its own repository does not bring; the waves could have told.
  (`internal/gitops/workflow/apply.go:32`)
* `LoadsTheRef` (`GitSource_Ref.cfg`). After a failed checkout the next command
  loads the default branch in place of the commit. src/specs/gitops.md:110 says
  "Shallow clone at an immutable tag or commit SHA"; when the checkout of a SHA
  fails the full clone stays in the cache on the default branch, the next command
  finds .git, verifyImmutableRef accepts any SHA-shaped ref without looking at HEAD,
  and the catalog is read from the wrong commit.
  (`internal/gitops/catalog/git.go:85`)
* `BranchesRejected` (with `GitSource_Ref.cfg`). A branch whose name is hexadecimal
  is accepted as a commit SHA. src/specs/gitops.md:110-111 says "Branches and `HEAD`
  are rejected"; rejectBranchRef and verifyImmutableRef both return early for any
  name of 7 to 64 hexadecimal digits, so a branch named like that (a date, for
  instance) is cloned with --branch and used. (`internal/gitops/catalog/git.go:95`)
* `TagsAccepted` (with `GitSource_Ref.cfg`). A tag without a v or a slash is refused
  as if it were a branch. src/specs/adr/0003-gitops-stage-merger.md:85 says "only
  tags or commit SHAs are accepted"; rejectBranchRef goes by spelling and refuses a
  tag such as 1.2.3 ("must be a tag or commit SHA") before it looks at the
  repository. (`internal/gitops/catalog/git.go:105`)
* `CacheIsDerivative` (with `GitSource_Ref.cfg` and `Kills = TRUE`). A killed clone leaves a directory
  every later command takes for the source. src/specs/gitops.md:120 calls the caches
  "Pure derivative; safe to delete"; the cache is valid when .git exists, which git
  creates first, so a clone killed before its checkout is used (or fails) for ever,
  where deleting it would have given the source.
  (`internal/gitops/catalog/git.go:38`)
* `AsksForItsOwn` (with `CatalogSources.cfg`, `Declared <- MCApart` and `Whole = TRUE`). With two OCI sources the first is
  asked for the packages of the second.
  src/specs/adr/0003-gitops-stage-merger.md:82-83 says "Package names extracted from
  the GitOpsPackageSet's templates"; RegisterSourceResolvers registers one resolver
  per kind in a global map, each OCI source replaces the one before it, and every
  OCI source is then resolved with the package names of the last.
  (`internal/gitops/workflow/catalog.go:28`)
* `EachPackagePullable` (with `CatalogSources.cfg`, `Declared <- MCPairs` and `Whole = TRUE`). A source that selects two
  packages cannot be pulled. src/specs/gitops.md:108-109 says "Per-package artifact
  pull via `oras`. Sources must be pinned by digest."; buildOCIRef appends the
  source's one digest to every package's repository, and a digest is that of one
  artifact, so only one of a source's packages can exist under it.
  (`internal/gitops/catalog/oci.go:66`)
* `OciCacheIsDerivative` (with `CatalogSources.cfg`). A pull that was cut leaves a
  package without some of its files, and later commands use it.
  src/specs/gitops.md:120 calls the caches "Pure derivative; safe to delete"; a
  package counts as cached once its package.yaml exists, so what a cut oras pull
  left is used without its missing descriptors, where deleting it would have given
  the artifact. (`internal/gitops/catalog/oci.go:43`)

The environment half:

* `RoleKeepsProxy` (with `EnvironmentState.cfg`). The role writes another proxy URL into
  a cluster's install config than the one rendered there. src/ansible/VARS_CONTRACT.md:96-98
  says the role's "vmHttp/vmHttps are the libvirt-bridge-gateway URLs embedded in
  install-config.yaml"; the embedded ones are made of the cluster's own gateway, the
  role's of the gateway of the first cluster by name, for every cluster.
  (`internal/provisioning/render/proxy.go:69`)
* `BalancersPlaced` (`Fleet_Balancers.cfg`). A load balancer is called by the key its
  cluster gives it (`vars_components.go:33`) and the role calls its container after
  that; two clusters on one host that both say `default` end with one. Both clusters
  of `examples/libvirt-redfish-fleet` say `default`.
* `AllInstalled` (with `Fleet_Balancers.cfg` and `Fleets <- JustMixed`). "every `OCPCluster` in the desired state is
  installed locally via the agent installer" (`docs/concepts.md:96`,
  `specs/domain.md:11-13`). The group of cluster hosts is filled from libvirt host
  references only (`inventory.go:64-68`), so no play runs for a bare-metal cluster,
  and the apply reports success.
* `OnOwnHost` (with `Fleet_Balancers.cfg` and `Fleets <- Spread`). `libvirt.hostRef` is "provider-specific machine
  placement" (`specs/state-model.md:252-255`). `substrate_libvirt` defines every machine
  of a cluster on every host of its provider.
* `SafeToRerun` (with `Fleet_Balancers.cfg`, `Fleets <- JustMixed` and `MaxRuns = 2`). "Every phase is safe to re-run"
  (`specs/architecture.md:105`, `specs/domain.md:33`, "idempotent",
  `docs/concepts.md:102`). `boot-node.yml:34-45` powers a node off and boots it from the
  installer image whatever runs on it.
* `ImageOfConfig` (with `Fleet_Balancers.cfg`, `Fleets <- JustMixed` and `MaxRuns = 3`). The same sentence. `agent-iso.yml` writes
  the configs and then removes the image made from the old ones; a run that ends between
  the two leaves configs that are no longer different, and the next run boots the old
  image.
* `NetworksKept` (with `Fleet_Balancers.cfg`, `Fleets <- OneBridge` and `MaxRuns = 2`). `--scope` is "comma-separated
  `OCPCluster.metadata.name`" (`specs/state-model.md:382`). Two clusters may name one
  bridge; a role removes the network that has it (`substrate_libvirt`,
  `tasks/main.yml:136-166`), so applying one takes the network of the other.
* `SharedKept` (with `Fleet_Balancers.cfg`, `Fleets <- Served` and `MaxRuns = 2`). `--scope` is "comma-separated
  `OCPCluster.metadata.name`" (`specs/state-model.md:382`). `destroy infra --scope a`
  selects the providers of `a` and removes their proxy, BMC emulator and registry,
  which other clusters use.
* `CheckMutatesNothing` (with `ScopeCommand.cfg` and `Kinds = {"check", "change"}`). "Mutates? no"
  (`specs/state-model.md:365-366`). `check` deletes and extracts the bundle and writes the
  inventory and variables of its own selection (`scope_cmd.go:55-66`), also while another
  terminal's playbook reads them.
* `CheckedPairIsWhole` (with `ScopeCommand.cfg`). The host check of an apply looks
  for the certificate and compares it (`preflight_secrets.go`); a missing or empty key
  is found by the playbook.
* `ReusedIsWhole` (with `ScopeCommand.cfg`). What is generated is "a self-signed
  cert/key pair" (`specs/state-model.md:79-80`). A `generate` killed before it filled the
  key leaves an empty one, and the next reports the pair as reused. Killed between
  certificate and key, it leaves a half that every later `generate` refuses.

Read in the code and not modelled: the host check asks for the proxy's credentials in
the phase `cluster`, where the phases are called `clusters` (`preflight_secrets.go:64`,
`scopes.go`), so it does so for `infra` only; `secret set` writes
`<secrets-dir>/<name>`, where `docs/desired-state.md:254-257` has `file:` entries
written at their declared paths.

Of the environment, in the model as the code has it and no property's claim: a cluster
of workers only, or without addresses, gets an empty `rendezvousIP`; an address-less
machine gets a backend without one; a release override does not say where the mirror set
puts the release; a proxy with a trust bundle of its own replaces the mirror's CA in the
install config; of several networks `libvirtVars` describes the first; of nodes that
share a machine the role is that of the last in Go's map order; KubeVirt never validates
with nodes; a proxy URL without a scheme is found out only when the secrets are
resolved, and a disconnected installation without a release only by the role; the role
and the command prefer different sources when both have credentials for the mirror; some
of the override keys that `specs/state-model.md:307-310` has refused are not, and the boot
artifacts URL of `specs/security.md:37-39` is absent without a gateway. Names the code
joins with `-` (inventory hosts, `inventory.go:52,76`; networks, `vars_cluster.go:77`) may
coincide when they contain one.

## 7. What is not modelled

Left out as a whole: the commands for bastion, operator, status, init and proxy
(sequences of installs, prompts and scaffolds; nothing reads their intermediate
states); the cluster client (its outcomes are the choices of the models that call
it); workspace paths; vSphere and KubeVirt roles (`ensureApplySupported` refuses them
before anything runs, which is modelled). Of the API types what is modelled is the
closure and the fields the other modules read.

Abstracted:

* Data no property reads: texts, YAML, manifests inside a unit's directory, the
  contents of secrets, addresses, versions, log and progress output.
* Inventory names are pairs of provider and host; the code joins them with `-`.
* Two providers that name one ssh address name one host.
* What is inside a role is one step that either completes or leaves any part of
  what it makes; the order of tasks inside a role matters to no property but
  `ImageOfConfig`, whose role has steps of its own.
* The end of a command ends its playbook: a child that outlives a killed parent is
  not modelled.
* The operator removes the files of a pair, both, only while no `generate` runs.
* In `SubscriptionWait` a cancelled context, which ends the wait at once, and an empty
  list of subscriptions, which succeeds at once.
* In `EnvironmentState`: YAML decoding and the refusal of misspelt fields; hyphens in
  names; the slash at the end of a mirror's URL; cpu, memory and disk of a machine are
  one number; two commands at once, which are `ScopeCommand`'s, whose rendered files are
  one value.
* In `BootstrapApply` a unit is one kubectl call: what a failed call left of a unit
  is one value, *partial*.

## 8. The plan

Done in this order: waves and their proofs; sorting; the expanded file; the
bootstrap with its proofs and refinement; render and push; waits; units; sources;
the pipeline over the expanded file; the fleet; secrets and scope commands; the
environment, from its documents to the installer's config; the full tree; CSVs that are
replaced; the theorems of the wait, of the secrets and of render and push; of the sort and
the full tree, the expanded file and the pipeline, the sources, the fleet and the state
directory; of the expansion and of the environment.

Next:

1. Hyphens in names, so that names the code joins may coincide in the environment as
   they do in `ExpandUnits`.
2. The dispatch of `all`; `status` file by file within a repository.
3. Theorems: the type invariant of `Fleet`.
4. An abstract specification of publishing (a history that only grows) refined by
   `RenderPublish`, and one of convergence refined by `Fleet`.
