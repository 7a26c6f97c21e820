------------------------------ MODULE ExpandUnits ------------------------------
(***************************************************************************)
(* Which units `expand gitops` makes of a package set, and who applies     *)
(* them.  The source is loaded and merged with the set it extends          *)
(* (load.go), its repositories are turned into install and resource units  *)
(* (collectRefs), each binding adds a consumer and a provider unit per     *)
(* environment repository (resolveBindings), the controllers are wired in  *)
(* (resolveControllers), waves are computed, and the file is written.  The *)
(* next command loads that file back; `plan` and `apply` split its units   *)
(* between bootwright and the in-cluster controllers.                      *)
(*                                                                         *)
(* One step per phase, in the order of the code; the order of units inside *)
(* spec.resolved.packages is UnitOrder's.  Names are tuples of parts, so   *)
(* that joining them with "-" can make two different names equal.          *)
(***************************************************************************)
EXTENDS Integers, FiniteSets, Sequences

CONSTANTS PackageSets,  \* <<extended set or NoSet, package set>> a user may write
          Subst,    \* repository name -> output name, {{.Env}} substituted
          Catalog,  \* template -> package
          Bindings  \* binding name (a tuple) -> [cap, repo, inst]

ASSUME BindingsAssumption ==
  /\ IsFiniteSet(DOMAIN Bindings)
  /\ \A b \in DOMAIN Bindings : Bindings[b].repo \in DOMAIN Subst

\* The environment's key has no {{.Env}} in it: what a substitution made, another
\* leaves alone.
ASSUME SubstAssumption ==
  \A q, r \in DOMAIN Subst : Subst[q] = <<r>> => Subst[r] = <<r>>

\* A list: a sequence of its own entries.
IsList(s) == s \in Seq({s[k] : k \in DOMAIN s})

\* A repository, and a package set, as the YAML decoder hands them on.
IsRepository(repo) ==
  /\ repo.name \in DOMAIN Subst
  /\ IsList(repo.pkgs)
  /\ \A k \in DOMAIN repo.pkgs : IsFiniteSet(repo.pkgs[k].res)

IsPackageSet(p) == IsList(p.repos) /\ \A r \in DOMAIN p.repos : IsRepository(p.repos[r])

ASSUME PackageSetsAssumption == \A s \in PackageSets : IsPackageSet(s[1]) /\ IsPackageSet(s[2])

ASSUME CatalogAssumption == \A pkg \in DOMAIN Catalog : IsFiniteSet(Catalog[pkg].defaults)

NoSet == [repos |-> <<>>, krc |-> <<>>, src |-> <<>>]
NoCtl == <<>>
NoBinding == <<>>

VARIABLES pc, base, env, set, units, wave
unitVars == <<pc, base, env, set, units, wave>>

-------------------------------------------------------------------------------
(* The package set.  A repository is [name, kind, ref, pkgs], a selection   *)
(* in it [pkg, inst, role, res, bind], a controller <<repo, instance>>.     *)

Repo(p, name, kind) == {r \in 1..Len(p.repos) : p.repos[r].name = name /\ p.repos[r].kind = kind}
RepoNames(p) == {p.repos[r].name : r \in 1..Len(p.repos)}

Valid(p) ==
  /\ \A r, q \in 1..Len(p.repos) : p.repos[r].name = p.repos[q].name => r = q
  /\ \A r \in 1..Len(p.repos) :
       CASE p.repos[r].kind = "generic" ->
              /\ p.repos[r].pkgs # <<>>
              /\ \A k \in 1..Len(p.repos[r].pkgs) : p.repos[r].pkgs[k].res = {}
         [] p.repos[r].kind = "service" ->
              p.repos[r].pkgs = <<>> /\ p.repos[r].ref \in RepoNames(p)
         [] OTHER -> TRUE
  /\ \A c \in {p.krc, p.src} \ {<<>>} : c[1] \in RepoNames(p)

\* The entries of s at the positions I, in their order.
Sublist(s, I) ==
  [k \in 1..Cardinality(I) |-> s[CHOOSE i \in I : Cardinality({j \in I : j <= i}) = k]]

\* mergeGitOpsPackageSets: the env's repositories replace the base's of the same
\* name or follow them; the merged set is built from sources and repositories.
Merged(b, e) ==
  LET over(r) == {q \in 1..Len(e.repos) : e.repos[q].name = r.name}
      mine    == [r \in 1..Len(b.repos) |->
                    IF over(b.repos[r]) = {} THEN b.repos[r]
                    ELSE e.repos[CHOOSE q \in over(b.repos[r]) : TRUE]]
      new     == {q \in 1..Len(e.repos) : e.repos[q].name \notin RepoNames(b)}
  IN [repos |-> mine \o Sublist(e.repos, new),
      krc |-> <<>>, src |-> <<>>]

\* findProvider, findControllerPackage: the first generic repository of that
\* name, in it the first selection of that instance; one whose package is
\* unknown is passed over.
Selected(p, repo, inst) ==
  {sel \in UNION {{p.repos[r].pkgs[k] : k \in 1..Len(p.repos[r].pkgs)} : r \in Repo(p, repo, "generic")} :
     sel.pkg \in DOMAIN Catalog /\ sel.inst = inst}

EnvReposOf(p, repo) == {r \in 1..Len(p.repos) : p.repos[r].kind = "env" /\ p.repos[r].ref = repo}
OutputNames(p) == {Subst[p.repos[r].name] : r \in {q \in 1..Len(p.repos) : p.repos[q].kind # "service"}}

-------------------------------------------------------------------------------
(* Units.                                                                   *)

\* resourceInstance: the three names joined with "-".
ResourceInstance(inst, tmpl, name) == inst \o tmpl \o name

Unit(at, sel, repo) ==
  [at |-> at, pkg |-> sel.pkg, pkgInst |-> sel.inst, repo |-> repo,
   role |-> IF sel.role = "" THEN Catalog[sel.pkg].role ELSE sel.role,
   type |-> "install", inst |-> sel.inst, tmpl |-> <<>>, name |-> <<>>,
   ctl |-> NoCtl, bind |-> NoBinding, deps |-> Catalog[sel.pkg].deps]

Resource(at, sel, repo, tmpl, name) ==
  [Unit(at, sel, repo) EXCEPT
     !.type = "resource", !.inst = ResourceInstance(sel.inst, tmpl, name),
     !.tmpl = tmpl, !.name = name, !.deps = Catalog[sel.pkg].res[tmpl].deps]

\* An environment repository that selects nothing takes its generic one's packages.
Selections(p, r) ==
  LET repo == p.repos[r]
      gen  == Repo(p, repo.ref, "generic")
  IN IF repo.kind = "env" /\ repo.pkgs = <<>> /\ gen # {}
       THEN p.repos[CHOOSE g \in gen : TRUE].pkgs ELSE repo.pkgs

ResourcesOf(sel) == IF sel.res = {} THEN Catalog[sel.pkg].defaults ELSE sel.res

\* collectRefs.
Collected(p) ==
  UNION {LET repo == Subst[p.repos[r].name]
             sels == Selections(p, r)
         IN UNION {IF p.repos[r].kind = "generic" THEN {Unit(<<r, k>>, sels[k], repo)}
                   ELSE {Resource(<<r, k, x>>, sels[k], repo, x[1], x[2]) :
                           x \in ResourcesOf(sels[k])} : k \in 1..Len(sels)}
         : r \in {q \in 1..Len(p.repos) : p.repos[q].kind # "service"}}

Collectable(p) ==
  \A r \in 1..Len(p.repos) : p.repos[r].kind # "service" =>
    /\ p.repos[r].kind = "env" /\ p.repos[r].pkgs = <<>> => Repo(p, p.repos[r].ref, "generic") # {}
    /\ \A k \in 1..Len(Selections(p, r)) :
         LET sel == Selections(p, r)[k]
         IN /\ sel.pkg \in DOMAIN Catalog
            /\ p.repos[r].kind = "env" =>
                 \A x \in ResourcesOf(sel) : x[1] \in DOMAIN Catalog[sel.pkg].res

Distinct(U) == \A u, v \in U : u.inst = v.inst => u = v

\* buildPackageAliasIndex: what a dependsOn entry may call a unit.
Aliases(u) ==
  {<<"instance", u.inst>>} \cup
  (IF u.type = "install" THEN {<<"install", n>> : n \in {<<u.pkg>>, u.pkgInst}}
   ELSE UNION {{<<"resources", n, u.tmpl>>, <<"resources", n, u.tmpl, u.name>>} :
                 n \in {<<u.pkg>>, u.pkgInst}})

DependsOn(u, U) == {v \in U \ {u} : Aliases(v) \cap u.deps # {}}

\* layer[k]: the units whose dependency paths are shorter than k.
Layers(U) ==
  LET needs == [u \in U |-> DependsOn(u, U)]
      layer[k \in 0..Cardinality(U)] ==
        IF k = 0 THEN {}
        ELSE LET below == layer[k - 1] IN {u \in U : needs[u] \subseteq below}
  IN layer

Acyclic(U) == Layers(U)[Cardinality(U)] = U
\* computeApplyWaves: the longest path (ApplyWaves).
Waves(U) ==
  LET layer == Layers(U)
  IN [u \in U |-> CHOOSE k \in 0..Cardinality(U) : u \in layer[k + 1] \ layer[k]]

-------------------------------------------------------------------------------
(* Bindings.                                                                *)

BoundIn(p, r, k) == {<<r, k, b>> : b \in p.repos[r].pkgs[k].bind \cap DOMAIN Bindings}
Bound(p) ==
  UNION {UNION {BoundIn(p, r, k) : k \in 1..Len(p.repos[r].pkgs)} : r \in 1..Len(p.repos)}

\* The checks of resolveBindings, before it makes the units of binding x.
Bindable(p, U, x) ==
  LET b == Bindings[x[3]]
      consumer == Catalog[p.repos[x[1]].pkgs[x[2]].pkg]
      provider == Selected(p, b.repo, b.inst)
  IN /\ p.repos[x[1]].pkgs[x[2]].pkg \in DOMAIN Catalog
     /\ \A y \in Bound(p) : y[3] = x[3] => y = x
     /\ b.cap \in DOMAIN consumer.requires
     /\ consumer.requires[b.cap] \in DOMAIN consumer.res
     /\ provider # {}
     /\ \A q \in provider : /\ b.cap \in DOMAIN Catalog[q.pkg].provides
                            /\ Catalog[q.pkg].provides[b.cap] \in DOMAIN Catalog[q.pkg].res
     /\ EnvReposOf(p, b.repo) # {}
     /\ \E u \in U : u.type = "install" /\ u.inst = b.inst

\* Mutant of BindingUnits: the dependency uses the binding's name without the
\* suffix of the environment repository.
BindingUnitsUnsuffixed(p, x) ==
  LET b == Bindings[x[3]]
      consumer == p.repos[x[1]].pkgs[x[2]]
      provider == CHOOSE q \in Selected(p, b.repo, b.inst) : TRUE
      ctmpl == Catalog[consumer.pkg].requires[b.cap]
      ptmpl == Catalog[provider.pkg].provides[b.cap]
  IN UNION {LET home == Subst[p.repos[e].name]
                name == x[3] \o home
                c == Resource(<<x, e, "consumer">>, consumer, Subst[p.repos[x[1]].name], ctmpl, name)
                q == Resource(<<x, e, "provider">>, provider, home, ptmpl, name)
            IN {[c EXCEPT !.bind = <<x[3], "consumer">>, !.role = Catalog[consumer.pkg].role,
                          !.deps = @ \cup {<<"resources", b.inst, ptmpl, x[3]>>}],
                [q EXCEPT !.bind = <<x[3], "provider">>, !.role = Catalog[provider.pkg].role]}
            : e \in EnvReposOf(p, b.repo)}

\* A consumer unit beside the consumer, a provider unit in each environment
\* repository of the provider's, the first depending on the second.
BindingUnits(p, x) ==
  LET b == Bindings[x[3]]
      consumer == p.repos[x[1]].pkgs[x[2]]
      provider == CHOOSE q \in Selected(p, b.repo, b.inst) : TRUE
      ctmpl == Catalog[consumer.pkg].requires[b.cap]
      ptmpl == Catalog[provider.pkg].provides[b.cap]
  IN UNION {LET home == Subst[p.repos[e].name]
                name == x[3] \o home
                c == Resource(<<x, e, "consumer">>, consumer, Subst[p.repos[x[1]].name], ctmpl, name)
                q == Resource(<<x, e, "provider">>, provider, home, ptmpl, name)
            IN {[c EXCEPT !.bind = <<x[3], "consumer">>, !.role = Catalog[consumer.pkg].role,
                          !.deps = @ \cup {<<"resources", b.inst, ptmpl, name>>}],
                [q EXCEPT !.bind = <<x[3], "provider">>, !.role = Catalog[provider.pkg].role]}
            : e \in EnvReposOf(p, b.repo)}

-------------------------------------------------------------------------------
(* Controllers.                                                             *)

IsScript(u) == u.type = "resource" /\ Catalog[u.pkg].res[u.tmpl].script

\* rewireManagedScripts, then rewireSRCIntents.
Rewired(p, U) ==
  LET src == IF p.src = <<>> THEN {} ELSE Selected(p, p.src[1], p.src[2])
      intent(u) == u.type = "resource" /\ \E q \in src : u.tmpl \in Catalog[q.pkg].intents
  IN {IF IsScript(u) THEN [u EXCEPT !.ctl = <<"src", "managed-script">>]
      ELSE IF intent(u) THEN [u EXCEPT !.ctl = <<"src", u.tmpl>>] ELSE u : u \in U}

\* Mutant of ManagedRepos: the repositories named in the environment's own
\* repositories only.
ManagedReposEnvOnly(p) ==
  LET krc == CHOOSE q \in Selected(p, p.krc[1], p.krc[2]) : TRUE
  IN {[Unit(<<"krc", e, target>>, krc, Subst[p.repos[e].name]) EXCEPT
         !.type = "resource", !.role = Catalog[krc.pkg].role,
         !.inst = ResourceInstance(krc.inst, <<"managed-repo">>, target),
         !.tmpl = <<"managed-repo">>, !.name = target,
         !.deps = Catalog[krc.pkg].managed.deps, !.ctl = <<"krc", "managed-repo">>]
      : e \in EnvReposOf(p, p.krc[1]),
        target \in {Subst[p.repos[r].name] : r \in {q \in 1..Len(p.repos) : p.repos[q].kind = "env"}}}

\* The managed-repo units: per environment repository of the KRC's repository,
\* one for each output repository but the KRC's own, compared by name.
ManagedRepos(p) ==
  LET krc == CHOOSE q \in Selected(p, p.krc[1], p.krc[2]) : TRUE
  IN {[Unit(<<"krc", e, target>>, krc, Subst[p.repos[e].name]) EXCEPT
         !.type = "resource", !.role = Catalog[krc.pkg].role,
         !.inst = ResourceInstance(krc.inst, <<"managed-repo">>, target),
         !.tmpl = <<"managed-repo">>, !.name = target,
         !.deps = Catalog[krc.pkg].managed.deps, !.ctl = <<"krc", "managed-repo">>]
      : e \in EnvReposOf(p, p.krc[1]), target \in OutputNames(p) \ {<<p.krc[1]>>}}

\* The errors of resolveControllers.
Controllable(p, U) ==
  LET krc == Selected(p, p.krc[1], p.krc[2])
      src == Selected(p, p.src[1], p.src[2])
      scripts == \E u \in U : IsScript(u)
  IN /\ scripts => p.src # <<>>
     /\ p.src # <<>> => src # {}
     /\ scripts => \A q \in src : Catalog[q.pkg].role = "src" /\ Catalog[q.pkg].runsScripts
     /\ p.krc # <<>> =>
          /\ krc # {}
          /\ \A q \in krc : Catalog[q.pkg].role = "krc" /\ Catalog[q.pkg].managed.there
          /\ EnvReposOf(p, p.krc[1]) # {}

-------------------------------------------------------------------------------
UnitsInit ==
  /\ pc = "source"
  /\ \E s \in PackageSets : base = s[1] /\ env = s[2]
  /\ set = NoSet /\ units = {} /\ wave = <<>>

\* A phase continues when its checks pass; an error ends the command.
Phase(from, ok, to) ==
  /\ pc = from
  /\ pc' = IF ok THEN to ELSE "refused"

LoadSource ==
  /\ Phase("source", Valid(env) /\ (base # NoSet => Valid(base)), "collect")
  /\ set' = IF base = NoSet THEN env ELSE Merged(base, env)
  /\ UNCHANGED <<base, env, units, wave>>

Collect ==
  /\ Phase("collect", /\ Collectable(set) /\ Collected(set) # {} /\ Distinct(Collected(set))
                      /\ Acyclic(Collected(set)), "bind")
  /\ units' = IF pc' = "bind" THEN Collected(set) ELSE {}
  /\ UNCHANGED <<base, env, set, wave>>

Bind ==
  /\ Phase("bind", \A x \in Bound(set) : Bindable(set, units, x), "control")
  /\ units' = IF pc' = "control" THEN units \cup UNION {BindingUnits(set, x) : x \in Bound(set)}
              ELSE {}
  /\ UNCHANGED <<base, env, set, wave>>

Control ==
  /\ Phase("control", Controllable(set, units), "wave")
  /\ units' = IF pc' = "wave"
                THEN Rewired(set, units) \cup (IF set.krc = <<>> THEN {} ELSE ManagedRepos(set))
                ELSE {}
  /\ UNCHANGED <<base, env, set, wave>>

\* computeApplyWaves, then the file is written.
Wave ==
  /\ Phase("wave", Acyclic(units), "written")
  /\ wave' = IF pc' = "written" THEN Waves(units) ELSE <<>>
  /\ UNCHANGED <<base, env, set, units>>

\* Mutant of LoadExpanded: the file is taken as it is.
LoadExpandedUnchecked ==
  /\ pc = "written"
  /\ pc' = "loaded"
  /\ UNCHANGED <<base, env, set, units, wave>>

\* ValidateExpandedPackageSet, in whatever command comes next.
LoadExpanded ==
  /\ pc = "written"
  /\ pc' = IF Distinct(units) THEN "loaded" ELSE "unloadable"
  /\ UNCHANGED <<base, env, set, units, wave>>

UnitsNext == LoadSource \/ Collect \/ Bind \/ Control \/ Wave \/ LoadExpanded

UnitsSpec == UnitsInit /\ [][UnitsNext]_unitVars

-------------------------------------------------------------------------------
(* plan and apply read the controllers from the package set as the user     *)
(* wrote it, the units from the expanded file.                              *)

\* BootstrapSubset.
Direct(u) == u.type = "install" \/ u.ctl # NoCtl \/ u.role \in {"krc", "src"}

PlanMode  == IF env.krc = <<>> /\ env.src = <<>> THEN "full" ELSE "bootstrap"
ApplyMode == IF env.krc = <<>> THEN "refused"
             ELSE IF env.src = <<>> THEN "full" ELSE "bootstrap"

\* The repositories the KRC is told to reconcile.
Reconciled == {u.name : u \in {v \in units : v.ctl = <<"krc", "managed-repo">>}}

-------------------------------------------------------------------------------
UnitsTypeOK ==
  /\ pc \in {"source", "collect", "bind", "control", "wave", "written",
             "loaded", "unloadable", "refused"}
  /\ \E s \in PackageSets : base = s[1] /\ env = s[2]
  /\ \A u \in units : u.pkg \in DOMAIN Catalog /\ u.type \in {"install", "resource"}
  /\ pc \in {"written", "loaded", "unloadable"} => DOMAIN wave = units

(* A consumer's unit of a binding is applied in a later wave than the       *)
(* provider's unit of the same environment repository: the name the         *)
(* dependency was given is a name the provider's unit answers to.           *)
BindingsOrdered ==
  pc = "loaded" =>
    \A c \in units : c.bind # NoBinding /\ c.bind[2] = "consumer" =>
      \E q \in units : /\ q.bind = <<c.bind[1], "provider">> /\ q.name = c.name
                       /\ wave[q] < wave[c]

(* With a KRC no unit of the expanded set is rendered into a repository     *)
(* nobody reconciles, the repository the KRC is installed from aside.       *)
ReposReconciled ==
  pc = "loaded" /\ set.krc # <<>> =>
    {u.repo : u \in units} \ Reconciled \subseteq {Subst[set.krc[1]]}

(* No two units of a file that loads are rendered to the same directory.    *)
DirsDistinct ==
  pc = "loaded" =>
    \A u, v \in units : (u.repo = v.repo /\ u.pkgInst = v.pkgInst /\ u.type = v.type
                         /\ u.tmpl = v.tmpl /\ u.name = v.name) => u = v

-------------------------------------------------------------------------------
(* What the repository says and the code does not do.                       *)

(* "duplicate instance" is refused by load (load.go:546) and, for selected  *)
(* packages, by expand: a file expand writes loads.                         *)
WrittenLoads == pc # "unloadable"

(* "KRC cannot reconcile its own install; bootstrap applies it directly."   *)
(* (controllers.go:81)                                                      *)
KRCNotItsOwn ==
  pc = "loaded" /\ set.krc # <<>> => Subst[set.krc[1]] \notin Reconciled

(* "spec.controllers... assigns KRC/SRC roles to selected package           *)
(* instances" (specs/gitops.md:42): the assignment is in the expanded set.  *)
ControllersKept == pc = "loaded" => set.krc = env.krc /\ set.src = env.src

(* "deferred to KRC ... land after handoff" (gitops_plan_fill.go:95): a     *)
(* unit the bootstrap defers is in a repository the KRC reconciles.         *)
DeferredLand ==
  pc = "loaded" /\ base = NoSet /\ ApplyMode = "bootstrap" =>
    \A u \in units : Direct(u) \/ u.repo \in Reconciled

(* "Print the ordered apply plan" (gitops_plan_fill.go:27): the plan is of  *)
(* the mode the apply runs in.                                              *)
PlanTellsApply == pc = "loaded" /\ ApplyMode # "refused" => PlanMode = ApplyMode
===============================================================================
