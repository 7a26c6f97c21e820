----------------------------- MODULE OciSources -----------------------------
(***************************************************************************)
(* The OCI package sources of a package set: the resolver every command    *)
(* registers (gitops/workflow/catalog.go), the pulls of                    *)
(* gitops/catalog/oci.go into the cache and the catalog that               *)
(* gitops/catalog/catalog.go reads from it.  oras and the registries are   *)
(* outside: a pull writes the files of an artifact one by one.             *)
(***************************************************************************)
EXTENDS Integers, FiniteSets, Sequences

CONSTANTS Names,    \* package names
          Files,    \* files of a package, "package.yaml" and "install" among them
          Digest,   \* package name -> digest of its artifact
          Declared, \* the package sets: sequences of sources, [digest |-> ...,
                    \*   selects |-> names the set uses, offers |-> names the registry has]
          Whole,    \* whether pulls run to their end
          MaxCmds   \* bound: commands started

VARIABLES sources,  \* the package set's spec.sources
          pulls,    \* PackageNames of the registered "oci" resolver
          cache,    \* source -> package -> files under its directory
          pc, src,  \* where the command is; the source it resolves
          todo,     \* packages still to be pulled of that source
          entries,  \* the catalog: pairs <<source, package>>
          cmds

vars == <<sources, pulls, cache, pc, src, todo, entries, cmds>>

Sources == DOMAIN sources

(* Two sources of one registry and digest share a root (encodeRef); here    *)
(* every source has its own registry.                                       *)
Empty == [n \in Names |-> {}]

Init ==
  /\ sources \in Declared
  /\ cache = [i \in Sources |-> Empty]
  /\ pulls = {} /\ pc = "idle" /\ src = 0 /\ todo = {} /\ entries = {} /\ cmds = 0

Resting == {"idle", "built", "failed"}

(* RegisterSourceResolvers: one resolver per kind, each source registers    *)
(* its own over the last one's.                                             *)
Register ==
  /\ pc \in Resting /\ cmds < MaxCmds
  /\ cmds' = cmds + 1
  /\ pulls' = sources[Len(sources)].selects
  /\ pc' = "resolve" /\ src' = 1 /\ entries' = {}
  /\ UNCHANGED <<sources, cache, todo>>

Complete(i, n) == "package.yaml" \in cache[i][n]

ResolveByDirectory ==
  /\ pc = "resolve"
  /\ IF pulls = {}
     THEN pc' = "failed" /\ UNCHANGED todo
     ELSE pc' = "pull" /\ todo' = {n \in pulls : cache[src][n] = {}}
  /\ UNCHANGED <<sources, pulls, cache, src, entries, cmds>>

(* Resolve: packages whose package.yaml is there are not pulled again.      *)
Resolve ==
  /\ pc = "resolve"
  /\ IF pulls = {}
     THEN pc' = "failed" /\ UNCHANGED todo
     ELSE pc' = "pull" /\ todo' = {n \in pulls : ~ Complete(src, n)}
  /\ UNCHANGED <<sources, pulls, cache, src, entries, cmds>>

(* The registry has the package under that digest.                          *)
Served(i, n) == n \in sources[i].offers /\ Digest[n] = sources[i].digest

(* oras pull, package after package: the artifact is there or the command   *)
(* fails; the pull ends, or it is cut and the command fails with some of    *)
(* the files written.                                                       *)
Pull(n) ==
  /\ pc = "pull" /\ n \in todo
  /\ \/ /\ Served(src, n)
        /\ cache' = [cache EXCEPT ![src][n] = Files]
        /\ todo' = todo \ {n} /\ UNCHANGED pc
     \/ /\ Served(src, n) /\ ~ Whole
        /\ \E some \in SUBSET Files : cache' = [cache EXCEPT ![src][n] = @ \cup some]
        /\ pc' = "failed" /\ UNCHANGED todo
     \/ /\ ~ Served(src, n)
        /\ pc' = "failed" /\ UNCHANGED <<cache, todo>>
  /\ UNCHANGED <<sources, pulls, src, entries, cmds>>

(* loadFilesystemSource: a directory without package.yaml is no package.    *)
Loadable(i) == {n \in Names : Complete(i, n)}

(* The root's packages enter the catalog, unless one lacks its install      *)
(* descriptor; the next source is resolved.                                 *)
LoadSource ==
  /\ pc = "pull" /\ todo = {}
  /\ IF \E n \in Loadable(src) : "install" \notin cache[src][n]
     THEN pc' = "failed" /\ UNCHANGED <<src, entries>>
     ELSE /\ entries' = entries \cup ({src} \X Loadable(src))
          /\ IF src = Len(sources) THEN pc' = "built" /\ UNCHANGED src
             ELSE pc' = "resolve" /\ src' = src + 1
  /\ UNCHANGED <<sources, pulls, cache, todo, cmds>>

(* The user deletes the cache between two commands.                         *)
Wipe ==
  /\ pc \in Resting /\ \E i \in Sources : cache[i] # Empty
  /\ cache' = [i \in Sources |-> Empty]
  /\ pc' = "idle" /\ entries' = {}
  /\ UNCHANGED <<sources, pulls, src, todo, cmds>>

Next == Register \/ Resolve \/ (\E n \in Names : Pull(n)) \/ LoadSource \/ Wipe

Spec == Init /\ [][Next]_vars

-----------------------------------------------------------------------------
(* What is to be pulled is what was registered, and entries are packages    *)
(* of sources already read.                                                 *)
TypeOK ==
  /\ cache \in [Sources -> [Names -> SUBSET Files]]
  /\ pc \in Resting \cup {"resolve", "pull"} /\ src \in 0..Len(sources) /\ cmds \in 0..MaxCmds
  /\ pc = "pull" => todo \subseteq pulls
  /\ pulls \subseteq Names /\ entries \subseteq (1..src) \X Names

(* A catalog that is built has every selected package of the last source,   *)
(* after pulls that were cut and directories they left half filled.         *)
LastSourceComplete ==
  pc = "built" => \A n \in sources[Len(sources)].selects :
                    <<Len(sources), n>> \in entries

(* "Package names extracted from the GitOpsPackageSet's templates"          *)
(* (specs/adr/0003-gitops-stage-merger.md:82-83): a source is asked for the *)
(* packages the set's templates select of it.                               *)
AsksForItsOwn == pc = "pull" => todo \subseteq sources[src].selects

(* "Per-package artifact pull via oras. Sources must be pinned by digest."  *)
(* (specs/gitops.md:108-109): a source pinned to a package it selects can   *)
(* be pulled.                                                               *)
EachPackagePullable ==
  (\A i \in Sources : \E n \in sources[i].selects : Served(i, n)) => pc # "failed"

(* "Pure derivative; safe to delete" (specs/gitops.md:120): a package the   *)
(* catalog takes from the cache is the artifact, as if the cache had been   *)
(* deleted first.                                                           *)
CacheIsDerivative ==
  pc = "built" => \A e \in entries : cache[e[1]][e[2]] = Files
=============================================================================
