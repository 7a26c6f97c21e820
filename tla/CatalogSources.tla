---------------------------- MODULE CatalogSources ----------------------------
(***************************************************************************)
(* The sources a catalog is built from (internal/gitops/catalog Build),    *)
(* of either kind: one git source that two terminals resolve (GitSource),  *)
(* or OCI sources one after the other (OciSources).  Sources of different  *)
(* kinds share neither directories nor resolvers, so a package set here    *)
(* has sources of one kind.                                                *)
(***************************************************************************)
EXTENDS GitSource, Sequences

CONSTANTS Names, Files, Digest, Declared, Whole   \* of OciSources

ASSUME OciAssumption ==
  /\ {"package.yaml", "install"} \subseteq Files
  /\ \A d \in Declared :
       /\ d # <<>> /\ d \in Seq({d[i] : i \in DOMAIN d})
       /\ \A i \in DOMAIN d :
            d[i].selects \subseteq d[i].offers /\ d[i].offers \subseteq Names

VARIABLES kind, sources, pulls, cache, step, src, todo, entries, builds

ociVars == <<sources, pulls, cache, step, src, todo, entries, builds>>

Oci == INSTANCE OciSources WITH pc <- step, cmds <- builds

\* resolverRegistry: the kind of a source selects its resolver.
CatalogInit ==
  /\ kind \in {"git", "oci"}
  /\ Init /\ (kind = "oci" => ref = [looks |-> "hex", is |-> "commit"])
  /\ Oci!Init /\ (kind = "git" => sources = CHOOSE d \in Declared : TRUE)

CatalogNext ==
  \/ kind = "git" /\ Next /\ UNCHANGED <<kind, ociVars>>
  \/ kind = "oci" /\ Oci!Next /\ UNCHANGED <<kind, vars>>

CatalogSpec == CatalogInit /\ [][CatalogNext]_<<kind, vars, ociVars>>

-------------------------------------------------------------------------------
(* A catalog that is built has every selected package of the last source    *)
(* (OciSources).                                                            *)
LastSourceComplete == Oci!LastSourceComplete

(* "Package names extracted from the GitOpsPackageSet's templates"          *)
(* (specs/adr/0003-gitops-stage-merger.md:82-83): a source is asked for the *)
(* packages the set's templates select of it.                               *)
AsksForItsOwn == Oci!AsksForItsOwn

(* "Sources must be pinned by digest." (specs/gitops.md:108-109): a source  *)
(* pinned to a package it selects can be pulled (OciSources).               *)
EachPackagePullable == Oci!EachPackagePullable

(* "Pure derivative; safe to delete" (specs/gitops.md:120), of what a cut   *)
(* pull leaves (OciSources).                                                *)
OciCacheIsDerivative == Oci!CacheIsDerivative
===============================================================================
