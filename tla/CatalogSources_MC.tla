-------------------------- MODULE CatalogSources_MC --------------------------
(* Package sets of one or two OCI sources over two packages for TLC.        *)
EXTENDS CatalogSources, Sequences

MCDigest == [n \in Names |-> n]

(* A source of one package or none, of a registry that may have another.    *)
MCSource == {[digest |-> n, selects |-> {n}, offers |-> {n} \cup more] :
               n \in Names, more \in SUBSET Names}
            \cup {[digest |-> n, selects |-> {}, offers |-> Names] : n \in Names}

MCSets == {<<a>> : a \in MCSource} \cup {<<a, b>> : a \in MCSource, b \in MCSource}

MCApart == {d \in MCSets : Len(d) = 2 /\ \A i \in 1..2 : d[i].selects # {}}

MCPairs == {<<[digest |-> n, selects |-> {n, k}, offers |-> Names]>> : n \in Names, k \in Names}
=============================================================================
