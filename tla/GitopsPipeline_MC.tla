--------------------------- MODULE GitopsPipeline_MC ---------------------------
(* One unit with two inputs: a fill of one of them leaves the unit's entries *)
(* in the placeholder list as long as the other holds the sentinel.          *)
EXTENDS GitopsPipeline

CONSTANTS input, token, install, v1, v2, s1

MCConsumerLeaf == [e \in {} |-> e]
MCFromInput == [e \in {} |-> e]
MCUnit == [l \in {input, token} |-> install]
===============================================================================
