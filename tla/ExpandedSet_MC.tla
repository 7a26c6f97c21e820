---------------------------- MODULE ExpandedSet_MC ----------------------------
(* An install unit with one input that one export reads, and a binding with  *)
(* two exports, a secret placeholder and the input, consumed or not.         *)
EXTENDS ExpandedSet, TLC

CONSTANTS input, secret, url, consumerSecret, consumerUrl,
          install, provider, consumer, v1, v2, s1, s2

\* Two sessions are interchangeable.
SessionSymmetry == Permutations(Sessions)

MCConsumerLeaf == [e \in Consumed |->
                     IF e = secret THEN consumerSecret ELSE consumerUrl]
MCFromInput == [e \in {url} |-> input]
MCUnit == [l \in Leaves |->
             CASE l = input            -> install
               [] l \in {secret, url}  -> provider
               [] OTHER                -> consumer]
===============================================================================
