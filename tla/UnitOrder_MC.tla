----------------------------- MODULE UnitOrder_MC -----------------------------
(* Five units: three collected, then those of one binding, the consumer's    *)
(* (4), which always depends on its provider's (5).  Unit i answers to name  *)
(* i.  Units 1 and 2 also answer to name 6, unit 1 twice, as an install      *)
(* whose instance is its package name does (<package>/install and            *)
(* <instance>/install coincide); 3 and 5 to name 7, as two resources of one  *)
(* package and template do; name 8 is nobody's.  The lists a descriptor may  *)
(* have are some of those that tell the cases apart.  The units are rendered *)
(* to three repositories; nothing is to the service-resources one.           *)
EXTENDS FullTree

MCNames == 1..8
MCEntries == <<<<1>>, <<2>>, <<3>>, <<>>, <<>>, <<1, 1, 2>>, <<3>>, <<>>>>
MCByName == <<{1}, {2}, {3}, {4}, {5}, {1, 2}, {3, 5}, {}>>
MCExtra == <<{}, {}, {}, {5}, {}>>
MCRepoOf == <<2, 1, 2, 1, 3>>
MCDepLists == {{}, {1}, {2}, {3}, {4}, {6}, {7}, {1, 3}, {1, 6}, {2, 4, 8}}
===============================================================================
