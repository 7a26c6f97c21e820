-------------------------- MODULE BootstrapApply_MC --------------------------
(* A bootstrap with three waves, instance names in no particular order:      *)
(*   1  the SRC's consumer side of a binding, wave 2, depends on 4           *)
(*   2  the KRC's install, wave 0, brings crdKRC                             *)
(*   3  a managed-script unit of the SRC, wave 1                             *)
(*   4  the provider side of the binding, wave 1, deferred to the KRC        *)
(*   5  an operator installed by OLM, wave 0, brings crdOlm                  *)
(*   6  a managed-repo unit of the KRC, wave 1, needs crdKRC                 *)
EXTENDS BootstrapApply

CONSTANTS crdKRC, crdOlm

MCWave == [u \in 1..6 |-> CASE u \in {2, 5} -> 0 [] u \in {3, 4, 6} -> 1 [] u = 1 -> 2]
MCDependsOn == [u \in 1..6 |-> CASE u = 1 -> {4} [] u = 4 -> {5} [] u = 6 -> {2} [] OTHER -> {}]
MCNeeds == [u \in 1..6 |-> CASE u \in {1, 4} -> {crdOlm} [] u = 6 -> {crdKRC} [] OTHER -> {}]
MCBrings == [u \in 1..6 |-> CASE u = 2 -> {crdKRC} [] u = 5 -> {crdOlm} [] OTHER -> {}]
===============================================================================
