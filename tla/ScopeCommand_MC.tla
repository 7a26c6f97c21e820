--------------------------- MODULE ScopeCommand_MC ---------------------------
(* ScopeCommand on two terminals, two builds and two clusters.             *)
EXTENDS ScopeCommand, TLC

CONSTANTS t1, t2

TwoTerminals == {t1, t2}
EitherTerminal == Permutations(TwoTerminals)

\* The second build has lost a file.
TwoBuilds == [old |-> <<"cfg", "role">>, new |-> <<"cfg">>]
TwoClusters == <<"a", "b">>
=============================================================================
