SPECIFICATION Spec
CONSTANTS
    t1 = t1
    t2 = t2
    Terminals <- TwoTerminals
    PartsOf <- TwoBuilds
    ClusterList <- TwoClusters
    MaxCommands = 3
    MaxWant = 1
    Kinds = {"change"}
SYMMETRY EitherTerminal
INVARIANTS PairMatches OwnInputs
PROPERTIES PairKept
CHECK_DEADLOCK FALSE
