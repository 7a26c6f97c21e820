SPECIFICATION Spec
CONSTANTS
    Fleets <- Defaults
    MaxRuns = 1
    MaxEdits = 1
    MaxISO = 2
INVARIANTS
    BalancersPlaced
CHECK_DEADLOCK FALSE
