SPECIFICATION Spec
CONSTANTS
    Fleets <- Distinct
    MaxRuns = 2
    MaxEdits = 1
    MaxISO = 2
INVARIANTS
    Converged
PROPERTIES
    ScopeIsolation
    DisksKept
    BootedOnlyBuilt
CHECK_DEADLOCK FALSE
