SPECIFICATION Spec
CONSTANTS
  Sessions = {1}
  MaxCmds = 3
  MaxCommits = 3
  Kills = FALSE
INVARIANT LoadsTheRef
CHECK_DEADLOCK FALSE
