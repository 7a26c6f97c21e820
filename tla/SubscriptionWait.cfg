CONSTANTS
  Subs = 3
  Versions = 2
  Timeout = 6
  Interval = 2
  CallTime = 1
  MaxPods = 2
SPECIFICATION FairWaitSpec
INVARIANT WithinBudget
PROPERTY Ends
CHECK_DEADLOCK FALSE
