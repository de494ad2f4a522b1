\* An exited process takes no step.
CHECK_DEADLOCK FALSE
SPECIFICATION FairSpec
CONSTANTS
  Config <- MCConfig
  Request = {r1}
  Grace = 2
INVARIANTS
  PoolsOutliveUsers
  OrderlyExit
PROPERTY StopsWhenTold
