\* An exited process takes no step.
CHECK_DEADLOCK FALSE
SPECIFICATION Spec
CONSTANTS
  Config <- MCConfig
  Request = {r1}
  Grace = 2
INVARIANTS

  NothingDropped


