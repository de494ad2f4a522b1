\* A finished fetch takes no step, and the clock is bounded.
CHECK_DEADLOCK FALSE
SPECIFICATION FairSpec
CONSTANTS
  Getter = {g1, g2}
  Attempts = 3
  Interval = 2
  RetryBase = 1
  MaxRetryDelay = 2
  MaxRetryAfter = 3
  RetryAfters <- MCRetryAfters
  Wrap = 100
  FetchMaxTime = 6
INVARIANTS
  SlotsSpaced
PROPERTIES
  BackoffHonoured
  CancelEndsFetches
