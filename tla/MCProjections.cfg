CONSTANTS
  t1 = t1
  t2 = t2
  t3 = t3
  t4 = t4
  w1 = w1
  w2 = w2
  None = None
  User = {1, 2}
  Reward = {1, 2, 3, 4}
  Owner <- Owners
  Writer = {t1, t2, t3, t4}
  Kind <- AllKind
  Writes <- AllDo
  Worker = {w1, w2}
  Workload <- WritersAndQueue
  MaxAttempts = 2
  MaxCrashes = 1
  Fragile = {t1}
SPECIFICATION LiveSpec
INVARIANTS
  RewardStateComplete
  CheckedStays
  StaleIsQueued
PROPERTIES
  FanOutEnds
