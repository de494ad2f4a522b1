CONSTANTS
  t1 = t1
  t2 = t2
  t3 = t3
  t4 = t4
  w1 = w1
  w2 = w2
  None = None
  User = {1, 2}
  Reward = {1, 2, 3, 4}
  Owner <- Owners
  Writer = {t3, t4}
  Kind <- EventsKind
  Writes <- EventsDo
  Worker = {w1}
  Workload <- Queued
  MaxAttempts = 1
  MaxCrashes = 0
  Fragile = {}
SPECIFICATION Spec
INVARIANTS
  StaleIsQueued
