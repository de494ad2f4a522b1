CONSTANTS
  User = {1}
  Reward = {1, 4}
  Symbol = {"A", "B", "C"}
  Owner <- GrantOwner
  Origin <- GrantOrigin
  Successor <- MCSuccessor
  Future = {}
  Writer <- GrantWriter
  Kind <- GrantKind
  On <- GrantOn
  Before = {}
  Command = {"backfill"}
  Mode <- GrantMode
  BatchSize = 2
  UserBatch = 1
  MaxRuns = 2
  Drifts = {}
  None = None
SPECIFICATION RebuildSpec
INVARIANT OnlineIsSafe
CHECK_DEADLOCK FALSE
