CONSTANTS
  User <- MCUser
  Reward <- MCReward
  Symbol = {"A", "B", "C"}
  Owner <- MCOwner
  Origin <- MCOrigin
  Successor <- MCSuccessor
  Future <- MCFuture
  Writer <- MCWriter
  Kind <- MCKind
  On <- MCOn
  Before <- MCBefore
  Command <- MCCommand
  Mode <- MCMode
  BatchSize = 2
  UserBatch = 1
  MaxRuns = 2
  Drifts <- MCDrifts
  None = None
SPECIFICATION RebuildSpec
INVARIANTS LiveWritesStand SwitchedIsComplete
PROPERTY RepairIsComplete
CHECK_DEADLOCK FALSE
