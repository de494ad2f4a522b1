CONSTANTS
  split = split
  delist = delist
  stock = stock
  p1 = p1
  p2 = p2
  None = None
  Replica = {p1, p2}
  Event <- MCEvent
  Split <- MCSplit
  Delist <- MCDelist
  Reward <- MCReward
  Symbol <- MCSymbol
  SymbolOf <- MCSymbolOf
  Effective <- MCEffective
  Workload <- MCWorkload
  MaxDay = 2
  MaxTroubles = 1
SPECIFICATION FairSpec
INVARIANTS CashPosted RolledUp
PROPERTY TodayIsProcessed
CHECK_DEADLOCK FALSE
