CONSTANTS
  r1 = r1
  r2 = r2
  r3 = r3
  w0 = w0
  ann = ann
  bob = bob
  tcs = tcs
  k1 = k1
  k2 = k2
  None = None
  Request = {r1, r2, r3}
  SeedId = {w0}
  Seed <- OneSeed
  User = {ann}
  Symbol = {tcs}
  Key = {k1, k2}
  Payload <- AllPayloads
  Price = {0, 1, 2}
  MaxDay = 1
SYMMETRY MCSymmetry
SPECIFICATION Spec
INVARIANTS
  OneEffect
  AdjustmentsAddUp
  SuccessIsBooked
  StockUnitsAgree
  NoWaitCycle
PROPERTIES
  GrantRetryReplays
  ImplementsAtomicLedger
