CONSTANTS
  r1 = r1
  r2 = r2
  r3 = r3
  w0 = w0
  ann = ann
  bob = bob
  tcs = tcs
  k1 = k1
  k2 = k2
  None = None
  Request = {r1, r2}
  SeedId = {w0}
  Seed <- OneSeed
  User = {ann}
  Symbol = {tcs}
  Key = {k1, k2}
  Payload <- RetryPayloads
  Price = {1}
  MaxDay = 0
SPECIFICATION Spec
PROPERTIES
  AdjustmentRetryReplays
