CONSTANTS
  ann = ann
  bob = bob
  eve = eve
  None = None
  Key = {ann, bob, eve}
  Unit = 5
  Rate = 3
  Burst = 2
  MaxKeys = 2
  IdleTTL = 4
  SweepEvery = 2
  MaxTime = 5
SYMMETRY Symmetric
SPECIFICATION Spec
INVARIANTS
  WindowBounded
PROPERTIES
  RetryAfterHonest
