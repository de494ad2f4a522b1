CONSTANTS
  p1 = p1
  p2 = p2
  a = a
  b = b
  r1 = r1
  r2 = r2
  r3 = r3
  w1 = w1
  w2 = w2
  None = None
  Process = {p1, p2}
  Reader = {r1, r2}
  Writer = {w1}
  User = {a}
  Key <- Reads
  Owner <- ReadsOwner
  Canonical <- Reads
  Cached <- CachedReads
  Lag <- ReplicaLag
  MaxEntries = 1
  TTL = 1
  Limit = 1
  MaxTime = 3
  MaxVersion = 2
  MaxRequests = 3
SYMMETRY Symmetric
SPECIFICATION Spec
INVARIANTS
  ReadYourWrites
  StalenessBounded
PROPERTIES
  CacheAdvances
