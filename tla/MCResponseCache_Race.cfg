CONSTANTS
  p1 = p1
  p2 = p2
  a = a
  b = b
  r1 = r1
  r2 = r2
  r3 = r3
  w1 = w1
  w2 = w2
  None = None
  Process = {p1}
  Reader = {r1, r2}
  Writer = {w1}
  User = {a}
  Key <- Pages
  Owner <- PagesOwner
  Canonical <- Pages
  Cached <- Pages
  Lag <- NoLag
  MaxEntries = 1
  TTL = 2
  Limit = 1
  MaxTime = 3
  MaxVersion = 3
  MaxRequests = 3
SPECIFICATION Spec
INVARIANTS
  EveryLocalWriteVisible
