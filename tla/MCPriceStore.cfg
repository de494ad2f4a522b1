CONSTANTS
  s1 = s1
  s2 = s2
  None = None
  Saver = {s1, s2}
  Quote <- MCQuote
  Instant <- MCInstant
  MarketDate <- MCDate
  Seed <- MCSeed
  FutureSkew = 1
  MaxAge = 2
  MaxTime = 3
SYMMETRY Symmetric
SPECIFICATION Spec
INVARIANT RowsAreBest
PROPERTY ImplementsAtomicStore
