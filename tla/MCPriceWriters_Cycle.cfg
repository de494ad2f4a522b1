\* The bounded cycles, a successful attempt and the backfill all end.
CHECK_DEADLOCK FALSE
SPECIFICATION FairSpec
CONSTANTS
  a = a
  b = b
  None = None
  Symbol = {a, b}
  Listed <- MCListed
  Worker = {w1, w2}
  DBMaxConcurrent = 1
  Live <- MCLive
  Close <- MCClose
  AttemptDate = 1
  Days <- MCDays
  MaxCycles = 1
  Quote <- MCQuote
  Instant <- MCInstant
  MarketDate <- MCDate
  Seed <- MCSeed
INVARIANTS
  FailuresShow
  OfficialStands
PROPERTY CycleEnds
