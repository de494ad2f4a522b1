CONSTANTS
  DayLength = 118
  OpenTime = 2
  CloseTime = 77
  TradingDays <- MCTradingDays
  MaxStale = 18
  CloseGrace = 4
  FutureSkew = 1
  Off = Off
  TickInterval = 12
  FinalQuoteDelay = 1
  MaxCycle = 3
  QuoteDelay = 3
  FirstAttempt = 80
  RetryUntil = 107
  RetryInterval = 6
  MaxAttempt = 17
  MaxTime = 375
  MaxSetbacks = 1
SPECIFICATION JobsSpec
INVARIANTS
  FreshWhenQuiet
  RetriesToTheEnd
PROPERTIES
  FreshStays
  OncePerDate
