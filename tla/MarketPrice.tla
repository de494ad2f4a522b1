------------------------------ MODULE MarketPrice ------------------------------
(* What the worker process's market jobs share: the clock, the process and    *)
(* the stored current price of one symbol (its stock_prices row).             *)
EXTENDS MarketCalendar

CONSTANT Off     \* not running

VARIABLES now,   \* the time
          up,    \* the worker process runs
          price  \* the row [source, at], at = the quote's time

ASSUME OffAssumption == Off \notin Nat

Row == [source: {"seed", "yahoo", "bhavcopy"}, at: Nat]

\* upsertCurrentPriceSQL: a later quote, and the official close over its date.
Accepts(q) ==
  LET sameDate == Day(q.at) = Day(price.at)
  IN /\ price.source = "seed" \/ q.at > price.at \/ (q.source = "bhavcopy" /\ sameDate)
     /\ ~(q.source # "bhavcopy" /\ price.source = "bhavcopy" /\ sameDate)

\* The row after q was offered to the store.
Saved(q) == IF Accepts(q) THEN q ELSE price

\* The instant of the last trade at t, which is what a provider reports.
LastTrade(t) == IF IsOpen(t) THEN t ELSE LastCompletedSessionClose(t)
=============================================================================
