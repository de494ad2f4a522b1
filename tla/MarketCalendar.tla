---------------------------- MODULE MarketCalendar ----------------------------
(* The NSE calendar and the freshness of a price (marketcal).  An instant is *)
(* a number of time units; a day has DayLength of them.                      *)
EXTENDS Integers, FiniteSetsExt

CONSTANTS DayLength,
          OpenTime, CloseTime,   \* the session's clock times, close excluded
          TradingDays,           \* the days that are neither weekend nor holiday
          MaxStale, CloseGrace, FutureSkew

ASSUME CalendarAssumption ==
  /\ DayLength \in Nat /\ OpenTime \in Nat /\ CloseTime \in Nat
  /\ OpenTime < CloseTime /\ CloseTime < DayLength
  /\ TradingDays \subseteq Nat
ASSUME PolicyAssumption == MaxStale \in Nat /\ CloseGrace \in Nat /\ FutureSkew \in Nat

Day(t) == t \div DayLength
At(day, clock) == day * DayLength + clock
IsTradingDay(day) == day \in TradingDays
SessionOpen(day) == At(day, OpenTime)
SessionClose(day) == At(day, CloseTime)
IsOpen(t) == IsTradingDay(Day(t)) /\ SessionOpen(Day(t)) <= t /\ t < SessionClose(Day(t))

NextTradingDay(day) == Min({d \in TradingDays : d >= day})
PreviousTradingDay(day) == Max({d \in TradingDays : d < day})

\* Mutant: the day before, whether it traded or not.
LastCompletedYesterday(t) ==
  IF IsTradingDay(Day(t)) /\ t >= SessionClose(Day(t))
    THEN SessionClose(Day(t)) ELSE SessionClose(Day(t) - 1)

LastCompletedSessionClose(t) ==
  IF IsTradingDay(Day(t)) /\ t >= SessionClose(Day(t))
    THEN SessionClose(Day(t)) ELSE SessionClose(PreviousTradingDay(Day(t)))

NextSessionOpen(t) ==
  IF IsTradingDay(Day(t)) /\ t <= SessionOpen(Day(t))
    THEN SessionOpen(Day(t)) ELSE SessionOpen(NextTradingDay(Day(t) + 1))

\* The oldest quote time that is fresh at t.
FreshFrom(t) ==
  IF IsOpen(t) THEN Max({SessionOpen(Day(t)), t - MaxStale})
               ELSE LastCompletedSessionClose(t) - CloseGrace

\* A row without a market source is unknown, never fresh.
Fresh(row, t) == /\ row.source # "seed"
                 /\ FreshFrom(t) <= row.at /\ row.at <= t + FutureSkew
=============================================================================
