----------------------------- MODULE PriceSchedule -----------------------------
(* The price job's scheduler (price_updater.go): a timer on a grid of the     *)
(* session, one final quote after the close, a catch-up at the start, and     *)
(* cycles that run beside the timer, one at a time.  Only                     *)
(* MARKET_DATA_MARKET_HOURS_ONLY=true is modelled.                            *)
EXTENDS MarketPrice

CONSTANTS TickInterval, FinalQuoteDelay,
          MaxCycle,      \* a cycle ends within this time (assumed)
          QuoteDelay     \* a quote's time is at most this old when fetched (assumed)

VARIABLES next,   \* when the timer fires
          cycle   \* when the running cycle began, or Off

ASSUME PriceScheduleAssumption ==
  TickInterval \in Nat \ {0} /\ FinalQuoteDelay \in Nat /\ MaxCycle \in Nat /\ QuoteDelay \in Nat

Final(day) == SessionClose(day) + FinalQuoteDelay

\* Mutant: no final quote after the last tick of the session.
NextScheduledRunNoFinal(t) ==
  LET open == SessionOpen(Day(t))
      tick == open + ((t - open) \div TickInterval + 1) * TickInterval
  IN IF IsOpen(t) /\ tick < SessionClose(Day(t)) THEN tick ELSE NextSessionOpen(t)

NextScheduledRun(t) ==
  LET open == SessionOpen(Day(t))
      tick == open + ((t - open) \div TickInterval + 1) * TickInterval
  IN CASE ~IsTradingDay(Day(t)) \/ t < open \/ t >= Final(Day(t)) -> NextSessionOpen(t)
       [] IsOpen(t) /\ tick < SessionClose(Day(t))              -> tick
       [] OTHER                                                 -> Final(Day(t))

\* latest is what initializeCache found: the newest row of all symbols, or Off.
ShouldCatchUp(t, latest) ==
  /\ IsTradingDay(Day(t)) /\ t >= SessionOpen(Day(t))
  /\ latest = Off \/ ~Fresh(latest, t)

\* This symbol's row, another symbol's newer one, or the list failed.
Latest == {price, [source |-> "yahoo", at |-> LastTrade(now)], Off}

StartPrices ==
  /\ \E latest \in Latest : cycle' = IF ShouldCatchUp(now, latest) THEN now ELSE Off
  /\ next' = NextScheduledRun(now)

\* The timer fires: a new cycle, unless the last one still runs.
RunPrices ==
  /\ up /\ now >= next
  /\ cycle' = IF cycle = Off THEN now ELSE cycle
  /\ next' = NextScheduledRun(now)
  /\ UNCHANGED <<now, up, price>>

CycleSaves ==
  /\ cycle # Off
  /\ \E t \in (cycle - QuoteDelay)..cycle : price' = Saved([source |-> "yahoo", at |-> LastTrade(t)])
  /\ cycle' = Off
  /\ UNCHANGED <<now, up, next>>

\* The list, the fetch or the save failed, or the cycle panicked.
CycleFails ==
  /\ cycle # Off /\ cycle' = Off
  /\ UNCHANGED <<now, up, price, next>>

StopPrices == next' = 0 /\ cycle' = Off

PricesMayWait == (up => now < next) /\ (cycle # Off => now - cycle < MaxCycle)
=============================================================================
