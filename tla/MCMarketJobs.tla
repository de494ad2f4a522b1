------------------------------ MODULE MCMarketJobs ------------------------------
(* A trading day, a holiday and a trading day, in units of five minutes with   *)
(* the default intervals (tick 60, final 5, stale 90, grace 20, skew 5, retry  *)
(* 30 minutes, window 2:15 h) and the night cut short.  Day 0 is the past.     *)
EXTENDS MarketJobs

MCTradingDays == {0, 1, 3, 4}

ASSUME MCIntervals == IntervalsFit /\ MaxAttempt <= RetryUntil
=============================================================================
