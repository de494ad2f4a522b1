------------------------------- MODULE MarketJobs -------------------------------
(* The worker process with both market jobs against one price row: the price   *)
(* scheduler and the bhavcopy scheduler share the clock, the calendar and the  *)
(* row, start together and stop together (main.go).                            *)
EXTENDS PriceSchedule, BhavcopySchedule

CONSTANTS MaxTime,       \* bound: the clock stops here
          MaxSetbacks    \* bound on stops and failed price cycles

VARIABLES setbacks,
          quiet      \* time since the start or the last trouble, capped (history variable)

own    == <<now, up, price>>
prices == <<next, cycle>>
bhav   == <<schedule, attempt, began, late, ingested>>
book   == <<setbacks, quiet>>
jobsVars == <<own, prices, bhav, book>>

\* The calendar's searches find a day: one has traded before the clock starts,
\* one will after it stops.  No quote is older than the first session.
ASSUME JobsAssumption ==
  /\ MaxTime \in Nat /\ DayLength <= MaxTime /\ MaxSetbacks \in Nat
  /\ 0 \in TradingDays /\ \E d \in TradingDays : d > Day(MaxTime)
  /\ QuoteDelay <= DayLength - OpenTime

\* A start may begin a catch-up that makes the tick right after it be skipped.
Settled == TickInterval + 2 * MaxCycle
QuietCap == Settled + 1

\* Room between the intervals, which the default ones leave: a cycle is over
\* before the next tick, the final quote and the next open; quotes of a tick and
\* a cycle ago are not stale; the final quote is of the close, on its day.
IntervalsFit ==
  /\ MaxCycle < TickInterval /\ QuoteDelay <= TickInterval
  /\ TickInterval + MaxCycle + QuoteDelay <= MaxStale
  /\ QuoteDelay <= CloseTime - OpenTime /\ QuoteDelay <= FinalQuoteDelay + CloseGrace
  /\ CloseTime + FinalQuoteDelay < DayLength
  /\ CloseTime + FinalQuoteDelay + MaxCycle < DayLength + OpenTime
  /\ \A k \in 0..CloseTime : OpenTime + k * TickInterval < CloseTime =>
                      OpenTime + k * TickInterval + MaxCycle < CloseTime + FinalQuoteDelay

-----------------------------------------------------------------------------
JobsInit ==
  /\ now = DayLength /\ up = FALSE
  /\ price \in {[source |-> "seed", at |-> 0], [source |-> "bhavcopy", at |-> SessionClose(0)]}
  /\ next = 0 /\ cycle = Off
  /\ schedule = [date |-> 0, at |-> 0] /\ attempt = Off
  /\ began = [d \in TradingDays |-> Off] /\ late = 0 /\ ingested = {}
  /\ setbacks = 0 /\ quiet = 0

Start ==
  /\ ~up /\ up' = TRUE
  /\ StartPrices /\ StartBhavcopy
  /\ UNCHANGED <<now, price, book>>

\* A crash or a shutdown: what was running is given up.
Stop ==
  /\ up /\ setbacks < MaxSetbacks
  /\ up' = FALSE
  /\ StopPrices /\ StopBhavcopy
  /\ setbacks' = setbacks + 1 /\ quiet' = 0
  /\ UNCHANGED <<now, price>>

Tick ==
  /\ now < MaxTime /\ PricesMayWait /\ BhavcopyMayWait
  /\ now' = now + 1
  /\ quiet' = IF up /\ quiet < QuietCap THEN quiet + 1 ELSE quiet
  /\ UNCHANGED <<up, price, prices, bhav, setbacks>>

PriceJob ==
  \/ /\ RunPrices \/ CycleSaves
     /\ UNCHANGED book
  \/ /\ CycleFails
     /\ setbacks < MaxSetbacks /\ setbacks' = setbacks + 1 /\ quiet' = 0

BhavcopyJob ==
  \/ Reschedule
  \/ BeginAttempt
  \/ \E success, saves \in BOOLEAN : EndAttempt(success, saves)

Finished == now = MaxTime /\ UNCHANGED jobsVars

JobsNext == \/ Start \/ Stop \/ Tick \/ Finished
            \/ PriceJob /\ UNCHANGED bhav
            \/ BhavcopyJob /\ UNCHANGED <<prices, book>>

JobsSpec == JobsInit /\ [][JobsNext]_jobsVars

-----------------------------------------------------------------------------
(* Properties *)

\* The row's quote is never from the future.
JobsTypeOK ==
  /\ now \in DayLength..MaxTime /\ up \in BOOLEAN
  /\ price \in Row /\ price.at <= now
  /\ next \in Nat /\ cycle \in Nat \cup {Off}
  /\ schedule.date \in TradingDays /\ schedule.at \in Nat /\ attempt \in Nat \cup {Off}
  /\ began \in [TradingDays -> Nat \cup {Off}] /\ late \in Nat /\ ingested \subseteq TradingDays
  /\ setbacks \in 0..MaxSetbacks /\ quiet \in 0..QuietCap

\* Once nothing failed or restarted for a tick and two cycles, the price is fresh
\* through the session (from one tick and cycle after the open), and after the
\* final quote if that start was a cycle before it; also when a running cycle
\* made a tick be skipped or a start skipped its catch-up because another symbol
\* was fresh (nextScheduledRun, shouldCatchUp, triggerUpdate, Classify).
FreshWhenQuiet ==
  LET today == Day(now)
  IN up /\ IsTradingDay(today) /\ quiet > Settled =>
       /\ IsOpen(now) /\ now > SessionOpen(today) + TickInterval + MaxCycle => Fresh(price, now)
       /\ now > Final(today) + MaxCycle /\ now - Settled <= Final(today) - MaxCycle => Fresh(price, now)

\* A price that is fresh outside the session is fresh until the next open,
\* over nights and holidays, whatever the jobs, late attempts and restarts do
\* (freshAfterReference, upsertCurrentPriceSQL).
FreshStays == [][~IsOpen(now) /\ Fresh(price, now) /\ ~IsOpen(now') => Fresh(price', now')]_jobsVars

\* When the window of a trading day has ended, a process that is up, since
\* whenever, has the day's file, is fetching it or about to, or tried in the
\* window's last interval or later (firstSchedule, retrySchedule).
RetriesToTheEnd ==
  LET today == Day(now)
  IN up /\ IsTradingDay(today) /\ now > At(today, RetryUntil) =>
       \/ today \in ingested
       \/ schedule.date = today /\ (attempt # Off \/ now >= schedule.at)
       \/ /\ began[today] # Off
          /\ began[today] > At(today, RetryUntil) - RetryInterval

\* An attempt begins on its own date, not before the first-attempt time, and
\* never for a date this process has already ingested; after the window at most
\* one begins: the catch-up of a late start, or the retry of an attempt that
\* overran it (BhavcopyService.Start, retrySchedule).
OncePerDate ==
  [][attempt = Off /\ attempt' # Off =>
       /\ Day(now) = schedule.date /\ now >= At(schedule.date, FirstAttempt)
       /\ schedule.date \notin ingested /\ late' <= 1]_jobsVars
=============================================================================
