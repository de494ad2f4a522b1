---------------------------- MODULE BhavcopySchedule ----------------------------
(* The official close's scheduler (bhavcopy_service.go): a first attempt per   *)
(* trading day, retries on a grid until a last time, then the next trading     *)
(* day.  One goroutine: an attempt and the timer never run together.           *)
EXTENDS MarketPrice

CONSTANTS FirstAttempt, RetryUntil, RetryInterval,
          MaxAttempt     \* an attempt ends within this time (assumed)

VARIABLES schedule,   \* the next attempt's [date, at]
          attempt,    \* when the running attempt began, or Off
          began,      \* date -> begin of this process's last attempt for it, or Off (history variable)
          late,       \* attempts this process began for schedule.date after RetryUntil (history variable)
          ingested    \* dates this process's attempts succeeded for (history variable)

ASSUME BhavcopyScheduleAssumption ==
  /\ FirstAttempt \in Nat /\ RetryUntil \in Nat /\ MaxAttempt \in Nat
  /\ CloseTime <= FirstAttempt /\ FirstAttempt <= RetryUntil /\ RetryUntil < DayLength
  /\ RetryInterval \in Nat \ {0}

FirstSchedule(t) == LET day == NextTradingDay(Day(t))
                    IN [date |-> day, at |-> Max({t, At(day, FirstAttempt)})]

NextDaySchedule(date) == LET day == NextTradingDay(date + 1)
                         IN [date |-> day, at |-> At(day, FirstAttempt)]

\* Mutant: the window's last slot is not used.
RetryScheduleStopsEarly(date, t) ==
  LET first == At(date, FirstAttempt)
      at == first + ((Max({t, first}) - first) \div RetryInterval + 1) * RetryInterval
  IN IF at + RetryInterval > At(date, RetryUntil) THEN NextDaySchedule(date) ELSE [date |-> date, at |-> at]

\* t is when the failed attempt began.
RetrySchedule(date, t) ==
  LET first == At(date, FirstAttempt)
      at == first + ((Max({t, first}) - first) \div RetryInterval + 1) * RetryInterval
  IN IF at > At(date, RetryUntil) THEN NextDaySchedule(date) ELSE [date |-> date, at |-> at]

StartBhavcopy ==
  /\ schedule' = FirstSchedule(now)
  /\ attempt' = Off /\ late' = 0 /\ ingested' = {} /\ began' = [d \in TradingDays |-> Off]

\* The scheduled date is over.
Reschedule ==
  /\ up /\ attempt = Off /\ now >= schedule.at /\ Day(now) > schedule.date
  /\ schedule' = FirstSchedule(now) /\ late' = 0
  /\ UNCHANGED <<now, up, price, attempt, began, ingested>>

BeginAttempt ==
  /\ up /\ attempt = Off /\ now >= schedule.at /\ Day(now) <= schedule.date
  /\ attempt' = now
  /\ began' = [began EXCEPT ![schedule.date] = now]
  /\ late' = IF now > At(schedule.date, RetryUntil) THEN late + 1 ELSE late
  /\ UNCHANGED <<now, up, price, schedule, ingested>>

\* Mutant: a success is retried like a failure.
ScheduleAfterAlwaysRetries(success) == RetrySchedule(schedule.date, attempt)

ScheduleAfter(success) == IF success THEN NextDaySchedule(schedule.date)
                                     ELSE RetrySchedule(schedule.date, attempt)

\* saves: the file had this symbol and its quote was offered to the store, which
\* a failing attempt may also have done (another symbol's save failed).
EndAttempt(success, saves) ==
  /\ attempt # Off
  /\ price' = IF saves THEN Saved([source |-> "bhavcopy", at |-> SessionClose(schedule.date)]) ELSE price
  /\ ingested' = IF success THEN ingested \cup {schedule.date} ELSE ingested
  /\ schedule' = ScheduleAfter(success)
  /\ late' = IF schedule'.date = schedule.date THEN late ELSE 0
  /\ attempt' = Off
  /\ UNCHANGED <<now, up, began>>

StopBhavcopy == /\ schedule' = [date |-> 0, at |-> 0] /\ attempt' = Off /\ late' = 0
                /\ ingested' = {} /\ began' = [d \in TradingDays |-> Off]

BhavcopyMayWait == /\ up /\ attempt = Off => now < schedule.at
                   /\ attempt # Off => now - attempt < MaxAttempt
=============================================================================
