----------------------------- MODULE MarketFetch -----------------------------
(***************************************************************************)
(* The GET helper the market-data providers share (marketdata/http.go):    *)
(* several workers fetch through one client, whose limiter hands out slots *)
(* under its mutex; each fetch tries again after transient failures.       *)
(*                                                                         *)
(* A tick is a unit of the durations.  A worker may run later than its     *)
(* timer: the clock moves on without waiting for it.                       *)
(***************************************************************************)
EXTENDS Integers, Sequences

CONSTANTS Getter,        \* fetches, one per worker at a time
          Attempts,      \* opts.MaxAttempts
          Interval,      \* opts.RateLimit, the spacing of requests
          RetryBase, MaxRetryDelay, MaxRetryAfter,
          RetryAfters,   \* the Retry-After values servers send, in ticks
          Wrap,          \* durations run from -Wrap to Wrap - 1
          FetchMaxTime

\* normalizeHTTPOptions replaces what is not positive; a limit of zero turns
\* the limiter off and is not modelled.
ASSUME FetchAssumption ==
  /\ Attempts \in Nat \ {0} /\ Interval \in Nat \ {0}
  /\ RetryBase \in Nat \ {0} /\ MaxRetryDelay \in Nat \ {0}
  /\ MaxRetryAfter \in Nat \ {0} /\ RetryAfters \subseteq Nat
  /\ Wrap \in Nat \ {0} /\ FetchMaxTime \in Nat

VARIABLES now,
          next,       \* the limiter's next free slot
          cancelled,  \* the cycle's context
          pc,         \* "begin", "slot", "send", "open", "pause" or "done"
          attempt,
          wake,       \* when the sleep of "slot" or "pause" ends
          result,     \* "none", "body", "refused", "exhausted", "invalid" or
                      \* "cancelled"
          slots,      \* history: the slots handed out, in order
          sends,      \* history: requests sent per fetch
          notBefore   \* history: when the server may be asked again

fetchVars == <<now, next, cancelled, pc, attempt, wake, result, slots, sends,
               notBefore>>

Result == {"none", "body", "refused", "exhausted", "invalid", "cancelled"}

FetchTypeOK ==
  /\ now \in 0..FetchMaxTime /\ next \in Nat /\ cancelled \in BOOLEAN
  /\ pc \in [Getter -> {"begin", "slot", "send", "open", "pause", "done"}]
  /\ attempt \in [Getter -> 1..Attempts]
  /\ wake \in [Getter -> Nat] /\ result \in [Getter -> Result]
  /\ slots \in Seq(Nat) /\ sends \in [Getter -> Nat]
  /\ notBefore \in [Getter -> Nat]

FetchInit ==
  /\ now = 0 /\ next = 0 /\ cancelled = FALSE
  /\ pc = [g \in Getter |-> "begin"] /\ attempt = [g \in Getter |-> 1]
  /\ wake = [g \in Getter |-> 0] /\ result = [g \in Getter |-> "none"]
  /\ slots = <<>> /\ sends = [g \in Getter |-> 0]
  /\ notBefore = [g \in Getter |-> 0]

Larger(a, b) == IF a > b THEN a ELSE b
Smaller(a, b) == IF a < b THEN a ELSE b

Finish(g, how) ==
  /\ pc' = [pc EXCEPT ![g] = "done"]
  /\ result' = [result EXCEPT ![g] = how]

-----------------------------------------------------------------------------
(* The rate limiter                                                        *)

\* Mutant: the interval is counted from now, as if no slot had been given.
SlotFromNow == now

Slot == Larger(next, now)

\* rateLimiter.Wait up to its sleep, which looks at the context first.  A slot
\* that is free now is taken without that look.
Reserve(g) ==
  /\ pc[g] = "begin"
  /\ next' = Slot + Interval
  /\ slots' = Append(slots, Slot)
  /\ IF Slot > now /\ cancelled
     THEN Finish(g, "cancelled") /\ UNCHANGED wake
     ELSE /\ pc' = [pc EXCEPT ![g] = IF Slot > now THEN "slot" ELSE "send"]
          /\ wake' = [wake EXCEPT ![g] = Slot]
          /\ UNCHANGED result
  /\ UNCHANGED <<now, cancelled, attempt, sends, notBefore>>

\* sleepContext: the timer or the context, whichever is seen first.
SlotReached(g) ==
  /\ pc[g] = "slot" /\ now >= wake[g]
  /\ pc' = [pc EXCEPT ![g] = "send"]
  /\ UNCHANGED <<now, next, cancelled, attempt, wake, result, slots, sends,
                 notBefore>>

\* Mutant: the sleeps do not look at the context.
SleepsOn(g) == FALSE /\ UNCHANGED fetchVars

SleepCancelled(g) ==
  /\ pc[g] \in {"slot", "pause"} /\ cancelled
  /\ Finish(g, "cancelled")
  /\ UNCHANGED <<now, next, cancelled, attempt, wake, slots, sends, notBefore>>

-----------------------------------------------------------------------------
(* One attempt                                                             *)

Send(g) ==
  /\ pc[g] = "send"
  /\ pc' = [pc EXCEPT ![g] = "open"]
  /\ sends' = [sends EXCEPT ![g] = @ + 1]
  /\ UNCHANGED <<now, next, cancelled, attempt, wake, result, slots, notBefore>>

\* int64 nanoseconds of a count of seconds.
Duration(n) == ((n + Wrap) % (2 * Wrap)) - Wrap

\* parseRetryAfter: what is not positive counts as no header.
RetryAfter(n) == Larger(Duration(n), 0)

\* Mutant: a Retry-After goes through the cap of the exponential delay.
RetryDelaysOneCap(n, after) ==
  LET step == Smaller(RetryBase * 2^(n - 1), MaxRetryDelay)
  IN IF after > 0 THEN {Smaller(after, MaxRetryDelay)}
     ELSE {d \in (step \div 2)..((3 * step) \div 2) : d <= MaxRetryDelay}

\* retryDelay: a Retry-After is capped and taken as it is; otherwise the base
\* doubled per attempt, capped, scattered by half of it both ways and capped
\* again.  That the doubling overflows after some 34 attempts is left out.
RetryDelays(n, after) ==
  LET step == Smaller(RetryBase * 2^(n - 1), MaxRetryDelay)
  IN IF after > 0 THEN {Smaller(after, MaxRetryAfter)}
     ELSE {d \in (step \div 2)..((3 * step) \div 2) : d <= MaxRetryDelay}

\* What the server, or the exponential rule, is owed before the next request.
Owed(n, header) ==
  IF header > 0 THEN Smaller(header, MaxRetryAfter)
  ELSE Smaller(RetryBase * 2^(n - 1), MaxRetryDelay) \div 2

LastAttempt(g) == attempt[g] >= Attempts

\* A transport or read error, or a retryable status: the last attempt's error
\* is the answer, any other's is slept over.  header is the Retry-After of a
\* 429 or 503, zero without one.
Transient(g, header) ==
  /\ pc[g] = "open"
  /\ IF LastAttempt(g)
     THEN Finish(g, "exhausted") /\ UNCHANGED <<wake, notBefore>>
     ELSE IF cancelled
     THEN Finish(g, "cancelled") /\ UNCHANGED <<wake, notBefore>>
     ELSE /\ \E d \in RetryDelays(attempt[g], RetryAfter(header)) :
               wake' = [wake EXCEPT ![g] = now + d]
          /\ notBefore' = [notBefore EXCEPT ![g] =
                             now + Owed(attempt[g], header)]
          /\ pc' = [pc EXCEPT ![g] = "pause"]
          /\ UNCHANGED result
  /\ UNCHANGED <<now, next, cancelled, attempt, slots, sends>>

\* Do or the read of the body fails under a cancelled context.
AttemptCancelled(g) ==
  /\ pc[g] = "open" /\ cancelled
  /\ Finish(g, "cancelled")
  /\ UNCHANGED <<now, next, cancelled, attempt, wake, slots, sends, notBefore>>

\* 200 with the whole body, 200 with more than the limit, any other status.
Definitive(g, how) ==
  /\ pc[g] = "open" /\ how \in {"body", "invalid", "refused"}
  /\ Finish(g, how)
  /\ UNCHANGED <<now, next, cancelled, attempt, wake, slots, sends, notBefore>>

PauseOver(g) ==
  /\ pc[g] = "pause" /\ now >= wake[g]
  /\ attempt' = [attempt EXCEPT ![g] = @ + 1]
  /\ pc' = [pc EXCEPT ![g] = "begin"]
  /\ UNCHANGED <<now, next, cancelled, wake, result, slots, sends, notBefore>>

-----------------------------------------------------------------------------
Cancel ==
  /\ ~cancelled /\ cancelled' = TRUE
  /\ UNCHANGED <<now, next, pc, attempt, wake, result, slots, sends, notBefore>>

FetchTick ==
  /\ now < FetchMaxTime /\ now' = now + 1
  /\ UNCHANGED <<next, cancelled, pc, attempt, wake, result, slots, sends,
                 notBefore>>

Answered(g) ==
  \/ Transient(g, 0) \/ \E n \in RetryAfters : Transient(g, n)
  \/ AttemptCancelled(g)
  \/ \E how \in {"body", "invalid", "refused"} : Definitive(g, how)

FetchNext ==
  \/ \E g \in Getter : \/ Reserve(g) \/ SlotReached(g) \/ SleepCancelled(g)
                       \/ Send(g) \/ Answered(g) \/ PauseOver(g)
  \/ Cancel \/ FetchTick

\* A goroutine that can run does, and a request ends (the client's timeout,
\* or its context).  Nothing is said of the clock.
Fairness ==
  \A g \in Getter : /\ WF_fetchVars(Reserve(g)) /\ WF_fetchVars(Send(g))
                    /\ WF_fetchVars(Answered(g)) /\ WF_fetchVars(SleepCancelled(g))

FetchSpec == FetchInit /\ [][FetchNext]_fetchVars
FairSpec == FetchSpec /\ Fairness

-----------------------------------------------------------------------------
(* Properties                                                              *)

\* Two requests of one client are never given slots closer than the interval
\* (rateLimiter.Wait), and none is sent before the slot it took, whichever
\* worker reserved when, retries and cancelled waits included.
SlotsSpaced ==
  /\ \A i, j \in 1..Len(slots) : i < j => slots[j] - slots[i] >= Interval
  /\ \A g \in Getter : pc[g] \in {"send", "open"} => now >= wake[g]

\* A server that answered with a transient failure is not asked again by this
\* fetch before the time it is owed: its Retry-After up to MaxRetryAfter, or
\* else half of the doubled base (Get, retryDelay, parseRetryAfter).
BackoffHonoured ==
  [][\A g \in Getter : sends'[g] > sends[g] => now >= notBefore[g]]_fetchVars

\* Once the cycle is cancelled every fetch returns, without a tick of the
\* clock: no shutdown sits out a slot, a backoff or a Retry-After.
CancelEndsFetches == cancelled ~> \A g \in Getter : pc[g] = "done"
=============================================================================
