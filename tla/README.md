# Stocky: a TLA+ model of the stock reward system

Stocky books stock rewards for users, adjusts and settles them, keeps read
projections of what every user holds, fetches market prices, and serves it all
over HTTP from Go processes in front of one PostgreSQL database. This directory
holds TLA+ modules of the parts of it whose correctness depends on order,
concurrency, failure or time, the TLC configurations that check them, and
proofs of their main invariants that TLAPS checks. `src/...` paths below are
paths of the repository; `0026` and `0028` name the SQL migrations.
`PROJECT.json` maps every definition to the source lines it stands for, and
lists the hazards, the runs, and for every checked property a plausible
mistake in the code (a *mutant*) that makes it fail.

Contents: [inventory](#inventory) - [modules](#modules) - [runs](#runs) -
[disagreements](#disagreements-with-the-documentation) - [proofs](#proofs) -
[not modelled](#not-modelled) - [plan](#plan).

## Inventory

One server binary (`src/cmd/stocky-api`) runs in a role: `api` (HTTP handlers over
connection pools), `worker` (market jobs, queue worker, reconciliation,
rollover), `all` or `migrate`. Two tools, `src/cmd/rebuild-projections` and
`src/cmd/backfill-market-data`, share its code. All state that
outlives a process is in PostgreSQL. Processes do not talk to each other; they
meet in the database, and most of the coordination is SQL: row locks, unique
indexes, advisory locks, triggers.

```
 client --GET---> rate limiter --> response cache --> reporting reads (replica or primary)
        |                              ^ InvalidateUser
        +-POST--> reward, adjustment --+--> tx: rewards, adjustments, ledger
                                                          | triggers
 market providers --> price scheduler, bhavcopy --> prices |        v
 operator --> stock_events --triggers--> reward_state --> portfolio_position, user_cash_position
                                    \--> refresh queue --> worker --^      ^-- reconciliation
```

### Write path - `handlers/stocky/reward_handler.go`, `adjustment_handler.go`
- State: `users`, `rewards` (quantity, original quantity, idempotency key,
  market day, `original_response`), `adjustments`, `ledger`.
- Operations: grant a reward; adjust a reward. Each is one READ COMMITTED
  transaction of five to eight statements with an idempotency key.
- Hard: concurrent requests with one key; a retry after a lost commit
  acknowledgement, on another day or at another price; two adjustments of one
  reward; a request that holds a row lock and waits for another's key.
- Correct when: one effect per key, and one grant per user, stock and day; the
  balance is never negative and always the sum of its ledger rows; a retry gets
  the first answer; all requests are answered.

### Response cache - `response_cache.go`
- State, per API process: LRU of (path, body, ETag, stored-at).
- Operations: look up, store after the handler, `InvalidateUser` after a local
  write, expire, evict, revalidate with `If-None-Match`.
- Hard: a handler whose snapshot is older than the write that invalidated; writes
  this process never hears of (other replicas, the worker, commits reported as
  failed).
- Correct when: a read begun after an answered write shows it; staleness is bounded.

### Rate limiter - `rate_limit.go`
- State, per API process: map of token buckets, LRU list, next sweep time.
- Operations: `Allow` (refill, take, evict, sweep).
- Hard: the map at its limit, the sweep that stops at the first busy bucket, the
  rounding of Retry-After.
- Correct when: no client gets more than burst plus rate in any window, and a
  client that returns when it was told to is let in.

### Projections and triggers - `0026_read_projections`, `0028_projection_write_hardening`
- State: `reward_state` (a reward after its adjustments and the corporate actions
  on its stock), `portfolio_position`, `user_cash_position`, focus rows.
- Operations: the refreshes that triggers run inside reward, adjustment and
  stock-event transactions, inline up to a limit of users, queued above it.
- Hard: each trigger statement takes a new snapshot; a refresh reads, waits for
  a row lock, then writes what it read; users are locked in turn.
- Correct when: no committed write is missing from `reward_state`, and a user's
  aggregates agree with it or are queued.

### Refresh queue and worker - `0028:151-330`, `jobs/projection_refresh.go`
- State: queue rows (pending, attempts, next attempt, dead letter).
- Operations: enqueue (coalescing), claim with SKIP LOCKED, processed, failed
  with backoff, dead letter.
- Hard: coalescing onto a row being processed; a worker lost in mid-refresh.
- Correct when: nothing stale is unqueued, and every row ends processed or dead.

### Reconciliation - `0028:732-879`, `jobs/reconciliation.go`
- State: focus rows of users touched by events; results.
- Operations: select users, compare with a replay, mark the clean ones reconciled.
- Hard: a comparison is older than the marks it leaves, and transactions under
  way at the check rebuild the same rows.
- Correct when: what a check has found right is not taken out again.

### Price store - `jobs/price_store.go`
- State: current price row and one history row per stock and market date.
- Operations: `SaveQuote` (age window, current upsert, history upsert in one
  transaction), `SaveHistoryQuote` (the backfill).
- Hard: sources of different rank, delivered late, twice and out of order by jobs that overlap.
- Correct when: the rows are the best of what was delivered, by the code's precedence.

### Calendar and freshness - `marketcal`
- State: none. Trading days, sessions, and whether a price is fresh at an instant;
  the scheduler, the API and the alerts ask the same questions.
- Hard: the boundaries - open, close, grace, nights, weekends, holidays.

### Price scheduler and price cycle - `jobs/price_updater.go`
- State: next run time, one-cycle-at-a-time gate; in a cycle the workers, the
  channel of symbols, the save semaphore, the counts of its log line.
- Operations: scheduled tick, final quote after the close, catch-up at the start;
  fetch and save of each symbol.
- Hard: a cycle that outlasts its interval, a failed cycle, a restart between
  ticks; a worker that panics, a save slot that is not given back.
- Correct when: prices are as fresh as the intervals allow, every cycle ends and
  its counts account for every symbol.

### Bhavcopy scheduler and attempt - `jobs/bhavcopy_service.go`
- State: date and time of the next attempt.
- Operations: first attempt, retry grid to the end of the window, next trading
  day, catch-up after a late start; an attempt saves the closes of its symbols.
- Hard: an attempt that outlasts its slot, the window or midnight; a late start;
  some of the saves fail.
- Correct when: the file is tried until it is there, to the end of the window,
  for the right date, and once it is ingested not again.

### History backfill - `jobs/history_backfill.go`, `cmd/backfill-market-data`
- A loop over dates and symbols that imports closes into the price store while
  the jobs above write it. Correct when what it could not import shows in its exit status.

### Market-data HTTP client - `marketdata/http.go`
- State: the next free slot of the rate limiter that all workers share.
- Operations: reserve a slot, send, back off, try again, give up.
- Hard: slots and pauses overlap, servers ask for their own delay, a shutdown
  comes while workers sleep.
- Correct when: requests are spaced, a server's pause is kept, a cancellation
  needs no sleep to end.

### Corporate-action settlement - `0023:408-763`, `0022:354-377`, `adjustment_handler.go:98-142`
- State: `stock_events`, a reward's adjustments, `rewards.quantity`.
- Operations: record an action; replay a reward as of a date; check and book an
  adjustment in units of the day and in units of the reward date.
- Hard: rounding at each step, mergers that chain, actions dated ahead or back,
  two balances of one reward.
- Correct when: a figure of the past does not move, the order of recording does
  not matter, the two balances agree.

### Corporate-action cash and daily rollover - `jobs/corporate_actions.go`, `0026:455-655`, `0028:342-457`
- State: the marks of the last processed date, `instrument_factor`, cash rows of the ledger.
- Operations: three stages per pass, each once per date, on any number of workers.
- Hard: events that commit meanwhile and whose trigger does the same work; the
  date a transaction keeps while it waits; a failed stage; a day nobody ran.
- Correct when: every effective action is in factors, cash and `reward_state`.

### Rebuild command - `cmd/rebuild-projections`, `0027`
- Online backfill and offline repair of the projections in batches, and the
  migration that switches the reads to them.
- Hard: live triggers refresh the same rows; a run cut short; the switch.
- Correct when: no live write is undone, what reads see is complete.

### Start-up, roles, shutdown - `cmd/stocky-api/main.go`
- State: the pools, the services' goroutines, the HTTP server, deferred closes.
- Hard: failures half-way through the start, a signal at any time, services that
  stop one after the other, requests in flight.
- Correct when: nothing loses its pool while it runs, and a process told to stop exits.

### The rest
The reporting reads (`portfolio`, `stats`, `today`, `historical` handlers) are in
`ResponseCache` as far as pools, snapshots and failures go. Fees, the providers'
parsing, configuration, metrics and alerts, request models, load tests and
deployment: see [not modelled](#not-modelled).

## Modules

### RewardLedger, AtomicLedger
`RewardLedger` has one action per SQL statement of the two handlers, because
under READ COMMITTED every statement sees its own snapshot and other sessions
run between them. A request's program counter is `phase[r]`: a grant goes
through the active-user check, the price, the insert (which waits for an
uncommitted conflicting row), after a conflict the look-up of the key's holder,
and the commit; an adjustment through the row lock, the balance check, the
insert, after a conflict the look-up, and the commit. `rewards`, `adjustments` and
`ledger` are the committed rows, `lock` the row locks, `answer` what the client
was told. `Abort` stands for any statement error, a cancelled context or a lost
connection. A commit may succeed and be reported as failed (the client gets
500). Days advance, prices change and users are deactivated in between.
Rows granted earlier, also before the column `original_response` existed, may be
there initially (`Seed`). Fees and money are carried as an opaque base amount: the
ledger entries are totals, enough to tell whether they add up.

`AtomicLedger` is what the write path promises: a request is one atomic step
that books its effect, finds it booked or is refused; its answer comes later.
`RewardLedger!ImplementsAtomicLedger` instantiates it over the same tables:
statement-level interleaving, lock waits and lost acknowledgements must refine it.

### ResponseCache
The read path of several API processes. One cache per process is a sequence in
LRU order. A body is abstracted to the version of the user's data its snapshot
saw, an ETag to that version. A reader's steps are look-up, first query,
response; `Cached` says which pages the cache is in front of, `Lag` how far a
replica may be behind. The second query of a page runs in the same
repeatable-read transaction and is left out: that both see one version is the
database's promise, not the code's. A reader makes one request after the other.
A writer's steps are commit, then invalidate, with the answer after it.
`CommitUnheard` is a write this process is not told of. `acked`, `floor` and
`shown` are history: what a process had answered when a read began, and the
newest version of a page it has stored or answered from its cache. `Key`,
`Owner` and `Canonical` say which pages belong to which user and which spellings
of a path are the one `InvalidateUser` looks for.

### UserRateLimiter
`Allow(k)` is the whole method under its mutex: refill, decision, LRU move,
sweep, eviction. Tokens are integers, `Unit` of them to a request, so that a rate
that does not divide the cost of a request is modelled exactly (the code's
floating-point error is left out). `granted` and `promised` are history variables.

### Projections
Write transactions of three kinds (grant, adjustment, stock event), the queue's
workers and the reconciliation. The replay of a reward's life is abstracted to the
set of writes it has seen: `Outcome(r, seen)`. That is the data the properties
need: a row is right when its set is the set of committed writes on that reward.
A trigger is split where PostgreSQL takes a new snapshot: evaluate, store (waits for
the row lock), lock the user, rebuild positions, rebuild cash, enqueue, commit.
Event transactions exclude each other while they fan out, as the advisory lock in `0028` makes them.
Workers claim, lock, rebuild, and mark the row processed; `Fail`, `BackoffEnds` and `Crash` are their
troubles. `StartCheck` .. `MarkReconciled` is a reconciliation: one call of
`run_projection_reconciliation` at READ COMMITTED, in which each statement has a snapshot
of its own, so that it marks rows that changed since it compared them. `Workload` lists combinations of writers, workers, queue limit
and checks; `load` is the one of a behaviour, so that one run covers them all.

### PricePrecedence, AtomicPriceStore, PriceStore, PriceWriters
`PricePrecedence` has the two WHERE clauses: which quote replaces which row.
`AtomicPriceStore` is what the store promises: a save compares and replaces in
one step. `PriceStore` is the code: `Saver` processes run `SaveQuote` statement
by statement, its two upserts hold their row's lock to the commit and decide on
the row they locked; `Import` is `SaveHistoryQuote`. A quote is (source,
instant, price), any number of times, in any order, while it is not too old or
too far in the future. `ImplementsAtomicStore` is the refinement. On that
promise stands `PriceWriters`: a price cycle, a bhavcopy attempt and a backfill
write the same symbols through the atomic store. Fetches, saves and imports
fail, workers panic, the process is told to stop; `counts`, the attempt's verdict
and the exit status are the code's. An attempt works through the places of
`Listed`, a backfill through those of `Days` and `Listed`, the foremost first.

### MarketFetch
`Getter` processes run `Get`: reserve a slot under the limiter's mutex, sleep to
it, send, and after a transient failure sleep the exponential delay (a range:
it is jittered) or the server's Retry-After. A worker may wake later than its timer.
`notBefore` is a history variable: what the server is owed.

### MarketCalendar, MarketPrice, PriceSchedule, BhavcopySchedule, MarketJobs
`MarketCalendar` is the calendar and the freshness policy as operators over an
integer clock. `MarketPrice` is the one row both jobs write (of one symbol).
`PriceSchedule` and `BhavcopySchedule` are the two loops, each with its own
state. `MarketJobs` composes them with the clock, starts, stops and
failures: both loops start and stop together, as in the worker role of
`main.go`. A loop acts in time: the clock does not pass a due action
(`PricesMayWait`, `BhavcopyMayWait`). That is the one real-time assumption; how
long a cycle or an attempt lasts is free up to `MaxCycle` and `MaxAttempt`.
A price cycle's pool of workers is abstracted to its outcome for the symbol
(`PriceWriters` has it apart). `JobsAssumption` says that the calendar's searches find
a day: one has traded before the clock starts and one will after it stops.
`IntervalsFit` is what the configured intervals must leave room for if the price is to
be fresh: a cycle ends before the next tick, the final quote and the next open, and a
quote of a tick and a cycle ago is not stale. Nothing in the code checks it. The
default intervals satisfy it (exactly: 60 + 15 + 15 minutes against 90), and
`MCMarketJobs` has TLC evaluate it.

### Lifecycle
`main` from the migrations to its exit, one step at a time, with every set-up step able to
fail; a service is a goroutine whose passes use the jobs pool; requests are accepted,
answered or cut off. `Tick` exists only for Shutdown's grace and request timeouts.
The deferred closes run in reverse order of the opening, as `defer` does.

### Rebuild
The command's reads and writes per batch against live transactions whose triggers
refresh the same rows. As in `Projections` a row is the set of writes seen; a
position is keyed by user and terminal symbol, because `ON CONFLICT DO NOTHING`
is decided per key. `Drifts` are the wrong projections a repair may start from;
`Crash` cuts a run short, `MaxRuns` bounds the reruns; `Switch` is `0027` behind its gate.

### Rollover
`BeginPass` .. `Work` is `CorporateActionService.process` on each replica: three
due-checked stages, each its own transaction with the date it began on, its advisory lock
and its mark; `StartLater` lets a stage's transaction begin on a later date than the stage before it ended.
Events commit with their trigger's work, stages fail and replicas die meanwhile. A grant is a
transaction of its own: `BeginGrant` fixes its reward's date (`NOW()` of the INSERT is the
transaction's start), `InsertReward` runs the trigger that writes the reward's row as of that
date, `CommitGrant` makes both visible, on a later date perhaps. Factors, cash and rows are the
sets of events they were computed from. History variables: `overlapped`, the events that committed during a stage
and that no later one has met; `belated`, the rewards that committed after their date and whose cash, or whose
row, nobody has written since.

### Settlement
One reward. `Chain` is `instrument_chain`, `Replay` folds the splits, bonuses,
mergers and adjustments in the SQL's order with its rounding, `Outcome` adds the
delisting. `Record` is an operator's INSERT, behind the unique indexes and
`validate_stock_event` (`Valid`). Each `Adjuster` is a request of the adjustment handler:
`BeginAdjust` fixes the date, `SelectReward` starts SELECT ... FOR UPDATE and computes the
factor on that statement's snapshot, `LockReward` ends its wait and reads the balance as it is then,
`Adjust` reads the settled balance as of the request's date, checks and books; `Factor` is the
product the code computes independently of the replay. NUMERIC is an integer with
three scales: of a quantity, of the factor, of a quotient. `late` and `disordered` are history
variables: an action was recorded for a date already counted, an adjustment committed after one of a later date.

### MC modules
Each `MC*` module extends its component with definitions for constants a `.cfg`
cannot write (functions, records, symmetry sets). No definition is overridden.

## Runs

Every run passes. Deadlock is checked in `ledger`, `cache`, `limiter`,
`projections`, `prices` and `market_jobs`: where the system really ends - all
requests served, the clock at its bound - a stuttering step (`AllDone`, `Quiet`,
`Finished`) says so, and every other state without a successor is an error, such
as a circular wait. It is off in `lifecycle` (the process exits), `fetch` and
`price_writers` (the fetches, the cycles and the command end), `rebuild` (its
runs are used up), `rollover` and `settlement` (the last day is over).
Runs take from seconds to about three minutes with two workers.

| run | question | instance |
|---|---|---|
| `ledger` | Do concurrent grants, adjustments and retries keep quantity, ledger, adjustments and answers together, implement the atomic ledger, without a circular wait? | 3 requests, 1 user, 2 keys, prices 0-2 (0: none), a day boundary, a row of the day before |
| `cache` | What do readers see after a write, how old can an answer be, does a cache take back what it has shown? | 3 requests by 2 readers for 2 cached pages and an uncached one, 1 write heard or not, 2 processes, a lagging replica, LRU of 1, TTL 1, handler limit 1 |
| `limiter` | Is the limit kept over eviction and sweep, is Retry-After honest? | 3 keys, map of 2, 3 units a tick, 5 a request, burst 2 |
| `projections` | Is any committed write missing, does what was found right stay, is everything stale queued, does fan-out end? | workload 1: an adjustment, a grant, two events, one check; workload 2: an adjustment, two events over and under the limit, 2 workers, 2 attempts, 1 crash; workload 3: an adjustment, an event over the limit, 1 worker, one check |
| `prices` | Do the rows end with the best quote, as if saves were atomic? | 2 savers and the backfill, 5 quotes of 3 sources, 2 market dates |
| `price_writers` | Do a cycle, an attempt and a backfill that share the rows account for what they did, and end? | 2 symbols, 2 workers, 1 save slot, 1 cycle |
| `market_jobs` | Are prices fresh and the close tried to the end of its window? | one evening to the third morning, 5-minute units, default intervals |
| `lifecycle` | Does every start and stop end in order? | every role, each set-up step may fail, 1 request, grace 2 |
| `fetch` | Are slots spaced and pauses kept, does a cancellation end all? | 2 fetches of 3 attempts, 6 ticks |
| `rebuild` | Do live writes survive a backfill, is what reads see complete, does a repair repair? | 4 rewards, 2 users, 3 symbols, 4 writers, 2 runs of each mode |
| `rollover` | Is every effective action in factors, cash and rows? | 2 replicas and a split or a delisting, or 1 replica and both on following days; 1 reward granted over any of the 3 days, 1 trouble |
| `settlement` | Does the past stand, does order matter, do the two balances agree? | 8 actions on 3 symbols, 2 adjustments of 3 sizes that may wait for each other, 4 days |

What they show, property by property:

- **ledger** - `OneEffect`: one grant and one adjustment per key, one grant per
  user, stock and day. `SuccessIsBooked`: a 200 names a committed row that is the
  one asked for. `StockUnitsAgree`, `AdjustmentsAddUp`: quantity, stock units of the ledger and
  adjustments agree, and the cash rows with what the client was told. `NoWaitCycle`: no circle of
  requests each waiting for the next's row or key. `GrantRetryReplays`: no retry
  of a committed grant is refused, also after a price change, a day boundary or
  an adjustment - as long as the user is active and the stock has a price; the
  code checks both before it looks for the key. `ImplementsAtomicLedger`.
- **cache** - `ReadYourWrites` on the primary with its one exception, a handler
  overtaken by the write. `StalenessBounded`: TTL plus replica lag plus the longest run of
  a handler, since an entry's age starts at its store. The TTL alone is not the
  bound. `CacheAdvances`: once a process on the primary has stored a version of a page, or
  answered it from its cache, no request that it answers later gets an older one, through expiry,
  eviction, a restart, writes no cache hears of and handlers that finish in another order
  than they read. Left out, as in `ReadYourWrites`, is an answer whose handler a write overtook. A 304
  of the handler counts as its answer and stores nothing, as in the code.
- **limiter** - `WindowBounded` for keys that keep their bucket or lost it to the
  idle sweep; a key evicted at `maxKeys` starts afresh, by design. It needs an idle bucket to
  have refilled within the idle time, which the defaults satisfy. `RetryAfterHonest`.
- **projections** - `RewardStateComplete` for writers that do not overlap on one
  reward other than event with event, and `StaleIsQueued` when, besides, no enqueue is
  coalesced onto a pending row (see below for both). The workloads keep to this by
  their choice of writers; the [proofs](#proofs) state it of the behaviour, as `NoOverlap`
  and `NoCoalescing`. `CheckedStays`: every write that a reconciliation had read when it found a
  user right is in that user's rows from then on, though it marks rows later than it compared them and
  transactions and workers that began before rebuild them after. It is silent on users never found right, and needs the same two
  provisos.
  `FanOutEnds`: aggregates agree for good or there is a dead letter.
- **prices** - `RowsAreBest`, `ImplementsAtomicStore`.
- **price_writers** - `FailuresShow`: what a cycle or a backfill did not write shows in
  its counts or its exit status. `OfficialStands`: a successful attempt's closes are in both
  rows whatever the others write after. `CycleEnds`, also when every worker panics.
- **market_jobs** - `FreshWhenQuiet`: fresh in the session, once nothing failed
  for a tick and two cycles. `FreshStays`: over nights and holidays.
  `RetriesToTheEnd` (for a process up since whenever), `OncePerDate` for the official close.
- **lifecycle** - `PoolsOutliveUsers`, `OrderlyExit` (exit with success means
  stopped, closed, answered), `StopsWhenTold`.
- **fetch** - `SlotsSpaced`, `BackoffHonoured`, `CancelEndsFetches`.
- **rebuild** - `LiveWritesStand`, `SwitchedIsComplete` (no read through the projections
  before every current reward has its row), `RepairIsComplete`.
- **rollover** - `CashPosted`: once the stage has run for today, the cash of rewards granted
  before it is that of all events in force. `RolledUp`: every committed event is in
  factors and rows, unless it committed during a rollover's stage and none has met it since. Both leave out
  the rewards whose grant began on one date and committed on a later one, until their cash, or their row, is next
  written: nobody does so for them (see [below](#disagreements-with-the-documentation)). `TodayIsProcessed`: when the days stop, every stage reaches today.
- **settlement** - `PastStands`: what a reward is as of a day is settled by what is
  dated up to it. `OrderIrrelevant`: no two actions of a reward share date and rank, because
  an action counts after the day its instrument was entered. `BooksAgree`: while no
  action is recorded for a date already counted, `rewards.quantity` times the factor is
  the settled quantity plus the fractions paid out, within two units of rounding, in every replay
  that is not cut at zero; and none is, unless an adjustment committed after one of a later date.

### Bounds
Three requests are two that race and one that retries; two keys let keyed races
and unrelated neighbours happen, and the day, price and quantity sets hold a boundary on
each side of every comparison. Two workers and two attempts give a claim that is
skipped, a retry, and a dead letter. The LRU and the bucket map hold one entry fewer than there are keys in
use, so eviction happens while others wait. Five quotes of three sources give each
pair of ranks in both time orders on one date and across dates.
`market_jobs` has a trading day, a holiday and the next morning; its night is cut
short (`DayLength` 118 units of 5 minutes), which hides nothing: no timer runs
between midnight and the open. `MaxSetbacks` 1 gives one restart or failure at any instant.
One save slot makes workers queue for it; two runs are a run cut short and its
rerun. In `settlement` a share has 10 units, the factor two decimals, a quotient three: coarser
than the code's 6, 12 and 16, so that rounding shows in few steps; the splits and the
merger of day 1 meet on one date, the last two mergers would close a cycle, and `Tolerance` 2
is the least that holds. Its two adjusters are one that waits for the other.
In `rollover` two replicas meet each kind of event, one replica meets both; both replicas and both
events together were checked for the two invariants once, as one workload (3.4 million states). A grant may take any number of days there,
in the code one midnight at most (five seconds); the longer ones are harmless.
The third request of `cache` is what asks for a page after a hit or a store of each of the others.
The clocks and versions (`MaxTime`, `MaxVersion`, `MaxDay`, `MaxCrashes`,
`MaxCycles`, `MaxRuns`, `MaxAdjustments`, `MaxRequests`, a workload's `checks`) are caps on unbounded counters.

Symmetry is used in `ledger`, `cache`, `limiter`, `prices` and `settlement` (of the adjusters); none of them
checks liveness, and no module orders or chooses among the values permuted.

### Fairness
- `RewardLedger!FairSpec` (for `EveryRequestAnswered`, see [below](#disagreements-with-the-documentation)): weak fairness
  of each request's next statement. PostgreSQL serves every session, and a
  lock's holder is such a session. A request waiting for a lock has no enabled
  step, so it is not assumed to get the lock; nothing is assumed of `Abort`.
- `Projections!LiveSpec`: weak fairness of each transaction's and worker's next
  statement, and of a backoff's end. The worker's ticker calls `process()` for
  ever (`projection_refresh.go`). Failures and crashes are never assumed to happen or to stop;
  crashes are bounded by `MaxCrashes`, attempts by `MaxAttempts` as in the code.
- `Lifecycle!FairSpec`: goroutines that can run do; a service's pass ends, since its
  context has a timeout and is cancelled; strong fairness only of leaving a loop once cancelled,
  because Go's `select` picks among ready cases at random.
- `PriceWriters!FairSpec`: workers go on, fetches and saves end (client, statement and
  context timeouts); strong fairness of the semaphore, whose waiters Go serves in order.
- `MarketFetch!FairSpec`: each fetch takes its next step; not the clock, so that a
  cancelled fetch ends without it.
- `Rollover!FairSpec`: the ticker starts passes and statements end. `TodayIsProcessed`
  assumes nothing of failures beyond their bound.
- All other properties are safety. The time bounds of `MarketJobs` come from the guards on
  its clock, not from fairness.

### What `market_jobs` taught about the defaults
- Mid-session freshness needs a cycle's length plus the provider's delay to stay
  within `MaxStale - Tick` (30 minutes by default). A quote 15 minutes old with a
  15-minute cycle is exactly the limit; at one request a second that is about 900 symbols.
- A catch-up started shortly before a tick makes that tick be skipped, so settling takes a
  tick and two cycles; started shortly before the close, it can skip the final
  quote and leave the price stale overnight. `FreshWhenQuiet` therefore claims
  the evening only for a start one cycle before the final quote.
- The first cycle runs at the open itself: a delayed quote is then stale until the next tick.
- The catch-up looks at the newest row of all symbols: one fresh symbol hides stale ones.
- `src/readme.md:776` says the start-up catches up whenever the newest price is not
  fresh; the code also requires a trading day past its open.

## Disagreements with the documentation

These sentences of the repository's docs, comments or tests are refuted by what
the code does. Each has a configuration that shows the counterexample, or is
a change of one that is there; none is in the list of runs. `tlc -config X.cfg M.tla`
with the X of the table and its module M.

| configuration, property | statement | what happens |
|---|---|---|
| `MCRewardLedger_Retry`, `AdjustmentRetryReplays` | retries of an adjustment replay (`transactional_integration_test.go:273`, `edge-cases.md:271`) | the balance is checked (`adjustment_handler.go:137-142`) before the key is recognised (`:181-226`): a retried full reversal gets 400 |
| `MCRewardLedger_Offboard`, `NoGrantAfterDeactivation` | no grant for a deactivated user (`edge-cases.md:260`) | the user is checked by the first statement and deactivated before the insert |
| `MCResponseCache_Race`, `EveryLocalWriteVisible` | "every local write clears the cache immediately" (`response_cache.go:22`), read-your-writes (`handler.go:18`) | a handler that read before the write stores its body after the invalidation |
| `MCResponseCache_Race` (1), `InvalidateRemovesUser` | an invalidation removes the user's entries (`response_cache.go:136`) | an entry of `/portfolio/01` survives the invalidation of user 1 |
| `MCProjections_Overlap`, `RewardStateComplete` | triggers maintain the projections in the same transaction (`edge-cases.md:48`) | `refresh_reward_state` computes, waits for the row, and stores what it computed before the wait (`0026:380-395`): an adjustment that overlaps an event is missing |
| `MCProjections_Coalesce`, `StaleIsQueued` | coalescing into one pending refresh (`0028:70`) | an enqueue leaves its work to a row that is processed before the enqueuing event commits |
| `MCProjections_Coalesce` (2), `TouchedIsChecked` | touched users are checked | an event that began before the check and commits after it is retired unread, since `touched_at` is the time its transaction began |
| `MCLifecycle_Default`, `NothingDropped` | shutdown lets requests in flight finish | with the default request timeout equal to the grace (`main.go:413`) a request accepted last is cut off |
| `MCRebuild_Online`, `OnlineIsSafe` | `--online` is safe while the API is live (the command's header) | a grant's trigger inserts a position before the backfill reaches its user; `DO NOTHING` then leaves it without the older rewards |

(1) with `Canonical = {"/portfolio/1"}`, so that the other URL stands for `/portfolio/01`,
`MaxEntries = 2`, and the property under PROPERTIES; (2) with `Worker = {}` and
`Workload <- Reconciled`.

In the two about missing refreshes the reconciliation, where it is enabled, can report the drift
afterwards; nothing in the write path repairs it before the next write for that reward or user.
One property holds and is in no run, for its cost: every request is answered
(`EveryRequestAnswered`), with a row written before `original_response` existed. It is
`MCRewardLedger_Retry` with `Request = {r1, r2, r3}`, `Seed <- LegacySeed`,
`Payload <- LedgerPayloads` and SPECIFICATION `FairSpec`.

Observed while modelling, without a configuration:

- Rollover. The comment in `0026` says the first run processes yesterday and
  today; with `v_from = p_as_of - 1` and `>` it is today only. An event trigger whose
  transaction began before midnight reruns the cash of yesterday's date and deletes today's
  postings until the next date; the model keeps event transactions within a day. The
  rollover stores what it computed before it waited (`0026:537` for factors, `0026:380-395` for
  rows), and its advisory lock does not keep triggers out: an event that commits in between is
  missing from the factor until the next date, and from the row until another write of that reward or a
  reconciliation. `EveryEventStands` in `MCRollover.cfg` shows it.
  A grant is dated by the day its transaction began: its row is replayed as of that day, and one that
  commits after midnight, when the stages of the new date have looked for their rewards, never
  gets the split or the delisting of that date in its row (`0026:606-624` looks for rewards of dates after the
  last one, and for the rewards of events after it) until the reward is written again or reconciled, and its cash only from the next posting.
  `EveryRewardStands` and `EveryRewardIsPosted` in `MCRollover.cfg`, in place of its INVARIANTS, show both. A reward granted on the day of its cash-exit delisting gets its cash with the next date.
- Settlement. The normalisation factor is one over a rounded factor, so after a 3:2
  bonus or a 1:3 split a full reversal is refused: its new quantity is negative far behind the
  comma. A merger into a symbol that itself merged away on or before that date leaves the
  holding in the dead symbol, because a link counts after the entry date. An action dated back
  leaves the normalised deltas as they were and can cut the replay at zero; one for today that commits
  between the handler's two statements does the same to one adjustment. An adjustment
  is dated by the day its transaction began. One that waits for the row over midnight reads the settled
  balance as of the day before, so it does not see "every adjustment committed before the row lock was
  acquired" (`adjustment_handler.go:122-123`): one of the new date that committed meanwhile is not in it, and if
  cash in lieu had paid out a fraction, both checks may pass and the replay of the new date is cut at zero.
  `NothingIsCut` in `MCSettlement.cfg` shows it. A split with cash in lieu recorded after a
  delisting of its symbol still pays.
- Rebuild. The trigger of a live event misses rows the backfill inserts from an older
  snapshot; an online insert can bring back a position under a merged symbol; a writer's plain
  INSERT can meet a backfilled row and fail.

## Proofs

TLAPS proves the following for every value of the constants that satisfies the
named `ASSUME`s of the component (which TLC evaluates in the runs). Each theorem
states the definition that a run checks, except where said.

**RewardLedgerProofs** - any number of requests, users, symbols, keys, payloads.
- `TypesHold`: `TypeOK`. By itself it is not inductive: it needs that a
  request's payload matches its phase (`PayloadFits`) and that a grant's quantity
  is positive (`PositiveGrant`); together `TypeInv`.
- `QuantityMatchesLedger` (`StockUnitsAgree`) and `AdjustmentsExclude`
  (`BalanceUnderLock`, in no run), from `BooksInv`. The quantity an adjustment writes is computed from what
  it read earlier, so the sum rule survives the write only because the lock has
  kept what was read current; that is why the two are proved together, and why
  `BooksInv` carries the locks. `LeaveBooks` and `ReadBooks` collect the
  actions that change no row.
- `NoDeadlock` (`NoWaitCycle`), from `BooksInv`: a holder of a row lock may wait for a key,
  but who holds a key uncommitted waits for nothing.
- `OneEffectPerKey` (`OneEffect`), from `EffectInv`, whose part `InsertedAlone`
  says that a transaction past its insert is alone with its key, and with its
  user, stock and day, among committed rows and among the uncommitted rows of
  others. The look-up after a conflict plays no part in it: it only chooses the answer.
- `SuccessHolds` (`SuccessIsBooked`), from `AnswersInv`: a stored response names the row it is
  stored in (`OwnResponses`), a request's progress matches its payload and answer (`Handled`), a grant
  was computed from a price its symbol had (`Priced`), and what a client was told is booked (`Booked`).
  No committed row is ever lost (`RowsKept`), so what one request was told stays true through
  the steps of the others.
- `RetriesReplay` (`GrantRetryReplays`), an action property, from `AnswersInv`, `BooksInv` and
  `EffectInv`: the key leads to one row only, and that row is the one asked for.
- `AdjustmentsExplain` (`AdjustmentsAddUp`), from `AddUpInv`: a sum over the requests' adjustments
  changes by one term at a commit, and the balance under the lock says by which.
- `LedgerIsAtomic` (`ImplementsAtomicLedger`): a commit maps to the atomic booking, the step in which a
  retry finds its key to the atomic replay, a refusal to the atomic refusal, everything else to a stutter.
- Assumed: finitely many requests (for the sums), and of rows granted before the
  behaviour starts that they are not adjusted yet and that a stored response names its own
  row: the handler writes it with the id its own insert returned (`reward_handler.go:247`).

**RateLimiterProofs** - `UserRateLimiter`, for any number of keys, rate, burst, idle time and map size.
- `PromisesHold`: a bucket has between zero and a full burst, and each
  Retry-After given is backed by the tokens there will be (`PromisesBacked`).
- `RetryIsHonest`: `RetryAfterHonest`. The argument never looks at the LRU list:
  a bucket made anew is full, so eviction and sweep can only help a waiting
  client. The arithmetic is in lemmas (`WaitIsEnough`, `RefillBounds`, `BackInTime`).
- `WindowsBounded` (`WindowBounded`). Here the list matters: a bucket that is lost and made
  anew is a gift unless it had refilled anyway. `WindowInv` says the list is what `Allow`
  keeps it to be (`Lists`), and `Affordable`: what a key was given since any instant, plus what its
  bucket holds now, is at most a full bucket and what flowed in since. The sweep
  loses only buckets idle for `IdleTTL`, which have refilled by the property's own proviso.

The same module, `MarketFetch`, for any number of fetches and any durations, and any number of attempts as far as
`RetryDelays` follows the code (see [not modelled](#not-modelled)).
- `SlotsAreSpaced` (`SlotsSpaced`): a slot is given out at the free time, which moves by the
  interval and never back; nothing is sent before its slot.
- `PausesAreHonoured` (`BackoffHonoured`), from `BackoffInv`: a fetch in its pause wakes no earlier than
  what the server is owed, and one past it has waited. Hypothesis `HeadersFit`: every Retry-After is
  below `Wrap`. A longer one, of centuries, overflows a `time.Duration` in `parseRetryAfter`
  and is taken for another pause or none.

**ResponseCacheProofs** - any number of processes, readers, writers, users, pages and lags.
- `OwnWritesRead` (`ReadYourWrites`), `CachesAdvance` (`CacheAdvances`, an action property) and
  `StalenessIsBounded` (`StalenessBounded`), all from `CacheInv` (`CacheFits`). A read is answered from an entry that
  another read stored, so the invariant says the same of entries (`Kept`), of reads at each
  stage (`Waits`, `Runs`, `Answers`) and of writers: when each version was
  current, which acknowledged writes an entry shows unless one overtook its handler, and that
  neither such an entry nor a handler no write has overtaken is behind what the cache has shown of its page. Capacity and LRU
  order play no part; a removal loses nothing. The
  staleness theorem has the hypothesis `TTL > 0`: in the code zero turns the cache off, and without a
  cached entry the strict bound can be met exactly.

**PriceStoreProofs** - any quotes, calendar, and number of savers.
- `TypesHold`, `RowsHold` (`RowsAreBest`). The invariant `IInv` adds `Decided` - a
  saver holding a row's lock decided on the row as it still is - and `RowsDated`. The
  lemmas `TakenCurrentIsBetter`, `KeptCurrentIsBetter`, `TakenHistoryIsBetter` and
  `KeptHistoryIsBetter` say the WHERE clauses order quotes transitively, over dates and ranks.
- `StoreIsAtomic` (`ImplementsAtomicStore`): the commit of a `SaveQuote` maps to the
  atomic save, by `Decided`; every other step of it to a stutter. `PriceWriters` rests on it.

The same module, `PriceWriters`, for any listing, pool, file and dates.
- `ClosesStand` (`OfficialStands`). Every save of any job leaves each row at least as good for
  every quote (`Improves`, from the four lemmas above), so what an attempt has booked and shown stays so
  (`AttemptInv`): through its own other saves, and through those of workers and backfill, before and after it ends.
- `FailuresAreShown` (`FailuresShow`). For the backfill `ImportInv` says the same of the closes
  it saw. For the cycle, `Books`: each symbol is in the channel, with a worker or counted once, unless the
  cycle was disturbed; `Channel`: what is in the channel is the rest of the listing.
- `WriterTypesHold` (`WritersTypeOK`, in no run): with it, that the slots taken are those of the workers that
  save (`SlotsInv`), through panics and failures.

**LifecycleProofs** - any set of configurations, requests and grace.
- `PoolsAreOpen` (`PoolsOutliveUsers`) and `ExitIsOrderly` (`OrderlyExit`), from `IInv`:
  a service runs only between its start and `main`'s wait for it, `main` closes
  pools only after the last wait, and a request in flight keeps `Shutdown` waiting or is cut off by its grace.

The same module, `Rebuild`, for any users, rewards, symbols, writers, commands and batch sizes.
- `BackfillLosesNothing` (`LiveWritesStand`), `GateHolds` (`SwitchedIsComplete`) and `RepairCompletes`
  (`RepairIsComplete`, an action property), all from `RInv`. `ProcInv`: a row a transaction has
  replayed is its own until it ends (it waits for the row of another) and has all that was written to its
  reward. So a commit leaves a row for each current reward it concerns, and `BatchInv` can say of a
  batch read from an older snapshot that each row is as good as the snapshot or already there, where
  `DO NOTHING` leaves it. `RowInv` says rows are of current rewards only, which is why the gate may compare counts.
- The repair: no transaction runs beside it and no second command (`LockInv`), rewards and then users
  below the loop's position are right (`RepairInv`), and no reward and no user has an id beyond the
  `MAX(id)` the loop ends at.
- `ConstantsAssumption`: finitely many users and rewards, ids above zero, a reward granted once, no chains of
  events, and wrong rows only of rewards there are (a foreign key).

**ProjectionsProofs** - any number of users, rewards, writers, workers, and attempts.
- `RewardStateHolds`: `Spec /\ []NoOverlap => []RewardStateComplete`. `StateInv` has, for each
  writer, `Progress` - the rows it has replayed are what a replay would give if it
  committed now - and `Apart`: writers of one reward, and events, take turns. `Progress` is
  needed because a transaction commits long after it replayed, with commits of others in between.
- `StaleHolds`: `Spec /\ []NoOverlap /\ []NoCoalescing => []StaleIsQueued`. `AggregateInv` adds to
  `StateInv` who holds which user's lock (`Locks`), that what was rebuilt under it is what would be
  rebuilt now unless the user is marked (`UpToDate`), which users an event refreshes or leaves to the
  queue (`Fans`), and which row a worker has claimed (`Works`). Users are locked in turn, so a
  transaction holds rebuilt rows of one while it waits for another: only the lock keeps them right.
- `CheckedHolds`: `Spec /\ []NoOverlap /\ []NoCoalescing => []CheckedStays`. Rows only ever gain writes, but
  a transaction stores what it rebuilt earlier. `GrowthInv` adds to `AggregateInv` that what a transaction or a
  worker has rebuilt of a user is no older than the table and has the writes of its own (`Advances`), and that the
  aggregates are not ahead of `reward_state` (`Behind`). So what a check has found in the rows (`Serves`), before
  it marks the users and after (`CheckedInv`), no later commit takes out.
- The code does not ensure the hypotheses. `NoOverlap`: no event past its advisory lock while a grant
  or an adjustment of one of its rewards is under way; `NoCoalescing`: no event finds a pending
  row of a user it leaves to the queue. Without the one `MCProjections_Overlap`, without the other
  `MCProjections_Coalesce` violates the conclusion; behaviours with events on rewards that
  were granted or adjusted before satisfy both. `ConstantsAssumption` says what
  the schema does: ids are numbers, a grant or an adjustment writes one reward, and a reward is granted once.

**RolloverProofs** - the rollover, for any number of replicas, events, rewards and days; and the market jobs.
- `TypesHold`, `CashIsPosted` (`CashPosted`) and `EventsAreRolledUp` (`RolledUp`), all from `IInv`. A
  transaction stores what it computed from the events it saw when a statement began. `Buffered` says
  what a buffer is worth as long as the transaction runs, `Covered` which rows it still has to write,
  `Turns` who holds which lock. The posting lock admits one event's trigger or one stage at a time, so the
  cash of a commit is that of all events, for the rewards it found (`posted`); a stage's lock does not exclude triggers, so rows
  and factors are right up to the events that commit during the stage (`overlapped`). No lock excludes a
  grant. A reward of today owes nothing yet to the events up to today; one of an earlier date is `belated`
  when it commits, and `Covered` and both properties leave it out until its cash or its row is written
  by a transaction that no event under way has overtaken (`Overlooked`).
- `MarketJobs` (here too) - any calendar of trading days, any session, any intervals, any number of
  stops and failures. `JobsRun` is its invariant `JobsInvariant`: a slot lies in its date's window or is
  due (`ScheduleOk`), a running attempt began on its date at its slot or after (`AttemptOk`), only a
  running attempt is a late one (`LateOk`), and a date that was passed over has its file or an attempt in the window's
  last interval (`PassedOk`). From it follow
  - `AttemptsAreSlotted` (`OncePerDate`) and `ClosedMarketKeepsFresh` (`FreshStays`), without a
    hypothesis: the reference close does not move while the market is closed, over any run of holidays;
  - `AttemptsFillTheWindow` (`RetriesToTheEnd`), if an attempt is no longer than from midnight to the
    window's end: one that hangs beyond that can take the window of the next day with it.
- `QuietPriceIsFresh` (`FreshWhenQuiet`), if `IntervalsFit`. `FreshWhenQuiet` says nothing of the states
  between, so `QuoteInvariant` (`QuotesKeepUp`) follows the row from tick to tick: the timer is the next slot of the
  grid (`TimerOk`), a cycle that is still running when the timer fires is one of a recent trouble (`SkipOk`), the row is
  as old as the last finished cycle left it (`SessionOk`), and from the final quote on it is of the close, unless its
  cycle runs (`FinalOk`). Without `IntervalsFit` it does not hold: a cycle longer than a tick makes each second tick be skipped.

**DataFacts** - what several of these proofs need of sums and sequences: `SmallestSubset`,
`FirstNumber`, `LastNumber`, how a sum changes with one of its terms, what a filtered
sequence holds. The community modules define a sum as a fold, a recursive function over the
subsets of a set. Induction over it is not available, so a claim about every sum is proved by a
smallest set that violates it, which exists because strict inclusion on the subsets of a finite
set is well founded.

Only model-checked:
- Liveness and whatever needs fairness, which the prover does not cover: `FanOutEnds`, `CycleEnds`,
  `StopsWhenTold`, `CancelEndsFetches`, `TodayIsProcessed`, `EveryRequestAnswered`.
- `OnlineIsSafe` of `Rebuild`, which does not hold.
- `Settlement`: its properties are about what a replay computes, a fold over
  data with rounding at each step.

## Not modelled

- **Trigger branches for moved or deleted rewards and adjustments**: no Go code
  reaches them. **Updates and deletes of stock events**: an operator's SQL only.
  **Two validations of events at one time** (two mergers that close a cycle
  together): events are recorded one by one in `Settlement`.
- **Settlement inside the other modules**: `RewardLedger` assumes no corporate action is
  effective on the stocks it adjusts, and `Projections`, `Rebuild` and `Rollover` replace the
  replay by the set of writes it saw.
- **Queue pruning, health, progress marks, VACUUM**: they change nothing modelled.
- **What the reporting reads compute**, their paging and JSON: what they can show is
  what `Projections` and `Rebuild` say of the tables.
- **Fees and rounding**: arithmetic on one amount, tested directly.
- **Providers**: their answers are inputs of `PriceStore`, `MarketJobs` and `PriceWriters`.
- **MARKET_DATA_MARKET_HOURS_ONLY=false**, and the in-process `PriceCache`, which no
  production code reads.
- **Rollover's very first run** (its marks are NULL), and events whose transaction spans midnight (grants that do are modelled).
- **The retry delay of the HTTP client beyond 34 attempts** or so: `RetryBase << (attempt-1)` then
  overflows an int64 (`marketdata/http.go:254-276`). `RetryDelays` has the delay without the overflow; the configured number of attempts is small.
- **Configuration, migrations runner, metrics, alerts, models, load tests, deployment**:
  no behaviour of their own, or outside the program. `bench` holds nearly a quarter of the Go lines.
- **A missed close** (no worker all evening): the service never tries it again
  (`src/readme.md:778` leaves it to the backfill). A corrected bhavcopy of the same date replaces the
  current row and not the history row; no document says which is meant.

## Plan

Done, in the order of importance: the write path and its abstract
specification; cache and read path; limiter; projections, queue and
reconciliation; price store, its abstract specification and the jobs that write it; market
jobs; HTTP client; start-up and shutdown; rebuild; rollover; settlement.

What could follow:

1. `Rollover` composed with `Projections`: the users' aggregates across midnight.
2. `Settlement` with updates and deletes of events, and validations side by side.
3. `MARKET_DATA_MARKET_HOURS_ONLY=false`, and the two market loops with more than one symbol.

## Running

    tlc -workers 2 -config MCRewardLedger_All.cfg MCRewardLedger.tla
    tlapm RewardLedgerProofs.tla

Every run is named in `PROJECT.json` with its module and configuration.
