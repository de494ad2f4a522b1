---------------------------- MODULE PriceWriters ----------------------------
(***************************************************************************)
(* The three jobs that write prices, against a store whose saves are one   *)
(* step (AtomicPriceStore, which PriceStore implements):                   *)
(*   - a price cycle (price_updater.go): workers take symbols from a       *)
(*     channel, fetch a live quote and save it under a semaphore;          *)
(*   - a bhavcopy attempt (bhavcopy_service.go: runAttempt): the official  *)
(*     closes of one date, symbol by symbol;                               *)
(*   - a backfill (history_backfill.go: Run): the closes of a range of     *)
(*     dates, fetched first and then imported one by one.                  *)
(* Any fetch or save may fail, a worker may panic, and the process may be  *)
(* told to stop.  The channel holds all the cycle's symbols from the start:*)
(* its producer has nothing else to do and stops with the workers.         *)
(***************************************************************************)
EXTENDS PricePrecedence, Sequences, SequencesExt

CONSTANTS Symbol,      \* the symbols with a stock_prices row
          Listed,      \* the same, in the order ListCurrentPrices gives
          Worker, DBMaxConcurrent,
          Live,        \* quotes the live provider may give for a symbol
          Close,       \* [symbol, date] -> the official close in its file
          AttemptDate, \* the date of the bhavcopy attempt
          Days,        \* the backfill's dates, in order
          MaxCycles    \* bound on the cycles started

\* stock_prices has a row per symbol, and the options have at least one worker
\* (NewPriceService); a file's close is of its date.
ASSUME WritersAssumption ==
  /\ Listed \in Seq(Symbol) /\ Symbol = {Listed[i] : i \in DOMAIN Listed}
  /\ \A i, j \in DOMAIN Listed : Listed[i] = Listed[j] => i = j
  /\ IsFiniteSet(Worker) /\ Worker # {} /\ DBMaxConcurrent \in Nat \ {0}
  /\ Live \subseteq Quote /\ AttemptDate \in Dates /\ Days \in Seq(Dates)
  /\ MaxCycles \in Nat
  /\ \A s \in Symbol, d \in Dates :
       LET q == Close[<<s, d>>] IN q = None \/ (q \in Quote /\ Date(q) = d)

VARIABLES prices, histories, \* the committed rows, per symbol
          cancelled,
          cycles,           \* cycles started
          running,          \* PriceService.running
          queue,            \* the jobs channel, closed behind its last symbol
          worker,           \* [pc, symbol, quote]
          sem,              \* slots taken of dbSem
          counts,           \* cycleStats, without historyChanged
          fetches,          \* history: times a symbol was fetched this cycle
          disturbed,        \* history: this cycle lost a worker or was cancelled
          attempt,          \* runAttempt: [pc, todo, errors]; todo has the
                            \* places in Listed that are left
          import            \* Run and main: [pc, todo, failed, seen]; todo has
                            \* the places in Days and in Listed that are left

storeVars == <<prices, histories>>
cycleVars == <<cycles, running, queue, worker, sem, counts, fetches, disturbed>>
writersVars == <<storeVars, cancelled, cycleVars, attempt, import>>

NoJob == [pc |-> "left", symbol |-> None, quote |-> None]
NoCounts == [kind \in {"fetched", "saved", "ignored", "failed"} |-> 0]
Official0 == [pc |-> "off", todo |-> {}, errors |-> 0]

WritersTypeOK ==
  /\ prices \in [Symbol -> Row] /\ histories \in [Symbol -> [Dates -> Row \cup {None}]]
  /\ cancelled \in BOOLEAN /\ running \in BOOLEAN /\ disturbed \in BOOLEAN
  /\ cycles \in 0..MaxCycles /\ queue \in Seq(Symbol)
  /\ worker \in [Worker -> [pc : {"select", "fetch", "sem", "save", "left", "dead"},
                            symbol : Symbol \cup {None}, quote : Quote \cup {None}]]
  /\ sem \in 0..DBMaxConcurrent
  /\ counts \in [{"fetched", "saved", "ignored", "failed"} -> Nat]
  /\ fetches \in [Symbol -> Nat]
  /\ attempt.pc \in {"off", "list", "save", "again", "succeeded"}
  /\ import.pc \in {"off", "save", "ok", "failed"}

WritersInit ==
  /\ prices = [s \in Symbol |-> Seed]
  /\ histories = [s \in Symbol |-> [d \in Dates |-> None]]
  /\ cancelled = FALSE
  /\ cycles = 0 /\ running = FALSE /\ queue = <<>>
  /\ worker = [w \in Worker |-> NoJob] /\ sem = 0
  /\ counts = NoCounts /\ fetches = [s \in Symbol |-> 0] /\ disturbed = FALSE
  /\ attempt = Official0
  /\ import = [pc |-> "off", todo |-> {}, failed |-> FALSE, seen |-> {}]

-----------------------------------------------------------------------------
(* The store *)

ReplacesHistory(s, q) ==
  histories[s][Date(q)] = None \/ TakesHistory(q, histories[s][Date(q)])

WriteHistory(s, q) ==
  histories' = IF ReplacesHistory(s, q) THEN [histories EXCEPT ![s][Date(q)] = q]
               ELSE histories

Accepted(s, q) == TakesCurrent(q, prices[s])

SaveQuote(s, q) ==
  /\ prices' = IF Accepted(s, q) THEN [prices EXCEPT ![s] = q] ELSE prices
  /\ WriteHistory(s, q)

-----------------------------------------------------------------------------
(* The price cycle *)

\* triggerUpdate and the head of updatePrices.  A listing that fails or is
\* empty ends the cycle at once and is left out.
StartCycle ==
  /\ ~running /\ cycles < MaxCycles
  /\ cycles' = cycles + 1 /\ running' = TRUE
  /\ queue' = Listed
  /\ worker' = [w \in Worker |-> [NoJob EXCEPT !.pc = "select"]]
  /\ counts' = NoCounts /\ fetches' = [s \in Symbol |-> 0]
  /\ disturbed' = cancelled
  /\ UNCHANGED <<storeVars, cancelled, sem, attempt, import>>

CycleOnly == UNCHANGED <<cancelled, cycles, running, attempt, import>>

Becomes(w, state) == worker' = [worker EXCEPT ![w] = state]
Count(kind) == counts' = [counts EXCEPT ![kind] = @ + 1]

Take(w) ==
  /\ worker[w].pc = "select" /\ queue # <<>>
  /\ Becomes(w, [NoJob EXCEPT !.pc = "fetch", !.symbol = Head(queue)])
  /\ queue' = Tail(queue)
  /\ fetches' = [fetches EXCEPT ![Head(queue)] = @ + 1]
  /\ UNCHANGED <<storeVars, sem, counts, disturbed>> /\ CycleOnly

\* The channel is closed and empty, or select takes ctx.Done.
LeavePool(w) ==
  /\ worker[w].pc = "select" /\ (queue = <<>> \/ cancelled)
  /\ Becomes(w, NoJob)
  /\ UNCHANGED <<storeVars, queue, sem, counts, fetches, disturbed>> /\ CycleOnly

Back(w) == Becomes(w, [NoJob EXCEPT !.pc = "select"])

FetchFails(w) ==
  /\ worker[w].pc = "fetch"
  /\ Back(w) /\ Count("failed")
  /\ UNCHANGED <<storeVars, queue, sem, fetches, disturbed>> /\ CycleOnly

\* A quote of another symbol is counted as fetched and as failed.
FetchMismatch(w) ==
  /\ worker[w].pc = "fetch"
  /\ Back(w)
  /\ counts' = [counts EXCEPT !["fetched"] = @ + 1, !["failed"] = @ + 1]
  /\ UNCHANGED <<storeVars, queue, sem, fetches, disturbed>> /\ CycleOnly

Fetched(w, q) ==
  /\ worker[w].pc = "fetch"
  /\ Becomes(w, [worker[w] EXCEPT !.pc = "sem", !.quote = q])
  /\ Count("fetched")
  /\ UNCHANGED <<storeVars, queue, sem, fetches, disturbed>> /\ CycleOnly

Acquire(w) ==
  /\ worker[w].pc = "sem" /\ sem < DBMaxConcurrent
  /\ Becomes(w, [worker[w] EXCEPT !.pc = "save"])
  /\ sem' = sem + 1
  /\ UNCHANGED <<storeVars, queue, counts, fetches, disturbed>> /\ CycleOnly

AcquireCancelled(w) ==
  /\ worker[w].pc = "sem" /\ cancelled
  /\ Back(w)
  /\ UNCHANGED <<storeVars, queue, sem, counts, fetches, disturbed>> /\ CycleOnly

\* The slot is given back by a deferred receive, whatever SaveQuote did.
SaveDone(w) ==
  /\ worker[w].pc = "save"
  /\ Back(w) /\ sem' = sem - 1
  /\ \/ /\ SaveQuote(worker[w].symbol, worker[w].quote)
        /\ Count(IF Accepted(worker[w].symbol, worker[w].quote)
                 THEN "saved" ELSE "ignored")
     \/ Count("failed") /\ UNCHANGED storeVars
  /\ UNCHANGED <<queue, fetches, disturbed>> /\ CycleOnly

\* A panic in the provider or the store: the worker is gone, its deferred
\* calls give back the slot and count it as ended.
Panic(w) ==
  /\ worker[w].pc \in {"fetch", "save"}
  /\ Becomes(w, [NoJob EXCEPT !.pc = "dead"])
  /\ sem' = IF worker[w].pc = "save" THEN sem - 1 ELSE sem
  /\ disturbed' = TRUE
  /\ UNCHANGED <<storeVars, queue, counts, fetches>> /\ CycleOnly

\* Mutant: the WaitGroup is not told of a worker that panicked.
EndCycleUnlessPanic ==
  /\ running /\ \A w \in Worker : worker[w].pc = "left"
  /\ running' = FALSE
  /\ UNCHANGED <<storeVars, cancelled, cycles, queue, worker, sem, counts,
                 fetches, disturbed, attempt, import>>

\* wg.Wait returns; what is left in the channel is dropped with it.
EndCycle ==
  /\ running /\ \A w \in Worker : worker[w].pc \in {"left", "dead"}
  /\ running' = FALSE
  /\ UNCHANGED <<storeVars, cancelled, cycles, queue, worker, sem, counts,
                 fetches, disturbed, attempt, import>>

Cycle ==
  \/ StartCycle \/ EndCycle
  \/ \E w \in Worker :
       \/ Take(w) \/ LeavePool(w) \/ FetchFails(w) \/ FetchMismatch(w)
       \/ \E q \in Live : Fetched(w, q)
       \/ Acquire(w) \/ AcquireCancelled(w) \/ SaveDone(w) \/ Panic(w)

-----------------------------------------------------------------------------
(* The bhavcopy attempt *)

AttemptOnly == UNCHANGED <<cancelled, cycleVars, import>>

\* The close of s in the attempt's file.
FileClose(s) == Close[<<s, AttemptDate>>]

StartAttempt ==
  /\ attempt.pc \in {"off", "again"} /\ ~cancelled
  /\ attempt' = [Official0 EXCEPT !.pc = "list"]
  /\ UNCHANGED storeVars /\ AttemptOnly

\* The listing or the download fails, or the file is not published yet.
AttemptFetchFails ==
  /\ attempt.pc = "list"
  /\ attempt' = [attempt EXCEPT !.pc = "again"]
  /\ UNCHANGED storeVars /\ AttemptOnly

\* The symbols the file has; missing ones are only logged.
AttemptFetched ==
  /\ attempt.pc = "list"
  /\ attempt' = [attempt EXCEPT !.pc = "save",
                   !.todo = {i \in DOMAIN Listed :
                               FileClose(Listed[i]) # None}]
  /\ UNCHANGED storeVars /\ AttemptOnly

\* In the order of the listing.  A save that fails is counted, and the loop
\* goes on.
AttemptSave ==
  /\ attempt.pc = "save" /\ attempt.todo # {}
  /\ LET i == Min(attempt.todo)
     IN \/ /\ SaveQuote(Listed[i], FileClose(Listed[i]))
           /\ attempt' = [attempt EXCEPT !.todo = @ \ {i}]
        \/ /\ attempt' = [attempt EXCEPT !.todo = @ \ {i}, !.errors = @ + 1]
           /\ UNCHANGED storeVars
  /\ AttemptOnly

\* Mutant: the attempt succeeds when it saved something.
VerdictLenient ==
  IF attempt.errors = Cardinality({s \in Symbol : FileClose(s) # None})
  THEN "again" ELSE "succeeded"

Verdict == IF attempt.errors > 0 THEN "again" ELSE "succeeded"

AttemptEnds ==
  /\ attempt.pc = "save" /\ attempt.todo = {}
  /\ attempt' = [attempt EXCEPT !.pc = Verdict]
  /\ UNCHANGED storeVars /\ AttemptOnly

Attempt ==
  StartAttempt \/ AttemptFetchFails \/ AttemptFetched \/ AttemptSave \/ AttemptEnds

-----------------------------------------------------------------------------
(* The backfill *)

ImportOnly == UNCHANGED <<prices, cancelled, cycleVars, attempt>>

\* The symbol and the date at place x, the places whose close the files of days
\* have, and the one the loops come to next: day by day, symbol by symbol.
Entry(x) == <<Listed[x[2]], Days[x[1]]>>

Published(days) == {x \in (DOMAIN Days) \X (DOMAIN Listed) :
                      Days[x[1]] \in days /\ Close[Entry(x)] # None}

Foremost(todo) ==
  CHOOSE x \in todo :
    \A y \in todo : x[1] < y[1] \/ (x[1] = y[1] /\ x[2] <= y[2])

\* GetHistory fetches the whole range first.  A day it has no file for is
\* reported as missing, which is no failure; a day whose fetch failed is one.
ImportFetched ==
  /\ import.pc = "off"
  /\ \E days \in SUBSET {Days[i] : i \in DOMAIN Days} : \E failed \in BOOLEAN :
       LET todo == Published(days)
       IN import' = [pc |-> "save", todo |-> todo, failed |-> failed,
                     seen |-> {Entry(x) : x \in todo}]
  /\ UNCHANGED histories /\ ImportOnly

\* Mutant: a failed import is logged and forgotten.
ImportOneForgets ==
  /\ import.pc = "save" /\ import.todo # {}
  /\ LET x == Foremost(import.todo)
     IN /\ WriteHistory(Entry(x)[1], Close[Entry(x)]) \/ UNCHANGED histories
        /\ import' = [import EXCEPT !.todo = @ \ {x}]
  /\ ImportOnly

ImportOne ==
  /\ import.pc = "save" /\ import.todo # {}
  /\ LET x == Foremost(import.todo)
         e == Entry(x)
     IN \/ /\ WriteHistory(e[1], Close[e])
           /\ import' = [import EXCEPT !.todo = @ \ {x}]
        \/ /\ import' = [import EXCEPT !.todo = @ \ {x}, !.failed = TRUE]
           /\ UNCHANGED histories
  /\ ImportOnly

\* The command's exit status.
ImportEnds ==
  /\ import.pc = "save" /\ import.todo = {}
  /\ import' = [import EXCEPT !.pc = IF import.failed THEN "failed" ELSE "ok"]
  /\ UNCHANGED histories /\ ImportOnly

Backfill == ImportFetched \/ ImportOne \/ ImportEnds

-----------------------------------------------------------------------------
Cancel ==
  /\ ~cancelled /\ cancelled' = TRUE
  /\ disturbed' = (disturbed \/ running)
  /\ UNCHANGED <<storeVars, cycles, running, queue, worker, sem, counts,
                 fetches, attempt, import>>

WritersNext == Cycle \/ Attempt \/ Backfill \/ Cancel

\* Goroutines that can run do run; fetches and saves end (the client's
\* timeout, the statement timeout, the context).
Fairness ==
  /\ WF_writersVars(EndCycle)
  /\ \A w \in Worker :
       /\ WF_writersVars(Take(w) \/ LeavePool(w))
       /\ WF_writersVars(FetchFails(w) \/ FetchMismatch(w) \/ \E q \in Live : Fetched(w, q))
       /\ SF_writersVars(Acquire(w) \/ AcquireCancelled(w))
       /\ WF_writersVars(SaveDone(w))

WritersSpec == WritersInit /\ [][WritersNext]_writersVars
FairSpec == WritersSpec /\ Fairness

-----------------------------------------------------------------------------
(* Properties *)

\* A cycle that ended undisturbed (no cancellation, no worker lost to a panic)
\* has fetched every listed symbol exactly once, and its log line's numbers
\* account for each of them (updatePrices, worker, processJobWithCycle).
CycleAccountsForAll ==
  ~running /\ cycles > 0 /\ ~disturbed =>
    /\ \A s \in Symbol : fetches[s] = 1
    /\ counts["saved"] + counts["ignored"] + counts["failed"] = Len(Listed)
    /\ counts["fetched"] <= Len(Listed)

\* A cycle that has begun ends, whatever fails, and also when every worker
\* panics; if not, running stays set and no price is fetched ever again.
CycleEnds == running ~> ~running

\* A bhavcopy attempt that reported success, so that the date is never tried
\* again, has left every close of the file in the history and none of the
\* current rows worse, whatever the cycle's workers and the backfill wrote in
\* between and afterwards (runAttempt).
OfficialStands ==
  attempt.pc = "succeeded" =>
    \A s \in Symbol : LET q == FileClose(s)
                          row == histories[s][AttemptDate]
                      IN q # None => /\ AtLeastAsGood(prices[s], q)
                                     /\ row # None /\ AtLeastAsGood(row, q)

\* A backfill that exits with success has left a row at least as good for
\* every close its files had: what it could not write shows in its exit status
\* (Run, main).
BackfillHonest ==
  import.pc = "ok" =>
    \A e \in import.seen : LET row == histories[e[1]][Date(Close[e])]
                           IN row # None /\ AtLeastAsGood(row, Close[e])

\* What the cycle or the backfill did not write shows: in the counts of the
\* cycle's log line, in the exit status of the command.
FailuresShow == CycleAccountsForAll /\ BackfillHonest
=============================================================================
