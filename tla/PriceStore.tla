------------------------------ MODULE PriceStore ------------------------------
(***************************************************************************)
(* The stored prices of one symbol (price_store.go): its stock_prices row  *)
(* and its stock_price_history rows, one per market date.  Live quotes     *)
(* (the price cycle's workers, the bhavcopy job) go through SaveQuote,     *)
(* two upserts in one transaction; the backfill command goes through       *)
(* SaveHistoryQuote, one statement.  Quotes arrive late, twice and in any  *)
(* order, from several sources.                                            *)
(*                                                                         *)
(* INSERT ... ON CONFLICT DO UPDATE ... WHERE takes the row's lock, also   *)
(* when its WHERE is false, compares with the latest committed row, and    *)
(* keeps the lock to the end of the transaction.                           *)
(***************************************************************************)
EXTENDS PricePrecedence

CONSTANTS Saver,        \* concurrent SaveQuote calls
          FutureSkew, MaxAge,   \* DefaultQuoteFutureSkew, DefaultQuoteMaxAge
          MaxTime       \* bound on the clock

VARIABLES now,
          current,      \* the committed stock_prices row
          history,      \* committed stock_price_history: date -> row, or None
          save,         \* the SaveQuote transactions
          saved,        \* quotes whose SaveQuote committed (history variable)
          imported      \* quotes whose SaveHistoryQuote committed (history variable)

vars == <<now, current, history, save, saved, imported>>

-----------------------------------------------------------------------------
SaveState == [pc: {"idle", "current", "history", "commit"}, quote: Quote \cup {None},
              accepted: BOOLEAN, changed: BOOLEAN]

ASSUME BoundAssumption == FutureSkew \in Nat /\ MaxAge \in Nat /\ MaxTime \in Nat

-----------------------------------------------------------------------------
\* INSERT when the row is not there, UPDATE when the WHERE clause allows it.
ChangesHistory(q) == history[Date(q)] = None \/ TakesHistory(q, history[Date(q)])

-----------------------------------------------------------------------------
(* SaveQuote *)

ValidateHistory(q) == q.at <= now + FutureSkew
Validate(q) == ValidateHistory(q) /\ q.at >= now - MaxAge

Idle == [pc |-> "idle", quote |-> None, accepted |-> FALSE, changed |-> FALSE]

\* Mutant: the current row's lock ends with its statement.
CurrentFreeAlways(s) == TRUE

CurrentFree(s) == \A o \in Saver \ {s} : save[o].pc \notin {"history", "commit"}

BeginSave(s, q) ==
  /\ save[s].pc = "idle" /\ Validate(q)
  /\ save' = [save EXCEPT ![s] = [Idle EXCEPT !.pc = "current", !.quote = q]]
  /\ UNCHANGED <<now, current, history, saved, imported>>

UpsertCurrent(s) ==
  /\ save[s].pc = "current" /\ CurrentFree(s)
  /\ save' = [save EXCEPT ![s].pc = "history",
                          ![s].accepted = TakesCurrent(save[s].quote, current)]
  /\ UNCHANGED <<now, current, history, saved, imported>>

UpsertHistory(s) ==
  /\ save[s].pc = "history"
  /\ save' = [save EXCEPT ![s].pc = "commit", ![s].changed = ChangesHistory(save[s].quote)]
  /\ UNCHANGED <<now, current, history, saved, imported>>

CommitSave(s) ==
  /\ save[s].pc = "commit"
  /\ LET q == save[s].quote
     IN /\ current' = IF save[s].accepted THEN q ELSE current
        /\ history' = IF save[s].changed THEN [history EXCEPT ![Date(q)] = q] ELSE history
        /\ saved' = saved \cup {q}
  /\ save' = [save EXCEPT ![s] = Idle]
  /\ UNCHANGED <<now, imported>>

\* A statement or the commit fails, or the context is cancelled: rollback.
FailSave(s) ==
  /\ save[s].pc # "idle"
  /\ save' = [save EXCEPT ![s] = Idle]
  /\ UNCHANGED <<now, current, history, saved, imported>>

\* Mutant: the import does not wait for the row a transaction holds.
HistoryFreeAlways(q) == TRUE

\* No transaction has this date's row.
HistoryFree(q) == \A s \in Saver : ~(save[s].pc = "commit" /\ SameDate(save[s].quote, q))

\* SaveHistoryQuote: one statement, one transaction.
Import(q) ==
  /\ ValidateHistory(q) /\ HistoryFree(q)
  /\ history' = IF ChangesHistory(q) THEN [history EXCEPT ![Date(q)] = q] ELSE history
  /\ imported' = imported \cup {q}
  /\ UNCHANGED <<now, current, save, saved>>

Tick ==
  /\ now < MaxTime
  /\ now' = now + 1
  /\ UNCHANGED <<current, history, save, saved, imported>>

-----------------------------------------------------------------------------
Init ==
  /\ now = 0
  /\ current = Seed
  /\ history = [d \in Dates |-> None]
  /\ save = [s \in Saver |-> Idle]
  /\ saved = {} /\ imported = {}

Next ==
  \/ \E s \in Saver : \/ \E q \in Quote : BeginSave(s, q)
                      \/ UpsertCurrent(s) \/ UpsertHistory(s) \/ CommitSave(s) \/ FailSave(s)
  \/ \E q \in Quote : Import(q)
  \/ Tick

Spec == Init /\ [][Next]_vars

-----------------------------------------------------------------------------
(* Properties *)

TypeOK ==
  /\ now \in 0..MaxTime
  /\ current \in Row
  /\ history \in [Dates -> Row \cup {None}]
  /\ save \in [Saver -> SaveState]
  /\ \A s \in Saver : save[s].pc # "idle" => save[s].quote # None
  /\ saved \subseteq Quote /\ imported \subseteq Quote

\* The current price is a best one of the quotes whose SaveQuote committed,
\* whatever order they came and committed in; the seed stays only if there is
\* none (SaveQuote, upsertCurrentPriceSQL).
CurrentIsBest ==
  /\ saved = {} => current = Seed
  /\ saved # {} => current \in saved
  /\ \A q \in saved : AtLeastAsGood(current, q)

\* Every committed quote, live or imported, has a row at its date that is at
\* least as good, also when an import comes between the two statements of a
\* SaveQuote (upsertHistorySQL).
HistoryIsBest ==
  \A q \in saved \cup imported :
    /\ history[Date(q)] \in saved \cup imported
    /\ AtLeastAsGood(history[Date(q)], q)

\* Both tables end with a best one of what was committed, in whatever order
\* it came and between whatever statements (SaveQuote, SaveHistoryQuote).
RowsAreBest == CurrentIsBest /\ HistoryIsBest

\* A SaveQuote takes effect at its commit as if both statements had run there,
\* an import at its statement: to the jobs the store is the atomic one.
Atomic == INSTANCE AtomicPriceStore
            WITH current <- current, history <- history,
                 saved <- saved, imported <- imported

ImplementsAtomicStore == Atomic!AtomicSpec
=============================================================================
