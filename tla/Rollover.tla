------------------------------ MODULE Rollover ------------------------------
(***************************************************************************)
(* The daily rollover: CorporateActionService.process, run by any number   *)
(* of worker replicas, calls three *_if_due functions, each a transaction  *)
(* of its own: corporate-action cash, instrument factors, effective        *)
(* corporate actions.  They meet the statement trigger of stock_events,    *)
(* which does the same work for its event, and the transactions that grant *)
(* a reward.                                                               *)
(*                                                                         *)
(* A transaction's market_today() is the date it began on, however long it *)
(* waits.  A statement reads what is committed when it starts; what a      *)
(* transaction writes is buffered in tx and visible from its commit, and   *)
(* its rows are locked from the write on.  A ratio, a factor or a row of   *)
(* reward_state is abstracted to the set of events it was computed from.   *)
(* Adjustments and the users' aggregates are left to Projections.          *)
(***************************************************************************)
EXTENDS Naturals, FiniteSets

CONSTANTS Replica,        \* worker processes
          Event,          \* rows of stock_events somebody will insert
          Split, Delist,  \* those of type split or bonus; delistings with cash
          Reward,         \* ids of rewards somebody will grant
          Symbol, SymbolOf, Effective, \* of a reward or event; of an event
          Workload,       \* which events and replicas a behaviour may have
          MaxDay, MaxTroubles,         \* bounds
          None

Stage == {"cash", "factors", "effective"}
Task  == Event \cup Replica

ASSUME RolloverAssumption ==
  /\ Split \cup Delist \subseteq Event /\ Split \cap Delist = {} 
  /\ Workload \subseteq SUBSET Task
  /\ Event \cap Replica = {} /\ Reward \subseteq Nat
  /\ SymbolOf \in [Event \cup Reward -> Symbol] /\ Effective \in [Event -> Nat]
  /\ None \notin Nat \cup Task /\ \A C \in SUBSET (Reward \X Event) : C # None
  /\ \A E \in SUBSET Event : E # None

VARIABLES load,        \* the workload of this behaviour; it never changes
          today,       \* the market date
          mark,        \* projection_meta: last date of each stage
          events,      \* committed stock_events
          granted,     \* reward_date of committed rewards, or None
          granting,    \* the transactions that grant a reward, or None
          cash,        \* ledger rows with a stock_event_id: reward and event
          factor,      \* instrument_factor: events in the factor, as_of
          rewardState, \* reward_state: events replayed
          lock,        \* holders of the advisory locks
          tx,          \* each task's transaction
          overlapped,  \* history: of each stage, events that committed during it
                       \* and that no later one has met on their date
          belated,     \* history: rewards that committed after their date and
                       \* whose cash, or whose row, nobody has written since
          troubles     \* history: aborts so far

dbVars == <<mark, events, granted, cash, factor, rewardState>>
history == <<overlapped, belated>>
state == <<today, dbVars, granting, lock, tx, history, troubles>>
vars == <<load, state>>

\* Every stage has a lock of its own; process_corporate_action_cash takes
\* "posting", so the triggers of two events exclude each other.
Lock == Stage \cup {"posting"}

\* base: the events a stage found; posted: the rewards whose cash is in cash.
Idle == [pc |-> "idle", asOf |-> 0, todo |-> {}, row |-> {}, posted |-> {},
         cash |-> None, factors |-> <<>>, rows |-> <<>>, base |-> {}]

\* In force for a reward: a split or merger of a later date, or a delisting of
\* the reward's date or later (before it, the reward had no units to cash).
InForce(date, e, asOf) ==
  /\ date < Effective[e] \/ (e \in Delist /\ date = Effective[e])
  /\ Effective[e] <= asOf

Rewards == {r \in Reward : granted[r] # None}

\* reward_action_settlement of a reward, on the events a statement sees.
Replayed(r, E, asOf) ==
  {e \in E : SymbolOf[e] = SymbolOf[r] /\ InForce(granted[r], e, asOf)}

\* reward_corporate_action_cash_details.
Details(E, asOf) == UNION {{r} \X Replayed(r, E, asOf) : r \in Rewards}

\* stock_action_factor.
FactorOf(s, E, asOf) == {e \in E \cap Split : SymbolOf[e] = s /\ Effective[e] <= asOf}

\* A statement of t sees what is committed and t's own event.
Sees(t) == events \cup ({t} \cap Event)

\* The committed events a stage of the rollover meets.
Found(t) == IF t \in Replica THEN events ELSE {}

Goes(t, new) == tx' = [tx EXCEPT ![t] = new]

Starting(stage) == [Idle EXCEPT !.pc = stage, !.asOf = today]

-----------------------------------------------------------------------------
(* Locks and dates *)

\* INSERT INTO stock_events; its trigger starts with the cash.  The wait for
\* the lock is left out: the date is the same after it.
BeginEvent(e) ==
  /\ e \in load /\ tx[e].pc = "idle" /\ e \notin events /\ lock["posting"] = None
  /\ Goes(e, Starting("cash"))
  /\ lock' = [lock EXCEPT !["posting"] = e]
  /\ UNCHANGED <<today, dbVars, granting, history, troubles>>

\* A pass of the ticker, or the one at the start.  Passes that would find
\* nothing due are left out: they change nothing.
BeginPass(p) ==
  /\ p \in load /\ tx[p].pc = "idle" /\ \E s \in Stage : mark[s] # today
  /\ Goes(p, Starting("cash"))
  /\ UNCHANGED <<today, dbVars, granting, lock, history, troubles>>

StageOf(p) == CASE tx[p].pc \in {"cash", "postedCash"} -> "cash"
                [] tx[p].pc \in {"factors", "storeFactors", "storedFactors"} -> "factors"
                [] OTHER -> "effective"

\* The stages follow each other, each in a transaction with its own date.
After(p) == CASE StageOf(p) = "cash"    -> Starting("factors")
              [] StageOf(p) = "factors" -> Starting("effective")
              [] OTHER                  -> Idle

\* A stage's transaction begins later than the one before it ends.
StartLater(p) ==
  /\ tx[p].pc \in Stage /\ tx[p].asOf # today
  /\ Goes(p, Starting(tx[p].pc))
  /\ UNCHANGED <<today, dbVars, granting, lock, history, troubles>>

\* A stage takes its lock, reads its mark and goes on if it is due, up to the
\* end of its first statement.  One step: while a replica holds the lock no
\* other can move the mark.
Enters(t, stage) ==
  /\ tx[t].pc = stage
  /\ t \in Replica => /\ lock[stage] \in {None, t}
                      /\ tx[t].asOf > mark[stage]

\* The trigger of an event takes no stage's lock.
LocksOf(t) == IF t \in Replica THEN Lock ELSE {"posting"}

Takes(t, L) == lock' = [l \in Lock |-> IF l \in L THEN t ELSE lock[l]]

\* A stage that is not due returns -1.
SkipStage(p) ==
  /\ tx[p].pc \in Stage /\ lock[tx[p].pc] \in {None, p}
  /\ tx[p].asOf <= mark[tx[p].pc]
  /\ Goes(p, After(p))
  /\ UNCHANGED <<today, dbVars, granting, lock, history, troubles>>

\* Mutant: process_corporate_action_cash takes a session lock, which outlives
\* the transaction.
ReleasedButPosting(t) ==
  [l \in Lock |-> IF lock[l] = t /\ l # "posting" THEN None ELSE lock[l]]

\* pg_advisory_xact_lock: released when the transaction ends, either way.
Released(t) == [l \in Lock |-> IF lock[l] = t THEN None ELSE lock[l]]

-----------------------------------------------------------------------------
(* Cash *)

\* Mutant: an event that takes effect today is left to tomorrow.
PostingsTomorrow(t) == {d \in Details(Sees(t), tx[t].asOf) : Effective[d[2]] < tx[t].asOf}

Postings(t) == Details(Sees(t), tx[t].asOf)

\* process_corporate_action_cash: what is not in the details is deleted, the
\* rest upserted.  Nobody else writes these rows while the lock is held.
PostCash(t) ==
  /\ Enters(t, "cash") /\ lock["posting"] \in {None, t}
  /\ Takes(t, {"posting", "cash"} \cap LocksOf(t))
  /\ Goes(t, [tx[t] EXCEPT !.cash = Postings(t), !.posted = Rewards, !.base = Found(t),
                           !.pc = CASE t \in Replica -> "postedCash"
                                    [] t \in Split   -> "factors"
                                    [] OTHER         -> "effective"])
  /\ UNCHANGED <<today, dbVars, granting, history, troubles>>

-----------------------------------------------------------------------------
(* Factors *)

\* refresh_instrument_factors, or .._for_symbols for an event: one statement
\* computes the factors on its snapshot ...
ComputeFactors(t) ==
  /\ Enters(t, "factors")
  /\ Takes(t, {"factors"} \cap LocksOf(t))
  /\ Goes(t, [tx[t] EXCEPT
       !.pc = "storeFactors", !.base = Found(t),
       !.factors = [s \in IF t \in Event THEN {SymbolOf[t]} ELSE Symbol |->
                      [of |-> FactorOf(s, Sees(t), tx[t].asOf), asOf |-> tx[t].asOf]]])
  /\ UNCHANGED <<today, dbVars, granting, history, troubles>>

FactorStored(t, s) == s \in DOMAIN tx[t].factors /\ tx[t].pc # "storeFactors"

\* ... and stores them as the rows become free.
StoreFactors(t) ==
  /\ tx[t].pc = "storeFactors"
  /\ \A u \in Task \ {t}, s \in DOMAIN tx[t].factors : ~FactorStored(u, s)
  /\ Goes(t, [tx[t] EXCEPT !.pc = IF t \in Event THEN "effective" ELSE "storedFactors"])
  /\ UNCHANGED <<today, dbVars, granting, lock, history, troubles>>

\* stock_prices_adjusted takes the stored factor on its day only.
ServedFactor(s) == IF factor[s].asOf = today THEN factor[s].of ELSE FactorOf(s, events, today)

-----------------------------------------------------------------------------
(* reward_state *)

\* Mutant: only what takes effect on the day itself is looked for.
FromYesterday(p) == tx[p].asOf - 1

\* refresh_effective_corporate_actions: v_from.
From(p) == mark["effective"]

\* affected_reward_ids_for_symbols, of the event's symbol or of the symbols
\* of all events whose date has come; and the rewards whose date has come.
Affected(t) ==
  IF t \in Event THEN {r \in Rewards : SymbolOf[r] = SymbolOf[t]}
  ELSE {r \in Rewards :
          \/ From(t) < granted[r] /\ granted[r] <= tx[t].asOf
          \/ \E e \in events : /\ SymbolOf[e] = SymbolOf[r]
                               /\ From(t) < Effective[e] /\ Effective[e] <= tx[t].asOf}

Resolve(t) ==
  /\ Enters(t, "effective")
  /\ Takes(t, {"effective"} \cap LocksOf(t))
  /\ Goes(t, [tx[t] EXCEPT !.pc = "rows", !.todo = Affected(t), !.base = Found(t)])
  /\ UNCHANGED <<today, dbVars, granting, history, troubles>>

\* ORDER BY reward_id.
NextRow(t) == CHOOSE r \in tx[t].todo : \A q \in tx[t].todo : r <= q

\* refresh_reward_state: one statement computes the row on its snapshot ...
ComputeRow(t) ==
  /\ tx[t].pc = "rows" /\ tx[t].todo # {}
  /\ Goes(t, [tx[t] EXCEPT !.pc = "storeRow",
                           !.row = Replayed(NextRow(t), Sees(t), tx[t].asOf)])
  /\ UNCHANGED <<today, dbVars, granting, lock, history, troubles>>

\* ... and stores it once the row is free.
StoreRow(t) ==
  LET r == NextRow(t)
  IN /\ tx[t].pc = "storeRow"
     /\ \A u \in Task \ {t} : r \notin DOMAIN tx[u].rows
     /\ Goes(t, [tx[t] EXCEPT !.pc = "rows", !.todo = @ \ {r}, !.row = {},
                   !.rows = [q \in DOMAIN @ \cup {r} |-> IF q = r THEN tx[t].row ELSE @[q]]])
     /\ UNCHANGED <<today, dbVars, granting, lock, history, troubles>>

-----------------------------------------------------------------------------
(* The ends of a transaction *)

\* The events a stage has taken into account: the factors are computed from
\* all of them, rows of reward_state for those whose date has come.
Met(p) == IF StageOf(p) = "factors" THEN tx[p].base
          ELSE {e \in tx[p].base : mark["effective"] < Effective[e] /\ Effective[e] <= tx[p].asOf}

\* An event under way has looked for its rewards before r committed.
Overlooked(r) ==
  \E e \in Event : /\ tx[e].pc \in {"rows", "storeRow"} /\ SymbolOf[e] = SymbolOf[r]
                    /\ r \notin tx[e].todo \cup DOMAIN tx[e].rows

Commit(t) ==
  /\ tx[t].pc \in {"postedCash", "storedFactors"} \/ (tx[t].pc = "rows" /\ tx[t].todo = {})
  /\ cash' = IF tx[t].cash = None THEN cash ELSE tx[t].cash
  /\ factor' = [s \in Symbol |-> IF s \in DOMAIN tx[t].factors THEN tx[t].factors[s] ELSE factor[s]]
  /\ rewardState' = [r \in Reward |-> IF r \in DOMAIN tx[t].rows THEN tx[t].rows[r] ELSE rewardState[r]]
  /\ lock' = Released(t)
  /\ events' = Sees(t)
  /\ belated' = [cash |-> belated.cash \ tx[t].posted,
                 effective |-> belated.effective \ {r \in DOMAIN tx[t].rows : ~Overlooked(r)}]
  /\ \/ t \in Event /\ Goes(t, Idle) /\ UNCHANGED <<mark, overlapped>>
     \/ /\ t \in Replica /\ Goes(t, After(t))
        /\ mark' = [mark EXCEPT ![StageOf(t)] = tx[t].asOf]
        /\ overlapped' = [overlapped EXCEPT ![StageOf(t)] = (@ \ Met(t)) \cup (events \ tx[t].base)]
  /\ UNCHANGED <<today, granted, granting, troubles>>

\* A statement fails, the pass's time limit expires or the process dies: the
\* database rolls back.  A pass that lives goes on with the next stage.
Abort(t) ==
  /\ tx[t].pc # "idle" /\ troubles < MaxTroubles
  /\ troubles' = troubles + 1
  /\ Goes(t, Idle) \/ (t \in Replica /\ Goes(t, After(t)))
  /\ lock' = Released(t)
  /\ UNCHANGED <<today, dbVars, granting, history>>

-----------------------------------------------------------------------------
(* Rewards *)

\* The handler's transaction: the reward will have the date this begins on.
BeginGrant(r) ==
  /\ granted[r] = None /\ granting[r] = None
  /\ granting' = [granting EXCEPT ![r] = [asOf |-> today, row |-> None]]
  /\ UNCHANGED <<today, dbVars, lock, tx, history, troubles>>

\* The INSERT, with its trigger: the row of reward_state as of that date, on the
\* events committed now.  The reward's cash is left to the stages.
InsertReward(r) ==
  /\ granting[r] # None /\ granting[r].row = None
  /\ LET date == granting[r].asOf
     IN granting' = [granting EXCEPT ![r].row =
          {e \in events : SymbolOf[e] = SymbolOf[r] /\ InForce(date, e, date)}]
  /\ UNCHANGED <<today, dbVars, lock, tx, history, troubles>>

Late(r) == IF granting[r].asOf < today THEN {r} ELSE {}

CommitGrant(r) ==
  /\ granting[r] # None /\ granting[r].row # None
  /\ granted' = [granted EXCEPT ![r] = granting[r].asOf]
  /\ rewardState' = [rewardState EXCEPT ![r] = granting[r].row]
  /\ granting' = [granting EXCEPT ![r] = None]
  /\ belated' = [cash |-> belated.cash \cup Late(r), effective |-> belated.effective \cup Late(r)]
  /\ UNCHANGED <<today, mark, events, cash, factor, lock, tx, overlapped, troubles>>

\* A statement fails or the handler's time limit expires; the client may retry.
AbortGrant(r) ==
  /\ granting[r] # None
  /\ granting' = [granting EXCEPT ![r] = None]
  /\ UNCHANGED <<today, dbVars, lock, tx, history, troubles>>

-----------------------------------------------------------------------------
\* Bound: no event's transaction runs over midnight.  A rollover's and
\* a grant's may.
NextDay ==
  /\ today < MaxDay /\ \A e \in Event : tx[e].pc = "idle"
  /\ today' = today + 1
  /\ UNCHANGED <<dbVars, granting, lock, tx, history, troubles>>

\* A database whose rollover has run on day 0.
Init ==
  /\ load \in Workload /\ today = 0
  /\ mark = [s \in Stage |-> 0]
  /\ events = {} /\ granted = [r \in Reward |-> None] /\ cash = {}
  /\ granting = [r \in Reward |-> None]
  /\ factor = [s \in Symbol |-> [of |-> {}, asOf |-> 0]]
  /\ rewardState = [r \in Reward |-> {}]
  /\ lock = [l \in Lock |-> None]
  /\ tx = [t \in Task |-> Idle]
  /\ overlapped = [s \in Stage |-> {}] /\ belated = [cash |-> {}, effective |-> {}]
  /\ troubles = 0

Work(t) == \/ PostCash(t) \/ ComputeFactors(t) \/ StoreFactors(t)
           \/ Resolve(t) \/ ComputeRow(t) \/ StoreRow(t) \/ Commit(t)

Next ==
  /\ UNCHANGED load
  /\ \/ \E e \in Event : BeginEvent(e)
     \/ \E p \in Replica : BeginPass(p) \/ SkipStage(p) \/ StartLater(p)
     \/ \E t \in Task : Work(t) \/ Abort(t)
     \/ \E r \in Reward : BeginGrant(r) \/ InsertReward(r) \/ CommitGrant(r) \/ AbortGrant(r)
     \/ NextDay

Spec == Init /\ [][Next]_vars

\* The ticker comes again and the database goes on with every transaction
\* that need not wait.  No event, reward or day need come.
FairSpec == /\ Spec
            /\ \A p \in Replica : WF_state(BeginPass(p)) /\ WF_state(SkipStage(p))
            /\ \A t \in Task : WF_state(Work(t))

-----------------------------------------------------------------------------
(* Properties *)

\* The cash postings of the rewards in R granted before today are those of all
\* committed events in force.  (A reward granted on the day of its delisting
\* waits for tomorrow.)
Posted(R) ==
  \A r \in R, e \in Event :
    granted[r] < today => (<<r, e>> \in cash <=> <<r, e>> \in Details(events, today))

\* Once the cash stage has run for today, exactly the cash that is owed is
\* posted, whatever replicas, failed stages, event triggers, grants and stages
\* begun yesterday did in between.  Except that of rewards that committed after
\* their date, until the next posting that finds them: nobody posts for them.
CashPosted == mark["cash"] = today => Posted(Rewards \ belated.cash)

\* What an operator expects, and the code does not do: every reward has its cash.
EveryRewardIsPosted == mark["cash"] = today => Posted(Rewards)

\* The events of E whose date the rollover has passed stand in the reward_state
\* of every reward of R granted before that date, and the splits of F up to
\* today in the factor that is served.
Stand(R, E, F) ==
  /\ \A r \in R, e \in E :
       /\ SymbolOf[e] = SymbolOf[r] /\ granted[r] < Effective[e]
       /\ Effective[e] <= mark["effective"]
       => e \in rewardState[r]
  /\ \A e \in F \cap Split : Effective[e] <= today => e \in ServedFactor(SymbolOf[e])

\* Committed events are applied, whichever of trigger and rollover had to do
\* it, and no later or slower one takes them out again.  Except those that
\* committed while a rollover was in the stage: it waits for their rows and
\* stores what it computed without them.  And except to rewards that committed
\* after their date, until their row is next written: the rollover of the date
\* that came may have looked for its rewards before.
RolledUp == Stand(Rewards \ belated.effective,
                  events \ overlapped["effective"], events \ overlapped["factors"])

\* What an operator expects, and the code does not do: every event is applied,
\* and to every reward.
EveryEventStands  == Stand(Rewards \ belated.effective, events, events)
EveryRewardStands == Stand(Rewards, events \ overlapped["effective"], events \ overlapped["factors"])

\* When the days stop, every stage reaches today: no failure, lock or other
\* replica leaves a date unprocessed.
TodayIsProcessed == <>[](\A s \in Stage : mark[s] = today)
=============================================================================
