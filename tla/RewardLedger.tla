---------------------------- MODULE RewardLedger ----------------------------
(***************************************************************************)
(* The write path of the Stocky API: POST /reward (CreateReward) and       *)
(* POST /adjustments/:id (adjustmentHandler), run by any number of         *)
(* concurrent HTTP requests against PostgreSQL at READ COMMITTED.          *)
(*                                                                         *)
(* One action is one SQL statement whose result another transaction can    *)
(* influence; statements that only add to the transaction's own            *)
(* uncommitted rows take effect in the Commit action, because nobody else  *)
(* sees them earlier.  A unique index makes an insert WAIT for an          *)
(* uncommitted row with the same key and FAIL (23505) on a committed one.  *)
(* SELECT ... FOR UPDATE holds the reward row until the transaction ends.  *)
(*                                                                         *)
(* No corporate action is effective here (instrument_quantity_factor = 1), *)
(* so reward-date units and current units coincide.                        *)
(***************************************************************************)
EXTENDS Integers, FiniteSets, Functions

CONSTANTS Request,    \* HTTP requests; each is received at most once
          SeedId,     \* rewards granted before the model starts
          Seed,       \* their rows
          User, Symbol, Key,
          Payload,    \* the request bodies clients may send
          Price,      \* the current prices a symbol may take
          MaxDay,     \* bound on the market date
          None        \* SQL NULL, "no row", "no owner", "no answer yet"

VARIABLES active,       \* users with deleted_at IS NULL
          price,        \* stock_prices_adjusted; 0 when the symbol has no row
          today,        \* market_today()
          rewards,      \* committed rows of rewards
          adjustments,  \* committed rows of adjustments
          ledger,       \* committed ledger rows, totalled per reward
          lock,         \* row lock on each reward
          phase,        \* next statement of the request's transaction
          payload,      \* the request's body
          begun,        \* market_today() at BEGIN
          seen,         \* currentPrice or currentQty, read by the transaction
          answer        \* the HTTP answer

env  == <<active, price, today>>
db   == <<rewards, adjustments, ledger>>
vars == <<env, db, lock, phase, payload, begun, seen, answer>>

-----------------------------------------------------------------------------
(* Types *)

RewardId  == SeedId \cup Request
MaybeKey  == Key \cup {None}
AdjustmentType == {"reward_reversal", "fee_refund", "manual_correction"}

CreatePayload == [kind: {"create"}, user: User, symbol: Symbol, qty: Int, key: MaybeKey]
AdjustPayload == [kind: {"adjust"}, reward: RewardId, type: AdjustmentType,
                  dq: Int, da: Int, key: MaybeKey]
AnyPayload    == CreatePayload \cup AdjustPayload

\* The stored original_response: the row it reports and the amount it reports.
Response  == [id: RewardId, amount: Int]
RewardRow == [user: User, symbol: Symbol, date: Int, quantity: Int, original: Int,
              key: MaybeKey, response: Response \cup {None}]
AdjustmentRow == [of: AdjustPayload, response: Response]
LedgerTotals  == [units: Int, cash: Int, feeBase: Int]
Answer    == [status: {200}, body: Response]
               \cup [status: {400, 409, 500}, body: {None}]

CreatePhase == {"checkUser", "readPrice", "insertReward", "findReward", "commitReward"}
AdjustPhase == {"lockReward", "checkBalance", "insertAdjustment", "findAdjustment",
                "commitAdjustment"}
InTransaction == CreatePhase \cup AdjustPhase

ASSUME RequestAssumption == IsFiniteSet(Request)
ASSUME PayloadAssumption == Payload \subseteq AnyPayload
ASSUME SeedAssumption    == /\ Seed \in [SeedId -> RewardRow]
                            /\ SeedId \cap Request = {}
                            /\ \A w \in SeedId : /\ Seed[w].quantity = Seed[w].original
                                                 /\ Seed[w].quantity >= 0
                                                 /\ Seed[w].response # None
                                                      => Seed[w].response.id = w
ASSUME BoundAssumption   == Price \subseteq Nat /\ MaxDay \in Nat
ASSUME NoneAssumption    == /\ None \notin AnyPayload /\ None \notin RewardRow
                            /\ None \notin AdjustmentRow /\ None \notin Answer
                            /\ None \notin Key /\ None \notin RewardId

TypeOK ==
  /\ active \subseteq User
  /\ price \in [Symbol -> Int]
  /\ today \in Nat
  /\ rewards \in [RewardId -> RewardRow \cup {None}]
  /\ adjustments \in [Request -> AdjustmentRow \cup {None}]
  /\ ledger \in [RewardId -> LedgerTotals]
  /\ lock \in [RewardId -> Request \cup {None}]
  /\ phase \in [Request -> InTransaction \cup {"idle", "done"}]
  /\ payload \in [Request -> AnyPayload \cup {None}]
  /\ begun \in [Request -> Nat]
  /\ seen \in [Request -> Int]
  /\ answer \in [Request -> Answer \cup {None}]

-----------------------------------------------------------------------------
(* Derived state *)

\* reward_action_settlement with no corporate action in force: the original
\* grant plus every committed adjustment of the reward.
Settled(w) ==
  rewards[w].original
    + SumFunctionOnSet([a \in Request |->
                          IF adjustments[a] # None /\ adjustments[a].of.reward = w
                          THEN adjustments[a].of.dq ELSE 0], Request)

\* Two grants collide on UNIQUE(idempotency_key) or on the normalized unique
\* index over (user_id, stock_symbol, reward_date).
SameGrant(k1, u1, s1, d1, k2, u2, s2, d2) ==
  \/ k1 # None /\ k1 = k2
  \/ u1 = u2 /\ s1 = s2 /\ d1 = d2

ASSUME SeedsDistinct ==
  \A v, w \in SeedId :
    v # w => ~SameGrant(Seed[v].key, Seed[v].user, Seed[v].symbol, Seed[v].date,
                        Seed[w].key, Seed[w].user, Seed[w].symbol, Seed[w].date)

CommittedGrant(r) ==
  \E w \in RewardId :
    /\ rewards[w] # None
    /\ SameGrant(payload[r].key, payload[r].user, payload[r].symbol, begun[r],
                 rewards[w].key, rewards[w].user, rewards[w].symbol, rewards[w].date)

UncommittedGrant(r) ==
  \E s \in Request \ {r} :
    /\ phase[s] = "commitReward"
    /\ SameGrant(payload[r].key, payload[r].user, payload[r].symbol, begun[r],
                 payload[s].key, payload[s].user, payload[s].symbol, begun[s])

CommittedAdjustment(r) ==
  \E a \in Request : /\ payload[r].key # None
                     /\ adjustments[a] # None
                     /\ adjustments[a].of.key = payload[r].key

\* Mutant: the key is reserved by an insert before the reward row is locked.
AdjustmentInsertedFirst(s) == phase[s] \in AdjustPhase

AdjustmentInserted(s) == phase[s] = "commitAdjustment"

UncommittedAdjustment(r) ==
  \E s \in Request \ {r} : /\ payload[r].key # None
                           /\ AdjustmentInserted(s)
                           /\ payload[s].key = payload[r].key

-----------------------------------------------------------------------------
(* Leaving a transaction *)

Proceed(r, p) == phase' = [phase EXCEPT ![r] = p]

\* The deferred tx.Rollback (or the read-only commit of a replay) releases the
\* row lock; the handler then writes its answer.
Release(r) == lock' = [w \in RewardId |-> IF lock[w] = r THEN None ELSE lock[w]]

Reply(r, status, body) ==
  /\ answer' = [answer EXCEPT ![r] = [status |-> status, body |-> body]]
  /\ Proceed(r, "done")

Refuse(r, status) ==
  /\ Reply(r, status, None)
  /\ Release(r)
  /\ UNCHANGED <<env, db, payload, begun, seen>>

\* A stored response that is NULL (a row written before original_response
\* existed) cannot be replayed: the handler answers 500.
Replay(r, stored) ==
  /\ IF stored = None THEN Reply(r, 500, None) ELSE Reply(r, 200, stored)
  /\ Release(r)
  /\ UNCHANGED <<env, db, payload, begun, seen>>

\* A failed statement, a failed commit, the 5 second context deadline or the
\* death of the process: PostgreSQL rolls the transaction back.
Abort(r) == phase[r] \in InTransaction /\ Refuse(r, 500)

-----------------------------------------------------------------------------
(* Receiving a request *)

\* Validation before BEGIN.
Acceptable(p) ==
  IF p.kind = "create" THEN p.qty > 0
  ELSE /\ p.dq # 0 \/ p.da # 0
       /\ p.type = "reward_reversal" => p.dq <= 0 /\ p.da >= 0
       /\ p.type = "fee_refund" => p.dq = 0 /\ p.da >= 0

Receive(r, p) ==
  /\ phase[r] = "idle"
  /\ payload' = [payload EXCEPT ![r] = p]
  /\ IF Acceptable(p)
     THEN /\ Proceed(r, IF p.kind = "create" THEN "checkUser" ELSE "lockReward")
          /\ begun' = [begun EXCEPT ![r] = today]
          /\ UNCHANGED answer
     ELSE Reply(r, 400, None) /\ UNCHANGED begun
  /\ UNCHANGED <<env, db, lock, seen>>

-----------------------------------------------------------------------------
(* CreateReward *)

CheckUser(r) ==
  /\ phase[r] = "checkUser"
  /\ \/ /\ payload[r].user \in active
        /\ Proceed(r, "readPrice")
        /\ UNCHANGED <<env, db, lock, payload, begun, seen, answer>>
     \/ /\ payload[r].user \notin active
        /\ Refuse(r, 400)

ReadPrice(r) ==
  /\ phase[r] = "readPrice"
  /\ \/ /\ price[payload[r].symbol] > 0
        /\ seen' = [seen EXCEPT ![r] = price[payload[r].symbol]]
        /\ Proceed(r, "insertReward")
        /\ UNCHANGED <<env, db, lock, payload, begun, answer>>
     \/ /\ price[payload[r].symbol] = 0
        /\ Refuse(r, 400)

\* Mutant: a look-up before the insert instead of a unique index.
InsertRewardUnindexed(r) ==
  /\ phase[r] = "insertReward"
  /\ Proceed(r, IF CommittedGrant(r) THEN "findReward" ELSE "commitReward")
  /\ UNCHANGED <<env, db, lock, payload, begun, seen, answer>>

InsertReward(r) ==
  /\ phase[r] = "insertReward"
  /\ ~UncommittedGrant(r)
  /\ Proceed(r, IF CommittedGrant(r) THEN "findReward" ELSE "commitReward")
  /\ UNCHANGED <<env, db, lock, payload, begun, seen, answer>>

\* Mutants: a retry with another quantity passes for the same request; a retry
\* after midnight does not.
SameRewardAnyQuantity(r, row) == /\ row.user = payload[r].user
                                 /\ row.symbol = payload[r].symbol
SameRewardSameDay(r, row) == /\ row.user = payload[r].user
                             /\ row.symbol = payload[r].symbol
                             /\ row.original = payload[r].qty
                             /\ row.date = begun[r]

SameReward(r, row) == /\ row.user = payload[r].user
                      /\ row.symbol = payload[r].symbol
                      /\ row.original = payload[r].qty

\* After ROLLBACK TO SAVEPOINT: look the key up, compare, replay.
FindReward(r) ==
  LET holders == {w \in RewardId : /\ payload[r].key # None
                                   /\ rewards[w] # None
                                   /\ rewards[w].key = payload[r].key}
  IN /\ phase[r] = "findReward"
     /\ \/ /\ holders = {}
           /\ Refuse(r, 400)                  \* reward already given today
        \/ \E w \in holders :
              \/ ~SameReward(r, rewards[w]) /\ Refuse(r, 409)
              \/ SameReward(r, rewards[w]) /\ Replay(r, rewards[w].response)

\* Mutant: the response is built from the price at the time of the commit.
GrantResponseRepriced(r) ==
  [id |-> r, amount |-> price[payload[r].symbol] * payload[r].qty]

GrantResponse(r) == [id |-> r, amount |-> seen[r] * payload[r].qty]

\* The inserted row, UPDATE original_response and the five ledger rows become
\* visible together.  The client may still be told 500 when the commit's
\* acknowledgement is lost.
CommitReward(r) ==
  LET notional == seen[r] * payload[r].qty
      row == [user |-> payload[r].user, symbol |-> payload[r].symbol, date |-> begun[r],
              quantity |-> payload[r].qty, original |-> payload[r].qty,
              key |-> payload[r].key, response |-> GrantResponse(r)]
  IN /\ phase[r] = "commitReward"
     /\ rewards' = [rewards EXCEPT ![r] = row]
     /\ ledger' = [ledger EXCEPT ![r] = [units |-> payload[r].qty,
                                         cash |-> -notional, feeBase |-> notional]]
     /\ Reply(r, 200, GrantResponse(r)) \/ Reply(r, 500, None)
     /\ UNCHANGED <<env, adjustments, lock, payload, begun, seen>>

-----------------------------------------------------------------------------
(* adjustmentHandler *)

\* Mutant: the balance is read without FOR UPDATE.
LockRewardUnlocked(r) ==
  /\ phase[r] = "lockReward"
  /\ \/ rewards[payload[r].reward] = None /\ Refuse(r, 400)
     \/ /\ rewards[payload[r].reward] # None
        /\ seen' = [seen EXCEPT ![r] = rewards[payload[r].reward].quantity]
        /\ Proceed(r, "checkBalance")
        /\ UNCHANGED <<env, db, lock, payload, begun, answer>>

\* SELECT ... FOR UPDATE returns the latest committed version of the row it
\* locks, after waiting for the previous holder.
LockReward(r) ==
  LET w == payload[r].reward
  IN /\ phase[r] = "lockReward"
     /\ \/ /\ rewards[w] = None
           /\ Refuse(r, 400)                  \* reward not found
        \/ /\ rewards[w] # None
           /\ lock[w] = None
           /\ lock' = [lock EXCEPT ![w] = r]
           /\ seen' = [seen EXCEPT ![r] = rewards[w].quantity]
           /\ Proceed(r, "checkBalance")
           /\ UNCHANGED <<env, db, payload, begun, answer>>

NewQuantity(r) == seen[r] + payload[r].dq

\* The settled balance is read by a statement of its own, then both balances
\* are checked -- before the idempotency key is looked at.
CheckBalance(r) ==
  LET negative == NewQuantity(r) < 0 \/ Settled(payload[r].reward) + payload[r].dq < 0
  IN /\ phase[r] = "checkBalance"
     /\ \/ negative /\ Refuse(r, 400)
        \/ /\ ~negative
           /\ Proceed(r, "insertAdjustment")
           /\ UNCHANGED <<env, db, lock, payload, begun, seen, answer>>

InsertAdjustment(r) ==
  /\ phase[r] = "insertAdjustment"
  /\ ~UncommittedAdjustment(r)
  /\ Proceed(r, IF CommittedAdjustment(r) THEN "findAdjustment" ELSE "commitAdjustment")
  /\ UNCHANGED <<env, db, lock, payload, begun, seen, answer>>

FindAdjustment(r) ==
  /\ phase[r] = "findAdjustment"
  /\ \E a \in Request :
        /\ adjustments[a] # None
        /\ adjustments[a].of.key = payload[r].key
        /\ \/ adjustments[a].of # payload[r] /\ Refuse(r, 409)
           \/ adjustments[a].of = payload[r] /\ Replay(r, adjustments[a].response)

\* UPDATE rewards SET quantity writes the absolute value computed under the
\* lock, guarded by $1 >= 0; zero rows affected is answered 400.
CommitAdjustment(r) ==
  LET w == payload[r].reward
      response == [id |-> r, amount |-> payload[r].da]
  IN /\ phase[r] = "commitAdjustment"
     /\ \/ /\ NewQuantity(r) < 0
           /\ Refuse(r, 400)
        \/ /\ NewQuantity(r) >= 0
           /\ rewards' = [rewards EXCEPT ![w].quantity = NewQuantity(r)]
           /\ adjustments' = [adjustments EXCEPT ![r] = [of |-> payload[r],
                                                         response |-> response]]
           /\ ledger' = [ledger EXCEPT ![w].units = @ + payload[r].dq,
                                       ![w].cash = @ + payload[r].da]
           /\ Reply(r, 200, response) \/ Reply(r, 500, None)
           /\ Release(r)
           /\ UNCHANGED <<env, payload, begun, seen>>

-----------------------------------------------------------------------------
(* The rest of the system, as these handlers see it *)

\* Offboarding: UPDATE users SET deleted_at = NOW().
Deactivate(u) ==
  /\ u \in active
  /\ active' = active \ {u}
  /\ UNCHANGED <<price, today, db, lock, phase, payload, begun, seen, answer>>

\* The price updater inserts or replaces the current price; no row is deleted.
Reprice(s, p) ==
  /\ p > 0 /\ p # price[s]
  /\ price' = [price EXCEPT ![s] = p]
  /\ UNCHANGED <<active, today, db, lock, phase, payload, begun, seen, answer>>

NextDay ==
  /\ today < MaxDay
  /\ today' = today + 1
  /\ UNCHANGED <<active, price, db, lock, phase, payload, begun, seen, answer>>

AllDone == \A r \in Request : phase[r] = "done"

-----------------------------------------------------------------------------
Init ==
  /\ active = User
  /\ price \in [Symbol -> Price]
  /\ today = 0
  /\ rewards = [w \in RewardId |-> IF w \in SeedId THEN Seed[w] ELSE None]
  /\ adjustments = [a \in Request |-> None]
  /\ ledger = [w \in RewardId |-> [units |-> IF w \in SeedId THEN Seed[w].original ELSE 0,
                                   cash |-> 0, feeBase |-> 0]]
  /\ lock = [w \in RewardId |-> None]
  /\ phase = [r \in Request |-> "idle"]
  /\ payload = [r \in Request |-> None]
  /\ begun = [r \in Request |-> 0]
  /\ seen = [r \in Request |-> 0]
  /\ answer = [r \in Request |-> None]

CreateStep(r) == \/ CheckUser(r) \/ ReadPrice(r) \/ InsertReward(r)
                 \/ FindReward(r) \/ CommitReward(r)
AdjustStep(r) == \/ LockReward(r) \/ CheckBalance(r) \/ InsertAdjustment(r)
                 \/ FindAdjustment(r) \/ CommitAdjustment(r)
Step(r) == CreateStep(r) \/ AdjustStep(r)

Environment == \/ \E u \in User : Deactivate(u)
               \/ \E s \in Symbol, p \in Price : Reprice(s, p)
               \/ NextDay

Next == \/ \E r \in Request : \/ \E p \in Payload : Receive(r, p)
                              \/ Step(r)
                              \/ Abort(r)
        \/ Environment
        \/ AllDone /\ UNCHANGED vars

Spec == Init /\ [][Next]_vars

\* The handlers run on their own goroutines and PostgreSQL serves every
\* session: a request whose next statement can run eventually runs it.
\* Nothing is assumed of Abort: no answer relies on the 5 second deadline.
FairSpec == Spec /\ \A r \in Request : WF_vars(Step(r))

-----------------------------------------------------------------------------
(* Properties *)

\* Whatever the interleaving of its adjustments, a reward's stored quantity is
\* what the ledger's stock_units rows add up to -- the comparison the
\* reward_ledger_reconciliation view makes -- and is never negative.
StockUnitsAgree ==
  \A w \in RewardId :
    /\ rewards[w] = None => ledger[w].units = 0
    /\ rewards[w] # None => /\ rewards[w].quantity = ledger[w].units
                            /\ rewards[w].quantity >= 0

\* The adjustments table explains the books, so no adjustment is lost or booked
\* twice: a reward's quantity is what settlement recomputes from the original
\* grant and its adjustments, and the ledger's inr_outflow total of a reward
\* granted by a request is the notional its fees were computed on, as reported
\* to the client, minus what its adjustments returned.
AdjustmentsAddUp ==
  /\ \A w \in RewardId : rewards[w] # None => rewards[w].quantity = Settled(w)
  /\ \A w \in Request :
       rewards[w] # None =>
         /\ ledger[w].feeBase = rewards[w].response.amount
         /\ ledger[w].cash = SumFunctionOnSet(
               [a \in Request |-> IF adjustments[a] # None /\ adjustments[a].of.reward = w
                                  THEN adjustments[a].of.da ELSE 0], Request)
               - ledger[w].feeBase

\* However many requests carry a key, and whether they run side by side or
\* after a lost acknowledgement, at most one grant and one adjustment exist for
\* it, and no user gets the same stock twice on a market day.
OneEffect ==
  /\ \A v, w \in RewardId :
        (v # w /\ rewards[v] # None /\ rewards[w] # None) =>
          ~SameGrant(rewards[v].key, rewards[v].user, rewards[v].symbol, rewards[v].date,
                     rewards[w].key, rewards[w].user, rewards[w].symbol, rewards[w].date)
  /\ \A a, b \in Request :
        (a # b /\ adjustments[a] # None /\ adjustments[b] # None
               /\ adjustments[a].of.key # None) =>
          adjustments[a].of.key # adjustments[b].of.key

\* The balance a transaction computes its new quantity from is still the stored
\* one when it writes, and no two transactions work on one reward.
BalanceUnderLock ==
  /\ \A r \in Request :
        phase[r] \in AdjustPhase \ {"lockReward"} =>
          /\ lock[payload[r].reward] = r
          /\ rewards[payload[r].reward] # None
          /\ seen[r] = rewards[payload[r].reward].quantity
  /\ \A w \in RewardId, r \in Request :
        lock[w] = r => phase[r] \in AdjustPhase \ {"lockReward"} /\ payload[r].reward = w

Asked(r, row) == /\ row.user = payload[r].user
                 /\ row.symbol = payload[r].symbol
                 /\ row.original = payload[r].qty

\* A client told "200" can rely on it: the effect is committed, is the one that
\* client asked for, and the answer is the stored original response.
SuccessIsBooked ==
  \A r \in Request :
    (answer[r] # None /\ answer[r].status = 200) =>
      LET body == answer[r].body IN
      IF payload[r].kind = "create"
      THEN /\ rewards[body.id] # None
           /\ rewards[body.id].response = body
           /\ rewards[body.id].key = payload[r].key
           /\ Asked(r, rewards[body.id])
      ELSE /\ adjustments[body.id] # None
           /\ adjustments[body.id].response = body
           /\ adjustments[body.id].of = payload[r]

Refused(r) == answer[r] = None /\ answer'[r] # None /\ answer'[r].status \in {400, 409}

\* A keyed grant that is already committed is replayed to a retry, not refused,
\* also after adjustments changed its quantity, on a later day or at another
\* price -- as long as the user is active and the symbol still has a price.
RefusesNoGranted ==
  \A r \in Request :
    (Refused(r) /\ payload[r] # None /\ payload[r].kind = "create"
       /\ payload[r].user \in active /\ price[payload[r].symbol] > 0) =>
      ~\E w \in RewardId : /\ payload[r].key # None
                           /\ rewards[w] # None
                           /\ rewards[w].key = payload[r].key
                           /\ Asked(r, rewards[w])

GrantRetryReplays == [][RefusesNoGranted]_vars

\* The same promise for adjustments, as transactional_integration_test.go:273
\* ("adjustment retry replays") and edge-cases.md:271 state it.
AdjustmentRetryReplays ==
  [][\A r \in Request :
       (Refused(r) /\ payload[r] # None /\ payload[r].kind = "adjust") =>
         ~\E a \in Request : /\ payload[r].key # None
                             /\ adjustments[a] # None
                             /\ adjustments[a].of = payload[r]]_vars

\* edge-cases.md:260 and the comment of migration 0024: a deactivated user
\* "cannot receive new rewards".
NoGrantAfterDeactivation ==
  [][\A r \in Request : (rewards[r] = None /\ rewards'[r] # None)
                           => payload[r].user \in active]_vars

\* The whole write path behaves as if each request were one atomic step.
Atomic == INSTANCE AtomicLedger WITH payload <- payload, rewards <- rewards,
                                     adjustments <- adjustments, ledger <- ledger,
                                     answer <- answer
ImplementsAtomicLedger == Atomic!Spec

\* PostgreSQL blocks request r's next statement on request s's transaction: on
\* the row lock it holds, or on the unique key it has inserted.
WaitsFor(r, s) ==
  /\ r # s
  /\ \/ /\ phase[r] = "lockReward"
        /\ rewards[payload[r].reward] # None
        /\ lock[payload[r].reward] = s
     \/ /\ phase[r] = "insertReward"
        /\ phase[s] = "commitReward"
        /\ SameGrant(payload[r].key, payload[r].user, payload[r].symbol, begun[r],
                     payload[s].key, payload[s].user, payload[s].symbol, begun[s])
     \/ /\ phase[r] = "insertAdjustment"
        /\ payload[r].key # None
        /\ AdjustmentInserted(s)
        /\ payload[s].key = payload[r].key

\* Row locks and unique keys are waited for in one order: in no set of requests
\* does each wait for another of the set, so no deadlock is ever broken by
\* PostgreSQL at the price of a client's 500.
NoWaitCycle ==
  \A S \in SUBSET Request :
    S # {} => \E r \in S : \A s \in S : ~WaitsFor(r, s)

\* No request waits for ever on a row lock or on another request's key.
EveryRequestAnswered ==
  \A r \in Request : phase[r] # "idle" ~> phase[r] = "done"
=============================================================================
