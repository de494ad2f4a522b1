------------------------- MODULE RewardLedgerProofs -------------------------
(***************************************************************************)
(* Theorems about RewardLedger for every set of requests, users, symbols,  *)
(* keys and payloads.                                                      *)
(***************************************************************************)
EXTENDS RewardLedger, DataFacts, TLAPS

\* A transaction's body has the fields its phase needs, and the reward an
\* adjustment has found exists.
PayloadFits ==
  \A r \in Request :
    /\ phase[r] \in CreatePhase => payload[r] \in CreatePayload
    /\ phase[r] \in AdjustPhase => payload[r] \in AdjustPayload
    /\ phase[r] \in AdjustPhase \ {"lockReward"} => rewards[payload[r].reward] # None

\* A grant that passed validation is positive.
PositiveGrant == \A r \in Request : phase[r] \in CreatePhase => payload[r].qty > 0

TypeInv == TypeOK /\ PayloadFits /\ PositiveGrant

-----------------------------------------------------------------------------
(* Type correctness *)

\* A request that is refused keeps every variable in its type.
LEMMA RefuseType ==
  ASSUME TypeInv, NEW r \in Request, NEW status \in {400, 409, 500}, Refuse(r, status)
  PROVE  TypeInv'
BY DEF Refuse, Reply, Proceed, Release, TypeInv, TypeOK, PayloadFits, PositiveGrant, env, db,
       Answer, CreatePhase, AdjustPhase, InTransaction

\* So does one that replays a stored response.
LEMMA ReplayType ==
  ASSUME TypeInv, NEW r \in Request, NEW stored \in Response \cup {None}, Replay(r, stored)
  PROVE  TypeInv'
BY DEF Replay, Reply, Proceed, Release, TypeInv, TypeOK, PayloadFits, PositiveGrant, env, db,
       Answer, CreatePhase, AdjustPhase, InTransaction

\* So does one that only moves to its next statement.
LEMMA ProceedType ==
  ASSUME TypeInv, NEW r \in Request, NEW p,
         \/ phase[r] \in CreatePhase /\ p \in CreatePhase
         \/ phase[r] \in AdjustPhase /\ p \in AdjustPhase /\ rewards[payload[r].reward] # None,
         Proceed(r, p), UNCHANGED <<env, db, payload, begun, answer>>,
         seen' \in [Request -> Int],
         lock' \in [RewardId -> Request \cup {None}]
  PROVE  TypeInv'
BY DEF Proceed, TypeInv, TypeOK, PayloadFits, PositiveGrant, env, db, CreatePhase, AdjustPhase, InTransaction

\* Initial states have the declared types.
LEMMA TypeAtInit == Init => TypeInv
<1> SUFFICES ASSUME Init PROVE TypeInv
  OBVIOUS
<1>1. rewards \in [RewardId -> RewardRow \cup {None}]
  BY SeedAssumption DEF Init
<1>2. ledger \in [RewardId -> LedgerTotals]
  BY SeedAssumption DEF Init, LedgerTotals, RewardRow
<1>3. price \in [Symbol -> Int]
  <2>1. price \in [Symbol -> Price] /\ Price \subseteq Int
    BY BoundAssumption DEF Init
  <2>2. QED BY <2>1
<1>4. QED
  BY <1>1, <1>2, <1>3
     DEF Init, TypeInv, TypeOK, PayloadFits, PositiveGrant, CreatePhase, AdjustPhase, InTransaction

\* The row a grant inserts is a row of rewards.
LEMMA GrantRowType ==
  ASSUME TypeInv, NEW r \in Request, phase[r] = "commitReward"
  PROVE  [user |-> payload[r].user, symbol |-> payload[r].symbol, date |-> begun[r],
          quantity |-> payload[r].qty, original |-> payload[r].qty,
          key |-> payload[r].key, response |-> GrantResponse(r)] \in RewardRow
<1>1. payload[r] \in CreatePayload
  BY DEF TypeInv, PayloadFits, CreatePhase
<1>2. seen[r] * payload[r].qty \in Int
  <2>1. seen[r] \in Int /\ payload[r].qty \in Int
    BY <1>1 DEF TypeInv, TypeOK, CreatePayload
  <2>2. QED BY <2>1
<1>3. GrantResponse(r) \in Response
  BY <1>2 DEF GrantResponse, Response, RewardId
<1>4. QED
  BY <1>1, <1>3 DEF TypeInv, TypeOK, RewardRow, CreatePayload

\* Every reachable state of the write path has the declared types.
THEOREM TypeCorrect == Spec => []TypeInv
<1>1. Init => TypeInv
  BY TypeAtInit
<1>2. TypeInv /\ [Next]_vars => TypeInv'
  <2> SUFFICES ASSUME TypeInv, [Next]_vars PROVE TypeInv'
    OBVIOUS
  <2> USE DEF TypeInv
  <2>1. ASSUME NEW r \in Request, NEW p \in Payload, Receive(r, p) PROVE TypeInv'
    BY <2>1, PayloadAssumption
       DEF Receive, Proceed, Reply, TypeOK, PayloadFits, PositiveGrant, env, db, Answer, AnyPayload,
           Acceptable,
           CreatePayload, AdjustPayload, CreatePhase, AdjustPhase, InTransaction
  <2>2. ASSUME NEW r \in Request, CheckUser(r) PROVE TypeInv'
    <3>1. CASE Refuse(r, 400)
      BY <3>1, RefuseType
    <3>2. CASE Proceed(r, "readPrice") /\ UNCHANGED <<env, db, lock, payload, begun, seen, answer>>
      BY <2>2, <3>2, ProceedType DEF CheckUser, CreatePhase, TypeOK
    <3>3. QED BY <2>2, <3>1, <3>2 DEF CheckUser
  <2>3. ASSUME NEW r \in Request, ReadPrice(r) PROVE TypeInv'
    <3>1. CASE Refuse(r, 400)
      BY <3>1, RefuseType
    <3>2. CASE /\ seen' = [seen EXCEPT ![r] = price[payload[r].symbol]]
               /\ Proceed(r, "insertReward")
               /\ UNCHANGED <<env, db, lock, payload, begun, answer>>
      <4>1. payload[r].symbol \in Symbol
        BY <2>3 DEF ReadPrice, PayloadFits, CreatePhase, CreatePayload
      <4>2. seen' \in [Request -> Int] /\ lock' \in [RewardId -> Request \cup {None}]
        BY <4>1, <3>2 DEF TypeOK
      <4>3. QED
        BY <2>3, <3>2, <4>2, ProceedType DEF ReadPrice, CreatePhase
    <3>3. QED BY <2>3, <3>1, <3>2 DEF ReadPrice
  <2>4. ASSUME NEW r \in Request, InsertReward(r) PROVE TypeInv'
    BY <2>4, ProceedType DEF InsertReward, CreatePhase, TypeOK
  <2>5. ASSUME NEW r \in Request, FindReward(r) PROVE TypeInv'
    <3>1. ASSUME NEW w \in RewardId, rewards[w] # None, Replay(r, rewards[w].response)
          PROVE  TypeInv'
      <4>1. rewards[w].response \in Response \cup {None}
        BY <3>1 DEF TypeOK, RewardRow
      <4>2. QED BY <3>1, <4>1, ReplayType
    <3>2. QED BY <2>5, <3>1, RefuseType DEF FindReward
  <2>6. ASSUME NEW r \in Request, CommitReward(r) PROVE TypeInv'
    <3>1. payload[r] \in CreatePayload
      BY <2>6 DEF CommitReward, PayloadFits, CreatePhase
    <3>2. seen[r] * payload[r].qty \in Int
      <4>1. seen[r] \in Int /\ payload[r].qty \in Int
        BY <3>1 DEF TypeOK, CreatePayload
      <4>2. QED BY <4>1
    <3> DEFINE n == seen[r] * payload[r].qty
    <3>3. GrantResponse(r) \in Response
      BY <3>2 DEF GrantResponse, Response, RewardId
    <3>4. /\ rewards' \in [RewardId -> RewardRow \cup {None}]
          /\ \A v \in RewardId : rewards[v] # None => rewards'[v] # None
      <4>1. [user |-> payload[r].user, symbol |-> payload[r].symbol, date |-> begun[r],
             quantity |-> payload[r].qty, original |-> payload[r].qty,
             key |-> payload[r].key, response |-> GrantResponse(r)] \in RewardRow
        BY <3>1, <3>3 DEF TypeOK, RewardRow, CreatePayload
      <4>2. QED BY <2>6, <4>1, NoneAssumption DEF CommitReward, TypeOK, RewardId
    <3>5. ledger' \in [RewardId -> LedgerTotals]
      <4>1. [units |-> payload[r].qty, cash |-> -n, feeBase |-> n] \in LedgerTotals
        BY <3>1, <3>2 DEF LedgerTotals, CreatePayload
      <4>2. QED BY <2>6, <4>1 DEF CommitReward, TypeOK
    <3>6. answer' \in [Request -> Answer \cup {None}]
      BY <2>6, <3>3 DEF CommitReward, TypeOK, Reply, Answer
    <3>7. QED
      BY <2>6, <3>4, <3>5, <3>6
         DEF CommitReward, TypeOK, PayloadFits, PositiveGrant, Reply, Proceed, env, CreatePhase, AdjustPhase,
             InTransaction
  <2>7. ASSUME NEW r \in Request, LockReward(r) PROVE TypeInv'
    <3>1. payload[r].reward \in RewardId
      BY <2>7 DEF LockReward, PayloadFits, AdjustPhase, AdjustPayload
    <3>2. CASE Refuse(r, 400)
      BY <3>2, RefuseType
    <3>3. CASE /\ rewards[payload[r].reward] # None
               /\ lock' = [lock EXCEPT ![payload[r].reward] = r]
               /\ seen' = [seen EXCEPT ![r] = rewards[payload[r].reward].quantity]
               /\ Proceed(r, "checkBalance")
               /\ UNCHANGED <<env, db, payload, begun, answer>>
      <4>1. rewards[payload[r].reward].quantity \in Int
        BY <3>1, <3>3 DEF TypeOK, RewardRow
      <4>2. seen' \in [Request -> Int] /\ lock' \in [RewardId -> Request \cup {None}]
        BY <3>1, <3>3, <4>1 DEF TypeOK
      <4>3. QED
        BY <2>7, <3>3, <4>2, ProceedType DEF LockReward, AdjustPhase
    <3>4. QED BY <2>7, <3>2, <3>3 DEF LockReward
  <2>8. ASSUME NEW r \in Request, CheckBalance(r) PROVE TypeInv'
    <3>1. CASE Refuse(r, 400)
      BY <3>1, RefuseType
    <3>2. CASE /\ Proceed(r, "insertAdjustment")
               /\ UNCHANGED <<env, db, lock, payload, begun, seen, answer>>
      BY <2>8, <3>2, ProceedType DEF CheckBalance, AdjustPhase, TypeOK, PayloadFits, PositiveGrant
    <3>3. QED BY <2>8, <3>1, <3>2 DEF CheckBalance
  <2>9. ASSUME NEW r \in Request, InsertAdjustment(r) PROVE TypeInv'
    BY <2>9, ProceedType DEF InsertAdjustment, AdjustPhase, TypeOK, PayloadFits, PositiveGrant
  <2>10. ASSUME NEW r \in Request, FindAdjustment(r) PROVE TypeInv'
    <3>1. ASSUME NEW a \in Request, adjustments[a] # None, Replay(r, adjustments[a].response)
          PROVE  TypeInv'
      <4>1. adjustments[a].response \in Response \cup {None}
        BY <3>1 DEF TypeOK, AdjustmentRow
      <4>2. QED BY <3>1, <4>1, ReplayType
    <3>2. QED BY <2>10, <3>1, RefuseType DEF FindAdjustment
  <2>11. ASSUME NEW r \in Request, CommitAdjustment(r) PROVE TypeInv'
    <3>1. payload[r] \in AdjustPayload /\ payload[r].reward \in RewardId
      BY <2>11 DEF CommitAdjustment, PayloadFits, AdjustPhase, AdjustPayload
    <3>2. CASE Refuse(r, 400)
      BY <3>2, RefuseType
    <3>3. CASE NewQuantity(r) >= 0
      <4> DEFINE w == payload[r].reward
                 response == [id |-> r, amount |-> payload[r].da]
      <4>1. /\ NewQuantity(r) \in Int
            /\ payload[r].da \in Int
            /\ payload[r].dq \in Int
        BY <3>1 DEF NewQuantity, TypeOK, AdjustPayload
      <4>2. /\ phase[r] = "commitAdjustment"
            /\ rewards' = [rewards EXCEPT ![w].quantity = NewQuantity(r)]
            /\ adjustments' = [adjustments EXCEPT ![r] = [of |-> payload[r],
                                                          response |-> response]]
            /\ ledger' = [ledger EXCEPT ![w].units = @ + payload[r].dq,
                                        ![w].cash = @ + payload[r].da]
            /\ Reply(r, 200, response) \/ Reply(r, 500, None)
            /\ Release(r)
            /\ UNCHANGED <<env, payload, begun, seen>>
        BY <2>11, <3>3, <4>1 DEF CommitAdjustment
      <4>3. response \in Response
        BY <4>1 DEF Response, RewardId
      <4>4. adjustments' \in [Request -> AdjustmentRow \cup {None}]
        BY <3>1, <4>2, <4>3 DEF TypeOK, AdjustmentRow
      <4>5. /\ rewards' \in [RewardId -> RewardRow \cup {None}]
            /\ \A v \in RewardId : rewards[v] # None => rewards'[v] # None
        <5>1. rewards[w] \in RewardRow
          BY <3>1, <4>2 DEF TypeOK, PayloadFits, AdjustPhase
        <5>2. [rewards[w] EXCEPT !.quantity = NewQuantity(r)] \in RewardRow
          BY <4>1, <5>1 DEF RewardRow
        <5>3. QED BY <3>1, <4>2, <5>1, <5>2, NoneAssumption DEF TypeOK
      <4>6. ledger' \in [RewardId -> LedgerTotals]
        BY <3>1, <4>1, <4>2 DEF TypeOK, LedgerTotals
      <4>7. answer' \in [Request -> Answer \cup {None}]
        BY <4>2, <4>3 DEF TypeOK, Reply, Answer
      <4>8. QED
        BY <4>2, <4>4, <4>5, <4>6, <4>7
           DEF TypeOK, PayloadFits, PositiveGrant, Reply, Proceed, Release, env, CreatePhase, AdjustPhase,
               InTransaction
    <3>4. QED BY <2>11, <3>2, <3>3 DEF CommitAdjustment
  <2>12. ASSUME NEW r \in Request, Abort(r) PROVE TypeInv'
    BY <2>12, RefuseType DEF Abort
  <2>13. CASE Environment
    BY <2>13, BoundAssumption
       DEF Environment, Deactivate, Reprice, NextDay, TypeOK, PayloadFits, PositiveGrant, db
  <2>14. CASE UNCHANGED vars
    BY <2>14 DEF vars, env, db, TypeOK, PayloadFits, PositiveGrant
  <2>15. QED
    BY <2>1, <2>2, <2>3, <2>4, <2>5, <2>6, <2>7, <2>8, <2>9, <2>10, <2>11, <2>12, <2>13, <2>14
       DEF Next, Step, CreateStep, AdjustStep
<1>3. QED
  BY <1>1, <1>2, PTL DEF Spec

\* The declared types of every variable, as the runs check them.
THEOREM TypesHold == Spec => []TypeOK
<1>1. TypeInv => TypeOK
  BY DEF TypeInv
<1>2. QED BY <1>1, TypeCorrect, PTL

-----------------------------------------------------------------------------
(* The books: BalanceUnderLock and StockUnitsAgree *)

\* A request that has not been answered has no reward row yet, so the row a
\* grant adds is never one that another transaction has locked.
NoRowBeforeAnswer ==
  \A r \in Request : phase[r] # "done" => rewards[r] = None

BooksInv == TypeInv /\ NoRowBeforeAnswer /\ BalanceUnderLock /\ StockUnitsAgree

\* Ending a transaction that wrote nothing keeps the books.
LEMMA LeaveBooks ==
  ASSUME BooksInv, TypeInv', NEW r \in Request, NEW status, NEW body,
         Reply(r, status, body), Release(r), UNCHANGED <<rewards, ledger, payload, seen>>
  PROVE  BooksInv'
<1> USE DEF BooksInv
<1>1. NoRowBeforeAnswer'
  BY DEF Reply, Proceed, NoRowBeforeAnswer, TypeInv, TypeOK
<1>2. /\ \A s \in Request : s # r => phase'[s] = phase[s]
      /\ phase'[r] = "done"
      /\ \A w \in RewardId : lock'[w] = IF lock[w] = r THEN None ELSE lock[w]
  BY DEF Reply, Proceed, Release, TypeInv, TypeOK
<1>3. BalanceUnderLock'
  BY <1>2, NoneAssumption
     DEF BalanceUnderLock, AdjustPhase, TypeInv, TypeOK, PayloadFits, AdjustPayload, RewardId
<1>4. StockUnitsAgree'
  BY DEF StockUnitsAgree
<1>5. QED BY <1>1, <1>3, <1>4

\* So does a step within a transaction that only reads.
LEMMA ReadBooks ==
  ASSUME BooksInv, TypeInv', NEW r \in Request, NEW p,
         p # "done", phase[r] # "done", p \in AdjustPhase => phase[r] \in AdjustPhase \ {"lockReward"},
         phase[r] \in AdjustPhase => p \in AdjustPhase \ {"lockReward"},
         Proceed(r, p), UNCHANGED <<rewards, ledger, lock, payload>>,
         \A s \in Request : phase[s] \in AdjustPhase => seen'[s] = seen[s]
  PROVE  BooksInv'
<1> USE DEF BooksInv
<1>1. NoRowBeforeAnswer'
  BY DEF Proceed, NoRowBeforeAnswer, TypeInv, TypeOK
<1>2. BalanceUnderLock'
  BY DEF Proceed, BalanceUnderLock, AdjustPhase, TypeInv, TypeOK
<1>3. StockUnitsAgree'
  BY DEF StockUnitsAgree
<1>4. QED BY <1>1, <1>2, <1>3

\* Every reachable state balances: each adjustment works on the stored
\* quantity it locked, and that quantity is what the ledger adds up to.
THEOREM BooksCorrect == Spec => []BooksInv
<1>1. Init => BooksInv
  <2> SUFFICES ASSUME Init, TypeInv PROVE BooksInv
    BY TypeAtInit
  <2>1. NoRowBeforeAnswer
    BY SeedAssumption DEF Init, NoRowBeforeAnswer, RewardId
  <2>2. BalanceUnderLock
    BY NoneAssumption DEF Init, BalanceUnderLock, AdjustPhase, RewardId
  <2>3. StockUnitsAgree
    <3>1. \A w \in SeedId : /\ Seed[w].quantity = Seed[w].original /\ Seed[w].quantity >= 0
                            /\ w \in RewardId /\ Seed[w] # None
      BY SeedAssumption, NoneAssumption DEF RewardId
    <3>2. QED BY <3>1 DEF Init, StockUnitsAgree
  <2>4. QED BY <2>1, <2>2, <2>3 DEF BooksInv
<1>2. BooksInv /\ TypeInv' /\ [Next]_vars => BooksInv'
  <2> SUFFICES ASSUME BooksInv, TypeInv', [Next]_vars PROVE BooksInv'
    OBVIOUS
  <2> USE DEF BooksInv
  <2>a. ASSUME NEW r \in Request, NEW status, Refuse(r, status) PROVE BooksInv'
    BY <2>a, LeaveBooks DEF Refuse, db
  <2>b. ASSUME NEW r \in Request, NEW stored, Replay(r, stored) PROVE BooksInv'
    BY <2>b, LeaveBooks DEF Replay, db
  <2>1. ASSUME NEW r \in Request, NEW p \in Payload, Receive(r, p) PROVE BooksInv'
    <3>1. /\ phase[r] = "idle"
          /\ \A s \in Request : s # r => phase'[s] = phase[s] /\ payload'[s] = payload[s]
          /\ phase'[r] \in {"done", "checkUser", "lockReward"}
          /\ UNCHANGED <<rewards, ledger, lock, seen>>
      BY <2>1 DEF Receive, Proceed, Reply, db, TypeInv, TypeOK
    <3>2. NoRowBeforeAnswer'
      BY <3>1 DEF NoRowBeforeAnswer
    <3>3. BalanceUnderLock'
      BY <3>1 DEF BalanceUnderLock, AdjustPhase
    <3>4. StockUnitsAgree'
      BY <3>1 DEF StockUnitsAgree
    <3>5. QED BY <3>2, <3>3, <3>4
  <2>2. ASSUME NEW r \in Request, CheckUser(r) PROVE BooksInv'
    <3>1. CASE Proceed(r, "readPrice") /\ UNCHANGED <<env, db, lock, payload, begun, seen, answer>>
      BY <2>2, <3>1, ReadBooks DEF CheckUser, AdjustPhase, db
    <3>2. QED BY <2>2, <2>a, <3>1 DEF CheckUser
  <2>3. ASSUME NEW r \in Request, ReadPrice(r) PROVE BooksInv'
    <3>1. CASE /\ seen' = [seen EXCEPT ![r] = price[payload[r].symbol]]
               /\ Proceed(r, "insertReward")
               /\ UNCHANGED <<env, db, lock, payload, begun, answer>>
      <4>1. \A s \in Request : phase[s] \in AdjustPhase => seen'[s] = seen[s]
        BY <2>3, <3>1 DEF ReadPrice, AdjustPhase, TypeInv, TypeOK
      <4>2. QED BY <2>3, <3>1, <4>1, ReadBooks DEF ReadPrice, AdjustPhase, db
    <3>2. QED BY <2>3, <2>a, <3>1 DEF ReadPrice
  <2>4. ASSUME NEW r \in Request, InsertReward(r) PROVE BooksInv'
    BY <2>4, ReadBooks DEF InsertReward, AdjustPhase, db
  <2>5. ASSUME NEW r \in Request, FindReward(r) PROVE BooksInv'
    BY <2>5, <2>a, <2>b DEF FindReward
  <2>6. ASSUME NEW r \in Request, CommitReward(r) PROVE BooksInv'
    <3>1. /\ phase[r] = "commitReward" /\ payload[r] \in CreatePayload
          /\ rewards[r] = None /\ r \in RewardId
          /\ payload[r].qty \in Int
      BY <2>6 DEF CommitReward, TypeInv, PayloadFits, CreatePhase, CreatePayload,
                  NoRowBeforeAnswer, RewardId
    <3>2. /\ \A w \in RewardId \ {r} : rewards'[w] = rewards[w] /\ ledger'[w] = ledger[w]
          /\ rewards'[r] # None
          /\ rewards'[r].quantity = payload[r].qty
          /\ ledger'[r].units = payload[r].qty
          /\ \A s \in Request \ {r} : phase'[s] = phase[s]
          /\ phase'[r] = "done"
          /\ UNCHANGED <<lock, payload, seen>>
      <4>1. [user |-> payload[r].user, symbol |-> payload[r].symbol, date |-> begun[r],
             quantity |-> payload[r].qty, original |-> payload[r].qty,
             key |-> payload[r].key, response |-> GrantResponse(r)] # None
        BY <3>1, <2>6, GrantRowType, NoneAssumption
      <4>2. QED
        BY <2>6, <3>1, <4>1 DEF CommitReward, Reply, Proceed, TypeInv, TypeOK
    <3>3. payload[r].qty > 0
      BY <3>1 DEF TypeInv, PositiveGrant, CreatePhase
    <3>4. NoRowBeforeAnswer'
      BY <3>2 DEF NoRowBeforeAnswer, RewardId
    <3>5. BalanceUnderLock'
      BY <3>1, <3>2 DEF BalanceUnderLock, AdjustPhase, TypeInv, TypeOK, PayloadFits, AdjustPayload
    <3>6. StockUnitsAgree'
      BY <3>1, <3>2, <3>3 DEF StockUnitsAgree
    <3>7. QED BY <3>4, <3>5, <3>6
  <2>7. ASSUME NEW r \in Request, LockReward(r) PROVE BooksInv'
    <3>1. CASE /\ rewards[payload[r].reward] # None
               /\ lock[payload[r].reward] = None
               /\ lock' = [lock EXCEPT ![payload[r].reward] = r]
               /\ seen' = [seen EXCEPT ![r] = rewards[payload[r].reward].quantity]
               /\ Proceed(r, "checkBalance")
               /\ UNCHANGED <<env, db, payload, begun, answer>>
      <4>1. phase[r] = "lockReward" /\ payload[r].reward \in RewardId
        BY <2>7 DEF LockReward, TypeInv, PayloadFits, AdjustPhase, AdjustPayload
      <4>2. NoRowBeforeAnswer'
        BY <3>1, <4>1 DEF Proceed, NoRowBeforeAnswer, TypeInv, TypeOK, db
      <4>3. BalanceUnderLock'
        BY <3>1, <4>1, NoneAssumption
           DEF Proceed, BalanceUnderLock, AdjustPhase, TypeInv, TypeOK, db, RewardId
      <4>4. StockUnitsAgree'
        BY <3>1 DEF StockUnitsAgree, db
      <4>5. QED BY <4>2, <4>3, <4>4
    <3>2. QED BY <2>7, <2>a, <3>1 DEF LockReward
  <2>8. ASSUME NEW r \in Request, CheckBalance(r) PROVE BooksInv'
    <3>1. CASE /\ Proceed(r, "insertAdjustment")
               /\ UNCHANGED <<env, db, lock, payload, begun, seen, answer>>
      BY <2>8, <3>1, ReadBooks DEF CheckBalance, AdjustPhase, db
    <3>2. QED BY <2>8, <2>a, <3>1 DEF CheckBalance
  <2>9. ASSUME NEW r \in Request, InsertAdjustment(r) PROVE BooksInv'
    BY <2>9, ReadBooks DEF InsertAdjustment, AdjustPhase, db
  <2>10. ASSUME NEW r \in Request, FindAdjustment(r) PROVE BooksInv'
    BY <2>10, <2>a, <2>b DEF FindAdjustment
  <2>11. ASSUME NEW r \in Request, CommitAdjustment(r) PROVE BooksInv'
    <3> DEFINE w == payload[r].reward
    <3>1. /\ phase[r] = "commitAdjustment" /\ w \in RewardId
          /\ payload[r].dq \in Int /\ lock[w] = r
          /\ rewards[w] \in RewardRow /\ rewards[w] # None
          /\ seen[r] = rewards[w].quantity /\ ledger[w] \in LedgerTotals
      BY <2>11 DEF CommitAdjustment, TypeInv, TypeOK, PayloadFits, AdjustPhase, AdjustPayload,
                   BalanceUnderLock
    <3>2. CASE NewQuantity(r) >= 0 /\ ~Refuse(r, 400)
      <4>1. /\ \A v \in RewardId \ {w} : rewards'[v] = rewards[v] /\ ledger'[v] = ledger[v]
            /\ rewards'[w] = [rewards[w] EXCEPT !.quantity = NewQuantity(r)]
            /\ ledger'[w].units = ledger[w].units + payload[r].dq
            /\ \A s \in Request \ {r} : phase'[s] = phase[s]
            /\ phase'[r] = "done"
            /\ \A v \in RewardId : lock'[v] = IF lock[v] = r THEN None ELSE lock[v]
            /\ UNCHANGED <<payload, seen>>
        BY <2>11, <3>1, <3>2
           DEF CommitAdjustment, Reply, Proceed, Release, TypeInv, TypeOK, LedgerTotals
      <4>2. rewards'[w] # None /\ rewards'[w].quantity = NewQuantity(r)
        <5>1. NewQuantity(r) \in Int
          BY <3>1 DEF NewQuantity, RewardRow
        <5>2. rewards'[w] \in RewardRow
          BY <3>1, <4>1, <5>1 DEF RewardRow
        <5>3. QED BY <3>1, <4>1, <5>2, NoneAssumption DEF RewardRow
      <4>3. NoRowBeforeAnswer'
        BY <3>1, <4>1 DEF NoRowBeforeAnswer, RewardId
      <4>4. BalanceUnderLock'
        <5>1. ASSUME NEW s \in Request, phase'[s] \in AdjustPhase \ {"lockReward"}
              PROVE  /\ lock'[payload'[s].reward] = s
                     /\ rewards'[payload'[s].reward] # None
                     /\ seen'[s] = rewards'[payload'[s].reward].quantity
          <6>1. /\ s # r /\ phase[s] \in AdjustPhase \ {"lockReward"}
                /\ payload[s].reward \in RewardId
            BY <4>1, <5>1 DEF AdjustPhase, TypeInv, PayloadFits, AdjustPayload
          <6>2. /\ lock[payload[s].reward] = s
                /\ rewards[payload[s].reward] # None
                /\ seen[s] = rewards[payload[s].reward].quantity
            BY <6>1 DEF BalanceUnderLock
          <6>3. payload[s].reward # w
            BY <3>1, <6>1, <6>2
          <6>4. QED BY <4>1, <6>1, <6>2, <6>3
        <5>2. ASSUME NEW v \in RewardId, NEW s \in Request, lock'[v] = s
              PROVE  phase'[s] \in AdjustPhase \ {"lockReward"} /\ payload'[s].reward = v
          <6>1. lock[v] = s /\ s # r
            BY <4>1, <5>2, NoneAssumption DEF RewardId
          <6>2. phase[s] \in AdjustPhase \ {"lockReward"} /\ payload[s].reward = v
            BY <6>1 DEF BalanceUnderLock
          <6>3. QED BY <4>1, <6>1, <6>2
        <5>3. QED BY <5>1, <5>2 DEF BalanceUnderLock
      <4>5. StockUnitsAgree'
        BY <3>1, <3>2, <4>1, <4>2 DEF StockUnitsAgree, NewQuantity, RewardRow, LedgerTotals
      <4>6. QED BY <4>3, <4>4, <4>5
    <3>3. NewQuantity(r) \in Int
      BY <3>1 DEF NewQuantity, RewardRow
    <3>4. QED BY <2>11, <2>a, <3>2, <3>3 DEF CommitAdjustment
  <2>12. ASSUME NEW r \in Request, Abort(r) PROVE BooksInv'
    BY <2>12, <2>a DEF Abort
  <2>13. CASE Environment \/ UNCHANGED vars
    BY <2>13 DEF Environment, Deactivate, Reprice, NextDay, vars, env, db,
                 NoRowBeforeAnswer, BalanceUnderLock, StockUnitsAgree
  <2>14. QED
    BY <2>1, <2>2, <2>3, <2>4, <2>5, <2>6, <2>7, <2>8, <2>9, <2>10, <2>11, <2>12, <2>13
       DEF Next, Step, CreateStep, AdjustStep
<1>3. QED
  BY <1>1, <1>2, TypeCorrect, PTL DEF Spec

\* The stored quantity of every reward is the sum of its stock_units ledger rows
\* and never negative, whatever runs concurrently.
THEOREM QuantityMatchesLedger == Spec => []StockUnitsAgree
<1>1. BooksInv => StockUnitsAgree
  BY DEF BooksInv
<1>2. QED BY <1>1, BooksCorrect, PTL

\* No two transactions ever compute on the same reward, and the balance each
\* holds is the stored one.
THEOREM AdjustmentsExclude == Spec => []BalanceUnderLock
<1>1. BooksInv => BalanceUnderLock
  BY DEF BooksInv
<1>2. QED BY <1>1, BooksCorrect, PTL

\* Whatever set of requests is taken, one of them can go on: row locks are
\* waited for before keys, and the holder of an inserted key waits for nothing.
THEOREM NoDeadlock == Spec => []NoWaitCycle
<1>1. BooksInv => NoWaitCycle
  <2> SUFFICES ASSUME BooksInv, NEW S \in SUBSET Request, S # {}
               PROVE  \E r \in S : \A s \in S : ~WaitsFor(r, s)
    BY DEF NoWaitCycle
  <2>1. CASE \E r \in S : phase[r] \notin {"lockReward", "insertReward", "insertAdjustment"}
    BY <2>1 DEF WaitsFor
  <2>2. CASE /\ \A r \in S : phase[r] \in {"lockReward", "insertReward", "insertAdjustment"}
             /\ \E r \in S : phase[r] # "lockReward"
    BY <2>2 DEF WaitsFor, AdjustmentInserted
  <2>3. CASE \A r \in S : phase[r] = "lockReward"
    <3>1. ASSUME NEW r \in S, NEW s \in S, WaitsFor(r, s) PROVE FALSE
      <4>1. lock[payload[r].reward] = s /\ payload[r].reward \in RewardId
        BY <2>3, <3>1 DEF WaitsFor, BooksInv, TypeInv, PayloadFits, AdjustPhase, AdjustPayload
      <4>2. QED BY <2>3, <4>1 DEF BooksInv, BalanceUnderLock
    <3>2. QED BY <3>1
  <2>4. QED BY <2>1, <2>2, <2>3
<1>2. QED BY <1>1, BooksCorrect, PTL

-----------------------------------------------------------------------------
(* The unique indexes: OneEffect *)

\* A transaction that has inserted its row is alone with that key and that
\* (user, symbol, day), among committed rows and among other transactions.
InsertedAlone ==
  \A r \in Request :
    /\ phase[r] = "commitReward" => ~CommittedGrant(r) /\ ~UncommittedGrant(r)
    /\ phase[r] = "commitAdjustment" => ~CommittedAdjustment(r) /\ ~UncommittedAdjustment(r)

EffectInv == TypeInv /\ OneEffect /\ InsertedAlone

\* What identifies a grant survives a step.
SameIdentity(w) ==
  /\ rewards'[w] = None <=> rewards[w] = None
  /\ rewards[w] # None => /\ rewards'[w].key = rewards[w].key
                          /\ rewards'[w].user = rewards[w].user
                          /\ rewards'[w].symbol = rewards[w].symbol
                          /\ rewards'[w].date = rewards[w].date

\* A step that inserts nothing and commits nothing keeps the invariant.
LEMMA KeepEffects ==
  ASSUME EffectInv, TypeInv', UNCHANGED <<rewards, adjustments>>,
         \A s \in Request :
           phase'[s] \in {"commitReward", "commitAdjustment"} =>
             phase'[s] = phase[s] /\ payload'[s] = payload[s] /\ begun'[s] = begun[s]
  PROVE  EffectInv'
<1>1. OneEffect'
  BY DEF EffectInv, OneEffect
<1>2. InsertedAlone'
  BY DEF EffectInv, InsertedAlone, CommittedGrant, UncommittedGrant, CommittedAdjustment,
         UncommittedAdjustment, AdjustmentInserted
<1>3. QED BY <1>1, <1>2 DEF EffectInv

\* SameGrant does not depend on the order of its two grants.
LEMMA SameGrantSymmetric ==
  ASSUME NEW a1, NEW a2, NEW a3, NEW a4, NEW b1, NEW b2, NEW b3, NEW b4,
         SameGrant(a1, a2, a3, a4, b1, b2, b3, b4)
  PROVE  SameGrant(b1, b2, b3, b4, a1, a2, a3, a4)
BY DEF SameGrant

\* Every reachable state has at most one effect per idempotency key and at most
\* one grant per user, symbol and market day.
THEOREM EffectsCorrect == Spec => []EffectInv
<1>1. Init => EffectInv
  <2> SUFFICES ASSUME Init, TypeInv PROVE EffectInv
    BY TypeAtInit
  <2>1. OneEffect
    BY SeedsDistinct DEF Init, OneEffect
  <2>2. InsertedAlone
    BY DEF Init, InsertedAlone
  <2>3. QED BY <2>1, <2>2 DEF EffectInv
<1>2. EffectInv /\ TypeInv' /\ [Next]_vars => EffectInv'
  <2> SUFFICES ASSUME EffectInv, TypeInv', [Next]_vars PROVE EffectInv'
    OBVIOUS
  <2>a. ASSUME NEW r \in Request, NEW status, Refuse(r, status) PROVE EffectInv'
    BY <2>a, KeepEffects DEF Refuse, Reply, Proceed, db, EffectInv, TypeInv, TypeOK
  <2>b. ASSUME NEW r \in Request, NEW stored, Replay(r, stored) PROVE EffectInv'
    BY <2>b, KeepEffects DEF Replay, Reply, Proceed, db, EffectInv, TypeInv, TypeOK
  <2>1. ASSUME NEW r \in Request, NEW p \in Payload, Receive(r, p) PROVE EffectInv'
    BY <2>1, KeepEffects DEF Receive, Reply, Proceed, db, EffectInv, TypeInv, TypeOK
  <2>2. ASSUME NEW r \in Request,
               CheckUser(r) \/ ReadPrice(r) \/ LockReward(r) \/ CheckBalance(r)
        PROVE  EffectInv'
    BY <2>2, <2>a, KeepEffects
       DEF CheckUser, ReadPrice, LockReward, CheckBalance, Proceed, db, EffectInv, TypeInv, TypeOK
  <2>3. ASSUME NEW r \in Request, FindReward(r) \/ FindAdjustment(r) PROVE EffectInv'
    BY <2>3, <2>a, <2>b DEF FindReward, FindAdjustment
  <2>4. ASSUME NEW r \in Request, InsertReward(r) PROVE EffectInv'
    <3>1. CASE CommittedGrant(r)
      BY <2>4, <3>1, KeepEffects DEF InsertReward, Proceed, db, EffectInv, TypeInv, TypeOK
    <3>2. CASE ~CommittedGrant(r)
      <4>1. /\ ~UncommittedGrant(r)
            /\ phase'[r] = "commitReward" /\ phase[r] = "insertReward"
            /\ \A s \in Request \ {r} : phase'[s] = phase[s]
            /\ UNCHANGED <<rewards, adjustments, payload, begun>>
        BY <2>4, <3>2 DEF InsertReward, Proceed, db, EffectInv, TypeInv, TypeOK
      <4>2. OneEffect'
        BY <4>1 DEF EffectInv, OneEffect
      <4>3. InsertedAlone'
        <5>1. ~CommittedGrant(r)' /\ ~UncommittedGrant(r)'
          BY <3>2, <4>1 DEF CommittedGrant, UncommittedGrant
        <5>2. ASSUME NEW s \in Request \ {r}, phase[s] = "commitReward"
              PROVE  ~CommittedGrant(s)' /\ ~UncommittedGrant(s)'
          BY <4>1, <5>2 DEF EffectInv, InsertedAlone, CommittedGrant, UncommittedGrant, SameGrant
        <5>3. ASSUME NEW s \in Request, phase[s] = "commitAdjustment"
              PROVE  ~CommittedAdjustment(s)' /\ ~UncommittedAdjustment(s)'
          BY <4>1, <5>3 DEF EffectInv, InsertedAlone, CommittedAdjustment, UncommittedAdjustment, AdjustmentInserted
        <5>4. QED BY <4>1, <5>1, <5>2, <5>3 DEF InsertedAlone
      <4>4. QED BY <4>2, <4>3 DEF EffectInv
    <3>3. QED BY <3>1, <3>2
  <2>5. ASSUME NEW r \in Request, CommitReward(r) PROVE EffectInv'
    <3> DEFINE row == [user |-> payload[r].user, symbol |-> payload[r].symbol,
                       date |-> begun[r], quantity |-> payload[r].qty,
                       original |-> payload[r].qty, key |-> payload[r].key,
                       response |-> GrantResponse(r)]
    <3>1. row \in RewardRow /\ row # None
      BY <2>5, GrantRowType, NoneAssumption DEF CommitReward, EffectInv
    <3>2. /\ phase[r] = "commitReward" /\ r \in RewardId
          /\ rewards'[r] = row
          /\ \A w \in RewardId \ {r} : rewards'[w] = rewards[w]
          /\ phase'[r] = "done"
          /\ \A s \in Request \ {r} : phase'[s] = phase[s]
          /\ UNCHANGED <<adjustments, payload, begun>>
      BY <2>5 DEF CommitReward, Reply, Proceed, RewardId, EffectInv, TypeInv, TypeOK
    <3>3. ~CommittedGrant(r) /\ ~UncommittedGrant(r)
      BY <3>2 DEF EffectInv, InsertedAlone
    <3>4. OneEffect'
      <4>1. ASSUME NEW v \in RewardId, NEW w \in RewardId, v # w,
                   rewards'[v] # None, rewards'[w] # None
            PROVE  ~SameGrant(rewards'[v].key, rewards'[v].user, rewards'[v].symbol,
                              rewards'[v].date, rewards'[w].key, rewards'[w].user,
                              rewards'[w].symbol, rewards'[w].date)
        <5>1. CASE v # r /\ w # r
          BY <3>2, <4>1, <5>1 DEF EffectInv, OneEffect
        <5>2. CASE v = r
          BY <3>2, <3>3, <4>1, <5>2 DEF CommittedGrant
        <5>3. CASE w = r
          BY <3>2, <3>3, <4>1, <5>3, SameGrantSymmetric DEF CommittedGrant
        <5>4. QED BY <5>1, <5>2, <5>3
      <4>2. QED BY <3>2, <4>1 DEF EffectInv, OneEffect
    <3>5. InsertedAlone'
      <4>1. ASSUME NEW s \in Request \ {r}, phase[s] = "commitReward"
            PROVE  ~CommittedGrant(s)' /\ ~UncommittedGrant(s)'
        <5>1. ~CommittedGrant(s) /\ ~UncommittedGrant(s)
          BY <4>1 DEF EffectInv, InsertedAlone
        <5>2. ~UncommittedGrant(s)'
          BY <3>2, <5>1 DEF UncommittedGrant
        <5>3. ~CommittedGrant(s)'
          BY <3>1, <3>2, <5>1 DEF CommittedGrant, UncommittedGrant
        <5>4. QED BY <5>2, <5>3
      <4>2. ASSUME NEW s \in Request, phase[s] = "commitAdjustment"
            PROVE  ~CommittedAdjustment(s)' /\ ~UncommittedAdjustment(s)'
        BY <3>2, <4>2 DEF EffectInv, InsertedAlone, CommittedAdjustment, UncommittedAdjustment, AdjustmentInserted
      <4>3. QED BY <3>2, <4>1, <4>2 DEF InsertedAlone
    <3>6. QED BY <3>4, <3>5 DEF EffectInv
  <2>6. ASSUME NEW r \in Request, InsertAdjustment(r) PROVE EffectInv'
    <3>1. CASE CommittedAdjustment(r)
      BY <2>6, <3>1, KeepEffects DEF InsertAdjustment, Proceed, db, EffectInv, TypeInv, TypeOK
    <3>2. CASE ~CommittedAdjustment(r)
      <4>1. /\ ~UncommittedAdjustment(r)
            /\ phase'[r] = "commitAdjustment" /\ phase[r] = "insertAdjustment"
            /\ \A s \in Request \ {r} : phase'[s] = phase[s]
            /\ UNCHANGED <<rewards, adjustments, payload, begun>>
        BY <2>6, <3>2 DEF InsertAdjustment, Proceed, db, EffectInv, TypeInv, TypeOK
      <4>2. OneEffect'
        BY <4>1 DEF EffectInv, OneEffect
      <4>3. InsertedAlone'
        BY <3>2, <4>1
           DEF EffectInv, InsertedAlone, CommittedGrant, UncommittedGrant, CommittedAdjustment,
               UncommittedAdjustment, AdjustmentInserted
      <4>4. QED BY <4>2, <4>3 DEF EffectInv
    <3>3. QED BY <3>1, <3>2
  <2>7. ASSUME NEW r \in Request, CommitAdjustment(r) PROVE EffectInv'
    <3> DEFINE w == payload[r].reward
    <3>1. /\ phase[r] = "commitAdjustment" /\ w \in RewardId /\ rewards[w] \in RewardRow
          /\ payload[r] \in AdjustPayload
      BY <2>7 DEF CommitAdjustment, EffectInv, TypeInv, TypeOK, PayloadFits, AdjustPhase,
                  AdjustPayload
    <3>2. CASE ~Refuse(r, 400)
      <4>1. /\ rewards' = [rewards EXCEPT ![w].quantity = NewQuantity(r)]
            /\ adjustments' = [adjustments EXCEPT
                    ![r] = [of |-> payload[r], response |-> [id |-> r, amount |-> payload[r].da]]]
            /\ phase'[r] = "done"
            /\ \A s \in Request \ {r} : phase'[s] = phase[s]
            /\ UNCHANGED <<payload, begun>>
        BY <2>7, <3>2 DEF CommitAdjustment, Reply, Proceed, EffectInv, TypeInv, TypeOK
      <4>2. \A v \in RewardId : SameIdentity(v)
        <5>1. NewQuantity(r) \in Int
          BY <3>1 DEF NewQuantity, EffectInv, TypeInv, TypeOK, AdjustPayload
        <5>2. [rewards[w] EXCEPT !.quantity = NewQuantity(r)] \in RewardRow
          BY <3>1, <5>1 DEF RewardRow
        <5>3. QED
          BY <3>1, <4>1, <5>2, NoneAssumption DEF SameIdentity, RewardRow, EffectInv, TypeInv, TypeOK
      <4>3. ~CommittedAdjustment(r) /\ ~UncommittedAdjustment(r)
        BY <3>1 DEF EffectInv, InsertedAlone
      <4>4. /\ adjustments'[r].of = payload[r]
            /\ \A a \in Request \ {r} : adjustments'[a] = adjustments[a]
        BY <4>1 DEF EffectInv, TypeInv, TypeOK
      <4>5. OneEffect'
        <5>1. ASSUME NEW u \in RewardId, NEW v \in RewardId, u # v,
                     rewards'[u] # None, rewards'[v] # None
              PROVE  ~SameGrant(rewards'[u].key, rewards'[u].user, rewards'[u].symbol,
                                rewards'[u].date, rewards'[v].key, rewards'[v].user,
                                rewards'[v].symbol, rewards'[v].date)
          BY <4>2, <5>1 DEF SameIdentity, EffectInv, OneEffect
        <5>2. ASSUME NEW a \in Request, NEW b \in Request, a # b,
                     adjustments'[a] # None, adjustments'[b] # None,
                     adjustments'[a].of.key # None
              PROVE  adjustments'[a].of.key # adjustments'[b].of.key
          BY <4>3, <4>4, <5>2 DEF CommittedAdjustment, EffectInv, OneEffect
        <5>3. QED BY <5>1, <5>2 DEF OneEffect
      <4>6. InsertedAlone'
        <5>1. ASSUME NEW s \in Request, phase'[s] = "commitReward"
              PROVE  ~CommittedGrant(s)' /\ ~UncommittedGrant(s)'
          <6>1. phase[s] = "commitReward"
            BY <4>1, <5>1
          <6>2. ~CommittedGrant(s) /\ ~UncommittedGrant(s)
            BY <6>1 DEF EffectInv, InsertedAlone
          <6>3. ~CommittedGrant(s)'
            BY <4>1, <4>2, <6>2 DEF CommittedGrant, SameIdentity
          <6>4. ~UncommittedGrant(s)'
            BY <4>1, <6>2 DEF UncommittedGrant
          <6>5. QED BY <6>3, <6>4
        <5>2. ASSUME NEW s \in Request, phase'[s] = "commitAdjustment"
              PROVE  ~CommittedAdjustment(s)' /\ ~UncommittedAdjustment(s)'
          <6>1. s # r /\ phase[s] = "commitAdjustment"
            BY <4>1, <5>2
          <6>2. ~CommittedAdjustment(s) /\ ~UncommittedAdjustment(s)
            BY <6>1 DEF EffectInv, InsertedAlone
          <6>3. ~CommittedAdjustment(s)'
            BY <3>1, <4>1, <4>4, <6>1, <6>2 DEF CommittedAdjustment, UncommittedAdjustment, AdjustmentInserted
          <6>4. ~UncommittedAdjustment(s)'
            BY <4>1, <6>2 DEF UncommittedAdjustment, AdjustmentInserted
          <6>5. QED BY <6>3, <6>4
        <5>3. QED BY <5>1, <5>2 DEF InsertedAlone
      <4>7. QED BY <4>5, <4>6 DEF EffectInv
    <3>3. QED BY <2>a, <3>2
  <2>8. ASSUME NEW r \in Request, Abort(r) PROVE EffectInv'
    BY <2>8, <2>a DEF Abort
  <2>9. CASE Environment \/ UNCHANGED vars
    BY <2>9, KeepEffects DEF Environment, Deactivate, Reprice, NextDay, vars, env, db
  <2>10. QED
    BY <2>1, <2>2, <2>3, <2>4, <2>5, <2>6, <2>7, <2>8, <2>9
       DEF Next, Step, CreateStep, AdjustStep
<1>3. QED
  BY <1>1, <1>2, TypeCorrect, PTL DEF Spec

\* Retries and races never grant or adjust twice under one key, and never grant
\* a user the same stock twice on a market day.
THEOREM OneEffectPerKey == Spec => []OneEffect
<1>1. EffectInv => OneEffect
  BY DEF EffectInv
<1>2. QED BY <1>1, EffectsCorrect, PTL

-----------------------------------------------------------------------------
(* What the answers rest on: SuccessIsBooked *)

\* A request has a body once it is received, an answer once it is done, and no
\* adjustment before it is done; only a keyed adjustment finds its key taken.
Handled(r) ==
  /\ phase[r] = "idle" <=> payload[r] = None
  /\ payload[r] # None => payload[r] \in Payload
  /\ phase[r] = "done" <=> answer[r] # None
  /\ phase[r] # "done" => adjustments[r] = None
  /\ phase[r] = "findAdjustment" => payload[r].key # None

\* A grant is computed from a price the symbol really had.
Priced(r) ==
  /\ begun[r] \in 0..MaxDay
  /\ phase[r] \in {"insertReward", "findReward", "commitReward"} => seen[r] \in Price /\ seen[r] > 0

\* What SuccessIsBooked says of one request, and that a replayed adjustment is
\* one of a request.
Booked(r) ==
  (answer[r] # None /\ answer[r].status = 200) =>
    LET body == answer[r].body IN
    IF payload[r].kind = "create"
    THEN /\ rewards[body.id] # None
         /\ rewards[body.id].response = body
         /\ rewards[body.id].key = payload[r].key
         /\ Asked(r, rewards[body.id])
    ELSE /\ body.id \in Request
         /\ adjustments[body.id] # None
         /\ adjustments[body.id].response = body
         /\ adjustments[body.id].of = payload[r]

\* A stored response names the row it is stored in.
OwnResponses ==
  /\ \A w \in RewardId : (rewards[w] # None /\ rewards[w].response # None)
                            => rewards[w].response.id = w
  /\ \A a \in Request : adjustments[a] # None => adjustments[a].response.id = a

AnswersInv ==
  /\ price \in [Symbol -> Price] /\ today \in 0..MaxDay
  /\ OwnResponses
  /\ \A r \in Request : Handled(r) /\ Priced(r) /\ Booked(r)

\* No committed row is lost, and only a reward's quantity changes.
RowsKept ==
  /\ \A w \in RewardId : rewards[w] # None => /\ rewards'[w] # None
                                              /\ rewards'[w].response = rewards[w].response
                                              /\ rewards'[w].key = rewards[w].key
                                              /\ rewards'[w].user = rewards[w].user
                                              /\ rewards'[w].symbol = rewards[w].symbol
                                              /\ rewards'[w].original = rewards[w].original
  /\ \A a \in Request : adjustments[a] # None => adjustments'[a] = adjustments[a]

\* A step of request r leaves what is said of every other request true.
LEMMA OthersAnswered ==
  ASSUME AnswersInv, TypeInv, NEW r \in Request, RowsKept,
         \A s \in Request \ {r} :
            /\ phase'[s] = phase[s] /\ payload'[s] = payload[s] /\ answer'[s] = answer[s]
            /\ begun'[s] = begun[s] /\ seen'[s] = seen[s] /\ adjustments'[s] = adjustments[s]
  PROVE  \A s \in Request \ {r} : Handled(s)' /\ Priced(s)' /\ Booked(s)'
<1> SUFFICES ASSUME NEW s \in Request \ {r} PROVE Handled(s)' /\ Priced(s)' /\ Booked(s)'
  OBVIOUS
<1>1. Handled(s) /\ Priced(s) /\ Booked(s)
  BY DEF AnswersInv
<1>2. Handled(s)' /\ Priced(s)'
  BY <1>1 DEF Handled, Priced
<1>3. Booked(s)'
  <2>1. CASE answer[s] # None /\ answer[s].status = 200
    <3>1. answer[s].body \in Response
      BY <2>1, NoneAssumption DEF TypeInv, TypeOK, Answer
    <3>2. answer[s].body.id \in RewardId
      BY <3>1 DEF Response
    <3>3. QED BY <1>1, <2>1, <3>2 DEF Booked, RowsKept, Asked
  <2>2. CASE ~(answer[s] # None /\ answer[s].status = 200)
    BY <2>2 DEF Booked
  <2>3. QED BY <2>1, <2>2
<1>4. QED BY <1>2, <1>3

\* A refused request has no effect to account for.
LEMMA RefusedAnswered ==
  ASSUME AnswersInv, TypeInv, TypeInv', NEW r \in Request, phase[r] # "idle", phase[r] # "done",
         NEW status \in {400, 409, 500}, Reply(r, status, None), Release(r),
         UNCHANGED <<env, db, payload, begun, seen>>
  PROVE  AnswersInv'
<1>1. RowsKept
  BY DEF RowsKept, db
<1>2. /\ answer'[r] = [status |-> status, body |-> None]
      /\ phase'[r] = "done" /\ UNCHANGED <<payload, adjustments, begun, seen>>
      /\ \A s \in Request \ {r} : phase'[s] = phase[s] /\ answer'[s] = answer[s]
  BY DEF Reply, Proceed, TypeInv, TypeOK, db
<1>3. answer'[r] # None
  BY <1>2, NoneAssumption DEF Answer
<1>4. Handled(r)' /\ Priced(r)' /\ Booked(r)'
  BY <1>2, <1>3 DEF AnswersInv, Handled, Priced, Booked
<1>5. \A s \in Request \ {r} : Handled(s)' /\ Priced(s)' /\ Booked(s)'
  BY <1>1, <1>2, OthersAnswered
<1>6. QED BY <1>4, <1>5 DEF AnswersInv, OwnResponses, env, db

\* Nor has one that goes on to its next statement.
LEMMA ProceedingAnswered ==
  ASSUME AnswersInv, TypeInv, TypeInv', NEW r \in Request, NEW p, phase[r] \notin {"idle", "done"},
         p \notin {"idle", "done"}, Proceed(r, p),
         p = "findAdjustment" => payload[r].key # None,
         p \in {"insertReward", "findReward", "commitReward"} => seen'[r] \in Price /\ seen'[r] > 0,
         \A s \in Request \ {r} : seen'[s] = seen[s],
         UNCHANGED <<env, db, payload, begun, answer>>
  PROVE  AnswersInv'
<1>1. RowsKept
  BY DEF RowsKept, db
<1>2. /\ phase'[r] = p /\ UNCHANGED <<payload, adjustments, begun, answer>>
      /\ \A s \in Request \ {r} : phase'[s] = phase[s]
  BY DEF Proceed, TypeInv, TypeOK, db
<1>3. Handled(r)' /\ Priced(r)' /\ Booked(r)'
  BY <1>2 DEF AnswersInv, Handled, Priced, Booked, db, Asked
<1>4. \A s \in Request \ {r} : Handled(s)' /\ Priced(s)' /\ Booked(s)'
  BY <1>1, <1>2, OthersAnswered
<1>5. QED BY <1>3, <1>4 DEF AnswersInv, OwnResponses, env, db

\* Every reachable state: prices are real ones, a stored response names its row,
\* and an answer 200 reports a committed effect of what was asked.
THEOREM AnswersCorrect == Spec => []AnswersInv
<1>1. Init => AnswersInv
  <2> SUFFICES ASSUME Init, TypeInv PROVE AnswersInv
    BY TypeAtInit
  <2>1. OwnResponses
    BY SeedAssumption, NoneAssumption DEF Init, OwnResponses, RewardId
  <2>2. \A r \in Request : Handled(r) /\ Priced(r) /\ Booked(r)
    BY BoundAssumption DEF Init, Handled, Priced, Booked
  <2>3. QED BY <2>1, <2>2, BoundAssumption DEF Init, AnswersInv
<1>2. AnswersInv /\ BooksInv /\ BooksInv' /\ [Next]_vars => AnswersInv'
  <2> SUFFICES ASSUME AnswersInv, BooksInv, BooksInv', [Next]_vars PROVE AnswersInv'
    OBVIOUS
  <2>i. TypeInv /\ TypeInv'
    BY DEF BooksInv
  <2>a. ASSUME NEW r \in Request, phase[r] \notin {"idle", "done"},
               NEW status \in {400, 409, 500}, Refuse(r, status)
        PROVE  AnswersInv'
    BY <2>a, <2>i, RefusedAnswered DEF Refuse
  <2>1. ASSUME NEW r \in Request, NEW p \in Payload, Receive(r, p) PROVE AnswersInv'
    <3>1. /\ phase[r] = "idle" /\ payload[r] = None /\ adjustments[r] = None /\ answer[r] = None
          /\ payload' = [payload EXCEPT ![r] = p]
          /\ UNCHANGED <<rewards, adjustments, price, today, seen>>
      BY <2>1 DEF Receive, db, env, AnswersInv, Handled
    <3>2. p \in AnyPayload /\ p # None
      BY PayloadAssumption, NoneAssumption
    <3>3. \A s \in Request \ {r} : /\ phase'[s] = phase[s] /\ payload'[s] = payload[s]
                                   /\ answer'[s] = answer[s] /\ begun'[s] = begun[s]
      BY <2>1, <2>i DEF Receive, Proceed, Reply, TypeInv, TypeOK
    <3>4. RowsKept
      BY <3>1 DEF RowsKept
    <3>5. payload'[r] = p /\ begun'[r] \in 0..MaxDay
      BY <2>1, <2>i DEF Receive, AnswersInv, Priced, TypeInv, TypeOK
    <3>6. Handled(r)' /\ Priced(r)' /\ Booked(r)'
      <4>1. CASE Acceptable(p)
        <5>1. phase'[r] \in {"checkUser", "lockReward"} /\ UNCHANGED answer
          BY <2>1, <2>i, <4>1 DEF Receive, Proceed, TypeInv, TypeOK
        <5>2. QED BY <3>1, <3>2, <3>5, <5>1 DEF Handled, Priced, Booked
      <4>2. CASE ~Acceptable(p)
        <5>1. phase'[r] = "done" /\ answer'[r] = [status |-> 400, body |-> None]
          BY <2>1, <2>i, <4>2 DEF Receive, Reply, Proceed, TypeInv, TypeOK
        <5>2. answer'[r] # None
          BY <5>1, NoneAssumption DEF Answer
        <5>3. QED BY <3>1, <3>2, <3>5, <5>1, <5>2 DEF Handled, Priced, Booked
      <4>3. QED BY <4>1, <4>2
    <3>7. \A s \in Request \ {r} : Handled(s)' /\ Priced(s)' /\ Booked(s)'
      BY <2>i, <3>1, <3>3, <3>4, OthersAnswered
    <3>8. QED BY <3>1, <3>6, <3>7 DEF AnswersInv, OwnResponses
  <2>2. ASSUME NEW r \in Request, CheckUser(r) PROVE AnswersInv'
    <3>1. CASE Proceed(r, "readPrice") /\ UNCHANGED <<env, db, lock, payload, begun, seen, answer>>
      BY <2>2, <2>i, <3>1, ProceedingAnswered DEF CheckUser
    <3>2. QED BY <2>2, <2>a, <3>1 DEF CheckUser
  <2>3. ASSUME NEW r \in Request, ReadPrice(r) PROVE AnswersInv'
    <3>1. CASE /\ price[payload[r].symbol] > 0
               /\ seen' = [seen EXCEPT ![r] = price[payload[r].symbol]]
               /\ Proceed(r, "insertReward")
               /\ UNCHANGED <<env, db, lock, payload, begun, answer>>
      <4>1. payload[r].symbol \in Symbol
        BY <2>3, <2>i DEF ReadPrice, TypeInv, PayloadFits, CreatePhase, CreatePayload
      <4>2. seen'[r] \in Price /\ seen'[r] > 0 /\ \A s \in Request \ {r} : seen'[s] = seen[s]
        BY <2>i, <3>1, <4>1 DEF TypeInv, TypeOK, AnswersInv
      <4>3. QED BY <2>3, <2>i, <3>1, <4>2, ProceedingAnswered DEF ReadPrice
    <3>2. QED BY <2>3, <2>a, <3>1 DEF ReadPrice
  <2>4. ASSUME NEW r \in Request, InsertReward(r) PROVE AnswersInv'
    <3>1. seen[r] \in Price /\ seen[r] > 0
      BY <2>4 DEF InsertReward, AnswersInv, Priced
    <3>2. QED BY <2>4, <2>i, <3>1, ProceedingAnswered DEF InsertReward
  <2>5. ASSUME NEW r \in Request, FindReward(r) PROVE AnswersInv'
    <3>1. phase[r] = "findReward" /\ payload[r].kind = "create"
      BY <2>5, <2>i DEF FindReward, TypeInv, PayloadFits, CreatePhase, CreatePayload
    <3>2. ASSUME NEW w \in RewardId, rewards[w] # None, rewards[w].key = payload[r].key,
                 SameReward(r, rewards[w]), Replay(r, rewards[w].response)
          PROVE  AnswersInv'
      <4>1. CASE rewards[w].response = None
        BY <2>i, <3>1, <3>2, <4>1, RefusedAnswered DEF Replay
      <4>2. CASE rewards[w].response # None
        <5>1. /\ Reply(r, 200, rewards[w].response) /\ Release(r)
              /\ UNCHANGED <<env, db, payload, begun, seen>>
          BY <3>2, <4>2 DEF Replay
        <5>2. /\ phase'[r] = "done" /\ answer'[r] = [status |-> 200, body |-> rewards[w].response]
              /\ \A s \in Request \ {r} : phase'[s] = phase[s] /\ answer'[s] = answer[s]
          BY <2>i, <5>1 DEF Reply, Proceed, TypeInv, TypeOK
        <5>3. rewards[w].response \in Response
          BY <2>i, <3>2, <4>2 DEF TypeInv, TypeOK, RewardRow
        <5>4. answer'[r] # None
          BY <5>2, <5>3, NoneAssumption DEF Answer
        <5>5. Booked(r)'
          BY <3>1, <3>2, <4>2, <5>1, <5>2
             DEF Booked, Asked, SameReward, AnswersInv, OwnResponses, db
        <5>6. Handled(r)' /\ Priced(r)'
          BY <3>1, <5>1, <5>2, <5>4 DEF AnswersInv, Handled, Priced, db
        <5>7. \A s \in Request \ {r} : Handled(s)' /\ Priced(s)' /\ Booked(s)'
          BY <2>i, <5>1, <5>2, OthersAnswered DEF RowsKept, db
        <5>8. QED BY <5>1, <5>5, <5>6, <5>7 DEF AnswersInv, OwnResponses, env, db
      <4>3. QED BY <4>1, <4>2
    <3>3. QED BY <2>5, <2>a, <3>1, <3>2 DEF FindReward
  <2>6. ASSUME NEW r \in Request, CommitReward(r) PROVE AnswersInv'
    <3> DEFINE row == [user |-> payload[r].user, symbol |-> payload[r].symbol,
                       date |-> begun[r], quantity |-> payload[r].qty,
                       original |-> payload[r].qty, key |-> payload[r].key,
                       response |-> GrantResponse(r)]
    <3>1. /\ phase[r] = "commitReward" /\ r \in RewardId /\ rewards[r] = None
          /\ payload[r].kind = "create" /\ row \in RewardRow /\ row # None
      BY <2>6, <2>i, GrantRowType, NoneAssumption
         DEF CommitReward, BooksInv, NoRowBeforeAnswer, TypeInv, PayloadFits, CreatePhase,
             CreatePayload, RewardId
    <3>2. /\ rewards'[r] = row
          /\ \A w \in RewardId \ {r} : rewards'[w] = rewards[w]
          /\ phase'[r] = "done"
          /\ \A s \in Request \ {r} : phase'[s] = phase[s] /\ answer'[s] = answer[s]
          /\ \/ answer'[r] = [status |-> 200, body |-> GrantResponse(r)]
             \/ answer'[r] = [status |-> 500, body |-> None]
          /\ UNCHANGED <<env, adjustments, payload, begun, seen>>
      BY <2>6, <2>i, <3>1 DEF CommitReward, Reply, Proceed, TypeInv, TypeOK
    <3>3. GrantResponse(r) \in Response /\ GrantResponse(r).id = r
      <4>1. seen[r] \in Int /\ payload[r].qty \in Int
        BY <3>1, <2>i DEF TypeInv, TypeOK, PayloadFits, CreatePhase, CreatePayload
      <4>2. seen[r] * payload[r].qty \in Int
        BY <4>1
      <4>3. QED BY <3>1, <4>2 DEF GrantResponse, Response
    <3>4. answer'[r] # None
      BY <3>2, <3>3, NoneAssumption DEF Answer
    <3>5. RowsKept
      BY <3>1, <3>2 DEF RowsKept
    <3>6. Booked(r)'
      BY <3>1, <3>2, <3>3 DEF Booked, Asked
    <3>7. Handled(r)' /\ Priced(r)'
      BY <3>1, <3>2, <3>4 DEF AnswersInv, Handled, Priced
    <3>8. \A s \in Request \ {r} : Handled(s)' /\ Priced(s)' /\ Booked(s)'
      BY <2>i, <3>2, <3>5, OthersAnswered
    <3>9. OwnResponses'
      BY <3>2, <3>3 DEF AnswersInv, OwnResponses
    <3>10. QED BY <3>2, <3>6, <3>7, <3>8, <3>9 DEF AnswersInv, env
  <2>7. ASSUME NEW r \in Request, LockReward(r) PROVE AnswersInv'
    <3>1. CASE /\ seen' = [seen EXCEPT ![r] = rewards[payload[r].reward].quantity]
               /\ Proceed(r, "checkBalance")
               /\ UNCHANGED <<env, db, payload, begun, answer>>
      <4>1. \A s \in Request \ {r} : seen'[s] = seen[s]
        BY <2>i, <3>1 DEF TypeInv, TypeOK
      <4>2. QED BY <2>7, <2>i, <3>1, <4>1, ProceedingAnswered DEF LockReward
    <3>2. QED BY <2>7, <2>a, <3>1 DEF LockReward
  <2>8. ASSUME NEW r \in Request, CheckBalance(r) PROVE AnswersInv'
    <3>1. CASE /\ Proceed(r, "insertAdjustment")
               /\ UNCHANGED <<env, db, lock, payload, begun, seen, answer>>
      BY <2>8, <2>i, <3>1, ProceedingAnswered DEF CheckBalance
    <3>2. QED BY <2>8, <2>a, <3>1 DEF CheckBalance
  <2>9. ASSUME NEW r \in Request, InsertAdjustment(r) PROVE AnswersInv'
    BY <2>9, <2>i, ProceedingAnswered DEF InsertAdjustment, CommittedAdjustment
  <2>10. ASSUME NEW r \in Request, FindAdjustment(r) PROVE AnswersInv'
    <3>1. phase[r] = "findAdjustment" /\ payload[r].kind = "adjust"
      BY <2>10, <2>i DEF FindAdjustment, TypeInv, PayloadFits, AdjustPhase, AdjustPayload
    <3>2. ASSUME NEW a \in Request, adjustments[a] # None, adjustments[a].of = payload[r],
                 Replay(r, adjustments[a].response)
          PROVE  AnswersInv'
      <4>1. CASE adjustments[a].response = None
        BY <2>i, <3>1, <3>2, <4>1, RefusedAnswered DEF Replay
      <4>2. CASE adjustments[a].response # None
        <5>1. /\ Reply(r, 200, adjustments[a].response) /\ Release(r)
              /\ UNCHANGED <<env, db, payload, begun, seen>>
          BY <3>2, <4>2 DEF Replay
        <5>2. /\ phase'[r] = "done"
              /\ answer'[r] = [status |-> 200, body |-> adjustments[a].response]
              /\ \A s \in Request \ {r} : phase'[s] = phase[s] /\ answer'[s] = answer[s]
          BY <2>i, <5>1 DEF Reply, Proceed, TypeInv, TypeOK
        <5>3. adjustments[a].response \in Response
          BY <2>i, <3>2 DEF TypeInv, TypeOK, AdjustmentRow
        <5>4. answer'[r] # None
          BY <5>2, <5>3, NoneAssumption DEF Answer
        <5>5. Booked(r)'
          BY <3>1, <3>2, <5>1, <5>2 DEF Booked, AnswersInv, OwnResponses, db
        <5>6. Handled(r)' /\ Priced(r)'
          BY <3>1, <5>1, <5>2, <5>4 DEF AnswersInv, Handled, Priced, db
        <5>7. \A s \in Request \ {r} : Handled(s)' /\ Priced(s)' /\ Booked(s)'
          BY <2>i, <5>1, <5>2, OthersAnswered DEF RowsKept, db
        <5>8. QED BY <5>1, <5>5, <5>6, <5>7 DEF AnswersInv, OwnResponses, env, db
      <4>3. QED BY <4>1, <4>2
    <3>3. QED BY <2>10, <2>a, <3>1, <3>2 DEF FindAdjustment
  <2>11. ASSUME NEW r \in Request, CommitAdjustment(r) PROVE AnswersInv'
    <3> DEFINE w == payload[r].reward
               response == [id |-> r, amount |-> payload[r].da]
    <3>1. /\ phase[r] = "commitAdjustment" /\ w \in RewardId /\ rewards[w] \in RewardRow
          /\ payload[r] \in AdjustPayload /\ payload[r].kind = "adjust"
          /\ adjustments[r] = None
      BY <2>11, <2>i DEF CommitAdjustment, TypeInv, TypeOK, PayloadFits, AdjustPhase,
                         AdjustPayload, AnswersInv, Handled
    <3>2. CASE ~Refuse(r, 400)
      <4>1. /\ rewards' = [rewards EXCEPT ![w].quantity = NewQuantity(r)]
            /\ adjustments'[r] = [of |-> payload[r], response |-> response]
            /\ \A a \in Request \ {r} : adjustments'[a] = adjustments[a]
            /\ phase'[r] = "done"
            /\ \A s \in Request \ {r} : phase'[s] = phase[s] /\ answer'[s] = answer[s]
            /\ \/ answer'[r] = [status |-> 200, body |-> response]
               \/ answer'[r] = [status |-> 500, body |-> None]
            /\ UNCHANGED <<env, payload, begun, seen>>
        BY <2>11, <2>i, <3>2 DEF CommitAdjustment, Reply, Proceed, TypeInv, TypeOK
      <4>2. response \in Response /\ adjustments'[r] # None
        <5>1. response \in Response
          BY <3>1 DEF Response, RewardId, AdjustPayload
        <5>2. QED BY <3>1, <4>1, <5>1, NoneAssumption DEF AdjustmentRow
      <4>3. answer'[r] # None
        BY <4>1, <4>2, NoneAssumption DEF Answer
      <4>4. RowsKept
        <5>1. rewards'[w] = [rewards[w] EXCEPT !.quantity = NewQuantity(r)]
          BY <2>i, <3>1, <4>1 DEF TypeInv, TypeOK
        <5>2. rewards'[w] # None
          <6>1. NewQuantity(r) \in Int
            BY <2>i, <3>1 DEF NewQuantity, TypeInv, TypeOK, AdjustPayload
          <6>2. rewards'[w] \in RewardRow
            BY <3>1, <5>1, <6>1 DEF RewardRow
          <6>3. QED BY <6>2, NoneAssumption
        <5>3. \A v \in RewardId \ {w} : rewards'[v] = rewards[v]
          BY <2>i, <3>1, <4>1 DEF TypeInv, TypeOK
        <5>4. \A a \in Request : adjustments[a] # None => adjustments'[a] = adjustments[a]
          BY <3>1, <4>1
        <5>5. QED BY <3>1, <5>1, <5>2, <5>3, <5>4 DEF RowsKept, RewardRow
      <4>5. Booked(r)'
        BY <3>1, <4>1, <4>2 DEF Booked
      <4>6. Handled(r)' /\ Priced(r)'
        BY <3>1, <4>1, <4>3 DEF AnswersInv, Handled, Priced
      <4>7. \A s \in Request \ {r} : Handled(s)' /\ Priced(s)' /\ Booked(s)'
        BY <2>i, <4>1, <4>4, OthersAnswered
      <4>8. OwnResponses'
        <5>1. \A v \in RewardId : rewards'[v] # None =>
                 rewards[v] # None /\ rewards'[v].response = rewards[v].response
          BY <2>i, <3>1, <4>1, <4>4 DEF RowsKept, TypeInv, TypeOK, PayloadFits, AdjustPhase
        <5>2. QED BY <4>1, <5>1 DEF AnswersInv, OwnResponses
      <4>9. QED BY <4>1, <4>5, <4>6, <4>7, <4>8 DEF AnswersInv, env
    <3>3. QED BY <2>a, <3>1, <3>2
  <2>12. ASSUME NEW r \in Request, Abort(r) PROVE AnswersInv'
    BY <2>12, <2>a DEF Abort, InTransaction, CreatePhase, AdjustPhase
  <2>13. CASE Environment
    <3>1. /\ price' \in [Symbol -> Price] /\ today' \in 0..MaxDay
          /\ UNCHANGED <<db, phase, payload, begun, seen, answer>>
      BY <2>13, BoundAssumption DEF Environment, Deactivate, Reprice, NextDay, AnswersInv
    <3>2. QED
      BY <3>1 DEF AnswersInv, OwnResponses, Handled, Priced, Booked, Asked, db
  <2>14. CASE UNCHANGED vars
    BY <2>14 DEF vars, env, db, AnswersInv, OwnResponses, Handled, Priced, Booked, Asked
  <2>15. QED
    BY <2>1, <2>2, <2>3, <2>4, <2>5, <2>6, <2>7, <2>8, <2>9, <2>10, <2>11, <2>12, <2>13, <2>14
       DEF Next, Step, CreateStep, AdjustStep
<1>3. QED
  BY <1>1, <1>2, BooksCorrect, PTL DEF Spec

\* A client told 200 can rely on it, whatever runs concurrently and whatever
\* answers were lost.
THEOREM SuccessHolds == Spec => []SuccessIsBooked
<1>1. AnswersInv => SuccessIsBooked
  BY DEF AnswersInv, Booked, SuccessIsBooked
<1>2. QED BY <1>1, AnswersCorrect, PTL

-----------------------------------------------------------------------------
(* Retries of a grant: GrantRetryReplays *)

\* A keyed grant that is committed is never refused to a client that asks for it
\* again: its key leads to one row only, and that row is the one asked for.
THEOREM RetriesReplay == Spec => GrantRetryReplays
<1>1. AnswersInv /\ BooksInv /\ EffectInv /\ [Next]_vars => [RefusesNoGranted]_vars
  <2> SUFFICES ASSUME AnswersInv, BooksInv, EffectInv, Next,
                      NEW r \in Request, Refused(r), payload[r] # None,
                      payload[r].kind = "create", payload[r].user \in active,
                      price[payload[r].symbol] > 0,
                      NEW w \in RewardId, payload[r].key # None, rewards[w] # None,
                      rewards[w].key = payload[r].key, Asked(r, rewards[w])
               PROVE  FALSE
    BY DEF RefusesNoGranted
  <2>i. TypeInv /\ Handled(r)
    BY DEF BooksInv, AnswersInv
  <2>1. answer[r] = None /\ answer'[r] # None /\ answer'[r].status \in {400, 409}
    BY DEF Refused
  <2>2. phase[r] \notin {"idle", "done"}
    BY <2>i, <2>1 DEF Handled
  <2>3. phase[r] \notin AdjustPhase
    BY <2>i DEF TypeInv, PayloadFits, AdjustPayload
  <2>4. ASSUME NEW q \in Request, NEW status, NEW body, Reply(q, status, body)
        PROVE  q = r /\ status \in {400, 409}
    <3>1. answer' = [answer EXCEPT ![q] = [status |-> status, body |-> body]]
      BY <2>4 DEF Reply
    <3>2. q = r
      BY <2>i, <2>1, <3>1 DEF TypeInv, TypeOK
    <3>3. answer'[r].status = status
      BY <2>i, <3>1, <3>2 DEF TypeInv, TypeOK
    <3>4. QED BY <2>1, <3>2, <3>3
  <2>5. \A q \in Request : \A status : Refuse(q, status) => q = r /\ status \in {400, 409}
    BY <2>4 DEF Refuse
  <2>6. \A q \in Request : \A stored : ~Replay(q, stored)
    BY <2>4 DEF Replay
  <2>7. answer' # answer
    BY <2>1
  <2>8. ASSUME NEW q \in Request, NEW p \in Payload, Receive(q, p) PROVE FALSE
    BY <2>2, <2>4, <2>7, <2>8 DEF Receive
  <2>9. ASSUME NEW q \in Request, CheckUser(q) PROVE FALSE
    BY <2>5, <2>7, <2>9 DEF CheckUser
  <2>10. ASSUME NEW q \in Request, ReadPrice(q) PROVE FALSE
    BY <2>5, <2>7, <2>10 DEF ReadPrice
  <2>11. ASSUME NEW q \in Request, FindReward(q) PROVE FALSE
    <3>1. q = r
      BY <2>5, <2>6, <2>11 DEF FindReward
    <3>2. PICK v \in RewardId : /\ rewards[v] # None /\ rewards[v].key = payload[r].key
                                /\ ~SameReward(r, rewards[v])
      BY <2>6, <2>11, <3>1 DEF FindReward
    <3>3. v = w
      BY <3>2 DEF EffectInv, OneEffect, SameGrant
    <3>4. QED BY <3>2, <3>3 DEF SameReward, Asked
  <2>12. ASSUME NEW q \in Request, CommitReward(q) PROVE FALSE
    BY <2>4, <2>12 DEF CommitReward
  <2>13. ASSUME NEW q \in Request, AdjustStep(q) PROVE FALSE
    <3>1. phase[q] \in AdjustPhase
      BY <2>13 DEF AdjustStep, LockReward, CheckBalance, InsertAdjustment, FindAdjustment,
                   CommitAdjustment, AdjustPhase
    <3>2. q # r
      BY <2>3, <3>1
    <3>3. QED
      BY <2>4, <2>5, <2>6, <2>7, <2>13, <3>2
         DEF AdjustStep, LockReward, CheckBalance, InsertAdjustment, FindAdjustment,
             CommitAdjustment
  <2>14. ASSUME NEW q \in Request, InsertReward(q) \/ Abort(q) PROVE FALSE
    BY <2>5, <2>7, <2>14 DEF InsertReward, Abort
  <2>15. CASE Environment \/ UNCHANGED vars
    BY <2>7, <2>15 DEF Environment, Deactivate, Reprice, NextDay, vars
  <2>16. QED
    BY <2>8, <2>9, <2>10, <2>11, <2>12, <2>13, <2>14, <2>15 DEF Next, Step, CreateStep
<1>2. QED
  BY <1>1, AnswersCorrect, BooksCorrect, EffectsCorrect, PTL DEF Spec, GrantRetryReplays

-----------------------------------------------------------------------------
(* The adjustments explain the books: AdjustmentsAddUp *)

\* What each request's adjustment added to a reward's units, and to its cash.
UnitsOf(w) == [a \in Request |-> IF adjustments[a] # None /\ adjustments[a].of.reward = w
                                 THEN adjustments[a].of.dq ELSE 0]
CashOf(w)  == [a \in Request |-> IF adjustments[a] # None /\ adjustments[a].of.reward = w
                                 THEN adjustments[a].of.da ELSE 0]

\* Only a reward that exists has adjustments.
AdjustedExists ==
  \A a \in Request : adjustments[a] # None => /\ adjustments[a].of.reward \in RewardId
                                              /\ rewards[adjustments[a].of.reward] # None

AddUpInv == AdjustedExists /\ AdjustmentsAddUp

\* A reward without a row has sums of zero.
LEMMA NothingAdjusted ==
  ASSUME AdjustedExists, NEW w \in RewardId, rewards[w] = None
  PROVE  /\ SumFunctionOnSet(UnitsOf(w), Request) = 0
         /\ SumFunctionOnSet(CashOf(w), Request) = 0
<1>1. \A a \in Request : UnitsOf(w)[a] = 0 /\ CashOf(w)[a] = 0
  BY DEF AdjustedExists, UnitsOf, CashOf
<1>2. QED BY <1>1, SumOfZeros, RequestAssumption

\* The sums follow from the rows of rewards, adjustments and the ledger alone.
LEMMA SameSums ==
  ASSUME AddUpInv, UNCHANGED db
  PROVE  AddUpInv'
BY DEF AddUpInv, AdjustedExists, AdjustmentsAddUp, Settled, db

\* Every reachable state's books are explained by its adjustments.
THEOREM AddUpCorrect == Spec => []AddUpInv
<1>1. Init => AddUpInv
  <2> SUFFICES ASSUME Init PROVE AddUpInv
    OBVIOUS
  <2>1. AdjustedExists
    BY DEF Init, AdjustedExists
  <2>2. ASSUME NEW w \in RewardId PROVE SumFunctionOnSet(UnitsOf(w), Request) = 0
    <3>1. \A a \in Request : UnitsOf(w)[a] = 0
      BY DEF Init, UnitsOf
    <3>2. QED BY <3>1, SumOfZeros, RequestAssumption
  <2>3. ASSUME NEW w \in RewardId, rewards[w] # None PROVE rewards[w].quantity = Settled(w)
    <3>1. rewards[w] = Seed[w] /\ w \in SeedId /\ Seed[w] \in RewardRow
      BY <2>3, SeedAssumption DEF Init
    <3>2. rewards[w].quantity = rewards[w].original /\ rewards[w].original \in Int
      BY <3>1, SeedAssumption DEF RewardRow
    <3>3. Settled(w) = rewards[w].original + SumFunctionOnSet(UnitsOf(w), Request)
      BY DEF Settled, UnitsOf
    <3>4. QED BY <2>2, <3>2, <3>3
  <2>4. \A w \in Request : rewards[w] = None
    BY SeedAssumption DEF Init, RewardId
  <2>5. QED BY <2>1, <2>3, <2>4 DEF AddUpInv, AdjustmentsAddUp
<1>2. AddUpInv /\ AnswersInv /\ BooksInv /\ BooksInv' /\ [Next]_vars => AddUpInv'
  <2> SUFFICES ASSUME AddUpInv, AnswersInv, BooksInv, BooksInv', [Next]_vars PROVE AddUpInv'
    OBVIOUS
  <2>i. TypeInv /\ TypeInv'
    BY DEF BooksInv
  <2>1. ASSUME NEW r \in Request, CommitReward(r) PROVE AddUpInv'
    <3> DEFINE notional == seen[r] * payload[r].qty
    <3>1. /\ r \in RewardId /\ rewards[r] = None
          /\ seen[r] \in Int /\ payload[r].qty \in Int
      BY <2>1, <2>i DEF CommitReward, BooksInv, NoRowBeforeAnswer, TypeInv, TypeOK, PayloadFits,
                        CreatePhase, CreatePayload, RewardId
    <3>2. notional \in Int
      BY <3>1
    <3>3. /\ rewards'[r] # None
          /\ rewards'[r].quantity = payload[r].qty
          /\ rewards'[r].original = payload[r].qty
          /\ rewards'[r].response.amount = notional
          /\ ledger'[r].cash = -notional /\ ledger'[r].feeBase = notional
          /\ \A w \in RewardId \ {r} : rewards'[w] = rewards[w] /\ ledger'[w] = ledger[w]
          /\ UNCHANGED adjustments
      BY <2>1, <2>i, <3>1, GrantRowType, NoneAssumption
         DEF CommitReward, GrantResponse, TypeInv, TypeOK
    <3>4. /\ SumFunctionOnSet(UnitsOf(r), Request) = 0
          /\ SumFunctionOnSet(CashOf(r), Request) = 0
      BY <3>1, NothingAdjusted DEF AddUpInv
    <3>5. AdjustedExists'
      BY <3>3 DEF AddUpInv, AdjustedExists
    <3>6. ASSUME NEW w \in RewardId, rewards'[w] # None PROVE rewards'[w].quantity = Settled(w)'
      <4>1. Settled(w)' = rewards'[w].original + SumFunctionOnSet(UnitsOf(w), Request)
        BY <3>3 DEF Settled, UnitsOf
      <4>2. CASE w = r
        BY <3>1, <3>3, <3>4, <4>1, <4>2
      <4>3. CASE w # r
        BY <3>3, <3>6, <4>1, <4>3 DEF AddUpInv, AdjustmentsAddUp, Settled, UnitsOf
      <4>4. QED BY <4>2, <4>3
    <3>7. ASSUME NEW w \in Request, rewards'[w] # None
          PROVE  /\ ledger'[w].feeBase = rewards'[w].response.amount
                 /\ ledger'[w].cash = SumFunctionOnSet(CashOf(w)', Request) - ledger'[w].feeBase
      <4>1. CashOf(w)' = CashOf(w) /\ w \in RewardId
        BY <3>3 DEF CashOf, RewardId
      <4>2. CASE w = r
        BY <3>2, <3>3, <3>4, <4>1, <4>2
      <4>3. CASE w # r
        BY <3>3, <3>7, <4>1, <4>3 DEF AddUpInv, AdjustmentsAddUp, CashOf
      <4>4. QED BY <4>2, <4>3
    <3>8. AdjustmentsAddUp'
      BY <3>6, <3>7 DEF AdjustmentsAddUp, CashOf
    <3>9. QED BY <3>5, <3>8 DEF AddUpInv
  <2>2. ASSUME NEW r \in Request, CommitAdjustment(r), ~Refuse(r, 400) PROVE AddUpInv'
    <3>0. PICK w \in RewardId : w = payload[r].reward
      BY <2>2, <2>i DEF CommitAdjustment, TypeInv, PayloadFits, AdjustPhase, AdjustPayload
    <3>1. /\ phase[r] = "commitAdjustment"
          /\ rewards[w] # None /\ rewards[w] \in RewardRow
          /\ payload[r] \in AdjustPayload /\ payload[r].dq \in Int /\ payload[r].da \in Int
          /\ adjustments[r] = None
          /\ seen[r] = rewards[w].quantity
      BY <2>2, <2>i, <3>0 DEF CommitAdjustment, TypeInv, TypeOK, PayloadFits, AdjustPhase,
                              AdjustPayload, AnswersInv, Handled, BooksInv, BalanceUnderLock
    <3>2. /\ rewards' = [rewards EXCEPT ![w].quantity = NewQuantity(r)]
          /\ adjustments' = [adjustments EXCEPT
                ![r] = [of |-> payload[r], response |-> [id |-> r, amount |-> payload[r].da]]]
          /\ ledger' = [ledger EXCEPT ![w].units = @ + payload[r].dq,
                                      ![w].cash = @ + payload[r].da]
      BY <2>2, <3>0 DEF CommitAdjustment
    <3>3. /\ adjustments'[r] # None /\ adjustments'[r].of = payload[r]
          /\ \A a \in Request \ {r} : adjustments'[a] = adjustments[a]
      <4>1. [id |-> r, amount |-> payload[r].da] \in Response
        BY <3>1 DEF Response, RewardId
      <4>2. QED BY <2>i, <3>1, <3>2, <4>1, NoneAssumption DEF TypeInv, TypeOK, AdjustmentRow
    <3>4. /\ rewards'[w] = [rewards[w] EXCEPT !.quantity = NewQuantity(r)]
          /\ \A v \in RewardId \ {w} : rewards'[v] = rewards[v] /\ ledger'[v] = ledger[v]
          /\ ledger'[w].cash = ledger[w].cash + payload[r].da
          /\ ledger'[w].feeBase = ledger[w].feeBase
      BY <2>i, <3>1, <3>2 DEF TypeInv, TypeOK, LedgerTotals
    <3>5. /\ rewards'[w] # None
          /\ rewards'[w].quantity = rewards[w].quantity + payload[r].dq
          /\ rewards'[w].original = rewards[w].original
          /\ rewards'[w].response = rewards[w].response
      <4>1. NewQuantity(r) = rewards[w].quantity + payload[r].dq /\ NewQuantity(r) \in Int
        BY <3>1 DEF NewQuantity, RewardRow
      <4>2. rewards'[w] \in RewardRow
        BY <3>1, <3>4, <4>1 DEF RewardRow
      <4>3. QED BY <3>1, <3>4, <4>1, <4>2, NoneAssumption DEF RewardRow
    <3>6. AdjustedExists'
      BY <3>0, <3>1, <3>3, <3>4, <3>5 DEF AddUpInv, AdjustedExists
    <3>7. /\ UnitsOf(w) \in [Request -> Int] /\ UnitsOf(w)' \in [Request -> Int]
          /\ CashOf(w) \in [Request -> Int] /\ CashOf(w)' \in [Request -> Int]
      BY <2>i DEF UnitsOf, CashOf, TypeInv, TypeOK, AdjustmentRow, AdjustPayload
    <3>8. \A a \in Request :
            /\ UnitsOf(w)'[a] = IF a = r THEN UnitsOf(w)[a] + payload[r].dq ELSE UnitsOf(w)[a]
            /\ CashOf(w)'[a] = IF a = r THEN CashOf(w)[a] + payload[r].da ELSE CashOf(w)[a]
      BY <3>0, <3>1, <3>3 DEF UnitsOf, CashOf
    <3>9. \A v \in RewardId \ {w} : UnitsOf(v)' = UnitsOf(v) /\ CashOf(v)' = CashOf(v)
      BY <3>0, <3>1, <3>3 DEF UnitsOf, CashOf
    <3>10. /\ SumFunctionOnSet(UnitsOf(w), Request) \in Int
           /\ SumFunctionOnSet(UnitsOf(w)', Request)
                = SumFunctionOnSet(UnitsOf(w), Request) + payload[r].dq
           /\ SumFunctionOnSet(CashOf(w), Request) \in Int
           /\ SumFunctionOnSet(CashOf(w)', Request)
                = SumFunctionOnSet(CashOf(w), Request) + payload[r].da
      <4>1. ASSUME NEW f \in [Request -> Int], NEW g \in [Request -> Int], NEW d \in Int,
                   \A a \in Request : g[a] = IF a = r THEN f[a] + d ELSE f[a]
            PROVE  /\ SumFunctionOnSet(f, Request) \in Int
                   /\ SumFunctionOnSet(g, Request) = SumFunctionOnSet(f, Request) + d
        BY <4>1, SumChange, RequestAssumption
      <4>2. /\ SumFunctionOnSet(UnitsOf(w), Request) \in Int
            /\ SumFunctionOnSet(UnitsOf(w)', Request)
                 = SumFunctionOnSet(UnitsOf(w), Request) + payload[r].dq
        BY <3>1, <3>7, <3>8, <4>1
      <4>3. /\ SumFunctionOnSet(CashOf(w), Request) \in Int
            /\ SumFunctionOnSet(CashOf(w)', Request)
                 = SumFunctionOnSet(CashOf(w), Request) + payload[r].da
        BY <3>1, <3>7, <3>8, <4>1
      <4>4. QED BY <4>2, <4>3
    <3>11. ASSUME NEW v \in RewardId, rewards'[v] # None PROVE rewards'[v].quantity = Settled(v)'
      <4>1. /\ Settled(v) = rewards[v].original + SumFunctionOnSet(UnitsOf(v), Request)
            /\ Settled(v)' = rewards'[v].original + SumFunctionOnSet(UnitsOf(v)', Request)
        BY DEF Settled, UnitsOf
      <4>2. CASE v = w
        <5>1. rewards[w].quantity = Settled(w) /\ rewards[w].original \in Int
          BY <3>1 DEF AddUpInv, AdjustmentsAddUp, RewardRow
        <5>2. QED BY <3>1, <3>5, <3>10, <4>1, <4>2, <5>1
      <4>3. CASE v # w
        BY <3>4, <3>9, <3>11, <4>1, <4>3 DEF AddUpInv, AdjustmentsAddUp
      <4>4. QED BY <4>2, <4>3
    <3>12. ASSUME NEW v \in Request, rewards'[v] # None
           PROVE  /\ ledger'[v].feeBase = rewards'[v].response.amount
                  /\ ledger'[v].cash = SumFunctionOnSet(CashOf(v)', Request) - ledger'[v].feeBase
      <4>1. v \in RewardId
        BY DEF RewardId
      <4>2. CASE v = w
        <5>1. /\ ledger[w].feeBase = rewards[w].response.amount
              /\ ledger[w].cash = SumFunctionOnSet(CashOf(w), Request) - ledger[w].feeBase
              /\ ledger[w].feeBase \in Int
          BY <2>i, <3>1, <4>2 DEF AddUpInv, AdjustmentsAddUp, CashOf, TypeInv, TypeOK, LedgerTotals
        <5>2. CashOf(v)' = CashOf(w)'
          BY <4>2
        <5>3. ledger'[w].cash = SumFunctionOnSet(CashOf(w)', Request) - ledger'[w].feeBase
          BY <3>1, <3>4, <3>10, <5>1
        <5>4. QED BY <3>4, <3>5, <4>2, <5>1, <5>2, <5>3
      <4>3. CASE v # w
        <5>1. rewards'[v] = rewards[v] /\ ledger'[v] = ledger[v] /\ CashOf(v)' = CashOf(v)
          BY <3>4, <3>9, <4>1, <4>3
        <5>2. QED BY <3>12, <5>1 DEF AddUpInv, AdjustmentsAddUp, CashOf
      <4>4. QED BY <4>2, <4>3
    <3>13. AdjustmentsAddUp'
      BY <3>11, <3>12 DEF AdjustmentsAddUp, CashOf
    <3>14. QED BY <3>6, <3>13 DEF AddUpInv
  <2>3. ASSUME UNCHANGED db PROVE AddUpInv'
    BY <2>3, SameSums
  <2>4. ASSUME NEW r \in Request,
               \/ \E p \in Payload : Receive(r, p)
               \/ CheckUser(r) \/ ReadPrice(r) \/ InsertReward(r) \/ FindReward(r)
               \/ LockReward(r) \/ CheckBalance(r) \/ InsertAdjustment(r) \/ FindAdjustment(r)
               \/ Abort(r)
        PROVE  UNCHANGED db
    BY <2>4 DEF Receive, CheckUser, ReadPrice, InsertReward, FindReward, LockReward,
                CheckBalance, InsertAdjustment, FindAdjustment, Abort, Refuse, Replay
  <2>5. ASSUME NEW r \in Request, Refuse(r, 400) PROVE UNCHANGED db
    BY <2>5 DEF Refuse
  <2>6. ASSUME Environment \/ UNCHANGED vars PROVE UNCHANGED db
    BY <2>6 DEF Environment, Deactivate, Reprice, NextDay, vars
  <2>7. QED
    BY <2>1, <2>2, <2>3, <2>4, <2>5, <2>6 DEF Next, Step, CreateStep, AdjustStep
<1>3. QED
  BY <1>1, <1>2, AnswersCorrect, BooksCorrect, PTL DEF Spec

\* The adjustments table explains every reward's quantity and cash, for every
\* finite set of requests.
THEOREM AdjustmentsExplain == Spec => []AdjustmentsAddUp
<1>1. AddUpInv => AdjustmentsAddUp
  BY DEF AddUpInv
<1>2. QED BY <1>1, AddUpCorrect, PTL

-----------------------------------------------------------------------------
(* The refinement: ImplementsAtomicLedger *)

\* Where the books and the answers stay as they are, AtomicLedger stutters.
Hidden == UNCHANGED <<payload, rewards, adjustments, ledger, answer>>

\* A transaction that ends without an effect is an atomic refusal.
LEMMA RefuseIsRefuse ==
  ASSUME AnswersInv, NEW r \in Request, phase[r] \notin {"idle", "done"},
         NEW status \in {400, 409, 500}, Reply(r, status, None), UNCHANGED <<db, payload>>
  PROVE  Atomic!Refuse(r)
<1>1. payload[r] # None /\ answer[r] = None
  BY DEF AnswersInv, Handled
<1>2. Atomic!Answered(r, status, None)
  BY DEF Reply, Atomic!Answered
<1>3. UNCHANGED <<payload, rewards, adjustments, ledger>>
  BY DEF db
<1>4. QED BY <1>1, <1>2, <1>3 DEF Atomic!Refuse

\* A retry that finds its row is answered with the stored response in one step,
\* and refused when there is none.
LEMMA ReplayIsReplay ==
  ASSUME AnswersInv, NEW r \in Request, phase[r] \notin {"idle", "done"},
         NEW stored, Replay(r, stored),
         \/ \E w \in RewardId : rewards[w] # None /\ rewards[w].response = stored
         \/ \E a \in Request : adjustments[a] # None /\ adjustments[a].response = stored,
         stored # None => Atomic!Original(r, stored)
  PROVE  Atomic!Refuse(r) \/ Atomic!ReplayOriginal(r)
<1>1. CASE stored = None
  BY <1>1, RefuseIsRefuse DEF Replay
<1>2. CASE stored # None
  <2>1. /\ payload[r] # None /\ answer[r] = None
        /\ Reply(r, 200, stored)
        /\ UNCHANGED <<payload, rewards, adjustments, ledger>>
    BY <1>2 DEF Replay, AnswersInv, Handled, db
  <2>2. QED BY <1>2, <2>1 DEF Atomic!ReplayOriginal, Atomic!Answered, Reply
<1>3. QED BY <1>1, <1>2

\* The commit of a grant is the atomic grant at the price and on the day its
\* transaction read; the unique indexes have kept both keys free since.
LEMMA CommitIsGrant ==
  ASSUME AnswersInv, BooksInv, EffectInv, NEW r \in Request, CommitReward(r)
  PROVE  Atomic!Grant(r)
<1> DEFINE p == payload[r]
           body == [id |-> r, amount |-> seen[r] * p.qty]
<1>1. phase[r] = "commitReward" /\ TypeInv
  BY DEF CommitReward, BooksInv
<1>2. /\ p \in CreatePayload /\ p.kind = "create" /\ p.qty > 0
      /\ p # None /\ answer[r] = None /\ rewards[r] = None
      /\ seen[r] \in Price /\ seen[r] > 0 /\ begun[r] \in 0..MaxDay
  BY <1>1 DEF TypeInv, PayloadFits, PositiveGrant, CreatePhase, CreatePayload, AnswersInv, Handled,
              Priced, BooksInv, NoRowBeforeAnswer
<1>3. ~Atomic!Taken(p, begun[r])
  <2>1. ~CommittedGrant(r)
    BY <1>1 DEF EffectInv, InsertedAlone
  <2>2. QED BY <2>1 DEF CommittedGrant, SameGrant, Atomic!Taken
<1>4. /\ rewards' = [rewards EXCEPT ![r] =
            [user |-> p.user, symbol |-> p.symbol, date |-> begun[r], quantity |-> p.qty,
             original |-> p.qty, key |-> p.key, response |-> body]]
      /\ ledger' = [ledger EXCEPT ![r] =
            [units |-> p.qty, cash |-> -(seen[r] * p.qty), feeBase |-> seen[r] * p.qty]]
      /\ Atomic!Acknowledged(r, body)
      /\ UNCHANGED <<payload, adjustments>>
  BY DEF CommitReward, GrantResponse, Reply, Atomic!Acknowledged, Atomic!Answered
<1>5. QED
  BY <1>2, <1>3, <1>4 DEF Atomic!Grant, Atomic!Waiting

\* The commit of an adjustment is the atomic one: the quantity it writes is the
\* stored one plus its own, because its row has been locked since it was read.
LEMMA CommitIsAdjust ==
  ASSUME AnswersInv, BooksInv, EffectInv, NEW r \in Request, CommitAdjustment(r),
         ~Refuse(r, 400)
  PROVE  Atomic!Adjust(r)
<1> DEFINE p == payload[r]
           w == p.reward
           body == [id |-> r, amount |-> p.da]
<1>1. phase[r] = "commitAdjustment" /\ TypeInv /\ NewQuantity(r) >= 0
  BY DEF CommitAdjustment, BooksInv
<1>2. /\ p.kind = "adjust" /\ p # None /\ answer[r] = None /\ adjustments[r] = None
      /\ w \in RewardId /\ rewards[w] # None /\ seen[r] = rewards[w].quantity
  BY <1>1 DEF TypeInv, PayloadFits, AdjustPhase, AdjustPayload, AnswersInv, Handled,
              BooksInv, BalanceUnderLock
<1>3. \A a \in Request : (p.key # None /\ adjustments[a] # None) => adjustments[a].of.key # p.key
  BY <1>1 DEF EffectInv, InsertedAlone, CommittedAdjustment
<1>4. NewQuantity(r) = rewards[w].quantity + p.dq
  BY <1>2 DEF NewQuantity
<1>5. /\ rewards' = [rewards EXCEPT ![w].quantity = @ + p.dq]
      /\ adjustments' = [adjustments EXCEPT ![r] = [of |-> p, response |-> body]]
      /\ ledger' = [ledger EXCEPT ![w].units = @ + p.dq, ![w].cash = @ + p.da]
      /\ Atomic!Acknowledged(r, body)
      /\ UNCHANGED payload
  BY <1>4 DEF CommitAdjustment, Reply, Atomic!Acknowledged, Atomic!Answered
<1>6. QED
  BY <1>1, <1>2, <1>3, <1>4, <1>5 DEF Atomic!Adjust, Atomic!Waiting

\* The write path with its transactions, locks and unique indexes implements the
\* ledger in which every request is one step, for every set of requests, users,
\* symbols, keys and payloads.
THEOREM LedgerIsAtomic == Spec => ImplementsAtomicLedger
<1>1. Init => Atomic!Init
  BY SeedAssumption DEF Init, Atomic!Init, RewardId
<1>2. AnswersInv /\ BooksInv /\ EffectInv /\ [Next]_vars => [Atomic!Next]_(Atomic!vars)
  <2> SUFFICES ASSUME AnswersInv, BooksInv, EffectInv, [Next]_vars
               PROVE  Atomic!Next \/ Hidden
    BY DEF Atomic!vars, Hidden
  <2>i. TypeInv
    BY DEF BooksInv
  <2>a. ASSUME NEW r \in Request, phase[r] \notin {"idle", "done"},
               NEW status \in {400, 409, 500}, Refuse(r, status)
        PROVE  Atomic!Next
    <3>1. Atomic!Refuse(r)
      BY <2>a, RefuseIsRefuse DEF Refuse
    <3>2. QED BY <3>1 DEF Atomic!Next
  <2>1. ASSUME NEW r \in Request, NEW p \in Payload, Receive(r, p) PROVE Atomic!Next
    <3>1. Atomic!Submit(r, p)
      BY <2>1 DEF Receive, Reply, AnswersInv, Handled, db, Atomic!Submit, Atomic!Answered
    <3>2. QED BY <3>1 DEF Atomic!Next
  <2>2. ASSUME NEW r \in Request,
               \/ CheckUser(r) \/ ReadPrice(r) \/ InsertReward(r)
               \/ LockReward(r) \/ CheckBalance(r) \/ InsertAdjustment(r)
        PROVE  Atomic!Next \/ Hidden
    BY <2>2, <2>a DEF CheckUser, ReadPrice, InsertReward, LockReward, CheckBalance,
                      InsertAdjustment, Hidden, db
  <2>3. ASSUME NEW r \in Request, FindReward(r) PROVE Atomic!Next
    <3>1. phase[r] = "findReward" /\ payload[r].kind = "create"
      BY <2>3, <2>i DEF FindReward, TypeInv, PayloadFits, CreatePhase, CreatePayload
    <3>2. ASSUME NEW w \in RewardId, payload[r].key # None, rewards[w] # None,
                 rewards[w].key = payload[r].key, SameReward(r, rewards[w]),
                 Replay(r, rewards[w].response)
          PROVE  Atomic!Next
      <4>1. Atomic!Original(r, rewards[w].response)
        BY <3>1, <3>2 DEF Atomic!Original, SameReward
      <4>2. Atomic!Refuse(r) \/ Atomic!ReplayOriginal(r)
        BY <3>1, <3>2, <4>1, ReplayIsReplay
      <4>3. QED BY <4>2 DEF Atomic!Next
    <3>3. QED BY <2>3, <2>a, <3>1, <3>2 DEF FindReward
  <2>4. ASSUME NEW r \in Request, FindAdjustment(r) PROVE Atomic!Next
    <3>1. phase[r] = "findAdjustment" /\ payload[r].kind = "adjust" /\ payload[r].key # None
      BY <2>4, <2>i DEF FindAdjustment, TypeInv, PayloadFits, AdjustPhase, AdjustPayload,
                        AnswersInv, Handled
    <3>2. ASSUME NEW a \in Request, adjustments[a] # None, adjustments[a].of = payload[r],
                 Replay(r, adjustments[a].response)
          PROVE  Atomic!Next
      <4>1. Atomic!Original(r, adjustments[a].response)
        BY <3>1, <3>2 DEF Atomic!Original
      <4>2. Atomic!Refuse(r) \/ Atomic!ReplayOriginal(r)
        BY <3>1, <3>2, <4>1, ReplayIsReplay
      <4>3. QED BY <4>2 DEF Atomic!Next
    <3>3. QED BY <2>4, <2>a, <3>1, <3>2 DEF FindAdjustment
  <2>5. ASSUME NEW r \in Request, CommitReward(r) PROVE Atomic!Next
    BY <2>5, CommitIsGrant DEF Atomic!Next
  <2>6. ASSUME NEW r \in Request, CommitAdjustment(r) PROVE Atomic!Next
    <3>1. CASE Refuse(r, 400)
      BY <2>6, <2>a, <3>1 DEF CommitAdjustment
    <3>2. CASE ~Refuse(r, 400)
      BY <2>6, <3>2, CommitIsAdjust DEF Atomic!Next
    <3>3. QED BY <3>1, <3>2
  <2>7. ASSUME NEW r \in Request, Abort(r) PROVE Atomic!Next
    BY <2>7, <2>a DEF Abort, InTransaction, CreatePhase, AdjustPhase
  <2>8. CASE Environment \/ UNCHANGED vars
    BY <2>8 DEF Environment, Deactivate, Reprice, NextDay, vars, db, Hidden
  <2>9. QED
    BY <2>1, <2>2, <2>3, <2>4, <2>5, <2>6, <2>7, <2>8 DEF Next, Step, CreateStep, AdjustStep
<1>3. QED
  BY <1>1, <1>2, AnswersCorrect, BooksCorrect, EffectsCorrect, PTL
     DEF Spec, ImplementsAtomicLedger, Atomic!Spec
=============================================================================
