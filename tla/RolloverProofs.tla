--------------------------- MODULE RolloverProofs ---------------------------
(***************************************************************************)
(* Two components on the worker's clock.                                   *)
(*                                                                         *)
(* Rollover: CashPosted and RolledUp for any number of replicas, events,   *)
(* rewards and days, and any interleaving of their transactions.           *)
(* What a transaction stores it computed earlier, from events it saw then. *)
(* So the invariant says of every transaction under way what its buffer is *)
(* worth (Buffered), which rows it still owes (Covered) and which lock     *)
(* keeps others from making it worthless (Turns).  The posting lock makes  *)
(* the cash exact.  The stages' own locks do not exclude the triggers of   *)
(* events, which is why rows and factors are only right for the events     *)
(* that did not commit during the stage.  No lock excludes a grant, and    *)
(* one that began on an earlier date is missed by whoever looked for the   *)
(* rewards of a date before it committed: hence belated in Covered.        *)
(*                                                                         *)
(* MarketJobs: its four properties for any calendar, any intervals and any *)
(* length of cycles, attempts and stops.  JobsInvariant says when slots,   *)
(* attempts and cycles may lie, whatever the intervals.  QuoteInvariant    *)
(* adds how old the row may be at each point between two ticks, which      *)
(* needs intervals that fit.                                               *)
(***************************************************************************)
EXTENDS Rollover, MarketJobs, DataFacts, TLAPS

PC == {"idle", "cash", "postedCash", "factors", "storeFactors", "storedFactors",
       "effective", "rows", "storeRow"}

Postable == SUBSET (Reward \X Event)
Factor   == [of : SUBSET Event, asOf : Nat]
Factors  == UNION {[S -> Factor] : S \in SUBSET Symbol}
Rows     == UNION {[R -> SUBSET Event] : R \in SUBSET Reward}

Tx == [pc : PC, asOf : Nat, todo : SUBSET Reward, row : SUBSET Event, posted : SUBSET Reward,
       cash : {None} \cup Postable, factors : Factors, rows : Rows,
       base : SUBSET Event]

Granting == [asOf : Nat, row : {None} \cup SUBSET Event]

\* Types; what a transaction has written is a partial function until it commits.
TypeOK ==
  /\ today \in Nat /\ mark \in [Stage -> Nat] /\ events \subseteq Event
  /\ granted \in [Reward -> Nat \cup {None}] /\ factor \in [Symbol -> Factor]
  /\ rewardState \in [Reward -> SUBSET Event]
  /\ lock \in [Lock -> Task \cup {None}]
  /\ overlapped \in [Stage -> SUBSET Event] /\ tx \in [Task -> Tx]
  /\ granting \in [Reward -> Granting \cup {None}]
  /\ belated \in [cash : SUBSET Reward, effective : SUBSET Reward]

\* Nothing is dated ahead, and a reward is granted once.
Dates ==
  /\ \A s \in Stage : mark[s] <= today
  /\ \A s \in Symbol : factor[s].asOf <= today
  /\ \A t \in Task : tx[t].asOf <= today
  /\ \A r \in Reward : granting[r] # None => granting[r].asOf <= today /\ granted[r] = None

AtFactors(t) == tx[t].pc \in {"storeFactors", "storedFactors"}
AtRows(t)    == tx[t].pc \in {"rows", "storeRow"}

\* Who holds which lock, and what of a transaction is written by then.
Turns(t) ==
  /\ tx[t].cash # None => lock["posting"] = t
  /\ tx[t].pc = "idle" => /\ tx[t].cash = None
                          /\ DOMAIN tx[t].factors = {} /\ DOMAIN tx[t].rows = {}
  /\ tx[t].pc = "storeRow" => tx[t].todo # {}
  /\ tx[t].posted # {} => tx[t].cash # None
  /\ tx[t].todo \cup DOMAIN tx[t].rows \cup tx[t].posted \subseteq Rewards
  /\ t \in Event =>
       /\ tx[t].pc \notin {"postedCash", "storedFactors"}
       /\ tx[t].pc # "idle" => /\ lock["posting"] = t
                               /\ tx[t].asOf = today /\ t \notin events
       /\ tx[t].pc \notin {"idle", "cash"} => tx[t].cash # None
       /\ t \in Split /\ tx[t].pc \notin {"idle", "cash", "factors"}
            => SymbolOf[t] \in DOMAIN tx[t].factors
  /\ t \in Replica =>
       /\ tx[t].base \subseteq events
       /\ tx[t].cash # None <=> tx[t].pc = "postedCash"
       /\ DOMAIN tx[t].factors = IF AtFactors(t) THEN Symbol ELSE {}
       /\ AtFactors(t) => lock["factors"] = t
       /\ ~AtRows(t) => DOMAIN tx[t].rows = {}
       /\ AtRows(t) => lock["effective"] = t

\* The events that stay what they are until t's transaction ends.
Steady(t) == IF t \in Event THEN Sees(t) ELSE tx[t].base

\* The events of t that a row of r must hold.
Due(t, r, e) ==
  /\ SymbolOf[e] = SymbolOf[r]
  /\ granted[r] < Effective[e] /\ Effective[e] <= tx[t].asOf

\* The events whose cash t would post for r.
Owed(t, r, e) ==
  e \in Sees(t) /\ SymbolOf[e] = SymbolOf[r] /\ InForce(granted[r], e, tx[t].asOf)

\* What a transaction has written is what it would write if it began now.
Buffered(t) ==
  /\ tx[t].cash # None =>
       \A r \in tx[t].posted, e \in Event : granted[r] < tx[t].asOf =>
         (<<r, e>> \in tx[t].cash <=> Owed(t, r, e))
  /\ \A s \in DOMAIN tx[t].factors :
       /\ tx[t].factors[s].asOf = tx[t].asOf
       /\ \A e \in Steady(t) \cap Split : SymbolOf[e] = s /\ Effective[e] <= tx[t].asOf
            => e \in tx[t].factors[s].of
  /\ \A r \in DOMAIN tx[t].rows \cap Rewards, e \in Steady(t) :
       Due(t, r, e) => e \in tx[t].rows[r]
  /\ tx[t].pc = "storeRow" /\ NextRow(t) \in Rewards =>
       \A e \in Steady(t) : Due(t, NextRow(t), e) => e \in tx[t].row

\* Every row that has to change is written or will be, or was by somebody else
\* meanwhile, or it is of a reward nobody could see in time.
Covered(t) ==
  /\ tx[t].cash # None =>
       \A r \in Rewards : granted[r] < tx[t].asOf => r \in tx[t].posted \cup belated.cash
  /\ AtRows(t) =>
       /\ t \in Event =>
            \A r \in Rewards : SymbolOf[r] = SymbolOf[t] /\ granted[r] < tx[t].asOf
              => r \in tx[t].todo \cup DOMAIN tx[t].rows \cup belated.effective
       /\ t \in Replica =>
            \A r \in Rewards, e \in tx[t].base :
              Due(t, r, e) /\ mark["effective"] < Effective[e]
                => \/ r \in tx[t].todo \cup DOMAIN tx[t].rows \cup belated.effective
                   \/ e \in rewardState[r]

IInv == /\ TypeOK /\ Dates
        /\ \A t \in Task : Turns(t) /\ Buffered(t) /\ Covered(t)
        /\ CashPosted /\ RolledUp

-----------------------------------------------------------------------------
(* Buffers *)

LEMMA EmptyBuffer == <<>> \in Factors /\ <<>> \in Rows /\ DOMAIN <<>> = {}
<1>1. <<>> \in [{} -> SUBSET Event] /\ <<>> \in [{} -> Factor]
  OBVIOUS
<1> QED BY <1>1 DEF Factors, Rows

LEMMA RowAdded ==
  ASSUME NEW f \in Rows, NEW r \in Reward, NEW x \in SUBSET Event
  PROVE  [q \in DOMAIN f \cup {r} |-> IF q = r THEN x ELSE f[q]] \in Rows
<1>1. PICK R \in SUBSET Reward : f \in [R -> SUBSET Event]
  BY DEF Rows
<1>2. [q \in R \cup {r} |-> IF q = r THEN x ELSE f[q]] \in [R \cup {r} -> SUBSET Event]
  BY <1>1
<1>3. R \cup {r} \in SUBSET Reward /\ DOMAIN f = R
  BY <1>1
<1> QED BY <1>2, <1>3 DEF Rows

LEMMA RowsStored ==
  ASSUME NEW f \in Rows, NEW r \in DOMAIN f
  PROVE  f[r] \in SUBSET Event
<1>1. PICK R \in SUBSET Reward : f \in [R -> SUBSET Event]
  BY DEF Rows
<1> QED BY <1>1

LEMMA FactorsStored ==
  ASSUME NEW f \in Factors, NEW s \in DOMAIN f
  PROVE  f[s] \in Factor
<1>1. PICK S \in SUBSET Symbol : f \in [S -> Factor]
  BY DEF Factors
<1> QED BY <1>1

LEMMA FactorsMade ==
  ASSUME NEW S \in SUBSET Symbol, NEW g \in [S -> Factor]
  PROVE  g \in Factors /\ DOMAIN g = S
BY DEF Factors

Ready(x, pc, d) ==
  /\ x.pc = pc /\ x.asOf = d /\ x.cash = None /\ x.base = {} /\ x.todo = {} /\ x.posted = {}
  /\ DOMAIN x.factors = {} /\ DOMAIN x.rows = {}

LEMMA StartingIsTx ==
  ASSUME NEW pc \in PC, today \in Nat
  PROVE  /\ Starting(pc) \in Tx /\ Starting(pc).asOf = today /\ Ready(Starting(pc), pc, today)
         /\ Idle \in Tx /\ Idle.asOf = 0 /\ Ready(Idle, "idle", 0)
BY EmptyBuffer DEF Starting, Tx, Idle, Postable, PC, Ready

LEMMA InDetails ==
  ASSUME NEW E, NEW d, NEW r, NEW e
  PROVE  <<r, e>> \in Details(E, d) <=> r \in Rewards /\ e \in Replayed(r, E, d)
BY DEF Details

LEMMA NextRowIsOpen ==
  ASSUME NEW t \in Task, tx[t].todo \in SUBSET Reward, tx[t].todo # {}
  PROVE  NextRow(t) \in tx[t].todo
<1>1. PICK n \in tx[t].todo : n \in Nat
  BY RolloverAssumption
<1>2. PICK m \in tx[t].todo \cap 0..n : \A q \in tx[t].todo \cap 0..n : m <= q
  <2>1. tx[t].todo \cap 0..n \in SUBSET (0..n) /\ tx[t].todo \cap 0..n # {}
    BY <1>1
  <2> QED BY <1>1, <2>1, FirstNumber
<1>3. ASSUME NEW q \in tx[t].todo PROVE m <= q
  <2>1. q \in Nat /\ m \in Nat /\ m <= n
    <3>1. Reward \subseteq Nat
      BY RolloverAssumption
    <3>2. q \in Nat
      BY <3>1
    <3>3. m \in 0..n
      BY <1>2
    <3> QED BY <1>1, <3>2, <3>3
  <2>2. CASE q <= n
    BY <1>1, <1>2, <2>1, <2>2
  <2>3. CASE n < q
    BY <1>1, <2>1, <2>3
  <2> QED BY <1>1, <2>1, <2>2, <2>3
<1> QED BY <1>3 DEF NextRow

-----------------------------------------------------------------------------
(* Steps of one transaction *)

\* Only the transaction that goes on changes.
LEMMA GoesOne ==
  ASSUME tx \in [Task -> Tx], NEW t \in Task, NEW new \in Tx, Goes(t, new)
  PROVE  tx' \in [Task -> Tx] /\ tx'[t] = new /\ \A u \in Task \ {t} : tx'[u] = tx[u]
BY DEF Goes

\* A step of t's own that changes no row leaves the others as they were, if it
\* leaves their locks alone: what is to show is about t.
LEMMA Local ==
  ASSUME IInv, NEW t \in Task, NEW new \in Tx, Goes(t, new), UNCHANGED <<today, dbVars, granting, history>>,
         lock' \in [Lock -> Task \cup {None}],
         \A l \in Lock : lock[l] \notin {t, None} => lock'[l] = lock[l],
         new.asOf <= today, Turns(t)', Buffered(t)', Covered(t)'
  PROVE  IInv'
<1>1. /\ tx' \in [Task -> Tx] /\ tx'[t] = new
      /\ \A u \in Task \ {t} : tx'[u] = tx[u]
  BY GoesOne DEF IInv, TypeOK
<1>2. TypeOK'
  BY <1>1 DEF IInv, TypeOK, dbVars, history
<1>3. Dates'
  BY <1>1 DEF IInv, Dates, dbVars
<1>4. \A u \in Task : Turns(u)' /\ Buffered(u)' /\ Covered(u)'
  <2> SUFFICES ASSUME NEW u \in Task, u # t
               PROVE  Turns(u)' /\ Buffered(u)' /\ Covered(u)'
    OBVIOUS
  <2>1. tx'[u] = tx[u] /\ Turns(u) /\ Buffered(u) /\ Covered(u)
    BY <1>1 DEF IInv
  <2>2. \A l \in Lock : lock[l] = u => lock'[l] = u
    BY RolloverAssumption
  <2>3. Turns(u)'
    BY <2>1, <2>2 DEF Turns, AtFactors, AtRows, Rewards, dbVars, Lock, Stage
  <2>4. Buffered(u)'
    BY <2>1 DEF Buffered, Rewards, Owed, InForce, Steady, Sees, Due, NextRow, dbVars
  <2>5. Covered(u)'
    BY <2>1 DEF Covered, AtRows, Rewards, Due, dbVars, history
  <2> QED BY <2>3, <2>4, <2>5
<1>5. CashPosted' /\ RolledUp'
  BY DEF IInv, CashPosted, Posted, RolledUp, Stand, Rewards, Details, Replayed, InForce, ServedFactor,
         FactorOf, dbVars, history
<1> QED BY <1>2, <1>3, <1>4, <1>5 DEF IInv

\* A transaction that has only begun, or has ended, has nothing to answer for.
LEMMA FreshTransaction ==
  ASSUME NEW t \in Task, NEW pc \in {"idle", "cash", "factors", "effective"},
         NEW d \in Nat, Ready(tx'[t], pc, d),
         t \in Event => /\ pc \in {"idle", "cash"}
                        /\ pc = "cash" => lock'["posting"] = t /\ d = today' /\ t \notin events'
  PROVE  Turns(t)' /\ Buffered(t)' /\ Covered(t)'
<1>1. /\ tx'[t].cash = None /\ DOMAIN tx'[t].factors = {} /\ DOMAIN tx'[t].rows = {}
      /\ tx'[t].pc = pc /\ tx'[t].asOf = d /\ tx'[t].base = {} /\ tx'[t].todo = {}
      /\ tx'[t].posted = {}
  BY DEF Ready
<1>2. Turns(t)'
  BY <1>1 DEF Turns, AtFactors, AtRows
<1>3. Buffered(t)'
  BY <1>1 DEF Buffered
<1>4. Covered(t)'
  BY <1>1 DEF Covered, AtRows
<1> QED BY <1>2, <1>3, <1>4

-----------------------------------------------------------------------------
(* The steps *)

LEMMA BeginEventStep ==
  ASSUME IInv, NEW e \in Event, BeginEvent(e)
  PROVE  IInv'
<1> DEFINE new == Starting("cash")
<1>1. new \in Tx /\ new.asOf = today /\ Ready(new, "cash", today)
  BY StartingIsTx DEF PC, IInv, TypeOK
<1>2. e \in Task /\ tx'[e] = new
  BY <1>1, GoesOne DEF BeginEvent, Task, IInv, TypeOK
<1>3. /\ lock' \in [Lock -> Task \cup {None}] /\ lock'["posting"] = e
      /\ \A l \in Lock : lock[l] \notin {e, None} => lock'[l] = lock[l]
  BY <1>2 DEF BeginEvent, IInv, TypeOK, Lock
<1>4. Turns(e)' /\ Buffered(e)' /\ Covered(e)'
  BY <1>1, <1>2, <1>3, FreshTransaction DEF BeginEvent, IInv, TypeOK, dbVars
<1>5. today <= today
  BY DEF IInv, TypeOK
<1> HIDE DEF new
<1> QED BY <1>1, <1>2, <1>3, <1>4, <1>5, Local DEF BeginEvent, new

LEMMA BeginPassStep ==
  ASSUME IInv, NEW p \in Replica, BeginPass(p)
  PROVE  IInv'
<1> DEFINE new == Starting("cash")
<1>1. new \in Tx /\ new.asOf = today /\ today <= today /\ Ready(new, "cash", today)
  BY StartingIsTx DEF PC, IInv, TypeOK
<1>2. p \in Task /\ p \notin Event /\ tx'[p] = new
  BY <1>1, GoesOne, RolloverAssumption DEF BeginPass, Task, IInv, TypeOK
<1>3. Turns(p)' /\ Buffered(p)' /\ Covered(p)'
  BY <1>1, <1>2, FreshTransaction DEF BeginPass, IInv, TypeOK, dbVars
<1> HIDE DEF new
<1> QED BY <1>1, <1>2, <1>3, Local DEF BeginPass, new, IInv, TypeOK

\* A replica goes on with a later stage, or ends its pass.
LEMMA AfterIsFresh ==
  ASSUME NEW p, today \in Nat
  PROVE  \E pc \in {"idle", "factors", "effective"}, d \in Nat :
           Ready(After(p), pc, d) /\ After(p) \in Tx /\ d <= today /\ After(p).asOf = d
<1>1. today <= today /\ 0 <= today /\ 0 \in Nat
  OBVIOUS
<1>2. Idle \in Tx /\ Idle.asOf = 0 /\ Ready(Idle, "idle", 0)
  BY StartingIsTx DEF PC
<1>3. \A pc \in {"factors", "effective"} :
        Starting(pc) \in Tx /\ Starting(pc).asOf = today /\ Ready(Starting(pc), pc, today)
  BY StartingIsTx DEF PC
<1>4. After(p) \in {Starting("factors"), Starting("effective"), Idle}
  BY DEF After
<1> QED BY <1>1, <1>2, <1>3, <1>4

LEMMA StartLaterStep ==
  ASSUME IInv, NEW p \in Replica, StartLater(p)
  PROVE  IInv'
<1> DEFINE new == Starting(tx[p].pc)
<1>1. p \in Task /\ p \notin Event /\ tx[p].pc \in {"cash", "factors", "effective"} /\ today \in Nat
      /\ today <= today
  BY RolloverAssumption DEF StartLater, Stage, Task, IInv, TypeOK
<1>2. new \in Tx /\ new.asOf = today /\ Ready(new, tx[p].pc, today)
  BY <1>1, StartingIsTx DEF PC
<1>3. Goes(p, new)
  BY DEF StartLater
<1> HIDE DEF new
<1>4. tx'[p] = new
  BY <1>1, <1>2, <1>3, GoesOne DEF IInv, TypeOK
<1>5. Turns(p)' /\ Buffered(p)' /\ Covered(p)'
  BY <1>1, <1>2, <1>4, FreshTransaction
<1> QED BY <1>1, <1>2, <1>3, <1>5, Local DEF StartLater, IInv, TypeOK

LEMMA SkipStageStep ==
  ASSUME IInv, NEW p \in Replica, SkipStage(p)
  PROVE  IInv'
<1>1. PICK pc \in {"idle", "factors", "effective"}, d \in Nat :
        Ready(After(p), pc, d) /\ After(p) \in Tx /\ d <= today /\ After(p).asOf = d
  BY AfterIsFresh DEF IInv, TypeOK
<1>2. p \in Task /\ p \notin Event /\ tx'[p] = After(p)
  BY <1>1, GoesOne, RolloverAssumption DEF SkipStage, Task, IInv, TypeOK
<1>3. Turns(p)' /\ Buffered(p)' /\ Covered(p)'
  BY <1>1, <1>2, FreshTransaction
<1> QED BY <1>1, <1>2, <1>3, Local DEF SkipStage, IInv, TypeOK

LEMMA AbortStep ==
  ASSUME IInv, NEW t \in Task, Abort(t)
  PROVE  IInv'
<1>1. \A p : \E pc \in {"idle", "factors", "effective"}, d \in Nat :
        Ready(After(p), pc, d) /\ After(p) \in Tx /\ d <= today /\ After(p).asOf = d
  BY AfterIsFresh DEF IInv, TypeOK
<1>2. Idle \in Tx /\ Idle.asOf = 0 /\ Ready(Idle, "idle", 0) /\ 0 <= today /\ 0 \in Nat
  BY StartingIsTx DEF PC, IInv, TypeOK
<1>3. PICK new \in Tx, pc \in {"idle", "factors", "effective"}, d \in Nat :
        /\ Goes(t, new) /\ Ready(new, pc, d) /\ new.asOf <= today
        /\ t \in Event => pc = "idle"
  <2>1. CASE Goes(t, Idle)
    BY <1>2, <2>1
  <2>2. CASE t \in Replica /\ Goes(t, After(t))
    BY <1>1, <2>2, RolloverAssumption
  <2> QED BY <2>1, <2>2 DEF Abort
<1>4. tx'[t] = new
  BY <1>3, GoesOne DEF IInv, TypeOK
<1>5. Turns(t)' /\ Buffered(t)' /\ Covered(t)'
  BY <1>3, <1>4, FreshTransaction
<1>6. /\ lock' \in [Lock -> Task \cup {None}]
      /\ \A l \in Lock : lock[l] \notin {t, None} => lock'[l] = lock[l]
  BY DEF Abort, Released, IInv, TypeOK
<1> QED BY <1>3, <1>5, <1>6, Local DEF Abort

LEMMA PostCashStep ==
  ASSUME IInv, NEW t \in Task, PostCash(t)
  PROVE  IInv'
<1> DEFINE new == [tx[t] EXCEPT !.cash = Postings(t), !.posted = Rewards, !.base = Found(t),
                                !.pc = CASE t \in Replica -> "postedCash"
                                         [] t \in Split   -> "factors"
                                         [] OTHER         -> "effective"]
<1>1. Postings(t) \in Postable /\ Rewards \in SUBSET Reward
  <2>1. events \subseteq Event /\ Sees(t) \subseteq Event
    BY DEF IInv, TypeOK, Sees
  <2> QED BY <2>1 DEF Postings, Details, Replayed, Rewards, Postable
<1>2. /\ tx[t] \in Tx /\ tx[t].pc = "cash" /\ Turns(t) /\ Buffered(t)
      /\ Found(t) \subseteq events /\ Found(t) \in SUBSET Event
  BY DEF PostCash, Enters, Found, IInv, TypeOK
<1>3. /\ new \in Tx /\ new.cash = Postings(t) /\ new.asOf = tx[t].asOf /\ new.base = Found(t)
      /\ new.factors = tx[t].factors /\ new.rows = tx[t].rows /\ new.todo = tx[t].todo
      /\ new.posted = Rewards
      /\ new.pc = IF t \in Replica THEN "postedCash" ELSE IF t \in Split THEN "factors" ELSE "effective"
  BY <1>1, <1>2, RolloverAssumption DEF Tx, PC
<1>4. Goes(t, new)
  BY DEF PostCash
<1> HIDE DEF new
<1>5. tx'[t] = new
  BY <1>3, <1>4, GoesOne DEF IInv, TypeOK
<1>6. /\ lock' \in [Lock -> Task \cup {None}] /\ lock'["posting"] = t
      /\ \A l \in Lock : lock[l] \notin {t, None} => lock'[l] = lock[l]
  <2>1. "cash" \in Lock /\ "posting" \in Lock /\ lock["posting"] \in {None, t}
    BY DEF PostCash, Lock, Stage
  <2>2. t \in Replica => lock["cash"] \in {None, t}
    BY DEF PostCash, Enters
  <2>3. t \notin Replica => "cash" \notin LocksOf(t)
    BY DEF LocksOf
  <2>4. "posting" \in LocksOf(t)
    BY <2>1 DEF LocksOf
  <2> QED BY <2>1, <2>2, <2>3, <2>4 DEF PostCash, Takes, IInv, TypeOK
<1>7. Postings(t) # None
  BY <1>1, RolloverAssumption DEF Postable
<1>8. Turns(t)'
  <2>1. t \in Event => /\ tx[t].asOf = today /\ t \notin events 
    BY <1>2 DEF Turns
  <2>2. t \in Replica => /\ Found(t) \subseteq events /\ DOMAIN tx[t].factors = {} /\ DOMAIN tx[t].rows = {}
    BY <1>2 DEF Turns, AtFactors, AtRows
  <2>3. t \in Event => t \notin Replica
    BY RolloverAssumption
  <2>4. Rewards' = Rewards /\ tx[t].todo \cup DOMAIN tx[t].rows \subseteq Rewards
    BY <1>2 DEF Turns, PostCash, Rewards, dbVars
  <2> QED BY <1>3, <1>5, <1>6, <1>7, <2>1, <2>2, <2>3, <2>4 DEF Turns, AtFactors, AtRows, PostCash, dbVars
<1>9. Buffered(t)'
  <2>1. UNCHANGED <<events, granted>>
    BY DEF PostCash, dbVars
  <2>2. \A r \in tx'[t].posted, e \in Event : <<r, e>> \in tx'[t].cash <=> Owed(t, r, e)'
    <3>1. \A r \in Rewards, e \in Event : <<r, e>> \in Postings(t) <=> Owed(t, r, e)
      <4> SUFFICES ASSUME NEW r \in Rewards, NEW e \in Event
                   PROVE  <<r, e>> \in Details(Sees(t), tx[t].asOf) <=> Owed(t, r, e)
        BY DEF Postings
      <4>1. <<r, e>> \in Details(Sees(t), tx[t].asOf) <=> e \in Replayed(r, Sees(t), tx[t].asOf)
        BY InDetails
      <4> QED BY <4>1 DEF Replayed, Owed
    <3>2. Rewards' = Rewards /\ \A r \in Rewards, e \in Event : Owed(t, r, e)' <=> Owed(t, r, e)
      BY <1>3, <1>5, <2>1 DEF Owed, Sees, InForce, Rewards
    <3> QED BY <1>3, <1>5, <3>1, <3>2
  <2>3. tx'[t].pc # "storeRow"
    BY <1>3, <1>5
  <2>4. t \in Replica => DOMAIN tx[t].factors = {} /\ DOMAIN tx[t].rows = {}
    BY <1>2 DEF Turns, AtFactors, AtRows
  <2>5. t \in Replica \/ t \in Event
    BY DEF Task
  <2>6. CASE t \in Replica
    BY <1>3, <1>5, <2>2, <2>3, <2>4, <2>6 DEF Buffered
  <2>7. CASE t \in Event
    BY <1>2, <1>3, <1>5, <2>1, <2>2, <2>3, <2>7 DEF Buffered, Steady, Sees, Due, Rewards
  <2> QED BY <2>5, <2>6, <2>7
<1>10. Covered(t)'
  BY <1>3, <1>5 DEF Covered, AtRows, Rewards, PostCash, dbVars
<1>11. new.asOf <= today
  BY <1>3 DEF IInv, Dates
<1> QED BY <1>3, <1>4, <1>6, <1>8, <1>9, <1>10, <1>11, Local DEF PostCash

LEMMA ComputeFactorsStep ==
  ASSUME IInv, NEW t \in Task, ComputeFactors(t)
  PROVE  IInv'
<1> DEFINE S == IF t \in Event THEN {SymbolOf[t]} ELSE Symbol
           F == [s \in S |-> [of |-> FactorOf(s, Sees(t), tx[t].asOf), asOf |-> tx[t].asOf]]
           new == [tx[t] EXCEPT !.pc = "storeFactors", !.base = Found(t), !.factors = F]
<1>1. tx[t] \in Tx /\ tx[t].pc = "factors" /\ tx[t].asOf \in Nat /\ Turns(t) /\ Buffered(t) /\ Covered(t)
  BY DEF ComputeFactors, Enters, IInv, TypeOK, Tx
<1>2. F \in Factors /\ DOMAIN F = S
  <2>1. \A s \in S : FactorOf(s, Sees(t), tx[t].asOf) \in SUBSET Event
    BY RolloverAssumption DEF FactorOf
  <2>2. S \in SUBSET Symbol
    BY RolloverAssumption
  <2> HIDE DEF S
  <2>3. F \in [S -> Factor]
    BY <1>1, <2>1 DEF Factor
  <2> HIDE DEF F
  <2> QED BY <2>2, <2>3, FactorsMade
<1>3. Found(t) \subseteq events /\ Found(t) \in SUBSET Event
  BY DEF Found, IInv, TypeOK
<1>4. \A s \in S : F[s].asOf = tx[t].asOf /\ F[s].of = FactorOf(s, Sees(t), tx[t].asOf)
  OBVIOUS
<1>5. Goes(t, new)
  BY DEF ComputeFactors
<1> HIDE DEF F, S
<1>6. /\ new \in Tx /\ new.pc = "storeFactors" /\ new.cash = tx[t].cash /\ new.asOf = tx[t].asOf
      /\ new.base = Found(t) /\ new.factors = F /\ new.rows = tx[t].rows
      /\ new.todo = tx[t].todo /\ new.posted = tx[t].posted
  BY <1>1, <1>2, <1>3 DEF Tx, PC
<1> HIDE DEF new
<1>7. tx'[t] = new
  BY <1>5, <1>6, GoesOne DEF IInv, TypeOK
<1>8. /\ lock' \in [Lock -> Task \cup {None}]
      /\ t \in Replica => lock'["factors"] = t
      /\ \A l \in Lock : lock[l] \notin {t, None} => lock'[l] = lock[l]
      /\ lock'["posting"] = lock["posting"]
  <2>1. "factors" \in Lock /\ "posting" \in Lock /\ "posting" # "factors"
    BY DEF Lock, Stage
  <2>2. t \in Replica => lock["factors"] \in {None, t}
    BY DEF ComputeFactors, Enters
  <2>3. IF t \in Replica THEN "factors" \in LocksOf(t) ELSE "factors" \notin LocksOf(t)
    BY <2>1 DEF LocksOf
  <2> QED BY <2>1, <2>2, <2>3 DEF ComputeFactors, Takes, IInv, TypeOK
<1>9. Turns(t)'
  <2>1. t \in Event => /\ tx[t].asOf = today /\ t \notin events /\ tx[t].cash # None /\ S = {SymbolOf[t]}
    BY <1>1 DEF Turns, S
  <2>2. t \in Replica => /\ tx[t].cash = None /\ DOMAIN tx[t].rows = {} /\ S = Symbol
    BY <1>1, RolloverAssumption DEF Turns, AtRows, S
  <2>3. tx[t].cash # None => lock["posting"] = t
    BY <1>1 DEF Turns
  <2>4. t \in Event => lock["posting"] = t
    BY <1>1 DEF Turns
  <2>5. UNCHANGED <<today, events>> /\ Rewards' = Rewards
    BY DEF ComputeFactors, Rewards, dbVars
  <2>6. /\ tx[t].posted # {} => tx[t].cash # None
        /\ tx[t].todo \cup DOMAIN tx[t].rows \cup tx[t].posted \subseteq Rewards
    BY <1>1 DEF Turns
  <2> QED BY <1>2, <1>3, <1>6, <1>7, <1>8, <2>1, <2>2, <2>3, <2>4, <2>5, <2>6 DEF Turns, AtFactors, AtRows
<1>10. Buffered(t)'
  <2>1. UNCHANGED <<events, granted>>
    BY DEF ComputeFactors, dbVars
  <2>2. Steady(t)' \subseteq Sees(t)
    BY <1>3, <1>6, <1>7, <2>1 DEF Steady, Sees
  <2>3. \A s \in DOMAIN tx'[t].factors :
          /\ tx'[t].factors[s].asOf = tx'[t].asOf
          /\ \A e \in Steady(t)' \cap Split : SymbolOf[e] = s /\ Effective[e] <= tx'[t].asOf
               => e \in tx'[t].factors[s].of
    BY <1>2, <1>4, <1>6, <1>7, <2>2 DEF FactorOf
  <2>4. tx[t].cash # None =>
          \A r \in tx'[t].posted, e \in Event : granted'[r] < tx'[t].asOf =>
            (<<r, e>> \in tx'[t].cash <=> Owed(t, r, e)')
    BY <1>1, <1>6, <1>7, <2>1 DEF Buffered, Owed, InForce, Sees
  <2>5. \A r \in DOMAIN tx'[t].rows \cap Rewards', e \in Steady(t)' : Due(t, r, e)' => e \in tx'[t].rows[r]
    <3>1. t \in Replica => DOMAIN tx[t].rows = {}
      BY <1>1 DEF Turns, AtRows
    <3>2. t \in Event => Steady(t)' = Steady(t)
      BY <2>1 DEF Steady, Sees
    <3> QED BY <1>1, <1>6, <1>7, <2>1, <3>1, <3>2 DEF Buffered, Rewards, Due, Task
  <2>6. tx'[t].pc # "storeRow"
    BY <1>6, <1>7
  <2>7. tx'[t].cash = tx[t].cash /\ tx'[t].asOf = tx[t].asOf
    BY <1>6, <1>7
  <2> QED BY <2>3, <2>4, <2>5, <2>6, <2>7 DEF Buffered
<1>11. Covered(t)'
  BY <1>1, <1>6, <1>7 DEF Covered, AtRows, Rewards, ComputeFactors, dbVars, history
<1>12. new.asOf <= today
  BY <1>6 DEF IInv, Dates
<1> QED BY <1>5, <1>6, <1>8, <1>9, <1>10, <1>11, <1>12, Local DEF ComputeFactors

LEMMA StoreFactorsStep ==
  ASSUME IInv, NEW t \in Task, StoreFactors(t)
  PROVE  IInv'
<1> DEFINE new == [tx[t] EXCEPT !.pc = IF t \in Event THEN "effective" ELSE "storedFactors"]
<1>1. tx[t] \in Tx /\ tx[t].pc = "storeFactors" /\ Turns(t) /\ Buffered(t) /\ Covered(t) /\ new.asOf <= today
  BY DEF StoreFactors, IInv, TypeOK, Tx, Dates
<1>2. /\ new \in Tx /\ new.pc = (IF t \in Event THEN "effective" ELSE "storedFactors")
      /\ new.cash = tx[t].cash /\ new.asOf = tx[t].asOf /\ new.base = tx[t].base
      /\ new.factors = tx[t].factors /\ new.rows = tx[t].rows
      /\ new.todo = tx[t].todo /\ new.posted = tx[t].posted
  BY <1>1 DEF Tx, PC
<1>3. Goes(t, new)
  BY DEF StoreFactors
<1> HIDE DEF new
<1>4. tx'[t] = new
  BY <1>2, <1>3, GoesOne DEF IInv, TypeOK
<1>5. UNCHANGED <<events, granted, today, lock, belated>>
  BY DEF StoreFactors, dbVars, history
<1>6. Turns(t)'
  BY <1>1, <1>2, <1>4, <1>5, RolloverAssumption DEF Turns, AtFactors, AtRows, Rewards
<1>7. Buffered(t)'
  BY <1>1, <1>2, <1>4, <1>5 DEF Buffered, Owed, InForce, Rewards, Sees, Steady, Due
<1>8. Covered(t)'
  BY <1>1, <1>2, <1>4, <1>5 DEF Covered, AtRows, Rewards
<1> QED BY <1>1, <1>2, <1>3, <1>5, <1>6, <1>7, <1>8, Local DEF StoreFactors, IInv, TypeOK

LEMMA ResolveStep ==
  ASSUME IInv, NEW t \in Task, Resolve(t)
  PROVE  IInv'
<1> DEFINE new == [tx[t] EXCEPT !.pc = "rows", !.todo = Affected(t), !.base = Found(t)]
<1>1. /\ tx[t] \in Tx /\ tx[t].pc = "effective" /\ tx[t].asOf <= today
      /\ Turns(t) /\ Buffered(t) /\ Covered(t)
  BY DEF Resolve, Enters, IInv, TypeOK, Tx, Dates
<1>2. Affected(t) \subseteq Rewards /\ Rewards \subseteq Reward
  BY DEF Affected, Rewards
<1>3. Found(t) \subseteq events /\ Found(t) \in SUBSET Event
  BY DEF Found, IInv, TypeOK
<1>4. /\ new \in Tx /\ new.pc = "rows" /\ new.cash = tx[t].cash /\ new.asOf = tx[t].asOf
      /\ new.base = Found(t) /\ new.factors = tx[t].factors /\ new.rows = tx[t].rows
      /\ new.todo = Affected(t) /\ new.posted = tx[t].posted
  BY <1>1, <1>2, <1>3 DEF Tx, PC
<1>5. Goes(t, new)
  BY DEF Resolve
<1> HIDE DEF new
<1>6. tx'[t] = new
  BY <1>4, <1>5, GoesOne DEF IInv, TypeOK
<1>7. /\ lock' \in [Lock -> Task \cup {None}]
      /\ t \in Replica => lock'["effective"] = t
      /\ \A l \in Lock : lock[l] \notin {t, None} => lock'[l] = lock[l]
      /\ lock'["posting"] = lock["posting"]
  <2>1. "effective" \in Lock /\ "posting" \in Lock /\ "posting" # "effective"
    BY DEF Lock, Stage
  <2>2. t \in Replica => lock["effective"] \in {None, t}
    BY DEF Resolve, Enters
  <2>3. IF t \in Replica THEN "effective" \in LocksOf(t) ELSE "effective" \notin LocksOf(t)
    BY <2>1 DEF LocksOf
  <2> QED BY <2>1, <2>2, <2>3 DEF Resolve, Takes, IInv, TypeOK
<1>8. UNCHANGED <<today, mark, events, granted, belated>> /\ Rewards' = Rewards
  BY DEF Resolve, dbVars, history, Rewards
<1>9. Turns(t)'
  <2>1. t \in Event => /\ tx[t].asOf = today /\ t \notin events /\ tx[t].cash # None
                       /\ t \in Split => SymbolOf[t] \in DOMAIN tx[t].factors
                       /\ lock["posting"] = t
    BY <1>1 DEF Turns
  <2>2. t \in Replica => tx[t].cash = None /\ DOMAIN tx[t].factors = {}
    BY <1>1 DEF Turns, AtFactors
  <2>0. /\ tx[t].posted # {} => tx[t].cash # None
        /\ Affected(t) \cup DOMAIN tx[t].rows \cup tx[t].posted \subseteq Rewards
    BY <1>1, <1>2 DEF Turns
  <2>3. CASE t \in Event
    <3>1. t \notin Replica
      BY <2>3, RolloverAssumption
    <3> QED BY <1>4, <1>6, <1>7, <1>8, <2>0, <2>1, <2>3, <3>1 DEF Turns
  <2>4. CASE t \in Replica
    <3>1. t \notin Event
      BY <2>4, RolloverAssumption
    <3> QED BY <1>3, <1>4, <1>6, <1>7, <1>8, <2>0, <2>2, <2>4, <3>1 DEF Turns, AtFactors, AtRows
  <2> QED BY <2>3, <2>4 DEF Task
<1>10. Buffered(t)'
  <2>1. CASE t \in Event
    <3>1. Steady(t)' = Steady(t)
      BY <1>8, <2>1 DEF Steady, Sees
    <3> QED BY <1>1, <1>4, <1>6, <1>8, <3>1 DEF Buffered, Owed, InForce, Rewards, Sees, Due
  <2>2. CASE t \in Replica
    <3>1. DOMAIN tx[t].rows = {} /\ DOMAIN tx[t].factors = {} /\ tx[t].cash = None
      BY <1>1, <2>2 DEF Turns, AtRows, AtFactors
    <3> QED BY <1>4, <1>6, <3>1 DEF Buffered
  <2> QED BY <2>1, <2>2 DEF Task
<1>11. Covered(t)'
  <2>1. t \in Event => \A r \in Rewards : SymbolOf[r] = SymbolOf[t] => r \in Affected(t)
    BY DEF Affected
  <2>2. ASSUME t \in Replica, NEW r \in Rewards, NEW e \in Found(t),
               SymbolOf[e] = SymbolOf[r], Effective[e] <= tx[t].asOf, mark["effective"] < Effective[e]
        PROVE  r \in Affected(t)
    BY <2>2, RolloverAssumption DEF Affected, From, Found
  <2> QED BY <1>1, <1>4, <1>6, <1>8, <2>1, <2>2 DEF Covered, Due
<1> QED BY <1>1, <1>4, <1>5, <1>7, <1>9, <1>10, <1>11, Local DEF Resolve

LEMMA ComputeRowStep ==
  ASSUME IInv, NEW t \in Task, ComputeRow(t)
  PROVE  IInv'
<1> DEFINE row == Replayed(NextRow(t), Sees(t), tx[t].asOf)
           new == [tx[t] EXCEPT !.pc = "storeRow", !.row = row]
<1>1. /\ tx[t] \in Tx /\ tx[t].pc = "rows" /\ tx[t].asOf <= today /\ tx[t].base \subseteq Event
      /\ Turns(t) /\ Buffered(t) /\ Covered(t)
      /\ tx[t].todo # {}
  BY DEF ComputeRow, IInv, TypeOK, Tx, Dates
<1>2. row \in SUBSET Event
  BY DEF Replayed, Sees, IInv, TypeOK
<1>3. \A e \in Sees(t) : NextRow(t) \in Rewards /\ Due(t, NextRow(t), e) => e \in row
  BY DEF Replayed, Due, InForce
<1>4. Goes(t, new)
  BY DEF ComputeRow
<1> HIDE DEF row
<1>5. /\ new \in Tx /\ new.pc = "storeRow" /\ new.cash = tx[t].cash /\ new.asOf = tx[t].asOf
      /\ new.base = tx[t].base /\ new.factors = tx[t].factors /\ new.rows = tx[t].rows
      /\ new.todo = tx[t].todo /\ new.row = row /\ new.posted = tx[t].posted
  BY <1>1, <1>2 DEF Tx, PC
<1> HIDE DEF new
<1>6. tx'[t] = new
  BY <1>4, <1>5, GoesOne DEF IInv, TypeOK
<1>7. UNCHANGED <<today, mark, events, granted, rewardState, lock, belated>>
  BY DEF ComputeRow, dbVars, history
<1>8. Turns(t)'
  BY <1>1, <1>5, <1>6, <1>7 DEF Turns, AtFactors, AtRows, Rewards
<1>9. Steady(t)' = Steady(t) /\ Steady(t) \subseteq Sees(t) /\ NextRow(t)' = NextRow(t)
  BY <1>1, <1>5, <1>6, <1>7 DEF Steady, Sees, Turns, NextRow, Task
<1>10. Buffered(t)'
  BY <1>1, <1>3, <1>5, <1>6, <1>7, <1>9 DEF Buffered, Owed, InForce, Rewards, Sees, Due
<1>11. Covered(t)'
  BY <1>1, <1>5, <1>6, <1>7 DEF Covered, AtRows, Due, Rewards
<1> QED BY <1>1, <1>4, <1>5, <1>7, <1>8, <1>10, <1>11, Local DEF ComputeRow, IInv, TypeOK

LEMMA StoreRowStep ==
  ASSUME IInv, NEW t \in Task, StoreRow(t)
  PROVE  IInv'
<1> DEFINE r == NextRow(t)
           rows == [q \in DOMAIN tx[t].rows \cup {r} |-> IF q = r THEN tx[t].row ELSE tx[t].rows[q]]
           new == [tx[t] EXCEPT !.pc = "rows", !.todo = @ \ {r}, !.row = {}, !.rows = rows]
<1>1. /\ tx[t] \in Tx /\ tx[t].pc = "storeRow" /\ tx[t].asOf <= today /\ tx[t].row \in SUBSET Event
      /\ tx[t].rows \in Rows /\ tx[t].todo \in SUBSET Reward
      /\ Turns(t) /\ Buffered(t) /\ Covered(t)
  BY DEF StoreRow, IInv, TypeOK, Tx, Dates
<1>2. r \in Reward
  BY <1>1, NextRowIsOpen DEF Turns
<1>3. Goes(t, new)
  BY DEF StoreRow
<1> HIDE DEF r
<1>4. rows \in Rows
  BY <1>1, <1>2, RowAdded
<1>5. /\ DOMAIN rows = DOMAIN tx[t].rows \cup {r} /\ rows[r] = tx[t].row
      /\ \A q \in DOMAIN tx[t].rows : q # r => rows[q] = tx[t].rows[q]
  OBVIOUS
<1> HIDE DEF rows
<1>6. /\ new \in Tx /\ new.pc = "rows" /\ new.cash = tx[t].cash /\ new.asOf = tx[t].asOf
      /\ new.base = tx[t].base /\ new.factors = tx[t].factors /\ new.rows = rows
      /\ new.todo = tx[t].todo \ {r} /\ new.posted = tx[t].posted
  BY <1>1, <1>4 DEF Tx, PC
<1> HIDE DEF new
<1>7. tx'[t] = new
  BY <1>3, <1>6, GoesOne DEF IInv, TypeOK
<1>8. UNCHANGED <<today, mark, events, granted, rewardState, lock, belated>> /\ Rewards' = Rewards
  BY DEF StoreRow, dbVars, history, Rewards
<1>9. Turns(t)'
  <2>1. r \in tx[t].todo
    BY <1>1, NextRowIsOpen DEF Turns, r
  <2> QED BY <1>1, <1>5, <1>6, <1>7, <1>8, <2>1 DEF Turns, AtFactors, AtRows
<1>10. Steady(t)' = Steady(t)
  BY <1>6, <1>7, <1>8 DEF Steady, Sees
<1>11. Buffered(t)'
  <2>1. \A q \in DOMAIN rows \cap Rewards, e \in Steady(t) : Due(t, q, e) => e \in rows[q]
    BY <1>1, <1>5 DEF Buffered, r
  <2> QED BY <1>1, <1>6, <1>7, <1>8, <1>10, <2>1 DEF Buffered, Owed, InForce, Rewards, Sees, Due
<1>12. Covered(t)'
  BY <1>1, <1>5, <1>6, <1>7, <1>8 DEF Covered, AtRows, Due
<1> QED BY <1>1, <1>3, <1>6, <1>8, <1>9, <1>11, <1>12, Local DEF StoreRow, IInv, TypeOK

-----------------------------------------------------------------------------
(* The end of a transaction *)

LEMMA CommitStages ==
  ASSUME IInv, NEW t \in Task, Commit(t)
  PROVE  /\ t \in Event => t \notin Replica /\ tx[t].pc = "rows" /\ tx[t].todo = {}
         /\ t \in Replica =>
              /\ t \notin Event
              /\ \/ tx[t].pc = "postedCash" /\ StageOf(t) = "cash"
                 \/ tx[t].pc = "storedFactors" /\ StageOf(t) = "factors"
                 \/ tx[t].pc = "rows" /\ tx[t].todo = {} /\ StageOf(t) = "effective"
BY RolloverAssumption DEF Commit, IInv, Turns, StageOf

\* The transaction is over, its locks are free, the other ones go on.
LEMMA CommitEnds ==
  ASSUME IInv, NEW t \in Task, Commit(t)
  PROVE  /\ tx' \in [Task -> Tx] /\ \A u \in Task \ {t} : tx'[u] = tx[u]
         /\ tx'[t].asOf <= today /\ Turns(t)' /\ Buffered(t)' /\ Covered(t)'
         /\ \A l \in Lock : lock'[l] = IF lock[l] = t THEN None ELSE lock[l]
<1>1. PICK new \in Tx, pc \in {"idle", "factors", "effective"}, d \in Nat :
        Goes(t, new) /\ Ready(new, pc, d) /\ new.asOf <= today /\ (t \in Event => pc = "idle")
  <2>1. CASE t \in Event
    <3>1. Goes(t, Idle) /\ 0 \in Nat /\ 0 <= today
      BY <2>1, RolloverAssumption DEF Commit, IInv, TypeOK
    <3> QED BY <3>1, StartingIsTx DEF PC, IInv, TypeOK
  <2>2. CASE t \in Replica
    <3>1. Goes(t, After(t)) /\ t \notin Event
      BY <2>2, RolloverAssumption DEF Commit
    <3> QED BY <3>1, AfterIsFresh DEF IInv, TypeOK
  <2> QED BY <2>1, <2>2 DEF Task
<1>2. /\ tx' \in [Task -> Tx] /\ tx'[t] = new
      /\ \A u \in Task \ {t} : tx'[u] = tx[u]
  BY <1>1, GoesOne DEF IInv, TypeOK
<1>3. Turns(t)' /\ Buffered(t)' /\ Covered(t)'
  BY <1>1, <1>2, FreshTransaction
<1>4. \A l \in Lock : lock'[l] = IF lock[l] = t THEN None ELSE lock[l]
  BY DEF Commit, Released
<1> QED BY <1>1, <1>2, <1>3, <1>4

LEMMA CommitTypes ==
  ASSUME IInv, NEW t \in Task, Commit(t)
  PROVE  TypeOK' /\ Dates'
<1>1. tx' \in [Task -> Tx] /\ (\A u \in Task \ {t} : tx'[u] = tx[u]) /\ tx'[t].asOf <= today
  BY CommitEnds
<1>2. tx[t].factors \in Factors /\ tx[t].rows \in Rows /\ tx[t].asOf \in Nat /\ tx[t].asOf <= today
  BY DEF IInv, TypeOK, Tx, Dates
<1>3. factor' \in [Symbol -> Factor]
  BY <1>2, FactorsStored DEF Commit, IInv, TypeOK
<1>4. rewardState' \in [Reward -> SUBSET Event]
  BY <1>2, RowsStored DEF Commit, IInv, TypeOK
<1>5. lock' \in [Lock -> Task \cup {None}]
  BY DEF Commit, Released, IInv, TypeOK
<1>6. events' \subseteq Event /\ events \subseteq Event
  BY DEF Commit, Sees, IInv, TypeOK
<1>7. /\ mark' \in [Stage -> Nat] /\ overlapped' \in [Stage -> SUBSET Event]
      /\ \A s \in Stage : mark'[s] <= today
  <2>1. CASE UNCHANGED <<mark, overlapped>>
    BY <2>1 DEF IInv, TypeOK, Dates
  <2>2. CASE /\ mark' = [mark EXCEPT ![StageOf(t)] = tx[t].asOf]
             /\ overlapped' = [overlapped EXCEPT ![StageOf(t)] = (@ \ Met(t)) \cup (events \ tx[t].base)]
    BY <1>2, <1>6, <2>2 DEF IInv, TypeOK, Dates
  <2> QED BY <2>1, <2>2 DEF Commit
<1>8. \A s \in Symbol : factor'[s].asOf <= today
  <2> SUFFICES ASSUME NEW s \in Symbol PROVE factor'[s].asOf <= today
    OBVIOUS
  <2>1. CASE s \in DOMAIN tx[t].factors
    BY <1>2, <2>1 DEF Commit, IInv, Buffered
  <2>2. CASE s \notin DOMAIN tx[t].factors
    BY <2>2 DEF Commit, IInv, Dates
  <2> QED BY <2>1, <2>2
<1>9. belated' \in [cash : SUBSET Reward, effective : SUBSET Reward]
  BY DEF Commit, IInv, TypeOK
<1> QED BY <1>1, <1>3, <1>4, <1>5, <1>6, <1>7, <1>8, <1>9 DEF Commit, IInv, TypeOK, Dates

\* A reward is no longer belated once its cash is posted, or its row written
\* while no event under way has missed it.
LEMMA CommitBelated ==
  ASSUME IInv, NEW t \in Task, Commit(t)
  PROVE  /\ \A r : r \in belated'.cash <=> r \in belated.cash /\ r \notin tx[t].posted
         /\ \A r : r \in belated'.effective <=>
                    r \in belated.effective /\ ~(r \in DOMAIN tx[t].rows /\ ~Overlooked(r))
BY DEF Commit

\* Only the holder of the posting lock adds an event, so nobody else's cash
\* changes; a stage's mark moves under its own lock.
LEMMA CommitOthers ==
  ASSUME IInv, NEW t \in Task, Commit(t), NEW u \in Task, u # t
  PROVE  Turns(u)' /\ Buffered(u)' /\ Covered(u)'
<1>1. tx'[u] = tx[u] /\ Turns(u) /\ Buffered(u) /\ Covered(u)
  BY CommitEnds DEF IInv
<1>2. \A l \in Lock : lock[l] = u => lock'[l] = u
  BY CommitEnds
<1>3. UNCHANGED <<today, granted>> /\ events \subseteq events' /\ events' = Sees(t) /\ Rewards' = Rewards
  BY DEF Commit, Sees, Rewards
<1>b. tx[u].cash # None => tx[t].posted = {} /\ belated'.cash = belated.cash
  <2>1. tx[u].cash # None => lock["posting"] = u
    BY <1>1 DEF Turns
  <2>2. tx[t].posted # {} => lock["posting"] = t
    BY DEF IInv, Turns
  <2> QED BY <2>1, <2>2 DEF Commit
<1>r. \A r \in Reward : rewardState'[r] = IF r \in DOMAIN tx[t].rows THEN tx[t].rows[r] ELSE rewardState[r]
  BY DEF Commit
<1>4. CASE t \in Event
  <2>1. lock["posting"] = t /\ UNCHANGED mark
    BY <1>4, CommitStages DEF Commit, IInv, Turns
  <2>2. tx[u].cash = None /\ (u \in Event => tx[u].pc = "idle")
    BY <1>1, <2>1 DEF Turns
  <2>3. Turns(u)'
    BY <1>1, <1>2, <1>3, <2>1, <2>2 DEF Turns, AtFactors, AtRows, Lock, Stage
  <2>4. Buffered(u)'
    <3>1. CASE u \in Event
      <4>1. DOMAIN tx[u].factors = {} /\ DOMAIN tx[u].rows = {} /\ tx[u].pc = "idle"
        BY <1>1, <2>2, <3>1 DEF Turns
      <4> QED BY <1>1, <2>2, <4>1 DEF Buffered
    <3>2. CASE u \notin Event
      <4>1. Steady(u)' = Steady(u)
        BY <1>1, <3>2 DEF Steady
      <4> QED BY <1>1, <1>3, <2>2, <4>1 DEF Buffered, Rewards, Due, NextRow
    <3> QED BY <3>1, <3>2
  <2>5. Covered(u)'
    <3>1. AtRows(u) => u \notin Event
      BY <2>2 DEF AtRows
    <3>2. ASSUME u \in Replica, AtRows(u), NEW r \in Rewards, NEW e \in tx[u].base, Due(u, r, e),
                 mark["effective"] < Effective[e],
                 r \notin tx[u].todo \cup DOMAIN tx[u].rows \cup belated'.effective
          PROVE  e \in rewardState'[r]
      <4>1. r \in Reward /\ e \in events /\ e \in Event
        BY <1>1, <3>2 DEF Rewards, Turns, IInv, TypeOK
      <4>2. CASE r \in DOMAIN tx[t].rows
        <5>1. tx[t].asOf = today /\ tx[u].asOf <= today /\ tx[u].asOf \in Nat /\ today \in Nat
          BY <1>4, CommitStages DEF IInv, Turns, TypeOK, Tx, Dates
        <5>2. Due(t, r, e)
          BY <3>2, <4>1, <5>1, RolloverAssumption DEF Due
        <5>3. e \in Steady(t) /\ Buffered(t)
          BY <1>4, <4>1 DEF Steady, Sees, IInv
        <5> QED BY <1>r, <3>2, <4>1, <4>2, <5>2, <5>3 DEF Buffered
      <4>3. CASE r \notin DOMAIN tx[t].rows
        <5>1. r \notin belated.effective
          BY <3>2, <4>3, CommitBelated
        <5>2. e \in rewardState[r]
          BY <1>1, <3>2, <5>1 DEF Covered
        <5> QED BY <1>r, <4>1, <4>3, <5>2
      <4> QED BY <4>2, <4>3
    <3>3. \A r, e : Due(u, r, e)' <=> Due(u, r, e)
      BY <1>1, <1>3 DEF Due
    <3> QED BY <1>1, <1>3, <2>1, <2>2, <3>1, <3>2, <3>3 DEF Covered, AtRows
  <2> QED BY <2>3, <2>4, <2>5
<1>5. CASE t \in Replica
  <2>1. UNCHANGED events
    BY <1>3, <1>5, RolloverAssumption DEF Sees
  <2>2. Turns(u)'
    BY <1>1, <1>2, <1>3, <2>1 DEF Turns, AtFactors, AtRows, Lock, Stage
  <2>3. Buffered(u)'
    BY <1>1, <1>3, <2>1 DEF Buffered, Rewards, Owed, InForce, Steady, Sees, Due, NextRow
  <2>4. Covered(u)'
    <3>1. u \in Replica /\ AtRows(u) => mark'["effective"] = mark["effective"]
      <4> SUFFICES ASSUME u \in Replica, AtRows(u) PROVE mark'["effective"] = mark["effective"]
        OBVIOUS
      <4>1. lock["effective"] = u
        BY <1>1 DEF Turns
      <4>2. ~AtRows(t)
        BY <1>5, <4>1 DEF IInv, Turns
      <4>3. StageOf(t) \in {"cash", "factors"}
        BY <1>5, <4>2, CommitStages DEF AtRows
      <4> QED BY <1>5, <4>3, RolloverAssumption DEF Commit, IInv, TypeOK, Stage
    <3>2. ASSUME u \in Event, AtRows(u), NEW r \in Rewards, SymbolOf[r] = SymbolOf[u],
                 granted[r] < tx[u].asOf
          PROVE  r \in tx[u].todo \cup DOMAIN tx[u].rows \cup belated'.effective
      <4>1. r \in tx[u].todo \cup DOMAIN tx[u].rows \cup belated.effective
        BY <1>1, <3>2 DEF Covered
      <4>2. r \notin tx[u].todo \cup DOMAIN tx[u].rows => Overlooked(r)
        BY <3>2 DEF Overlooked, AtRows
      <4> QED BY <4>1, <4>2, CommitBelated
    <3>3. u \in Replica /\ AtRows(u) => belated'.effective = belated.effective /\ UNCHANGED rewardState
      <4> SUFFICES ASSUME u \in Replica, AtRows(u)
                   PROVE  belated'.effective = belated.effective /\ UNCHANGED rewardState
        OBVIOUS
      <4>1. lock["effective"] = u
        BY <1>1 DEF Turns
      <4>2. DOMAIN tx[t].rows = {}
        BY <1>5, <4>1 DEF IInv, Turns
      <4>3. UNCHANGED rewardState
        BY <1>r, <4>2 DEF Commit, IInv, TypeOK
      <4> QED BY <4>2, <4>3 DEF Commit
    <3>4. \A r, e : Due(u, r, e)' <=> Due(u, r, e)
      BY <1>1, <1>3 DEF Due
    <3>5. tx[u].cash # None =>
            \A r \in Rewards : granted[r] < tx[u].asOf => r \in tx[u].posted \cup belated'.cash
      BY <1>1, <1>b DEF Covered
    <3>6. u \in Replica /\ AtRows(u) =>
            \A r \in Rewards, e \in tx[u].base :
              Due(u, r, e) /\ mark'["effective"] < Effective[e]
                => \/ r \in tx[u].todo \cup DOMAIN tx[u].rows \cup belated'.effective
                   \/ e \in rewardState'[r]
      BY <1>1, <3>1, <3>3 DEF Covered
    <3> QED BY <1>1, <1>3, <3>2, <3>4, <3>5, <3>6 DEF Covered, AtRows
  <2> QED BY <2>2, <2>3, <2>4
<1> QED BY <1>4, <1>5 DEF Task

\* The stage posts what its date owes; the trigger of an event posts it too, with
\* the event, and nobody else's event can come in between.
LEMMA CommitCash ==
  ASSUME IInv, NEW t \in Task, Commit(t)
  PROVE  CashPosted'
<1> SUFFICES ASSUME mark'["cash"] = today, NEW r \in Rewards \ belated'.cash, NEW e \in Event,
                    granted[r] < today
             PROVE  <<r, e>> \in cash' <=> e \in Replayed(r, events', today)
  <2>1. UNCHANGED <<today, granted>>
    BY DEF Commit
  <2>2. \A r \in Rewards, e \in Event : <<r, e>> \in Details(events', today) <=> e \in Replayed(r, events', today)
    BY InDetails
  <2>3. Rewards' = Rewards /\ Details(events, today)' = Details(events', today)
    BY <2>1 DEF Details, Rewards, Replayed, InForce
  <2> QED BY <2>1, <2>2, <2>3 DEF CashPosted, Posted
<1>1. Turns(t) /\ Buffered(t) /\ Covered(t) /\ tx[t].asOf <= today
  BY DEF IInv, Dates
<1>2. CASE tx[t].cash # None
  <2>1. tx[t].asOf = today
    <3>1. CASE t \in Event
      BY <1>1, <3>1, CommitStages DEF Turns
    <3>2. CASE t \in Replica
      <4>1. StageOf(t) = "cash"
        BY <1>1, <1>2, <3>2, CommitStages DEF Turns
      <4> QED BY <3>2, <4>1, RolloverAssumption DEF Commit, IInv, TypeOK, Stage
    <3> QED BY <3>1, <3>2 DEF Task
  <2>2. cash' = tx[t].cash /\ events' = Sees(t)
    BY <1>2 DEF Commit
  <2>0. r \in tx[t].posted
    BY <1>1, <1>2, <2>1, CommitBelated DEF Covered
  <2>3. <<r, e>> \in cash' <=> Owed(t, r, e)
    BY <1>1, <1>2, <2>0, <2>1, <2>2 DEF Buffered
  <2> QED BY <2>1, <2>2, <2>3 DEF Owed, Replayed
<1>3. CASE tx[t].cash = None
  <2>1. t \notin Event
    BY <1>1, <1>3, CommitStages DEF Turns
  <2>2. t \in Replica /\ StageOf(t) # "cash" /\ UNCHANGED <<cash, events>>
    BY <1>1, <1>3, <2>1, CommitStages DEF Turns, Commit, Sees, Task
  <2>3. mark["cash"] = today
    BY <2>1, <2>2 DEF Commit, IInv, TypeOK, Stage
  <2>0. r \notin belated.cash
    BY <1>1, <1>3, CommitBelated DEF Turns
  <2>4. <<r, e>> \in cash <=> <<r, e>> \in Details(events, today)
    BY <2>0, <2>3 DEF IInv, CashPosted, Posted
  <2> QED BY <2>2, <2>4, InDetails
<1> QED BY <1>2, <1>3

\* A row the transaction wrote has every event but those that overlapped it; a
\* row it did not write had no event to come.
LEMMA CommitRows ==
  ASSUME IInv, NEW t \in Task, Commit(t),
         NEW r \in Rewards \ belated'.effective, NEW e \in events' \ overlapped'["effective"],
         SymbolOf[e] = SymbolOf[r], granted[r] < Effective[e], Effective[e] <= mark'["effective"]
  PROVE  e \in rewardState'[r]
<1>1. /\ Turns(t) /\ Buffered(t) /\ Covered(t) /\ r \in Reward /\ granted[r] \in Nat
      /\ tx[t].asOf <= today /\ mark["effective"] <= today /\ mark["effective"] \in Nat
      /\ tx[t].asOf \in Nat /\ today \in Nat
  BY DEF IInv, TypeOK, Dates, Rewards, Stage, Tx
<1>2. e \in Event /\ Effective[e] \in Nat
  BY RolloverAssumption DEF Commit, Sees, IInv, TypeOK
<1>3. rewardState'[r] = IF r \in DOMAIN tx[t].rows THEN tx[t].rows[r] ELSE rewardState[r]
  BY <1>1 DEF Commit
<1>b. r \in belated.effective => r \in DOMAIN tx[t].rows
  BY CommitBelated
<1>4. ASSUME e \in events \ overlapped["effective"], Effective[e] <= mark["effective"],
             r \notin DOMAIN tx[t].rows
      PROVE  e \in rewardState[r]
  BY <1>4, <1>b DEF IInv, RolledUp, Stand
<1>5. CASE t \in Event
  <2>1. /\ UNCHANGED <<mark, overlapped>> /\ tx[t].asOf = today /\ AtRows(t) /\ tx[t].todo = {}
        /\ events' = Steady(t)
    BY <1>1, <1>5, CommitStages DEF Commit, Turns, AtRows, Steady
  <2>2. Due(t, r, e)
    BY <1>1, <1>2, <2>1 DEF Due
  <2>3. CASE r \in DOMAIN tx[t].rows
    BY <1>1, <1>3, <2>1, <2>2, <2>3 DEF Buffered
  <2>4. CASE r \notin DOMAIN tx[t].rows
    <3>1. granted[r] < tx[t].asOf
      BY <1>1, <1>2, <2>2 DEF Due
    <3>2. SymbolOf[r] # SymbolOf[t]
      BY <1>1, <1>5, <1>b, <2>1, <2>4, <3>1 DEF Covered
    <3>3. e \in events
      BY <3>2 DEF Commit, Sees
    <3> QED BY <1>3, <1>4, <2>1, <2>4, <3>3
  <2> QED BY <2>3, <2>4
<1>6. CASE t \in Replica /\ StageOf(t) = "effective"
  <2>1. /\ mark'["effective"] = tx[t].asOf /\ AtRows(t) /\ tx[t].todo = {} /\ events' = events
        /\ overlapped'["effective"] = (overlapped["effective"] \ Met(t)) \cup (events \ tx[t].base)
    BY <1>6, CommitStages, RolloverAssumption DEF Commit, Sees, AtRows, IInv, TypeOK, Stage
  <2>2. e \in Steady(t) /\ e \in tx[t].base /\ Due(t, r, e)
    BY <1>6, <2>1, CommitStages DEF Steady, Due
  <2>3. CASE r \in DOMAIN tx[t].rows
    BY <1>1, <1>3, <2>2, <2>3 DEF Buffered
  <2>4. CASE r \notin DOMAIN tx[t].rows
    <3>1. CASE mark["effective"] < Effective[e]
      BY <1>1, <1>3, <1>6, <1>b, <2>1, <2>2, <2>4, <3>1 DEF Covered
    <3>2. CASE ~(mark["effective"] < Effective[e])
      <4>1. e \notin Met(t)
        BY <1>6, <3>2 DEF Met
      <4> QED BY <1>1, <1>2, <1>3, <1>4, <2>1, <2>4, <3>2, <4>1
    <3> QED BY <3>1, <3>2
  <2> QED BY <2>3, <2>4
<1>7. CASE t \in Replica /\ StageOf(t) # "effective"
  <2>1. /\ mark'["effective"] = mark["effective"] /\ events' = events /\ ~AtRows(t)
        /\ overlapped'["effective"] = overlapped["effective"]
    BY <1>7, CommitStages, RolloverAssumption DEF Commit, Sees, AtRows, IInv, TypeOK, Stage
  <2>2. r \notin DOMAIN tx[t].rows
    BY <1>1, <1>7, <2>1 DEF Turns
  <2> QED BY <1>3, <1>4, <2>1, <2>2
<1> QED BY <1>5, <1>6, <1>7 DEF Task

\* A served factor has every split but those that overlapped the stage: either
\* the stage's statement or the trigger of the split put it there.
LEMMA CommitFactors ==
  ASSUME IInv, NEW t \in Task, Commit(t),
         NEW e \in (events' \ overlapped'["factors"]) \cap Split, Effective[e] <= today
  PROVE  e \in ServedFactor(SymbolOf[e])'
<1> DEFINE s == SymbolOf[e]
<1>1. e \in Event /\ s \in Symbol /\ today' = today
  BY RolloverAssumption DEF Commit
<1>2. factor'[s] = IF s \in DOMAIN tx[t].factors THEN tx[t].factors[s] ELSE factor[s]
  BY <1>1 DEF Commit
<1>3. SUFFICES ASSUME factor'[s].asOf = today PROVE e \in factor'[s].of
  BY <1>1 DEF ServedFactor, FactorOf
<1>4. Turns(t) /\ Buffered(t)
  BY DEF IInv
<1>5. ASSUME e \in events \ overlapped["factors"], factor[s].asOf = today
      PROVE  e \in factor[s].of
  BY <1>5 DEF IInv, RolledUp, Stand, ServedFactor
<1>6. CASE t \in Event
  <2>1. UNCHANGED overlapped /\ events' = Steady(t) /\ tx[t].pc = "rows"
    BY <1>6, CommitStages DEF Commit, Steady
  <2>2. CASE s \in DOMAIN tx[t].factors
    BY <1>2, <1>3, <1>4, <2>1, <2>2 DEF Buffered
  <2>3. CASE s \notin DOMAIN tx[t].factors
    <3>1. e \in events
      BY <1>4, <1>6, <2>1, <2>3 DEF Turns, Commit, Sees
    <3> QED BY <1>2, <1>3, <1>5, <2>1, <2>3, <3>1
  <2> QED BY <2>2, <2>3
<1>7. CASE t \in Replica /\ StageOf(t) = "factors"
  <2>1. /\ events' = events /\ tx[t].pc = "storedFactors" /\ t \notin Event
        /\ overlapped'["factors"] = (overlapped["factors"] \ Met(t)) \cup (events \ tx[t].base)
    BY <1>7, CommitStages, RolloverAssumption DEF Commit, Sees, IInv, TypeOK, Stage
  <2>2. e \in Steady(t) /\ s \in DOMAIN tx[t].factors
    BY <1>1, <1>4, <1>7, <2>1 DEF Steady, Turns, AtFactors
  <2> QED BY <1>2, <1>3, <1>4, <2>2 DEF Buffered
<1>8. CASE t \in Replica /\ StageOf(t) # "factors"
  <2>1. /\ events' = events /\ ~AtFactors(t)
        /\ overlapped'["factors"] = overlapped["factors"]
    BY <1>8, CommitStages, RolloverAssumption DEF Commit, Sees, AtFactors, IInv, TypeOK, Stage
  <2>2. DOMAIN tx[t].factors = {}
    BY <1>4, <1>8, <2>1 DEF Turns
  <2> QED BY <1>2, <1>3, <1>5, <2>1, <2>2
<1> QED BY <1>6, <1>7, <1>8 DEF Task

LEMMA CommitStep ==
  ASSUME IInv, NEW t \in Task, Commit(t)
  PROVE  IInv'
<1>1. TypeOK' /\ Dates'
  BY CommitTypes
<1>2. \A u \in Task : Turns(u)' /\ Buffered(u)' /\ Covered(u)'
  BY CommitEnds, CommitOthers
<1>3. CashPosted'
  BY CommitCash
<1>4. RolledUp'
  <2>1. today' = today /\ granted' = granted
    BY DEF Commit
  <2>2. \A e \in (events' \ overlapped'["factors"]) \cap Split :
          Effective[e] <= today' => e \in ServedFactor(SymbolOf[e])'
    BY <2>1, CommitFactors
  <2>3. \A r \in Rewards' \ belated'.effective, e \in events' \ overlapped'["effective"] :
          /\ SymbolOf[e] = SymbolOf[r] /\ granted'[r] < Effective[e]
          /\ Effective[e] <= mark'["effective"]
          => e \in rewardState'[r]
    BY <2>1, CommitRows DEF Rewards
  <2> QED BY <2>2, <2>3 DEF RolledUp, Stand
<1> QED BY <1>1, <1>2, <1>3, <1>4 DEF IInv

-----------------------------------------------------------------------------
(* Rewards and days *)

\* Nobody sees anything of a grant before it commits.
LEMMA UnseenStep ==
  ASSUME IInv, NEW r \in Reward, BeginGrant(r) \/ InsertReward(r) \/ AbortGrant(r)
  PROVE  IInv'
<1>1. UNCHANGED <<today, dbVars, lock, tx, history>>
  BY DEF BeginGrant, InsertReward, AbortGrant
<1>2. /\ granting' \in [Reward -> Granting \cup {None}]
      /\ \A q \in Reward : granting'[q] # None => granting'[q].asOf <= today /\ granted[q] = None
  <2>0. /\ today \in Nat /\ today <= today /\ granting \in [Reward -> Granting \cup {None}]
        /\ \A q \in Reward : granting[q] # None => granting[q].asOf <= today /\ granted[q] = None
    BY DEF IInv, TypeOK, Dates
  <2>1. CASE BeginGrant(r)
    <3>1. [asOf |-> today, row |-> None] \in Granting
      BY <2>0 DEF Granting
    <3> QED BY <2>0, <2>1, <3>1 DEF BeginGrant
  <2>2. CASE InsertReward(r)
    <3> DEFINE date == granting[r].asOf
               row  == {e \in events : SymbolOf[e] = SymbolOf[r] /\ InForce(date, e, date)}
               new  == [granting[r] EXCEPT !.row = row]
    <3>1. granting' = [granting EXCEPT ![r] = new]
      BY <2>2 DEF InsertReward
    <3>2. granting[r] \in Granting /\ date <= today /\ granted[r] = None
      BY <2>0, <2>2 DEF InsertReward
    <3>3. row \in SUBSET Event
      BY DEF IInv, TypeOK
    <3> HIDE DEF row
    <3>4. new \in Granting /\ new.asOf = date
      BY <3>2, <3>3 DEF Granting
    <3> HIDE DEF new
    <3> QED BY <2>0, <3>1, <3>2, <3>4
  <2>3. CASE AbortGrant(r)
    BY <2>0, <2>3 DEF AbortGrant
  <2> QED BY <2>1, <2>2, <2>3
<1>3. TypeOK' /\ Dates'
  BY <1>1, <1>2 DEF IInv, TypeOK, Dates, dbVars, history
<1>4. \A t \in Task : Turns(t)' /\ Buffered(t)' /\ Covered(t)'
  BY <1>1 DEF IInv, Turns, AtFactors, AtRows, Buffered, Covered, Rewards, Owed, InForce, Steady, Sees,
     Due, NextRow, dbVars, history
<1>5. CashPosted' /\ RolledUp'
  BY <1>1 DEF IInv, CashPosted, Posted, RolledUp, Stand, Rewards, Details, Replayed, InForce,
     ServedFactor, FactorOf, dbVars, history
<1> QED BY <1>3, <1>4, <1>5 DEF IInv

\* A reward of today owes nothing yet to the events up to today; one of an
\* earlier date is belated.
LEMMA CommitGrantStep ==
  ASSUME IInv, NEW r \in Reward, CommitGrant(r)
  PROVE  IInv'
<1>0. /\ granting[r] \in Granting /\ granting[r].row \in SUBSET Event /\ granting[r].asOf \in Nat
      /\ granting[r].asOf <= today /\ today \in Nat /\ r \notin Rewards
  BY DEF CommitGrant, IInv, TypeOK, Dates, Granting, Rewards
<1>1. /\ UNCHANGED <<today, mark, events, cash, factor, lock, tx, overlapped>>
      /\ granted'[r] = granting[r].asOf
      /\ \A q \in Reward \ {r} : granted'[q] = granted[q] /\ rewardState'[q] = rewardState[q]
  BY DEF CommitGrant, IInv, TypeOK
<1>2. Rewards' = Rewards \cup {r}
  BY <1>0, <1>1, RolloverAssumption DEF Rewards
<1>3. \A q \in Rewards : q # r /\ granted'[q] = granted[q] /\ rewardState'[q] = rewardState[q]
  BY <1>0, <1>1 DEF Rewards
<1>4. \A t \in Task : tx[t].asOf <= today /\ tx[t].asOf \in Nat
  BY DEF IInv, TypeOK, Dates, Tx
<1>5. \A e \in Event : Effective[e] \in Nat
  BY RolloverAssumption
<1>b. /\ belated' \in [cash : SUBSET Reward, effective : SUBSET Reward]
      /\ \A q : q \in belated.cash => q \in belated'.cash
      /\ \A q : q \in belated.effective => q \in belated'.effective
      /\ \A q : q # r => (q \in belated'.cash => q \in belated.cash)
                         /\ (q \in belated'.effective => q \in belated.effective)
      /\ granted'[r] < today => r \in belated'.cash /\ r \in belated'.effective
  BY <1>1 DEF CommitGrant, Late, IInv, TypeOK
<1>6. TypeOK'
  <2>1. granted' \in [Reward -> Nat \cup {None}] /\ rewardState' \in [Reward -> SUBSET Event]
        /\ granting' \in [Reward -> Granting \cup {None}]
    BY <1>0 DEF CommitGrant, IInv, TypeOK
  <2> QED BY <1>1, <1>b, <2>1 DEF IInv, TypeOK
<1>7. Dates'
  <2>1. \A q \in Reward : granting'[q] # None => granting'[q] = granting[q] /\ q # r
    BY DEF CommitGrant, IInv, TypeOK
  <2> QED BY <1>1, <2>1 DEF IInv, Dates
<1>8. ASSUME NEW t \in Task PROVE Turns(t)' /\ Buffered(t)' /\ Covered(t)'
  <2>1. Turns(t) /\ Buffered(t) /\ Covered(t) /\ tx[t].todo \in SUBSET Reward
    BY DEF IInv, TypeOK, Tx
  <2>2. Turns(t)'
    BY <1>1, <1>2, <2>1 DEF Turns, AtFactors, AtRows
  <2>3. Steady(t)' = Steady(t) /\ NextRow(t)' = NextRow(t) /\ Steady(t) \subseteq Event
    BY <1>1, <2>1 DEF Steady, Sees, NextRow, IInv, TypeOK, Turns, Task
  <2>4. granted'[r] < tx[t].asOf => r \in belated'.cash /\ r \in belated'.effective
    BY <1>0, <1>1, <1>4, <1>b
  <2>5. \A q \in Rewards, e \in Event : (Due(t, q, e)' <=> Due(t, q, e)) /\ (Owed(t, q, e)' <=> Owed(t, q, e))
    BY <1>1, <1>3 DEF Due, Owed, InForce, Sees
  <2>6. Buffered(t)'
    <3>1. tx[t].pc = "storeRow" => NextRow(t) \in Rewards
      BY <2>1, NextRowIsOpen DEF Turns
    <3>2. DOMAIN tx[t].rows \subseteq Rewards /\ tx[t].posted \subseteq Rewards
      BY <2>1 DEF Turns
    <3> QED BY <1>1, <1>3, <2>1, <2>3, <2>5, <3>1, <3>2 DEF Buffered
  <2>7. Covered(t)'
    <3>1. t \in Replica => tx[t].base \subseteq Event
      BY <2>1 DEF Turns, IInv, TypeOK
    <3>2. tx[t].cash # None =>
            \A q \in Rewards' : granted'[q] < tx[t].asOf => q \in tx[t].posted \cup belated'.cash
      BY <1>2, <1>3, <1>b, <2>1, <2>4 DEF Covered
    <3>3. AtRows(t) /\ t \in Event =>
            \A q \in Rewards' : SymbolOf[q] = SymbolOf[t] /\ granted'[q] < tx[t].asOf
              => q \in tx[t].todo \cup DOMAIN tx[t].rows \cup belated'.effective
      BY <1>2, <1>3, <1>b, <2>1, <2>4 DEF Covered
    <3>4. AtRows(t) /\ t \in Replica =>
            \A q \in Rewards', e \in tx[t].base :
              Due(t, q, e)' /\ mark["effective"] < Effective[e]
                => \/ q \in tx[t].todo \cup DOMAIN tx[t].rows \cup belated'.effective
                   \/ e \in rewardState'[q]
      <4> SUFFICES ASSUME AtRows(t), t \in Replica, NEW q \in Rewards', NEW e \in tx[t].base,
                          Due(t, q, e)', mark["effective"] < Effective[e]
                   PROVE  \/ q \in tx[t].todo \cup DOMAIN tx[t].rows \cup belated'.effective
                          \/ e \in rewardState'[q]
        OBVIOUS
      <4>1. CASE q = r
        <5>1. granted'[r] < tx[t].asOf
          BY <1>0, <1>1, <1>4, <1>5, <3>1, <4>1 DEF Due
        <5> QED BY <2>4, <4>1, <5>1
      <4>2. CASE q # r
        BY <1>2, <1>3, <1>b, <2>1, <2>5, <3>1, <4>2 DEF Covered
      <4> QED BY <4>1, <4>2
    <3> QED BY <1>1, <3>2, <3>3, <3>4 DEF Covered, AtRows
  <2> QED BY <2>2, <2>6, <2>7
<1>9. CashPosted'
  <2> SUFFICES ASSUME mark["cash"] = today, NEW q \in Rewards' \ belated'.cash, NEW e \in Event,
                      granted'[q] < today
               PROVE  <<q, e>> \in cash <=> <<q, e>> \in Details(events, today)'
    BY <1>1 DEF CashPosted, Posted
  <2>1. q \in Rewards /\ granted[q] = granted'[q] /\ q \notin belated.cash
    BY <1>1, <1>2, <1>3, <1>b
  <2>2. <<q, e>> \in cash <=> <<q, e>> \in Details(events, today)
    BY <2>1 DEF IInv, CashPosted, Posted
  <2>3. <<q, e>> \in Details(events, today) <=> e \in Replayed(q, events, today)
    BY <2>1, InDetails
  <2>4. <<q, e>> \in Details(events, today)' <=> e \in Replayed(q, events, today)'
    BY DEF Details
  <2>5. Replayed(q, events, today)' = Replayed(q, events, today)
    BY <1>1, <2>1 DEF Replayed, InForce
  <2> QED BY <2>2, <2>3, <2>4, <2>5
<1>10. RolledUp'
  <2>1. mark["effective"] <= today /\ mark["effective"] \in Nat
    BY DEF IInv, Dates, TypeOK, Stage
  <2>2. r \notin belated'.effective =>
          \A e \in Event : ~(granted'[r] < Effective[e] /\ Effective[e] <= mark["effective"])
    BY <1>0, <1>1, <1>5, <1>b, <2>1
  <2>3. events \subseteq Event
    BY DEF IInv, TypeOK
  <2>4. \A q \in Rewards' \ belated'.effective, e \in events \ overlapped["effective"] :
          /\ SymbolOf[e] = SymbolOf[q] /\ granted'[q] < Effective[e]
          /\ Effective[e] <= mark["effective"]
          => e \in rewardState'[q]
    BY <1>2, <1>3, <1>b, <2>2, <2>3 DEF IInv, RolledUp, Stand
  <2> QED BY <1>1, <2>4 DEF IInv, RolledUp, Stand, ServedFactor, FactorOf
<1> QED BY <1>6, <1>7, <1>8, <1>9, <1>10 DEF IInv

LEMMA NextDayStep ==
  ASSUME IInv, NextDay
  PROVE  IInv'
<1>1. /\ UNCHANGED <<mark, events, granted, cash, factor, rewardState, lock, tx, overlapped, granting,
                      belated>>
      /\ today' = today + 1 /\ today \in Nat
      /\ \A e \in Event : tx[e].pc = "idle"
  BY DEF NextDay, dbVars, history, IInv, TypeOK
<1>2. TypeOK'
  BY <1>1 DEF IInv, TypeOK
<1>3. /\ \A s \in Stage : mark[s] <= today /\ mark[s] \in Nat
      /\ \A s \in Symbol : factor[s].asOf <= today /\ factor[s].asOf \in Nat
      /\ \A t \in Task : tx[t].asOf <= today /\ tx[t].asOf \in Nat
      /\ \A r \in Reward : granting[r] # None =>
           granting[r].asOf <= today /\ granting[r].asOf \in Nat /\ granted[r] = None
  BY DEF IInv, TypeOK, Dates, Tx, Factor, Granting
<1>4. Dates'
  BY <1>1, <1>3 DEF Dates
<1>5. \A t \in Task : Turns(t)' /\ Buffered(t)' /\ Covered(t)'
  BY <1>1 DEF IInv, Turns, AtFactors, AtRows, Buffered, Covered, Rewards, Owed, InForce, Steady, Sees, Due, NextRow
<1>6. CashPosted'
  BY <1>1, <1>3 DEF CashPosted, Stage
<1>7. RolledUp'
  <2>1. \A s \in Symbol : factor'[s].asOf # today'
    BY <1>1, <1>3
  <2>2. \A e \in Split : SymbolOf[e] \in Symbol
    BY RolloverAssumption
  <2> QED BY <1>1, <2>1, <2>2 DEF IInv, RolledUp, Stand, ServedFactor, FactorOf, Rewards
<1> QED BY <1>2, <1>4, <1>5, <1>6, <1>7 DEF IInv

-----------------------------------------------------------------------------
(* Theorems *)

LEMMA InitHolds == Init => IInv
<1> SUFFICES ASSUME Init PROVE IInv
  OBVIOUS
<1>1. Idle \in Tx /\ Idle.asOf = 0 /\ Ready(Idle, "idle", 0)
  <2>1. today \in Nat /\ "idle" \in PC
    BY DEF Init, PC
  <2> QED BY <2>1, StartingIsTx
<1>2. TypeOK
  BY <1>1 DEF Init, TypeOK, Factor
<1>3. Dates
  BY <1>1 DEF Init, Dates
<1>4. ASSUME NEW t \in Task PROVE Turns(t) /\ Buffered(t) /\ Covered(t)
  BY <1>1 DEF Init, Turns, Buffered, Covered, Ready, AtFactors, AtRows
<1>5. CashPosted /\ RolledUp
  BY DEF Init, CashPosted, Posted, RolledUp, Stand, Rewards
<1> QED BY <1>2, <1>3, <1>4, <1>5 DEF IInv

LEMMA NextHolds == IInv /\ [Next]_vars => IInv'
<1> SUFFICES ASSUME IInv, [Next]_vars PROVE IInv'
  OBVIOUS
<1>1. CASE \E e \in Event : BeginEvent(e)
  BY <1>1, BeginEventStep
<1>2. CASE \E p \in Replica : BeginPass(p) \/ SkipStage(p) \/ StartLater(p)
  BY <1>2, BeginPassStep, SkipStageStep, StartLaterStep
<1>3. CASE \E t \in Task : Work(t) \/ Abort(t)
  BY <1>3, PostCashStep, ComputeFactorsStep, StoreFactorsStep, ResolveStep, ComputeRowStep,
     StoreRowStep, CommitStep, AbortStep DEF Work
<1>4. CASE \E r \in Reward : BeginGrant(r) \/ InsertReward(r) \/ CommitGrant(r) \/ AbortGrant(r)
  BY <1>4, UnseenStep, CommitGrantStep
<1>5. CASE NextDay
  BY <1>5, NextDayStep
<1>6. CASE UNCHANGED vars
  <2>1. TypeOK' /\ Dates'
    BY <1>6 DEF vars, state, dbVars, history, IInv, TypeOK, Dates
  <2>2. \A t \in Task : Turns(t)' /\ Buffered(t)' /\ Covered(t)'
    BY <1>6 DEF vars, state, dbVars, history, IInv, Turns, Buffered, Covered, AtFactors, AtRows, Rewards,
       Owed, InForce, Steady, Sees, Due, NextRow
  <2>3. CashPosted' /\ RolledUp'
    BY <1>6 DEF vars, state, dbVars, history, IInv, CashPosted, Posted, RolledUp, Stand, Rewards,
       Details, Replayed, InForce, ServedFactor, FactorOf
  <2> QED BY <2>1, <2>2, <2>3 DEF IInv
<1> QED BY <1>1, <1>2, <1>3, <1>4, <1>5, <1>6 DEF Next

LEMMA Invariance == Spec => []IInv
BY InitHolds, NextHolds, PTL DEF Spec

\* Marks, dates, buffers and locks stay what their tables and the stages make
\* them, for every set of replicas, events and rewards.
THEOREM TypesHold == Spec => []TypeOK
<1>1. IInv => TypeOK
  BY DEF IInv
<1> QED BY <1>1, Invariance, PTL

\* Once the cash stage has reached today, exactly the cash that the committed
\* events owe today is posted, for every number of events, rewards, replicas
\* and days: no slower stage, second replica or trigger of another event
\* (process_corporate_action_cash) takes it back or posts it by older events.
\* Except the cash of a reward whose grant committed after the date it began on,
\* until the next posting that finds the reward.
THEOREM CashIsPosted == Spec => []CashPosted
<1>1. IInv => CashPosted
  BY DEF IInv
<1> QED BY <1>1, Invariance, PTL

\* Every committed event whose date the rollover has passed stands in the
\* reward_state of each reward granted before it, and every split up to today in
\* the factor that is served, unless it committed while a rollover was in that
\* stage and no later one has met it, and but for a reward whose grant committed
\* after the date it began on, until its row is next written: for every number of
\* events, rewards, replicas and days, failures and crashes included
\* (refresh_effective_corporate_actions, refresh_instrument_factors).
THEOREM EventsAreRolledUp == Spec => []RolledUp
<1>1. IInv => RolledUp
  BY DEF IInv
<1> QED BY <1>1, Invariance, PTL

-----------------------------------------------------------------------------
(* MarketJobs: the calendar *)

\* The instants of a day lie between its start and the next day's.
LEMMA DayBounds ==
  ASSUME NEW t \in Nat
  PROVE  /\ Day(t) \in Nat
         /\ At(Day(t), 0) <= t /\ t < At(Day(t) + 1, 0)
<1>1. DayLength \in Nat /\ DayLength > 0
  BY CalendarAssumption
<1>2. /\ t \div DayLength \in Nat
      /\ t = ((t \div DayLength) * DayLength) + (t % DayLength)
      /\ t % DayLength \in 0..(DayLength - 1)
  BY <1>1
<1>3. (Day(t) + 1) * DayLength = Day(t) * DayLength + DayLength
  BY <1>1, <1>2 DEF Day
<1>4. QED BY <1>1, <1>2, <1>3 DEF Day, At

\* A clock time is that long after the day's start.
LEMMA ClockTimes ==
  ASSUME NEW d \in Int, NEW c \in Int
  PROVE  /\ At(d, 0) \in Int /\ At(d, c) = At(d, 0) + c
         /\ At(d + 1, 0) = At(d, 0) + DayLength
         /\ d \in Nat => At(d, 0) \in Nat
BY CalendarAssumption DEF At

\* A later day starts no earlier than this one ends.
LEMMA LaterDays ==
  ASSUME NEW d \in Int, NEW e \in Int, d < e
  PROVE  At(d + 1, 0) <= At(e, 0) /\ At(d, 0) + DayLength <= At(e, 0)
<1>1. DayLength \in Nat
  BY CalendarAssumption
<1>2. PICK k \in Nat : e = d + 1 + k
  <2>1. e - (d + 1) \in Nat /\ e = d + 1 + (e - (d + 1))
    OBVIOUS
  <2>2. QED BY <2>1
<1>3. k * DayLength >= 0
  BY <1>1
<1>4. e * DayLength = (d + 1) * DayLength + k * DayLength
  BY <1>1, <1>2
<1>5. At(d + 1, 0) = At(d, 0) + DayLength /\ At(d, 0) \in Int
  BY ClockTimes
<1>6. QED BY <1>1, <1>3, <1>4, <1>5 DEF At

\* An instant's day is the one whose bounds hold it.
LEMMA TheDay ==
  ASSUME NEW t \in Nat, NEW d \in Int, At(d, 0) <= t, t < At(d + 1, 0)
  PROVE  Day(t) = d
<1>1. Day(t) \in Nat /\ At(Day(t), 0) <= t /\ t < At(Day(t) + 1, 0)
  BY DayBounds
<1>2. At(d, 0) \in Int /\ At(d + 1, 0) \in Int /\ At(Day(t), 0) \in Int /\ At(Day(t) + 1, 0) \in Int
  BY <1>1, ClockTimes
<1>3. ~(d < Day(t))
  BY <1>1, <1>2, LaterDays
<1>4. ~(Day(t) < d)
  BY <1>1, <1>2, LaterDays
<1>5. QED BY <1>1, <1>3, <1>4

\* Later instants are not on earlier days.
LEMMA DaysFollow ==
  ASSUME NEW t \in Nat, NEW u \in Nat, t <= u
  PROVE  Day(t) <= Day(u)
<1>1. Day(t) \in Nat /\ At(Day(t), 0) <= t /\ Day(u) \in Nat /\ u < At(Day(u) + 1, 0)
  BY DayBounds
<1>2. At(Day(t), 0) \in Int /\ At(Day(u) + 1, 0) \in Int
  BY <1>1, ClockTimes
<1>3. ~(Day(u) < Day(t))
  BY <1>1, <1>2, LaterDays
<1>4. QED BY <1>1, <1>3

\* A clock time is on its day.
LEMMA ClockDay ==
  ASSUME NEW d \in Nat, NEW c \in Nat, c < DayLength
  PROVE  At(d, c) \in Nat /\ Day(At(d, c)) = d
<1>1. /\ At(d, 0) \in Nat /\ At(d, c) = At(d, 0) + c
      /\ At(d + 1, 0) = At(d, 0) + DayLength /\ DayLength \in Nat
  BY ClockTimes, CalendarAssumption
<1>2. QED BY <1>1, TheDay

\* A set of numbers has its minimum.
LEMMA MinFacts ==
  ASSUME NEW S \in SUBSET Nat, S # {}
  PROVE  Min(S) \in S /\ \A x \in S : Min(S) <= x
<1>1. PICK n \in S : TRUE
  OBVIOUS
<1>2. PICK m \in S \cap (0..n) : \A i \in S \cap (0..n) : m <= i
  <2>1. n \in Nat /\ S \cap (0..n) \in SUBSET (0..n) /\ S \cap (0..n) # {}
    OBVIOUS
  <2>2. QED BY <2>1, FirstNumber
<1>3. \A x \in S : m <= x
  BY <1>2
<1>4. QED BY <1>2, <1>3 DEF Min

\* A bounded set of numbers has its maximum.
LEMMA MaxFacts ==
  ASSUME NEW S \in SUBSET Int, S # {}, NEW n \in Nat, S \subseteq 0..n
  PROVE  Max(S) \in S /\ \A x \in S : x <= Max(S)
<1>1. PICK m \in S : \A i \in S : i <= m
  BY LastNumber
<1>2. QED BY <1>1 DEF Max

LEMMA MaxOfTwo ==
  ASSUME NEW a \in Int, NEW b \in Int
  PROVE  Max({a, b}) = IF a <= b THEN b ELSE a
<1>1. \A x \in {a, b} : (\A y \in {a, b} : x >= y) <=> x = (IF a <= b THEN b ELSE a)
  OBVIOUS
<1>2. QED BY <1>1 DEF Max

\* The first trading day from d on.
LEMMA NextDayIs ==
  ASSUME NEW d \in Nat, NEW e \in TradingDays, e >= d
  PROVE  /\ NextTradingDay(d) \in TradingDays /\ NextTradingDay(d) \in Nat /\ NextTradingDay(d) >= d
         /\ \A f \in TradingDays : f >= d => NextTradingDay(d) <= f
<1> DEFINE S == {f \in TradingDays : f >= d}
<1>1. S \in SUBSET Nat /\ S # {}
  BY CalendarAssumption
<1>2. NextTradingDay(d) = Min(S)
  BY DEF NextTradingDay
<1>3. Min(S) \in S /\ \A x \in S : Min(S) <= x
  <2> HIDE DEF S
  <2>1. QED BY <1>1, MinFacts
<1>4. QED BY <1>1, <1>2, <1>3

LEMMA PreviousDayIs ==
  ASSUME NEW d \in Nat, d > 0
  PROVE  /\ PreviousTradingDay(d) \in TradingDays /\ PreviousTradingDay(d) \in Nat /\ PreviousTradingDay(d) < d
         /\ \A f \in TradingDays : f < d => f <= PreviousTradingDay(d)
<1> DEFINE S == {f \in TradingDays : f < d}
<1>1. S \in SUBSET Int /\ S # {} /\ S \subseteq 0..d
  <2>1. 0 \in TradingDays /\ TradingDays \subseteq Nat
    BY CalendarAssumption, JobsAssumption
  <2>2. 0 \in S
    BY <2>1
  <2>3. \A f \in S : f \in Int /\ f \in 0..d
    BY <2>1
  <2> HIDE DEF S
  <2>4. QED BY <2>2, <2>3
<1>2. PreviousTradingDay(d) = Max(S)
  BY DEF PreviousTradingDay
<1>3. Max(S) \in S /\ \A x \in S : x <= Max(S)
  <2> HIDE DEF S
  <2>1. QED BY <1>1, MaxFacts
<1>4. QED BY <1>1, <1>2, <1>3

\* The last completed session is the last one that closed, once one has.
LEMMA LastCloseIs ==
  ASSUME NEW t \in Nat, t >= SessionClose(0)
  PROVE  \E d \in TradingDays :
           /\ d \in Nat /\ LastCompletedSessionClose(t) = SessionClose(d)
           /\ SessionClose(d) <= t /\ Day(SessionClose(d)) = d
           /\ \A e \in TradingDays : SessionClose(e) <= t => e <= d
<1> DEFINE thisDay == Day(t)
           trading == IsTradingDay(thisDay) /\ t >= SessionClose(thisDay)
           last == IF trading THEN thisDay ELSE PreviousTradingDay(thisDay)
<1>1. thisDay \in Nat /\ At(thisDay, 0) <= t /\ t < At(thisDay + 1, 0)
  BY DayBounds
<1>2. \A e \in Nat : /\ SessionClose(e) = At(e, 0) + CloseTime /\ At(e + 1, 0) = At(e, 0) + DayLength
                     /\ At(e, 0) \in Nat /\ At(e, CloseTime) \in Nat /\ Day(SessionClose(e)) = e
  <2> SUFFICES ASSUME NEW e \in Nat
      PROVE /\ SessionClose(e) = At(e, 0) + CloseTime /\ At(e + 1, 0) = At(e, 0) + DayLength
            /\ At(e, 0) \in Nat /\ At(e, CloseTime) \in Nat /\ Day(SessionClose(e)) = e
    OBVIOUS
  <2>1. CloseTime \in Nat /\ CloseTime < DayLength
    BY CalendarAssumption
  <2>2. At(e, CloseTime) \in Nat /\ Day(At(e, CloseTime)) = e
    BY <2>1, ClockDay
  <2>3. QED BY <2>1, <2>2, ClockTimes DEF SessionClose
<1>3. CloseTime \in Nat /\ DayLength \in Nat /\ CloseTime < DayLength /\ TradingDays \subseteq Nat
  BY CalendarAssumption
<1>4. \A e \in TradingDays : SessionClose(e) <= t => e <= thisDay
  <2> SUFFICES ASSUME NEW e \in TradingDays, SessionClose(e) <= t, thisDay < e PROVE FALSE
    BY <1>1, <1>3
  <2>1. At(thisDay + 1, 0) <= At(e, 0)
    BY <1>1, <1>3, LaterDays
  <2>2. QED BY <2>1, <1>1, <1>2, <1>3
<1>5. CASE trading
  <2>1. LastCompletedSessionClose(t) = SessionClose(thisDay) /\ thisDay \in TradingDays
    BY <1>5 DEF LastCompletedSessionClose, IsTradingDay
  <2>2. SessionClose(thisDay) <= t
    BY <1>5, <1>1, <1>2, <1>3
  <2> HIDE DEF thisDay, last, trading
  <2>3. QED BY <2>1, <2>2, <1>1, <1>2, <1>4
<1>6. CASE ~trading
  <2>1. \A e \in TradingDays : SessionClose(e) <= t => e < thisDay
    <3> SUFFICES ASSUME NEW e \in TradingDays, SessionClose(e) <= t, e = thisDay PROVE FALSE
      BY <1>1, <1>3, <1>4
    <3>1. QED BY <1>6 DEF IsTradingDay
  <2>2. thisDay > 0
    BY <2>1, JobsAssumption
  <2>3. /\ PreviousTradingDay(thisDay) \in TradingDays /\ PreviousTradingDay(thisDay) \in Nat
        /\ PreviousTradingDay(thisDay) < thisDay
        /\ \A f \in TradingDays : f < thisDay => f <= PreviousTradingDay(thisDay)
    BY <1>1, <2>2, PreviousDayIs
  <2>4. LastCompletedSessionClose(t) = SessionClose(PreviousTradingDay(thisDay))
    BY <1>6 DEF LastCompletedSessionClose
  <2>5. At(PreviousTradingDay(thisDay) + 1, 0) <= At(thisDay, 0)
    BY <1>1, <2>3, LaterDays
  <2>6. SessionClose(PreviousTradingDay(thisDay)) <= t
    BY <2>5, <2>3, <1>1, <1>2, <1>3
  <2> HIDE DEF thisDay, last, trading
  <2>7. QED BY <2>1, <2>3, <2>4, <2>6, <1>2
<1>7. QED BY <1>5, <1>6

\* The constants' ranges, and that a trading day follows every day the clock reaches.
LEMMA JobsConstants ==
  /\ DayLength \in Nat /\ OpenTime \in Nat /\ CloseTime \in Nat /\ OpenTime < CloseTime /\ CloseTime < DayLength
  /\ MaxStale \in Nat /\ CloseGrace \in Nat /\ FutureSkew \in Nat
  /\ TradingDays \subseteq Nat /\ 0 \in TradingDays /\ Off \notin Nat
  /\ TickInterval \in Nat /\ TickInterval > 0 /\ FinalQuoteDelay \in Nat /\ MaxCycle \in Nat
  /\ QuoteDelay \in Nat /\ QuoteDelay <= DayLength - OpenTime
  /\ FirstAttempt \in Nat /\ RetryUntil \in Nat /\ MaxAttempt \in Nat
  /\ CloseTime <= FirstAttempt /\ FirstAttempt <= RetryUntil /\ RetryUntil < DayLength
  /\ RetryInterval \in Nat /\ RetryInterval > 0
  /\ MaxTime \in Nat /\ MaxSetbacks \in Nat /\ DayLength <= MaxTime
BY CalendarAssumption, PolicyAssumption, OffAssumption, PriceScheduleAssumption, BhavcopyScheduleAssumption,
   JobsAssumption

\* While the clock runs a trading day lies ahead: NextTradingDay finds one.
LEMMA DaysAhead ==
  ASSUME NEW d \in Nat, d <= Day(MaxTime) + 1
  PROVE  \E e \in TradingDays : e >= d
<1>1. PICK e \in TradingDays : e > Day(MaxTime)
  BY JobsAssumption
<1>2. e \in Nat /\ Day(MaxTime) \in Nat
  BY <1>1, JobsConstants, DayBounds
<1>3. QED BY <1>1, <1>2

\* The next slot of a grid.
LEMMA GridNext ==
  ASSUME NEW x \in Nat, NEW k \in Nat, k > 0
  PROVE  /\ (x \div k + 1) * k \in Nat
         /\ (x \div k + 1) * k > x /\ (x \div k + 1) * k <= x + k
<1> DEFINE q == x \div k
<1>1. q \in Nat /\ x = (q * k) + (x % k) /\ x % k \in 0..(k - 1)
  OBVIOUS
<1>2. (q + 1) * k = q * k + k /\ q * k \in Nat
  BY <1>1
<1> HIDE DEF q
<1>3. (q + 1) * k \in Nat /\ (q + 1) * k > x /\ (q + 1) * k <= x + k
  BY <1>1, <1>2
<1>4. QED BY <1>3 DEF q

-----------------------------------------------------------------------------
(* The bhavcopy scheduler's slots *)

\* The window's clock times.
LEMMA SlotTimes ==
  ASSUME NEW d \in Nat
  PROVE  /\ At(d, 0) \in Nat /\ At(d + 1, 0) \in Nat
         /\ At(d, FirstAttempt) \in Nat /\ At(d, RetryUntil) \in Nat
         /\ At(d, FirstAttempt) = At(d, 0) + FirstAttempt /\ At(d, RetryUntil) = At(d, 0) + RetryUntil
         /\ At(d, FirstAttempt) <= At(d, RetryUntil) /\ At(d, RetryUntil) < At(d + 1, 0)
         /\ At(d, 0) <= At(d, FirstAttempt)
<1>1. /\ FirstAttempt \in Nat /\ RetryUntil \in Nat /\ FirstAttempt <= RetryUntil
      /\ RetryUntil < DayLength /\ DayLength \in Nat
  BY JobsConstants
<1>2. /\ At(d, 0) \in Nat /\ At(d, FirstAttempt) = At(d, 0) + FirstAttempt
      /\ At(d, RetryUntil) = At(d, 0) + RetryUntil /\ At(d + 1, 0) = At(d, 0) + DayLength
  BY <1>1, ClockTimes
<1>3. QED BY <1>1, <1>2

\* The first slot is of the next trading day, due already or in its window.
LEMMA FirstScheduleIs ==
  ASSUME NEW t \in Nat, t <= MaxTime
  PROVE  LET s == FirstSchedule(t)
         IN /\ s.date \in TradingDays /\ s.date \in Nat /\ s.date >= Day(t)
            /\ \A e \in TradingDays : e >= Day(t) => s.date <= e
            /\ s.at \in Nat /\ s.at >= At(s.date, FirstAttempt) /\ s.at >= t
            /\ s.at <= t \/ s.at <= At(s.date, RetryUntil)
<1>1. Day(t) \in Nat /\ Day(t) <= Day(MaxTime) + 1
  BY JobsConstants, DayBounds, DaysFollow
<1> DEFINE day == NextTradingDay(Day(t))
<1>2. /\ day \in TradingDays /\ day \in Nat /\ day >= Day(t)
      /\ \A f \in TradingDays : f >= Day(t) => day <= f
  BY <1>1, DaysAhead, NextDayIs
<1>3. /\ At(day, FirstAttempt) \in Nat
      /\ At(day, FirstAttempt) <= At(day, RetryUntil) /\ At(day, RetryUntil) \in Nat
  <2> HIDE DEF day
  <2>1. QED BY <1>2, SlotTimes
<1>4. Max({t, At(day, FirstAttempt)}) = IF t <= At(day, FirstAttempt) THEN At(day, FirstAttempt) ELSE t
  BY <1>3, MaxOfTwo
<1>5. FirstSchedule(t) = [date |-> day, at |-> Max({t, At(day, FirstAttempt)})]
  BY DEF FirstSchedule
<1> HIDE DEF day
<1>6. QED BY <1>2, <1>3, <1>4, <1>5

\* After a date comes the first slot of the next trading day.
LEMMA NextDayScheduleIs ==
  ASSUME NEW d \in Nat, d <= Day(MaxTime)
  PROVE  LET s == NextDaySchedule(d)
         IN /\ s.date \in TradingDays /\ s.date \in Nat /\ s.date > d
            /\ \A e \in TradingDays : e > d => s.date <= e
            /\ s.at \in Nat /\ s.at = At(s.date, FirstAttempt) /\ s.at <= At(s.date, RetryUntil)
<1>1. d + 1 \in Nat /\ d + 1 <= Day(MaxTime) + 1
  BY JobsConstants, DayBounds
<1> DEFINE day == NextTradingDay(d + 1)
<1>2. /\ day \in TradingDays /\ day \in Nat /\ day >= d + 1
      /\ \A f \in TradingDays : f >= d + 1 => day <= f
  BY <1>1, DaysAhead, NextDayIs
<1>3. /\ At(day, FirstAttempt) \in Nat
      /\ At(day, FirstAttempt) <= At(day, RetryUntil) /\ At(day, RetryUntil) \in Nat
  <2> HIDE DEF day
  <2>1. QED BY <1>2, SlotTimes
<1>4. NextDaySchedule(d) = [date |-> day, at |-> At(day, FirstAttempt)]
  BY DEF NextDaySchedule
<1>5. \A e \in TradingDays : e > d => e >= d + 1
  BY JobsConstants
<1> HIDE DEF day
<1>6. QED BY <1>2, <1>3, <1>4, <1>5

\* A failed attempt is retried in its window, or it ran in the window's last
\* interval or later.
LEMMA RetryScheduleIs ==
  ASSUME NEW d \in Nat, d \in TradingDays, NEW t \in Nat, t >= At(d, FirstAttempt)
  PROVE  \/ /\ RetrySchedule(d, t) = NextDaySchedule(d)
            /\ t > At(d, RetryUntil) - RetryInterval
         \/ /\ RetrySchedule(d, t).date = d /\ RetrySchedule(d, t).at \in Nat
            /\ RetrySchedule(d, t).at > t /\ RetrySchedule(d, t).at <= At(d, RetryUntil)
<1> DEFINE first == At(d, FirstAttempt)
           step == ((t - first) \div RetryInterval + 1) * RetryInterval
           at == first + step
<1>1. RetryInterval \in Nat /\ RetryInterval > 0 /\ first \in Nat /\ At(d, RetryUntil) \in Nat
  BY JobsConstants, SlotTimes
<1>2. t - first \in Nat
  BY <1>1
<1>3. step \in Nat /\ step > t - first /\ step <= (t - first) + RetryInterval
  <2> HIDE DEF first
  <2>1. QED BY <1>1, <1>2, GridNext
<1>4. Max({t, first}) = t
  BY <1>1, MaxOfTwo
<1>5. RetrySchedule(d, t) = IF at > At(d, RetryUntil) THEN NextDaySchedule(d) ELSE [date |-> d, at |-> at]
  BY <1>4 DEF RetrySchedule
<1> HIDE DEF step, first
<1>6. QED BY <1>1, <1>3, <1>5

-----------------------------------------------------------------------------
(* The row *)

\* A quote's time is in a session: a provider reports the last trade.
InSession(t) == \E d \in TradingDays : SessionOpen(d) <= t /\ t <= SessionClose(d) /\ Day(t) = d

\* What the row and the quotes look like.
QuoteOk(q) ==
  q.source # "seed" => /\ InSession(q.at)
                       /\ q.source = "bhavcopy" => q.at = SessionClose(Day(q.at))

\* Open and close lie on their day, in this order.
LEMMA SessionTimes ==
  ASSUME NEW d \in Nat
  PROVE  /\ At(d, 0) \in Nat /\ At(d + 1, 0) \in Nat /\ At(d + 1, 0) = At(d, 0) + DayLength
         /\ SessionOpen(d) = At(d, 0) + OpenTime /\ SessionClose(d) = At(d, 0) + CloseTime
         /\ SessionOpen(d) \in Nat /\ SessionClose(d) \in Nat
         /\ Day(SessionOpen(d)) = d /\ Day(SessionClose(d)) = d
         /\ SessionOpen(d) < SessionClose(d) /\ SessionClose(d) < At(d + 1, 0)
<1>1. /\ DayLength \in Nat /\ OpenTime \in Nat /\ CloseTime \in Nat
      /\ OpenTime < CloseTime /\ CloseTime < DayLength
  BY JobsConstants
<1>2. /\ At(d, 0) \in Nat /\ At(d + 1, 0) = At(d, 0) + DayLength
      /\ At(d, OpenTime) = At(d, 0) + OpenTime /\ At(d, CloseTime) = At(d, 0) + CloseTime
  BY <1>1, ClockTimes
<1>3. Day(At(d, OpenTime)) = d /\ Day(At(d, CloseTime)) = d
  BY <1>1, ClockDay
<1>4. QED BY <1>1, <1>2, <1>3 DEF SessionOpen, SessionClose

\* A quote is of a session and never from the future.
LEMMA LastTradeIs ==
  ASSUME NEW t \in Nat, t >= OpenTime
  PROVE  LastTrade(t) \in Nat /\ LastTrade(t) <= t /\ InSession(LastTrade(t))
<1>1. Day(t) \in Nat /\ At(Day(t), 0) <= t /\ t < At(Day(t) + 1, 0)
  BY DayBounds
<1>2. CASE IsOpen(t)
  <2>1. LastTrade(t) = t
    BY <1>2 DEF LastTrade
  <2>2. SessionOpen(Day(t)) <= t /\ t < SessionClose(Day(t)) /\ Day(t) \in TradingDays
    BY <1>2 DEF IsOpen, IsTradingDay
  <2>3. t <= SessionClose(Day(t))
    BY <2>2, <1>1, SessionTimes
  <2>4. QED BY <2>1, <2>2, <2>3 DEF InSession
<1>3. CASE ~IsOpen(t)
  <2>1. t >= SessionClose(0)
    <3> SUFFICES ASSUME t < SessionClose(0) PROVE FALSE
      BY SessionTimes
    <3>1. /\ At(0, 0) = 0 /\ SessionClose(0) < At(1, 0) /\ At(1, 0) \in Nat /\ SessionClose(0) \in Nat
          /\ SessionOpen(0) = OpenTime
      <4>1. At(0, 0) = 0
        BY JobsConstants DEF At
      <4>2. SessionClose(0) < At(0 + 1, 0) /\ At(0 + 1, 0) \in Nat /\ SessionClose(0) \in Nat
            /\ SessionOpen(0) = At(0, 0) + OpenTime
        BY SessionTimes
      <4>3. QED BY <4>1, <4>2, JobsConstants
    <3>2. Day(t) = 0
      <4>1. At(0, 0) <= t /\ t < At(0 + 1, 0)
        BY <3>1
      <4>2. QED BY <4>1, TheDay
    <3>3. QED BY <3>1, <3>2, <1>3, JobsConstants DEF IsOpen, IsTradingDay
  <2>2. PICK d \in TradingDays :
             d \in Nat /\ LastCompletedSessionClose(t) = SessionClose(d) /\ SessionClose(d) <= t
             /\ Day(SessionClose(d)) = d
    BY <2>1, LastCloseIs
  <2>3. SessionOpen(d) < SessionClose(d) /\ SessionOpen(d) \in Nat /\ SessionClose(d) \in Nat
    BY <2>2, SessionTimes
  <2>4. LastTrade(t) = SessionClose(d)
    BY <1>3, <2>2 DEF LastTrade
  <2>5. QED BY <2>2, <2>3, <2>4 DEF InSession
<1>4. QED BY <1>2, <1>3

\* What a save leaves: the row never gets older than it was, nor than the quote.
LEMMA SavedIs ==
  ASSUME price \in Row, QuoteOk(price), NEW q \in Row, q.source # "seed", QuoteOk(q)
  PROVE  /\ Saved(q) \in Row /\ QuoteOk(Saved(q)) /\ Saved(q) \in {price, q}
         /\ Saved(q).source # "seed" /\ Saved(q).at >= q.at
         /\ price.source # "seed" => Saved(q).at >= price.at
<1>1. price.at \in Nat /\ q.at \in Nat
  BY DEF Row
<1>2. CASE Accepts(q)
  <2>1. Saved(q) = q
    BY <1>2 DEF Saved
  <2>2. price.source # "seed" => q.at >= price.at
    <3> SUFFICES ASSUME price.source # "seed", q.at < price.at PROVE FALSE
      BY <1>1
    <3>1. q.source = "bhavcopy" /\ Day(q.at) = Day(price.at)
      BY <1>1, <1>2 DEF Accepts
    <3>2. q.at = SessionClose(Day(price.at)) /\ InSession(price.at)
      BY <3>1 DEF QuoteOk
    <3>3. price.at <= q.at
      BY <3>2 DEF InSession
    <3>4. QED BY <3>3, <1>1
  <2>3. QED BY <2>1, <2>2, <1>1
<1>3. CASE ~Accepts(q)
  <2>1. Saved(q) = price
    BY <1>3 DEF Saved
  <2>2. price.source # "seed" /\ price.at >= q.at
    <3> SUFFICES ASSUME price.at < q.at \/ price.source = "seed" PROVE FALSE
      BY <1>1
    <3>1. price.source = "bhavcopy" /\ Day(q.at) = Day(price.at)
      BY <1>1, <1>3 DEF Accepts
    <3>2. price.at = SessionClose(Day(q.at)) /\ InSession(q.at)
      BY <3>1 DEF QuoteOk
    <3>3. q.at <= price.at
      BY <3>2 DEF InSession
    <3>4. QED BY <3>1, <3>3, <1>1
  <2>3. QED BY <2>1, <2>2, <1>1
<1>4. QED BY <1>2, <1>3

-----------------------------------------------------------------------------
(* The price scheduler's timer *)

\* The next open is that of the first trading day not yet opened.
LEMMA NextOpenIs ==
  ASSUME NEW t \in Nat, t <= MaxTime
  PROVE  \E e \in TradingDays :
           /\ e \in Nat /\ NextSessionOpen(t) = SessionOpen(e) /\ e >= Day(t) /\ t <= SessionOpen(e)
           /\ \A f \in TradingDays : f >= Day(t) /\ t <= SessionOpen(f) => e <= f
<1>1. Day(t) \in Nat /\ At(Day(t), 0) <= t /\ t < At(Day(t) + 1, 0) /\ Day(t) <= Day(MaxTime)
  BY DayBounds, DaysFollow, JobsConstants
<1>2. Day(MaxTime) \in Nat /\ TradingDays \subseteq Nat
  BY DayBounds, JobsConstants
<1>3. CASE IsTradingDay(Day(t)) /\ t <= SessionOpen(Day(t))
  <2>1. NextSessionOpen(t) = SessionOpen(Day(t)) /\ Day(t) \in TradingDays
    BY <1>3 DEF NextSessionOpen, IsTradingDay
  <2>2. QED BY <2>1, <1>1, <1>3
<1>4. CASE ~(IsTradingDay(Day(t)) /\ t <= SessionOpen(Day(t)))
  <2> DEFINE e == NextTradingDay(Day(t) + 1)
  <2>1. /\ e \in TradingDays /\ e \in Nat /\ e >= Day(t) + 1
        /\ \A f \in TradingDays : f >= Day(t) + 1 => e <= f
    <3>1. Day(t) + 1 \in Nat /\ Day(t) + 1 <= Day(MaxTime) + 1
      BY <1>1, <1>2
    <3>2. QED BY <3>1, DaysAhead, NextDayIs
  <2>2. NextSessionOpen(t) = SessionOpen(e)
    BY <1>4 DEF NextSessionOpen
  <2> HIDE DEF e
  <2>3. At(Day(t) + 1, 0) <= At(e, 0)
    BY <2>1, <1>1, LaterDays
  <2>4. SessionOpen(e) = At(e, 0) + OpenTime /\ At(e, 0) \in Nat /\ At(Day(t) + 1, 0) \in Nat /\ OpenTime \in Nat
    BY <2>1, <1>1, SessionTimes, JobsConstants
  <2>5. t <= SessionOpen(e)
    BY <2>3, <2>4, <1>1
  <2>6. \A f \in TradingDays : f >= Day(t) /\ t <= SessionOpen(f) => f >= Day(t) + 1
    BY <1>4, <1>1, <1>2 DEF IsTradingDay
  <2>7. QED BY <2>1, <2>2, <2>5, <2>6, <1>1
<1>5. QED BY <1>3, <1>4

\* The tick after t, on the grid from the day's open.
TickAfter(t) ==
  SessionOpen(Day(t)) + ((t - SessionOpen(Day(t))) \div TickInterval + 1) * TickInterval

\* The next tick of the session's grid is at most an interval away.
LEMMA TickAfterIs ==
  ASSUME NEW t \in Nat, SessionOpen(Day(t)) <= t
  PROVE  /\ TickAfter(t) \in Nat /\ t < TickAfter(t) /\ TickAfter(t) <= t + TickInterval
         /\ SessionOpen(Day(t)) + TickInterval <= TickAfter(t)
         /\ \E k \in Nat : TickAfter(t) = SessionOpen(Day(t)) + k * TickInterval
<1> DEFINE o == SessionOpen(Day(t))
           q == (t - o) \div TickInterval
<1>1. o \in Nat /\ TickInterval \in Nat /\ TickInterval > 0
  BY DayBounds, SessionTimes, JobsConstants
<1>2. t - o \in Nat
  BY <1>1
<1>3. q \in Nat /\ (q + 1) * TickInterval \in Nat
      /\ (q + 1) * TickInterval > t - o /\ (q + 1) * TickInterval <= (t - o) + TickInterval
  <2> HIDE DEF o
  <2>1. QED BY <1>1, <1>2, GridNext
<1>4. (q + 1) * TickInterval = q * TickInterval + TickInterval /\ q * TickInterval \in Nat
  <2>1. q \in Nat
    BY <1>3
  <2> HIDE DEF q
  <2>2. QED BY <2>1, <1>1
<1>5. TickAfter(t) = o + (q + 1) * TickInterval /\ q + 1 \in Nat
  BY <1>3 DEF TickAfter
<1>6. \E k \in Nat : TickAfter(t) = o + k * TickInterval
  BY <1>5
<1> DEFINE y == (q + 1) * TickInterval
<1>7. /\ y \in Nat /\ y > t - o /\ y <= (t - o) + TickInterval /\ y >= TickInterval
      /\ TickAfter(t) = o + y
  <2>1. q * TickInterval >= 0
    BY <1>4
  <2>2. QED BY <2>1, <1>1, <1>3, <1>4, <1>5
<1> HIDE DEF q, o, y
<1>8. /\ TickAfter(t) \in Nat /\ t < TickAfter(t) /\ TickAfter(t) <= t + TickInterval
      /\ o + TickInterval <= TickAfter(t)
  BY <1>1, <1>7
<1> USE DEF o
<1>9. QED BY <1>6, <1>8

LEMMA FinalTimes ==
  ASSUME NEW d \in Nat
  PROVE  /\ Final(d) \in Nat /\ Final(d) = SessionClose(d) + FinalQuoteDelay
         /\ SessionClose(d) <= Final(d)
<1>1. SessionClose(d) \in Nat /\ FinalQuoteDelay \in Nat
  BY SessionTimes, JobsConstants
<1>2. QED BY <1>1 DEF Final

\* The timer is set to the session's next tick, to the final quote after the
\* last one, or to the next open.
LEMMA NextRunCases ==
  ASSUME NEW t \in Nat
  PROVE  /\ ~IsTradingDay(Day(t)) \/ t < SessionOpen(Day(t)) \/ t >= Final(Day(t)) =>
              NextScheduledRun(t) = NextSessionOpen(t)
         /\ IsOpen(t) /\ TickAfter(t) < SessionClose(Day(t)) => NextScheduledRun(t) = TickAfter(t)
         /\ (/\ IsTradingDay(Day(t)) /\ t >= SessionOpen(Day(t)) /\ t < Final(Day(t))
             /\ ~(IsOpen(t) /\ TickAfter(t) < SessionClose(Day(t))))
             => NextScheduledRun(t) = Final(Day(t))
<1>1. /\ Day(t) \in Nat /\ SessionOpen(Day(t)) \in Nat /\ SessionClose(Day(t)) \in Nat
      /\ Final(Day(t)) \in Nat /\ SessionClose(Day(t)) <= Final(Day(t))
  BY DayBounds, SessionTimes, FinalTimes
<1> DEFINE outside == ~IsTradingDay(Day(t)) \/ t < SessionOpen(Day(t)) \/ t >= Final(Day(t))
           ticks == IsOpen(t) /\ TickAfter(t) < SessionClose(Day(t))
<1>2. ticks => ~outside
  BY <1>1 DEF IsOpen
<1>3. /\ IsTradingDay(Day(t)) /\ t >= SessionOpen(Day(t)) /\ t < Final(Day(t)) => ~outside
  BY <1>1
<1>4. NextScheduledRun(t) = CASE outside -> NextSessionOpen(t) [] ticks -> TickAfter(t) [] OTHER -> Final(Day(t))
  BY DEF NextScheduledRun, TickAfter
<1> HIDE DEF ticks
<1>5. /\ outside => NextScheduledRun(t) = NextSessionOpen(t)
      /\ ticks => NextScheduledRun(t) = TickAfter(t)
      /\ ~outside /\ ~ticks => NextScheduledRun(t) = Final(Day(t))
  <2> HIDE DEF outside
  <2>1. QED BY <1>2, <1>4
<1>6. ~IsTradingDay(Day(t)) \/ t < SessionOpen(Day(t)) \/ t >= Final(Day(t)) =>
        NextScheduledRun(t) = NextSessionOpen(t)
  BY <1>5
<1>7. ASSUME IsTradingDay(Day(t)), t >= SessionOpen(Day(t)), t < Final(Day(t)), ~ticks
      PROVE  NextScheduledRun(t) = Final(Day(t))
  <2> HIDE DEF outside
  <2>1. QED BY <1>3, <1>5, <1>7
<1>8. ticks => NextScheduledRun(t) = TickAfter(t)
  BY <1>5
<1> USE DEF ticks
<1>9. QED BY <1>6, <1>7, <1>8

\* It is set to a later instant.
LEMMA NextRunLater ==
  ASSUME NEW t \in Nat, t <= MaxTime
  PROVE  NextScheduledRun(t) \in Nat /\ t < NextScheduledRun(t)
<1> DEFINE thisDay == Day(t)
<1>1. /\ thisDay \in Nat /\ SessionOpen(thisDay) \in Nat /\ SessionClose(thisDay) \in Nat
      /\ Final(thisDay) \in Nat /\ SessionClose(thisDay) <= Final(thisDay) /\ SessionOpen(thisDay) < SessionClose(thisDay)
  BY DayBounds, SessionTimes, FinalTimes
<1>2. CASE ~IsTradingDay(thisDay) \/ t < SessionOpen(thisDay) \/ t >= Final(thisDay)
  <2>1. NextScheduledRun(t) = NextSessionOpen(t)
    BY <1>2, NextRunCases
  <2>2. PICK e \in TradingDays : e \in Nat /\ NextSessionOpen(t) = SessionOpen(e) /\ t <= SessionOpen(e)
                                 /\ e >= thisDay
    BY NextOpenIs
  <2>3. t # SessionOpen(e)
    <3> SUFFICES ASSUME t = SessionOpen(e) PROVE FALSE
      OBVIOUS
    <3>1. e = thisDay
      BY <2>2, SessionTimes
    <3>2. QED BY <3>1, <1>1, <1>2, <2>2 DEF IsTradingDay
  <2>4. SessionOpen(e) \in Nat
    BY <2>2, SessionTimes
  <2>5. QED BY <2>1, <2>2, <2>3, <2>4
<1>3. CASE IsOpen(t) /\ TickAfter(t) < SessionClose(thisDay)
  <2>1. NextScheduledRun(t) = TickAfter(t)
    BY <1>3, NextRunCases
  <2>2. QED BY <2>1, <1>3, TickAfterIs DEF IsOpen
<1>4. CASE /\ IsTradingDay(thisDay) /\ t >= SessionOpen(thisDay) /\ t < Final(thisDay)
           /\ ~(IsOpen(t) /\ TickAfter(t) < SessionClose(thisDay))
  <2>1. NextScheduledRun(t) = Final(thisDay)
    BY <1>4, NextRunCases
  <2>2. QED BY <2>1, <1>4, <1>1
<1>5. QED BY <1>1, <1>2, <1>3, <1>4

-----------------------------------------------------------------------------
(* The invariant of the worker process *)

\* What the bhavcopy scheduler is set to: the first-attempt time of its date or
\* later, in the window or due.  Its date is over only while, or at the instant,
\* an attempt that began on it ends.
ScheduleOk ==
  up => /\ At(schedule.date, FirstAttempt) <= schedule.at
        /\ schedule.at <= now \/ schedule.at <= At(schedule.date, RetryUntil)
        /\ Day(now) > schedule.date => now <= At(schedule.date + 1, 0) + MaxAttempt

\* A running attempt began on its date, at its slot or after.
AttemptOk ==
  attempt # Off =>
    /\ up /\ schedule.at <= attempt /\ attempt <= now /\ now <= attempt + MaxAttempt
    /\ Day(attempt) = schedule.date /\ began[schedule.date] = attempt

\* Only a running attempt can be a late one of its date.
LateOk ==
  /\ late \in {0, 1}
  /\ late = 1 => attempt # Off /\ attempt > At(schedule.date, RetryUntil)

\* The scheduler is past the dates it has ingested, and has passed a date that
\* is not over only with its file or with an attempt late in its window.
PassedOk ==
  up => /\ \A d \in ingested : d < schedule.date
        /\ \A d \in TradingDays : Day(now) <= d /\ d < schedule.date =>
             \/ d \in ingested
             \/ began[d] # Off /\ began[d] > At(d, RetryUntil) - RetryInterval

CycleOk == cycle # Off => up /\ DayLength <= cycle /\ cycle <= now /\ now <= cycle + MaxCycle

JobsInvariant ==
  /\ JobsTypeOK /\ QuoteOk(price)
  /\ ScheduleOk /\ AttemptOk /\ LateOk /\ PassedOk
  /\ CycleOk
  /\ ~up => quiet = 0

LEMMA JobsInitial == JobsInit => JobsInvariant
<1> SUFFICES ASSUME JobsInit PROVE JobsInvariant
  OBVIOUS
<1>1. /\ now = DayLength /\ up = FALSE /\ next = 0 /\ cycle = Off /\ attempt = Off
      /\ schedule = [date |-> 0, at |-> 0] /\ began = [d \in TradingDays |-> Off] /\ late = 0
      /\ ingested = {} /\ setbacks = 0 /\ quiet = 0
      /\ price = [source |-> "seed", at |-> 0] \/ price = [source |-> "bhavcopy", at |-> SessionClose(0)]
  BY DEF JobsInit
<1>2. /\ SessionClose(0) \in Nat /\ SessionClose(0) < DayLength /\ Day(SessionClose(0)) = 0
      /\ SessionOpen(0) <= SessionClose(0)
  <2>1. /\ At(0, 0) = 0 /\ CloseTime \in Nat /\ CloseTime < DayLength /\ DayLength \in Nat
    BY JobsConstants DEF At
  <2>2. QED BY <2>1, SessionTimes
<1>3. price \in Row /\ price.at <= now /\ QuoteOk(price)
  BY <1>1, <1>2, JobsConstants DEF Row, QuoteOk, InSession
<1>4. JobsTypeOK
  <2>1. schedule.date \in TradingDays /\ schedule.at \in Nat /\ began \in [TradingDays -> Nat \cup {Off}]
    BY <1>1, JobsConstants
  <2>2. now \in DayLength..MaxTime /\ quiet \in 0..QuietCap /\ setbacks \in 0..MaxSetbacks
    BY <1>1, JobsConstants DEF QuietCap, Settled
  <2>3. QED BY <1>1, <1>3, <2>1, <2>2 DEF JobsTypeOK
<1>5. QED BY <1>1, <1>3, <1>4 DEF JobsInvariant, ScheduleOk, AttemptOk, LateOk, PassedOk, CycleOk

\* What the types say.
LEMMA JobsTypes ==
  ASSUME JobsTypeOK
  PROVE  /\ now \in Nat /\ DayLength <= now /\ now <= MaxTime
         /\ Day(now) \in Nat /\ Day(now) <= Day(MaxTime) /\ Day(MaxTime) \in Nat
         /\ up \in BOOLEAN /\ price \in Row /\ price.at \in Nat /\ price.at <= now
         /\ next \in Nat /\ (cycle # Off => cycle \in Nat) /\ (attempt # Off => attempt \in Nat)
         /\ schedule.date \in TradingDays /\ schedule.date \in Nat /\ schedule.at \in Nat
         /\ quiet \in Nat /\ quiet <= QuietCap /\ late \in Nat /\ setbacks \in Nat
<1>1. now \in Nat /\ DayLength <= now /\ now <= MaxTime
  BY JobsConstants DEF JobsTypeOK
<1>2. Day(now) \in Nat /\ Day(now) <= Day(MaxTime) /\ Day(MaxTime) \in Nat
  BY <1>1, DayBounds, DaysFollow, JobsConstants
<1>3. QuietCap \in Nat
  BY JobsConstants DEF QuietCap, Settled
<1>4. price \in Row /\ price.at \in Nat /\ price.at <= now
  BY DEF JobsTypeOK, Row
<1>5. quiet \in Nat /\ quiet <= QuietCap /\ setbacks \in Nat
  BY <1>3, JobsConstants DEF JobsTypeOK
<1>6. schedule.date \in TradingDays /\ schedule.date \in Nat /\ schedule.at \in Nat
  BY JobsConstants DEF JobsTypeOK
<1>7. (cycle # Off => cycle \in Nat) /\ (attempt # Off => attempt \in Nat)
  BY DEF JobsTypeOK
<1>8. up \in BOOLEAN /\ next \in Nat /\ late \in Nat
  BY DEF JobsTypeOK
<1>9. QED BY <1>1, <1>2, <1>4, <1>5, <1>6, <1>7, <1>8

LEMMA StartKeeps == ASSUME JobsInvariant, Start PROVE JobsInvariant'
<1> USE DEF JobsInvariant
<1>1. /\ ~up /\ up' = TRUE /\ cycle' \in {now, Off} /\ next' = NextScheduledRun(now)
      /\ schedule' = FirstSchedule(now) /\ attempt' = Off /\ late' = 0 /\ ingested' = {}
      /\ began' = [d \in TradingDays |-> Off]
      /\ now' = now /\ price' = price /\ setbacks' = setbacks /\ quiet' = quiet
  BY DEF Start, StartPrices, StartBhavcopy, book
<1>2. /\ now \in Nat /\ DayLength <= now /\ now <= MaxTime /\ Day(now) \in Nat
  BY JobsTypes
<1>3. /\ schedule'.date \in TradingDays /\ schedule'.date \in Nat /\ schedule'.date >= Day(now)
      /\ \A e \in TradingDays : e >= Day(now) => schedule'.date <= e
      /\ schedule'.at \in Nat /\ schedule'.at >= At(schedule'.date, FirstAttempt) /\ schedule'.at >= now
      /\ schedule'.at <= now \/ schedule'.at <= At(schedule'.date, RetryUntil)
  BY <1>1, <1>2, FirstScheduleIs
<1>4. next' \in Nat /\ now < next'
  BY <1>1, <1>2, NextRunLater
<1>5. JobsTypeOK'
  <2>1. began' \in [TradingDays -> Nat \cup {Off}] /\ cycle' \in Nat \cup {Off}
    BY <1>1, <1>2
  <2>2. QED BY <1>1, <1>3, <1>4, <2>1 DEF JobsTypeOK
<1>6. QuoteOk(price)'
  BY <1>1 DEF QuoteOk, InSession
<1>7. ScheduleOk' /\ AttemptOk' /\ LateOk'
  <2>1. ~(Day(now) > schedule'.date)
    BY <1>2, <1>3
  <2>2. At(schedule'.date, FirstAttempt) \in Nat
    BY <1>3, SlotTimes
  <2>3. QED BY <1>1, <1>2, <1>3, <2>1, <2>2 DEF ScheduleOk, AttemptOk, LateOk
<1>8. PassedOk'
  <2>1. \A d \in TradingDays : ~(Day(now) <= d /\ d < schedule'.date)
    BY <1>2, <1>3, JobsConstants
  <2>2. QED BY <1>1, <2>1 DEF PassedOk
<1>9. CycleOk'
  <2>1. cycle' # Off => cycle' = now
    BY <1>1
  <2>2. now <= now + MaxCycle
    BY <1>2, JobsConstants
  <2>3. QED BY <1>1, <1>2, <1>4, <2>1, <2>2 DEF CycleOk
<1>10. QED BY <1>1, <1>5, <1>6, <1>7, <1>8, <1>9

LEMMA StopKeeps == ASSUME JobsInvariant, Stop PROVE JobsInvariant'
<1> USE DEF JobsInvariant
<1>1. /\ up' = FALSE /\ next' = 0 /\ cycle' = Off
      /\ schedule' = [date |-> 0, at |-> 0] /\ attempt' = Off /\ late' = 0 /\ ingested' = {}
      /\ began' = [d \in TradingDays |-> Off]
      /\ now' = now /\ price' = price /\ setbacks' = setbacks + 1 /\ setbacks < MaxSetbacks /\ quiet' = 0
  BY DEF Stop, StopPrices, StopBhavcopy
<1>2. JobsTypeOK'
  <2>1. began' \in [TradingDays -> Nat \cup {Off}] /\ 0 \in TradingDays
    BY <1>1, JobsConstants
  <2>2. setbacks' \in 0..MaxSetbacks /\ quiet' \in 0..QuietCap
    BY <1>1, JobsConstants DEF JobsTypeOK, QuietCap, Settled
  <2>3. QED BY <1>1, <2>1, <2>2 DEF JobsTypeOK
<1>3. QuoteOk(price)'
  BY <1>1 DEF QuoteOk, InSession
<1>4. QED BY <1>1, <1>2, <1>3 DEF ScheduleOk, AttemptOk, LateOk, PassedOk, CycleOk

LEMMA TickKeeps == ASSUME JobsInvariant, Tick PROVE JobsInvariant'
<1> USE DEF JobsInvariant
<1>1. /\ now < MaxTime /\ now' = now + 1
      /\ cycle # Off => now - cycle < MaxCycle
      /\ up /\ attempt = Off => now < schedule.at
      /\ attempt # Off => now - attempt < MaxAttempt
      /\ quiet' = IF up /\ quiet < QuietCap THEN quiet + 1 ELSE quiet
      /\ up' = up /\ price' = price /\ next' = next /\ cycle' = cycle /\ schedule' = schedule
      /\ attempt' = attempt /\ began' = began /\ late' = late /\ ingested' = ingested /\ setbacks' = setbacks
  BY DEF Tick, PricesMayWait, BhavcopyMayWait, prices, bhav
<1>2. /\ now \in Nat /\ DayLength <= now /\ Day(now) \in Nat
      /\ price.at \in Nat /\ price.at <= now /\ quiet \in Nat /\ quiet <= QuietCap
      /\ schedule.date \in Nat /\ schedule.at \in Nat
      /\ (cycle # Off => cycle \in Nat) /\ (attempt # Off => attempt \in Nat)
  BY JobsTypes
<1>3. now' \in Nat /\ Day(now') \in Nat /\ Day(now) <= Day(now')
  BY <1>1, <1>2, DayBounds, DaysFollow
<1>4. JobsTypeOK'
  <2>1. quiet' \in 0..QuietCap
    BY <1>1, <1>2, JobsConstants DEF QuietCap, Settled
  <2>2. now' \in DayLength..MaxTime
    BY <1>1, <1>2, JobsConstants
  <2>3. price'.at <= now'
    BY <1>1, <1>2
  <2>4. QED BY <1>1, <2>1, <2>2, <2>3 DEF JobsTypeOK
<1>5. QuoteOk(price)'
  BY <1>1 DEF QuoteOk, InSession
<1>6. AttemptOk' /\ LateOk'
  <2>1. attempt # Off => attempt <= now' /\ now' <= attempt + MaxAttempt
    BY <1>1, <1>2, JobsConstants DEF AttemptOk
  <2>2. QED BY <1>1, <2>1 DEF AttemptOk, LateOk
<1>7. ScheduleOk'
  <2> SUFFICES ASSUME up PROVE ScheduleOk'
    BY <1>1 DEF ScheduleOk
  <2>1. /\ At(schedule.date, RetryUntil) \in Nat /\ At(schedule.date + 1, 0) \in Nat
        /\ At(schedule.date, RetryUntil) < At(schedule.date + 1, 0)
    BY <1>2, SlotTimes
  <2>2. schedule.at <= now' \/ schedule.at <= At(schedule.date, RetryUntil)
    BY <1>1, <1>2, <2>1 DEF ScheduleOk
  <2>3. ASSUME Day(now') > schedule.date
        PROVE  now' <= At(schedule.date + 1, 0) + MaxAttempt
    <3>1. At(schedule.date + 1, 0) <= now'
      <4>1. At(schedule.date + 1, 0) <= At(Day(now'), 0) /\ At(Day(now'), 0) \in Nat
        <5>1. schedule.date \in Int /\ Day(now') \in Int /\ schedule.date < Day(now')
          BY <1>2, <1>3, <2>3
        <5>2. At(schedule.date + 1, 0) <= At(Day(now'), 0)
          BY <5>1, LaterDays
        <5>3. QED BY <5>1, <5>2, <1>3, ClockTimes
      <4>2. QED BY <4>1, <1>3, <2>1, DayBounds
    <3>2. attempt # Off
      BY <1>1, <1>2, <2>1, <3>1 DEF ScheduleOk
    <3>3. attempt < At(schedule.date + 1, 0)
      BY <1>2, <3>2, DayBounds DEF AttemptOk
    <3>4. QED BY <1>1, <1>2, <2>1, <3>2, <3>3, JobsConstants
  <2>4. QED BY <1>1, <2>2, <2>3 DEF ScheduleOk
<1>8. PassedOk'
  <2> SUFFICES ASSUME up PROVE PassedOk'
    BY <1>1 DEF PassedOk
  <2>1. \A d \in TradingDays : Day(now') <= d => Day(now) <= d
    BY <1>2, <1>3, JobsConstants
  <2>2. QED BY <1>1, <2>1 DEF PassedOk
<1>9. CycleOk'
  <2>1. cycle # Off => cycle <= now' /\ now' <= cycle + MaxCycle
    BY <1>1, <1>2, JobsConstants DEF CycleOk
  <2>2. QED BY <1>1, <2>1 DEF CycleOk
<1>10. QED BY <1>1, <1>4, <1>5, <1>6, <1>7, <1>8, <1>9

LEMMA RunPricesKeeps ==
  ASSUME JobsInvariant, RunPrices, UNCHANGED <<bhav, book>>
  PROVE  JobsInvariant'
<1> USE DEF JobsInvariant
<1>1. /\ up /\ cycle' = (IF cycle = Off THEN now ELSE cycle) /\ next' = NextScheduledRun(now)
      /\ now' = now /\ up' = up /\ price' = price /\ schedule' = schedule
      /\ attempt' = attempt /\ began' = began /\ late' = late /\ ingested' = ingested
      /\ setbacks' = setbacks /\ quiet' = quiet
  BY DEF RunPrices, bhav, book
<1>2. now \in Nat /\ DayLength <= now /\ now <= MaxTime /\ next' \in Nat
  BY <1>1, JobsTypes, NextRunLater
<1>3. JobsTypeOK'
  <2>1. cycle' \in Nat \cup {Off}
    BY <1>1, <1>2 DEF JobsTypeOK
  <2>2. QED BY <1>1, <1>2, <2>1 DEF JobsTypeOK
<1>4. CycleOk'
  <2>1. now <= now + MaxCycle
    BY <1>2, JobsConstants
  <2>2. CASE cycle = Off
    BY <1>1, <1>2, <2>1, <2>2 DEF CycleOk
  <2>3. CASE cycle # Off
    BY <1>1, <2>3 DEF CycleOk
  <2>4. QED BY <2>2, <2>3
<1>5. QuoteOk(price)'
  BY <1>1 DEF QuoteOk, InSession
<1>6. QED BY <1>1, <1>3, <1>4, <1>5 DEF ScheduleOk, AttemptOk, LateOk, PassedOk

\* What a cycle's save offers to the row.
LEMMA CycleQuoteIs ==
  ASSUME JobsInvariant, cycle # Off, NEW t \in (cycle - QuoteDelay)..cycle
  PROVE  /\ t \in Nat /\ t >= OpenTime /\ t <= cycle /\ t <= now /\ cycle \in Nat
         /\ LastTrade(t) \in Nat /\ LastTrade(t) <= now
         /\ LET q == [source |-> "yahoo", at |-> LastTrade(t)]
            IN q \in Row /\ q.source # "seed" /\ QuoteOk(q)
<1>1. cycle \in Nat /\ DayLength <= cycle /\ cycle <= now /\ now \in Nat
  BY JobsTypes DEF JobsInvariant, CycleOk
<1>2. t \in Nat /\ t >= OpenTime /\ t <= cycle /\ t <= now
  BY <1>1, JobsConstants
<1>3. LastTrade(t) \in Nat /\ LastTrade(t) <= t /\ InSession(LastTrade(t))
  BY <1>2, LastTradeIs
<1>4. QED BY <1>1, <1>2, <1>3 DEF Row, QuoteOk

LEMMA CycleSavesKeeps ==
  ASSUME JobsInvariant, CycleSaves, UNCHANGED <<bhav, book>>
  PROVE  JobsInvariant'
<1> USE DEF JobsInvariant
<1>1. /\ cycle # Off /\ cycle' = Off /\ next' = next
      /\ now' = now /\ up' = up /\ schedule' = schedule
      /\ attempt' = attempt /\ began' = began /\ late' = late /\ ingested' = ingested
      /\ setbacks' = setbacks /\ quiet' = quiet
  BY DEF CycleSaves, bhav, book
<1>2. PICK t \in (cycle - QuoteDelay)..cycle : price' = Saved([source |-> "yahoo", at |-> LastTrade(t)])
  BY DEF CycleSaves
<1> DEFINE q == [source |-> "yahoo", at |-> LastTrade(t)]
<1>3. q \in Row /\ q.source # "seed" /\ QuoteOk(q) /\ q.at <= now
  BY <1>1, CycleQuoteIs
<1>4. price' = Saved(q)
  BY <1>2
<1> HIDE DEF q
<1>5. price' \in Row /\ QuoteOk(price') /\ price' \in {price, q}
  BY <1>3, <1>4, SavedIs, JobsTypes
<1>6. price'.at <= now
  BY <1>3, <1>5, JobsTypes
<1>7. JobsTypeOK'
  BY <1>1, <1>5, <1>6 DEF JobsTypeOK
<1>8. QED BY <1>1, <1>5, <1>7 DEF ScheduleOk, AttemptOk, LateOk, PassedOk, CycleOk

LEMMA CycleFailsKeeps ==
  ASSUME JobsInvariant, CycleFails, setbacks < MaxSetbacks, setbacks' = setbacks + 1, quiet' = 0, UNCHANGED bhav
  PROVE  JobsInvariant'
<1> USE DEF JobsInvariant
<1>1. /\ cycle' = Off /\ next' = next
      /\ now' = now /\ up' = up /\ price' = price /\ schedule' = schedule
      /\ attempt' = attempt /\ began' = began /\ late' = late /\ ingested' = ingested
  BY DEF CycleFails, bhav
<1>2. JobsTypeOK'
  <2>1. setbacks' \in 0..MaxSetbacks /\ quiet' \in 0..QuietCap
    BY JobsConstants DEF JobsTypeOK, QuietCap, Settled
  <2>2. QED BY <1>1, <2>1 DEF JobsTypeOK
<1>3. QuoteOk(price)'
  BY <1>1 DEF QuoteOk, InSession
<1>4. QED BY <1>1, <1>2, <1>3 DEF ScheduleOk, AttemptOk, LateOk, PassedOk, CycleOk

LEMMA RescheduleKeeps ==
  ASSUME JobsInvariant, Reschedule, UNCHANGED <<prices, book>>
  PROVE  JobsInvariant'
<1> USE DEF JobsInvariant
<1>1. /\ up /\ attempt = Off /\ Day(now) > schedule.date /\ schedule' = FirstSchedule(now) /\ late' = 0
      /\ now' = now /\ up' = up /\ price' = price /\ attempt' = attempt /\ began' = began
      /\ ingested' = ingested /\ next' = next /\ cycle' = cycle /\ setbacks' = setbacks /\ quiet' = quiet
  BY DEF Reschedule, prices, book
<1>2. /\ now \in Nat /\ now <= MaxTime /\ Day(now) \in Nat /\ schedule.date \in Nat
  BY JobsTypes
<1>3. /\ schedule'.date \in TradingDays /\ schedule'.date \in Nat /\ schedule'.date >= Day(now)
      /\ \A e \in TradingDays : e >= Day(now) => schedule'.date <= e
      /\ schedule'.at \in Nat /\ schedule'.at >= At(schedule'.date, FirstAttempt)
      /\ schedule'.at <= now \/ schedule'.at <= At(schedule'.date, RetryUntil)
  BY <1>1, <1>2, FirstScheduleIs
<1>4. JobsTypeOK'
  BY <1>1, <1>3 DEF JobsTypeOK
<1>5. QuoteOk(price)'
  BY <1>1 DEF QuoteOk, InSession
<1>6. ScheduleOk' /\ AttemptOk' /\ LateOk' /\ CycleOk'
  <2>1. ~(Day(now) > schedule'.date)
    BY <1>2, <1>3
  <2>2. At(schedule'.date, FirstAttempt) \in Nat
    BY <1>3, SlotTimes
  <2>3. QED BY <1>1, <1>2, <1>3, <2>1, <2>2 DEF ScheduleOk, AttemptOk, LateOk, CycleOk
<1>7. PassedOk'
  <2>1. \A d \in TradingDays : ~(Day(now) <= d /\ d < schedule'.date)
    BY <1>2, <1>3, JobsConstants
  <2>2. \A d \in ingested : d < schedule'.date
    <3>1. \A d \in ingested : d < schedule.date /\ d \in Nat
      BY <1>1, JobsConstants DEF PassedOk, JobsTypeOK
    <3>2. QED BY <1>1, <1>2, <1>3, <3>1
  <2>3. QED BY <1>1, <2>1, <2>2 DEF PassedOk
<1>8. QED BY <1>1, <1>4, <1>5, <1>6, <1>7

LEMMA BeginAttemptKeeps ==
  ASSUME JobsInvariant, BeginAttempt, UNCHANGED <<prices, book>>
  PROVE  JobsInvariant'
<1> USE DEF JobsInvariant
<1>1. /\ up /\ attempt = Off /\ now >= schedule.at /\ Day(now) <= schedule.date /\ attempt' = now
      /\ began' = [began EXCEPT ![schedule.date] = now]
      /\ late' = IF now > At(schedule.date, RetryUntil) THEN late + 1 ELSE late
      /\ now' = now /\ up' = up /\ price' = price /\ schedule' = schedule
      /\ ingested' = ingested /\ next' = next /\ cycle' = cycle /\ setbacks' = setbacks /\ quiet' = quiet
  BY DEF BeginAttempt, prices, book
<1>2. /\ now \in Nat /\ Day(now) \in Nat /\ schedule.date \in Nat /\ schedule.date \in TradingDays
      /\ schedule.at \in Nat
  BY JobsTypes
<1>3. Day(now) = schedule.date
  <2>1. At(schedule.date, 0) <= now
    BY <1>1, <1>2, SlotTimes DEF ScheduleOk
  <2>2. now < At(Day(now) + 1, 0) /\ At(Day(now) + 1, 0) \in Nat /\ At(schedule.date, 0) \in Nat
    BY <1>2, DayBounds, SlotTimes
  <2>3. ~(Day(now) < schedule.date)
    BY <1>2, <2>1, <2>2, LaterDays
  <2>4. QED BY <1>1, <1>2, <2>3
<1>4. late = 0
  BY <1>1 DEF LateOk
<1>5. JobsTypeOK'
  <2>1. began' \in [TradingDays -> Nat \cup {Off}] /\ late' \in Nat
    BY <1>1, <1>2, <1>4 DEF JobsTypeOK
  <2>2. QED BY <1>1, <1>2, <2>1 DEF JobsTypeOK
<1>6. QuoteOk(price)' /\ ScheduleOk' /\ CycleOk'
  BY <1>1 DEF QuoteOk, InSession, ScheduleOk, CycleOk
<1>7. AttemptOk' /\ LateOk'
  <2>1. began'[schedule.date] = now
    BY <1>1, <1>2 DEF JobsTypeOK
  <2>2. now # Off /\ now <= now + MaxAttempt
    BY <1>2, JobsConstants
  <2>3. QED BY <1>1, <1>2, <1>3, <1>4, <2>1, <2>2 DEF AttemptOk, LateOk
<1>8. PassedOk'
  <2>1. \A d \in TradingDays : d < schedule.date => began'[d] = began[d]
    BY <1>1, <1>2, JobsConstants DEF JobsTypeOK
  <2>2. QED BY <1>1, <2>1 DEF PassedOk
<1>9. QED BY <1>1, <1>5, <1>6, <1>7, <1>8

\* What an attempt offers to the row: the close of its date, which is past.
LEMMA AttemptQuoteIs ==
  ASSUME JobsInvariant, attempt # Off
  PROVE  /\ schedule.date <= Day(MaxTime) /\ attempt >= At(schedule.date, FirstAttempt) /\ attempt \in Nat
         /\ LET q == [source |-> "bhavcopy", at |-> SessionClose(schedule.date)]
            IN q \in Row /\ q.source # "seed" /\ QuoteOk(q) /\ q.at <= now
<1>1. /\ attempt \in Nat /\ attempt <= now /\ now \in Nat /\ now <= MaxTime /\ MaxTime \in Nat
      /\ schedule.date \in Nat /\ schedule.date \in TradingDays /\ schedule.at \in Nat
      /\ Day(attempt) = schedule.date /\ schedule.at <= attempt
      /\ At(schedule.date, FirstAttempt) <= schedule.at
  BY JobsTypes, JobsConstants DEF JobsInvariant, AttemptOk, ScheduleOk
<1>2. schedule.date <= Day(MaxTime)
  BY <1>1, DaysFollow
<1>3. At(schedule.date, FirstAttempt) \in Nat /\ SessionClose(schedule.date) <= At(schedule.date, FirstAttempt)
  <2>1. /\ At(schedule.date, 0) \in Nat /\ At(schedule.date, FirstAttempt) = At(schedule.date, 0) + FirstAttempt
        /\ SessionClose(schedule.date) = At(schedule.date, 0) + CloseTime
    BY <1>1, SlotTimes, SessionTimes
  <2>2. CloseTime \in Nat /\ FirstAttempt \in Nat /\ CloseTime <= FirstAttempt
    BY JobsConstants
  <2>3. QED BY <2>1, <2>2
<1>4. /\ SessionClose(schedule.date) \in Nat /\ SessionOpen(schedule.date) <= SessionClose(schedule.date)
      /\ Day(SessionClose(schedule.date)) = schedule.date /\ SessionOpen(schedule.date) \in Nat
  BY <1>1, SessionTimes
<1>5. InSession(SessionClose(schedule.date))
  BY <1>1, <1>4 DEF InSession
<1>6. QED BY <1>1, <1>2, <1>3, <1>4, <1>5 DEF Row, QuoteOk

LEMMA EndAttemptKeeps ==
  ASSUME JobsInvariant, NEW success \in BOOLEAN, NEW saves \in BOOLEAN, EndAttempt(success, saves),
         UNCHANGED <<prices, book>>
  PROVE  JobsInvariant'
<1> USE DEF JobsInvariant
<1> DEFINE q == [source |-> "bhavcopy", at |-> SessionClose(schedule.date)]
<1>1. /\ attempt # Off
      /\ price' = (IF saves THEN Saved(q) ELSE price)
      /\ ingested' = (IF success THEN ingested \cup {schedule.date} ELSE ingested)
      /\ schedule' = (IF success THEN NextDaySchedule(schedule.date) ELSE RetrySchedule(schedule.date, attempt))
      /\ late' = (IF schedule'.date = schedule.date THEN late ELSE 0)
      /\ attempt' = Off
      /\ now' = now /\ up' = up /\ began' = began /\ next' = next /\ cycle' = cycle
      /\ setbacks' = setbacks /\ quiet' = quiet
  BY DEF EndAttempt, ScheduleAfter, prices, book
<1>2. /\ q \in Row /\ q.source # "seed" /\ QuoteOk(q) /\ q.at <= now
      /\ schedule.date <= Day(MaxTime) /\ attempt >= At(schedule.date, FirstAttempt) /\ attempt \in Nat
  BY <1>1, AttemptQuoteIs
<1>3. /\ now \in Nat /\ Day(now) \in Nat /\ schedule.date \in Nat /\ schedule.date \in TradingDays
      /\ schedule.at \in Nat /\ price \in Row /\ price.at <= now
  BY JobsTypes
<1> HIDE DEF q
<1>4. price' \in Row /\ QuoteOk(price') /\ price'.at <= now
  <2>1. CASE saves
    <3>1. price' \in Row /\ QuoteOk(price') /\ price' \in {price, q}
      BY <1>1, <1>2, <2>1, SavedIs, JobsTypes
    <3>2. QED BY <3>1, <1>2, <1>3
  <2>2. CASE ~saves
    BY <1>1, <1>3, <2>2
  <2>3. QED BY <2>1, <2>2
<1>5. \/ /\ schedule' = NextDaySchedule(schedule.date)
         /\ success \/ attempt > At(schedule.date, RetryUntil) - RetryInterval
      \/ /\ ~success /\ schedule'.date = schedule.date /\ schedule'.at \in Nat
         /\ schedule'.at > attempt /\ schedule'.at <= At(schedule.date, RetryUntil)
  BY <1>1, <1>2, <1>3, RetryScheduleIs
<1>6. /\ At(schedule.date, FirstAttempt) \in Nat /\ At(schedule.date, RetryUntil) \in Nat
      /\ At(schedule.date + 1, 0) \in Nat
  BY <1>3, SlotTimes
<1>7. CASE /\ schedule' = NextDaySchedule(schedule.date)
           /\ success \/ attempt > At(schedule.date, RetryUntil) - RetryInterval
  <2>1. /\ schedule'.date \in TradingDays /\ schedule'.date \in Nat /\ schedule'.date > schedule.date
        /\ \A e \in TradingDays : e > schedule.date => schedule'.date <= e
        /\ schedule'.at \in Nat /\ schedule'.at = At(schedule'.date, FirstAttempt)
        /\ schedule'.at <= At(schedule'.date, RetryUntil)
    BY <1>2, <1>3, <1>7, NextDayScheduleIs
  <2>2. late' = 0
    BY <1>1, <1>3, <2>1
  <2>3. ingested' \subseteq TradingDays
    BY <1>1, <1>3 DEF JobsTypeOK
  <2>4. JobsTypeOK'
    BY <1>1, <1>4, <2>1, <2>2, <2>3 DEF JobsTypeOK
  <2>5. ScheduleOk'
    <3>1. At(schedule.date + 1, 0) <= At(schedule'.date, 0) /\ At(schedule'.date, 0) \in Nat
          /\ At(schedule'.date, 0) <= At(schedule'.date + 1, 0) /\ At(schedule'.date + 1, 0) \in Nat
      <4>1. schedule.date \in Int /\ schedule'.date \in Int /\ schedule.date < schedule'.date
        BY <1>3, <2>1
      <4>2. At(schedule.date + 1, 0) <= At(schedule'.date, 0)
        BY <4>1, LaterDays
      <4>3. /\ At(schedule'.date, 0) \in Nat /\ At(schedule'.date + 1, 0) \in Nat
            /\ At(schedule'.date + 1, 0) = At(schedule'.date, 0) + DayLength
        BY <2>1, SessionTimes
      <4>4. QED BY <4>2, <4>3, JobsConstants
    <3>2. Day(now) > schedule'.date => now <= At(schedule'.date + 1, 0) + MaxAttempt
      <4> SUFFICES ASSUME Day(now) > schedule'.date PROVE now <= At(schedule'.date + 1, 0) + MaxAttempt
        OBVIOUS
      <4>1. Day(now) > schedule.date
        BY <1>3, <2>1
      <4>2. now <= At(schedule.date + 1, 0) + MaxAttempt
        BY <1>1, <4>1 DEF ScheduleOk, AttemptOk
      <4>3. QED BY <3>1, <4>2, <1>3, <1>6, JobsConstants
    <3>3. At(schedule'.date, FirstAttempt) <= schedule'.at
      BY <2>1
    <3>4. QED BY <1>1, <2>1, <3>2, <3>3 DEF ScheduleOk
  <2>6. AttemptOk' /\ LateOk' /\ CycleOk'
    BY <1>1, <2>2 DEF AttemptOk, LateOk, CycleOk
  <2>7. PassedOk'
    <3> SUFFICES ASSUME up PROVE PassedOk'
      BY <1>1 DEF PassedOk
    <3>1. \A d \in ingested' : d < schedule'.date
      <4>1. \A d \in ingested : d < schedule.date /\ d \in Nat
        BY JobsConstants DEF PassedOk, JobsTypeOK
      <4>2. QED BY <4>1, <1>1, <1>3, <2>1
    <3>2. ASSUME NEW d \in TradingDays, Day(now) <= d, d < schedule'.date
          PROVE  d \in ingested' \/ (began[d] # Off /\ began[d] > At(d, RetryUntil) - RetryInterval)
      <4>1. d \in Nat /\ d <= schedule.date
        BY <3>2, <1>3, <2>1, JobsConstants
      <4>2. CASE d = schedule.date
        BY <1>1, <1>2, <1>7, <4>2, JobsConstants DEF AttemptOk
      <4>3. CASE d < schedule.date
        BY <1>1, <3>2, <4>3 DEF PassedOk
      <4>4. QED BY <1>3, <4>1, <4>2, <4>3
    <3>3. QED BY <1>1, <3>1, <3>2 DEF PassedOk
  <2>8. QED BY <1>1, <1>4, <2>4, <2>5, <2>6, <2>7
<1>8. CASE /\ ~success /\ schedule'.date = schedule.date /\ schedule'.at \in Nat
           /\ schedule'.at > attempt /\ schedule'.at <= At(schedule.date, RetryUntil)
  <2>1. late = 0 /\ late' = 0
    BY <1>1, <1>2, <1>6, <1>8 DEF LateOk
  <2>2. ingested' = ingested
    BY <1>1, <1>8
  <2>3. JobsTypeOK'
    BY <1>1, <1>3, <1>4, <1>8, <2>1, <2>2 DEF JobsTypeOK
  <2>4. ScheduleOk'
    <3>1. At(schedule.date, FirstAttempt) <= schedule'.at
      BY <1>2, <1>6, <1>8
    <3>2. QED BY <1>1, <1>8, <3>1 DEF ScheduleOk, AttemptOk
  <2>5. AttemptOk' /\ LateOk' /\ CycleOk'
    BY <1>1, <2>1 DEF AttemptOk, LateOk, CycleOk
  <2>6. PassedOk'
    BY <1>1, <1>8, <2>2 DEF PassedOk
  <2>7. QED BY <1>1, <1>4, <2>3, <2>4, <2>5, <2>6
<1>9. QED BY <1>5, <1>7, <1>8

LEMMA JobsStep == ASSUME JobsInvariant, [JobsNext]_jobsVars PROVE JobsInvariant'
<1>1. CASE Start
  BY <1>1, StartKeeps
<1>2. CASE Stop
  BY <1>2, StopKeeps
<1>3. CASE Tick
  BY <1>3, TickKeeps
<1>4. CASE PriceJob /\ UNCHANGED bhav
  <2>1. CASE RunPrices /\ UNCHANGED book
    BY <2>1, <1>4, RunPricesKeeps
  <2>2. CASE CycleSaves /\ UNCHANGED book
    BY <2>2, <1>4, CycleSavesKeeps
  <2>3. CASE CycleFails /\ setbacks < MaxSetbacks /\ setbacks' = setbacks + 1 /\ quiet' = 0
    BY <2>3, <1>4, CycleFailsKeeps
  <2>4. QED BY <1>4, <2>1, <2>2, <2>3 DEF PriceJob
<1>5. CASE BhavcopyJob /\ UNCHANGED <<prices, book>>
  BY <1>5, RescheduleKeeps, BeginAttemptKeeps, EndAttemptKeeps DEF BhavcopyJob
<1>6. CASE UNCHANGED jobsVars
  <2>1. /\ now' = now /\ up' = up /\ price' = price /\ next' = next /\ cycle' = cycle /\ schedule' = schedule
        /\ attempt' = attempt /\ began' = began /\ late' = late /\ ingested' = ingested
        /\ setbacks' = setbacks /\ quiet' = quiet
    BY <1>6 DEF jobsVars, own, prices, bhav, book
  <2>2. JobsTypeOK'
    BY <2>1 DEF JobsInvariant, JobsTypeOK
  <2>3. QED BY <2>1, <2>2 DEF JobsInvariant, QuoteOk, InSession, ScheduleOk, AttemptOk, LateOk, PassedOk, CycleOk
<1>7. QED BY <1>1, <1>2, <1>3, <1>4, <1>5, <1>6 DEF JobsNext, Finished

\* The process's invariant always holds: the times of the row, the slots, the
\* attempts and the cycles are what the schedulers make them.
THEOREM JobsRun == JobsSpec => []JobsInvariant
<1>1. JobsInit => JobsInvariant
  BY JobsInitial
<1>2. JobsInvariant /\ [JobsNext]_jobsVars => JobsInvariant'
  BY JobsStep
<1>3. QED BY <1>1, <1>2, PTL DEF JobsSpec

\* An attempt begins on its own date, once it is time, never for a date that is
\* ingested, and at most once after the window (OncePerDate).
THEOREM AttemptsAreSlotted == JobsSpec => OncePerDate
<1> DEFINE Slotted == attempt = Off /\ attempt' # Off =>
                        /\ Day(now) = schedule.date /\ now >= At(schedule.date, FirstAttempt)
                        /\ schedule.date \notin ingested /\ late' <= 1
<1>1. ASSUME JobsInvariant, [JobsNext]_jobsVars, attempt = Off, attempt' # Off PROVE Slotted
  <2> USE DEF JobsInvariant
  <2>1. BeginAttempt
    BY <1>1 DEF JobsNext, Start, Stop, Tick, PriceJob, BhavcopyJob, Finished, jobsVars, bhav, StartBhavcopy,
                StopBhavcopy, Reschedule, EndAttempt
  <2>2. UNCHANGED <<prices, book>>
    BY <1>1, <2>1 DEF JobsNext, Start, Stop, Tick, PriceJob, BhavcopyJob, Finished, jobsVars, bhav, StartBhavcopy,
                StopBhavcopy, BeginAttempt
  <2>3. JobsInvariant' /\ schedule' = schedule /\ ingested' = ingested /\ attempt' = now
    BY <1>1, <2>1, JobsStep DEF BeginAttempt
  <2>4. Day(now) = schedule.date /\ up /\ now >= schedule.at
    BY <1>1, <2>1, <2>3 DEF AttemptOk, BeginAttempt
  <2>5. late' <= 1
    BY <2>3 DEF LateOk
  <2>6. now >= At(schedule.date, FirstAttempt)
    <3>1. At(schedule.date, FirstAttempt) <= schedule.at
      BY <1>1, <2>4 DEF ScheduleOk
    <3>2. now \in Nat /\ schedule.at \in Nat /\ At(schedule.date, FirstAttempt) \in Nat
      BY <1>1, JobsTypes, SlotTimes
    <3>3. QED BY <3>1, <3>2, <2>4
  <2>7. schedule.date \notin ingested
    <3>1. \A d \in ingested : d < schedule.date
      BY <1>1, <2>4 DEF PassedOk
    <3>2. ~(schedule.date < schedule.date)
      BY <1>1, JobsTypes
    <3>3. QED BY <3>1, <3>2
  <2>8. QED BY <2>4, <2>5, <2>6, <2>7
<1>2. JobsInvariant /\ [JobsNext]_jobsVars => [Slotted]_jobsVars
  BY <1>1
<1> HIDE DEF Slotted
<1>3. JobsSpec => [][Slotted]_jobsVars
  BY <1>2, JobsRun, PTL DEF JobsSpec
<1>4. QED BY <1>3 DEF Slotted, OncePerDate

\* Time passes only in a tick, and the row only gets newer.
LEMMA RowGrows ==
  ASSUME JobsInvariant, [JobsNext]_jobsVars
  PROVE  /\ now' = now \/ Tick
         /\ Tick => now' = now + 1 /\ price' = price
         /\ price.source # "seed" => price'.source # "seed" /\ price'.at >= price.at
<1> USE DEF JobsInvariant
<1>1. price \in Row /\ price.at \in Nat /\ price.at >= price.at
  BY JobsTypes
<1>2. now' = now \/ Tick
  BY DEF JobsNext, Start, Stop, PriceJob, RunPrices, CycleSaves, CycleFails, BhavcopyJob, Reschedule,
         BeginAttempt, EndAttempt, Finished, jobsVars, own
<1>3. Tick => now' = now + 1 /\ price' = price
  BY DEF Tick
<1>4. CASE price' = price
  BY <1>1, <1>2, <1>3, <1>4
<1>5. CASE price' # price /\ CycleSaves
  <2>1. PICK t \in (cycle - QuoteDelay)..cycle : price' = Saved([source |-> "yahoo", at |-> LastTrade(t)])
    BY <1>5 DEF CycleSaves
  <2>2. LET q == [source |-> "yahoo", at |-> LastTrade(t)]
        IN q \in Row /\ q.source # "seed" /\ QuoteOk(q)
    BY <1>5, CycleQuoteIs DEF CycleSaves
  <2>3. price.source # "seed" => price'.source # "seed" /\ price'.at >= price.at
    BY <1>1, <2>1, <2>2, SavedIs
  <2>4. QED BY <1>2, <1>3, <2>3
<1>6. CASE price' # price /\ \E success, saves \in BOOLEAN : EndAttempt(success, saves)
  <2>1. PICK success \in BOOLEAN, saves \in BOOLEAN : EndAttempt(success, saves)
    BY <1>6
  <2>2. price' = Saved([source |-> "bhavcopy", at |-> SessionClose(schedule.date)]) /\ attempt # Off
    BY <1>6, <2>1 DEF EndAttempt
  <2>3. LET q == [source |-> "bhavcopy", at |-> SessionClose(schedule.date)]
        IN q \in Row /\ q.source # "seed" /\ QuoteOk(q)
    BY <2>2, AttemptQuoteIs
  <2>4. price.source # "seed" => price'.source # "seed" /\ price'.at >= price.at
    BY <1>1, <2>2, <2>3, SavedIs
  <2>5. QED BY <1>2, <1>3, <2>4
<1>7. price' = price \/ CycleSaves \/ \E success, saves \in BOOLEAN : EndAttempt(success, saves)
  BY DEF JobsNext, Start, Stop, Tick, PriceJob, RunPrices, CycleFails, BhavcopyJob, Reschedule,
         BeginAttempt, Finished, jobsVars, own
<1>8. QED BY <1>4, <1>5, <1>6, <1>7

\* The reference close does not change while the market stays closed.
LEMMA ClosedStays ==
  ASSUME NEW t \in Nat, t >= SessionClose(0), ~IsOpen(t)
  PROVE  LastCompletedSessionClose(t + 1) = LastCompletedSessionClose(t)
<1>1. PICK d \in TradingDays :
         /\ d \in Nat /\ LastCompletedSessionClose(t) = SessionClose(d)
         /\ SessionClose(d) <= t /\ \A e \in TradingDays : SessionClose(e) <= t => e <= d
  BY LastCloseIs
<1>2. t + 1 \in Nat /\ t + 1 >= SessionClose(0)
  BY SessionTimes
<1>3. PICK f \in TradingDays :
         /\ f \in Nat /\ LastCompletedSessionClose(t + 1) = SessionClose(f)
         /\ SessionClose(f) <= t + 1 /\ \A e \in TradingDays : SessionClose(e) <= t + 1 => e <= f
  <2> DEFINE u == t + 1
  <2>1. u \in Nat /\ u >= SessionClose(0)
    BY <1>2
  <2> HIDE DEF u
  <2>2. \E g \in TradingDays :
          /\ g \in Nat /\ LastCompletedSessionClose(u) = SessionClose(g)
          /\ SessionClose(g) <= u /\ \A e \in TradingDays : SessionClose(e) <= u => e <= g
    BY <2>1, LastCloseIs
  <2>3. QED BY <2>2 DEF u
<1>4. /\ SessionClose(d) \in Nat /\ SessionClose(f) \in Nat /\ SessionOpen(f) \in Nat
      /\ SessionOpen(f) < SessionClose(f) /\ At(f, 0) <= SessionOpen(f)
      /\ SessionClose(f) < At(f + 1, 0) /\ At(f, 0) \in Nat /\ At(f + 1, 0) \in Nat
  BY <1>1, <1>3, SessionTimes, JobsConstants
<1>5. d <= f
  BY <1>1, <1>3, <1>4
<1>6. SessionClose(f) # t + 1
  <2> SUFFICES ASSUME SessionClose(f) = t + 1 PROVE FALSE
    OBVIOUS
  <2>1. SessionOpen(f) <= t /\ t < SessionClose(f)
    BY <1>4
  <2>2. Day(t) = f
    BY <1>4, <1>3, <2>1, TheDay
  <2>3. QED BY <2>1, <2>2, <1>3 DEF IsOpen, IsTradingDay
<1>7. f <= d
  BY <1>1, <1>3, <1>4, <1>6
<1>8. QED BY <1>1, <1>3, <1>5, <1>7

\* The clock starts after the first session.
LEMMA PastFirstClose ==
  ASSUME NEW t \in Nat, t >= DayLength
  PROVE  t >= SessionClose(0)
<1>1. At(0, 0) = 0 /\ SessionClose(0) = At(0, 0) + CloseTime
  BY SessionTimes, JobsConstants DEF At
<1>2. QED BY <1>1, JobsConstants

\* Outside the session a fresh price stays fresh until the next open
\* (FreshStays).
THEOREM ClosedMarketKeepsFresh == JobsSpec => FreshStays
<1> DEFINE Stays == ~IsOpen(now) /\ Fresh(price, now) /\ ~IsOpen(now') => Fresh(price', now')
<1>1. ASSUME JobsInvariant, [JobsNext]_jobsVars, ~IsOpen(now), Fresh(price, now), ~IsOpen(now')
      PROVE  Fresh(price', now')
  <2> USE DEF JobsInvariant
  <2>1. /\ now \in Nat /\ now >= DayLength /\ price.at \in Nat /\ price.at <= now
    BY <1>1, JobsTypes
  <2>2. price'.at <= now' /\ price'.at \in Nat /\ now' \in Nat
    <3>1. JobsTypeOK'
      BY <1>1, JobsStep
    <3>2. QED BY <3>1, JobsConstants DEF JobsTypeOK, Row
  <2>3. LastCompletedSessionClose(now') = LastCompletedSessionClose(now)
    BY <1>1, <2>1, RowGrows, ClosedStays, PastFirstClose
  <2>4. LastCompletedSessionClose(now) \in Nat
    <3>1. now >= SessionClose(0)
      BY <2>1, PastFirstClose
    <3>2. PICK d \in TradingDays : d \in Nat /\ LastCompletedSessionClose(now) = SessionClose(d)
      BY <2>1, <3>1, LastCloseIs
    <3>3. QED BY <3>2, SessionTimes
  <2>5. price.source # "seed" /\ LastCompletedSessionClose(now) - CloseGrace <= price.at
    BY <1>1 DEF Fresh, FreshFrom
  <2>6. price'.source # "seed" /\ price'.at >= price.at
    BY <1>1, <2>5, RowGrows
  <2>7. LastCompletedSessionClose(now') - CloseGrace <= price'.at /\ price'.at <= now' + FutureSkew
    BY <2>1, <2>2, <2>3, <2>4, <2>5, <2>6, JobsConstants
  <2>8. QED BY <1>1, <2>6, <2>7 DEF Fresh, FreshFrom
<1>2. JobsInvariant /\ [JobsNext]_jobsVars => [Stays]_jobsVars
  BY <1>1
<1> HIDE DEF Stays
<1>3. JobsSpec => [][Stays]_jobsVars
  BY <1>2, JobsRun, PTL DEF JobsSpec
<1>4. QED BY <1>3 DEF Stays, FreshStays

\* If an attempt takes no longer than from midnight to the window's end, a
\* process that is up has the day's file at the end of the window, or tried to
\* the end (RetriesToTheEnd).
THEOREM AttemptsFillTheWindow ==
  ASSUME MaxAttempt <= RetryUntil
  PROVE  JobsSpec => []RetriesToTheEnd
<1>1. ASSUME JobsInvariant PROVE RetriesToTheEnd
  <2> USE DEF JobsInvariant
  <2> DEFINE thisDay == Day(now)
  <2>1. /\ now \in Nat /\ thisDay \in Nat /\ schedule.date \in Nat /\ schedule.at \in Nat
    BY <1>1, JobsTypes
  <2> SUFFICES ASSUME up, IsTradingDay(thisDay), now > At(thisDay, RetryUntil)
               PROVE  \/ thisDay \in ingested
                      \/ schedule.date = thisDay /\ (attempt # Off \/ now >= schedule.at)
                      \/ began[thisDay] # Off /\ began[thisDay] > At(thisDay, RetryUntil) - RetryInterval
    BY DEF RetriesToTheEnd
  <2>2. /\ At(thisDay, RetryUntil) = At(thisDay, 0) + RetryUntil /\ At(thisDay, 0) \in Nat
        /\ At(thisDay, RetryUntil) \in Nat
    BY <2>1, SlotTimes
  <2>3. CASE schedule.date = thisDay
    BY <1>1, <2>1, <2>2, <2>3 DEF ScheduleOk
  <2>4. CASE schedule.date > thisDay
    <3>1. thisDay \in TradingDays /\ thisDay <= thisDay
      BY <2>1 DEF IsTradingDay
    <3>2. QED BY <1>1, <2>4, <3>1 DEF PassedOk
  <2>5. CASE schedule.date < thisDay
    <3>1. now <= At(schedule.date + 1, 0) + MaxAttempt
      BY <1>1, <2>5 DEF ScheduleOk
    <3>2. At(schedule.date + 1, 0) <= At(thisDay, 0) /\ At(schedule.date + 1, 0) \in Nat
      <4>1. schedule.date \in Int /\ thisDay \in Int /\ schedule.date < thisDay
        BY <2>1, <2>5
      <4>2. QED BY <4>1, <2>1, LaterDays, SlotTimes
    <3>3. QED BY <3>1, <3>2, <2>1, <2>2, JobsConstants
  <2>6. QED BY <2>1, <2>3, <2>4, <2>5
<1>2. QED BY <1>1, JobsRun, PTL

-----------------------------------------------------------------------------
(* How fresh the price jobs keep the row *)

\* The timer is what nextScheduledRun says, until it is due.
TimerOk ==
  up => /\ now <= next
        /\ now < next => next = NextScheduledRun(now)
        /\ now = next => next = NextScheduledRun(now - 1)

\* A cycle is over when the timer fires again, except after a recent trouble.
SkipOk == cycle # Off => quiet <= now - cycle \/ next > cycle + MaxCycle

\* The row has a quote of thisDay's session from t or later.
Since(t) == price.source # "seed" /\ price.at >= t /\ price.at >= SessionOpen(Day(now))

\* The end of the tick that runs: the timer, or the close before the final quote.
TickEnd == IF next <= SessionClose(Day(now)) THEN next ELSE SessionClose(Day(now))

\* In the session, between two cycles the row is as fresh as the last tick's
\* cycle left it, and during one as the cycle before that.
SessionOk ==
  LET open == SessionOpen(Day(now))
  IN up /\ IsOpen(now) =>
       /\ TickEnd <= now + TickInterval
       /\ cycle = Off => \/ TickEnd <= open + TickInterval
                         \/ quiet + TickEnd <= now + TickInterval + MaxCycle
                         \/ Since(TickEnd - TickInterval - QuoteDelay)
       /\ cycle # Off => \/ quiet + TickEnd <= now + TickInterval + MaxCycle
                         \/ /\ cycle >= TickEnd - TickInterval
                            /\ \/ cycle <= open + TickInterval
                               \/ quiet <= now - cycle + TickInterval + MaxCycle
                               \/ Since(cycle - TickInterval - QuoteDelay)
       /\ cycle # Off => \/ quiet <= now - cycle
                         \/ cycle >= open + TickInterval
                         \/ TickEnd <= open + TickInterval

\* Once the final quote's timer fired, its cycle runs or has saved the close.
FinalOk ==
  LET thisDay == Day(now)
  IN up /\ IsTradingDay(thisDay) /\ now >= Final(thisDay) /\ next # Final(thisDay) =>
       \/ price.source # "seed" /\ price.at >= SessionClose(thisDay) - CloseGrace
       \/ cycle = Final(thisDay)
       \/ quiet <= now - Final(thisDay) + MaxCycle

QuoteInvariant == TimerOk /\ SkipOk /\ SessionOk /\ FinalOk

\* The next slot stays the next one until it is reached.
LEMMA GridSteady ==
  ASSUME NEW x \in Nat, NEW k \in Nat, k > 0, x + 1 < (x \div k + 1) * k
  PROVE  (x + 1) \div k = x \div k
<1> DEFINE q == x \div k
           r == (x + 1) \div k
<1>1. q \in Nat /\ x = (q * k) + (x % k) /\ x % k \in 0..(k - 1)
  OBVIOUS
<1>2. r \in Nat /\ x + 1 = (r * k) + ((x + 1) % k) /\ (x + 1) % k \in 0..(k - 1)
  OBVIOUS
<1>3. x + 1 < (q + 1) * k
  OBVIOUS
<1> HIDE DEF q, r
<1>4. q * k \in Nat /\ r * k \in Nat /\ (q + 1) * k = q * k + k /\ (r + 1) * k = r * k + k
  BY <1>1, <1>2
<1>5. ~(q < r)
  <2> SUFFICES ASSUME q < r PROVE FALSE
    OBVIOUS
  <2>1. PICK j \in Nat : r = q + 1 + j
    <3>1. r - (q + 1) \in Nat /\ r = q + 1 + (r - (q + 1))
      BY <1>1, <1>2
    <3>2. QED BY <3>1
  <2>2. r * k = (q + 1) * k + j * k /\ j * k \in Nat
    BY <2>1, <1>1
  <2>3. (q + 1) * k \in Nat /\ (x + 1) % k >= 0
    BY <1>1, <1>2
  <2>4. QED BY <2>2, <2>3, <1>2, <1>3, <1>4
<1>6. ~(r < q)
  <2> SUFFICES ASSUME r < q PROVE FALSE
    OBVIOUS
  <2>1. PICK j \in Nat : q = r + 1 + j
    <3>1. q - (r + 1) \in Nat /\ q = r + 1 + (q - (r + 1))
      BY <1>1, <1>2
    <3>2. QED BY <3>1
  <2>2. q * k = (r + 1) * k + j * k /\ j * k \in Nat
    BY <2>1, <1>2
  <2>3. QED BY <2>2, <1>1, <1>2, <1>4
<1>7. q = r
  BY <1>1, <1>2, <1>5, <1>6
<1>8. QED BY <1>7 DEF q, r

\* A slot is a multiple of the interval.
LEMMA GridExact ==
  ASSUME NEW j \in Nat, NEW k \in Nat, k > 0
  PROVE  (j * k) \div k = j
<1> DEFINE x == j * k
           q == x \div k
<1>1. x \in Nat
  OBVIOUS
<1>2. q \in Nat /\ x = (q * k) + (x % k) /\ x % k \in 0..(k - 1)
  <2> HIDE DEF x
  <2>1. QED BY <1>1
<1>3. x = j * k
  OBVIOUS
<1> HIDE DEF q, x
<1>4. q * k \in Nat /\ (q + 1) * k = q * k + k /\ (j + 1) * k = j * k + k /\ j * k \in Nat
  BY <1>2
<1>5. ~(q < j)
  <2> SUFFICES ASSUME q < j PROVE FALSE
    OBVIOUS
  <2>1. PICK i \in Nat : j = q + 1 + i
    <3>1. j - (q + 1) \in Nat /\ j = q + 1 + (j - (q + 1))
      BY <1>2
    <3>2. QED BY <3>1
  <2>2. j * k = (q + 1) * k + i * k /\ i * k \in Nat
    BY <2>1, <1>2
  <2>3. QED BY <2>2, <1>2, <1>3, <1>4
<1>6. ~(j < q)
  <2> SUFFICES ASSUME j < q PROVE FALSE
    OBVIOUS
  <2>1. PICK i \in Nat : q = j + 1 + i
    <3>1. q - (j + 1) \in Nat /\ q = j + 1 + (q - (j + 1))
      BY <1>2
    <3>2. QED BY <3>1
  <2>2. q * k = (j + 1) * k + i * k /\ i * k \in Nat
    BY <2>1, <1>2
  <2>3. QED BY <2>2, <1>2, <1>3, <1>4
<1>7. q = j
  BY <1>2, <1>5, <1>6
<1>8. QED BY <1>7 DEF q, x

\* The intervals' part about the last tick, for every tick of the session.
LEMMA LastTickFits ==
  ASSUME IntervalsFit, NEW k \in Nat, OpenTime + k * TickInterval < CloseTime
  PROVE  OpenTime + k * TickInterval + MaxCycle < CloseTime + FinalQuoteDelay
<1>1. k <= k * TickInterval /\ k * TickInterval \in Nat
  <2>1. PICK i \in Nat : TickInterval = i + 1
    <3>1. TickInterval - 1 \in Nat /\ TickInterval = (TickInterval - 1) + 1
      BY JobsConstants
    <3>2. QED BY <3>1
  <2>2. k * (i + 1) = k * i + k /\ k * i \in Nat
    OBVIOUS
  <2>3. k <= k * (i + 1) /\ k * (i + 1) \in Nat
    BY <2>2
  <2>4. QED BY <2>1, <2>3
<1>2. k \in 0..CloseTime
  BY <1>1, JobsConstants
<1>3. QED BY <1>2 DEF IntervalsFit

\* On its own day the session's times and the final quote's are in order.
LEMMA FitTimes ==
  ASSUME IntervalsFit, NEW d \in Nat
  PROVE  /\ At(d, 0) \in Nat /\ At(d + 1, 0) \in Nat /\ At(d + 1, 0) = At(d, 0) + DayLength
         /\ SessionOpen(d) = At(d, 0) + OpenTime /\ SessionClose(d) = At(d, 0) + CloseTime
         /\ Final(d) = At(d, 0) + CloseTime + FinalQuoteDelay
         /\ SessionOpen(d) \in Nat /\ SessionClose(d) \in Nat /\ Final(d) \in Nat
         /\ At(d, 0) <= SessionOpen(d) /\ SessionOpen(d) < SessionClose(d)
         /\ SessionClose(d) <= Final(d) /\ Final(d) < At(d + 1, 0)
<1>1. /\ At(d, 0) \in Nat /\ At(d + 1, 0) = At(d, 0) + DayLength
      /\ SessionOpen(d) = At(d, 0) + OpenTime /\ SessionClose(d) = At(d, 0) + CloseTime
      /\ Final(d) = SessionClose(d) + FinalQuoteDelay
  BY SessionTimes, FinalTimes
<1>2. /\ CloseTime + FinalQuoteDelay < DayLength /\ OpenTime < CloseTime
      /\ OpenTime \in Nat /\ CloseTime \in Nat /\ FinalQuoteDelay \in Nat /\ DayLength \in Nat
  BY JobsConstants DEF IntervalsFit
<1>3. QED BY <1>1, <1>2

\* During the session the timer is set to an end of the tick that runs.
LEMMA OpenTimer ==
  ASSUME IntervalsFit, NEW t \in Nat, IsOpen(t)
  PROVE  LET d == Day(t)
             n == NextScheduledRun(t)
         IN /\ \/ /\ n = TickAfter(t) /\ n < SessionClose(d)
               \/ /\ n = Final(d) /\ SessionClose(d) <= TickAfter(t)
            /\ TickAfter(t) \in Nat /\ t < TickAfter(t) /\ TickAfter(t) <= t + TickInterval
            /\ SessionOpen(d) + TickInterval <= TickAfter(t)
<1> DEFINE d == Day(t)
<1>1. /\ d \in Nat /\ IsTradingDay(d) /\ SessionOpen(d) <= t /\ t < SessionClose(d)
  BY DayBounds DEF IsOpen
<1>2. /\ SessionOpen(d) \in Nat /\ SessionClose(d) \in Nat /\ Final(d) \in Nat /\ SessionClose(d) <= Final(d)
  <2> HIDE DEF d
  <2>1. QED BY <1>1, FitTimes
<1>3. /\ TickAfter(t) \in Nat /\ t < TickAfter(t) /\ TickAfter(t) <= t + TickInterval
      /\ SessionOpen(d) + TickInterval <= TickAfter(t)
  BY <1>1, TickAfterIs
<1>4. CASE TickAfter(t) < SessionClose(d)
  <2>1. NextScheduledRun(t) = TickAfter(t)
    BY <1>4, NextRunCases
  <2>2. QED BY <2>1, <1>3, <1>4
<1>5. CASE ~(TickAfter(t) < SessionClose(d))
  <2>1. NextScheduledRun(t) = Final(d)
    <3>1. t < Final(d)
      BY <1>1, <1>2
    <3>2. QED BY <3>1, <1>1, <1>2, <1>5, NextRunCases
  <2>2. SessionClose(d) <= TickAfter(t)
    BY <1>2, <1>3, <1>5
  <2>3. QED BY <2>1, <2>2, <1>3
<1>6. QED BY <1>4, <1>5

\* Two instants of a session are on one day, and the session is one interval.
LEMMA SameSession ==
  ASSUME IntervalsFit, NEW t \in Nat, IsOpen(t + 1)
  PROVE  /\ Day(t + 1) \in Nat /\ IsTradingDay(Day(t + 1))
         /\ SessionOpen(Day(t + 1)) <= t + 1 /\ t + 1 < SessionClose(Day(t + 1))
         /\ IsOpen(t) => Day(t + 1) = Day(t)
         /\ ~IsOpen(t) => SessionOpen(Day(t + 1)) = t + 1
<1> DEFINE u == t + 1
           d == Day(u)
<1>1. u \in Nat
  OBVIOUS
<1>2. /\ d \in Nat /\ IsTradingDay(d) /\ SessionOpen(d) <= u /\ u < SessionClose(d)
  <2>1. IsOpen(u)
    OBVIOUS
  <2> HIDE DEF u
  <2>2. QED BY <1>1, <2>1, DayBounds DEF IsOpen
<1>3. /\ At(d, 0) \in Nat /\ At(d + 1, 0) \in Nat /\ SessionOpen(d) \in Nat /\ SessionClose(d) \in Nat
      /\ At(d, 0) <= SessionOpen(d) /\ SessionClose(d) < At(d + 1, 0)
  <2> HIDE DEF d
  <2>1. QED BY <1>2, FitTimes
<1>4. IsOpen(t) => d = Day(t)
  <2> SUFFICES ASSUME IsOpen(t) PROVE d = Day(t)
    OBVIOUS
  <2> DEFINE e == Day(t)
  <2>1. /\ e \in Nat /\ SessionOpen(e) <= t /\ t < SessionClose(e)
    BY DayBounds DEF IsOpen
  <2>2. /\ At(e, 0) \in Nat /\ At(e + 1, 0) \in Nat /\ SessionOpen(e) \in Nat /\ SessionClose(e) \in Nat
        /\ At(e, 0) <= SessionOpen(e) /\ SessionClose(e) < At(e + 1, 0)
    <3> HIDE DEF e
    <3>1. QED BY <2>1, FitTimes
  <2> HIDE DEF e
  <2>3. At(e, 0) <= u /\ u < At(e + 1, 0)
    BY <2>1, <2>2
  <2> HIDE DEF u
  <2>4. Day(u) = e
    BY <1>1, <2>1, <2>3, TheDay
  <2>5. QED BY <2>4 DEF e
<1>5. ~IsOpen(t) => SessionOpen(d) = u
  <2> SUFFICES ASSUME ~IsOpen(t), SessionOpen(d) # u PROVE FALSE
    OBVIOUS
  <2> HIDE DEF d
  <2>1. SessionOpen(d) <= t /\ t < SessionClose(d) /\ At(d, 0) <= t /\ t < At(d + 1, 0)
    BY <1>2, <1>3
  <2>2. Day(t) = d
    BY <1>2, <2>1, TheDay
  <2>3. QED BY <1>2, <2>1, <2>2 DEF IsOpen
<1>6. QED BY <1>2, <1>4, <1>5

\* The timer does not change until it is due.
LEMMA NextRunSteady ==
  ASSUME IntervalsFit, NEW t \in Nat, t + 1 <= MaxTime, t + 1 < NextScheduledRun(t)
  PROVE  NextScheduledRun(t + 1) = NextScheduledRun(t)
<1> DEFINE d == Day(t)
           u == t + 1
           f == Day(u)
<1>1. /\ u \in Nat /\ u <= MaxTime /\ t <= MaxTime
  BY JobsConstants
<1>2. /\ d \in Nat /\ At(d, 0) <= t /\ t < At(d + 1, 0) /\ f \in Nat /\ At(f, 0) <= u /\ u < At(f + 1, 0)
  <2>1. d \in Nat /\ At(d, 0) <= t /\ t < At(d + 1, 0)
    BY DayBounds
  <2>2. f \in Nat /\ At(f, 0) <= u /\ u < At(f + 1, 0)
    <3> HIDE DEF u
    <3>1. QED BY <1>1, DayBounds
  <2>3. QED BY <2>1, <2>2
<1>3. d <= f
  <2>1. t <= u
    OBVIOUS
  <2> HIDE DEF u
  <2>2. QED BY <1>1, <2>1, DaysFollow
<1>4. /\ At(d, 0) \in Nat /\ At(d + 1, 0) \in Nat /\ SessionOpen(d) \in Nat /\ SessionClose(d) \in Nat
      /\ Final(d) \in Nat /\ At(d, 0) <= SessionOpen(d) /\ SessionOpen(d) < SessionClose(d)
      /\ SessionClose(d) <= Final(d) /\ Final(d) < At(d + 1, 0)
  <2> HIDE DEF d
  <2>1. QED BY <1>2, FitTimes
<1>5. /\ At(f, 0) \in Nat /\ At(f + 1, 0) \in Nat /\ SessionOpen(f) \in Nat /\ SessionClose(f) \in Nat
      /\ Final(f) \in Nat /\ At(f, 0) <= SessionOpen(f) /\ SessionOpen(f) < SessionClose(f)
      /\ SessionClose(f) <= Final(f) /\ Final(f) < At(f + 1, 0)
  <2> HIDE DEF f
  <2>1. QED BY <1>2, FitTimes
<1>6. CASE ~IsTradingDay(d) \/ t < SessionOpen(d) \/ t >= Final(d)
  <2>1. NextScheduledRun(t) = NextSessionOpen(t)
    BY <1>6, NextRunCases
  <2>2. PICK e \in TradingDays :
           /\ e \in Nat /\ NextSessionOpen(t) = SessionOpen(e) /\ e >= d /\ t <= SessionOpen(e)
           /\ \A g \in TradingDays : g >= d /\ t <= SessionOpen(g) => e <= g
    BY <1>1, NextOpenIs
  <2>3. u < SessionOpen(e) /\ SessionOpen(e) \in Nat
    BY <2>1, <2>2, SessionTimes
  <2>4. ~IsTradingDay(f) \/ u < SessionOpen(f) \/ u >= Final(f)
    <3> SUFFICES ASSUME f \in TradingDays, SessionOpen(f) <= u, u < Final(f) PROVE FALSE
      BY <1>1, <1>5 DEF IsTradingDay
    <3>1. t <= SessionOpen(f)
      <4>1. CASE f = d
        <5>1. ~(t >= Final(d))
          BY <1>1, <1>4, <4>1
        <5>2. t < SessionOpen(d)
          BY <1>6, <4>1, <5>1 DEF IsTradingDay
        <5>3. QED BY <4>1, <5>2, <1>4
      <4>2. CASE f > d
        <5>1. At(d + 1, 0) <= At(f, 0)
          <6> HIDE DEF d, f
          <6>1. QED BY <1>2, <4>2, LaterDays
        <5>2. QED BY <5>1, <1>2, <1>4, <1>5
      <4>3. QED BY <1>2, <1>3, <4>1, <4>2
    <3>2. e <= f
      BY <2>2, <1>3, <3>1
    <3>3. SessionOpen(e) <= SessionOpen(f)
      <4>1. CASE e = f
        BY <4>1, <1>5
      <4>2. CASE e < f
        <5>1. At(e + 1, 0) <= At(f, 0) /\ SessionOpen(e) < At(e + 1, 0) /\ At(e + 1, 0) \in Nat
          <6> HIDE DEF f
          <6>1. SessionOpen(e) < SessionClose(e) /\ SessionClose(e) < At(e + 1, 0) /\ At(e + 1, 0) \in Nat
                /\ SessionClose(e) \in Nat
            BY <2>2, SessionTimes
          <6>2. QED BY <1>2, <2>2, <2>3, <4>2, <6>1, LaterDays
        <5>2. QED BY <5>1, <1>5, <2>3
      <4>3. QED BY <1>2, <2>2, <3>2, <4>1, <4>2
    <3>4. QED BY <1>1, <1>5, <2>3, <3>3
  <2>5. NextScheduledRun(u) = NextSessionOpen(u)
    <3> HIDE DEF u
    <3>1. QED BY <1>1, <2>4, NextRunCases DEF f
  <2>6. PICK h \in TradingDays :
           /\ h \in Nat /\ NextSessionOpen(u) = SessionOpen(h) /\ h >= f /\ u <= SessionOpen(h)
           /\ \A g \in TradingDays : g >= f /\ u <= SessionOpen(g) => h <= g
    <3> HIDE DEF u
    <3>1. QED BY <1>1, NextOpenIs DEF f
  <2>7. SessionOpen(h) \in Nat
    BY <2>6, SessionTimes
  <2>8. e <= h
    <3>1. t <= SessionOpen(h) /\ h >= d
      BY <1>1, <1>2, <1>3, <2>6, <2>7
    <3>2. QED BY <2>2, <3>1
  <2>9. e >= f
    <3> SUFFICES ASSUME e < f PROVE FALSE
      BY <1>2, <2>2
    <3>1. At(e + 1, 0) <= At(f, 0) /\ SessionOpen(e) < At(e + 1, 0) /\ At(e + 1, 0) \in Nat
      <4> HIDE DEF f
      <4>1. SessionOpen(e) < SessionClose(e) /\ SessionClose(e) < At(e + 1, 0) /\ At(e + 1, 0) \in Nat
            /\ SessionClose(e) \in Nat
        BY <2>2, SessionTimes
      <4>2. QED BY <1>2, <2>2, <2>3, <4>1, LaterDays
    <3>2. QED BY <3>1, <1>1, <1>2, <1>5, <2>3
  <2>10. h <= e
    <3>1. u <= SessionOpen(e)
      BY <2>3, <1>1
    <3>2. QED BY <2>6, <2>9, <3>1
  <2>11. h = e
    BY <2>2, <2>6, <2>8, <2>10
  <2>12. QED BY <2>1, <2>2, <2>5, <2>6, <2>11
<1>7. CASE IsTradingDay(d) /\ t >= SessionOpen(d) /\ t < Final(d)
  <2>1. \/ /\ IsOpen(t) /\ TickAfter(t) < SessionClose(d) /\ NextScheduledRun(t) = TickAfter(t)
        \/ /\ ~(IsOpen(t) /\ TickAfter(t) < SessionClose(d)) /\ NextScheduledRun(t) = Final(d)
    BY <1>7, NextRunCases
  <2>2. IsOpen(t) => TickAfter(t) \in Nat /\ t < TickAfter(t)
    BY TickAfterIs, <1>7
  <2>3. u < Final(d)
    BY <2>1, <2>2, <1>1, <1>4
  <2>4. f = d
    <3>1. At(d, 0) <= u /\ u < At(d + 1, 0)
      BY <2>3, <1>1, <1>2, <1>4
    <3> HIDE DEF u, d
    <3>2. QED BY <3>1, <1>1, <1>2, TheDay DEF f
  <2>5. TickAfter(t) < SessionClose(d) /\ IsOpen(t) => TickAfter(u) = TickAfter(t) /\ IsOpen(u)
    <3> SUFFICES ASSUME TickAfter(t) < SessionClose(d), IsOpen(t) PROVE TickAfter(u) = TickAfter(t) /\ IsOpen(u)
      OBVIOUS
    <3>1. u < TickAfter(t)
      BY <2>1
    <3>2. IsOpen(u)
      <4>1. SessionOpen(d) <= u /\ u < SessionClose(d)
        BY <3>1, <2>2, <1>1, <1>4, <1>7
      <4>2. QED BY <4>1, <2>4, <1>7 DEF IsOpen
    <3> DEFINE x == t - SessionOpen(d)
    <3>3. x \in Nat /\ u - SessionOpen(d) = x + 1
      BY <1>1, <1>4, <1>7
    <3>4. x + 1 < (x \div TickInterval + 1) * TickInterval
      <4>1. TickAfter(t) = SessionOpen(d) + (x \div TickInterval + 1) * TickInterval
        BY DEF TickAfter
      <4>2. (x \div TickInterval + 1) * TickInterval \in Nat
        <5> HIDE DEF x
        <5>1. QED BY <3>3, GridNext, JobsConstants
      <4>3. SessionOpen(d) + (x + 1) = u
        BY <3>3, <1>1, <1>4
      <4> HIDE DEF x
      <4>4. QED BY <4>1, <4>2, <4>3, <3>1, <3>3, <1>4
    <3>5. (x + 1) \div TickInterval = x \div TickInterval
      <4> HIDE DEF x
      <4>1. QED BY <3>3, <3>4, GridSteady, JobsConstants
    <3>6. TickAfter(u) = SessionOpen(d) + ((x + 1) \div TickInterval + 1) * TickInterval
      BY <2>4, <3>3 DEF TickAfter
    <3>7. TickAfter(u) = TickAfter(t)
      BY <3>5, <3>6 DEF TickAfter
    <3>8. QED BY <3>2, <3>7
  <2>6. CASE IsOpen(t) /\ TickAfter(t) < SessionClose(d)
    <3>1. IsOpen(u) /\ TickAfter(u) < SessionClose(f) /\ TickAfter(u) = TickAfter(t)
      BY <2>4, <2>5, <2>6
    <3>2. NextScheduledRun(u) = TickAfter(u)
      <4> HIDE DEF u
      <4>1. QED BY <1>1, <3>1, NextRunCases DEF f
    <3>3. QED BY <2>1, <2>6, <3>1, <3>2
  <2>7. CASE ~(IsOpen(t) /\ TickAfter(t) < SessionClose(d))
    <3>1. ~(IsOpen(u) /\ TickAfter(u) < SessionClose(d))
      <4> SUFFICES ASSUME IsOpen(u), TickAfter(u) < SessionClose(d) PROVE FALSE
        OBVIOUS
      <4>1. IsOpen(t)
        <5>1. u < SessionClose(d)
          BY <2>4 DEF IsOpen
        <5>2. t < SessionClose(d)
          BY <5>1, <1>1, <1>4
        <5>3. QED BY <5>2, <1>7 DEF IsOpen
      <4>2. SessionClose(d) <= TickAfter(t) /\ TickAfter(t) <= t + TickInterval
            /\ TickAfter(t) \in Nat
        BY <2>7, <4>1, <1>4, <2>2, TickAfterIs, <1>7
      <4> DEFINE x == t - SessionOpen(d)
                 y == (x \div TickInterval + 1) * TickInterval
      <4>3. x \in Nat /\ u - SessionOpen(d) = x + 1
        BY <1>1, <1>4, <1>7
      <4>4. TickAfter(t) = SessionOpen(d) + y
        BY DEF TickAfter
      <4>5. y \in Nat
        <5> HIDE DEF x
        <5>1. QED BY <4>3, GridNext, JobsConstants
      <4>6. x + 1 < y
        <5>1. u < TickAfter(t) /\ u = SessionOpen(d) + (x + 1)
          <6>1. u < SessionClose(d)
            BY <2>4 DEF IsOpen
          <6>2. QED BY <6>1, <4>2, <4>3, <1>1, <1>4
        <5> HIDE DEF x, y
        <5>2. QED BY <5>1, <4>3, <4>4, <4>5, <1>4
      <4>7. (x + 1) \div TickInterval = x \div TickInterval
        <5> HIDE DEF x
        <5>1. QED BY <4>3, <4>6, GridSteady, JobsConstants
      <4>8. TickAfter(u) = TickAfter(t)
        <5>1. TickAfter(u) = SessionOpen(d) + ((x + 1) \div TickInterval + 1) * TickInterval
          BY <2>4, <4>3 DEF TickAfter
        <5>2. QED BY <5>1, <4>7 DEF TickAfter
      <4>9. QED BY <4>2, <4>8, <1>4
    <3>2. NextScheduledRun(u) = Final(d)
      <4>1. IsTradingDay(Day(u)) /\ u >= SessionOpen(Day(u)) /\ u < Final(Day(u))
            /\ ~(IsOpen(u) /\ TickAfter(u) < SessionClose(Day(u)))
        BY <2>3, <2>4, <3>1, <1>1, <1>4, <1>7
      <4> HIDE DEF u
      <4>2. QED BY <4>1, <1>1, <2>4, NextRunCases
    <3>3. QED BY <2>1, <2>7, <3>2
  <2>8. QED BY <2>6, <2>7
<1>8. QED BY <1>1, <1>4, <1>6, <1>7

\* When the session opens, the timer that runs is due.
LEMMA OpenIsDue ==
  ASSUME IntervalsFit, NEW t \in Nat, t <= MaxTime, IsOpen(t + 1), ~IsOpen(t), t + 1 <= NextScheduledRun(t)
  PROVE  NextScheduledRun(t) = t + 1
<1> DEFINE d == Day(t + 1)
           e == Day(t)
<1>1. /\ d \in Nat /\ d \in TradingDays /\ SessionOpen(d) = t + 1
  BY SameSession DEF IsTradingDay
<1>2. /\ e \in Nat /\ At(e, 0) <= t /\ t < At(e + 1, 0) /\ e <= d
  <2>1. t <= t + 1 /\ t + 1 \in Nat
    OBVIOUS
  <2>2. QED BY <2>1, DayBounds, DaysFollow
<1>3. /\ At(e, 0) \in Nat /\ At(e + 1, 0) \in Nat /\ Final(e) \in Nat /\ Final(e) < At(e + 1, 0)
      /\ SessionOpen(e) \in Nat /\ SessionOpen(e) < Final(e)
  <2> HIDE DEF e
  <2>1. QED BY <1>2, FitTimes
<1>4. ~IsTradingDay(e) \/ t < SessionOpen(e) \/ t >= Final(e)
  <2> SUFFICES ASSUME SessionOpen(e) <= t, t < Final(e) PROVE FALSE
    BY <1>3
  <2>1. CASE e = d
    BY <2>1, <1>1
  <2>2. CASE e < d
    <3>1. At(e + 1, 0) <= At(d, 0) /\ At(d, 0) <= SessionOpen(d) /\ At(d, 0) \in Nat
      <4> HIDE DEF d, e
      <4>1. QED BY <1>1, <1>2, <2>2, LaterDays, FitTimes
    <3>3. At(e + 1, 0) = t + 1
      BY <3>1, <1>1, <1>2, <1>3
    <3>5. Final(e) <= t
      BY <3>3, <1>3
    <3>6. QED BY <3>5, <1>3
  <2>3. QED BY <1>1, <1>2, <2>1, <2>2
<1>5. NextScheduledRun(t) = NextSessionOpen(t)
  BY <1>4, NextRunCases
<1>6. PICK h \in TradingDays :
         /\ h \in Nat /\ NextSessionOpen(t) = SessionOpen(h)
         /\ \A f \in TradingDays : f >= e /\ t <= SessionOpen(f) => h <= f
  BY NextOpenIs
<1>7. h <= d
  <2>1. t <= SessionOpen(d) /\ d >= e
    BY <1>1, <1>2
  <2>2. QED BY <2>1, <1>1, <1>6
<1>8. h = d \/ (h < d /\ SessionOpen(h) < SessionOpen(d))
  <2> SUFFICES ASSUME h < d PROVE SessionOpen(h) < SessionOpen(d)
    BY <1>1, <1>6, <1>7
  <2> HIDE DEF d
  <2>1. At(h + 1, 0) <= At(d, 0)
    BY <1>1, <1>6, LaterDays
  <2>2. /\ SessionOpen(h) < SessionClose(h) /\ SessionClose(h) <= Final(h) /\ Final(h) < At(h + 1, 0)
        /\ SessionOpen(h) \in Nat /\ SessionClose(h) \in Nat /\ Final(h) \in Nat /\ At(h + 1, 0) \in Nat
    BY <1>6, FitTimes
  <2>3. At(d, 0) <= SessionOpen(d) /\ At(d, 0) \in Nat /\ SessionOpen(d) \in Nat
    BY <1>1, FitTimes
  <2>4. QED BY <2>1, <2>2, <2>3
<1>9. SessionOpen(h) \in Nat
  BY <1>6, SessionTimes
<1>10. QED BY <1>1, <1>5, <1>6, <1>8, <1>9

\* A timer that fires in the session fires at the open or a tick after it.
LEMMA FiresOnTheGrid ==
  ASSUME IntervalsFit, NEW t \in Nat, IsOpen(t + 1), NextScheduledRun(t) = t + 1
  PROVE  LET open == SessionOpen(Day(t + 1))
         IN t + 1 = open \/ t + 1 >= open + TickInterval
<1>1. CASE ~IsOpen(t)
  BY <1>1, SameSession
<1>2. CASE IsOpen(t)
  <2>1. Day(t + 1) = Day(t) /\ t + 1 < SessionClose(Day(t)) /\ Day(t) \in Nat
    BY <1>2, SameSession
  <2>2. /\ \/ NextScheduledRun(t) = TickAfter(t)
           \/ NextScheduledRun(t) = Final(Day(t))
        /\ SessionOpen(Day(t)) + TickInterval <= TickAfter(t)
    BY <1>2, OpenTimer
  <2>3. SessionClose(Day(t)) <= Final(Day(t)) /\ SessionClose(Day(t)) \in Nat /\ Final(Day(t)) \in Nat
    BY <2>1, FitTimes
  <2>4. NextScheduledRun(t) = TickAfter(t)
    BY <2>1, <2>2, <2>3
  <2>5. QED BY <2>1, <2>2, <2>4
<1>3. QED BY <1>1, <1>2

\* A cycle that begins when the timer fires ends before the timer fires again.
LEMMA FiringLeavesRoom ==
  ASSUME IntervalsFit, NEW t \in Nat, t < MaxTime, NEW n \in Nat, n = NextScheduledRun(t), n <= MaxTime
  PROVE  NextScheduledRun(n) > n + MaxCycle
<1> DEFINE d == Day(n)
<1>1. d \in Nat /\ Day(t) \in Nat /\ MaxCycle \in Nat /\ TickInterval \in Nat /\ TickInterval > 0 /\ MaxCycle < TickInterval
  BY DayBounds, JobsConstants DEF IntervalsFit
<1>2. /\ At(d, 0) \in Nat /\ At(d + 1, 0) \in Nat /\ At(d + 1, 0) = At(d, 0) + DayLength
      /\ SessionOpen(d) = At(d, 0) + OpenTime /\ SessionClose(d) = At(d, 0) + CloseTime
      /\ Final(d) = At(d, 0) + CloseTime + FinalQuoteDelay
      /\ SessionOpen(d) \in Nat /\ SessionClose(d) \in Nat /\ Final(d) \in Nat
      /\ SessionOpen(d) < SessionClose(d) /\ SessionClose(d) <= Final(d)
  <2> HIDE DEF d
  <2>1. QED BY <1>1, FitTimes
\* On the grid: the open or a tick in the session.
<1>3. ASSUME IsOpen(n), NEW k \in Nat, n = SessionOpen(d) + k * TickInterval
      PROVE  NextScheduledRun(n) > n + MaxCycle
  <2>1. /\ \/ NextScheduledRun(n) = TickAfter(n)
           \/ NextScheduledRun(n) = Final(d)
    BY <1>3, OpenTimer
  <2>2. k * TickInterval \in Nat /\ n - SessionOpen(d) = k * TickInterval
    BY <1>1, <1>2, <1>3
  <2>3. TickAfter(n) = SessionOpen(d) + (k + 1) * TickInterval
    <3>1. (k * TickInterval) \div TickInterval = k
      BY <1>1, GridExact
    <3>2. QED BY <2>2, <3>1 DEF TickAfter
  <2>4. (k + 1) * TickInterval = k * TickInterval + TickInterval
    BY <1>1
  <2>5. TickAfter(n) = n + TickInterval
    BY <1>1, <1>2, <1>3, <2>2, <2>3, <2>4
  <2>6. n < SessionClose(d)
    BY <1>3 DEF IsOpen
  <2>7. OpenTime + k * TickInterval < CloseTime
    BY <1>2, <1>3, <2>2, <2>6, JobsConstants
  <2>8. OpenTime + k * TickInterval + MaxCycle < CloseTime + FinalQuoteDelay
    BY <2>7, LastTickFits
  <2>9. Final(d) > n + MaxCycle
    BY <1>1, <1>2, <1>3, <2>2, <2>8, JobsConstants
  <2>10. QED BY <1>1, <2>1, <2>5, <2>9
<1>4. CASE ~IsTradingDay(Day(t)) \/ t < SessionOpen(Day(t)) \/ t >= Final(Day(t))
  <2>1. NextScheduledRun(t) = NextSessionOpen(t)
    BY <1>4, NextRunCases
  <2>2. PICK e \in TradingDays : e \in Nat /\ NextSessionOpen(t) = SessionOpen(e)
    BY NextOpenIs, JobsConstants
  <2>3. d = e
    BY <2>1, <2>2, SessionTimes
  <2>4. IsOpen(n)
    BY <1>2, <2>1, <2>2, <2>3 DEF IsOpen, IsTradingDay
  <2>5. n = SessionOpen(d) + 0 * TickInterval
    BY <1>1, <1>2, <2>1, <2>2, <2>3
  <2>6. QED BY <1>3, <2>4, <2>5
<1>5. CASE IsTradingDay(Day(t)) /\ t >= SessionOpen(Day(t)) /\ t < Final(Day(t))
  <2> DEFINE e == Day(t)
  <2>1. /\ At(e, 0) \in Nat /\ At(e + 1, 0) \in Nat /\ SessionOpen(e) \in Nat /\ SessionClose(e) \in Nat
        /\ Final(e) \in Nat /\ At(e, 0) <= SessionOpen(e) /\ SessionClose(e) <= Final(e)
        /\ SessionOpen(e) < SessionClose(e) /\ Final(e) < At(e + 1, 0)
    <3> HIDE DEF e
    <3>1. QED BY <1>1, FitTimes DEF e
  <2>2. \/ /\ IsOpen(t) /\ TickAfter(t) < SessionClose(e) /\ n = TickAfter(t)
        \/ n = Final(e)
    BY <1>5, NextRunCases
  <2>3. SessionOpen(e) <= n /\ n <= Final(e)
    <3>1. TickAfter(t) \in Nat /\ SessionOpen(e) + TickInterval <= TickAfter(t)
      BY <1>5, TickAfterIs
    <3>2. QED BY <3>1, <2>1, <2>2, <1>1
  <2>4. d = e
    <3>1. At(e, 0) <= n /\ n < At(e + 1, 0)
      BY <2>1, <2>3
    <3> HIDE DEF e
    <3>2. QED BY <3>1, <1>1, TheDay DEF e
  <2>5. CASE IsOpen(t) /\ TickAfter(t) < SessionClose(e) /\ n = TickAfter(t)
    <3>1. IsOpen(n)
      BY <1>5, <2>3, <2>4, <2>5 DEF IsOpen
    <3>2. PICK k \in Nat : TickAfter(t) = SessionOpen(Day(t)) + k * TickInterval
      BY <1>5, TickAfterIs
    <3>3. QED BY <1>3, <2>4, <2>5, <3>1, <3>2
  <2>6. CASE n = Final(e)
    <3>1. NextScheduledRun(n) = NextSessionOpen(n)
      BY <2>1, <2>4, <2>6, NextRunCases
    <3>2. PICK h \in TradingDays : h \in Nat /\ NextSessionOpen(n) = SessionOpen(h) /\ h >= d /\ n <= SessionOpen(h)
      BY NextOpenIs
    <3>3. h # d
      BY <1>2, <2>4, <2>6, <3>2
    <3>4. At(d, 0) + DayLength <= At(h, 0) /\ SessionOpen(h) = At(h, 0) + OpenTime /\ At(h, 0) \in Nat
      <4> HIDE DEF d
      <4>1. QED BY <1>1, <3>2, <3>3, LaterDays, FitTimes
    <3>5. CloseTime + FinalQuoteDelay + MaxCycle < DayLength + OpenTime
      BY DEF IntervalsFit
    <3>6. QED BY <1>2, <2>4, <2>6, <3>1, <3>2, <3>4, <3>5, JobsConstants
  <2>7. QED BY <2>2, <2>5, <2>6
<1>6. SessionOpen(Day(t)) \in Nat /\ Final(Day(t)) \in Nat
  BY <1>1, SessionTimes, FinalTimes
<1>7. QED BY <1>4, <1>5, <1>6

\* Until the final quote is due the timer is set to it, or earlier.
LEMMA FinalIsDue ==
  ASSUME IntervalsFit, NEW t \in Nat, t < NextScheduledRun(t),
         IsTradingDay(Day(t + 1)), t + 1 = Final(Day(t + 1)), t + 1 <= NextScheduledRun(t)
  PROVE  NextScheduledRun(t) = t + 1
<1> DEFINE u == t + 1
           d == Day(u)
<1>1. d \in Nat /\ u \in Nat
  <2>1. u \in Nat
    OBVIOUS
  <2> HIDE DEF u
  <2>2. QED BY <2>1, DayBounds
<1>2. /\ At(d, 0) \in Nat /\ At(d + 1, 0) \in Nat /\ SessionOpen(d) \in Nat /\ SessionClose(d) \in Nat
      /\ Final(d) \in Nat /\ At(d, 0) <= SessionOpen(d) /\ SessionOpen(d) < SessionClose(d)
      /\ SessionClose(d) <= Final(d) /\ Final(d) < At(d + 1, 0)
  <2> HIDE DEF d
  <2>1. QED BY <1>1, FitTimes
<1>3. /\ SessionOpen(d) <= t /\ t < Final(d) /\ At(d, 0) <= t /\ t < At(d + 1, 0)
  BY <1>2
<1>4. Day(t) = d
  <2> HIDE DEF d
  <2>1. QED BY <1>1, <1>3, TheDay
<1>5. \/ /\ TickAfter(t) < SessionClose(d) /\ NextScheduledRun(t) = TickAfter(t)
      \/ NextScheduledRun(t) = Final(d)
  BY <1>3, <1>4, NextRunCases
<1>6. TickAfter(t) \in Nat
  BY <1>3, <1>4, TickAfterIs
<1>7. QED BY <1>2, <1>5, <1>6

\* What a step does to the clock, the timer, the cycle and the row.
LEMMA JobsSteps ==
  ASSUME JobsInvariant, [JobsNext]_jobsVars
  PROVE  \/ up' = FALSE
         \/ /\ ~up /\ now' = now /\ price' = price
            /\ next' = NextScheduledRun(now) /\ cycle' \in {now, Off} /\ quiet' = 0
         \/ /\ now' = now + 1 /\ (up => now < next)
            /\ up' = up /\ price' = price /\ next' = next /\ cycle' = cycle /\ quiet' \in {quiet, quiet + 1}
         \/ /\ up /\ now >= next /\ now' = now /\ price' = price /\ quiet' = quiet
            /\ next' = NextScheduledRun(now) /\ cycle' = IF cycle = Off THEN now ELSE cycle
         \/ /\ cycle # Off /\ now' = now /\ up' = up /\ next' = next /\ quiet' = quiet /\ cycle' = Off
            /\ \E t \in (cycle - QuoteDelay)..cycle : price' = Saved([source |-> "yahoo", at |-> LastTrade(t)])
         \/ now' = now /\ up' = up /\ price' = price /\ next' = next /\ cycle' = Off /\ quiet' = 0
         \/ now' = now /\ up' = up /\ next' = next /\ cycle' = cycle /\ quiet' = quiet
<1>1. CASE Start
  BY <1>1 DEF JobsInvariant, Start, StartPrices, book
<1>2. CASE Stop
  BY <1>2 DEF Stop
<1>3. CASE Tick
  BY <1>3 DEF Tick, PricesMayWait, prices
<1>4. CASE PriceJob
  <2>1. CASE RunPrices /\ UNCHANGED book
    BY <2>1 DEF RunPrices, book
  <2>2. CASE CycleSaves /\ UNCHANGED book
    BY <2>2 DEF CycleSaves, book
  <2>3. CASE CycleFails /\ quiet' = 0
    BY <2>3 DEF CycleFails
  <2>4. QED BY <1>4, <2>1, <2>2, <2>3 DEF PriceJob
<1>5. CASE BhavcopyJob /\ UNCHANGED <<prices, book>>
  BY <1>5 DEF BhavcopyJob, Reschedule, BeginAttempt, EndAttempt, prices, book
<1>6. CASE UNCHANGED jobsVars
  BY <1>6 DEF jobsVars, own, prices, book
<1>7. QED BY <1>1, <1>2, <1>3, <1>4, <1>5, <1>6 DEF JobsNext, Finished

LEMMA TimerStep ==
  ASSUME IntervalsFit, JobsInvariant, TimerOk, [JobsNext]_jobsVars
  PROVE  TimerOk'
<1>1. now \in Nat /\ now <= MaxTime /\ next \in Nat /\ now < NextScheduledRun(now) /\ NextScheduledRun(now) \in Nat
  BY JobsTypes, NextRunLater DEF JobsInvariant
<1>2. CASE up' = FALSE
  BY <1>2 DEF TimerOk
<1>3. CASE now' = now /\ next' = NextScheduledRun(now)
  BY <1>1, <1>3 DEF TimerOk
<1>4. CASE now' = now + 1 /\ (up => now < next) /\ up' = up /\ next' = next
  <2> SUFFICES ASSUME up PROVE TimerOk'
    BY <1>4 DEF TimerOk
  <2>1. next = NextScheduledRun(now) /\ now < next /\ now + 1 <= next /\ now' - 1 = now
    BY <1>1, <1>4 DEF TimerOk
  <2>2. now' < next => next = NextScheduledRun(now')
    <3> SUFFICES ASSUME now' < next PROVE next = NextScheduledRun(now')
      OBVIOUS
    <3>1. now + 1 <= MaxTime
      <4>1. JobsTypeOK'
        BY JobsStep DEF JobsInvariant
      <4>2. QED BY <4>1, <1>4 DEF JobsTypeOK
    <3>2. QED BY <1>1, <1>4, <2>1, <3>1, NextRunSteady
  <2>3. QED BY <1>4, <2>1, <2>2 DEF TimerOk
<1>5. CASE now' = now /\ up' = up /\ next' = next
  BY <1>5 DEF TimerOk
<1>6. QED BY <1>2, <1>3, <1>4, <1>5, JobsSteps

\* A firing timer: it is now, and was set an instant ago or earlier.
LEMMA Firing ==
  ASSUME IntervalsFit, JobsInvariant, TimerOk, up, now >= next
  PROVE  /\ next = now /\ now \in Nat /\ now <= MaxTime /\ now - 1 \in Nat /\ NextScheduledRun(now - 1) = now
         /\ NextScheduledRun(now) > now + MaxCycle
<1>1. now \in Nat /\ DayLength <= now /\ now <= MaxTime /\ next \in Nat
  BY JobsTypes DEF JobsInvariant
<1>2. next = now
  BY <1>1 DEF TimerOk
<1>3. NextScheduledRun(now - 1) = now
  BY <1>2 DEF TimerOk
<1>4. now - 1 \in Nat /\ now - 1 < MaxTime
  BY <1>1, JobsConstants
<1>5. NextScheduledRun(now) > now + MaxCycle
  <2> DEFINE t == now - 1
  <2>1. t \in Nat /\ t < MaxTime /\ NextScheduledRun(t) = now
    BY <1>3, <1>4
  <2> HIDE DEF t
  <2>2. QED BY <1>1, <2>1, FiringLeavesRoom
<1>6. QED BY <1>1, <1>2, <1>3, <1>4, <1>5

LEMMA SkipStep ==
  ASSUME IntervalsFit, JobsInvariant, TimerOk, SkipOk, [JobsNext]_jobsVars
  PROVE  SkipOk'
<1>1. now \in Nat /\ next \in Nat /\ quiet \in Nat /\ MaxCycle \in Nat /\ (cycle # Off => cycle \in Nat)
  BY JobsTypes, JobsConstants DEF JobsInvariant
<1>2. cycle # Off => cycle <= now /\ now <= cycle + MaxCycle
  BY DEF JobsInvariant, CycleOk
<1>3. CASE up' = FALSE
  <2>1. CycleOk'
    BY JobsStep DEF JobsInvariant
  <2>2. cycle' = Off
    BY <1>3, <2>1 DEF CycleOk
  <2>3. QED BY <2>2 DEF SkipOk
<1>4. CASE now' = now /\ cycle' \in {now, Off} /\ quiet' = 0
  <2>1. cycle' # Off => quiet' <= now' - cycle'
    <3> SUFFICES ASSUME cycle' # Off PROVE quiet' <= now' - cycle'
      OBVIOUS
    <3>1. cycle' = now /\ now \in Nat /\ now - now = 0
      BY <1>1, <1>4
    <3>2. QED BY <1>4, <3>1
  <2>2. QED BY <2>1 DEF SkipOk
<1>5. CASE now' = now + 1 /\ next' = next /\ cycle' = cycle /\ quiet' \in {quiet, quiet + 1}
  BY <1>1, <1>2, <1>5 DEF SkipOk
<1>6. CASE /\ up /\ now >= next /\ now' = now /\ quiet' = quiet
           /\ next' = NextScheduledRun(now) /\ cycle' = IF cycle = Off THEN now ELSE cycle
  <2>1. next = now /\ NextScheduledRun(now) > now + MaxCycle
    BY <1>6, Firing
  <2>2. CASE cycle = Off
    BY <1>6, <2>1, <2>2 DEF SkipOk
  <2>3. CASE cycle # Off
    <3>1. quiet <= now - cycle
      BY <1>1, <1>2, <2>1, <2>3 DEF SkipOk
    <3>2. QED BY <1>6, <2>3, <3>1 DEF SkipOk
  <2>4. QED BY <2>2, <2>3
<1>7. CASE cycle' = Off
  BY <1>7 DEF SkipOk
<1>8. CASE now' = now /\ next' = next /\ cycle' = cycle /\ quiet' = quiet
  BY <1>8 DEF SkipOk
<1>9. QED BY <1>3, <1>4, <1>5, <1>6, <1>7, <1>8, JobsSteps

\* The quote of a cycle that runs in the session, begun a tick after the open or
\* later, is of the session.
LEMMA SessionQuote ==
  ASSUME IntervalsFit, JobsInvariant, IsOpen(now), cycle # Off,
         cycle >= SessionOpen(Day(now)) + TickInterval, NEW t \in (cycle - QuoteDelay)..cycle
  PROVE  LastTrade(t) = t /\ t \in Nat /\ t >= SessionOpen(Day(now)) /\ t >= cycle - QuoteDelay
<1> DEFINE d == Day(now)
<1>1. /\ now \in Nat /\ d \in Nat /\ cycle \in Nat /\ cycle <= now
      /\ SessionOpen(d) <= now /\ now < SessionClose(d) /\ IsTradingDay(d)
  BY JobsTypes DEF JobsInvariant, CycleOk, IsOpen
<1>2. /\ At(d, 0) \in Nat /\ At(d + 1, 0) \in Nat /\ SessionOpen(d) \in Nat /\ SessionClose(d) \in Nat
      /\ At(d, 0) <= SessionOpen(d) /\ SessionClose(d) <= Final(d) /\ Final(d) < At(d + 1, 0) /\ Final(d) \in Nat
  <2> HIDE DEF d
  <2>1. QED BY <1>1, FitTimes
<1>3. QuoteDelay \in Nat /\ QuoteDelay <= TickInterval /\ TickInterval \in Nat
  BY JobsConstants DEF IntervalsFit
<1>4. /\ t \in Nat /\ SessionOpen(d) <= t /\ t < SessionClose(d) /\ t >= cycle - QuoteDelay
  BY <1>1, <1>2, <1>3
<1>5. Day(t) = d
  <2>1. At(d, 0) <= t /\ t < At(d + 1, 0)
    BY <1>2, <1>4
  <2> HIDE DEF d
  <2>2. QED BY <1>1, <1>4, <2>1, TheDay
<1>6. IsOpen(t)
  BY <1>1, <1>4, <1>5 DEF IsOpen
<1>7. QED BY <1>4, <1>6 DEF LastTrade

\* The end of the tick that a timer set during the session leaves.
LEMMA NextTickEnd ==
  ASSUME IntervalsFit, NEW t \in Nat, IsOpen(t), NEW n, n = NextScheduledRun(t)
  PROVE  LET end == IF n <= SessionClose(Day(t)) THEN n ELSE SessionClose(Day(t))
         IN end \in Nat /\ t < end /\ end <= t + TickInterval
<1> DEFINE d == Day(t)
<1>1. d \in Nat /\ t < SessionClose(d) /\ TickInterval \in Nat
  BY DayBounds, JobsConstants DEF IsOpen
<1>2. SessionClose(d) \in Nat /\ Final(d) \in Nat /\ SessionClose(d) <= Final(d)
  <2> HIDE DEF d
  <2>1. QED BY <1>1, FitTimes
<1>3. /\ \/ /\ n = TickAfter(t) /\ n < SessionClose(d)
         \/ /\ n = Final(d) /\ SessionClose(d) <= TickAfter(t)
      /\ TickAfter(t) \in Nat /\ t < TickAfter(t) /\ TickAfter(t) <= t + TickInterval
  BY OpenTimer
<1>4. QED BY <1>1, <1>2, <1>3

\* During the session, where the tick that runs ends.
LEMMA TickEndIs ==
  ASSUME IntervalsFit, JobsInvariant, TimerOk, up, IsOpen(now)
  PROVE  /\ TickEnd \in Nat /\ now <= TickEnd /\ TickEnd <= now + TickInterval
         /\ now < next => now < TickEnd
<1> DEFINE d == Day(now)
<1>1. /\ now \in Nat /\ next \in Nat /\ d \in Nat /\ now <= next /\ TickInterval \in Nat
      /\ SessionOpen(d) <= now /\ now < SessionClose(d)
  BY JobsTypes, JobsConstants DEF JobsInvariant, IsOpen, TimerOk
<1>2. SessionClose(d) \in Nat /\ Final(d) \in Nat /\ SessionClose(d) <= Final(d)
  <2> HIDE DEF d
  <2>1. QED BY <1>1, FitTimes
<1>3. TickEnd = IF next <= SessionClose(d) THEN next ELSE SessionClose(d)
  BY DEF TickEnd
<1>4. CASE now = next
  BY <1>1, <1>2, <1>3, <1>4
<1>5. CASE now < next
  <2>1. next = NextScheduledRun(now)
    BY <1>5 DEF TimerOk
  <2>2. QED BY <1>1, <1>3, <2>1, NextTickEnd
<1>6. QED BY <1>1, <1>4, <1>5

\* A bound that grows with the clock keeps holding.
LEMMA Passing ==
  ASSUME NEW q \in Nat, NEW r \in Nat, r <= q + 1, NEW n \in Nat, NEW e \in Nat, NEW x \in Nat, q + e <= n + x
  PROVE  r + e <= (n + 1) + x
OBVIOUS

LEMMA SessionStep ==
  ASSUME IntervalsFit, JobsInvariant, TimerOk, SkipOk, SessionOk, [JobsNext]_jobsVars
  PROVE  SessionOk'
<1> DEFINE T == TickInterval
           D == QuoteDelay
           M == MaxCycle
           open == SessionOpen(Day(now))
           close == SessionClose(Day(now))
<1>1. /\ now \in Nat /\ now <= MaxTime /\ next \in Nat /\ quiet \in Nat /\ (cycle # Off => cycle \in Nat)
      /\ price \in Row /\ price.at \in Nat /\ Day(now) \in Nat /\ QuoteOk(price)
  BY JobsTypes DEF JobsInvariant
<1>2. /\ T \in Nat /\ D \in Nat /\ M \in Nat /\ M < T /\ D <= T /\ T > 0
  BY JobsConstants DEF IntervalsFit
<1>3. /\ open \in Nat /\ close \in Nat /\ open < close
      /\ close <= Final(Day(now)) /\ Final(Day(now)) \in Nat
  BY <1>1, FitTimes
<1>4. cycle # Off => up /\ cycle <= now /\ now <= cycle + M
  BY DEF JobsInvariant, CycleOk
<1>5. JobsInvariant' /\ TimerOk'
  BY JobsStep, TimerStep
<1>6. price.source # "seed" => price'.source # "seed" /\ price'.at >= price.at /\ price'.at \in Nat
  <2>1. price'.at \in Nat
    BY <1>5 DEF JobsInvariant, JobsTypeOK, Row
  <2>2. QED BY <2>1, RowGrows
<1>7. CASE up' = FALSE
  BY <1>7 DEF SessionOk
<1>8. CASE /\ ~up /\ now' = now /\ price' = price
           /\ next' = NextScheduledRun(now) /\ cycle' \in {now, Off} /\ quiet' = 0
  <2> SUFFICES ASSUME up', IsOpen(now) PROVE SessionOk'
    BY <1>8 DEF SessionOk
  <2>1. /\ TickEnd' \in Nat /\ TickEnd' <= now + T /\ now <= TickEnd'
    <3>1. TickEnd' = IF next' <= close THEN next' ELSE close
      BY <1>8 DEF TickEnd
    <3>2. QED BY <3>1, <1>1, <1>2, <1>8, NextTickEnd
  <2>2. quiet' + TickEnd' <= now + T + M
    <3> DEFINE end == TickEnd'
    <3>1. end \in Nat /\ end <= now + T
      BY <2>1
    <3> HIDE DEF end
    <3>2. quiet' + end <= now + T + M
      BY <1>1, <1>2, <1>8, <3>1
    <3>3. QED BY <3>2 DEF end
  <2>3. cycle' # Off => quiet' <= now' - cycle'
    <3> SUFFICES ASSUME cycle' # Off PROVE quiet' <= now' - cycle'
      OBVIOUS
    <3>1. cycle' = now /\ now \in Nat /\ now - now = 0
      BY <1>1, <1>8
    <3>2. QED BY <1>8, <3>1
  <2> HIDE DEF T, M
  <2>4. QED BY <1>8, <2>1, <2>2, <2>3 DEF SessionOk, T, M
<1>9. CASE /\ now' = now + 1 /\ (up => now < next)
           /\ up' = up /\ price' = price /\ next' = next /\ cycle' = cycle /\ quiet' \in {quiet, quiet + 1}
  <2> SUFFICES ASSUME up, IsOpen(now') PROVE SessionOk'
    BY <1>9 DEF SessionOk
  <2>0. /\ Day(now') \in Nat /\ SessionOpen(Day(now')) <= now' /\ now' < SessionClose(Day(now'))
        /\ IsOpen(now) => Day(now') = Day(now)
        /\ ~IsOpen(now) => SessionOpen(Day(now')) = now'
    BY <1>1, <1>9, SameSession
  <2>1. CASE IsOpen(now)
    <3>1. Day(now') = Day(now)
      BY <2>0, <2>1
    <3>2. TickEnd' = TickEnd /\ TickEnd \in Nat /\ TickEnd <= now + T
      BY <1>9, <2>1, <3>1, TickEndIs DEF TickEnd
    <3>4. /\ cycle = Off => \/ TickEnd <= open + T
                            \/ quiet + TickEnd <= now + T + M
                            \/ Since(TickEnd - T - D)
          /\ cycle # Off => \/ quiet + TickEnd <= now + T + M
                            \/ /\ cycle >= TickEnd - T
                               /\ \/ cycle <= open + T
                                  \/ quiet <= now - cycle + T + M
                                  \/ Since(cycle - T - D)
          /\ cycle # Off => \/ quiet <= now - cycle
                            \/ cycle >= open + T
                            \/ TickEnd <= open + T
      BY <2>1 DEF SessionOk
    <3>5. /\ quiet + TickEnd <= now + T + M => quiet' + TickEnd <= now' + T + M
          /\ cycle # Off /\ quiet <= now - cycle + T + M => quiet' <= now' - cycle + T + M
          /\ cycle # Off /\ quiet <= now - cycle => quiet' <= now' - cycle
          /\ TickEnd <= now' + T
      <4>1. quiet' \in Nat /\ quiet' <= quiet + 1 /\ now' = now + 1
        BY <1>1, <1>9
      <4>2. /\ quiet + TickEnd <= now + T + M => quiet' + TickEnd <= now' + T + M
            /\ TickEnd <= now' + T
        <5> DEFINE end == TickEnd
        <5>1. end \in Nat /\ end <= now + T
          BY <3>2
        <5> HIDE DEF end
        <5>2. now \in Nat /\ quiet \in Nat
          BY <1>1
        <5>3. end <= now' + T
          BY <1>2, <4>1, <5>1, <5>2
        <5>4. quiet + end <= now + T + M => quiet' + end <= now' + T + M
          <6>1. T + M \in Nat
            BY <1>2
          <6>2. quiet + end <= now + (T + M) => quiet' + end <= now' + (T + M)
            BY <4>1, <5>1, <5>2, <6>1, Passing
          <6>3. now + T + M = now + (T + M) /\ now' + T + M = now' + (T + M)
            BY <1>2, <4>1, <5>2
          <6>4. QED BY <6>2, <6>3
        <5>5. QED BY <5>3, <5>4 DEF end
      <4>3. ASSUME cycle # Off
            PROVE  /\ quiet <= now - cycle + T + M => quiet' <= now' - cycle + T + M
                   /\ quiet <= now - cycle => quiet' <= now' - cycle
        BY <1>1, <1>2, <4>1, <4>3
      <4>4. QED BY <4>2, <4>3
    <3>6. Since(TickEnd - T - D) => Since(TickEnd - T - D)'
      BY <1>9, <3>1, <3>2 DEF Since
    <3>7. Since(cycle - T - D) => Since(cycle - T - D)'
      BY <1>9, <3>1 DEF Since
    <3> HIDE DEF T, D, M
    <3>8. QED BY <1>9, <3>1, <3>2, <3>4, <3>5, <3>6, <3>7 DEF SessionOk, T, D, M
  <2>2. CASE ~IsOpen(now)
    <3>1. SessionOpen(Day(now')) = now'
      BY <2>0, <2>2
    <3>2. next = now'
      <4>1. next = NextScheduledRun(now) /\ now + 1 <= next
        BY <1>1, <1>9 DEF TimerOk
      <4>2. QED BY <1>1, <1>9, <2>2, <4>1, OpenIsDue
    <3>3. TickEnd' = now'
      BY <1>1, <1>9, <2>0, <3>2, SessionTimes DEF TickEnd
    <3>4. cycle # Off => cycle >= now' - T /\ cycle <= now' + T
      <4>1. cycle # Off => cycle <= now' /\ now' <= cycle + M
        BY <1>5, <1>9 DEF JobsInvariant, CycleOk
      <4>2. QED BY <1>1, <1>2, <1>9, <4>1
    <3>5. now' <= now' + T
      BY <1>1, <1>2, <1>9
    <3>6. QED BY <1>9, <3>1, <3>3, <3>4, <3>5 DEF SessionOk
  <2>3. QED BY <2>1, <2>2
<1>10. CASE /\ up /\ now >= next /\ now' = now /\ price' = price /\ quiet' = quiet
            /\ next' = NextScheduledRun(now) /\ cycle' = IF cycle = Off THEN now ELSE cycle
  <2> SUFFICES ASSUME up', IsOpen(now) PROVE SessionOk'
    BY <1>10 DEF SessionOk
  <2>1. /\ next = now /\ now - 1 \in Nat /\ NextScheduledRun(now - 1) = now
    BY <1>10, Firing
  <2>2. open <= now /\ now < close
    BY DEF IsOpen
  <2>3. TickEnd = now
    BY <1>1, <1>3, <2>1, <2>2 DEF TickEnd
  <2>4. /\ TickEnd' \in Nat /\ TickEnd' <= now + T
    <3>1. TickEnd' = IF next' <= close THEN next' ELSE close
      BY <1>10 DEF TickEnd
    <3>2. QED BY <3>1, <1>1, <1>10, NextTickEnd
  <2>5. now = open \/ now >= open + T
    <3> DEFINE t == now - 1
    <3>1. t \in Nat /\ t + 1 = now /\ NextScheduledRun(t) = t + 1
      BY <1>1, <2>1
    <3> HIDE DEF t
    <3>2. QED BY <3>1, FiresOnTheGrid
  <2>6. CASE cycle = Off
    <3>1. cycle' = now
      BY <1>10, <2>6
    <3>2. \/ now <= open + T
          \/ quiet <= T + M
          \/ Since(now - T - D)
      <4>1. \/ TickEnd <= open + T
            \/ quiet + TickEnd <= now + T + M
            \/ Since(TickEnd - T - D)
        BY <1>10, <2>6 DEF SessionOk
      <4>2. QED BY <4>1, <2>3, <1>1, <1>2
    <3>3. now >= TickEnd' - T
      <4> DEFINE end == TickEnd'
      <4>1. end \in Nat /\ end <= now + T
        BY <2>4
      <4> HIDE DEF end
      <4>2. now >= end - T
        BY <1>1, <1>2, <4>1
      <4>3. QED BY <4>2 DEF end
    <3>4. Since(now - T - D) => Since(now - T - D)'
      BY <1>10 DEF Since
    <3>5. quiet <= T + M => quiet' <= now' - cycle' + T + M
      BY <1>1, <1>2, <1>10, <3>1
    <3>6. now >= open + T \/ TickEnd' <= open + T
      BY <2>4, <2>5
    <3>7. cycle' # Off
      BY <1>1, <3>1, JobsConstants
    <3> HIDE DEF T, D, M
    <3>8. QED BY <1>10, <2>4, <3>1, <3>2, <3>3, <3>4, <3>5, <3>6, <3>7 DEF SessionOk, T, D, M
  <2>7. CASE cycle # Off
    <3>1. quiet <= now - cycle
      BY <1>1, <1>2, <1>4, <2>1, <2>7 DEF SkipOk
    <3>2. quiet' + TickEnd' <= now + T + M
      <4> DEFINE end == TickEnd'
      <4>1. end \in Nat /\ end <= now + T
        BY <2>4
      <4> HIDE DEF end
      <4>2. cycle \in Nat /\ cycle <= now /\ now <= cycle + M
        BY <1>1, <1>4, <2>7
      <4>3. quiet <= M
        BY <1>1, <1>2, <3>1, <4>2
      <4>4. quiet' + end <= now + T + M
        BY <1>1, <1>2, <1>10, <4>1, <4>3
      <4>5. QED BY <4>4 DEF end
    <3>3. QED BY <1>10, <2>4, <2>7, <3>1, <3>2 DEF SessionOk
  <2>8. QED BY <2>6, <2>7
<1>11. CASE /\ cycle # Off /\ now' = now /\ up' = up /\ next' = next /\ quiet' = quiet /\ cycle' = Off
            /\ \E t \in (cycle - QuoteDelay)..cycle : price' = Saved([source |-> "yahoo", at |-> LastTrade(t)])
  <2> SUFFICES ASSUME up, IsOpen(now) PROVE SessionOk'
    BY <1>11 DEF SessionOk
  <2>1. PICK t \in (cycle - QuoteDelay)..cycle : price' = Saved([source |-> "yahoo", at |-> LastTrade(t)])
    BY <1>11
  <2>2. price'.source # "seed" /\ price'.at >= LastTrade(t) /\ price'.at \in Nat
    <3> DEFINE q == [source |-> "yahoo", at |-> LastTrade(t)]
    <3>1. q \in Row /\ q.source # "seed" /\ QuoteOk(q) /\ q.at = LastTrade(t)
      BY <1>11, CycleQuoteIs
    <3>2. price' = Saved(q)
      BY <2>1
    <3> HIDE DEF q
    <3>3. price' \in Row /\ price'.source # "seed" /\ price'.at >= q.at
      BY <1>1, <3>1, <3>2, SavedIs
    <3>4. QED BY <3>1, <3>3 DEF Row
  <2>3. TickEnd' = TickEnd /\ TickEnd \in Nat /\ TickEnd <= now + T
    BY <1>11, TickEndIs DEF TickEnd
  <2>4. cycle \in Nat /\ cycle <= now /\ now <= cycle + M
    BY <1>1, <1>4, <1>11
  <2>5. \/ quiet + TickEnd <= now + T + M
        \/ cycle >= TickEnd - T
    BY <1>11 DEF SessionOk
  <2>6. \/ quiet <= now - cycle
        \/ cycle >= open + T
        \/ TickEnd <= open + T
    BY <1>11 DEF SessionOk
  <2>7. \/ TickEnd <= open + T
        \/ quiet + TickEnd <= now + T + M
        \/ Since(TickEnd - T - D)'
    <3>1. CASE cycle >= TickEnd - T /\ quiet <= now - cycle
      BY <1>1, <1>2, <2>3, <2>4, <3>1
    <3>2. CASE cycle >= TickEnd - T /\ cycle >= open + T
      <4>1. LastTrade(t) = t /\ t \in Nat /\ t >= open /\ t >= cycle - D
        BY <1>11, <3>2, SessionQuote
      <4>2. price'.at >= TickEnd - T - D /\ price'.at >= open
        BY <1>1, <1>2, <1>3, <2>2, <2>3, <2>4, <3>2, <4>1
      <4>3. QED BY <1>11, <2>2, <2>3, <4>2 DEF Since
    <3>3. QED BY <2>5, <2>6, <3>1, <3>2
  <2> HIDE DEF T, D, M
  <2>8. QED BY <1>11, <2>3, <2>7 DEF SessionOk, T, D, M
<1>12. CASE now' = now /\ up' = up /\ price' = price /\ next' = next /\ cycle' = Off /\ quiet' = 0
  <2> SUFFICES ASSUME up, IsOpen(now) PROVE SessionOk'
    BY <1>12 DEF SessionOk
  <2>1. TickEnd' = TickEnd /\ TickEnd \in Nat /\ TickEnd <= now + T
    BY <1>12, TickEndIs DEF TickEnd
  <2>2. quiet' + TickEnd <= now + T + M
    BY <1>1, <1>2, <1>12, <2>1
  <2>3. QED BY <1>12, <2>1, <2>2 DEF SessionOk
<1>13. CASE now' = now /\ up' = up /\ next' = next /\ cycle' = cycle /\ quiet' = quiet
  <2> SUFFICES ASSUME up, IsOpen(now) PROVE SessionOk'
    BY <1>13 DEF SessionOk
  <2>1. TickEnd' = TickEnd /\ TickEnd \in Nat
    BY <1>13, TickEndIs DEF TickEnd
  <2>2. Since(TickEnd - T - D) => Since(TickEnd - T - D)'
    BY <1>1, <1>2, <1>3, <1>6, <1>13, <2>1 DEF Since
  <2>3. cycle # Off /\ Since(cycle - T - D) => Since(cycle - T - D)'
    BY <1>1, <1>2, <1>3, <1>6, <1>13 DEF Since
  <2> HIDE DEF T, D, M
  <2>4. QED BY <1>13, <2>1, <2>2, <2>3 DEF SessionOk, T, D, M
<1>14. QED BY <1>7, <1>8, <1>9, <1>10, <1>11, <1>12, <1>13, JobsSteps

\* A final cycle's quote is of the close, or as good.
LEMMA FinalQuote ==
  ASSUME IntervalsFit, NEW d \in Nat, IsTradingDay(d), NEW t \in (Final(d) - QuoteDelay)..Final(d)
  PROVE  LastTrade(t) \in Nat /\ LastTrade(t) >= SessionClose(d) - CloseGrace
<1>1. /\ At(d, 0) \in Nat /\ At(d + 1, 0) \in Nat
      /\ SessionOpen(d) = At(d, 0) + OpenTime /\ SessionClose(d) = At(d, 0) + CloseTime
      /\ Final(d) = At(d, 0) + CloseTime + FinalQuoteDelay
      /\ SessionOpen(d) \in Nat /\ SessionClose(d) \in Nat /\ Final(d) \in Nat
      /\ At(d, 0) <= SessionOpen(d) /\ Final(d) < At(d + 1, 0)
  BY FitTimes
<1>2. /\ QuoteDelay <= CloseTime - OpenTime /\ QuoteDelay <= FinalQuoteDelay + CloseGrace
      /\ QuoteDelay \in Nat /\ OpenTime \in Nat /\ CloseTime \in Nat /\ FinalQuoteDelay \in Nat /\ CloseGrace \in Nat
  BY JobsConstants DEF IntervalsFit
<1>3. /\ t \in Nat /\ SessionOpen(d) <= t /\ t >= SessionClose(d) - CloseGrace /\ t <= Final(d)
  BY <1>1, <1>2
<1>4. Day(t) = d
  <2>1. At(d, 0) <= t /\ t < At(d + 1, 0)
    BY <1>1, <1>3
  <2>2. QED BY <1>3, <2>1, TheDay
<1>5. CASE IsOpen(t)
  BY <1>3, <1>5 DEF LastTrade
<1>6. CASE ~IsOpen(t)
  <2>1. t >= SessionClose(d)
    BY <1>1, <1>3, <1>4, <1>6 DEF IsOpen
  <2>2. LastCompletedSessionClose(t) = SessionClose(d)
    BY <1>4, <2>1 DEF LastCompletedSessionClose
  <2>3. LastTrade(t) = SessionClose(d)
    BY <1>6, <2>2 DEF LastTrade
  <2>4. QED BY <1>1, <1>2, <2>3
<1>7. QED BY <1>5, <1>6

LEMMA FinalStep ==
  ASSUME IntervalsFit, JobsInvariant, TimerOk, SkipOk, FinalOk, [JobsNext]_jobsVars
  PROVE  FinalOk'
<1> DEFINE M == MaxCycle
           thisDay == Day(now)
           F == Final(thisDay)
           Closed(row) == row.source # "seed" /\ row.at >= SessionClose(thisDay) - CloseGrace
<1>1. /\ now \in Nat /\ now <= MaxTime /\ next \in Nat /\ quiet \in Nat
      /\ price \in Row /\ price.at \in Nat /\ thisDay \in Nat /\ QuoteOk(price) /\ M \in Nat
  BY JobsTypes, JobsConstants DEF JobsInvariant
<1>2. F \in Nat /\ SessionClose(thisDay) \in Nat /\ CloseGrace \in Nat
  BY <1>1, FitTimes, JobsConstants
<1>3. cycle # Off => cycle \in Nat /\ cycle <= now /\ now <= cycle + M
  BY JobsTypes DEF JobsInvariant, CycleOk
<1>4. Closed(price) => Closed(price')
  <2>1. price'.at \in Nat
    BY JobsStep DEF JobsInvariant, JobsTypeOK, Row
  <2>2. QED BY <1>1, <1>2, <2>1, RowGrows
<1>5. up /\ IsTradingDay(thisDay) /\ now >= F /\ next # F => Closed(price) \/ cycle = F \/ quiet <= now - F + M
  BY DEF FinalOk
<1>6. CASE up' = FALSE
  BY <1>6 DEF FinalOk
<1>7. CASE now' = now /\ quiet' = 0
  <2>1. now >= F => quiet' <= now - F + M
    BY <1>1, <1>2, <1>7
  <2>2. QED BY <1>7, <2>1 DEF FinalOk
<1>8. CASE /\ now' = now + 1 /\ (up => now < next)
           /\ up' = up /\ price' = price /\ next' = next /\ cycle' = cycle /\ quiet' \in {quiet, quiet + 1}
  <2> DEFINE d == Day(now')
  <2> SUFFICES ASSUME up, IsTradingDay(d), now' >= Final(d), next # Final(d)
               PROVE  \/ price.source # "seed" /\ price.at >= SessionClose(d) - CloseGrace
                      \/ cycle = Final(d)
                      \/ quiet' <= now' - Final(d) + M
    BY <1>8 DEF FinalOk
  <2>1. d \in Nat /\ now' < At(d + 1, 0)
    BY <1>1, <1>8, DayBounds
  <2>2. /\ At(d, 0) \in Nat /\ At(d + 1, 0) \in Nat /\ Final(d) \in Nat /\ At(d, 0) <= SessionOpen(d)
        /\ SessionOpen(d) < SessionClose(d) /\ SessionClose(d) <= Final(d)
        /\ SessionOpen(d) \in Nat /\ SessionClose(d) \in Nat
    <3> HIDE DEF d
    <3>1. QED BY <2>1, FitTimes
  <2>3. next = NextScheduledRun(now) /\ now < next
    BY <1>8 DEF TimerOk
  <2>4. now >= Final(d)
    <3> SUFFICES ASSUME now' = Final(d) PROVE FALSE
      BY <1>1, <1>8, <2>2
    <3>1. now + 1 <= NextScheduledRun(now) /\ now < NextScheduledRun(now)
      BY <1>1, <2>3
    <3>2. IsTradingDay(Day(now + 1)) /\ now + 1 = Final(Day(now + 1))
      BY <1>8
    <3>3. NextScheduledRun(now) = now + 1
      BY <1>1, <3>1, <3>2, FinalIsDue
    <3>4. QED BY <1>8, <2>3, <3>3
  <2>5. thisDay = d
    <3>1. At(d, 0) <= now /\ now < At(d + 1, 0)
      BY <1>1, <1>8, <2>1, <2>2, <2>4
    <3> HIDE DEF d
    <3>2. QED BY <1>1, <2>1, <3>1, TheDay
  <2>6. Closed(price) \/ cycle = F \/ quiet <= now - F + M
    BY <1>5, <2>4, <2>5
  <2>7. quiet <= now - F + M => quiet' <= now' - F + M
    <3>1. quiet' \in Nat /\ quiet' <= quiet + 1 /\ now' = now + 1
      BY <1>1, <1>8
    <3> HIDE DEF F, M
    <3>2. QED BY <1>1, <1>2, <3>1
  <2>8. QED BY <2>5, <2>6, <2>7
<1>9. CASE /\ up /\ now >= next /\ now' = now /\ price' = price /\ quiet' = quiet
           /\ next' = NextScheduledRun(now) /\ cycle' = IF cycle = Off THEN now ELSE cycle
  <2> SUFFICES ASSUME IsTradingDay(thisDay), now >= F PROVE Closed(price) \/ cycle' = F \/ quiet <= now - F + M
    BY <1>9 DEF FinalOk
  <2>1. next = now
    BY <1>9, Firing
  <2>2. CASE next = F
    <3>1. CASE cycle = Off
      BY <1>9, <2>1, <2>2, <3>1
    <3>2. CASE cycle # Off
      <4>1. quiet <= now - cycle
        BY <1>1, <1>3, <2>1, <3>2 DEF SkipOk
      <4>2. F = now
        BY <2>1, <2>2
      <4>3. cycle \in Nat /\ cycle <= now /\ now <= cycle + M
        BY <1>3, <3>2
      <4>4. quiet <= now - F + M
        <5> HIDE DEF F, M
        <5>1. QED BY <1>1, <1>2, <4>1, <4>2, <4>3
      <4>5. QED BY <4>4
    <3>3. QED BY <3>1, <3>2
  <2>3. CASE next # F
    <3>1. F # Off
      BY <1>2, JobsConstants
    <3>2. QED BY <1>5, <1>9, <2>3, <3>1
  <2>4. QED BY <2>2, <2>3
<1>10. CASE /\ cycle # Off /\ now' = now /\ up' = up /\ next' = next /\ quiet' = quiet /\ cycle' = Off
            /\ \E t \in (cycle - QuoteDelay)..cycle : price' = Saved([source |-> "yahoo", at |-> LastTrade(t)])
  <2> SUFFICES ASSUME up, IsTradingDay(thisDay), now >= F, next # F
               PROVE Closed(price') \/ quiet <= now - F + M
    BY <1>10 DEF FinalOk
  <2>1. CASE cycle = F
    <3>1. PICK t \in (cycle - QuoteDelay)..cycle : price' = Saved([source |-> "yahoo", at |-> LastTrade(t)])
      BY <1>10
    <3> DEFINE q == [source |-> "yahoo", at |-> LastTrade(t)]
    <3>2. q \in Row /\ q.source # "seed" /\ QuoteOk(q) /\ q.at = LastTrade(t)
      BY <1>10, CycleQuoteIs
    <3>3. price' = Saved(q)
      BY <3>1
    <3>4. LastTrade(t) \in Nat /\ LastTrade(t) >= SessionClose(thisDay) - CloseGrace
      <4> HIDE DEF thisDay
      <4>1. QED BY <1>1, <2>1, FinalQuote
    <3> HIDE DEF q
    <3>5. price' \in Row /\ price'.source # "seed" /\ price'.at >= q.at
      BY <1>1, <3>2, <3>3, SavedIs
    <3>6. price'.at \in Nat
      BY <3>5 DEF Row
    <3>7. QED BY <1>2, <3>2, <3>4, <3>5, <3>6
  <2>2. CASE cycle # F
    BY <1>4, <1>5, <2>2
  <2>3. QED BY <2>1, <2>2
<1>11. CASE now' = now /\ up' = up /\ next' = next /\ cycle' = cycle /\ quiet' = quiet
  BY <1>4, <1>5, <1>11 DEF FinalOk
<1>12. QED BY <1>6, <1>7, <1>8, <1>9, <1>10, <1>11, JobsSteps

LEMMA QuotesInitial == JobsInit => QuoteInvariant
<1> SUFFICES ASSUME JobsInit PROVE QuoteInvariant
  OBVIOUS
<1>1. up = FALSE /\ cycle = Off
  BY DEF JobsInit
<1>2. QED BY <1>1 DEF QuoteInvariant, TimerOk, SkipOk, SessionOk, FinalOk

\* If the intervals fit, the timer, the cycles and the row stay in step.
THEOREM QuotesKeepUp == ASSUME IntervalsFit PROVE JobsSpec => []QuoteInvariant
<1>1. JobsInit => QuoteInvariant
  BY QuotesInitial
<1>2. JobsInvariant /\ QuoteInvariant /\ [JobsNext]_jobsVars => QuoteInvariant'
  BY TimerStep, SkipStep, SessionStep, FinalStep DEF QuoteInvariant
<1>3. QED BY <1>1, <1>2, JobsRun, PTL DEF JobsSpec

\* If the intervals fit, the price is fresh through the session and after the
\* final quote once nothing failed or restarted for a tick and two cycles
\* (FreshWhenQuiet).
THEOREM QuietPriceIsFresh == ASSUME IntervalsFit PROVE JobsSpec => []FreshWhenQuiet
<1> DEFINE T == TickInterval
           D == QuoteDelay
           M == MaxCycle
           thisDay == Day(now)
           open == SessionOpen(thisDay)
           close == SessionClose(thisDay)
           F == Final(thisDay)
<1>1. ASSUME JobsInvariant, QuoteInvariant PROVE FreshWhenQuiet
  <2> SUFFICES ASSUME up, IsTradingDay(thisDay), quiet > Settled
               PROVE /\ IsOpen(now) /\ now > open + T + M => Fresh(price, now)
                     /\ now > F + M /\ now - Settled <= F - M => Fresh(price, now)
    BY DEF FreshWhenQuiet
  <2>1. /\ now \in Nat /\ next \in Nat /\ quiet \in Nat /\ (cycle # Off => cycle \in Nat)
        /\ price.at \in Nat /\ price.at <= now /\ thisDay \in Nat
    BY <1>1, JobsTypes DEF JobsInvariant
  <2>2. /\ T \in Nat /\ D \in Nat /\ M \in Nat /\ MaxStale \in Nat /\ CloseGrace \in Nat /\ FutureSkew \in Nat
        /\ T + M + D <= MaxStale
    BY JobsConstants DEF IntervalsFit
  <2>3. quiet > T + 2 * M
    BY DEF Settled
  <2>4. /\ open \in Nat /\ close \in Nat /\ F \in Nat /\ open < close /\ close <= F
    <3> HIDE DEF thisDay
    <3>1. QED BY <2>1, FitTimes
  <2>5. cycle # Off => cycle <= now /\ now <= cycle + M
    BY <1>1 DEF JobsInvariant, CycleOk
  <2>6. ASSUME IsOpen(now), now > open + T + M PROVE Fresh(price, now)
    <3> DEFINE end == TickEnd
    <3>1. end \in Nat /\ now <= end
      BY <1>1, <2>6, TickEndIs DEF QuoteInvariant
    <3>2. /\ cycle = Off => \/ end <= open + T
                            \/ quiet + end <= now + T + M
                            \/ Since(end - T - D)
          /\ cycle # Off => \/ quiet + end <= now + T + M
                            \/ /\ cycle >= end - T
                               /\ \/ cycle <= open + T
                                  \/ quiet <= now - cycle + T + M
                                  \/ Since(cycle - T - D)
      BY <1>1, <2>6 DEF QuoteInvariant, SessionOk
    <3> HIDE DEF end
    <3>3. ~(quiet + end <= now + T + M)
      BY <2>1, <2>2, <2>3, <3>1
    <3>4. price.source # "seed" /\ price.at >= now - MaxStale /\ price.at >= open
      <4>1. CASE cycle = Off
        <5>1. ~(end <= open + T)
          BY <2>1, <2>2, <2>4, <2>6, <3>1
        <5>2. Since(end - T - D)
          BY <3>2, <3>3, <4>1, <5>1
        <5>3. price.source # "seed" /\ price.at >= end - T - D /\ price.at >= open
          BY <5>2 DEF Since
        <5>4. price.at >= now - MaxStale
          BY <2>1, <2>2, <3>1, <5>3
        <5>5. QED BY <5>3, <5>4
      <4>2. CASE cycle # Off
        <5>1. cycle \in Nat /\ cycle <= now /\ now <= cycle + M
          BY <2>1, <2>5, <4>2
        <5>2. ~(cycle <= open + T)
          BY <2>1, <2>2, <2>4, <2>6, <5>1
        <5>3. ~(quiet <= now - cycle + T + M)
          BY <2>1, <2>2, <2>3, <5>1
        <5>4. Since(cycle - T - D)
          BY <3>2, <3>3, <4>2, <5>2, <5>3
        <5>5. price.source # "seed" /\ price.at >= cycle - T - D /\ price.at >= open
          BY <5>4 DEF Since
        <5>6. price.at >= now - MaxStale
          BY <2>1, <2>2, <5>1, <5>5
        <5>7. QED BY <5>5, <5>6
      <4>3. QED BY <4>1, <4>2
    <3>5. FreshFrom(now) = IF open <= now - MaxStale THEN now - MaxStale ELSE open
      <4>1. Max({open, now - MaxStale}) = IF open <= now - MaxStale THEN now - MaxStale ELSE open
        BY <2>1, <2>2, <2>4, MaxOfTwo
      <4>2. FreshFrom(now) = Max({open, now - MaxStale})
        BY <2>6 DEF FreshFrom
      <4>3. QED BY <4>1, <4>2
    <3>6. FreshFrom(now) <= price.at /\ price.at <= now + FutureSkew
      BY <2>1, <2>2, <2>4, <3>4, <3>5
    <3>7. QED BY <3>4, <3>6 DEF Fresh
  <2>7. ASSUME now > F + M, now - Settled <= F - M PROVE Fresh(price, now)
    <3>1. ~(quiet <= now - F + M)
      <4>1. now - (T + 2 * M) <= F - M
        BY <2>7 DEF Settled
      <4>2. QED BY <2>1, <2>2, <2>3, <2>4, <4>1
    <3>2. cycle # F
      <4>1. F # Off
        BY <2>4, JobsConstants
      <4>2. QED BY <2>1, <2>2, <2>4, <2>5, <2>7, <4>1
    <3>3. now >= F /\ next # F
      <4>1. now <= next
        BY <1>1 DEF QuoteInvariant, TimerOk
      <4>2. QED BY <2>1, <2>2, <2>4, <2>7, <4>1
    <3>4. price.source # "seed" /\ price.at >= close - CloseGrace
      BY <1>1, <3>1, <3>2, <3>3 DEF QuoteInvariant, FinalOk
    <3>5. ~IsOpen(now) /\ now >= close
      BY <2>1, <2>4, <3>3 DEF IsOpen
    <3>6. FreshFrom(now) = close - CloseGrace
      BY <3>5 DEF FreshFrom, LastCompletedSessionClose
    <3>7. price.at <= now + FutureSkew
      BY <2>1, <2>2
    <3>8. QED BY <3>4, <3>6, <3>7 DEF Fresh
  <2>8. QED BY <2>6, <2>7
<1> HIDE DEF T, D, M, thisDay, open, close, F
<1>2. QED BY <1>1, JobsRun, QuotesKeepUp, PTL
====
