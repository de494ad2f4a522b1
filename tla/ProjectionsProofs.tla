--------------------------- MODULE ProjectionsProofs ---------------------------
(***************************************************************************)
(* The maintained projections, for every number of users, rewards, writers *)
(* and workers, writers that roll back, workers that fail or crash.        *)
(*                                                                         *)
(* StateInv says of each writer that the rows it has replayed are what a   *)
(* replay would give if it committed now, and that writers of one reward   *)
(* and events take turns.  AggregateInv adds who holds which user's lock,  *)
(* which users a writer refreshes or leaves to the queue, and which row a  *)
(* worker has claimed.                                                     *)
(*                                                                         *)
(* The code does not keep an event apart from a grant or an adjustment of  *)
(* one of its rewards, nor an enqueue from a pending row that a worker is  *)
(* reading under.  NoOverlap and NoCoalescing are what a behaviour needs   *)
(* for want of that: without the one MCProjections_Overlap, without the    *)
(* other MCProjections_Coalesce ends in a stale row.                       *)
(***************************************************************************)
EXTENDS Projections, DataFacts, TLAPS

-----------------------------------------------------------------------------
(* Types *)

Rows(keys, values) == UNION {[some -> values] : some \in SUBSET keys}

Aggregates == Rows(Reward, SUBSET Writer)

Transaction ==
  [pc : {"idle", "begun", "find", "evaluate", "store", "lock", "positions", "cash", "enqueue",
         "commit", "done"},
   rewards : SUBSET Reward, users : SUBSET User, seen : SUBSET Writer,
   state : Aggregates, positions : Rows(User, Aggregates), cash : Rows(User, Aggregates),
   enqueued : SUBSET User]

TypeInv ==
  /\ load \in Workload /\ committed \in SUBSET Writer
  /\ rewardState \in [{r \in Reward : Exists(r, committed)} -> SUBSET Writer]
  /\ proc \in [Process -> Transaction]
  /\ \A p \in Process :
       proc[p].users # {} <=> proc[p].pc \in {"lock", "positions", "cash", "enqueue"}
  /\ \A t \in Writer : proc[t].rewards # {} <=> proc[t].pc \in {"evaluate", "store"}

-----------------------------------------------------------------------------
(* The rewards *)

\* Past Begin, and for an event past the wait for the advisory lock.
Active(t) == proc[t].pc \notin {"idle", "begun", "done"}

\* The rewards whose rows t refreshes: an event finds those that have one.
Affected(t) == IF Kind[t] = "event" THEN Writes[t] \cap DOMAIN rewardState ELSE Writes[t]

\* What t has of its rewards: all it will commit is what a replay would give if
\* it committed now.
Progress(t) ==
  /\ proc[t].pc # "idle" => t \in load.writers
  /\ t \in committed => proc[t].pc = "done"
  /\ proc[t].pc \in {"begun", "find", "enqueue"} => Kind[t] = "event"
  /\ Kind[t] = "adjust" /\ Active(t) => Writes[t] \subseteq DOMAIN rewardState
  /\ proc[t].pc \in {"idle", "begun", "find", "done"} => DOMAIN proc[t].state = {}
  /\ Active(t) /\ proc[t].pc # "find" => proc[t].rewards \cup DOMAIN proc[t].state = Affected(t)
  /\ proc[t].pc = "store" => proc[t].seen = Outcome(Min(proc[t].rewards), committed \cup {t})
  /\ \A r \in DOMAIN proc[t].state : proc[t].state[r] = Outcome(r, committed \cup {t})

\* Writers of one reward take turns, and so do events.
TakeTurns(t, o) ==
  /\ Writes[t] \cap Writes[o] = {}
  /\ Kind[t] # "event" \/ Kind[o] # "event"

Apart == \A t, o \in Writer : t # o /\ Active(t) /\ Active(o) => TakeTurns(t, o)

\* No event is past its advisory lock while a grant or an adjustment of one of its
\* rewards is under way.
NoOverlap ==
  \A t, o \in Writer :
    Kind[t] = "event" /\ Kind[o] # "event" /\ Active(t) /\ Active(o) => Writes[t] \cap Writes[o] = {}

StateInv == TypeInv /\ (\A t \in Writer : Progress(t)) /\ Apart /\ RewardStateComplete

-----------------------------------------------------------------------------
(* The aggregates *)

Reached(t) == {Owner[r] : r \in Affected(t)}
Large(t) == Kind[t] = "event" /\ Cardinality(Reached(t)) > load.syncLimit

\* p holds the lock of every user whose rows it has rebuilt, and of the one it
\* is rebuilding.
Locks(p) ==
  /\ proc[p].pc \in {"positions", "cash"} => userLock[Min(proc[p].users)] = p
  /\ DOMAIN proc[p].positions =
       DOMAIN proc[p].cash \cup (IF proc[p].pc = "cash" THEN {Min(proc[p].users)} ELSE {})
  /\ \A u \in DOMAIN proc[p].positions : userLock[u] = p

\* The users t has yet to refresh, has refreshed or leaves to the queue.
Fans(t) ==
  /\ proc[t].pc \in {"idle", "begun", "find", "evaluate", "store", "enqueue", "done"} =>
       DOMAIN proc[t].positions = {} /\ proc[t].enqueued = {}
  /\ proc[t].pc \in {"lock", "positions", "cash"} => ~Large(t)
  /\ proc[t].pc = "enqueue" => Large(t)
  /\ proc[t].pc \in {"lock", "positions", "cash", "enqueue", "commit"} =>
       IF Large(t)
       THEN DOMAIN proc[t].positions = {} /\ proc[t].users \cup proc[t].enqueued = Reached(t)
       ELSE proc[t].users \cup DOMAIN proc[t].cash = Reached(t) /\ proc[t].enqueued = {}
  /\ \A u \in proc[t].enqueued : queue[u] = None

\* The row w has claimed.
Works(w) ==
  /\ proc[w].pc \in {"idle", "lock", "positions", "cash", "commit"}
  /\ DOMAIN proc[w].state = {}
  /\ proc[w].users \cup DOMAIN proc[w].cash = proc[w].enqueued
  /\ proc[w].pc = "idle" => proc[w].enqueued = {}
  /\ \A u \in proc[w].enqueued : proc[w].enqueued = {u} /\ queue[u] # None

Marked(u) == queue[u] # None \/ u \in dead

\* What p has rebuilt is what it would rebuild now; a writer may lag behind an
\* event that has left the user to the queue.
UpToDate(p) ==
  /\ \A u \in DOMAIN proc[p].positions :
       proc[p].positions[u] = OfUser(p, u) \/ (p \in Writer /\ Marked(u))
  /\ \A u \in DOMAIN proc[p].cash :
       proc[p].cash[u] = OfUser(p, u) \/ (p \in Writer /\ Marked(u))

\* No event finds a pending row of a user that it leaves to the queue
\* (projection_enqueue_users, ON CONFLICT DO NOTHING).
NoCoalescing ==
  \A t \in Writer : proc[t].pc = "enqueue" => \A u \in proc[t].users : queue[u] = None

AggregateInv ==
  /\ StateInv
  /\ positions \in [User -> Aggregates] /\ cash \in [User -> Aggregates]
  /\ userLock \in [User -> Process \cup {None}]
  /\ queue \in [User -> QueueRows \cup {None}]
  /\ \A p \in Process : Locks(p) /\ UpToDate(p)
  /\ \A t \in Writer : Fans(t)
  /\ \A w \in Worker : Works(w)
  /\ \A w, x \in Worker : w # x => proc[w].enqueued \cap proc[x].enqueued = {}
  /\ StaleIsQueued

-----------------------------------------------------------------------------
(* Rows *)

LEMMA MinIn ==
  ASSUME NEW S \in SUBSET Nat, S # {}
  PROVE  Min(S) \in S
<1>1. PICK n \in S : TRUE
  OBVIOUS
<1> DEFINE I == {i \in 0..n : i \in S}
<1>2. \E m \in I : \A i \in I : m <= i
  <2>1. n \in Nat /\ I \in SUBSET (0..n) /\ I # {}
    OBVIOUS
  <2> HIDE DEF I
  <2> QED BY <2>1, FirstNumber
<1>3. \E m \in S : \A i \in S : m <= i
  BY <1>2
<1> QED BY <1>3 DEF Min

LEMMA RowsOf ==
  ASSUME NEW K, NEW V, NEW f \in Rows(K, V)
  PROVE  f = [k \in DOMAIN f |-> f[k]] /\ DOMAIN f \subseteq K /\ \A k \in DOMAIN f : f[k] \in V
BY DEF Rows

LEMMA RowsAre ==
  ASSUME NEW K, NEW V, NEW f, f = [k \in DOMAIN f |-> f[k]], DOMAIN f \subseteq K,
         \A k \in DOMAIN f : f[k] \in V
  PROVE  f \in Rows(K, V)
<1>1. f \in [DOMAIN f -> V]
  OBVIOUS
<1> QED BY <1>1 DEF Rows

LEMMA OverFacts ==
  ASSUME NEW new, NEW table
  PROVE  /\ DOMAIN Over(new, table) = DOMAIN new \cup DOMAIN table
         /\ \A k \in DOMAIN new : Over(new, table)[k] = new[k]
         /\ \A k \in DOMAIN table \ DOMAIN new : Over(new, table)[k] = table[k]
         /\ Over(new, table) = [k \in DOMAIN Over(new, table) |-> Over(new, table)[k]]
BY DEF Over

LEMMA OverType ==
  ASSUME NEW K, NEW V, NEW new \in Rows(K, V), NEW table \in Rows(K, V)
  PROVE  Over(new, table) \in Rows(K, V)
<1>1. /\ DOMAIN new \subseteq K /\ \A k \in DOMAIN new : new[k] \in V
      /\ DOMAIN table \subseteq K /\ \A k \in DOMAIN table : table[k] \in V
  BY RowsOf
<1> DEFINE f == Over(new, table)
<1>2. /\ DOMAIN f = DOMAIN new \cup DOMAIN table /\ f = [k \in DOMAIN f |-> f[k]]
      /\ \A k \in DOMAIN new : f[k] = new[k]
      /\ \A k \in DOMAIN table \ DOMAIN new : f[k] = table[k]
  BY DEF Over
<1> HIDE DEF f
<1>3. DOMAIN f \subseteq K /\ \A k \in DOMAIN f : f[k] \in V
  BY <1>1, <1>2
<1> QED BY <1>2, <1>3, RowsAre DEF f

LEMMA WithRowFacts ==
  ASSUME NEW k, NEW row, NEW table
  PROVE  /\ DOMAIN WithRow(k, row, table) = {k} \cup DOMAIN table
         /\ WithRow(k, row, table)[k] = row
         /\ \A l \in DOMAIN table \ {k} : WithRow(k, row, table)[l] = table[l]
BY DEF WithRow, Over

LEMMA WithRowType ==
  ASSUME NEW K, NEW V, NEW k \in K, NEW row \in V, NEW table \in Rows(K, V)
  PROVE  WithRow(k, row, table) \in Rows(K, V)
<1>1. [x \in {k} |-> row] \in Rows(K, V)
  BY RowsAre
<1> QED BY <1>1, OverType DEF WithRow

LEMMA NoRowsType == ASSUME NEW K, NEW V PROVE NoRows \in Rows(K, V) /\ DOMAIN NoRows = {}
<1>1. NoRows = [k \in DOMAIN NoRows |-> NoRows[k]] /\ DOMAIN NoRows = {}
  BY DEF NoRows
<1> QED BY <1>1, RowsAre

LEMMA IdleType == Idle \in Transaction /\ [Idle EXCEPT !.pc = "done"] \in Transaction
BY NoRowsType DEF Idle, Transaction, Aggregates

LEMMA RewardStateIsRows == ASSUME TypeInv PROVE rewardState \in Aggregates
<1>1. {r \in Reward : Exists(r, committed)} \in SUBSET Reward
  OBVIOUS
<1> QED BY <1>1 DEF TypeInv, Aggregates, Rows

LEMMA OfUserType ==
  ASSUME TypeInv, NEW p \in Process, NEW u
  PROVE  OfUser(p, u) \in Aggregates
<1>1. StateRows(p) \in Aggregates
  BY RewardStateIsRows, OverType DEF TypeInv, Transaction, Aggregates, StateRows
<1>2. DOMAIN StateRows(p) \subseteq Reward /\ \A r \in DOMAIN StateRows(p) : StateRows(p)[r] \in SUBSET Writer
  BY <1>1, RowsOf DEF Aggregates
<1> DEFINE f == OfUser(p, u)
<1>3. f = [k \in DOMAIN f |-> f[k]] /\ DOMAIN f \subseteq Reward /\ \A k \in DOMAIN f : f[k] \in SUBSET Writer
  BY <1>2 DEF OfUser
<1> HIDE DEF f
<1> QED BY <1>3, RowsAre DEF Aggregates, f

-----------------------------------------------------------------------------
(* Types *)

\* A step that replaces the transaction of one process.
Replaces(p, new) == proc' = [proc EXCEPT ![p] = new]

\* How the users and rewards left to do go with where a transaction is.
Phased(p, x) ==
  /\ x.users # {} <=> x.pc \in {"lock", "positions", "cash", "enqueue"}
  /\ p \in Writer => (x.rewards # {} <=> x.pc \in {"evaluate", "store"})

LEMMA TypeKept ==
  ASSUME TypeInv, NEW p \in Process, NEW new \in Transaction, Phased(p, new), Replaces(p, new),
         UNCHANGED load, UNCHANGED committed, UNCHANGED rewardState
  PROVE  TypeInv'
<1> USE DEF TypeInv
<1>1. load' \in Workload /\ committed' \in SUBSET Writer
  OBVIOUS
<1>2. rewardState' \in [{r \in Reward : Exists(r, committed)}' -> SUBSET Writer]
  BY DEF Exists
<1>3. proc' \in [Process -> Transaction]
  BY DEF Replaces
<1>4. \A q \in Process : proc'[q] = IF q = p THEN new ELSE proc[q]
  BY DEF Replaces
<1>5. Writer \subseteq Process
  BY DEF Process
<1> QED BY <1>1, <1>2, <1>3, <1>4, <1>5 DEF Phased

\* What a process drops its transaction for.
LEMMA Dropped ==
  ASSUME TypeInv, NEW p \in Process, UNCHANGED load, UNCHANGED committed, UNCHANGED rewardState,
         NEW new \in {Idle, [Idle EXCEPT !.pc = "done"]}, Replaces(p, new)
  PROVE  TypeInv'
<1>1. new \in Transaction /\ new.users = {} /\ new.rewards = {} /\ new.pc \in {"idle", "done"}
  BY IdleType DEF Idle
<1> QED BY <1>1, TypeKept DEF Phased

LEMMA PhasedNow ==
  ASSUME TypeInv, NEW p \in Process
  PROVE  Phased(p, proc[p]) /\ proc[p] \in Transaction
BY DEF TypeInv, Phased

LEMMA WriterTypes ==
  ASSUME TypeInv, NEW t \in Writer, UNCHANGED load,
         \/ Begin(t) \/ EventLock(t) \/ FindRewards(t) \/ Evaluate(t) \/ Store(t) \/ Enqueue(t)
         \/ Abort(t)
  PROVE  TypeInv'
<1> USE ConstantsAssumption
<1>0. /\ t \in Process /\ proc[t] \in Transaction /\ Phased(t, proc[t])
      /\ UNCHANGED committed /\ UNCHANGED rewardState
  BY PhasedNow DEF Process, Begin, EventLock, FindRewards, Evaluate, Store, Enqueue, Abort, rows
<1>r. DOMAIN rewardState \subseteq Reward
  BY DEF TypeInv
<1>1. CASE Begin(t)
  <2>1. Writes[t] \in SUBSET Reward /\ (Kind[t] # "event" => Writes[t] # {})
    OBVIOUS
  <2>2. proc[t].users = {} /\ proc[t].rewards = {}
    BY <1>0, <1>1 DEF Phased, Begin
  <2>3. CASE Kind[t] = "event"
    <3> DEFINE new == [proc[t] EXCEPT !.pc = "begun"]
    <3>1. Replaces(t, new)
      BY <1>1, <2>3 DEF Begin, Update, Replaces
    <3>2. new \in Transaction /\ new.users = {} /\ new.rewards = {} /\ new.pc = "begun"
      BY <1>0, <2>2 DEF Transaction
    <3> HIDE DEF new
    <3> QED BY <1>0, <3>1, <3>2, TypeKept DEF Phased
  <2>4. CASE Kind[t] # "event"
    <3> DEFINE new == [proc[t] EXCEPT !.pc = "evaluate", !.rewards = Writes[t]]
    <3>1. Replaces(t, new)
      BY <1>1, <2>4 DEF Begin, Update, Replaces
    <3>2. new \in Transaction /\ new.users = {} /\ new.rewards # {} /\ new.pc = "evaluate"
      BY <1>0, <2>1, <2>2, <2>4 DEF Transaction
    <3> HIDE DEF new
    <3> QED BY <1>0, <3>1, <3>2, TypeKept DEF Phased
  <2> QED BY <2>3, <2>4
<1>2. CASE EventLock(t)
  <2> DEFINE new == [proc[t] EXCEPT !.pc = "find"]
  <2>1. Replaces(t, new) /\ proc[t].users = {} /\ proc[t].rewards = {}
    BY <1>0, <1>2 DEF EventLock, Update, Replaces, Phased
  <2>2. new \in Transaction /\ new.users = {} /\ new.rewards = {} /\ new.pc = "find"
    BY <1>0, <2>1 DEF Transaction
  <2> HIDE DEF new
  <2> QED BY <1>0, <2>1, <2>2, TypeKept DEF Phased
<1>3. CASE FindRewards(t)
  <2> DEFINE affected == Writes[t] \cap DOMAIN rewardState
             new == [proc[t] EXCEPT !.rewards = affected,
                                    !.pc = IF affected = {} THEN "commit" ELSE "evaluate"]
  <2>1. Replaces(t, new) /\ proc[t].users = {}
    BY <1>0, <1>3 DEF FindRewards, Update, Replaces, Phased
  <2>2. affected \in SUBSET Reward
    BY <1>r
  <2> HIDE DEF affected
  <2>3. /\ new \in Transaction /\ new.users = {} /\ new.rewards = affected
        /\ new.pc = IF affected = {} THEN "commit" ELSE "evaluate"
    BY <1>0, <2>1, <2>2 DEF Transaction
  <2> HIDE DEF new
  <2> QED BY <1>0, <2>1, <2>3, TypeKept DEF Phased
<1>4. CASE Evaluate(t)
  <2> DEFINE seen == Outcome(Min(proc[t].rewards), Seen(t))
             new == [proc[t] EXCEPT !.pc = "store", !.seen = seen]
  <2>1. Replaces(t, new) /\ proc[t].users = {} /\ proc[t].rewards # {}
    BY <1>0, <1>4 DEF Evaluate, Update, Replaces, Phased
  <2>2. seen \in SUBSET Writer
    BY DEF Outcome, Seen, TypeInv
  <2> HIDE DEF seen
  <2>3. new \in Transaction /\ new.users = {} /\ new.rewards # {} /\ new.pc = "store"
    BY <1>0, <2>1, <2>2 DEF Transaction
  <2> HIDE DEF new
  <2> QED BY <1>0, <2>1, <2>3, TypeKept DEF Phased
<1>5. CASE Store(t)
  <2> DEFINE r     == Min(proc[t].rewards)
             rest  == proc[t].rewards \ {r}
             state == WithRow(r, proc[t].seen, proc[t].state)
             users == IF rest = {} THEN FanOut(t, state) ELSE {}
             pc    == IF rest # {} THEN "evaluate" ELSE AfterRewards(t, users)
             new   == [proc[t] EXCEPT !.rewards = rest, !.state = state, !.users = users,
                                      !.seen = {}, !.pc = pc]
  <2>1. Replaces(t, new) /\ proc[t].rewards # {} /\ proc[t].rewards \in SUBSET Reward
    BY <1>0, <1>5 DEF Store, Update, Replaces, Phased, Transaction
  <2>2. r \in Reward
    BY <2>1, MinIn
  <2> HIDE DEF r
  <2>3. state \in Aggregates /\ DOMAIN state \subseteq Reward /\ r \in DOMAIN state
    <3>1. proc[t].seen \in SUBSET Writer /\ proc[t].state \in Aggregates
      BY <1>0 DEF Transaction
    <3>2. state \in Aggregates
      BY <2>2, <3>1, WithRowType DEF Aggregates
    <3>3. r \in DOMAIN state
      BY DEF WithRow, Over
    <3> HIDE DEF state
    <3>4. DOMAIN state \subseteq Reward
      BY <3>2, RowsOf DEF Aggregates
    <3> QED BY <3>2, <3>3, <3>4
  <2>4. rest \in SUBSET Reward
    BY <2>1
  <2> HIDE DEF state, rest
  <2>5. FanOut(t, state) \in SUBSET User /\ FanOut(t, state) # {}
    <3>1. \A x \in DOMAIN state : Owner[x] \in User
      BY <2>3
    <3>2. Owner[r] \in FanOut(t, state)
      BY <2>3 DEF FanOut
    <3> QED BY <3>1, <3>2 DEF FanOut
  <2>6. /\ users \in SUBSET User /\ (users = {} <=> rest # {})
        /\ pc \in {"evaluate", "lock", "enqueue"} /\ (pc = "evaluate" <=> rest # {})
    BY <2>5 DEF AfterRewards
  <2> HIDE DEF users, pc
  <2>7. new \in Transaction /\ new.users = users /\ new.rewards = rest /\ new.pc = pc
    BY <1>0, <2>3, <2>4, <2>6 DEF Transaction
  <2>8. Phased(t, new)
    BY <2>6, <2>7 DEF Phased
  <2>9. Replaces(t, new)
    BY <2>1
  <2> HIDE DEF new
  <2> QED BY <1>0, <2>7, <2>8, <2>9, TypeKept
<1>6. CASE Enqueue(t)
  <2> DEFINE some == NotPending(proc[t].users)
             new  == [proc[t] EXCEPT !.pc = "commit", !.enqueued = some, !.users = {}]
  <2>1. Replaces(t, new) /\ proc[t].rewards = {}
    BY <1>0, <1>6 DEF Enqueue, Update, Replaces, Phased
  <2>2. some \in SUBSET User
    BY <1>0 DEF NotPending, Transaction
  <2> HIDE DEF some
  <2>3. new \in Transaction /\ new.users = {} /\ new.rewards = {} /\ new.pc = "commit"
    BY <1>0, <2>1, <2>2 DEF Transaction
  <2> HIDE DEF new
  <2> QED BY <1>0, <2>1, <2>3, TypeKept DEF Phased
<1>7. CASE Abort(t)
  <2>1. Replaces(t, [Idle EXCEPT !.pc = "done"])
    BY <1>7 DEF Abort, Update, Replaces
  <2> QED BY <1>0, <2>1, Dropped
<1> QED BY <1>1, <1>2, <1>3, <1>4, <1>5, <1>6, <1>7

LEMMA RefreshTypes ==
  ASSUME TypeInv, NEW p \in Process, UNCHANGED load,
         LockUser(p) \/ RebuildPositions(p) \/ RebuildCash(p)
  PROVE  TypeInv'
<1> USE ConstantsAssumption
<1>0. /\ proc[p] \in Transaction /\ Phased(p, proc[p])
      /\ UNCHANGED committed /\ UNCHANGED rewardState
  BY PhasedNow DEF LockUser, RebuildPositions, RebuildCash, rows
<1> DEFINE u == Min(proc[p].users)
<1>1. /\ proc[p].users # {} /\ (p \in Writer => proc[p].rewards = {})
      /\ proc[p].users \in SUBSET User
  BY <1>0 DEF LockUser, RebuildPositions, RebuildCash, Phased, Transaction
<1>2. u \in User /\ u \in proc[p].users
  BY <1>1, MinIn
<1>3. OfUser(p, u) \in Aggregates
  BY OfUserType
<1> HIDE DEF u
<1>4. CASE LockUser(p)
  <2> DEFINE new == [proc[p] EXCEPT !.pc = "positions"]
  <2>1. Replaces(p, new)
    BY <1>4 DEF LockUser, Update, Replaces
  <2>2. new \in Transaction /\ new.users = proc[p].users /\ new.rewards = proc[p].rewards
        /\ new.pc = "positions"
    BY <1>0 DEF Transaction
  <2> HIDE DEF new
  <2> QED BY <1>0, <1>1, <2>1, <2>2, TypeKept DEF Phased
<1>5. CASE RebuildPositions(p)
  <2> DEFINE some == WithRow(u, OfUser(p, u), proc[p].positions)
             new == [proc[p] EXCEPT !.pc = "cash", !.positions = some]
  <2>1. Replaces(p, new)
    BY <1>5 DEF RebuildPositions, Update, Replaces, u
  <2>2. some \in Rows(User, Aggregates)
    BY <1>0, <1>2, <1>3, WithRowType DEF Transaction
  <2> HIDE DEF some
  <2>3. new \in Transaction /\ new.users = proc[p].users /\ new.rewards = proc[p].rewards
        /\ new.pc = "cash"
    BY <1>0, <2>2 DEF Transaction
  <2> HIDE DEF new
  <2> QED BY <1>0, <1>1, <2>1, <2>3, TypeKept DEF Phased
<1>6. CASE RebuildCash(p)
  <2> DEFINE some == WithRow(u, OfUser(p, u), proc[p].cash)
             rest == proc[p].users \ {u}
             new == [proc[p] EXCEPT !.pc = IF rest = {} THEN "commit" ELSE "lock",
                                    !.users = rest, !.cash = some]
  <2>1. Replaces(p, new)
    BY <1>6 DEF RebuildCash, Update, Replaces, u
  <2>2. some \in Rows(User, Aggregates)
    BY <1>0, <1>2, <1>3, WithRowType DEF Transaction
  <2>3. rest \in SUBSET User
    BY <1>1
  <2> HIDE DEF some, rest
  <2>4. new \in Transaction /\ new.users = rest /\ new.rewards = proc[p].rewards
        /\ new.pc = IF rest = {} THEN "commit" ELSE "lock"
    BY <1>0, <2>2, <2>3 DEF Transaction
  <2> HIDE DEF new
  <2> QED BY <1>0, <1>1, <2>1, <2>4, TypeKept DEF Phased
<1> QED BY <1>4, <1>5, <1>6

LEMMA WorkerTypes ==
  ASSUME TypeInv, NEW w \in Worker, UNCHANGED load,
         (\E u \in User : Claim(w, u)) \/ Processed(w) \/ Fail(w) \/ Crash(w)
  PROVE  TypeInv'
<1> USE ConstantsAssumption
<1>0. /\ w \in Process /\ w \notin Writer /\ proc[w] \in Transaction /\ Phased(w, proc[w])
      /\ UNCHANGED committed /\ UNCHANGED rewardState
  BY PhasedNow DEF Process, Claim, Processed, Fail, Crash, rows
<1>1. ASSUME NEW u \in User, Claim(w, u) PROVE TypeInv'
  <2> DEFINE new == [proc[w] EXCEPT !.pc = "lock", !.users = {u}, !.enqueued = {u}]
  <2>1. Replaces(w, new)
    BY <1>1 DEF Claim, Update, Replaces
  <2>2. new \in Transaction /\ new.users = {u} /\ new.pc = "lock"
    BY <1>0 DEF Transaction
  <2> HIDE DEF new
  <2> QED BY <1>0, <2>1, <2>2, TypeKept DEF Phased
<1>2. CASE Processed(w) \/ Fail(w) \/ Crash(w)
  <2>1. Replaces(w, Idle)
    BY <1>2 DEF Processed, Fail, Crash, Update, Replaces
  <2> QED BY <1>0, <2>1, Dropped
<1> QED BY <1>1, <1>2

-----------------------------------------------------------------------------
(* The rewards *)

LEMMA InitialState == Init => StateInv
<1> SUFFICES ASSUME Init PROVE StateInv
  OBVIOUS
<1>1. /\ DOMAIN rewardState = {r \in Reward : Exists(r, {})}
      /\ rewardState = [r \in {x \in Reward : Exists(x, {})} |-> {}]
      /\ committed = {} /\ load \in Workload
  BY DEF Init, FirstRows
<1>2. rewardState \in [{r \in Reward : Exists(r, committed)} -> SUBSET Writer]
  BY <1>1
<1>3. \A p \in Process : proc[p] = Idle
  BY DEF Init
<1>4. Idle.pc = "idle" /\ Idle.rewards = {} /\ Idle.users = {} /\ DOMAIN Idle.state = {}
  BY NoRowsType DEF Idle
<1>5. proc \in [Process -> Transaction]
  BY IdleType DEF Init
<1>6. Writer \subseteq Process
  BY DEF Process
<1>7. TypeInv
  BY <1>1, <1>2, <1>3, <1>4, <1>5, <1>6 DEF TypeInv
<1>8. (\A t \in Writer : Progress(t)) /\ Apart
  BY <1>1, <1>3, <1>4, <1>6 DEF Progress, Apart, Active
<1>9. RewardStateComplete
  BY <1>1 DEF RewardStateComplete, Outcome
<1> QED BY <1>7, <1>8, <1>9 DEF StateInv

\* A step of one process that commits nothing.
LEMMA StateKept ==
  ASSUME StateInv, NEW p \in Process, NEW new, Replaces(p, new), TypeInv',
         UNCHANGED load, UNCHANGED committed, UNCHANGED rewardState,
         p \in Writer => Progress(p)',
         p \in Writer /\ Active(p)' =>
           \/ Active(p)
           \/ \A o \in Writer \ {p} : Active(o) => TakeTurns(o, p)
  PROVE  StateInv'
<1>1. Writer \subseteq Process
  BY DEF Process
<1>2. \A o \in Process \ {p} : proc'[o] = proc[o]
  BY DEF Replaces, StateInv, TypeInv
<1>3. ASSUME NEW o \in Writer, o # p PROVE Progress(o)'
  <2>1. proc'[o] = proc[o] /\ Progress(o)
    BY <1>1, <1>2, <1>3 DEF StateInv
  <2> QED BY <2>1 DEF Progress, Active, Affected, Outcome
<1>4. \A o \in Writer \ {p} : Active(o)' <=> Active(o)
  BY <1>1, <1>2 DEF Active
<1>5. Apart'
  <2> SUFFICES ASSUME NEW t \in Writer, NEW o \in Writer, t # o, Active(t)', Active(o)'
               PROVE  TakeTurns(t, o)
    BY DEF Apart, TakeTurns
  <2> QED BY <1>4 DEF StateInv, Apart, TakeTurns
<1>6. RewardStateComplete'
  BY DEF StateInv, RewardStateComplete, Outcome
<1> QED BY <1>3, <1>5, <1>6 DEF StateInv

LEMMA WriterState ==
  ASSUME StateInv, NoOverlap', NEW t \in Writer, UNCHANGED load,
         \/ Begin(t) \/ EventLock(t) \/ FindRewards(t) \/ Evaluate(t) \/ Store(t) \/ Enqueue(t)
         \/ Abort(t)
  PROVE  StateInv'
<1> USE ConstantsAssumption
<1>0. /\ t \in Process /\ proc[t] \in Transaction /\ Progress(t) /\ TypeInv /\ Phased(t, proc[t])
      /\ UNCHANGED committed /\ UNCHANGED rewardState
  BY PhasedNow DEF StateInv, Process, Begin, EventLock, FindRewards, Evaluate, Store, Enqueue,
                   Abort, rows
<1>t. TypeInv'
  BY <1>0, WriterTypes
<1>a. Affected(t)' = Affected(t)
  BY <1>0 DEF Affected
<1>p. proc \in [Process -> Transaction]
  BY <1>0 DEF TypeInv
<1>1. CASE Begin(t)
  <2>1. proc[t].pc = "idle" /\ t \in load.writers /\ t \notin committed
    BY <1>0, <1>1 DEF Begin, Progress
  <2>2. CASE Kind[t] = "event"
    <3> DEFINE new == [proc[t] EXCEPT !.pc = "begun"]
    <3>1. Replaces(t, new) /\ proc'[t] = new
      BY <1>0, <1>p, <1>1, <2>2 DEF Begin, Update, Replaces
    <3>2. new.pc = "begun" /\ new.state = proc[t].state
      BY <1>0 DEF Transaction
    <3> HIDE DEF new
    <3>3. Progress(t)' /\ ~Active(t)'
      BY <1>0, <2>1, <2>2, <3>1, <3>2 DEF Progress, Active
    <3> QED BY <1>0, <1>t, <3>1, <3>3, StateKept
  <2>3. CASE Kind[t] # "event"
    <3> DEFINE new == [proc[t] EXCEPT !.pc = "evaluate", !.rewards = Writes[t]]
    <3>1. Replaces(t, new) /\ proc'[t] = new
      BY <1>0, <1>p, <1>1, <2>3 DEF Begin, Update, Replaces
    <3>2. new.pc = "evaluate" /\ new.rewards = Writes[t] /\ new.state = proc[t].state
      BY <1>0 DEF Transaction
    <3>3. Kind[t] = "adjust" => Writes[t] \subseteq DOMAIN rewardState /\ RewardFree(t)
      BY <1>1 DEF Begin
    <3> HIDE DEF new
    <3>4. Progress(t)'
      BY <1>0, <1>a, <2>1, <2>3, <3>1, <3>2, <3>3 DEF Progress, Active, Affected
    <3>a. Active(t)' /\ \A o \in Writer \ {t} : Active(o)' <=> Active(o)
      BY <1>0, <1>p, <3>1, <3>2 DEF Active, Replaces, Process
    <3>5. ASSUME NEW o \in Writer \ {t}, Active(o) PROVE TakeTurns(o, t)
      <4>1. PICK r \in Reward : Writes[t] = {r}
        BY <2>3
      <4>2. CASE Kind[o] = "event"
        BY <2>3, <3>5, <3>a, <4>2 DEF NoOverlap, TakeTurns
      <4>3. CASE Kind[o] # "event"
        <5>1. PICK x \in Reward : Writes[o] = {x}
          BY <4>3
        <5> SUFFICES ASSUME x = r PROVE FALSE
          BY <2>3, <4>1, <5>1 DEF TakeTurns
        <5>2. Progress(o) /\ InTransaction(o) /\ o \notin committed
          BY <3>5 DEF StateInv, Progress, Active, InTransaction
        <5>3. CASE Kind[t] = "adjust"
          <6>1. Exists(r, committed)
            BY <1>0, <3>3, <4>1, <5>3 DEF TypeInv
          <6>2. Kind[o] = "adjust"
            BY <4>3, <5>1, <5>2, <6>1 DEF Exists
          <6> QED BY <3>3, <4>1, <5>1, <5>2, <5>3, <6>2 DEF RewardFree
        <5>4. CASE Kind[t] = "grant"
          <6>1. Kind[o] = "adjust"
            BY <4>1, <4>3, <5>1, <5>4
          <6>2. r \in DOMAIN rewardState
            BY <3>5, <5>1, <5>2, <6>1 DEF Progress
          <6>3. Exists(r, committed)
            BY <1>0, <6>2 DEF TypeInv
          <6> QED BY <2>1, <4>1, <5>4, <6>3 DEF Exists
        <5> QED BY <2>3, <5>3, <5>4
      <4> QED BY <4>2, <4>3
    <3> QED BY <1>0, <1>t, <3>1, <3>4, <3>5, StateKept
  <2> QED BY <2>2, <2>3
<1>2. CASE EventLock(t)
  <2> DEFINE new == [proc[t] EXCEPT !.pc = "find"]
  <2>1. Replaces(t, new) /\ proc'[t] = new /\ proc[t].pc = "begun" /\ EventAlone(t)
    BY <1>0, <1>p, <1>2 DEF EventLock, Update, Replaces
  <2>2. new.pc = "find" /\ new.state = proc[t].state
    BY <1>0 DEF Transaction
  <2> HIDE DEF new
  <2>3. Progress(t)' /\ Kind[t] = "event"
    BY <1>0, <1>a, <2>1, <2>2 DEF Progress, Active
  <2>4. ASSUME NEW o \in Writer \ {t}, Active(o) PROVE TakeTurns(o, t)
    <3>1. Kind[o] # "event"
      BY <2>1, <2>4 DEF EventAlone, Active, InTransaction
    <3>2. Active(t)' /\ Active(o)'
      BY <1>0, <1>p, <2>1, <2>2, <2>4 DEF Active, Replaces, Process
    <3> QED BY <2>3, <3>1, <3>2 DEF NoOverlap, TakeTurns
  <2> QED BY <1>0, <1>t, <2>1, <2>3, <2>4, StateKept
<1>3. CASE FindRewards(t)
  <2> DEFINE affected == Writes[t] \cap DOMAIN rewardState
             new == [proc[t] EXCEPT !.rewards = affected,
                                    !.pc = IF affected = {} THEN "commit" ELSE "evaluate"]
  <2>1. Replaces(t, new) /\ proc'[t] = new /\ proc[t].pc = "find"
    BY <1>0, <1>p, <1>3 DEF FindRewards, Update, Replaces
  <2>2. Kind[t] = "event" /\ affected = Affected(t)
    BY <1>0, <2>1 DEF Progress, Affected
  <2> HIDE DEF affected
  <2>3. /\ new.pc = IF affected = {} THEN "commit" ELSE "evaluate"
        /\ new.rewards = affected /\ new.state = proc[t].state
    BY <1>0 DEF Transaction
  <2> HIDE DEF new
  <2>4. Progress(t)'
    BY <1>0, <1>a, <2>1, <2>2, <2>3 DEF Progress, Active
  <2>5. Active(t)
    BY <2>1 DEF Active
  <2> QED BY <1>0, <1>t, <2>1, <2>4, <2>5, StateKept
<1>4. CASE Evaluate(t)
  <2> DEFINE seen == Outcome(Min(proc[t].rewards), Seen(t))
             new == [proc[t] EXCEPT !.pc = "store", !.seen = seen]
  <2>1. Replaces(t, new) /\ proc'[t] = new /\ proc[t].pc = "evaluate"
    BY <1>0, <1>p, <1>4 DEF Evaluate, Update, Replaces
  <2>2. seen = Outcome(Min(proc[t].rewards), committed \cup {t})
    BY DEF Seen
  <2> HIDE DEF seen
  <2>3. new.pc = "store" /\ new.seen = seen /\ new.rewards = proc[t].rewards
        /\ new.state = proc[t].state
    BY <1>0 DEF Transaction
  <2> HIDE DEF new
  <2>4. Progress(t)'
    BY <1>0, <1>a, <2>1, <2>2, <2>3 DEF Progress, Active, Outcome
  <2>5. Active(t)
    BY <2>1 DEF Active
  <2> QED BY <1>0, <1>t, <2>1, <2>4, <2>5, StateKept
<1>5. CASE Store(t)
  <2> DEFINE r     == Min(proc[t].rewards)
             rest  == proc[t].rewards \ {r}
             state == WithRow(r, proc[t].seen, proc[t].state)
             users == IF rest = {} THEN FanOut(t, state) ELSE {}
             pc    == IF rest # {} THEN "evaluate" ELSE AfterRewards(t, users)
             new   == [proc[t] EXCEPT !.rewards = rest, !.state = state, !.users = users,
                                      !.seen = {}, !.pc = pc]
  <2>1. /\ Replaces(t, new) /\ proc'[t] = new /\ proc[t].rewards # {} /\ proc[t].pc = "store"
        /\ proc[t].rewards \in SUBSET Reward
    BY <1>0, <1>p, <1>5 DEF Store, Update, Replaces, Phased, Transaction
  <2>2. r \in proc[t].rewards
    BY <2>1, MinIn
  <2>3. proc[t].seen = Outcome(r, committed \cup {t})
    BY <1>0, <2>1 DEF Progress
  <2> HIDE DEF r
  <2>4. /\ DOMAIN state = {r} \cup DOMAIN proc[t].state
        /\ state[r] = proc[t].seen
        /\ \A x \in DOMAIN proc[t].state \ {r} : state[x] = proc[t].state[x]
    BY DEF WithRow, Over
  <2>5. pc \in {"evaluate", "lock", "enqueue"} /\ (pc = "enqueue" => Kind[t] = "event")
    BY DEF AfterRewards
  <2> HIDE DEF state, users, pc
  <2>6. new.pc = pc /\ new.rewards = rest /\ new.state = state
    BY <1>0 DEF Transaction
  <2>a. rest \cup DOMAIN state = proc[t].rewards \cup DOMAIN proc[t].state
    BY <2>2, <2>4
  <2> HIDE DEF new, rest
  <2>7. Active(t) /\ Active(t)'
    BY <2>1, <2>5, <2>6 DEF Active
  <2>8. \A x \in DOMAIN state : state[x] = Outcome(x, committed \cup {t})
    BY <1>0, <2>3, <2>4 DEF Progress
  <2>9. Progress(t)'
    <3>1. proc[t].rewards \cup DOMAIN proc[t].state = Affected(t)
      BY <1>0, <2>1, <2>7 DEF Progress
    <3>2. /\ t \in load.writers /\ t \notin committed
          /\ (Kind[t] = "adjust" => Writes[t] \subseteq DOMAIN rewardState)
      BY <1>0, <2>1, <2>7 DEF Progress
    <3> QED BY <1>0, <1>a, <2>1, <2>5, <2>6, <2>a, <2>8, <3>1, <3>2 DEF Progress, Outcome
  <2> QED BY <1>0, <1>t, <2>1, <2>7, <2>9, StateKept
<1>6. CASE Enqueue(t)
  <2> DEFINE some == NotPending(proc[t].users)
             new  == [proc[t] EXCEPT !.pc = "commit", !.enqueued = some, !.users = {}]
  <2>1. Replaces(t, new) /\ proc'[t] = new /\ proc[t].pc = "enqueue"
    BY <1>0, <1>p, <1>6 DEF Enqueue, Update, Replaces
  <2>2. new.pc = "commit" /\ new.rewards = proc[t].rewards /\ new.state = proc[t].state
    BY <1>0 DEF Transaction
  <2> HIDE DEF new
  <2>3. Progress(t)'
    BY <1>0, <1>a, <2>1, <2>2 DEF Progress, Active, Outcome
  <2>4. Active(t)
    BY <2>1 DEF Active
  <2> QED BY <1>0, <1>t, <2>1, <2>3, <2>4, StateKept
<1>7. CASE Abort(t)
  <2> DEFINE new == [Idle EXCEPT !.pc = "done"]
  <2>1. Replaces(t, new) /\ proc'[t] = new /\ InTransaction(t)
    BY <1>0, <1>p, <1>7 DEF Abort, Update, Replaces
  <2>2. new.pc = "done" /\ DOMAIN new.state = {}
    BY NoRowsType DEF Idle
  <2> HIDE DEF new
  <2>3. Progress(t)' /\ ~Active(t)'
    BY <1>0, <2>1, <2>2 DEF Progress, Active, InTransaction
  <2> QED BY <1>0, <1>t, <2>1, <2>3, StateKept
<1> QED BY <1>1, <1>2, <1>3, <1>4, <1>5, <1>6, <1>7

LEMMA RefreshState ==
  ASSUME StateInv, NEW p \in Process, UNCHANGED load,
         LockUser(p) \/ RebuildPositions(p) \/ RebuildCash(p)
  PROVE  StateInv'
<1>0. /\ proc[p] \in Transaction /\ TypeInv /\ proc \in [Process -> Transaction]
      /\ UNCHANGED committed /\ UNCHANGED rewardState
  BY DEF StateInv, TypeInv, LockUser, RebuildPositions, RebuildCash, rows
<1>1. TypeInv'
  BY <1>0, RefreshTypes
<1>2. PICK new : /\ Replaces(p, new) /\ proc'[p] = new
                 /\ new.pc \in {"lock", "positions", "cash", "commit"}
                 /\ new.rewards = proc[p].rewards /\ new.state = proc[p].state
  <2>1. CASE LockUser(p)
    <3> DEFINE new == [proc[p] EXCEPT !.pc = "positions"]
    <3>1. Replaces(p, new) /\ proc'[p] = new
      BY <1>0, <2>1 DEF LockUser, Update, Replaces
    <3>2. new.pc = "positions" /\ new.rewards = proc[p].rewards /\ new.state = proc[p].state
      BY <1>0 DEF Transaction
    <3> HIDE DEF new
    <3> QED BY <3>1, <3>2
  <2>2. CASE RebuildPositions(p)
    <3> DEFINE u == Min(proc[p].users)
               some == WithRow(u, OfUser(p, u), proc[p].positions)
               new == [proc[p] EXCEPT !.pc = "cash", !.positions = some]
    <3>1. Replaces(p, new) /\ proc'[p] = new
      BY <1>0, <2>2 DEF RebuildPositions, Update, Replaces
    <3> HIDE DEF some
    <3>2. new.pc = "cash" /\ new.rewards = proc[p].rewards /\ new.state = proc[p].state
      BY <1>0 DEF Transaction
    <3> HIDE DEF new
    <3> QED BY <3>1, <3>2
  <2>3. CASE RebuildCash(p)
    <3> DEFINE u == Min(proc[p].users)
               some == WithRow(u, OfUser(p, u), proc[p].cash)
               rest == proc[p].users \ {u}
               pc == IF rest = {} THEN "commit" ELSE "lock"
               new == [proc[p] EXCEPT !.pc = pc, !.users = rest, !.cash = some]
    <3>1. Replaces(p, new) /\ proc'[p] = new
      BY <1>0, <2>3 DEF RebuildCash, Update, Replaces
    <3> HIDE DEF some, rest
    <3>2. new.pc = pc /\ new.rewards = proc[p].rewards /\ new.state = proc[p].state
      BY <1>0 DEF Transaction
    <3> HIDE DEF new
    <3> QED BY <3>1, <3>2
  <2> QED BY <2>1, <2>2, <2>3
<1>3. proc[p].pc \in {"lock", "positions", "cash"}
  BY DEF LockUser, RebuildPositions, RebuildCash
<1>4. ASSUME p \in Writer PROVE Progress(p)' /\ Active(p)
  <2>1. Progress(p) /\ Active(p)
    BY <1>3, <1>4 DEF StateInv, Active
  <2>2. Affected(p)' = Affected(p)
    BY <1>0 DEF Affected
  <2> QED BY <1>0, <1>2, <1>3, <2>1, <2>2 DEF Progress, Active, Outcome
<1> QED BY <1>0, <1>1, <1>2, <1>4, StateKept

LEMMA WorkerState ==
  ASSUME StateInv, NEW w \in Worker, UNCHANGED load,
         (\E u \in User : Claim(w, u)) \/ Processed(w) \/ Fail(w) \/ Crash(w)
  PROVE  StateInv'
<1>0. /\ w \in Process /\ w \notin Writer /\ TypeInv
      /\ UNCHANGED committed /\ UNCHANGED rewardState
  BY ConstantsAssumption DEF StateInv, Process, Claim, Processed, Fail, Crash, rows
<1>1. TypeInv'
  BY <1>0, WorkerTypes
<1>2. \E new : Replaces(w, new)
  BY DEF Claim, Processed, Fail, Crash, Update, Replaces
<1> QED BY <1>0, <1>1, <1>2, StateKept

\* Steps that leave the transactions and the rows of the rewards alone.
LEMMA IdleState ==
  ASSUME StateInv, UNCHANGED <<load, committed, rewardState, proc>>
  PROVE  StateInv'
BY DEF StateInv, TypeInv, Exists, Progress, Active, Affected, Apart, RewardStateComplete, Outcome

\* A transaction that commits brings along every row that its writes change.
LEMMA CommitRewards ==
  ASSUME StateInv, NEW t \in Writer, Commit(t)
  PROVE  /\ proc[t].rewards = {} /\ DOMAIN proc[t].state = Affected(t)
         /\ DOMAIN rewardState' = DOMAIN rewardState \cup Affected(t)
         /\ DOMAIN rewardState' = {r \in Reward : Exists(r, committed')}
<1>1. /\ Progress(t) /\ TypeInv /\ proc[t].pc = "commit" /\ proc[t].rewards = {}
      /\ committed' = committed \cup {t}
  BY DEF StateInv, TypeInv, Commit
<1>2. DOMAIN proc[t].state = Affected(t)
  BY <1>1 DEF Progress, Active
<1>3. DOMAIN rewardState' = DOMAIN rewardState \cup Affected(t)
  <2>1. rewardState' = Over(proc[t].state, rewardState)
    BY DEF Commit
  <2> QED BY <1>2, <2>1 DEF Over
<1>4. ASSUME NEW r \in Reward, Exists(r, committed'), ~Exists(r, committed) PROVE r \in Affected(t)
  <2>1. Kind[t] = "grant" /\ r \in Writes[t]
    BY <1>1, <1>4 DEF Exists
  <2> QED BY <2>1 DEF Affected
<1>5. ASSUME NEW r \in Reward, Exists(r, committed) PROVE Exists(r, committed')
  BY <1>1, <1>5 DEF Exists
<1>6. ASSUME NEW r \in Affected(t) PROVE r \in Reward /\ Exists(r, committed')
  <2>1. r \in Reward /\ r \in Writes[t]
    BY ConstantsAssumption DEF Affected
  <2>2. CASE r \in DOMAIN rewardState
    <3>1. Exists(r, committed)
      BY <1>1, <2>2 DEF TypeInv
    <3> QED BY <1>5, <2>1, <3>1
  <2>3. CASE Kind[t] = "grant"
    <3>1. ASSUME NEW o \in Writer, Kind[o] = "grant", r \in Writes[o] PROVE o = t
      <4>1. Writes[o] = {r} /\ Writes[t] = {r}
        BY <2>1, <2>3, <3>1, ConstantsAssumption
      <4> QED BY <2>3, <3>1, <4>1, ConstantsAssumption
    <3> QED BY <1>1, <2>1, <3>1 DEF Exists
  <2>4. Kind[t] # "grant" => r \in DOMAIN rewardState
    BY <1>1, <2>1, ConstantsAssumption DEF Progress, Active, Affected
  <2> QED BY <2>2, <2>3, <2>4
<1>7. DOMAIN rewardState = {r \in Reward : Exists(r, committed)}
  BY <1>1 DEF TypeInv
<1>8. DOMAIN rewardState' = {r \in Reward : Exists(r, committed')}
  BY <1>3, <1>4, <1>5, <1>6, <1>7
<1> QED BY <1>1, <1>2, <1>3, <1>8

\* Nor does it change which rewards a writer it did not overlap refreshes.
LEMMA AffectedKept ==
  ASSUME StateInv, NEW t \in Writer, Commit(t), NEW o \in Writer, o # t, Active(o)
  PROVE  Affected(o)' = Affected(o)
<1>1. Writes[o] \cap Writes[t] = {}
  BY DEF StateInv, Apart, TakeTurns, Active, Commit
<1>2. DOMAIN rewardState' = DOMAIN rewardState \cup Affected(t)
  BY CommitRewards
<1> QED BY <1>1, <1>2 DEF Affected

\* No one else's outcome is changed by what t commits.
LEMMA OutcomesStand ==
  ASSUME NEW t \in Writer, NEW r, r \notin Writes[t], NEW seen
  PROVE  Outcome(r, seen \cup {t}) = Outcome(r, seen)
BY DEF Outcome

LEMMA CommitState ==
  ASSUME StateInv, NEW t \in Writer, UNCHANGED load, Commit(t)
  PROVE  StateInv'
<1>1. /\ Progress(t) /\ TypeInv /\ proc[t].pc = "commit" /\ Active(t)
      /\ committed' = committed \cup {t} /\ rewardState' = Over(proc[t].state, rewardState)
      /\ t \in Process /\ proc[t] \in Transaction
  BY DEF StateInv, TypeInv, Commit, Process, Active
<1> DEFINE new == [Idle EXCEPT !.pc = "done"]
<1>2. proc' = [proc EXCEPT ![t] = new]
  BY DEF Commit, Update
<1>3. new \in Transaction /\ new.users = {} /\ new.rewards = {} /\ new.pc = "done"
      /\ DOMAIN new.state = {}
  BY IdleType, NoRowsType DEF Idle
<1> HIDE DEF new
<1>4. proc'[t] = new /\ \A o \in Process \ {t} : proc'[o] = proc[o]
  BY <1>1, <1>2 DEF TypeInv
<1>5. Writer \subseteq Process
  BY DEF Process
<1>6. TypeInv'
  <2>1. rewardState' \in Aggregates
    <3>1. proc[t].state \in Aggregates
      BY <1>1 DEF Transaction
    <3> QED BY <1>1, <3>1, RewardStateIsRows, OverType DEF Aggregates
  <2>2. rewardState' \in [{r \in Reward : Exists(r, committed')} -> SUBSET Writer]
    <3>1. DOMAIN rewardState' = {r \in Reward : Exists(r, committed')}
      BY CommitRewards
    <3>2. rewardState' \in [DOMAIN rewardState' -> SUBSET Writer]
      BY <2>1 DEF Aggregates, Rows
    <3> QED BY <3>1, <3>2
  <2>3. proc' \in [Process -> Transaction]
    BY <1>1, <1>2, <1>3 DEF TypeInv
  <2>4. committed' \in SUBSET Writer /\ load' \in Workload
    BY <1>1 DEF TypeInv
  <2> QED BY <1>1, <1>3, <1>4, <1>5, <2>2, <2>3, <2>4 DEF TypeInv
<1>7. ASSUME NEW o \in Writer, o # t PROVE Progress(o)'
  <2>1. proc'[o] = proc[o] /\ Progress(o) /\ proc[o] \in Transaction
    BY <1>1, <1>4, <1>5, <1>7 DEF StateInv, TypeInv
  <2>2. o \in committed' <=> o \in committed
    BY <1>1, <1>7
  <2>3. CASE ~Active(o) \/ proc[o].pc = "find"
    <3>1. DOMAIN proc[o].state = {} /\ proc[o].pc # "store"
      BY <2>1, <2>3 DEF Progress, Active
    <3>2. Kind[o] = "adjust" => ~Active(o)
      BY <2>1, <2>3 DEF Progress
    <3>3. Active(o)' <=> Active(o)
      BY <2>1 DEF Active
    <3>4. \A r \in DOMAIN proc'[o].state : FALSE
      BY <2>1, <3>1
    <3> QED BY <2>1, <2>2, <2>3, <3>1, <3>2, <3>3, <3>4 DEF Progress
  <2>4. CASE Active(o) /\ proc[o].pc # "find"
    <3>1. Writes[o] \cap Writes[t] = {}
      BY <1>1, <1>7, <2>4 DEF StateInv, Apart, TakeTurns
    <3>2. /\ proc[o].rewards \cup DOMAIN proc[o].state = Affected(o)
          /\ Affected(o) \subseteq Writes[o] /\ Affected(o)' = Affected(o)
      BY <1>7, <2>1, <2>4, AffectedKept DEF Progress, Affected
    <3>3. \A r \in Writes[o] : Outcome(r, committed' \cup {o}) = Outcome(r, committed \cup {o})
      BY <1>1, <3>1 DEF Outcome
    <3>4. \A r \in DOMAIN proc[o].state : proc[o].state[r] = Outcome(r, committed' \cup {o})
      BY <2>1, <3>2, <3>3 DEF Progress
    <3>5. proc[o].pc = "store" =>
            proc[o].seen = Outcome(Min(proc[o].rewards), committed' \cup {o})
      <4> HAVE proc[o].pc = "store"
      <4>1. proc[o].rewards # {} /\ proc[o].rewards \in SUBSET Nat
        BY <1>1, <2>1, ConstantsAssumption DEF TypeInv, Transaction
      <4>2. Min(proc[o].rewards) \in Writes[o]
        BY <3>2, <4>1, MinIn
      <4> QED BY <2>1, <3>3, <4>2 DEF Progress
    <3>6. Kind[o] = "adjust" => Writes[o] \subseteq DOMAIN rewardState'
      BY <2>1, <2>4, CommitRewards DEF Progress
    <3> QED BY <2>1, <2>2, <3>2, <3>4, <3>5, <3>6 DEF Progress, Active, Outcome
  <2> QED BY <2>3, <2>4
<1>8. Progress(t)' /\ ~Active(t)'
  BY <1>1, <1>3, <1>4 DEF Progress, Active
<1>9. Apart'
  <2> SUFFICES ASSUME NEW o \in Writer, NEW q \in Writer, o # q, Active(o)', Active(q)'
               PROVE  TakeTurns(o, q)
    BY DEF Apart, TakeTurns
  <2>1. o # t /\ q # t
    BY <1>8
  <2>2. Active(o) /\ Active(q)
    BY <1>4, <1>5, <2>1 DEF Active
  <2> QED BY <2>2 DEF StateInv, Apart
<1>10. RewardStateComplete'
  <2> SUFFICES ASSUME NEW r \in DOMAIN rewardState' PROVE rewardState'[r] = Outcome(r, committed')
    BY DEF RewardStateComplete, Outcome
  <2>1. CASE r \in Affected(t)
    <3>1. r \in DOMAIN proc[t].state
      BY <2>1, CommitRewards
    <3>2. rewardState'[r] = proc[t].state[r]
      BY <1>1, <3>1 DEF Over
    <3> QED BY <1>1, <3>1, <3>2 DEF Progress
  <2>2. CASE r \notin Affected(t)
    <3>1. r \in DOMAIN rewardState \ DOMAIN proc[t].state
      BY <2>2, CommitRewards
    <3>2. rewardState'[r] = rewardState[r]
      BY <1>1, <3>1 DEF Over
    <3>3. rewardState[r] = Outcome(r, committed)
      BY <3>1 DEF StateInv, RewardStateComplete
    <3>4. r \notin Writes[t]
      BY <2>2, <3>1 DEF Affected
    <3> QED BY <1>1, <3>2, <3>3, <3>4, OutcomesStand
  <2> QED BY <2>1, <2>2
<1> QED BY <1>6, <1>7, <1>8, <1>9, <1>10 DEF StateInv

LEMMA StateStep ==
  ASSUME StateInv, NoOverlap', [Next]_vars
  PROVE  StateInv'
<1>1. ASSUME UNCHANGED load, NEW t \in Writer, WriterStep(t) \/ Abort(t) PROVE StateInv'
  <2>1. t \in Process
    BY DEF Process
  <2> QED BY <1>1, <2>1, WriterState, RefreshState, CommitState DEF WriterStep
<1>2. ASSUME UNCHANGED load, NEW w \in Worker, WorkerStep(w) \/ Fail(w) \/ Crash(w)
      PROVE  StateInv'
  <2>1. w \in Process
    BY DEF Process
  <2> QED BY <1>2, <2>1, WorkerState, RefreshState DEF WorkerStep
<1>3. ASSUME UNCHANGED load, (\E u \in User : BackoffEnds(u)) \/ CheckStep \/ Quiet PROVE StateInv'
  <2>1. UNCHANGED committed /\ UNCHANGED rewardState /\ UNCHANGED proc
    BY <1>3 DEF BackoffEnds, CheckStep, StartCheck, SelectUsers, CheckUsers, MarkReconciled, Quiet,
                rows, tables
  <2> QED BY <1>3, <2>1, IdleState
<1>4. CASE UNCHANGED vars
  <2>1. UNCHANGED load /\ UNCHANGED committed /\ UNCHANGED rewardState /\ UNCHANGED proc
    BY <1>4 DEF vars, tables
  <2> QED BY <2>1, IdleState
<1> QED BY <1>1, <1>2, <1>3, <1>4 DEF Next

\* A committed reward_state row has replayed every committed write that changes
\* its reward, for any number of users, rewards, writers and workers and however
\* the statements interleave, in a behaviour in which no event overlaps a grant or
\* an adjustment of the same reward: the rewards row and the advisory lock of the
\* events serialise all the others (refresh_reward_state).
THEOREM RewardStateHolds == Spec /\ []NoOverlap => []RewardStateComplete
<1>1. StateInv /\ NoOverlap' /\ [Next]_vars => StateInv'
  BY StateStep
<1>2. StateInv => RewardStateComplete
  BY DEF StateInv
<1> QED BY <1>1, <1>2, InitialState, PTL DEF Spec

-----------------------------------------------------------------------------
(* The aggregates *)

\* The rows of a user among some rows.
View(table, u) == [r \in {x \in DOMAIN table : Owner[x] = u} |-> table[r]]

LEMMA Views ==
  /\ \A p \in Process, u \in User : OfUser(p, u) = View(StateRows(p), u)
  /\ \A u \in User : Aggregate(u) = View(rewardState, u)
BY DEF OfUser, Aggregate, View

\* Rows of other users do not show.
LEMMA SameView ==
  ASSUME NEW f, NEW g, NEW u,
         \A r : Owner[r] = u => /\ r \in DOMAIN f <=> r \in DOMAIN g
                                /\ r \in DOMAIN f => f[r] = g[r]
  PROVE  View(f, u) = View(g, u)
<1>1. {x \in DOMAIN f : Owner[x] = u} = {x \in DOMAIN g : Owner[x] = u}
  OBVIOUS
<1> QED BY <1>1 DEF View

\* Nor do they under what a transaction has written itself.
LEMMA SameViewOver ==
  ASSUME NEW own, NEW f, NEW g, NEW u,
         \A r : Owner[r] = u => /\ r \in DOMAIN f <=> r \in DOMAIN g
                                /\ r \in DOMAIN f => f[r] = g[r]
  PROVE  View(Over(own, f), u) = View(Over(own, g), u)
<1> DEFINE before == Over(own, f)
           after  == Over(own, g)
<1>1. \A r : Owner[r] = u => /\ r \in DOMAIN before <=> r \in DOMAIN after
                             /\ r \in DOMAIN before => before[r] = after[r]
  BY DEF Over
<1> HIDE DEF before, after
<1>2. View(before, u) = View(after, u)
  BY <1>1, SameView
<1> QED BY <1>2 DEF before, after

\* A worker sees what is committed.
LEMMA WorkerView ==
  ASSUME NEW w \in Worker, DOMAIN proc[w].state = {}, NEW u \in User
  PROVE  OfUser(w, u) = Aggregate(u)
<1>1. \A r : /\ r \in DOMAIN StateRows(w) <=> r \in DOMAIN rewardState
             /\ r \in DOMAIN StateRows(w) => StateRows(w)[r] = rewardState[r]
  BY DEF StateRows, Over
<1>2. View(StateRows(w), u) = View(rewardState, u)
  BY <1>1, SameView
<1> QED BY <1>2, Views DEF Process

LEMMA InitialAggregates == Init => AggregateInv
<1> SUFFICES ASSUME Init PROVE AggregateInv
  OBVIOUS
<1>1. StateInv
  BY InitialState
<1>2. \A p \in Process : proc[p] = Idle
  BY DEF Init
<1>3. /\ Idle.pc = "idle" /\ Idle.users = {} /\ Idle.enqueued = {} /\ DOMAIN Idle.state = {}
      /\ DOMAIN Idle.positions = {} /\ DOMAIN Idle.cash = {}
  BY NoRowsType DEF Idle
<1>4. Writer \subseteq Process /\ Worker \subseteq Process
  BY DEF Process
<1>5. \A u \in User : positions[u] = View(rewardState, u) /\ cash[u] = View(rewardState, u)
  <2> SUFFICES ASSUME NEW u \in User PROVE positions[u] = View(rewardState, u)
    BY DEF Init
  <2>1. positions[u] = [r \in {x \in DOMAIN FirstRows : Owner[x] = u} |-> {}]
    BY DEF Init
  <2>2. rewardState = FirstRows /\ \A r \in DOMAIN FirstRows : FirstRows[r] = {}
    BY DEF Init, FirstRows
  <2> QED BY <2>1, <2>2 DEF View
<1>6. positions \in [User -> Aggregates] /\ cash \in [User -> Aggregates]
  <2>1. ASSUME NEW u \in User PROVE positions[u] \in Aggregates
    <3> DEFINE mine == {x \in DOMAIN FirstRows : Owner[x] = u}
    <3>1. mine \in SUBSET Reward
      BY DEF FirstRows
    <3> HIDE DEF mine
    <3>2. [r \in mine |-> {}] \in [mine -> SUBSET Writer]
      OBVIOUS
    <3>3. positions[u] = [r \in mine |-> {}]
      BY DEF Init, mine
    <3> QED BY <3>1, <3>2, <3>3 DEF Aggregates, Rows
  <2> QED BY <2>1 DEF Init
<1>7. StaleIsQueued
  BY <1>5, Views DEF StaleIsQueued
<1>8. /\ userLock \in [User -> Process \cup {None}] /\ queue \in [User -> QueueRows \cup {None}]
      /\ \A u \in User : queue[u] = None
  BY DEF Init
<1>9. \A p \in Process : Locks(p) /\ UpToDate(p)
  BY <1>2, <1>3 DEF Locks, UpToDate
<1>10. \A t \in Writer : Fans(t)
  BY <1>2, <1>3, <1>4 DEF Fans
<1>11. \A w \in Worker : Works(w)
  BY <1>2, <1>3, <1>4 DEF Works
<1>12. \A w, x \in Worker : w # x => proc[w].enqueued \cap proc[x].enqueued = {}
  BY <1>2, <1>3, <1>4
<1> QED BY <1>1, <1>6, <1>7, <1>8, <1>9, <1>10, <1>11, <1>12 DEF AggregateInv

\* A step that commits no reward and no aggregate, of p or of no process.
LEMMA AggregatesKept ==
  ASSUME AggregateInv, StateInv', NEW p, \A q \in Process \ {p} : proc'[q] = proc[q],
         UNCHANGED load, UNCHANGED committed, UNCHANGED rewardState,
         UNCHANGED positions, UNCHANGED cash,
         userLock' \in [User -> Process \cup {None}],
         \A q \in Process \ {p}, u \in User : userLock[u] = q => userLock'[u] = q,
         queue' \in [User -> QueueRows \cup {None}],
         \A u \in User : (queue'[u] # None => queue[u] # None) /\ (Marked(u) => Marked(u)'),
         \A w \in Worker \ {p} : \A u \in proc[w].enqueued : queue'[u] # None,
         p \in Process => Locks(p)' /\ UpToDate(p)',
         p \in Writer => Fans(p)',
         p \in Worker => /\ Works(p)'
                         /\ \A w \in Worker \ {p} : proc[w].enqueued \cap proc'[p].enqueued = {}
  PROVE  AggregateInv'
<1> USE DEF AggregateInv
<1>0. Writer \subseteq Process /\ Worker \subseteq Process
  BY DEF Process
<1>t. \A q \in Process : proc[q] \in Transaction
  BY DEF StateInv, TypeInv
<1>2. ASSUME NEW q \in Process, q # p PROVE Locks(q)' /\ UpToDate(q)'
  <2>1. proc'[q] = proc[q] /\ Locks(q) /\ UpToDate(q)
    BY <1>2
  <2>2. DOMAIN proc[q].positions \subseteq User /\ DOMAIN proc[q].cash \subseteq User
    BY <1>t, RowsOf DEF Transaction
  <2>3. proc[q].pc \in {"positions", "cash"} => Min(proc[q].users) \in User
    <3> HAVE proc[q].pc \in {"positions", "cash"}
    <3>1. proc[q].users # {} /\ proc[q].users \in SUBSET User
      BY DEF StateInv, TypeInv, Transaction
    <3> QED BY <3>1, MinIn, ConstantsAssumption
  <2>4. Locks(q)'
    BY <1>2, <2>1, <2>2, <2>3 DEF Locks
  <2>5. \A u : OfUser(q, u)' = OfUser(q, u)
    BY <2>1 DEF OfUser, StateRows
  <2>6. UpToDate(q)'
    BY <2>1, <2>2, <2>5 DEF UpToDate
  <2> QED BY <2>4, <2>6
<1>3. ASSUME NEW t \in Writer, t # p PROVE Fans(t)'
  <2>1. proc'[t] = proc[t] /\ Fans(t) /\ proc[t].enqueued \subseteq User
    BY <1>0, <1>3, <1>t DEF Transaction
  <2>2. (Large(t)' <=> Large(t)) /\ Reached(t)' = Reached(t)
    BY DEF Large, Reached, Affected
  <2> QED BY <2>1, <2>2 DEF Fans
<1>4. ASSUME NEW w \in Worker, w # p PROVE Works(w)'
  <2>1. proc'[w] = proc[w] /\ Works(w)
    BY <1>0, <1>4
  <2> QED BY <1>4, <2>1 DEF Works
<1>5. ASSUME NEW w \in Worker, NEW x \in Worker, w # x
      PROVE  (proc[w].enqueued \cap proc[x].enqueued = {})'
  <2>1. CASE w = p
    BY <1>0, <1>5, <2>1
  <2>2. CASE x = p
    BY <1>0, <1>5, <2>2
  <2>3. CASE w # p /\ x # p
    BY <1>0, <1>5, <2>3
  <2> QED BY <2>1, <2>2, <2>3
<1>6. StaleIsQueued'
  <2> SUFFICES ASSUME NEW u \in User
               PROVE  {positions'[u], cash'[u]} = {Aggregate(u)'} \/ queue'[u] # None \/ u \in dead'
    BY DEF StaleIsQueued
  <2>1. Aggregate(u)' = Aggregate(u)
    BY DEF Aggregate
  <2> QED BY <2>1 DEF StaleIsQueued, Marked
<1>7. \A q \in Process : Locks(q)' /\ UpToDate(q)'
  BY <1>2
<1>8. (\A t \in Writer : Fans(t)') /\ (\A w \in Worker : Works(w)')
  BY <1>3, <1>4
<1> QED BY <1>5, <1>6, <1>7, <1>8

LEMMA RefreshAggregates ==
  ASSUME AggregateInv, StateInv', NEW p \in Process, UNCHANGED load,
         LockUser(p) \/ RebuildPositions(p) \/ RebuildCash(p)
  PROVE  AggregateInv'
<1> USE DEF AggregateInv
<1> DEFINE u == Min(proc[p].users)
           x == proc'[p]
<1>0. /\ proc[p] \in Transaction /\ proc \in [Process -> Transaction] /\ Phased(p, proc[p])
      /\ UNCHANGED <<committed, rewardState, positions, cash, queue, dead>>
  BY PhasedNow DEF StateInv, TypeInv, LockUser, RebuildPositions, RebuildCash, rows, queueVars
<1>1. proc[p].users # {} /\ proc[p].users \in SUBSET User
  BY <1>0 DEF LockUser, RebuildPositions, RebuildCash, Phased, Transaction
<1>2. u \in User /\ u \in proc[p].users
  BY <1>1, MinIn, ConstantsAssumption
<1>3. Locks(p) /\ UpToDate(p)
  OBVIOUS
<1> HIDE DEF u
<1>4. \A q \in Process \ {p} : proc'[q] = proc[q]
  BY <1>0 DEF LockUser, RebuildPositions, RebuildCash, Update
\* What every one of the three steps does.
<1>5. /\ x.state = proc[p].state /\ x.enqueued = proc[p].enqueued
      /\ x.pc \in {"lock", "positions", "cash", "commit"} /\ proc[p].pc \in {"lock", "positions", "cash"}
      /\ x.users \cup DOMAIN x.cash = proc[p].users \cup DOMAIN proc[p].cash
      /\ userLock' \in [User -> Process \cup {None}]
      /\ \A q \in Process \ {p}, v \in User : userLock[v] = q => userLock'[v] = q
      /\ Locks(p)'
      /\ \A v \in DOMAIN x.positions : \/ x.positions[v] = OfUser(p, v)
                                       \/ v \in DOMAIN proc[p].positions /\ x.positions[v] = proc[p].positions[v]
      /\ \A v \in DOMAIN x.cash : \/ x.cash[v] = OfUser(p, v)
                                  \/ v \in DOMAIN proc[p].cash /\ x.cash[v] = proc[p].cash[v]
  <2>1. CASE LockUser(p)
    <3> DEFINE new == [proc[p] EXCEPT !.pc = "positions"]
    <3>1. x = new
      BY <1>0, <2>1 DEF LockUser, Update
    <3>2. /\ new.pc = "positions" /\ new.users = proc[p].users /\ new.state = proc[p].state
          /\ new.positions = proc[p].positions /\ new.cash = proc[p].cash
          /\ new.enqueued = proc[p].enqueued
      BY <1>0 DEF Transaction
    <3> HIDE DEF new
    <3>3. userLock' = [userLock EXCEPT ![u] = p] /\ userLock[u] \in {None, p} /\ proc[p].pc = "lock"
      BY <2>1 DEF LockUser, UserFree, u
    <3>4. None \notin Process
      BY ConstantsAssumption DEF Process
    <3>5. /\ userLock' \in [User -> Process \cup {None}]
          /\ \A q \in Process \ {p}, v \in User : userLock[v] = q => userLock'[v] = q
          /\ \A v \in User : userLock[v] = p => userLock'[v] = p
          /\ userLock'[u] = p
      BY <1>2, <3>3, <3>4
    <3>6. DOMAIN proc[p].positions \subseteq User
      BY <1>0, RowsOf DEF Transaction
    <3>7. Locks(p)'
      BY <1>3, <3>1, <3>2, <3>3, <3>5, <3>6 DEF Locks, u
    <3> QED BY <3>1, <3>2, <3>3, <3>5, <3>7
  <2>2. CASE RebuildPositions(p)
    <3> DEFINE some == WithRow(u, OfUser(p, u), proc[p].positions)
               new  == [proc[p] EXCEPT !.pc = "cash", !.positions = some]
    <3>1. x = new /\ proc[p].pc = "positions" /\ userLock' = userLock
      BY <1>0, <2>2 DEF RebuildPositions, Update, u
    <3>2. /\ DOMAIN some = {u} \cup DOMAIN proc[p].positions /\ some[u] = OfUser(p, u)
          /\ \A v \in DOMAIN proc[p].positions \ {u} : some[v] = proc[p].positions[v]
      BY DEF WithRow, Over
    <3> HIDE DEF some
    <3>3. /\ new.pc = "cash" /\ new.users = proc[p].users /\ new.state = proc[p].state
          /\ new.positions = some /\ new.cash = proc[p].cash /\ new.enqueued = proc[p].enqueued
      BY <1>0 DEF Transaction
    <3> HIDE DEF new
    <3>4. userLock[u] = p
      BY <1>3, <3>1 DEF Locks, u
    <3>5. Locks(p)'
      BY <1>3, <3>1, <3>2, <3>3, <3>4 DEF Locks, u
    <3> QED BY <3>1, <3>2, <3>3, <3>5
  <2>3. CASE RebuildCash(p)
    <3> DEFINE some == WithRow(u, OfUser(p, u), proc[p].cash)
               rest == proc[p].users \ {u}
               pc   == IF rest = {} THEN "commit" ELSE "lock"
               new  == [proc[p] EXCEPT !.pc = pc, !.users = rest, !.cash = some]
    <3>1. x = new /\ proc[p].pc = "cash" /\ userLock' = userLock
      BY <1>0, <2>3 DEF RebuildCash, Update, u
    <3>2. /\ DOMAIN some = {u} \cup DOMAIN proc[p].cash /\ some[u] = OfUser(p, u)
          /\ \A v \in DOMAIN proc[p].cash \ {u} : some[v] = proc[p].cash[v]
      BY DEF WithRow, Over
    <3>3. rest \cup DOMAIN some = proc[p].users \cup DOMAIN proc[p].cash
      BY <1>2, <3>2
    <3> HIDE DEF some, rest
    <3>4. /\ new.pc = pc /\ new.users = rest /\ new.state = proc[p].state
          /\ new.positions = proc[p].positions /\ new.cash = some /\ new.enqueued = proc[p].enqueued
      BY <1>0 DEF Transaction
    <3> HIDE DEF new
    <3>5. DOMAIN proc[p].positions = DOMAIN some
      BY <1>3, <3>1, <3>2 DEF Locks, u
    <3>6. Locks(p)'
      BY <1>3, <3>1, <3>4, <3>5 DEF Locks
    <3> QED BY <3>1, <3>2, <3>3, <3>4, <3>6
  <2> QED BY <2>1, <2>2, <2>3
<1>6. \A v : OfUser(p, v)' = OfUser(p, v)
  BY <1>0, <1>5 DEF OfUser, StateRows
<1>7. UpToDate(p)'
  <2>1. \A v \in User : Marked(v)' <=> Marked(v)
    BY <1>0 DEF Marked
  <2>2. DOMAIN proc[p].positions \subseteq User /\ DOMAIN proc[p].cash \subseteq User
    BY <1>0, RowsOf DEF Transaction
  <2> QED BY <1>3, <1>5, <1>6, <2>1, <2>2 DEF UpToDate
<1>8. ASSUME p \in Writer PROVE Fans(p)'
  <2>1. Fans(p)
    BY <1>8
  <2>2. ~Large(p) /\ (Large(p)' <=> Large(p)) /\ Reached(p)' = Reached(p)
    BY <1>0, <1>5, <2>1 DEF Fans, Large, Reached, Affected
  <2> QED BY <1>0, <1>5, <2>1, <2>2 DEF Fans
<1>9. ASSUME p \in Worker PROVE Works(p)'
  <2>1. Works(p)
    BY <1>9
  <2> QED BY <1>0, <1>5, <2>1 DEF Works
<1>10. ASSUME p \in Worker, NEW w \in Worker \ {p} PROVE proc[w].enqueued \cap x.enqueued = {}
  BY <1>5, <1>10
<1>11. \A w \in Worker \ {p} : \A v \in proc[w].enqueued : queue'[v] # None
  BY <1>0 DEF Works
<1>12. \A v \in User : (queue'[v] # None => queue[v] # None) /\ (Marked(v) => Marked(v)')
  BY <1>0 DEF Marked
<1> HIDE DEF x, AggregateInv
<1>13. queue' \in [User -> QueueRows \cup {None}]
  BY <1>0 DEF AggregateInv
<1> QED BY <1>0, <1>4, <1>5, <1>7, <1>8, <1>9, <1>10, <1>11, <1>12, <1>13, AggregatesKept DEF x

\* Giving a process's locks back takes none from the others.
LEMMA UnlockedFacts ==
  ASSUME userLock \in [User -> Process \cup {None}], NEW p \in Process, userLock' = Unlocked(p)
  PROVE  /\ userLock' \in [User -> Process \cup {None}]
         /\ \A q \in Process \ {p}, u \in User : userLock[u] = q => userLock'[u] = q
BY DEF Unlocked

LEMMA NoneLarge == ASSUME TypeInv, NEW t \in Writer, Affected(t) = {} PROVE ~Large(t)
<1>1. Reached(t) = {} /\ Cardinality({}) = 0 /\ load.syncLimit \in Nat
  BY FS_EmptySet, ConstantsAssumption DEF Reached, TypeInv
<1> QED BY <1>1 DEF Large

\* What the steps of a writer before its aggregates leave alone.
LEMMA WriterMoves ==
  ASSUME TypeInv, NEW t \in Writer,
         Begin(t) \/ EventLock(t) \/ FindRewards(t) \/ Evaluate(t) \/ Store(t) \/ Enqueue(t)
  PROVE  /\ \A q \in Process \ {t} : proc'[q] = proc[q]
         /\ proc'[t].positions = proc[t].positions /\ proc'[t].cash = proc[t].cash
         /\ proc'[t].pc \in {"begun", "find", "evaluate", "store", "lock", "enqueue", "commit"}
         /\ proc[t].pc \in {"idle", "begun", "find", "evaluate", "store", "enqueue"}
         /\ Begin(t) \/ EventLock(t) \/ Evaluate(t) =>
              /\ proc'[t].pc \in {"begun", "find", "evaluate", "store"}
              /\ proc'[t].enqueued = proc[t].enqueued
<1> DEFINE Moves(new) ==
      /\ \A q \in Process \ {t} : proc'[q] = proc[q]
      /\ proc'[t] = new
<1>0. proc[t] \in Transaction /\ proc \in [Process -> Transaction] /\ t \in Process
  BY DEF TypeInv, Process
<1>1. CASE Begin(t)
  <2>1. proc[t].pc = "idle"
    BY <1>1 DEF Begin
  <2>2. CASE Kind[t] = "event"
    <3> DEFINE new == [proc[t] EXCEPT !.pc = "begun"]
    <3>1. Moves(new)
      BY <1>0, <1>1, <2>2 DEF Begin, Update
    <3>2. /\ new.pc = "begun" /\ new.positions = proc[t].positions /\ new.cash = proc[t].cash
          /\ new.enqueued = proc[t].enqueued
      BY <1>0 DEF Transaction
    <3> HIDE DEF new
    <3> QED BY <2>1, <3>1, <3>2
  <2>3. CASE Kind[t] # "event"
    <3> DEFINE new == [proc[t] EXCEPT !.pc = "evaluate", !.rewards = Writes[t]]
    <3>1. Moves(new)
      BY <1>0, <1>1, <2>3, ConstantsAssumption DEF Begin, Update
    <3>2. /\ new.pc = "evaluate" /\ new.positions = proc[t].positions /\ new.cash = proc[t].cash
          /\ new.enqueued = proc[t].enqueued
      BY <1>0 DEF Transaction
    <3> HIDE DEF new
    <3> QED BY <2>1, <3>1, <3>2
  <2> QED BY <2>2, <2>3
<1>2. CASE EventLock(t)
  <2> DEFINE new == [proc[t] EXCEPT !.pc = "find"]
  <2>1. Moves(new) /\ proc[t].pc = "begun"
    BY <1>0, <1>2 DEF EventLock, Update
  <2>2. /\ new.pc = "find" /\ new.positions = proc[t].positions /\ new.cash = proc[t].cash
        /\ new.enqueued = proc[t].enqueued
    BY <1>0 DEF Transaction
  <2> HIDE DEF new
  <2> QED BY <2>1, <2>2
<1>3. CASE FindRewards(t)
  <2> DEFINE affected == Writes[t] \cap DOMAIN rewardState
             pc  == IF affected = {} THEN "commit" ELSE "evaluate"
             new == [proc[t] EXCEPT !.rewards = affected, !.pc = pc]
  <2>1. Moves(new) /\ proc[t].pc = "find"
    BY <1>0, <1>3 DEF FindRewards, Update
  <2>2. pc \in {"commit", "evaluate"}
    OBVIOUS
  <2> HIDE DEF pc, affected
  <2>3. /\ new.pc = pc /\ new.positions = proc[t].positions /\ new.cash = proc[t].cash
        /\ new.enqueued = proc[t].enqueued
    BY <1>0 DEF Transaction
  <2> HIDE DEF new
  <2>4. ~Begin(t) /\ ~EventLock(t) /\ ~Evaluate(t)
    BY <2>1 DEF Begin, EventLock, Evaluate
  <2> QED BY <2>1, <2>2, <2>3, <2>4
<1>4. CASE Evaluate(t)
  <2> DEFINE seen == Outcome(Min(proc[t].rewards), Seen(t))
             new == [proc[t] EXCEPT !.pc = "store", !.seen = seen]
  <2>1. Moves(new) /\ proc[t].pc = "evaluate"
    BY <1>0, <1>4 DEF Evaluate, Update
  <2> HIDE DEF seen
  <2>2. /\ new.pc = "store" /\ new.positions = proc[t].positions /\ new.cash = proc[t].cash
        /\ new.enqueued = proc[t].enqueued
    BY <1>0 DEF Transaction
  <2> HIDE DEF new
  <2> QED BY <2>1, <2>2
<1>5. CASE Store(t)
  <2> DEFINE r     == Min(proc[t].rewards)
             rest  == proc[t].rewards \ {r}
             state == WithRow(r, proc[t].seen, proc[t].state)
             users == IF rest = {} THEN FanOut(t, state) ELSE {}
             pc    == IF rest # {} THEN "evaluate" ELSE AfterRewards(t, users)
             new   == [proc[t] EXCEPT !.rewards = rest, !.state = state, !.users = users,
                                      !.seen = {}, !.pc = pc]
  <2>1. Moves(new) /\ proc[t].pc = "store"
    BY <1>0, <1>5 DEF Store, Update
  <2>2. pc \in {"evaluate", "enqueue", "lock"}
    BY DEF AfterRewards
  <2> HIDE DEF rest, state, users, pc
  <2>3. new.pc = pc /\ new.positions = proc[t].positions /\ new.cash = proc[t].cash
    BY <1>0 DEF Transaction
  <2> HIDE DEF new
  <2>4. ~Begin(t) /\ ~EventLock(t) /\ ~Evaluate(t)
    BY <2>1 DEF Begin, EventLock, Evaluate
  <2> QED BY <2>1, <2>2, <2>3, <2>4
<1>6. CASE Enqueue(t)
  <2> DEFINE some == NotPending(proc[t].users)
             new  == [proc[t] EXCEPT !.pc = "commit", !.enqueued = some, !.users = {}]
  <2>1. Moves(new) /\ proc[t].pc = "enqueue"
    BY <1>0, <1>6 DEF Enqueue, Update
  <2> HIDE DEF some
  <2>2. new.pc = "commit" /\ new.positions = proc[t].positions /\ new.cash = proc[t].cash
    BY <1>0 DEF Transaction
  <2> HIDE DEF new
  <2>3. ~Begin(t) /\ ~EventLock(t) /\ ~Evaluate(t)
    BY <2>1 DEF Begin, EventLock, Evaluate
  <2> QED BY <2>1, <2>2, <2>3
<1> QED BY <1>1, <1>2, <1>3, <1>4, <1>5, <1>6

LEMMA WriterAggregates ==
  ASSUME NoCoalescing, AggregateInv, StateInv', NEW t \in Writer, UNCHANGED load,
         \/ Begin(t) \/ EventLock(t) \/ FindRewards(t) \/ Evaluate(t) \/ Store(t) \/ Enqueue(t)
         \/ Abort(t)
  PROVE  AggregateInv'
<1> USE DEF AggregateInv
<1> DEFINE x == proc'[t]
<1>0. /\ t \in Process /\ t \notin Worker /\ proc[t] \in Transaction
      /\ proc \in [Process -> Transaction] /\ x \in Transaction
      /\ UNCHANGED <<committed, rewardState, positions, cash, queue, dead>>
  BY ConstantsAssumption DEF StateInv, TypeInv, Process, Begin, EventLock, FindRewards, Evaluate,
     Store, Enqueue, Abort, rows, queueVars
<1>p. Progress(t) /\ Progress(t)' /\ Fans(t) /\ Locks(t) /\ Phased(t, proc[t]) /\ Phased(t, x) /\ TypeInv
  BY <1>0, PhasedNow DEF StateInv, TypeInv, Phased
<1>1. \A q \in Process \ {t} : proc'[q] = proc[q]
  <2>1. CASE Abort(t)
    BY <1>0, <2>1 DEF Abort, Update
  <2> QED BY <1>p, <2>1, WriterMoves
<1>2. /\ userLock' \in [User -> Process \cup {None}]
      /\ \A q \in Process \ {t}, u \in User : userLock[u] = q => userLock'[u] = q
  <2>1. CASE Abort(t)
    BY <1>0, <2>1, UnlockedFacts DEF Abort
  <2>2. CASE ~Abort(t)
    BY <2>2 DEF Begin, EventLock, FindRewards, Evaluate, Store, Enqueue
  <2> QED BY <2>1, <2>2
\* Nothing has been rebuilt before the last of these steps, nor by it.
<1>3. DOMAIN x.positions = {} /\ DOMAIN x.cash = {} /\ x.pc # "cash" /\ x.pc # "positions"
  <2>1. CASE Abort(t)
    <3> DEFINE new == [Idle EXCEPT !.pc = "done"]
    <3>1. x = new
      BY <1>0, <2>1 DEF Abort, Update
    <3>2. DOMAIN new.positions = {} /\ DOMAIN new.cash = {} /\ new.pc = "done"
      BY NoRowsType DEF Idle
    <3> HIDE DEF new
    <3> QED BY <3>1, <3>2
  <2>2. CASE ~Abort(t)
    <3>1. /\ proc[t].pc \in {"idle", "begun", "find", "evaluate", "store", "enqueue"}
          /\ x.positions = proc[t].positions /\ x.cash = proc[t].cash
          /\ x.pc # "cash" /\ x.pc # "positions"
      BY <1>p, <2>2, WriterMoves
    <3>2. DOMAIN proc[t].positions = {} /\ DOMAIN proc[t].cash = {}
      BY <1>p, <3>1 DEF Fans, Locks
    <3> QED BY <3>1, <3>2
  <2> QED BY <2>1, <2>2
<1>4. Locks(t)' /\ UpToDate(t)'
  BY <1>3 DEF Locks, UpToDate
<1>5. (Large(t)' <=> Large(t)) /\ Reached(t)' = Reached(t) /\ Affected(t)' = Affected(t)
  BY <1>0 DEF Large, Reached, Affected
<1>6. Fans(t)'
  <2>1. CASE Begin(t) \/ EventLock(t) \/ Evaluate(t)
    <3>1. /\ x.pc \in {"begun", "find", "evaluate", "store"} /\ x.enqueued = proc[t].enqueued
          /\ proc[t].pc \in {"idle", "begun", "find", "evaluate", "store", "enqueue"}
      BY <1>p, <2>1, WriterMoves
    <3>2. x.enqueued = {}
      BY <1>p, <3>1 DEF Fans
    <3> QED BY <1>3, <3>1, <3>2 DEF Fans
  <2>2. CASE FindRewards(t)
    <3>1. /\ x.pc \in {"evaluate", "commit"} /\ x.enqueued = proc[t].enqueued
          /\ x.users = proc[t].users /\ proc[t].pc = "find"
          /\ (x.pc = "commit" => x.rewards = {})
      BY <1>0, <2>2 DEF FindRewards, Update, Transaction
    <3>2. x.users = {} /\ x.enqueued = {}
      BY <1>p, <3>1 DEF Fans, Phased
    <3>3. CASE x.pc = "evaluate"
      BY <1>3, <3>2, <3>3 DEF Fans
    <3>4. CASE x.pc = "commit"
      <4>1. x.state = proc[t].state /\ DOMAIN proc[t].state = {}
        BY <1>0, <1>p, <2>2, <3>1 DEF FindRewards, Update, Transaction, Progress
      <4>2. Affected(t) = {}
        BY <1>p, <1>5, <3>1, <3>4, <4>1 DEF Progress, Active
      <4>3. ~Large(t) /\ Reached(t) = {}
        BY <1>p, <4>2, NoneLarge DEF Reached
      <4> QED BY <1>3, <1>5, <3>2, <3>4, <4>3 DEF Fans
    <3> QED BY <3>1, <3>3, <3>4
  <2>3. CASE Store(t)
    <3> DEFINE r     == Min(proc[t].rewards)
               rest  == proc[t].rewards \ {r}
               state == WithRow(r, proc[t].seen, proc[t].state)
               users == IF rest = {} THEN FanOut(t, state) ELSE {}
               pc    == IF rest # {} THEN "evaluate" ELSE AfterRewards(t, users)
               new   == [proc[t] EXCEPT !.rewards = rest, !.state = state, !.users = users,
                                        !.seen = {}, !.pc = pc]
    <3>1. x = new /\ proc[t].pc = "store"
      BY <1>0, <2>3 DEF Store, Update
    <3> HIDE DEF state, rest
    <3>2. (rest # {} => pc = "evaluate") /\ (rest = {} => pc = AfterRewards(t, users))
      OBVIOUS
    <3>3. rest = {} => users = FanOut(t, state)
      OBVIOUS
    <3> HIDE DEF users, pc
    <3>4. /\ new.rewards = rest /\ new.state = state /\ new.users = users /\ new.pc = pc
          /\ new.enqueued = proc[t].enqueued
      BY <1>0 DEF Transaction
    <3> HIDE DEF new
    <3>5. x.enqueued = {}
      BY <1>p, <3>1, <3>4 DEF Fans
    <3>6. CASE rest # {}
      BY <1>3, <3>1, <3>2, <3>4, <3>5, <3>6 DEF Fans
    <3>7. CASE rest = {}
      <4>1. pc = (IF Large(t) THEN "enqueue" ELSE "lock") /\ users = Reached(t)
        <5>1. pc \in {"enqueue", "lock"}
          BY <3>2, <3>7 DEF AfterRewards
        <5>2. DOMAIN state = Affected(t)
          BY <1>p, <1>5, <3>1, <3>4, <3>7, <5>1 DEF Progress, Active
        <5>3. users = Reached(t)
          BY <3>3, <3>7, <5>2 DEF FanOut, Reached
        <5> QED BY <3>2, <3>7, <5>3 DEF AfterRewards, Large
      <4> QED BY <1>3, <1>5, <3>1, <3>4, <3>5, <4>1 DEF Fans
    <3> QED BY <3>6, <3>7
  <2>4. CASE Enqueue(t)
    <3> DEFINE some == NotPending(proc[t].users)
               new  == [proc[t] EXCEPT !.pc = "commit", !.enqueued = some, !.users = {}]
    <3>1. x = new /\ proc[t].pc = "enqueue"
      BY <1>0, <2>4 DEF Enqueue, Update
    <3>2. Large(t) /\ proc[t].users = Reached(t)
      BY <1>p, <3>1 DEF Fans
    <3>3. some = Reached(t) /\ \A u \in some : queue'[u] = None
      BY <1>0, <3>1, <3>2 DEF NoCoalescing, NotPending
    <3> HIDE DEF some
    <3>4. new.pc = "commit" /\ new.enqueued = some /\ new.users = {}
      BY <1>0 DEF Transaction
    <3> HIDE DEF new
    <3> QED BY <1>3, <1>5, <3>1, <3>2, <3>3, <3>4 DEF Fans
  <2>5. CASE Abort(t)
    <3> DEFINE new == [Idle EXCEPT !.pc = "done"]
    <3>1. x = new
      BY <1>0, <2>5 DEF Abort, Update
    <3>2. new.enqueued = {} /\ new.pc = "done"
      BY DEF Idle
    <3> HIDE DEF new
    <3> QED BY <1>3, <3>1, <3>2 DEF Fans
  <2> QED BY <2>1, <2>2, <2>3, <2>4, <2>5
<1>7. \A w \in Worker \ {t} : \A v \in proc[w].enqueued : queue'[v] # None
  BY <1>0 DEF Works
<1>8. \A v \in User : (queue'[v] # None => queue[v] # None) /\ (Marked(v) => Marked(v)')
  BY <1>0 DEF Marked
<1>9. queue' \in [User -> QueueRows \cup {None}]
  BY <1>0
<1> HIDE DEF x, AggregateInv
<1> QED BY <1>0, <1>1, <1>2, <1>4, <1>6, <1>7, <1>8, <1>9, AggregatesKept

\* A worker that gives its row back, or takes one.
LEMMA WorkerAggregates ==
  ASSUME AggregateInv, StateInv', NEW w \in Worker, UNCHANGED load,
         (\E u \in User : Claim(w, u)) \/ Fail(w) \/ Crash(w)
  PROVE  AggregateInv'
<1> USE DEF AggregateInv
<1> DEFINE x == proc'[w]
<1>0. /\ w \in Process /\ w \notin Writer /\ proc[w] \in Transaction
      /\ proc \in [Process -> Transaction] /\ Phased(w, proc[w])
      /\ UNCHANGED <<committed, rewardState, positions, cash>>
  BY ConstantsAssumption, PhasedNow DEF StateInv, TypeInv, Process, Claim, Fail, Crash, rows
<1>1. Works(w) /\ Locks(w)
  BY <1>0
<1>2. /\ \A q \in Process \ {w} : proc'[q] = proc[q]
      /\ userLock' \in [User -> Process \cup {None}]
      /\ \A q \in Process \ {w}, u \in User : userLock[u] = q => userLock'[u] = q
  <2>1. \A q \in Process \ {w} : proc'[q] = proc[q]
    BY <1>0 DEF Claim, Fail, Crash, Update
  <2>2. userLock' = userLock \/ userLock' = Unlocked(w)
    BY DEF Claim, Fail, Crash
  <2> QED BY <1>0, <2>1, <2>2, UnlockedFacts
\* It has rebuilt nothing, and has claimed at most a row no one else has.
<1> DEFINE Fresh ==
      /\ x.pc \in {"idle", "lock"} /\ DOMAIN x.state = {} /\ DOMAIN x.positions = {}
      /\ DOMAIN x.cash = {} /\ x.users = x.enqueued /\ (x.pc = "idle" => x.enqueued = {})
      /\ \A u \in x.enqueued : x.enqueued = {u} /\ queue'[u] # None
      /\ \A v \in Worker \ {w} : proc[v].enqueued \cap x.enqueued = {}
<1>3. Fresh
  <2>1. ASSUME NEW u \in User, Claim(w, u)
        PROVE  /\ x.pc = "lock" /\ x.state = proc[w].state /\ x.positions = proc[w].positions
               /\ x.cash = proc[w].cash /\ x.users = {u} /\ x.enqueued = {u}
               /\ proc[w].pc = "idle" /\ queue'[u] # None /\ ~Claimed(u)
    <3> DEFINE new == [proc[w] EXCEPT !.pc = "lock", !.users = {u}, !.enqueued = {u}]
    <3>1. x = new
      BY <1>0, <2>1 DEF Claim, Update
    <3>2. /\ new.pc = "lock" /\ new.state = proc[w].state /\ new.positions = proc[w].positions
          /\ new.cash = proc[w].cash /\ new.users = {u} /\ new.enqueued = {u}
      BY <1>0 DEF Transaction
    <3> HIDE DEF new
    <3> QED BY <2>1, <3>1, <3>2 DEF Claim, queueVars
  <2>2. ASSUME NEW u \in User, ~Claimed(u) PROVE \A v \in Worker \ {w} : proc[v].enqueued \cap {u} = {}
    <3> SUFFICES ASSUME NEW v \in Worker \ {w}, u \in proc[v].enqueued PROVE FALSE
      OBVIOUS
    <3>1. Works(v)
      OBVIOUS
    <3> QED BY <2>2, <3>1 DEF Works, Claimed
  <2>3. ASSUME NEW u \in User, Claim(w, u) PROVE Fresh
    <3>1. DOMAIN proc[w].cash = {} /\ DOMAIN proc[w].positions = {} /\ DOMAIN proc[w].state = {}
      BY <1>1, <2>1, <2>3 DEF Works, Locks
    <3> QED BY <2>1, <2>2, <2>3, <3>1
  <2>4. ASSUME Fail(w) \/ Crash(w) PROVE Fresh
    <3>1. x = Idle
      BY <1>0, <2>4 DEF Fail, Crash, Update
    <3>2. /\ Idle.pc = "idle" /\ Idle.users = {} /\ Idle.enqueued = {} /\ DOMAIN Idle.state = {}
          /\ DOMAIN Idle.positions = {} /\ DOMAIN Idle.cash = {}
      BY NoRowsType DEF Idle
    <3> QED BY <3>1, <3>2
  <2> QED BY <2>3, <2>4
<1>4. /\ queue' \in [User -> QueueRows \cup {None}]
      /\ \A u \in User : (queue'[u] # None => queue[u] # None) /\ (Marked(u) => Marked(u)')
      /\ \A v \in Worker \ {w} : \A u \in proc[v].enqueued : queue'[u] # None
  <2>1. CASE queue' = queue /\ dead' = dead
    BY <2>1 DEF Marked, Works
  <2>2. CASE Fail(w)
    <3>1. PICK u \in proc[w].enqueued :
            IF Exhausted(queue[u].attempts + 1)
            THEN queue' = [queue EXCEPT ![u] = None] /\ dead' = DeadLetters(u)
            ELSE /\ queue' = [queue EXCEPT ![u] = [attempts |-> queue[u].attempts + 1, ready |-> FALSE]]
                 /\ UNCHANGED dead
      BY <2>2 DEF Fail
    <3>2. u \in User /\ queue[u] # None
      BY <1>0, <1>1 DEF Works, Transaction
    <3>3. queue[u] \in QueueRows
      BY <3>2
    <3>4. \A v \in Worker \ {w} : u \notin proc[v].enqueued
      OBVIOUS
    <3>5. CASE Exhausted(queue[u].attempts + 1)
      <4>1. queue' = [queue EXCEPT ![u] = None] /\ dead' = dead \cup {u}
        BY <3>1, <3>5 DEF DeadLetters
      <4> QED BY <3>2, <3>4, <4>1 DEF Marked, Works
    <3>6. CASE ~Exhausted(queue[u].attempts + 1)
      <4> DEFINE row == [attempts |-> queue[u].attempts + 1, ready |-> FALSE]
      <4>1. queue' = [queue EXCEPT ![u] = row] /\ dead' = dead
        BY <3>1, <3>6
      <4>2. row \in QueueRows
        BY <3>3, <3>6, ConstantsAssumption DEF QueueRows, Exhausted
      <4> HIDE DEF row
      <4>3. row # None
        BY <4>2, NoneIsNoRow
      <4> QED BY <3>2, <3>4, <4>1, <4>2, <4>3 DEF Marked, Works
    <3> QED BY <3>5, <3>6
  <2>3. ~Fail(w) => queue' = queue /\ dead' = dead
    BY DEF Claim, Crash, queueVars
  <2> QED BY <2>1, <2>2, <2>3
<1>5. Locks(w)' /\ UpToDate(w)'
  BY <1>3 DEF Locks, UpToDate
<1>6. Works(w)'
  BY <1>3 DEF Works
<1> HIDE DEF x, AggregateInv
<1> QED BY <1>0, <1>2, <1>3, <1>4, <1>5, <1>6, AggregatesKept DEF x

\* Steps of the back-off and of the reconciliation.
LEMMA OtherAggregates ==
  ASSUME AggregateInv, StateInv', UNCHANGED load,
         \/ \E u \in User : BackoffEnds(u)
         \/ UNCHANGED <<committed, rewardState, positions, cash, queue, dead, proc, userLock>>
  PROVE  AggregateInv'
<1> USE DEF AggregateInv
<1>1. /\ UNCHANGED <<committed, rewardState, positions, cash>>
      /\ UNCHANGED dead /\ UNCHANGED proc /\ UNCHANGED userLock
  BY DEF BackoffEnds, rows
<1>2. /\ queue' \in [User -> QueueRows \cup {None}]
      /\ \A u \in User : queue'[u] # None <=> queue[u] # None
  <2>1. CASE queue' = queue
    BY <2>1
  <2>2. ASSUME NEW u \in User, BackoffEnds(u)
        PROVE  /\ queue' \in [User -> QueueRows \cup {None}]
               /\ \A v \in User : queue'[v] # None <=> queue[v] # None
    <3>1. queue[u] \in QueueRows /\ queue' = [queue EXCEPT ![u] = [queue[u] EXCEPT !.ready = TRUE]]
      BY <2>2 DEF BackoffEnds
    <3>2. [queue[u] EXCEPT !.ready = TRUE] \in QueueRows
      BY <3>1 DEF QueueRows
    <3> QED BY <3>1, <3>2, NoneIsNoRow
  <2> QED BY <2>1, <2>2
<1>3. /\ \A u \in User : (queue'[u] # None => queue[u] # None) /\ (Marked(u) => Marked(u)')
      /\ \A w \in Worker : \A u \in proc[w].enqueued : queue'[u] # None
  <2>1. \A w \in Worker : proc[w].enqueued \subseteq User
    BY DEF StateInv, TypeInv, Process, Transaction
  <2> QED BY <1>1, <1>2, <2>1 DEF Marked, Works
<1>4. None \notin Process
  BY ConstantsAssumption DEF Process
<1>5. /\ \A q \in Process \ {None} : proc'[q] = proc[q]
      /\ userLock' \in [User -> Process \cup {None}]
      /\ \A q \in Process \ {None}, u \in User : userLock[u] = q => userLock'[u] = q
  BY <1>1
<1> HIDE DEF AggregateInv
<1> QED BY <1>1, <1>2, <1>3, <1>4, <1>5, AggregatesKept DEF Process

\* The rows of a process's transaction written over those of a table.
LEMMA Written ==
  ASSUME NEW table \in [User -> Aggregates], NEW new \in Rows(User, Aggregates)
  PROVE  /\ Over(new, table) \in [User -> Aggregates]
         /\ \A u \in User :
              Over(new, table)[u] = IF u \in DOMAIN new THEN new[u] ELSE table[u]
<1>1. DOMAIN new \subseteq User /\ \A u \in DOMAIN new : new[u] \in Aggregates
  BY RowsOf
<1>2. Over(new, table) = [u \in User |-> IF u \in DOMAIN new THEN new[u] ELSE table[u]]
  BY <1>1 DEF Over
<1> QED BY <1>1, <1>2

LEMMA ProcessedAggregates ==
  ASSUME AggregateInv, StateInv', NEW w \in Worker, UNCHANGED load, Processed(w)
  PROVE  AggregateInv'
<1> USE DEF AggregateInv
<1>0. /\ w \in Process /\ w \notin Writer /\ Writer \subseteq Process /\ Worker \subseteq Process
      /\ proc \in [Process -> Transaction] /\ proc[w] \in Transaction /\ Phased(w, proc[w])
      /\ UNCHANGED <<committed, rewardState, dead>>
  BY ConstantsAssumption, PhasedNow DEF StateInv, TypeInv, Process, Processed
\* All that it claimed it has rebuilt, under the user's lock.
<1>1. /\ DOMAIN proc[w].positions = proc[w].enqueued /\ DOMAIN proc[w].cash = proc[w].enqueued
      /\ \A u \in proc[w].enqueued : /\ userLock[u] = w
                                     /\ proc[w].positions[u] = Aggregate(u)
                                     /\ proc[w].cash[u] = Aggregate(u)
  <2>1. Locks(w) /\ UpToDate(w) /\ Works(w)
    BY <1>0
  <2>2. proc[w].pc = "commit" /\ proc[w].users = {} /\ proc[w].enqueued \subseteq User
    BY <1>0 DEF Processed, Phased, Transaction
  <2>3. DOMAIN proc[w].positions = proc[w].enqueued /\ DOMAIN proc[w].cash = proc[w].enqueued
    BY <2>1, <2>2 DEF Locks, Works
  <2>4. \A u \in proc[w].enqueued : OfUser(w, u) = Aggregate(u)
    BY <2>1, <2>2, WorkerView DEF Works
  <2> QED BY <1>0, <2>1, <2>3, <2>4 DEF Locks, UpToDate
<1>2. \A q \in Process \ {w} : proc'[q] = proc[q]
  BY <1>0 DEF Processed, Update
<1>3. /\ proc'[w].pc = "idle" /\ proc'[w].users = {} /\ proc'[w].enqueued = {}
      /\ DOMAIN proc'[w].state = {} /\ DOMAIN proc'[w].positions = {} /\ DOMAIN proc'[w].cash = {}
  <2>1. proc'[w] = Idle
    BY <1>0 DEF Processed, Update
  <2> QED BY <2>1, NoRowsType DEF Idle
<1>4. /\ userLock' \in [User -> Process \cup {None}]
      /\ \A q \in Process \ {w}, u \in User : userLock[u] = q => userLock'[u] = q
  BY <1>0, UnlockedFacts DEF Processed
<1>5. /\ positions' \in [User -> Aggregates] /\ cash' \in [User -> Aggregates]
      /\ \A u \in User : IF u \in proc[w].enqueued
                         THEN positions'[u] = Aggregate(u) /\ cash'[u] = Aggregate(u)
                         ELSE positions'[u] = positions[u] /\ cash'[u] = cash[u]
  <2>1. proc[w].positions \in Rows(User, Aggregates) /\ proc[w].cash \in Rows(User, Aggregates)
    BY <1>0 DEF Transaction
  <2>2. positions' = Over(proc[w].positions, positions) /\ cash' = Over(proc[w].cash, cash)
    BY DEF Processed
  <2> QED BY <1>1, <2>1, <2>2, Written
<1>6. /\ queue' \in [User -> QueueRows \cup {None}]
      /\ \A u \in User : /\ queue'[u] # None => queue[u] # None
                         /\ u \notin proc[w].enqueued => queue'[u] = queue[u]
                         /\ u \notin proc[w].enqueued => (Marked(u)' <=> Marked(u))
  BY <1>0 DEF Processed, Marked
<1>8. ASSUME NEW q \in Process, q # w PROVE Locks(q)' /\ UpToDate(q)'
  <2>1. proc'[q] = proc[q] /\ Locks(q) /\ UpToDate(q) /\ proc[q] \in Transaction
    BY <1>0, <1>2, <1>8
  <2>2. DOMAIN proc[q].positions \subseteq User /\ DOMAIN proc[q].cash \subseteq DOMAIN proc[q].positions
    BY <2>1, RowsOf DEF Transaction, Locks
  <2>3. proc[q].pc \in {"positions", "cash"} => Min(proc[q].users) \in User
    <3> HAVE proc[q].pc \in {"positions", "cash"}
    <3>1. proc[q].users # {} /\ proc[q].users \in SUBSET User
      BY <2>1 DEF StateInv, TypeInv, Transaction
    <3> QED BY <3>1, MinIn, ConstantsAssumption
  <2>4. Locks(q)'
    BY <1>4, <1>8, <2>1, <2>2, <2>3 DEF Locks
  <2>5. \A u \in DOMAIN proc[q].positions : u \notin proc[w].enqueued
    BY <1>1, <1>8, <2>1 DEF Locks
  <2>6. \A u : OfUser(q, u)' = OfUser(q, u)
    BY <1>0, <2>1 DEF OfUser, StateRows
  <2>7. UpToDate(q)'
    BY <1>6, <2>1, <2>2, <2>5, <2>6 DEF UpToDate
  <2> QED BY <2>4, <2>7
<1>9. Locks(w)' /\ UpToDate(w)' /\ Works(w)'
  BY <1>3 DEF Locks, UpToDate, Works
<1>10. ASSUME NEW t \in Writer PROVE Fans(t)'
  <2>1. proc'[t] = proc[t] /\ Fans(t) /\ proc[t].enqueued \subseteq User
    BY <1>0, <1>2 DEF Transaction
  <2>2. (Large(t)' <=> Large(t)) /\ Reached(t)' = Reached(t)
    BY <1>0 DEF Large, Reached, Affected
  <2> QED BY <1>6, <2>1, <2>2 DEF Fans
<1>11. ASSUME NEW v \in Worker, v # w PROVE Works(v)'
  <2>1. /\ proc'[v] = proc[v] /\ Works(v) /\ proc[v].enqueued \subseteq User
        /\ proc[v].enqueued \cap proc[w].enqueued = {}
    BY <1>0, <1>2, <1>11 DEF Transaction
  <2> QED BY <1>6, <2>1 DEF Works
<1>12. \A v, x \in Worker : v # x => (proc[v].enqueued \cap proc[x].enqueued = {})'
  BY <1>0, <1>2, <1>3
<1>13. StaleIsQueued'
  <2> SUFFICES ASSUME NEW u \in User
               PROVE  {positions'[u], cash'[u]} = {Aggregate(u)'} \/ Marked(u)'
    BY DEF StaleIsQueued, Marked
  <2>1. Aggregate(u)' = Aggregate(u)
    BY <1>0 DEF Aggregate
  <2>2. u \notin proc[w].enqueued => {positions[u], cash[u]} = {Aggregate(u)} \/ Marked(u)
    BY DEF StaleIsQueued, Marked
  <2> QED BY <1>5, <1>6, <2>1, <2>2
<1>14. \A q \in Process : Locks(q)' /\ UpToDate(q)'
  BY <1>8, <1>9
<1>15. \A v \in Worker : Works(v)'
  BY <1>9, <1>11
<1> QED BY <1>4, <1>5, <1>6, <1>10, <1>12, <1>13, <1>14, <1>15

\* What t commits for the aggregates: where its rewards' users are concerned, it
\* has refreshed all of them or leaves all of them to the queue.
LEMMA CommitFacts ==
  ASSUME AggregateInv, NEW t \in Writer, Commit(t)
  PROVE  /\ proc[t].pc = "commit" /\ t \notin committed /\ committed' = committed \cup {t}
         /\ rewardState' = StateRows(t) /\ DOMAIN proc[t].state = Affected(t)
         /\ \A u \in DOMAIN proc[t].positions : userLock[u] = t
         /\ DOMAIN proc[t].cash = DOMAIN proc[t].positions
         /\ \A u \in proc[t].enqueued : queue[u] = None
         /\ Large(t) => proc[t].enqueued = Reached(t) /\ DOMAIN proc[t].positions = {}
         /\ ~Large(t) => proc[t].enqueued = {} /\ DOMAIN proc[t].positions = Reached(t)
<1>1. /\ StateInv /\ TypeInv /\ Fans(t) /\ Locks(t) /\ t \in Process /\ Progress(t)
      /\ proc[t].pc = "commit"
  BY DEF AggregateInv, StateInv, Process, Commit
<1>2. proc[t].users = {}
  BY <1>1, PhasedNow DEF Phased
<1>3. DOMAIN proc[t].state = Affected(t)
  BY <1>1, CommitRewards
<1>4. rewardState' = StateRows(t) /\ committed' = committed \cup {t}
  BY DEF Commit, StateRows
<1>5. DOMAIN proc[t].cash = DOMAIN proc[t].positions
  BY <1>1 DEF Locks
<1>6. \A u \in DOMAIN proc[t].positions : userLock[u] = t
  BY <1>1 DEF Locks
<1>7. t \notin committed
  BY <1>1 DEF Progress
<1>8. /\ \A u \in proc[t].enqueued : queue[u] = None
      /\ Large(t) => proc[t].enqueued = Reached(t) /\ DOMAIN proc[t].positions = {}
      /\ ~Large(t) => proc[t].enqueued = {} /\ DOMAIN proc[t].positions = Reached(t)
  BY <1>1, <1>2, <1>5 DEF Fans
<1> QED BY <1>1, <1>3, <1>4, <1>5, <1>6, <1>7, <1>8

LEMMA CommitAggregates ==
  ASSUME AggregateInv, StateInv', NEW t \in Writer, UNCHANGED load, Commit(t)
  PROVE  AggregateInv'
<1>c. /\ proc[t].pc = "commit" /\ t \notin committed /\ committed' = committed \cup {t}
      /\ rewardState' = StateRows(t) /\ DOMAIN proc[t].state = Affected(t)
      /\ \A u \in DOMAIN proc[t].positions : userLock[u] = t
      /\ DOMAIN proc[t].cash = DOMAIN proc[t].positions
      /\ \A u \in proc[t].enqueued : queue[u] = None
      /\ Large(t) => proc[t].enqueued = Reached(t) /\ DOMAIN proc[t].positions = {}
      /\ ~Large(t) => proc[t].enqueued = {} /\ DOMAIN proc[t].positions = Reached(t)
  BY CommitFacts
<1>a. ASSUME NEW o \in Writer, o # t, Active(o) PROVE Affected(o)' = Affected(o)
  BY <1>a, AffectedKept DEF AggregateInv
<1> USE DEF AggregateInv
<1>0. /\ t \in Process /\ t \notin Worker /\ Writer \subseteq Process /\ Worker \subseteq Process
      /\ proc \in [Process -> Transaction] /\ proc[t] \in Transaction /\ UNCHANGED dead
  BY ConstantsAssumption DEF StateInv, TypeInv, Process, Commit
<1>1. \A q \in Process \ {t} : proc'[q] = proc[q]
  BY <1>0 DEF Commit, Update
<1>2. /\ proc'[t].pc = "done" /\ proc'[t].enqueued = {}
      /\ DOMAIN proc'[t].positions = {} /\ DOMAIN proc'[t].cash = {}
  <2> DEFINE new == [Idle EXCEPT !.pc = "done"]
  <2>1. proc'[t] = new
    BY <1>0 DEF Commit, Update
  <2>2. /\ new.pc = "done" /\ new.enqueued = {} /\ DOMAIN new.positions = {} /\ DOMAIN new.cash = {}
    BY NoRowsType DEF Idle
  <2> HIDE DEF new
  <2> QED BY <2>1, <2>2
<1>3. /\ userLock' \in [User -> Process \cup {None}]
      /\ \A q \in Process \ {t}, u \in User : userLock[u] = q => userLock'[u] = q
  BY <1>0, UnlockedFacts DEF Commit
\* What t has seen of its users' rewards becomes what is stored of them; for the
\* other users nothing changes.
<1>4. \A u \in User : Aggregate(u)' = OfUser(t, u)
  <2>1. \A u \in User : Aggregate(u)' = View(rewardState', u)
    BY DEF Aggregate, View
  <2> QED BY <1>0, <1>c, <2>1, Views
<1>5. ASSUME NEW u \in User, u \notin Reached(t)
      PROVE  /\ Aggregate(u)' = Aggregate(u)
             /\ \A q \in Process \ {t} : OfUser(q, u)' = OfUser(q, u)
  <2>1. ASSUME NEW r, Owner[r] = u
        PROVE  /\ r \in DOMAIN rewardState' <=> r \in DOMAIN rewardState
               /\ r \in DOMAIN rewardState' => rewardState'[r] = rewardState[r]
    <3>1. r \notin DOMAIN proc[t].state
      BY <1>5, <1>c, <2>1 DEF Reached
    <3> QED BY <1>c, <3>1 DEF StateRows, Over
  <2>2. View(rewardState', u) = View(rewardState, u)
    BY <2>1, SameView
  <2>3. ASSUME NEW q \in Process, q # t PROVE OfUser(q, u)' = OfUser(q, u)
    <3>1. /\ OfUser(q, u)' = View(Over(proc[q].state, rewardState'), u)
          /\ OfUser(q, u) = View(Over(proc[q].state, rewardState), u)
      BY <1>1, <2>3 DEF OfUser, StateRows, View
    <3>2. View(Over(proc[q].state, rewardState'), u) = View(Over(proc[q].state, rewardState), u)
      BY <2>1, SameViewOver
    <3> QED BY <3>1, <3>2
  <2>4. Aggregate(u)' = View(rewardState', u)
    BY DEF Aggregate, View
  <2> QED BY <2>2, <2>3, <2>4, Views
<1>6. /\ positions' \in [User -> Aggregates] /\ cash' \in [User -> Aggregates]
      /\ \A u \in User : IF u \in DOMAIN proc[t].positions
                         THEN positions'[u] = proc[t].positions[u] /\ cash'[u] = proc[t].cash[u]
                         ELSE positions'[u] = positions[u] /\ cash'[u] = cash[u]
  <2>1. proc[t].positions \in Rows(User, Aggregates) /\ proc[t].cash \in Rows(User, Aggregates)
    BY <1>0 DEF Transaction
  <2>2. positions' = Over(proc[t].positions, positions) /\ cash' = Over(proc[t].cash, cash)
    BY DEF Commit
  <2> QED BY <1>c, <2>1, <2>2, Written
<1>7. /\ queue' \in [User -> QueueRows \cup {None}]
      /\ \A u \in User : /\ u \in proc[t].enqueued => queue'[u] # None
                         /\ u \notin proc[t].enqueued => queue'[u] = queue[u]
                         /\ queue[u] # None => queue'[u] # None
                         /\ Marked(u) => Marked(u)'
  <2>1. NewRow \in QueueRows /\ NewRow # None
    <3>1. NewRow \in QueueRows
      BY ConstantsAssumption DEF NewRow, QueueRows
    <3> QED BY <3>1, NoneIsNoRow
  <2> HIDE DEF AggregateInv
  <2>2. queue \in [User -> QueueRows \cup {None}]
    BY DEF AggregateInv
  <2> QED BY <1>0, <2>1, <2>2 DEF Commit, Marked
<1>9. ASSUME NEW q \in Process, q # t PROVE Locks(q)' /\ UpToDate(q)'
  <2>1. proc'[q] = proc[q] /\ Locks(q) /\ UpToDate(q) /\ proc[q] \in Transaction /\ Phased(q, proc[q])
    BY <1>0, <1>1, <1>9, PhasedNow DEF StateInv
  <2>2. DOMAIN proc[q].positions \subseteq User /\ DOMAIN proc[q].cash \subseteq DOMAIN proc[q].positions
    BY <2>1, RowsOf DEF Transaction, Locks
  <2>3. proc[q].pc \in {"positions", "cash"} =>
          Min(proc[q].users) \in User /\ Min(proc[q].users) \in proc[q].users
    <3> HAVE proc[q].pc \in {"positions", "cash"}
    <3>1. proc[q].users # {} /\ proc[q].users \in SUBSET User
      BY <2>1 DEF Phased, Transaction
    <3> QED BY <3>1, MinIn, ConstantsAssumption
  <2>4. Locks(q)'
    BY <1>3, <1>9, <2>1, <2>2, <2>3 DEF Locks
  <2>5. ASSUME NEW u \in DOMAIN proc[q].positions
        PROVE  IF u \in Reached(t) THEN q \in Writer /\ Marked(u)'
               ELSE OfUser(q, u)' = OfUser(q, u) /\ (Marked(u) => Marked(u)')
    <3>1. u \in User /\ userLock[u] = q
      BY <2>1, <2>2 DEF Locks
    <3>2. CASE u \notin Reached(t)
      BY <1>5, <1>7, <1>9, <3>1, <3>2
    <3>3. CASE u \in Reached(t)
      <4>1. Large(t) /\ u \in proc[t].enqueued
        BY <1>c, <1>9, <3>1, <3>3
      <4>2. queue[u] = None /\ Marked(u)'
        BY <1>c, <1>7, <3>1, <4>1 DEF Marked
      <4>3. ASSUME q \in Worker PROVE FALSE
        <5>1. u \in proc[q].enqueued
          BY <2>1, <2>3, <4>3 DEF Works, Locks
        <5> QED BY <4>2, <4>3, <5>1 DEF Works
      <4> QED BY <3>3, <4>2, <4>3 DEF Process
    <3> QED BY <3>2, <3>3
  <2>6. UpToDate(q)'
    BY <2>1, <2>2, <2>5 DEF UpToDate
  <2> QED BY <2>4, <2>6
<1>10. Locks(t)' /\ UpToDate(t)'
  BY <1>2 DEF Locks, UpToDate
<1>11. ASSUME NEW o \in Writer PROVE Fans(o)'
  <2>1. CASE o = t
    BY <1>2, <2>1 DEF Fans
  <2>2. CASE o # t
    <3>1. proc'[o] = proc[o] /\ Fans(o) /\ proc[o].enqueued \subseteq User
      BY <1>0, <1>1, <2>2 DEF Transaction
    <3>2. CASE ~Active(o)
      BY <3>1, <3>2 DEF Fans, Active
    <3>3. CASE Active(o)
      <4>1. (Large(o)' <=> Large(o)) /\ Reached(o)' = Reached(o)
        BY <1>a, <2>2, <3>3 DEF Large, Reached
      <4>2. ~Large(t) \/ ~Large(o)
        BY <1>c, <2>2, <3>3 DEF StateInv, Apart, TakeTurns, Large, Active
      <4>3. Large(o) \/ proc[o].enqueued = {}
        BY <1>0, <3>1 DEF Fans, Transaction
      <4>4. \A u \in proc[o].enqueued : queue'[u] = None
        <5>1. Large(o) => proc[t].enqueued = {}
          BY <1>c, <4>2
        <5> QED BY <1>7, <3>1, <4>3, <5>1 DEF Fans
      <4> QED BY <3>1, <4>1, <4>4 DEF Fans
    <3> QED BY <3>2, <3>3
  <2> QED BY <2>1, <2>2
<1>12. ASSUME NEW w \in Worker PROVE Works(w)'
  <2>1. proc'[w] = proc[w] /\ Works(w) /\ proc[w].enqueued \subseteq User
    BY <1>0, <1>1 DEF Transaction
  <2> QED BY <1>7, <2>1 DEF Works
<1>13. \A w, x \in Worker : w # x => (proc[w].enqueued \cap proc[x].enqueued = {})'
  BY <1>0, <1>1
<1>14. StaleIsQueued'
  <2> SUFFICES ASSUME NEW u \in User
               PROVE  {positions'[u], cash'[u]} = {Aggregate(u)'} \/ Marked(u)'
    BY DEF StaleIsQueued, Marked
  <2>1. CASE u \in Reached(t) /\ Large(t)
    BY <1>c, <1>7, <2>1 DEF Marked
  <2>2. CASE u \in Reached(t) /\ ~Large(t)
    <3>1. u \in DOMAIN proc[t].positions /\ u \in DOMAIN proc[t].cash
      BY <1>c, <2>2
    <3>2. UpToDate(t)
      BY <1>0
    <3> QED BY <1>4, <1>6, <1>7, <3>1, <3>2 DEF UpToDate
  <2>3. CASE u \notin Reached(t)
    <3>1. u \notin DOMAIN proc[t].positions
      BY <1>c, <2>3
    <3>2. {positions[u], cash[u]} = {Aggregate(u)} \/ Marked(u)
      BY DEF StaleIsQueued, Marked
    <3>3. Aggregate(u)' = Aggregate(u)
      BY <1>5, <2>3
    <3> QED BY <1>6, <1>7, <3>1, <3>2, <3>3
  <2> QED BY <2>1, <2>2, <2>3
<1>15. \A q \in Process : Locks(q)' /\ UpToDate(q)'
  BY <1>9, <1>10
<1> QED BY <1>3, <1>6, <1>7, <1>11, <1>12, <1>13, <1>14, <1>15

LEMMA AggregateStep ==
  ASSUME NoOverlap', NoCoalescing, AggregateInv, [Next]_vars
  PROVE  AggregateInv'
<1>0. StateInv'
  BY StateStep DEF AggregateInv
<1>1. ASSUME UNCHANGED load, NEW t \in Writer, WriterStep(t) \/ Abort(t) PROVE AggregateInv'
  <2>1. t \in Process
    BY DEF Process
  <2> QED BY <1>0, <1>1, <2>1, WriterAggregates, RefreshAggregates, CommitAggregates DEF WriterStep
<1>2. ASSUME UNCHANGED load, NEW w \in Worker, WorkerStep(w) \/ Fail(w) \/ Crash(w)
      PROVE  AggregateInv'
  <2>1. w \in Process
    BY DEF Process
  <2> QED BY <1>0, <1>2, <2>1, WorkerAggregates, RefreshAggregates, ProcessedAggregates DEF WorkerStep
<1>3. ASSUME UNCHANGED load, (\E u \in User : BackoffEnds(u)) \/ CheckStep \/ Quiet
      PROVE  AggregateInv'
  <2>1. \/ \E u \in User : BackoffEnds(u)
        \/ UNCHANGED <<committed, rewardState, positions, cash, queue, dead, proc, userLock>>
    BY <1>3 DEF CheckStep, StartCheck, SelectUsers, CheckUsers, MarkReconciled, Quiet, rows,
                queueVars, tables
  <2> QED BY <1>0, <1>3, <2>1, OtherAggregates
<1>4. CASE UNCHANGED vars
  <2>1. /\ UNCHANGED load
        /\ UNCHANGED <<committed, rewardState, positions, cash, queue, dead, proc, userLock>>
    BY <1>4 DEF vars, tables
  <2> QED BY <1>0, <2>1, OtherAggregates
<1> QED BY <1>1, <1>2, <1>3, <1>4 DEF Next

\* A user's position and cash rows agree with the user's reward_state rows, or a
\* pending row or a dead letter says they may not: for any number of users,
\* writers and workers, with workers that fail or crash, in a behaviour in which
\* no event overlaps another write of its rewards and no enqueue meets a pending
\* row (refresh_user_projections under the user's advisory lock,
\* projection_enqueue_users).
THEOREM StaleHolds == Spec /\ []NoOverlap /\ []NoCoalescing => []StaleIsQueued
<1>1. AggregateInv /\ NoOverlap' /\ NoCoalescing /\ [Next]_vars => AggregateInv'
  BY AggregateStep
<1>2. AggregateInv => StaleIsQueued
  BY DEF AggregateInv
<1> QED BY <1>1, <1>2, InitialAggregates, PTL DEF Spec
-----------------------------------------------------------------------------
(* Reconciliation *)

\* One table has all that another one has.
Covers(more, less) == \A r \in DOMAIN less : r \in DOMAIN more /\ less[r] \subseteq more[r]

\* What p has rebuilt of a user is no older than the table, no newer than what p
\* sees, and has p's own writes.
Fits(p, rebuilt, table) ==
  \A u \in DOMAIN rebuilt :
    /\ Covers(rebuilt[u], table[u])
    /\ Covers(OfUser(p, u), rebuilt[u])
    /\ \A r \in DOMAIN proc[p].state : Owner[r] = u =>
         r \in DOMAIN rebuilt[u] /\ rebuilt[u][r] = proc[p].state[r]

Advances(p) == Fits(p, proc[p].positions, positions) /\ Fits(p, proc[p].cash, cash)

\* The aggregates are never ahead of reward_state.
Behind(u) == Covers(Aggregate(u), positions[u]) /\ Covers(Aggregate(u), cash[u])

GrowthInv == AggregateInv /\ (\A p \in Process : Advances(p)) /\ \A u \in User : Behind(u)

\* A user's row of a table has these writes, for every reward they change.
Shows(table, u, seen) ==
  \A r \in DOMAIN rewardState : Owner[r] = u /\ Outcome(r, seen) # {} =>
    r \in DOMAIN table /\ Outcome(r, seen) \subseteq table[r]

Serves(u, seen) == seen \subseteq committed /\ Shows(positions[u], u, seen) /\ Shows(cash[u], u, seen)

Checks ==
  [pc: {"idle", "select", "check", "mark"}, runs: Nat, begun: SUBSET Writer, users: SUBSET User,
   clean: SUBSET User, saw: SUBSET Writer]

CheckedInv ==
  /\ recon \in Checks /\ focus \in [User -> FocusRows \cup {None}]
  /\ recon.pc = "mark" => \A u \in recon.clean : Serves(u, recon.saw)
  /\ \A u \in User : focus[u] # None => Serves(u, focus[u].saw)

LEMMA CoversAll ==
  ASSUME NEW a, NEW b, NEW c, Covers(a, b), Covers(b, c)
  PROVE  Covers(a, c)
BY DEF Covers

LEMMA CoversItself == ASSUME NEW a PROVE Covers(a, a)
BY DEF Covers

\* What a process sees of a user, row by row.
LEMMA OfUserIs ==
  ASSUME NEW p \in Process, NEW u
  PROVE  /\ \A r : r \in DOMAIN OfUser(p, u) <=>
                     Owner[r] = u /\ (r \in DOMAIN proc[p].state \/ r \in DOMAIN rewardState)
         /\ \A r \in DOMAIN OfUser(p, u) :
              OfUser(p, u)[r] = IF r \in DOMAIN proc[p].state THEN proc[p].state[r] ELSE rewardState[r]
<1> DEFINE seen == StateRows(p)
<1>1. /\ DOMAIN seen = DOMAIN proc[p].state \cup DOMAIN rewardState
      /\ \A r \in DOMAIN proc[p].state : seen[r] = proc[p].state[r]
      /\ \A r \in DOMAIN rewardState \ DOMAIN proc[p].state : seen[r] = rewardState[r]
  BY DEF StateRows, Over
<1> HIDE DEF seen
<1>2. OfUser(p, u) = [r \in {x \in DOMAIN seen : Owner[x] = u} |-> seen[r]]
  BY DEF OfUser, seen
<1> QED BY <1>1, <1>2

LEMMA AggregateIs ==
  ASSUME NEW u
  PROVE  /\ \A r : r \in DOMAIN Aggregate(u) <=> Owner[r] = u /\ r \in DOMAIN rewardState
         /\ \A r \in DOMAIN Aggregate(u) : Aggregate(u)[r] = rewardState[r]
BY DEF Aggregate

\* A transaction sees at least what is committed, and its own rows as they are.
LEMMA OfUserCovers ==
  ASSUME AggregateInv, NEW p \in Process, NEW u \in User
  PROVE  /\ Covers(OfUser(p, u), Aggregate(u))
         /\ \A r \in DOMAIN proc[p].state : Owner[r] = u =>
              r \in DOMAIN OfUser(p, u) /\ OfUser(p, u)[r] = proc[p].state[r]
<1>1. ASSUME NEW r \in DOMAIN Aggregate(u)
      PROVE  r \in DOMAIN OfUser(p, u) /\ Aggregate(u)[r] \subseteq OfUser(p, u)[r]
  <2>1. r \in DOMAIN rewardState /\ Owner[r] = u /\ Aggregate(u)[r] = rewardState[r]
    BY AggregateIs
  <2>2. rewardState[r] = Outcome(r, committed)
    BY <2>1 DEF AggregateInv, StateInv, RewardStateComplete
  <2>3. CASE r \in DOMAIN proc[p].state
    <3>1. p \in Writer
      BY <2>3 DEF AggregateInv, Works, Process
    <3>2. proc[p].state[r] = Outcome(r, committed \cup {p})
      BY <2>3, <3>1 DEF AggregateInv, StateInv, Progress
    <3> QED BY <2>1, <2>2, <2>3, <3>2, OfUserIs DEF Outcome
  <2>4. CASE r \notin DOMAIN proc[p].state
    BY <2>1, <2>4, OfUserIs
  <2> QED BY <2>3, <2>4
<1>2. \A r \in DOMAIN proc[p].state : Owner[r] = u =>
        r \in DOMAIN OfUser(p, u) /\ OfUser(p, u)[r] = proc[p].state[r]
  BY OfUserIs
<1> QED BY <1>1, <1>2 DEF Covers

\* A step that commits nothing and rebuilds at most what its process sees.
LEMMA GrowthKept ==
  ASSUME GrowthInv, AggregateInv', NEW p, \A q \in Process \ {p} : proc'[q] = proc[q],
         UNCHANGED committed, UNCHANGED rewardState, UNCHANGED positions, UNCHANGED cash,
         p \in Process =>
           \/ DOMAIN proc'[p].positions = {} /\ DOMAIN proc'[p].cash = {}
           \/ /\ proc'[p].state = proc[p].state
              /\ \A v \in DOMAIN proc'[p].positions :
                   \/ proc'[p].positions[v] = OfUser(p, v)
                   \/ v \in DOMAIN proc[p].positions /\ proc'[p].positions[v] = proc[p].positions[v]
              /\ \A v \in DOMAIN proc'[p].cash :
                   \/ proc'[p].cash[v] = OfUser(p, v)
                   \/ v \in DOMAIN proc[p].cash /\ proc'[p].cash[v] = proc[p].cash[v]
  PROVE  GrowthInv'
<1>1. \A u \in User : Behind(u)'
  BY DEF GrowthInv, Behind, Aggregate
<1>2. ASSUME NEW q \in Process, q # p PROVE Advances(q)'
  <2>1. \A u : OfUser(q, u)' = OfUser(q, u)
    BY <1>2 DEF OfUser, StateRows
  <2> QED BY <1>2, <2>1 DEF GrowthInv, Advances, Fits
<1>3. ASSUME p \in Process PROVE Advances(p)'
  <2>1. CASE DOMAIN proc'[p].positions = {} /\ DOMAIN proc'[p].cash = {}
    BY <2>1 DEF Advances, Fits
  <2>2. CASE ~(DOMAIN proc'[p].positions = {} /\ DOMAIN proc'[p].cash = {})
    <3>1. proc'[p].state = proc[p].state /\ Advances(p)
      BY <1>3, <2>2 DEF GrowthInv
    <3>2. \A u : OfUser(p, u)' = OfUser(p, u)
      BY <3>1 DEF OfUser, StateRows
    <3>3. proc'[p] \in Transaction
      BY <1>3 DEF AggregateInv, StateInv, TypeInv
    <3>4. DOMAIN proc'[p].positions \subseteq User /\ DOMAIN proc'[p].cash \subseteq User
      BY <3>3, RowsOf DEF Transaction
    <3>5. ASSUME NEW v \in User
          PROVE  /\ Covers(OfUser(p, v), positions[v]) /\ Covers(OfUser(p, v), cash[v])
                 /\ Covers(OfUser(p, v), OfUser(p, v))
                 /\ \A r \in DOMAIN proc[p].state : Owner[r] = v =>
                      r \in DOMAIN OfUser(p, v) /\ OfUser(p, v)[r] = proc[p].state[r]
      BY <1>3, OfUserCovers, CoversAll, CoversItself DEF GrowthInv, Behind
    <3>6. Fits(p, proc[p].positions, positions)'
      <4> SUFFICES ASSUME NEW v \in DOMAIN proc'[p].positions
                   PROVE  /\ Covers(proc'[p].positions[v], positions[v])
                          /\ Covers(OfUser(p, v), proc'[p].positions[v])
                          /\ \A r \in DOMAIN proc[p].state : Owner[r] = v =>
                               /\ r \in DOMAIN proc'[p].positions[v]
                               /\ proc'[p].positions[v][r] = proc[p].state[r]
        BY <3>1, <3>2 DEF Fits, Covers
      <4>1. CASE proc'[p].positions[v] = OfUser(p, v)
        BY <3>4, <3>5, <4>1
      <4>2. CASE v \in DOMAIN proc[p].positions /\ proc'[p].positions[v] = proc[p].positions[v]
        BY <3>1, <4>2 DEF Advances, Fits
      <4> QED BY <1>3, <2>2, <4>1, <4>2
    <3>7. Fits(p, proc[p].cash, cash)'
      <4> SUFFICES ASSUME NEW v \in DOMAIN proc'[p].cash
                   PROVE  /\ Covers(proc'[p].cash[v], cash[v])
                          /\ Covers(OfUser(p, v), proc'[p].cash[v])
                          /\ \A r \in DOMAIN proc[p].state : Owner[r] = v =>
                               /\ r \in DOMAIN proc'[p].cash[v]
                               /\ proc'[p].cash[v][r] = proc[p].state[r]
        BY <3>1, <3>2 DEF Fits, Covers
      <4>1. CASE proc'[p].cash[v] = OfUser(p, v)
        BY <3>4, <3>5, <4>1
      <4>2. CASE v \in DOMAIN proc[p].cash /\ proc'[p].cash[v] = proc[p].cash[v]
        BY <3>1, <4>2 DEF Advances, Fits
      <4> QED BY <1>3, <2>2, <4>1, <4>2
    <3> QED BY <3>6, <3>7 DEF Advances
  <2> QED BY <2>1, <2>2
<1> QED BY <1>1, <1>2, <1>3 DEF GrowthInv

\* What the statements that take a lock or rebuild a row leave in the transaction.
LEMMA Rebuilt ==
  ASSUME TypeInv, NEW p \in Process, LockUser(p) \/ RebuildPositions(p) \/ RebuildCash(p)
  PROVE  /\ \A q \in Process \ {p} : proc'[q] = proc[q]
         /\ UNCHANGED <<committed, rewardState, positions, cash>>
         /\ proc'[p].state = proc[p].state
         /\ \A v \in DOMAIN proc'[p].positions :
              \/ proc'[p].positions[v] = OfUser(p, v)
              \/ v \in DOMAIN proc[p].positions /\ proc'[p].positions[v] = proc[p].positions[v]
         /\ \A v \in DOMAIN proc'[p].cash :
              \/ proc'[p].cash[v] = OfUser(p, v)
              \/ v \in DOMAIN proc[p].cash /\ proc'[p].cash[v] = proc[p].cash[v]
<1> DEFINE u == Min(proc[p].users)
           x == proc'[p]
<1>0. proc[p] \in Transaction /\ proc \in [Process -> Transaction]
  BY DEF TypeInv
<1>1. /\ \A q \in Process \ {p} : proc'[q] = proc[q]
      /\ UNCHANGED <<committed, rewardState, positions, cash>>
  BY <1>0 DEF LockUser, RebuildPositions, RebuildCash, Update, rows
<1>2. CASE LockUser(p)
  <2>1. x = [proc[p] EXCEPT !.pc = "positions"]
    BY <1>0, <1>2 DEF LockUser, Update
  <2>2. x.state = proc[p].state /\ x.positions = proc[p].positions /\ x.cash = proc[p].cash
    BY <1>0, <2>1 DEF Transaction
  <2> QED BY <1>1, <2>2
<1>3. CASE RebuildPositions(p)
  <2> DEFINE some == WithRow(u, OfUser(p, u), proc[p].positions)
  <2>1. x = [proc[p] EXCEPT !.pc = "cash", !.positions = some]
    BY <1>0, <1>3 DEF RebuildPositions, Update
  <2>2. /\ DOMAIN some = {u} \cup DOMAIN proc[p].positions /\ some[u] = OfUser(p, u)
        /\ \A v \in DOMAIN proc[p].positions \ {u} : some[v] = proc[p].positions[v]
    BY DEF WithRow, Over
  <2> HIDE DEF some, u
  <2>3. x.state = proc[p].state /\ x.positions = some /\ x.cash = proc[p].cash
    BY <1>0, <2>1 DEF Transaction
  <2> QED BY <1>1, <2>2, <2>3
<1>4. CASE RebuildCash(p)
  <2> DEFINE some == WithRow(u, OfUser(p, u), proc[p].cash)
             rest == proc[p].users \ {u}
             pc   == IF rest = {} THEN "commit" ELSE "lock"
  <2>1. x = [proc[p] EXCEPT !.pc = pc, !.users = rest, !.cash = some]
    BY <1>0, <1>4 DEF RebuildCash, Update
  <2>2. /\ DOMAIN some = {u} \cup DOMAIN proc[p].cash /\ some[u] = OfUser(p, u)
        /\ \A v \in DOMAIN proc[p].cash \ {u} : some[v] = proc[p].cash[v]
    BY DEF WithRow, Over
  <2> HIDE DEF some, u, rest, pc
  <2>3. x.state = proc[p].state /\ x.positions = proc[p].positions /\ x.cash = some
    BY <1>0, <2>1 DEF Transaction
  <2> QED BY <1>1, <2>2, <2>3
<1> QED BY <1>2, <1>3, <1>4

LEMMA QuietGrowth ==
  ASSUME GrowthInv, AggregateInv', NEW p \in Process,
         \/ p \in Writer /\ (\/ Begin(p) \/ EventLock(p) \/ FindRewards(p) \/ Evaluate(p) \/ Store(p)
                             \/ Enqueue(p) \/ Abort(p))
         \/ p \in Worker /\ ((\E u \in User : Claim(p, u)) \/ Fail(p) \/ Crash(p))
  PROVE  GrowthInv'
<1>0. /\ proc \in [Process -> Transaction] /\ proc[p] \in Transaction /\ AggregateInv /\ TypeInv
      /\ Phased(p, proc[p])
  BY PhasedNow DEF GrowthInv, AggregateInv, StateInv, TypeInv
<1>1. /\ \A q \in Process \ {p} : proc'[q] = proc[q]
      /\ UNCHANGED <<committed, rewardState, positions, cash>>
  <2>1. UNCHANGED <<committed, rewardState, positions, cash>>
    BY DEF Begin, EventLock, FindRewards, Evaluate, Store, Enqueue, Abort, Claim, Fail, Crash, rows
  <2>2. CASE p \in Writer /\ ~Abort(p)
    <3>1. ASSUME p \in Worker PROVE FALSE
      BY <2>2, <3>1, ConstantsAssumption
    <3> QED BY <1>0, <2>1, <2>2, <3>1, WriterMoves
  <2>3. CASE Abort(p) \/ (p \in Worker /\ ((\E u \in User : Claim(p, u)) \/ Fail(p) \/ Crash(p)))
    BY <1>0, <2>1, <2>3 DEF Abort, Claim, Fail, Crash, Update
  <2> QED BY <2>2, <2>3
<1>2. DOMAIN proc'[p].positions = {} /\ DOMAIN proc'[p].cash = {}
  <2>1. CASE p \in Writer /\ ~Abort(p)
    <3>1. /\ proc[p].pc \in {"idle", "begun", "find", "evaluate", "store", "enqueue"}
          /\ proc'[p].positions = proc[p].positions /\ proc'[p].cash = proc[p].cash
      <4>1. ASSUME p \in Worker PROVE FALSE
        BY <2>1, <4>1, ConstantsAssumption
      <4> QED BY <1>0, <2>1, <4>1, WriterMoves
    <3>2. Fans(p) /\ Locks(p)
      BY <1>0, <2>1 DEF AggregateInv
    <3> QED BY <3>1, <3>2 DEF Fans, Locks
  <2>2. CASE Abort(p) \/ Fail(p) \/ Crash(p)
    <3>1. proc'[p] = Idle \/ proc'[p] = [Idle EXCEPT !.pc = "done"]
      BY <1>0, <2>2 DEF Abort, Fail, Crash, Update
    <3> QED BY <3>1, NoRowsType DEF Idle
  <2>3. CASE p \in Worker /\ \E u \in User : Claim(p, u)
    <3>1. proc[p].pc = "idle" /\ Works(p) /\ Locks(p)
      BY <1>0, <2>3 DEF AggregateInv, Claim
    <3>2. DOMAIN proc[p].cash = {} /\ DOMAIN proc[p].positions = {}
      BY <3>1 DEF Works, Locks
    <3>3. PICK u \in User : proc' = [proc EXCEPT ![p] = [proc[p] EXCEPT !.pc = "lock", !.users = {u},
                                                                       !.enqueued = {u}]]
      BY <2>3 DEF Claim, Update
    <3>4. proc'[p].positions = proc[p].positions /\ proc'[p].cash = proc[p].cash
      BY <1>0, <3>3 DEF Transaction
    <3> QED BY <3>2, <3>4
  <2> QED BY <2>1, <2>2, <2>3
<1> QED BY <1>1, <1>2, GrowthKept

\* A commit or a processed row writes what its transaction has rebuilt of the
\* users whose locks it holds; nobody else has rebuilt anything of them.
LEMMA RebuiltAlone ==
  ASSUME AggregateInv, NEW p \in Process, NEW q \in Process, p # q
  PROVE  /\ DOMAIN proc[p].positions \cap DOMAIN proc[q].positions = {}
         /\ DOMAIN proc[p].positions \cap DOMAIN proc[q].cash = {}
         /\ DOMAIN proc[q].cash \subseteq User /\ DOMAIN proc[q].positions \subseteq User
<1>1. Locks(p) /\ Locks(q) /\ proc[q] \in Transaction
  BY DEF AggregateInv, StateInv, TypeInv
<1>2. DOMAIN proc[q].cash \subseteq User /\ DOMAIN proc[q].positions \subseteq User
  BY <1>1, RowsOf DEF Transaction
<1> QED BY <1>1, <1>2 DEF Locks

LEMMA ProcessedGrowth ==
  ASSUME GrowthInv, AggregateInv', NEW w \in Worker, Processed(w)
  PROVE  GrowthInv'
<1>0. /\ AggregateInv /\ w \in Process /\ proc \in [Process -> Transaction]
      /\ proc[w] \in Transaction /\ positions \in [User -> Aggregates] /\ cash \in [User -> Aggregates]
      /\ Locks(w) /\ Works(w) /\ Advances(w) /\ UNCHANGED <<committed, rewardState>>
  BY DEF GrowthInv, AggregateInv, StateInv, TypeInv, Process, Processed
<1>1. DOMAIN proc[w].positions = DOMAIN proc[w].cash
  BY <1>0 DEF Locks, Processed
<1>2. \A u \in User : IF u \in DOMAIN proc[w].positions
                      THEN positions'[u] = proc[w].positions[u] /\ cash'[u] = proc[w].cash[u]
                      ELSE positions'[u] = positions[u] /\ cash'[u] = cash[u]
  <2>1. proc[w].positions \in Rows(User, Aggregates) /\ proc[w].cash \in Rows(User, Aggregates)
    BY <1>0 DEF Transaction
  <2>2. positions' = Over(proc[w].positions, positions) /\ cash' = Over(proc[w].cash, cash)
    BY DEF Processed
  <2> QED BY <1>0, <1>1, <2>1, <2>2, Written
<1>3. ASSUME NEW u \in User PROVE Behind(u)'
  <2>1. Aggregate(u)' = Aggregate(u)
    BY <1>0 DEF Aggregate
  <2>2. CASE u \in DOMAIN proc[w].positions
    <3>1. OfUser(w, u) = Aggregate(u)
      BY <1>0, WorkerView DEF Works
    <3>2. Covers(Aggregate(u), proc[w].positions[u]) /\ Covers(Aggregate(u), proc[w].cash[u])
      BY <1>0, <1>1, <2>2, <3>1 DEF Advances, Fits
    <3> QED BY <1>2, <2>1, <2>2, <3>2 DEF Behind
  <2>3. CASE u \notin DOMAIN proc[w].positions
    BY <1>2, <2>1, <2>3 DEF GrowthInv, Behind
  <2> QED BY <2>2, <2>3
<1>4. ASSUME NEW q \in Process PROVE Advances(q)'
  <2>1. CASE q = w
    <3>1. proc'[w] = Idle
      BY <1>0 DEF Processed, Update
    <3>2. DOMAIN proc'[w].positions = {} /\ DOMAIN proc'[w].cash = {}
      BY <3>1, NoRowsType DEF Idle
    <3> QED BY <2>1, <3>2 DEF Advances, Fits
  <2>2. CASE q # w
    <3>1. proc'[q] = proc[q]
      BY <1>0, <2>2 DEF Processed, Update
    <3>2. \A u : OfUser(q, u)' = OfUser(q, u)
      BY <1>0, <3>1 DEF OfUser, StateRows
    <3>3. /\ \A u \in DOMAIN proc[q].positions : positions'[u] = positions[u]
          /\ \A u \in DOMAIN proc[q].cash : cash'[u] = cash[u]
      BY <1>0, <1>2, <2>2, RebuiltAlone
    <3> QED BY <3>1, <3>2, <3>3 DEF GrowthInv, Advances, Fits
  <2> QED BY <2>1, <2>2
<1> QED BY <1>3, <1>4 DEF GrowthInv

\* reward_state only gains, and what t has seen of a user is what is stored then.
LEMMA CommitGains ==
  ASSUME AggregateInv, AggregateInv', NEW t \in Writer, Commit(t)
  PROVE  /\ \A r \in DOMAIN rewardState : r \in DOMAIN rewardState' /\ rewardState[r] \subseteq rewardState'[r]
         /\ \A u \in User : Aggregate(u)' = OfUser(t, u) /\ Covers(Aggregate(u)', Aggregate(u))
         /\ \A u \in User : IF u \in DOMAIN proc[t].positions
                            THEN positions'[u] = proc[t].positions[u] /\ cash'[u] = proc[t].cash[u]
                            ELSE positions'[u] = positions[u] /\ cash'[u] = cash[u]
<1>0. /\ t \in Process /\ proc[t] \in Transaction /\ positions \in [User -> Aggregates]
      /\ cash \in [User -> Aggregates]
  BY DEF AggregateInv, StateInv, TypeInv, Process
<1>c. /\ committed' = committed \cup {t} /\ rewardState' = StateRows(t)
      /\ DOMAIN proc[t].cash = DOMAIN proc[t].positions
  BY CommitFacts
<1>1. ASSUME NEW r \in DOMAIN rewardState
      PROVE  r \in DOMAIN rewardState' /\ rewardState[r] \subseteq rewardState'[r]
  <2>1. r \in DOMAIN rewardState'
    BY <1>c DEF StateRows, Over
  <2>2. rewardState[r] = Outcome(r, committed) /\ rewardState'[r] = Outcome(r, committed')
    BY <2>1 DEF AggregateInv, StateInv, RewardStateComplete, Outcome
  <2> QED BY <1>c, <2>1, <2>2 DEF Outcome
<1>2. ASSUME NEW u \in User PROVE Aggregate(u)' = OfUser(t, u) /\ Covers(Aggregate(u)', Aggregate(u))
  <2>1. Aggregate(u)' = OfUser(t, u)
    BY <1>c DEF Aggregate, OfUser
  <2> QED BY <1>0, <2>1, OfUserCovers
<1>3. proc[t].positions \in Rows(User, Aggregates) /\ proc[t].cash \in Rows(User, Aggregates)
  BY <1>0 DEF Transaction
<1>4. positions' = Over(proc[t].positions, positions) /\ cash' = Over(proc[t].cash, cash)
  BY DEF Commit
<1> QED BY <1>0, <1>1, <1>2, <1>3, <1>4, <1>c, Written

LEMMA CommitGrowth ==
  ASSUME GrowthInv, AggregateInv', NEW t \in Writer, Commit(t)
  PROVE  GrowthInv'
<1>0. /\ AggregateInv /\ t \in Process /\ proc \in [Process -> Transaction]
      /\ Advances(t) /\ DOMAIN proc[t].cash = DOMAIN proc[t].positions
  BY CommitFacts DEF GrowthInv, AggregateInv, StateInv, TypeInv, Process
<1>1. /\ \A r \in DOMAIN rewardState : r \in DOMAIN rewardState' /\ rewardState[r] \subseteq rewardState'[r]
      /\ \A u \in User : Aggregate(u)' = OfUser(t, u) /\ Covers(Aggregate(u)', Aggregate(u))
      /\ \A u \in User : IF u \in DOMAIN proc[t].positions
                         THEN positions'[u] = proc[t].positions[u] /\ cash'[u] = proc[t].cash[u]
                         ELSE positions'[u] = positions[u] /\ cash'[u] = cash[u]
  BY <1>0, CommitGains
<1>2. ASSUME NEW u \in User PROVE Behind(u)'
  <2> DEFINE next == Aggregate(u)'
  <2>1. next = OfUser(t, u) /\ Covers(next, Aggregate(u))
    BY <1>1
  <2> HIDE DEF next
  <2>2. Covers(next, positions'[u]) /\ Covers(next, cash'[u])
    <3>1. CASE u \in DOMAIN proc[t].positions
      BY <1>0, <1>1, <2>1, <3>1 DEF Advances, Fits
    <3>2. CASE u \notin DOMAIN proc[t].positions
      <4>1. Covers(Aggregate(u), positions[u]) /\ Covers(Aggregate(u), cash[u])
        BY DEF GrowthInv, Behind
      <4> QED BY <1>1, <2>1, <3>2, <4>1, CoversAll
    <3> QED BY <3>1, <3>2
  <2> QED BY <2>2 DEF Behind, next, Covers
<1>3. ASSUME NEW q \in Process PROVE Advances(q)'
  <2>1. CASE q = t
    <3>1. proc'[t] = [Idle EXCEPT !.pc = "done"]
      BY <1>0 DEF Commit, Update
    <3>2. DOMAIN proc'[t].positions = {} /\ DOMAIN proc'[t].cash = {}
      BY <3>1, NoRowsType DEF Idle
    <3> QED BY <2>1, <3>2 DEF Advances, Fits
  <2>2. CASE q # t
    <3>1. proc'[q] = proc[q]
      BY <1>0, <2>2 DEF Commit, Update
    <3>2. /\ \A u \in DOMAIN proc[q].positions : u \in User /\ positions'[u] = positions[u]
          /\ \A u \in DOMAIN proc[q].cash : u \in User /\ cash'[u] = cash[u]
      BY <1>0, <1>1, <2>2, RebuiltAlone
    <3>3. ASSUME NEW u, NEW less, Covers(OfUser(q, u), less) PROVE Covers(OfUser(q, u)', less)
      <4> DEFINE now == OfUser(q, u)
                 next == OfUser(q, u)'
      <4>1. /\ \A r : r \in DOMAIN now <=>
                        Owner[r] = u /\ (r \in DOMAIN proc[q].state \/ r \in DOMAIN rewardState)
            /\ \A r \in DOMAIN now :
                 now[r] = IF r \in DOMAIN proc[q].state THEN proc[q].state[r] ELSE rewardState[r]
        BY OfUserIs
      <4>2. /\ \A r : r \in DOMAIN next <=>
                        Owner[r] = u /\ (r \in DOMAIN proc[q].state \/ r \in DOMAIN rewardState')
            /\ \A r \in DOMAIN next :
                 next[r] = IF r \in DOMAIN proc[q].state THEN proc[q].state[r] ELSE rewardState'[r]
        <5> DEFINE seen == Over(proc[q].state, rewardState')
        <5>1. /\ DOMAIN seen = DOMAIN proc[q].state \cup DOMAIN rewardState'
              /\ \A r \in DOMAIN proc[q].state : seen[r] = proc[q].state[r]
              /\ \A r \in DOMAIN rewardState' \ DOMAIN proc[q].state : seen[r] = rewardState'[r]
          BY DEF Over
        <5> HIDE DEF seen
        <5>2. next = [r \in {x \in DOMAIN seen : Owner[x] = u} |-> seen[r]]
          BY <3>1 DEF OfUser, StateRows, seen
        <5> HIDE DEF next
        <5> QED BY <5>1, <5>2
      <4> HIDE DEF now, next
      <4>3. Covers(next, now)
        BY <1>1, <4>1, <4>2 DEF Covers
      <4>4. Covers(next, less)
        BY <3>3, <4>3, CoversAll DEF now
      <4> QED BY <4>4 DEF next
    <3>4. Advances(q)
      BY DEF GrowthInv
    <3> QED BY <3>1, <3>2, <3>3, <3>4 DEF Advances, Fits, Covers
  <2> QED BY <2>1, <2>2
<1> QED BY <1>2, <1>3 DEF GrowthInv

\* A committed write that a user's rows show, they show from then on: the rows a
\* commit adds are its own, and it has rebuilt them.
LEMMA CommitServes ==
  ASSUME GrowthInv, AggregateInv', NEW t \in Writer, Commit(t), NEW u \in User, NEW S, Serves(u, S)
  PROVE  Serves(u, S)'
<1>0. /\ AggregateInv /\ StateInv /\ Advances(t) /\ S \subseteq committed /\ Progress(t) /\ t \in Process
  BY DEF GrowthInv, AggregateInv, StateInv, Serves, Process
<1>1. /\ \A r \in DOMAIN rewardState : r \in DOMAIN rewardState' /\ rewardState[r] \subseteq rewardState'[r]
      /\ IF u \in DOMAIN proc[t].positions
         THEN positions'[u] = proc[t].positions[u] /\ cash'[u] = proc[t].cash[u]
         ELSE positions'[u] = positions[u] /\ cash'[u] = cash[u]
  BY <1>0, CommitGains
<1>c. /\ committed' = committed \cup {t} /\ rewardState' = StateRows(t)
      /\ DOMAIN proc[t].state = Affected(t) /\ DOMAIN proc[t].cash = DOMAIN proc[t].positions
      /\ ~Large(t) => DOMAIN proc[t].positions = Reached(t)
  BY <1>0, CommitFacts
<1>2. ASSUME NEW r \in DOMAIN rewardState', Owner[r] = u, Outcome(r, S) # {}
      PROVE  /\ r \in DOMAIN positions'[u] /\ Outcome(r, S) \subseteq positions'[u][r]
             /\ r \in DOMAIN cash'[u] /\ Outcome(r, S) \subseteq cash'[u][r]
  <2>1. CASE r \in DOMAIN rewardState
    <3>1. /\ r \in DOMAIN positions[u] /\ Outcome(r, S) \subseteq positions[u][r]
          /\ r \in DOMAIN cash[u] /\ Outcome(r, S) \subseteq cash[u][r]
      BY <1>2, <2>1 DEF Serves, Shows
    <3>2. CASE u \in DOMAIN proc[t].positions
      <4>1. Covers(proc[t].positions[u], positions[u]) /\ Covers(proc[t].cash[u], cash[u])
        BY <1>0, <1>c, <3>2 DEF Advances, Fits
      <4> QED BY <1>1, <3>1, <3>2, <4>1 DEF Covers
    <3>3. CASE u \notin DOMAIN proc[t].positions
      BY <1>1, <3>1, <3>3
    <3> QED BY <3>2, <3>3
  <2>2. CASE r \notin DOMAIN rewardState
    <3>1. r \in DOMAIN proc[t].state
      BY <1>c, <1>2, <2>2 DEF StateRows, Over
    <3>2. Kind[t] # "event" /\ u \in Reached(t)
      BY <1>c, <1>2, <2>2, <3>1 DEF Affected, Reached
    <3>3. u \in DOMAIN proc[t].positions /\ u \in DOMAIN proc[t].cash
      BY <1>c, <3>2 DEF Large
    <3>4. /\ r \in DOMAIN proc[t].positions[u] /\ proc[t].positions[u][r] = proc[t].state[r]
          /\ r \in DOMAIN proc[t].cash[u] /\ proc[t].cash[u][r] = proc[t].state[r]
      BY <1>0, <1>2, <3>1, <3>3 DEF Advances, Fits
    <3>5. proc[t].state[r] = Outcome(r, committed \cup {t})
      BY <1>0, <3>1 DEF Progress
    <3>6. Outcome(r, S) \subseteq proc[t].state[r]
      BY <1>0, <3>5 DEF Outcome
    <3> QED BY <1>1, <3>3, <3>4, <3>6
  <2> QED BY <2>1, <2>2
<1>3. S \subseteq committed'
  BY <1>0, <1>c
<1> QED BY <1>2, <1>3 DEF Serves, Shows, Outcome

LEMMA ProcessedServes ==
  ASSUME GrowthInv, NEW w \in Worker, Processed(w), NEW u \in User, NEW S, Serves(u, S)
  PROVE  Serves(u, S)'
<1>0. /\ AggregateInv /\ w \in Process /\ Advances(w) /\ proc[w] \in Transaction
      /\ positions \in [User -> Aggregates] /\ cash \in [User -> Aggregates]
      /\ Locks(w) /\ UNCHANGED <<committed, rewardState>>
  BY DEF GrowthInv, AggregateInv, StateInv, TypeInv, Process, Processed
<1>1. DOMAIN proc[w].positions = DOMAIN proc[w].cash
  BY <1>0 DEF Locks, Processed
<1>2. IF u \in DOMAIN proc[w].positions
      THEN positions'[u] = proc[w].positions[u] /\ cash'[u] = proc[w].cash[u]
      ELSE positions'[u] = positions[u] /\ cash'[u] = cash[u]
  <2>1. proc[w].positions \in Rows(User, Aggregates) /\ proc[w].cash \in Rows(User, Aggregates)
    BY <1>0 DEF Transaction
  <2>2. positions' = Over(proc[w].positions, positions) /\ cash' = Over(proc[w].cash, cash)
    BY DEF Processed
  <2> QED BY <1>0, <1>1, <2>1, <2>2, Written
<1>3. u \in DOMAIN proc[w].positions =>
        Covers(proc[w].positions[u], positions[u]) /\ Covers(proc[w].cash[u], cash[u])
  BY <1>0, <1>1 DEF Advances, Fits
<1> QED BY <1>0, <1>2, <1>3 DEF Serves, Shows, Covers, Outcome

LEMMA SameServes ==
  ASSUME UNCHANGED <<committed, rewardState, positions, cash>>, NEW u, NEW S, Serves(u, S)
  PROVE  Serves(u, S)'
BY DEF Serves, Shows, Outcome

\* The steps, by what they write.
LEMMA GrowthStep ==
  ASSUME GrowthInv, AggregateInv', [Next]_vars
  PROVE  /\ GrowthInv'
         /\ \A u \in User : \A S : Serves(u, S) => Serves(u, S)'
<1>0. AggregateInv /\ TypeInv /\ Writer \subseteq Process /\ Worker \subseteq Process
  BY DEF GrowthInv, AggregateInv, StateInv, Process
<1>1. ASSUME NEW p \in Process, LockUser(p) \/ RebuildPositions(p) \/ RebuildCash(p)
      PROVE  GrowthInv' /\ UNCHANGED <<committed, rewardState, positions, cash>>
  <2>1. /\ \A q \in Process \ {p} : proc'[q] = proc[q]
        /\ UNCHANGED <<committed, rewardState, positions, cash>>
        /\ proc'[p].state = proc[p].state
        /\ \A v \in DOMAIN proc'[p].positions :
             \/ proc'[p].positions[v] = OfUser(p, v)
             \/ v \in DOMAIN proc[p].positions /\ proc'[p].positions[v] = proc[p].positions[v]
        /\ \A v \in DOMAIN proc'[p].cash :
             \/ proc'[p].cash[v] = OfUser(p, v)
             \/ v \in DOMAIN proc[p].cash /\ proc'[p].cash[v] = proc[p].cash[v]
    BY <1>0, <1>1, Rebuilt
  <2> QED BY <2>1, GrowthKept
<1>2. ASSUME NEW t \in Writer, WriterStep(t) \/ Abort(t), ~Commit(t)
      PROVE  GrowthInv' /\ UNCHANGED <<committed, rewardState, positions, cash>>
  <2>1. CASE LockUser(t) \/ RebuildPositions(t) \/ RebuildCash(t)
    BY <1>0, <1>1, <2>1
  <2>2. CASE \/ Begin(t) \/ EventLock(t) \/ FindRewards(t) \/ Evaluate(t) \/ Store(t) \/ Enqueue(t)
             \/ Abort(t)
    <3>1. UNCHANGED <<committed, rewardState, positions, cash>>
      BY <2>2 DEF Begin, EventLock, FindRewards, Evaluate, Store, Enqueue, Abort, rows
    <3> QED BY <1>0, <2>2, <3>1, QuietGrowth
  <2> QED BY <1>2, <2>1, <2>2 DEF WriterStep
<1>3. ASSUME NEW w \in Worker, WorkerStep(w) \/ Fail(w) \/ Crash(w), ~Processed(w)
      PROVE  GrowthInv' /\ UNCHANGED <<committed, rewardState, positions, cash>>
  <2>1. CASE LockUser(w) \/ RebuildPositions(w) \/ RebuildCash(w)
    BY <1>0, <1>1, <2>1
  <2>2. CASE (\E u \in User : Claim(w, u)) \/ Fail(w) \/ Crash(w)
    <3>1. UNCHANGED <<committed, rewardState, positions, cash>>
      BY <2>2 DEF Claim, Fail, Crash, rows
    <3> QED BY <1>0, <2>2, <3>1, QuietGrowth
  <2> QED BY <1>3, <2>1, <2>2 DEF WorkerStep
<1>4. ASSUME (\E u \in User : BackoffEnds(u)) \/ CheckStep \/ Quiet \/ UNCHANGED vars
      PROVE  GrowthInv' /\ UNCHANGED <<committed, rewardState, positions, cash>>
  <2>1. UNCHANGED <<committed, rewardState, positions, cash, proc>>
    BY <1>4 DEF BackoffEnds, CheckStep, StartCheck, SelectUsers, CheckUsers, MarkReconciled, Quiet,
                rows, tables, vars
  <2>2. None \notin Process
    BY ConstantsAssumption DEF Process
  <2>3. \A q \in Process \ {None} : proc'[q] = proc[q]
    BY <2>1
  <2> QED BY <2>1, <2>2, <2>3, GrowthKept
<1>5. ASSUME NEW t \in Writer, Commit(t) PROVE GrowthInv' /\ \A u \in User : \A S : Serves(u, S) => Serves(u, S)'
  BY <1>5, CommitGrowth, CommitServes
<1>6. ASSUME NEW w \in Worker, Processed(w) PROVE GrowthInv' /\ \A u \in User : \A S : Serves(u, S) => Serves(u, S)'
  BY <1>6, ProcessedGrowth, ProcessedServes
<1>7. ASSUME UNCHANGED <<committed, rewardState, positions, cash>>
      PROVE  \A u \in User : \A S : Serves(u, S) => Serves(u, S)'
  BY <1>7, SameServes
<1> QED BY <1>2, <1>3, <1>4, <1>5, <1>6, <1>7 DEF Next

LEMMA CheckedStep ==
  ASSUME CheckedInv, TypeInv, [Next]_vars, \A u \in User : \A S : Serves(u, S) => Serves(u, S)'
  PROVE  CheckedInv'
<1> USE DEF CheckedInv
<1>1. ASSUME UNCHANGED recon, UNCHANGED focus PROVE CheckedInv'
  <2>1. recon.pc = "mark" => \E S : S = recon.saw /\ \A u \in recon.clean : Serves(u, S)'
    BY DEF Checks
  <2>2. \A u \in User : focus[u] # None => \E S : S = focus[u].saw /\ Serves(u, S)'
    OBVIOUS
  <2> QED BY <1>1, <2>1, <2>2 DEF Serves, Shows, Outcome
<1>2. ASSUME NEW t \in Writer, Commit(t) PROVE CheckedInv'
  <2>1. /\ recon' = recon
        /\ focus' = [u \in User |-> IF Kind[t] = "event" /\ u \in FanOut(t, proc[t].state)
                                    THEN [by |-> t, open |-> TRUE, saw |-> {}] ELSE focus[u]]
    BY <1>2 DEF Commit, Touched
  <2>2. [by |-> t, open |-> TRUE, saw |-> {}] \in FocusRows
    BY DEF FocusRows
  <2>3. focus' \in [User -> FocusRows \cup {None}]
    BY <2>1, <2>2
  <2>4. ASSUME NEW u \in User, focus'[u] # None PROVE Serves(u, focus[u].saw)'
    <3>1. CASE focus'[u] = focus[u]
      <4>1. \E S : S = focus[u].saw /\ Serves(u, S)'
        BY <2>4, <3>1
      <4> QED BY <3>1, <4>1 DEF Serves, Shows, Outcome
    <3>2. CASE focus'[u].saw = {}
      BY <3>2 DEF Serves, Shows, Outcome
    <3> QED BY <2>1, <3>1, <3>2
  <2>5. recon.pc = "mark" => \E S : S = recon.saw /\ \A u \in recon.clean : Serves(u, S)'
    BY DEF Checks
  <2>6. recon' \in Checks /\ (recon.pc = "mark" => \A u \in recon.clean : Serves(u, recon.saw))'
    BY <2>1, <2>5 DEF Serves, Shows, Outcome
  <2> QED BY <2>3, <2>4, <2>6
<1>3. ASSUME StartCheck \/ SelectUsers PROVE CheckedInv'
  <2>1. focus' = focus /\ recon' \in Checks /\ recon'.pc # "mark"
    <3>1. CASE StartCheck
      <4> DEFINE now == {t \in Writer : proc[t].pc # "idle"}
      <4>1. focus' = focus /\ recon' = [recon EXCEPT !.pc = "select", !.runs = @ + 1, !.begun = now]
        BY <3>1 DEF StartCheck
      <4>2. now \in SUBSET Writer /\ recon.runs + 1 \in Nat
        BY DEF Checks
      <4> HIDE DEF now
      <4> QED BY <4>1, <4>2 DEF Checks
    <3>2. CASE SelectUsers
      BY <3>2 DEF SelectUsers, Checks
    <3> QED BY <1>3, <3>1, <3>2
  <2>2. \A u \in User : focus[u] # None => \E S : S = focus[u].saw /\ Serves(u, S)'
    OBVIOUS
  <2> QED BY <2>1, <2>2 DEF Serves, Shows, Outcome
<1>4. ASSUME CheckUsers PROVE CheckedInv'
  <2>1. /\ recon' = [recon EXCEPT !.pc = "mark", !.clean = {u \in recon.users : ~Drifted(u)},
                                  !.saw = committed]
        /\ focus' = focus /\ UNCHANGED <<committed, rewardState, positions, cash>>
    BY <1>4 DEF CheckUsers, rows
  <2>2. /\ recon' \in Checks /\ recon'.clean = {u \in recon.users : ~Drifted(u)}
        /\ recon'.saw = committed
    BY <2>1 DEF Checks, TypeInv
  <2>3. ASSUME NEW u \in User, ~Drifted(u) PROVE Serves(u, committed)
    <3> DEFINE truth == [r \in {x \in DOMAIN rewardState : Owner[x] = u} |-> Outcome(r, committed)]
    <3>1. positions[u] = truth /\ cash[u] = truth
      BY <2>3 DEF Drifted
    <3> QED BY <3>1 DEF Serves, Shows
  <2>4. \A u \in recon'.clean : u \in User /\ \E S : S = committed /\ Serves(u, S)'
    BY <2>2, <2>3 DEF Checks
  <2>5. \A u \in recon'.clean : Serves(u, recon.saw)'
    BY <2>1, <2>2, <2>4 DEF Serves, Shows, Outcome
  <2>6. \A u \in User : focus[u] # None => \E S : S = focus[u].saw /\ Serves(u, S)'
    OBVIOUS
  <2> QED BY <2>1, <2>2, <2>5, <2>6 DEF Serves, Shows, Outcome
<1>5. ASSUME MarkReconciled PROVE CheckedInv'
  <2> DEFINE marked(u) == [focus[u] EXCEPT !.open = StillOpen(focus[u].by), !.saw = recon.saw]
  <2>1. /\ focus' = [u \in User |-> IF u \in recon.clean /\ focus[u] # None THEN marked(u) ELSE focus[u]]
        /\ recon' = [NoCheck EXCEPT !.runs = recon.runs] /\ recon.pc = "mark"
    BY <1>5 DEF MarkReconciled
  <2>2. recon' \in Checks /\ recon'.pc = "idle"
    BY <2>1 DEF NoCheck, Checks
  <2>3. ASSUME NEW u \in User, focus[u] # None PROVE marked(u) \in FocusRows /\ marked(u).saw = recon.saw
    <3>1. focus[u] \in FocusRows /\ StillOpen(focus[u].by) \in BOOLEAN /\ recon.saw \in SUBSET Writer
      BY <2>3 DEF StillOpen, Checks
    <3> QED BY <3>1 DEF FocusRows
  <2> HIDE DEF marked
  <2>4. focus' \in [User -> FocusRows \cup {None}]
    BY <2>1, <2>3
  <2>5. ASSUME NEW u \in User, focus'[u] # None PROVE Serves(u, focus[u].saw)'
    <3>1. CASE u \in recon.clean /\ focus[u] # None
      <4>1. focus'[u].saw = recon.saw /\ \E S : S = recon.saw /\ Serves(u, S)'
        BY <2>1, <2>3, <3>1
      <4> QED BY <4>1 DEF Serves, Shows, Outcome
    <3>2. CASE ~(u \in recon.clean /\ focus[u] # None)
      <4>1. focus'[u] = focus[u] /\ \E S : S = focus[u].saw /\ Serves(u, S)'
        BY <2>1, <2>5, <3>2
      <4> QED BY <4>1 DEF Serves, Shows, Outcome
    <3> QED BY <3>1, <3>2
  <2> QED BY <2>2, <2>4, <2>5
<1>6. CASE ~(\E t \in Writer : Commit(t)) /\ ~CheckStep
  <2>1. UNCHANGED recon /\ UNCHANGED focus
    BY <1>6 DEF Next, WriterStep, WorkerStep, Begin, EventLock, FindRewards, Evaluate, Store,
         LockUser, RebuildPositions, RebuildCash, Enqueue, Abort, Claim, Processed, Fail, Crash,
         BackoffEnds, Quiet, tables, vars, check
  <2> QED BY <1>1, <2>1
<1> QED BY <1>2, <1>3, <1>4, <1>5, <1>6 DEF CheckStep

\* What a reconciliation has found right is served from then on: every write its
\* check had read stays in the user's reward_state, position and cash rows, with
\* transactions under way at the check, with workers that fail or crash, for any
\* number of users, writers and workers, in a behaviour in which no event overlaps
\* another write of its rewards and no enqueue meets a pending row
\* (run_projection_reconciliation, refresh_user_projections).
THEOREM CheckedHolds == Spec /\ []NoOverlap /\ []NoCoalescing => []CheckedStays
<1> DEFINE IInv == GrowthInv /\ CheckedInv
<1>1. Init => IInv
  <2> SUFFICES ASSUME Init PROVE IInv
    OBVIOUS
  <2>1. AggregateInv
    BY InitialAggregates
  <2>2. \A p \in Process : Advances(p)
    BY NoRowsType DEF Init, Idle, Advances, Fits
  <2>3. ASSUME NEW u \in User PROVE Behind(u)
    <3>1. positions[u] = Aggregate(u) /\ cash[u] = Aggregate(u)
      BY DEF Init, Aggregate, FirstRows
    <3> QED BY <3>1, CoversItself DEF Behind
  <2>4. CheckedInv
    BY DEF Init, CheckedInv, NoCheck, Checks
  <2> QED BY <2>1, <2>2, <2>3, <2>4 DEF GrowthInv
<1>2. IInv /\ NoOverlap' /\ NoCoalescing /\ [Next]_vars => IInv'
  <2> SUFFICES ASSUME IInv, NoOverlap', NoCoalescing, [Next]_vars PROVE IInv'
    OBVIOUS
  <2>1. AggregateInv'
    BY AggregateStep DEF GrowthInv
  <2>2. GrowthInv' /\ \A u \in User : \A S : Serves(u, S) => Serves(u, S)'
    BY <2>1, GrowthStep
  <2>3. CheckedInv'
    BY <2>2, CheckedStep DEF GrowthInv, AggregateInv, StateInv
  <2> QED BY <2>2, <2>3
<1>3. IInv => CheckedStays
  <2> SUFFICES ASSUME IInv, NEW u \in User, focus[u] # None, NEW r \in DOMAIN rewardState,
                      Owner[r] = u, Outcome(r, focus[u].saw) # {}
               PROVE  \A table \in {rewardState, positions[u], cash[u]} :
                        r \in DOMAIN table /\ Outcome(r, focus[u].saw) \subseteq table[r]
    BY DEF CheckedStays
  <2>1. Serves(u, focus[u].saw)
    BY DEF CheckedInv
  <2>2. rewardState[r] = Outcome(r, committed)
    BY DEF GrowthInv, AggregateInv, StateInv, RewardStateComplete
  <2> QED BY <2>1, <2>2 DEF Serves, Shows, Outcome
<1> QED BY <1>1, <1>2, <1>3, PTL DEF Spec
=============================================================================
