----------------------------- MODULE Projections -----------------------------
(***************************************************************************)
(* The maintained read projections (migrations 0026 and 0028): one         *)
(* reward_state row per reward, the portfolio_position and                 *)
(* user_cash_position rows aggregated from them per user, the refresh      *)
(* queue, its workers, and reconciliation.                                 *)
(*                                                                         *)
(* The writers are the transactions whose triggers refresh projections: a  *)
(* reward granted, a reward adjusted, a stock event recorded.  What a      *)
(* lifecycle replay computes for a reward is abstracted to the set of      *)
(* writes its snapshot saw, so a projection is right exactly when no write *)
(* is missing from it.                                                     *)
(*                                                                         *)
(* Transactions run at READ COMMITTED: every statement, also inside a      *)
(* trigger, reads what is committed when it starts and its transaction's   *)
(* own writes.  One action is one statement; a statement that reads and    *)
(* then waits for a row lock is two.                                       *)
(***************************************************************************)
EXTENDS Integers, FiniteSets, FiniteSetsExt

CONSTANTS User, Reward,    \* integers: the triggers lock in ascending order
          Owner,           \* Reward -> User
          Writer, Kind,    \* Kind[t]: "grant", "adjust" or "event"
          Writes,          \* Writes[t]: the rewards whose outcome t changes
          Worker,          \* queue workers (one per process with the worker role)
          Workload,        \* what may go on: which writers and workers there are,
                           \* PROJECTION_SYNC_USER_LIMIT, and how often the
                           \* reconciliation runs over a behaviour
          MaxAttempts,     \* PROJECTION_QUEUE_MAX_ATTEMPTS
          MaxCrashes,      \* worker transactions lost half-way, over a behaviour
          Fragile,         \* the writers that may roll back
          None             \* no process, no row

\* Ids are generated: they are positive, and a reward is granted once.
ASSUME ConstantsAssumption ==
  /\ User \subseteq Nat /\ Reward \subseteq Nat /\ Owner \in [Reward -> User]
  /\ Kind \in [Writer -> {"grant", "adjust", "event"}]
  /\ Writes \in [Writer -> SUBSET Reward]
  /\ \A t \in Writer : Kind[t] # "event" => \E r \in Reward : Writes[t] = {r}
  /\ \A t, o \in Writer : Kind[t] = "grant" /\ Kind[o] = "grant" /\ t # o
                            => Writes[t] # Writes[o]
  /\ Workload \subseteq [writers: SUBSET Writer, workers: SUBSET Worker, syncLimit: Nat, checks: Nat]
  /\ MaxCrashes \in Nat /\ MaxAttempts \in Nat \ {0}
  /\ Fragile \subseteq Writer /\ Writer \cap Worker = {} /\ None \notin Writer \cup Worker

VARIABLES load,         \* the workload of this behaviour; it never changes
          committed,    \* the writers that committed
          rewardState,  \* committed reward_state rows: reward -> writes replayed
          positions,    \* committed portfolio_position rows of each user
          cash,         \* committed user_cash_position row of each user
          queue,        \* the pending row of each user, or None
          dead,         \* users with a dead letter
          focus,        \* projection_reconciliation_focus
          proc,         \* the transactions under way
          userLock,     \* holder of pg_advisory_xact_lock(user)
          recon,        \* the reconciliation transaction
          crashes

tables == <<committed, rewardState, positions, cash, queue, dead, focus, proc, userLock,
            recon, crashes>>
vars   == <<load, tables>>

rows  == <<committed, rewardState, positions, cash>>
queueVars == <<queue, dead, crashes>>
check == <<focus, recon>>

Process == Writer \cup Worker

-----------------------------------------------------------------------------
NoRows == [r \in {} |-> {}]

\* What is stored once rows are written over those of the table.
Over(new, table) ==
  [k \in DOMAIN new \cup DOMAIN table |-> IF k \in DOMAIN new THEN new[k] ELSE table[k]]

\* The rows with that of k.
WithRow(k, row, table) == Over([x \in {k} |-> row], table)

Idle == [pc |-> "idle", rewards |-> {}, users |-> {}, seen |-> {},
         state |-> NoRows, positions |-> NoRows, cash |-> NoRows, enqueued |-> {}]

QueueRows == [attempts: 0..(MaxAttempts - 1), ready: BOOLEAN]
ASSUME NoneIsNoRow == None \notin QueueRows

\* "saw" is history: the writes the last check that found this user's rows right
\* had read.
FocusRows == [by: Writer, open: BOOLEAN, saw: SUBSET Writer]

\* Rewards exist from the start unless a writer grants them.
Exists(r, seen) == \A t \in Writer : Kind[t] = "grant" /\ r \in Writes[t] => t \in seen

\* reward_corporate_action_outcome_base: the reward replayed over the writes a
\* statement sees.
Outcome(r, seen) == {t \in seen : r \in Writes[t]}

TypeOK ==
  /\ load \in Workload
  /\ committed \subseteq Writer
  /\ DOMAIN rewardState = {r \in Reward : Exists(r, committed)}
  /\ \A r \in DOMAIN rewardState : rewardState[r] \subseteq committed
  /\ \A u \in User : \A p \in {positions[u], cash[u]} :
        \A r \in DOMAIN p : Owner[r] = u /\ p[r] \subseteq committed
  /\ queue \in [User -> QueueRows \cup {None}]
  /\ dead \subseteq User
  /\ focus \in [User -> FocusRows \cup {None}]
  /\ \A p \in Process :
        /\ proc[p].pc \in {"idle", "begun", "find", "evaluate", "store", "lock", "positions",
                           "cash", "enqueue", "commit", "done"}
        /\ proc[p].rewards \subseteq Reward /\ proc[p].users \subseteq User
        /\ proc[p].seen \subseteq committed \cup {p}
        /\ proc[p].enqueued \subseteq User
  /\ userLock \in [User -> Process \cup {None}]
  /\ recon.pc \in {"idle", "select", "check", "mark"}
  /\ crashes \in 0..MaxCrashes

-----------------------------------------------------------------------------
(* What a statement of process p reads *)

Seen(p) == committed \cup (IF p \in Writer THEN {p} ELSE {})
StateRows(p) == Over(proc[p].state, rewardState)

\* SELECT ... FROM reward_state WHERE user_id = u, as refresh_user_projections
\* aggregates it.
OfUser(p, u) ==
  LET visible == StateRows(p)
  IN [r \in {x \in DOMAIN visible : Owner[x] = u} |-> visible[r]]

InTransaction(t) == proc[t].pc \notin {"idle", "done"}
Update(p, new) == proc' = [proc EXCEPT ![p] = new]
Unlocked(p) == [u \in User |-> IF userLock[u] = p THEN None ELSE userLock[u]]

-----------------------------------------------------------------------------
(* The writers *)

\* The adjustment handler has the rewards row FOR UPDATE: two adjustments of a
\* reward never overlap.
RewardFree(t) == \A o \in Writer \ {t} :
                    ~(Kind[o] = "adjust" /\ InTransaction(o) /\ Writes[o] = Writes[t])

\* The write itself, for grants and adjustments with what precedes its trigger;
\* NOW() of the transaction is fixed here.
Begin(t) ==
  /\ t \in load.writers /\ proc[t].pc = "idle"
  /\ CASE Kind[t] = "event"  -> Update(t, [proc[t] EXCEPT !.pc = "begun"])
       [] Kind[t] = "grant"  -> Update(t, [proc[t] EXCEPT !.pc = "evaluate", !.rewards = Writes[t]])
       [] Kind[t] = "adjust" ->
            /\ Writes[t] \subseteq DOMAIN rewardState /\ RewardFree(t)
            /\ Update(t, [proc[t] EXCEPT !.pc = "evaluate", !.rewards = Writes[t]])
  /\ UNCHANGED <<rows, queueVars, check, userLock>>

\* Mutant: process_corporate_action_cash without its advisory lock.
EventAloneNever(t) == TRUE

\* No other event is past process_corporate_action_cash.
EventAlone(t) == \A o \in Writer \ {t} : ~(Kind[o] = "event" /\ InTransaction(o) /\ proc[o].pc # "begun")

\* process_corporate_action_cash takes pg_advisory_xact_lock(810201710) first
\* and keeps it to the end of the transaction.
EventLock(t) ==
  /\ proc[t].pc = "begun" /\ EventAlone(t)
  /\ Update(t, [proc[t] EXCEPT !.pc = "find"])
  /\ UNCHANGED <<rows, queueVars, check, userLock>>

\* affected_reward_ids_for_symbols reads reward_state, not rewards.
FindRewards(t) ==
  /\ proc[t].pc = "find"
  /\ LET affected == Writes[t] \cap DOMAIN rewardState
     IN Update(t, [proc[t] EXCEPT !.rewards = affected,
                                  !.pc = IF affected = {} THEN "commit" ELSE "evaluate"])
  /\ UNCHANGED <<rows, queueVars, check, userLock>>

\* refresh_reward_state, the SELECT: the outcome as of the statement's snapshot.
Evaluate(t) ==
  /\ proc[t].pc = "evaluate"
  /\ Update(t, [proc[t] EXCEPT !.pc = "store", !.seen = Outcome(Min(proc[t].rewards), Seen(t))])
  /\ UNCHANGED <<rows, queueVars, check, userLock>>

\* The users of the rows t refreshed; a large set goes to the queue.
FanOut(t, state) == {Owner[r] : r \in DOMAIN state}

AfterRewards(t, users) ==
  IF Kind[t] = "event" /\ Cardinality(users) > load.syncLimit THEN "enqueue" ELSE "lock"

\* refresh_reward_state, the INSERT ... ON CONFLICT DO UPDATE: it waits for the
\* row, then stores what the SELECT computed before.
Store(t) ==
  /\ proc[t].pc = "store"
  /\ LET r     == Min(proc[t].rewards)
         rest  == proc[t].rewards \ {r}
         state == WithRow(r, proc[t].seen, proc[t].state)
         users == IF rest = {} THEN FanOut(t, state) ELSE {}
     IN /\ \A o \in Writer \ {t} : r \notin DOMAIN proc[o].state
        /\ Update(t, [proc[t] EXCEPT !.rewards = rest, !.state = state, !.users = users,
                                     !.seen = {},
                                     !.pc = IF rest # {} THEN "evaluate" ELSE AfterRewards(t, users)])
  /\ UNCHANGED <<rows, queueVars, check, userLock>>

-----------------------------------------------------------------------------
(* refresh_user_projections, inside a writer's trigger or a worker *)

\* Mutant: the aggregates are rebuilt without the user's advisory lock.
UserFreeAlways(p, u) == TRUE

UserFree(p, u) == userLock[u] \in {None, p}

LockUser(p) ==
  /\ proc[p].pc = "lock"
  /\ LET u == Min(proc[p].users)
     IN /\ UserFree(p, u)
        /\ userLock' = [userLock EXCEPT ![u] = p]
  /\ Update(p, [proc[p] EXCEPT !.pc = "positions"])
  /\ UNCHANGED <<rows, queueVars, check>>

RebuildPositions(p) ==
  /\ proc[p].pc = "positions"
  /\ LET u == Min(proc[p].users)
     IN Update(p, [proc[p] EXCEPT !.pc = "cash", !.positions = WithRow(u, OfUser(p, u), @)])
  /\ UNCHANGED <<rows, queueVars, check, userLock>>

RebuildCash(p) ==
  /\ proc[p].pc = "cash"
  /\ LET u    == Min(proc[p].users)
         rest == proc[p].users \ {u}
     IN Update(p, [proc[p] EXCEPT !.pc = IF rest = {} THEN "commit" ELSE "lock",
                                  !.users = rest, !.cash = WithRow(u, OfUser(p, u), @)])
  /\ UNCHANGED <<rows, queueVars, check, userLock>>

\* Mutant: the enqueue inserts nothing.
NotPendingNone(users) == {}

\* INSERT ... ON CONFLICT DO NOTHING: a pending row is left as it is, also one a
\* worker has claimed (a row lock is no conflict).
NotPending(users) == {u \in users : queue[u] = None}

\* projection_enqueue_users
Enqueue(t) ==
  /\ proc[t].pc = "enqueue"
  /\ Update(t, [proc[t] EXCEPT !.pc = "commit", !.enqueued = NotPending(proc[t].users), !.users = {}])
  /\ UNCHANGED <<rows, queueVars, check, userLock>>

\* projection_touch_reconciliation_users for an event, reached by both branches:
\* touched_at is when the transaction began.
Touched(t) ==
  [u \in User |-> IF Kind[t] = "event" /\ u \in FanOut(t, proc[t].state)
                  THEN [by |-> t, open |-> TRUE, saw |-> {}] ELSE focus[u]]

NewRow == [attempts |-> 0, ready |-> TRUE]

Commit(t) ==
  /\ proc[t].pc = "commit"
  /\ committed' = committed \cup {t}
  /\ rewardState' = Over(proc[t].state, rewardState)
  /\ positions' = Over(proc[t].positions, positions)
  /\ cash' = Over(proc[t].cash, cash)
  /\ queue' = [u \in User |-> IF u \in proc[t].enqueued THEN NewRow ELSE queue[u]]
  /\ focus' = Touched(t)
  /\ Update(t, [Idle EXCEPT !.pc = "done"])
  /\ userLock' = Unlocked(t)
  /\ UNCHANGED <<dead, recon, crashes>>

\* An error, a timeout or a lost client: nothing of the transaction stays.
Abort(t) ==
  /\ t \in Fragile /\ InTransaction(t)
  /\ Update(t, [Idle EXCEPT !.pc = "done"])
  /\ userLock' = Unlocked(t)
  /\ UNCHANGED <<rows, queueVars, check>>

-----------------------------------------------------------------------------
(* process_projection_refresh_queue: one claimed row per transaction *)

Claimed(u) == \E w \in Worker : proc[w].enqueued = {u}

\* FOR UPDATE SKIP LOCKED; which of several ready rows comes first is left open.
Claim(w, u) ==
  /\ w \in load.workers /\ proc[w].pc = "idle" /\ queue[u] # None
  /\ queue[u].ready /\ ~Claimed(u)
  /\ Update(w, [proc[w] EXCEPT !.pc = "lock", !.users = {u}, !.enqueued = {u}])
  /\ UNCHANGED <<rows, queueVars, check, userLock>>

\* The refresh, the UPDATE of processed_at and the commit.
Processed(w) ==
  /\ proc[w].pc = "commit"
  /\ positions' = Over(proc[w].positions, positions)
  /\ cash' = Over(proc[w].cash, cash)
  /\ queue' = [u \in User |-> IF u \in proc[w].enqueued THEN None ELSE queue[u]]
  /\ Update(w, Idle)
  /\ userLock' = Unlocked(w)
  /\ UNCHANGED <<committed, rewardState, dead, check, crashes>>

DeadLetters(u) == dead \cup {u}

Exhausted(attempts) == attempts >= MaxAttempts

\* refresh_user_projections raised: its writes and its lock are rolled back, and
\* the row is put off or, at the last attempt, becomes a dead letter.
Fail(w) ==
  /\ proc[w].pc \in {"lock", "positions", "cash"}
  /\ \E u \in proc[w].enqueued :
        LET attempts == queue[u].attempts + 1
        IN IF Exhausted(attempts)
           THEN /\ queue' = [queue EXCEPT ![u] = None]
                /\ dead' = DeadLetters(u)
           ELSE /\ queue' = [queue EXCEPT ![u] = [attempts |-> attempts, ready |-> FALSE]]
                /\ UNCHANGED dead
  /\ Update(w, Idle)
  /\ userLock' = Unlocked(w)
  /\ UNCHANGED <<rows, check, crashes>>

BackoffEnds(u) ==
  /\ queue[u] # None
  /\ ~queue[u].ready
  /\ queue' = [queue EXCEPT ![u].ready = TRUE]
  /\ UNCHANGED <<rows, dead, check, proc, userLock, crashes>>

\* The worker's timeout (query_canceled is not caught), a restart, or a lost
\* connection: the row is pending again, its attempts as before.
Crash(w) ==
  /\ proc[w].pc # "idle" /\ crashes < MaxCrashes
  /\ crashes' = crashes + 1
  /\ Update(w, Idle)
  /\ userLock' = Unlocked(w)
  /\ UNCHANGED <<rows, queue, dead, check>>

-----------------------------------------------------------------------------
(* run_projection_reconciliation, under its advisory lock *)

NoCheck == [pc |-> "idle", runs |-> 0, begun |-> {}, users |-> {}, clean |-> {}, saw |-> {}]

\* reconciled_at IS NULL OR reconciled_at < touched_at
InFocus(u) == focus[u] # None /\ focus[u].open

\* Mutant: the rows aggregated for the user are not compared.
DriftedState(u) ==
  \E r \in DOMAIN rewardState : Owner[r] = u /\ rewardState[r] # Outcome(r, committed)

Drifted(u) ==
  LET truth == [r \in {x \in DOMAIN rewardState : Owner[x] = u} |-> Outcome(r, committed)]
      held  == [r \in {x \in DOMAIN rewardState : Owner[x] = u} |-> rewardState[r]]
  IN {truth} # {held, positions[u], cash[u]}

StartCheck ==
  /\ recon.pc = "idle" /\ recon.runs < load.checks
  /\ recon' = [recon EXCEPT !.pc = "select", !.runs = @ + 1,
                            !.begun = {t \in Writer : proc[t].pc # "idle"}]
  /\ UNCHANGED <<rows, queueVars, focus, proc, userLock>>

\* projection_reconciliation_users: the focus and a random sample.
SelectUsers ==
  /\ recon.pc = "select"
  /\ \E sample \in SUBSET User :
        recon' = [recon EXCEPT !.pc = "check", !.users = sample \cup {u \in User : InFocus(u)}]
  /\ UNCHANGED <<rows, queueVars, focus, proc, userLock>>

\* projection_mismatches_for_users
CheckUsers ==
  /\ recon.pc = "check"
  /\ recon' = [recon EXCEPT !.pc = "mark", !.clean = {u \in recon.users : ~Drifted(u)}, !.saw = committed]
  /\ UNCHANGED <<rows, queueVars, focus, proc, userLock>>

\* reconciled_at becomes the check's NOW(), touched_at is the toucher's.
StillOpen(t) == t \notin recon.begun

MarkReconciled ==
  /\ recon.pc = "mark"
  /\ focus' = [u \in User |->
                 IF u \in recon.clean /\ focus[u] # None
                 THEN [focus[u] EXCEPT !.open = StillOpen(focus[u].by), !.saw = recon.saw]
                 ELSE focus[u]]
  /\ recon' = [NoCheck EXCEPT !.runs = recon.runs]
  /\ UNCHANGED <<rows, queueVars, proc, userLock>>

-----------------------------------------------------------------------------
FirstRows == [r \in {x \in Reward : Exists(x, {})} |-> {}]

Init ==
  /\ load \in Workload
  /\ committed = {} /\ rewardState = FirstRows
  /\ positions = [u \in User |-> [r \in {x \in DOMAIN FirstRows : Owner[x] = u} |-> {}]]
  /\ cash = positions
  /\ queue = [u \in User |-> None] /\ dead = {} /\ crashes = 0
  /\ focus = [u \in User |-> None]
  /\ proc = [p \in Process |-> Idle]
  /\ userLock = [u \in User |-> None]
  /\ recon = NoCheck

WriterStep(t) ==
  \/ Begin(t) \/ EventLock(t) \/ FindRewards(t) \/ Evaluate(t) \/ Store(t)
  \/ LockUser(t) \/ RebuildPositions(t) \/ RebuildCash(t) \/ Enqueue(t) \/ Commit(t)

WorkerStep(w) ==
  \/ \E u \in User : Claim(w, u)
  \/ LockUser(w) \/ RebuildPositions(w) \/ RebuildCash(w) \/ Processed(w)

CheckStep == StartCheck \/ SelectUsers \/ CheckUsers \/ MarkReconciled

\* Nothing left to do; every other state without a successor is a deadlock.
Quiet ==
  /\ \A t \in load.writers : proc[t].pc = "done"
  /\ \A w \in Worker : proc[w].pc = "idle"
  /\ load.workers # {} => \A u \in User : queue[u] = None
  /\ recon.pc = "idle"
  /\ UNCHANGED tables

Next ==
  /\ UNCHANGED load
  /\ \/ \E t \in Writer : WriterStep(t) \/ Abort(t)
     \/ \E w \in Worker : WorkerStep(w) \/ Fail(w) \/ Crash(w)
     \/ \E u \in User : BackoffEnds(u)
     \/ CheckStep
     \/ Quiet

Spec == Init /\ [][Next]_vars

\* Handlers run to their end and the worker's ticker calls process() for ever;
\* failures and crashes need not happen.
LiveSpec ==
  /\ Spec
  /\ \A t \in Writer : WF_tables(WriterStep(t))
  /\ \A w \in Worker : WF_tables(WorkerStep(w))
  /\ \A u \in User : WF_tables(BackoffEnds(u))

-----------------------------------------------------------------------------
(* Properties *)

\* A committed reward_state row has replayed every committed write that changes
\* its reward, whatever order the triggers' statements and commits took
\* (refresh_reward_state).
RewardStateComplete ==
  \A r \in DOMAIN rewardState : rewardState[r] = Outcome(r, committed)

\* The rows aggregated for a user: what RewardStateComplete makes right.
Aggregate(u) == [r \in {x \in DOMAIN rewardState : Owner[x] = u} |-> rewardState[r]]

\* A user's aggregates agree with the user's reward_state rows, and with each
\* other, unless a pending row or a dead letter says they may not
\* (refresh_user_projections under its lock, the queue's coalescing).
StaleIsQueued ==
  \A u \in User :
    \/ {positions[u], cash[u]} = {Aggregate(u)}
    \/ queue[u] # None
    \/ u \in dead

\* What a reconciliation has found right stays served: every write its check had
\* read is in the user's reward_state, position and cash rows from then on, also
\* after transactions that were under way at the check and after rows that were
\* marked later than they were compared.
CheckedStays ==
  \A u \in User : focus[u] # None =>
    \A r \in DOMAIN rewardState : Owner[r] = u =>
      \A table \in {rewardState, positions[u], cash[u]} :
        Outcome(r, focus[u].saw) # {} =>
          r \in DOMAIN table /\ Outcome(r, focus[u].saw) \subseteq table[r]

\* Every user touched by an event is checked after it: reconciliation retires a
\* touched user only after reading the touching event.
TouchedIsChecked ==
  \A u \in User : (focus[u] # None /\ ~focus[u].open) => focus[u].by \in focus[u].saw

\* Fan-out ends: the aggregates of every user come to agree with reward_state for
\* good, or the user has a dead letter (retries, backoff, lost workers).
FanOutEnds == <>[](\A u \in User : u \in dead \/ {positions[u], cash[u]} = {Aggregate(u)})
=============================================================================
