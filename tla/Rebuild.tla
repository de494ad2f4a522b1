------------------------------- MODULE Rebuild -------------------------------
(***************************************************************************)
(* cmd/rebuild-projections: the one-off backfill (--online) and the repair *)
(* (--offline) of the read projections, against the live transactions      *)
(* whose triggers maintain the same rows, and migration 0027, which        *)
(* switches the reads to the projections.                                  *)
(*                                                                         *)
(* As in Projections, what a lifecycle replay computes for a reward is the *)
(* set of writes its snapshot saw.  A position row is keyed by user and    *)
(* terminal symbol, because ON CONFLICT DO NOTHING is decided per key.  A  *)
(* statement of the command that reads and then waits for rows is two      *)
(* actions; a writer's refresh of a reward is one (Projections has it      *)
(* apart).  A wait holds nothing here: what a deadlock or a lock timeout   *)
(* does to its victim is Abort or Crash.                                   *)
(***************************************************************************)
EXTENDS Integers, FiniteSets, FiniteSetsExt

CONSTANTS User, Reward,      \* integers, the ids the batches walk
          Symbol,
          Owner, Origin,     \* of each reward: its user, its symbol at the grant
          Successor,         \* Symbol -> Symbol, or None: an event delists it
          Future,            \* rewards dated after market_today()
          Writer, Kind, On,  \* "grant"/"adjust" on a reward, "event" on a symbol
          Before,            \* the writers that committed before migration 0026
          Command, Mode,     \* Mode[c]: "online" or "offline"
          BatchSize, UserBatch,
          MaxRuns,           \* starts of each command
          Drifts,            \* the wrong projections a repair may find
          None

ASSUME ConstantsAssumption ==
  /\ User \subseteq Nat \ {0} /\ Reward \subseteq Nat \ {0}
  /\ IsFiniteSet(User) /\ IsFiniteSet(Reward)
  /\ Owner \in [Reward -> User] /\ Origin \in [Reward -> Symbol]
  /\ Successor \in [Symbol -> Symbol \cup {None}] /\ None \notin Symbol
  /\ Future \subseteq Reward /\ Before \subseteq Writer
  /\ Kind \in [Writer -> {"grant", "adjust", "event"}]
  /\ \A t \in Writer : On[t] \in IF Kind[t] = "event" THEN Symbol ELSE Reward
  \* A reward is granted once.
  /\ \A t, o \in Writer : Kind[t] = "grant" /\ Kind[o] = "grant" /\ On[t] = On[o] => t = o
  \* No chains: an event never concerns a symbol another event leads to.
  /\ \A t, o \in Writer : Kind[t] = "event" /\ Kind[o] = "event" => On[t] # Successor[On[o]]
  /\ Mode \in [Command -> {"online", "offline"}]
  /\ {BatchSize, UserBatch} \subseteq Nat \ {0} /\ MaxRuns \in Nat
  \* reward_id references rewards: a row without its reward cannot be.
  /\ Drifts \subseteq [known : SUBSET Reward, old : SUBSET Reward]
  /\ \A d \in Drifts, t \in Writer : Kind[t] = "grant" /\ On[t] \in d.known => t \in Before

VARIABLES committed,    \* the writers that committed
          rewardState,  \* committed reward_state rows: reward -> writes replayed
          positions,    \* committed portfolio_position rows: <<user, symbol>> -> rewards
          cash,         \* committed user_cash_position rows: user -> rewards
          factors,      \* instrument_factor: symbol -> events in its factor
          proc,         \* the writers' transactions
          job,          \* the commands
          switched,     \* migration 0027 has been applied
          drift         \* history: rows may be wrong from before, not yet repaired

rebuildVars == <<committed, rewardState, positions, cash, factors, proc, job, switched, drift>>

rows == <<committed, rewardState, positions, cash, factors>>
rollout == <<switched, drift>>

-----------------------------------------------------------------------------
NoRows == [k \in {} |-> {}]

\* The rows of old, with those of new written over them.
Over(new, old) ==
  [k \in DOMAIN new \cup DOMAIN old |-> IF k \in DOMAIN new THEN new[k] ELSE old[k]]

Exists(r, seen) == \A t \in Writer : Kind[t] = "grant" /\ On[t] = r => t \in seen

\* The writes that change the outcome of reward r.
Affects(t, r) == IF Kind[t] = "event" THEN On[t] = Origin[r] ELSE On[t] = r

\* reward_corporate_action_outcome_base over the rewards of a batch: no row for
\* a reward dated in the future.
Outcomes(batch, seen) ==
  [r \in {x \in batch \ Future : Exists(x, seen)} |-> {t \in seen : Affects(t, r)}]

\* The terminal symbol of a replay, None when it ends delisted (is_active).
Terminal(r, replay) ==
  IF \E t \in replay : Kind[t] = "event" THEN Successor[Origin[r]] ELSE Origin[r]

IsActive(r, state) == Terminal(r, state[r]) # None

Key(r, state) == <<Owner[r], Terminal(r, state[r])>>

OwnedBy(users, state) == {r \in DOMAIN state : Owner[r] \in users}

\* SELECT ... FROM reward_state WHERE is_active GROUP BY user_id, terminal_symbol
PositionsOf(users, state) ==
  LET active == {r \in OwnedBy(users, state) : IsActive(r, state)}
  IN [k \in {Key(r, state) : r \in active} |-> [r \in {x \in active : Key(x, state) = k} |-> state[r]]]

\* SELECT ... FROM reward_state GROUP BY user_id
CashOf(users, state) ==
  LET owned == OwnedBy(users, state)
  IN [u \in {Owner[r] : r \in owned} |-> [r \in {x \in owned : Owner[x] = u} |-> state[r]]]

FactorOf(s, seen) == {t \in seen : Kind[t] = "event" /\ On[t] = s}

Without(f, keys) == [k \in DOMAIN f \ keys |-> f[k]]
KeysOf(users, f) == {k \in DOMAIN f : k[1] \in users}

-----------------------------------------------------------------------------
(* The writers: a base-table write and its triggers, in one transaction *)

Waiting == [pc |-> "idle", todo |-> {}, users |-> {}, held |-> {}, deleted |-> {},
            state |-> NoRows, positions |-> NoRows, cash |-> NoRows]

InTransaction(t) == proc[t].pc \notin {"idle", "done"}

Rebuilding(c) == job[c].pc \notin {"off", "done"}

\* "run with writes quiesced": the operator's part of --offline.
Quiesced == \A c \in Command : Mode[c] = "offline" => ~Rebuilding(c)

UpdateProc(t, new) == proc' = [proc EXCEPT ![t] = new]
UpdateJob(c, new) == job' = [job EXCEPT ![c] = new]

\* The event trigger resolves the rewards from reward_state, not from rewards.
Begin(t) ==
  /\ proc[t].pc = "idle" /\ Quiesced
  /\ IF Kind[t] = "event"
     THEN UpdateProc(t, [proc[t] EXCEPT !.pc = "refresh",
                                        !.todo = {r \in DOMAIN rewardState : Affects(t, r)}])
     ELSE /\ Kind[t] = "grant" \/ Exists(On[t], committed)
          /\ UpdateProc(t, [proc[t] EXCEPT !.pc = "refresh", !.todo = {On[t]}])
  /\ UNCHANGED <<rows, job, rollout>>

\* refresh_reward_state for every reward, in the same statement order as its
\* loop; it waits for a row another transaction has written.
RefreshRewards(t) ==
  /\ proc[t].pc = "refresh"
  /\ \A o \in Writer \ {t} : proc[t].todo \cap DOMAIN proc[o].state = {}
  /\ LET state == Outcomes(proc[t].todo, committed \cup {t})
         users == {Owner[r] : r \in proc[t].todo}
     IN UpdateProc(t, [proc[t] EXCEPT !.pc = IF users = {} THEN "commit" ELSE "delete",
                                      !.state = state, !.users = users, !.todo = {}])
  /\ UNCHANGED <<rows, job, rollout>>

\* refresh_user_projections, the advisory lock and the DELETEs: they remove the
\* rows that are committed by now.
DeleteUser(t) ==
  /\ proc[t].pc = "delete"
  /\ LET u == Min(proc[t].users)
     IN /\ \A o \in Writer \ {t} : u \notin proc[o].held
        /\ UpdateProc(t, [proc[t] EXCEPT !.pc = "insert", !.held = @ \cup {u},
                                         !.deleted = @ \cup KeysOf({u}, positions)])
  /\ UNCHANGED <<rows, job, rollout>>

Uncommitted(c) == DOMAIN job[c].positions
Collides(t, new) == DOMAIN new \cap (DOMAIN positions \ proc[t].deleted) # {}

\* The plain INSERTs: they wait for an uncommitted row of the same key, and fail
\* (23505) on a committed one they have not deleted.
InsertUser(t) ==
  /\ proc[t].pc = "insert"
  /\ LET u     == Min(proc[t].users)
         state == Over(proc[t].state, rewardState)
         new   == PositionsOf({u}, state)
         rest  == proc[t].users \ {u}
     IN /\ \A c \in Command : Uncommitted(c) \cap DOMAIN new = {}
        /\ IF Collides(t, new)
           THEN UpdateProc(t, [Waiting EXCEPT !.pc = "done"])
           ELSE UpdateProc(t, [proc[t] EXCEPT !.pc = IF rest = {} THEN "commit" ELSE "delete",
                                              !.users = rest, !.positions = Over(new, @),
                                              !.cash = Over(CashOf({u}, state), @)])
  /\ UNCHANGED <<rows, job, rollout>>

Commit(t) ==
  /\ proc[t].pc = "commit"
  /\ committed' = committed \cup {t}
  /\ rewardState' = Over(proc[t].state, rewardState)
  /\ positions' = Over(proc[t].positions, Without(positions, proc[t].deleted))
  /\ cash' = Over(proc[t].cash, Without(cash, proc[t].held))
  /\ factors' = IF Kind[t] = "event"
                THEN Over([s \in {On[t]} |-> FactorOf(s, committed')], factors) ELSE factors
  /\ UpdateProc(t, [Waiting EXCEPT !.pc = "done"])
  /\ UNCHANGED <<job, rollout>>

Abort(t) ==
  /\ InTransaction(t)
  /\ UpdateProc(t, [Waiting EXCEPT !.pc = "done"])
  /\ UNCHANGED <<rows, job, rollout>>

-----------------------------------------------------------------------------
(* The command *)

NoJob == [pc |-> "off", runs |-> 0, lo |-> 1, top |-> 0,
          state |-> NoRows, positions |-> NoRows, cash |-> NoRows]

\* Mutant: the command does not take its advisory lock.
LockedNever(c) == FALSE

\* pg_try_advisory_lock(rebuildLockID) fails: another rebuild is running.
Locked(c) == \E o \in Command \ {c} : Rebuilding(o)

\* openDB, the lock and the start marks; a second rebuild ends here.
Start(c) ==
  /\ job[c].pc = "off" /\ job[c].runs < MaxRuns
  /\ Mode[c] = "offline" => \A t \in Writer : ~InTransaction(t)
  /\ UpdateJob(c, [job[c] EXCEPT !.pc = IF Locked(c) THEN "off" ELSE "factors", !.runs = @ + 1])
  /\ UNCHANGED <<rows, proc, rollout>>

\* Mutant: the online rebuild overwrites the rows it finds.
MergeOver(c, old, new) == Over(new, old)

\* ON CONFLICT DO NOTHING online, DO UPDATE offline.
Merge(c, old, new) == IF Mode[c] = "online" THEN Over(old, new) ELSE Over(new, old)

\* backfill_instrument_factors, or refresh_instrument_factors offline: the
\* snapshot, then the rows.
ReadFactors(c) ==
  /\ job[c].pc = "factors"
  /\ UpdateJob(c, [job[c] EXCEPT !.pc = "writeFactors",
                                 !.state = [s \in Symbol |-> FactorOf(s, committed)]])
  /\ UNCHANGED <<rows, proc, rollout>>

WriteFactors(c) ==
  /\ job[c].pc = "writeFactors"
  /\ factors' = Merge(c, factors, job[c].state)
  /\ UpdateJob(c, [job[c] EXCEPT !.pc = "maxReward", !.state = NoRows])
  /\ UNCHANGED <<committed, rewardState, positions, cash, proc, rollout>>

\* maxID: SELECT COALESCE(MAX(id), 0)
MaxID(ids) == IF ids = {} THEN 0 ELSE Max(ids)

\* The next batch of a loop over ids, or what follows the loop.
Loop(c, lo, top, again, after) ==
  IF lo <= top THEN [NoJob EXCEPT !.pc = again, !.runs = job[c].runs, !.lo = lo, !.top = top]
  ELSE [NoJob EXCEPT !.pc = after, !.runs = job[c].runs]

StartRewards(c) ==
  /\ job[c].pc = "maxReward"
  /\ UpdateJob(c, Loop(c, 1, MaxID({r \in Reward : Exists(r, committed)}), "readRewards", "maxUser"))
  /\ UNCHANGED <<rows, proc, rollout>>

RewardBatch(c) == {r \in Reward : job[c].lo <= r /\ r < job[c].lo + BatchSize}
UserBatchOf(c) == {u \in User : job[c].lo <= u /\ u < job[c].lo + UserBatch}

\* rebuildRewardState: INSERT ... SELECT, its snapshot.
ReadRewards(c) ==
  /\ job[c].pc = "readRewards"
  /\ UpdateJob(c, [job[c] EXCEPT !.pc = "writeRewards", !.state = Outcomes(RewardBatch(c), committed)])
  /\ UNCHANGED <<rows, proc, rollout>>

\* The deletes of the repair.
Stale(c, keys) == IF Mode[c] = "offline" THEN keys ELSE {}

\* Its rows, the delete of the future ones, and the commit of the batch.
WriteRewards(c) ==
  /\ job[c].pc = "writeRewards"
  /\ \A t \in Writer : DOMAIN proc[t].state \cap DOMAIN job[c].state = {}
  /\ rewardState' = Without(Merge(c, rewardState, job[c].state),
                            Stale(c, RewardBatch(c) \cap Future))
  /\ UpdateJob(c, Loop(c, job[c].lo + BatchSize, job[c].top, "readRewards", "maxUser"))
  /\ UNCHANGED <<committed, positions, cash, factors, proc, rollout>>

StartUsers(c) ==
  /\ job[c].pc = "maxUser"
  /\ UpdateJob(c, Loop(c, 1, MaxID(User), "readPositions", "finish"))
  /\ UNCHANGED <<rows, proc, rollout>>

\* rebuildUserAggregates, the portfolio INSERT ... SELECT: its snapshot.
ReadPositions(c) ==
  /\ job[c].pc = "readPositions"
  /\ UpdateJob(c, [job[c] EXCEPT !.pc = "writePositions", !.state = PositionsOf(UserBatchOf(c), rewardState)])
  /\ UNCHANGED <<rows, proc, rollout>>

\* Its rows, not yet committed: those the conflict clause lets it write.
WritePositions(c) ==
  /\ job[c].pc = "writePositions"
  /\ LET keys == DOMAIN job[c].state
     IN /\ \A t \in Writer : (DOMAIN proc[t].positions \cup proc[t].deleted) \cap keys = {}
        /\ UpdateJob(c, [job[c] EXCEPT !.pc = "readCash", !.state = NoRows,
                                       !.positions = Without(job[c].state,
                                         {k \in keys : Merge(c, positions, job[c].state)[k] # job[c].state[k]})])
  /\ UNCHANGED <<rows, proc, rollout>>

ReadCash(c) ==
  /\ job[c].pc = "readCash"
  /\ UpdateJob(c, [job[c] EXCEPT !.pc = "writeCash", !.cash = CashOf(UserBatchOf(c), rewardState)])
  /\ UNCHANGED <<rows, proc, rollout>>

\* The cash rows, the deletes of the repair, and the commit of the batch.
WriteCash(c) ==
  /\ job[c].pc = "writeCash"
  /\ \A t \in Writer : DOMAIN proc[t].cash \cap DOMAIN job[c].cash = {}
  /\ LET users == UserBatchOf(c)
         held  == PositionsOf(users, rewardState)
         owed  == CashOf(users, rewardState)
     IN /\ positions' = Without(Over(job[c].positions, positions),
                                Stale(c, KeysOf(users, positions) \ DOMAIN held))
        /\ cash' = Without(Merge(c, cash, job[c].cash), Stale(c, users \ DOMAIN owed))
  /\ UpdateJob(c, Loop(c, job[c].lo + UserBatch, job[c].top, "readPositions", "finish"))
  /\ UNCHANGED <<committed, rewardState, factors, proc, rollout>>

\* VACUUM and the finish marks.
Finish(c) ==
  /\ job[c].pc = "finish"
  /\ UpdateJob(c, [job[c] EXCEPT !.pc = "done"])
  /\ drift' = (drift /\ Mode[c] = "online")
  /\ UNCHANGED <<rows, proc, switched>>

\* Any error ends the process, as a crash does: the batch under way is rolled
\* back and the lock goes with its connection.  A rerun starts from the first id.
Crash(c) ==
  /\ Rebuilding(c)
  /\ UpdateJob(c, [NoJob EXCEPT !.runs = job[c].runs])
  /\ UNCHANGED <<rows, proc, rollout>>

-----------------------------------------------------------------------------
Current == {r \in Reward \ Future : Exists(r, committed)}

\* Mutant: the gate of migration 0027 lets an empty projection pass.
GateOpenAlways == TRUE

\* Migration 0027 compares two counts.
GateOpen == Cardinality(DOMAIN rewardState) >= Cardinality(Current)

Switch ==
  /\ ~switched /\ GateOpen
  /\ switched' = TRUE
  /\ UNCHANGED <<rows, proc, job, drift>>

\* Right after 0026, which fills the factors of the symbols there are: empty
\* tables.  Or long after the rollout, with rows that
\* went wrong: replays that missed writes, rows lost, rows of a future reward.
RebuildInit ==
  /\ committed = Before
  /\ factors = [s \in {Origin[r] : r \in {x \in Reward : Exists(x, Before)}} |-> FactorOf(s, Before)]
  /\ proc = [t \in Writer |-> [Waiting EXCEPT !.pc = IF t \in Before THEN "done" ELSE "idle"]]
  /\ job = [c \in Command |-> NoJob]
  /\ \/ /\ rewardState = NoRows /\ positions = NoRows /\ cash = NoRows
        /\ switched = FALSE /\ drift = FALSE
     \/ /\ \E d \in Drifts :
             LET now   == Outcomes(Reward, Before)
                 wrong == [r \in d.old |-> {}]
             IN /\ rewardState = [r \in d.known |-> IF r \in d.old \cup Future THEN {} ELSE now[r]]
                /\ positions = PositionsOf(User, wrong) /\ cash = CashOf(User, wrong)
        /\ switched = TRUE /\ drift = TRUE

WriterStep(t) == Begin(t) \/ RefreshRewards(t) \/ DeleteUser(t) \/ InsertUser(t) \/ Commit(t)

JobStep(c) ==
  \/ ReadFactors(c) \/ WriteFactors(c) \/ StartRewards(c) \/ ReadRewards(c) \/ WriteRewards(c)
  \/ StartUsers(c) \/ ReadPositions(c) \/ WritePositions(c) \/ ReadCash(c) \/ WriteCash(c)
  \/ Finish(c)

RebuildNext ==
  \/ \E t \in Writer : WriterStep(t) \/ Abort(t)
  \/ \E c \in Command : Start(c) \/ JobStep(c) \/ Crash(c)
  \/ Switch

RebuildSpec == RebuildInit /\ [][RebuildNext]_rebuildVars

-----------------------------------------------------------------------------
(* Properties *)

RebuildTypeOK ==
  /\ committed \subseteq Writer
  /\ \A r \in DOMAIN rewardState : r \in Reward /\ rewardState[r] \subseteq committed
  /\ DOMAIN positions \subseteq User \X Symbol /\ DOMAIN cash \subseteq User
  /\ DOMAIN factors \subseteq Symbol
  /\ {switched, drift} \subseteq BOOLEAN
  /\ \A t \in Writer : proc[t].users \subseteq User /\ proc[t].held \subseteq User
  /\ \A c \in Command : job[c].runs \in 0..MaxRuns /\ job[c].lo \in Nat

Truth == Outcomes(Reward, committed)

AllRight ==
  /\ rewardState = Truth
  /\ positions = PositionsOf(User, Truth)
  /\ cash = CashOf(User, Truth)

\* A backfill that overlaps live traffic loses no grant and no adjustment: a
\* reward_state row has replayed them all, whichever of the trigger and the
\* command wrote it first (ON CONFLICT DO NOTHING against DO UPDATE).
LiveWritesStand ==
  drift \/ \A r \in DOMAIN rewardState :
             {t \in committed : Affects(t, r) /\ Kind[t] # "event"} \subseteq rewardState[r]

\* Once 0027 has switched the reads, no current reward is without its row, even
\* if the backfill was cut short or never run (the rollout gate).
SwitchedIsComplete == switched /\ ~drift => Current \subseteq DOMAIN rewardState

\* An offline rebuild that ends has repaired every projection, whatever the rows
\* were and however often it was cut short before (--offline "repair every row").
RepairIsComplete ==
  [][\A c \in Command : Mode[c] = "offline" /\ job[c].pc # "done" /\ job'[c].pc = "done"
        => AllRight']_rebuildVars

\* "--online fill missing rows only; safe while the API is live": when a backfill
\* has ended and no transaction is under way, the projections are right.
OnlineIsSafe ==
  (/\ ~drift
   /\ \E c \in Command : Mode[c] = "online" /\ job[c].pc = "done"
   /\ \A t \in Writer : ~InTransaction(t)) => AllRight
=============================================================================
