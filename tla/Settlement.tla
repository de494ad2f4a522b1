------------------------------ MODULE Settlement ------------------------------
(***************************************************************************)
(* Corporate actions on one reward (migrations 0022 and 0023): what the    *)
(* recorded splits, bonuses, mergers and delistings and the reward's       *)
(* adjustments make of it as of a date, and the adjustment handler, which  *)
(* keeps a second balance, rewards.quantity, in units of the reward date.  *)
(*                                                                         *)
(* A quantity is an integer number of the smallest unit stored, Scale of   *)
(* them to a share, and all divisions round as the columns and functions   *)
(* do.  Actions are recorded by an operator at any time, for any date.     *)
(***************************************************************************)
EXTENDS Integers, Sequences, SequencesExt

CONSTANTS Symbol,
          Action,         \* the stock_events an operator may record
          Lot,            \* the reward: [symbol, quantity], granted on day 0
          Adjuster,       \* requests that may adjust the reward at the same time
          Delta,          \* quantities by which an adjustment changes the reward
          Scale,          \* units to a share: 10^6
          FactorScale,    \* instrument_quantity_factor rounds to it: 10^12
          DivisionScale,  \* NUMERIC division rounds to at least it: 10^16
          MaxDay, MaxAdjustments,
          Tolerance,      \* rounding, in units, that the two balances may differ by
          None

VARIABLES today,
          recorded,       \* stock_events
          adjustments,    \* the reward's adjustments in order of their ids
          quantity,       \* rewards.quantity
          tx,             \* the adjusters' transactions
          late,           \* history: an action was recorded for a date up to which
                          \* an adjustment had already counted
          disordered      \* history: an adjustment committed after one of a later date

vars == <<today, recorded, adjustments, quantity, tx, late, disordered>>

Day == 0..MaxDay

\* The CHECK constraints of stock_events.
ASSUME ActionsWellFormed ==
  /\ Lot.symbol \in Symbol /\ Lot.quantity \in Nat
  /\ {Scale, FactorScale, DivisionScale} \subseteq Nat \ {0} /\ Delta \subseteq Int \ {0}
  /\ \A e \in Action :
       /\ e.kind \in {"split", "bonus", "merge", "delist"} /\ e.symbol \in Symbol /\ e.date \in Day
       /\ e.num > 0 /\ e.den > 0 /\ e.cash >= 0
       /\ e.kind = "split" => e.num # e.den
       /\ e.kind = "bonus" => e.num > e.den
       /\ IF e.kind = "merge" THEN e.to \in Symbol \ {e.symbol} ELSE e.to = None
       /\ e.inLieu > 0 => e.kind # "delist"    \* price of a fraction, 0: retain

-----------------------------------------------------------------------------
(* NUMERIC arithmetic *)

\* ROUND, and the implicit rounding of a column: half away from zero.
Round(n, d) == IF n >= 0 THEN (2 * n + d) \div (2 * d) ELSE -((d - 2 * n) \div (2 * d))

\* A quantity times ratio_num / ratio_den: the quotient is rounded first.
Converted(q, e) == Round(q * Round(e.num * DivisionScale, e.den), DivisionScale)

Whole(q, e) == (Converted(q, e) \div Scale) * Scale

-----------------------------------------------------------------------------
(* instrument_chain: the instruments the reward goes through *)

\* Mutant: a merger is followed although its date has not come.
FollowedEarly(events, link, asOf) ==
  {e \in events : e.kind = "merge" /\ e.symbol = link.symbol /\ link.entry < e.date}

Followed(events, link, asOf) ==
  {e \in events : e.kind = "merge" /\ e.symbol = link.symbol /\ link.entry < e.date /\ e.date <= asOf}

Link(events, symbol, entry, asOf) ==
  [symbol |-> symbol, entry |-> entry, out |-> Followed(events, [symbol |-> symbol, entry |-> entry], asOf)]

\* From the reward's own instrument on: at most one successor per instrument
\* and no cycle, see Valid.
Chain(events, asOf) ==
  FoldLeft(LAMBDA c, n : IF Last(c).out = {} THEN c
                         ELSE LET e == CHOOSE e \in Last(c).out : TRUE
                              IN Append(c, Link(events, e.to, e.date, asOf)),
           <<Link(events, Lot.symbol, 0, asOf)>>, [n \in 1..Cardinality(Symbol) |-> n])

Links(events, asOf) == ToSet(Chain(events, asOf))

Exit(link, asOf) == IF link.out = {} THEN asOf ELSE (CHOOSE e \in link.out : TRUE).date

\* Mutant: an action counts on the very day its instrument was entered.
HeldFromEntry(e, link, asOf) == e.symbol = link.symbol /\ link.entry <= e.date /\ e.date <= Exit(link, asOf)

\* An action counts after the day of entry and up to the day of exit.
Held(e, link, asOf) == e.symbol = link.symbol /\ link.entry < e.date /\ e.date <= Exit(link, asOf)

Applied(events, asOf) ==
  UNION {link.out \cup {e \in events : e.kind \in {"split", "bonus"} /\ Held(e, link, asOf)} :
           link \in Links(events, asOf)}

Terminal(events, asOf) == Last(Chain(events, asOf)).symbol

Delisting(events, asOf) ==
  {e \in events : e.kind = "delist" /\ e.symbol = Terminal(events, asOf) /\ e.date <= asOf}

-----------------------------------------------------------------------------
(* reward_action_settlements: the replay *)

Rank == [split |-> 1, bonus |-> 2, merge |-> 3, adjustment |-> 4]

Entry(e) == [date |-> e.date, rank |-> Rank[e.kind], id |-> 0, of |-> e]
Row(changes, i) == [date |-> changes[i].date, rank |-> Rank["adjustment"], id |-> i, of |-> changes[i]]

Entries(events, changes, asOf) ==
  {Entry(e) : e \in Applied(events, asOf)}
    \cup {Row(changes, i) : i \in {j \in DOMAIN changes : changes[j].date <= asOf}}

\* ORDER BY action_date, action_order, action_id; the actions' own ids never
\* decide, see OrderIrrelevant.
Before(a, b) == \/ a.date < b.date
                \/ a.date = b.date /\ a.rank < b.rank
                \/ a.date = b.date /\ a.rank = b.rank /\ a.id < b.id

Ordered(rows) ==
  FoldSet(LAMBDA a, s : LET earlier(b) == Before(b, a)
                            later(b)   == ~Before(b, a)
                        IN Append(SelectSeq(s, earlier), a) \o SelectSeq(s, later),
          <<>>, rows)

Adjusted(s, delta) ==
  LET q == s.quantity + delta
  IN [s EXCEPT !.quantity = IF q < 0 THEN 0 ELSE q, !.clamped = @ \/ q < 0]

\* Cash in lieu pays the fraction of a share the action leaves; a merger's
\* own consideration is paid on the units before it.
Settled(s, e) ==
  LET kept    == IF e.inLieu > 0 THEN Whole(s.quantity, e) ELSE Converted(s.quantity, e)
      removed == Converted(s.quantity, e) - kept
  IN [s EXCEPT !.quantity = kept,
               !.fraction = Converted(s.fraction, e) + removed,
               !.cash = @ + Round(removed * e.inLieu, Scale)
                          + (IF e.kind = "merge" THEN Round(s.quantity * e.cash, Scale) ELSE 0)]

Start == [quantity |-> Lot.quantity, fraction |-> 0, cash |-> 0, clamped |-> FALSE]

Replay(events, changes, asOf) ==
  FoldLeft(LAMBDA s, a : IF a.rank = Rank["adjustment"] THEN Adjusted(s, a.of.delta) ELSE Settled(s, a.of),
           Start, Ordered(Entries(events, changes, asOf)))

\* reward_corporate_action_outcome: a delisting of the instrument held last
\* closes the position, for cash or for nothing.
Outcome(events, changes, asOf) ==
  LET now  == Replay(events, changes, asOf)
      exit == Delisting(events, asOf)
      left == IF exit = {} THEN 0 ELSE Replay(events, changes, (CHOOSE e \in exit : TRUE).date).quantity
      paid == IF exit = {} THEN 0 ELSE (CHOOSE e \in exit : TRUE).cash
  IN [symbol |-> Terminal(events, asOf),
      quantity |-> IF exit = {} THEN now.quantity ELSE 0,
      cash |-> now.cash + Round(left * paid, Scale),
      writtenOff |-> IF paid = 0 THEN left ELSE 0]

-----------------------------------------------------------------------------
(* stock_events: an operator records an action *)

\* The instruments a merger into s would lead on to.
Leads(s) ==
  FoldLeft(LAMBDA reach, n : reach \cup {e.to : e \in {m \in recorded : m.kind = "merge" /\ m.symbol \in reach}},
           {s}, [n \in 1..Cardinality(Symbol) |-> n])

\* The unique indexes and validate_stock_event.
Valid(e) ==
  /\ \A o \in recorded : ~(o.symbol = e.symbol /\ o.kind = e.kind
                             /\ (o.date = e.date \/ e.kind \in {"merge", "delist"}))
  /\ e.kind = "merge" =>
       /\ \A o \in recorded : ~(o.kind = "delist" /\ o.symbol \in {e.symbol, e.to} /\ o.date <= e.date)
       /\ e.symbol \notin Leads(e.to)
  /\ e.kind = "delist" =>
       \A o \in recorded : ~(o.kind = "merge" /\ e.symbol \in {o.symbol, o.to} /\ o.date >= e.date)

Record(e) ==
  /\ e \in Action \ recorded /\ Valid(e)
  /\ recorded' = recorded \cup {e}
  /\ late' = (\/ late
              \/ \E i \in DOMAIN adjustments : e.date <= adjustments[i].date
              \/ \E a \in Adjuster : tx[a].pc \in {"waits", "locked"} /\ e.date <= tx[a].date)
  /\ UNCHANGED <<today, adjustments, quantity, tx, disordered>>

-----------------------------------------------------------------------------
(* adjustmentHandler *)

\* stock_action_factor, as the ratios it multiplies.
Actions(events, symbol, asOf) ==
  {e \in events : e.kind \in {"split", "bonus"} /\ e.symbol = symbol /\ e.date <= asOf}

Product(ratios) ==
  FoldSet(LAMBDA e, p : [num |-> p.num * e.num, den |-> p.den * e.den], [num |-> 1, den |-> 1], ratios)

\* instrument_quantity_factor: per instrument the ratio of the merger that led
\* to it and the actions up to the exit over those up to the entry.
Factor(events, asOf) ==
  LET chain  == Links(events, asOf)
      held   == UNION {Actions(events, link.symbol, Exit(link, asOf)) \cup link.out : link \in chain}
      before == UNION {Actions(events, link.symbol, link.entry) : link \in chain}
  IN Round(Product(held).num * Product(before).den * FactorScale,
           Product(held).den * Product(before).num)

\* normalization_factor, 1 / instrument_quantity_factor
Normalization(events, asOf) == Round(FactorScale * DivisionScale, Factor(events, asOf))

Idle == [pc |-> "idle", date |-> 0, quantity |-> 0, normalization |-> 0]

\* BEGIN fixes market_today().
BeginAdjust(a) ==
  /\ tx[a].pc = "idle"
  /\ Len(adjustments) + Cardinality({b \in Adjuster : tx[b].pc # "idle"}) < MaxAdjustments
  /\ tx' = [tx EXCEPT ![a] = [Idle EXCEPT !.pc = "begun", !.date = today]]
  /\ UNCHANGED <<today, recorded, adjustments, quantity, late, disordered>>

\* SELECT ... FOR UPDATE computes the factor on the snapshot it starts with ...
SelectReward(a) ==
  /\ tx[a].pc = "begun"
  /\ tx' = [tx EXCEPT ![a].pc = "waits", ![a].normalization = Normalization(recorded, tx[a].date)]
  /\ UNCHANGED <<today, recorded, adjustments, quantity, late, disordered>>

\* ... and reads the balance as it is when the row is free.
LockReward(a) ==
  /\ tx[a].pc = "waits" /\ \A b \in Adjuster : tx[b].pc # "locked"
  /\ tx' = [tx EXCEPT ![a].pc = "locked", ![a].quantity = quantity]
  /\ UNCHANGED <<today, recorded, adjustments, quantity, late, disordered>>

\* In reward-date units, not yet rounded: DivisionScale to a unit.
NewQuantity(a, delta) == tx[a].quantity * DivisionScale + delta * tx[a].normalization

\* Mutant: only the stored balance is checked.
EnoughStored(a, delta) == NewQuantity(a, delta) >= 0

\* The settled balance is read by the next statement.
Enough(a, delta) ==
  /\ NewQuantity(a, delta) >= 0
  /\ Replay(recorded, adjustments, tx[a].date).quantity + delta >= 0

Adjust(a, delta) ==
  /\ tx[a].pc = "locked" /\ Enough(a, delta)
  /\ adjustments' = Append(adjustments, [delta |-> delta, date |-> tx[a].date])
  /\ quantity' = Round(NewQuantity(a, delta), DivisionScale)
  /\ tx' = [tx EXCEPT ![a] = Idle]
  /\ disordered' = (disordered \/ \E i \in DOMAIN adjustments : tx[a].date < adjustments[i].date)
  /\ UNCHANGED <<today, recorded, late>>

\* Refused with 400, or rolled back: a statement fails or the time limit expires.
Refuse(a) ==
  /\ tx[a].pc # "idle" /\ tx' = [tx EXCEPT ![a] = Idle]
  /\ UNCHANGED <<today, recorded, adjustments, quantity, late, disordered>>

NextDay == today < MaxDay /\ today' = today + 1
           /\ UNCHANGED <<recorded, adjustments, quantity, tx, late, disordered>>

-----------------------------------------------------------------------------
Init ==
  /\ today = 0 /\ recorded = {} /\ adjustments = <<>>
  /\ quantity = Lot.quantity /\ tx = [a \in Adjuster |-> Idle]
  /\ late = FALSE /\ disordered = FALSE

Next ==
  \/ \E e \in Action : Record(e)
  \/ \E a \in Adjuster : \/ BeginAdjust(a) \/ SelectReward(a) \/ LockReward(a) \/ Refuse(a)
                         \/ \E delta \in Delta : Adjust(a, delta)
  \/ NextDay

Spec == Init /\ [][Next]_vars
-----------------------------------------------------------------------------
(* Properties *)

\* What a reward is as of a day is settled by what is dated up to that day:
\* an action announced for a later one, whatever it merges, splits or closes,
\* and a later adjustment change no figure of the past.
\* (instrument_chain and reward_action_settlements, their bounds on p_as_of.)
PastStands ==
  \A d \in Day :
    LET known == {e \in recorded : e.date <= d}
        made  == SelectSeq(adjustments, LAMBDA a : a.date <= d)
    IN Outcome(known, made, d) = Outcome(recorded, adjustments, d)

\* No two actions of a reward fall on the same date with the same rank, so
\* the ids that would order them, and with them the order in which operators
\* recorded them, never matter to the rounding or the cash.
\* (reward_action_settlements, ORDER BY action_date, action_order, action_id.)
OrderIrrelevant ==
  \A d \in Day : \A e, f \in Applied(recorded, d) : e # f => Entry(e) # [Entry(f) EXCEPT !.of = e]

Magnitude(n) == IF n < 0 THEN -n ELSE n

\* The two balances of a reward agree from today on: rewards.quantity, which
\* the handler keeps in units of the reward date, taken through every ratio,
\* is the settled quantity with the fractions that were paid out, up to
\* Tolerance units of rounding, unless a replay is cut at zero; and none is,
\* unless an adjustment committed after one of a later date.  Either holds as
\* long as no action was recorded for a date up to which an adjustment had
\* already counted.
\* (adjustmentHandler: normalization_factor, newQty and settledQty.)
BooksAgree ==
  ~late => \A d \in today..MaxDay :
             LET settled == Replay(recorded, adjustments, d)
                 kept    == Round(quantity * Factor(recorded, d), FactorScale)
             IN /\ ~disordered => ~settled.clamped
                /\ ~settled.clamped => Magnitude(kept - settled.quantity - settled.fraction) <= Tolerance

\* What the handler's check is for, and does not reach: an adjustment that
\* waited for the row over midnight is checked as of the date it began on.
NothingIsCut ==
  ~late => \A d \in today..MaxDay : ~Replay(recorded, adjustments, d).clamped
=============================================================================
