--------------------------- MODULE PriceStoreProofs ---------------------------
(* The stored prices are best ones, for every set of quotes, calendar and    *)
(* number of concurrent savers.  The argument: a row is only ever replaced   *)
(* by a better one (lemmas), and what a transaction decided about a row is    *)
(* still true when it commits, because it holds the row (Decided).            *)
(*                                                                           *)
(* The jobs that write prices report no loss, for every listing, pool, file   *)
(* and range of dates.  The argument: no write of any of them makes a row     *)
(* worse (Improves), so what a job has booked stays booked until it ends and  *)
(* after it (AttemptInv, ImportInv); and the symbols of a cycle are in the    *)
(* channel, with a worker or counted (Books).                                 *)
EXTENDS PriceStore, PriceWriters, DataFacts, TLAPS

-----------------------------------------------------------------------------
(* Precedence *)

\* A source has a number for a rank (market_data_source_rank).
LEMMA RankType == ASSUME NEW x \in Source PROVE Rank(x) \in Int
  BY DEF Rank, Source, Provider, Official, Unsourced

\* A quote is a row with a provider's source.
LEMMA QuoteIsRow == ASSUME NEW q \in Quote PROVE q \in Row /\ q.source \notin Unsourced /\ q # None
  BY QuoteAssumption, NoneAssumption DEF Row, Source, Provider, Official, Unsourced

\* Later quotes have later or equal dates.
LEMMA DatesOrdered ==
  ASSUME NEW q \in Row, NEW r \in Row
  PROVE  /\ q.at \in Int /\ Date(q) \in Int /\ Date(q) \in Dates /\ Rank(q.source) \in Int
         /\ q.at <= r.at => Date(q) <= Date(r)
  <1>1. q.at \in Instant /\ r.at \in Instant /\ q.source \in Source
    BY DEF Row
  <1>2. QED BY <1>1, DateAssumption, RankType DEF Date, Dates

\* A quote is at least as good as itself.
LEMMA BestReflexive == ASSUME NEW q \in Quote PROVE AtLeastAsGood(q, q)
  <1>1. q \in Row /\ q.source \notin Unsourced
    BY QuoteIsRow
  <1>2. ~Newer(q, q)
    BY <1>1, DatesOrdered DEF Newer
  <1>3. QED BY <1>1, <1>2 DEF AtLeastAsGood, SameDate

\* Newer is a strict weak order: the new row beats what the old one beat.
LEMMA NewerWeak ==
  ASSUME NEW q \in Row, NEW r \in Row, NEW x \in Row, Newer(q, r), ~Newer(x, r)
  PROVE  ~Newer(x, q) /\ r.at <= q.at
  <1>1. q.at \in Int /\ r.at \in Int /\ x.at \in Int
    BY DatesOrdered
  <1>2. Rank(q.source) \in Int /\ Rank(r.source) \in Int /\ Rank(x.source) \in Int
    BY DatesOrdered
  <1>3. QED BY <1>1, <1>2 DEF Newer

\* A quote that takes the current row is at least as good as whatever the row
\* was at least as good as (upsertCurrentPriceSQL).
LEMMA TakenCurrentIsBetter ==
  ASSUME NEW q \in Quote, NEW r \in Row, NEW x \in Quote,
         TakesCurrent(q, r), AtLeastAsGood(r, x)
  PROVE  AtLeastAsGood(q, x)
  <1>1. q \in Row /\ x \in Row /\ q.source \notin Unsourced
    BY QuoteIsRow
  <1>2. Date(q) \in Int /\ Date(r) \in Int /\ Date(x) \in Int /\ q.at \in Int /\ r.at \in Int
    BY <1>1, DatesOrdered
  <1>3. r.at <= q.at => Date(r) <= Date(q)
    BY <1>1, DatesOrdered
  <1>4. Newer(q, r) => r.at <= q.at
    BY <1>2 DEF Newer
  <1>5. Newer(q, r) /\ ~Newer(x, r) => ~Newer(x, q)
    BY <1>1, NewerWeak
  <1>6. CASE IsOfficial(q) /\ SameDate(q, r)
    BY <1>1, <1>2, <1>6 DEF AtLeastAsGood, SameDate
  <1>7. CASE Newer(q, r) /\ ~(IsOfficial(q) /\ SameDate(q, r))
    BY <1>1, <1>2, <1>3, <1>4, <1>5, <1>7 DEF AtLeastAsGood, TakesCurrent, SameDate
  <1>8. QED BY <1>6, <1>7 DEF TakesCurrent, AtLeastAsGood

\* A current row that a quote does not take is at least as good as the quote.
LEMMA KeptCurrentIsBetter ==
  ASSUME NEW q \in Quote, NEW r \in Row, ~TakesCurrent(q, r)
  PROVE  AtLeastAsGood(r, q)
  <1>1. q \in Row
    BY QuoteIsRow
  <1>2. Date(q) \in Int /\ Date(r) \in Int /\ q.at \in Int /\ r.at \in Int
    BY <1>1, DatesOrdered
  <1>3. q.at <= r.at => Date(q) <= Date(r)
    BY <1>1, DatesOrdered
  <1>4. ~Newer(q, r) => q.at <= r.at
    BY <1>2 DEF Newer
  <1>5. IsOfficial(r) => r.source \notin Unsourced
    BY DEF IsOfficial, Official, Unsourced
  <1>6. QED BY <1>2, <1>3, <1>4, <1>5 DEF TakesCurrent, AtLeastAsGood, SameDate

\* The same of a history row and a quote of its date (upsertHistorySQL).
LEMMA TakenHistoryIsBetter ==
  ASSUME NEW q \in Quote, NEW r \in Row, NEW x \in Quote, SameDate(q, r), SameDate(q, x),
         TakesHistory(q, r), AtLeastAsGood(r, x)
  PROVE  AtLeastAsGood(q, x)
  <1>1. q \in Row /\ x \in Row /\ q.source \notin Unsourced
    BY QuoteIsRow
  <1>2. Date(r) \in Int /\ Date(r) = Date(x)
    BY DatesOrdered DEF SameDate
  <1>3. Newer(q, r) /\ ~Newer(x, r) => ~Newer(x, q)
    BY <1>1, NewerWeak
  <1>4. QED BY <1>1, <1>2, <1>3 DEF AtLeastAsGood, TakesHistory, SameDate

LEMMA KeptHistoryIsBetter ==
  ASSUME NEW q \in Quote, NEW r \in Row, SameDate(q, r), ~TakesHistory(q, r)
  PROVE  AtLeastAsGood(r, q)
  BY DEF AtLeastAsGood, TakesHistory, SameDate

-----------------------------------------------------------------------------
(* The inductive invariant *)

Holds(s) == save[s].pc \in {"history", "commit"}

\* One transaction at a time has the current row, and what it has decided
\* about each row it holds is what it would decide now.
Decided ==
  /\ \A s, o \in Saver : Holds(s) /\ Holds(o) => s = o
  /\ \A s \in Saver : Holds(s) => save[s].accepted = TakesCurrent(save[s].quote, current)
  /\ \A s \in Saver : save[s].pc = "commit" => save[s].changed = ChangesHistory(save[s].quote)

\* A row of the history is a committed quote and at its date.
RowsDated == \A d \in Dates : history[d] # None => /\ Date(history[d]) = d
                                                   /\ history[d] \in saved \cup imported

IInv == TypeOK /\ Decided /\ RowsDated /\ CurrentIsBest /\ HistoryIsBest

\* The seed gives way to the first quote.
LEMMA SeedIsTaken == ASSUME NEW q \in Quote PROVE Seed \in Row /\ TakesCurrent(q, Seed)
  BY SeedAssumption DEF TakesCurrent, IsOfficial, Official, Unsourced, Row, Source

\* A save that is under way has a quote of the set.
LEMMA SaveHasQuote ==
  ASSUME TypeOK, NEW s \in Saver, save[s].pc # "idle"
  PROVE  /\ save[s].quote \in Quote /\ Date(save[s].quote) \in Dates
         /\ save[s] \in SaveState
  <1>1. save[s] \in SaveState /\ save[s].quote # None
    BY DEF TypeOK
  <1>2. save[s].quote \in Quote
    BY <1>1 DEF SaveState
  <1>3. QED BY <1>1, <1>2, QuoteIsRow, DatesOrdered

-----------------------------------------------------------------------------
(* Types *)

LEMMA TypeInit == Init => TypeOK
  <1>1. Seed \in Row
    BY SeedAssumption DEF Row, Source
  <1>2. Idle \in SaveState
    BY DEF Idle, SaveState
  <1>3. QED BY <1>1, <1>2, BoundAssumption DEF Init, TypeOK, Idle

LEMMA TypeStep == TypeOK /\ [Next]_vars => TypeOK'
  <1> SUFFICES ASSUME TypeOK, [Next]_vars PROVE TypeOK'
    OBVIOUS
  <1>0. Idle \in SaveState /\ Idle.pc = "idle"
    BY DEF Idle, SaveState
  <1>1. ASSUME NEW s \in Saver, NEW q \in Quote, BeginSave(s, q) PROVE TypeOK'
    <2>1. [Idle EXCEPT !.pc = "current", !.quote = q] \in SaveState /\ q # None
      BY QuoteIsRow DEF Idle, SaveState
    <2>2. [Idle EXCEPT !.pc = "current", !.quote = q].quote = q
      BY DEF Idle
    <2>3. QED BY <1>1, <2>1, <2>2 DEF BeginSave, TypeOK
  <1>2. ASSUME NEW s \in Saver, UpsertCurrent(s) PROVE TypeOK'
    <2>1. save[s] \in SaveState /\ save[s].quote # None
      BY <1>2 DEF UpsertCurrent, TypeOK
    <2>2. TakesCurrent(save[s].quote, current) \in BOOLEAN
      BY DEF TakesCurrent
    <2>3. QED BY <1>2, <2>1, <2>2 DEF UpsertCurrent, TypeOK, SaveState
  <1>3. ASSUME NEW s \in Saver, UpsertHistory(s) PROVE TypeOK'
    <2>1. save[s] \in SaveState /\ save[s].quote # None
      BY <1>3 DEF UpsertHistory, TypeOK
    <2>2. ChangesHistory(save[s].quote) \in BOOLEAN
      BY DEF ChangesHistory
    <2>3. QED BY <1>3, <2>1, <2>2 DEF UpsertHistory, TypeOK, SaveState
  <1>4. ASSUME NEW s \in Saver, CommitSave(s) PROVE TypeOK'
    <2>1. save[s].quote \in Quote
      BY <1>4, SaveHasQuote DEF CommitSave
    <2>2. save[s].quote \in Row
      BY <2>1, QuoteIsRow
    <2>3. QED BY <1>0, <1>4, <2>1, <2>2 DEF CommitSave, TypeOK
  <1>5. ASSUME NEW s \in Saver, FailSave(s) PROVE TypeOK'
    BY <1>0, <1>5 DEF FailSave, TypeOK
  <1>6. ASSUME NEW q \in Quote, Import(q) PROVE TypeOK'
    <2>1. q \in Row
      BY QuoteIsRow
    <2>2. QED BY <1>6, <2>1 DEF Import, TypeOK
  <1>7. CASE Tick
    BY <1>7, BoundAssumption DEF Tick, TypeOK
  <1>8. CASE UNCHANGED vars
    BY <1>8 DEF vars, TypeOK
  <1>9. QED BY <1>1, <1>2, <1>3, <1>4, <1>5, <1>6, <1>7, <1>8 DEF Next

-----------------------------------------------------------------------------
(* The other conjuncts, step by step *)

\* Only a commit changes the current row, and it holds it.
LEMMA CommitCurrent ==
  ASSUME IInv, TypeOK', NEW s \in Saver, CommitSave(s)
  PROVE  CurrentIsBest'
  <1> DEFINE q == save[s].quote
  <1>1. q \in Quote /\ current \in Row /\ saved \subseteq Quote
    BY SaveHasQuote DEF IInv, TypeOK, CommitSave
  <1>2. /\ current' = IF TakesCurrent(q, current) THEN q ELSE current
        /\ saved' = saved \cup {q}
    BY DEF IInv, Decided, Holds, CommitSave
  <1> HIDE DEF q
  <1>3. AtLeastAsGood(current', q)
    BY <1>1, <1>2, BestReflexive, KeptCurrentIsBetter
  <1>4. ASSUME NEW x \in saved PROVE AtLeastAsGood(current', x)
    <2>1. AtLeastAsGood(current, x) /\ x \in Quote
      BY <1>1, <1>4 DEF IInv, CurrentIsBest
    <2>2. QED BY <1>1, <1>2, <2>1, TakenCurrentIsBetter
  <1>5. current' \in saved'
    <2>1. CASE saved = {}
      BY <1>1, <1>2, <2>1, SeedIsTaken DEF IInv, CurrentIsBest
    <2>2. CASE saved # {}
      BY <1>2, <2>2 DEF IInv, CurrentIsBest
    <2>3. QED BY <2>1, <2>2
  <1>6. \A x \in saved' : AtLeastAsGood(current', x)
    BY <1>2, <1>3, <1>4
  <1>7. QED BY <1>5, <1>6 DEF CurrentIsBest, AtLeastAsGood, SameDate, Date

\* A write of q to the history, as CommitSave and Import do it.
Written(q) == history' = IF ChangesHistory(q) THEN [history EXCEPT ![Date(q)] = q] ELSE history

LEMMA HistoryWrite ==
  ASSUME IInv, NEW q \in Quote, Written(q), (saved \cup imported)' = saved \cup imported \cup {q}
  PROVE  HistoryIsBest' /\ RowsDated'
  <1>1. /\ q \in Row /\ Date(q) \in Dates
        /\ history \in [Dates -> Row \cup {None}] /\ saved \cup imported \subseteq Quote
    BY QuoteIsRow, DatesOrdered DEF IInv, TypeOK
  <1>2. RowsDated'
    BY <1>1 DEF IInv, RowsDated, Written, Date
  <1> DEFINE r == history[Date(q)]
  <1>3. CASE ChangesHistory(q)
    <2>1. history'[Date(q)] = q /\ \A d \in Dates \ {Date(q)} : history'[d] = history[d]
      BY <1>1, <1>3 DEF Written
    <2>2. ASSUME NEW x \in saved \cup imported, SameDate(q, x)
          PROVE  AtLeastAsGood(q, x)
      <3>1. r \in saved \cup imported /\ AtLeastAsGood(r, x) /\ x \in Quote
        BY <1>1, <2>2 DEF IInv, HistoryIsBest, SameDate
      <3>2. r \in Row /\ r # None
        BY <1>1, <3>1, QuoteIsRow
      <3>3. SameDate(q, r) /\ TakesHistory(q, r)
        BY <1>1, <1>3, <3>2 DEF IInv, RowsDated, SameDate, ChangesHistory
      <3>4. QED BY <2>2, <3>1, <3>2, <3>3, TakenHistoryIsBetter
    <2>3. ASSUME NEW x \in saved \cup imported \cup {q}
          PROVE  /\ history'[Date(x)] \in saved \cup imported \cup {q}
                 /\ AtLeastAsGood(history'[Date(x)], x)
      <3>1. CASE Date(x) = Date(q)
        BY <2>1, <2>2, <3>1, BestReflexive DEF SameDate
      <3>2. CASE Date(x) # Date(q)
        <4>1. x \in saved \cup imported /\ Date(x) \in Dates
          BY <1>1, <2>3, <3>2, QuoteIsRow, DatesOrdered
        <4>2. history'[Date(x)] = history[Date(x)]
          BY <2>1, <3>2, <4>1
        <4>3. QED BY <4>1, <4>2 DEF IInv, HistoryIsBest
      <3>3. QED BY <3>1, <3>2
    <2>4. QED BY <1>2, <2>3 DEF HistoryIsBest, AtLeastAsGood, SameDate, Date
  <1>4. CASE ~ChangesHistory(q)
    <2>1. history' = history /\ r # None /\ ~TakesHistory(q, r)
      BY <1>4 DEF Written, ChangesHistory
    <2>2. r \in Row /\ SameDate(q, r)
      BY <1>1, <2>1 DEF IInv, RowsDated, SameDate
    <2>3. AtLeastAsGood(r, q)
      BY <2>1, <2>2, KeptHistoryIsBetter
    <2>4. r \in saved \cup imported
      BY <1>1, <2>1 DEF IInv, RowsDated
    <2>5. QED BY <1>2, <2>1, <2>3, <2>4 DEF IInv, HistoryIsBest, AtLeastAsGood, SameDate, Date
  <1>5. QED BY <1>3, <1>4

LEMMA InvInit == Init => IInv
  BY TypeInit DEF Init, IInv, Decided, Holds, Idle, RowsDated, CurrentIsBest, HistoryIsBest

\* A step that commits nothing leaves the rows as good as they were.
LEMMA NoCommit ==
  ASSUME IInv, UNCHANGED <<current, history, saved, imported>>
  PROVE  RowsDated' /\ CurrentIsBest' /\ HistoryIsBest'
  BY DEF IInv, RowsDated, CurrentIsBest, HistoryIsBest, AtLeastAsGood, SameDate, Date

\* What the statements and the end of a transaction leave decided.
LEMMA DecidedStep ==
  ASSUME IInv, TypeOK', [Next]_vars
  PROVE  Decided'
  <1> USE DEF Decided, Holds, SaveState
  <1>0. save \in [Saver -> SaveState]
    BY DEF IInv, TypeOK
  <1>1. ASSUME NEW s \in Saver, NEW q \in Quote, BeginSave(s, q) PROVE Decided'
    BY <1>0, <1>1 DEF IInv, BeginSave, Idle, ChangesHistory, Date
  <1>2. ASSUME NEW s \in Saver, UpsertCurrent(s) PROVE Decided'
    <2>1. \A o \in Saver \ {s} : ~Holds(o) /\ save'[o] = save[o]
      BY <1>0, <1>2 DEF UpsertCurrent, CurrentFree
    <2>2. /\ save'[s].pc = "history" /\ save'[s].quote = save[s].quote
          /\ save'[s].accepted = TakesCurrent(save[s].quote, current)
      BY <1>0, <1>2 DEF UpsertCurrent
    <2>3. QED BY <1>2, <2>1, <2>2 DEF IInv, UpsertCurrent, ChangesHistory, Date
  <1>3. ASSUME NEW s \in Saver, UpsertHistory(s) PROVE Decided'
    <2>1. \A o \in Saver \ {s} : ~Holds(o) /\ save'[o] = save[o]
      BY <1>0, <1>3 DEF UpsertHistory, IInv
    <2>2. /\ save'[s].pc = "commit" /\ save'[s].quote = save[s].quote
          /\ save'[s].accepted = TakesCurrent(save[s].quote, current)
          /\ save'[s].changed = ChangesHistory(save[s].quote)
      BY <1>0, <1>3 DEF UpsertHistory, IInv
    <2>3. \A o \in Saver : Holds(o)' => o = s
      BY <2>1
    <2>4. history' = history /\ current' = current
      BY <1>3 DEF UpsertHistory
    <2>5. save'[s].accepted = TakesCurrent(save'[s].quote, current')
      BY <2>2, <2>4
    <2>6. ChangesHistory(save[s].quote)' = ChangesHistory(save[s].quote)
      BY <2>2, <2>4 DEF ChangesHistory, Date
    <2>7. save'[s].changed = ChangesHistory(save[s].quote)'
      BY <2>2, <2>6
    <2>8. QED BY <2>2, <2>3, <2>5, <2>7
  <1>4. ASSUME NEW s \in Saver, CommitSave(s) PROVE Decided'
    <2>1. \A o \in Saver \ {s} : ~Holds(o) /\ save'[o] = save[o]
      BY <1>0, <1>4 DEF CommitSave, IInv
    <2>2. save'[s].pc = "idle"
      BY <1>0, <1>4 DEF CommitSave, Idle
    <2>3. QED BY <2>1, <2>2 DEF IInv
  <1>5. ASSUME NEW s \in Saver, FailSave(s) PROVE Decided'
    BY <1>0, <1>5 DEF IInv, FailSave, Idle, ChangesHistory, Date
  <1>6. ASSUME NEW q \in Quote, Import(q) PROVE Decided'
    <2>1. ASSUME NEW s \in Saver, save[s].pc = "commit"
          PROVE  ChangesHistory(save[s].quote)' = ChangesHistory(save[s].quote)
      <3>1. Date(save[s].quote) # Date(q) /\ Date(save[s].quote) \in Dates
        BY <1>6, <2>1, SaveHasQuote DEF IInv, Import, HistoryFree, SameDate
      <3>2. history'[Date(save[s].quote)] = history[Date(save[s].quote)] /\ save' = save
        BY <1>6, <3>1 DEF Import, IInv, TypeOK
      <3>3. QED BY <3>2 DEF ChangesHistory, Date
    <2>2. QED BY <1>6, <2>1 DEF IInv, Import
  <1>7. CASE Tick
    BY <1>7 DEF IInv, Tick, ChangesHistory, Date
  <1>8. CASE UNCHANGED vars
    BY <1>8 DEF IInv, vars, ChangesHistory, Date
  <1>9. QED BY <1>1, <1>2, <1>3, <1>4, <1>5, <1>6, <1>7, <1>8 DEF Next

LEMMA InvStep == IInv /\ [Next]_vars => IInv'
  <1> SUFFICES ASSUME IInv, [Next]_vars PROVE IInv'
    OBVIOUS
  <1>1. TypeOK' /\ Decided'
    BY TypeStep, DecidedStep DEF IInv
  <1>2. ASSUME NEW s \in Saver, CommitSave(s) PROVE IInv'
    <2>1. CurrentIsBest'
      BY <1>1, <1>2, CommitCurrent
    <2>2. save[s].quote \in Quote
      BY <1>2, SaveHasQuote DEF IInv, CommitSave
    <2>3. Written(save[s].quote)
      BY <1>2 DEF CommitSave, Written, IInv, Decided
    <2>4. (saved \cup imported)' = saved \cup imported \cup {save[s].quote}
      BY <1>2 DEF CommitSave
    <2>5. QED BY <1>1, <2>1, <2>2, <2>3, <2>4, HistoryWrite DEF IInv
  <1>3. ASSUME NEW q \in Quote, Import(q) PROVE IInv'
    <2>1. CurrentIsBest'
      BY <1>3 DEF IInv, Import, CurrentIsBest, AtLeastAsGood, SameDate, Date
    <2>2. Written(q) /\ (saved \cup imported)' = saved \cup imported \cup {q}
      BY <1>3 DEF Import, Written
    <2>3. QED BY <1>1, <2>1, <2>2, HistoryWrite DEF IInv
  <1>4. CASE UNCHANGED <<current, history, saved, imported>>
    BY <1>1, <1>4, NoCommit DEF IInv
  <1>5. QED
    BY <1>2, <1>3, <1>4 DEF Next, vars, BeginSave, UpsertCurrent, UpsertHistory, FailSave, Tick

\* The inductive invariant holds in every state.
THEOREM Invariant == Spec => []IInv
  <1>1. QED BY InvInit, InvStep, PTL DEF Spec

-----------------------------------------------------------------------------
\* Every variable keeps its type (TypeOK), for every value of the constants.
THEOREM TypesHold == Spec => []TypeOK
  <1>1. IInv => TypeOK
    BY DEF IInv
  <1>2. QED BY <1>1, Invariant, PTL

\* The current price and the history rows are best ones of the quotes that
\* committed (RowsAreBest), for every value of the constants.
THEOREM RowsHold == Spec => []RowsAreBest
  <1>1. IInv => RowsAreBest
    BY DEF IInv, RowsAreBest
  <1>2. QED BY <1>1, Invariant, PTL

-----------------------------------------------------------------------------
(* Refinement *)

\* Both stores decide by the same rules.
LEMMA SameRules ==
  ASSUME NEW q, NEW r
  PROVE  /\ Atomic!TakesCurrent(q, r) = TakesCurrent(q, r)
         /\ Atomic!TakesHistory(q, r) = TakesHistory(q, r)
         /\ Atomic!Date(q) = Date(q)
         /\ Atomic!Dates = Dates
  <1>1. Atomic!Date(q) = Date(q) /\ Atomic!SameDate(q, r) = SameDate(q, r)
    BY DEF Atomic!SameDate, SameDate, Atomic!Date, Date
  <1>2. Atomic!IsOfficial(q) = IsOfficial(q) /\ Atomic!IsOfficial(r) = IsOfficial(r)
    BY DEF Atomic!IsOfficial, IsOfficial, Atomic!Official, Official
  <1>3. Atomic!Newer(q, r) = Newer(q, r)
    BY DEF Atomic!Newer, Newer, Atomic!Rank, Rank, Atomic!Official, Official
  <1>4. Atomic!Unsourced = Unsourced
    BY DEF Atomic!Unsourced, Unsourced
  <1>5. Atomic!Dates = Dates
    BY DEF Atomic!Dates, Dates
  <1>6. Atomic!TakesCurrent(q, r) = TakesCurrent(q, r)
    BY <1>1, <1>2, <1>3, <1>4 DEF Atomic!TakesCurrent, TakesCurrent
  <1>7. Atomic!TakesHistory(q, r) = TakesHistory(q, r)
    BY <1>2, <1>3, <1>4 DEF Atomic!TakesHistory, TakesHistory
  <1>8. QED BY <1>1, <1>5, <1>6, <1>7

LEMMA SameWrite ==
  ASSUME NEW q
  PROVE  Atomic!Written(q) = IF ChangesHistory(q) THEN [history EXCEPT ![Date(q)] = q] ELSE history
  <1>1. Atomic!Date(q) = Date(q)
    BY SameRules
  <1>2. Atomic!TakesHistory(q, history[Date(q)]) = TakesHistory(q, history[Date(q)])
    BY SameRules
  <1>3. QED BY <1>1, <1>2 DEF Atomic!Written, Atomic!Changes, ChangesHistory

\* The decisions a transaction made are the ones the atomic store makes at
\* its commit, because the transaction held the rows in between (SaveQuote).
LEMMA CommitIsSave ==
  ASSUME IInv, NEW s \in Saver, CommitSave(s)
  PROVE  \E q \in Quote : Atomic!Save(q)
  <1> DEFINE q == save[s].quote
  <1>1. save[s].pc = "commit" /\ q \in Quote
    BY SaveHasQuote DEF CommitSave, IInv
  <1>2. save[s].accepted = TakesCurrent(q, current)
    BY <1>1 DEF IInv, Decided, Holds
  <1>3. save[s].changed = ChangesHistory(q)
    BY <1>1 DEF IInv, Decided
  <1>4. Atomic!Save(q)
    <2>1. Atomic!TakesCurrent(q, current) = TakesCurrent(q, current)
      BY SameRules
    <2>2. QED BY <1>1, <1>2, <1>3, <2>1, SameWrite DEF CommitSave, Atomic!Save
  <1>5. QED BY <1>1, <1>4

\* The price store with its two statements per SaveQuote implements the store
\* in which a SaveQuote is one step, for every set of quotes and savers.
THEOREM StoreIsAtomic == Spec => ImplementsAtomicStore
  <1>1. Init => Atomic!AtomicInit
    BY SameRules DEF Init, Atomic!AtomicInit
  <1>2. IInv /\ [Next]_vars => [Atomic!AtomicNext]_(Atomic!atomicVars)
    <2> SUFFICES ASSUME IInv, [Next]_vars
                 PROVE  Atomic!AtomicNext \/ UNCHANGED <<current, history, saved, imported>>
      BY DEF Atomic!atomicVars
    <2>1. CASE \E s \in Saver : CommitSave(s)
      BY <2>1, CommitIsSave DEF Atomic!AtomicNext
    <2>2. CASE \E q \in Quote : Import(q)
      <3>1. PICK q \in Quote : Import(q)
        BY <2>2
      <3>2. Atomic!SaveHistory(q)
        BY <3>1, SameWrite DEF Import, Atomic!SaveHistory
      <3>3. QED BY <3>2 DEF Atomic!AtomicNext
    <2>3. CASE \E s \in Saver : \/ \E q \in Quote : BeginSave(s, q)
                               \/ UpsertCurrent(s) \/ UpsertHistory(s) \/ FailSave(s)
      BY <2>3 DEF BeginSave, UpsertCurrent, UpsertHistory, FailSave
    <2>4. CASE Tick \/ UNCHANGED vars
      BY <2>4 DEF Tick, vars
    <2>5. QED BY <2>1, <2>2, <2>3, <2>4 DEF Next
  <1>3. QED BY <1>1, <1>2, Invariant, PTL DEF Spec, ImplementsAtomicStore, Atomic!AtomicSpec
-----------------------------------------------------------------------------
(* The jobs that write prices *)

\* Every symbol's rows are rows, and a history row is of its date.
Tables ==
  /\ prices \in [Symbol -> Row]
  /\ histories \in [Symbol -> [Dates -> Row \cup {None}]]
  /\ \A s \in Symbol, d \in Dates : histories[s][d] # None => Date(histories[s][d]) = d

Shown(P, s, q)  == AtLeastAsGood(P[s], q)
Booked(H, s, q) == H[s][Date(q)] # None /\ AtLeastAsGood(H[s][Date(q)], q)

\* The step makes no row worse.
Improves ==
  \A s \in Symbol, q \in Quote : /\ Shown(prices, s, q) => Shown(prices', s, q)
                                 /\ Booked(histories, s, q) => Booked(histories', s, q)

\* A worker that fetches has a symbol, one that saves has its quote as well.
Workers ==
  /\ worker \in [Worker -> [pc : {"select", "fetch", "sem", "save", "left", "dead"},
                            symbol : Symbol \cup {None}, quote : Quote \cup {None}]]
  /\ \A w \in Worker :
       /\ worker[w].pc \in {"fetch", "sem", "save"} => worker[w].symbol \in Symbol
       /\ worker[w].pc \in {"sem", "save"} => worker[w].quote \in Quote

\* The attempt's close of the symbol at place i is shown and booked.
Done(P, H, i) ==
  LET q == FileClose(Listed[i])
  IN q # None => Shown(P, Listed[i], q) /\ Booked(H, Listed[i], q)

\* An attempt without an error so far has booked what it has done with.
AttemptInv ==
  /\ attempt \in [pc : {"off", "list", "save", "again", "succeeded"},
                  todo : SUBSET DOMAIN Listed, errors : Nat]
  /\ \A i \in attempt.todo : FileClose(Listed[i]) # None
  /\ attempt.pc = "succeeded" => attempt.todo = {} /\ attempt.errors = 0
  /\ attempt.pc \in {"save", "succeeded"} /\ attempt.errors = 0 =>
       \A i \in DOMAIN Listed \ attempt.todo : Done(prices, histories, i)

\* So has a backfill without a failure, of the closes it has seen.
Places == (DOMAIN Days) \X (DOMAIN Listed)

ImportInv ==
  /\ import \in [pc : {"off", "save", "ok", "failed"}, todo : SUBSET Places,
                 failed : BOOLEAN, seen : SUBSET (Symbol \X Dates)]
  /\ import.pc = "ok" => import.todo = {} /\ ~import.failed
  /\ \A e \in import.seen : Close[e] # None
  /\ \A x \in import.todo : Entry(x) \in import.seen
  /\ import.pc \in {"save", "ok"} /\ ~import.failed =>
       \A e \in import.seen : \/ \E x \in import.todo : e = Entry(x)
                              \/ Booked(histories, e[1], Close[e])

\* The listed symbols are the symbols, and the closes of a file are its date's.
LEMMA Listing ==
  /\ Listed \in Seq(Symbol) /\ Symbol = {Listed[i] : i \in DOMAIN Listed}
  /\ \A i, j \in DOMAIN Listed : Listed[i] = Listed[j] => i = j
  /\ Live \subseteq Quote /\ AttemptDate \in Dates /\ Days \in Seq(Dates)
  /\ \A i \in DOMAIN Listed : Listed[i] \in Symbol
  /\ \A i \in DOMAIN Days : Days[i] \in Dates
  /\ \A s \in Symbol : FileClose(s) # None => FileClose(s) \in Quote
  /\ \A s \in Symbol, d \in Dates :
       Close[<<s, d>>] # None => Close[<<s, d>>] \in Quote /\ Date(Close[<<s, d>>]) = d
<1>1. /\ Listed \in Seq(Symbol) /\ Symbol = {Listed[i] : i \in DOMAIN Listed}
      /\ \A i, j \in DOMAIN Listed : Listed[i] = Listed[j] => i = j
      /\ Live \subseteq Quote /\ AttemptDate \in Dates /\ Days \in Seq(Dates)
      /\ \A s \in Symbol, d \in Dates :
           Close[<<s, d>>] # None => Close[<<s, d>>] \in Quote /\ Date(Close[<<s, d>>]) = d
  BY WritersAssumption
<1> QED BY <1>1 DEF FileClose

\* WriteHistory books the quote and makes no row worse.
LEMMA HistoryBooks ==
  ASSUME Tables, NEW s \in Symbol, NEW q \in Quote, WriteHistory(s, q)
  PROVE  /\ histories' \in [Symbol -> [Dates -> Row \cup {None}]]
         /\ \A t \in Symbol, d \in Dates : histories'[t][d] # None => Date(histories'[t][d]) = d
         /\ Booked(histories', s, q)
         /\ \A t \in Symbol, x \in Quote : Booked(histories, t, x) => Booked(histories', t, x)
<1> DEFINE r == histories[s][Date(q)]
<1>1. q \in Row /\ q # None /\ Date(q) \in Dates /\ r \in Row \cup {None} /\ AtLeastAsGood(q, q)
  BY QuoteIsRow, DatesOrdered, BestReflexive DEF Tables
<1>2. r # None => r \in Row /\ SameDate(q, r)
  BY <1>1 DEF Tables, SameDate
<1>3. ReplacesHistory(s, q) <=> r = None \/ TakesHistory(q, r)
  BY DEF ReplacesHistory
<1>4. histories' = IF r = None \/ TakesHistory(q, r) THEN [histories EXCEPT ![s][Date(q)] = q] ELSE histories
  BY <1>3 DEF WriteHistory
<1>5. \A x \in Quote : Date(x) \in Dates
  BY QuoteIsRow, DatesOrdered
<1>6. CASE r = None \/ TakesHistory(q, r)
  <2>1. histories' = [histories EXCEPT ![s][Date(q)] = q]
    BY <1>4, <1>6
  <2>2. ASSUME NEW t \in Symbol, NEW d \in Dates
        PROVE  histories'[t][d] = IF t = s /\ d = Date(q) THEN q ELSE histories[t][d]
    BY <1>1, <2>1 DEF Tables
  <2>3. histories' \in [Symbol -> [Dates -> Row \cup {None}]]
    BY <1>1, <2>1 DEF Tables
  <2>4. \A t \in Symbol, d \in Dates : histories'[t][d] # None => Date(histories'[t][d]) = d
    BY <2>2 DEF Tables
  <2>5. ASSUME NEW x \in Quote, Booked(histories, s, x), Date(x) = Date(q)
        PROVE  AtLeastAsGood(q, x)
    BY <1>1, <1>2, <1>6, <2>5, TakenHistoryIsBetter DEF Booked, SameDate
  <2>6. ASSUME NEW t \in Symbol, NEW x \in Quote, Booked(histories, t, x)
        PROVE  histories'[t][Date(x)] # None /\ AtLeastAsGood(histories'[t][Date(x)], x)
    BY <1>1, <1>5, <2>2, <2>5, <2>6 DEF Booked
  <2>7. histories'[s][Date(q)] = q
    BY <1>1, <2>2
  <2> QED BY <1>1, <2>3, <2>4, <2>6, <2>7 DEF Booked, Date, AtLeastAsGood, SameDate
<1>7. CASE ~(r = None \/ TakesHistory(q, r))
  <2>1. histories' = histories
    BY <1>4, <1>7
  <2>2. AtLeastAsGood(r, q)
    BY <1>1, <1>2, <1>7, KeptHistoryIsBetter
  <2> QED BY <1>7, <2>1, <2>2 DEF Tables, Booked, Date, AtLeastAsGood, SameDate
<1> QED BY <1>6, <1>7

\* SaveQuote shows and books the quote and makes no row worse.
LEMMA SaveBooks ==
  ASSUME Tables, NEW s \in Symbol, NEW q \in Quote, SaveQuote(s, q)
  PROVE  Tables' /\ Improves /\ Shown(prices', s, q) /\ Booked(histories', s, q)
<1>1. WriteHistory(s, q)
  BY DEF SaveQuote
<1>2. q \in Row /\ prices[s] \in Row /\ AtLeastAsGood(q, q)
  BY QuoteIsRow, BestReflexive DEF Tables
<1>3. prices' = IF TakesCurrent(q, prices[s]) THEN [prices EXCEPT ![s] = q] ELSE prices
  BY DEF SaveQuote, Accepted
<1>4. /\ prices' \in [Symbol -> Row] /\ AtLeastAsGood(prices'[s], q)
      /\ \A t \in Symbol \ {s} : prices'[t] = prices[t]
  BY <1>2, <1>3, KeptCurrentIsBetter DEF Tables
<1>5. ASSUME NEW x \in Quote, AtLeastAsGood(prices[s], x) PROVE AtLeastAsGood(prices'[s], x)
  BY <1>2, <1>3, <1>5, TakenCurrentIsBetter DEF Tables
<1>6. \A t \in Symbol, x \in Quote : Shown(prices, t, x) => AtLeastAsGood(prices'[t], x)
  BY <1>4, <1>5 DEF Shown
<1> QED BY <1>1, <1>4, <1>6, HistoryBooks DEF Tables, Improves, Shown, AtLeastAsGood, SameDate, Date

\* A step that writes no row makes none worse.
LEMMA NothingWritten ==
  ASSUME Tables, UNCHANGED <<prices, histories>>
  PROVE  Tables' /\ Improves
BY DEF Tables, Improves, Shown, Booked, AtLeastAsGood, SameDate, Date

\* A cut of the history alone.
LEMMA ImportBooks ==
  ASSUME Tables, NEW s \in Symbol, NEW q \in Quote, WriteHistory(s, q), prices' = prices
  PROVE  Tables' /\ Improves /\ Booked(histories', s, q)
BY HistoryBooks DEF Tables, Improves, Shown, AtLeastAsGood, SameDate, Date

\* What a worker saves is a quote of a symbol of its own.
LEMMA WorkersStep ==
  ASSUME Workers, queue \in Seq(Symbol), [WritersNext]_writersVars
  PROVE  Workers'
<1> USE DEF Workers, NoJob, Becomes, Back
<1>1. ASSUME NEW w \in Worker, Take(w) PROVE Workers'
  <2>1. Head(queue) \in Symbol
    BY <1>1 DEF Take
  <2> QED BY <1>1, <2>1 DEF Take
<1>2. ASSUME NEW w \in Worker, NEW q \in Live, Fetched(w, q) PROVE Workers'
  BY <1>2, Listing DEF Fetched
<1>3. ASSUME NEW w \in Worker,
             \/ LeavePool(w) \/ FetchFails(w) \/ FetchMismatch(w)
             \/ AcquireCancelled(w) \/ SaveDone(w) \/ Panic(w)
      PROVE  Workers'
  BY <1>3 DEF LeavePool, FetchFails, FetchMismatch,
              AcquireCancelled, SaveDone, Panic
<1>4. ASSUME NEW w \in Worker, Acquire(w) PROVE Workers'
  BY <1>4 DEF Acquire
<1>5. CASE StartCycle \/ EndCycle
  BY <1>5 DEF StartCycle, EndCycle
<1>6. CASE Attempt \/ Backfill \/ Cancel \/ UNCHANGED writersVars
  BY <1>6 DEF Attempt, StartAttempt, AttemptFetchFails,
       AttemptFetched, AttemptSave, AttemptEnds, AttemptOnly,
       Backfill, ImportFetched, ImportOne, ImportEnds,
       ImportOnly, Cancel, writersVars, cycleVars
<1> QED BY <1>1, <1>2, <1>3, <1>4, <1>5, <1>6 DEF WritersNext, Cycle

\* The loop of an attempt comes to a place that is left.
LEMMA LeftInAttempt ==
  ASSUME AttemptInv, attempt.todo # {}
  PROVE  Min(attempt.todo) \in attempt.todo
<1>1. Len(Listed) \in Nat /\ DOMAIN Listed = 1..Len(Listed)
  BY Listing
<1>2. attempt.todo \in SUBSET (0..Len(Listed))
  BY <1>1 DEF AttemptInv
<1>3. \E m \in attempt.todo : \A i \in attempt.todo : m <= i
  BY <1>1, <1>2, FirstNumber
<1> QED BY <1>3 DEF Min

\* The loop of a backfill, too.
LEMMA LeftInImport ==
  ASSUME ImportInv, import.todo # {}
  PROVE  Foremost(import.todo) \in import.todo
<1> DEFINE T == import.todo
           D == {x[1] : x \in T}
<1>1. /\ Len(Listed) \in Nat /\ DOMAIN Listed = 1..Len(Listed)
      /\ Len(Days) \in Nat /\ DOMAIN Days = 1..Len(Days)
  BY Listing
<1>2. \A x \in T : x[1] \in 1..Len(Days) /\ x[2] \in 1..Len(Listed)
  BY <1>1 DEF ImportInv, Places
<1>3. PICK d \in D : \A i \in D : d <= i
  <2>1. D \in SUBSET (0..Len(Days)) /\ D # {}
    BY <1>1, <1>2
  <2> QED BY <1>1, <2>1, FirstNumber
<1> DEFINE P == {x[2] : x \in {y \in T : y[1] = d}}
<1>4. PICK p \in P : \A i \in P : p <= i
  <2>1. P \in SUBSET (0..Len(Listed)) /\ P # {}
    BY <1>1, <1>2, <1>3
  <2> QED BY <1>1, <2>1, FirstNumber
<1>5. PICK x \in T : x[1] = d /\ x[2] = p
  BY <1>4
<1>6. \A y \in T : x[1] < y[1] \/ (x[1] = y[1] /\ x[2] <= y[2])
  <2> SUFFICES ASSUME NEW y \in T PROVE x[1] < y[1] \/ (x[1] = y[1] /\ x[2] <= y[2])
    OBVIOUS
  <2>1. d <= y[1] /\ y[1] \in Int /\ d \in Int
    BY <1>2, <1>3
  <2>2. y[1] = d => p <= y[2]
    BY <1>4
  <2> QED BY <1>5, <2>1, <2>2
<1>7. \E z \in T : \A y \in T : z[1] < y[1] \/ (z[1] = y[1] /\ z[2] <= y[2])
  BY <1>5, <1>6
<1> HIDE DEF T
<1>8. (CHOOSE z \in T : \A y \in T : z[1] < y[1] \/ (z[1] = y[1] /\ z[2] <= y[2])) \in T
  BY <1>7
<1> QED BY <1>8 DEF T, Foremost

\* An entry of the backfill is a close of its files.
LEMMA EntryHasClose ==
  ASSUME ImportInv, NEW x \in import.todo
  PROVE  LET e == Entry(x)
         IN /\ e[1] \in Symbol /\ e[2] \in Dates /\ e = <<e[1], e[2]>>
            /\ Close[e] \in Quote /\ Date(Close[e]) = e[2]
<1> DEFINE e == Entry(x)
<1>1. e \in import.seen
  BY DEF ImportInv
<1>2. e \in Symbol \X Dates /\ Close[e] # None
  BY <1>1 DEF ImportInv
<1> HIDE DEF e
<1>3. e[1] \in Symbol /\ e[2] \in Dates /\ e = <<e[1], e[2]>>
  BY <1>2
<1>4. Close[<<e[1], e[2]>>] # None
  BY <1>2, <1>3
<1>5. Close[<<e[1], e[2]>>] \in Quote /\ Date(Close[<<e[1], e[2]>>]) = e[2]
  BY <1>3, <1>4, Listing
<1> QED BY <1>3, <1>5 DEF e

\* Every write of any job leaves every row at least as good as it was.
LEMMA TablesStep ==
  ASSUME Tables, Workers, AttemptInv, ImportInv, [WritersNext]_writersVars
  PROVE  Tables' /\ Improves
<1>1. CASE UNCHANGED <<prices, histories>>
  BY <1>1, NothingWritten
<1>2. ASSUME NEW w \in Worker, SaveDone(w) PROVE Tables' /\ Improves
  <2>1. worker[w].symbol \in Symbol /\ worker[w].quote \in Quote
    BY <1>2 DEF Workers, SaveDone
  <2>2. SaveQuote(worker[w].symbol, worker[w].quote) \/ UNCHANGED <<prices, histories>>
    BY <1>2 DEF SaveDone, storeVars
  <2> QED BY <1>1, <2>1, <2>2, SaveBooks
<1>3. CASE AttemptSave
  <2> DEFINE s == Listed[Min(attempt.todo)]
  <2>1. Min(attempt.todo) \in attempt.todo
    BY <1>3, LeftInAttempt DEF AttemptSave
  <2>2. s \in Symbol /\ FileClose(s) # None
    BY <2>1, Listing DEF AttemptInv
  <2>3. FileClose(s) \in Quote
    BY <2>2, Listing
  <2>4. SaveQuote(s, FileClose(s)) \/ UNCHANGED <<prices, histories>>
    BY <1>3 DEF AttemptSave, storeVars
  <2> HIDE DEF s
  <2> QED BY <1>1, <2>2, <2>3, <2>4, SaveBooks
<1>4. CASE ImportOne
  <2> DEFINE x == Foremost(import.todo)
             e == Entry(x)
  <2>1. x \in import.todo
    BY <1>4, LeftInImport DEF ImportOne
  <2>2. e[1] \in Symbol /\ Close[e] \in Quote
    BY <2>1, EntryHasClose
  <2>3. prices' = prices /\ (WriteHistory(e[1], Close[e]) \/ histories' = histories)
    BY <1>4 DEF ImportOne, ImportOnly
  <2> HIDE DEF e
  <2> QED BY <1>1, <2>2, <2>3, ImportBooks
<1>5. ASSUME NEW w \in Worker, NEW q \in Live, Fetched(w, q) PROVE Tables' /\ Improves
  BY <1>1, <1>5 DEF Fetched, storeVars
<1>6. ASSUME NEW w \in Worker,
             \/ Take(w) \/ LeavePool(w) \/ FetchFails(w)
             \/ FetchMismatch(w) \/ Acquire(w)
             \/ AcquireCancelled(w) \/ Panic(w)
      PROVE  Tables' /\ Improves
  BY <1>1, <1>6 DEF Take, LeavePool, FetchFails, FetchMismatch,
       Acquire, AcquireCancelled, Panic, storeVars
<1>7. CASE \/ StartCycle \/ EndCycle \/ StartAttempt
           \/ AttemptFetchFails \/ AttemptFetched \/ AttemptEnds
           \/ ImportFetched \/ ImportEnds \/ Cancel
           \/ UNCHANGED writersVars
  BY <1>1, <1>7 DEF StartCycle, EndCycle, StartAttempt,
       AttemptFetchFails, AttemptFetched, AttemptEnds,
       ImportFetched, ImportEnds, ImportOnly, Cancel,
       writersVars, storeVars
<1> QED BY <1>2, <1>3, <1>4, <1>5, <1>6, <1>7 DEF WritersNext, Cycle,
       Attempt, Backfill

\* Who does not touch the attempt keeps what it has booked.
LEMMA AttemptKept ==
  ASSUME AttemptInv, Improves, attempt' = attempt
  PROVE  AttemptInv'
<1>1. ASSUME NEW i \in DOMAIN Listed, Done(prices, histories, i)
      PROVE  Done(prices', histories', i)
  <2>1. FileClose(Listed[i]) # None =>
          Listed[i] \in Symbol /\ FileClose(Listed[i]) \in Quote
    BY Listing
  <2> QED BY <1>1, <2>1 DEF Improves, Done
<1> QED BY <1>1 DEF AttemptInv

LEMMA AttemptStep ==
  ASSUME Tables, AttemptInv, Improves, [WritersNext]_writersVars
  PROVE  AttemptInv'
<1>1. CASE StartAttempt \/ AttemptFetchFails
  BY <1>1 DEF StartAttempt, AttemptFetchFails, Official0, AttemptInv
<1>2. CASE AttemptFetched
  <2> DEFINE todo == {i \in DOMAIN Listed : FileClose(Listed[i]) # None}
  <2>1. attempt' = [attempt EXCEPT !.pc = "save", !.todo = todo]
    BY <1>2 DEF AttemptFetched
  <2> QED BY <2>1 DEF AttemptInv, Done
<1>3. CASE AttemptSave
  <2> DEFINE i == Min(attempt.todo)
             q == FileClose(Listed[i])
  <2>1. i \in attempt.todo /\ attempt.pc = "save" /\ attempt.todo \subseteq DOMAIN Listed
    BY <1>3, LeftInAttempt DEF AttemptSave, AttemptInv
  <2>2. Listed[i] \in Symbol /\ q \in Quote
    BY <2>1, Listing DEF AttemptInv
  <2>3. \/ SaveQuote(Listed[i], q) /\ attempt' = [attempt EXCEPT !.todo = @ \ {i}]
        \/ attempt' = [attempt EXCEPT !.todo = @ \ {i}, !.errors = @ + 1]
    BY <1>3 DEF AttemptSave
  <2> HIDE DEF i
  <2>4. CASE SaveQuote(Listed[i], q) /\ attempt' = [attempt EXCEPT !.todo = @ \ {i}]
    <3>1. Shown(prices', Listed[i], q) /\ Booked(histories', Listed[i], q)
      BY <2>2, <2>4, SaveBooks
    <3>2. ASSUME NEW j \in DOMAIN Listed, Done(prices, histories, j)
          PROVE  Done(prices', histories', j)
      <4>1. FileClose(Listed[j]) # None =>
              Listed[j] \in Symbol /\ FileClose(Listed[j]) \in Quote
        BY Listing
      <4> QED BY <3>2, <4>1 DEF Improves, Done
    <3>3. /\ attempt' \in [pc : {"off", "list", "save", "again", "succeeded"},
                           todo : SUBSET DOMAIN Listed, errors : Nat]
          /\ attempt'.todo = attempt.todo \ {i} /\ attempt'.pc = "save"
          /\ attempt'.errors = attempt.errors
      BY <2>1, <2>4 DEF AttemptInv
    <3>4. attempt'.errors = 0 => \A j \in DOMAIN Listed \ attempt'.todo : Done(prices', histories', j)
      <4>1. attempt.errors = 0 => \A j \in DOMAIN Listed \ attempt.todo : Done(prices, histories, j)
        BY <2>1 DEF AttemptInv
      <4>2. \A j \in DOMAIN Listed \ attempt'.todo : j = i \/ j \in DOMAIN Listed \ attempt.todo
        BY <3>3
      <4>3. Done(prices', histories', i)
        BY <3>1 DEF Done
      <4> QED BY <3>2, <3>3, <4>1, <4>2, <4>3
    <3> QED BY <3>3, <3>4 DEF AttemptInv, Done, Shown, Booked, AtLeastAsGood, SameDate, Date
  <2>5. CASE attempt' = [attempt EXCEPT !.todo = @ \ {i}, !.errors = @ + 1]
    <3>1. /\ attempt' \in [pc : {"off", "list", "save", "again", "succeeded"},
                           todo : SUBSET DOMAIN Listed, errors : Nat]
          /\ attempt'.todo = attempt.todo \ {i} /\ attempt'.pc = "save" /\ attempt'.errors # 0
      <4>1. /\ attempt \in [pc : {"off", "list", "save", "again", "succeeded"},
                             todo : SUBSET DOMAIN Listed, errors : Nat]
            /\ attempt.errors + 1 \in Nat /\ attempt.errors + 1 # 0
            /\ attempt.todo \ {i} \in SUBSET DOMAIN Listed
        BY DEF AttemptInv
      <4> DEFINE n == attempt.errors + 1
                 T == attempt.todo \ {i}
      <4> HIDE DEF n, T
      <4>2. attempt' = [attempt EXCEPT !.todo = T, !.errors = n]
        BY <2>5 DEF n, T
      <4>3. n \in Nat /\ n # 0 /\ T \in SUBSET DOMAIN Listed
        BY <4>1 DEF n, T
      <4> QED BY <2>1, <4>1, <4>2, <4>3 DEF T
    <3> QED BY <3>1 DEF AttemptInv
  <2> QED BY <2>3, <2>4, <2>5
<1>4. CASE AttemptEnds
  <2>1. /\ attempt.pc = "save" /\ attempt.todo = {} /\ UNCHANGED <<prices, histories>>
        /\ attempt' = [attempt EXCEPT !.pc =
                         IF attempt.errors > 0 THEN "again" ELSE "succeeded"]
    BY <1>4 DEF AttemptEnds, Verdict, storeVars
  <2>2. attempt.errors \in Nat
    BY DEF AttemptInv
  <2> QED BY <2>1, <2>2 DEF AttemptInv
<1>5. CASE attempt' = attempt
  BY <1>5, AttemptKept
<1>6. CASE Cycle \/ Backfill \/ Cancel \/ UNCHANGED writersVars
  BY <1>5, <1>6 DEF Cycle, StartCycle, EndCycle, Take,
       LeavePool, FetchFails, FetchMismatch, Fetched,
       Acquire, AcquireCancelled, SaveDone, Panic,
       CycleOnly, Backfill, ImportFetched, ImportOne,
       ImportEnds, ImportOnly, Cancel, writersVars
<1> QED BY <1>1, <1>2, <1>3, <1>4, <1>6 DEF WritersNext, Attempt

LEMMA ImportStep ==
  ASSUME Tables, ImportInv, Improves, [WritersNext]_writersVars
  PROVE  ImportInv'
<1>0. ASSUME NEW e \in import.seen
      PROVE  Booked(histories, e[1], Close[e]) => Booked(histories', e[1], Close[e])
  <2>1. e[1] \in Symbol /\ e[2] \in Dates /\ e = <<e[1], e[2]>> /\ Close[e] # None
    BY DEF ImportInv
  <2>2. Close[<<e[1], e[2]>>] # None
    BY <2>1
  <2>3. Close[<<e[1], e[2]>>] \in Quote
    BY <2>1, <2>2, Listing
  <2>4. Close[e] \in Quote
    BY <2>1, <2>3
  <2> QED BY <2>1, <2>4 DEF Improves
<1>1. CASE ImportFetched
  <2>1. PICK days \in SUBSET {Days[i] : i \in DOMAIN Days}, failed \in BOOLEAN :
          import' = [pc |-> "save", todo |-> Published(days), failed |-> failed,
                     seen |-> {Entry(x) : x \in Published(days)}]
    BY <1>1 DEF ImportFetched
  <2>2. ASSUME NEW x \in Published(days)
        PROVE  /\ x \in Places /\ Entry(x) \in Symbol \X Dates
               /\ Close[Entry(x)] # None
    <3>1. x \in Places /\ Close[Entry(x)] # None
      BY DEF Published, Places
    <3>2. Listed[x[2]] \in Symbol /\ Days[x[1]] \in Dates
      BY <3>1, Listing DEF Places
    <3> QED BY <3>1, <3>2 DEF Entry
  <2> QED BY <2>1, <2>2 DEF ImportInv, Entry
<1>2. CASE ImportOne
  <2> DEFINE x == Foremost(import.todo)
             e == Entry(x)
  <2>1. x \in import.todo /\ import.pc = "save"
    BY <1>2, LeftInImport DEF ImportOne
  <2>2. e[1] \in Symbol /\ Close[e] \in Quote
    BY <2>1, EntryHasClose
  <2>3. /\ prices' = prices
        /\ \/ /\ WriteHistory(e[1], Close[e])
              /\ import' = [import EXCEPT !.todo = @ \ {x}]
           \/ import' = [import EXCEPT !.todo = @ \ {x}, !.failed = TRUE]
    BY <1>2 DEF ImportOne, ImportOnly
  <2> HIDE DEF x, e
  <2>4. /\ import'.pc = import.pc /\ import'.todo = import.todo \ {x}
        /\ import'.seen = import.seen /\ import'.failed \in {import.failed, TRUE}
    BY <2>3 DEF ImportInv
  <2>5. CASE WriteHistory(e[1], Close[e]) /\ import'.failed = import.failed
    <3>1. Booked(histories', e[1], Close[e])
      BY <2>2, <2>3, <2>5, ImportBooks
    <3>2. ASSUME ~import.failed, NEW f \in import.seen
          PROVE  \/ \E y \in import'.todo : f = Entry(y)
                 \/ Booked(histories', f[1], Close[f])
      <4>1. CASE \E y \in import.todo : f = Entry(y)
        BY <2>1, <2>4, <3>1, <4>1 DEF e
      <4>2. CASE Booked(histories, f[1], Close[f])
        BY <1>0, <4>2
      <4> QED BY <2>1, <3>2, <4>1, <4>2 DEF ImportInv
    <3> QED BY <2>1, <2>3, <2>4, <2>5, <3>2 DEF ImportInv, Entry
  <2>6. CASE import'.failed
    BY <2>1, <2>3, <2>4, <2>6 DEF ImportInv, Entry
  <2>7. import'.failed \/ (WriteHistory(e[1], Close[e]) /\ import'.failed = import.failed)
    BY <2>3 DEF ImportInv
  <2> QED BY <2>5, <2>6, <2>7
<1>3. CASE ImportEnds
  <2>1. /\ import.pc = "save" /\ import.todo = {}
        /\ import' = [import EXCEPT !.pc = IF import.failed THEN "failed" ELSE "ok"]
    BY <1>3 DEF ImportEnds
  <2> QED BY <1>0, <2>1 DEF ImportInv
<1>4. CASE import' = import
  BY <1>0, <1>4 DEF ImportInv, Entry
<1>5. CASE Cycle \/ Attempt \/ Cancel \/ UNCHANGED writersVars
  BY <1>4, <1>5 DEF Cycle, StartCycle, EndCycle, Take,
       LeavePool, FetchFails, FetchMismatch, Fetched,
       Acquire, AcquireCancelled, SaveDone, Panic,
       CycleOnly, Attempt, StartAttempt, AttemptFetchFails,
       AttemptFetched, AttemptSave, AttemptEnds, AttemptOnly,
       Cancel, writersVars
<1> QED BY <1>1, <1>2, <1>3, <1>5 DEF WritersNext, Backfill

\* The workers of W that are at one of the places P.
At(W, P) == {w \in Worker : W[w].pc \in P}
Busy  == {"fetch", "sem", "save"}
Gone  == {"left", "dead"}

Kinds == {"fetched", "saved", "ignored", "failed"}

\* The symbols that the channel has handed out.
Taken == Len(Listed) - Len(queue)

\* The channel holds the last symbols of the listing, and the first ones were
\* fetched once.
Channel ==
  /\ queue \in Seq(Symbol) /\ Len(queue) <= Len(Listed)
  /\ \A i \in 1..Len(queue) : queue[i] = Listed[Taken + i]
  /\ fetches \in [Symbol -> Nat]
  /\ cycles > 0 =>
       \A i \in DOMAIN Listed : fetches[Listed[i]] = IF i <= Taken THEN 1 ELSE 0

\* Every symbol is in the channel, with a worker or counted.
Books ==
  /\ counts["saved"] + counts["ignored"] + counts["failed"]
       + Cardinality(At(worker, Busy)) + Len(queue) = Len(Listed)
  /\ counts["fetched"] + Cardinality(At(worker, {"fetch"})) + Len(queue) <= Len(Listed)

\* Nobody left an undisturbed cycle before the channel was empty.
CycleInv ==
  /\ cycles \in Nat /\ running \in BOOLEAN /\ cancelled \in BOOLEAN /\ disturbed \in BOOLEAN
  /\ counts \in [Kinds -> Nat]
  /\ Channel
  /\ running => cycles > 0
  /\ ~running => \A w \in Worker : worker[w].pc \in Gone
  /\ running /\ ~disturbed => ~cancelled
  /\ ~disturbed => \A w \in Worker : worker[w].pc # "dead"
  /\ cycles > 0 /\ ~disturbed =>
       /\ Books
       /\ (\E w \in Worker : worker[w].pc = "left") => queue = <<>>

\* A worker that moves is counted where it comes and no longer where it was.
LEMMA Moved ==
  ASSUME Workers, NEW w \in Worker, NEW x, Becomes(w, x), NEW P
  PROVE  LET n == Cardinality(At(worker, P))
         IN /\ n \in Nat
            /\ Cardinality(At(worker', P)) =
                 IF worker[w].pc \in P THEN IF x.pc \in P THEN n ELSE n - 1
                                       ELSE IF x.pc \in P THEN n + 1 ELSE n
            /\ Cardinality(At(worker', P)) \in Nat
<1>1. IsFiniteSet(Worker)
  BY WritersAssumption
<1>2. IsFiniteSet(At(worker, P)) /\ IsFiniteSet(At(worker', P))
  BY <1>1, FS_Subset DEF At
<1>3. At(worker', P) = IF x.pc \in P THEN At(worker, P) \cup {w} ELSE At(worker, P) \ {w}
  BY DEF At, Workers, Becomes
<1>4. w \in At(worker, P) <=> worker[w].pc \in P
  BY DEF At
<1>5. Cardinality(At(worker, P)) \in Nat /\ Cardinality(At(worker', P)) \in Nat
  BY <1>2, FS_CardinalityType
<1> QED BY <1>2, <1>3, <1>4, <1>5, FS_AddElement, FS_RemoveElement

LEMMA NobodyThere ==
  ASSUME NEW W, NEW P, \A w \in Worker : W[w].pc \notin P
  PROVE  Cardinality(At(W, P)) = 0
<1>1. At(W, P) = {}
  BY DEF At
<1> QED BY <1>1, FS_EmptySet

LEMMA StartCycleStep ==
  ASSUME CycleInv, StartCycle
  PROVE  CycleInv'
<1>1. /\ cycles' = cycles + 1 /\ running' = TRUE /\ queue' = Listed /\ disturbed' = cancelled
      /\ worker' = [w \in Worker |-> [NoJob EXCEPT !.pc = "select"]]
      /\ counts' = NoCounts /\ fetches' = [s \in Symbol |-> 0]
      /\ cancelled' = cancelled /\ cycles \in Nat /\ cancelled \in BOOLEAN
  BY DEF StartCycle, CycleInv
<1>2. \A w \in Worker : worker'[w].pc = "select"
  BY <1>1 DEF NoJob
<1>3. Cardinality(At(worker', Busy)) = 0 /\ Cardinality(At(worker', {"fetch"})) = 0
  BY <1>2, NobodyThere DEF Busy
<1>4. counts' \in [Kinds -> Nat] /\ \A k \in Kinds : counts'[k] = 0
  BY <1>1 DEF Kinds, NoCounts
<1>5. /\ Listed \in Seq(Symbol) /\ Len(Listed) \in Nat /\ DOMAIN Listed = 1..Len(Listed)
      /\ \A i \in DOMAIN Listed : Listed[i] \in Symbol
  BY Listing
<1>6. Taken' = 0
  BY <1>1, <1>5 DEF Taken
<1>7. Channel'
  <2>1. queue' \in Seq(Symbol) /\ Len(queue') <= Len(Listed) /\ fetches' \in [Symbol -> Nat]
    BY <1>1, <1>5
  <2>2. \A i \in 1..Len(queue') : queue'[i] = Listed[Taken' + i]
    BY <1>1, <1>5, <1>6
  <2>3. \A i \in DOMAIN Listed : fetches'[Listed[i]] = 0 /\ ~(i <= Taken')
    BY <1>1, <1>5, <1>6
  <2> QED BY <2>1, <2>2, <2>3 DEF Channel
<1>8. Books'
  <2>1. /\ counts'["saved"] = 0 /\ counts'["ignored"] = 0 /\ counts'["failed"] = 0
        /\ counts'["fetched"] = 0 /\ Len(queue') = Len(Listed)
    BY <1>1, <1>4 DEF Kinds
  <2> QED BY <1>3, <1>5, <2>1 DEF Books
<1>9. cycles' \in Nat /\ cycles' > 0
  BY <1>1
<1>10. \A w \in Worker : worker'[w].pc \notin {"dead", "left"}
  BY <1>2
<1> QED
  <2> HIDE DEF Channel, Books
  <2> QED BY <1>1, <1>4, <1>7, <1>8, <1>9, <1>10 DEF CycleInv

LEMMA TakeStep ==
  ASSUME Workers, CycleInv, NEW w \in Worker, Take(w)
  PROVE  CycleInv'
<1> DEFINE x == [NoJob EXCEPT !.pc = "fetch", !.symbol = Head(queue)]
<1>1. /\ worker[w].pc = "select" /\ queue # <<>> /\ Becomes(w, x)
      /\ queue' = Tail(queue) /\ fetches' = [fetches EXCEPT ![Head(queue)] = @ + 1]
      /\ UNCHANGED <<counts, disturbed, cancelled, cycles, running>>
  BY DEF Take, CycleOnly
<1>2. x.pc = "fetch"
  BY DEF NoJob
<1> HIDE DEF x
<1>3. /\ Listed \in Seq(Symbol) /\ Len(Listed) \in Nat /\ DOMAIN Listed = 1..Len(Listed)
      /\ \A i, j \in DOMAIN Listed : Listed[i] = Listed[j] => i = j
      /\ \A i \in DOMAIN Listed : Listed[i] \in Symbol
  BY Listing
<1>4. running /\ cycles > 0
  BY <1>1 DEF CycleInv, Gone
<1>5. /\ queue \in Seq(Symbol) /\ Len(queue) \in Nat /\ Len(queue) > 0 /\ Len(queue) <= Len(Listed)
      /\ \A i \in 1..Len(queue) : queue[i] = Listed[Taken + i]
      /\ Head(queue) = queue[1] /\ Tail(queue) \in Seq(Symbol) /\ Len(Tail(queue)) = Len(queue) - 1
      /\ \A i \in 1..Len(Tail(queue)) : Tail(queue)[i] = queue[i + 1]
  BY <1>1 DEF CycleInv, Channel
<1>6. Taken \in Nat /\ Taken' = Taken + 1 /\ Taken + 1 \in DOMAIN Listed /\ Head(queue) = Listed[Taken + 1]
  BY <1>1, <1>3, <1>5 DEF Taken
<1>7. \A i \in 1..Len(queue') : queue'[i] = Listed[Taken' + i]
  <2> SUFFICES ASSUME NEW i \in 1..Len(queue') PROVE queue'[i] = Listed[Taken' + i]
    OBVIOUS
  <2> DEFINE n == Len(queue)
  <2>0. n \in Nat /\ i \in 1..(n - 1) /\ Len(Tail(queue)) = n - 1 /\ Taken \in Nat
    BY <1>1, <1>5, <1>6
  <2> HIDE DEF n
  <2>1. i \in 1..Len(Tail(queue)) /\ i + 1 \in 1..n /\ Taken + (i + 1) = (Taken + 1) + i
    BY <2>0
  <2> USE DEF n
  <2> QED BY <1>1, <1>5, <1>6, <2>1
<1>8. \A i \in DOMAIN Listed : fetches'[Listed[i]] = IF i <= Taken' THEN 1 ELSE 0
  <2> SUFFICES ASSUME NEW i \in DOMAIN Listed
               PROVE  fetches'[Listed[i]] = IF i <= Taken' THEN 1 ELSE 0
    OBVIOUS
  <2>1. fetches[Listed[i]] = IF i <= Taken THEN 1 ELSE 0
    BY <1>4 DEF CycleInv, Channel
  <2>2. fetches'[Listed[i]] = IF i = Taken + 1 THEN fetches[Listed[i]] + 1 ELSE fetches[Listed[i]]
    BY <1>1, <1>3, <1>6 DEF CycleInv, Channel
  <2>3. i \in Nat
    BY <1>3
  <2> QED BY <1>6, <2>1, <2>2, <2>3
<1>9. fetches' \in [Symbol -> Nat]
  BY <1>1, <1>3, <1>6 DEF CycleInv, Channel
<1>10. Channel'
  BY <1>1, <1>3, <1>5, <1>7, <1>8, <1>9 DEF Channel
<1>11. /\ Cardinality(At(worker', Busy)) = Cardinality(At(worker, Busy)) + 1
       /\ Cardinality(At(worker', {"fetch"})) = Cardinality(At(worker, {"fetch"})) + 1
       /\ Cardinality(At(worker, Busy)) \in Nat /\ Cardinality(At(worker, {"fetch"})) \in Nat
  BY <1>1, <1>2, Moved DEF Busy
<1>12. ASSUME Books PROVE Books'
  <2> DEFINE b == Cardinality(At(worker, Busy))
             f == Cardinality(At(worker, {"fetch"}))
             m == counts["saved"] + counts["ignored"] + counts["failed"]
             l == Len(queue)
             L == Len(Listed)
             c == counts["fetched"]
  <2>1. m \in Nat /\ c \in Nat /\ L \in Nat
    BY <1>3 DEF CycleInv, Kinds
  <2>2. b \in Nat /\ f \in Nat /\ l \in Nat /\ Len(queue') = l - 1
    BY <1>1, <1>5, <1>11
  <2>3. m + b + l = L /\ c + f + l <= L
    BY <1>12 DEF Books
  <2>4. Cardinality(At(worker', Busy)) = b + 1 /\ Cardinality(At(worker', {"fetch"})) = f + 1
    BY <1>11
  <2> HIDE DEF m, b, f, l, L, c
  <2>5. /\ m + Cardinality(At(worker', Busy)) + Len(queue') = L
        /\ c + Cardinality(At(worker', {"fetch"})) + Len(queue') <= L
    BY <2>1, <2>2, <2>3, <2>4
  <2> QED BY <1>1, <2>5 DEF Books, m, L, c, At, Busy
<1>13. \A v \in Worker : worker'[v].pc = IF v = w THEN "fetch" ELSE worker[v].pc
  BY <1>1, <1>2 DEF Becomes, Workers
<1> QED BY <1>1, <1>4, <1>10, <1>12, <1>13 DEF CycleInv

\* A worker that returns from its symbol, or leaves the pool.
LEMMA WorkerMoves ==
  ASSUME Workers, CycleInv, NEW w \in Worker, NEW x, Becomes(w, x),
         worker[w].pc \notin Gone,
         UNCHANGED <<queue, fetches, cancelled, cycles, running>>,
         disturbed' = (disturbed \/ x.pc = "dead"),
         counts' \in [Kinds -> Nat],
         ~disturbed' => /\ Books => Books'
                        /\ x.pc = "left" => queue = <<>>
  PROVE  CycleInv'
<1>1. Channel'
  BY DEF CycleInv, Channel, Taken
<1>2. running
  BY DEF CycleInv
<1>3. \A v \in Worker : worker'[v].pc = IF v = w THEN x.pc ELSE worker[v].pc
  BY DEF Becomes, Workers
<1> QED BY <1>1, <1>2, <1>3 DEF CycleInv

\* A worker that comes back has counted its symbol.
LEMMA OneMoreCounted ==
  ASSUME Workers, CycleInv, NEW w \in Worker, NEW x, Becomes(w, x),
         worker[w].pc \in Busy, x.pc \notin Busy, queue' = queue, counts' \in [Kinds -> Nat],
         counts'["saved"] + counts'["ignored"] + counts'["failed"] =
           counts["saved"] + counts["ignored"] + counts["failed"] + 1,
         \/ counts'["fetched"] = counts["fetched"]
         \/ worker[w].pc = "fetch" /\ counts'["fetched"] = counts["fetched"] + 1,
         Books
  PROVE  Books'
<1> DEFINE b == Cardinality(At(worker, Busy))
           f == Cardinality(At(worker, {"fetch"}))
           m == counts["saved"] + counts["ignored"] + counts["failed"]
           n == counts'["saved"] + counts'["ignored"] + counts'["failed"]
<1>1. Cardinality(At(worker', Busy)) = b - 1 /\ b \in Nat
  BY Moved
<1>2. /\ Cardinality(At(worker', {"fetch"})) = IF worker[w].pc = "fetch" THEN f - 1 ELSE f
      /\ f \in Nat
  BY Moved DEF Busy
<1>3. Len(queue) \in Nat /\ Len(queue') = Len(queue) /\ Len(Listed) \in Nat
  <2>1. queue \in Seq(Symbol)
    BY DEF CycleInv, Channel
  <2>2. Listed \in Seq(Symbol)
    BY Listing
  <2> QED BY <2>1, <2>2
<1>4. /\ counts["saved"] \in Nat /\ counts["ignored"] \in Nat /\ counts["failed"] \in Nat
      /\ counts["fetched"] \in Nat
      /\ counts'["saved"] \in Nat /\ counts'["ignored"] \in Nat /\ counts'["failed"] \in Nat
  BY DEF CycleInv, Kinds
<1>5. n = m + 1 /\ m \in Nat /\ n \in Nat
  BY <1>4
<1>6. m + b + Len(queue) = Len(Listed) /\ counts["fetched"] + f + Len(queue) <= Len(Listed)
  BY DEF Books
<1> HIDE DEF m, n, b, f
<1>7. n + (b - 1) + Len(queue') = Len(Listed)
  BY <1>1, <1>3, <1>5, <1>6
<1>8. counts'["fetched"] + Cardinality(At(worker', {"fetch"})) + Len(queue') <= Len(Listed)
  <2>1. CASE counts'["fetched"] = counts["fetched"]
    BY <1>2, <1>3, <1>4, <1>6, <2>1
  <2>2. CASE worker[w].pc = "fetch" /\ counts'["fetched"] = counts["fetched"] + 1
    BY <1>2, <1>3, <1>4, <1>6, <2>2
  <2> QED BY <2>1, <2>2
<1> QED BY <1>1, <1>7, <1>8 DEF Books, n, At, Busy

LEMMA WorkerStep ==
  ASSUME Workers, CycleInv, NEW w \in Worker,
         \/ LeavePool(w) \/ FetchFails(w) \/ FetchMismatch(w)
         \/ \E q \in Live : Fetched(w, q)
         \/ Acquire(w) \/ AcquireCancelled(w)
         \/ SaveDone(w) \/ Panic(w)
  PROVE  CycleInv'
<1> DEFINE b == Cardinality(At(worker, Busy))
           f == Cardinality(At(worker, {"fetch"}))
<1>1. UNCHANGED <<queue, fetches, cancelled, cycles, running>>
  BY DEF LeavePool, FetchFails, FetchMismatch, Fetched,
         Acquire, AcquireCancelled, SaveDone, Panic,
         CycleOnly
<1>2. worker[w].pc \notin Gone
  BY DEF LeavePool, FetchFails, FetchMismatch, Fetched,
         Acquire, AcquireCancelled, SaveDone, Panic, Gone
<1>3. /\ counts \in [Kinds -> Nat] /\ Len(queue) \in Nat /\ Len(Listed) \in Nat
      /\ running /\ (cancelled => disturbed) /\ cycles > 0
  BY <1>2, Listing DEF CycleInv, Channel
<1>4. ASSUME NEW x, Becomes(w, x)
      PROVE  /\ b \in Nat /\ f \in Nat
             /\ Cardinality(At(worker', Busy)) =
                  b + (IF x.pc \in Busy THEN 1 ELSE 0) - (IF worker[w].pc \in Busy THEN 1 ELSE 0)
             /\ Cardinality(At(worker', {"fetch"})) =
                  f + (IF x.pc = "fetch" THEN 1 ELSE 0) - (IF worker[w].pc = "fetch" THEN 1 ELSE 0)
  BY <1>4, Moved
<1> HIDE DEF b, f
<1> DEFINE back == [NoJob EXCEPT !.pc = "select"]
<1>5. back.pc = "select" /\ NoJob.pc = "left"
  BY DEF NoJob
<1> HIDE DEF back
<1>6. CASE LeavePool(w)
  <2>1. Becomes(w, NoJob) /\ worker[w].pc = "select"
        /\ UNCHANGED <<counts, disturbed>> /\ (queue = <<>> \/ cancelled)
    BY <1>6 DEF LeavePool
  <2>2. Books => Books'
    BY <1>1, <1>3, <1>4, <1>5, <2>1 DEF Books, b, f, Busy
  <2> QED BY <1>1, <1>2, <1>3, <1>5, <2>1, <2>2, WorkerMoves DEF CycleInv
<1>7. CASE FetchFails(w)
  <2>1. /\ Becomes(w, back) /\ worker[w].pc = "fetch" /\ disturbed' = disturbed
        /\ counts' = [counts EXCEPT !["failed"] = @ + 1]
    BY <1>7 DEF back, FetchFails, Back, Count
  <2>2. /\ counts' \in [Kinds -> Nat] /\ counts'["fetched"] = counts["fetched"]
        /\ counts'["saved"] + counts'["ignored"] + counts'["failed"] =
             counts["saved"] + counts["ignored"] + counts["failed"] + 1
    BY <1>3, <2>1 DEF Kinds
  <2>3. Books => Books'
    BY <1>1, <1>5, <2>1, <2>2, OneMoreCounted DEF Busy
  <2> QED BY <1>1, <1>2, <1>3, <1>5, <2>1, <2>2, <2>3, WorkerMoves DEF CycleInv
<1>8. CASE FetchMismatch(w)
  <2>1. /\ Becomes(w, back) /\ worker[w].pc = "fetch" /\ disturbed' = disturbed
        /\ counts' = [counts EXCEPT !["fetched"] = @ + 1, !["failed"] = @ + 1]
    BY <1>8 DEF back, FetchMismatch, Back
  <2>2. /\ counts' \in [Kinds -> Nat] /\ counts'["fetched"] = counts["fetched"] + 1
        /\ counts'["saved"] + counts'["ignored"] + counts'["failed"] =
             counts["saved"] + counts["ignored"] + counts["failed"] + 1
    <3>1. /\ counts'["saved"] = counts["saved"] /\ counts'["ignored"] = counts["ignored"]
          /\ counts'["failed"] = counts["failed"] + 1
          /\ counts'["fetched"] = counts["fetched"] + 1
      BY <1>3, <2>1 DEF Kinds
    <3>2. counts' \in [Kinds -> Nat]
      BY <1>3, <2>1 DEF Kinds
    <3>3. counts["saved"] \in Nat /\ counts["ignored"] \in Nat /\ counts["failed"] \in Nat
      BY <1>3 DEF Kinds
    <3> QED BY <3>1, <3>2, <3>3
  <2>3. Books => Books'
    BY <1>1, <1>5, <2>1, <2>2, OneMoreCounted DEF Busy
  <2> QED BY <1>1, <1>2, <1>3, <1>5, <2>1, <2>2, <2>3, WorkerMoves DEF CycleInv
<1>9. ASSUME NEW q \in Live, Fetched(w, q) PROVE CycleInv'
  <2> DEFINE x == [worker[w] EXCEPT !.pc = "sem", !.quote = q]
  <2>1. /\ Becomes(w, x) /\ worker[w].pc = "fetch" /\ disturbed' = disturbed
        /\ counts' = [counts EXCEPT !["fetched"] = @ + 1]
    BY <1>9 DEF Fetched, Count
  <2>2. x.pc = "sem"
    BY DEF Workers
  <2> HIDE DEF x
  <2>3. Books => Books'
    BY <1>1, <1>3, <1>4, <2>1, <2>2 DEF Books, b, f, Busy, Kinds
  <2>4. counts' \in [Kinds -> Nat]
    BY <1>3, <2>1 DEF Kinds
  <2> QED BY <1>1, <1>2, <1>3, <2>1, <2>2, <2>3, <2>4, WorkerMoves DEF CycleInv
<1>10. CASE Acquire(w)
  <2> DEFINE x == [worker[w] EXCEPT !.pc = "save"]
  <2>1. Becomes(w, x) /\ worker[w].pc = "sem" /\ UNCHANGED <<counts, disturbed>>
    BY <1>10 DEF Acquire
  <2>2. x.pc = "save"
    BY DEF Workers
  <2> HIDE DEF x
  <2>3. Books => Books'
    BY <1>1, <1>3, <1>4, <2>1, <2>2 DEF Books, b, f, Busy
  <2> QED BY <1>1, <1>2, <1>3, <2>1, <2>2, <2>3, WorkerMoves DEF CycleInv
<1>11. CASE AcquireCancelled(w)
  <2>1. Becomes(w, back) /\ cancelled /\ UNCHANGED <<counts, disturbed>>
    BY <1>11 DEF back, AcquireCancelled, Back
  <2> QED BY <1>1, <1>2, <1>3, <1>5, <2>1, WorkerMoves DEF CycleInv
<1>12. CASE SaveDone(w)
  <2>1. PICK k \in {"saved", "ignored", "failed"} :
          /\ Becomes(w, back) /\ worker[w].pc = "save" /\ disturbed' = disturbed
          /\ counts' = [counts EXCEPT ![k] = @ + 1]
    BY <1>12 DEF back, SaveDone, Back, Count
  <2>2. /\ counts' \in [Kinds -> Nat] /\ counts'["fetched"] = counts["fetched"]
        /\ counts'["saved"] + counts'["ignored"] + counts'["failed"] =
             counts["saved"] + counts["ignored"] + counts["failed"] + 1
    <3>1. counts' \in [Kinds -> Nat] /\ counts["saved"] \in Nat /\ counts["ignored"] \in Nat
          /\ counts["failed"] \in Nat
      BY <1>3, <2>1 DEF Kinds
    <3>2. \A j \in Kinds : counts'[j] = IF j = k THEN counts[j] + 1 ELSE counts[j]
      BY <1>3, <2>1 DEF Kinds
    <3>3. CASE k = "saved"
      BY <3>1, <3>2, <3>3 DEF Kinds
    <3>4. CASE k = "ignored"
      BY <3>1, <3>2, <3>4 DEF Kinds
    <3>5. CASE k = "failed"
      BY <3>1, <3>2, <3>5 DEF Kinds
    <3> QED BY <3>3, <3>4, <3>5
  <2>3. Books => Books'
    BY <1>1, <1>5, <2>1, <2>2, OneMoreCounted DEF Busy
  <2> QED BY <1>1, <1>2, <1>3, <1>5, <2>1, <2>2, <2>3, WorkerMoves DEF CycleInv
<1>13. CASE Panic(w)
  <2> DEFINE x == [NoJob EXCEPT !.pc = "dead"]
  <2>1. Becomes(w, x) /\ disturbed' = TRUE /\ counts' = counts
    BY <1>13 DEF Panic
  <2>2. x.pc = "dead"
    BY DEF NoJob
  <2> HIDE DEF x
  <2> QED BY <1>1, <1>2, <1>3, <2>1, <2>2, WorkerMoves DEF CycleInv
<1> QED BY <1>6, <1>7, <1>8, <1>9, <1>10, <1>11, <1>12, <1>13

LEMMA CycleStep ==
  ASSUME Workers, CycleInv, [WritersNext]_writersVars
  PROVE  CycleInv'
<1>1. CASE StartCycle
  BY <1>1, StartCycleStep
<1>2. ASSUME NEW w \in Worker, Take(w) PROVE CycleInv'
  BY <1>2, TakeStep
<1>3. ASSUME NEW w \in Worker,
             \/ LeavePool(w) \/ FetchFails(w) \/ FetchMismatch(w)
             \/ \E q \in Live : Fetched(w, q)
             \/ Acquire(w) \/ AcquireCancelled(w)
             \/ SaveDone(w) \/ Panic(w)
      PROVE  CycleInv'
  BY <1>3, WorkerStep
<1>4. CASE EndCycle
  BY <1>4 DEF EndCycle, CycleInv, Channel, Taken, Books, At, Gone
<1>5. CASE Cancel
  BY <1>5 DEF Cancel, CycleInv, Channel, Taken, Books, At, Gone
<1>6. CASE UNCHANGED <<cancelled, cycles, running, queue, worker, counts, fetches, disturbed>>
  BY <1>6 DEF CycleInv, Channel, Taken, Books, At, Gone
<1>7. CASE Attempt \/ Backfill \/ UNCHANGED writersVars
  BY <1>6, <1>7 DEF Attempt, StartAttempt, AttemptFetchFails,
       AttemptFetched, AttemptSave, AttemptEnds, AttemptOnly,
       Backfill, ImportFetched, ImportOne, ImportEnds,
       ImportOnly, writersVars, cycleVars
<1> QED BY <1>1, <1>2, <1>3, <1>4, <1>5, <1>7 DEF WritersNext, Cycle

\* Every slot that is taken is a worker's that saves.
SlotsInv ==
  /\ sem = Cardinality(At(worker, {"save"})) /\ sem <= DBMaxConcurrent
  /\ cycles <= MaxCycles

LEMMA SlotsStep ==
  ASSUME Workers, CycleInv, SlotsInv, [WritersNext]_writersVars
  PROVE  SlotsInv'
<1> DEFINE k == Cardinality(At(worker, {"save"}))
<1>1. cycles \in Nat /\ MaxCycles \in Nat /\ cycles <= MaxCycles /\ sem = k /\ sem <= DBMaxConcurrent
      /\ DBMaxConcurrent \in Nat
  BY WritersAssumption DEF CycleInv, SlotsInv
<1>2. ASSUME NEW w \in Worker, NEW x, Becomes(w, x)
      PROVE  /\ k \in Nat
             /\ Cardinality(At(worker', {"save"})) =
                  k + (IF x.pc = "save" THEN 1 ELSE 0) - (IF worker[w].pc = "save" THEN 1 ELSE 0)
  BY <1>2, Moved
<1> HIDE DEF k
<1> DEFINE back == [NoJob EXCEPT !.pc = "select"]
           dead == [NoJob EXCEPT !.pc = "dead"]
<1>3. back.pc = "select" /\ dead.pc = "dead" /\ NoJob.pc = "left"
  BY DEF NoJob
<1> HIDE DEF back, dead
<1>4. CASE StartCycle
  <2>1. /\ \A w \in Worker : worker[w].pc # "save" /\ worker'[w].pc # "save"
        /\ cycles < MaxCycles /\ cycles' = cycles + 1 /\ sem' = sem
    BY <1>4 DEF StartCycle, NoJob, CycleInv, Gone
  <2>2. k = 0 /\ Cardinality(At(worker', {"save"})) = 0
    BY <2>1, NobodyThere DEF k
  <2> QED BY <1>1, <2>1, <2>2 DEF SlotsInv, At
<1>5. ASSUME NEW w \in Worker, Take(w) PROVE SlotsInv'
  <2> DEFINE x == [NoJob EXCEPT !.pc = "fetch", !.symbol = Head(queue)]
  <2>1. Becomes(w, x) /\ worker[w].pc = "select" /\ UNCHANGED <<sem, cycles>>
    BY <1>5 DEF Take, CycleOnly
  <2>2. x.pc = "fetch"
    BY DEF NoJob
  <2> HIDE DEF x
  <2>3. k \in Nat /\ Cardinality(At(worker', {"save"})) = k
    BY <1>2, <2>1, <2>2
  <2> QED BY <1>1, <2>1, <2>3 DEF SlotsInv, At
<1>6. ASSUME NEW w \in Worker,
             \/ FetchFails(w) \/ FetchMismatch(w) \/ AcquireCancelled(w)
      PROVE  SlotsInv'
  <2>1. Becomes(w, back) /\ worker[w].pc # "save" /\ UNCHANGED <<sem, cycles>>
    BY <1>6 DEF back, Back, FetchFails, FetchMismatch,
                AcquireCancelled, CycleOnly
  <2> QED BY <1>1, <1>2, <1>3, <2>1 DEF SlotsInv, At
<1>7. ASSUME NEW w \in Worker, LeavePool(w) PROVE SlotsInv'
  <2>1. Becomes(w, NoJob) /\ worker[w].pc # "save" /\ UNCHANGED <<sem, cycles>>
    BY <1>7 DEF LeavePool, CycleOnly
  <2> QED BY <1>1, <1>2, <1>3, <2>1 DEF SlotsInv, At
<1>8. ASSUME NEW w \in Worker, NEW q \in Live, Fetched(w, q) PROVE SlotsInv'
  <2> DEFINE x == [worker[w] EXCEPT !.pc = "sem", !.quote = q]
  <2>1. Becomes(w, x) /\ worker[w].pc = "fetch" /\ UNCHANGED <<sem, cycles>>
    BY <1>8 DEF Fetched, CycleOnly
  <2>2. x.pc = "sem"
    BY DEF Workers
  <2> HIDE DEF x
  <2>3. k \in Nat /\ Cardinality(At(worker', {"save"})) = k
    BY <1>2, <2>1, <2>2
  <2> QED BY <1>1, <2>1, <2>3 DEF SlotsInv, At
<1>9. ASSUME NEW w \in Worker, Acquire(w) PROVE SlotsInv'
  <2> DEFINE x == [worker[w] EXCEPT !.pc = "save"]
  <2>1. /\ Becomes(w, x) /\ worker[w].pc = "sem"
        /\ sem < DBMaxConcurrent /\ sem' = sem + 1 /\ cycles' = cycles
    BY <1>9 DEF Acquire, CycleOnly
  <2>2. x.pc = "save"
    BY DEF Workers
  <2> HIDE DEF x
  <2>3. k \in Nat /\ Cardinality(At(worker', {"save"})) = k + 1
    BY <1>2, <2>1, <2>2
  <2> QED BY <1>1, <2>1, <2>3 DEF SlotsInv, At
<1>10. ASSUME NEW w \in Worker, SaveDone(w) PROVE SlotsInv'
  <2>1. Becomes(w, back) /\ worker[w].pc = "save" /\ sem' = sem - 1 /\ cycles' = cycles
    BY <1>10 DEF back, Back, SaveDone, CycleOnly
  <2> QED BY <1>1, <1>2, <1>3, <2>1 DEF SlotsInv, At
<1>11. ASSUME NEW w \in Worker, Panic(w) PROVE SlotsInv'
  <2>1. /\ Becomes(w, dead) /\ cycles' = cycles
        /\ sem' = IF worker[w].pc = "save" THEN sem - 1 ELSE sem
    BY <1>11 DEF dead, Panic, CycleOnly
  <2> QED BY <1>1, <1>2, <1>3, <2>1 DEF SlotsInv, At
<1>12. CASE UNCHANGED <<sem, cycles, worker>>
  BY <1>12 DEF SlotsInv, At
<1>13. CASE EndCycle \/ Attempt \/ Backfill \/ Cancel \/ UNCHANGED writersVars
  BY <1>12, <1>13 DEF EndCycle, Attempt, StartAttempt, AttemptFetchFails,
       AttemptFetched, AttemptSave, AttemptEnds, AttemptOnly,
       Backfill, ImportFetched, ImportOne, ImportEnds,
       ImportOnly, Cancel, writersVars, cycleVars
<1> QED BY <1>4, <1>5, <1>6, <1>7, <1>8, <1>9, <1>10, <1>11, <1>13 DEF WritersNext, Cycle

WInv == Tables /\ Workers /\ AttemptInv /\ ImportInv /\ CycleInv /\ SlotsInv

LEMMA JobsStart ==
  ASSUME WritersInit
  PROVE  WInv
<1>1. Tables
  <2>1. Seed \in Row /\ Dates = Dates
    BY SeedAssumption DEF Row, Source
  <2> QED BY <2>1 DEF WritersInit, Tables
<1>2. Workers
  BY DEF WritersInit, NoJob, Workers
<1>3. AttemptInv /\ ImportInv
  BY DEF WritersInit, Official0, AttemptInv, ImportInv
<1>4. Channel
  BY Listing DEF WritersInit, Channel
<1>5. CycleInv
  <2>1. /\ cycles = 0 /\ running = FALSE /\ cancelled = FALSE /\ disturbed = FALSE
        /\ \A w \in Worker : worker[w].pc = "left"
    BY DEF WritersInit, NoJob
  <2>2. counts \in [Kinds -> Nat]
    BY DEF WritersInit, NoCounts, Kinds
  <2>3. /\ running \in BOOLEAN /\ cancelled \in BOOLEAN /\ disturbed \in BOOLEAN
        /\ ~running /\ ~cancelled
    BY <2>1
  <2>4. \A w \in Worker : worker[w].pc \in Gone /\ worker[w].pc # "dead"
    BY <2>1 DEF Gone
  <2>5. cycles \in Nat /\ ~(cycles > 0)
    BY <2>1
  <2> QED BY <1>4, <2>2, <2>3, <2>4, <2>5 DEF CycleInv
<1>6. SlotsInv
  <2>1. sem = 0 /\ cycles = 0 /\ \A w \in Worker : worker[w].pc # "save"
    BY DEF WritersInit, NoJob
  <2> QED BY <2>1, NobodyThere, WritersAssumption DEF SlotsInv
<1> QED BY <1>1, <1>2, <1>3, <1>5, <1>6 DEF WInv

LEMMA WritersStep ==
  ASSUME WInv, [WritersNext]_writersVars
  PROVE  WInv'
<1>1. Tables /\ Workers /\ AttemptInv /\ ImportInv /\ CycleInv /\ SlotsInv
  BY DEF WInv
<1>2. queue \in Seq(Symbol)
  BY <1>1 DEF CycleInv, Channel
<1> QED BY <1>1, <1>2, TablesStep, WorkersStep, AttemptStep, ImportStep, CycleStep, SlotsStep DEF WInv

LEMMA OfficialInvariant ==
  ASSUME WInv
  PROVE  OfficialStands
<1> SUFFICES ASSUME attempt.pc = "succeeded", NEW s \in Symbol, FileClose(s) # None
             PROVE  LET q == FileClose(s)
                        row == histories[s][AttemptDate]
                    IN /\ AtLeastAsGood(prices[s], q)
                       /\ row # None /\ AtLeastAsGood(row, q)
  BY DEF OfficialStands
<1>1. PICK i \in DOMAIN Listed : Listed[i] = s
  BY Listing
<1>2. Done(prices, histories, i)
  BY DEF WInv, AttemptInv
<1>3. Date(FileClose(s)) = AttemptDate
  BY Listing DEF FileClose
<1> QED BY <1>1, <1>2, <1>3 DEF Done, Shown, Booked

LEMMA BackfillInvariant ==
  ASSUME WInv
  PROVE  BackfillHonest
<1> SUFFICES ASSUME import.pc = "ok", NEW e \in import.seen
             PROVE  LET row == histories[e[1]][Date(Close[e])]
                    IN row # None /\ AtLeastAsGood(row, Close[e])
  BY DEF BackfillHonest
<1>1. Booked(histories, e[1], Close[e])
  BY DEF WInv, ImportInv
<1> QED BY <1>1 DEF Booked

LEMMA CycleInvariant ==
  ASSUME WInv
  PROVE  CycleAccountsForAll
<1> SUFFICES ASSUME ~running, cycles > 0, ~disturbed
             PROVE  /\ \A s \in Symbol : fetches[s] = 1
                    /\ counts["saved"] + counts["ignored"] + counts["failed"] = Len(Listed)
                    /\ counts["fetched"] <= Len(Listed)
  BY DEF CycleAccountsForAll
<1>1. CycleInv
  BY DEF WInv
<1>2. \A w \in Worker : worker[w].pc = "left"
  BY <1>1 DEF CycleInv, Gone
<1>3. queue = <<>> /\ Books
  BY <1>1, <1>2, WritersAssumption DEF CycleInv
<1>4. Cardinality(At(worker, Busy)) = 0 /\ Cardinality(At(worker, {"fetch"})) = 0
  BY <1>2, NobodyThere DEF Busy
<1>5. /\ counts["saved"] \in Nat /\ counts["ignored"] \in Nat /\ counts["failed"] \in Nat
      /\ counts["fetched"] \in Nat
  BY <1>1 DEF CycleInv, Kinds
<1>6. Listed \in Seq(Symbol) /\ Len(Listed) \in Nat /\ DOMAIN Listed = 1..Len(Listed) /\ Len(queue) = 0
  BY <1>3, Listing
<1>7. \A s \in Symbol : fetches[s] = 1
  <2>1. \A i \in DOMAIN Listed : fetches[Listed[i]] = 1
    BY <1>1, <1>6 DEF CycleInv, Channel, Taken
  <2> QED BY <2>1, Listing
<1>8. counts["saved"] + counts["ignored"] + counts["failed"] = Len(Listed)
  BY <1>3, <1>4, <1>5, <1>6 DEF Books
<1>9. counts["fetched"] <= Len(Listed)
  BY <1>3, <1>4, <1>5, <1>6 DEF Books
<1> QED BY <1>7, <1>8, <1>9

LEMMA WritersInvariant == WritersSpec => []WInv
<1>1. WritersInit => WInv
  BY JobsStart
<1>2. WInv /\ [WritersNext]_writersVars => WInv'
  BY WritersStep
<1> QED BY <1>1, <1>2, PTL DEF WritersSpec

LEMMA TypesInvariant ==
  ASSUME WInv
  PROVE  WritersTypeOK
<1>1. sem \in 0..DBMaxConcurrent
  <2>1. Cardinality(At(worker, {"save"})) \in Nat
    BY WritersAssumption, FS_Subset, FS_CardinalityType DEF At
  <2> QED BY <2>1, WritersAssumption DEF WInv, SlotsInv
<1>2. cycles \in 0..MaxCycles
  BY WritersAssumption DEF WInv, CycleInv, SlotsInv
<1>3. prices \in [Symbol -> Row] /\ histories \in [Symbol -> [Dates -> Row \cup {None}]]
  BY DEF WInv, Tables
<1>4. /\ cancelled \in BOOLEAN /\ running \in BOOLEAN /\ disturbed \in BOOLEAN
      /\ counts \in [{"fetched", "saved", "ignored", "failed"} -> Nat]
  BY DEF WInv, CycleInv, Kinds
<1>5. queue \in Seq(Symbol) /\ fetches \in [Symbol -> Nat]
  BY DEF WInv, CycleInv, Channel
<1>6. worker \in [Worker -> [pc : {"select", "fetch", "sem", "save", "left", "dead"},
                             symbol : Symbol \cup {None}, quote : Quote \cup {None}]]
  BY DEF WInv, Workers
<1>7. attempt.pc \in {"off", "list", "save", "again", "succeeded"} /\ import.pc \in {"off", "save", "ok", "failed"}
  BY DEF WInv, AttemptInv, ImportInv
<1> QED BY <1>1, <1>2, <1>3, <1>4, <1>5, <1>6, <1>7 DEF WritersTypeOK

\* Types of the jobs' variables.  No more saves run at once than the pool
\* allows, and a slot is given back however a save ends (processJobWithCycle).
THEOREM WriterTypesHold == WritersSpec => []WritersTypeOK
<1>1. WInv => WritersTypeOK
  BY TypesInvariant
<1> QED BY <1>1, WritersInvariant, PTL

\* The official close that a bhavcopy attempt reported as saved stands: whatever
\* the cycle's workers and a backfill write meanwhile and later, no row of its
\* date and no current row is worse than it (runAttempt, SaveQuote,
\* SaveHistoryQuote).  For any listing, workers, files and dates.
THEOREM ClosesStand == WritersSpec => []OfficialStands
<1>1. WInv => OfficialStands
  BY OfficialInvariant
<1> QED BY <1>1, WritersInvariant, PTL

\* No job loses a symbol or a close in silence: an undisturbed cycle has fetched
\* each symbol once and counts it once, and a backfill that exits with success
\* has booked every close its files had (updatePrices, worker, Run).
THEOREM FailuresAreShown == WritersSpec => []FailuresShow
<1>1. WInv => FailuresShow
  BY CycleInvariant, BackfillInvariant DEF FailuresShow
<1> QED BY <1>1, WritersInvariant, PTL
=============================================================================
