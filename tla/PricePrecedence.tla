--------------------------- MODULE PricePrecedence ---------------------------
(***************************************************************************)
(* Which quote replaces which stored row (price_store.go): the WHERE       *)
(* clauses of the two upserts, shared by everything that writes prices,    *)
(* and what they are meant to achieve.                                     *)
(***************************************************************************)
EXTENDS Integers

CONSTANTS Quote,        \* the quotes providers may deliver
          Instant,      \* the instants that occur, as integers
          MarketDate,   \* instant -> market date (market_date())
          Seed,         \* the row a symbol starts with
          None          \* no row, no quote

Official   == "nse_bhavcopy"
Unsourced  == {"legacy", "seed"}
Provider   == {"yahoo", Official, "simulator"}
Source     == Provider \cup Unsourced

Row   == [source: Source, at: Instant, price: Int]
Date(q) == MarketDate[q.at]
Dates == {MarketDate[t] : t \in Instant}

ASSUME DateAssumption  == /\ Instant \subseteq Int /\ MarketDate \in [Instant -> Int]
                          /\ \A t, u \in Instant : t <= u => MarketDate[t] <= MarketDate[u]
ASSUME QuoteAssumption == Quote \subseteq [source: Provider, at: Instant, price: Int]
ASSUME SeedAssumption  == Seed \in [source: Unsourced, at: Instant, price: Int]
ASSUME NoneAssumption  == None \notin Row

-----------------------------------------------------------------------------
\* market_data_source_rank
Rank(source) == CASE source = Official    -> 3
                  [] source = "yahoo"     -> 2
                  [] source = "simulator" -> 1
                  [] OTHER                -> 0

IsOfficial(q) == q.source = Official
SameDate(q, r) == Date(q) = Date(r)

\* Later, or at the same time from a better source.
Newer(q, r) == \/ q.at > r.at
               \/ q.at = r.at /\ Rank(q.source) > Rank(r.source)

\* Mutant: the WHERE clause without its AND NOT.
TakesCurrentUnguarded(q, r) ==
  \/ r.source \in Unsourced
  \/ Newer(q, r)
  \/ IsOfficial(q) /\ SameDate(q, r)

\* The WHERE clause of upsertCurrentPriceSQL: q replaces the row r.
TakesCurrent(q, r) ==
  /\ \/ r.source \in Unsourced
     \/ Newer(q, r)
     \/ IsOfficial(q) /\ SameDate(q, r)
  /\ ~(~IsOfficial(q) /\ IsOfficial(r) /\ SameDate(q, r))

\* The WHERE clause of upsertHistorySQL.
TakesHistory(q, r) ==
  \/ IsOfficial(q) /\ ~IsOfficial(r)
  \/ r.source \in Unsourced
  \/ ~IsOfficial(r) /\ Newer(q, r)

\* What the precedence rules of price_store.go:71-76 and 111-115 promise, said
\* without the order of arrival: a later market date beats an earlier one, the
\* official close beats its date, otherwise the later quote, then the better
\* source.
AtLeastAsGood(r, q) ==
  /\ r.source \notin Unsourced
  /\ \/ Date(r) > Date(q)
     \/ SameDate(r, q) /\ IsOfficial(r)
     \/ SameDate(r, q) /\ ~IsOfficial(q) /\ ~Newer(q, r)
=============================================================================
