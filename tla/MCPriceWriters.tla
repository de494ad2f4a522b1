--------------------------- MODULE MCPriceWriters ---------------------------
\* Two symbols, two workers and one slot.  The attempt, the backfill and the
\* cycle write the same date; the live quote is later than the
\* close.
EXTENDS PriceWriters

CONSTANTS a, b

Q(source, at) == [source |-> source, at |-> at, price |-> at + Rank(source)]

MCInstant == 1..3
MCDate == [t \in MCInstant |-> 1]
MCSeed == [source |-> "seed", at |-> 1, price |-> 1]
MCQuote == {Q("nse_bhavcopy", 2), Q("yahoo", 3)}
MCLive == {Q("yahoo", 3)}
MCListed == <<a, b>>
MCClose == [e \in {a, b} \X {1} |-> Q("nse_bhavcopy", 2)]
MCDays == <<1>>
=============================================================================
