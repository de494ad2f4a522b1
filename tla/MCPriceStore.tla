----------------------------- MODULE MCPriceStore -----------------------------
(* Two market dates of three instants; the official close of the first is at  *)
(* its second instant, so a later quote of that date exists.                  *)
EXTENDS PriceStore, TLC

CONSTANTS s1, s2

Q(source, at) == [source |-> source, at |-> at, price |-> at + Rank(source)]

MCInstant == 0..4
MCDate == [t \in MCInstant |-> t \div 3]
MCSeed == [source |-> "seed", at |-> 4, price |-> 1]
MCQuote == {Q("yahoo", 0), Q("nse_bhavcopy", 1), Q("yahoo", 2), Q("simulator", 2), Q("yahoo", 3)}

Symmetric == Permutations({s1, s2})
=============================================================================
