----------------------------- MODULE MCSettlement -----------------------------
(***************************************************************************)
(* A reward of ten shares in A: A splits and gives a bonus, merges into B, *)
(* which splits on that day and later and merges into C, which closes.     *)
(* Two adjustments, which may wait for each other over midnight.           *)
(***************************************************************************)
EXTENDS Settlement

CONSTANTS A, B, C, a1, a2

\* In tenths of a share: ten shares.
TenShares == [symbol |-> A, quantity |-> 100]

Ratio(kind, symbol, date, num, den, inLieu) ==
  [kind |-> kind, symbol |-> symbol, to |-> None, date |-> date, num |-> num, den |-> den,
   inLieu |-> inLieu, cash |-> 0]

Merger(symbol, to, date, num, den, inLieu, cash) ==
  [Ratio("merge", symbol, date, num, den, inLieu) EXCEPT !.to = to, !.cash = cash]

Closing(symbol, date, cash) == [Ratio("delist", symbol, date, 1, 1, 0) EXCEPT !.cash = cash]

\* The split and the merger of day 1 and the split of B on that day meet;
\* the merger into C is on the day of a split of B.
EveryKind == {Ratio("split", A, 1, 1, 3, 20), Ratio("bonus", A, 1, 3, 2, 0),
              Merger(A, B, 1, 2, 3, 0, 5), Ratio("split", B, 1, 3, 1, 0),
              Ratio("split", B, 2, 2, 1, 0), Merger(B, C, 2, 3, 4, 30, 0),
              Closing(C, 3, 7), Merger(B, A, 3, 1, 1, 0, 0)}

\* Units of the day: a share back, most of a reward back, a unit more.
Deltas == {-10, -40, 1}

Adjusters == {a1, a2}
AnyAdjuster == Permutations(Adjusters)
=============================================================================
