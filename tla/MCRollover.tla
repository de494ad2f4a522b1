----------------------------- MODULE MCRollover -----------------------------
(***************************************************************************)
(* A split and a delisting of one stock on following days and one reward,  *)
(* granted by a transaction that may take days; three days and one         *)
(* trouble; two worker replicas and one event, or one replica and both.    *)
(***************************************************************************)
EXTENDS Rollover

CONSTANTS split, delist, stock, p1, p2

MCWorkload == {{p1, p2, split}, {p1, p2, delist}, {p1, split, delist}}
MCEvent == {split, delist}
MCSplit == {split}
MCDelist == {delist}
MCReward == {1}
MCSymbol == {stock}
MCSymbolOf == [x \in MCEvent \cup MCReward |-> stock]
MCEffective == [e \in MCEvent |-> IF e = split THEN 1 ELSE 2]
=============================================================================
