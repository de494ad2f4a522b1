------------------------------ MODULE MCRebuild ------------------------------
(* Two rewards of one user that an earlier merger put in one position, one of *)
(* another user dated in the future, and one of a new symbol: a live grant    *)
(* adds it, a live event delists it.                                          *)
EXTENDS Rebuild, TLC

MCUser == {1, 2}
MCReward == {1, 2, 3, 4}
MCOwner == (1 :> 1) @@ (2 :> 2) @@ (3 :> 1) @@ (4 :> 1)
MCOrigin == (1 :> "A") @@ (2 :> "A") @@ (3 :> "B") @@ (4 :> "C")
MCSuccessor == ("A" :> "B") @@ ("B" :> None) @@ ("C" :> None)
MCFuture == {2}
MCWriter == {"merger", "grant", "adjust", "delist"}
MCKind == ("merger" :> "event") @@ ("grant" :> "grant") @@ ("adjust" :> "adjust") @@ ("delist" :> "event")
MCOn == ("merger" :> "A") @@ ("grant" :> 4) @@ ("adjust" :> 1) @@ ("delist" :> "C")
MCBefore == {"merger"}
MCDrifts == {[known |-> {1, 2, 3}, old |-> {1, 2}], [known |-> {1}, old |-> {1, 3}],
             [known |-> {2, 3}, old |-> {}]}
MCCommand == {"backfill", "repair"}
MCMode == ("backfill" :> "online") @@ ("repair" :> "offline")

\* One live grant, no event: the smallest live traffic.
GrantWriter == {"grant"}
GrantKind == [t \in GrantWriter |-> "grant"]
GrantOn == [t \in GrantWriter |-> 4]
GrantOwner == (1 :> 1) @@ (4 :> 1)
GrantOrigin == (1 :> "B") @@ (4 :> "B")
GrantMode == [c \in {"backfill"} |-> "online"]
=============================================================================
