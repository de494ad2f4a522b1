--------------------------- MODULE MCRewardLedger ---------------------------
(* Payloads and first rows of the instances of RewardLedger. *)
EXTENDS RewardLedger, TLC

CONSTANTS r1, r2, r3, w0, ann, bob, tcs, k1, k2

Create(u, q, k) == [kind |-> "create", user |-> u, symbol |-> tcs, qty |-> q, key |-> k]
Reverse(w, q, a, k) == [kind |-> "adjust", reward |-> w, type |-> "reward_reversal",
                        dq |-> -q, da |-> a, key |-> k]
Correct(w, q, a, k) == [kind |-> "adjust", reward |-> w, type |-> "manual_correction",
                        dq |-> q, da |-> a, key |-> k]
MCSymmetry == Permutations({r1, r2, r3})

\* A reward granted yesterday under key k1, with its stored response.
OldGrant == [user |-> ann, symbol |-> tcs, date |-> -1, quantity |-> 2, original |-> 2,
             key |-> k1, response |-> [id |-> w0, amount |-> 2]]
NoSeed  == [w \in {} |-> OldGrant]
OneSeed == [w \in {w0} |-> OldGrant]
\* The same row written before original_response existed.
LegacySeed == [w \in {w0} |-> [OldGrant EXCEPT !.response = None]]

AllPayloads    == {Create(ann, 1, k1), Create(ann, 2, k2), Create(ann, 1, None),
                   Correct(w0, -2, 0, None), Reverse(w0, 1, 1, k2)}
                    \cup {Reverse(r, 1, 1, k2) : r \in Request}
LedgerPayloads == {Create(ann, 2, k1), Create(ann, 1, None), Correct(w0, -2, 0, None), Reverse(w0, 1, 1, k2)}
                    \cup {Reverse(r, 1, 1, k2) : r \in Request}
RetryPayloads  == {Reverse(w0, 2, 1, k1)}
OnePayload     == {Create(ann, 1, k1)}
=============================================================================
