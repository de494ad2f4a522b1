---------------------------- MODULE MCResponseCache ----------------------------
(* Two cached reads and an uncached one of one user on a process with the     *)
(* primary and one with a replica; two pages of a user.                       *)
EXTENDS ResponseCache, TLC

CONSTANTS p1, p2, a, b, r1, r2, r3, w1, w2

Pages      == {"/portfolio/1", "/portfolio/1?limit=1"}
PagesOwner == [k \in Pages |-> a]

Reads       == {"/portfolio/1", "/stats/1", "/today-stocks/1"}
CachedReads == Reads \ {"/today-stocks/1"}
ReadsOwner  == [k \in Reads |-> a]

NoLag      == [p \in Process |-> 0]
ReplicaLag == [p \in Process |-> IF p = p2 THEN 1 ELSE 0]

Symmetric == Permutations({r1, r2, r3}) \cup Permutations({w1, w2})
=============================================================================
