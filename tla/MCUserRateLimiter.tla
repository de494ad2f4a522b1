-------------------------- MODULE MCUserRateLimiter --------------------------
(* Two or three keys; the bound of two makes the third evict.                *)
EXTENDS UserRateLimiter, TLC

CONSTANTS ann, bob, eve

Symmetric == Permutations(Key)
=============================================================================
