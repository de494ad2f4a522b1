--------------------------- MODULE UserRateLimiter ---------------------------
(***************************************************************************)
(* The per-process token-bucket limiter of the read routes                 *)
(* (rate_limit.go).  Every call of allow runs under the limiter's mutex    *)
(* and reads the clock inside it, so one call is one step.                 *)
(*                                                                         *)
(* Tokens are counted in fractions: a request costs Unit of them and Rate  *)
(* of them flow back per tick (a second).  Rounding of the float64 tokens  *)
(* is not modelled.                                                        *)
(***************************************************************************)
EXTENDS Integers, Sequences, SequencesExt

CONSTANTS Key,        \* "user:<id>" and "ip:<address>"
          Unit,       \* token fractions one request costs
          Rate,       \* token fractions regained per tick
          Burst,      \* the bucket's size, in requests
          MaxKeys, IdleTTL,
          SweepEvery, \* 1024 in the code: sweep when the map's size divides by it
          MaxTime,
          None

VARIABLES clock,
          lru,        \* keys that have a bucket, most recently used first
          tokens,     \* a bucket's tokens; meaningful for the keys in lru
          last,       \* when the bucket was last refilled and seen
          granted,    \* history: requests let through per key and tick
          promised    \* history: the time a rejected client was told to retry at

vars == <<clock, lru, tokens, last, granted, promised>>

\* NewUserRateLimiter: with rate <= 0 or burst < 1 the limiter is disabled and
\* is not modelled; maxKeys is at least 1.
ASSUME LimiterAssumption ==
  /\ Unit \in Nat \ {0} /\ Rate \in Nat \ {0} /\ Burst \in Nat \ {0}
  /\ MaxKeys \in Nat \ {0} /\ SweepEvery \in Nat \ {0} /\ IdleTTL \in Nat \ {0}
  /\ MaxTime \in Nat
  /\ None \notin Nat

Full == Burst * Unit

TypeOK ==
  /\ clock \in 0..MaxTime
  /\ lru \in Seq(Key) /\ IsInjective(lru) /\ Len(lru) <= MaxKeys
  /\ tokens \in [Key -> 0..Full]
  /\ last \in [Key -> 0..MaxTime] /\ \A k \in Key : last[k] <= clock
  /\ granted \in [Key -> [0..MaxTime -> Nat]]
  /\ promised \in [Key -> Nat \cup {None}]

-----------------------------------------------------------------------------
HasBucket(k) == k \in ToSet(lru)

\* Mutant: the refill is not capped at the burst.
RefilledUncapped(k) ==
  IF HasBucket(k) THEN tokens[k] + (clock - last[k]) * Rate ELSE Full

\* A new bucket is full; an old one regains what flowed since it was last seen.
Refilled(k) ==
  LET regained == tokens[k] + (clock - last[k]) * Rate
  IN IF ~HasBucket(k) THEN Full
     ELSE IF regained > Full THEN Full ELSE regained

MostRecent(k) == <<k>> \o RemoveFirst(lru, k)

\* evictLocked, first loop: the least recently used keys beyond maxKeys go.
Bounded(keys) == IF Len(keys) > MaxKeys THEN SubSeq(keys, 1, MaxKeys) ELSE keys

\* evictLocked, second loop: from the back, while idle for idleTTL.  The
\* caller's own bucket was seen now.
Swept(k, keys) ==
  LET busy == {i \in DOMAIN keys : keys[i] = k \/ clock - last[keys[i]] < IdleTTL}
  IN IF Len(keys) % SweepEvery # 0 THEN keys
     ELSE SubSeq(keys, 1, CHOOSE i \in busy : \A j \in busy : j <= i)

\* Mutant: a rejected request pays what it has.
LeftNothing(t) == IF t >= Unit THEN t - Unit ELSE 0

Left(t) == IF t >= Unit THEN t - Unit ELSE t

\* The Retry-After header of a rejection: ceil((1 - tokens) / rate) seconds.
Wait(t) == (Unit - t + Rate - 1) \div Rate

\* UserRateLimiter.allow, then the middleware's pass or 429.
Allow(k) ==
  LET t    == Refilled(k)
      kept == Bounded(MostRecent(k))
  IN /\ lru' = Swept(k, kept)
     /\ tokens' = [tokens EXCEPT ![k] = Left(t)]
     /\ last' = [last EXCEPT ![k] = clock]
     /\ promised' = [promised EXCEPT ![k] = IF t >= Unit THEN None
                                            ELSE IF @ = None THEN clock + Wait(t) ELSE @]
     \* An evicted key starts a new history; a swept one does not.
     /\ granted' = [x \in Key |->
                      IF x # k /\ HasBucket(x) /\ x \notin ToSet(kept)
                      THEN [i \in 0..MaxTime |-> 0]
                      ELSE IF x = k /\ t >= Unit THEN [granted[k] EXCEPT ![clock] = @ + 1]
                      ELSE granted[x]]
     /\ UNCHANGED clock

Tick == /\ clock < MaxTime
        /\ clock' = clock + 1
        /\ UNCHANGED <<lru, tokens, last, granted, promised>>

Init ==
  /\ clock = 0
  /\ lru = <<>>
  /\ tokens = [k \in Key |-> 0]
  /\ last = [k \in Key |-> 0]
  /\ granted = [k \in Key |-> [i \in 0..MaxTime |-> 0]]
  /\ promised = [k \in Key |-> None]

Next == (\E k \in Key : Allow(k)) \/ Tick

Spec == Init /\ [][Next]_vars

-----------------------------------------------------------------------------
(* Properties *)

\* What the limiter is for: in any window of time a user gets at most the burst
\* plus what the rate let flow in, also when its idle bucket was swept and made
\* anew -- provided an idle bucket has refilled by then, which 20 requests a
\* second, a burst of 40 and ten minutes satisfy.  Only eviction at maxKeys
\* starts a key afresh.
WindowBounded ==
  Rate * IdleTTL >= Full =>
    \A k \in Key : \A s \in 0..clock : \A t \in s..clock :
      Unit * SumFunctionOnSet(granted[k], s..t) <= Full + Rate * (t - s)

\* A rejected client that comes back at the time Retry-After named is let
\* through, however often it tried too early and whatever was evicted or swept
\* meanwhile.
RetryAfterHonest ==
  [][\A k \in Key : (Allow(k) /\ promised[k] # None /\ clock >= promised[k])
                       => promised'[k] = None]_vars
=============================================================================
