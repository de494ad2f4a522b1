--------------------------- MODULE RateLimiterProofs ---------------------------
(***************************************************************************)
(* The two rate limiters of the program.                                   *)
(*                                                                         *)
(* UserRateLimiter, of the read routes: Retry-After is honest, and no      *)
(* window of time holds more requests than the burst and the rate allow,   *)
(* for every rate, burst, number of keys and idle time.  The first needs   *)
(* nothing of the LRU list; the second needs that eviction and the sweep   *)
(* leave the caller's bucket and that a swept bucket had refilled.         *)
(*                                                                         *)
(* MarketFetch, of the market-data client: slots are spaced and    *)
(* pauses kept for any number of workers and attempts and any durations.   *)
(* The limiter's promise is kept in next: every slot handed out lies at    *)
(* least an interval before it, and a new slot is never before it.  The    *)
(* promise about sending needs the worker's own wake, which no one else    *)
(* writes while it waits.                                                  *)
(***************************************************************************)
EXTENDS UserRateLimiter, MarketFetch, DataFacts, TLAPS

-----------------------------------------------------------------------------
(* The limiter of the read routes                                          *)

\* What the argument needs of the types.
Numbers ==
  /\ clock \in Nat
  /\ tokens \in [Key -> 0..Full]
  /\ last \in [Key -> Nat]
  /\ \A k \in Key : last[k] <= clock
  /\ promised \in [Key -> Nat \cup {None}]

\* At the time a rejected client was told, its bucket will hold a request.
PromisesBacked ==
  \A k \in Key :
    promised[k] # None => tokens[k] + (promised[k] - last[k]) * Rate >= Unit

-----------------------------------------------------------------------------
(* Arithmetic *)

LEMMA FullIsNat == Full \in Nat /\ Full >= Unit
<1>1. Unit \in Nat /\ Unit > 0 /\ Burst \in Nat /\ Burst >= 1
  BY LimiterAssumption
<1>2. Burst * Unit \in Nat
  BY <1>1
<1>3. Burst * Unit >= 1 * Unit
  <2>1. \A u \in Nat : \A b \in Nat : b >= 1 => b * u >= u
    BY SMT
  <2> QED BY <1>1, <2>1
<1> QED BY <1>1, <1>2, <1>3 DEF Full

\* The rounded-up wait is long enough.
LEMMA WaitIsEnough ==
  ASSUME NEW t \in Nat, t < Unit
  PROVE  Wait(t) \in Nat /\ t + Wait(t) * Rate >= Unit
<1> DEFINE n == Unit - t + Rate - 1
<1>1. n \in Nat /\ Rate \in Nat /\ Rate > 0 /\ Unit \in Nat
  BY LimiterAssumption
<1>2. n = Rate * (n \div Rate) + (n % Rate) /\ n % Rate \in 0..(Rate - 1) /\ n \div Rate \in Int
  <2> HIDE DEF n
  <2> QED BY <1>1
<1>3. n \div Rate >= 0
  <2> HIDE DEF n
  <2> QED BY <1>1
<1>4. Rate * (n \div Rate) = (n \div Rate) * Rate
  <2> HIDE DEF n
  <2> QED BY <1>1, <1>2
<1>5. (n \div Rate) * Rate >= n - (Rate - 1)
  <2> DEFINE q == n \div Rate   m == n % Rate   p == q * Rate
  <2>1. n = p + m /\ m <= Rate - 1 /\ m \in Int /\ p \in Int /\ n \in Int
    <3> HIDE DEF n
    <3> QED BY <1>1, <1>2, <1>4
  <2> HIDE DEF n, q, m, p
  <2>2. p >= n - (Rate - 1)
    BY <2>1, <1>1
  <2> QED BY <2>2 DEF p, q
<1>6. (n \div Rate) * Rate >= Unit - t
  <2> DEFINE p == (n \div Rate) * Rate
  <2>1. p \in Int
    <3> HIDE DEF n
    <3> QED BY <1>1, <1>2
  <2>2. p >= n - (Rate - 1)
    BY <1>5
  <2> HIDE DEF p
  <2>3. p >= Unit - t
    BY <2>1, <2>2, <1>1
  <2> QED BY <2>3 DEF p
<1>7. Wait(t) = n \div Rate
  BY DEF Wait
<1>8. t + (n \div Rate) * Rate >= Unit
  <2> DEFINE p == (n \div Rate) * Rate
  <2>1. p \in Int /\ p >= Unit - t
    <3>1. p >= Unit - t
      BY <1>6
    <3>2. p \in Int
      <4> HIDE DEF n
      <4> QED BY <1>1, <1>2
    <3> QED BY <3>1, <3>2
  <2> HIDE DEF p
  <2>2. t + p >= Unit
    BY <2>1, <1>1
  <2> QED BY <2>2 DEF p
<1> QED
  <2> HIDE DEF n
  <2> QED BY <1>2, <1>3, <1>7, <1>8

LEMMA Distributes ==
  ASSUME NEW p \in Int, NEW c \in Int, NEW l \in Int
  PROVE  (c - l) * Rate + (p - c) * Rate = (p - l) * Rate
BY LimiterAssumption, SMT

LEMMA Monotone ==
  ASSUME NEW x \in Int, NEW y \in Int, x <= y
  PROVE  x * Rate <= y * Rate
<1>1. Rate \in Nat
  BY LimiterAssumption
<1>2. \A a, b \in Int : \A n \in Nat : a <= b => a * n <= b * n
  BY SMT
<1> QED BY <1>1, <1>2

-----------------------------------------------------------------------------
(* One call of allow *)

LEMMA RefillBounds ==
  ASSUME Numbers, NEW k \in Key
  PROVE  /\ Refilled(k) \in 0..Full
         /\ Refilled(k) < Unit => Refilled(k) = tokens[k] + (clock - last[k]) * Rate
<1> DEFINE flow == (clock - last[k]) * Rate
<1>1. flow \in Nat
  <2>1. clock - last[k] \in Nat /\ Rate \in Nat
    BY LimiterAssumption DEF Numbers
  <2> QED BY <2>1
<1>2. tokens[k] \in Nat
  BY FullIsNat DEF Numbers
<1>3. Refilled(k) = IF ~HasBucket(k) THEN Full
                    ELSE IF tokens[k] + flow > Full THEN Full ELSE tokens[k] + flow
  BY DEF Refilled
<1> HIDE DEF flow
<1>4. Refilled(k) \in 0..Full
  BY <1>1, <1>2, <1>3, FullIsNat
<1>5. Refilled(k) < Unit => Refilled(k) = tokens[k] + flow
  BY <1>1, <1>2, <1>3, FullIsNat, LimiterAssumption
<1> QED BY <1>4, <1>5 DEF flow

\* A client that comes back in time finds a whole request in its bucket.
LEMMA BackInTime ==
  ASSUME Numbers, PromisesBacked, NEW k \in Key, promised[k] # None, clock >= promised[k]
  PROVE  Refilled(k) >= Unit
<1> SUFFICES ASSUME Refilled(k) < Unit
             PROVE  FALSE
  <2>1. Refilled(k) \in Int /\ Unit \in Int
    BY RefillBounds, FullIsNat, LimiterAssumption
  <2> QED BY <2>1
<1> DEFINE flowed == (clock - last[k]) * Rate   flowing == (promised[k] - last[k]) * Rate
<1>1. promised[k] \in Nat /\ clock \in Nat /\ last[k] \in Nat /\ tokens[k] \in Nat
  BY FullIsNat DEF Numbers
<1>2. flowing <= flowed
  BY <1>1, Monotone
<1>3. tokens[k] + flowing >= Unit
  BY DEF PromisesBacked
<1>4. Refilled(k) = tokens[k] + flowed
  BY RefillBounds
<1>5. flowed \in Int /\ flowing \in Int /\ Unit \in Int
  BY <1>1, LimiterAssumption
<1> HIDE DEF flowed, flowing
<1>6. tokens[k] + flowed < Unit
  BY <1>4
<1> QED BY <1>1, <1>2, <1>3, <1>5, <1>6

LEMMA AllowKeepsNumbers ==
  ASSUME Numbers, NEW k \in Key, Allow(k)
  PROVE  Numbers'
<1> DEFINE t == Refilled(k)
<1>1. t \in 0..Full
  BY RefillBounds
<1>2. Left(t) \in 0..Full
  BY <1>1, FullIsNat, LimiterAssumption DEF Left
<1>3. /\ tokens' = [tokens EXCEPT ![k] = Left(t)]
      /\ last' = [last EXCEPT ![k] = clock]
      /\ promised' = [promised EXCEPT ![k] = IF t >= Unit THEN None
                                             ELSE IF @ = None THEN clock + Wait(t) ELSE @]
      /\ clock' = clock
  BY DEF Allow
<1>4. t < Unit => clock + Wait(t) \in Nat
  <2>1. t \in Nat
    BY <1>1, FullIsNat
  <2>2. t < Unit => Wait(t) \in Nat
    <3> HIDE DEF t
    <3> QED BY <2>1, WaitIsEnough
  <2> QED BY <2>2 DEF Numbers
<1> HIDE DEF t
<1>5. tokens' \in [Key -> 0..Full]
  BY <1>2, <1>3 DEF Numbers
<1>6. last' \in [Key -> Nat] /\ \A x \in Key : last'[x] <= clock'
  BY <1>3 DEF Numbers
<1>7. promised' \in [Key -> Nat \cup {None}]
  <2>1. ~(t >= Unit) => t < Unit
    BY <1>1, FullIsNat, LimiterAssumption
  <2> QED BY <1>3, <1>4, <2>1 DEF Numbers
<1>8. Full' = Full
  BY DEF Full
<1> QED BY <1>3, <1>5, <1>6, <1>7, <1>8 DEF Numbers

LEMMA AllowKeepsPromises ==
  ASSUME Numbers, PromisesBacked, NEW k \in Key, Allow(k)
  PROVE  PromisesBacked'
<1> DEFINE t == Refilled(k)
<1>1. /\ tokens' = [tokens EXCEPT ![k] = Left(t)]
      /\ last' = [last EXCEPT ![k] = clock]
      /\ promised' = [promised EXCEPT ![k] = IF t >= Unit THEN None
                                             ELSE IF @ = None THEN clock + Wait(t) ELSE @]
  BY DEF Allow
<1>2. t \in 0..Full /\ Full \in Nat /\ Unit \in Nat
  BY RefillBounds, FullIsNat, LimiterAssumption
<1>3. t < Unit => t = tokens[k] + (clock - last[k]) * Rate
  BY RefillBounds
<1>4. clock \in Nat /\ last[k] \in Nat /\ tokens[k] \in Nat
  BY FullIsNat DEF Numbers
<1> HIDE DEF t
<1> SUFFICES ASSUME NEW x \in Key, promised'[x] # None
             PROVE  tokens'[x] + (promised'[x] - last'[x]) * Rate >= Unit
  BY DEF PromisesBacked
<1>5. CASE x # k
  <2>1. tokens'[x] = tokens[x] /\ last'[x] = last[x] /\ promised'[x] = promised[x]
    BY <1>1, <1>5 DEF Numbers
  <2> QED BY <2>1 DEF PromisesBacked
<1>6. CASE x = k
  <2>1. t < Unit
    <3>1. ~(t >= Unit)
      BY <1>1, <1>6 DEF Numbers
    <3> QED BY <3>1, <1>2
  <2>2. tokens'[k] = t /\ last'[k] = clock
    <3>1. ~(t >= Unit)
      BY <2>1, <1>2
    <3> QED BY <1>1, <3>1 DEF Numbers, Left
  <2>3. CASE promised[k] = None
    <3>1. promised'[k] = clock + Wait(t)
      <4>1. ~(t >= Unit)
        BY <2>1, <1>2
      <4> QED BY <1>1, <4>1, <2>3 DEF Numbers
    <3>2. Wait(t) \in Nat /\ t + Wait(t) * Rate >= Unit
      BY <1>2, <2>1, WaitIsEnough
    <3>3. promised'[k] - last'[k] = Wait(t)
      BY <2>2, <3>1, <3>2, <1>4
    <3> QED BY <1>6, <2>2, <3>2, <3>3
  <2>4. CASE promised[k] # None
    <3>1. promised'[k] = promised[k]
      <4>1. ~(t >= Unit)
        BY <2>1, <1>2
      <4> QED BY <1>1, <4>1, <2>4 DEF Numbers
    <3> DEFINE gone == (clock - last[k]) * Rate
               left == (promised[k] - clock) * Rate
               both == (promised[k] - last[k]) * Rate
    <3>2. promised[k] \in Nat
      BY <2>4 DEF Numbers
    <3>3. gone + left = both
      <4>1. promised[k] \in Int /\ clock \in Int /\ last[k] \in Int
        BY <1>4, <3>2
      <4> HIDE DEF gone, left, both
      <4>2. \A p, c, l \in Int : (c - l) * Rate + (p - c) * Rate = (p - l) * Rate
        BY Distributes
      <4> QED BY <4>1, <4>2 DEF gone, left, both
    <3>4. tokens[k] + both >= Unit
      BY <2>4 DEF PromisesBacked
    <3>5. gone \in Int /\ left \in Int /\ both \in Int
      BY <1>4, <3>2, LimiterAssumption
    <3>6. t = tokens[k] + gone
      BY <1>3, <2>1
    <3>7. tokens'[k] + (promised'[k] - last'[k]) * Rate = t + left
      BY <2>2, <3>1
    <3> HIDE DEF gone, left, both
    <3>8. t + left >= Unit
      BY <3>3, <3>4, <3>5, <3>6, <1>4, <1>2
    <3> QED BY <1>6, <3>7, <3>8
  <2> QED BY <2>3, <2>4
<1> QED BY <1>5, <1>6

-----------------------------------------------------------------------------
\* Tokens stay between nothing and the burst, and every promise a rejection
\* made is backed by the bucket (rate_limit.go: allow).
THEOREM PromisesHold == Spec => [](Numbers /\ PromisesBacked)
<1>1. Init => Numbers /\ PromisesBacked
  BY FullIsNat DEF Init, Numbers, PromisesBacked
<1>2. Numbers /\ PromisesBacked /\ [Next]_vars => Numbers' /\ PromisesBacked'
  <2> SUFFICES ASSUME Numbers, PromisesBacked, [Next]_vars
               PROVE  Numbers' /\ PromisesBacked'
    OBVIOUS
  <2>1. CASE \E k \in Key : Allow(k)
    BY <2>1, AllowKeepsNumbers, AllowKeepsPromises
  <2>2. CASE Tick
    BY <2>2 DEF Tick, Numbers, PromisesBacked, Full
  <2>3. CASE UNCHANGED vars
    BY <2>3 DEF vars, Numbers, PromisesBacked, Full
  <2> QED BY <2>1, <2>2, <2>3 DEF Next
<1> QED BY <1>1, <1>2, PTL DEF Spec

\* Whoever waits as long as Retry-After says is let through, whatever else the
\* limiter is asked meanwhile.
THEOREM RetryIsHonest == Spec => RetryAfterHonest
<1>1. Numbers /\ PromisesBacked /\ [Next]_vars =>
        [\A k \in Key : (Allow(k) /\ promised[k] # None /\ clock >= promised[k])
                          => promised'[k] = None]_vars
  <2> SUFFICES ASSUME Numbers, PromisesBacked, NEW k \in Key, Allow(k),
                      promised[k] # None, clock >= promised[k]
               PROVE  promised'[k] = None
    OBVIOUS
  <2>1. Refilled(k) >= Unit
    BY BackInTime
  <2> QED BY <2>1 DEF Allow, Numbers
<1> QED BY <1>1, PromisesHold, PTL DEF Spec, RetryAfterHonest
-----------------------------------------------------------------------------
(* Windows: how many requests a key got from one tick to another *)

\* What a history of grants says of the window from s to t.
Spent(g, s, t) == Unit * SumFunctionOnSet(g, s..t)

History == [0..MaxTime -> Nat]

LEMMA WindowFinite == \A s, t \in Nat : IsFiniteSet(s..t)
BY FS_Interval

LEMMA TimesUnit ==
  ASSUME NEW n \in Int
  PROVE  Unit * n \in Int /\ Unit * (n + 1) = Unit * n + Unit /\ Unit * 0 = 0
<1>1. Unit \in Int
  BY LimiterAssumption
<1>2. \A u, m \in Int : u * m \in Int /\ u * (m + 1) = u * m + u /\ u * 0 = 0
  BY SMT
<1>3. QED BY <1>1, <1>2

LEMMA SpentIsInt ==
  ASSUME NEW g \in History, NEW s \in Nat, NEW t \in 0..MaxTime
  PROVE  SumFunctionOnSet(g, s..t) \in Int /\ Spent(g, s, t) \in Int
<1> DEFINE W == s..t
<1>1. IsFiniteSet(W) /\ \A i \in W : g[i] \in Int
  BY WindowFinite, LimiterAssumption DEF History
<1> HIDE DEF W
<1>2. SumFunctionOnSet(g, W) \in Int
  BY <1>1, SumRemove
<1>3. QED BY <1>2, TimesUnit DEF W, Spent

\* Histories that agree on a window agree on what was spent in it.
LEMMA SpentSame ==
  ASSUME NEW g, NEW h, NEW s \in Nat, NEW t \in Nat, \A i \in s..t : h[i] = g[i]
  PROVE  Spent(h, s, t) = Spent(g, s, t)
BY WindowFinite, SumSame DEF Spent

LEMMA SpentNothing ==
  ASSUME NEW g, NEW s \in Nat, NEW t \in Nat, \A i \in s..t : g[i] = 0
  PROVE  Spent(g, s, t) = 0
<1> DEFINE W == s..t
<1>1. IsFiniteSet(W) /\ \A i \in W : g[i] = 0
  BY WindowFinite
<1> HIDE DEF W
<1>2. SumFunctionOnSet(g, W) = 0
  BY <1>1, SumOfZeros
<1>3. QED BY <1>2, TimesUnit DEF Spent, W

\* A tick without a grant adds nothing to a window.
LEMMA SpentLonger ==
  ASSUME NEW g \in History, NEW s \in Nat, NEW c \in 0..MaxTime, c + 1 <= MaxTime,
         s <= c + 1, g[c + 1] = 0
  PROVE  Spent(g, s, c + 1) = Spent(g, s, c)
<1> DEFINE W == s..(c + 1)
<1>1. IsFiniteSet(W) /\ c + 1 \in W /\ \A i \in W : g[i] \in Int
  <2>1. c + 1 \in Nat /\ MaxTime \in Nat
    BY LimiterAssumption
  <2>2. QED BY <2>1, WindowFinite DEF History
<1>2. W \ {c + 1} = s..c
  OBVIOUS
<1>3. SumFunctionOnSet(g, s..c) \in Int
  BY SpentIsInt
<1> DEFINE d == c + 1
<1>4. SumFunctionOnSet(g, W) = g[d] + SumFunctionOnSet(g, W \ {d})
  <2> HIDE DEF W
  <2>1. QED BY <1>1, SumRemove
<1>5. SumFunctionOnSet(g, W) = SumFunctionOnSet(g, s..c)
  <2> DEFINE rest == SumFunctionOnSet(g, W \ {d})
  <2>1. rest = SumFunctionOnSet(g, s..c) /\ g[d] = 0
    BY <1>2
  <2>2. SumFunctionOnSet(g, W) = 0 + rest
    BY <1>4, <2>1
  <2> HIDE DEF rest, W
  <2>3. QED BY <1>3, <2>1, <2>2
<1>6. QED BY <1>5 DEF Spent

\* A grant costs one request in every window it lies in.
LEMMA SpentMore ==
  ASSUME NEW g \in History, NEW s \in Nat, NEW c \in 0..MaxTime, s <= c
  PROVE  Spent([g EXCEPT ![c] = @ + 1], s, c) = Spent(g, s, c) + Unit
<1> DEFINE W == s..c
           h == [g EXCEPT ![c] = @ + 1]
<1>1. IsFiniteSet(W) /\ c \in W /\ (\A i \in W : g[i] \in Int /\ h[i] \in Int)
  <2>1. c \in Nat /\ MaxTime \in Nat
    BY LimiterAssumption
  <2>2. QED BY <2>1, WindowFinite DEF History
<1>2. h[c] = g[c] + 1 /\ (\A i \in W \ {c} : h[i] = g[i]) /\ IsFiniteSet(W \ {c})
  BY <1>1, FS_Subset DEF History
<1> DEFINE rest == SumFunctionOnSet(g, W \ {c})
<1> HIDE DEF W, h
<1>3. SumFunctionOnSet(g, W) = g[c] + rest
  BY <1>1, SumRemove
<1>4. SumFunctionOnSet(h, W) = h[c] + SumFunctionOnSet(h, W \ {c})
  BY <1>1, SumRemove
<1>5. SumFunctionOnSet(h, W \ {c}) = rest /\ rest \in Int
  BY <1>1, <1>2, SumSame, SumRemove
<1> HIDE DEF rest
<1>6. /\ SumFunctionOnSet(h, W) = SumFunctionOnSet(g, W) + 1
      /\ SumFunctionOnSet(g, W) \in Int
  BY <1>1, <1>2, <1>3, <1>4, <1>5
<1>7. QED BY <1>6, TimesUnit DEF Spent, W, h

-----------------------------------------------------------------------------
(* The buckets that eviction and the sweep leave *)

Lists == lru \in Seq(Key)

\* The caller's bucket stays, no other appears, and whatever is neither evicted
\* with its history nor kept had been idle for idleTTL.
LEMMA BucketsLeft ==
  ASSUME Numbers, Lists, NEW k \in Key, Allow(k)
  PROVE  /\ Lists'
         /\ k \in ToSet(lru')
         /\ \A x \in Key \ {k} : x \in ToSet(lru') => HasBucket(x)
         /\ \A x \in Key \ {k} : (HasBucket(x) /\ x \notin ToSet(lru')) =>
              (x \in ToSet(Bounded(MostRecent(k))) => clock - last[x] >= IdleTTL)
<1> DEFINE all == MostRecent(k)
           kept == Bounded(all)
<1>1. /\ all \in Seq(Key) /\ Len(all) >= 1 /\ all[1] = k
      /\ \A i \in DOMAIN all : all[i] # k => all[i] \in ToSet(lru)
  <2>1. lru \in Seq(ToSet(lru)) /\ ToSet(lru) \subseteq Key
    BY DEF Lists, ToSet
  <2> DEFINE tail == RemoveFirst(lru, k)
  <2>2. tail \in Seq(ToSet(lru))
    BY <2>1, RemoveFirstIn
  <2>3. all = <<k>> \o tail
    BY DEF MostRecent
  <2> HIDE DEF tail, all
  <2>4. tail \in Seq(Key)
    BY <2>1, <2>2
  <2>5. all \in Seq(Key) /\ Len(all) = 1 + Len(tail) /\ all[1] = k
    BY <2>3, <2>4
  <2>6. \A i \in DOMAIN all : i # 1 => all[i] = tail[i - 1] /\ i - 1 \in DOMAIN tail
    BY <2>3, <2>4
  <2>7. QED BY <2>2, <2>4, <2>5, <2>6
<1> HIDE DEF all
<1>2. /\ kept \in Seq(Key) /\ Len(kept) >= 1 /\ kept[1] = k
      /\ \A i \in DOMAIN kept : kept[i] # k => kept[i] \in ToSet(lru)
  BY <1>1, LimiterAssumption DEF Bounded
<1> HIDE DEF kept
<1> DEFINE busy == {i \in DOMAIN kept : kept[i] = k \/ clock - last[kept[i]] < IdleTTL}
           m == CHOOSE i \in busy : \A j \in busy : j <= i
<1>3. lru' = IF Len(kept) % SweepEvery # 0 THEN kept ELSE SubSeq(kept, 1, m)
  BY DEF Allow, Swept, kept, all
<1>4. m \in busy /\ (\A j \in busy : j <= m)
  <2>1. busy \in SUBSET (0..Len(kept)) /\ Len(kept) \in Nat /\ 1 \in busy
    BY <1>2
  <2> HIDE DEF busy
  <2>2. \E i \in busy : \A j \in busy : j <= i
    BY <2>1, LastNumber
  <2>3. QED BY <2>2
<1>5. m \in 1..Len(kept)
  BY <1>2, <1>4
<1> HIDE DEF m
<1>6. /\ lru' \in Seq(Key) /\ Len(lru') >= 1 /\ Len(lru') <= Len(kept)
      /\ \A i \in DOMAIN lru' : lru'[i] = kept[i]
      /\ Len(lru') = Len(kept) \/ Len(lru') = m
  BY <1>2, <1>3, <1>5
<1>7. Lists'
  BY <1>6 DEF Lists
<1>8. k \in ToSet(lru')
  BY <1>2, <1>6 DEF ToSet
<1>9. ASSUME NEW x \in Key \ {k}, x \in ToSet(lru') PROVE HasBucket(x)
  <2>1. PICK i \in DOMAIN lru' : lru'[i] = x
    BY <1>9 DEF ToSet
  <2>2. i \in DOMAIN kept /\ kept[i] = x
    BY <1>2, <1>6, <2>1
  <2>3. QED BY <1>2, <2>2, <1>9 DEF HasBucket
<1>10. ASSUME NEW x \in Key \ {k}, x \notin ToSet(lru'), x \in ToSet(kept)
       PROVE  clock - last[x] >= IdleTTL
  <2>1. PICK i \in DOMAIN kept : kept[i] = x
    BY <1>10 DEF ToSet
  <2>2. i \notin DOMAIN lru'
    BY <1>6, <1>10, <2>1 DEF ToSet
  <2>3. i > m
    BY <1>2, <1>5, <1>6, <2>1, <2>2
  <2>4. i \notin busy
    BY <1>4, <1>5, <1>2, <2>1, <2>3
  <2>5. ~(clock - last[x] < IdleTTL)
    BY <2>1, <2>4, <1>10
  <2>6. clock - last[x] \in Int /\ IdleTTL \in Int
    BY LimiterAssumption DEF Numbers
  <2>7. QED BY <2>5, <2>6
<1>11. QED BY <1>7, <1>8, <1>9, <1>10 DEF kept, all

-----------------------------------------------------------------------------
(* WindowBounded *)

Histories ==
  /\ clock \in 0..MaxTime
  /\ granted \in [Key -> History]
  /\ \A k \in Key : \A i \in 0..MaxTime : i > clock => granted[k][i] = 0

\* What a key was given since s and what its bucket holds now, together, are
\* no more than a full bucket and what flowed in since.
Affordable ==
  \A k \in Key : \A s \in 0..clock :
    Spent(granted[k], s, clock) + Refilled(k) <= Full + Rate * (clock - s)

WindowInv ==
  /\ Numbers /\ Lists /\ Histories
  /\ Rate * IdleTTL >= Full => Affordable
  /\ WindowBounded

LEMMA RateTimes ==
  /\ \A n \in Int : Rate * n \in Int /\ Rate * (n + 1) = Rate * n + Rate
  /\ \A n \in Nat : Rate * n \in Nat
  /\ \A n \in Int : n * Rate = Rate * n
  /\ Rate * 0 = 0
  /\ Rate \in Nat
<1>1. Rate \in Nat
  BY LimiterAssumption
<1>2. \A u \in Nat : /\ \A n \in Int : u * n \in Int /\ u * (n + 1) = u * n + u /\ n * u = u * n
                     /\ \A n \in Nat : u * n \in Nat
                     /\ u * 0 = 0
  BY SMT
<1>3. QED BY <1>1, <1>2

\* An idle bucket has refilled: sweeping it makes no difference.
LEMMA IdleIsFull ==
  ASSUME Numbers, NEW x \in Key, clock - last[x] >= IdleTTL, Rate * IdleTTL >= Full
  PROVE  Refilled(x) = Full
<1> DEFINE flow == (clock - last[x]) * Rate
<1>1. clock - last[x] \in Nat /\ IdleTTL \in Nat /\ tokens[x] \in Nat /\ Full \in Nat
  BY LimiterAssumption, FullIsNat DEF Numbers
<1>2. IdleTTL * Rate <= flow
  BY <1>1, Monotone
<1>3. IdleTTL * Rate = Rate * IdleTTL /\ Rate * IdleTTL \in Int /\ flow \in Int
  <2>1. \A n \in Int : n * Rate = Rate * n /\ n * Rate \in Int
    BY LimiterAssumption, SMT
  <2>2. clock - last[x] \in Int /\ IdleTTL \in Int
    BY <1>1
  <2>3. QED BY <2>1, <2>2
<1>4. Refilled(x) = IF ~HasBucket(x) THEN Full
                    ELSE IF tokens[x] + flow > Full THEN Full ELSE tokens[x] + flow
  BY DEF Refilled
<1> HIDE DEF flow
<1>5. tokens[x] + flow >= Full
  BY <1>1, <1>2, <1>3
<1>6. QED BY <1>1, <1>3, <1>4, <1>5

\* The histories stay well-formed, whatever the rates.
LEMMA AllowKeepsHistories ==
  ASSUME Histories, NEW k \in Key, Allow(k)
  PROVE  Histories'
<1>1. /\ clock' = clock /\ clock \in 0..MaxTime /\ MaxTime \in Nat
      /\ granted \in [Key -> [0..MaxTime -> Nat]]
  BY LimiterAssumption DEF Allow, Histories, History
<1>2. granted' = [x \in Key |->
                    IF x # k /\ HasBucket(x) /\ x \notin ToSet(Bounded(MostRecent(k)))
                    THEN [i \in 0..MaxTime |-> 0]
                    ELSE IF x = k /\ Refilled(k) >= Unit THEN [granted[k] EXCEPT ![clock] = @ + 1]
                    ELSE granted[x]]
  BY DEF Allow
<1>3. ASSUME NEW x \in Key
      PROVE  /\ granted'[x] \in [0..MaxTime -> Nat]
             /\ \A i \in 0..MaxTime : i > clock => granted'[x][i] = 0
  <2>1. \/ granted'[x] = [i \in 0..MaxTime |-> 0]
        \/ granted'[x] = [granted[x] EXCEPT ![clock] = @ + 1]
        \/ granted'[x] = granted[x]
    BY <1>2
  <2>2. \A i \in 0..MaxTime : i > clock => granted[x][i] = 0 /\ i # clock
    BY <1>1 DEF Histories
  <2>3. granted[x] \in [0..MaxTime -> Nat]
    BY <1>1
  <2>4. CASE granted'[x] = [granted[x] EXCEPT ![clock] = @ + 1]
    <3> DEFINE h == [granted[x] EXCEPT ![clock] = @ + 1]
    <3>1. granted[x][clock] + 1 \in Nat
      BY <1>1, <2>3
    <3>2. h \in [0..MaxTime -> Nat]
      BY <2>3, <3>1
    <3>3. \A i \in 0..MaxTime : i # clock => h[i] = granted[x][i]
      BY <2>3
    <3>4. granted'[x] = h
      BY <2>4
    <3> HIDE DEF h
    <3>5. \A i \in 0..MaxTime : i > clock => h[i] = 0
      BY <2>2, <3>3
    <3>6. QED BY <3>2, <3>4, <3>5
  <2>5. CASE granted'[x] = [i \in 0..MaxTime |-> 0]
    <3>1. [i \in 0..MaxTime |-> 0] \in [0..MaxTime -> Nat]
      OBVIOUS
    <3>2. QED BY <2>5, <3>1
  <2>6. CASE granted'[x] = granted[x]
    BY <2>2, <2>3, <2>6
  <2>7. QED BY <2>1, <2>4, <2>5, <2>6
<1>4. granted' \in [Key -> History]
  BY <1>2, <1>3 DEF History
<1>5. QED BY <1>1, <1>3, <1>4 DEF Histories

\* What a call of allow does to the histories and the buckets of all keys.
LEMMA AllowEffect ==
  ASSUME Numbers, Lists, Histories, NEW k \in Key, Allow(k), Rate * IdleTTL >= Full
  PROVE  /\ granted' \in [Key -> History] /\ clock' = clock
         /\ \A x \in Key \ {k} :
              \/ granted'[x] = [i \in 0..MaxTime |-> 0]
              \/ granted'[x] = granted[x] /\ Refilled(x)' <= Refilled(x)
         /\ \/ /\ Refilled(k) >= Unit
               /\ granted'[k] = [granted[k] EXCEPT ![clock] = @ + 1]
               /\ Refilled(k)' = Refilled(k) - Unit
            \/ granted'[k] = granted[k] /\ Refilled(k)' = Refilled(k)
<1> DEFINE t == Refilled(k)
           kept == Bounded(MostRecent(k))
<1>1. /\ clock' = clock
      /\ tokens' = [tokens EXCEPT ![k] = Left(t)]
      /\ last' = [last EXCEPT ![k] = clock]
      /\ granted' = [x \in Key |->
                       IF x # k /\ HasBucket(x) /\ x \notin ToSet(kept)
                       THEN [i \in 0..MaxTime |-> 0]
                       ELSE IF x = k /\ t >= Unit THEN [granted[k] EXCEPT ![clock] = @ + 1]
                       ELSE granted[x]]
  BY DEF Allow
<1>2. t \in 0..Full /\ Full \in Nat /\ Unit \in Nat /\ Full' = Full
  BY RefillBounds, FullIsNat, LimiterAssumption DEF Full
<1>3. \A x \in Key \ {k} : tokens'[x] = tokens[x] /\ last'[x] = last[x]
  BY <1>1 DEF Numbers
<1>4. tokens'[k] = Left(t) /\ last'[k] = clock
  BY <1>1 DEF Numbers
<1>5. HasBucket(k)' /\ \A x \in Key \ {k} : HasBucket(x)' => HasBucket(x)
  BY BucketsLeft DEF HasBucket
<1>6. ASSUME NEW x \in Key \ {k}, HasBucket(x), ~HasBucket(x)', x \in ToSet(kept)
      PROVE  Refilled(x) = Full
  <2>1. clock - last[x] >= IdleTTL
    BY <1>6, BucketsLeft DEF HasBucket
  <2>2. QED BY <2>1, IdleIsFull
<1> HIDE DEF t, kept
<1>7. granted' \in [Key -> History]
  BY AllowKeepsHistories DEF Histories
<1>8. ASSUME NEW x \in Key \ {k}, granted'[x] # [i \in 0..MaxTime |-> 0]
      PROVE  granted'[x] = granted[x] /\ Refilled(x)' <= Refilled(x)
  <2>1. ~(HasBucket(x) /\ x \notin ToSet(kept)) /\ granted'[x] = granted[x]
    BY <1>1, <1>8
  <2>2. Refilled(x) \in 0..Full /\ Full \in Nat
    BY RefillBounds, <1>2
  <2>3. tokens[x] + (clock - last[x]) * Rate \in Int
    <3>1. clock - last[x] \in Int /\ tokens[x] \in Int /\ Rate \in Int
      BY FullIsNat, LimiterAssumption DEF Numbers
    <3>2. QED BY <3>1
  <2>4. Refilled(x)' = Refilled(x)
    <3> DEFINE has == HasBucket(x)   hasP == HasBucket(x)'
    <3>1. Refilled(x)' = IF ~HasBucket(x)' THEN Full
                         ELSE IF tokens[x] + (clock - last[x]) * Rate > Full THEN Full
                         ELSE tokens[x] + (clock - last[x]) * Rate
      BY <1>1, <1>2, <1>3 DEF Refilled
    <3>2. CASE HasBucket(x)' <=> HasBucket(x)
      BY <3>1, <3>2 DEF Refilled
    <3>3. CASE ~HasBucket(x)' /\ HasBucket(x)
      BY <3>1, <3>3, <1>6, <2>1
    <3>4. QED BY <3>2, <3>3, <1>5
  <2>5. QED BY <2>1, <2>2, <2>4
<1>9. Refilled(k)' = Left(t)
  <2>1. Left(t) \in 0..Full
    BY <1>2, FullIsNat DEF Left
  <2>2. clock' - last'[k] = 0 /\ (clock' - last'[k]) * Rate = 0
    BY <1>1, <1>4, RateTimes DEF Numbers
  <2>3. Refilled(k)' = IF tokens'[k] + (clock' - last'[k]) * Rate > Full THEN Full
                       ELSE tokens'[k] + (clock' - last'[k]) * Rate
    BY <1>2, <1>5 DEF Refilled
  <2>4. QED BY <1>2, <1>4, <2>1, <2>2, <2>3
<1>10. CASE t >= Unit
  BY <1>1, <1>7, <1>8, <1>9, <1>10 DEF Left, t
<1>11. CASE ~(t >= Unit)
  BY <1>1, <1>7, <1>8, <1>9, <1>11 DEF Left, t
<1>12. QED BY <1>10, <1>11

LEMMA RefillBoundsNext ==
  ASSUME Numbers', NEW k \in Key
  PROVE  Refilled(k)' \in 0..Full
<1> DEFINE flow == (clock' - last'[k]) * Rate
<1>1. flow \in Nat
  <2>1. clock' - last'[k] \in Nat /\ Rate \in Nat
    BY LimiterAssumption DEF Numbers
  <2>2. QED BY <2>1
<1>2. Full \in Nat /\ Full' = Full
  BY FullIsNat DEF Full
<1>3. tokens'[k] \in Nat
  BY <1>2 DEF Numbers
<1>4. Refilled(k)' = IF ~HasBucket(k)' THEN Full
                     ELSE IF tokens'[k] + flow > Full THEN Full ELSE tokens'[k] + flow
  BY <1>2 DEF Refilled
<1> HIDE DEF flow
<1>5. QED BY <1>1, <1>2, <1>3, <1>4

LEMMA AllowAffords ==
  ASSUME WindowInv, NEW k \in Key, Allow(k), Rate * IdleTTL >= Full
  PROVE  Histories' /\ Affordable' /\ WindowBounded'
<1>1. /\ Numbers /\ Lists /\ Histories /\ Affordable
      /\ clock \in 0..MaxTime /\ MaxTime \in Nat /\ granted \in [Key -> History]
  BY LimiterAssumption DEF WindowInv, Histories
<1>2. /\ granted' \in [Key -> History] /\ clock' = clock /\ Full' = Full /\ Full \in Nat
      /\ Unit \in Nat /\ Numbers'
  BY <1>1, AllowEffect, AllowKeepsNumbers, FullIsNat, LimiterAssumption DEF Full
<1>3. \A x \in Key : Refilled(x) \in 0..Full /\ Refilled(x)' \in 0..Full
  BY <1>1, <1>2, RefillBounds, RefillBoundsNext
<1>4. \A n \in Nat : Rate * n \in Nat
  BY RateTimes
<1>5. ASSUME NEW x \in Key, NEW i \in 0..MaxTime, i # clock
      PROVE  granted'[x][i] = granted[x][i] \/ granted'[x] = [j \in 0..MaxTime |-> 0]
  <2>1. CASE x = k
    BY <1>1, <1>5, <2>1, AllowEffect DEF History
  <2>2. CASE x # k
    BY <1>1, <2>2, AllowEffect
  <2>3. QED BY <2>1, <2>2
<1>6. ASSUME NEW x \in Key, granted'[x] = [j \in 0..MaxTime |-> 0],
             NEW s \in 0..clock, NEW t \in s..clock
      PROVE  Spent(granted'[x], s, t) = 0
  BY <1>1, <1>6, SpentNothing
<1>7. Histories'
  BY <1>1, AllowKeepsHistories
<1>8. ASSUME NEW x \in Key, NEW s \in 0..clock
      PROVE  Spent(granted'[x], s, clock) + Refilled(x)' <= Full + Rate * (clock - s)
  <2> DEFINE spent == Spent(granted[x], s, clock)
             allowed == Rate * (clock - s)
  <2>1. spent + Refilled(x) <= Full + allowed
    BY <1>1, <1>8 DEF Affordable
  <2>2. spent \in Int /\ s \in Nat
    BY <1>1, <1>8, SpentIsInt
  <2>3. allowed \in Nat
    BY <1>1, <1>4, <1>8
  <2>4. CASE granted'[x] = [j \in 0..MaxTime |-> 0]
    <3>1. Spent(granted'[x], s, clock) = 0
      BY <1>1, <1>6, <2>4
    <3> HIDE DEF allowed
    <3>2. Spent(granted'[x], s, clock) + Refilled(x)' <= Full + allowed
      BY <1>2, <1>3, <2>3, <3>1
    <3>3. QED BY <3>2 DEF allowed
  <2>5. CASE granted'[x] = granted[x] /\ Refilled(x)' <= Refilled(x)
    <3> HIDE DEF spent, allowed
    <3>1. spent + Refilled(x)' <= Full + allowed
      BY <1>2, <1>3, <2>1, <2>2, <2>3, <2>5
    <3>2. QED BY <2>5, <3>1 DEF spent, allowed
  <2>6. CASE /\ x = k /\ Refilled(k) >= Unit
             /\ granted'[k] = [granted[k] EXCEPT ![clock] = @ + 1]
             /\ Refilled(k)' = Refilled(k) - Unit
    <3>1. Spent(granted'[x], s, clock) = spent + Unit
      BY <1>1, <2>2, <2>6, SpentMore
    <3> HIDE DEF spent, allowed
    <3>2. spent + Unit + Refilled(x)' <= Full + allowed
      BY <1>2, <1>3, <2>1, <2>2, <2>3, <2>6
    <3>3. QED BY <3>1, <3>2 DEF allowed
  <2>7. QED
    <3>1. CASE x = k
      <4>1. Refilled(k)' = Refilled(k) => Refilled(k)' <= Refilled(k)
        BY <1>3
      <4>2. QED BY <1>1, <3>1, <4>1, <2>5, <2>6, AllowEffect
    <3>2. CASE x # k
      BY <1>1, <3>2, <2>4, <2>5, AllowEffect
    <3>3. QED BY <3>1, <3>2
<1>9. Affordable'
  BY <1>2, <1>8 DEF Affordable
<1>10. ASSUME NEW x \in Key, NEW s \in 0..clock, NEW t \in s..clock
       PROVE  Spent(granted'[x], s, t) <= Full + Rate * (t - s)
  <2> DEFINE allowed == Rate * (t - s)
  <2>1. allowed \in Nat /\ s \in Nat /\ t \in 0..MaxTime /\ t \in Nat
    BY <1>1, <1>4, <1>10
  <2>2. CASE t = clock
    <3>1. Spent(granted'[x], s, t) + Refilled(x)' <= Full + allowed
      BY <1>8, <2>2
    <3>2. Spent(granted'[x], s, t) \in Int
      BY <1>2, <2>1, SpentIsInt
    <3> HIDE DEF allowed
    <3>3. Spent(granted'[x], s, t) <= Full + allowed
      BY <1>2, <1>3, <2>1, <3>1, <3>2
    <3>4. QED BY <3>3 DEF allowed
  <2>3. CASE granted'[x] = [j \in 0..MaxTime |-> 0]
    <3>1. Spent(granted'[x], s, t) = 0
      BY <1>6, <1>10, <2>3
    <3> HIDE DEF allowed
    <3>2. Spent(granted'[x], s, t) <= Full + allowed
      BY <1>2, <2>1, <3>1
    <3>3. QED BY <3>2 DEF allowed
  <2>4. CASE t # clock /\ granted'[x] # [j \in 0..MaxTime |-> 0]
    <3>1. \A i \in s..t : granted'[x][i] = granted[x][i]
      BY <1>1, <1>5, <1>10, <2>4
    <3>2. Spent(granted'[x], s, t) = Spent(granted[x], s, t)
      BY <2>1, <3>1, SpentSame
    <3>3. QED BY <3>2, <1>1, <1>10 DEF WindowInv, WindowBounded, Spent
  <2>5. QED BY <2>2, <2>3, <2>4
<1>11. WindowBounded'
  BY <1>2, <1>10 DEF WindowBounded, Spent
<1>12. QED BY <1>7, <1>9, <1>11

LEMMA TickAffords ==
  ASSUME WindowInv, Tick, Rate * IdleTTL >= Full
  PROVE  Affordable' /\ WindowBounded'
<1>1. /\ Numbers /\ Histories /\ Affordable
      /\ clock \in 0..MaxTime /\ MaxTime \in Nat /\ granted \in [Key -> History]
  BY LimiterAssumption DEF WindowInv, Histories
<1>2. /\ clock' = clock + 1 /\ clock < MaxTime /\ Full' = Full /\ Full \in Nat
      /\ lru' = lru /\ tokens' = tokens /\ last' = last /\ granted' = granted
      /\ promised' = promised
  BY FullIsNat DEF Tick, Full
<1>3. \A n \in Int : Rate * n \in Int /\ Rate * (n + 1) = Rate * n + Rate
  BY RateTimes
<1>4. Rate \in Nat
  BY LimiterAssumption
<1>5. ASSUME NEW x \in Key
      PROVE  /\ Refilled(x) \in 0..Full /\ Refilled(x)' \in 0..Full
             /\ Refilled(x)' <= Refilled(x) + Rate
  <2>1. Numbers'
    BY <1>1, <1>2 DEF Numbers
  <2>2. Refilled(x) \in 0..Full /\ Refilled(x)' \in 0..Full
    BY <1>1, <2>1, RefillBounds, RefillBoundsNext
  <2> DEFINE flowed == (clock - last[x]) * Rate
             flowing == (clock + 1 - last[x]) * Rate
  <2>3. flowed \in Nat /\ flowing = flowed + Rate
    <3> DEFINE n == clock - last[x]
    <3>1. n \in Nat /\ clock + 1 - last[x] = n + 1
      BY <1>1 DEF Numbers
    <3> HIDE DEF n
    <3>2. \A m \in Nat : \A u \in Nat : m * u \in Nat /\ (m + 1) * u = m * u + u
      BY SMT
    <3>3. n * Rate \in Nat /\ (n + 1) * Rate = n * Rate + Rate
      BY <1>4, <3>1, <3>2
    <3>4. flowed = n * Rate /\ flowing = (n + 1) * Rate
      BY <3>1 DEF n
    <3>5. QED BY <3>3, <3>4
  <2>4. tokens[x] \in Nat
    BY <1>1, <1>2 DEF Numbers
  <2>5. /\ Refilled(x) = IF ~HasBucket(x) THEN Full
                         ELSE IF tokens[x] + flowed > Full THEN Full ELSE tokens[x] + flowed
        /\ Refilled(x)' = IF ~HasBucket(x) THEN Full
                          ELSE IF tokens[x] + flowing > Full THEN Full ELSE tokens[x] + flowing
    <3>1. (clock' - last'[x]) * Rate = flowing /\ tokens'[x] = tokens[x]
      <4>1. last[x] \in Int /\ clock \in Int /\ last'[x] = last[x] /\ clock' = clock + 1
        BY <1>1, <1>2 DEF Numbers
      <4>2. clock' - last'[x] = clock + 1 - last[x]
        BY <4>1
      <4>3. QED BY <1>2, <4>2
    <3>2. HasBucket(x)' = HasBucket(x)
      BY <1>2 DEF HasBucket
    <3> HIDE DEF flowing
    <3>3. QED BY <1>2, <3>1, <3>2 DEF Refilled
  <2> HIDE DEF flowed, flowing
  <2>6. Refilled(x)' <= Refilled(x) + Rate
    BY <1>2, <1>4, <2>3, <2>4, <2>5
  <2>7. QED BY <2>2, <2>6
<1>6. ASSUME NEW x \in Key, NEW s \in 0..clock'
      PROVE  Spent(granted'[x], s, clock') + Refilled(x)' <= Full' + Rate * (clock' - s)
  <2>n. clock \in Int /\ s \in Int /\ clock' - s = clock + 1 - s
    BY <1>1, <1>2
  <2> SUFFICES Spent(granted[x], s, clock + 1) + Refilled(x)' <= Full + Rate * (clock + 1 - s)
    <3>1. Rate * (clock' - s) = Rate * (clock + 1 - s)
      BY <2>n
    <3>2. Spent(granted'[x], s, clock') = Spent(granted[x], s, clock + 1)
      BY <1>2
    <3>3. QED BY <1>2, <3>1, <3>2
  <2>1. s \in Nat /\ granted[x] \in History /\ granted[x][clock + 1] = 0
    BY <1>1, <1>2 DEF Histories
  <2>2. CASE s = clock + 1
    <3>1. Spent(granted[x], s, clock + 1) = 0
      BY <1>1, <2>1, <2>2, SpentNothing
    <3>2. Rate * (clock + 1 - s) = 0
      BY <1>1, <2>2, RateTimes
    <3>3. QED BY <1>2, <1>5, <3>1, <3>2
  <2>3. CASE s # clock + 1
    <3> DEFINE n == clock - s
               spent == Spent(granted[x], s, clock)
    <3>1. n \in Int /\ s \in 0..clock /\ clock + 1 - s = n + 1
      BY <1>1, <1>2, <2>3
    <3>2. spent + Refilled(x) <= Full + Rate * n
      BY <1>1, <3>1 DEF Affordable
    <3>3. Spent(granted[x], s, clock + 1) = spent /\ spent \in Int
      BY <1>1, <1>2, <2>1, <3>1, SpentLonger, SpentIsInt
    <3> HIDE DEF n, spent
    <3>4. Rate * n \in Int /\ Rate * (n + 1) = Rate * n + Rate
      BY <1>3, <3>1
    <3> DEFINE flow == Rate * n
    <3>5. spent + Refilled(x) <= Full + flow /\ flow \in Int
      BY <3>2, <3>4
    <3> HIDE DEF flow
    <3>6. spent + Refilled(x)' <= Full + (flow + Rate)
      BY <1>2, <1>4, <1>5, <3>3, <3>5
    <3>7. QED BY <3>1, <3>3, <3>4, <3>6 DEF flow
  <2>4. QED BY <2>2, <2>3
<1>7. Affordable'
  BY <1>2, <1>6 DEF Affordable
<1>8. ASSUME NEW x \in Key, NEW s \in 0..clock', NEW t \in s..clock'
      PROVE  Spent(granted[x], s, t) <= Full + Rate * (t - s)
  <2>1. CASE t = clock + 1
    <3>1. s \in Nat /\ clock + 1 \in 0..MaxTime
      BY <1>1, <1>2
    <3>2. Spent(granted[x], s, clock + 1) \in Int /\ clock + 1 - s \in Int
      BY <1>1, <3>1, SpentIsInt
    <3> DEFINE allowed == Rate * (clock + 1 - s)
    <3>3. allowed \in Int
      BY <1>3, <3>2
    <3>4. Spent(granted[x], s, clock + 1) + Refilled(x)' <= Full + allowed
      <4>1. Spent(granted'[x], s, clock') + Refilled(x)' <= Full' + Rate * (clock' - s)
        BY <1>6
      <4>2. clock \in Int /\ s \in Int /\ clock' - s = clock + 1 - s
        BY <1>1, <1>2
      <4>3. Rate * (clock' - s) = allowed
        BY <4>2
      <4>4. Spent(granted'[x], s, clock') = Spent(granted[x], s, clock + 1)
        BY <1>2
      <4> HIDE DEF allowed
      <4>5. QED BY <1>2, <4>1, <4>3, <4>4
    <3>n. Refilled(x)' \in Nat
      BY <1>2, <1>5
    <3> HIDE DEF allowed
    <3>5. Spent(granted[x], s, clock + 1) <= Full + allowed
      <4> DEFINE spent == Spent(granted[x], s, clock + 1)
                 left == Refilled(x)'
      <4>1. spent \in Int /\ left \in Nat /\ Full \in Nat /\ spent + left <= Full + allowed
        BY <1>2, <3>2, <3>4, <3>n
      <4> HIDE DEF spent, left
      <4>2. spent <= Full + allowed
        BY <3>3, <4>1
      <4>3. QED BY <4>2 DEF spent
    <3>6. Spent(granted[x], s, t) <= Full + Rate * (clock + 1 - s)
      BY <2>1, <3>5 DEF allowed
    <3>7. clock \in Int /\ t - s = clock + 1 - s
      BY <1>1, <2>1
    <3>8. QED BY <2>1, <3>6, <3>7
  <2>2. CASE t # clock + 1
    <3>1. s \in 0..clock /\ t \in s..clock
      BY <1>1, <1>2, <2>2
    <3>2. QED BY <3>1 DEF WindowInv, WindowBounded, Spent
  <2>3. QED BY <2>1, <2>2
<1>9. WindowBounded'
  BY <1>2, <1>8 DEF WindowBounded, Spent
<1>10. QED BY <1>7, <1>9

-----------------------------------------------------------------------------
LEMMA WindowStep == WindowInv /\ [Next]_vars => WindowInv'
<1> SUFFICES ASSUME WindowInv, [Next]_vars PROVE WindowInv'
  OBVIOUS
<1>1. /\ Numbers /\ Lists /\ Histories /\ Full' = Full
  BY DEF WindowInv, Full
<1>2. ASSUME NEW k \in Key, Allow(k) PROVE WindowInv'
  <2>1. Numbers' /\ Lists'
    BY <1>1, <1>2, AllowKeepsNumbers, BucketsLeft
  <2>2. CASE Rate * IdleTTL >= Full
    BY <1>2, <2>1, <2>2, AllowAffords DEF WindowInv
  <2>3. CASE ~(Rate * IdleTTL >= Full)
    <3>1. Histories'
      BY <1>1, <1>2, AllowKeepsHistories
    <3>2. QED BY <1>1, <2>1, <2>3, <3>1 DEF WindowInv, WindowBounded
  <2>4. QED BY <2>2, <2>3
<1>3. ASSUME Tick PROVE WindowInv'
  <2>1. Numbers' /\ Lists'
    BY <1>1, <1>3 DEF Tick, Numbers, Lists
  <2>2. Histories'
    BY <1>1, <1>3, LimiterAssumption DEF Tick, Histories
  <2>3. CASE Rate * IdleTTL >= Full
    BY <1>3, <2>1, <2>2, <2>3, TickAffords DEF WindowInv
  <2>4. CASE ~(Rate * IdleTTL >= Full)
    BY <1>1, <2>1, <2>2, <2>4 DEF WindowInv, WindowBounded
  <2>5. QED BY <2>3, <2>4
<1>4. CASE UNCHANGED vars
  <2>1. UNCHANGED <<clock, lru, tokens, last, granted, promised>>
    BY <1>4 DEF vars
  <2>2. QED BY <1>1, <2>1 DEF WindowInv, Numbers, Lists, Histories, Affordable, WindowBounded,
                              Spent, Refilled, HasBucket
<1>5. QED BY <1>2, <1>3, <1>4 DEF Next

\* In no window does a key get more than the burst and what flowed in, however
\* calls, ticks, eviction and sweeps interleave, for every rate, burst, number
\* of keys, idle time and length of the run.
THEOREM WindowsBounded == Spec => []WindowBounded
<1>1. Init => WindowInv
  <2> SUFFICES ASSUME Init PROVE WindowInv
    OBVIOUS
  <2>1. Numbers /\ Lists /\ Histories
    BY FullIsNat, LimiterAssumption DEF Init, Numbers, Lists, Histories, History
  <2>2. clock = 0 /\ Full \in Nat /\ \A k \in Key : Refilled(k) \in 0..Full
    BY <2>1, RefillBounds, FullIsNat DEF Init
  <2>3. \A k \in Key : \A s \in 0..clock : \A t \in s..clock :
          /\ s = 0 /\ t = 0 /\ t - s = 0
          /\ Spent(granted[k], s, t) = 0
    BY SpentNothing, LimiterAssumption DEF Init
  <2>4. Rate * 0 = 0
    BY RateTimes
  <2>5. Affordable
    BY <2>2, <2>3, <2>4 DEF Affordable
  <2>6. ASSUME NEW k \in Key, NEW s \in 0..clock, NEW t \in s..clock
        PROVE  Unit * SumFunctionOnSet(granted[k], s..t) <= Full + Rate * (t - s)
    <3>1. /\ Unit * SumFunctionOnSet(granted[k], s..t) = 0
          /\ t - s = 0
      BY <2>3 DEF Spent
    <3>2. QED BY <2>2, <2>4, <3>1
  <2>w. WindowBounded
    BY <2>6 DEF WindowBounded
  <2>7. QED BY <2>1, <2>5, <2>w DEF WindowInv
<1>2. WindowInv => WindowBounded
  BY DEF WindowInv
<1>3. QED BY <1>1, <1>2, WindowStep, PTL DEF Spec

-----------------------------------------------------------------------------
(* The limiter and the retries of the market-data client                   *)

SlotInv ==
  /\ now \in Nat /\ next \in Nat
  /\ slots \in Seq(Nat)
  /\ wake \in [Getter -> Int]
  /\ pc \in [Getter -> {"begin", "slot", "send", "open", "pause", "done"}]
  /\ \A i \in 1..Len(slots) : slots[i] + Interval <= next
  /\ SlotsSpaced

\* Appending a slot at or after next keeps the spacing and the bound.
LEMMA SpacedAppend ==
  ASSUME NEW s \in Seq(Nat), NEW n \in Nat, NEW t \in Nat, NEW d \in Nat,
         n <= t,
         \A i \in 1..Len(s) : s[i] + d <= n,
         \A i, j \in 1..Len(s) : i < j => s[j] - s[i] >= d
  PROVE  LET u == Append(s, t)
         IN /\ u \in Seq(Nat)
            /\ \A i \in 1..Len(u) : u[i] + d <= t + d
            /\ \A i, j \in 1..Len(u) : i < j => u[j] - u[i] >= d
<1> DEFINE u == Append(s, t)
<1>1. /\ u \in Seq(Nat) /\ Len(u) = Len(s) + 1 /\ Len(s) \in Nat
      /\ u[Len(s) + 1] = t
      /\ \A i \in 1..Len(s) : u[i] = s[i] /\ s[i] \in Nat
  OBVIOUS
<1> HIDE DEF u
<1>2. ASSUME NEW i \in 1..Len(s)
      PROVE  u[i] \in Nat /\ u[i] = s[i] /\ u[i] + d <= n
  <2>1. u[i] = s[i] /\ s[i] \in Nat
    BY <1>1
  <2>2. s[i] + d <= n
    OBVIOUS
  <2> QED BY <2>1, <2>2
<1>3. ASSUME NEW i \in 1..Len(u) PROVE u[i] + d <= t + d
  <2>1. CASE i = Len(s) + 1
    BY <1>1, <2>1
  <2>2. CASE i \in 1..Len(s)
    <3>1. u[i] \in Nat /\ u[i] + d <= n
      BY <1>2, <2>2
    <3> QED BY <3>1
  <2> QED BY <1>1, <2>1, <2>2
<1>4. ASSUME NEW i \in 1..Len(u), NEW j \in 1..Len(u), i < j
      PROVE  u[j] - u[i] >= d
  <2>1. i \in 1..Len(s)
    BY <1>1, <1>4
  <2>2. u[i] \in Nat /\ u[i] = s[i] /\ u[i] + d <= n
    BY <1>2, <2>1
  <2>3. CASE j = Len(s) + 1
    BY <1>1, <2>2, <2>3
  <2>4. CASE j \in 1..Len(s)
    <3>1. u[j] \in Nat /\ u[j] = s[j]
      BY <1>2, <2>4
    <3>2. s[j] - s[i] >= d
      BY <1>4, <2>1, <2>4
    <3> QED BY <2>2, <3>1, <3>2
  <2> QED BY <1>1, <2>3, <2>4
<1> QED BY <1>1, <1>3, <1>4 DEF u

\* Every pause of retryDelay is a whole number of ticks.
LEMMA DelaysAreInt ==
  ASSUME NEW n, NEW m \in Int
  PROVE  RetryDelays(n, RetryAfter(m)) \subseteq Int
<1>1. Duration(m) \in Int
  BY FetchAssumption DEF Duration
<1>2. RetryAfter(m) \in Int
  BY <1>1 DEF RetryAfter, Larger
<1> QED BY <1>2, FetchAssumption DEF RetryDelays, Smaller

\* Reserve hands out the next slot, never before next.
LEMMA ReserveKeepsSlots ==
  ASSUME SlotInv, NEW g \in Getter, Reserve(g)
  PROVE  SlotInv'
<1> USE DEF SlotInv
<1>1. /\ Slot \in Nat /\ Interval \in Nat
      /\ next <= Slot /\ now <= Slot
  BY FetchAssumption DEF Slot, Larger
<1>2. /\ slots' = Append(slots, Slot)
      /\ next' = Slot + Interval /\ now' = now
  BY DEF Reserve
<1>3. /\ slots' \in Seq(Nat)
      /\ \A i \in 1..Len(slots') : slots'[i] + Interval <= next'
      /\ \A i, j \in 1..Len(slots') : i < j => slots'[j] - slots'[i] >= Interval
  BY <1>1, <1>2, SpacedAppend DEF SlotsSpaced
<1>4. /\ wake' \in [Getter -> Int]
      /\ pc' \in [Getter -> {"begin", "slot", "send", "open", "pause", "done"}]
      /\ \A h \in Getter : pc'[h] \in {"send", "open"} => now' >= wake'[h]
  <2>1. CASE Slot > now /\ cancelled
    BY <1>1, <1>2, <2>1 DEF Reserve, Finish, SlotsSpaced
  <2>2. CASE ~(Slot > now /\ cancelled)
    <3>1. /\ wake' = [wake EXCEPT ![g] = Slot]
          /\ pc' = [pc EXCEPT ![g] =
                      IF Slot > now THEN "slot" ELSE "send"]
      BY <2>2 DEF Reserve
    <3>2. CASE Slot > now
      BY <1>1, <1>2, <3>1, <3>2 DEF SlotsSpaced
    <3>3. CASE ~(Slot > now)
      <4>1. now >= Slot
        BY <1>1, <3>3
      <4> QED BY <1>1, <1>2, <3>1, <3>3, <4>1 DEF SlotsSpaced
    <3> QED BY <3>2, <3>3
  <2> QED BY <2>1, <2>2
<1> QED BY <1>1, <1>2, <1>3, <1>4 DEF SlotsSpaced

LEMMA TransientKeepsSlots ==
  ASSUME SlotInv,
         NEW g \in Getter, NEW m \in Int, Transient(g, m)
  PROVE  SlotInv'
<1> USE DEF SlotInv
<1>1. UNCHANGED <<now, next, slots>>
  BY DEF Transient
<1>2. /\ pc' \in [Getter -> {"begin", "slot", "send", "open", "pause", "done"}]
      /\ \A h \in Getter : /\ h # g => pc'[h] = pc[h]
                           /\ pc'[g] \in {"pause", "done"}
  BY DEF Transient, Finish
<1>3. /\ wake' \in [Getter -> Int]
      /\ \A h \in Getter : h # g => wake'[h] = wake[h]
  <2>1. CASE wake' = wake
    BY <2>1
  <2>2. CASE \E d \in RetryDelays(attempt[g], RetryAfter(m)) :
               wake' = [wake EXCEPT ![g] = now + d]
    <3>1. PICK d \in RetryDelays(attempt[g], RetryAfter(m)) :
             wake' = [wake EXCEPT ![g] = now + d]
      BY <2>2
    <3>2. d \in Int
      BY DelaysAreInt
    <3> QED BY <3>1, <3>2
  <2> QED BY <2>1, <2>2 DEF Transient
<1> QED BY <1>1, <1>2, <1>3 DEF SlotsSpaced

-----------------------------------------------------------------------------
\* Every step keeps the slots spaced.
LEMMA SlotStep ==
  ASSUME SlotInv, [FetchNext]_fetchVars
  PROVE  SlotInv'
<1> USE DEF SlotInv
<1>1. ASSUME NEW g \in Getter, Reserve(g) PROVE SlotInv'
  BY <1>1, ReserveKeepsSlots
<1>2. ASSUME NEW g \in Getter, SlotReached(g) PROVE SlotInv'
  BY <1>2 DEF SlotReached, SlotsSpaced
<1>3. ASSUME NEW g \in Getter, SleepCancelled(g) PROVE SlotInv'
  BY <1>3 DEF SleepCancelled, Finish, SlotsSpaced
<1>4. ASSUME NEW g \in Getter, Send(g) PROVE SlotInv'
  BY <1>4 DEF Send, SlotsSpaced
<1>5. ASSUME NEW g \in Getter, Answered(g) PROVE SlotInv'
  <2>1. ASSUME Transient(g, 0) PROVE SlotInv'
    BY <2>1, TransientKeepsSlots
  <2>2. ASSUME NEW m \in RetryAfters, Transient(g, m) PROVE SlotInv'
    BY <2>2, TransientKeepsSlots, FetchAssumption
  <2>3. ASSUME AttemptCancelled(g) PROVE SlotInv'
    BY <2>3 DEF AttemptCancelled, Finish, SlotsSpaced
  <2>4. ASSUME NEW how \in {"body", "invalid", "refused"},
               Definitive(g, how)
        PROVE  SlotInv'
    BY <2>4 DEF Definitive, Finish, SlotsSpaced
  <2> QED BY <1>5, <2>1, <2>2, <2>3, <2>4 DEF Answered
<1>6. ASSUME NEW g \in Getter, PauseOver(g) PROVE SlotInv'
  BY <1>6 DEF PauseOver, SlotsSpaced
<1>7. CASE Cancel
  BY <1>7 DEF Cancel, SlotsSpaced
<1>8. CASE FetchTick
  BY <1>8 DEF FetchTick, SlotsSpaced
<1>9. CASE UNCHANGED fetchVars
  BY <1>9 DEF fetchVars, SlotsSpaced
<1> QED BY <1>1, <1>2, <1>3, <1>4, <1>5, <1>6, <1>7, <1>8, <1>9 DEF FetchNext

\* The limiter of http.go never hands out two slots closer than its interval,
\* and no worker sends before its slot, for every number of workers, every
\* interval and every clock.
THEOREM SlotsAreSpaced == FetchSpec => []SlotsSpaced
<1>1. FetchInit => SlotInv
  BY DEF FetchInit, SlotInv, SlotsSpaced
<1>2. SlotInv /\ [FetchNext]_fetchVars => SlotInv'
  BY SlotStep
<1>3. SlotInv => SlotsSpaced
  BY DEF SlotInv
<1> QED BY <1>1, <1>2, <1>3, PTL DEF FetchSpec

-----------------------------------------------------------------------------
(* A fetch that pauses wakes up no earlier than the server is owed, and one *)
(* on its way to its next request has slept that pause out.                 *)

BackoffInv ==
  /\ SlotInv
  /\ attempt \in [Getter -> Nat \ {0}]
  /\ notBefore \in [Getter -> Int]
  /\ sends \in [Getter -> Int]
  /\ \A g \in Getter :
       /\ pc[g] = "pause" => wake[g] >= notBefore[g]
       /\ pc[g] \in {"begin", "slot", "send"} => now >= notBefore[g]

\* No header is long enough to wrap around as a duration of nanoseconds.
HeadersFit == \A n \in RetryAfters : n < Wrap

\* A duration that fits is the number of ticks it was made from.
LEMMA DurationFits ==
  ASSUME NEW m \in Nat, m < Wrap
  PROVE  Duration(m) = m
<1>1. Wrap \in Nat \ {0}
  BY FetchAssumption
<1>2. (m + Wrap) % (2 * Wrap) = m + Wrap
  BY <1>1
<1> QED BY <1>1, <1>2 DEF Duration

\* The pause retryDelay chooses is never shorter than what is owed.
LEMMA DelaysCoverOwed ==
  ASSUME NEW n \in Nat \ {0}, NEW m \in Nat, m < Wrap,
         NEW d \in RetryDelays(n, RetryAfter(m))
  PROVE  d \in Int /\ Owed(n, m) \in Int /\ d >= Owed(n, m)
<1>1. RetryAfter(m) = m
  BY DurationFits DEF RetryAfter, Larger
<1>2. CASE m > 0
  BY <1>1, <1>2, FetchAssumption DEF RetryDelays, Owed,
     Smaller
<1>3. CASE ~(m > 0)
  <2> DEFINE step == Smaller(RetryBase * 2^(n - 1), MaxRetryDelay)
  <2>1. step \in Int
    <3>1. n - 1 \in Nat
      OBVIOUS
    <3>2. 2^(n - 1) \in Int
      BY <3>1
    <3> QED BY <3>2, FetchAssumption DEF Smaller
  <2>2. d \in (step \div 2)..((3 * step) \div 2)
    BY <1>1, <1>3 DEF RetryDelays
  <2>3. Owed(n, m) = step \div 2
    BY <1>3 DEF Owed
  <2> HIDE DEF step
  <2> QED BY <2>1, <2>2, <2>3
<1> QED BY <1>2, <1>3

LEMMA TransientBacksOff ==
  ASSUME BackoffInv,
         NEW g \in Getter, NEW m \in Nat, m < Wrap, Transient(g, m)
  PROVE  /\ notBefore' \in [Getter -> Int]
         /\ \A h \in Getter :
              /\ pc'[h] = "pause" => wake'[h] >= notBefore'[h]
              /\ pc'[h] \in {"begin", "slot", "send"} => now' >= notBefore'[h]
<1> USE DEF BackoffInv, SlotInv
<1>1. now' = now
  BY DEF Transient
<1>2. CASE pc' = [pc EXCEPT ![g] = "done"] /\ UNCHANGED <<wake, notBefore>>
  BY <1>1, <1>2
<1>3. CASE /\ pc' = [pc EXCEPT ![g] = "pause"]
           /\ \E d \in RetryDelays(attempt[g], RetryAfter(m)) :
                wake' = [wake EXCEPT ![g] = now + d]
           /\ notBefore' = [notBefore EXCEPT ![g] =
                              now + Owed(attempt[g], m)]
  <2>1. PICK d \in RetryDelays(attempt[g], RetryAfter(m)) :
               wake' = [wake EXCEPT ![g] = now + d]
    BY <1>3
  <2>2. /\ d \in Int /\ Owed(attempt[g], m) \in Int
        /\ d >= Owed(attempt[g], m)
    BY DelaysCoverOwed
  <2>3. wake'[g] >= notBefore'[g]
    BY <1>3, <2>1, <2>2
  <2> QED BY <1>1, <1>3, <2>1, <2>2, <2>3
<1> QED BY <1>2, <1>3 DEF Transient, Finish

\* Every step keeps the pauses long enough.
LEMMA BackoffStep ==
  ASSUME HeadersFit, BackoffInv, [FetchNext]_fetchVars
  PROVE  BackoffInv'
<1> USE DEF BackoffInv, SlotInv
<1>1. SlotInv'
  BY SlotStep
<1> DEFINE Paused == \A h \in Getter :
             /\ pc[h] = "pause" => wake[h] >= notBefore[h]
             /\ pc[h] \in {"begin", "slot", "send"} => now >= notBefore[h]
<1>2. attempt' \in [Getter -> Nat \ {0}] /\ sends' \in [Getter -> Int]
  BY DEF FetchNext, Reserve, SlotReached, SleepCancelled,
         Send, Answered, Transient, AttemptCancelled,
         Definitive, PauseOver, Cancel, FetchTick,
         fetchVars
<1>3. ASSUME NEW g \in Getter, Reserve(g)
      PROVE  notBefore' \in [Getter -> Int] /\ Paused'
  <2>1. UNCHANGED <<now, notBefore>>
    BY <1>3 DEF Reserve
  <2>2. pc[g] = "begin"
    BY <1>3 DEF Reserve
  <2>3. \A h \in Getter \ {g} : pc'[h] = pc[h] /\ wake'[h] = wake[h]
    BY <1>3 DEF Reserve, Finish
  <2>4. pc'[g] # "pause"
    BY <1>3 DEF Reserve, Finish
  <2> QED BY <2>1, <2>2, <2>3, <2>4
<1>4. ASSUME NEW g \in Getter, SlotReached(g)
      PROVE  notBefore' \in [Getter -> Int] /\ Paused'
  BY <1>4 DEF SlotReached
<1>5. ASSUME NEW g \in Getter, SleepCancelled(g)
      PROVE  notBefore' \in [Getter -> Int] /\ Paused'
  BY <1>5 DEF SleepCancelled, Finish
<1>6. ASSUME NEW g \in Getter, Send(g)
      PROVE  notBefore' \in [Getter -> Int] /\ Paused'
  BY <1>6 DEF Send
<1>7. ASSUME NEW g \in Getter, Answered(g)
      PROVE  notBefore' \in [Getter -> Int] /\ Paused'
  <2>1. ASSUME Transient(g, 0)
        PROVE  notBefore' \in [Getter -> Int] /\ Paused'
    BY <2>1, TransientBacksOff, FetchAssumption
  <2>2. ASSUME NEW m \in RetryAfters, Transient(g, m)
        PROVE  notBefore' \in [Getter -> Int] /\ Paused'
    BY <2>2, TransientBacksOff, FetchAssumption DEF HeadersFit
  <2>3. ASSUME AttemptCancelled(g)
        PROVE  notBefore' \in [Getter -> Int] /\ Paused'
    BY <2>3 DEF AttemptCancelled, Finish
  <2>4. ASSUME NEW how \in {"body", "invalid", "refused"},
               Definitive(g, how)
        PROVE  notBefore' \in [Getter -> Int] /\ Paused'
    BY <2>4 DEF Definitive, Finish
  <2> QED BY <1>7, <2>1, <2>2, <2>3, <2>4 DEF Answered
<1>8. ASSUME NEW g \in Getter, PauseOver(g)
      PROVE  notBefore' \in [Getter -> Int] /\ Paused'
  <2>1. pc[g] = "pause" /\ now >= wake[g] /\ now >= notBefore[g]
    BY <1>8 DEF PauseOver
  <2> QED BY <1>8, <2>1 DEF PauseOver
<1>9. ASSUME Cancel PROVE notBefore' \in [Getter -> Int] /\ Paused'
  BY <1>9 DEF Cancel
<1>10. ASSUME FetchTick PROVE notBefore' \in [Getter -> Int] /\ Paused'
  BY <1>10 DEF FetchTick
<1>11. ASSUME UNCHANGED fetchVars
       PROVE  notBefore' \in [Getter -> Int] /\ Paused'
  BY <1>11 DEF fetchVars
<1>12. notBefore' \in [Getter -> Int] /\ Paused'
  BY <1>3, <1>4, <1>5, <1>6, <1>7, <1>8, <1>9, <1>10, <1>11 DEF FetchNext
<1> QED BY <1>1, <1>2, <1>12

\* A server that failed or asked for time is not asked again by the same fetch
\* before it is owed, for every number of workers and attempts, every base, cap
\* and clock, as long as its headers fit a duration: one that wraps around
\* counts as no header in parseRetryAfter, and the pause is then the
\* exponential one.
THEOREM PausesAreHonoured == HeadersFit => (FetchSpec => BackoffHonoured)
<1> SUFFICES ASSUME HeadersFit
             PROVE  FetchSpec => BackoffHonoured
  OBVIOUS
<1>1. FetchInit => BackoffInv
  BY DEF FetchInit, BackoffInv, SlotInv, SlotsSpaced
<1>2. BackoffInv /\ [FetchNext]_fetchVars => BackoffInv'
  BY BackoffStep
<1>3. BackoffInv /\ [FetchNext]_fetchVars
        => [\A g \in Getter :
              sends'[g] > sends[g] => now >= notBefore[g]]_fetchVars
  <2> SUFFICES ASSUME BackoffInv, [FetchNext]_fetchVars, NEW g \in Getter,
                      sends'[g] > sends[g]
               PROVE  now >= notBefore[g]
    OBVIOUS
  <2>1. sends[g] \in Int /\ sends'[g] # sends[g]
    BY DEF BackoffInv
  <2>2. Send(g)
    BY <2>1 DEF FetchNext, Reserve, SlotReached,
                SleepCancelled, Send, Answered,
                Transient, AttemptCancelled, Definitive,
                PauseOver, Cancel, FetchTick, fetchVars,
                BackoffInv
  <2> QED BY <2>2 DEF Send, BackoffInv
<1> QED BY <1>1, <1>2, <1>3, PTL DEF FetchSpec, BackoffHonoured
================================================================================
