------------------------- MODULE ResponseCacheProofs -------------------------
(***************************************************************************)
(* What the response cache may answer, for every number of processes,      *)
(* readers, writers and users, every size and lifetime of the cache and    *)
(* every lag of a replica.  One invariant says of each entry and of each   *)
(* running read how old its snapshot may be and which write it includes.   *)
(***************************************************************************)
EXTENDS ResponseCache, DataFacts, TLAPS

-----------------------------------------------------------------------------
(* Sifted *)

\* f gives every n the entries among the first n of s that are at a place in K.
Sifts(f, s, K, n) ==
  f = [i \in 0..n |-> IF i = 0 THEN <<>>
                      ELSE IF i \in K THEN Append(f[i - 1], s[i]) ELSE f[i - 1]]

LEMMA SiftedDef ==
  ASSUME NEW s, NEW K
  PROVE  Sifted(s, K) = (CHOOSE f : Sifts(f, s, K, Len(s)))[Len(s)]
BY DEF Sifted, Sifts

LEMMA SiftsExist ==
  ASSUME NEW s, NEW K, NEW N \in Nat
  PROVE  \E f : Sifts(f, s, K, N)
<1> DEFINE Bad == {n \in 0..N : ~\E f : Sifts(f, s, K, n)}
<1> SUFFICES ASSUME Bad # {} PROVE FALSE
  OBVIOUS
<1>1. PICK m \in Bad : \A i \in Bad : m <= i
  <2>1. Bad \in SUBSET (0..N)
    OBVIOUS
  <2> HIDE DEF Bad
  <2>2. QED BY <2>1, FirstNumber
<1>2. m # 0
  <2>1. Sifts([i \in 0..0 |-> <<>>], s, K, 0)
    BY DEF Sifts
  <2>2. QED BY <2>1
<1>3. m \in 0..N /\ m - 1 \in 0..N /\ m - 1 \notin Bad
  BY <1>1, <1>2
<1>4. PICK f : Sifts(f, s, K, m - 1)
  BY <1>3
<1> DEFINE top == IF m \in K THEN Append(f[m - 1], s[m]) ELSE f[m - 1]
           g == [i \in 0..m |-> IF i = m THEN top ELSE f[i]]
<1>5. Sifts(g, s, K, m)
  <2>1. ASSUME NEW i \in 0..m
        PROVE  g[i] = IF i = 0 THEN <<>>
                      ELSE IF i \in K THEN Append(g[i - 1], s[i]) ELSE g[i - 1]
    <3>1. CASE i = m
      <4>1. m - 1 \in 0..m /\ m - 1 # m
        BY <1>2, <1>3
      <4>2. g[i] = top /\ g[i - 1] = f[m - 1]
        BY <3>1, <4>1
      <4> HIDE DEF g
      <4>3. QED BY <1>2, <3>1, <4>2
    <3>2. CASE i # m
      <4>1. i \in 0..(m - 1) /\ i - 1 # m /\ (i # 0 => i - 1 \in 0..m)
        BY <1>3, <3>2
      <4>2. g[i] = f[i] /\ (i # 0 => g[i - 1] = f[i - 1])
        BY <3>2, <4>1
      <4>3. f[i] = IF i = 0 THEN <<>>
                   ELSE IF i \in K THEN Append(f[i - 1], s[i]) ELSE f[i - 1]
        BY <1>4, <4>1 DEF Sifts
      <4> HIDE DEF g
      <4>4. QED BY <4>2, <4>3
    <3>3. QED BY <3>1, <3>2
  <2>2. g = [i \in 0..m |-> g[i]]
    OBVIOUS
  <2> HIDE DEF g
  <2>3. [i \in 0..m |-> g[i]]
        = [i \in 0..m |-> IF i = 0 THEN <<>>
                          ELSE IF i \in K THEN Append(g[i - 1], s[i]) ELSE g[i - 1]]
    BY <2>1
  <2>4. QED BY <2>2, <2>3 DEF Sifts
<1>6. QED BY <1>1, <1>5

\* What is sifted is in T if the entries at the places kept are.
LEMMA SiftedIn ==
  ASSUME NEW S, NEW s \in Seq(S), NEW K, NEW T,
         \A i \in DOMAIN s : i \in K => s[i] \in T
  PROVE  Sifted(s, K) \in Seq(T)
<1> DEFINE N == Len(s)
<1>1. N \in Nat /\ \A i \in 1..N : i \in K => s[i] \in T
  OBVIOUS
<1> HIDE DEF N
<1>2. PICK f : Sifts(f, s, K, N) /\ Sifted(s, K) = f[N]
  BY <1>1, SiftsExist, SiftedDef DEF N
<1> DEFINE Bad == {n \in 0..N : f[n] \notin Seq(T)}
<1>3. ASSUME Bad # {} PROVE FALSE
  <2>1. PICK m \in Bad : \A i \in Bad : m <= i
    <3>1. Bad \in SUBSET (0..N)
      OBVIOUS
    <3> HIDE DEF Bad
    <3>2. QED BY <1>1, <1>3, <3>1, FirstNumber
  <2>2. f[m] = IF m = 0 THEN <<>>
               ELSE IF m \in K THEN Append(f[m - 1], s[m]) ELSE f[m - 1]
    BY <1>2 DEF Sifts
  <2>3. m # 0
    <3>1. <<>> \in Seq(T)
      OBVIOUS
    <3>2. m = 0 => f[m] = <<>>
      BY <2>2
    <3>3. f[m] \notin Seq(T)
      BY <2>1
    <3>4. QED BY <3>1, <3>2, <3>3
  <2>4. f[m - 1] \in Seq(T) /\ m \in 1..N
    BY <1>1, <2>1, <2>3
  <2>5. f[m] \in Seq(T)
    BY <1>1, <2>2, <2>3, <2>4
  <2>6. QED BY <2>5
<1>4. QED BY <1>1, <1>2, <1>3

LEMMA WithoutIn ==
  ASSUME NEW S, NEW s \in Seq(S), NEW k
  PROVE  Without(s, k) \in Seq(S)
BY SiftedIn DEF Without

LEMMA OthersWithout ==
  ASSUME NEW S, NEW s \in Seq(S), NEW k
  PROVE  Without(s, k) \in Seq({e \in S : e.key # k})
<1> DEFINE T == {e \in S : e.key # k}
           K == {i \in DOMAIN s : s[i].key # k}
<1>1. \A i \in DOMAIN s : i \in K => s[i] \in T
  OBVIOUS
<1> HIDE DEF K, T
<1>2. Sifted(s, K) \in Seq(T)
  BY <1>1, SiftedIn
<1>3. QED BY <1>2 DEF Without, K, T

LEMMA ClearedIn ==
  ASSUME NEW S, NEW s \in Seq(S), NEW u
  PROVE  Cleared(s, u) \in Seq({e \in S : ~(Owner[e.key] = u /\ e.key \in Canonical)})
<1> DEFINE T == {e \in S : ~(Owner[e.key] = u /\ e.key \in Canonical)}
           K == {i \in DOMAIN s : ~(Owner[s[i].key] = u /\ s[i].key \in Canonical)}
<1>1. \A i \in DOMAIN s : i \in K => s[i] \in T
  OBVIOUS
<1> HIDE DEF K, T
<1>2. Sifted(s, K) \in Seq(T)
  BY <1>1, SiftedIn
<1>3. QED BY <1>2 DEF Cleared, K, T

LEMMA CutIn ==
  ASSUME NEW S, NEW all \in Seq(S)
  PROVE  SubSeq(all, 1, IF Len(all) > MaxEntries THEN MaxEntries ELSE Len(all)) \in Seq(S)
<1>1. MaxEntries \in Nat /\ Len(all) \in Nat
  BY ConstantsAssumption
<1>2. QED BY <1>1

LEMMA SeqWider == ASSUME NEW S, NEW T, S \subseteq T PROVE Seq(S) \subseteq Seq(T)
OBVIOUS

-----------------------------------------------------------------------------
(* The inductive invariant *)

CacheEntry == [key: Key, version: Nat, storedAt: Nat, overtaken: BOOLEAN]

Read ==
  [pc: {"idle", "handler", "body", "done"}, process: Process \cup {None}, key: Key \cup {None},
   version: Nat, snapshotAt: Nat, overtaken: BOOLEAN, floor: Nat]

Write == [pc: {"idle", "committed", "done"}, process: Process \cup {None},
          user: User \cup {None}, version: Nat]

Times ==
  /\ clock \in Nat
  /\ ended \in [User -> Seq(Nat)]
  /\ \A u \in User : \A v \in DOMAIN ended[u] : ended[u][v] <= clock

\* Version v of u's data was current at time t, or at most lag before it.
CurrentAt(u, v, t, lag) ==
  /\ v \in 1..Current(u)
  /\ t <= clock
  /\ v < Current(u) => ended[u][v] + lag >= t

\* An entry of p shows a snapshot not older than a lag and a handler's run
\* before it was stored; unless a write overtook it, it shows every write p has
\* answered and nothing older than p's cache has shown of its URL.
Kept(p, e) ==
  LET u == Owner[e.key]
  IN /\ CurrentAt(u, e.version, e.storedAt, Lag[p] + Limit)
     /\ (~e.overtaken /\ Lag[p] = 0) => e.version >= shown[p][e.key]
     /\ (e.key \in Canonical /\ ~e.overtaken /\ Lag[p] = 0) => e.version >= acked[p][u]

KeptEntries(p) == {e \in CacheEntry : Kept(p, e)}

\* The same of a read that waits for its first query ...
Waits(p, k, floor) == floor <= Current(Owner[k])

\* ... that has its snapshot, which a write since then has overtaken or not ...
Runs(p, k, d) ==
  LET u == Owner[k]
  IN /\ CurrentAt(u, d.version, d.snapshotAt, Lag[p])
     /\ clock <= d.snapshotAt + Limit
     /\ Lag[p] = 0 => d.version >= d.floor /\ (~d.overtaken => d.version = Current(u))

\* ... and that has answered.
Answers(p, k, d) ==
  LET u == Owner[k]
  IN /\ d.version \in 1..Current(u)
     /\ (TTL > 0 /\ d.version < Current(u)) => ended[u][d.version] + TTL + Limit + Lag[p] > clock
     /\ (k \in Canonical /\ ~d.overtaken /\ Lag[p] = 0) => d.version >= d.floor

ReadFits(d) ==
  /\ d \in Read
  /\ d.pc \in {"handler", "body", "done"} => d.process \in Process /\ d.key \in Key
  /\ d.pc = "handler" => Waits(d.process, d.key, d.floor)
  /\ d.pc = "body" => Runs(d.process, d.key, d)
  /\ d.pc = "done" => Answers(d.process, d.key, d)

\* No process has answered a write that is not in the database.
WriteFits(d) ==
  /\ d \in Write
  /\ d.pc = "committed" => d.process \in Process /\ d.user \in User /\ d.version <= Current(d.user)

AckedFits ==
  /\ acked \in [Process -> [User -> Nat]]
  /\ \A p \in Process : \A u \in User : acked[p][u] <= Current(u)

\* No cache has shown what is not in the database.
ShownFits ==
  /\ shown \in [Process -> [Key -> Nat]]
  /\ \A p \in Process : \A k \in Key : shown[p][k] <= Current(Owner[k])

CacheInv ==
  /\ Times /\ AckedFits /\ ShownFits
  /\ DOMAIN cache = Process /\ \A p \in Process : cache[p] \in Seq(KeptEntries(p))
  /\ DOMAIN rd = Reader /\ \A r \in Reader : ReadFits(rd[r])
  /\ DOMAIN wr = Writer /\ \A w \in Writer : WriteFits(wr[w])

-----------------------------------------------------------------------------
(* What time and commits do to it *)

LEMMA CurrentIsNat == ASSUME Times, NEW u \in User PROVE Current(u) \in Nat \ {0}
BY DEF Times, Current

LEMMA Constants ==
  /\ Owner \in [Key -> User] /\ Canonical \subseteq Key
  /\ Lag \in [Process -> Nat] /\ TTL \in Nat /\ Limit \in Nat
  /\ None \notin Process /\ None \notin Key /\ None \notin User
BY ConstantsAssumption

\* A commit ends u's version now, and nothing else.
LEMMA SupersedeEnds ==
  ASSUME Times, NEW u \in User, Supersede(u), clock' = clock
  PROVE  /\ Times'
         /\ Current(u)' = Current(u) + 1
         /\ \A x \in User \ {u} : ended'[x] = ended[x] /\ Current(x)' = Current(x)
         /\ \A v \in 1..Current(u) : ended'[u][v] = IF v = Current(u) THEN clock ELSE ended[u][v]
<1> DEFINE s == ended[u]
<1>1. s \in Seq(Nat) /\ clock \in Nat /\ ended \in [User -> Seq(Nat)]
  BY DEF Times
<1>2. ended' = [ended EXCEPT ![u] = Append(s, clock)]
  BY DEF Supersede
<1>3. ended'[u] = Append(s, clock) /\ ended' \in [User -> Seq(Nat)]
  BY <1>1, <1>2
<1>4. \A x \in User \ {u} : ended'[x] = ended[x]
  BY <1>1, <1>2
<1>5. /\ Len(ended'[u]) = Len(s) + 1 /\ Len(s) \in Nat
      /\ \A v \in 1..(Len(s) + 1) : ended'[u][v] = IF v = Len(s) + 1 THEN clock ELSE s[v]
  BY <1>1, <1>3
<1>6. Times'
  <2>1. ASSUME NEW x \in User, NEW v \in DOMAIN ended'[x] PROVE ended'[x][v] <= clock
    <3>1. CASE x = u
      <4>1. v \in 1..(Len(s) + 1)
        BY <1>3, <1>5, <2>1, <3>1
      <4>2. v # Len(s) + 1 => v \in DOMAIN s /\ s[v] <= clock
        BY <4>1, <1>1, <1>5 DEF Times
      <4>3. QED BY <1>1, <1>5, <3>1, <4>1, <4>2
    <3>2. CASE x # u
      BY <1>4, <2>1, <3>2 DEF Times
    <3>3. QED BY <3>1, <3>2
  <2>2. QED BY <1>1, <1>3, <2>1 DEF Times
<1>7. QED BY <1>4, <1>5, <1>6 DEF Current

LEMMA CurrentAtCommit ==
  ASSUME Times, NEW u \in User, Supersede(u), clock' = clock,
         NEW x \in User, NEW v, NEW t \in Nat, NEW lag \in Nat, CurrentAt(x, v, t, lag)
  PROVE  CurrentAt(x, v, t, lag)' /\ Current(x)' >= Current(x)
<1>1. Current(x) \in Nat /\ clock \in Nat /\ v \in Nat
  BY CurrentIsNat DEF Times, CurrentAt
<1>2. CASE x = u
  <2>1. /\ Current(u)' = Current(u) + 1
        /\ ended'[u][v] = IF v = Current(u) THEN clock ELSE ended[u][v]
    BY <1>2, SupersedeEnds DEF CurrentAt
  <2>2. QED BY <1>1, <1>2, <2>1 DEF CurrentAt
<1>3. CASE x # u
  BY <1>1, <1>3, SupersedeEnds DEF CurrentAt
<1>4. QED BY <1>2, <1>3

LEMMA KeptAfterCommit ==
  ASSUME Times, NEW u \in User, Supersede(u), clock' = clock, acked' = acked, shown' = shown,
         NEW p \in Process
  PROVE  KeptEntries(p) \subseteq KeptEntries(p)'
<1> SUFFICES ASSUME NEW e \in CacheEntry, Kept(p, e) PROVE Kept(p, e)'
  BY DEF KeptEntries
<1>1. /\ Owner[e.key] \in User /\ e.storedAt \in Nat /\ Lag[p] + Limit \in Nat
      /\ CurrentAt(Owner[e.key], e.version, e.storedAt, Lag[p] + Limit)
  BY Constants DEF CacheEntry, Kept
<1>2. CurrentAt(Owner[e.key], e.version, e.storedAt, Lag[p] + Limit)'
  BY <1>1, CurrentAtCommit
<1>3. QED BY <1>2 DEF Kept

\* A commit marks the running reads of its user and spares the answered ones.
LEMMA ReadsAfterCommit ==
  ASSUME Times, NEW u \in User, Supersede(u), clock' = clock,
         DOMAIN rd = Reader, NEW r \in Reader, ReadFits(rd[r])
  PROVE  ReadFits(rd[r])'
<1>1. PICK d \in Read : d = rd[r]
  BY DEF ReadFits
<1>2. PICK c : c = rd'[r]
  OBVIOUS
<1>3. c = IF d.pc = "body" /\ Owner[d.key] = u
          THEN [d EXCEPT !.overtaken = TRUE] ELSE d
  BY <1>1, <1>2 DEF Supersede, Overtake
<1>4. /\ c \in Read /\ c.pc = d.pc /\ c.process = d.process /\ c.key = d.key
      /\ c.version = d.version /\ c.snapshotAt = d.snapshotAt /\ c.floor = d.floor
      /\ (d.pc = "done" => c.overtaken = d.overtaken)
      /\ ((d.pc = "body" /\ ~c.overtaken) => Owner[d.key] # u /\ ~d.overtaken)
  BY <1>3 DEF Read
<1>5. \A x \in User : Current(x)' \in Nat /\ Current(x) \in Nat /\ Current(x)' >= Current(x)
  <2>1. \A x \in User : Current(x) \in Nat
    BY CurrentIsNat
  <2>2. QED BY <2>1, SupersedeEnds
<1>6. \A k \in Key : Owner[k] \in User
  BY Constants
<1>7. /\ d.pc \in {"handler", "body", "done"} => d.process \in Process /\ d.key \in Key
      /\ d.pc = "handler" => Waits(d.process, d.key, d.floor)
      /\ d.pc = "body" => Runs(d.process, d.key, d)
      /\ d.pc = "done" => Answers(d.process, d.key, d)
  BY <1>1 DEF ReadFits
<1>8. ASSUME c.pc = "handler" PROVE Waits(c.process, c.key, c.floor)'
  <2>1. Current(Owner[d.key])' >= Current(Owner[d.key]) /\ d.floor <= Current(Owner[d.key])
    BY <1>4, <1>5, <1>6, <1>7, <1>8 DEF Waits
  <2>2. d.floor \in Nat /\ Current(Owner[d.key])' \in Nat /\ Current(Owner[d.key]) \in Nat
    BY <1>4, <1>5, <1>6, <1>7, <1>8 DEF Read
  <2>3. QED BY <1>4, <2>1, <2>2 DEF Waits
<1>9. ASSUME c.pc = "body" PROVE Runs(c.process, c.key, c)'
  <2>1. d.process \in Process /\ d.key \in Key /\ Owner[d.key] \in User /\ Runs(d.process, d.key, d)
    BY <1>4, <1>6, <1>7, <1>9
  <2>2. CurrentAt(Owner[d.key], d.version, d.snapshotAt, Lag[d.process])'
    <3>1. d.snapshotAt \in Nat /\ Lag[d.process] \in Nat
      BY <2>1, Constants DEF Read
    <3>2. QED BY <2>1, <3>1, CurrentAtCommit DEF Runs
  <2>3. ~c.overtaken => Current(Owner[d.key])' = Current(Owner[d.key]) /\ ~d.overtaken
    BY <1>4, <1>9, <2>1, SupersedeEnds
  <2>4. QED BY <1>4, <2>1, <2>2, <2>3 DEF Runs
<1>10. ASSUME c.pc = "done" PROVE Answers(c.process, c.key, c)'
  <2> DEFINE x == Owner[d.key]
  <2>1. d.process \in Process /\ d.key \in Key /\ x \in User /\ Answers(d.process, d.key, d)
    BY <1>4, <1>6, <1>7, <1>10
  <2>2. /\ Current(x) \in Nat /\ Current(x)' \in Nat /\ Current(x)' >= Current(x)
        /\ d.version \in 1..Current(x) /\ clock \in Nat
        /\ Lag[d.process] \in Nat /\ TTL \in Nat /\ Limit \in Nat
    BY <1>5, <2>1, Constants DEF Answers, Times, Read
  <2>3. ASSUME TTL > 0, d.version < Current(x)'
        PROVE  ended'[x][d.version] + TTL + Limit + Lag[d.process] > clock
    <3>1. CASE d.version < Current(x)
      <4>1. ended'[x][d.version] = ended[x][d.version]
        <5>1. x = u => ended'[u][d.version] = IF d.version = Current(u) THEN clock ELSE ended[u][d.version]
          BY <2>1, <2>2, SupersedeEnds
        <5>2. x # u => ended'[x] = ended[x]
          BY <2>1, SupersedeEnds
        <5>3. QED BY <2>2, <3>1, <5>1, <5>2
      <4>2. QED BY <2>1, <2>3, <3>1, <4>1 DEF Answers
    <3>2. CASE ~(d.version < Current(x))
      <4>1. d.version = Current(x) /\ Current(x)' # Current(x)
        BY <2>2, <2>3, <3>2
      <4>2. x = u /\ ended'[u][d.version] = clock
        BY <2>1, <2>2, <4>1, SupersedeEnds
      <4>3. QED BY <2>2, <2>3, <4>2
    <3>3. QED BY <3>1, <3>2
  <2> HIDE DEF x
  <2>4. d.version \in 1..Current(x)' /\ clock' = clock
    BY <2>2
  <2>5. QED BY <1>4, <1>10, <2>1, <2>3, <2>4 DEF Answers, x
<1>11. QED
  BY <1>2, <1>4, <1>7, <1>8, <1>9, <1>10 DEF ReadFits

LEMMA IdleFits == ReadFits(Idle) /\ ReadFits(Idle)'
BY DEF ReadFits, Read, Idle

\* A tick ages everything by one; no handler outlives Limit.
LEMMA TickAges ==
  ASSUME CacheInv, Tick
  PROVE  CacheInv'
<1>1. /\ clock' = clock + 1 /\ ended' = ended /\ cache' = cache /\ acked' = acked
      /\ rd' = [r \in Reader |-> IF rd[r].pc = "done" THEN Idle ELSE rd[r]]
      /\ wr' = wr /\ shown' = shown /\ clock \in Nat /\ Times
  BY DEF Tick, CacheInv, Times
<1>2. \A u \in User : Current(u)' = Current(u)
  BY <1>1 DEF Current
<1>3. Times' /\ AckedFits' /\ ShownFits'
  <2>1. \A u \in User : \A v \in DOMAIN ended[u] : ended[u][v] <= clock + 1
    <3>1. ASSUME NEW u \in User, NEW v \in DOMAIN ended[u] PROVE ended[u][v] <= clock + 1
      <4>1. ended[u] \in Seq(Nat) /\ ended[u][v] <= clock
        BY <1>1 DEF Times
      <4>2. ended[u][v] \in Nat
        BY <4>1
      <4>3. QED BY <1>1, <4>1, <4>2
    <3>2. QED BY <3>1
  <2>2. \A k \in Key : Owner[k] \in User
    BY Constants
  <2>3. QED BY <1>1, <1>2, <2>1, <2>2 DEF CacheInv, Times, AckedFits, ShownFits
<1>4. ASSUME NEW u \in User, NEW v, NEW t \in Nat, NEW lag, CurrentAt(u, v, t, lag)
      PROVE  CurrentAt(u, v, t, lag)'
  BY <1>1, <1>2, <1>4 DEF CurrentAt
<1>5. ASSUME NEW p \in Process, NEW e \in KeptEntries(p) PROVE e \in KeptEntries(p)'
  <2>1. Owner[e.key] \in User /\ e.storedAt \in Nat
    BY Constants, <1>5 DEF KeptEntries, CacheEntry
  <2>2. QED BY <1>1, <1>4, <2>1, <1>5 DEF KeptEntries, Kept
<1>6. ASSUME NEW r \in Reader PROVE ReadFits(rd[r])'
  <2>1. PICK d \in Read : d = rd[r] /\ ReadFits(d)
    BY DEF CacheInv, ReadFits
  <2>2. CASE d.pc = "done"
    BY <1>1, <2>1, <2>2, IdleFits
  <2>3. CASE d.pc # "done"
    <3>1. d = rd'[r]
      BY <1>1, <2>1, <2>3
    <3>2. d.pc \in {"handler", "body"} => Owner[d.key] \in User
      BY <2>1, Constants DEF ReadFits
    <3>3. ASSUME d.pc = "body" PROVE Runs(d.process, d.key, d)'
      <4>1. clock - d.snapshotAt < Limit /\ d.snapshotAt \in Nat /\ Limit \in Nat
        BY <2>1, <3>3, Constants DEF Tick, Read
      <4>2. clock + 1 <= d.snapshotAt + Limit
        BY <1>1, <4>1
      <4>3. QED BY <1>1, <1>2, <1>4, <2>1, <3>2, <3>3, <4>1, <4>2 DEF ReadFits, Runs
    <3>4. ASSUME d.pc = "handler" PROVE Waits(d.process, d.key, d.floor)'
      BY <1>1, <1>2, <2>1, <3>2, <3>4 DEF ReadFits, Waits
    <3>5. QED BY <2>1, <2>3, <3>1, <3>3, <3>4 DEF ReadFits
  <2>4. QED BY <2>2, <2>3
<1>7. ASSUME NEW w \in Writer PROVE WriteFits(wr[w])'
  BY <1>1, <1>2, <1>7 DEF CacheInv, WriteFits
<1>8. \A p \in Process : cache'[p] \in Seq(KeptEntries(p)')
  BY <1>1, <1>5, SeqWider DEF CacheInv
<1>9. QED BY <1>1, <1>3, <1>6, <1>7, <1>8 DEF CacheInv

-----------------------------------------------------------------------------
(* The reads *)

\* Where no time passes and no write commits or is answered, the claims stand.
LEMMA SameData ==
  ASSUME UNCHANGED <<clock, ended, acked>>
  PROVE  /\ Times' <=> Times
         /\ AckedFits' <=> AckedFits
         /\ \A k \in Key : Current(Owner[k])' = Current(Owner[k])
         /\ shown' = shown => (ShownFits' <=> ShownFits)
         /\ shown' = shown => \A p \in Process : KeptEntries(p)' = KeptEntries(p)
         /\ \A d : ReadFits(d)' <=> ReadFits(d)
         /\ \A d : WriteFits(d)' <=> WriteFits(d)
<1>1. \A u \in User : Current(u)' = Current(u)
  BY DEF Current
<1>2. \A k \in Key : Current(Owner[k])' = Current(Owner[k])
  BY DEF Current
<1>3. QED
  BY <1>2 DEF Times, AckedFits, ShownFits, KeptEntries, Kept, CurrentAt, Current, ReadFits, Waits,
         Runs, Answers, WriteFits

\* A step of one read is sound when what it makes of its own read, of the
\* caches and of what they have shown fits.
LEMMA ReadStep ==
  ASSUME CacheInv, NEW r \in Reader, NEW c,
         UNCHANGED <<clock, ended, acked, wr>>,
         rd' = [rd EXCEPT ![r] = c], ReadFits(c),
         ShownFits', DOMAIN cache' = Process,
         \A q \in Process : cache'[q] \in Seq(KeptEntries(q)')
  PROVE  CacheInv'
<1>1. /\ Times' /\ AckedFits'
      /\ \A d : ReadFits(d) => ReadFits(d)'
      /\ \A d : WriteFits(d) => WriteFits(d)'
  BY SameData DEF CacheInv
<1>2. DOMAIN rd' = Reader /\ \A x \in Reader : rd'[x] = IF x = r THEN c ELSE rd[x]
  BY DEF CacheInv
<1>3. ASSUME NEW x \in Reader PROVE ReadFits(rd[x])'
  <2>1. PICK d : d = rd'[x]
    OBVIOUS
  <2>2. ReadFits(d)
    BY <1>2, <2>1 DEF CacheInv
  <2>3. ReadFits(d)'
    BY <1>1, <2>2
  <2>4. QED BY <2>1, <2>3
<1>4. ASSUME NEW w \in Writer PROVE WriteFits(wr[w])'
  <2>1. PICK d : d = wr[w] /\ d = wr'[w]
    OBVIOUS
  <2>2. WriteFits(d)'
    BY <1>1, <2>1 DEF CacheInv
  <2>3. QED BY <2>1, <2>2
<1>5. DOMAIN wr' = Writer
  BY DEF CacheInv
<1>6. QED BY <1>1, <1>2, <1>3, <1>4, <1>5 DEF CacheInv

\* A step that shows nothing and at most drops entries leaves the caches sound.
LEMMA CachesKept ==
  ASSUME CacheInv, UNCHANGED <<clock, ended, acked, shown>>, NEW p \in Process,
         \/ cache' = cache
         \/ \E entries \in Seq(KeptEntries(p)) : cache' = [cache EXCEPT ![p] = entries]
  PROVE  /\ ShownFits' /\ DOMAIN cache' = Process
         /\ \A q \in Process : cache'[q] \in Seq(KeptEntries(q)')
<1>1. ShownFits' /\ \A q \in Process : KeptEntries(q)' = KeptEntries(q)
  BY SameData DEF CacheInv
<1>2. DOMAIN cache' = Process /\ \A q \in Process : cache'[q] \in Seq(KeptEntries(q))
  BY DEF CacheInv
<1>3. QED BY <1>1, <1>2

\* What p's cache shows of a URL may rise: the entry it shows is the only one of
\* that URL it keeps.
LEMMA CachesShow ==
  ASSUME CacheInv, UNCHANGED <<clock, ended, acked>>, NEW p \in Process,
         NEW e \in KeptEntries(p), Show(p, e.key, e.version),
         \/ cache' = [cache EXCEPT ![p] = <<e>> \o Without(@, e.key)]
         \/ cache' = [cache EXCEPT ![p] = Stored(@, e)]
  PROVE  /\ ShownFits' /\ DOMAIN cache' = Process
         /\ \A q \in Process : cache'[q] \in Seq(KeptEntries(q)')
<1> DEFINE k == e.key
           old == shown[p][k]
           now == IF e.version > old THEN e.version ELSE old
<1>1. /\ k \in Key /\ Owner[k] \in User /\ e.version \in Nat /\ e.version <= Current(Owner[k])
      /\ Current(Owner[k]) \in Nat
  <2>1. k \in Key /\ Owner[k] \in User /\ e.version \in Nat
    BY Constants DEF KeptEntries, CacheEntry
  <2>2. Current(Owner[k]) \in Nat
    BY <2>1, CurrentIsNat DEF CacheInv
  <2>3. QED BY <2>1, <2>2 DEF KeptEntries, Kept, CurrentAt
<1>2. /\ shown \in [Process -> [Key -> Nat]] /\ old \in Nat /\ old <= Current(Owner[k])
      /\ shown' = [shown EXCEPT ![p][k] = now]
  <2>1. shown \in [Process -> [Key -> Nat]] /\ old <= Current(Owner[k])
    BY <1>1 DEF CacheInv, ShownFits
  <2>2. QED BY <1>1, <2>1 DEF Show
<1>3. now \in Nat /\ now <= Current(Owner[k])
  BY <1>1, <1>2
<1> HIDE DEF now
<1>4. /\ shown' \in [Process -> [Key -> Nat]]
      /\ \A q \in Process : \A x \in Key :
           shown'[q][x] = IF q = p /\ x = k THEN now ELSE shown[q][x]
  BY <1>1, <1>2, <1>3
<1>5. ShownFits'
  <2>1. \A x \in Key : Current(Owner[x])' = Current(Owner[x])
    BY SameData
  <2>2. QED BY <1>3, <1>4, <2>1 DEF CacheInv, ShownFits
<1>6. \A x : \A v, t, lag : CurrentAt(x, v, t, lag)' <=> CurrentAt(x, v, t, lag)
  BY DEF CurrentAt, Current
<1>7. ASSUME NEW q \in Process, NEW x \in KeptEntries(q), q # p \/ x.key # k
      PROVE  x \in KeptEntries(q)'
  <2>1. x \in CacheEntry /\ x.key \in Key /\ shown'[q][x.key] = shown[q][x.key]
    BY <1>4, <1>7 DEF KeptEntries, CacheEntry
  <2>2. QED BY <1>6, <2>1 DEF KeptEntries, Kept
<1>8. e \in KeptEntries(p)'
  <2>1. (~e.overtaken /\ Lag[p] = 0) => e.version >= shown'[p][k]
    <3>1. (~e.overtaken /\ Lag[p] = 0) => e.version >= old
      BY DEF KeptEntries, Kept
    <3>2. shown'[p][k] = now
      BY <1>1, <1>4
    <3>3. QED BY <1>1, <1>2, <3>1, <3>2 DEF now
  <2>2. QED BY <1>6, <2>1 DEF KeptEntries, Kept
<1> DEFINE all == <<e>> \o Without(cache[p], k)
<1>9. all \in Seq(KeptEntries(p)')
  <2>1. Without(cache[p], k) \in Seq({x \in KeptEntries(p) : x.key # k})
    BY OthersWithout DEF CacheInv
  <2>2. {x \in KeptEntries(p) : x.key # k} \subseteq KeptEntries(p)'
    BY <1>7
  <2>3. Without(cache[p], k) \in Seq(KeptEntries(p)')
    BY <2>1, <2>2, SeqWider
  <2>4. QED BY <1>8, <2>3
<1>10. DOMAIN cache = Process
  BY DEF CacheInv
<1>11. DOMAIN cache' = Process /\ \A q \in Process : q # p => cache'[q] = cache[q]
  BY <1>10
<1>12. cache'[p] \in Seq(KeptEntries(p)')
  <2>1. CASE cache' = [cache EXCEPT ![p] = <<e>> \o Without(@, e.key)]
    BY <1>9, <1>10, <2>1
  <2>2. CASE cache' = [cache EXCEPT ![p] = Stored(@, e)]
    <3>1. cache'[p] = SubSeq(all, 1, IF Len(all) > MaxEntries THEN MaxEntries ELSE Len(all))
      BY <1>10, <2>2 DEF Stored
    <3> HIDE DEF all
    <3>2. QED BY <1>9, <3>1, CutIn
  <2>3. QED BY <2>1, <2>2
<1>13. ASSUME NEW q \in Process, q # p PROVE cache'[q] \in Seq(KeptEntries(q)')
  <2>1. KeptEntries(q) \subseteq KeptEntries(q)'
    BY <1>7, <1>13
  <2>2. cache[q] \in Seq(KeptEntries(q))
    BY DEF CacheInv
  <2>3. QED BY <1>11, <1>13, <2>1, <2>2, SeqWider
<1>14. QED BY <1>5, <1>11, <1>12, <1>13

LEMMA LookupKeeps ==
  ASSUME CacheInv, NEW r \in Reader, NEW p \in Process, NEW k \in Key, Lookup(r, p, k)
  PROVE  CacheInv'
<1> DEFINE u == Owner[k]
           asked == [Idle EXCEPT !.process = p, !.key = k, !.floor = acked[p][u]]
           miss == [asked EXCEPT !.pc = "handler"]
           hit(e) == [asked EXCEPT !.pc = "done", !.version = e.version, !.overtaken = e.overtaken]
<1>1. /\ Idle \in Read /\ u \in User /\ cache[p] \in Seq(KeptEntries(p)) /\ clock \in Nat
      /\ acked[p][u] \in Nat /\ acked[p][u] <= Current(u) /\ Lag[p] \in Nat /\ Limit \in Nat
      /\ TTL \in Nat /\ UNCHANGED <<clock, ended, acked, wr>>
  <2>1. UNCHANGED <<clock, ended, acked, wr>>
    BY DEF Lookup
  <2>2. Idle \in Read /\ cache[p] \in Seq(KeptEntries(p)) /\ clock \in Nat
    BY IdleFits DEF CacheInv, ReadFits, Times
  <2>3. u \in User /\ Lag[p] \in Nat /\ Limit \in Nat /\ TTL \in Nat
    BY Constants
  <2>4. acked[p][u] \in Nat /\ acked[p][u] <= Current(u)
    BY <2>3 DEF CacheInv, AckedFits
  <2>5. QED BY <2>1, <2>2, <2>3, <2>4
<1>2. ReadFits(miss)
  BY <1>1 DEF Read, ReadFits, Waits, Idle
<1>3. ASSUME NEW e \in KeptEntries(p), e.key = k, Live(e) PROVE ReadFits(hit(e))
  <2>1. /\ CurrentAt(u, e.version, e.storedAt, Lag[p] + Limit)
        /\ (k \in Canonical /\ ~e.overtaken /\ Lag[p] = 0) => e.version >= acked[p][u]
        /\ e.version \in Nat /\ e.storedAt \in Nat /\ e.overtaken \in BOOLEAN
    BY <1>3 DEF KeptEntries, Kept, CacheEntry
  <2>2. e.version < Current(u) => ended[u][e.version] + TTL + Limit + Lag[p] > clock
    <3>1. ASSUME e.version < Current(u) PROVE ended[u][e.version] \in Nat
      <4>1. ended[u] \in Seq(Nat) /\ e.version \in 1..Len(ended[u])
        BY <1>1, <2>1, <3>1 DEF CacheInv, Times, CurrentAt, Current
      <4>2. QED BY <4>1
    <3>2. clock - e.storedAt < TTL
      BY <1>3 DEF Live
    <3>3. ASSUME e.version < Current(u)
          PROVE  ended[u][e.version] + TTL + Limit + Lag[p] > clock
      <4> DEFINE x == ended[u][e.version]
      <4>1. x \in Nat /\ x + (Lag[p] + Limit) >= e.storedAt
        BY <2>1, <3>1, <3>3 DEF CurrentAt
      <4> HIDE DEF x
      <4>2. x + TTL + Limit + Lag[p] > clock
        BY <1>1, <2>1, <3>2, <4>1
      <4>3. QED BY <4>2 DEF x
    <3>4. QED BY <3>3
  <2>3. /\ hit(e).pc = "done" /\ hit(e).process = p /\ hit(e).key = k /\ hit(e).version = e.version
        /\ hit(e).overtaken = e.overtaken /\ hit(e).floor = acked[p][u] /\ hit(e) \in Read
    BY <1>1, <2>1 DEF Read, Idle
  <2>4. Answers(p, k, hit(e))
    BY <1>1, <2>1, <2>2, <2>3 DEF Answers, CurrentAt
  <2>5. QED BY <1>1, <2>3, <2>4 DEF ReadFits
<1>4. ASSUME NEW i \in Hits(p, k)
      PROVE  cache[p][i] \in KeptEntries(p) /\ cache[p][i].key = k
  BY <1>1, <1>4 DEF Hits
<1>5. Without(cache[p], k) \in Seq(KeptEntries(p))
  BY <1>1, WithoutIn
<1>6. CASE rd' = [rd EXCEPT ![r] = miss] /\ UNCHANGED <<cache, shown>>
  <2> HIDE DEF miss
  <2>1. QED BY <1>1, <1>2, <1>6, CachesKept, ReadStep
<1>7. CASE /\ rd' = [rd EXCEPT ![r] = miss] /\ UNCHANGED shown
           /\ cache' = [cache EXCEPT ![p] = Without(@, k)]
  <2>1. cache' = [cache EXCEPT ![p] = Without(cache[p], k)]
    BY <1>7
  <2> HIDE DEF miss
  <2>2. QED BY <1>1, <1>2, <1>5, <1>7, <2>1, CachesKept, ReadStep
<1>8. ASSUME NEW e \in KeptEntries(p), e.key = k, Live(e), rd' = [rd EXCEPT ![r] = hit(e)],
             cache' = [cache EXCEPT ![p] = <<e>> \o Without(@, k)], Show(p, k, e.version)
      PROVE  CacheInv'
  <2> DEFINE c == hit(e)
  <2>1. rd' = [rd EXCEPT ![r] = c] /\ ReadFits(c)
    BY <1>3, <1>8
  <2>2. /\ ShownFits' /\ DOMAIN cache' = Process
        /\ \A q \in Process : cache'[q] \in Seq(KeptEntries(q)')
    BY <1>1, <1>8, CachesShow
  <2> HIDE DEF c
  <2>3. QED BY <1>1, <2>1, <2>2, ReadStep
<1>9. QED
  BY <1>4, <1>6, <1>7, <1>8 DEF Lookup

LEMMA FirstQueryKeeps ==
  ASSUME CacheInv, NEW r \in Reader, FirstQuery(r)
  PROVE  CacheInv'
<1>1. PICK d \in Read : /\ d = rd[r] /\ d.pc = "handler" /\ ReadFits(d)
                        /\ d.process \in Process /\ d.key \in Key
  BY DEF CacheInv, ReadFits, FirstQuery
<1> DEFINE p == d.process   u == Owner[d.key]
<1>2. PICK v \in Visible(p, u) :
        rd' = [rd EXCEPT ![r] = [@ EXCEPT !.pc = "body", !.version = v, !.snapshotAt = clock]]
  BY <1>1 DEF FirstQuery
<1> DEFINE c == [d EXCEPT !.pc = "body", !.version = v, !.snapshotAt = clock]
<1>3. /\ u \in User /\ Current(u) \in Nat /\ v \in 1..Current(u) /\ clock \in Nat
      /\ Lag[p] \in Nat /\ Limit \in Nat /\ d.floor \in Nat /\ d.floor <= Current(u)
  BY <1>1, CurrentIsNat, Constants DEF CacheInv, Visible, Times, Read, ReadFits, Waits
<1>4. v # Current(u) => /\ ended[u][v] \in Nat /\ ended[u][v] <= clock
                        /\ clock - ended[u][v] < Lag[p]
  <2>1. ended[u] \in Seq(Nat) /\ (v # Current(u) => v \in 1..Len(ended[u]))
    BY <1>3 DEF CacheInv, Times, Current
  <2>2. QED BY <1>3, <2>1 DEF CacheInv, Times, Visible
<1>5. /\ c \in Read /\ c.pc = "body" /\ c.process = p /\ c.key = d.key /\ c.version = v
      /\ c.snapshotAt = clock /\ c.floor = d.floor
  <2>1. v \in Nat
    BY <1>3
  <2>2. QED BY <1>3, <2>1 DEF Read
<1>6. rd' = [rd EXCEPT ![r] = c]
  BY <1>1, <1>2
<1> HIDE DEF c
<1>7. CurrentAt(u, v, clock, Lag[p])
  BY <1>3, <1>4 DEF CurrentAt
<1>8. Runs(p, d.key, c)
  BY <1>3, <1>4, <1>5, <1>7 DEF Runs
<1>9. ReadFits(c)
  BY <1>1, <1>5, <1>8 DEF ReadFits
<1>10. UNCHANGED <<clock, ended, acked, wr>> /\ cache' = cache /\ shown' = shown
  BY DEF FirstQuery
<1>11. QED BY <1>1, <1>6, <1>9, <1>10, CachesKept, ReadStep

LEMMA RespondKeeps ==
  ASSUME CacheInv, NEW r \in Reader, NEW matches \in BOOLEAN, Respond(r, matches)
  PROVE  CacheInv'
<1>1. PICK d \in Read : /\ d = rd[r] /\ d.pc = "body" /\ ReadFits(d)
                        /\ d.process \in Process /\ d.key \in Key
  BY DEF CacheInv, ReadFits, Respond
<1> DEFINE p == d.process
           u == Owner[d.key]
           e == [key |-> d.key, version |-> d.version, storedAt |-> clock,
                 overtaken |-> d.overtaken]
           c == [d EXCEPT !.pc = "done", !.snapshotAt = 0]
<1>2. /\ UNCHANGED <<clock, ended, acked, wr>>
      /\ rd' = [rd EXCEPT ![r] = [@ EXCEPT !.pc = "done", !.snapshotAt = 0]]
      /\ \/ UNCHANGED <<cache, shown>>
         \/ cache' = [cache EXCEPT ![p] = Stored(@, e)] /\ Show(p, d.key, d.version)
  BY <1>1 DEF Respond, Finish
<1>3. rd' = [rd EXCEPT ![r] = c]
  BY <1>1, <1>2 DEF CacheInv, Read
<1>4. /\ u \in User /\ Current(u) \in Nat /\ clock \in Nat /\ Lag[p] \in Nat /\ Limit \in Nat
      /\ TTL \in Nat /\ acked[p][u] <= Current(u) /\ shown[p][d.key] <= Current(u)
      /\ Runs(p, d.key, d)
  <2>1. u \in User /\ Lag[p] \in Nat /\ Limit \in Nat /\ TTL \in Nat
    BY <1>1, Constants
  <2>2. Current(u) \in Nat /\ clock \in Nat /\ acked[p][u] <= Current(u)
    BY <1>1, <2>1, CurrentIsNat DEF CacheInv, Times, AckedFits
  <2>3. Runs(p, d.key, d) /\ shown[p][d.key] <= Current(u)
    BY <1>1 DEF ReadFits, CacheInv, ShownFits
  <2>4. QED BY <2>1, <2>2, <2>3
<1>5. /\ d.version \in 1..Current(u) /\ d.snapshotAt \in Nat
      /\ d.snapshotAt <= clock /\ clock <= d.snapshotAt + Limit
      /\ Lag[p] = 0 => d.version >= d.floor /\ (~d.overtaken => d.version = Current(u))
  BY <1>1, <1>4 DEF Runs, CurrentAt, Read
<1>6. d.version < Current(u) => ended[u][d.version] \in Nat
                                /\ ended[u][d.version] + (Lag[p] + Limit) >= clock
  <2>1. ASSUME d.version < Current(u) PROVE ended[u][d.version] \in Nat
    <3>1. ended[u] \in Seq(Nat) /\ d.version \in 1..Len(ended[u])
      BY <1>4, <1>5, <2>1 DEF CacheInv, Times, Current
    <3>2. QED BY <3>1
  <2>2. QED BY <1>4, <1>5, <2>1 DEF Runs, CurrentAt
<1>7. ReadFits(c)
  <2>1. TTL > 0 /\ d.version < Current(u) =>
          ended[u][d.version] + TTL + Limit + Lag[p] > clock
    BY <1>4, <1>6
  <2>2. /\ c \in Read /\ c.pc = "done" /\ c.process = p /\ c.key = d.key /\ c.version = d.version
        /\ c.floor = d.floor /\ c.overtaken = d.overtaken
    BY DEF Read
  <2> HIDE DEF c
  <2>3. Answers(p, d.key, c)
    BY <1>4, <1>5, <2>1, <2>2 DEF Answers
  <2>4. QED BY <1>1, <2>2, <2>3 DEF ReadFits
<1>8. e \in KeptEntries(p)
  <2>1. e \in CacheEntry /\ e.key = d.key /\ e.version = d.version
        /\ e.storedAt = clock /\ e.overtaken = d.overtaken
    BY <1>1, <1>4 DEF CacheEntry, Read
  <2> HIDE DEF e
  <2>2. CurrentAt(u, e.version, e.storedAt, Lag[p] + Limit)
    BY <1>4, <1>5, <1>6, <2>1 DEF CurrentAt
  <2>3. Kept(p, e)
    BY <1>4, <1>5, <2>1, <2>2 DEF Kept
  <2>4. QED BY <2>1, <2>3 DEF KeptEntries
<1>9. e.key = d.key /\ e.version = d.version
  OBVIOUS
<1> HIDE DEF e, c
<1>10. /\ ShownFits' /\ DOMAIN cache' = Process
       /\ \A q \in Process : cache'[q] \in Seq(KeptEntries(q)')
  <2>1. CASE UNCHANGED <<cache, shown>>
    BY <1>1, <1>2, <2>1, CachesKept
  <2>2. CASE cache' = [cache EXCEPT ![p] = Stored(@, e)] /\ Show(p, d.key, d.version)
    BY <1>1, <1>2, <1>8, <1>9, <2>2, CachesShow
  <2>3. QED BY <1>2, <2>1, <2>2
<1>11. QED BY <1>2, <1>3, <1>7, <1>10, ReadStep

LEMMA GiveUpKeeps ==
  ASSUME CacheInv, NEW r \in Reader, BadRequest(r) \/ HandlerFails(r)
  PROVE  CacheInv'
<1>1. /\ rd' = [rd EXCEPT ![r] = Idle] /\ UNCHANGED <<clock, ended, acked, wr>>
      /\ cache' = cache /\ shown' = shown
  BY DEF BadRequest, HandlerFails
<1>2. r \in Reader /\ rd[r].process \in Process
  BY DEF CacheInv, ReadFits, BadRequest, HandlerFails, InHandler
<1>3. QED BY <1>1, <1>2, IdleFits, CachesKept, ReadStep

-----------------------------------------------------------------------------
(* The writes and restarts *)

LEMMA WrittenFits == WriteFits(Written) /\ WriteFits(Written)'
BY DEF WriteFits, Write, Written

LEMMA CommitKeeps ==
  ASSUME CacheInv, NEW w \in Writer, NEW u \in User, Supersede(u),
         UNCHANGED <<clock, cache, acked, shown>>, NEW c, wr' = [wr EXCEPT ![w] = c],
         WriteFits(c)'
  PROVE  CacheInv'
<1>1. /\ Times' /\ \A x \in User : Current(x)' \in Nat /\ Current(x) \in Nat
                                   /\ Current(x)' >= Current(x)
  <2>1. \A x \in User : Current(x) \in Nat
    BY CurrentIsNat DEF CacheInv
  <2>2. Times
    BY DEF CacheInv
  <2>3. QED BY <2>1, <2>2, SupersedeEnds
<1>2. AckedFits'
  <2>1. acked \in [Process -> [User -> Nat]]
    BY DEF CacheInv, AckedFits
  <2>2. ASSUME NEW p \in Process, NEW x \in User PROVE acked[p][x] <= Current(x)'
    <3>1. acked[p][x] \in Nat /\ acked[p][x] <= Current(x)
      BY <2>1 DEF CacheInv, AckedFits
    <3>2. QED BY <1>1, <3>1
  <2>3. QED BY <2>1, <2>2 DEF AckedFits
<1>9. ShownFits'
  <2>1. shown \in [Process -> [Key -> Nat]]
    BY DEF CacheInv, ShownFits
  <2>2. ASSUME NEW p \in Process, NEW k \in Key PROVE shown[p][k] <= Current(Owner[k])'
    <3>1. shown[p][k] \in Nat /\ shown[p][k] <= Current(Owner[k]) /\ Owner[k] \in User
      BY <2>1, Constants DEF CacheInv, ShownFits
    <3>2. QED BY <1>1, <3>1
  <2>3. QED BY <2>1, <2>2 DEF ShownFits
<1>3. \A p \in Process : cache'[p] \in Seq(KeptEntries(p)')
  BY KeptAfterCommit, SeqWider DEF CacheInv
<1>4. \A r \in Reader : ReadFits(rd[r])'
  BY ReadsAfterCommit DEF CacheInv
<1>5. DOMAIN rd' = Reader
  BY DEF Supersede, Overtake
<1>6. ASSUME NEW x \in Writer PROVE WriteFits(wr[x])'
  <2>1. CASE x = w
    BY <2>1 DEF CacheInv
  <2>2. CASE x # w
    <3>1. PICK d : d = wr[x] /\ d = wr'[x] /\ WriteFits(d)
      BY <2>2 DEF CacheInv
    <3>2. ASSUME d.pc = "committed" PROVE d.version <= Current(d.user)'
      <4>1. d.version \in Nat /\ d.user \in User /\ d.version <= Current(d.user)
        BY <3>1, <3>2 DEF WriteFits, Write
      <4>2. QED BY <1>1, <4>1
    <3>3. WriteFits(d)'
      BY <3>1, <3>2 DEF WriteFits
    <3>4. QED BY <3>1, <3>3
  <2>3. QED BY <2>1, <2>2
<1>7. DOMAIN cache' = Process /\ DOMAIN wr' = Writer
  BY DEF CacheInv
<1>8. QED BY <1>1, <1>2, <1>3, <1>4, <1>5, <1>6, <1>7, <1>9 DEF CacheInv

LEMMA InvalidateKeeps ==
  ASSUME CacheInv, NEW w \in Writer, Invalidate(w)
  PROVE  CacheInv'
<1>1. PICK d \in Write : /\ d = wr[w] /\ d.pc = "committed" /\ d.process \in Process
                         /\ d.user \in User /\ d.version <= Current(d.user)
  BY DEF CacheInv, WriteFits, Invalidate
<1> DEFINE p == d.process
           u == d.user
           now == IF d.version > acked[p][u] THEN d.version ELSE acked[p][u]
<1>2. /\ cache' = [cache EXCEPT ![p] = Cleared(cache[p], u)]
      /\ acked' = [acked EXCEPT ![p][u] = now]
      /\ wr' = [wr EXCEPT ![w] = Written]
      /\ clock' = clock /\ ended' = ended /\ rd' = rd /\ shown' = shown
  BY <1>1 DEF Invalidate
<1>3. /\ acked \in [Process -> [User -> Nat]] /\ now \in Nat /\ now <= Current(u)
      /\ \A x \in User : Current(x)' = Current(x)
  <2>1. acked \in [Process -> [User -> Nat]] /\ acked[p][u] <= Current(u)
    BY <1>1 DEF CacheInv, AckedFits
  <2>2. now \in Nat /\ now <= Current(u)
    BY <1>1, <2>1 DEF Write
  <2>3. QED BY <1>2, <2>1, <2>2 DEF Current
<1> HIDE DEF now
<1>4. /\ acked' \in [Process -> [User -> Nat]]
      /\ \A q \in Process : \A x \in User :
           acked'[q][x] = IF q = p /\ x = u THEN now ELSE acked[q][x]
  BY <1>1, <1>2, <1>3
<1>5. Times' /\ AckedFits' /\ ShownFits'
  <2>1. \A k \in Key : Owner[k] \in User
    BY Constants
  <2>2. QED BY <1>1, <1>2, <1>3, <1>4, <2>1 DEF CacheInv, Times, AckedFits, ShownFits
<1>6. \A x \in User : \A v, t, lag : CurrentAt(x, v, t, lag)' <=> CurrentAt(x, v, t, lag)
  BY <1>2, <1>3 DEF CurrentAt
<1>7. ASSUME NEW q \in Process, NEW e \in KeptEntries(q),
             (q = p /\ Owner[e.key] = u) => e.key \notin Canonical
      PROVE  e \in KeptEntries(q)'
  <2>1. Owner[e.key] \in User
    BY <1>7, Constants DEF KeptEntries, CacheEntry
  <2>2. QED BY <1>2, <1>4, <1>6, <1>7, <2>1 DEF KeptEntries, Kept
<1>8. ASSUME NEW q \in Process PROVE cache'[q] \in Seq(KeptEntries(q)')
  <2>1. cache[q] \in Seq(KeptEntries(q)) /\ DOMAIN cache = Process
    BY DEF CacheInv
  <2>2. CASE q = p
    <3> DEFINE T == {e \in KeptEntries(p) : ~(Owner[e.key] = u /\ e.key \in Canonical)}
    <3>1. cache'[p] \in Seq(T)
      <4>1. cache'[p] = Cleared(cache[p], u)
        BY <1>1, <1>2, <2>1
      <4>2. QED BY <2>1, <2>2, <4>1, ClearedIn
    <3>2. T \subseteq KeptEntries(p)'
      BY <1>1, <1>7
    <3> HIDE DEF T
    <3>3. QED BY <2>2, <3>1, <3>2, SeqWider
  <2>3. CASE q # p
    <3>1. cache'[q] = cache[q] /\ KeptEntries(q) \subseteq KeptEntries(q)'
      BY <1>2, <1>7, <2>1, <2>3
    <3>2. QED BY <2>1, <3>1, SeqWider
  <2>4. QED BY <2>2, <2>3
<1>9. ASSUME NEW r \in Reader PROVE ReadFits(rd[r])'
  <2>1. PICK c : c = rd[r] /\ c = rd'[r] /\ ReadFits(c)
    BY <1>2 DEF CacheInv
  <2>2. c.pc \in {"handler", "body", "done"} => Owner[c.key] \in User
    BY <2>1, Constants DEF ReadFits
  <2>3. ReadFits(c)'
    BY <1>2, <1>3, <1>6, <2>1, <2>2 DEF ReadFits, Waits, Runs, Answers
  <2>4. QED BY <2>1, <2>3
<1>10. ASSUME NEW x \in Writer PROVE WriteFits(wr[x])'
  <2>1. CASE x = w
    <3>1. wr'[x] = Written
      BY <1>1, <1>2, <2>1 DEF CacheInv
    <3>2. QED BY <3>1, WrittenFits
  <2>2. CASE x # w
    <3>1. PICK c : c = wr[x] /\ c = wr'[x] /\ WriteFits(c)
      BY <1>2, <2>2 DEF CacheInv
    <3>2. WriteFits(c)'
      BY <1>3, <3>1 DEF WriteFits
    <3>3. QED BY <3>1, <3>2
  <2>3. QED BY <2>1, <2>2
<1>11. DOMAIN cache' = Process /\ DOMAIN rd' = Reader /\ DOMAIN wr' = Writer
  BY <1>2 DEF CacheInv
<1>12. QED BY <1>5, <1>8, <1>9, <1>10, <1>11 DEF CacheInv

LEMMA RestartKeeps ==
  ASSUME CacheInv, NEW p \in Process, Restart(p)
  PROVE  CacheInv'
<1>1. /\ cache' = [cache EXCEPT ![p] = <<>>]
      /\ rd' = [r \in Reader |-> IF rd[r].process = p /\ InHandler(r)
                                 THEN Idle ELSE rd[r]]
      /\ wr' = [w \in Writer |-> IF wr[w].process = p THEN Written ELSE wr[w]]
      /\ UNCHANGED <<clock, ended, acked, shown>>
  BY DEF Restart
<1>2. /\ Times' /\ AckedFits' /\ ShownFits'
      /\ \A q \in Process : KeptEntries(q)' = KeptEntries(q)
      /\ \A d : ReadFits(d) => ReadFits(d)'
      /\ \A d : WriteFits(d) => WriteFits(d)'
  BY <1>1, SameData DEF CacheInv
<1>3. ASSUME NEW r \in Reader PROVE ReadFits(rd[r])'
  <2>1. PICK d : d = rd'[r]
    OBVIOUS
  <2>2. d = Idle \/ d = rd[r]
    BY <1>1, <2>1
  <2>3. ReadFits(d)
    BY <2>2, IdleFits DEF CacheInv
  <2>4. QED BY <1>2, <2>1, <2>3
<1>4. ASSUME NEW w \in Writer PROVE WriteFits(wr[w])'
  <2>1. PICK d : d = wr'[w]
    OBVIOUS
  <2>2. d = Written \/ d = wr[w]
    BY <1>1, <2>1
  <2>3. WriteFits(Written) /\ WriteFits(wr[w])
    BY WrittenFits DEF CacheInv
  <2>4. QED BY <1>2, <2>1, <2>2, <2>3
<1>5. ASSUME NEW q \in Process PROVE cache'[q] \in Seq(KeptEntries(q)')
  <2>1. cache[q] \in Seq(KeptEntries(q)) /\ (cache'[q] = <<>> \/ cache'[q] = cache[q])
    BY <1>1 DEF CacheInv
  <2>2. <<>> \in Seq(KeptEntries(q))
    OBVIOUS
  <2>3. QED BY <1>2, <2>1, <2>2
<1>6. DOMAIN cache' = Process /\ DOMAIN rd' = Reader /\ DOMAIN wr' = Writer
  BY <1>1 DEF CacheInv
<1>7. QED BY <1>2, <1>3, <1>4, <1>5, <1>6 DEF CacheInv

-----------------------------------------------------------------------------
\* Every entry and every read fits what the database has committed, whatever
\* the order of reads, writes, expiry, eviction and restarts.
THEOREM CacheFits == Spec => []CacheInv
<1>1. Init => CacheInv
  <2> SUFFICES ASSUME Init PROVE CacheInv
    OBVIOUS
  <2>1. Times
    BY DEF Init, Times
  <2>2. AckedFits
    <3>1. \A u \in User : Current(u) \in Nat
      BY <2>1, CurrentIsNat
    <3>2. QED BY <3>1 DEF Init, AckedFits
  <2>7. ShownFits
    <3>1. \A k \in Key : Current(Owner[k]) \in Nat
      BY <2>1, CurrentIsNat, Constants
    <3>2. QED BY <3>1 DEF Init, ShownFits
  <2>3. DOMAIN cache = Process /\ \A p \in Process : cache[p] \in Seq(KeptEntries(p))
    BY DEF Init
  <2>4. DOMAIN rd = Reader /\ \A r \in Reader : ReadFits(rd[r])
    BY IdleFits DEF Init
  <2>5. DOMAIN wr = Writer /\ \A w \in Writer : WriteFits(wr[w])
    BY DEF Init, WriteFits, Write
  <2>6. QED BY <2>1, <2>2, <2>3, <2>4, <2>5, <2>7 DEF CacheInv
<1>2. CacheInv /\ [Next]_vars => CacheInv'
  <2> SUFFICES ASSUME CacheInv, [Next]_vars PROVE CacheInv'
    OBVIOUS
  <2>1. ASSUME NEW r \in Reader, NEW p \in Process, NEW k \in Key, Lookup(r, p, k) PROVE CacheInv'
    BY <2>1, LookupKeeps
  <2>2. ASSUME NEW r \in Reader, NEW matches \in BOOLEAN, Respond(r, matches) PROVE CacheInv'
    BY <2>2, RespondKeeps
  <2>3. ASSUME NEW r \in Reader, FirstQuery(r) PROVE CacheInv'
    BY <2>3, FirstQueryKeeps
  <2>5. ASSUME NEW r \in Reader, BadRequest(r) \/ HandlerFails(r) PROVE CacheInv'
    BY <2>5, GiveUpKeeps
  <2>6. ASSUME NEW w \in Writer, NEW u \in User, NEW p \in Process, Commit(w, p, u) PROVE CacheInv'
    <3> DEFINE c == [pc |-> "committed", process |-> p, user |-> u, version |-> Current(u) + 1]
    <3>1. /\ Supersede(u) /\ UNCHANGED <<clock, cache, acked, shown>> /\ wr' = [wr EXCEPT ![w] = c]
      BY <2>6 DEF Commit
    <3>2. Times /\ Current(u) \in Nat
      BY CurrentIsNat DEF CacheInv
    <3>3. Current(u)' = Current(u) + 1
      BY <3>1, <3>2, SupersedeEnds
    <3>4. PICK d : d = c
      OBVIOUS
    <3>5. d \in Write /\ d.process = p /\ d.user = u /\ d.version = Current(u) + 1
      BY <3>2, <3>4 DEF Write
    <3>6. WriteFits(d)'
      BY <3>2, <3>3, <3>5 DEF WriteFits
    <3>7. wr' = [wr EXCEPT ![w] = d]
      BY <3>1, <3>4
    <3>8. QED BY <3>1, <3>6, <3>7, CommitKeeps
  <2>7. ASSUME NEW w \in Writer, NEW u \in User, CommitUnheard(w, u) PROVE CacheInv'
    <3>1. /\ Supersede(u) /\ UNCHANGED <<clock, cache, acked, shown>>
          /\ wr' = [wr EXCEPT ![w] = Written]
      BY <2>7 DEF CommitUnheard
    <3>2. QED BY <3>1, WrittenFits, CommitKeeps
  <2>8. ASSUME NEW w \in Writer, Invalidate(w) PROVE CacheInv'
    BY <2>8, InvalidateKeeps
  <2>9. ASSUME NEW p \in Process, Restart(p) PROVE CacheInv'
    BY <2>9, RestartKeeps
  <2>10. CASE Tick
    BY <2>10, TickAges
  <2>11. ASSUME UNCHANGED vars PROVE CacheInv'
    <3>1. UNCHANGED <<clock, ended, cache, acked, shown, rd, wr>>
      BY <2>11 DEF vars
    <3>2. QED BY <3>1, SameData DEF CacheInv
  <2>12. QED
    BY <2>1, <2>2, <2>3, <2>5, <2>6, <2>7, <2>8, <2>9, <2>10, <2>11 DEF Next
<1>3. QED BY <1>1, <1>2, PTL DEF Spec

\* Once a process has answered a write, the reads it begins later show it.
THEOREM OwnWritesRead == Spec => []ReadYourWrites
<1>1. CacheInv => ReadYourWrites
  BY DEF CacheInv, ReadFits, Answers, ReadYourWrites, Answered
<1>2. QED BY <1>1, CacheFits, PTL

\* An answer of a process on the primary shows no less of a URL than its cache
\* has shown before, unless a write overtook the handler that filled the entry.
THEOREM CachesAdvance == Spec => CacheAdvances
<1>1. CacheInv /\ [Next]_vars =>
        [\A r \in Reader :
           (rd'[r] # rd[r] /\ Answered(r)' /\ ~rd'[r].overtaken /\ Lag[rd'[r].process] = 0)
             => rd'[r].version >= shown[rd'[r].process][rd'[r].key]]_vars
  <2> SUFFICES ASSUME CacheInv, [Next]_vars, NEW r \in Reader, rd'[r] # rd[r], rd'[r].pc = "done",
                      ~rd'[r].overtaken, Lag[rd'[r].process] = 0
               PROVE  rd'[r].version >= shown[rd'[r].process][rd'[r].key]
    BY DEF Answered
  <2>1. ASSUME NEW p \in Process, NEW k \in Key, Lookup(r, p, k)
        PROVE  rd'[r].version >= shown[rd'[r].process][rd'[r].key]
    <3> DEFINE asked == [Idle EXCEPT !.process = p, !.key = k, !.floor = acked[p][Owner[k]]]
               miss == [asked EXCEPT !.pc = "handler"]
               hit(e) == [asked EXCEPT !.pc = "done", !.version = e.version,
                                       !.overtaken = e.overtaken]
    <3>4. rd'[r] = miss \/ \E i \in Hits(p, k) : rd'[r] = hit(cache[p][i])
      BY <2>1 DEF Lookup, CacheInv
    <3>5. miss.pc # "done"
      BY DEF Idle
    <3>6. ASSUME NEW e PROVE /\ hit(e).version = e.version /\ hit(e).overtaken = e.overtaken
                             /\ hit(e).process = p /\ hit(e).key = k
      BY DEF Idle
    <3> HIDE DEF miss, hit
    <3>1. PICK i \in Hits(p, k) : /\ rd'[r].version = cache[p][i].version
            /\ rd'[r].overtaken = cache[p][i].overtaken /\ rd'[r].process = p /\ rd'[r].key = k
      BY <3>4, <3>5, <3>6
    <3>2. cache[p][i] \in KeptEntries(p) /\ cache[p][i].key = k
      BY DEF Hits, CacheInv
    <3>3. QED BY <3>1, <3>2 DEF KeptEntries, Kept
  <2>2. ASSUME NEW matches \in BOOLEAN, Respond(r, matches)
        PROVE  rd'[r].version >= shown[rd'[r].process][rd'[r].key]
    <3>1. PICK d \in Read : /\ d = rd[r] /\ d.pc = "body" /\ Runs(d.process, d.key, d)
                            /\ d.process \in Process /\ d.key \in Key
      BY <2>2 DEF CacheInv, ReadFits, Respond
    <3>2. rd'[r] = [d EXCEPT !.pc = "done", !.snapshotAt = 0]
      BY <2>2, <3>1 DEF Respond, Finish, CacheInv
    <3>3. /\ rd'[r].version = d.version /\ rd'[r].overtaken = d.overtaken
          /\ rd'[r].process = d.process /\ rd'[r].key = d.key
      BY <3>2 DEF Read
    <3>4. d.version = Current(Owner[d.key])
      BY <3>1, <3>3 DEF Runs
    <3>5. shown[d.process][d.key] <= Current(Owner[d.key])
      BY <3>1 DEF CacheInv, ShownFits
    <3>6. /\ shown[d.process][d.key] \in Nat /\ d.version \in Nat
      BY <3>1 DEF CacheInv, ShownFits, Read
    <3>7. QED BY <3>3, <3>4, <3>5, <3>6
  <2>3. ASSUME ~\E p \in Process, k \in Key : Lookup(r, p, k),
               ~\E matches \in BOOLEAN : Respond(r, matches)
        PROVE  FALSE
    <3>1. rd'[r] = rd[r] \/ rd'[r].pc # "done"
      <4>1. ASSUME NEW x \in Reader,
                   \/ \E p \in Process, k \in Key : Lookup(x, p, k)
                   \/ \E matches \in BOOLEAN : Respond(x, matches)
                   \/ FirstQuery(x) \/ BadRequest(x) \/ HandlerFails(x)
            PROVE  rd'[r] = rd[r] \/ rd'[r].pc # "done"
        <5>1. CASE x = r
          <6>1. rd[r] \in Read /\ DOMAIN rd = Reader
            BY DEF CacheInv, ReadFits
          <6>2. FirstQuery(r) \/ BadRequest(r) \/ HandlerFails(r)
            BY <2>3, <4>1, <5>1
          <6>3. CASE FirstQuery(r)
            BY <6>1, <6>3 DEF FirstQuery, Read
          <6>4. CASE BadRequest(r) \/ HandlerFails(r)
            BY <6>1, <6>4 DEF BadRequest, HandlerFails, Idle
          <6>5. QED BY <6>2, <6>3, <6>4
        <5>2. CASE x # r
          BY <4>1, <5>2 DEF Lookup, Respond, Finish, FirstQuery, BadRequest, HandlerFails, CacheInv
        <5>3. QED BY <5>1, <5>2
      <4>2. ASSUME NEW u \in User, Supersede(u) PROVE rd'[r] = rd[r] \/ rd'[r].pc # "done"
        <5>1. rd[r] \in Read
          BY DEF CacheInv, ReadFits
        <5>2. rd'[r] = rd[r] \/ (rd[r].pc = "body" /\ rd'[r] = [rd[r] EXCEPT !.overtaken = TRUE])
          BY <4>2 DEF Supersede, Overtake
        <5>3. QED BY <5>1, <5>2 DEF Read
      <4>3. ASSUME Tick \/ \E p \in Process : Restart(p)
            PROVE  rd'[r] = rd[r] \/ rd'[r].pc # "done"
        BY <4>3 DEF Tick, Restart, Idle
      <4>4. ASSUME NEW w \in Writer, Invalidate(w) PROVE rd'[r] = rd[r]
        BY <4>4 DEF Invalidate
      <4>5. ASSUME UNCHANGED vars PROVE rd'[r] = rd[r]
        BY <4>5 DEF vars
      <4>6. QED BY <4>1, <4>2, <4>3, <4>4, <4>5 DEF Next, Commit, CommitUnheard
    <3>2. QED BY <3>1
  <2>4. QED BY <2>1, <2>2, <2>3
<1>2. QED BY <1>1, CacheFits, PTL DEF Spec, CacheAdvances

\* No answer is older than the TTL, one handler's run and the lag.  A TTL of
\* zero disables the cache: then the bound may be met exactly.
THEOREM StalenessIsBounded == TTL > 0 => (Spec => []StalenessBounded)
<1> SUFFICES ASSUME TTL > 0 PROVE Spec => []StalenessBounded
  OBVIOUS
<1>1. CacheInv => StalenessBounded
  BY DEF CacheInv, ReadFits, Answers, StalenessBounded, Answered
<1>2. QED BY <1>1, CacheFits, PTL
=============================================================================
