------------------------------ MODULE DataFacts ------------------------------
(***************************************************************************)
(* Facts about finite sets, sums and sequences that the proofs about the   *)
(* components share.  Induction is by the smallest subset that violates a  *)
(* claim, which exists because strict inclusion is well founded on the     *)
(* subsets of a finite set.  The community modules define a sum as a fold: *)
(* a recursive function over the subsets of a set, which removes one       *)
(* chosen element at a time.                                               *)
(***************************************************************************)
EXTENDS Integers, Functions, SequencesExt, FiniteSetTheorems, WellFoundedInduction, TLAPS

-----------------------------------------------------------------------------
(* Smallest counterexamples *)

\* Some set among the bad ones contains no other bad one.
LEMMA SmallestSubset ==
  ASSUME NEW S, IsFiniteSet(S), NEW Bad \in SUBSET SUBSET S, Bad # {}
  PROVE  \E T \in Bad : \A U \in Bad : U \subseteq T => U = T
<1>1. IsWellFoundedOn(StrictSubsetOrdering(S), SUBSET S)
  BY FS_StrictSubsetOrderingWellFounded, FS_FiniteSubsetsOfFinite
<1>2. \E T \in Bad : \A U \in Bad : ~ (<<U, T>> \in StrictSubsetOrdering(S))
  BY <1>1, WFMin
<1>3. QED BY <1>2 DEF StrictSubsetOrdering

\* Some number among those up to n is the first.
LEMMA FirstNumber ==
  ASSUME NEW n \in Nat, NEW I \in SUBSET (0..n), I # {}
  PROVE  \E m \in I : \A i \in I : m <= i
<1> DEFINE Bad == {0..i : i \in I}
<1>1. Bad \in SUBSET SUBSET (0..n) /\ Bad # {}
  <2>1. \A i \in I : 0..i \in SUBSET (0..n)
    OBVIOUS
  <2>2. QED BY <2>1
<1>2. PICK T \in Bad : \A U \in Bad : U \subseteq T => U = T
  <2> DEFINE N == 0..n
  <2>1. IsFiniteSet(N)
    BY FS_Interval
  <2>2. Bad \in SUBSET SUBSET N
    BY <1>1
  <2>3. Bad # {}
    BY <1>1
  <2> HIDE DEF Bad, N
  <2>4. QED BY <2>1, <2>2, <2>3, SmallestSubset
<1> USE DEF Bad
<1>3. PICK m \in I : T = 0..m
  OBVIOUS
<1>4. ASSUME NEW i \in I, i < m PROVE FALSE
  <2>1. 0..i \subseteq T /\ m \in T /\ m \notin 0..i
    BY <1>3, <1>4
  <2>2. QED BY <1>2, <2>1
<1>5. QED BY <1>4

LEMMA LastNumber ==
  ASSUME NEW n \in Nat, NEW I \in SUBSET (0..n), I # {}
  PROVE  \E m \in I : \A i \in I : i <= m
<1> DEFINE J == {n - i : i \in I}
<1>1. J \in SUBSET (0..n) /\ J # {}
  <2>1. \A i \in I : n - i \in 0..n
    OBVIOUS
  <2>2. PICK i \in I : TRUE
    OBVIOUS
  <2>3. n - i \in J
    OBVIOUS
  <2>4. QED BY <2>1, <2>3
<1> HIDE DEF J
<1>2. PICK j \in J : \A i \in J : j <= i
  BY <1>1, FirstNumber
<1> USE DEF J
<1>3. PICK m \in I : j = n - m
  OBVIOUS
<1>4. ASSUME NEW i \in I PROVE i <= m
  <2>1. n - i \in J
    OBVIOUS
  <2>2. n - m <= n - i
    BY <1>2, <1>3, <2>1
  <2>3. QED BY <2>2
<1>5. QED BY <1>4

-----------------------------------------------------------------------------
(* Sums: SumFunctionOnSet *)

\* The element the fold removes from s.
Least(s) == CHOOSE x \in s : TRUE

\* h gives every subset of s the sum of f over it.
Recurs(h, f, s) ==
  h = [t \in SUBSET s |-> IF t = {} THEN 0 ELSE f[Least(t)] + h[t \ {Least(t)}]]

\* The fold is such a function, if there is one.
LEMMA SumDef ==
  ASSUME NEW f, NEW S
  PROVE SumFunctionOnSet(f, S) = (CHOOSE h : Recurs(h, f, S))[S]
BY DEF SumFunctionOnSet, FoldFunctionOnSet, MapThenFoldSet, Recurs, Least

\* A non-empty set has the chosen element.
LEMMA LeastIn == ASSUME NEW s, s # {} PROVE Least(s) \in s
BY DEF Least

\* One step of the recursion.
LEMMA RecursStep ==
  ASSUME NEW S, NEW f, NEW h, Recurs(h, f, S), NEW t \in SUBSET S, t # {}
  PROVE  /\ Least(t) \in t
         /\ t \ {Least(t)} \in SUBSET S
         /\ h[t] = f[Least(t)] + h[t \ {Least(t)}]
BY LeastIn DEF Recurs

\* Two functions that obey the recursion agree wherever both are defined.
LEMMA RecursUnique ==
  ASSUME NEW S, IsFiniteSet(S), NEW f, NEW A \in SUBSET S, NEW B \in SUBSET S,
         NEW g, NEW h, Recurs(g, f, A), Recurs(h, f, B)
  PROVE  \A t \in SUBSET (A \cap B) : g[t] = h[t]
<1> DEFINE Bad == {t \in SUBSET (A \cap B) : g[t] # h[t]}
<1> SUFFICES ASSUME Bad # {} PROVE FALSE
  OBVIOUS
<1>1. PICK T \in Bad : \A U \in Bad : U \subseteq T => U = T
  <2>1. Bad \in SUBSET SUBSET S
    OBVIOUS
  <2> HIDE DEF Bad
  <2>2. QED BY <2>1, SmallestSubset
<1>2. T # {}
  BY DEF Recurs
<1>3. /\ Least(T) \in T
      /\ g[T] = f[Least(T)] + g[T \ {Least(T)}]
      /\ h[T] = f[Least(T)] + h[T \ {Least(T)}]
  BY <1>2, RecursStep
<1>4. g[T \ {Least(T)}] = h[T \ {Least(T)}]
  BY <1>1, <1>3
<1>5. QED BY <1>3, <1>4

\* On every finite set some function obeys it.
LEMMA RecursExists ==
  ASSUME NEW S, IsFiniteSet(S), NEW f
  PROVE  \E h : Recurs(h, f, S)
<1> DEFINE Bad == {s \in SUBSET S : ~\E h : Recurs(h, f, s)}
           Val(s) == CHOOSE v : \E h : Recurs(h, f, s) /\ v = h[s]
<1> SUFFICES ASSUME Bad # {} PROVE FALSE
  OBVIOUS
<1>1. PICK T \in Bad : \A U \in Bad : U \subseteq T => U = T
  <2>1. Bad \in SUBSET SUBSET S
    OBVIOUS
  <2> HIDE DEF Bad
  <2>2. QED BY <2>1, SmallestSubset
<1>2. \A u \in SUBSET T : u # T => \E h : Recurs(h, f, u)
  BY <1>1
<1>3. \A u \in SUBSET T : \A h : Recurs(h, f, u) => Val(u) = h[u]
  <2> SUFFICES ASSUME NEW u \in SUBSET T, NEW h, Recurs(h, f, u) PROVE Val(u) = h[u]
    OBVIOUS
  <2>1. \E v : \E g : Recurs(g, f, u) /\ v = g[u]
    OBVIOUS
  <2>2. PICK g : Recurs(g, f, u) /\ Val(u) = g[u]
    BY <2>1
  <2>3. g[u] = h[u]
    BY <2>2, RecursUnique
  <2>4. QED BY <2>2, <2>3
<1> DEFINE H == [t \in SUBSET T |-> IF t = {} THEN 0 ELSE f[Least(t)] + Val(t \ {Least(t)})]
<1>4. \A t \in SUBSET T : t # T => H[t] = Val(t)
  <2> SUFFICES ASSUME NEW t \in SUBSET T, t # T PROVE H[t] = Val(t)
    OBVIOUS
  <2>1. PICK h : Recurs(h, f, t)
    BY <1>2
  <2>2. Val(t) = h[t]
    BY <1>3, <2>1
  <2>3. CASE t = {}
    BY <2>1, <2>2, <2>3 DEF Recurs
  <2>4. CASE t # {}
    <3> DEFINE u == t \ {Least(t)}
    <3>1. u \in SUBSET T /\ u # T /\ u \in SUBSET t /\ h[t] = f[Least(t)] + h[u]
      BY <2>1, <2>4, RecursStep
    <3>2. PICK g : Recurs(g, f, u)
      BY <1>2, <3>1
    <3>3. g[u] = h[u]
      BY <2>1, <3>1, <3>2, RecursUnique
    <3>4. Val(u) = g[u]
      BY <1>3, <3>1, <3>2
    <3>5. H[t] = f[Least(t)] + Val(u)
      BY <2>4
    <3>6. QED BY <2>2, <3>1, <3>3, <3>4, <3>5
  <2>5. QED BY <2>3, <2>4
<1>5. Recurs(H, f, T)
  <2>1. ASSUME NEW t \in SUBSET T, t # {}
        PROVE  H[t] = f[Least(t)] + H[t \ {Least(t)}]
    <3>1. Least(t) \in t /\ t \ {Least(t)} \in SUBSET T /\ t \ {Least(t)} # T
      BY <2>1, LeastIn
    <3>2. H[t \ {Least(t)}] = Val(t \ {Least(t)})
      BY <1>4, <3>1
    <3>3. H[t] = f[Least(t)] + Val(t \ {Least(t)})
      BY <2>1
    <3>4. QED BY <3>2, <3>3
  <2>2. H[{}] = 0
    OBVIOUS
  <2>3. H = [t \in SUBSET T |-> H[t]]
    OBVIOUS
  <2> HIDE DEF H
  <2>4. [t \in SUBSET T |-> H[t]]
          = [t \in SUBSET T |-> IF t = {} THEN 0 ELSE f[Least(t)] + H[t \ {Least(t)}]]
    BY <2>1, <2>2
  <2>5. QED BY <2>3, <2>4 DEF Recurs
<1>6. QED BY <1>1, <1>5

\* So every sum over a finite set obeys the recursion.
LEMMA SumRecurs ==
  ASSUME NEW S, IsFiniteSet(S), NEW f
  PROVE  \E h : Recurs(h, f, S) /\ SumFunctionOnSet(f, S) = h[S]
BY RecursExists, SumDef

\* Any term of a sum can be taken out of it, not only the one the fold chooses.
LEMMA SumRemove ==
  ASSUME NEW S, IsFiniteSet(S), NEW f, \A s \in S : f[s] \in Int
  PROVE  /\ SumFunctionOnSet(f, S) \in Int
         /\ \A x \in S : SumFunctionOnSet(f, S) = f[x] + SumFunctionOnSet(f, S \ {x})
<1>1. PICK h : Recurs(h, f, S) /\ SumFunctionOnSet(f, S) = h[S]
  BY SumRecurs
<1> DEFINE Good(t) == h[t] \in Int /\ \A x \in t : h[t] = f[x] + h[t \ {x}]
           Bad == {t \in SUBSET S : ~Good(t)}
<1>2. ASSUME Bad # {} PROVE FALSE
  <2>1. PICK T \in Bad : \A U \in Bad : U \subseteq T => U = T
    <3>1. Bad \in SUBSET SUBSET S
      OBVIOUS
    <3> HIDE DEF Bad
    <3>2. QED BY <1>2, <3>1, SmallestSubset
  <2>2. T # {}
    BY <1>1 DEF Recurs
  <2>3. PICK l \in T : h[T] = f[l] + h[T \ {l}]
    <3>1. Least(T) \in T /\ h[T] = f[Least(T)] + h[T \ {Least(T)}]
      BY <1>1, <2>2, RecursStep
    <3>2. QED BY <3>1
  <2>s. T \in SUBSET S
    OBVIOUS
  <2>g. \A U \in SUBSET T : U # T => h[U] \in Int /\ \A x \in U : h[U] = f[x] + h[U \ {x}]
    BY <2>1
  <2>4. \A x \in T : /\ f[x] \in Int /\ h[T \ {x}] \in Int
                     /\ \A y \in T \ {x} : h[T \ {x}] = f[y] + h[(T \ {x}) \ {y}]
    <3> HIDE DEF Bad
    <3>1. ASSUME NEW x \in T PROVE T \ {x} \in SUBSET T /\ T \ {x} # T
      OBVIOUS
    <3>2. QED BY <3>1, <2>g, <2>s
  <2>5. h[T] \in Int
    <3>1. f[l] \in Int /\ h[T \ {l}] \in Int
      BY <2>4
    <3> HIDE DEF Bad
    <3>2. QED BY <2>3, <3>1
  <2>6. ASSUME NEW x \in T PROVE h[T] = f[x] + h[T \ {x}]
    <3>1. CASE x = l
      BY <2>3, <3>1
    <3>2. CASE x # l
      <4>1. h[T \ {l}] = f[x] + h[(T \ {l}) \ {x}]
        BY <2>4, <3>2
      <4>2. h[T \ {x}] = f[l] + h[(T \ {x}) \ {l}]
        BY <2>4, <3>2
      <4>3. (T \ {l}) \ {x} = (T \ {x}) \ {l}
        OBVIOUS
      <4> DEFINE rest == h[(T \ {l}) \ {x}]
      <4>4. h[T] = f[l] + (f[x] + rest) /\ h[T \ {x}] = f[l] + rest
        BY <2>3, <4>1, <4>2, <4>3
      <4>5. h[T \ {x}] \in Int /\ f[l] \in Int /\ f[x] \in Int /\ h[T \ {l}] \in Int
        BY <2>4
      <4>6. rest \in Int
        <5>1. (T \ {l}) \ {x} \in SUBSET T /\ (T \ {l}) \ {x} # T
          OBVIOUS
        <5>2. QED BY <5>1, <2>g
      <4> HIDE DEF rest
      <4>7. QED BY <4>4, <4>5, <4>6
    <3>3. QED BY <3>1, <3>2
  <2>7. QED BY <2>1, <2>5, <2>6
<1>3. Good(S)
  BY <1>2
<1>4. ASSUME NEW x \in S PROVE h[S \ {x}] = SumFunctionOnSet(f, S \ {x})
  <2> DEFINE R == S \ {x}
  <2>1. R \in SUBSET S /\ IsFiniteSet(R)
    BY FS_Subset
  <2>2. PICK g : Recurs(g, f, R) /\ SumFunctionOnSet(f, R) = g[R]
    BY <2>1, SumRecurs
  <2>3. R \in SUBSET (S \cap R)
    OBVIOUS
  <2> HIDE DEF R
  <2>4. h[R] = g[R]
    BY <1>1, <2>1, <2>2, <2>3, RecursUnique
  <2>5. QED BY <2>2, <2>4 DEF R
<1>5. QED BY <1>1, <1>3, <1>4

\* A sum depends on the terms alone.
LEMMA SumSame ==
  ASSUME NEW S, IsFiniteSet(S), NEW f, NEW g, \A s \in S : g[s] = f[s]
  PROVE  SumFunctionOnSet(g, S) = SumFunctionOnSet(f, S)
<1>1. PICK hf : Recurs(hf, f, S) /\ SumFunctionOnSet(f, S) = hf[S]
  BY SumRecurs
<1>2. PICK hg : Recurs(hg, g, S) /\ SumFunctionOnSet(g, S) = hg[S]
  BY SumRecurs
<1>3. hf = [t \in SUBSET S |-> IF t = {} THEN 0 ELSE f[Least(t)] + hf[t \ {Least(t)}]]
  BY <1>1 DEF Recurs
<1>4. \A t \in SUBSET S : t # {} => g[Least(t)] = f[Least(t)]
  BY LeastIn
<1>5. Recurs(hg, f, S)
  <2>1. [t \in SUBSET S |-> IF t = {} THEN 0 ELSE g[Least(t)] + hg[t \ {Least(t)}]]
        = [t \in SUBSET S |-> IF t = {} THEN 0 ELSE f[Least(t)] + hg[t \ {Least(t)}]]
    BY <1>4
  <2>2. QED BY <1>2, <2>1 DEF Recurs
<1>6. QED BY <1>1, <1>2, <1>5, RecursUnique

\* A sum changes by d when one of its terms does.
LEMMA SumChange ==
  ASSUME NEW S, IsFiniteSet(S), NEW f \in [S -> Int], NEW g \in [S -> Int],
         NEW a \in S, NEW d \in Int,
         \A s \in S : g[s] = IF s = a THEN f[s] + d ELSE f[s]
  PROVE  /\ SumFunctionOnSet(f, S) \in Int
         /\ SumFunctionOnSet(g, S) = SumFunctionOnSet(f, S) + d
<1> DEFINE rest == SumFunctionOnSet(f, S \ {a})
<1>1. IsFiniteSet(S \ {a}) /\ \A s \in S : g[s] \in Int
  BY FS_Subset
<1>2. SumFunctionOnSet(f, S) \in Int /\ SumFunctionOnSet(f, S) = f[a] + rest
  BY SumRemove
<1>3. SumFunctionOnSet(g, S) = g[a] + SumFunctionOnSet(g, S \ {a})
  BY <1>1, SumRemove
<1>4. SumFunctionOnSet(g, S \ {a}) = rest
  BY <1>1, SumSame
<1>5. rest \in Int
  BY <1>1, SumRemove
<1> HIDE DEF rest
<1>6. QED BY <1>2, <1>3, <1>4, <1>5

\* A sum of zeros is zero.
LEMMA SumOfZeros ==
  ASSUME NEW S, IsFiniteSet(S), NEW f, \A s \in S : f[s] = 0
  PROVE  SumFunctionOnSet(f, S) = 0
<1>1. PICK h : Recurs(h, f, S) /\ SumFunctionOnSet(f, S) = h[S]
  BY SumRecurs
<1> DEFINE Bad == {t \in SUBSET S : h[t] # 0}
<1>2. ASSUME Bad # {} PROVE FALSE
  <2>1. PICK T \in Bad : \A U \in Bad : U \subseteq T => U = T
    <3>1. Bad \in SUBSET SUBSET S
      OBVIOUS
    <3> HIDE DEF Bad
    <3>2. QED BY <1>2, <3>1, SmallestSubset
  <2>2. T # {}
    BY <1>1 DEF Recurs
  <2>3. /\ Least(T) \in T
        /\ h[T] = f[Least(T)] + h[T \ {Least(T)}]
    BY <1>1, <2>2, RecursStep
  <2>4. h[T \ {Least(T)}] = 0
    BY <2>1, <2>3
  <2>5. QED BY <2>3, <2>4
<1>3. QED BY <1>1, <1>2

-----------------------------------------------------------------------------
(* Sequences *)

\* Removing an element leaves elements of the sequence.
LEMMA RemoveFirstIn ==
  ASSUME NEW S, NEW s \in Seq(S), NEW e
  PROVE  RemoveFirst(s, e) \in Seq(S)
<1>1. CASE \E i \in 1..Len(s) : s[i] = e
  <2> DEFINE I == {i \in 1..Len(s) : s[i] = e}
             m == CHOOSE x \in I : \A y \in I : x <= y
  <2>1. RemoveFirst(s, e) = SubSeq(s, 1, m - 1) \o SubSeq(s, m + 1, Len(s))
    BY <1>1 DEF RemoveFirst, RemoveAt, SelectInSeq, Min
  <2>2. I # {} /\ I \in SUBSET (1..Len(s)) /\ I \in SUBSET (0..Len(s)) /\ Len(s) \in Nat
    BY <1>1
  <2> HIDE DEF I
  <2>3. m \in I
    BY <2>2, FirstNumber
  <2> HIDE DEF m
  <2>4. m \in 1..Len(s)
    BY <2>2, <2>3
  <2>5. SubSeq(s, 1, m - 1) \in Seq(S) /\ SubSeq(s, m + 1, Len(s)) \in Seq(S)
    BY <2>4
  <2>6. QED BY <2>1, <2>5
<1>2. QED BY <1>1 DEF RemoveFirst
=============================================================================
