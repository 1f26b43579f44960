--------------------------- MODULE CommonProofs -----------------------------
(***************************************************************************)
(* What the proofs about several components rest on: the position          *)
(* generator stays within 32 bits; induction; folds and sums.              *)
(***************************************************************************)
EXTENDS Rng, SequencesExt, TLAPS, WellFoundedInduction, NaturalsInduction, FiniteSetTheorems

-----------------------------------------------------------------------------
\* The position generator.

\* I32 by its bounds.  (Where the bounds are written out as numbers, an
\* interval is beyond the provers.)
LEMMA I32Bounds ==
  /\ MaxI32 \in Nat
  /\ \A s : s \in I32 <=> s \in Int /\ -MaxI32 <= s /\ s <= MaxI32
<1>1. MaxI32 \in Nat
  BY SMT DEF MaxI32
<1> QED BY <1>1, SMT DEF I32

\* pmars_rng computes in 64 bits and casts back to 32: the cast never cuts,
\* and after one draw the seed is never negative.
THEOREM RngRange ==
  ASSUME NEW s \in I32
  PROVE  PmarsRng(s) \in I32 /\ PmarsRng(s) >= 0
<1>1. MaxI32 = 2147483647 /\ s \in Int /\ s <= MaxI32 /\ -MaxI32 <= s
  BY I32Bounds, SMT DEF MaxI32
<1>2. /\ Quot(s) \in Int /\ Rest(s) \in Int
      /\ \/ /\ 0 <= Quot(s) /\ Quot(s) <= 16807
            /\ 0 <= Rest(s) /\ Rest(s) <= 127772
         \/ /\ -16807 <= Quot(s) /\ Quot(s) <= 0
            /\ -127772 <= Rest(s) /\ Rest(s) <= 0
  BY <1>1, SMT DEF Quot, Rest
<1>3. LET x == 16807 * Rest(s) - 2836 * Quot(s)
      IN x \in Int /\ -MaxI32 <= x /\ x <= MaxI32
  BY <1>1, <1>2, SMT
<1> QED BY <1>1, <1>3, I32Bounds, SMT DEF PmarsRng

-----------------------------------------------------------------------------
\* Induction and folds.  The theorems of the library on induction take the
\* formula as an operator; here it is a set of numbers, so that they can be
\* used by the provers there are.

\* A set of numbers with 0 and every successor has all of them.
LEMMA AllNaturals ==
  ASSUME NEW T, 0 \in T, \A n \in Nat : n \in T => n + 1 \in T
  PROVE  Nat \subseteq T
<1> DEFINE Less == {p \in Nat \X Nat : p[1] < p[2]}
           Bad == Nat \ T
<1> SUFFICES ASSUME Bad # {} PROVE FALSE
  OBVIOUS
<1>1. IsWellFoundedOn(Less, Nat)
  BY NatLessThanWellFounded DEF OpToRel
<1>2. PICK x \in Bad : \A y \in Bad : <<y, x>> \notin Less
  <2>1. Bad \subseteq Nat
    OBVIOUS
  <2> HIDE DEF Less, Bad
  <2> QED BY <1>1, <2>1, WFMin
<1>3. x \in Nat /\ x \notin T /\ x - 1 \in Nat
  OBVIOUS
<1>4. <<x - 1, x>> \in Less
  BY <1>3
<1>5. x - 1 \in T
  BY <1>2, <1>3, <1>4
<1>6. (x - 1) + 1 \in T
  BY <1>3, <1>5
<1>7. (x - 1) + 1 = x
  BY <1>3
<1> QED BY <1>3, <1>6, <1>7

\* The greatest of some numbers up to k, k among them, is k.
LEMMA MaxOf ==
  ASSUME NEW k \in Nat, NEW s \in SUBSET (1 .. k), k \in s
  PROVE  Max(s) = k
<1>1. \A y \in s : k >= y
  OBVIOUS
<1>2. \A x \in s : (\A y \in s : x >= y) => x = k
  OBVIOUS
<1> QED BY <1>1, <1>2 DEF Max

\* The last of some positions is one of them.
LEMMA MaxIn ==
  ASSUME NEW n \in Nat, NEW s \in SUBSET (1 .. n), s # {}
  PROVE  Max(s) \in s
<1> DEFINE T == {k \in Nat : \A r \in SUBSET (1 .. k) : r # {} => Max(r) \in r}
<1>1. 0 \in T
  <2>1. \A r \in SUBSET (1 .. 0) : r = {}
    OBVIOUS
  <2> QED BY <2>1
<1>2. ASSUME NEW k \in Nat, k \in T PROVE k + 1 \in T
  <2> SUFFICES ASSUME NEW r \in SUBSET (1 .. (k + 1)), r # {} PROVE Max(r) \in r
    OBVIOUS
  <2>1. CASE k + 1 \in r
    BY <2>1, MaxOf
  <2>2. CASE k + 1 \notin r
    <3>1. r \in SUBSET (1 .. k)
      BY <2>2
    <3> QED BY <1>2, <3>1
  <2> QED BY <2>1, <2>2
<1>3. n \in T
  <2> HIDE DEF T
  <2> QED BY <1>1, <1>2, AllNaturals
<1> QED BY <1>3

\* iter is a fold of F over 1 .. n: what is folded over a set of positions, as
\* FoldLeft does it, the last of them last.
IsFold(iter, n, v0, F) ==
  \A s \in SUBSET (1 .. n) :
    iter[s] = IF s = {} THEN v0 ELSE F[<<Max(s), iter[s \ {Max(s)}]>>]

\* There is one.
LEMMA FoldExists ==
  ASSUME NEW n \in Nat, NEW V, NEW v0 \in V, NEW F \in [(1 .. n) \X V -> V]
  PROVE  \E iter \in [SUBSET (1 .. n) -> V] : IsFold(iter, n, v0, F)
<1> DEFINE Good(k, g) == IsFold(g, k, v0, F)
           Has(k) == \E g \in [SUBSET (1 .. k) -> V] : Good(k, g)
           T == {k \in Nat : k <= n => Has(k)}
<1>1. Has(0)
  <2>1. SUBSET (1 .. 0) = {{}}
    OBVIOUS
  <2> DEFINE g == [s \in SUBSET (1 .. 0) |-> v0]
  <2>2. g \in [SUBSET (1 .. 0) -> V] /\ Good(0, g)
    BY <2>1 DEF IsFold
  <2> HIDE DEF g, Good
  <2> QED BY <2>2
<1>2. ASSUME NEW k \in Nat, k + 1 <= n, Has(k) PROVE Has(k + 1)
  <2>1. PICK g \in [SUBSET (1 .. k) -> V] : Good(k, g)
    BY <1>2
  <2> DEFINE m == k + 1
             h == [s \in SUBSET (1 .. m) |-> IF m \in s THEN F[<<m, g[s \ {m}]>>] ELSE g[s]]
  <2>2. \A s \in SUBSET (1 .. m) : /\ s \ {m} \in SUBSET (1 .. k)
                                   /\ m \notin s => s \in SUBSET (1 .. k)
    OBVIOUS
  <2>3. h \in [SUBSET (1 .. m) -> V]
    BY <1>2, <2>2
  <2>4. ASSUME NEW s \in SUBSET (1 .. m)
        PROVE  h[s] = IF s = {} THEN v0 ELSE F[<<Max(s), h[s \ {Max(s)}]>>]
    <3>1. CASE m \in s
      <4>1. Max(s) = m
        BY <3>1, MaxOf
      <4>2. h[s \ {m}] = g[s \ {m}]
        BY <2>2
      <4> QED BY <3>1, <4>1, <4>2
    <3>2. CASE m \notin s
      <4>1. h[s] = g[s] /\ s \in SUBSET (1 .. k)
        BY <2>2, <3>2
      <4>2. CASE s = {}
        BY <2>1, <4>1, <4>2 DEF IsFold
      <4>3. CASE s # {}
        <5> DEFINE x == Max(s)
                   r == s \ {x}
        <5> HIDE DEF x
        <5>1. r \in SUBSET (1 .. k) /\ m \notin r /\ r \in SUBSET (1 .. m)
          BY <4>1, <3>2
        <5>2. h[r] = g[r]
          BY <5>1
        <5>3. g[s] = F[<<x, g[r]>>]
          BY <2>1, <4>1, <4>3 DEF x, IsFold
        <5> QED BY <4>1, <4>3, <5>2, <5>3 DEF x
      <4> QED BY <4>2, <4>3
    <3> QED BY <3>1, <3>2
  <2>5. Good(k + 1, h)
    BY <2>4 DEF IsFold
  <2> HIDE DEF h, Good
  <2> QED BY <2>3, <2>5
<1> HIDE DEF Has
<1>3. n \in T
  <2>1. 0 \in T
    BY <1>1
  <2>2. \A k \in Nat : k \in T => k + 1 \in T
    BY <1>2
  <2> HIDE DEF T
  <2> QED BY <2>1, <2>2, AllNaturals
<1>4. Has(n)
  BY <1>3
<1> QED BY <1>4 DEF Has

\* iter folds as F does wherever what is before is in V.
FoldsIn(V, iter, n, F) ==
  \A s \in SUBSET (1 .. n) :
    s # {} /\ iter[s \ {Max(s)}] \in V => iter[s] = F[<<Max(s), iter[s \ {Max(s)}]>>]

\* What F makes of v0 position by position ends in end.
HasHistory(n, V, v0, F, end) ==
  \E hist \in [0 .. n -> V] :
    /\ hist[0] = v0
    /\ hist[n] = end
    /\ \A i \in 1 .. n : hist[i] = F[<<i, hist[i - 1]>>]

\* A fold over all positions is such an end.
LEMMA FoldSteps ==
  ASSUME NEW n \in Nat, NEW V, NEW v0 \in V, NEW F \in [(1 .. n) \X V -> V], NEW iter,
         iter[{}] = v0, FoldsIn(V, iter, n, F)
  PROVE  HasHistory(n, V, v0, F, iter[1 .. n])
<1> DEFINE hist == [i \in 0 .. n |-> iter[1 .. i]]
<1>1. \A i \in 0 .. n : hist[i] = iter[1 .. i]
  OBVIOUS
<1>2. hist = [i \in 0 .. n |-> hist[i]]
  OBVIOUS
<1> HIDE DEF hist
<1>3. hist[0] = v0
  <2>1. 1 .. 0 = {} /\ 0 \in 0 .. n
    OBVIOUS
  <2> QED BY <1>1, <2>1
<1>4. ASSUME NEW i \in 1 .. n, hist[i - 1] \in V PROVE hist[i] = F[<<i, hist[i - 1]>>]
  <2>1. /\ 1 .. i \in SUBSET (1 .. n) /\ i \in 1 .. i /\ 1 .. i # {} /\ i \in Nat
        /\ i - 1 \in 0 .. n /\ i \in 0 .. n
    OBVIOUS
  <2>5. (1 .. i) \ {i} = 1 .. (i - 1)
    OBVIOUS
  <2>2. Max(1 .. i) = i
    BY <2>1, MaxOf
  <2>3. hist[i] = iter[1 .. i] /\ hist[i - 1] = iter[1 .. (i - 1)]
    BY <1>1, <2>1
  <2> QED BY <1>4, <2>1, <2>2, <2>3, <2>5 DEF FoldsIn
<1>5. \A i \in 0 .. n : hist[i] \in V
  <2> DEFINE T == {i \in Nat : i <= n => hist[i] \in V}
  <2>1. 0 \in T
    BY <1>3
  <2>2. ASSUME NEW i \in Nat, i \in T PROVE i + 1 \in T
    <3> SUFFICES ASSUME i + 1 <= n PROVE hist[i + 1] \in V
      OBVIOUS
    <3>1. hist[i] \in V /\ i + 1 \in 1 .. n /\ (i + 1) - 1 = i
      BY <2>2
    <3> QED BY <1>4, <3>1
  <2>3. Nat \subseteq T
    <3> HIDE DEF T
    <3> QED BY <2>1, <2>2, AllNaturals
  <2> QED BY <2>3
<1>6. hist \in [0 .. n -> V]
  BY <1>2, <1>5
<1>7. hist[n] = iter[1 .. n]
  BY <1>1
<1>8. \A i \in 1 .. n : hist[i] = F[<<i, hist[i - 1]>>]
  <2> SUFFICES ASSUME NEW i \in 1 .. n PROVE hist[i] = F[<<i, hist[i - 1]>>]
    OBVIOUS
  <2>1. i - 1 \in 0 .. n
    OBVIOUS
  <2> QED BY <1>4, <1>5, <2>1
<1> QED BY <1>3, <1>6, <1>7, <1>8 DEF HasHistory

\* f goes on step by step as F does; and two ways to go on that are the same.
Steps(f, n, F) == \A i \in 1 .. n : f[i] = F[<<i, f[i - 1]>>]
Alike(F, G, n, V) == \A i \in 1 .. n : \A v \in V : F[<<i, v>>] = G[<<i, v>>]
Within(f, n, V) == \A i \in 0 .. n : f[i] \in V

\* What is made of n positions, step by step, is made of them in one way.
LEMMA HistoryUnique ==
  ASSUME NEW n \in Nat, NEW V, NEW F, NEW G, NEW g, NEW h, Alike(F, G, n, V),
         g[0] = h[0], Within(h, n, V), Steps(g, n, F), Steps(h, n, G)
  PROVE  g[n] = h[n]
<1> DEFINE T == {i \in Nat : i <= n => g[i] = h[i]}
<1>1. 0 \in T
  OBVIOUS
<1>2. ASSUME NEW i \in Nat, i \in T PROVE i + 1 \in T
  <2> SUFFICES ASSUME i + 1 <= n PROVE g[i + 1] = h[i + 1]
    OBVIOUS
  <2>1. i + 1 \in 1 .. n /\ (i + 1) - 1 = i /\ i \in 0 .. n /\ g[i] = h[i]
    BY <1>2
  <2>2. h[i] \in V
    BY <2>1 DEF Within
  <2>3. g[i + 1] = F[<<i + 1, h[i]>>] /\ h[i + 1] = G[<<i + 1, h[i]>>]
    BY <2>1 DEF Steps
  <2>4. F[<<i + 1, h[i]>>] = G[<<i + 1, h[i]>>]
    BY <2>1, <2>2 DEF Alike
  <2> QED BY <2>3, <2>4
<1>3. Nat \subseteq T
  <2> HIDE DEF T
  <2> QED BY <1>1, <1>2, AllNaturals
<1> QED BY <1>3

\* With one position more, one step more is made.
LEMMA HistoryExtends ==
  ASSUME NEW n \in Nat, NEW V, NEW v0, NEW F, NEW G, NEW x, NEW y, Alike(F, G, n, V),
         HasHistory(n + 1, V, v0, F, x), HasHistory(n, V, v0, G, y)
  PROVE  y \in V /\ x = F[<<n + 1, y>>]
<1>1. PICK g \in [0 .. (n + 1) -> V] :
        /\ g[0] = v0
        /\ g[n + 1] = x
        /\ \A i \in 1 .. (n + 1) : g[i] = F[<<i, g[i - 1]>>]
  BY DEF HasHistory
<1>2. PICK h \in [0 .. n -> V] :
        /\ h[0] = v0
        /\ h[n] = y
        /\ \A i \in 1 .. n : h[i] = G[<<i, h[i - 1]>>]
  BY DEF HasHistory
<1>3. Within(h, n, V) /\ g[0] = h[0]
  BY <1>1, <1>2 DEF Within
<1>4. Steps(g, n, F)
  BY <1>1 DEF Steps
<1>5. Steps(h, n, G)
  BY <1>2 DEF Steps
<1>6. g[n] = h[n]
  BY <1>3, <1>4, <1>5, HistoryUnique
<1>7. n + 1 \in 1 .. (n + 1) /\ (n + 1) - 1 = n /\ n \in 0 .. n
  OBVIOUS
<1> QED BY <1>1, <1>2, <1>6, <1>7

-----------------------------------------------------------------------------
\* Sums over a finite set, as FoldSet makes them, one element at a time.

OneOf(s) == CHOOSE x \in s : TRUE

\* g gives what F comes to over each set of elements of U.
IsSum(g, U, F) ==
  \A s \in SUBSET U : g[s] = IF s = {} THEN 0 ELSE g[s \ {OneOf(s)}] + F[OneOf(s)]

\* v is what F comes to over U.
SumsTo(U, F, v) == v \in Int /\ \E g : IsSum(g, U, F) /\ v = g[U]

\* Taking the one element out of a finite set leaves a smaller one.
LEMMA WithoutOne ==
  ASSUME NEW U, IsFiniteSet(U), NEW s \in SUBSET U, s # {}
  PROVE  /\ OneOf(s) \in s /\ OneOf(s) \in U
         /\ s \ {OneOf(s)} \in SUBSET U
         /\ Cardinality(s) \in Nat /\ Cardinality(s) >= 1
         /\ Cardinality(s \ {OneOf(s)}) = Cardinality(s) - 1
<1>1. OneOf(s) \in s
  BY DEF OneOf
<1>2. IsFiniteSet(s)
  BY FS_Subset
<1>3. Cardinality(s) \in Nat /\ Cardinality(s) # 0
  BY <1>2, FS_CardinalityType, FS_EmptySet
<1>4. Cardinality(s \ {OneOf(s)}) = Cardinality(s) - 1
  BY <1>1, <1>2, FS_RemoveElement
<1> HIDE DEF OneOf
<1> QED BY <1>1, <1>3, <1>4

\* The subsets of a finite set have numbers of elements up to its own.
LEMMA SubsetSizes ==
  ASSUME NEW U, IsFiniteSet(U)
  PROVE  /\ Cardinality(U) \in Nat
         /\ \A s \in SUBSET U : Cardinality(s) \in Nat /\ Cardinality(s) <= Cardinality(U)
         /\ \A s \in SUBSET U : Cardinality(s) = 0 => s = {}
<1>1. ASSUME NEW s \in SUBSET U
      PROVE  /\ Cardinality(s) \in Nat /\ Cardinality(s) <= Cardinality(U)
             /\ Cardinality(s) = 0 => s = {}
  <2>1. IsFiniteSet(s) /\ Cardinality(s) <= Cardinality(U)
    BY FS_Subset
  <2> QED BY <2>1, FS_CardinalityType, FS_EmptySet
<1> QED BY <1>1, FS_CardinalityType

\* There are such sums.
LEMMA SumExists ==
  ASSUME NEW U, IsFiniteSet(U), NEW F \in [U -> Int]
  PROVE  \E g \in [SUBSET U -> Int] : IsSum(g, U, F)
<1> DEFINE Small(k) == {s \in SUBSET U : Cardinality(s) <= k}
           Good(k, g) == \A s \in Small(k) :
             g[s] = IF s = {} THEN 0 ELSE g[s \ {OneOf(s)}] + F[OneOf(s)]
           Has(k) == \E g \in [Small(k) -> Int] : Good(k, g)
           T == {k \in Nat : Has(k)}
           n == Cardinality(U)
<1>1. /\ n \in Nat
      /\ \A s \in SUBSET U : Cardinality(s) \in Nat /\ Cardinality(s) <= n
      /\ \A s \in SUBSET U : Cardinality(s) = 0 => s = {}
  BY SubsetSizes
<1> HIDE DEF n
<1>2. Has(0)
  <2> DEFINE g == [s \in Small(0) |-> 0]
  <2>1. \A s \in Small(0) : s = {}
    BY <1>1
  <2>2. g \in [Small(0) -> Int]
    OBVIOUS
  <2>3. Good(0, g)
    BY <2>1
  <2> HIDE DEF g, Good, Small
  <2> QED BY <2>2, <2>3
<1>3. ASSUME NEW k \in Nat, Has(k) PROVE Has(k + 1)
  <2>1. PICK g \in [Small(k) -> Int] : Good(k, g)
    BY <1>3
  <2> DEFINE h == [s \in Small(k + 1) |->
                     IF s \in Small(k) THEN g[s] ELSE g[s \ {OneOf(s)}] + F[OneOf(s)]]
  <2>2. ASSUME NEW s \in Small(k + 1), s # {}
        PROVE  s \ {OneOf(s)} \in Small(k) /\ F[OneOf(s)] \in Int
               /\ s \ {OneOf(s)} \in Small(k + 1)
    <3>1. s \in SUBSET U /\ Cardinality(s) <= k + 1
      OBVIOUS
    <3>2. /\ OneOf(s) \in U /\ s \ {OneOf(s)} \in SUBSET U
          /\ Cardinality(s) \in Nat /\ Cardinality(s \ {OneOf(s)}) = Cardinality(s) - 1
      BY <2>2, <3>1, WithoutOne
    <3> QED BY <3>1, <3>2
  <2>3. {} \in Small(k)
    BY FS_EmptySet
  <2> HIDE DEF Small
  <2>4. h \in [Small(k + 1) -> Int]
    <3>1. ASSUME NEW s \in Small(k + 1)
          PROVE  (IF s \in Small(k) THEN g[s] ELSE g[s \ {OneOf(s)}] + F[OneOf(s)]) \in Int
      <4>1. CASE s \in Small(k)
        BY <4>1
      <4>2. CASE s \notin Small(k)
        <5>1. s # {}
          BY <2>3, <4>2
        <5>2. g[s \ {OneOf(s)}] \in Int /\ F[OneOf(s)] \in Int
          BY <2>2, <5>1
        <5> QED BY <4>2, <5>2
      <4> QED BY <4>1, <4>2
    <3> QED BY <3>1
  <2>5. ASSUME NEW s \in Small(k + 1)
        PROVE  h[s] = IF s = {} THEN 0 ELSE h[s \ {OneOf(s)}] + F[OneOf(s)]
    <3>1. CASE s = {}
      BY <2>1, <2>3, <3>1
    <3>2. CASE s # {}
      <4>1. h[s \ {OneOf(s)}] = g[s \ {OneOf(s)}]
        BY <2>2, <3>2
      <4>2. h[s] = g[s \ {OneOf(s)}] + F[OneOf(s)]
        BY <2>1, <3>2
      <4> QED BY <3>2, <4>1, <4>2
    <3> QED BY <3>1, <3>2
  <2>6. Good(k + 1, h)
    BY <2>5
  <2> HIDE DEF h, Good
  <2> QED BY <2>4, <2>6
<1> HIDE DEF Has
<1>4. n \in T
  <2>1. 0 \in T
    BY <1>2
  <2>2. \A k \in Nat : k \in T => k + 1 \in T
    BY <1>3
  <2> HIDE DEF T
  <2> QED BY <1>1, <2>1, <2>2, AllNaturals
<1>5. PICK g \in [Small(n) -> Int] : Good(n, g)
  BY <1>4 DEF Has
<1>6. Small(n) = SUBSET U
  BY <1>1
<1> HIDE DEF Small
<1> QED BY <1>5, <1>6 DEF IsSum

\* They are the same whoever makes them, so long as what is added is.
LEMMA SumUnique ==
  ASSUME NEW U, IsFiniteSet(U), NEW F, NEW G, NEW g, NEW h,
         IsSum(g, U, F), IsSum(h, U, G), \A y \in U : F[y] = G[y]
  PROVE  g[U] = h[U]
<1> DEFINE T == {k \in Nat : \A s \in SUBSET U : Cardinality(s) = k => g[s] = h[s]}
<1>1. /\ Cardinality(U) \in Nat
      /\ \A s \in SUBSET U : Cardinality(s) = 0 => s = {}
  BY SubsetSizes
<1>2. 0 \in T
  BY <1>1 DEF IsSum
<1>3. ASSUME NEW k \in Nat, k \in T PROVE k + 1 \in T
  <2> SUFFICES ASSUME NEW s \in SUBSET U, Cardinality(s) = k + 1 PROVE g[s] = h[s]
    OBVIOUS
  <2> DEFINE x == OneOf(s)
  <2>1. s # {}
    BY FS_EmptySet
  <2>2. x \in U /\ s \ {x} \in SUBSET U /\ Cardinality(s \ {x}) = Cardinality(s) - 1
    BY <2>1, WithoutOne
  <2>3. Cardinality(s \ {x}) = k
    BY <2>2
  <2>4. g[s \ {x}] = h[s \ {x}]
    BY <1>3, <2>2, <2>3
  <2>5. g[s] = g[s \ {x}] + F[x]
    BY <2>1 DEF IsSum
  <2>6. h[s] = h[s \ {x}] + G[x]
    BY <2>1 DEF IsSum
  <2> QED BY <2>2, <2>4, <2>5, <2>6
<1>4. Cardinality(U) \in T
  <2> HIDE DEF T
  <2> QED BY <1>1, <1>2, <1>3, AllNaturals
<1> QED BY <1>4

\* So there is one number F comes to.
LEMMA SumIsOne ==
  ASSUME NEW U, IsFiniteSet(U), NEW F, NEW v, NEW w, SumsTo(U, F, v), SumsTo(U, F, w)
  PROVE  v = w /\ v \in Int
<1>1. PICK g : IsSum(g, U, F) /\ v = g[U]
  BY DEF SumsTo
<1>2. PICK h : IsSum(h, U, F) /\ w = h[U]
  BY DEF SumsTo
<1>3. g[U] = h[U]
  BY <1>1, <1>2, SumUnique
<1> QED BY <1>1, <1>2, <1>3 DEF SumsTo

\* Adding nothing for each element comes to nothing.
LEMMA SumOfNone ==
  ASSUME NEW U, IsFiniteSet(U), NEW F, NEW v, SumsTo(U, F, v), \A y \in U : F[y] = 0
  PROVE  v = 0
<1> DEFINE g == [s \in SUBSET U |-> 0]
           Z == [y \in U |-> 0]
<1>1. IsSum(g, U, Z)
  <2> SUFFICES ASSUME NEW s \in SUBSET U
               PROVE  g[s] = IF s = {} THEN 0 ELSE g[s \ {OneOf(s)}] + Z[OneOf(s)]
    BY DEF IsSum
  <2>1. s # {} => OneOf(s) \in U /\ s \ {OneOf(s)} \in SUBSET U
    BY WithoutOne
  <2> QED BY <2>1
<1>2. g[U] = 0
  OBVIOUS
<1> HIDE DEF g
<1>3. PICK h : IsSum(h, U, F) /\ v = h[U]
  BY DEF SumsTo
<1>4. \A y \in U : F[y] = Z[y]
  OBVIOUS
<1> HIDE DEF Z
<1>5. h[U] = g[U]
  BY <1>1, <1>3, <1>4, SumUnique
<1> QED BY <1>2, <1>3, <1>5

\* Where d is added for one element, it is added to the sum.
LEMMA SumGrows ==
  ASSUME NEW U, IsFiniteSet(U), NEW F \in [U -> Int], NEW G, NEW v, NEW w,
         SumsTo(U, F, v), SumsTo(U, G, w),
         NEW x \in U, NEW d \in Int, G[x] = F[x] + d, \A y \in U \ {x} : G[y] = F[y]
  PROVE  w = v + d
<1>1. PICK g \in [SUBSET U -> Int] : IsSum(g, U, F)
  BY SumExists
<1>2. PICK h : IsSum(h, U, G) /\ w = h[U]
  BY DEF SumsTo
<1>3. g[U] = v
  <2>1. PICK f : IsSum(f, U, F) /\ v = f[U]
    BY DEF SumsTo
  <2>2. g[U] = f[U]
    BY <1>1, <2>1, SumUnique
  <2> QED BY <2>1, <2>2
<1> DEFINE Extra(s) == IF x \in s THEN d ELSE 0
           T == {k \in Nat : \A s \in SUBSET U : Cardinality(s) = k => h[s] = g[s] + Extra(s)}
<1>4. /\ Cardinality(U) \in Nat
      /\ \A s \in SUBSET U : Cardinality(s) = 0 => s = {}
  BY SubsetSizes
<1>5. 0 \in T
  <2>1. {} \in SUBSET U /\ h[{}] = 0 /\ g[{}] = 0 /\ Extra({}) = 0
    BY <1>1, <1>2 DEF IsSum
  <2> HIDE DEF Extra
  <2>2. ASSUME NEW s \in SUBSET U, Cardinality(s) = 0 PROVE h[s] = g[s] + Extra(s)
    <3>1. s = {}
      BY <1>4, <2>2
    <3> QED BY <2>1, <3>1
  <2> QED BY <2>2
<1>6. ASSUME NEW k \in Nat, k \in T PROVE k + 1 \in T
  <2> SUFFICES ASSUME NEW s \in SUBSET U, Cardinality(s) = k + 1
               PROVE  h[s] = g[s] + Extra(s)
    OBVIOUS
  <2> DEFINE z == OneOf(s)
             r == s \ {z}
  <2> HIDE DEF T
  <2>1. s # {}
    <3>1. Cardinality({}) = 0 /\ k + 1 # 0
      BY FS_EmptySet
    <3> QED BY <3>1
  <2>2. z \in s /\ z \in U /\ r \in SUBSET U /\ Cardinality(r) = k
    <3>1. /\ z \in s /\ z \in U /\ r \in SUBSET U
          /\ Cardinality(r) = Cardinality(s) - 1
      BY <2>1, WithoutOne
    <3>2. Cardinality(r) = k
      <4> HIDE DEF r
      <4> QED BY <3>1
    <3> QED BY <3>1, <3>2
  <2>3. h[r] = g[r] + Extra(r)
    BY <1>6, <2>2 DEF T
  <2>4. g[s] = g[r] + F[z]
    BY <1>1, <2>1 DEF IsSum
  <2>5. h[s] = h[r] + G[z]
    BY <1>2, <2>1 DEF IsSum
  <2>6. g[r] \in Int /\ F[z] \in Int
    BY <2>2
  <2>7. CASE z = x
    <3>1. G[z] = F[z] + d /\ Extra(r) = 0 /\ Extra(s) = d
      BY <2>2, <2>7
    <3> HIDE DEF z, r, Extra
    <3> QED BY <2>3, <2>4, <2>5, <2>6, <3>1
  <2>8. CASE z # x
    <3>1. G[z] = F[z] /\ Extra(r) = Extra(s) /\ Extra(s) \in Int
      BY <2>2, <2>8
    <3> HIDE DEF z, r, Extra
    <3> QED BY <2>3, <2>4, <2>5, <2>6, <3>1
  <2> QED BY <2>7, <2>8
<1>7. Cardinality(U) \in T
  <2> HIDE DEF T
  <2> QED BY <1>4, <1>5, <1>6, AllNaturals
<1>8. h[U] = g[U] + d
  BY <1>7
<1> QED BY <1>2, <1>3, <1>8

\* The sum where d is added for one element is there, and d more.
LEMMA SumRaised ==
  ASSUME NEW U, IsFiniteSet(U), NEW F \in [U -> Int], NEW G \in [U -> Int], NEW v, SumsTo(U, F, v),
         NEW x \in U, NEW d \in Int, G[x] = F[x] + d, \A y \in U \ {x} : G[y] = F[y]
  PROVE  SumsTo(U, G, v + d)
<1>1. PICK g \in [SUBSET U -> Int] : IsSum(g, U, G)
  BY SumExists
<1>2. g[U] \in Int
  OBVIOUS
<1>3. SumsTo(U, G, g[U])
  BY <1>1, <1>2 DEF SumsTo
<1>4. g[U] = v + d
  BY <1>3, SumGrows
<1> QED BY <1>3, <1>4

\* Where two amounts are added for each element, their sums are.
LEMMA SumAdds ==
  ASSUME NEW U, IsFiniteSet(U), NEW F \in [U -> Int], NEW G \in [U -> Int], NEW H,
         NEW v, NEW w, SumsTo(U, F, v), SumsTo(U, G, w), \A y \in U : H[y] = F[y] + G[y]
  PROVE  SumsTo(U, H, v + w)
<1>1. PICK f \in [SUBSET U -> Int] : IsSum(f, U, F)
  BY SumExists
<1>2. PICK g \in [SUBSET U -> Int] : IsSum(g, U, G)
  BY SumExists
<1>3. f[U] = v /\ g[U] = w
  <2>1. PICK p : IsSum(p, U, F) /\ v = p[U]
    BY DEF SumsTo
  <2>2. PICK q : IsSum(q, U, G) /\ w = q[U]
    BY DEF SumsTo
  <2> QED BY <1>1, <1>2, <2>1, <2>2, SumUnique
<1> DEFINE h == [s \in SUBSET U |-> f[s] + g[s]]
<1>4. ASSUME NEW s \in SUBSET U
      PROVE  h[s] = IF s = {} THEN 0 ELSE h[s \ {OneOf(s)}] + H[OneOf(s)]
  <2>1. CASE s = {}
    <3>1. {} \in SUBSET U /\ f[{}] = 0 /\ g[{}] = 0
      BY <1>1, <1>2 DEF IsSum
    <3>2. h[{}] = 0
      BY <3>1
    <3> HIDE DEF h
    <3> QED BY <2>1, <3>2
  <2>2. CASE s # {}
    <3> DEFINE x == OneOf(s)
               r == s \ {x}
    <3>1. x \in U /\ r \in SUBSET U
      BY <2>2, WithoutOne
    <3>2. f[s] = f[r] + F[x] /\ g[s] = g[r] + G[x]
      BY <1>1, <1>2, <2>2 DEF IsSum
    <3>3. h[s] = f[s] + g[s] /\ h[r] = f[r] + g[r]
      BY <3>1
    <3>4. f[r] \in Int /\ g[r] \in Int /\ F[x] \in Int /\ G[x] \in Int /\ H[x] = F[x] + G[x]
      BY <3>1
    <3> HIDE DEF x, r, h
    <3>5. h[s] = h[r] + H[x]
      BY <3>2, <3>3, <3>4
    <3> QED BY <2>2, <3>5 DEF r, x
  <2> QED BY <2>1, <2>2
<1>5. IsSum(h, U, H)
  <2> HIDE DEF h
  <2> QED BY <1>4 DEF IsSum
<1>6. h[U] = v + w /\ v + w \in Int
  BY <1>3 DEF SumsTo
<1> QED BY <1>5, <1>6 DEF SumsTo

\* Nothing for each comes to nothing.
LEMMA SumToNone ==
  ASSUME NEW U, IsFiniteSet(U), NEW F \in [U -> Int], \A y \in U : F[y] = 0
  PROVE  SumsTo(U, F, 0)
<1>1. PICK g \in [SUBSET U -> Int] : IsSum(g, U, F)
  BY SumExists
<1>2. g[U] \in Int
  OBVIOUS
<1>3. SumsTo(U, F, g[U])
  BY <1>1, <1>2 DEF SumsTo
<1> QED BY <1>3, SumOfNone

\* What is added step by step is the sum of the steps.
LEMMA SumOfSteps ==
  ASSUME NEW n \in Nat, NEW F \in [1 .. n -> Int], NEW hist \in [0 .. n -> Int],
         hist[0] = 0, \A i \in 1 .. n : hist[i] = hist[i - 1] + F[i]
  PROVE  SumsTo(1 .. n, F, hist[n])
<1> DEFINE U == 1 .. n
           G(k) == [i \in U |-> IF i <= k THEN F[i] ELSE 0]
           T == {k \in Nat : k <= n => SumsTo(U, G(k), hist[k])}
<1>1. IsFiniteSet(U)
  BY FS_Interval
<1>2. 0 \in T
  <2>1. G(0) \in [U -> Int] /\ \A y \in U : G(0)[y] = 0
    OBVIOUS
  <2> HIDE DEF U, G
  <2> QED BY <1>1, <2>1, SumToNone
<1>3. ASSUME NEW k \in Nat, k \in T PROVE k + 1 \in T
  <2> SUFFICES ASSUME k + 1 <= n PROVE SumsTo(U, G(k + 1), hist[k + 1])
    OBVIOUS
  <2>1. SumsTo(U, G(k), hist[k])
    BY <1>3
  <2>2. /\ k + 1 \in U /\ F[k + 1] \in Int /\ hist[k + 1] = hist[k] + F[k + 1]
        /\ G(k) \in [U -> Int] /\ G(k + 1) \in [U -> Int]
        /\ G(k + 1)[k + 1] = G(k)[k + 1] + F[k + 1]
        /\ \A y \in U \ {k + 1} : G(k + 1)[y] = G(k)[y]
    OBVIOUS
  <2> HIDE DEF U, G
  <2> QED BY <1>1, <2>1, <2>2, SumRaised
<1>4. n \in T
  <2> HIDE DEF T
  <2> QED BY <1>2, <1>3, AllNaturals
<1>5. G(n) = F
  OBVIOUS
<1> HIDE DEF G
<1> QED BY <1>4, <1>5

\* A sum does not depend on where its terms stand, nor on others that are none.
LEMMA SumMoved ==
  ASSUME NEW U, IsFiniteSet(U), NEW Z, IsFiniteSet(Z), NEW F \in [U -> Int], NEW G \in [Z -> Int],
         NEW to \in [U -> Z], \A x, y \in U : to[x] = to[y] => x = y,
         \A x \in U : G[to[x]] = F[x], \A z \in Z : (\A x \in U : to[x] # z) => G[z] = 0,
         NEW v, NEW w, SumsTo(U, F, v), SumsTo(Z, G, w)
  PROVE  v = w
<1> DEFINE Fs(s) == [x \in U |-> IF x \in s THEN F[x] ELSE 0]
           Gs(s) == [z \in Z |-> IF \E x \in s : to[x] = z THEN G[z] ELSE 0]
           Agree(s) == \E a \in Int : SumsTo(U, Fs(s), a) /\ SumsTo(Z, Gs(s), a)
           T == {k \in Nat : \A s \in SUBSET U : Cardinality(s) = k => Agree(s)}
<1>1. /\ Cardinality(U) \in Nat
      /\ \A s \in SUBSET U : Cardinality(s) = 0 => s = {}
  BY SubsetSizes
<1>2. 0 \in T
  <2>1. Fs({}) = [x \in U |-> 0] /\ Gs({}) = [z \in Z |-> 0]
    OBVIOUS
  <2> HIDE DEF Fs, Gs
  <2>2. SumsTo(U, Fs({}), 0) /\ SumsTo(Z, Gs({}), 0)
    BY <2>1, SumToNone
  <2>3. Agree({})
    BY <2>2
  <2> HIDE DEF Agree
  <2> QED BY <1>1, <2>3
<1>3. ASSUME NEW k \in Nat, k \in T PROVE k + 1 \in T
  <2> HIDE DEF Agree
  <2> SUFFICES ASSUME NEW s \in SUBSET U, Cardinality(s) = k + 1 PROVE Agree(s)
    OBVIOUS
  <2> DEFINE x == OneOf(s)
             r == s \ {x}
  <2>1. s # {}
    BY FS_EmptySet
  <2>2. x \in s /\ x \in U /\ r \in SUBSET U /\ Cardinality(r) = k
    BY <2>1, WithoutOne
  <2>3. s = r \cup {x} /\ x \notin r
    BY <2>2
  <2> HIDE DEF x, r
  <2>4. Agree(r)
    BY <1>3, <2>2
  <2>5. PICK a \in Int : SumsTo(U, Fs(r), a) /\ SumsTo(Z, Gs(r), a)
    BY <2>4 DEF Agree
  <2>6. /\ Fs(r) \in [U -> Int] /\ Fs(s) \in [U -> Int] /\ F[x] \in Int
        /\ Fs(s)[x] = Fs(r)[x] + F[x] /\ \A y \in U \ {x} : Fs(s)[y] = Fs(r)[y]
    BY <2>2, <2>3
  <2>7. /\ Gs(r) \in [Z -> Int] /\ Gs(s) \in [Z -> Int] /\ to[x] \in Z
        /\ Gs(s)[to[x]] = Gs(r)[to[x]] + F[x]
        /\ \A z \in Z \ {to[x]} : Gs(s)[z] = Gs(r)[z]
    <3>1. Gs(r) \in [Z -> Int] /\ Gs(s) \in [Z -> Int] /\ to[x] \in Z
      BY <2>2
    <3>2. Gs(s)[to[x]] = F[x]
      BY <2>2, <3>1
    <3>3. Gs(r)[to[x]] = 0
      BY <2>2, <2>3, <3>1
    <3>4. \A z \in Z \ {to[x]} : (\E y \in s : to[y] = z) <=> (\E y \in r : to[y] = z)
      BY <2>3
    <3>5. \A z \in Z \ {to[x]} : Gs(s)[z] = Gs(r)[z]
      BY <3>4
    <3> HIDE DEF Gs
    <3> QED BY <2>6, <3>1, <3>2, <3>3, <3>5
  <2> HIDE DEF Fs, Gs
  <2>8. SumsTo(U, Fs(s), a + F[x])
    BY <2>2, <2>5, <2>6, SumRaised
  <2>9. SumsTo(Z, Gs(s), a + F[x])
    BY <2>5, <2>6, <2>7, SumRaised
  <2>10. a + F[x] \in Int
    BY <2>6
  <2> QED BY <2>8, <2>9, <2>10 DEF Agree
<1>4. Cardinality(U) \in T
  <2> HIDE DEF T
  <2> QED BY <1>1, <1>2, <1>3, AllNaturals
<1>5. Fs(U) = F
  OBVIOUS
<1>6. Gs(U) = G
  <2>1. \A z \in Z : Gs(U)[z] = G[z]
    OBVIOUS
  <2> QED BY <2>1
<1>7. PICK a \in Int : SumsTo(U, Fs(U), a) /\ SumsTo(Z, Gs(U), a)
  BY <1>4
<1> HIDE DEF Fs, Gs
<1>8. SumsTo(U, F, a) /\ SumsTo(Z, G, a)
  BY <1>5, <1>6, <1>7
<1> QED BY <1>8, SumIsOne

\* A sum as FoldSet makes it is one.
LEMMA SumFolded ==
  ASSUME NEW U, IsFiniteSet(U), NEW F \in [U -> Int], NEW it,
         \A s \in SUBSET U : it[s] = IF s = {} THEN 0 ELSE F[OneOf(s)] + it[s \ {OneOf(s)}]
  PROVE  SumsTo(U, F, it[U])
<1>1. PICK g \in [SUBSET U -> Int] : IsSum(g, U, F)
  BY SumExists
<1> DEFINE T == {k \in Nat : \A s \in SUBSET U : Cardinality(s) = k => it[s] = g[s]}
<1>3. \A s \in SUBSET U : Cardinality(s) \in Nat /\ (Cardinality(s) = 0 <=> s = {})
  BY SubsetSizes, FS_EmptySet
<1>4. 0 \in T
  <2>1. it[{}] = 0 /\ g[{}] = 0
    BY <1>1 DEF IsSum
  <2> QED BY <1>3, <2>1
<1>5. ASSUME NEW k \in Nat, k \in T PROVE k + 1 \in T
  <2> SUFFICES ASSUME NEW s \in SUBSET U, Cardinality(s) = k + 1 PROVE it[s] = g[s]
    OBVIOUS
  <2>1. s # {}
    BY <1>3
  <2> DEFINE x == OneOf(s)
             r == s \ {x}
  <2>2. x \in U /\ r \in SUBSET U /\ Cardinality(r) = k
    BY <2>1, WithoutOne
  <2>3. it[s] = F[x] + it[r] /\ g[s] = g[r] + F[x]
    BY <1>1, <2>1 DEF IsSum
  <2> HIDE DEF x, r
  <2>4. it[r] = g[r] /\ g[r] \in Int /\ F[x] \in Int
    BY <1>5, <2>2
  <2> QED BY <2>3, <2>4
<1>6. Nat \subseteq T
  <2> HIDE DEF T
  <2> QED BY <1>4, <1>5, AllNaturals
<1>7. it[U] = g[U] /\ g[U] \in Int
  BY <1>3, <1>6
<1> QED BY <1>1, <1>7 DEF SumsTo

-----------------------------------------------------------------------------
\* A set of numbers that goes up to each of its own is 1 .. its size.

Leading(D) == \A i, k \in Nat : 1 <= i /\ i < k /\ k \in D => i \in D

\* Counting such a set finds its last number.
LEMMA LeadingSet ==
  ASSUME NEW n \in Nat, NEW D \in SUBSET (1 .. n), Leading(D)
  PROVE  Cardinality(D) \in 0 .. n /\ D = 1 .. Cardinality(D)
<1> DEFINE T == {k \in Nat : \A E \in SUBSET (1 .. k) :
                   Leading(E) => Cardinality(E) \in 0 .. k /\ E = 1 .. Cardinality(E)}
<1>1. 0 \in T
  <2>1. 1 .. 0 = {}
    OBVIOUS
  <2>2. ASSUME NEW E \in SUBSET (1 .. 0)
        PROVE  Cardinality(E) \in 0 .. 0 /\ E = 1 .. Cardinality(E)
    <3>1. E = {} /\ Cardinality({}) = 0
      BY <2>1, FS_EmptySet
    <3>2. Cardinality(E) = 0
      BY <3>1
    <3> QED BY <2>1, <3>1, <3>2
  <2> QED BY <2>2
<1>2. ASSUME NEW k \in Nat, k \in T PROVE k + 1 \in T
  <2> SUFFICES ASSUME NEW E \in SUBSET (1 .. (k + 1)), Leading(E)
               PROVE  Cardinality(E) \in 0 .. (k + 1) /\ E = 1 .. Cardinality(E)
    OBVIOUS
  <2>1. CASE k + 1 \in E
    <3>1. ASSUME NEW i \in 1 .. (k + 1) PROVE i \in E
      <4>1. i \in Nat /\ k + 1 \in Nat /\ 1 <= i /\ (i < k + 1 \/ i = k + 1)
        OBVIOUS
      <4> QED BY <2>1, <4>1 DEF Leading
    <3>3. E = 1 .. (k + 1)
      BY <3>1
    <3>2. Cardinality(1 .. (k + 1)) = k + 1
      <4> DEFINE m == k + 1
      <4>1. m \in Int /\ 1 \in Int /\ ~(1 > m) /\ m - 1 + 1 = m
        OBVIOUS
      <4> HIDE DEF m
      <4>2. Cardinality(1 .. m) = m
        BY <4>1, FS_Interval
      <4> QED BY <4>2 DEF m
    <3> QED BY <3>2, <3>3
  <2>2. CASE k + 1 \notin E
    <3>1. E \in SUBSET (1 .. k)
      BY <2>2
    <3>2. Cardinality(E) \in 0 .. k /\ E = 1 .. Cardinality(E)
      BY <1>2, <3>1
    <3> QED BY <3>2
  <2> QED BY <2>1, <2>2
<1>3. n \in T
  <2> HIDE DEF T
  <2> QED BY <1>1, <1>2, AllNaturals
<1> QED BY <1>3

-----------------------------------------------------------------------------
\* Orders.

\* R orders S.
Orders(R, S) ==
  /\ \A x, y \in S : x # y => <<x, y>> \in R \/ <<y, x>> \in R
  /\ \A x, y, z \in S : <<x, y>> \in R /\ <<y, z>> \in R => <<x, z>> \in R
IsLast(t, s, R) == t \in s /\ \A x \in s : x # t => <<x, t>> \in R

\* Of some things in an order one is the last.
LEMMA LastExists ==
  ASSUME NEW S, IsFiniteSet(S), NEW R, Orders(R, S), NEW s \in SUBSET S, s # {}
  PROVE  \E t : IsLast(t, s, R)
<1> DEFINE T == {k \in Nat : \A r \in SUBSET S : Cardinality(r) = k /\ r # {} => \E t : IsLast(t, r, R)}
<1>1. /\ Cardinality(s) \in Nat
      /\ \A r \in SUBSET S : Cardinality(r) = 0 => r = {}
  BY SubsetSizes
<1>2. 0 \in T
  BY <1>1
<1>3. ASSUME NEW k \in Nat, k \in T PROVE k + 1 \in T
  <2> SUFFICES ASSUME NEW r \in SUBSET S, Cardinality(r) = k + 1, r # {}
               PROVE  \E t : IsLast(t, r, R)
    OBVIOUS
  <2> DEFINE x == OneOf(r)
             q == r \ {x}
  <2>1. x \in r /\ x \in S /\ q \in SUBSET S /\ Cardinality(q) = k
    BY WithoutOne
  <2>2. r = q \cup {x}
    BY <2>1
  <2> HIDE DEF x, q
  <2>3. CASE q = {}
    <3>1. IsLast(x, r, R)
      BY <2>1, <2>2, <2>3 DEF IsLast
    <3> QED BY <3>1
  <2>4. CASE q # {}
    <3>1. PICK t : IsLast(t, q, R)
      BY <1>3, <2>1, <2>4
    <3>2. t \in S /\ t \in r
      BY <2>1, <2>2, <3>1 DEF IsLast
    <3>3. CASE <<x, t>> \in R
      <4>1. IsLast(t, r, R)
        BY <2>2, <3>1, <3>2, <3>3 DEF IsLast
      <4> QED BY <4>1
    <3>4. CASE <<x, t>> \notin R /\ x # t
      <4>1. <<t, x>> \in R
        BY <2>1, <3>2, <3>4 DEF Orders
      <4>2. ASSUME NEW y \in r, y # x PROVE <<y, x>> \in R
        <5>1. y \in q /\ y \in S
          BY <2>1, <2>2, <4>2
        <5>2. y = t \/ <<y, t>> \in R
          BY <3>1, <5>1 DEF IsLast
        <5> QED BY <2>1, <3>2, <4>1, <5>1, <5>2 DEF Orders
      <4>3. IsLast(x, r, R)
        BY <2>1, <4>2 DEF IsLast
      <4> QED BY <4>3
    <3>5. CASE x = t
      <4>1. IsLast(t, r, R)
        BY <2>2, <3>1, <3>2, <3>5 DEF IsLast
      <4> QED BY <4>1
    <3> QED BY <3>3, <3>4, <3>5
  <2> QED BY <2>3, <2>4
<1>4. Cardinality(s) \in T
  <2> HIDE DEF T
  <2> QED BY <1>1, <1>2, <1>3, AllNaturals
<1> QED BY <1>4

\* list has what is in s, each before the next in R.
Lists(list, s, R) ==
  /\ list \in [1 .. Cardinality(s) -> s] /\ ToSet(list) = s
  /\ \A m, n \in DOMAIN list : m < n => <<list[m], list[n]>> \in R

\* So they can be listed in that order.
LEMMA ListExists ==
  ASSUME NEW S, IsFiniteSet(S), NEW R, Orders(R, S)
  PROVE  \E list : Lists(list, S, R)
<1> DEFINE T == {k \in Nat : \A s \in SUBSET S : Cardinality(s) = k => \E list : Lists(list, s, R)}
<1>1. /\ Cardinality(S) \in Nat
      /\ \A s \in SUBSET S : Cardinality(s) = 0 => s = {}
  BY SubsetSizes
<1>2. 0 \in T
  <2>1. ASSUME NEW s \in SUBSET S, Cardinality(s) = 0 PROVE \E list : Lists(list, s, R)
    <3> DEFINE e == [i \in 1 .. 0 |-> i]
    <3>1. s = {} /\ e \in [1 .. Cardinality(s) -> s] /\ DOMAIN e = {}
      BY <1>1, <2>1
    <3> HIDE DEF e
    <3>2. Lists(e, s, R)
      BY <3>1 DEF Lists, ToSet
    <3> QED BY <3>2
  <2> QED BY <2>1
<1>3. ASSUME NEW k \in Nat, k \in T PROVE k + 1 \in T
  <2> SUFFICES ASSUME NEW s \in SUBSET S, Cardinality(s) = k + 1 PROVE \E list : Lists(list, s, R)
    OBVIOUS
  <2>1. s # {} /\ IsFiniteSet(s)
    BY FS_EmptySet, FS_Subset
  <2>2. PICK t : IsLast(t, s, R)
    BY <2>1, LastExists
  <2> DEFINE r == s \ {t}
  <2>3. r \in SUBSET S /\ Cardinality(r) = k /\ t \in s /\ s = r \cup {t} /\ t \notin r
        /\ \A x \in r : <<x, t>> \in R
    <3>1. t \in s
      BY <2>2 DEF IsLast
    <3>2. Cardinality(r) = (k + 1) - 1
      BY <2>1, <3>1, FS_RemoveElement
    <3> QED BY <2>2, <3>1, <3>2 DEF IsLast
  <2> HIDE DEF r
  <2>4. PICK l : Lists(l, r, R)
    BY <1>3, <2>3
  <2> DEFINE z == [i \in 1 .. (k + 1) |-> IF i = k + 1 THEN t ELSE l[i]]
  <2>5. /\ DOMAIN l = 1 .. k /\ DOMAIN z = 1 .. (k + 1) /\ z[k + 1] = t
        /\ \A i \in 1 .. k : z[i] = l[i] /\ l[i] \in r
        /\ \A x \in r : \E i \in 1 .. k : l[i] = x
        /\ \A i, j \in 1 .. k : i < j => <<l[i], l[j]>> \in R
    BY <2>3, <2>4 DEF Lists, ToSet
  <2>6. z = [i \in 1 .. (k + 1) |-> z[i]]
    OBVIOUS
  <2> HIDE DEF z
  <2>7. \A i \in 1 .. (k + 1) : z[i] \in s /\ (i = k + 1 \/ i \in 1 .. k)
    BY <2>3, <2>5
  <2>8. z \in [1 .. Cardinality(s) -> s]
    BY <2>6, <2>7
  <2>9. ToSet(z) = s
    <3>1. ASSUME NEW x \in s PROVE \E i \in DOMAIN z : z[i] = x
      <4>1. CASE x = t
        BY <2>5, <4>1
      <4>2. CASE x \in r
        BY <2>5, <4>2
      <4> QED BY <2>3, <4>1, <4>2
    <3> QED BY <2>5, <2>7, <3>1 DEF ToSet
  <2>10. ASSUME NEW i \in DOMAIN z, NEW j \in DOMAIN z, i < j PROVE <<z[i], z[j]>> \in R
    <3>1. i \in 1 .. k
      BY <2>5, <2>10
    <3>2. CASE j = k + 1
      BY <2>3, <2>5, <3>1, <3>2
    <3>3. CASE j \in 1 .. k
      BY <2>5, <2>10, <3>1, <3>3
    <3> QED BY <2>5, <2>7, <3>2, <3>3
  <2>11. Lists(z, s, R)
    BY <2>8, <2>9, <2>10 DEF Lists
  <2> QED BY <2>11
<1>4. Cardinality(S) \in T
  <2> HIDE DEF T
  <2> QED BY <1>1, <1>2, <1>3, AllNaturals
<1> QED BY <1>4
=============================================================================
