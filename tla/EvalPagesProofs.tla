--------------------------- MODULE EvalPagesProofs ---------------------------
(***************************************************************************)
(* Proofs about EvalPages, for any number of runs and questions, any       *)
(* limits, any metrics and scenes: a comparison is over its limit only by  *)
(* a former base, the pager never leads past the last question but after a *)
(* jump, the API refuses an evaluation only for what nothing requires, the *)
(* distributions count every question once, and a comparison's signs and   *)
(* lines agree.                                                            *)
(***************************************************************************)
EXTENDS EvalPages, SequenceTheorems, FiniteSetTheorems, WellFoundedInduction, TLAPS

-----------------------------------------------------------------------------
(* Distributions: what is counted class by class adds up.                  *)

\* A set of natural numbers has a least one.
LEMMA Least ==
    ASSUME NEW N \in SUBSET Nat, N # {}
    PROVE  \E m \in N : \A k \in N : m <= k
<1>1. PICK m \in N : \A k \in N : <<k, m>> \notin OpToRel(<, Nat)
  BY WFMin, NatLessThanWellFounded, Zenon
<1>2. \A k \in N : ~(k < m)
  BY <1>1, Zenon DEF OpToRel
<1> QED
  BY <1>2

\* The recursion of MapThenSumSet, over the sets of D.
SumStep(f, g, T) == IF T = {} THEN 0 ELSE LET x == CHOOSE x \in T : TRUE IN f[x] + g[T \ {x}]
SumsOver(f, D, g) == g = [T \in D |-> SumStep(f, g, T)]

Smaller(S, n) == {T \in SUBSET S : Cardinality(T) <= n}

LEMMA SumsExtend ==
    ASSUME NEW S, IsFiniteSet(S), NEW f, NEW n \in Nat, NEW g, SumsOver(f, Smaller(S, n), g)
    PROVE  \E h : SumsOver(f, Smaller(S, n + 1), h)
<1> DEFINE h == [T \in Smaller(S, n + 1) |-> SumStep(f, g, T)]
<1>1. ASSUME NEW T \in Smaller(S, n + 1) PROVE SumStep(f, g, T) = SumStep(f, h, T)
  <2>1. CASE T = {}
    BY <2>1 DEF SumStep
  <2>2. CASE T # {}
    <3> DEFINE x == CHOOSE x \in T : TRUE
               U == T \ {x}
    <3>1. x \in T
      BY <2>2
    <3>2. T \in SUBSET S /\ Cardinality(T) <= n + 1
      BY DEF Smaller
    <3>3. IsFiniteSet(T) /\ Cardinality(T) \in Nat
      BY <3>2, FS_Subset, FS_CardinalityType
    <3>4. Cardinality(U) = Cardinality(T) - 1
      BY <3>1, <3>3, FS_RemoveElement
    <3>5. U \in Smaller(S, n) /\ U \in Smaller(S, n + 1)
      BY <3>2, <3>3, <3>4 DEF Smaller
    <3>6. h[U] = SumStep(f, g, U) /\ g[U] = SumStep(f, g, U)
      BY <3>5 DEF SumsOver
    <3> QED
      BY <2>2, <3>6 DEF SumStep
  <2> QED
    BY <2>1, <2>2
<1>2. h = [T \in Smaller(S, n + 1) |-> SumStep(f, h, T)]
  BY <1>1
<1> QED
  BY <1>2 DEF SumsOver

LEMMA SumsExist ==
    ASSUME NEW S, IsFiniteSet(S), NEW f
    PROVE  \E g : SumsOver(f, SUBSET S, g)
<1> DEFINE N == {n \in Nat : ~\E g : SumsOver(f, Smaller(S, n), g)}
<1>1. 0 \notin N
  <2> DEFINE g == [T \in Smaller(S, 0) |-> 0]
  <2>1. \A T \in Smaller(S, 0) : T = {}
    BY FS_Subset, FS_EmptySet, FS_CardinalityType DEF Smaller
  <2>2. SumsOver(f, Smaller(S, 0), g)
    BY <2>1 DEF SumsOver, SumStep
  <2> QED
    BY <2>2
<1>2. N = {}
  <2> SUFFICES ASSUME N # {} PROVE FALSE
    OBVIOUS
  <2>1. PICK m \in N : \A k \in N : m <= k
    BY Least
  <2>2. m - 1 \in Nat /\ m - 1 \notin N /\ (m - 1) + 1 = m
    BY <1>1, <2>1
  <2>3. PICK g : SumsOver(f, Smaller(S, m - 1), g)
    BY <2>2
  <2>4. \E h : SumsOver(f, Smaller(S, (m - 1) + 1), h)
    BY <2>2, <2>3, SumsExtend
  <2> QED
    BY <2>2, <2>4
<1>3. Cardinality(S) \in Nat /\ Smaller(S, Cardinality(S)) = SUBSET S
  BY FS_CardinalityType, FS_Subset DEF Smaller
<1>4. \A n \in Nat : \E g : SumsOver(f, Smaller(S, n), g)
  BY <1>2
<1>5. \E g : SumsOver(f, Smaller(S, Cardinality(S)), g)
  BY <1>3, <1>4, Zenon
<1> QED
  BY <1>3, <1>5, Zenon

\* The sum of a function over its domain is that of such a recursion.
LEMMA TotalIsSum ==
    ASSUME NEW f, IsFiniteSet(DOMAIN f)
    PROVE  \E h : SumsOver(f, SUBSET DOMAIN f, h) /\ Total(f) = h[DOMAIN f]
<1>0. PICK g : SumsOver(f, SUBSET DOMAIN f, g)
  BY SumsExist
<1>1. g = [T \in SUBSET DOMAIN f |->
             IF T = {} THEN 0 ELSE LET x == CHOOSE x \in T : TRUE IN f[x] + g[T \ {x}]]
  BY <1>0 DEF SumsOver, SumStep
<1>2. \E h : /\ h = [T \in SUBSET DOMAIN f |->
                      IF T = {} THEN 0 ELSE LET x == CHOOSE x \in T : TRUE IN f[x] + h[T \ {x}]]
             /\ Total(f) = h[DOMAIN f]
  BY <1>1 DEF Total, MapThenSumSet, MapThenFoldSet
<1> QED
  BY <1>2 DEF SumsOver, SumStep

\* Where a function counts, class by class, the members of a set that are in one of its classes.
LEMMA CountAll ==
    ASSUME NEW I, IsFiniteSet(I), NEW class, NEW f, IsFiniteSet(DOMAIN f),
           \A i \in I : class[i] \in DOMAIN f,
           \A c \in DOMAIN f : f[c] = Cardinality({i \in I : class[i] = c})
    PROVE  Total(f) = Cardinality(I)
<1> DEFINE C == DOMAIN f
           Of(T) == {i \in I : class[i] \in T}
<1>1. PICK h : SumsOver(f, SUBSET C, h) /\ Total(f) = h[C]
  BY TotalIsSum
<1>2. \A T \in SUBSET C : h[T] = SumStep(f, h, T)
  BY <1>1 DEF SumsOver
<1>3. ASSUME NEW T \in SUBSET C, T # {},
             \A U \in SUBSET C : Cardinality(U) < Cardinality(T) => h[U] = Cardinality(Of(U))
      PROVE  h[T] = Cardinality(Of(T))
  <2> DEFINE x == CHOOSE x \in T : TRUE
             U == T \ {x}
             X == {i \in I : class[i] = x}
  <2>1. x \in T /\ x \in C
    BY <1>3
  <2>2. h[T] = f[x] + h[U]
    BY <1>2, <1>3 DEF SumStep
  <2>3. IsFiniteSet(T) /\ Cardinality(U) = Cardinality(T) - 1 /\ Cardinality(T) \in Nat
    BY <2>1, FS_Subset, FS_RemoveElement, FS_CardinalityType
  <2>4. h[U] = Cardinality(Of(U))
    <3>1. Cardinality(U) < Cardinality(T) /\ U \in SUBSET C
      BY <2>3
    <3> HIDE DEF U, Of
    <3> QED
      BY <1>3, <3>1
  <2>5. f[x] = Cardinality(X)
    BY <2>1
  <2>6. Of(T) = Of(U) \cup X /\ Of(U) \cap X = {}
    BY <2>1
  <2>7. IsFiniteSet(Of(U)) /\ IsFiniteSet(X)
    BY FS_Subset
  <2> HIDE DEF x, U, X, Of, C
  <2>8. Cardinality(Of(T)) = Cardinality(Of(U)) + Cardinality(X) - 0
    BY <2>6, <2>7, FS_Union, FS_EmptySet
  <2>9. Cardinality(Of(U)) \in Nat /\ Cardinality(X) \in Nat
    BY <2>7, FS_CardinalityType
  <2> QED
    BY <2>2, <2>4, <2>5, <2>8, <2>9
<1>4. ASSUME NEW T \in SUBSET C, h[T] # Cardinality(Of(T)) PROVE FALSE
  <2> DEFINE Bad == {U \in SUBSET C : h[U] # Cardinality(Of(U))}
             N == {Cardinality(U) : U \in Bad}
  <2>1. \A U \in SUBSET C : Cardinality(U) \in Nat
    BY FS_Subset, FS_CardinalityType
  <2> HIDE DEF Of, C
  <2>2. N \in SUBSET Nat /\ N # {}
    BY <1>4, <2>1
  <2>3. PICK m \in N : \A k \in N : m <= k
    BY <2>2, Least
  <2>4. PICK U \in Bad : m = Cardinality(U)
    OBVIOUS
  <2>5. ASSUME NEW V \in SUBSET C, Cardinality(V) < Cardinality(U)
        PROVE  h[V] = Cardinality(Of(V))
    <3>1. Cardinality(V) \in Nat /\ Cardinality(U) \in Nat
      BY <2>1
    <3>2. ~(m <= Cardinality(V))
      BY <2>4, <2>5, <3>1
    <3>3. Cardinality(V) \notin N
      BY <2>3, <3>2
    <3>4. V \notin Bad
      BY <3>3
    <3> QED
      BY <3>4
  <2>6. U # {}
    <3>1. h[{}] = 0
      BY <1>2 DEF SumStep
    <3>2. Of({}) = {}
      BY DEF Of
    <3> QED
      BY <3>1, <3>2, FS_EmptySet
  <2> QED
    BY <1>3, <2>5, <2>6
<1>5. Of(C) = I
  OBVIOUS
<1> QED
  BY <1>1, <1>4, <1>5

\* Every latency is in one bucket, every score in one bin.
LEMMA BucketsPartition ==
    /\ DOMAIN Buckets = 1 .. 5
    /\ \A l \in Nat : /\ \E b \in 1 .. 5 : InBucket(l, b)
                      /\ \A b, c \in 1 .. 5 : InBucket(l, b) /\ InBucket(l, c) => b = c
<1>1. DOMAIN Buckets = 1 .. 5 /\ Len(Buckets) = 5
  BY SMT DEF Buckets
<1> SUFFICES ASSUME NEW l \in Nat
             PROVE  /\ \E b \in 1 .. 5 : InBucket(l, b)
                    /\ \A b, c \in 1 .. 5 : InBucket(l, b) /\ InBucket(l, c) => b = c
  BY <1>1
<1>2. /\ InBucket(l, 1) <=> l < 1000
      /\ InBucket(l, 2) <=> 1000 <= l /\ l < 3000
      /\ InBucket(l, 3) <=> 3000 <= l /\ l < 5000
      /\ InBucket(l, 4) <=> 5000 <= l /\ l < 10000
      /\ InBucket(l, 5) <=> 10000 <= l
  BY <1>1, SMT DEF InBucket, Buckets
<1>3. 1 .. 5 = {1, 2, 3, 4, 5}
  BY SMT
<1> QED
  BY <1>2, <1>3, SMT

LEMMA BinsCover == \A score \in 0 .. 100 : ScoreBin(score) \in 0 .. 9
<1> SUFFICES ASSUME NEW score \in 0 .. 100 PROVE ScoreBin(score) \in 0 .. 9
  OBVIOUS
<1>1. Floor(score) \in Nat
  BY DEF Floor
<1> QED
  BY <1>1 DEF ScoreBin

LEMMA CategoriesFinite ==
    ASSUME NEW qs \in Seq(Range(Questions))
    PROVE  /\ IsFiniteSet(Categories(qs))
           /\ \A c \in Categories(qs) : /\ Cardinality(InCategory(qs, c)) \in 0 .. Len(qs)
                                        /\ Min(InCategory(qs, c)) \in Nat
<1> DEFINE I == DOMAIN qs
<1>1. Len(qs) \in Nat /\ I = 1 .. Len(qs) /\ IsFiniteSet(I) /\ Cardinality(I) = Len(qs)
  <2>1. Len(qs) \in Nat /\ I = 1 .. Len(qs)
    OBVIOUS
  <2> HIDE DEF I
  <2> QED
    BY <2>1, FS_Interval
<1>2. IsFiniteSet(Categories(qs))
  <2> DEFINE class == [i \in I |-> qs[i].category]
  <2>1. class \in Surjection(I, Categories(qs))
    BY DEF Categories, Surjection
  <2> HIDE DEF class, I
  <2> QED
    BY <1>1, <2>1, FS_Surjection
<1>3. ASSUME NEW c \in Categories(qs)
      PROVE  /\ Cardinality(InCategory(qs, c)) \in 0 .. Len(qs)
             /\ Min(InCategory(qs, c)) \in Nat
  <2> DEFINE A == InCategory(qs, c)
  <2>1. A \in SUBSET I /\ A # {}
    BY DEF Categories, InCategory
  <2>2. A \in SUBSET Nat
    BY <1>1, <2>1
  <2> HIDE DEF A, I
  <2>3. Cardinality(A) \in Nat /\ Cardinality(A) <= Len(qs)
    BY <1>1, <2>1, FS_Subset, FS_CardinalityType
  <2>4. Min(A) \in A
    BY <2>1, <2>2, Least DEF Min
  <2> QED
    BY <1>1, <2>2, <2>3, <2>4 DEF A
<1> QED
  BY <1>2, <1>3

\* The chart of categories has room for MaxCategories of them, and shows the largest.
LEMMA LargestShown ==
    ASSUME NEW qs \in Seq(Range(Questions))
    PROVE  LET shown == DOMAIN buildCategoryBreakdown(qs)
           IN  /\ shown \subseteq Categories(qs)
               /\ Cardinality(Categories(qs)) <= MaxCategories => shown = Categories(qs)
               /\ \A c \in shown, d \in Categories(qs) \ shown :
                     Cardinality(InCategory(qs, d)) <= Cardinality(InCategory(qs, c))
               /\ Categories(qs) # {} => shown # {}
<1> DEFINE C == Categories(qs)
           shown == DOMAIN buildCategoryBreakdown(qs)
           Count(c) == Cardinality(InCategory(qs, c))
           First(c) == Min(InCategory(qs, c))
<1>1. shown = {c \in C : Cardinality(AheadOf(qs, c)) < MaxCategories}
  BY DEF buildCategoryBreakdown
<1>2. \A a, b \in C : Ahead(qs, a, b) <=> Count(a) > Count(b) \/ (Count(a) = Count(b) /\ First(a) < First(b))
  BY DEF Ahead
<1>3. IsFiniteSet(C) /\ \A c \in C : Count(c) \in Nat /\ First(c) \in Nat
  BY CategoriesFinite
<1>4. \A c \in C : /\ AheadOf(qs, c) = {o \in C : Ahead(qs, o, c)}
                   /\ IsFiniteSet(AheadOf(qs, c)) /\ Cardinality(AheadOf(qs, c)) \in Nat
  <2>1. \A c \in C : AheadOf(qs, c) = {o \in C : Ahead(qs, o, c)}
    BY DEF AheadOf
  <2> QED
    BY <1>3, <2>1, FS_Subset, FS_CardinalityType
<1>5. MaxCategories \in Nat \ {0}
  BY EvalPagesAssumption
<1> HIDE DEF C, Count, First, shown
<1>6. ASSUME Cardinality(C) <= MaxCategories, NEW c \in C PROVE c \in shown
  <2>1. c \notin AheadOf(qs, c)
    BY <1>2, <1>3, <1>4
  <2>2. AheadOf(qs, c) \in SUBSET (C \ {c})
    BY <1>4, <2>1
  <2>3. IsFiniteSet(C \ {c}) /\ Cardinality(C \ {c}) = Cardinality(C) - 1 /\ Cardinality(C) \in Nat
    BY <1>3, FS_RemoveElement, FS_CardinalityType
  <2>4. Cardinality(AheadOf(qs, c)) <= Cardinality(C \ {c})
    BY <2>2, <2>3, FS_Subset
  <2> QED
    BY <1>1, <1>4, <1>5, <1>6, <2>3, <2>4
<1>7. ASSUME NEW c \in shown, NEW d \in C \ shown PROVE Count(d) <= Count(c)
  <2> SUFFICES ASSUME ~(Count(d) <= Count(c)) PROVE FALSE
    OBVIOUS
  <2>1. c \in C /\ d \in C /\ Count(d) > Count(c)
    BY <1>1, <1>3
  <2>2. ASSUME NEW o \in AheadOf(qs, d) PROVE o \in AheadOf(qs, c)
    <3>1. o \in C /\ (Count(o) > Count(d) \/ Count(o) = Count(d))
      BY <1>2, <1>4, <2>1
    <3>2. Count(o) > Count(c)
      BY <1>3, <2>1, <3>1
    <3> QED
      BY <1>2, <1>4, <2>1, <3>1, <3>2
  <2>3. Cardinality(AheadOf(qs, d)) <= Cardinality(AheadOf(qs, c))
    BY <1>4, <2>1, <2>2, FS_Subset
  <2> QED
    BY <1>1, <1>4, <1>5, <2>1, <2>3
<1>8. ASSUME C # {} PROVE shown # {}
  <2> DEFINE Gaps == {Len(qs) - Count(c) : c \in C}
  <2>1. Gaps \in SUBSET Nat /\ Gaps # {}
    BY <1>8, CategoriesFinite DEF C, Count
  <2>2. PICK gap \in Gaps : \A g \in Gaps : gap <= g
    BY <2>1, Least
  <2>3. PICK big \in C : gap = Len(qs) - Count(big)
    OBVIOUS
  <2>4. ASSUME NEW c \in C PROVE Count(c) <= Count(big)
    <3>1. Len(qs) - Count(big) <= Len(qs) - Count(c)
      BY <2>2, <2>3
    <3>2. Len(qs) \in Nat
      OBVIOUS
    <3> QED
      BY <1>3, <3>1, <3>2
  <2> DEFINE Largest == {c \in C : Count(c) = Count(big)}
             Firsts == {First(c) : c \in Largest}
  <2>5. Firsts \in SUBSET Nat /\ Firsts # {}
    BY <1>3
  <2>6. PICK least \in Firsts : \A k \in Firsts : least <= k
    BY <2>5, Least
  <2>7. PICK c \in Largest : least = First(c)
    OBVIOUS
  <2>8. ASSUME NEW o \in C, Ahead(qs, o, c) PROVE FALSE
    <3>1. c \in C /\ Count(c) = Count(big) /\ Count(o) <= Count(big)
      BY <2>4
    <3>2. Count(o) = Count(big) /\ First(o) < First(c)
      BY <1>2, <1>3, <2>8, <3>1
    <3>3. First(c) <= First(o)
      BY <2>6, <2>7, <3>2
    <3> QED
      BY <1>3, <3>1, <3>2, <3>3
  <2>9. AheadOf(qs, c) = {}
    BY <1>4, <2>8
  <2>10. Cardinality(AheadOf(qs, c)) < MaxCategories
    BY <1>5, <2>9, FS_EmptySet
  <2> QED
    BY <1>1, <2>10
<1>9. shown \subseteq C
  BY <1>1
<1> QED
  BY <1>6, <1>7, <1>8, <1>9 DEF C, Count, shown

LEMMA DistributionsComplete ==
    ASSUME NEW qs \in Seq(Range(Questions))
    PROVE  LET categories == buildCategoryBreakdown(qs)
           IN  /\ Total(buildLatencyDist(qs)) = Len(qs)
               /\ Total(buildScoreDist(qs)) = Len(qs)
               /\ DOMAIN categories = Categories(qs) =>
                      Total([cat \in DOMAIN categories |-> categories[cat].count]) = Len(qs)
<1> DEFINE I == DOMAIN qs
<1>1. I = 1 .. Len(qs) /\ IsFiniteSet(I) /\ Cardinality(I) = Len(qs)
  <2>1. Len(qs) \in Nat /\ I = 1 .. Len(qs)
    OBVIOUS
  <2> HIDE DEF I
  <2> QED
    BY <2>1, FS_Interval
<1>2. \A i \in I : qs[i].score \in 0 .. 100 /\ qs[i].latency \in Nat
  <2>1. \A i \in I : qs[i] \in Range(Questions)
    BY <1>1
  <2> QED
    BY <2>1, EvalPagesAssumption
<1>3. Total(buildLatencyDist(qs)) = Len(qs)
  <2> DEFINE class == [i \in I |-> CHOOSE b \in 1 .. 5 : InBucket(qs[i].latency, b)]
             f == buildLatencyDist(qs)
  <2>1. \A i \in I : class[i] \in 1 .. 5 /\ InBucket(qs[i].latency, class[i])
    BY <1>2, BucketsPartition
  <2>2. DOMAIN f = 1 .. 5
    BY BucketsPartition DEF buildLatencyDist
  <2>3. ASSUME NEW b \in DOMAIN f PROVE f[b] = Cardinality({i \in I : class[i] = b})
    <3>1. f[b] = Cardinality({i \in I : InBucket(qs[i].latency, b)})
      BY <2>2, BucketsPartition DEF buildLatencyDist
    <3>2. \A i \in I : InBucket(qs[i].latency, b) <=> class[i] = b
      BY <1>2, <2>1, <2>2, BucketsPartition
    <3>3. {i \in I : InBucket(qs[i].latency, b)} = {i \in I : class[i] = b}
      BY <3>2
    <3> QED
      BY <3>1, <3>3
  <2> HIDE DEF class, f, I
  <2>4. IsFiniteSet(DOMAIN f) /\ \A i \in I : class[i] \in DOMAIN f
    <3>1. IsFiniteSet(DOMAIN f)
      BY <2>2, FS_Interval, 1 \in Int, 5 \in Int
    <3> QED
      BY <2>1, <2>2, <3>1
  <2>5. Total(f) = Cardinality(I)
    BY <1>1, <2>3, <2>4, CountAll
  <2> QED
    BY <1>1, <2>5 DEF f
<1>4. Total(buildScoreDist(qs)) = Len(qs)
  <2> DEFINE class == [i \in I |-> ScoreBin(qs[i].score)]
             f == buildScoreDist(qs)
  <2>1. \A i \in I : class[i] \in 0 .. 9
    BY <1>2, BinsCover
  <2>2. DOMAIN f = 0 .. 9
    BY DEF buildScoreDist
  <2>3. ASSUME NEW b \in DOMAIN f PROVE f[b] = Cardinality({i \in I : class[i] = b})
    <3>1. f[b] = Cardinality({i \in I : qs[i].score \in 0 .. 100 /\ ScoreBin(qs[i].score) = b})
      BY <2>2 DEF buildScoreDist
    <3>2. {i \in I : qs[i].score \in 0 .. 100 /\ ScoreBin(qs[i].score) = b}
          = {i \in I : class[i] = b}
      BY <1>2
    <3> QED
      BY <3>1, <3>2
  <2> HIDE DEF class, f, I
  <2>4. IsFiniteSet(DOMAIN f) /\ \A i \in I : class[i] \in DOMAIN f
    <3>1. IsFiniteSet(DOMAIN f)
      BY <2>2, FS_Interval, 0 \in Int, 9 \in Int
    <3> QED
      BY <2>1, <2>2, <3>1
  <2>5. Total(f) = Cardinality(I)
    BY <1>1, <2>3, <2>4, CountAll
  <2> QED
    BY <1>1, <2>5 DEF f
<1>5. ASSUME DOMAIN buildCategoryBreakdown(qs) = Categories(qs)
      PROVE  Total([cat \in DOMAIN buildCategoryBreakdown(qs) |->
                       buildCategoryBreakdown(qs)[cat].count]) = Len(qs)
  <2> DEFINE class == [i \in I |-> qs[i].category]
             f == [cat \in DOMAIN buildCategoryBreakdown(qs) |-> buildCategoryBreakdown(qs)[cat].count]
  <2>1. DOMAIN f = Categories(qs) /\ IsFiniteSet(DOMAIN f)
    BY <1>5, CategoriesFinite
  <2>2. \A i \in I : class[i] \in DOMAIN f
    BY <2>1 DEF Categories
  <2>3. ASSUME NEW c \in DOMAIN f PROVE f[c] = Cardinality({i \in I : class[i] = c})
    <3>1. f[c] = Cardinality({i \in I : qs[i].category = c})
      BY DEF buildCategoryBreakdown, InCategory
    <3>2. {i \in I : qs[i].category = c} = {i \in I : class[i] = c}
      OBVIOUS
    <3> QED
      BY <3>1, <3>2
  <2> HIDE DEF class, f, I
  <2>4. IsFiniteSet(DOMAIN f)
    BY <2>1
  <2>5. Total(f) = Cardinality(I)
    BY <1>1, <2>2, <2>3, <2>4, CountAll
  <2> QED
    BY <1>1, <2>5 DEF f
<1> QED
  BY <1>3, <1>4, <1>5

-----------------------------------------------------------------------------
(* The radar.                                                              *)

LEMMA MaxIsMember ==
    ASSUME NEW n \in Nat, NEW S \in SUBSET (1 .. n), S # {}
    PROVE  Max(S) \in S
<1> DEFINE N == {n - i : i \in S}
<1>1. N \in SUBSET Nat /\ N # {}
  <2>1. \A i \in S : n - i \in Nat
    OBVIOUS
  <2> QED
    BY <2>1
<1>2. PICK least \in N : \A k \in N : least <= k
  BY <1>1, Least
<1>3. PICK x \in S : least = n - x
  OBVIOUS
<1>4. ASSUME NEW y \in S PROVE x >= y
  <2>1. n - x <= n - y
    BY <1>2, <1>3
  <2>2. x \in Int /\ y \in Int
    OBVIOUS
  <2> QED
    BY <2>1, <2>2
<1> QED
  BY <1>4 DEF Max

LEMMA SetToSeqLists ==
    ASSUME NEW S, IsFiniteSet(S)
    PROVE  /\ Cardinality(S) \in Nat /\ SetToSeq(S) \in [1 .. Cardinality(S) -> S]
           /\ \A x \in S : \E i \in 1 .. Cardinality(S) : SetToSeq(S)[i] = x
<1> DEFINE n == Cardinality(S)
           s == SetToSeq(S)
<1>1. n \in Nat /\ ExistsBijection(1 .. n, S)
  BY FS_CardinalityType
<1>2. \E f \in [1 .. n -> S] : IsInjective(f)
  BY <1>1 DEF ExistsBijection, Bijection, Injection, IsInjective
<1>3. s \in [1 .. n -> S] /\ IsInjective(s)
  BY <1>2 DEF SetToSeq
<1>4. IsFiniteSet(1 .. n) /\ Cardinality(1 .. n) = n
  BY <1>1, FS_Interval
<1> HIDE DEF n, s
<1>5. s \in Injection(1 .. n, S)
  BY <1>3 DEF Injection, IsInjective
<1>6. s \in Surjection(1 .. n, S)
  BY <1>4, <1>5, FS_Injection DEF n
<1> QED
  BY <1>1, <1>3, <1>6 DEF Surjection, n, s

\* What the radar draws of metric m for the label of target i is one of the targets with it.
DrawsALabelled(metrics, tags, base, targets, i, m) ==
    \E j \in DOMAIN targets :
        /\ tags[targets[j]] = tags[targets[i]]
        /\ RadarLine(buildRadarData(metrics, tags, base, targets), tags[targets[i]])[m]
           = getMetric(metrics[targets[j]], m)

LEMMA RadarShowsALabelled ==
    ASSUME NEW metrics, NEW tags, NEW base, NEW n \in Nat, NEW targets, DOMAIN targets = 1 .. n,
           NEW i \in 1 .. n, NEW m \in RADAR_METRICS
    PROVE  DrawsALabelled(metrics, tags, base, targets, i, m)
<1> DEFINE label == tags[targets[i]]
           labelled == {j \in DOMAIN targets : tags[targets[j]] = label}
           j == Max(labelled)
<1>1. j \in labelled
  <2>1. labelled \in SUBSET (1 .. n) /\ i \in labelled
    OBVIOUS
  <2> HIDE DEF labelled
  <2> QED
    BY <2>1, MaxIsMember
<1>2. Drawn(label, tags, base, targets) = targets[j]
  BY <1>1 DEF Drawn
<1>3. RadarLine(buildRadarData(metrics, tags, base, targets), label)[m] = getMetric(metrics[targets[j]], m)
  BY <1>2 DEF RadarLine, buildRadarData
<1> QED
  BY <1>1, <1>3 DEF DrawsALabelled

-----------------------------------------------------------------------------
USE EvalPagesAssumption

Places == Nat \ {0}

Shown ==
    {<<"dashboard">>, <<"list">>, <<"create">>} \cup {DetailPage(r) : r \in Runs}
    \cup {ComparePage(b, targets) : b \in Runs, targets \in SUBSET Runs}

Fields == {"data", "stale", "wire", "retried", "overtaken"}

Refusals == {Accept, "index_tag is required", "dataset_path is required"}

Call ==
    [op : {"create", "delete"}, run : Runs \cup {NoRun}, phase : {"sent", "done"},
     refusal : Refusals, here : BOOLEAN]

-----------------------------------------------------------------------------
(* The inductive invariant.                                                *)

\* The run that is, or was last, evaluated has been created.
ServerOK ==
    /\ scene \in Scenes
    /\ created \in 0 .. MaxRuns /\ gone \subseteq 1 .. created
    /\ rows \in [Runs -> 0 .. MaxRows] /\ measured \subseteq 1 .. created
    /\ job \in [state : JobStates, run : Runs \cup {NoRun}]
    /\ job.state \in {"running", "retrying"} => job.run \in 1 .. created

\* What is selected beside the choices of a base went through a checkbox, which counts.
SelectionOK ==
    /\ selectedIds \subseteq Runs /\ baseAdded \subseteq selectedIds
    /\ baseId = NoRun \/ baseId \in selectedIds
    /\ deleteTarget \in Runs \cup {NoRun}
    /\ Cardinality(selectedIds \ baseAdded) <= MaxCompare

CallsOK == calls \subseteq Call /\ \A c \in calls : c.op = "delete" => c.run \in Runs

\* A run whose rows were deleted never has any again: a retry makes a run of its own.
Emptied(r) ==
    /\ rows[r] = 0
    /\ r \in gone \/ (r <= created /\ ~(job.state = "running" /\ job.run = r))

Before(p) == (p - 1) * PageSize

\* Page p of run r is one the pager may lead to, or was and the run is empty.
Reached(r, p) == p = 1 \/ Before(p) < rows[r] \/ Emptied(r)

\* A page of questions as the API answers it, now or at an earlier time.
AnswerOK(r, p, answer) ==
    /\ answer.total \in 0 .. MaxRows
    /\ answer.total <= rows[r] \/ Emptied(r)
    /\ answer.questions = <<>> <=> answer.total <= Before(p)
    /\ answer.questions \in Seq(Range(Questions))
    /\ answer.questions = <<>> \/ Before(p) + Len(answer.questions) <= answer.total
    /\ \/ DetailKey(r, p) \in jumped
       \/ answer.total = 0 \/ Before(p) < answer.total

\* A comparison as the API answers it.
ComparisonOK(b, targets, answer) ==
    /\ DOMAIN answer = targets \cup {b}
    /\ \A r \in targets \cup {b} : \A key \in DOMAIN answer[r] : answer[r][key] \in Nat

\* A query of the cache; one for a page of questions, or for a comparison, has an answer to it.
QueryOK(k, q) ==
    /\ DOMAIN q = Fields /\ q.data # Refused
    /\ \A r \in Runs, p \in Places : k = DetailKey(r, p) =>
          /\ q.data # NoData => AnswerOK(r, p, q.data)
          /\ q.wire \notin {Idle, Sent, Refused} => AnswerOK(r, p, q.wire)
    /\ \A b \in Runs, targets \in SUBSET Runs : k = CompareKey(b, targets) =>
          /\ q.data # NoData => ComparisonOK(b, targets, q.data)
          /\ q.wire \notin {Idle, Sent, Refused} => ComparisonOK(b, targets, q.wire)

\* No page of questions was ever asked for that the pager would not lead to.
AskedOK(k) == \A r \in Runs, p \in Places : k = DetailKey(r, p) => k \in jumped \/ Reached(r, p)

CacheOK == \A k \in DOMAIN query : QueryOK(k, query[k]) /\ AskedOK(k)

\* The queries of the page are in the cache.
PageOK ==
    /\ page \in Shown /\ UsedBy(page, detailPage) \subseteq DOMAIN query
    /\ detailPage \in {1} \cup 2 .. MaxRows
    /\ expanded \in {{}} \cup {{i} : i \in 1 .. PageSize}

IInv == ServerOK /\ SelectionOK /\ CallsOK /\ CacheOK /\ PageOK

-----------------------------------------------------------------------------
(* Pages of questions.                                                     *)

LEMMA BeforeType == \A p \in Places : Before(p) \in Nat
<1> SUFFICES ASSUME NEW p \in Places PROVE Before(p) \in Nat
  OBVIOUS
<1>1. p - 1 \in Nat /\ PageSize \in Nat
  BY DEF Places
<1> QED
  BY <1>1 DEF Before

LEMMA BeforeNext ==
    ASSUME NEW p \in Places
    PROVE  /\ p + 1 \in Places /\ Before(p + 1) = p * PageSize /\ Before(p) <= p * PageSize
           /\ p <= p * PageSize /\ p * PageSize \in Nat
<1>1. p \in Nat /\ PageSize \in Nat /\ p >= 1 /\ PageSize >= 1
  BY DEF Places
<1>2. (p + 1) - 1 = p
  BY <1>1
<1>3. (p - 1) * PageSize <= p * PageSize
  BY <1>1
<1>4. p <= p * PageSize /\ p * PageSize \in Nat
  BY <1>1
<1> QED
  BY <1>1, <1>2, <1>3, <1>4 DEF Before, Places

LEMMA FirstPage == 1 \in Places /\ Before(1) = 0
<1>1. 1 - 1 = 0 /\ 0 * PageSize = 0
  OBVIOUS
<1> QED
  BY <1>1 DEF Before, Places

\* What the API answers for page p of run r.
LEMMA DetailAnswer ==
    ASSUME ServerOK, NEW r \in Runs, NEW p \in Places, DetailKey(r, p) \in jumped \/ Reached(r, p),
           fetchRunDetail(r, p) # Refused
    PROVE  AnswerOK(r, p, fetchRunDetail(r, p))
<1> DEFINE first == Before(p) + 1
           last  == IF p * PageSize < rows[r] THEN p * PageSize ELSE rows[r]
           answer == fetchRunDetail(r, p)
           qs == SubSeq(Questions, first, last)
<1>1. rows[r] \in 0 .. MaxRows /\ rows[r] \in Nat
  BY DEF ServerOK
<1>2. answer.total = rows[r] /\ answer.questions = qs
  BY DEF fetchRunDetail, Before
<1>3. Before(p) \in Nat /\ p * PageSize \in Nat /\ Before(p) <= p * PageSize
  BY BeforeType, BeforeNext
<1>4. first \in Nat \ {0} /\ last \in Nat /\ last <= MaxRows
  BY <1>1, <1>3
<1>5. qs \in Seq(Range(Questions)) /\ (qs = <<>> \/ Before(p) + Len(qs) <= rows[r])
  <2>1. /\ qs \in Seq(Range(Questions))
        /\ Len(qs) = IF first <= last THEN last - first + 1 ELSE 0
    <3> HIDE DEF first, last
    <3> QED
      BY <1>4
  <2>2. last <= rows[r]
    BY <1>1, <1>3
  <2>3. Before(p) \in Int /\ last \in Int /\ rows[r] \in Int
    BY <1>1, <1>3, <1>4
  <2> HIDE DEF qs, last
  <2>4. CASE first <= last
    <3>1. Len(qs) = last - (Before(p) + 1) + 1
      BY <2>1, <2>4
    <3>2. Before(p) + Len(qs) = last
      BY <2>3, <3>1
    <3> QED
      BY <2>1, <2>2, <2>3, <3>2
  <2>5. CASE ~(first <= last)
    BY <2>1, <2>5, EmptySeq
  <2> QED
    BY <2>1, <2>4, <2>5
<1>6. qs = <<>> <=> rows[r] <= Before(p)
  <2>1. qs = <<>> <=> last < first
    <3> HIDE DEF first, last
    <3>1. /\ qs \in Seq(Range(Questions))
          /\ Len(qs) = IF first <= last THEN last - first + 1 ELSE 0
      BY <1>4
    <3>2. qs = <<>> <=> Len(qs) = 0
      <4> HIDE DEF qs
      <4> QED
        BY <3>1, EmptySeq
    <3> QED
      BY <1>4, <3>1, <3>2
  <2>2. Before(p) < p * PageSize
    <3>1. p \in Int /\ PageSize \in Int /\ PageSize >= 1
      BY DEF Places
    <3>2. p * PageSize = (p - 1) * PageSize + PageSize
      BY <3>1
    <3>3. (p - 1) * PageSize \in Int
      BY <3>1
    <3> QED
      BY <3>1, <3>2, <3>3 DEF Before
  <2>3. last < first <=> rows[r] <= Before(p)
    BY <1>1, <1>3, <2>2
  <2> QED
    BY <2>1, <2>3
<1>7. DetailKey(r, p) \in jumped \/ rows[r] = 0 \/ Before(p) < rows[r]
  BY <1>1, FirstPage DEF Reached, Emptied
<1> QED
  BY <1>1, <1>2, <1>5, <1>6, <1>7 DEF AnswerOK

\* What it answers to a comparison.
LEMMA ComparisonAnswer ==
    ASSUME ServerOK, NEW b \in Runs, NEW targets \in SUBSET Runs, compareRuns(b, targets) # Refused
    PROVE  ComparisonOK(b, targets, compareRuns(b, targets))
<1>1. compareRuns(b, targets) = [r \in targets \cup {b} |-> Metrics(r)]
  BY DEF compareRuns
<1>2. ASSUME NEW r \in Runs, NEW key \in DOMAIN Metrics(r) PROVE Metrics(r)[key] \in Nat
  <2>1. CASE r \in measured
    BY <1>2, <2>1 DEF Metrics
  <2>2. CASE r \notin measured
    BY <1>2, <2>2 DEF Metrics
  <2> QED
    BY <2>1, <2>2
<1> QED
  BY <1>1, <1>2 DEF ComparisonOK

-----------------------------------------------------------------------------
(* The cache.                                                              *)

\* What becomes of a query without an answer: its data stay, and nothing new is on the wire.
Kept(q, new) == /\ DOMAIN new = Fields
                /\ new.data = q.data /\ new.wire \in {q.wire, Idle, Sent}

LEMMA QueriesKept ==
    ASSUME NEW q, DOMAIN q = Fields
    PROVE  /\ Kept(q, Begin(q)) /\ Kept(q, Fetch(q)) /\ Kept(q, Mounted(q)) /\ Kept(q, Aged(q))
           /\ \A active : Kept(q, Invalidated(q, active)) /\ Kept(q, Errored(q, active))
<1>1. Kept(q, q)
  BY DEF Kept
<1>2. Kept(q, Begin(q))
  BY DEF Kept, Begin, Fields
<1>3. Kept(q, Aged(q))
  BY DEF Kept, Aged, Fields
<1>4. Kept(q, Fetch(q))
  BY <1>1, <1>2 DEF Fetch
<1>5. Kept(q, Mounted(q))
  BY <1>1, <1>4 DEF Mounted
<1>6. ASSUME NEW active PROVE Kept(q, Invalidated(q, active))
  <2> DEFINE aged == Aged(q)
  <2>1. DOMAIN aged = Fields /\ aged.data = q.data /\ aged.wire = q.wire
    BY DEF Aged, Fields
  <2> HIDE DEF aged
  <2>2. Kept(q, Begin(aged))
    BY <2>1 DEF Kept, Begin, Fields
  <2>3. Kept(q, [aged EXCEPT !.overtaken = Fetching(q)])
    BY <2>1 DEF Kept, Fields
  <2> QED
    BY <2>2, <2>3 DEF Invalidated, aged
<1>7. ASSUME NEW active PROVE Kept(q, Errored(q, active))
  <2> DEFINE aged == Aged(q)
  <2>1. DOMAIN aged = Fields /\ aged.data = q.data
    BY DEF Aged, Fields
  <2> HIDE DEF aged
  <2>2. Kept(q, [q EXCEPT !.wire = Sent, !.retried = TRUE])
    BY DEF Kept, Fields
  <2>3. Kept(q, [aged EXCEPT !.wire = Idle, !.retried = FALSE, !.overtaken = FALSE])
    BY <2>1 DEF Kept, Fields
  <2> QED
    BY <2>2, <2>3 DEF Errored, aged
<1> QED
  BY <1>2, <1>3, <1>4, <1>5, <1>6, <1>7

LEMMA KeptOK ==
    ASSUME NEW k, NEW q, NEW new, QueryOK(k, q), Kept(q, new)
    PROVE  QueryOK(k, new)
BY DEF QueryOK, Kept

LEMMA CachedOK ==
    ASSUME NEW q, NEW k, \A x \in DOMAIN q : QueryOK(x, q[x])
    PROVE  QueryOK(k, Cached(q, k))
<1>1. QueryOK(k, NewQuery)
  BY DEF QueryOK, NewQuery, Fields
<1> QED
  BY <1>1 DEF Cached

\* Mounting a page keeps what is in the cache and adds what the page asks for.
LEMMA MountedOK ==
    ASSUME NEW q, NEW p, NEW dp, \A k \in DOMAIN q : QueryOK(k, q[k])
    PROVE  LET new == MountedQueries(q, p, dp)
           IN  /\ DOMAIN new = DOMAIN q \cup UsedBy(p, dp)
               /\ \A k \in DOMAIN new : QueryOK(k, new[k])
<1> DEFINE new == MountedQueries(q, p, dp)
<1>1. DOMAIN new = DOMAIN q \cup UsedBy(p, dp)
  BY DEF MountedQueries
<1>2. ASSUME NEW k \in DOMAIN new PROVE QueryOK(k, new[k])
  <2>1. CASE k \in UsedBy(p, dp)
    <3>1. new[k] = Mounted(Cached(q, k))
      BY <2>1 DEF MountedQueries
    <3>2. QueryOK(k, Cached(q, k))
      BY CachedOK
    <3>3. Kept(Cached(q, k), Mounted(Cached(q, k)))
      BY <3>2, QueriesKept DEF QueryOK
    <3> QED
      BY <3>1, <3>2, <3>3, KeptOK
  <2>2. CASE k \notin UsedBy(p, dp)
    BY <1>1, <1>2, <2>2 DEF MountedQueries
  <2> QED
    BY <2>1, <2>2
<1> QED
  BY <1>1, <1>2

LEMMA UpdatedOK ==
    ASSUME NEW q, NEW k, NEW new, \A x \in DOMAIN q : QueryOK(x, q[x]), QueryOK(k, new)
    PROVE  /\ DOMAIN Updated(q, k, new) = DOMAIN q \cup {k}
           /\ \A x \in DOMAIN q \cup {k} : QueryOK(x, Updated(q, k, new)[x])
BY DEF Updated

\* First pages may always be asked for, and other queries are not pages of questions.
LEMMA FirstAsked ==
    ASSUME NEW p \in Shown, NEW k \in UsedBy(p, 1)
    PROVE  AskedOK(k) /\ AskedOK(k)'
<1>1. ASSUME NEW r \in Runs, NEW n \in Places, k = DetailKey(r, n) PROVE n = 1
  BY <1>1 DEF UsedBy, Shown, DetailPage, ComparePage, DetailKey, CompareKey, ListKey, JobsKey
<1> QED
  BY <1>1 DEF AskedOK, Reached

-----------------------------------------------------------------------------
(* Steps of the evaluation: no page that was reached is lost to the pager. *)

Onward == \A r \in Runs : /\ Emptied(r) => Emptied(r)'
                          /\ rows[r] <= rows'[r] \/ Emptied(r)'

LEMMA AnswerOnward ==
    ASSUME ServerOK, ServerOK', Onward, jumped \subseteq jumped',
           NEW r \in Runs, NEW p \in Places, NEW answer, AnswerOK(r, p, answer)
    PROVE  AnswerOK(r, p, answer)'
<1>1. /\ answer.total \in 0 .. MaxRows /\ rows[r] \in 0 .. MaxRows /\ rows'[r] \in 0 .. MaxRows
      /\ answer.total <= rows[r] \/ Emptied(r)
  BY DEF ServerOK, AnswerOK
<1>2. answer.total <= rows'[r] \/ Emptied(r)'
  BY <1>1 DEF Onward
<1> QED
  BY <1>1, <1>2 DEF AnswerOK, Before

LEMMA ReachedOnward ==
    ASSUME ServerOK, ServerOK', Onward, NEW r \in Runs, NEW p \in Places, Reached(r, p)
    PROVE  Reached(r, p)'
<1>1. rows[r] \in 0 .. MaxRows /\ rows'[r] \in 0 .. MaxRows /\ Before(p) \in Nat
  BY BeforeType DEF ServerOK
<1>2. Before(p) < rows[r] => Before(p) < rows'[r] \/ Emptied(r)'
  BY <1>1 DEF Onward
<1> QED
  BY <1>2 DEF Reached, Onward, Before

\* What is asked for and answered rightly stays so.
LEMMA CacheFrom ==
    ASSUME ServerOK, ServerOK', Onward, jumped \subseteq jumped',
           \A k \in DOMAIN query : AskedOK(k),
           \A k \in DOMAIN query' : /\ QueryOK(k, query'[k])
                                    /\ k \in DOMAIN query \/ AskedOK(k)'
    PROVE  CacheOK'
<1>1. ASSUME NEW k, NEW q, QueryOK(k, q) PROVE QueryOK(k, q)'
  BY <1>1, AnswerOnward DEF QueryOK
<1>2. ASSUME NEW k, AskedOK(k) PROVE AskedOK(k)'
  BY <1>2, ReachedOnward DEF AskedOK
<1> QED
  BY <1>1, <1>2 DEF CacheOK

\* Where the server's state is as it was.
LEMMA ServerRests ==
    ASSUME ServerOK, UNCHANGED serverVars
    PROVE  ServerOK' /\ Onward
<1>1. /\ scene' = scene /\ created' = created /\ gone' = gone /\ rows' = rows
      /\ measured' = measured /\ job' = job
  BY DEF serverVars
<1>2. ServerOK'
  BY <1>1 DEF ServerOK
<1>3. ASSUME NEW r \in Runs PROVE Emptied(r)' <=> Emptied(r)
  BY <1>1 DEF Emptied
<1>4. \A r \in Runs : rows[r] \in Int
  BY DEF ServerOK
<1> QED
  BY <1>1, <1>2, <1>3, <1>4 DEF Onward

\* A retry removes the rows of an attempt that is over.
LEMMA CleanUpStep == ASSUME ServerOK, CleanUp PROVE ServerOK' /\ Onward
<1>1. /\ job.state = "retrying" /\ job.run \in 1 .. created /\ created' = created
      /\ gone' = gone /\ job' = job /\ measured' = measured /\ scene' = scene
      /\ rows' = [rows EXCEPT ![job.run] = 0]
  BY DEF CleanUp, EvalStep, ServerOK
<1>2. ServerOK'
  <2>1. rows' \in [Runs -> 0 .. MaxRows]
    <3>1. 0 \in 0 .. MaxRows /\ rows \in [Runs -> 0 .. MaxRows]
      BY DEF ServerOK
    <3> QED
      BY <1>1, <3>1
  <2> QED
    BY <1>1, <2>1 DEF ServerOK
<1>3. ASSUME NEW r \in Runs PROVE (Emptied(r) => Emptied(r)') /\ (rows[r] <= rows'[r] \/ Emptied(r)')
  <2>1. rows[r] \in 0 .. MaxRows /\ rows'[r] = (IF r = job.run THEN 0 ELSE rows[r])
    BY <1>1 DEF ServerOK
  <2>2. CASE r = job.run
    BY <1>1, <2>1, <2>2 DEF Emptied
  <2>3. CASE r # job.run
    BY <1>1, <2>1, <2>3 DEF Emptied
  <2> QED
    BY <2>2, <2>3
<1> QED
  BY <1>2, <1>3 DEF Onward

LEMMA CreateRunStep == ASSUME ServerOK, CreateRun PROVE ServerOK' /\ Onward
<1>1. /\ created \in 0 .. MaxRuns /\ created < scene.room /\ created' = created + 1
      /\ job' = [state |-> "running", run |-> created + 1]
      /\ gone' = gone /\ rows' = rows /\ measured' = measured /\ scene' = scene
  BY DEF CreateRun, EvalStep, ServerOK
<1>2. created + 1 \in Runs /\ created + 1 \in 1 .. created'
  <2>1. scene.room \in 0 .. MaxRuns
    BY DEF ServerOK
  <2> QED
    BY <1>1, <2>1 DEF Runs
<1>3. gone' \subseteq 1 .. created' /\ measured' \subseteq 1 .. created' /\ created' \in 0 .. MaxRuns
  BY <1>1, <1>2 DEF ServerOK, Runs
<1>4. job' \in [state : JobStates, run : Runs \cup {NoRun}] /\ job'.run = created + 1
  BY <1>1, <1>2 DEF JobStates
<1>5. ServerOK'
  BY <1>1, <1>2, <1>3, <1>4 DEF ServerOK
<1>6. ASSUME NEW r \in Runs PROVE (Emptied(r) => Emptied(r)') /\ (rows[r] <= rows'[r] \/ Emptied(r)')
  <2>1. r \in Int /\ created \in Int /\ rows[r] \in Int
    BY DEF Runs, ServerOK
  <2>2. r <= created => r <= created' /\ r # created + 1
    BY <1>1, <2>1
  <2> QED
    BY <1>1, <1>4, <2>1, <2>2 DEF Emptied
<1> QED
  BY <1>5, <1>6 DEF Onward

LEMMA StoreRowsStep == ASSUME ServerOK, StoreRows PROVE ServerOK' /\ Onward
<1>1. /\ job.state = "running" /\ job.run \in 1 .. created /\ job.run \notin gone
      /\ created' = created /\ gone' = gone /\ job' = job /\ measured' = measured /\ scene' = scene
  BY DEF StoreRows, EvalStep, Exists, ServerOK
<1>2. PICK n \in rows[job.run] + 1 .. MaxRows : rows' = [rows EXCEPT ![job.run] = n]
  BY DEF StoreRows
<1>3. job.run \in Runs /\ rows[job.run] \in 0 .. MaxRows
  BY <1>1 DEF ServerOK, Runs
<1>4. n \in 0 .. MaxRows /\ rows[job.run] <= n
  BY <1>3
<1>5. ServerOK'
  BY <1>1, <1>2, <1>4 DEF ServerOK
<1>6. ASSUME NEW r \in Runs PROVE (Emptied(r) => Emptied(r)') /\ (rows[r] <= rows'[r] \/ Emptied(r)')
  <2>1. rows[r] \in 0 .. MaxRows /\ rows'[r] = (IF r = job.run THEN n ELSE rows[r])
    BY <1>2 DEF ServerOK
  <2>2. CASE r = job.run
    <3>1. ~Emptied(r)
      BY <1>1, <2>2 DEF Emptied
    <3> QED
      BY <1>4, <2>1, <2>2, <3>1
  <2>3. CASE r # job.run
    BY <1>1, <2>1, <2>3 DEF Emptied
  <2> QED
    BY <2>2, <2>3
<1> QED
  BY <1>5, <1>6 DEF Onward

LEMMA EndEvalStep ==
    ASSUME ServerOK, NEW end \in {"completed", "retrying", "failed"}, EndEval(end)
    PROVE  ServerOK' /\ Onward
<1>1. /\ job.state = "running" /\ job.run \in 1 .. created /\ created' = created /\ gone' = gone
      /\ rows' = rows /\ scene' = scene
      /\ job'.state = end /\ job'.run = job.run /\ measured' \subseteq measured \cup {job.run}
      /\ job' \in [state : JobStates, run : Runs \cup {NoRun}]
  BY DEF EndEval, EvalStep, ServerOK, JobStates
<1>2. ServerOK'
  BY <1>1 DEF ServerOK
<1>3. ASSUME NEW r \in Runs PROVE (Emptied(r) => Emptied(r)') /\ (rows[r] <= rows'[r] \/ Emptied(r)')
  <2>1. rows[r] \in 0 .. MaxRows
    BY DEF ServerOK
  <2> QED
    BY <1>1, <2>1 DEF Emptied
<1> QED
  BY <1>2, <1>3 DEF Onward

\* The user's own requests: a job is inserted, or a run goes with its rows.
LEMMA CarryOutStep ==
    ASSUME ServerOK, CallsOK, NEW c \in calls, CarryOut(c)
    PROVE  ServerOK' /\ Onward
<1>1. ASSUME InsertJob(c) PROVE ServerOK' /\ Onward
  <2>1. /\ scene' = scene /\ created' = created /\ gone' = gone /\ rows' = rows
        /\ measured' = measured
        /\ job' = job \/ job' = [job EXCEPT !.state = "available"]
    BY <1>1 DEF InsertJob
  <2>2. ServerOK'
    BY <2>1 DEF ServerOK, JobStates
  <2>3. ASSUME NEW r \in Runs PROVE (Emptied(r) => Emptied(r)') /\ rows[r] <= rows'[r]
    <3>1. rows[r] \in 0 .. MaxRows /\ (job' # job => job'.state = "available")
      BY <2>1 DEF ServerOK
    <3> QED
      BY <2>1, <3>1 DEF Emptied
  <2> QED
    BY <2>2, <2>3 DEF Onward
<1>2. ASSUME RemoveRun(c) PROVE ServerOK' /\ Onward
  <2>1. CASE Exists(c.run)
    <3>1. /\ scene' = scene /\ created' = created /\ measured' = measured /\ job' = job
          /\ gone' = gone \cup {c.run} /\ rows' = [rows EXCEPT ![c.run] = 0]
      BY <1>2, <2>1 DEF RemoveRun
    <3>2. ServerOK'
      <4>1. c.run \in 1 .. created
        BY <1>2, <2>1 DEF RemoveRun, Exists, CallsOK, ServerOK, Runs
      <4>2. rows' \in [Runs -> 0 .. MaxRows]
        <5>1. 0 \in 0 .. MaxRows /\ rows \in [Runs -> 0 .. MaxRows]
          BY DEF ServerOK
        <5> QED
          BY <3>1, <5>1
      <4> QED
        BY <3>1, <4>1, <4>2 DEF ServerOK
    <3>3. ASSUME NEW r \in Runs PROVE (Emptied(r) => Emptied(r)') /\ (rows[r] <= rows'[r] \/ Emptied(r)')
      <4>1. rows[r] \in 0 .. MaxRows /\ rows'[r] = (IF r = c.run THEN 0 ELSE rows[r])
        BY <3>1 DEF ServerOK
      <4> QED
        BY <3>1, <4>1 DEF Emptied
    <3> QED
      BY <3>2, <3>3 DEF Onward
  <2>2. CASE ~Exists(c.run)
    BY <1>2, <2>2, ServerRests DEF RemoveRun, serverVars
  <2> QED
    BY <2>1, <2>2
<1> QED
  BY <1>1, <1>2 DEF CarryOut

LEMMA ServerSteps ==
    ASSUME ServerOK, CallsOK, [Next]_vars
    PROVE  ServerOK' /\ Onward
<1>1. ASSUME RunEval PROVE ServerOK' /\ Onward
  BY <1>1, CleanUpStep, CreateRunStep, StoreRowsStep, EndEvalStep DEF RunEval
<1>2. ASSUME NEW c \in calls, CarryOut(c) PROVE ServerOK' /\ Onward
  BY <1>2, CarryOutStep
<1>3. ASSUME User \/ Client PROVE UNCHANGED serverVars
  BY <1>3 DEF User, Client, GoTo, OpenRun, JumpTo, Reload, toggleSelect, handleBaseChange, OnTable,
     PickDelete, CloseDialog, Compare, Previous, NextQuestions, ToPage, setExpanded, SubmitEval,
     Arrives, GetsOld, Poll, OnlyQuery, Settle
<1>4. ASSUME (\E k \in DOMAIN query : Read(k) \/ FetchFails(k)) \/ (\E c \in calls : LoseCall(c))
      PROVE  UNCHANGED serverVars
  BY <1>4 DEF Read, FetchFails, OnlyQuery, LoseCall
<1>5. CASE UNCHANGED vars
  BY <1>5, ServerRests DEF vars
<1> QED
  BY <1>1, <1>2, <1>3, <1>4, <1>5, ServerRests DEF Next, Server

-----------------------------------------------------------------------------
(* The selection.                                                          *)

LEMMA RunsFinite == \A S \in SUBSET Runs : IsFiniteSet(S) /\ Cardinality(S) \in Nat
<1>1. 1 \in Int /\ MaxRuns \in Int
  OBVIOUS
<1>2. IsFiniteSet(1 .. MaxRuns)
  BY <1>1, FS_Interval
<1> QED
  BY <1>2, FS_Subset, FS_CardinalityType DEF Runs

LEMMA NoneSelected == 
    ASSUME baseId' = NoRun, selectedIds' = {}, deleteTarget' = NoRun, baseAdded' = {}
    PROVE  SelectionOK'
<1>1. Cardinality({} \ {}) = 0
  BY FS_EmptySet
<1> QED
  BY <1>1 DEF SelectionOK

LEMMA ToggleOK ==
    ASSUME SelectionOK, NEW r \in Runs, toggleSelect(r)
    PROVE  SelectionOK'
<1>1. /\ baseId' = baseId /\ deleteTarget' = deleteTarget /\ ~Disabled(r)
      /\ r \in selectedIds => selectedIds' = selectedIds \ {r} /\ baseAdded' = baseAdded \ {r}
      /\ r \notin selectedIds => /\ RoomFor(selectedIds) /\ baseAdded' = baseAdded
                                 /\ selectedIds' = selectedIds \cup {r}
  BY DEF toggleSelect
<1>2. CASE r \in selectedIds
  <2>1. (selectedIds \ {r}) \ (baseAdded \ {r}) \subseteq selectedIds \ baseAdded
    OBVIOUS
  <2>2. /\ selectedIds' \in SUBSET Runs /\ selectedIds' \ baseAdded' \in SUBSET Runs
        /\ selectedIds' \ baseAdded' \subseteq selectedIds \ baseAdded
        /\ selectedIds \ baseAdded \in SUBSET Runs
    BY <1>1, <1>2, <2>1 DEF SelectionOK
  <2>3. Cardinality(selectedIds' \ baseAdded') <= Cardinality(selectedIds \ baseAdded)
    BY <2>2, RunsFinite, FS_Subset
  <2>4. Cardinality(selectedIds' \ baseAdded') <= MaxCompare
    BY <2>2, <2>3, RunsFinite DEF SelectionOK
  <2>5. baseId' = NoRun \/ baseId' \in selectedIds'
    BY <1>1, <1>2 DEF SelectionOK, Disabled
  <2> QED
    BY <1>1, <1>2, <2>2, <2>4, <2>5 DEF SelectionOK
<1>3. CASE r \notin selectedIds
  <2>1. /\ selectedIds \in SUBSET Runs /\ selectedIds' = selectedIds \cup {r}
        /\ selectedIds' \in SUBSET Runs /\ selectedIds' \ baseAdded' \subseteq selectedIds'
        /\ selectedIds' \ baseAdded' \in SUBSET Runs
        /\ Cardinality(selectedIds) < MaxCompare
    BY <1>1, <1>3 DEF SelectionOK, RoomFor
  <2>2. Cardinality(selectedIds') = Cardinality(selectedIds) + 1
    BY <1>3, <2>1, RunsFinite, FS_AddElement
  <2>3. Cardinality(selectedIds' \ baseAdded') <= Cardinality(selectedIds')
    BY <2>1, RunsFinite, FS_Subset
  <2>4. Cardinality(selectedIds' \ baseAdded') <= MaxCompare
    BY <2>1, <2>2, <2>3, RunsFinite
  <2> QED
    BY <1>1, <1>3, <2>1, <2>4 DEF SelectionOK
<1> QED
  BY <1>2, <1>3

LEMMA SelectionSteps ==
    ASSUME SelectionOK, [Next]_vars
    PROVE  SelectionOK'
<1>1. ASSUME UNCHANGED listVars PROVE SelectionOK'
  BY <1>1 DEF SelectionOK, listVars
<1>2. ASSUME NEW p, NEW q, Visit(p, q) PROVE SelectionOK'
  BY <1>2, NoneSelected DEF Visit
<1>3. ASSUME NEW r \in Runs, handleBaseChange(r) PROVE SelectionOK'
  <2>1. /\ baseId' = r /\ deleteTarget' = deleteTarget /\ selectedIds' = selectedIds \cup {r}
        /\ baseAdded' = IF r \in selectedIds THEN baseAdded ELSE baseAdded \cup {r}
    BY <1>3 DEF handleBaseChange
  <2>2. selectedIds' \ baseAdded' = selectedIds \ baseAdded
    BY <2>1
  <2> QED
    BY <2>1, <2>2 DEF SelectionOK
<1>4. ASSUME NEW r \in Runs, PickDelete(r) PROVE SelectionOK'
  BY <1>4 DEF PickDelete, SelectionOK
<1>5. ASSUME NEW confirmed \in BOOLEAN, CloseDialog(confirmed) PROVE SelectionOK'
  BY <1>5 DEF CloseDialog, SelectionOK
<1>6. CASE User
  <2>1. ASSUME (\E r \in Runs : JumpTo(r)) \/ Previous \/ NextQuestions
               \/ (\E i \in 1 .. PageSize : setExpanded(i)) \/ SubmitEval
        PROVE  UNCHANGED listVars
    BY <2>1 DEF JumpTo, Previous, NextQuestions, ToPage, setExpanded, SubmitEval
  <2>2. ASSUME (\E name \in {"dashboard", "list", "create"} : GoTo(name))
               \/ (\E r \in Runs : OpenRun(r)) \/ Reload \/ Compare
        PROVE  \E p, q : Visit(p, q)
    BY <2>2 DEF GoTo, OpenRun, Reload, Compare
  <2> QED
    BY <1>1, <1>2, <1>3, <1>4, <1>5, <1>6, <2>1, <2>2, ToggleOK DEF User
<1>7. CASE Client
  <2>1. ASSUME NEW c \in calls, Settle(c) PROVE UNCHANGED listVars \/ \E p, q : Visit(p, q)
    BY <2>1 DEF Settle
  <2> QED
    BY <1>1, <1>2, <1>7, <2>1 DEF Client, Arrives, GetsOld, Poll, OnlyQuery
<1>8. CASE Server
  BY <1>1, <1>8 DEF Server, Read, FetchFails, OnlyQuery, CarryOut, LoseCall, RunEval, CleanUp,
     CreateRun, StoreRows, EndEval, EvalStep
<1>9. CASE UNCHANGED vars
  BY <1>1, <1>9 DEF vars
<1> QED
  BY <1>6, <1>7, <1>8, <1>9 DEF Next

-----------------------------------------------------------------------------
(* What the API says of an evaluation.                                     *)

\* Whatever is filled in and whatever K values are left: the browser and handleSubmit have
\* seen to everything but the two selects.
LEMMA OutcomesOK == EvalOutcomes \subseteq Refusals
<1> SUFFICES ASSUME NEW f \in EvalForms, EvalFormValid(f), EvalSubmits(f)
             PROVE  EvalRefusal(EvalPayload(f)) \in Refusals
  BY DEF EvalOutcomes
<1> DEFINE sent == EvalPayload(f)
<1>1. /\ f.queryStrategy = "naive-search" /\ f.workers = 5 /\ f.tag # Blank /\ f.batchSize >= 1
      /\ f.batchSize \in {0, 20}
      /\ f.llm.provider \in {"openai", "lmstudio"} /\ f.llm.model # Blank
      /\ f.embed.provider \in {"openai", "lmstudio"} /\ f.embed.model # Blank
      /\ f.judge.provider \in {"openai", "lmstudio"} /\ f.judge.model # Blank
  <2>1. PICK role \in {"llm", "embed", "judge"}, p \in {"openai", "lmstudio"}, i \in {Blank, Text},
             d \in {Blank, Text}, t \in {Blank, Text}, ks \in {<<1, 3, 5>>, <<NaN, 0>>}, b \in {0, 20} :
          f = [RoleProviderChange(NewEvalForm, role, p) EXCEPT
                !.indexTag = i, !.datasetPath = d, !.tag = t, !.ksInput = ks, !.batchSize = b]
    BY DEF EvalForms
  <2> DEFINE g == RoleProviderChange(NewEvalForm, role, p)
  <2>2. /\ DOMAIN g = DOMAIN NewEvalForm
        /\ g.queryStrategy = "naive-search" /\ g.workers = 5
        /\ \A x \in {"llm", "embed", "judge"} : g[x].provider \in {"openai", "lmstudio"}
    BY DEF RoleProviderChange, NewEvalForm, Role
  <2>3. /\ f.queryStrategy = "naive-search" /\ f.workers = 5 /\ f.batchSize = b
        /\ f.llm = g.llm /\ f.embed = g.embed /\ f.judge = g.judge
    <3> HIDE DEF g
    <3> QED
      BY <2>1, <2>2 DEF NewEvalForm, g
  <2>4. f.tag # Blank /\ f.batchSize >= 1 /\ \A x \in {"llm", "embed", "judge"} : f[x].model # Blank
    BY DEF EvalFormValid, StrategyCardValid, PerformanceCardValid, RolesValid
  <2> QED
    BY <2>2, <2>3, <2>4
<1>2. /\ sent.tag # Blank /\ sent.query_strategy = "naive-search" /\ sent.ks # <<>>
      /\ sent.workers = 5 /\ sent.batch_size >= 1 /\ sent.batch_size \in {0, 20}
      /\ sent.llm.provider \in {"openai", "lmstudio"} /\ sent.llm.model # Blank
      /\ sent.embedding.provider \in {"openai", "lmstudio"} /\ sent.embedding.model # Blank
      /\ sent.judge.provider \in {"openai", "lmstudio"} /\ sent.judge.model # Blank
  BY <1>1 DEF EvalPayload, EvalSubmits
<1> HIDE DEF sent
<1>3. ~(sent.batch_size <= 0) /\ ~(sent.workers <= 0)
  BY <1>2
<1>4. "naive-search" # Blank /\ "openai" # Blank /\ "lmstudio" # Blank
  BY DEF Blank
<1>5. EvalRefusal(sent) \in Refusals
  BY <1>2, <1>3, <1>4 DEF EvalRefusal, Refusals
<1> QED
  BY <1>5 DEF sent

LEMMA CallSteps ==
    ASSUME SelectionOK, CallsOK, [Next]_vars
    PROVE  CallsOK'
<1>1. ASSUME calls' \subseteq calls PROVE CallsOK'
  BY <1>1 DEF CallsOK
<1>2. ASSUME NEW new \in Call, new.op = "delete" => new.run \in Runs, calls' \subseteq calls \cup {new}
      PROVE  CallsOK'
  BY <1>2 DEF CallsOK
<1>3. ASSUME NEW name, GoTo(name) PROVE CallsOK'
  <2>1. ASSUME NEW c \in calls
        PROVE  /\ [c EXCEPT !.here = FALSE] \in Call
               /\ [c EXCEPT !.here = FALSE].op = c.op /\ [c EXCEPT !.here = FALSE].run = c.run
    BY DEF CallsOK, Call
  <2>2. calls' = {[c EXCEPT !.here = FALSE] : c \in calls}
    BY <1>3 DEF GoTo, FormLeft
  <2>3. ASSUME NEW d \in calls' PROVE d \in Call /\ (d.op = "delete" => d.run \in Runs)
    <3>1. PICK c \in calls : d = [c EXCEPT !.here = FALSE]
      BY <2>2
    <3>2. d \in Call /\ d.op = c.op /\ d.run = c.run
      BY <2>1, <3>1
    <3> QED
      BY <3>2 DEF CallsOK
  <2> QED
    BY <2>3 DEF CallsOK
<1>4. ASSUME NEW confirmed \in BOOLEAN, CloseDialog(confirmed) PROVE CallsOK'
  <2> DEFINE new == [op |-> "delete", run |-> deleteTarget, phase |-> "sent",
                     refusal |-> Accept, here |-> FALSE]
  <2>1. new \in Call /\ new.run \in Runs
    BY <1>4 DEF CloseDialog, SelectionOK, Call, Refusals
  <2>2. calls' \subseteq calls \cup {new}
    BY <1>4 DEF CloseDialog
  <2> HIDE DEF new
  <2> QED
    BY <1>2, <2>1, <2>2
<1>5. ASSUME SubmitEval PROVE CallsOK'
  <2>1. PICK refusal \in EvalOutcomes :
          calls' = calls \cup {[op |-> "create", run |-> NoRun, phase |-> "sent",
                                refusal |-> refusal, here |-> TRUE]}
    BY <1>5 DEF SubmitEval
  <2> DEFINE new == [op |-> "create", run |-> NoRun, phase |-> "sent",
                     refusal |-> refusal, here |-> TRUE]
  <2>2. new \in Call /\ new.op # "delete"
    BY <2>1, OutcomesOK DEF Call
  <2>3. calls' \subseteq calls \cup {new}
    BY <2>1
  <2> HIDE DEF new
  <2> QED
    BY <1>2, <2>2, <2>3
<1>6. ASSUME NEW c \in calls, CarryOut(c) PROVE CallsOK'
  <2> DEFINE new == [c EXCEPT !.phase = "done"]
  <2>1. new \in Call /\ new.op = c.op /\ new.run = c.run
    BY DEF CallsOK, Call
  <2>2. calls' \subseteq calls \cup {new}
    BY <1>6 DEF CarryOut, InsertJob, RemoveRun, Done, Fails
  <2> HIDE DEF new
  <2> QED
    BY <1>2, <2>1, <2>2 DEF CallsOK
<1>7. CASE User
  <2>1. ASSUME (\E r \in Runs : OpenRun(r) \/ JumpTo(r)) \/ Reload \/ Compare \/ Previous
               \/ NextQuestions \/ (\E i \in 1 .. PageSize : setExpanded(i))
               \/ (\E r \in Runs : toggleSelect(r) \/ handleBaseChange(r) \/ PickDelete(r))
        PROVE  calls' \subseteq calls
    BY <2>1 DEF OpenRun, JumpTo, Reload, Compare, Previous, NextQuestions, ToPage, setExpanded,
       toggleSelect, handleBaseChange, PickDelete
  <2> QED
    BY <1>1, <1>3, <1>4, <1>5, <1>7, <2>1 DEF User
<1>8. CASE Client
  BY <1>1, <1>8 DEF Client, Arrives, GetsOld, Poll, OnlyQuery, Settle
<1>9. CASE Server
  <2>1. ASSUME RunEval \/ (\E k \in DOMAIN query : Read(k) \/ FetchFails(k))
               \/ (\E c \in calls : LoseCall(c))
        PROVE  calls' \subseteq calls
    BY <2>1 DEF Read, FetchFails, OnlyQuery, LoseCall, Fails, RunEval, CleanUp, CreateRun, StoreRows,
       EndEval, EvalStep
  <2> QED
    BY <1>1, <1>6, <1>9, <2>1 DEF Server
<1>10. CASE UNCHANGED vars
  BY <1>1, <1>10 DEF vars
<1> QED
  BY <1>7, <1>8, <1>9, <1>10 DEF Next

-----------------------------------------------------------------------------
(* The pages and their queries.                                            *)

\* Where neither the page nor its queries change.
LEMMA PageRests ==
    ASSUME IInv, ServerOK', Onward, UNCHANGED <<page, query, detailPage, jumped>>,
           expanded' \in {{}} \cup {{i} : i \in 1 .. PageSize}
    PROVE  CacheOK' /\ PageOK'
<1>1. CacheOK'
  BY CacheFrom DEF IInv, CacheOK
<1>2. PageOK'
  BY DEF IInv, PageOK, UsedBy, DetailKey, CompareKey, ListKey, JobsKey
<1> QED
  BY <1>1, <1>2

\* Where one query changes and the page stays.
LEMMA OneQuery ==
    ASSUME IInv, ServerOK', Onward, NEW k \in DOMAIN query, NEW new, QueryOK(k, new),
           query' = Updated(query, k, new), UNCHANGED <<page, detailPage, expanded, jumped>>
    PROVE  CacheOK' /\ PageOK'
<1>1. /\ DOMAIN query' = DOMAIN query
      /\ \A x \in DOMAIN query' : QueryOK(x, query'[x])
  <2>1. \A x \in DOMAIN query : QueryOK(x, query[x])
    BY DEF IInv, CacheOK
  <2>2. DOMAIN query \cup {k} = DOMAIN query
    OBVIOUS
  <2> QED
    BY <2>1, <2>2, UpdatedOK
<1>2. CacheOK'
  BY <1>1, CacheFrom DEF IInv, CacheOK
<1>3. PageOK'
  BY <1>1 DEF IInv, PageOK, UsedBy, DetailKey, CompareKey, ListKey, JobsKey
<1> QED
  BY <1>2, <1>3

\* Where a page is mounted anew, on the cache there is.
LEMMA PageMounted ==
    ASSUME IInv, ServerOK', Onward, jumped' = jumped, NEW q, NEW p \in Shown, Visit(p, q),
           \A k \in DOMAIN q : QueryOK(k, q[k]) /\ k \in DOMAIN query
    PROVE  CacheOK' /\ PageOK'
<1>1. page' = p /\ detailPage' = 1 /\ expanded' = {} /\ query' = MountedQueries(q, p, 1)
  BY DEF Visit
<1>2. DOMAIN query' = DOMAIN q \cup UsedBy(p, 1) /\ \A k \in DOMAIN query' : QueryOK(k, query'[k])
  BY <1>1, MountedOK
<1>3. \A k \in UsedBy(p, 1) : AskedOK(k)'
  BY FirstAsked
<1>4. CacheOK'
  BY <1>2, <1>3, CacheFrom DEF IInv, CacheOK
<1>5. PageOK'
  BY <1>1, <1>2 DEF PageOK, UsedBy, DetailKey, CompareKey, ListKey, JobsKey
<1> QED
  BY <1>4, <1>5

LEMMA DetailShown ==
    ASSUME IInv, At("detail")
    PROVE  /\ page[2] \in Runs /\ page = DetailPage(page[2]) /\ detailPage \in Places
           /\ UsedBy(page, detailPage) = {DetailKey(page[2], detailPage)}
           /\ DetailKey(page[2], detailPage) \in DOMAIN query
           /\ DetailQuery = query[DetailKey(page[2], detailPage)]
<1>1. page \in Shown /\ UsedBy(page, detailPage) \subseteq DOMAIN query
  BY DEF IInv, PageOK
<1>2. page[2] \in Runs /\ page = DetailPage(page[2])
  BY <1>1 DEF At, Shown, DetailPage, ComparePage
<1>3. detailPage \in Places
  BY DEF IInv, PageOK, Places
<1>4. UsedBy(page, detailPage) = {DetailKey(page[2], detailPage)}
  BY DEF At, UsedBy
<1>5. DetailKey(page[2], detailPage) \in DOMAIN query
  BY <1>1, <1>4
<1> QED
  BY <1>2, <1>3, <1>4, <1>5 DEF DetailQuery, Q, Cached

\* The questions that are shown were asked for rightly, and there are some.
LEMMA RunShown ==
    ASSUME IInv, ShowsRun
    PROVE  LET r == page[2] IN
           /\ AnswerOK(r, detailPage, DetailQuery.data)
           /\ DetailQuery.data.questions # <<>>
<1>1. At("detail") /\ DetailQuery.data # NoData /\ DetailQuery.data.questions # <<>>
  BY DEF ShowsRun, RunDetailView
<1> QED
  BY <1>1, DetailShown DEF IInv, CacheOK, QueryOK

\* The pager leads to a page the run has, or had.
LEMMA PagerOK ==
    ASSUME IInv, Previous \/ NextQuestions
    PROVE  /\ detailPage' \in {1} \cup 2 .. MaxRows
           /\ Reached(page[2], detailPage')
<1> DEFINE r == page[2]
           total == DetailQuery.data.total
<1>1. ShowsRun /\ At("detail")
  BY DEF Previous, NextQuestions, ShowsRun
<1>2. /\ r \in Runs /\ detailPage \in Places /\ detailPage \in {1} \cup 2 .. MaxRows
      /\ total \in 0 .. MaxRows /\ rows[r] \in 0 .. MaxRows
      /\ total <= rows[r] \/ Emptied(r)
      /\ ~(total <= Before(detailPage))
  BY <1>1, DetailShown, RunShown DEF AnswerOK, IInv, PageOK, ServerOK
<1>3. CASE NextQuestions
  <2>1. detailPage' = detailPage + 1 /\ detailPage * PageSize < total
    BY <1>3 DEF NextQuestions, HasNext, ToPage
  <2>2. /\ detailPage <= detailPage * PageSize /\ Before(detailPage + 1) = detailPage * PageSize
        /\ detailPage * PageSize \in Nat
    BY <1>2, BeforeNext
  <2> DEFINE m == detailPage * PageSize
  <2>3. detailPage \in Nat /\ detailPage >= 1 /\ m \in Nat /\ detailPage <= m /\ m < total
    BY <1>2, <2>1, <2>2 DEF Places
  <2> HIDE DEF m, total
  <2>4. detailPage + 1 \in 2 .. MaxRows /\ (m < rows[r] \/ Emptied(r))
    BY <1>2, <2>3
  <2> QED
    BY <2>1, <2>2, <2>4 DEF Reached, m
<1>4. CASE Previous
  <2>1. detailPage' = detailPage - 1 /\ detailPage > 1
    BY <1>4 DEF Previous, ToPage
  <2>2. detailPage - 1 \in Places /\ detailPage - 1 \in {1} \cup 2 .. MaxRows
        /\ (detailPage - 1) + 1 = detailPage
    BY <1>2, <2>1 DEF Places
  <2>3. Before(detailPage - 1) <= Before(detailPage) /\ Before(detailPage - 1) \in Nat
        /\ Before(detailPage) \in Nat
    BY <1>2, <2>2, BeforeNext, BeforeType
  <2> DEFINE before == Before(detailPage)
             less == Before(detailPage - 1)
  <2>4. less \in Nat /\ before \in Nat /\ less <= before /\ ~(total <= before)
    BY <1>2, <2>3
  <2> HIDE DEF before, less, total
  <2>5. less < rows[r] \/ Emptied(r)
    BY <1>2, <2>4
  <2> QED
    BY <2>1, <2>2, <2>5 DEF Reached, less
<1> QED
  BY <1>3, <1>4

LEMMA PagerSteps ==
    ASSUME IInv, ServerOK', Onward, Previous \/ NextQuestions
    PROVE  CacheOK' /\ PageOK'
<1>1. At("detail") /\ page[2] \in Runs
  <2>1. At("detail")
    BY DEF Previous, NextQuestions, ShowsRun
  <2> QED
    BY <2>1, DetailShown
<1>2. PICK r \in Runs : r = page[2]
  BY <1>1
<1>3. detailPage' \in {1} \cup 2 .. MaxRows /\ Reached(r, detailPage')
  BY <1>2, PagerOK
<1>4. PICK n \in Places : n = detailPage'
  BY <1>3 DEF Places
<1> DEFINE key == DetailKey(r, n)
<1>5. /\ page' = page /\ expanded' = expanded /\ jumped' = jumped
      /\ query' = MountedQueries(query, page, n)
  BY <1>4 DEF Previous, NextQuestions, ToPage
<1>6. UsedBy(page, n) = {key}
  BY <1>1, <1>2 DEF UsedBy, At
<1>7. DOMAIN query' = DOMAIN query \cup {key} /\ \A k \in DOMAIN query' : QueryOK(k, query'[k])
  <2>1. \A k \in DOMAIN query : QueryOK(k, query[k])
    BY DEF IInv, CacheOK
  <2> DEFINE new == MountedQueries(query, page, n)
  <2>2. DOMAIN new = DOMAIN query \cup UsedBy(page, n) /\ \A k \in DOMAIN new : QueryOK(k, new[k])
    BY <2>1, MountedOK
  <2>3. query' = new
    BY <1>5
  <2> HIDE DEF new, key
  <2> QED
    BY <1>6, <2>2, <2>3
<1>8. AskedOK(key)'
  <2>1. Reached(r, n)'
    BY <1>3, <1>4, ReachedOnward DEF IInv
  <2>2. ASSUME NEW s \in Runs, NEW m \in Places, key = DetailKey(s, m) PROVE s = r /\ m = n
    BY <2>2 DEF DetailKey
  <2> QED
    BY <2>1, <2>2 DEF AskedOK
<1>9. CacheOK'
  BY <1>5, <1>7, <1>8, CacheFrom DEF IInv, CacheOK
<1>10. PageOK'
  <2>1. UsedBy(page, detailPage)' = {key}
    BY <1>4, <1>5, <1>6 DEF UsedBy, DetailKey, CompareKey, ListKey, JobsKey
  <2> QED
    BY <1>3, <1>5, <1>7, <2>1 DEF PageOK, IInv
<1> QED
  BY <1>9, <1>10

LEMMA JumpStep ==
    ASSUME IInv, ServerOK', Onward, NEW r \in Runs, JumpTo(r)
    PROVE  CacheOK' /\ PageOK'
<1> PICK n : n = detailPage
  OBVIOUS
<1> DEFINE key == DetailKey(r, n)
<1>1. /\ page' = DetailPage(r) /\ detailPage' = n /\ expanded' = expanded
      /\ jumped' = jumped \cup {key}
      /\ query' = MountedQueries(query, DetailPage(r), n)
  BY DEF JumpTo
<1>2. UsedBy(DetailPage(r), n) = {key}
  BY DEF UsedBy, DetailPage
<1>3. DOMAIN query' = DOMAIN query \cup {key} /\ \A k \in DOMAIN query' : QueryOK(k, query'[k])
  <2>1. \A k \in DOMAIN query : QueryOK(k, query[k])
    BY DEF IInv, CacheOK
  <2> DEFINE new == MountedQueries(query, DetailPage(r), n)
  <2>2. DOMAIN new = DOMAIN query \cup UsedBy(DetailPage(r), n) /\ \A k \in DOMAIN new : QueryOK(k, new[k])
    BY <2>1, MountedOK
  <2>3. query' = new
    BY <1>1
  <2> HIDE DEF new, key
  <2> QED
    BY <1>2, <2>2, <2>3
<1>4. AskedOK(key)'
  BY <1>1 DEF AskedOK
<1>5. CacheOK'
  BY <1>1, <1>3, <1>4, CacheFrom DEF IInv, CacheOK
<1>6. PageOK'
  <2>1. UsedBy(page, detailPage)' = {key}
    BY <1>1, <1>2 DEF UsedBy, DetailKey, CompareKey, ListKey, JobsKey
  <2> QED
    BY <1>1, <1>3, <2>1 DEF PageOK, IInv, Shown
<1> QED
  BY <1>5, <1>6

\* A new application: nothing is in the cache but what the page asks for, unanswered.
LEMMA ReloadStep ==
    ASSUME IInv, ServerOK', Onward, Reload
    PROVE  CacheOK' /\ PageOK'
<1>1. /\ page' = page /\ page \in Shown /\ detailPage' = 1 /\ expanded' = {} /\ jumped' = {}
      /\ query' = MountedQueries(<<>>, page, 1)
  BY DEF Reload, Visit, IInv, PageOK
<1>2. DOMAIN query' = UsedBy(page, 1)
  BY <1>1 DEF MountedQueries
<1>3. ASSUME NEW k, k \in DOMAIN query', NEW q, q = query'[k] PROVE QueryOK(k, q)'
  <2>1. q = Mounted(NewQuery)
    BY <1>1, <1>2, <1>3 DEF MountedQueries, Cached
  <2>2. Kept(NewQuery, Mounted(NewQuery)) /\ NewQuery.data = NoData /\ NewQuery.wire = Idle
    BY QueriesKept DEF NewQuery, Fields
  <2>3. DOMAIN q = Fields /\ q.data = NoData /\ q.wire \in {Idle, Sent}
    BY <2>1, <2>2 DEF Kept
  <2> QED
    BY <2>3 DEF QueryOK
<1>4. CacheOK'
  BY <1>1, <1>2, <1>3, FirstAsked DEF CacheOK
<1>5. PageOK'
  BY <1>1, <1>2 DEF PageOK, UsedBy, DetailKey, CompareKey, ListKey, JobsKey
<1> QED
  BY <1>4, <1>5

LEMMA UserPages ==
    ASSUME IInv, ServerOK', Onward, User
    PROVE  CacheOK' /\ PageOK'
<1>1. \A k \in DOMAIN query : QueryOK(k, query[k])
  BY DEF IInv, CacheOK
<1>2. ASSUME NEW p \in Shown, Visit(p, query), jumped' = jumped PROVE CacheOK' /\ PageOK'
  BY <1>1, <1>2, PageMounted
<1>3. ASSUME NEW name \in {"dashboard", "list", "create"}, GoTo(name) PROVE CacheOK' /\ PageOK'
  BY <1>2, <1>3 DEF GoTo, Shown
<1>4. ASSUME NEW r \in Runs, OpenRun(r) PROVE CacheOK' /\ PageOK'
  BY <1>2, <1>4 DEF OpenRun, Shown
<1>5. ASSUME Compare PROVE CacheOK' /\ PageOK'
  <2>1. ComparePage(baseId, compareIds) \in Shown
    BY <1>5 DEF Compare, IInv, SelectionOK, compareIds, Shown
  <2> QED
    BY <1>2, <1>5, <2>1 DEF Compare
<1>6. ASSUME NEW i \in 1 .. PageSize, setExpanded(i) PROVE CacheOK' /\ PageOK'
  BY <1>6, PageRests DEF setExpanded
<1>7. ASSUME (\E r \in Runs : toggleSelect(r) \/ handleBaseChange(r) \/ PickDelete(r))
             \/ (\E confirmed \in BOOLEAN : CloseDialog(confirmed)) \/ SubmitEval
      PROVE  CacheOK' /\ PageOK'
  <2>1. UNCHANGED <<page, query, detailPage, jumped, expanded>>
    BY <1>7 DEF toggleSelect, handleBaseChange, PickDelete, OnTable, CloseDialog, SubmitEval, detailVars
  <2> QED
    BY <2>1, PageRests DEF IInv, PageOK
<1> QED
  BY <1>3, <1>4, <1>5, <1>6, <1>7, PagerSteps, JumpStep, ReloadStep DEF User

\* An answer is read for the page it is asked for.
LEMMA ReadOK ==
    ASSUME IInv, NEW k \in DOMAIN query
    PROVE  QueryOK(k, Answered(query[k], Answer(k)))
<1> DEFINE new == Answered(query[k], Answer(k))
<1>1. QueryOK(k, query[k]) /\ AskedOK(k)
  BY DEF IInv, CacheOK
<1>2. DOMAIN new = Fields /\ new.data = query[k].data /\ new.wire = Answer(k)
  BY <1>1 DEF QueryOK, Answered, Fields
<1>3. ASSUME NEW r \in Runs, NEW p \in Places, k = DetailKey(r, p), Answer(k) # Refused
      PROVE  AnswerOK(r, p, Answer(k))
  <2>1. Answer(k) = fetchRunDetail(r, p)
    BY <1>3 DEF Answer, DetailKey, ListKey, JobsKey
  <2>2. DetailKey(r, p) \in jumped \/ Reached(r, p)
    BY <1>1, <1>3 DEF AskedOK
  <2> QED
    BY <1>3, <2>1, <2>2, DetailAnswer DEF IInv
<1>4. ASSUME NEW b \in Runs, NEW targets \in SUBSET Runs, k = CompareKey(b, targets),
             Answer(k) # Refused
      PROVE  ComparisonOK(b, targets, Answer(k))
  <2>1. Answer(k) = compareRuns(b, targets)
    BY <1>4 DEF Answer, CompareKey, ListKey, JobsKey
  <2> QED
    BY <1>4, <2>1, ComparisonAnswer DEF IInv
<1> QED
  BY <1>1, <1>2, <1>3, <1>4 DEF QueryOK

LEMMA ArrivesOK ==
    ASSUME NEW k, NEW q, QueryOK(k, q), HasAnswer(q), q.wire # Refused
    PROVE  QueryOK(k, Succeeded(q))
<1>1. DOMAIN Succeeded(q) = Fields /\ Succeeded(q).data = q.wire /\ Succeeded(q).wire = Idle
  BY DEF QueryOK, Succeeded, Fields
<1> QED
  BY <1>1 DEF QueryOK, HasAnswer

LEMMA OtherPages ==
    ASSUME IInv, ServerOK', Onward, Client \/ Server
    PROVE  CacheOK' /\ PageOK'
<1>1. \A k \in DOMAIN query : Q(k) = query[k] /\ QueryOK(k, query[k]) /\ DOMAIN query[k] = Fields
  BY DEF Q, Cached, IInv, CacheOK, QueryOK
<1>2. ASSUME NEW k \in DOMAIN query, NEW new, Kept(query[k], new) PROVE QueryOK(k, new)
  BY <1>1, <1>2, KeptOK
<1>3. ASSUME NEW k \in DOMAIN query, NEW new, QueryOK(k, new), OnlyQuery(k, new)
      PROVE  CacheOK' /\ PageOK'
  BY <1>3, OneQuery DEF OnlyQuery, detailVars
<1>4. ASSUME NEW k \in DOMAIN query, Read(k) PROVE CacheOK' /\ PageOK'
  BY <1>1, <1>3, <1>4, ReadOK DEF Read
<1>5. ASSUME NEW k \in DOMAIN query, Arrives(k) PROVE CacheOK' /\ PageOK'
  <2>1. CASE query[k].wire = Refused
    BY <1>1, <1>2, <1>3, <1>5, <2>1, QueriesKept DEF Arrives
  <2>2. CASE query[k].wire # Refused
    <3>1. QueryOK(k, Succeeded(query[k]))
      BY <1>1, <1>5, <2>2, ArrivesOK DEF Arrives
    <3> QED
      BY <1>1, <1>3, <1>5, <2>2, <3>1 DEF Arrives
  <2> QED
    BY <2>1, <2>2
<1>6. ASSUME NEW k \in DOMAIN query, FetchFails(k) \/ GetsOld(k) PROVE CacheOK' /\ PageOK'
  BY <1>1, <1>2, <1>3, <1>6, QueriesKept DEF FetchFails, GetsOld
<1>7. ASSUME Poll PROVE CacheOK' /\ PageOK'
  <2>1. JobsKey \in DOMAIN query
    BY <1>7 DEF Poll, At, IInv, PageOK, UsedBy
  <2> QED
    BY <1>1, <1>2, <1>3, <1>7, <2>1, QueriesKept DEF Poll
<1>8. ASSUME NEW c \in calls, Settle(c) PROVE CacheOK' /\ PageOK'
  <2> DEFINE k == Invalidates(c.op)
             new == Invalidated(Q(k), Active(k))
             q == IF k \in DOMAIN query THEN Updated(query, k, new) ELSE query
  <2>1. jumped' = jumped
    BY <1>8 DEF Settle
  <2>2. k \in DOMAIN query => QueryOK(k, new)
    BY <1>1, <1>2, QueriesKept
  <2> HIDE DEF new, k
  <2>3. CASE c.here
    <3>1. Visit(<<"list">>, q)
      BY <1>8, <2>3 DEF Settle, k, new
    <3>2. \A x \in DOMAIN q : QueryOK(x, q[x]) /\ x \in DOMAIN query
      <4>1. CASE k \in DOMAIN query
        <5>1. q = Updated(query, k, new) /\ DOMAIN query \cup {k} = DOMAIN query
          BY <4>1
        <5>2. \A x \in DOMAIN query : QueryOK(x, query[x])
          BY <1>1
        <5> QED
          BY <2>2, <4>1, <5>1, <5>2, UpdatedOK
      <4>2. CASE k \notin DOMAIN query
        BY <1>1, <4>2
      <4> QED
        BY <4>1, <4>2
    <3>3. <<"list">> \in Shown
      BY DEF Shown
    <3> HIDE DEF q
    <3> QED
      BY <2>1, <3>1, <3>2, <3>3, PageMounted
  <2>4. CASE ~c.here
    <3>1. query' = q /\ UNCHANGED <<page, detailPage, expanded>>
      BY <1>8, <2>4 DEF Settle, k, new
    <3>2. CASE k \in DOMAIN query
      BY <2>1, <2>2, <3>1, <3>2, OneQuery
    <3>3. CASE k \notin DOMAIN query
      BY <2>1, <3>1, <3>3, PageRests DEF IInv, PageOK
    <3> QED
      BY <3>2, <3>3
  <2> QED
    BY <2>3, <2>4
<1>9. ASSUME RunEval \/ \E c \in calls : CarryOut(c) \/ LoseCall(c) PROVE CacheOK' /\ PageOK'
  <2>1. UNCHANGED <<page, query, detailPage, jumped, expanded>>
    BY <1>9 DEF RunEval, CleanUp, CreateRun, StoreRows, EndEval, EvalStep, CarryOut, LoseCall, detailVars
  <2> QED
    BY <2>1, PageRests DEF IInv, PageOK
<1> QED
  BY <1>4, <1>5, <1>6, <1>7, <1>8, <1>9 DEF Client, Server

-----------------------------------------------------------------------------
(* The invariant.                                                          *)

LEMMA InitInv == Init => IInv
<1> SUFFICES ASSUME Init PROVE IInv
  OBVIOUS
<1>1. ServerOK
  <2>1. /\ scene \in Scenes /\ created = scene.runs /\ gone = {}
        /\ created \in Nat /\ created <= MaxRuns
    BY DEF Init
  <2>2. PICK bare \in SUBSET {1} :
          rows = [r \in Runs |-> IF r <= created /\ r \notin bare THEN MaxRows ELSE 0]
    BY DEF Init
  <2>3. rows \in [Runs -> 0 .. MaxRows]
    <3>1. 0 \in 0 .. MaxRows /\ MaxRows \in 0 .. MaxRows
      OBVIOUS
    <3> QED
      BY <2>2, <3>1
  <2>4. measured \subseteq 1 .. created
    <3>1. ASSUME NEW r \in measured PROVE r \in 1 .. created
      <4>1. r \in Runs /\ rows[r] > 0
        BY <3>1 DEF Init
      <4>2. r <= created
        BY <2>2, <4>1
      <4> QED
        BY <2>1, <4>1, <4>2 DEF Runs
    <3> QED
      BY <3>1
  <2>5. /\ job \in [state : JobStates, run : Runs \cup {NoRun}]
        /\ job.state \in {"none", "available"}
    BY DEF Init, JobStates
  <2>6. created \in 0 .. MaxRuns /\ gone \subseteq 1 .. created
    BY <2>1
  <2>7. job.state \notin {"running", "retrying"}
    BY <2>5
  <2> QED
    BY <2>1, <2>3, <2>4, <2>5, <2>6, <2>7, Zenon DEF ServerOK
<1>2. SelectionOK
  <2>1. Cardinality({} \ {}) = 0
    BY FS_EmptySet
  <2> QED
    BY <2>1 DEF SelectionOK, Init
<1>3. CallsOK
  BY DEF CallsOK, Init
<1>4. /\ page = <<"list">> /\ detailPage = 1 /\ expanded = {}
      /\ query = MountedQueries(<<>>, page, 1)
  BY DEF Init
<1>5. page \in Shown
  BY <1>4 DEF Shown
<1>6. DOMAIN query = UsedBy(page, 1)
  BY <1>4 DEF MountedQueries
<1>7. ASSUME NEW k \in DOMAIN query PROVE QueryOK(k, query[k])
  <2>1. query[k] = Mounted(NewQuery)
    BY <1>4, <1>6 DEF MountedQueries, Cached
  <2>2. Kept(NewQuery, Mounted(NewQuery)) /\ NewQuery.data = NoData /\ NewQuery.wire = Idle
    BY QueriesKept DEF NewQuery, Fields
  <2>3. DOMAIN query[k] = Fields /\ query[k].data = NoData /\ query[k].wire \in {Idle, Sent}
    BY <2>1, <2>2 DEF Kept
  <2> QED
    BY <2>3 DEF QueryOK
<1>8. CacheOK
  BY <1>5, <1>6, <1>7, FirstAsked DEF CacheOK
<1>9. PageOK
  BY <1>4, <1>5, <1>6 DEF PageOK
<1> QED
  BY <1>1, <1>2, <1>3, <1>8, <1>9 DEF IInv

LEMMA NextInv == IInv /\ [Next]_vars => IInv'
<1> SUFFICES ASSUME IInv, [Next]_vars PROVE IInv'
  OBVIOUS
<1>1. ServerOK' /\ Onward
  BY ServerSteps DEF IInv
<1>2. SelectionOK'
  BY SelectionSteps DEF IInv
<1>3. CallsOK'
  BY CallSteps DEF IInv
<1>4. CacheOK' /\ PageOK'
  <2>1. CASE UNCHANGED vars
    <3>1. UNCHANGED <<page, query, detailPage, jumped, expanded>>
      BY <2>1 DEF vars, detailVars
    <3> QED
      BY <1>1, <3>1, PageRests DEF IInv, PageOK
  <2>2. CASE Next
    BY <1>1, <2>2, UserPages, OtherPages DEF Next
  <2> QED
    BY <2>1, <2>2
<1> QED
  BY <1>1, <1>2, <1>3, <1>4 DEF IInv

(* IInv holds in every state the evaluation pages and the API can reach.   *)
THEOREM Invariance == Spec => []IInv
<1>1. Init => IInv
  BY InitInv
<1>2. IInv /\ [Next]_vars => IInv'
  BY NextInv
<1> QED
  BY <1>1, <1>2, PTL DEF Spec

-----------------------------------------------------------------------------
(* Every variable has its type, a base is selected, and no query ever      *)
(* keeps a refusal of the API as its data.                                 *)
THEOREM TypeCorrect == Spec => []TypeOK
<1>1. IInv => TypeOK
  <2> SUFFICES ASSUME IInv PROVE TypeOK
    OBVIOUS
  <2>1. job.state \in JobStates /\ job.run \in Runs \cup {NoRun}
    BY DEF IInv, ServerOK
  <2>2. \A c \in calls : /\ c.op \in {"create", "delete"} /\ c.phase \in {"sent", "done"}
                         /\ c.run \in Runs \cup {NoRun} /\ c.here \in BOOLEAN
    BY DEF IInv, CallsOK, Call
  <2>3. \A k \in DOMAIN query : query[k].data # Refused
    BY DEF IInv, CacheOK, QueryOK
  <2> QED
    BY <2>1, <2>2, <2>3 DEF IInv, ServerOK, SelectionOK, PageOK, TypeOK
<1> QED
  BY <1>1, Invariance, PTL

(* A comparison is larger than the API allows only if a run that was the   *)
(* base before, and is no longer, is among its targets: toggleSelect       *)
(* counts before it adds, handleBaseChange (RunList.tsx) does not.         *)
THEOREM OverLimitByFormerBase == Spec => []OverLimitOnlyByFormerBase
<1>1. IInv => OverLimitOnlyByFormerBase
  <2> SUFFICES ASSUME IInv, baseAdded \ {baseId} = {}
               PROVE  ~(Cardinality(compareIds) > MaxCompare)
    BY DEF OverLimitOnlyByFormerBase
  <2>1. /\ compareIds \subseteq selectedIds \ baseAdded
        /\ compareIds \in SUBSET Runs /\ selectedIds \ baseAdded \in SUBSET Runs
        /\ Cardinality(selectedIds \ baseAdded) <= MaxCompare
    BY DEF compareIds, IInv, SelectionOK
  <2>2. Cardinality(compareIds) <= Cardinality(selectedIds \ baseAdded)
    BY <2>1, RunsFinite, FS_Subset
  <2>3. Cardinality(compareIds) \in Nat /\ Cardinality(selectedIds \ baseAdded) \in Nat
    BY <2>1, RunsFinite
  <2> QED
    BY <2>1, <2>2, <2>3
<1> QED
  BY <1>1, Invariance, PTL

(* The pager of RunDetail never leads to a page that throws but of a run   *)
(* without results, or one a jump between two runs has asked for: however  *)
(* the run grows, is emptied by a retry or deleted while pages of it are   *)
(* in the cache, under way or shown.                                       *)
THEOREM PagerIsSafe == Spec => []PagingNeverCrashes
<1>1. IInv => PagingNeverCrashes
  <2> SUFFICES ASSUME IInv, Crashed
               PROVE  DetailQuery.data.total = 0 \/ DetailKey(page[2], detailPage) \in jumped
    BY DEF PagingNeverCrashes
  <2>1. page \in Shown
    BY DEF IInv, PageOK
  <2>2. At("detail") /\ RunDetailView = "throws"
    <3>1. /\ At("dashboard") \/ At("list") \/ At("create") \/ At("detail") \/ At("compare")
      BY <2>1 DEF Shown, At, DetailPage, ComparePage
    <3>2. View = "throws"
      BY DEF Crashed
    <3>3. /\ DashboardView # "throws" /\ RunListView # "throws" /\ RunCompareView # "throws"
      BY DEF DashboardView, RunListView, RunCompareView
    <3>4. CASE At("detail")
      BY <3>2, <3>4 DEF View, At
    <3>5. CASE ~At("detail")
      BY <3>1, <3>2, <3>3, <3>5 DEF View, At
    <3> QED
      BY <3>4, <3>5
  <2>3. DetailQuery.data # NoData /\ DetailQuery.data.questions = <<>>
    BY <2>2 DEF RunDetailView
  <2>4. page[2] \in Runs /\ detailPage \in Places /\ AnswerOK(page[2], detailPage, DetailQuery.data)
    BY <2>2, <2>3, DetailShown DEF IInv, CacheOK, QueryOK
  <2>5. Before(detailPage) \in Nat /\ DetailQuery.data.total \in Nat
    BY <2>4, BeforeType DEF AnswerOK
  <2> QED
    BY <2>3, <2>4, <2>5 DEF AnswerOK
<1> QED
  BY <1>1, Invariance, PTL

(* Whatever page of whatever run RunDetail shows, and however old it is,   *)
(* the latency and score distributions count each of its questions once,   *)
(* and so do the categories, if there is room for all of them; no category *)
(* left out has more questions than one that is shown, no chart says "No   *)
(* data", and no row has a number beyond the total of the pager.           *)
THEOREM EveryQuestionCounted == Spec => []EveryQuestionIsCounted
<1>1. IInv => EveryQuestionIsCounted
  <2> DEFINE qs == DetailQuery.data.questions
             categories == buildCategoryBreakdown(qs)
             counts == [cat \in DOMAIN categories |-> categories[cat].count]
  <2> SUFFICES ASSUME IInv, At("detail"), View = "run"
               PROVE  /\ Total(buildLatencyDist(qs)) = Len(qs)
                      /\ Total(buildScoreDist(qs)) = Len(qs)
                      /\ Cardinality(Categories(qs)) <= MaxCategories => Total(counts) = Len(qs)
                      /\ \A left \in Categories(qs) \ DOMAIN categories, shown \in DOMAIN categories :
                            Cardinality(InCategory(qs, left)) <= categories[shown].count
                      /\ \A chart \in Range(Charts(qs)) : chart = "bars"
                      /\ \A row \in Range(QuestionRows(qs, detailPage, PageSize, expanded)) :
                            row.number <= DetailQuery.data.total
    BY DEF EveryQuestionIsCounted
  <2>1. RunDetailView = "run"
    BY DEF View, At
  <2>2. AnswerOK(page[2], detailPage, DetailQuery.data) /\ qs # <<>> /\ detailPage \in Places
    BY <2>1, DetailShown, RunShown DEF ShowsRun
  <2>3. qs \in Seq(Range(Questions)) /\ Before(detailPage) + Len(qs) <= DetailQuery.data.total
    BY <2>2 DEF AnswerOK
  <2>4. Len(qs) \in Nat /\ Len(qs) # 0 /\ DOMAIN qs = 1 .. Len(qs)
    <3> HIDE DEF qs
    <3> QED
      BY <2>2, <2>3, EmptySeq
  <2>5. /\ Total(buildLatencyDist(qs)) = Len(qs)
        /\ Total(buildScoreDist(qs)) = Len(qs)
        /\ Cardinality(Categories(qs)) <= MaxCategories => Total(counts) = Len(qs)
    BY <2>3, DistributionsComplete, LargestShown
  <2>8. \A left \in Categories(qs) \ DOMAIN categories, shown \in DOMAIN categories :
            Cardinality(InCategory(qs, left)) <= categories[shown].count
    <3>1. \A shown \in DOMAIN categories : categories[shown].count = Cardinality(InCategory(qs, shown))
      BY DEF buildCategoryBreakdown
    <3> QED
      BY <2>3, <3>1, LargestShown
  <2>6. \A chart \in Range(Charts(qs)) : chart = "bars"
    <3>1. DOMAIN categories # {}
      <4>1. 1 \in DOMAIN qs
        BY <2>4
      <4>2. Categories(qs) # {}
        BY <4>1 DEF Categories
      <4> HIDE DEF qs
      <4> QED
        BY <2>3, <4>2, LargestShown
    <3>2. Charts(qs) = [score |-> "bars", latency |-> "bars", category |-> "bars"]
      BY <2>4, <2>5, <3>1 DEF Charts
    <3> QED
      BY <3>2 DEF Range
  <2>7. ASSUME NEW row \in Range(QuestionRows(qs, detailPage, PageSize, expanded))
        PROVE  row.number <= DetailQuery.data.total
    <3>1. PICK i \in DOMAIN qs : row = QuestionRows(qs, detailPage, PageSize, expanded)[i]
      BY DEF QuestionRows, Range
    <3>2. row.number = Before(detailPage) + i
      BY <3>1 DEF QuestionRows, Before
    <3>3. Before(detailPage) \in Nat /\ i \in Nat /\ i <= Len(qs) /\ DetailQuery.data.total \in Int
      BY <2>2, <2>4, BeforeType DEF AnswerOK
    <3> HIDE DEF qs
    <3> QED
      BY <2>3, <2>4, <3>2, <3>3
  <2> QED
    BY <2>5, <2>6, <2>7, <2>8
<1> QED
  BY <1>1, Invariance, PTL

(* Whatever is filled in on EvalCreate, and whatever K values are left,    *)
(* what validateCreateEval refuses of a request the browser and            *)
(* handleSubmit let pass is one of the two selects nothing requires.       *)
THEOREM OnlyTheSelectsAreRefused == Spec => []RefusedOnlyForTheSelects
<1>1. IInv => RefusedOnlyForTheSelects
  BY DEF IInv, CallsOK, Call, Refusals, RefusedOnlyForTheSelects
<1> QED
  BY <1>1, Invariance, PTL

(* For any two values of a metric the text, the bar and the arrow of their *)
(* difference on RunCompare agree.                                         *)
THEOREM SignsNeverDisagree ==
    \A base, comp \in Int, better \in BOOLEAN : SignsAgree(base, comp, better)
<1> SUFFICES ASSUME NEW base \in Int, NEW comp \in Int, NEW better \in BOOLEAN
             PROVE  SignsAgree(base, comp, better)
  OBVIOUS
<1> DEFINE more == comp > base
           less == comp < base
           close == Close(base, comp)
<1>1. comp >= base <=> ~less
  OBVIOUS
<1>2. comp = base => close
  BY DEF Close
<1>3. ~(more /\ less) /\ (comp = base <=> ~more /\ ~less)
  OBVIOUS
<1>4. /\ more \in BOOLEAN /\ less \in BOOLEAN /\ close \in BOOLEAN
  BY DEF Close
<1>5. /\ deltaColor(base, comp, better) = "muted" <=> close
      /\ formatDelta(base, comp) = "0" <=> close
  BY DEF deltaColor, formatDelta
<1>6. deltaBar(base, comp, better).side = "left" <=> more
  BY <1>3 DEF deltaBar
<1>7. CASE better = TRUE
  <2>1. deltaColor(base, comp, better) = "success" => more
    BY <1>7 DEF deltaColor
  <2>2. deltaColor(base, comp, better) = "destructive" => less
    BY <1>2, <1>3, <1>7 DEF deltaColor
  <2>3. more => /\ deltaBar(base, comp, better).color = "success"
                /\ deltaArrow(base, comp, better) = "up"
    BY <1>3, <1>7 DEF deltaBar, deltaArrow
  <2>4. less => /\ deltaBar(base, comp, better).color = "destructive"
                /\ deltaArrow(base, comp, better) = "down"
    BY <1>3, <1>7 DEF deltaBar, deltaArrow
  <2> QED
    BY <1>5, <1>6, <2>1, <2>2, <2>3, <2>4 DEF SignsAgree
<1>8. CASE better = FALSE
  <2>1. deltaColor(base, comp, better) = "success" => less
    BY <1>2, <1>3, <1>8 DEF deltaColor
  <2>2. deltaColor(base, comp, better) = "destructive" => more
    BY <1>8 DEF deltaColor
  <2>3. less => /\ deltaBar(base, comp, better).color = "success"
                /\ deltaArrow(base, comp, better) = "up"
    BY <1>3, <1>8 DEF deltaBar, deltaArrow
  <2>4. more => /\ deltaBar(base, comp, better).color = "destructive"
                /\ deltaArrow(base, comp, better) = "down"
    BY <1>3, <1>8 DEF deltaBar, deltaArrow
  <2> QED
    BY <1>5, <1>6, <2>1, <2>2, <2>3, <2>4 DEF SignsAgree
<1> QED
  BY <1>7, <1>8

LEMMA CompareShown ==
    ASSUME IInv, At("compare"), View = "comparison"
    PROVE  /\ page[2] \in Runs /\ page[3] \in SUBSET Runs
           /\ ComparisonOK(page[2], page[3], CompareQuery.data)
<1>1. page \in Shown /\ UsedBy(page, detailPage) \subseteq DOMAIN query
  BY DEF IInv, PageOK
<1>2. page[2] \in Runs /\ page[3] \in SUBSET Runs
  BY <1>1 DEF At, Shown, DetailPage, ComparePage
<1>3. CompareKey(page[2], page[3]) \in DOMAIN query
  BY <1>1 DEF At, UsedBy
<1>4. CompareQuery = query[CompareKey(page[2], page[3])]
  BY <1>3 DEF CompareQuery, Q, Cached
<1>5. CompareQuery.data # NoData
  BY DEF View, At, RunCompareView
<1> QED
  BY <1>2, <1>3, <1>4, <1>5 DEF IInv, CacheOK, QueryOK

(* Whatever runs are compared, whatever they measure and whatever their    *)
(* tags are: text, bar and arrow of every difference agree, a metric the   *)
(* target lacks is never a success where more is better, and a line of the *)
(* radar is its own run's unless another target has the same label.        *)
THEOREM ComparisonCoherent == Spec => []ComparisonIsCoherent
<1>1. IInv => ComparisonIsCoherent
  <2> DEFINE metrics == CompareQuery.data
             base    == page[2]
             targets == SetToSeq(page[3])
             radar   == buildRadarData(metrics, TagOf, base, targets)
  <2> SUFFICES ASSUME IInv, At("compare"), View = "comparison", NEW t \in page[3]
               PROVE  /\ \A row \in comparisonRows :
                          LET b == getMetric(metrics[base], row.key)
                              v == getMetric(metrics[t], row.key)
                          IN  /\ SignsAgree(b, v, row.higherIsBetter)
                              /\ row.key \notin DOMAIN metrics[t]
                                    /\ deltaColor(b, v, row.higherIsBetter) = "success"
                                    => ~row.higherIsBetter
                      /\ \A m \in RADAR_METRICS :
                          \/ RadarLine(radar, TagOf[t])[m] = getMetric(metrics[t], m)
                          \/ \E u \in page[3] \ {t} : TagOf[u] = TagOf[t]
    BY DEF ComparisonIsCoherent
  <2>1. base \in Runs /\ page[3] \in SUBSET Runs /\ ComparisonOK(base, page[3], metrics)
    BY CompareShown
  <2>2. ASSUME NEW row \in comparisonRows
        PROVE  LET b == getMetric(metrics[base], row.key)
                   v == getMetric(metrics[t], row.key)
               IN  /\ SignsAgree(b, v, row.higherIsBetter)
                   /\ row.key \notin DOMAIN metrics[t]
                         /\ deltaColor(b, v, row.higherIsBetter) = "success"
                         => ~row.higherIsBetter
    <3> DEFINE b == getMetric(metrics[base], row.key)
               v == getMetric(metrics[t], row.key)
               better == row.higherIsBetter
    <3>1. b \in Nat /\ v \in Nat
      BY <2>1 DEF ComparisonOK, getMetric
    <3>2. better \in BOOLEAN
      <4>1. \E k : row = ComparisonRow(k, TRUE) \/ row = ComparisonRow(k, FALSE)
        BY DEF comparisonRows
      <4>2. better = TRUE \/ better = FALSE
        BY <4>1 DEF ComparisonRow
      <4> QED
        BY <4>2
    <3>3. SignsAgree(b, v, better)
      <4> HIDE DEF b, v, better
      <4> QED
        BY <3>1, <3>2, SignsNeverDisagree
    <3>4. row.key \notin DOMAIN metrics[t] => v = 0
      BY DEF getMetric
    <3>5. ASSUME v = 0, deltaColor(b, v, better) = "success" PROVE ~better
      <4> HIDE DEF b, v, better
      <4>1. ~(v > b)
        BY <3>1, <3>5
      <4>2. (v > b) = better
        BY <3>5 DEF deltaColor
      <4> QED
        BY <4>1, <4>2
    <3> HIDE DEF b, v, better
    <3>6. row.key \notin DOMAIN metrics[t] /\ deltaColor(b, v, better) = "success" => ~better
      BY <3>4, <3>5
    <3> QED
      BY <3>3, <3>6 DEF b, v, better
  <2>3. ASSUME NEW m \in RADAR_METRICS
        PROVE  \/ RadarLine(radar, TagOf[t])[m] = getMetric(metrics[t], m)
               \/ \E u \in page[3] \ {t} : TagOf[u] = TagOf[t]
    <3> DEFINE n == Cardinality(page[3])
    <3>1. /\ n \in Nat /\ targets \in [1 .. n -> page[3]]
          /\ \A x \in page[3] : \E i \in 1 .. n : targets[i] = x
      BY <2>1, RunsFinite, SetToSeqLists
    <3>2. PICK i \in 1 .. n : targets[i] = t
      BY <3>1
    <3> HIDE DEF targets, n
    <3>3. PICK j \in 1 .. n : /\ TagOf[targets[j]] = TagOf[t]
                              /\ RadarLine(radar, TagOf[t])[m] = getMetric(metrics[targets[j]], m)
      <4>1. DOMAIN targets = 1 .. n
        BY <3>1
      <4> HIDE DEF metrics, base
      <4>2. n \in Nat
        BY <3>1
      <4>3. DrawsALabelled(metrics, TagOf, base, targets, i, m)
        BY <4>1, <4>2, RadarShowsALabelled
      <4> QED
        BY <3>2, <4>1, <4>3 DEF DrawsALabelled
    <3>4. targets[j] \in page[3]
      BY <3>1
    <3> QED
      BY <3>3, <3>4
  <2> QED
    BY <2>2, <2>3
<1> QED
  BY <1>1, Invariance, PTL

=============================================================================
