------------------------- MODULE WorkSessionProofs -------------------------
(***************************************************************************)
(* What the integer in a column of seconds tells of the activities counted *)
(* in it: with activities added it is the old integer and their seconds.   *)
(* The comparison of save() therefore misses an addition exactly when the  *)
(* durations cancel each other.                                            *)
(*                                                                         *)
(* Total is a fold.  The induction over the sets it walks through is       *)
(* carried out on a smallest set or number at which the claim fails.       *)
(***************************************************************************)
EXTENDS WorkSession, FiniteSetTheorems, WellFoundedInduction, TLAPS

\* The element with which a fold begins.
Some(S) == CHOOSE x \in S : TRUE

\* h[S] is the sum of f over S, for the subsets S of D.
Sums(f, D, h) == h = [S \in SUBSET D |->
                         IF S = {} THEN 0 ELSE f[Some(S)] + h[S \ {Some(S)}]]

\* The fold is defined by recursion.
LEMMA SumFold ==
    ASSUME NEW D, NEW f \in [D -> Int]
    PROVE  SumFunction(f) = (CHOOSE h : Sums(f, D, h))[D]
BY DEF SumFunction, SumFunctionOnSet, FoldFunctionOnSet, MapThenFoldSet, Sums, Some

Below == {p \in Nat \X Nat : p[1] < p[2]}

\* Every non-empty set of numbers has a least one.
LEMMA LeastNumber ==
    ASSUME NEW N \in SUBSET Nat, N # {}
    PROVE  \E n \in N : \A m \in N : n <= m
<1>1. IsWellFoundedOn(Below, Nat)
  BY NatLessThanWellFounded DEF OpToRel, Below
<1>2. PICK n \in N : \A m \in N : ~(<<m, n>> \in Below)
  BY <1>1, WFMin
<1>3. ASSUME NEW m \in N PROVE n <= m
  <2>1. m \in Nat /\ n \in Nat
    OBVIOUS
  <2>2. m < n => <<m, n>> \in Below
    BY <2>1 DEF Below
  <2> QED
    BY <1>2, <2>1, <2>2
<1> QED
  BY <1>3

\* What the recursion says of one set.
Sum(f, h, S) == IF S = {} THEN 0 ELSE f[Some(S)] + h[S \ {Some(S)}]

\* The subsets of D with at most n elements.
UpTo(D, n) == {S \in SUBSET D : Cardinality(S) <= n}

\* Taking an element away.
LEMMA Smaller ==
    ASSUME NEW D, IsFiniteSet(D), NEW S \in SUBSET D, S # {}
    PROVE  /\ Some(S) \in S
           /\ S \ {Some(S)} \in SUBSET D
           /\ Cardinality(S) \in Nat
           /\ Cardinality(S) # 0
           /\ Cardinality(S \ {Some(S)}) = Cardinality(S) - 1
<1>1. IsFiniteSet(S)
  BY FS_Subset
<1>2. Some(S) \in S
  BY DEF Some
<1> QED
  BY <1>1, <1>2, FS_RemoveElement, FS_EmptySet, FS_CardinalityType

\* The recursion has a solution on the sets with at most n elements.
LEMMA SumsUpTo ==
    ASSUME NEW D, IsFiniteSet(D), NEW f \in [D -> Int], NEW n \in Nat
    PROVE  \E h : h = [S \in UpTo(D, n) |-> Sum(f, h, S)]
<1> DEFINE Bad == {k \in Nat : ~ \E h : h = [S \in UpTo(D, k) |-> Sum(f, h, S)]}
<1>1. SUFFICES ASSUME Bad # {} PROVE FALSE
  OBVIOUS
<1>2. PICK k \in Bad : \A m \in Bad : k <= m
  BY <1>1, LeastNumber
<1>3. CASE k = 0
  <2>1. \A S \in UpTo(D, 0) : S = {}
    <3> SUFFICES ASSUME NEW S \in UpTo(D, 0), S # {} PROVE FALSE
      OBVIOUS
    <3>1. S \in SUBSET D /\ Cardinality(S) <= 0
      BY DEF UpTo
    <3>2. Cardinality(S) \in Nat /\ Cardinality(S) # 0
      BY <3>1, Smaller
    <3> QED
      BY <3>1, <3>2
  <2> DEFINE h == [S \in UpTo(D, 0) |-> 0]
  <2>2. h = [S \in UpTo(D, 0) |-> Sum(f, h, S)]
    BY <2>1 DEF Sum
  <2> QED
    BY <1>3, <2>2
<1>4. CASE k # 0
  <2>1. k - 1 \in Nat /\ k - 1 \notin Bad
    BY <1>2, <1>4
  <2>2. PICK h : h = [S \in UpTo(D, k - 1) |-> Sum(f, h, S)]
    BY <2>1
  <2> DEFINE g == [S \in UpTo(D, k) |-> Sum(f, h, S)]
  <2>3. \A S \in UpTo(D, k - 1) : S \in UpTo(D, k) /\ g[S] = h[S]
    <3>1. ASSUME NEW S \in UpTo(D, k - 1) PROVE S \in UpTo(D, k)
      BY FS_Subset, FS_CardinalityType DEF UpTo
    <3>2. \A S \in UpTo(D, k - 1) : h[S] = Sum(f, h, S)
      BY <2>2
    <3> QED
      BY <3>1, <3>2
  <2>4. \A S \in UpTo(D, k) : Sum(f, h, S) = Sum(f, g, S)
    <3> SUFFICES ASSUME NEW S \in UpTo(D, k), S # {}
                 PROVE  h[S \ {Some(S)}] = g[S \ {Some(S)}]
      BY DEF Sum
    <3>1. S \ {Some(S)} \in UpTo(D, k - 1)
      BY Smaller DEF UpTo
    <3> QED
      BY <2>3, <3>1
  <2>5. g = [S \in UpTo(D, k) |-> Sum(f, g, S)]
    BY <2>4
  <2> QED
    BY <2>5
<1> QED
  BY <1>3, <1>4

\* The recursion has a solution.
LEMMA SumsExist ==
    ASSUME NEW D, IsFiniteSet(D), NEW f \in [D -> Int]
    PROVE  \E h : Sums(f, D, h)
<1>1. Cardinality(D) \in Nat
  BY FS_CardinalityType
<1>2. UpTo(D, Cardinality(D)) = SUBSET D
  BY FS_Subset DEF UpTo
<1>3. PICK h : h = [S \in UpTo(D, Cardinality(D)) |-> Sum(f, h, S)]
  BY <1>1, SumsUpTo
<1>4. h = [S \in SUBSET D |-> Sum(f, h, S)]
  BY <1>2, <1>3
<1> QED
  BY <1>4 DEF Sums, Sum

(***************************************************************************)
(* The sum of a sum.                                                       *)
(***************************************************************************)
LEMMA SumOfSums ==
    ASSUME NEW D, IsFiniteSet(D),
           NEW f \in [D -> Int], NEW g \in [D -> Int], NEW e \in [D -> Int],
           \A x \in D : e[x] = f[x] + g[x]
    PROVE  /\ SumFunction(f) \in Int
           /\ SumFunction(g) \in Int
           /\ SumFunction(e) = SumFunction(f) + SumFunction(g)
<1> DEFINE h == CHOOSE h : Sums(f, D, h)
           k == CHOOSE k : Sums(g, D, k)
           l == CHOOSE l : Sums(e, D, l)
<1>1. Sums(f, D, h) /\ Sums(g, D, k) /\ Sums(e, D, l)
  BY SumsExist
<1> HIDE DEF h, k, l
<1>2. /\ \A S \in SUBSET D : h[S] = Sum(f, h, S)
      /\ \A S \in SUBSET D : k[S] = Sum(g, k, S)
      /\ \A S \in SUBSET D : l[S] = Sum(e, l, S)
  BY <1>1 DEF Sums, Sum
<1> DEFINE Good(S) == h[S] \in Int /\ k[S] \in Int /\ l[S] = h[S] + k[S]
           Bad == {S \in SUBSET D : ~Good(S)}
<1>3. Bad = {}
  <2> SUFFICES ASSUME Bad # {} PROVE FALSE
    OBVIOUS
  <2>1. Bad \subseteq FiniteSubsetsOf(D)
    BY FS_Subset DEF FiniteSubsetsOf
  <2>2. PICK S \in Bad : \A T \in Bad : ~(<<T, S>> \in StrictSubsetOrdering(D))
    <3> HIDE DEF Bad
    <3> QED
      BY <2>1, FS_StrictSubsetOrderingWellFounded, WFMin
  <2>3. CASE S = {}
    <3>1. h[S] = 0 /\ k[S] = 0 /\ l[S] = 0
      BY <1>2, <2>2, <2>3 DEF Sum
    <3>2. Good(S)
      BY <3>1
    <3> QED
      BY <2>2, <3>2
  <2>4. CASE S # {}
    <3> DEFINE x == Some(S)
               T == S \ {x}
    <3>1. x \in S /\ x \in D /\ T \in SUBSET D
      BY <2>2, <2>4, Smaller
    <3>2. Good(T)
      <4>1. <<T, S>> \in StrictSubsetOrdering(D)
        BY <2>2, <3>1 DEF StrictSubsetOrdering
      <4>2. T \notin Bad
        BY <2>2, <4>1
      <4> QED
        BY <3>1, <4>2
    <3>3. h[S] = f[x] + h[T] /\ k[S] = g[x] + k[T] /\ l[S] = e[x] + l[T]
      BY <1>2, <2>2, <2>4 DEF Sum
    <3>4. f[x] \in Int /\ g[x] \in Int /\ e[x] = f[x] + g[x]
      BY <3>1
    <3> HIDE DEF x, T
    <3>5. Good(S)
      BY <3>2, <3>3, <3>4
    <3> QED
      BY <2>2, <3>5
  <2> QED
    BY <2>3, <2>4
<1>4. SumFunction(f) = h[D] /\ SumFunction(g) = k[D] /\ SumFunction(e) = l[D]
  BY SumFold DEF h, k, l
<1> QED
  BY <1>3, <1>4

-----------------------------------------------------------------------------
LEMMA FiniteActivities == IsFiniteSet(ActivityIds)
<1>1. IsFiniteSet(1..MaxBatch)
  BY ConstantsAssumption, FS_Interval
<1> QED
  BY <1>1, ConstantsAssumption, FS_Product DEF ActivityIds

(***************************************************************************)
(* Adding activities to a column adds their seconds to its integer.        *)
(***************************************************************************)
LEMMA TotalPlus ==
    ASSUME NEW t \in Tally, NEW A
    PROVE  /\ Total(t) \in Int
           /\ Amount(A) \in Int
           /\ Total(Plus(t, A)) = Total(t) + Amount(A)
<1> DEFINE f == [a \in ActivityIds |-> t[a] * Secs[a]]
           g == [a \in ActivityIds |-> Plus(EmptyTally, A)[a] * Secs[a]]
           e == [a \in ActivityIds |-> Plus(t, A)[a] * Secs[a]]
<1>1. \A a \in ActivityIds :
         /\ Secs[a] \in Int
         /\ t[a] \in Int
         /\ Plus(t, A)[a] = IF a \in A THEN t[a] + 1 ELSE t[a]
         /\ Plus(EmptyTally, A)[a] = IF a \in A THEN 1 ELSE 0
  BY ConstantsAssumption DEF Tally, Plus, EmptyTally
<1>2. \A m, s \in Int : /\ m * s \in Int
                        /\ (m + 1) * s = m * s + s
                        /\ 1 * s = s
                        /\ 0 * s = 0
  OBVIOUS
<1>3. \A a \in ActivityIds :
         /\ f[a] \in Int
         /\ g[a] = IF a \in A THEN Secs[a] ELSE 0
         /\ e[a] = IF a \in A THEN f[a] + Secs[a] ELSE f[a]
  BY <1>1, <1>2
<1>4. /\ f \in [ActivityIds -> Int]
      /\ g \in [ActivityIds -> Int]
      /\ e \in [ActivityIds -> Int]
      /\ \A a \in ActivityIds : e[a] = f[a] + g[a]
  BY <1>1, <1>3
<1> HIDE DEF f, g, e
<1>5. /\ SumFunction(f) \in Int
      /\ SumFunction(g) \in Int
      /\ SumFunction(e) = SumFunction(f) + SumFunction(g)
  BY <1>4, FiniteActivities, SumOfSums
<1> QED
  BY <1>5 DEF Total, Amount, f, g, e

(***************************************************************************)
(* The comparison of save(): a column to which activities were added is    *)
(* found changed if and only if their seconds do not cancel each other.    *)
(***************************************************************************)
LEMMA ChangeSeen ==
    ASSUME NEW t \in Tally, NEW A
    PROVE  Total(Plus(t, A)) # Total(t) <=> Amount(A) # 0
BY TotalPlus
=============================================================================
