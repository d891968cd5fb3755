------------------------------ MODULE SetLemmas ------------------------------
(***************************************************************************)
(* Least and greatest numbers, induction over a finite set, and folds.     *)
(* What is inductive is given as a set, since a lemma about an operator    *)
(* could not be used.                                                      *)
(***************************************************************************)
EXTENDS Integers, FiniteSetsExt, FiniteSetTheorems, TLAPS

-----------------------------------------------------------------------------
(* Least and greatest.                                                     *)

\* A part of a finite set that misses an element is smaller.
LEMMA SmallerPart ==
  ASSUME NEW S, IsFiniteSet(S), NEW T, T \subseteq S, NEW x \in S, x \notin T
  PROVE  /\ IsFiniteSet(T)
         /\ Cardinality(S) \in Nat
         /\ Cardinality(T) \in Nat
         /\ Cardinality(T) < Cardinality(S)
  <1>1. /\ IsFiniteSet(T)
        /\ Cardinality(T) <= Cardinality(S)
        /\ Cardinality(S) = Cardinality(T) => S = T
    BY FS_Subset
  <1>2. Cardinality(T) \in Nat /\ Cardinality(S) \in Nat
    BY <1>1, FS_CardinalityType
  <1> QED
    BY <1>1, <1>2

\* If there were none, every number would have another count of smaller ones, and too
\* few counts would be left.
LEMMA LeastNumber ==
  ASSUME NEW T, IsFiniteSet(T), T \subseteq Int, T # {}
  PROVE  \E x \in T : \A y \in T : x <= y
  <1> DEFINE below(x) == {y \in T : y < x}
             n == Cardinality(T)
             c == [x \in T |-> Cardinality(below(x))]
  <1> SUFFICES ASSUME \A x \in T : \E y \in T : y < x
               PROVE  FALSE
    OBVIOUS
  <1>1. n \in Nat
    BY FS_CardinalityType
  <1>2. ASSUME NEW x \in T
        PROVE  c[x] \in 1 .. n - 1
    <2>1. below(x) \subseteq T /\ x \notin below(x) /\ below(x) # {}
      OBVIOUS
    <2> HIDE DEF below
    <2>2. /\ IsFiniteSet(below(x))
          /\ Cardinality(below(x)) \in Nat
          /\ Cardinality(below(x)) < Cardinality(T)
      BY <2>1, SmallerPart
    <2>3. Cardinality(below(x)) # 0
      BY <2>1, <2>2, FS_EmptySet
    <2> QED
      BY <1>1, <2>2, <2>3
  <1>3. ASSUME NEW x \in T, NEW y \in T, x < y
        PROVE  c[x] # c[y]
    <2>1. x \in below(y) /\ x \notin below(x)
      BY <1>3
    <2>2. \A z \in T : z < x => z < y
      BY <1>3
    <2>3. below(x) \subseteq below(y)
      BY <2>2
    <2>4. IsFiniteSet(below(y))
      BY FS_Subset
    <2> HIDE DEF below
    <2>5. /\ Cardinality(below(x)) < Cardinality(below(y))
          /\ Cardinality(below(x)) \in Nat /\ Cardinality(below(y)) \in Nat
      BY <2>1, <2>3, <2>4, SmallerPart
    <2> QED
      BY <2>5
  <1>4. /\ IsFiniteSet(1 .. n - 1)
        /\ Cardinality(1 .. n - 1) < n
    <2>1. n # 0
      BY FS_EmptySet
    <2> HIDE DEF n
    <2>2. 1 \in Int /\ n - 1 \in Int
      BY <1>1
    <2>3. /\ IsFiniteSet(1 .. n - 1)
          /\ Cardinality(1 .. n - 1) = IF 1 > n - 1 THEN 0 ELSE (n - 1) - 1 + 1
      BY <2>2, FS_Interval
    <2> QED
      BY <1>1, <2>1, <2>3
  <1>5. c \in [T -> 1 .. n - 1]
    <2> HIDE DEF n, below
    <2> QED
      BY <1>2
  <1>6. PICK x \in T, y \in T : x # y /\ c[x] = c[y]
    <2> HIDE DEF c
    <2> QED
      BY <1>4, <1>5, FS_PigeonHole
  <1>7. x < y \/ y < x
    BY <1>6
  <1> HIDE DEF c
  <1> QED
    BY <1>3, <1>6, <1>7

\* Below any number there are finitely many, whatever the set.
LEMMA LeastNatural ==
  ASSUME NEW T, T \subseteq Nat, T # {}
  PROVE  \E x \in T : \A y \in T : x <= y
  <1>1. PICK m \in T : TRUE
    OBVIOUS
  <1> DEFINE U == {x \in T : x <= m}
  <1>2. IsFiniteSet(0 .. m)
    BY FS_Interval
  <1>3. U \subseteq 0 .. m /\ U # {} /\ U \subseteq Int
    <2>1. m \in U /\ m \in Nat
      BY <1>1
    <2>2. \A x \in U : x \in 0 .. m /\ x \in Int
      BY <2>1
    <2> QED
      BY <2>1, <2>2
  <1>4. IsFiniteSet(U)
    <2> HIDE DEF U
    <2> QED
      BY <1>2, <1>3, FS_Subset
  <1>5. PICK x \in U : \A y \in U : x <= y
    <2> HIDE DEF U
    <2> QED
      BY <1>3, <1>4, LeastNumber
  <1> QED
    BY <1>5

LEMMA GreatestNumber ==
  ASSUME NEW T, IsFiniteSet(T), T \subseteq Int, T # {}
  PROVE  \E x \in T : \A y \in T : x >= y
  <1> DEFINE U == {-x : x \in T}
             f == [x \in T |-> -x]
  <1>1. f \in Surjection(T, U)
    BY DEF Surjection
  <1>2. IsFiniteSet(U)
    <2> HIDE DEF U, f
    <2> QED
      BY <1>1, FS_Surjection
  <1>3. PICK x \in U : \A y \in U : x <= y
    <2>1. \A x \in T : -x \in Int
      OBVIOUS
    <2>2. U \subseteq Int /\ U # {}
      BY <2>1
    <2> HIDE DEF U
    <2> QED
      BY <1>2, <2>2, LeastNumber
  <1>4. PICK z \in T : x = -z
    OBVIOUS
  <1>5. \A y \in T : x <= -y
    BY <1>3
  <1> QED
    BY <1>4, <1>5

LEMMA MinIsLeast ==
  ASSUME NEW T, T \subseteq Nat, T # {}
  PROVE  Min(T) \in T /\ \A y \in T : Min(T) <= y
  BY LeastNatural DEF Min

LEMMA MaxIsGreatest ==
  ASSUME NEW T, IsFiniteSet(T), T \subseteq Int, T # {}
  PROVE  Max(T) \in T /\ \A y \in T : Max(T) >= y
  BY GreatestNumber DEF Max

-----------------------------------------------------------------------------
(* Induction.                                                              *)

LEMMA NumbersByInduction ==
  ASSUME NEW Good, 0 \in Good, \A n \in Nat : n \in Good => n + 1 \in Good
  PROVE  Nat \subseteq Good
  <1> DEFINE Bad == Nat \ Good
  <1> SUFFICES ASSUME Bad # {} PROVE FALSE
    OBVIOUS
  <1>1. PICK n \in Bad : \A m \in Bad : n <= m
    <2>1. Bad \subseteq Nat
      OBVIOUS
    <2> HIDE DEF Bad
    <2> QED
      BY <2>1, LeastNatural
  <1>2. n - 1 \in Nat /\ n - 1 \notin Bad
    BY <1>1
  <1> QED
    BY <1>2

\* It is enough that every set is good if the same set without one element is.
LEMMA SubsetsByInduction ==
  ASSUME NEW S, IsFiniteSet(S), NEW Good, {} \in Good,
         \A T \in SUBSET S : T # {} => \E x \in T : T \ {x} \in Good => T \in Good
  PROVE  SUBSET S \subseteq Good
  <1> DEFINE Bad == {T \in SUBSET S : T \notin Good}
             sizes == {Cardinality(T) : T \in Bad}
  <1> SUFFICES ASSUME Bad # {} PROVE FALSE
    OBVIOUS
  <1>1. \A T \in Bad : IsFiniteSet(T) /\ Cardinality(T) \in Nat
    BY FS_Subset, FS_CardinalityType
  <1>2. PICK n \in sizes : \A m \in sizes : n <= m
    <2>1. sizes \subseteq Nat /\ sizes # {}
      BY <1>1
    <2> HIDE DEF sizes
    <2> QED
      BY <2>1, LeastNatural
  <1>3. PICK T \in Bad : n = Cardinality(T)
    OBVIOUS
  <1>4. PICK x \in T : T \ {x} \in Good => T \in Good
    OBVIOUS
  <1>5. T \ {x} \in Bad
    BY <1>4
  <1>6. Cardinality(T \ {x}) < Cardinality(T) /\ Cardinality(T \ {x}) \in Nat
    BY <1>1, SmallerPart
  <1>7. Cardinality(T \ {x}) \in sizes
    BY <1>5
  <1> HIDE DEF sizes
  <1>8. n <= Cardinality(T \ {x})
    BY <1>2, <1>7
  <1> QED
    BY <1>1, <1>3, <1>6, <1>8

-----------------------------------------------------------------------------
(* Folds: the recursive functions behind MapThenFoldSet exist.             *)

\* pick chooses from a set what is folded last, step[x, v] is the fold's next value.
Picks(pick, S) == \A T \in SUBSET S : T # {} => pick[T] \in T

IsFold(fold, S, base, pick, step) ==
  \A T \in SUBSET S : fold[T] = IF T = {} THEN base ELSE step[<<pick[T], fold[T \ {pick[T]}]>>]

LEMMA FoldExists ==
  ASSUME NEW S, IsFiniteSet(S), NEW V, NEW base, base \in V,
         NEW pick, Picks(pick, S), NEW step, step \in [S \X V -> V]
  PROVE  \E fold \in [SUBSET S -> V] : IsFold(fold, S, base, pick, step)
  <1> DEFINE Upto(n) == {T \in SUBSET S : Cardinality(T) <= n}
             IsUpto(g, n) ==
               \A T \in Upto(n) :
                 g[T] = IF T = {} THEN base ELSE step[<<pick[T], g[T \ {pick[T]}]>>]
             Good == {n \in Nat : \E g \in [Upto(n) -> V] : IsUpto(g, n)}
  <1>1. \A T \in SUBSET S : IsFiniteSet(T) /\ Cardinality(T) \in Nat
    BY FS_Subset, FS_CardinalityType
  <1>2. \A n \in Nat : \A T \in Upto(n + 1) :
          T # {} => pick[T] \in S /\ T \ {pick[T]} \in Upto(n)
    <2> SUFFICES ASSUME NEW n \in Nat, NEW T \in Upto(n + 1), T # {}
                 PROVE  pick[T] \in S /\ T \ {pick[T]} \in Upto(n)
      OBVIOUS
    <2>1. pick[T] \in T /\ T \ {pick[T]} \in SUBSET S
      BY DEF Picks
    <2>2. /\ Cardinality(T \ {pick[T]}) < Cardinality(T)
          /\ Cardinality(T \ {pick[T]}) \in Nat /\ Cardinality(T) \in Nat
      BY <1>1, <2>1, SmallerPart
    <2> QED
      BY <2>1, <2>2
  <1>3. 0 \in Good
    <2> DEFINE g == [T \in Upto(0) |-> base]
    <2>1. \A T \in Upto(0) : T = {}
      BY <1>1, FS_EmptySet
    <2>2. g \in [Upto(0) -> V] /\ IsUpto(g, 0)
      BY <2>1
    <2> QED
      BY <2>2
  <1>4. ASSUME NEW n \in Nat, n \in Good
        PROVE  n + 1 \in Good
    <2>1. PICK g \in [Upto(n) -> V] : IsUpto(g, n)
      BY <1>4
    <2> DEFINE h == [T \in Upto(n + 1) |->
                       IF T = {} THEN base ELSE step[<<pick[T], g[T \ {pick[T]}]>>]]
    <2>2. \A T \in Upto(n) : T \in Upto(n + 1)
      BY <1>1
    <2>3. \A T \in Upto(n + 1) : h[T] \in V
      <3> HIDE DEF Upto
      <3> QED
        BY <1>2
    <2>4. \A T \in Upto(n) : h[T] = g[T]
      <3> HIDE DEF Upto
      <3> QED
        BY <2>1, <2>2
    <2>5. IsUpto(h, n + 1)
      <3> HIDE DEF Upto
      <3> QED
        BY <1>2, <2>4
    <2>6. h \in [Upto(n + 1) -> V]
      <3> HIDE DEF Upto
      <3> QED
        BY <2>3
    <2> HIDE DEF h, IsUpto, Upto
    <2>7. n + 1 \in Nat
      OBVIOUS
    <2> QED
      BY <2>5, <2>6, <2>7
  <1>5. Cardinality(S) \in Good
    <2> HIDE DEF Good
    <2> QED
      BY <1>1, <1>3, <1>4, NumbersByInduction
  <1>6. Upto(Cardinality(S)) = SUBSET S
    BY FS_Subset
  <1>7. PICK g \in [SUBSET S -> V] : IsUpto(g, Cardinality(S))
    <2> HIDE DEF IsUpto, Upto
    <2> QED
      BY <1>5, <1>6
  <1>8. \A T \in SUBSET S :
          g[T] = IF T = {} THEN base ELSE step[<<pick[T], g[T \ {pick[T]}]>>]
    <2> HIDE DEF Upto
    <2> QED
      BY <1>6, <1>7
  <1> QED
    BY <1>8 DEF IsFold

SumOf(v, S) == MapThenSumSet(LAMBDA x : v[x], S)

\* A sum of natural numbers is one, and none of them exceeds it.
LEMMA SumOfNaturals ==
  ASSUME NEW S, IsFiniteSet(S), NEW v, \A x \in S : v[x] \in Nat
  PROVE  SumOf(v, S) \in Nat /\ \A x \in S : v[x] <= SumOf(v, S)
  <1> DEFINE Adds(fold) ==
               fold = [T \in SUBSET S |->
                         IF T = {} THEN 0
                         ELSE v[CHOOSE x \in T : TRUE] + fold[T \ {CHOOSE x \in T : TRUE}]]
             sum == CHOOSE fold : Adds(fold)
             Good == {T \in SUBSET S : sum[T] \in Nat /\ \A x \in T : v[x] <= sum[T]}
  <1>1. SumOf(v, S) = sum[S]
    BY DEF SumOf, MapThenSumSet, MapThenFoldSet
  <1>2. \E fold : Adds(fold)
    <2> DEFINE pick == [T \in SUBSET S |-> CHOOSE x \in T : TRUE]
               step == [p \in S \X Nat |-> v[p[1]] + p[2]]
    <2>1. Picks(pick, S)
      BY DEF Picks
    <2>2. step \in [S \X Nat -> Nat]
      OBVIOUS
    <2>3. PICK fold \in [SUBSET S -> Nat] : IsFold(fold, S, 0, pick, step)
      <3>1. 0 \in Nat
        OBVIOUS
      <3> HIDE DEF pick, step
      <3> QED
        BY <2>1, <2>2, <3>1, FoldExists
    <2>4. ASSUME NEW T \in SUBSET S, T # {}
          PROVE  step[<<pick[T], fold[T \ {pick[T]}]>>]
                   = v[CHOOSE x \in T : TRUE] + fold[T \ {CHOOSE x \in T : TRUE}]
      <3>1. pick[T] = (CHOOSE x \in T : TRUE) /\ pick[T] \in S
        BY <2>1, <2>4 DEF Picks
      <3>2. fold[T \ {pick[T]}] \in Nat
        OBVIOUS
      <3> HIDE DEF pick
      <3>3. step[<<pick[T], fold[T \ {pick[T]}]>>] = v[pick[T]] + fold[T \ {pick[T]}]
        BY <3>1, <3>2
      <3> QED
        BY <3>1, <3>3
    <2>5. Adds(fold)
      <3> HIDE DEF pick, step
      <3> QED
        BY <2>3, <2>4 DEF IsFold
    <2> QED
      BY <2>5
  <1>3. Adds(sum)
    BY <1>2
  <1> HIDE DEF sum
  <1>4. {} \in Good
    BY <1>3
  <1>5. ASSUME NEW T \in SUBSET S, T # {}
        PROVE  \E x \in T : T \ {x} \in Good => T \in Good
    <2> DEFINE x == CHOOSE x \in T : TRUE
    <2>1. x \in T
      BY <1>5
    <2>2. sum[T] = v[x] + sum[T \ {x}]
      BY <1>3, <1>5
    <2> HIDE DEF x
    <2>3. ASSUME T \ {x} \in Good PROVE T \in Good
      BY <2>1, <2>2, <2>3
    <2> QED
      BY <2>1, <2>3
  <1>6. S \in Good
    <2> HIDE DEF Good
    <2> QED
      BY <1>4, <1>5, SubsetsByInduction
  <1> QED
    BY <1>1, <1>6
=============================================================================
