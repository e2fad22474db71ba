----------------------------- MODULE FoldLemmas -----------------------------
(***************************************************************************)
(* Facts about the folds of the community modules.  The library's          *)
(* induction theorems are about operators; here a property is a set: the   *)
(* numbers, or the subsets of a finite set, that have it.                  *)
(***************************************************************************)
EXTENDS Integers, Functions, FiniteSetsExt, SequencesExt,
        FiniteSetTheorems, WellFoundedInduction, TLAPS

-----------------------------------------------------------------------------
(* Induction *)

\* Each subset of U is in P if it is there as soon as the sets one smaller are.
LEMMA SubsetInduction ==
  ASSUME NEW U, IsFiniteSet(U), NEW P,
         \A s \in SUBSET U : (\A x \in s : s \ {x} \in P) => s \in P
  PROVE  SUBSET U \subseteq P
<1> DEFINE T == (SUBSET U) \ P
<1>1. SUFFICES ASSUME T # {} PROVE FALSE
  OBVIOUS
<1>2. T \subseteq FiniteSubsetsOf(U)
  BY FS_FiniteSubsetsOfFinite
<1>3. PICK s \in T : \A r \in T : ~ (<<r, s>> \in StrictSubsetOrdering(U))
  <2> HIDE DEF T
  <2> QED
    BY <1>1, <1>2, FS_StrictSubsetOrderingWellFounded, WFMin
<1>4. ASSUME NEW x \in s PROVE s \ {x} \in P
  <2>1. <<s \ {x}, s>> \in StrictSubsetOrdering(U)
    BY <1>4 DEF StrictSubsetOrdering
  <2> QED
    BY <1>3, <1>4, <2>1
<1> QED
  BY <1>3, <1>4

\* The numbers up to n are in P if 0 is and P is closed under the successor.
LEMMA CountingInduction ==
  ASSUME NEW n \in Nat, NEW P, 0 \in P, \A k \in 0..(n - 1) : k \in P => k + 1 \in P
  PROVE  0..n \subseteq P
<1> DEFINE Q == {s \in SUBSET (0..n) : \A k \in 0..n : 0..k \subseteq s => k \in P}
<1>1. IsFiniteSet(0..n)
  BY FS_Interval
<1>2. ASSUME NEW s \in SUBSET (0..n), \A x \in s : s \ {x} \in Q
      PROVE  s \in Q
  <2> SUFFICES ASSUME NEW k \in 0..n, 0..k \subseteq s PROVE k \in P
    OBVIOUS
  <2>1. CASE k = 0
    BY <2>1
  <2>2. CASE k # 0
    <3>1. k \in s /\ k - 1 \in 0..n /\ k - 1 \in 0..(n - 1)
      BY <2>2
    <3>2. 0..(k - 1) \subseteq s \ {k}
      BY <2>2
    <3>3. k - 1 \in P
      BY <1>2, <3>1, <3>2
    <3>4. (k - 1) + 1 = k
      OBVIOUS
    <3> QED
      BY <3>1, <3>3, <3>4
  <2> QED
    BY <2>1, <2>2
<1>3. SUBSET (0..n) \subseteq Q
  <2> HIDE DEF Q
  <2> QED
    BY <1>1, <1>2, SubsetInduction
<1>4. 0..n \in Q
  BY <1>3
<1>5. \A k \in 0..n : 0..k \subseteq 0..n
  OBVIOUS
<1> QED
  BY <1>4, <1>5

-----------------------------------------------------------------------------
(* The recursive function inside a fold *)

\* g folds op over the subsets of U, from base, in the order of c.
Folds(g, U, base, c, op) ==
  g = [s \in SUBSET U |-> IF s = {} THEN base ELSE op[<<c[s], g[s \ {c[s]}]>>]]

\* It exists: a fold over U that takes the elements in the order of c.  Iterating
\* its equation n times makes it true of the sets with up to n elements.
LEMMA FoldExists ==
  ASSUME NEW U, IsFiniteSet(U), NEW V, NEW base \in V,
         NEW c, \A s \in SUBSET U : s # {} => c[s] \in s,
         NEW op, \A x \in U, v \in V : op[<<x, v>>] \in V
  PROVE  \E g \in [SUBSET U -> V] : Folds(g, U, base, c, op)
<1> DEFINE Once(g) == [s \in SUBSET U |-> IF s = {} THEN base ELSE op[<<c[s], g[s \ {c[s]}]>>]]
           P == {k \in Nat : \E g \in [SUBSET U -> V] :
                   \A s \in SUBSET U : Cardinality(s) <= k => g[s] = Once(g)[s]}
           n == Cardinality(U)
<1>1. n \in Nat /\ \A s \in SUBSET U : IsFiniteSet(s) /\ Cardinality(s) \in Nat /\ Cardinality(s) <= n
  BY FS_CardinalityType, FS_Subset
<1>2. 0 \in P
  <2> DEFINE g == [s \in SUBSET U |-> base]
  <2>1. g \in [SUBSET U -> V]
    OBVIOUS
  <2>2. ASSUME NEW s \in SUBSET U, Cardinality(s) <= 0 PROVE g[s] = Once(g)[s]
    <3>1. s = {}
      BY <1>1, <2>2, FS_EmptySet
    <3> QED
      BY <3>1
  <2> QED
    BY <2>1, <2>2
<1>3. ASSUME NEW k \in 0..(n - 1), k \in P PROVE k + 1 \in P
  <2>1. PICK g \in [SUBSET U -> V] : \A s \in SUBSET U : Cardinality(s) <= k => g[s] = Once(g)[s]
    BY <1>3
  <2> DEFINE h == Once(g)
  <2>2. h \in [SUBSET U -> V]
    OBVIOUS
  <2>3. ASSUME NEW s \in SUBSET U, Cardinality(s) <= k + 1 PROVE h[s] = Once(h)[s]
    <3>1. CASE s = {}
      BY <3>1
    <3>2. CASE s # {}
      <4> DEFINE r == s \ {c[s]}
      <4>1. c[s] \in s /\ r \in SUBSET U
        BY <3>2
      <4>2. Cardinality(r) = Cardinality(s) - 1
        BY <1>1, <4>1, FS_RemoveElement
      <4>3. Cardinality(r) <= k
        BY <1>1, <2>3, <4>2
      <4>4. g[r] = h[r]
        BY <2>1, <4>1, <4>3
      <4>5. h[s] = op[<<c[s], g[r]>>] /\ Once(h)[s] = op[<<c[s], h[r]>>]
        BY <3>2
      <4> QED
        BY <4>4, <4>5
    <3> QED
      BY <3>1, <3>2
  <2>4. k + 1 \in Nat
    OBVIOUS
  <2> HIDE DEF h
  <2> QED
    BY <2>2, <2>3, <2>4
<1>4. n \in P
  <2> HIDE DEF P, n
  <2>1. 0..n \subseteq P
    BY <1>1, <1>2, <1>3, CountingInduction
  <2> QED
    BY <1>1, <2>1
<1>5. PICK g \in [SUBSET U -> V] : \A s \in SUBSET U : Cardinality(s) <= n => g[s] = Once(g)[s]
  BY <1>4
<1>6. g = Once(g)
  BY <1>1, <1>5
<1> QED
  BY <1>6 DEF Folds

-----------------------------------------------------------------------------
(* Sums *)

Pick(s) == CHOOSE x \in s : TRUE

\* g sums f up over the subsets of U.
Sums(g, U, f) ==
  g = [s \in SUBSET U |-> IF s = {} THEN 0 ELSE f[Pick(s)] + g[s \ {Pick(s)}]]

\* The sum over S from the sum over S without the element that the fold picks.
LEMMA SumUnfolds ==
  ASSUME NEW U, IsFiniteSet(U), NEW f, \A x \in U : f[x] \in Nat
  PROVE  \E g : g[U] = SumFunctionOnSet(f, U) /\ Sums(g, U, f)
<1> DEFINE c == [s \in SUBSET U |-> Pick(s)]
           op == [xv \in U \X Nat |-> f[xv[1]] + xv[2]]
<1>1. \A s \in SUBSET U : s # {} => c[s] \in s /\ c[s] = Pick(s)
  BY DEF Pick
<1>2. \A x \in U, v \in Nat : op[<<x, v>>] \in Nat /\ op[<<x, v>>] = f[x] + v
  OBVIOUS
<1>3. PICK g \in [SUBSET U -> Nat] : Folds(g, U, 0, c, op)
  <2> HIDE DEF c, op
  <2> QED
    BY <1>1, <1>2, FoldExists
<1>4. Sums(g, U, f)
  <2>1. \A s \in SUBSET U : s # {} =>
          op[<<c[s], g[s \ {c[s]}]>>] = f[Pick(s)] + g[s \ {Pick(s)}]
    <3> SUFFICES ASSUME NEW s \in SUBSET U, s # {}
                 PROVE  op[<<c[s], g[s \ {c[s]}]>>] = f[Pick(s)] + g[s \ {Pick(s)}]
      OBVIOUS
    <3>1. c[s] \in U /\ c[s] = Pick(s)
      BY <1>1
    <3>2. g[s \ {c[s]}] \in Nat
      BY <1>3
    <3> HIDE DEF c, op
    <3> QED
      BY <1>2, <3>1, <3>2
  <2> HIDE DEF c, op
  <2> QED
    BY <1>3, <2>1 DEF Folds, Sums
<1> DEFINE H == CHOOSE h : Sums(h, U, f)
<1>5. Sums(H, U, f)
  BY <1>4
<1>6. SumFunctionOnSet(f, U) = H[U]
  BY DEF SumFunctionOnSet, FoldFunctionOnSet, MapThenFoldSet, Pick, Sums
<1> HIDE DEF H
<1> QED
  BY <1>5, <1>6

LEMMA SumsTyped ==
  ASSUME NEW U, IsFiniteSet(U), NEW f, \A x \in U : f[x] \in Nat, NEW g, Sums(g, U, f)
  PROVE  g[U] \in Nat
<1> DEFINE P == {s \in SUBSET U : g[s] \in Nat}
<1>1. ASSUME NEW s \in SUBSET U, \A x \in s : s \ {x} \in P PROVE s \in P
  <2>1. CASE s = {}
    BY <2>1 DEF Sums
  <2>2. CASE s # {}
    <3>1. Pick(s) \in s
      BY <2>2 DEF Pick
    <3>2. g[s] = f[Pick(s)] + g[s \ {Pick(s)}]
      BY <2>2 DEF Sums
    <3>3. f[Pick(s)] \in Nat /\ g[s \ {Pick(s)}] \in Nat
      BY <1>1, <3>1
    <3> QED
      BY <3>2, <3>3
  <2> QED
    BY <2>1, <2>2
<1>2. SUBSET U \subseteq P
  <2> HIDE DEF P
  <2> QED
    BY <1>1, SubsetInduction
<1> QED
  BY <1>2

\* Two such functions agree where both are defined.
LEMMA SumUnique ==
  ASSUME NEW U, IsFiniteSet(U), NEW S \in SUBSET U, NEW f, NEW g, NEW h,
         Sums(g, U, f), Sums(h, S, f)
  PROVE  g[S] = h[S]
<1> DEFINE P == {s \in SUBSET S : g[s] = h[s]}
<1>1. ASSUME NEW s \in SUBSET S, \A x \in s : s \ {x} \in P PROVE s \in P
  <2>1. CASE s = {}
    BY <2>1 DEF Sums
  <2>2. CASE s # {}
    <3>1. Pick(s) \in s
      BY <2>2 DEF Pick
    <3>2. g[s \ {Pick(s)}] = h[s \ {Pick(s)}]
      BY <1>1, <3>1
    <3>3. g[s] = f[Pick(s)] + g[s \ {Pick(s)}]
      BY <2>2 DEF Sums
    <3>4. h[s] = f[Pick(s)] + h[s \ {Pick(s)}]
      BY <2>2 DEF Sums
    <3> QED
      BY <3>2, <3>3, <3>4
  <2> QED
    BY <2>1, <2>2
<1>2. IsFiniteSet(S)
  BY FS_Subset
<1>3. SUBSET S \subseteq P
  <2> HIDE DEF P
  <2> QED
    BY <1>1, <1>2, SubsetInduction
<1> QED
  BY <1>3

LEMMA SumEmpty ==
  ASSUME NEW f
  PROVE  SumFunctionOnSet(f, {}) = 0
<1>1. PICK g : g[{}] = SumFunctionOnSet(f, {}) /\ Sums(g, {}, f)
  BY SumUnfolds, FS_EmptySet
<1> QED
  BY <1>1 DEF Sums

LEMMA SumPicks ==
  ASSUME NEW S, IsFiniteSet(S), NEW f, \A x \in S : f[x] \in Nat, S # {}
  PROVE  SumFunctionOnSet(f, S) = f[Pick(S)] + SumFunctionOnSet(f, S \ {Pick(S)})
<1> DEFINE R == S \ {Pick(S)}
<1>1. PICK g : g[S] = SumFunctionOnSet(f, S) /\ Sums(g, S, f)
  BY SumUnfolds
<1>2. R \in SUBSET S /\ IsFiniteSet(R)
  BY FS_Subset
<1>3. PICK h : h[R] = SumFunctionOnSet(f, R) /\ Sums(h, R, f)
  <2> HIDE DEF R
  <2> QED
    BY <1>2, SumUnfolds
<1>4. g[R] = h[R]
  <2> HIDE DEF R
  <2> QED
    BY <1>1, <1>2, <1>3, SumUnique
<1>5. g[S] = f[Pick(S)] + g[R]
  BY <1>1 DEF Sums
<1> QED
  BY <1>1, <1>3, <1>4, <1>5

LEMMA SumType ==
  ASSUME NEW S, IsFiniteSet(S), NEW f, \A x \in S : f[x] \in Nat
  PROVE  SumFunctionOnSet(f, S) \in Nat
<1>1. PICK g : g[S] = SumFunctionOnSet(f, S) /\ Sums(g, S, f)
  BY SumUnfolds
<1> QED
  BY <1>1, SumsTyped

\* Whichever element is taken out first.
LEMMA SumRemove ==
  ASSUME NEW U, IsFiniteSet(U), NEW f, \A x \in U : f[x] \in Nat, NEW e \in U
  PROVE  SumFunctionOnSet(f, U) = f[e] + SumFunctionOnSet(f, U \ {e})
<1> DEFINE Sum(s) == SumFunctionOnSet(f, s)
           P == {s \in SUBSET U : \A x \in s : Sum(s) = f[x] + Sum(s \ {x})}
<1>0. \A s \in SUBSET U : IsFiniteSet(s) /\ Sum(s) \in Nat
  <2> SUFFICES ASSUME NEW s \in SUBSET U PROVE IsFiniteSet(s) /\ Sum(s) \in Nat
    OBVIOUS
  <2>1. IsFiniteSet(s)
    BY FS_Subset
  <2> QED
    BY <2>1, SumType
<1>1. ASSUME NEW s \in SUBSET U, \A x \in s : s \ {x} \in P PROVE s \in P
  <2> SUFFICES ASSUME NEW x \in s PROVE Sum(s) = f[x] + Sum(s \ {x})
    OBVIOUS
  <2> DEFINE p == Pick(s)
  <2>1. p \in s
    BY DEF Pick
  <2>2. Sum(s) = f[p] + Sum(s \ {p})
    BY <1>0, SumPicks
  <2>3. CASE x = p
    BY <2>2, <2>3
  <2>4. CASE x # p
    <3> HIDE DEF p, Sum
    <3>1. Sum(s \ {p}) = f[x] + Sum((s \ {p}) \ {x})
      BY <1>1, <2>1, <2>4
    <3>2. Sum(s \ {x}) = f[p] + Sum((s \ {x}) \ {p})
      BY <1>1, <2>1, <2>4
    <3>3. (s \ {p}) \ {x} = (s \ {x}) \ {p}
      OBVIOUS
    <3>4. f[x] \in Nat /\ f[p] \in Nat /\ Sum((s \ {x}) \ {p}) \in Nat
      BY <1>0, <2>1
    <3> QED
      BY <2>2, <3>1, <3>2, <3>3, <3>4
  <2> QED
    BY <2>3, <2>4
<1>2. SUBSET U \subseteq P
  <2> HIDE DEF P
  <2> QED
    BY <1>1, SubsetInduction
<1> QED
  BY <1>2

\* The sum over two disjoint sets.
LEMMA SumUnion ==
  ASSUME NEW S, IsFiniteSet(S), NEW T, IsFiniteSet(T), S \cap T = {},
         NEW f, \A x \in S \cup T : f[x] \in Nat
  PROVE  SumFunctionOnSet(f, S \cup T) = SumFunctionOnSet(f, S) + SumFunctionOnSet(f, T)
<1> DEFINE Sum(s) == SumFunctionOnSet(f, s)
           P == {s \in SUBSET T : Sum(S \cup s) = Sum(S) + Sum(s)}
<1>0. \A s \in SUBSET (S \cup T) : IsFiniteSet(s) /\ Sum(s) \in Nat
  <2> SUFFICES ASSUME NEW s \in SUBSET (S \cup T) PROVE IsFiniteSet(s) /\ Sum(s) \in Nat
    OBVIOUS
  <2>1. IsFiniteSet(S \cup T)
    BY FS_Union
  <2>2. IsFiniteSet(s)
    BY <2>1, FS_Subset
  <2> QED
    BY <2>2, SumType
<1>1. ASSUME NEW s \in SUBSET T, \A x \in s : s \ {x} \in P PROVE s \in P
  <2>1. CASE s = {}
    BY <1>0, <2>1, SumEmpty
  <2>2. CASE s # {}
    <3>1. PICK x \in s : TRUE
      BY <2>2
    <3>2. Sum(s) = f[x] + Sum(s \ {x})
      BY <1>0, SumRemove
    <3>3. Sum(S \cup s) = f[x] + Sum(S \cup (s \ {x}))
      <4>1. IsFiniteSet(S \cup s) /\ x \in S \cup s
        BY <1>0
      <4>2. (S \cup s) \ {x} = S \cup (s \ {x})
        OBVIOUS
      <4> QED
        BY <4>1, <4>2, SumRemove
    <3>5. Sum(S \cup (s \ {x})) = Sum(S) + Sum(s \ {x})
      BY <1>1
    <3>6. f[x] \in Nat /\ Sum(S) \in Nat /\ Sum(s \ {x}) \in Nat
      BY <1>0
    <3> HIDE DEF Sum
    <3>7. Sum(S \cup s) = Sum(S) + Sum(s)
      BY <3>2, <3>3, <3>5, <3>6
    <3> QED
      BY <3>7
  <2> QED
    BY <2>1, <2>2
<1>2. SUBSET T \subseteq P
  <2> HIDE DEF P
  <2> QED
    BY <1>1, SubsetInduction
<1> QED
  BY <1>2

\* A part sums up to no more than the whole.
LEMMA SumMonotone ==
  ASSUME NEW T, IsFiniteSet(T), NEW S \in SUBSET T, NEW f, \A x \in T : f[x] \in Nat
  PROVE  SumFunctionOnSet(f, S) <= SumFunctionOnSet(f, T)
<1>1. IsFiniteSet(S) /\ IsFiniteSet(T \ S) /\ S \cap (T \ S) = {} /\ S \cup (T \ S) = T
  BY FS_Subset, FS_Difference
<1>2. SumFunctionOnSet(f, T) = SumFunctionOnSet(f, S) + SumFunctionOnSet(f, T \ S)
  BY <1>1, SumUnion
<1>3. SumFunctionOnSet(f, S) \in Nat /\ SumFunctionOnSet(f, T \ S) \in Nat
  BY <1>1, SumType
<1> QED
  BY <1>2, <1>3

-----------------------------------------------------------------------------
(* Folds over sequences, which take the greatest index first *)

LEMMA MaxInSet ==
  ASSUME NEW U, IsFiniteSet(U), U \subseteq Int, U # {}
  PROVE  Max(U) \in U /\ \A y \in U : Max(U) >= y
<1> DEFINE P == {s \in SUBSET U : s # {} => \E x \in s : \A y \in s : x >= y}
<1>1. ASSUME NEW s \in SUBSET U, \A x \in s : s \ {x} \in P PROVE s \in P
  <2> SUFFICES ASSUME NEW z \in s PROVE \E x \in s : \A y \in s : x >= y
    OBVIOUS
  <2>1. CASE s \ {z} = {}
    BY <2>1
  <2>2. CASE s \ {z} # {}
    <3>1. PICK x \in s \ {z} : \A y \in s \ {z} : x >= y
      BY <1>1, <2>2
    <3>2. CASE x >= z
      BY <3>1, <3>2
    <3>3. CASE ~(x >= z)
      BY <3>1, <3>3
    <3> QED
      BY <3>2, <3>3
  <2> QED
    BY <2>1, <2>2
<1>2. SUBSET U \subseteq P
  <2> HIDE DEF P
  <2> QED
    BY <1>1, SubsetInduction
<1>3. \E x \in U : \A y \in U : x >= y
  BY <1>2
<1> QED
  BY <1>3 DEF Max

LEMMA MinInSet ==
  ASSUME NEW U, IsFiniteSet(U), U \subseteq Int, U # {}
  PROVE  Min(U) \in U /\ \A y \in U : Min(U) <= y
<1> DEFINE P == {s \in SUBSET U : s # {} => \E x \in s : \A y \in s : x <= y}
<1>1. ASSUME NEW s \in SUBSET U, \A x \in s : s \ {x} \in P PROVE s \in P
  <2> SUFFICES ASSUME NEW z \in s PROVE \E x \in s : \A y \in s : x <= y
    OBVIOUS
  <2>1. CASE s \ {z} = {}
    BY <2>1
  <2>2. CASE s \ {z} # {}
    <3>1. PICK x \in s \ {z} : \A y \in s \ {z} : x <= y
      BY <1>1, <2>2
    <3>2. CASE x <= z
      BY <3>1, <3>2
    <3>3. CASE ~(x <= z)
      BY <3>1, <3>3
    <3> QED
      BY <3>2, <3>3
  <2> QED
    BY <2>1, <2>2
<1>2. SUBSET U \subseteq P
  <2> HIDE DEF P
  <2> QED
    BY <1>1, SubsetInduction
<1>3. \E x \in U : \A y \in U : x <= y
  BY <1>2
<1> QED
  BY <1>3 DEF Min

LEMMA MaxOfSegment ==
  ASSUME NEW k \in Nat \ {0}
  PROVE  Max(1..k) = k /\ (1..k) \ {Max(1..k)} = 1..(k - 1)
<1>1. IsFiniteSet(1..k)
  BY FS_Interval
<1>2. Max(1..k) \in 1..k /\ Max(1..k) >= k
  <2>1. 1..k \subseteq Int /\ k \in 1..k
    OBVIOUS
  <2> QED
    BY <1>1, <2>1, MaxInSet
<1>3. Max(1..k) = k
  BY <1>2
<1> QED
  BY <1>3

\* g folds op over the subsets of 1..n, from base.
Walks(g, n, base, op) ==
  \A s \in SUBSET (1..n) :
    /\ s = {} => g[s] = base
    /\ s # {} => Max(s) \in s /\ g[s] = op[<<Max(s), g[s \ {Max(s)}]>>]

\* The fold of n elements exists, for a step that keeps the values in V.
LEMMA WalkExists ==
  ASSUME NEW n \in Nat, NEW V, NEW base \in V,
         NEW op, \A i \in 1..n, v \in V : op[<<i, v>>] \in V
  PROVE  \E g \in [SUBSET (1..n) -> V] : Walks(g, n, base, op)
<1> DEFINE U == 1..n
           c == [s \in SUBSET U |-> Max(s)]
<1>1. IsFiniteSet(U)
  BY FS_Interval
<1>2. ASSUME NEW s \in SUBSET U, s # {} PROVE c[s] \in s /\ c[s] = Max(s)
  <2>1. IsFiniteSet(s)
    BY <1>1, FS_Subset
  <2>2. s \subseteq Int
    OBVIOUS
  <2>3. Max(s) \in s
    BY <1>2, <2>1, <2>2, MaxInSet
  <2> QED
    BY <2>3
<1>3. PICK g \in [SUBSET U -> V] : Folds(g, U, base, c, op)
  <2> HIDE DEF c, U
  <2>1. \A i \in U, v \in V : op[<<i, v>>] \in V
    BY DEF U
  <2> QED
    BY <1>1, <1>2, <2>1, FoldExists
<1>4. \A s \in SUBSET U :
             /\ s = {} => g[s] = base
             /\ s # {} => Max(s) \in s /\ g[s] = op[<<Max(s), g[s \ {Max(s)}]>>]
  <2> HIDE DEF c, U
  <2> QED
    BY <1>2, <1>3 DEF Folds
<1> QED
  BY <1>4 DEF Walks
=============================================================================
