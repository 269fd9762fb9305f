--------------------------- MODULE CountingLemmas ---------------------------
(***************************************************************************)
(* Facts about finite sets and naturals that the proofs of several         *)
(* components need: induction over sets of naturals and over finite sets,  *)
(* both got from the well-foundedness of strict inclusion, least and       *)
(* greatest elements, the ranks of the elements of a finite set, sums over *)
(* finite sets and their groups, and the results of folds over sequences.  *)
(***************************************************************************)
EXTENDS Integers, Sequences, FiniteSets, FiniteSetsExt, FiniteSetTheorems, WellFoundedInduction, TLAPS

-----------------------------------------------------------------------------
(* Induction                                                               *)

\* Among finite subsets there is always a smallest one: any of them all of
\* whose parts are outside the family.
LEMMA SmallestSubset ==
    ASSUME NEW Family, Family # {}, \A T \in Family : IsFiniteSet(T)
    PROVE  \E T \in Family : \A S \in Family : S \subseteq T => S = T
<1> DEFINE U == UNION Family
           R == StrictSubsetOrdering(U)
<1>1. Family \subseteq FiniteSubsetsOf(U)
  BY DEF FiniteSubsetsOf
<1>2. IsWellFoundedOn(R, FiniteSubsetsOf(U))
  BY FS_StrictSubsetOrderingWellFounded
<1>3. PICK T \in Family : \A S \in Family : ~ (<<S, T>> \in R)
  <2> HIDE DEF R
  <2>1. QED
    BY <1>1, <1>2, WFMin
<1>4. ASSUME NEW S \in Family, S \subseteq T, S # T PROVE FALSE
  <2>1. <<S, T>> \in R
    BY <1>4 DEF StrictSubsetOrdering
  <2>2. QED
    BY <1>3, <2>1
<1>5. QED
  BY <1>4

\* Every nonempty set of naturals has a least element.
LEMMA LeastNatural ==
    ASSUME NEW S, S \subseteq Nat, S # {}
    PROVE  \E m \in S : \A n \in S : m <= n
<1> DEFINE Family == {1..n : n \in S}
<1>1. \A T \in Family : IsFiniteSet(T)
  BY FS_Interval
<1>2. PICK T \in Family : \A X \in Family : X \subseteq T => X = T
  <2>1. Family # {}
    OBVIOUS
  <2> HIDE DEF Family
  <2>2. QED
    BY <1>1, <2>1, SmallestSubset
<1>3. PICK m \in S : T = 1..m
  OBVIOUS
<1>4. ASSUME NEW n \in S, n < m PROVE FALSE
  <2>1. 1..n \in Family /\ 1..n \subseteq 1..m /\ m \in 1..m /\ m \notin 1..n
    BY <1>4
  <2>2. QED
    BY <1>2, <1>3, <2>1
<1>5. QED
  BY <1>4

\* A set of naturals with zero and every successor holds all of them.
LEMMA SetInduction ==
    ASSUME NEW S, S \subseteq Nat, 0 \in S, \A n \in S : n + 1 \in S
    PROVE  S = Nat
<1> DEFINE D == Nat \ S
<1> SUFFICES ASSUME D # {} PROVE FALSE
  OBVIOUS
<1>1. D \subseteq Nat
  OBVIOUS
<1>2. PICK m \in D : \A n \in D : m <= n
  <2> HIDE DEF D
  <2>1. QED
    BY <1>1, LeastNatural
<1>3. m # 0 /\ m - 1 \in Nat /\ m - 1 \in S
  BY <1>2
<1>4. QED
  BY <1>3

-----------------------------------------------------------------------------
(* Least and greatest elements                                             *)

\* A finite set of which every element has an integer weight has a lightest
\* element.
LEMMA Lightest ==
    ASSUME NEW U, NEW f \in [U -> Int], IsFiniteSet(U), U # {}
    PROVE  \E x \in U : \A y \in U : f[x] <= f[y]
<1> DEFINE HasLeast(T) == \E x \in T : \A y \in T : f[x] <= f[y]
           Family == {T \in SUBSET U : T # {} /\ ~HasLeast(T)}
<1> SUFFICES ASSUME Family # {} PROVE FALSE
  OBVIOUS
<1>1. \A T \in Family : IsFiniteSet(T)
  BY FS_Subset
<1>2. PICK T \in Family : \A S \in Family : S \subseteq T => S = T
  <2> HIDE DEF Family
  <2>1. QED
    BY <1>1, SmallestSubset
<1>3. PICK x \in T : TRUE
  OBVIOUS
<1>4. T \ {x} \notin Family
  BY <1>2, <1>3
<1>5. CASE T \ {x} = {}
  <2>1. \A y \in T : y = x
    BY <1>5
  <2>2. f[x] \in Int
    BY <1>3
  <2>3. HasLeast(T)
    BY <1>3, <2>1, <2>2
  <2>4. QED
    BY <2>3
<1>6. CASE T \ {x} # {}
  <2>1. PICK y \in T \ {x} : \A z \in T \ {x} : f[y] <= f[z]
    BY <1>4, <1>6
  <2>2. f[x] \in Int /\ \A z \in T : f[z] \in Int
    BY <1>3
  <2>3. CASE f[x] <= f[y]
    <3>1. \A z \in T : f[x] <= f[z]
      BY <2>1, <2>2, <2>3
    <3>2. QED
      BY <1>3, <3>1
  <2>4. CASE f[y] < f[x]
    <3>1. \A z \in T : f[y] <= f[z]
      BY <2>1, <2>2, <2>4
    <3>2. QED
      BY <2>1, <3>1
  <2>5. QED
    BY <2>1, <2>2, <2>3, <2>4
<1>7. QED
  BY <1>5, <1>6

\* A finite set of integers has a least and a greatest element.
LEMMA Extremes ==
    ASSUME NEW S, S \subseteq Int, IsFiniteSet(S), S # {}
    PROVE  /\ \E x \in S : \A y \in S : x <= y
           /\ \E x \in S : \A y \in S : y <= x
<1>1. \E x \in S : \A y \in S : x <= y
  <2> DEFINE f == [s \in S |-> s]
  <2>1. f \in [S -> Int]
    OBVIOUS
  <2>2. \E x \in S : \A y \in S : f[x] <= f[y]
    <3> HIDE DEF f
    <3>1. QED
      BY <2>1, Lightest
  <2>3. QED
    BY <2>2
<1>2. \E x \in S : \A y \in S : y <= x
  <2> DEFINE f == [s \in S |-> -s]
  <2>1. f \in [S -> Int]
    OBVIOUS
  <2>2. PICK x \in S : \A y \in S : f[x] <= f[y]
    <3> HIDE DEF f
    <3>1. QED
      BY <2>1, Lightest
  <2>3. \A y \in S : y <= x
    BY <2>2
  <2>4. QED
    BY <2>3
<1>3. QED
  BY <1>1, <1>2

-----------------------------------------------------------------------------
(* Ranks                                                                   *)

Above(T, f, x) == {y \in T : f[y] > f[x]}

\* The elements of a finite set that differ in weight have the ranks 0, 1, ...:
\* for every k below its size one element has exactly k heavier ones.
LEMMA EveryRankTaken ==
    ASSUME NEW U, NEW f \in [U -> Int], IsFiniteSet(U),
           \A x, y \in U : f[x] = f[y] => x = y,
           NEW k \in 0..(Cardinality(U) - 1)
    PROVE  \E x \in U : Cardinality(Above(U, f, x)) = k
<1> DEFINE Full(T) == \A n \in 0..(Cardinality(T) - 1) :
                          \E x \in T : Cardinality(Above(T, f, x)) = n
           Family == {T \in SUBSET U : ~Full(T)}
<1>0. Cardinality(U) \in Nat
  BY FS_CardinalityType
<1> SUFFICES ASSUME Family # {} PROVE FALSE
  <2>1. Family = {} => Full(U)
    OBVIOUS
  <2>2. QED
    BY <2>1
<1>1. \A T \in Family : IsFiniteSet(T)
  BY FS_Subset
<1>2. PICK T \in Family : \A S \in Family : S \subseteq T => S = T
  <2> HIDE DEF Family
  <2>1. QED
    BY <1>1, SmallestSubset
<1>3. IsFiniteSet(T) /\ T \subseteq U /\ Cardinality(T) \in Nat
  BY <1>1, <1>2, FS_CardinalityType
<1>4. T # {}
  <2>1. T = {} => Cardinality(T) = 0
    BY FS_EmptySet
  <2>2. QED
    BY <1>2, <2>1
<1>5. PICK x \in T : \A y \in T : f[x] <= f[y]
  <2> DEFINE g == [y \in T |-> f[y]]
  <2>1. g \in [T -> Int]
    BY <1>3
  <2>2. PICK x \in T : \A y \in T : g[x] <= g[y]
    <3> HIDE DEF g
    <3>1. QED
      BY <1>3, <1>4, <2>1, Lightest
  <2>3. QED
    BY <2>2
<1>6. /\ IsFiniteSet(T \ {x}) /\ Cardinality(T \ {x}) = Cardinality(T) - 1
  BY <1>3, FS_RemoveElement
<1>7. \A y \in T : y # x => f[y] > f[x]
  <2>1. \A y \in T : f[y] \in Int /\ f[x] \in Int
    BY <1>3
  <2>2. QED
    BY <1>3, <1>5, <2>1
<1>8. \A y \in T : y # x => Above(T, f, y) = Above(T \ {x}, f, y)
  <2>1. \A y \in T : f[y] \in Int /\ f[x] \in Int
    BY <1>3
  <2>2. QED
    BY <1>5, <2>1 DEF Above
<1>9. Above(T, f, x) = T \ {x}
  <2>1. f[x] \in Int
    BY <1>3
  <2>2. QED
    BY <1>7, <2>1 DEF Above
<1>10. Full(T \ {x})
  BY <1>2, <1>3
<1>11. ASSUME NEW n \in 0..(Cardinality(T) - 1)
       PROVE  \E y \in T : Cardinality(Above(T, f, y)) = n
  <2>1. CASE n = Cardinality(T) - 1
    BY <1>6, <1>9, <2>1
  <2>2. CASE n # Cardinality(T) - 1
    <3>1. n \in 0..(Cardinality(T \ {x}) - 1)
      BY <1>3, <1>6, <2>2
    <3>2. PICK y \in T \ {x} : Cardinality(Above(T \ {x}, f, y)) = n
      BY <1>10, <3>1
    <3>3. QED
      BY <1>8, <3>2
  <2>3. QED
    BY <2>1, <2>2
<1>12. QED
  BY <1>2, <1>11

\* Elements listed by their ranks are in order of weight, and are all there are.
LEMMA RanksOrder ==
    ASSUME NEW U, NEW f \in [U -> Int], IsFiniteSet(U),
           \A x, y \in U : f[x] = f[y] => x = y,
           NEW L, \A k \in 1..Cardinality(U) :
                     L[k] \in U /\ Cardinality(Above(U, f, L[k])) = k - 1
    PROVE  /\ \A k, l \in 1..Cardinality(U) : k < l => f[L[k]] > f[L[l]]
           /\ \A x \in U : \E k \in 1..Cardinality(U) : L[k] = x
<1>1. ASSUME NEW x \in U, NEW y \in U, f[x] > f[y]
      PROVE  Cardinality(Above(U, f, x)) < Cardinality(Above(U, f, y))
  <2> DEFINE S == Above(U, f, x)
             T == Above(U, f, y)
  <2>1. S \subseteq T /\ x \in T /\ x \notin S
    BY <1>1 DEF Above
  <2>2. IsFiniteSet(T)
    BY FS_Subset DEF Above
  <2> HIDE DEF S, T
  <2>3. IsFiniteSet(S) /\ Cardinality(S) <= Cardinality(T) /\ Cardinality(S) # Cardinality(T)
    BY <2>1, <2>2, FS_Subset
  <2>4. Cardinality(S) \in Nat /\ Cardinality(T) \in Nat
    BY <2>2, <2>3, FS_CardinalityType
  <2>5. QED
    BY <2>3, <2>4 DEF S, T
<1>2. \A x \in U : f[x] \in Int
  OBVIOUS
<1>3. ASSUME NEW x \in U
      PROVE  Cardinality(Above(U, f, x)) \in 0..(Cardinality(U) - 1)
  <2> DEFINE S == Above(U, f, x)
  <2>1. S \subseteq U /\ x \notin S
    BY <1>2 DEF Above
  <2> HIDE DEF S
  <2>2. IsFiniteSet(S) /\ Cardinality(S) <= Cardinality(U) /\ Cardinality(S) # Cardinality(U)
    BY <1>3, <2>1, FS_Subset
  <2>3. Cardinality(S) \in Nat /\ Cardinality(U) \in Nat
    BY <2>2, FS_CardinalityType
  <2>4. QED
    BY <2>2, <2>3 DEF S
<1>4. ASSUME NEW k \in 1..Cardinality(U), NEW l \in 1..Cardinality(U), k < l
      PROVE  f[L[k]] > f[L[l]]
  <2>1. L[k] \in U /\ L[l] \in U /\ f[L[k]] \in Int /\ f[L[l]] \in Int
    BY <1>2
  <2>2. f[L[l]] > f[L[k]] => l - 1 < k - 1
    BY <1>1, <2>1
  <2>3. f[L[l]] = f[L[k]] => l - 1 = k - 1
    BY <2>1
  <2>4. QED
    BY <1>4, <2>1, <2>2, <2>3
<1>5. ASSUME NEW x \in U PROVE \E k \in 1..Cardinality(U) : L[k] = x
  <2> DEFINE r == Cardinality(Above(U, f, x))
  <2>1. r \in 0..(Cardinality(U) - 1) /\ Cardinality(U) \in Nat
    BY <1>3, FS_CardinalityType
  <2>2. r + 1 \in 1..Cardinality(U)
    BY <2>1
  <2>3. L[r + 1] \in U /\ Cardinality(Above(U, f, L[r + 1])) = r
    BY <2>1, <2>2
  <2> DEFINE y == L[r + 1]
  <2>4. y \in U /\ Cardinality(Above(U, f, y)) = r /\ f[y] \in Int /\ f[x] \in Int
    BY <1>2, <2>3
  <2> HIDE DEF y
  <2>5. y = x
    <3>1. ~ f[x] > f[y] /\ ~ f[y] > f[x]
      BY <1>1, <2>1, <2>4
    <3>2. QED
      BY <2>4, <3>1
  <2>6. QED
    BY <2>2, <2>5 DEF y
<1>6. QED
  BY <1>4, <1>5

-----------------------------------------------------------------------------
(* Sums over a finite set, by the recursion that MapThenSumSet unfolds to  *)

Some(s) == CHOOSE x \in s : TRUE

Adds(g, f, S) ==
    g = [s \in SUBSET S |-> IF s = {} THEN 0 ELSE f[Some(s)] + g[s \ {Some(s)}]]

Sum(f, S) == (CHOOSE g : Adds(g, f, S))[S]

LEMMA SomeIn == ASSUME NEW s, s # {} PROVE Some(s) \in s
BY DEF Some

\* The recursion has one solution, and it depends on what is summed alone.
LEMMA AddsUnique ==
    ASSUME NEW S, IsFiniteSet(S), NEW T, S \subseteq T,
           NEW e, NEW f, \A x \in S : e[x] = f[x],
           NEW g, Adds(g, e, S), NEW h, Adds(h, f, T)
    PROVE  \A s \in SUBSET S : g[s] = h[s]
<1> DEFINE Family == {s \in SUBSET S : g[s] # h[s]}
<1> SUFFICES ASSUME Family # {} PROVE FALSE
  OBVIOUS
<1>1. \A s \in Family : IsFiniteSet(s)
  BY FS_Subset
<1>2. PICK s \in Family : \A r \in Family : r \subseteq s => r = s
  <2> HIDE DEF Family
  <2>1. QED
    BY <1>1, SmallestSubset
<1>3. s \in SUBSET S /\ s \in SUBSET T /\ g[s] # h[s]
  OBVIOUS
<1>4. /\ g[s] = IF s = {} THEN 0 ELSE e[Some(s)] + g[s \ {Some(s)}]
      /\ h[s] = IF s = {} THEN 0 ELSE f[Some(s)] + h[s \ {Some(s)}]
  BY <1>3 DEF Adds
<1>5. s # {}
  BY <1>3, <1>4
<1>6. Some(s) \in s
  BY <1>5, SomeIn
<1>7. g[s \ {Some(s)}] = h[s \ {Some(s)}]
  <2>1. s \ {Some(s)} \in SUBSET S /\ s \ {Some(s)} \subseteq s /\ s \ {Some(s)} # s
    BY <1>3, <1>6
  <2>2. s \ {Some(s)} \notin Family
    BY <1>2, <2>1
  <2>3. QED
    BY <2>1, <2>2
<1>8. e[Some(s)] = f[Some(s)]
  BY <1>3, <1>6
<1>9. QED
  BY <1>3, <1>4, <1>5, <1>7, <1>8

LEMMA AddsOnce ==
    ASSUME NEW S, IsFiniteSet(S), NEW f, NEW g, Adds(g, f, S), NEW h, Adds(h, f, S)
    PROVE  g[S] = h[S]
<1>1. \E e : e = f /\ Adds(g, e, S)
  OBVIOUS
<1>2. PICK e : e = f /\ Adds(g, e, S)
  BY <1>1
<1>3. \A x \in S : e[x] = f[x]
  BY <1>2
<1>4. Adds(g, e, S) /\ S \subseteq S
  BY <1>2
<1>5. \A s \in SUBSET S : g[s] = h[s]
  BY <1>3, <1>4, AddsUnique
<1>6. QED
  BY <1>5

LEMMA AddsExists ==
    ASSUME NEW S, IsFiniteSet(S), NEW f
    PROVE  \E g : Adds(g, f, S)
<1> DEFINE Family == {T \in SUBSET S : ~ \E g : Adds(g, f, T)}
<1> SUFFICES ASSUME Family # {} PROVE FALSE
  OBVIOUS
<1>1. \A T \in Family : IsFiniteSet(T)
  BY FS_Subset
<1>2. PICK T \in Family : \A R \in Family : R \subseteq T => R = T
  <2> HIDE DEF Family
  <2>1. QED
    BY <1>1, SmallestSubset
<1>3. T \in SUBSET S /\ IsFiniteSet(T) /\ ~ \E g : Adds(g, f, T)
  BY <1>1
<1> DEFINE G(R) == CHOOSE g : Adds(g, f, R)
<1>4. ASSUME NEW R \in SUBSET T, R # T PROVE Adds(G(R), f, R)
  <2>1. R \notin Family
    BY <1>2, <1>4
  <2>2. \E g : Adds(g, f, R)
    BY <1>3, <2>1
  <2>3. QED
    BY <2>2
<1> HIDE DEF G, Family
<1> DEFINE rest(s) == s \ {Some(s)}
           g == [s \in SUBSET T |-> IF s = {} THEN 0 ELSE f[Some(s)] + G(rest(s))[rest(s)]]
<1>5. ASSUME NEW s \in SUBSET T, s # {} PROVE g[rest(s)] = G(rest(s))[rest(s)]
  <2> DEFINE r == rest(s)
  <2>1. r \in SUBSET T /\ r # T
    BY <1>5, SomeIn
  <2>2. Adds(G(r), f, r)
    BY <1>4, <2>1
  <2> HIDE DEF r
  <2>3. G(r)[r] = IF r = {} THEN 0 ELSE f[Some(r)] + G(r)[rest(r)]
    BY <2>2 DEF Adds
  <2>4. g[r] = IF r = {} THEN 0 ELSE f[Some(r)] + G(rest(r))[rest(r)]
    BY <2>1
  <2>5. CASE r = {}
    BY <2>3, <2>4, <2>5 DEF r
  <2>6. CASE r # {}
    <3> DEFINE q == rest(r)
    <3>1. q \in SUBSET r /\ q \in SUBSET T /\ q # T
      BY <2>1, <2>6, SomeIn
    <3>2. Adds(G(q), f, q) /\ IsFiniteSet(q)
      BY <1>3, <1>4, <3>1, FS_Subset
    <3> HIDE DEF q
    <3>3. G(q)[q] = G(r)[q]
      BY <2>2, <3>1, <3>2, AddsUnique
    <3>4. QED
      BY <2>3, <2>4, <2>6, <3>3 DEF q, r
  <2>7. QED
    BY <2>5, <2>6
<1>6. g = [s \in SUBSET T |-> IF s = {} THEN 0 ELSE f[Some(s)] + g[rest(s)]]
  <2>1. \A s \in SUBSET T :
          (IF s = {} THEN 0 ELSE f[Some(s)] + G(rest(s))[rest(s)])
            = (IF s = {} THEN 0 ELSE f[Some(s)] + g[rest(s)])
    BY <1>5
  <2>2. QED
    BY <2>1, Zenon
<1>7. Adds(g, f, T)
  BY <1>6 DEF Adds
<1> HIDE DEF g
<1>8. QED
  BY <1>3, <1>7

\* Equal terms have equal sums.
LEMMA SumSame ==
    ASSUME NEW S, IsFiniteSet(S), NEW e, NEW f, \A x \in S : e[x] = f[x]
    PROVE  Sum(e, S) = Sum(f, S)
<1> DEFINE g == CHOOSE h : Adds(h, e, S)
           k == CHOOSE h : Adds(h, f, S)
<1>1. Adds(g, e, S) /\ Adds(k, f, S)
  BY AddsExists
<1> HIDE DEF g, k
<1>2. \A s \in SUBSET S : g[s] = k[s]
  BY <1>1, AddsUnique
<1>3. QED
  BY <1>2 DEF Sum, g, k

LEMMA SumEmpty == ASSUME NEW f PROVE Sum(f, {}) = 0
<1>1. Adds(CHOOSE g : Adds(g, f, {}), f, {})
  BY AddsExists, FS_EmptySet
<1>2. QED
  BY <1>1 DEF Sum, Adds

LEMMA SumStep ==
    ASSUME NEW S, IsFiniteSet(S), S # {}, NEW f
    PROVE  Sum(f, S) = f[Some(S)] + Sum(f, S \ {Some(S)})
<1> DEFINE R == S \ {Some(S)}
           g == CHOOSE h : Adds(h, f, S)
           k == CHOOSE h : Adds(h, f, R)
<1>1. IsFiniteSet(R) /\ R \subseteq S
  BY FS_Subset
<1>2. Adds(g, f, S)
  BY AddsExists
<1>3. Adds(k, f, R)
  BY <1>1, AddsExists
<1> HIDE DEF g, k
<1> HIDE DEF R
<1>4. k[R] = g[R]
  <2>1. \A x \in R : f[x] = f[x]
    OBVIOUS
  <2>2. \A s \in SUBSET R : k[s] = g[s]
    BY <1>1, <1>2, <1>3, <2>1, AddsUnique
  <2>3. QED
    BY <2>2
<1>5. g[S] = f[Some(S)] + g[R]
  BY <1>2 DEF Adds, R
<1>6. QED
  BY <1>4, <1>5 DEF Sum, g, k, R

LEMMA SumInt ==
    ASSUME NEW S, IsFiniteSet(S), NEW f, \A x \in S : f[x] \in Int
    PROVE  Sum(f, S) \in Int
<1> DEFINE Family == {T \in SUBSET S : Sum(f, T) \notin Int}
<1> SUFFICES ASSUME Family # {} PROVE FALSE
  OBVIOUS
<1>1. \A T \in Family : IsFiniteSet(T)
  BY FS_Subset
<1>2. PICK T \in Family : \A R \in Family : R \subseteq T => R = T
  <2> HIDE DEF Family
  <2>1. QED
    BY <1>1, SmallestSubset
<1>3. T # {}
  BY SumEmpty
<1>4. Some(T) \in T
  BY <1>3, SomeIn
<1>5. Sum(f, T \ {Some(T)}) \in Int
  <2>1. T \ {Some(T)} \in SUBSET S /\ T \ {Some(T)} \subseteq T /\ T \ {Some(T)} # T
    BY <1>4
  <2>2. QED
    BY <1>2, <2>1
<1>6. Sum(f, T) = f[Some(T)] + Sum(f, T \ {Some(T)})
  BY <1>1, <1>3, SumStep
<1>7. f[Some(T)] \in Int
  BY <1>4
<1>8. QED
  BY <1>5, <1>6, <1>7

\* Any element may be taken out of a sum first.
LEMMA SumTake ==
    ASSUME NEW S, IsFiniteSet(S), NEW f, \A x \in S : f[x] \in Int, NEW y \in S
    PROVE  Sum(f, S) = f[y] + Sum(f, S \ {y})
<1> DEFINE Family == {T \in SUBSET S : \E x \in T : Sum(f, T) # f[x] + Sum(f, T \ {x})}
<1> SUFFICES ASSUME Family # {} PROVE FALSE
  OBVIOUS
<1>1. \A T \in Family : IsFiniteSet(T)
  BY FS_Subset
<1>2. PICK T \in Family : \A R \in Family : R \subseteq T => R = T
  <2> HIDE DEF Family
  <2>1. QED
    BY <1>1, SmallestSubset
<1>3. PICK x \in T : Sum(f, T) # f[x] + Sum(f, T \ {x})
  OBVIOUS
<1> DEFINE z == Some(T)
<1>4. z \in T /\ T # {} /\ T \subseteq S /\ IsFiniteSet(T)
  BY <1>1, SomeIn
<1>5. Sum(f, T) = f[z] + Sum(f, T \ {z})
  BY <1>4, SumStep
<1> HIDE DEF z
<1>6. x # z
  BY <1>3, <1>5
<1>7. ASSUME NEW w \in T, NEW v \in T, v # w
      PROVE  Sum(f, T \ {w}) = f[v] + Sum(f, (T \ {w}) \ {v})
  <2>1. /\ T \ {w} \in SUBSET S /\ T \ {w} \subseteq T /\ T \ {w} # T
        /\ v \in T \ {w}
    BY <1>4, <1>7
  <2>2. T \ {w} \notin Family
    BY <1>2, <2>1
  <2>3. QED
    BY <2>1, <2>2
<1>8. /\ Sum(f, T \ {z}) = f[x] + Sum(f, (T \ {z}) \ {x})
      /\ Sum(f, T \ {x}) = f[z] + Sum(f, (T \ {x}) \ {z})
  BY <1>4, <1>6, <1>7
<1>9. (T \ {z}) \ {x} = (T \ {x}) \ {z}
  OBVIOUS
<1> DEFINE rest == Sum(f, (T \ {z}) \ {x})
<1>10. rest \in Int /\ f[x] \in Int /\ f[z] \in Int
  <2>1. (T \ {z}) \ {x} \subseteq S /\ IsFiniteSet((T \ {z}) \ {x})
    BY <1>4, FS_Subset
  <2>2. QED
    BY <1>4, <2>1, SumInt
<1>11. /\ Sum(f, T) = f[z] + (f[x] + rest)
       /\ f[x] + Sum(f, T \ {x}) = f[x] + (f[z] + rest)
  BY <1>5, <1>8, <1>9
<1> HIDE DEF rest
<1>12. QED
  BY <1>3, <1>10, <1>11

LEMMA SumPut ==
    ASSUME NEW S, IsFiniteSet(S), NEW y, y \notin S, NEW f, \A x \in S \cup {y} : f[x] \in Int
    PROVE  Sum(f, S \cup {y}) = Sum(f, S) + f[y]
<1>1. IsFiniteSet(S \cup {y}) /\ y \in S \cup {y} /\ (S \cup {y}) \ {y} = S
  BY FS_AddElement
<1>2. Sum(f, S \cup {y}) = f[y] + Sum(f, S)
  BY <1>1, SumTake
<1>3. Sum(f, S) \in Int /\ f[y] \in Int
  BY SumInt
<1>4. QED
  BY <1>2, <1>3

-----------------------------------------------------------------------------
(* More about sums                                                         *)

\* The sum over two sets that have nothing in common.
LEMMA SumUnion ==
    ASSUME NEW S, IsFiniteSet(S), NEW T, IsFiniteSet(T), S \cap T = {},
           NEW f, \A x \in S \cup T : f[x] \in Int
    PROVE  Sum(f, S \cup T) = Sum(f, S) + Sum(f, T)
<1> DEFINE Family == {R \in SUBSET T : Sum(f, S \cup R) # Sum(f, S) + Sum(f, R)}
<1> SUFFICES ASSUME Family # {} PROVE FALSE
  OBVIOUS
<1>1. \A R \in Family : IsFiniteSet(R)
  BY FS_Subset
<1>2. PICK R \in Family : \A Q \in Family : Q \subseteq R => Q = R
  <2> HIDE DEF Family
  <2>1. QED
    BY <1>1, SmallestSubset
<1>3. R \subseteq T /\ Sum(f, S \cup R) # Sum(f, S) + Sum(f, R) /\ IsFiniteSet(R)
  BY <1>1
<1>4. Sum(f, S) \in Int
  BY SumInt
<1>5. R # {}
  <2> SUFFICES ASSUME R = {} PROVE FALSE
    OBVIOUS
  <2>1. S \cup R = S /\ Sum(f, R) = 0
    BY SumEmpty
  <2>2. Sum(f, S) = Sum(f, S) + 0
    BY <1>4
  <2>3. QED
    BY <1>3, <2>1, <2>2
<1>6. PICK y : y \in R
  BY <1>5
<1> DEFINE Q == R \ {y}
<1>7. /\ Q \subseteq T /\ IsFiniteSet(Q) /\ IsFiniteSet(S \cup Q) /\ Q # R
      /\ y \notin Q /\ y \notin S \cup Q /\ R = Q \cup {y} /\ S \cup R = (S \cup Q) \cup {y}
  BY <1>3, <1>6, FS_Subset, FS_Union
<1>8. Sum(f, S \cup Q) = Sum(f, S) + Sum(f, Q)
  BY <1>2, <1>6, <1>7
<1> HIDE DEF Q
<1>9. Sum(f, Q) \in Int /\ f[y] \in Int
  BY <1>3, <1>6, <1>7, SumInt
<1>10. Sum(f, R) = Sum(f, Q) + f[y]
  <2>1. \A x \in Q \cup {y} : f[x] \in Int
    BY <1>3, <1>7
  <2>2. QED
    BY <1>7, <2>1, SumPut
<1>11. Sum(f, S \cup R) = Sum(f, S \cup Q) + f[y]
  <2>1. \A x \in (S \cup Q) \cup {y} : f[x] \in Int
    BY <1>3, <1>6, <1>7
  <2>2. QED
    BY <1>7, <2>1, SumPut
<1>12. QED
  BY <1>3, <1>4, <1>8, <1>9, <1>10, <1>11

\* A sum of terms none of which is negative is not negative.
LEMMA SumNotNegative ==
    ASSUME NEW S, IsFiniteSet(S), NEW f, \A x \in S : f[x] \in Int /\ f[x] >= 0
    PROVE  Sum(f, S) \in Int /\ Sum(f, S) >= 0
<1> DEFINE Family == {T \in SUBSET S : ~ Sum(f, T) >= 0}
<1>0. Sum(f, S) \in Int
  BY SumInt
<1> SUFFICES ASSUME Family # {} PROVE FALSE
  BY <1>0
<1>1. \A T \in Family : IsFiniteSet(T)
  BY FS_Subset
<1>2. PICK T \in Family : \A R \in Family : R \subseteq T => R = T
  <2> HIDE DEF Family
  <2>1. QED
    BY <1>1, SmallestSubset
<1>3. T \subseteq S /\ ~ Sum(f, T) >= 0 /\ IsFiniteSet(T)
  BY <1>1
<1>4. T # {}
  BY <1>3, SumEmpty
<1>5. PICK y : y \in T
  BY <1>4
<1>6. Sum(f, T) = f[y] + Sum(f, T \ {y})
  BY <1>3, <1>5, SumTake
<1>7. Sum(f, T \ {y}) >= 0 /\ Sum(f, T \ {y}) \in Int
  <2>1. IsFiniteSet(T \ {y}) /\ T \ {y} \subseteq S /\ T \ {y} # T
    BY <1>3, <1>5, FS_Subset
  <2>2. Sum(f, T \ {y}) \in Int
    BY <2>1, SumInt
  <2>3. QED
    BY <1>2, <2>1, <2>2
<1>8. QED
  BY <1>3, <1>5, <1>6, <1>7

\* A sum that changes sign with its terms.
LEMMA SumNegated ==
    ASSUME NEW S, IsFiniteSet(S), NEW f, \A x \in S : f[x] \in Int
    PROVE  Sum([x \in S |-> -f[x]], S) = -Sum(f, S)
<1> DEFINE g == [x \in S |-> -f[x]]
           Family == {T \in SUBSET S : Sum(g, T) # -Sum(f, T)}
<1>0. \A x \in S : g[x] = -f[x] /\ g[x] \in Int
  OBVIOUS
<1> SUFFICES ASSUME Family # {} PROVE FALSE
  OBVIOUS
<1> HIDE DEF g
<1>1. \A T \in Family : IsFiniteSet(T)
  BY FS_Subset
<1>2. PICK T \in Family : \A R \in Family : R \subseteq T => R = T
  <2> HIDE DEF Family
  <2>1. QED
    BY <1>1, SmallestSubset
<1>3. T \subseteq S /\ Sum(g, T) # -Sum(f, T) /\ IsFiniteSet(T)
  BY <1>1
<1>4. T # {}
  <2>1. Sum(f, {}) = 0 /\ Sum(g, {}) = 0
    BY SumEmpty
  <2>2. QED
    BY <1>3, <2>1
<1>5. PICK y : y \in T
  BY <1>4
<1>6. Sum(f, T) = f[y] + Sum(f, T \ {y}) /\ Sum(g, T) = g[y] + Sum(g, T \ {y})
  <2>1. \A x \in T : f[x] \in Int /\ g[x] \in Int
    BY <1>0, <1>3
  <2>2. QED
    BY <1>3, <1>5, <2>1, SumTake
<1>7. Sum(g, T \ {y}) = -Sum(f, T \ {y}) /\ Sum(f, T \ {y}) \in Int
  <2>1. IsFiniteSet(T \ {y}) /\ T \ {y} \subseteq S /\ T \ {y} # T
    BY <1>3, <1>5, FS_Subset
  <2>2. Sum(f, T \ {y}) \in Int
    BY <2>1, SumInt
  <2>3. QED
    BY <1>2, <2>1, <2>2
<1>8. f[y] \in Int /\ g[y] = -f[y]
  BY <1>0, <1>3, <1>5
<1>9. QED
  BY <1>3, <1>6, <1>7, <1>8

\* No part of a sum is more than its positive terms.
LEMMA SumAtMostPositive ==
    ASSUME NEW S, IsFiniteSet(S), NEW f, \A x \in S : f[x] \in Int, NEW T, T \subseteq S
    PROVE  Sum(f, T) <= Sum(f, {x \in S : f[x] > 0})
<1> DEFINE P == {x \in S : f[x] > 0}
           n == [x \in T \ P |-> -f[x]]
<1>1. /\ IsFiniteSet(T \cap P) /\ IsFiniteSet(T \ P) /\ IsFiniteSet(P \ T)
      /\ T = (T \cap P) \cup (T \ P) /\ P = (T \cap P) \cup (P \ T)
      /\ (T \cap P) \cap (T \ P) = {} /\ (T \cap P) \cap (P \ T) = {}
  BY FS_Subset
<1>2. \A x \in T \ P : f[x] \in Int /\ -f[x] \in Int /\ -f[x] >= 0
  OBVIOUS
<1>3. \A x \in P \ T : f[x] \in Int /\ f[x] >= 0
  OBVIOUS
<1>4. \A x \in T : f[x] \in Int
  OBVIOUS
<1>5. \A x \in P : f[x] \in Int
  OBVIOUS
<1>6. \A x \in T \ P : n[x] \in Int /\ n[x] >= 0
  BY <1>2
<1> HIDE DEF P
<1>7. Sum(n, T \ P) = -Sum(f, T \ P) /\ Sum(f, T \ P) \in Int
  BY <1>1, <1>2, SumNegated, SumInt
<1> HIDE DEF n
<1>8. Sum(n, T \ P) >= 0
  BY <1>1, <1>6, SumNotNegative
<1>9. Sum(f, P \ T) >= 0 /\ Sum(f, P \ T) \in Int
  BY <1>1, <1>3, SumNotNegative
<1>10. Sum(f, (T \cap P) \cup (T \ P)) = Sum(f, T \cap P) + Sum(f, T \ P)
  <2>1. \A x \in (T \cap P) \cup (T \ P) : f[x] \in Int
    BY <1>4
  <2>2. QED
    BY <1>1, <2>1, SumUnion
<1>11. Sum(f, (T \cap P) \cup (P \ T)) = Sum(f, T \cap P) + Sum(f, P \ T)
  <2>1. \A x \in (T \cap P) \cup (P \ T) : f[x] \in Int
    BY <1>5
  <2>2. QED
    BY <1>1, <2>1, SumUnion
<1>12. Sum(f, T \cap P) \in Int
  BY <1>1, <1>4, SumInt
<1>13. Sum(f, T) <= Sum(f, P)
  BY <1>1, <1>7, <1>8, <1>9, <1>10, <1>11, <1>12
<1>14. QED
  BY <1>13 DEF P

\* The sum of the sums of the groups, which the table of lists, is the sum of
\* the whole.
LEMMA SumOfGroups ==
    ASSUME NEW S, IsFiniteSet(S), NEW f, \A x \in S : f[x] \in Int,
           NEW key, NEW D, IsFiniteSet(D), \A x \in S : key[x] \in D,
           NEW of, \A d \in D : \A x : x \in of[d] <=> x \in S /\ key[x] = d,
           NEW g, \A d \in D : g[d] = Sum(f, of[d])
    PROVE  Sum(g, D) = Sum(f, S)
<1> DEFINE In(E) == {x \in S : key[x] \in E}
           Family == {E \in SUBSET D : Sum(g, E) # Sum(f, In(E))}
<1>0. In(D) = S
  OBVIOUS
<1> SUFFICES ASSUME Family # {} PROVE FALSE
  BY <1>0
<1>1. \A E \in Family : IsFiniteSet(E)
  BY FS_Subset
<1>2. PICK E \in Family : \A R \in Family : R \subseteq E => R = E
  <2> HIDE DEF Family
  <2>1. QED
    BY <1>1, SmallestSubset
<1>3. E \subseteq D /\ Sum(g, E) # Sum(f, In(E)) /\ IsFiniteSet(E)
  BY <1>1
<1>4. E # {}
  <2>1. In({}) = {} /\ Sum(g, {}) = 0 /\ Sum(f, {}) = 0
    BY SumEmpty
  <2>2. QED
    BY <1>3, <2>1
<1>5. PICK d : d \in E
  BY <1>4
<1> DEFINE R == E \ {d}
           G == of[d]
<1>6. /\ IsFiniteSet(R) /\ R \subseteq D /\ R # E /\ R \subseteq E
      /\ In(E) = In(R) \cup G /\ In(R) \cap G = {}
      /\ IsFiniteSet(In(R)) /\ IsFiniteSet(G) /\ d \in D
  <2>1. d \in D /\ G \subseteq S /\ In(R) \subseteq S /\ In(E) = In(R) \cup G /\ In(R) \cap G = {}
    BY <1>3, <1>5
  <2>2. IsFiniteSet(R) /\ R \subseteq D /\ R # E /\ R \subseteq E
    BY <1>3, <1>5, FS_Subset
  <2>3. IsFiniteSet(In(R)) /\ IsFiniteSet(G)
    BY <2>1, FS_Subset
  <2>4. QED
    BY <2>1, <2>2, <2>3
<1>7. Sum(g, R) = Sum(f, In(R))
  BY <1>2, <1>6
<1>8. \A x \in In(R) \cup G : f[x] \in Int
  BY <1>6
<1>9. g[d] = Sum(f, G)
  BY <1>6
<1>10. \A e \in D : g[e] \in Int
  <2> SUFFICES ASSUME NEW e \in D PROVE g[e] \in Int
    OBVIOUS
  <2>1. of[e] \subseteq S
    OBVIOUS
  <2>2. IsFiniteSet(of[e]) /\ \A x \in of[e] : f[x] \in Int
    BY <2>1, FS_Subset
  <2>3. g[e] = Sum(f, of[e])
    OBVIOUS
  <2>4. QED
    BY <2>2, <2>3, SumInt
<1> HIDE DEF G, R, In
<1>11. Sum(f, In(E)) = Sum(f, In(R)) + Sum(f, G)
  <2>1. Sum(f, In(R) \cup G) = Sum(f, In(R)) + Sum(f, G)
    BY <1>6, <1>8, SumUnion
  <2>2. QED
    BY <1>6, <2>1
<1>12. Sum(g, E) = g[d] + Sum(g, R)
  <2>1. \A e \in E : g[e] \in Int
    BY <1>3, <1>10
  <2>2. QED
    BY <1>3, <1>5, <2>1, SumTake DEF R
<1>13. Sum(f, In(R)) \in Int /\ Sum(f, G) \in Int
  BY <1>6, <1>8, SumInt
<1>14. QED
  BY <1>3, <1>7, <1>9, <1>11, <1>12, <1>13

\* The size of a set is a sum of ones.
LEMMA SumOfOnes ==
    ASSUME NEW S, IsFiniteSet(S), NEW f, \A x \in S : f[x] = 1
    PROVE  Sum(f, S) = Cardinality(S)
<1> DEFINE Family == {T \in SUBSET S : Sum(f, T) # Cardinality(T)}
<1> SUFFICES ASSUME Family # {} PROVE FALSE
  OBVIOUS
<1>1. \A T \in Family : IsFiniteSet(T)
  BY FS_Subset
<1>2. PICK T \in Family : \A R \in Family : R \subseteq T => R = T
  <2> HIDE DEF Family
  <2>1. QED
    BY <1>1, SmallestSubset
<1>3. T \subseteq S /\ Sum(f, T) # Cardinality(T) /\ IsFiniteSet(T)
  BY <1>1
<1>4. T # {}
  BY <1>3, SumEmpty, FS_EmptySet
<1>5. PICK y : y \in T
  BY <1>4
<1>6. Sum(f, T) = f[y] + Sum(f, T \ {y})
  BY <1>3, <1>5, SumTake
<1>7. IsFiniteSet(T \ {y}) /\ Cardinality(T \ {y}) = Cardinality(T) - 1 /\ Cardinality(T) \in Nat
  BY <1>3, <1>5, FS_RemoveElement, FS_CardinalityType
<1>8. Sum(f, T \ {y}) = Cardinality(T \ {y})
  BY <1>2, <1>3, <1>5, <1>7
<1>9. QED
  BY <1>3, <1>5, <1>6, <1>7, <1>8
-----------------------------------------------------------------------------
(* Folds over a sequence, by the recursion that FoldLeft unfolds to: F is  *)
(* the table of the fold's operator, over the indices and what is          *)
(* accumulated.                                                            *)

Greatest(s) == CHOOSE x \in s : \A y \in s : x >= y

Steps(g, F, base, S) ==
    g = [s \in SUBSET S |-> IF s = {} THEN base ELSE F[<<Greatest(s), g[s \ {Greatest(s)}]>>]]

HasGreatest(S) == \A s \in SUBSET S : s # {} => Greatest(s) \in s

LEMMA GreatestIs ==
    ASSUME NEW S, S \subseteq Int, IsFiniteSet(S), S # {}
    PROVE  Greatest(S) \in S /\ \A y \in S : Greatest(S) >= y
<1>1. \E x \in S : \A y \in S : y <= x
  BY Extremes
<1>2. \A x \in S : \A y \in S : y <= x <=> x >= y
  OBVIOUS
<1>3. \E x \in S : \A y \in S : x >= y
  BY <1>1, <1>2
<1>4. QED
  BY <1>3 DEF Greatest

LEMMA IntegersHaveGreatest == ASSUME NEW S, S \subseteq Int, IsFiniteSet(S) PROVE HasGreatest(S)
BY GreatestIs, FS_Subset DEF HasGreatest

LEMMA StepsUnique ==
    ASSUME NEW S, IsFiniteSet(S), HasGreatest(S), NEW T, S \subseteq T, NEW F, NEW base,
           NEW g, Steps(g, F, base, S), NEW h, Steps(h, F, base, T)
    PROVE  \A s \in SUBSET S : g[s] = h[s]
<1> DEFINE Family == {s \in SUBSET S : g[s] # h[s]}
<1> SUFFICES ASSUME Family # {} PROVE FALSE
  OBVIOUS
<1>1. \A s \in Family : IsFiniteSet(s)
  BY FS_Subset
<1>2. PICK s \in Family : \A r \in Family : r \subseteq s => r = s
  <2> HIDE DEF Family
  <2>1. QED
    BY <1>1, SmallestSubset
<1>3. s \in SUBSET S /\ s \in SUBSET T /\ g[s] # h[s]
  OBVIOUS
<1>4. /\ g[s] = IF s = {} THEN base ELSE F[<<Greatest(s), g[s \ {Greatest(s)}]>>]
      /\ h[s] = IF s = {} THEN base ELSE F[<<Greatest(s), h[s \ {Greatest(s)}]>>]
  BY <1>3 DEF Steps
<1>5. s # {}
  BY <1>3, <1>4
<1>6. Greatest(s) \in s
  BY <1>3, <1>5 DEF HasGreatest
<1>7. g[s \ {Greatest(s)}] = h[s \ {Greatest(s)}]
  <2>1. s \ {Greatest(s)} \in SUBSET S /\ s \ {Greatest(s)} \subseteq s /\ s \ {Greatest(s)} # s
    BY <1>3, <1>6
  <2>2. s \ {Greatest(s)} \notin Family
    BY <1>2, <2>1
  <2>3. QED
    BY <2>1, <2>2
<1>8. QED
  BY <1>3, <1>4, <1>5, <1>7

LEMMA StepsExists ==
    ASSUME NEW S, IsFiniteSet(S), HasGreatest(S), NEW F, NEW base
    PROVE  \E g : Steps(g, F, base, S)
<1> DEFINE Family == {T \in SUBSET S : ~ \E g : Steps(g, F, base, T)}
<1> SUFFICES ASSUME Family # {} PROVE FALSE
  OBVIOUS
<1>1. \A T \in Family : IsFiniteSet(T)
  BY FS_Subset
<1>2. PICK T \in Family : \A R \in Family : R \subseteq T => R = T
  <2> HIDE DEF Family
  <2>1. QED
    BY <1>1, SmallestSubset
<1>3. /\ T \in SUBSET S /\ IsFiniteSet(T) /\ HasGreatest(T)
      /\ ~ \E g : Steps(g, F, base, T)
  BY <1>1 DEF HasGreatest
<1> DEFINE G(R) == CHOOSE g : Steps(g, F, base, R)
<1>4. ASSUME NEW R \in SUBSET T, R # T PROVE Steps(G(R), F, base, R)
  <2>1. R \notin Family
    BY <1>2, <1>4
  <2>2. \E g : Steps(g, F, base, R)
    BY <1>3, <2>1
  <2>3. QED
    BY <2>2
<1> HIDE DEF G, Family
<1>5. \A s \in SUBSET T : s # {} => Greatest(s) \in s
  BY <1>3 DEF HasGreatest
<1> DEFINE rest(s) == s \ {Greatest(s)}
           g == [s \in SUBSET T |->
                    IF s = {} THEN base ELSE F[<<Greatest(s), G(rest(s))[rest(s)]>>]]
<1>6. ASSUME NEW s \in SUBSET T, s # {} PROVE g[rest(s)] = G(rest(s))[rest(s)]
  <2> DEFINE r == rest(s)
  <2>1. r \in SUBSET T /\ r # T
    BY <1>5, <1>6
  <2>2. Steps(G(r), F, base, r)
    BY <1>4, <2>1
  <2> HIDE DEF r
  <2>3. G(r)[r] = IF r = {} THEN base ELSE F[<<Greatest(r), G(r)[rest(r)]>>]
    BY <2>2 DEF Steps
  <2>4. g[r] = IF r = {} THEN base ELSE F[<<Greatest(r), G(rest(r))[rest(r)]>>]
    BY <2>1
  <2>5. CASE r = {}
    BY <2>3, <2>4, <2>5 DEF r
  <2>6. CASE r # {}
    <3> DEFINE q == rest(r)
    <3>1. q \in SUBSET r /\ q \in SUBSET T /\ q # T
      BY <1>5, <2>1, <2>6
    <3>2. Steps(G(q), F, base, q) /\ IsFiniteSet(q) /\ HasGreatest(q)
      BY <1>3, <1>4, <3>1, FS_Subset DEF HasGreatest
    <3> HIDE DEF q
    <3>3. q \subseteq r
      BY <3>1
    <3>4. \A u \in SUBSET q : G(q)[u] = G(r)[u]
      <4> DEFINE g1 == G(q)
                 g2 == G(r)
      <4>1. Steps(g1, F, base, q) /\ Steps(g2, F, base, r)
        BY <2>2, <3>2
      <4> HIDE DEF g1, g2
      <4>2. \A u \in SUBSET q : g1[u] = g2[u]
        BY <3>2, <3>3, <4>1, StepsUnique
      <4>3. QED
        BY <4>2 DEF g1, g2
    <3>5. G(q)[q] = G(r)[q]
      BY <3>4
    <3>6. QED
      BY <2>3, <2>4, <2>6, <3>5 DEF q, r
  <2>7. QED
    BY <2>5, <2>6
<1>7. g = [s \in SUBSET T |-> IF s = {} THEN base ELSE F[<<Greatest(s), g[rest(s)]>>]]
  <2>1. \A s \in SUBSET T :
          (IF s = {} THEN base ELSE F[<<Greatest(s), G(rest(s))[rest(s)]>>])
            = (IF s = {} THEN base ELSE F[<<Greatest(s), g[rest(s)]>>])
    BY <1>6
  <2>2. QED
    BY <2>1, Zenon
<1>8. Steps(g, F, base, T)
  BY <1>7 DEF Steps
<1> HIDE DEF g
<1>9. QED
  BY <1>3, <1>8

\* A fold whose operator keeps what is accumulated in a set ends in that set.
LEMMA StepsIn ==
    ASSUME NEW S, IsFiniteSet(S), HasGreatest(S), NEW A, NEW base \in A,
           NEW F, \A x \in S : \A a \in A : F[<<x, a>>] \in A,
           NEW g, Steps(g, F, base, S)
    PROVE  \A s \in SUBSET S : g[s] \in A
<1> DEFINE Family == {s \in SUBSET S : g[s] \notin A}
<1> SUFFICES ASSUME Family # {} PROVE FALSE
  OBVIOUS
<1>1. \A s \in Family : IsFiniteSet(s)
  BY FS_Subset
<1>2. PICK s \in Family : \A r \in Family : r \subseteq s => r = s
  <2> HIDE DEF Family
  <2>1. QED
    BY <1>1, SmallestSubset
<1>3. s \in SUBSET S /\ g[s] \notin A
  OBVIOUS
<1>4. g[s] = IF s = {} THEN base ELSE F[<<Greatest(s), g[s \ {Greatest(s)}]>>]
  BY <1>3 DEF Steps
<1>5. s # {}
  BY <1>3, <1>4
<1>6. Greatest(s) \in s
  BY <1>3, <1>5 DEF HasGreatest
<1>7. g[s \ {Greatest(s)}] \in A
  <2>1. s \ {Greatest(s)} \in SUBSET S /\ s \ {Greatest(s)} \subseteq s /\ s \ {Greatest(s)} # s
    BY <1>3, <1>6
  <2>2. QED
    BY <1>2, <2>1
<1>8. QED
  BY <1>3, <1>4, <1>5, <1>6, <1>7

-----------------------------------------------------------------------------
(* Max and Min, images and the indices of a sequence                       *)

\* A finite set of integers has its maximum and minimum.
LEMMA MaxIs ==
    ASSUME NEW S, S \subseteq Int, IsFiniteSet(S), S # {}
    PROVE  Max(S) \in S /\ \A y \in S : Max(S) >= y
<1>1. Max(S) = Greatest(S)
  BY DEF Max, Greatest
<1>2. QED
  BY <1>1, GreatestIs

LEMMA MinIs ==
    ASSUME NEW S, S \subseteq Int, IsFiniteSet(S), S # {}
    PROVE  Min(S) \in S /\ \A y \in S : Min(S) <= y
<1>1. \E x \in S : \A y \in S : x <= y
  BY Extremes
<1>2. QED
  BY <1>1 DEF Min

\* Those of two numbers.
LEMMA OfTwo ==
    ASSUME NEW a \in Int, NEW b \in Int
    PROVE  /\ Max({a, b}) \in Int /\ Max({a, b}) \in {a, b} /\ Max({a, b}) >= a /\ Max({a, b}) >= b
           /\ Min({a, b}) \in Int /\ Min({a, b}) \in {a, b} /\ Min({a, b}) <= a /\ Min({a, b}) <= b
<1>1. {a, b} \subseteq Int /\ {a, b} # {}
  OBVIOUS
<1>2. IsFiniteSet({a, b})
  <2>1. IsFiniteSet({a}) /\ IsFiniteSet({a} \cup {b})
    BY FS_Singleton, FS_AddElement
  <2>2. {a, b} = {a} \cup {b}
    OBVIOUS
  <2>3. QED
    BY <2>1, <2>2
<1>3. QED
  BY <1>1, <1>2, MaxIs, MinIs

\* A function gives finitely many elements finitely many values.
LEMMA FiniteImage ==
    ASSUME NEW D, IsFiniteSet(D), NEW f
    PROVE  IsFiniteSet({f[x] : x \in D})
<1> DEFINE T == {f[x] : x \in D}
           g == [x \in D |-> f[x]]
<1>1. g \in Surjection(D, T)
  BY DEF Surjection
<1> HIDE DEF g, T
<1>2. IsFiniteSet(T)
  BY <1>1, FS_Surjection
<1>3. QED
  BY <1>2 DEF T

\* The indices of a sequence are finitely many integers.
LEMMA Indices ==
    ASSUME NEW T, NEW s \in Seq(T)
    PROVE  /\ DOMAIN s \subseteq Int /\ IsFiniteSet(DOMAIN s) /\ HasGreatest(DOMAIN s)
           /\ \A k \in DOMAIN s : s[k] \in T
<1>1. DOMAIN s = 1..Len(s) /\ Len(s) \in Nat
  OBVIOUS
<1>2. IsFiniteSet(DOMAIN s) /\ DOMAIN s \subseteq Int
  BY <1>1, FS_Interval
<1>3. QED
  BY <1>2, IntegersHaveGreatest
=============================================================================
