-------------------------- MODULE PaperTradingProofs --------------------------
(***************************************************************************)
(* Proofs about PaperTrading: types, the account of the ledger, and what   *)
(* the ledger promises for candidates that fill in the order they were     *)
(* generated.                                                              *)
(*                                                                         *)
(* The list the simulator keeps of its open trades is what its checks      *)
(* read, the intervals of the ledger are what the promises are about.  The *)
(* invariant relates the two: a trade that is not on the list any more was *)
(* closed because a candidate came that enters no earlier than it ends     *)
(* (Settled), so when entries come in order no later row can be inside its *)
(* interval.  What the report says is derived from the ledger and from the *)
(* curve, each event of which carries the balance of the trades closed by  *)
(* then (Traced).                                                          *)
(***************************************************************************)
EXTENDS PaperTrading, CountingLemmas

-----------------------------------------------------------------------------
(* The profit of a set of ledger rows                                      *)

PnlOf(ledger, trades) == MapThenSumSet(LAMBDA i : ledger[i].pnl, trades)
Pnls(ledger) == [i \in DOMAIN ledger |-> ledger[i].pnl]

AddsPnl(g, ledger, S) ==
    g = [s \in SUBSET S |->
            IF s = {} THEN 0 ELSE ledger[Some(s)].pnl + g[s \ {Some(s)}]]

\* MapThenSumSet unfolds to a recursion over the subsets.
LEMMA PnlUnfolds ==
    ASSUME NEW ledger, NEW S
    PROVE  PnlOf(ledger, S) = (CHOOSE g : AddsPnl(g, ledger, S))[S]
BY DEF PnlOf, MapThenSumSet, MapThenFoldSet, AddsPnl, Some

\* It is the sum of CountingLemmas.
LEMMA PnlIsSum ==
    ASSUME NEW ledger, NEW S, IsFiniteSet(S), S \subseteq DOMAIN ledger
    PROVE  PnlOf(ledger, S) = Sum(Pnls(ledger), S)
<1> DEFINE f == Pnls(ledger)
           g == CHOOSE h : AddsPnl(h, ledger, S)
           k == CHOOSE h : Adds(h, f, S)
<1>1. \A s \in SUBSET S : s # {} => f[Some(s)] = ledger[Some(s)].pnl
  BY SomeIn DEF Pnls
<1>2. ASSUME NEW h PROVE Adds(h, f, S) <=> AddsPnl(h, ledger, S)
  <2> HIDE DEF f
  <2>1. \A s \in SUBSET S :
          (IF s = {} THEN 0 ELSE f[Some(s)] + h[s \ {Some(s)}])
            = (IF s = {} THEN 0 ELSE ledger[Some(s)].pnl + h[s \ {Some(s)}])
    BY <1>1
  <2>2. [s \in SUBSET S |-> IF s = {} THEN 0 ELSE f[Some(s)] + h[s \ {Some(s)}]]
          = [s \in SUBSET S |->
               IF s = {} THEN 0 ELSE ledger[Some(s)].pnl + h[s \ {Some(s)}]]
    BY <2>1, Zenon
  <2>3. QED
    BY <2>2 DEF Adds, AddsPnl
<1>3. \E h : Adds(h, f, S)
  BY AddsExists
<1>4. Adds(k, f, S)
  BY <1>3
<1>5. AddsPnl(g, ledger, S)
  BY <1>2, <1>3
<1>6. Adds(g, f, S)
  BY <1>2, <1>5
<1> HIDE DEF g, k, f
<1>7. g[S] = k[S]
  BY <1>4, <1>6, AddsOnce
<1>8. QED
  BY <1>7, PnlUnfolds DEF g, k, f, Sum

\* A ledger row has amounts and times.
LEMMA RowParts ==
    ASSUME NEW ledger \in Seq(Row), NEW i \in DOMAIN ledger
    PROVE  /\ ledger[i].pnl \in Int /\ ledger[i].before \in Int
           /\ ledger[i].c.entry \in Nat /\ ledger[i].c.exit \in Nat
<1>1. ledger[i] \in Row
  OBVIOUS
<1>2. ledger[i].c \in Candidate /\ ledger[i].pnl \in Int /\ ledger[i].before \in Int
  BY <1>1 DEF Row
<1>3. QED
  BY <1>2 DEF Candidate

\* Sets of ledger rows are finite.
LEMMA LedgerFinite ==
    ASSUME NEW ledger \in Seq(Row), NEW S, S \subseteq DOMAIN ledger
    PROVE  IsFiniteSet(S)
<1>1. DOMAIN ledger = 1..Len(ledger) /\ Len(ledger) \in Nat
  OBVIOUS
<1>2. IsFiniteSet(1..Len(ledger))
  BY <1>1, FS_Interval
<1>3. QED
  BY <1>1, <1>2, FS_Subset

\* One more trade adds its own profit.
LEMMA PnlPut ==
    ASSUME NEW ledger \in Seq(Row), NEW S, S \subseteq DOMAIN ledger,
           NEW y \in DOMAIN ledger, y \notin S
    PROVE  /\ PnlOf(ledger, S) \in Int
           /\ PnlOf(ledger, S \cup {y}) = PnlOf(ledger, S) + ledger[y].pnl
<1> DEFINE f == Pnls(ledger)
<1>1. S \cup {y} \subseteq DOMAIN ledger
  OBVIOUS
<1>2. IsFiniteSet(S) /\ IsFiniteSet(S \cup {y})
  BY <1>1, LedgerFinite
<1>3. \A x \in S \cup {y} : f[x] \in Int
  BY <1>1, RowParts DEF Pnls
<1>4. f[y] = ledger[y].pnl
  BY DEF Pnls
<1>5. PnlOf(ledger, S) = Sum(f, S) /\ PnlOf(ledger, S \cup {y}) = Sum(f, S \cup {y})
  BY <1>1, <1>2, PnlIsSum
<1> HIDE DEF f
<1>6. Sum(f, S \cup {y}) = Sum(f, S) + f[y]
  BY <1>2, <1>3, SumPut
<1>7. Sum(f, S) \in Int
  BY <1>2, <1>3, SumInt
<1>8. QED
  BY <1>4, <1>5, <1>6, <1>7

\* The profit of a set depends on the rows of the set alone.
LEMMA PnlSame ==
    ASSUME NEW ledger \in Seq(Row), NEW other \in Seq(Row),
           NEW S, S \subseteq DOMAIN ledger, S \subseteq DOMAIN other,
           \A i \in S : ledger[i] = other[i]
    PROVE  PnlOf(ledger, S) = PnlOf(other, S)
<1> DEFINE e == Pnls(ledger)
           f == Pnls(other)
<1>1. IsFiniteSet(S)
  BY LedgerFinite
<1>2. \A x \in S : e[x] = f[x]
  BY DEF Pnls
<1>3. PnlOf(ledger, S) = Sum(e, S) /\ PnlOf(other, S) = Sum(f, S)
  BY <1>1, PnlIsSum
<1> HIDE DEF e, f
<1>4. QED
  BY <1>1, <1>2, <1>3, SumSame

-----------------------------------------------------------------------------
(* Rounding to cents                                                       *)

\* Whole cents and what is left.
LEMMA Divided ==
    ASSUME NEW x \in Int
    PROVE  /\ x \div Cent \in Int /\ x % Cent \in Int /\ 0 <= x % Cent /\ x % Cent < Cent
           /\ x = Cent * (x \div Cent) + (x % Cent)
BY PaperAssumption

\* Rounding moves an amount by half a cent at most.
LEMMA MoneyNear ==
    ASSUME NEW x \in Int
    PROVE  /\ Money(x) \in Int
           /\ 2 * (Cent * Money(x) - x) <= Cent /\ 2 * (x - Cent * Money(x)) <= Cent
<1> DEFINE q == x \div Cent
           r == x % Cent
<1>1. q \in Int /\ r \in Int /\ 0 <= r /\ r < Cent /\ x = Cent * q + r /\ Cent \in Int
  BY Divided, PaperAssumption
<1>2. \/ Money(x) = q /\ 2 * r <= Cent
      \/ Money(x) = q + 1 /\ 2 * r >= Cent
  BY <1>1 DEF Money
<1> HIDE DEF q, r
<1> DEFINE cq == Cent * q
<1>3. cq \in Int /\ x = cq + r /\ Cent * (q + 1) = cq + Cent
  BY <1>1
<1> HIDE DEF cq
<1>4. CASE Money(x) = q /\ 2 * r <= Cent
  <2>1. Cent * Money(x) = cq
    BY <1>4 DEF cq
  <2>2. QED
    BY <1>1, <1>3, <1>4, <2>1
<1>5. CASE Money(x) = q + 1 /\ 2 * r >= Cent
  <2>1. Cent * Money(x) = cq + Cent
    BY <1>3, <1>5
  <2>2. QED
    BY <1>1, <1>3, <1>5, <2>1
<1>6. QED
  BY <1>2, <1>4, <1>5
\* Multiplication spreads over a sum.
LEMMA Spread ==
    ASSUME NEW k \in Int, NEW a \in Int, NEW b \in Int
    PROVE  k * (a + b) = k * a + k * b /\ k * a \in Int /\ k * b \in Int
OBVIOUS

\* Two terms and their roundings.
LEMMA ErrorsAdd ==
    ASSUME NEW a \in Int, NEW b \in Int, NEW c \in Int, NEW x \in Int, NEW y \in Int, NEW d \in Int,
           2 * (a - x) <= d, 2 * (x - a) <= d, 2 * (b - y) <= c, 2 * (y - b) <= c
    PROVE  2 * ((a + b) - (x + y)) <= c + d /\ 2 * ((x + y) - (a + b)) <= c + d
OBVIOUS

ProfitOf(ledger, trades) == MapThenSumSet(LAMBDA i : Money(ledger[i].pnl), trades)
Profits(ledger) == [i \in DOMAIN ledger |-> Money(ledger[i].pnl)]

AddsProfit(g, ledger, S) ==
    g = [s \in SUBSET S |->
            IF s = {} THEN 0 ELSE Money(ledger[Some(s)].pnl) + g[s \ {Some(s)}]]

LEMMA ProfitUnfolds ==
    ASSUME NEW ledger, NEW S
    PROVE  ProfitOf(ledger, S) = (CHOOSE g : AddsProfit(g, ledger, S))[S]
BY DEF ProfitOf, MapThenSumSet, MapThenFoldSet, AddsProfit, Some

\* The profit in cents is a sum, too.
LEMMA ProfitIsSum ==
    ASSUME NEW ledger, NEW S, IsFiniteSet(S), S \subseteq DOMAIN ledger
    PROVE  ProfitOf(ledger, S) = Sum(Profits(ledger), S)
<1> DEFINE f == Profits(ledger)
           g == CHOOSE h : AddsProfit(h, ledger, S)
           k == CHOOSE h : Adds(h, f, S)
<1>1. \A s \in SUBSET S : s # {} => f[Some(s)] = Money(ledger[Some(s)].pnl)
  BY SomeIn DEF Profits
<1>2. ASSUME NEW h PROVE Adds(h, f, S) <=> AddsProfit(h, ledger, S)
  <2> HIDE DEF f
  <2>1. \A s \in SUBSET S :
          (IF s = {} THEN 0 ELSE f[Some(s)] + h[s \ {Some(s)}])
            = (IF s = {} THEN 0 ELSE Money(ledger[Some(s)].pnl) + h[s \ {Some(s)}])
    BY <1>1
  <2>2. [s \in SUBSET S |-> IF s = {} THEN 0 ELSE f[Some(s)] + h[s \ {Some(s)}]]
          = [s \in SUBSET S |->
               IF s = {} THEN 0 ELSE Money(ledger[Some(s)].pnl) + h[s \ {Some(s)}]]
    BY <2>1, Zenon
  <2>3. QED
    BY <2>2 DEF Adds, AddsProfit
<1>3. \E h : Adds(h, f, S)
  BY AddsExists
<1>4. Adds(k, f, S)
  BY <1>3
<1>5. AddsProfit(g, ledger, S)
  BY <1>2, <1>3
<1>6. Adds(g, f, S)
  BY <1>2, <1>5
<1> HIDE DEF g, k, f
<1>7. g[S] = k[S]
  BY <1>4, <1>6, AddsOnce
<1>8. QED
  BY <1>7, ProfitUnfolds DEF g, k, f, Sum

\* A sum of rounded amounts is off by half a cent an amount at most.
LEMMA ProfitNear ==
    ASSUME NEW ledger \in Seq(Row), NEW S, S \subseteq DOMAIN ledger
    PROVE  /\ ProfitOf(ledger, S) \in Int /\ PnlOf(ledger, S) \in Int /\ Cardinality(S) \in Nat
           /\ 2 * (Cent * ProfitOf(ledger, S) - PnlOf(ledger, S)) <= Cent * Cardinality(S)
           /\ 2 * (PnlOf(ledger, S) - Cent * ProfitOf(ledger, S)) <= Cent * Cardinality(S)
<1> DEFINE e == Pnls(ledger)
           f == Profits(ledger)
           Near(T) == /\ 2 * (Cent * Sum(f, T) - Sum(e, T)) <= Cent * Cardinality(T)
                      /\ 2 * (Sum(e, T) - Cent * Sum(f, T)) <= Cent * Cardinality(T)
           Family == {T \in SUBSET S : ~Near(T)}
<1>1. \A i \in S : /\ e[i] \in Int /\ f[i] \in Int
                   /\ 2 * (Cent * f[i] - e[i]) <= Cent /\ 2 * (e[i] - Cent * f[i]) <= Cent
  <2> SUFFICES ASSUME NEW i \in S
               PROVE  /\ e[i] \in Int /\ f[i] \in Int
                      /\ 2 * (Cent * f[i] - e[i]) <= Cent /\ 2 * (e[i] - Cent * f[i]) <= Cent
    OBVIOUS
  <2>1. i \in DOMAIN ledger /\ ledger[i].pnl \in Int
    BY RowParts
  <2>2. e[i] = ledger[i].pnl /\ f[i] = Money(ledger[i].pnl)
    BY <2>1 DEF Pnls, Profits
  <2>3. QED
    BY <2>1, <2>2, MoneyNear
<1>2. \A T \in SUBSET S : IsFiniteSet(T) /\ Cardinality(T) \in Nat
  BY LedgerFinite, FS_CardinalityType
<1>3. ProfitOf(ledger, S) = Sum(f, S) /\ PnlOf(ledger, S) = Sum(e, S)
  BY <1>2, ProfitIsSum, PnlIsSum
<1> HIDE DEF e, f
<1>4. \A T \in SUBSET S : Sum(e, T) \in Int /\ Sum(f, T) \in Int
  <2> SUFFICES ASSUME NEW T \in SUBSET S PROVE Sum(e, T) \in Int /\ Sum(f, T) \in Int
    OBVIOUS
  <2>1. IsFiniteSet(T) /\ \A i \in T : e[i] \in Int /\ f[i] \in Int
    BY <1>1, <1>2
  <2>2. QED
    BY <2>1, SumInt
<1>5. Family = {}
  <2> SUFFICES ASSUME Family # {} PROVE FALSE
    OBVIOUS
  <2>1. \A T \in Family : IsFiniteSet(T)
    BY <1>2
  <2>2. PICK T \in Family : \A R \in Family : R \subseteq T => R = T
    <3> HIDE DEF Family
    <3>1. QED
      BY <2>1, SmallestSubset
  <2>3. T \in SUBSET S /\ ~Near(T) /\ IsFiniteSet(T) /\ Cent \in Nat
    BY <1>2, PaperAssumption
  <2>4. T # {}
    <3>1. Sum(e, {}) = 0 /\ Sum(f, {}) = 0 /\ Cardinality({}) = 0
      BY SumEmpty, FS_EmptySet
    <3>2. Near({})
      BY <2>3, <3>1
    <3> HIDE DEF Near
    <3>3. QED
      BY <2>3, <3>2
  <2>5. PICK y : y \in T
    BY <2>4
  <2> DEFINE R == T \ {y}
  <2>6. R \in SUBSET S /\ Near(R)
    <3>1. R \subseteq T /\ R # T /\ R \in SUBSET S
      BY <2>3, <2>5
    <3> HIDE DEF Near, R
    <3>2. R \notin Family
      BY <2>2, <3>1
    <3>3. QED
      BY <3>1, <3>2
  <2>7. /\ Sum(e, T) = e[y] + Sum(e, R) /\ Sum(f, T) = f[y] + Sum(f, R)
        /\ Cardinality(T) = Cardinality(R) + 1
    <3>1. \A i \in T : e[i] \in Int /\ f[i] \in Int
      BY <1>1, <2>3
    <3>2. Sum(e, T) = e[y] + Sum(e, R) /\ Sum(f, T) = f[y] + Sum(f, R)
      BY <2>3, <2>5, <3>1, SumTake
    <3>3. Cardinality(R) = Cardinality(T) - 1 /\ Cardinality(T) \in Nat
      BY <1>2, <2>3, <2>5, FS_RemoveElement
    <3>4. QED
      BY <3>2, <3>3
  <2> DEFINE a == Cent * f[y]
             b == Cent * Sum(f, R)
             c == Cent * Cardinality(R)
  <2>8. /\ a \in Int /\ b \in Int /\ c \in Int /\ e[y] \in Int /\ Sum(e, R) \in Int
        /\ Cent * (f[y] + Sum(f, R)) = a + b /\ Cent * (Cardinality(R) + 1) = c + Cent
    <3>1. f[y] \in Int /\ Sum(f, R) \in Int /\ Cardinality(R) \in Nat /\ Cent \in Nat
      BY <1>1, <1>2, <1>4, <2>3, <2>5, <2>6
    <3>2. e[y] \in Int /\ Sum(e, R) \in Int
      BY <1>1, <1>4, <2>3, <2>5, <2>6
    <3> HIDE DEF R
    <3>3. Cent * (f[y] + Sum(f, R)) = a + b /\ a \in Int /\ b \in Int
      BY <3>1, Spread
    <3>4. Cent * (Cardinality(R) + 1) = c + Cent * 1 /\ c \in Int
      <4>1. Cent \in Int /\ Cardinality(R) \in Int /\ 1 \in Int
        BY <3>1
      <4>2. QED
        BY <4>1, Spread
    <3>5. Cent * 1 = Cent
      BY <3>1
    <3>6. QED
      BY <3>2, <3>3, <3>4, <3>5
  <2>9. /\ 2 * (a - e[y]) <= Cent /\ 2 * (e[y] - a) <= Cent
        /\ 2 * (b - Sum(e, R)) <= c /\ 2 * (Sum(e, R) - b) <= c
    BY <1>1, <2>3, <2>5, <2>6
  <2> DEFINE x == e[y]
             z == Sum(e, R)
  <2>10. a \in Int /\ b \in Int /\ c \in Int /\ x \in Int /\ z \in Int /\ Cent \in Int
    BY <2>3, <2>8
  <2>11. 2 * (a - x) <= Cent /\ 2 * (x - a) <= Cent /\ 2 * (b - z) <= c /\ 2 * (z - b) <= c
    BY <2>9
  <2> HIDE DEF a, b, c, x, z, R, Near, Family
  <2>12. 2 * ((a + b) - (x + z)) <= c + Cent /\ 2 * ((x + z) - (a + b)) <= c + Cent
    BY <2>10, <2>11, ErrorsAdd
  <2>13. Near(T)
    BY <2>7, <2>8, <2>12 DEF Near, x, z
  <2>14. QED
    BY <2>3, <2>13
<1>6. Near(S)
  <2> HIDE DEF Near
  <2>1. QED
    BY <1>5
<1>7. QED
  BY <1>2, <1>3, <1>4, <1>6

-----------------------------------------------------------------------------
(* The list of open trades                                                 *)

Held(open) == {open[k] : k \in DOMAIN open}
Distinct(open) == \A k, l \in DOMAIN open : open[k] = open[l] => k = l
Without(open, k) ==
    [j \in 1..(Len(open) - 1) |-> open[IF j < k THEN j ELSE j + 1]]

\* Closing takes one trade out of the list and leaves the others in order.
LEMMA WithoutOne ==
    ASSUME NEW S, NEW open \in Seq(S), Distinct(open), NEW k \in DOMAIN open
    PROVE  /\ Without(open, k) \in Seq(S)
           /\ Len(Without(open, k)) = Len(open) - 1
           /\ Held(Without(open, k)) = Held(open) \ {open[k]}
           /\ Distinct(Without(open, k))
<1> DEFINE n == Len(open)
           r == Without(open, k)
<1>1. /\ DOMAIN open = 1..n /\ n \in Nat /\ k \in 1..n /\ n - 1 \in Nat
      /\ \A j \in 1..n : open[j] \in S
  OBVIOUS
<1>2. \A j \in 1..(n - 1) :
         /\ r[j] = open[IF j < k THEN j ELSE j + 1]
         /\ (IF j < k THEN j ELSE j + 1) \in 1..n
         /\ (IF j < k THEN j ELSE j + 1) # k
  BY <1>1 DEF Without
<1>3. r \in [1..(n - 1) -> S]
  BY <1>1, <1>2 DEF Without
<1> HIDE DEF r, n
<1>4. r \in Seq(S) /\ Len(r) = n - 1 /\ DOMAIN r = 1..(n - 1)
  BY <1>1, <1>3
<1>5. \A j \in 1..n : j # k => \E l \in 1..(n - 1) : r[l] = open[j]
  <2> SUFFICES ASSUME NEW j \in 1..n, j # k PROVE \E l \in 1..(n - 1) : r[l] = open[j]
    OBVIOUS
  <2>1. CASE j < k
    <3>1. j \in 1..(n - 1)
      BY <1>1, <2>1
    <3>2. QED
      BY <1>2, <2>1, <3>1
  <2>2. CASE j > k
    <3>1. j - 1 \in 1..(n - 1) /\ ~(j - 1 < k) /\ (j - 1) + 1 = j
      BY <1>1, <2>2
    <3>2. QED
      BY <1>2, <3>1
  <2>3. QED
    BY <1>1, <2>1, <2>2
<1>6. Held(r) = Held(open) \ {open[k]}
  <2>1. \A l \in 1..(n - 1) : r[l] \in Held(open) /\ r[l] # open[k]
    BY <1>1, <1>2 DEF Held, Distinct
  <2>2. \A x \in Held(open) \ {open[k]} : x \in Held(r)
    BY <1>1, <1>4, <1>5 DEF Held
  <2>3. QED
    BY <1>4, <2>1, <2>2 DEF Held
<1>7. Distinct(r)
  <2> SUFFICES ASSUME NEW i \in 1..(n - 1), NEW j \in 1..(n - 1), r[i] = r[j]
               PROVE  i = j
    BY <1>4 DEF Distinct
  <2>1. (IF i < k THEN i ELSE i + 1) = (IF j < k THEN j ELSE j + 1)
    BY <1>1, <1>2 DEF Distinct
  <2>2. QED
    BY <1>1, <2>1
<1>8. QED
  BY <1>4, <1>6, <1>7 DEF r, n

\* Opening puts one trade at the end of it.
LEMMA AppendOne ==
    ASSUME NEW S, NEW open \in Seq(S), Distinct(open), NEW x \in S, x \notin Held(open)
    PROVE  /\ Append(open, x) \in Seq(S)
           /\ Len(Append(open, x)) = Len(open) + 1
           /\ Held(Append(open, x)) = Held(open) \cup {x}
           /\ Distinct(Append(open, x))
<1> DEFINE n == Len(open)
           r == Append(open, x)
<1>1. /\ DOMAIN open = 1..n /\ n \in Nat /\ r \in Seq(S) /\ Len(r) = n + 1
      /\ DOMAIN r = 1..(n + 1) /\ r[n + 1] = x /\ \A j \in 1..n : r[j] = open[j]
  OBVIOUS
<1> HIDE DEF r, n
<1>2. \A j \in 1..(n + 1) : j \in 1..n \/ j = n + 1
  BY <1>1
<1>3. n + 1 \in 1..(n + 1) /\ \A j \in 1..n : j \in 1..(n + 1)
  BY <1>1
<1>4. Held(r) = Held(open) \cup {x}
  BY <1>1, <1>2, <1>3 DEF Held
<1>5. Distinct(r)
  <2>1. \A j \in 1..n : open[j] # x
    BY <1>1 DEF Held
  <2>2. QED
    BY <1>1, <1>2, <2>1 DEF Distinct
<1>6. QED
  BY <1>1, <1>4, <1>5 DEF r, n

\* What Append makes of a sequence.
LEMMA AppendParts ==
    ASSUME NEW S, NEW s \in Seq(S), NEW x \in S
    PROVE  /\ Append(s, x) \in Seq(S) /\ Len(Append(s, x)) = Len(s) + 1
           /\ Append(s, x)[Len(s) + 1] = x /\ Len(s) + 1 \in Nat
           /\ \A i \in DOMAIN s : Append(s, x)[i] = s[i]
OBVIOUS

\* A sequence over a set is one over any larger set.
LEMMA SeqOfMore ==
    ASSUME NEW S, NEW T, S \subseteq T, NEW s \in Seq(S)
    PROVE  s \in Seq(T)
OBVIOUS

\* There are at most as many open trades as the list is long.
LEMMA HeldCount ==
    ASSUME NEW S, NEW open \in Seq(S), NEW T, T \subseteq Held(open)
    PROVE  IsFiniteSet(T) /\ Cardinality(T) \in Nat /\ Cardinality(T) <= Len(open)
<1>1. DOMAIN open = 1..Len(open) /\ Len(open) \in Nat
  OBVIOUS
<1>2. IsFiniteSet(1..Len(open)) /\ Cardinality(1..Len(open)) = Len(open)
  BY <1>1, FS_Interval
<1> DEFINE I == 1..Len(open)
           H == {open[k] : k \in I}
<1>3. Held(open) = H
  BY <1>1 DEF Held
<1>4. IsFiniteSet(H) /\ Cardinality(H) <= Cardinality(I)
  <2> DEFINE f == [k \in I |-> open[k]]
  <2>1. f \in Surjection(I, H)
    BY DEF Surjection
  <2>2. IsFiniteSet(I)
    BY <1>2
  <2> HIDE DEF I, H, f
  <2>3. QED
    BY <2>1, <2>2, FS_Surjection
<1> HIDE DEF H
<1>5. IsFiniteSet(T) /\ Cardinality(T) <= Cardinality(H)
  BY <1>3, <1>4, FS_Subset
<1>6. Cardinality(T) \in Nat /\ Cardinality(H) \in Nat
  BY <1>4, <1>5, FS_CardinalityType
<1>7. QED
  BY <1>1, <1>2, <1>4, <1>5, <1>6

-----------------------------------------------------------------------------
(* The inductive invariant.  The ledger is passed to the operators that    *)
(* speak of it, so that they can speak of the next one too.                *)

Taken(ledger) == {i \in DOMAIN ledger : ledger[i].skip = ""}
Shut(ledger, open) == Taken(ledger) \ Held(open)

InOrder(ledger) ==
    \A i, j \in DOMAIN ledger : i < j => ledger[i].c.entry <= ledger[j].c.entry
OpenIn(ledger, t) == {i \in Taken(ledger) : ledger[i].c.entry <= t /\ t < ledger[i].c.exit}
EarlierIn(ledger, j) == {i \in Taken(ledger) : i < j /\ ledger[i].c.exit <= ledger[j].c.entry}

WithinMax(ledger) ==
    MaxOpenPositions > 0 =>
        \A t \in Int : Cardinality(OpenIn(ledger, t)) <= MaxOpenPositions
SymbolsApart(ledger) ==
    onePositionPerSymbol =>
        \A i, j \in Taken(ledger) :
            i < j /\ ledger[i].c.symbol = ledger[j].c.symbol
                => ledger[i].c.exit <= ledger[j].c.entry
NothingAhead(ledger) ==
    \A j \in Taken(ledger) :
        ledger[j].before = Money(StartingBalance + PnlOf(ledger, EarlierIn(ledger, j)))

\* No trade ends before it begins.
Timely ==
    /\ \A k \in DOMAIN pending : pending[k].entry <= pending[k].exit
    /\ \A i \in DOMAIN rows : rows[i].c.entry <= rows[i].c.exit

\* An executed trade is either open, once, or closed, once.
Booked ==
    /\ Distinct(active)
    /\ \A k \in DOMAIN curve : curve[k].row \notin Held(active)
    /\ \A k, l \in DOMAIN curve : curve[k].row = curve[l].row => k = l
    /\ \A i \in Shut(rows, active) : \E k \in DOMAIN curve : curve[k].row = i
    /\ pc = "done" => active = <<>>

\* The balance is what the closed trades made of it.
Balanced == balance = StartingBalance + PnlOf(rows, Shut(rows, active))

\* A trade was closed because one came that enters no earlier than it ends.
Settled ==
    \A i \in Shut(rows, active) :
        \/ pc \in {"drain", "done"}
        \/ \E j \in DOMAIN rows : i < j /\ rows[i].c.exit <= rows[j].c.entry
        \/ pc = "close" /\ rows[i].c.exit <= Head(pending).entry

Bounded == MaxOpenPositions > 0 => Len(active) <= MaxOpenPositions

Ordered ==
    InOrder(rows) => WithinMax(rows) /\ SymbolsApart(rows) /\ NothingAhead(rows)

Chronological ==
    InOrder(rows) =>
        /\ \A k, l \in DOMAIN curve :
              k < l => rows[curve[k].row].c.exit <= rows[curve[l].row].c.exit
        /\ \A k \in DOMAIN curve : \A i \in Held(active) :
              rows[curve[k].row].c.exit <= rows[i].c.exit

Inv == TypeOK /\ Timely /\ Booked /\ Balanced /\ Settled /\ Bounded /\ Ordered /\ Chronological

-----------------------------------------------------------------------------
\* An account nobody has traded with yet.
LEMMA InvInit == Init => Inv
<1> SUFFICES ASSUME Init PROVE Inv
  OBVIOUS
<1> USE PaperAssumption DEF Init
<1>1. TypeOK
  BY DEF TypeOK, Executed
<1>2. Timely /\ Bounded
  BY DEF Timely, Bounded
<1>3. Taken(rows) = {} /\ Held(active) = {} /\ DOMAIN rows = {} /\ DOMAIN curve = {}
  BY DEF Taken, Held
<1>4. Booked /\ Settled /\ Chronological
  BY <1>3 DEF Booked, Settled, Chronological, Shut, Distinct
<1>5. Balanced
  <2>1. PnlOf(rows, {}) = Sum(Pnls(rows), {})
    BY PnlIsSum, FS_EmptySet
  <2>2. Sum(Pnls(rows), {}) = 0
    BY SumEmpty
  <2>3. Shut(rows, active) = {}
    BY <1>3 DEF Shut
  <2>4. QED
    BY <2>1, <2>2, <2>3 DEF Balanced
<1>6. Ordered
  <2>1. \A t \in Int : OpenIn(rows, t) = {}
    BY <1>3 DEF OpenIn
  <2>2. WithinMax(rows)
    BY <2>1, FS_EmptySet DEF WithinMax
  <2>3. QED
    BY <1>3, <2>2 DEF Ordered, SymbolsApart, NothingAhead
<1>7. QED
  BY <1>1, <1>2, <1>4, <1>5, <1>6 DEF Inv

\* What does not touch the account or the ledger keeps what is said of them.
LEMMA Kept ==
    ASSUME Balanced, Bounded, Ordered, Chronological,
           UNCHANGED <<settings, balance, active, rows, curve>>
    PROVE  (Balanced /\ Bounded /\ Ordered /\ Chronological)'
<1>1. /\ balance' = balance /\ active' = active /\ rows' = rows /\ curve' = curve
      /\ onePositionPerSymbol' = onePositionPerSymbol
  BY DEF settings
<1>2. Balanced' /\ Bounded'
  BY <1>1 DEF Balanced, Bounded
<1>3. Ordered'
  BY <1>1 DEF Ordered, WithinMax, SymbolsApart, NothingAhead
<1>4. Chronological'
  BY <1>1 DEF Chronological
<1>5. QED
  BY <1>2, <1>3, <1>4

\* The next candidate is looked at.
LEMMA TakeKeeps == ASSUME Inv, NEW c \in Arrivals, TakeCandidate(c) PROVE Inv'
<1> USE DEF Inv
<1>1. /\ pc = "next" /\ pc' = "close" /\ pending' = <<c>> /\ lastGen' = c.gen
      /\ balance' = balance /\ active' = active /\ rows' = rows /\ curve' = curve
      /\ report' = report /\ riskMode' = riskMode
      /\ onePositionPerSymbol' = onePositionPerSymbol
  BY DEF TakeCandidate, settings
<1>2. c \in Candidate /\ c.entry <= c.exit /\ c.gen \in Nat
  <2>1. lastGen \in Nat /\ MaxTime \in Nat
    BY PaperAssumption DEF TypeOK
  <2>2. c \in [symbol : Symbols, gen : lastGen..MaxTime, entry : 0..MaxTime,
               exit : 0..MaxTime, r : Rs, labelled : BOOLEAN] /\ c.entry <= c.exit
    BY DEF Arrivals
  <2>3. lastGen..MaxTime \subseteq Nat /\ 0..MaxTime \subseteq Nat
    BY <2>1
  <2>4. QED
    BY <2>2, <2>3 DEF Candidate
<1>3. TypeOK'
  <2>1. pending' \in Seq(Candidate) /\ Len(pending') = 1
    BY <1>1, <1>2
  <2>2. QED
    BY <1>1, <1>2, <2>1 DEF TypeOK, Executed
<1>4. Timely'
  BY <1>1, <1>2 DEF Timely
<1>5. Booked'
  BY <1>1 DEF Booked
<1>6. Settled'
  BY <1>1 DEF Settled
<1>7. QED
  BY <1>1, <1>3, <1>4, <1>5, <1>6, Kept DEF settings

\* There are no more candidates.
LEMMA EndKeeps == ASSUME Inv, TakeEnd PROVE Inv'
<1> USE DEF Inv
<1>1. /\ pc = "next" /\ pc' = "drain" /\ pending' = pending /\ lastGen' = lastGen
      /\ balance' = balance /\ active' = active /\ rows' = rows /\ curve' = curve
      /\ report' = report /\ riskMode' = riskMode
      /\ onePositionPerSymbol' = onePositionPerSymbol
  BY DEF TakeEnd, settings
<1>2. TypeOK'
  BY <1>1 DEF TypeOK, Executed
<1>3. Timely' /\ Booked' /\ Settled'
  BY <1>1 DEF Timely, Booked, Settled
<1>4. QED
  BY <1>1, <1>2, <1>3, Kept DEF settings

\* The report is written.
LEMMA ReportKeeps == ASSUME Inv, Report PROVE Inv'
<1> USE DEF Inv
<1>1. /\ pc = "drain" /\ active = <<>> /\ pc' = "done" /\ pending' = pending
      /\ report' = <<Overall>> /\ lastGen' = lastGen
      /\ balance' = balance /\ active' = active /\ rows' = rows /\ curve' = curve
      /\ riskMode' = riskMode /\ onePositionPerSymbol' = onePositionPerSymbol
  BY DEF Report, settings
<1>2. TypeOK'
  BY <1>1 DEF TypeOK, Executed
<1>3. Timely' /\ Booked' /\ Settled'
  BY <1>1 DEF Timely, Booked, Settled
<1>4. QED
  BY <1>1, <1>2, <1>3, Kept DEF settings

\* What the types of the variables say, in the terms of the invariant.
LEMMA Sorts ==
    ASSUME TypeOK
    PROVE  /\ rows \in Seq(Row) /\ DOMAIN rows = 1..Len(rows) /\ Len(rows) \in Nat
           /\ active \in Seq(Taken(rows)) /\ Taken(rows) \subseteq DOMAIN rows
           /\ DOMAIN active = 1..Len(active) /\ Len(active) \in Nat
           /\ Held(active) \subseteq Taken(rows)
           /\ curve \in Seq([row : Taken(rows), balance : Int])
           /\ DOMAIN curve = 1..Len(curve) /\ Len(curve) \in Nat
           /\ \A k \in DOMAIN curve : curve[k].row \in Taken(rows)
           /\ \A i \in DOMAIN rows : /\ rows[i].pnl \in Int
                                     /\ rows[i].c.entry \in Nat /\ rows[i].c.exit \in Nat
           /\ balance \in Int
<1>1. Executed = Taken(rows)
  BY DEF Executed, Taken
<1>2. rows \in Seq(Row) /\ DOMAIN rows = 1..Len(rows) /\ Len(rows) \in Nat /\ balance \in Int
  BY DEF TypeOK
<1>3. /\ active \in Seq(Taken(rows))
      /\ DOMAIN active = 1..Len(active) /\ Len(active) \in Nat
      /\ \A k \in DOMAIN active : active[k] \in Taken(rows)
  BY <1>1 DEF TypeOK
<1>4. Taken(rows) \subseteq DOMAIN rows /\ Held(active) \subseteq Taken(rows)
  BY <1>3 DEF Taken, Held
<1>5. /\ curve \in Seq([row : Taken(rows), balance : Int])
      /\ DOMAIN curve = 1..Len(curve) /\ Len(curve) \in Nat
  BY <1>1 DEF TypeOK
<1>6. \A k \in DOMAIN curve : curve[k].row \in Taken(rows)
  <2> SUFFICES ASSUME NEW k \in DOMAIN curve PROVE curve[k].row \in Taken(rows)
    OBVIOUS
  <2> DEFINE Point == [row : Taken(rows), balance : Int]
  <2>1. curve[k] \in Point
    <3>1. curve \in Seq(Point)
      BY <1>5
    <3> HIDE DEF Point
    <3>2. QED
      BY <3>1
  <2>2. QED
    BY <2>1
<1>7. \A i \in DOMAIN rows : /\ rows[i].pnl \in Int
                             /\ rows[i].c.entry \in Nat /\ rows[i].c.exit \in Nat
  BY <1>2, RowParts
<1>8. QED
  BY <1>2, <1>3, <1>4, <1>5, <1>6, <1>7

\* The trade that ends first is closed: it is no later than the ones that stay
\* open, and its profit goes from the open trades to the balance.
LEMMA CloseKeeps == ASSUME Inv, CloseDueTrade PROVE Inv'
<1> USE DEF Inv
<1>1. PICK k \in Due :
         /\ ClosedFirst(k)
         /\ balance' = balance + rows[active[k]].pnl
         /\ curve' = Append(curve, [row |-> active[k], balance |-> Money(balance')])
         /\ active' = Without(active, k)
         /\ UNCHANGED <<settings, pc, pending, lastGen, rows, report>>
  BY DEF CloseDueTrade, PendingPnl, Without
<1>2. /\ pc' = pc /\ pending' = pending /\ lastGen' = lastGen /\ rows' = rows
      /\ report' = report /\ riskMode' = riskMode
      /\ onePositionPerSymbol' = onePositionPerSymbol
  BY <1>1 DEF settings
<1> DEFINE x == active[k]
           T == Taken(rows)
           Point == [row : T, balance : Int]
           p == [row |-> x, balance |-> Money(balance')]
<1>3. /\ rows \in Seq(Row) /\ active \in Seq(T) /\ T \subseteq DOMAIN rows
      /\ Held(active) \subseteq T /\ curve \in Seq(Point)
      /\ \A i \in DOMAIN rows : /\ rows[i].pnl \in Int
                                /\ rows[i].c.entry \in Nat /\ rows[i].c.exit \in Nat
      /\ balance \in Int /\ \A l \in DOMAIN curve : curve[l].row \in T
      /\ DOMAIN curve = 1..Len(curve) /\ Len(curve) \in Nat
      /\ DOMAIN active = 1..Len(active) /\ Len(active) \in Nat
  BY Sorts
<1>4. k \in DOMAIN active /\ x \in Held(active) /\ x \in T /\ x \in DOMAIN rows /\ rows[x].pnl \in Int
  BY <1>1, <1>3 DEF Due, Held
<1>5. /\ active' \in Seq(T) /\ Len(active') = Len(active) - 1
      /\ Held(active') = Held(active) \ {x} /\ Distinct(active')
  <2>1. Distinct(active)
    BY DEF Booked
  <2> HIDE DEF T
  <2>2. QED
    BY <1>1, <1>3, <1>4, <2>1, WithoutOne
<1>6. Shut(rows', active') = Shut(rows, active) \cup {x}
  BY <1>2, <1>3, <1>4, <1>5 DEF Shut
<1>7. x \notin Shut(rows, active) /\ Shut(rows, active) \subseteq DOMAIN rows
  BY <1>3, <1>4 DEF Shut
<1> HIDE DEF x
<1>8. p \in Point /\ balance' \in Int
  <2>1. balance' \in Int
    BY <1>1, <1>3, <1>4 DEF x
  <2>2. Money(balance') \in Int
    BY <2>1, MoneyNear
  <2>3. QED
    BY <1>4, <2>1, <2>2
<1>9. /\ curve' \in Seq(Point) /\ Len(curve') = Len(curve) + 1
      /\ DOMAIN curve' = 1..(Len(curve) + 1)
      /\ \A l \in DOMAIN curve : curve'[l] = curve[l]
      /\ curve'[Len(curve) + 1].row = x
      /\ \A l \in DOMAIN curve' : l \in DOMAIN curve \/ l = Len(curve) + 1
  <2>1. curve' = Append(curve, p)
    BY <1>1 DEF x
  <2>2. p.row = x
    OBVIOUS
  <2> HIDE DEF Point, p
  <2>3. QED
    BY <1>3, <1>8, <2>1, <2>2
<1> HIDE DEF T, p
<1>10. TypeOK'
  <2>1. Executed' = T /\ Executed = T
    BY <1>2 DEF Executed, T, Taken
  <2>2. active' \in Seq(Executed') /\ curve' \in Seq([row : Executed', balance : Int])
    BY <1>5, <1>9, <2>1
  <2>3. QED
    BY <1>2, <1>8, <2>2 DEF TypeOK
<1>11. Timely'
  BY <1>2 DEF Timely
<1>12. Booked'
  <2>1. \A l \in DOMAIN curve' : curve'[l].row \notin Held(active')
    BY <1>5, <1>9 DEF Booked
  <2>2. \A l \in DOMAIN curve : curve[l].row # x
    BY <1>4 DEF Booked
  <2>3. \A l, m \in DOMAIN curve' : curve'[l].row = curve'[m].row => l = m
    BY <1>9, <2>2 DEF Booked
  <2>4. \A i \in Shut(rows', active') : \E l \in DOMAIN curve' : curve'[l].row = i
    <3> SUFFICES ASSUME NEW i \in Shut(rows', active')
                 PROVE  \E l \in DOMAIN curve' : curve'[l].row = i
      OBVIOUS
    <3>1. CASE i = x
      <4>1. Len(curve) + 1 \in DOMAIN curve'
        BY <1>3, <1>9
      <4>2. QED
        BY <1>9, <3>1, <4>1
    <3>2. CASE i # x
      <4>1. PICK l \in DOMAIN curve : curve[l].row = i
        BY <1>6, <3>2 DEF Booked
      <4>2. l \in DOMAIN curve'
        BY <1>3, <1>9
      <4>3. QED
        BY <1>9, <4>1, <4>2
    <3>3. QED
      BY <3>1, <3>2
  <2>5. pc # "done"
    BY <1>1 DEF Due, IsDue
  <2>6. QED
    BY <1>2, <1>5, <2>1, <2>3, <2>4, <2>5 DEF Booked
<1>13. Balanced'
  <2>1. /\ PnlOf(rows, Shut(rows, active)) \in Int
        /\ PnlOf(rows, Shut(rows, active) \cup {x})
             = PnlOf(rows, Shut(rows, active)) + rows[x].pnl
    BY <1>3, <1>4, <1>7, PnlPut
  <2>2. StartingBalance \in Int
    BY PaperAssumption
  <2>3. balance = StartingBalance + PnlOf(rows, Shut(rows, active))
    BY DEF Balanced
  <2>4. balance' = balance + rows[x].pnl
    BY <1>1 DEF x
  <2>5. PnlOf(rows', Shut(rows', active')) = PnlOf(rows, Shut(rows, active)) + rows[x].pnl
    BY <1>2, <1>6, <2>1
  <2>6. rows[x].pnl \in Int
    BY <1>4 DEF x
  <2>7. balance' = StartingBalance + PnlOf(rows', Shut(rows', active'))
    BY <2>1, <2>2, <2>3, <2>4, <2>5, <2>6
  <2>8. QED
    BY <2>7 DEF Balanced
<1>14. Settled'
  <2>1. ASSUME NEW i \in Shut(rows, active) \cup {x}
        PROVE  \/ pc \in {"drain", "done"}
               \/ \E j \in DOMAIN rows : i < j /\ rows[i].c.exit <= rows[j].c.entry
               \/ pc = "close" /\ rows[i].c.exit <= Head(pending).entry
    <3>1. CASE i = x
      BY <1>1, <3>1 DEF Due, IsDue, Exit, x
    <3>2. CASE i # x
      BY <2>1, <3>2 DEF Settled
    <3>3. QED
      BY <3>1, <3>2
  <2>2. QED
    BY <1>2, <1>6, <2>1 DEF Settled
<1>15. Bounded'
  BY <1>3, <1>5, PaperAssumption DEF Bounded
<1>16. Ordered'
  BY <1>2 DEF Ordered, WithinMax, SymbolsApart, NothingAhead
<1>17. Chronological'
  <2> SUFFICES ASSUME InOrder(rows)
               PROVE  /\ \A l, m \in DOMAIN curve' :
                            l < m => rows[curve'[l].row].c.exit <= rows[curve'[m].row].c.exit
                      /\ \A l \in DOMAIN curve' : \A i \in Held(active') :
                            rows[curve'[l].row].c.exit <= rows[i].c.exit
    BY <1>2 DEF Chronological
  <2>1. \A l \in DOMAIN curve : \A i \in Held(active) :
            rows[curve[l].row].c.exit <= rows[i].c.exit
    BY DEF Chronological
  <2>2. \A i \in Held(active) : rows[x].c.exit <= rows[i].c.exit
    <3> SUFFICES ASSUME NEW m \in DOMAIN active
                 PROVE  rows[x].c.exit <= rows[active[m]].c.exit
      BY DEF Held
    <3>1. active[m] \in DOMAIN rows
      BY <1>3 DEF Held
    <3> DEFINE a == rows[x].c.exit
               b == rows[active[m]].c.exit
               e == Head(pending).entry
    <3>2. a \in Nat /\ b \in Nat
      BY <1>3, <1>4, <3>1
    <3>3. CASE m \in Due
      <4>1. m # k => a < b \/ a = b
        BY <1>1, <3>3 DEF ClosedFirst, Exit, x
      <4>2. m = k => a = b
        BY DEF x
      <4> HIDE DEF a, b
      <4>3. QED
        BY <3>2, <4>1, <4>2 DEF a, b
    <3>4. CASE m \notin Due
      <4>1. pc = "close" /\ a <= e /\ ~(b <= e)
        BY <1>1, <3>4 DEF Due, IsDue, Exit, x
      <4>2. e \in Nat
        <5>1. pending \in Seq(Candidate) /\ Len(pending) = 1
          BY <4>1 DEF TypeOK
        <5>2. Head(pending) \in Candidate
          BY <5>1
        <5>3. QED
          BY <5>2 DEF Candidate
      <4> HIDE DEF a, b, e
      <4>3. QED
        BY <3>2, <4>1, <4>2 DEF a, b
    <3>5. QED
      BY <3>3, <3>4
  <2>3. \A l \in DOMAIN curve : rows[curve[l].row].c.exit <= rows[x].c.exit
    BY <1>4, <2>1
  <2>4. \A l, m \in DOMAIN curve :
            l < m => rows[curve[l].row].c.exit <= rows[curve[m].row].c.exit
    BY DEF Chronological
  <2>5. \A l, m \in DOMAIN curve' :
            l < m => rows[curve'[l].row].c.exit <= rows[curve'[m].row].c.exit
    <3> SUFFICES ASSUME NEW l \in DOMAIN curve', NEW m \in DOMAIN curve', l < m
                 PROVE  rows[curve'[l].row].c.exit <= rows[curve'[m].row].c.exit
      OBVIOUS
    <3>1. l \in DOMAIN curve
      BY <1>3, <1>9
    <3>2. CASE m \in DOMAIN curve
      BY <1>9, <2>4, <3>1, <3>2
    <3>3. CASE m = Len(curve) + 1
      BY <1>9, <2>3, <3>1, <3>3
    <3>4. QED
      BY <1>9, <3>2, <3>3
  <2>6. \A l \in DOMAIN curve' : \A i \in Held(active') :
            rows[curve'[l].row].c.exit <= rows[i].c.exit
    BY <1>5, <1>9, <2>1, <2>2
  <2>7. QED
    BY <2>5, <2>6
<1>18. QED
  BY <1>10, <1>11, <1>12, <1>13, <1>14, <1>15, <1>16, <1>17

\* A candidate is executed or skipped.  Nothing is due, so the open trades are
\* those that end after its entry, and when the entries come in order the closed
\* ones are exactly those that end by it.
LEMMA DecideKeeps == ASSUME Inv, DecideCandidate PROVE Inv'
<1> USE DEF Inv
<1> DEFINE n == Len(rows) + 1
           c == Head(pending)
           skip == SkipReason
           gain == IF skip = "" THEN RiskAmount * c.r ELSE 0
           row == [c |-> c, skip |-> skip, before |-> Money(balance), pnl |-> gain]
           T == Taken(rows)
           U == Taken(rows')
           Point == [row : T, balance : Int]
<1>1. /\ pc = "close" /\ Due = {} /\ rows' = Append(rows, row)
      /\ active' = (IF skip = "" THEN Append(active, n) ELSE active)
      /\ pending' = <<>> /\ pc' = "next"
      /\ lastGen' = lastGen /\ balance' = balance /\ curve' = curve /\ report' = report
      /\ riskMode' = riskMode /\ onePositionPerSymbol' = onePositionPerSymbol
  BY DEF DecideCandidate, settings
<1>2. /\ rows \in Seq(Row) /\ DOMAIN rows = 1..Len(rows) /\ Len(rows) \in Nat
      /\ active \in Seq(T) /\ T \subseteq DOMAIN rows /\ Held(active) \subseteq T
      /\ DOMAIN active = 1..Len(active) /\ Len(active) \in Nat
      /\ curve \in Seq(Point)
      /\ \A i \in DOMAIN rows : /\ rows[i].pnl \in Int
                                /\ rows[i].c.entry \in Nat /\ rows[i].c.exit \in Nat
      /\ balance \in Int /\ \A l \in DOMAIN curve : curve[l].row \in T
  BY Sorts
<1>3. c \in Candidate /\ c.entry \in Nat /\ c.exit \in Nat /\ c.r \in Int /\ c.entry <= c.exit
  <2>1. pending \in Seq(Candidate) /\ Len(pending) = 1
    BY <1>1 DEF TypeOK
  <2>2. c \in Candidate /\ c = pending[1] /\ 1 \in DOMAIN pending
    BY <2>1
  <2>3. c.entry <= c.exit
    BY <2>2 DEF Timely
  <2>4. QED
    BY <2>2, <2>3, PaperAssumption DEF Candidate
<1>4. RiskAmount \in Int
  <2> DEFINE a == (balance * RiskPct) \div 100
  <2>1. a \in Int
    BY <1>2, PaperAssumption
  <2> HIDE DEF a
  <2>2. \E y \in {0, a} : \A z \in {0, a} : y >= z
    <3>1. CASE a >= 0
      BY <2>1, <3>1
    <3>2. CASE ~(a >= 0)
      BY <2>1, <3>2
    <3>3. QED
      BY <3>1, <3>2
  <2>3. Max({0, a}) \in {0, a}
    BY <2>2 DEF Max
  <2>4. Max({0, a}) \in Int
    BY <2>1, <2>3
  <2>5. RiskPerTrade \in Int
    BY PaperAssumption
  <2>6. QED
    BY <2>4, <2>5 DEF RiskAmount, a
<1>5. row \in Row
  <2>1. skip \in Skips
    BY DEF SkipReason, Skips
  <2>2. gain \in Int
    <3> DEFINE a == RiskAmount
               b == c.r
    <3>1. a \in Int /\ b \in Int
      BY <1>3, <1>4
    <3> HIDE DEF a, b
    <3>2. a * b \in Int
      BY <3>1
    <3>3. RiskAmount * c.r \in Int
      BY <3>2 DEF a, b
    <3> DEFINE product == RiskAmount * c.r
               taken == skip = ""
    <3>4. product \in Int /\ gain = IF taken THEN product ELSE 0
      BY <3>3
    <3> HIDE DEF skip, c, gain, product, taken
    <3>5. QED
      BY <3>4
  <2>3. Money(balance) \in Int
    BY <1>2, MoneyNear
  <2> HIDE DEF c, skip, gain
  <2>4. QED
    BY <1>3, <2>1, <2>2, <2>3 DEF Row
<1>6. row.c = c /\ row.skip = skip /\ row.before = Money(balance) /\ row.pnl = gain
  OBVIOUS
<1> HIDE DEF row
<1>7. /\ rows' \in Seq(Row) /\ DOMAIN rows' = 1..n /\ Len(rows') = n /\ n \in Nat
      /\ rows'[n] = row /\ \A i \in DOMAIN rows : rows'[i] = rows[i]
      /\ DOMAIN rows \subseteq DOMAIN rows' /\ n \in DOMAIN rows' /\ n \notin DOMAIN rows
      /\ \A i \in DOMAIN rows' : i \in DOMAIN rows \/ i = n
      /\ \A i \in DOMAIN rows : i < n /\ ~(n < i)
  <2>1. rows \in Seq(Row) /\ row \in Row /\ rows' = Append(rows, row)
    BY <1>1, <1>2, <1>5
  <2>2. rows' \in Seq(Row) /\ Len(rows') = n /\ n \in Nat
    BY <2>1, AppendParts
  <2>3. rows'[n] = row /\ \A i \in DOMAIN rows : rows'[i] = rows[i]
    BY <2>1, AppendParts
  <2>4. DOMAIN rows' = 1..n
    BY <2>2
  <2>5. QED
    BY <1>2, <2>2, <2>3, <2>4
<1>8. InOrder(rows') =>
         InOrder(rows) /\ \A i \in DOMAIN rows : rows[i].c.entry <= c.entry
  <2> HIDE DEF n, c
  <2>1. QED
    BY <1>6, <1>7 DEF InOrder
<1>9. \A m \in DOMAIN active : ~(rows[active[m]].c.exit <= c.entry)
  BY <1>1 DEF Due, IsDue, Exit
<1>10. \A i \in Shut(rows, active) :
          \/ rows[i].c.exit <= c.entry
          \/ \E j \in DOMAIN rows : i < j /\ rows[i].c.exit <= rows[j].c.entry
  BY <1>1 DEF Settled
<1>11. U = IF skip = "" THEN T \cup {n} ELSE T
  <2> HIDE DEF n, skip
  <2>1. QED
    BY <1>6, <1>7 DEF Taken
<1>12. T \subseteq U /\ n \notin T
  BY <1>2, <1>7, <1>11
<1> HIDE DEF n, c, skip, gain, T, U, Point
<1>13. /\ active' \in Seq(U) /\ Distinct(active')
       /\ Held(active') = IF skip = "" THEN Held(active) \cup {n} ELSE Held(active)
       /\ Len(active') = IF skip = "" THEN Len(active) + 1 ELSE Len(active)
  <2>1. Distinct(active) /\ active \in Seq(U) /\ n \notin Held(active)
    BY <1>2, <1>12, SeqOfMore DEF Booked
  <2>2. CASE skip = ""
    <3>1. n \in U
      BY <1>11, <2>2
    <3>2. active' = Append(active, n)
      BY <1>1, <2>2
    <3>3. /\ Append(active, n) \in Seq(U) /\ Distinct(Append(active, n))
          /\ Held(Append(active, n)) = Held(active) \cup {n}
          /\ Len(Append(active, n)) = Len(active) + 1
      BY <2>1, <3>1, AppendOne
    <3>4. QED
      BY <2>2, <3>2, <3>3
  <2>3. CASE skip # ""
    BY <1>1, <2>1, <2>3
  <2>4. QED
    BY <2>2, <2>3
<1>14. Shut(rows', active') = Shut(rows, active)
  BY <1>2, <1>11, <1>12, <1>13 DEF Shut, T, U
<1>15. Shut(rows, active) \subseteq T
  BY DEF Shut, T
<1>16. pending' = <<>>
  BY <1>1
<1>17. TypeOK'
  <2>1. Executed' = U
    BY DEF Executed, U, Taken
  <2>2. curve \in Seq([row : U, balance : Int])
    <3> DEFINE Wider == [row : U, balance : Int]
    <3>1. Point \subseteq Wider
      BY <1>12 DEF Point
    <3> HIDE DEF Wider
    <3>2. curve \in Seq(Wider)
      BY <1>2, <3>1, SeqOfMore
    <3>3. QED
      BY <3>2 DEF Wider
  <2>3. pending' \in Seq(Candidate) /\ Len(pending') = 0
    BY <1>16
  <2>4. active' \in Seq(Executed') /\ curve' \in Seq([row : Executed', balance : Int])
    BY <1>1, <1>13, <2>1, <2>2
  <2>5. Len(report') = 0
    BY <1>1 DEF TypeOK
  <2>6. balance' \in Int /\ rows' \in Seq(Row) /\ lastGen' \in Nat /\ pc' = "next"
    BY <1>1, <1>2, <1>7 DEF TypeOK
  <2>7. riskMode' \in RiskModes /\ onePositionPerSymbol' \in OnePositionChoices
    BY <1>1 DEF TypeOK
  <2>8. QED
    BY <2>3, <2>4, <2>5, <2>6, <2>7 DEF TypeOK
<1>18. Timely'
  <2>1. DOMAIN pending' = {}
    BY <1>16
  <2>2. \A i \in DOMAIN rows : rows[i].c.entry <= rows[i].c.exit
    BY DEF Timely
  <2>3. \A i \in DOMAIN rows' : rows'[i].c.entry <= rows'[i].c.exit
    BY <1>3, <1>6, <1>7, <2>2
  <2>4. QED
    BY <2>1, <2>3 DEF Timely
<1>19. Booked'
  <2>1. \A l \in DOMAIN curve : curve[l].row \notin Held(active) /\ curve[l].row # n
    BY <1>2, <1>12 DEF Booked
  <2>2. \A l \in DOMAIN curve : curve[l].row \notin Held(active')
    <3>1. CASE skip = ""
      BY <1>13, <2>1, <3>1
    <3>2. CASE skip # ""
      BY <1>13, <2>1, <3>2
    <3>3. QED
      BY <3>1, <3>2
  <2>3. QED
    BY <1>1, <1>13, <1>14, <2>2 DEF Booked
<1>20. ASSUME NEW S, S \subseteq DOMAIN rows PROVE PnlOf(rows', S) = PnlOf(rows, S)
  <2>1. S \subseteq DOMAIN rows' /\ \A i \in S : rows'[i] = rows[i]
    BY <1>7, <1>20
  <2>2. rows \in Seq(Row) /\ rows' \in Seq(Row)
    BY <1>2, <1>7
  <2>3. QED
    BY <1>20, <2>1, <2>2, PnlSame
<1>21. PnlOf(rows', Shut(rows, active)) = PnlOf(rows, Shut(rows, active))
  <2>1. Shut(rows, active) \subseteq DOMAIN rows
    BY <1>2, <1>15
  <2>2. QED
    BY <1>20, <2>1
<1>22. Balanced'
  BY <1>1, <1>14, <1>21 DEF Balanced
<1>23. Settled'
  <2> SUFFICES ASSUME NEW i \in Shut(rows, active)
               PROVE  \E j \in DOMAIN rows' : i < j /\ rows'[i].c.exit <= rows'[j].c.entry
    BY <1>14 DEF Settled
  <2>1. i \in DOMAIN rows
    BY <1>2, <1>15
  <2>2. CASE rows[i].c.exit <= c.entry
    BY <1>6, <1>7, <2>1, <2>2
  <2>3. CASE \E j \in DOMAIN rows : i < j /\ rows[i].c.exit <= rows[j].c.entry
    BY <1>7, <2>1, <2>3
  <2>4. QED
    BY <1>10, <2>2, <2>3
<1>24. MaxOpenPositions > 0 /\ skip = "" => Len(active) < MaxOpenPositions
  BY <1>2, PaperAssumption DEF skip, SkipReason
<1>25. Bounded' /\ Len(active') \in Nat
  <2>1. MaxOpenPositions \in Nat /\ Len(active) \in Nat
    BY <1>2, PaperAssumption
  <2>2. MaxOpenPositions > 0 => Len(active) <= MaxOpenPositions
    BY DEF Bounded
  <2>3. CASE skip = ""
    <3>1. Len(active') = Len(active) + 1
      BY <1>13, <2>3
    <3>2. MaxOpenPositions > 0 => Len(active) < MaxOpenPositions
      BY <1>24, <2>3, Zenon
    <3>3. MaxOpenPositions > 0 => Len(active') <= MaxOpenPositions
      BY <2>1, <3>1, <3>2
    <3>4. QED
      BY <2>1, <3>1, <3>3 DEF Bounded
  <2>4. CASE skip # ""
    <3>1. Len(active') = Len(active)
      BY <1>13, <2>4
    <3>2. MaxOpenPositions > 0 => Len(active') <= MaxOpenPositions
      BY <2>2, <3>1
    <3>3. QED
      BY <2>1, <3>1, <3>2 DEF Bounded
  <2>5. QED
    BY <2>3, <2>4
<1>26. InOrder(rows') => \A i \in Shut(rows, active) : rows[i].c.exit <= c.entry
  <2> SUFFICES ASSUME InOrder(rows'), NEW i \in Shut(rows, active)
               PROVE  rows[i].c.exit <= c.entry
    OBVIOUS
  <2>1. CASE \E j \in DOMAIN rows : i < j /\ rows[i].c.exit <= rows[j].c.entry
    <3>1. PICK j \in DOMAIN rows : rows[i].c.exit <= rows[j].c.entry
      BY <2>1
    <3>2. rows[j].c.entry <= c.entry
      BY <1>8
    <3>3. i \in DOMAIN rows
      BY <1>2, <1>15
    <3>4. QED
      BY <1>2, <1>3, <3>1, <3>2, <3>3
  <2>2. QED
    BY <1>10, <2>1
<1>27. \A i \in T : /\ i \in DOMAIN rows /\ rows'[i] = rows[i] /\ i < n
                    /\ rows[i].c.entry \in Nat /\ rows[i].c.exit \in Nat
  BY <1>2, <1>7
<1>28. \A i \in U : i \in T \/ (i = n /\ skip = "")
  BY <1>11
<1>29. \A i, j \in U : i < j => i \in T
  <2> SUFFICES ASSUME NEW i \in U, NEW j \in U, i < j, i \notin T PROVE FALSE
    OBVIOUS
  <2>1. i = n /\ n \in Nat
    BY <1>7, <1>28
  <2>2. CASE j \in T
    <3>1. j \in DOMAIN rows
      BY <1>27, <2>2
    <3>2. ~(n < j)
      BY <1>7, <3>1
    <3>3. QED
      BY <2>1, <3>2
  <2>3. CASE j = n
    BY <2>1, <2>3
  <2>4. QED
    BY <1>28, <2>2, <2>3
<1>30. InOrder(rows') => WithinMax(rows')
  <2> SUFFICES ASSUME InOrder(rows'), MaxOpenPositions > 0, NEW t \in Int
               PROVE  Cardinality(OpenIn(rows', t)) <= MaxOpenPositions
    BY DEF WithinMax
  <2>1. CASE skip = "" /\ c.entry <= t
    <3>1. OpenIn(rows', t) \subseteq Held(active')
      <4> SUFFICES ASSUME NEW i \in U, t < rows'[i].c.exit, i \in T, i \notin Held(active)
                   PROVE  FALSE
        BY <1>13, <1>28, <2>1 DEF OpenIn, U
      <4>1. rows[i].c.exit <= c.entry
        BY <1>26 DEF Shut, T
      <4> DEFINE a == rows[i].c.exit
                 e == c.entry
      <4>2. a \in Nat /\ e \in Nat /\ a <= e /\ e <= t /\ t < a
        BY <1>3, <1>27, <2>1, <4>1
      <4> HIDE DEF a, e
      <4>3. QED
        BY <4>2
    <3>2. /\ Cardinality(OpenIn(rows', t)) \in Nat
          /\ Cardinality(OpenIn(rows', t)) <= Len(active')
      BY <1>13, <3>1, HeldCount
    <3>3. Len(active') <= MaxOpenPositions /\ Len(active') \in Nat
      BY <1>25 DEF Bounded
    <3>4. QED
      BY <3>2, <3>3, PaperAssumption
  <2>2. CASE ~(skip = "" /\ c.entry <= t)
    <3>1. \A i \in U : rows'[i].c.entry <= t => i \in T
      BY <1>6, <1>7, <1>28, <2>2
    <3>2. OpenIn(rows', t) = OpenIn(rows, t)
      BY <1>12, <1>27, <3>1 DEF OpenIn, T, U
    <3>3. WithinMax(rows)
      BY <1>8 DEF Ordered
    <3>4. QED
      BY <3>2, <3>3 DEF WithinMax
  <2>3. QED
    BY <2>1, <2>2
<1>31. InOrder(rows') => SymbolsApart(rows)'
  <2> SUFFICES ASSUME InOrder(rows'), onePositionPerSymbol, NEW i \in U, NEW j \in U, i < j,
                      rows'[i].c.symbol = rows'[j].c.symbol
               PROVE  rows'[i].c.exit <= rows'[j].c.entry
    BY <1>1 DEF SymbolsApart, U
  <2>1. i \in T
    BY <1>29
  <2>2. CASE j \in T
    <3>1. SymbolsApart(rows)
      BY <1>8 DEF Ordered
    <3>2. QED
      BY <1>27, <2>1, <2>2, <3>1 DEF SymbolsApart, T
  <2>3. CASE j = n /\ skip = ""
    <3>1. rows[i].c.symbol = c.symbol
      BY <1>6, <1>7, <1>27, <2>1, <2>3
    <3>2. \A m \in DOMAIN active : rows[active[m]].c.symbol # c.symbol
      BY <2>3 DEF skip, c, SkipReason
    <3>3. i \notin Held(active)
      BY <3>1, <3>2 DEF Held
    <3>4. rows[i].c.exit <= c.entry
      BY <1>26, <2>1, <3>3 DEF Shut, T
    <3>5. QED
      BY <1>6, <1>7, <1>27, <2>1, <2>3, <3>4
  <2>4. QED
    BY <1>28, <2>2, <2>3
<1>32. InOrder(rows') => NothingAhead(rows')
  <2> SUFFICES ASSUME InOrder(rows'), NEW j \in U
               PROVE  rows'[j].before = Money(StartingBalance + PnlOf(rows', EarlierIn(rows', j)))
    BY DEF NothingAhead, U
  <2>1. CASE j \in T
    <3>1. \A i \in U : i < j => i \in T
      BY <1>29
    <3>2. EarlierIn(rows', j) = EarlierIn(rows, j)
      BY <1>12, <1>27, <2>1, <3>1 DEF EarlierIn, T, U
    <3>3. EarlierIn(rows, j) \subseteq DOMAIN rows
      BY <1>27 DEF EarlierIn, T
    <3>4. PnlOf(rows', EarlierIn(rows, j)) = PnlOf(rows, EarlierIn(rows, j))
      BY <1>20, <3>3
    <3>5. NothingAhead(rows)
      BY <1>8 DEF Ordered
    <3>6. rows[j].before = Money(StartingBalance + PnlOf(rows, EarlierIn(rows, j)))
      BY <2>1, <3>5 DEF NothingAhead, T
    <3>7. QED
      BY <1>27, <2>1, <3>2, <3>4, <3>6
  <2>2. CASE j = n /\ skip = ""
    <3>1. EarlierIn(rows', n) = Shut(rows, active)
      <4>1. ASSUME NEW i \in EarlierIn(rows', n) PROVE i \in Shut(rows, active)
        <5>1. i \in U /\ i < n /\ rows'[i].c.exit <= rows'[n].c.entry
          BY DEF EarlierIn, U
        <5>2. i \in T
          BY <1>29, <2>2, <5>1
        <5>3. i \in T /\ rows[i].c.exit <= c.entry
          BY <1>6, <1>7, <1>27, <5>2, <5>1
        <5>4. i \notin Held(active)
          BY <1>9, <5>3 DEF Held
        <5>5. QED
          BY <5>3, <5>4 DEF Shut, T
      <4>2. ASSUME NEW i \in Shut(rows, active) PROVE i \in EarlierIn(rows', n)
        <5>1. i \in T /\ rows[i].c.exit <= c.entry
          BY <1>15, <1>26
        <5>2. i \in U /\ i < n /\ rows'[i] = rows[i] /\ rows'[n].c = c
          BY <1>6, <1>7, <1>12, <1>27, <5>1
        <5>3. QED
          BY <5>1, <5>2 DEF EarlierIn, U
      <4>3. QED
        BY <4>1, <4>2
    <3>2. rows'[n].before = Money(balance)
      BY <1>6, <1>7
    <3>3. QED
      BY <1>21, <2>2, <3>1, <3>2 DEF Balanced
  <2>3. QED
    BY <1>28, <2>1, <2>2
<1>33. Ordered'
  BY <1>30, <1>31, <1>32 DEF Ordered, WithinMax, NothingAhead
<1>34. Chronological'
  <2> SUFFICES ASSUME InOrder(rows')
               PROVE  /\ \A k, l \in DOMAIN curve :
                            k < l => rows'[curve[k].row].c.exit <= rows'[curve[l].row].c.exit
                      /\ \A k \in DOMAIN curve : \A i \in Held(active') :
                            rows'[curve[k].row].c.exit <= rows'[i].c.exit
    BY <1>1 DEF Chronological
  <2>1. \A k \in DOMAIN curve : rows'[curve[k].row] = rows[curve[k].row]
    BY <1>2, <1>27
  <2>2. \A k, l \in DOMAIN curve :
           k < l => rows[curve[k].row].c.exit <= rows[curve[l].row].c.exit
    BY <1>8 DEF Chronological
  <2>3. ASSUME NEW k \in DOMAIN curve, NEW i \in Held(active')
        PROVE  rows[curve[k].row].c.exit <= rows'[i].c.exit
    <3>1. CASE i \in Held(active)
      <4>1. rows'[i] = rows[i]
        BY <1>2, <1>27, <3>1
      <4>2. QED
        BY <1>8, <3>1, <4>1 DEF Chronological
    <3>2. CASE i = n
      <4> DEFINE a == rows[curve[k].row].c.exit
                 e == c.entry
                 x == c.exit
      <4>1. curve[k].row \in T /\ curve[k].row \notin Held(active)
        BY <1>2 DEF Booked
      <4>2. a <= e
        BY <1>26, <4>1 DEF Shut, T
      <4>3. a \in Nat /\ e \in Nat /\ x \in Nat /\ e <= x
        BY <1>3, <1>27, <4>1
      <4>4. rows'[i].c.exit = x
        BY <1>6, <1>7, <3>2
      <4> HIDE DEF a, e, x
      <4>5. a <= x
        BY <4>2, <4>3
      <4>6. QED
        BY <4>4, <4>5 DEF a
    <3>3. QED
      BY <1>13, <3>1, <3>2
  <2>4. QED
    BY <2>1, <2>2, <2>3
<1>35. QED
  BY <1>17, <1>18, <1>19, <1>22, <1>23, <1>25, <1>33, <1>34

-----------------------------------------------------------------------------
\* The invariant is inductive.
THEOREM Invariance == Spec => []Inv
<1>1. Init => Inv
  BY InvInit
<1>2. Inv /\ [Next]_vars => Inv'
  <2> SUFFICES ASSUME Inv, [Next]_vars PROVE Inv'
    OBVIOUS
  <2>1. CASE \E c \in Arrivals : TakeCandidate(c)
    BY <2>1, TakeKeeps
  <2>2. CASE TakeEnd
    BY <2>2, EndKeeps
  <2>3. CASE CloseDueTrade
    BY <2>3, CloseKeeps
  <2>4. CASE DecideCandidate
    BY <2>4, DecideKeeps
  <2>5. CASE Report
    BY <2>5, ReportKeeps
  <2>6. CASE UNCHANGED vars
    <3>1. /\ pc' = pc /\ pending' = pending /\ lastGen' = lastGen /\ report' = report
          /\ balance' = balance /\ active' = active /\ rows' = rows /\ curve' = curve
          /\ riskMode' = riskMode /\ onePositionPerSymbol' = onePositionPerSymbol
      BY <2>6 DEF vars, settings
    <3>2. TypeOK'
      BY <3>1 DEF Inv, TypeOK, Executed
    <3>3. Timely' /\ Booked' /\ Settled'
      BY <3>1 DEF Inv, Timely, Booked, Settled
    <3>4. QED
      BY <3>1, <3>2, <3>3, Kept DEF Inv, settings
  <2>7. QED
    BY <2>1, <2>2, <2>3, <2>4, <2>5, <2>6 DEF Next
<1>3. QED
  BY <1>1, <1>2, PTL DEF Spec

\* Every variable keeps its type in every run.
THEOREM TypesAlways == Spec => []TypeOK
BY Invariance, PTL DEF Inv

\* Once the last trade is closed, each executed trade is on the curve once, and
\* the balance is the starting balance and every executed trade's profit.
THEOREM LedgerAlwaysBalances == Spec => []LedgerBalances
<1>1. Inv => LedgerBalances
  <2> SUFFICES ASSUME Inv, pc = "done"
               PROVE  /\ \A i \in Executed :
                            Cardinality({k \in DOMAIN curve : curve[k].row = i}) = 1
                      /\ balance = StartingBalance + Moved(Executed)
    BY DEF LedgerBalances
  <2>1. Executed = Taken(rows)
    BY DEF Executed, Taken
  <2>2. Held(active) = {}
    BY DEF Inv, Booked, Held
  <2>3. Shut(rows, active) = Executed
    BY <2>1, <2>2 DEF Shut
  <2>4. ASSUME NEW i \in Executed
        PROVE  Cardinality({k \in DOMAIN curve : curve[k].row = i}) = 1
    <3>1. PICK k \in DOMAIN curve : curve[k].row = i
      BY <2>3 DEF Inv, Booked
    <3>2. {l \in DOMAIN curve : curve[l].row = i} = {k}
      BY <3>1 DEF Inv, Booked
    <3>3. QED
      BY <3>2, FS_Singleton
  <2>5. balance = StartingBalance + Moved(Executed)
    BY <2>3 DEF Inv, Balanced, Moved, PnlOf
  <2>6. QED
    BY <2>4, <2>5
<1>2. QED
  BY <1>1, Invariance, PTL

\* When signals fill in the order they were generated, the intervals in the
\* ledger keep the limit on open positions and the one position per symbol.
THEOREM OrderedLimitsAlways == Spec => []OrderedLimits
<1>1. Inv => OrderedLimits
  <2> SUFFICES ASSUME Inv, EntriesOrdered
               PROVE  /\ PositionsLimited
                      /\ onePositionPerSymbol =>
                           \A i, j \in Executed :
                              i < j /\ rows[i].c.symbol = rows[j].c.symbol
                                 => Exit(i) <= Entry(j)
    BY DEF OrderedLimits, OrderedPositionsLimited, OrderedSymbolsApart
  <2>1. InOrder(rows)
    BY DEF EntriesOrdered, InOrder, Entry
  <2>2. WithinMax(rows) /\ SymbolsApart(rows)
    BY <2>1 DEF Inv, Ordered
  <2>3. \A t : OpenAt(t) = OpenIn(rows, t)
    BY DEF OpenAt, OpenIn, Executed, Taken, Entry, Exit
  <2>4. PositionsLimited
    <3>1. 0..MaxTime \subseteq Int
      BY PaperAssumption
    <3>2. QED
      BY <2>2, <2>3, <3>1 DEF PositionsLimited, WithinMax
  <2>5. QED
    BY <2>2, <2>4 DEF SymbolsApart, Executed, Taken, Entry, Exit
<1>2. QED
  BY <1>1, Invariance, PTL

\* Then every trade is sized with the account as it stood at its entry, and the
\* equity curve is in the order of time.
THEOREM OrderedBalancesAlways == Spec => []OrderedBalances
<1>1. Inv => OrderedBalances
  <2> SUFFICES ASSUME Inv, EntriesOrdered
               PROVE  /\ \A j \in Executed :
                            rows[j].before =
                               Money(StartingBalance
                                     + Moved({i \in Executed : i < j /\ Exit(i) <= Entry(j)}))
                      /\ \A k, l \in DOMAIN curve :
                            k < l => Exit(curve[k].row) <= Exit(curve[l].row)
    BY DEF OrderedBalances, OrderedNoLookAhead, OrderedCurve
  <2>1. InOrder(rows)
    BY DEF EntriesOrdered, InOrder, Entry
  <2>2. NothingAhead(rows)
    BY <2>1 DEF Inv, Ordered
  <2>3. ASSUME NEW j \in Executed
        PROVE  rows[j].before =
                  Money(StartingBalance + Moved({i \in Executed : i < j /\ Exit(i) <= Entry(j)}))
    <3> DEFINE S == {i \in Executed : i < j /\ Exit(i) <= Entry(j)}
    <3>1. j \in Taken(rows) /\ EarlierIn(rows, j) = S
      BY DEF Executed, Taken, EarlierIn, Entry, Exit
    <3>2. rows[j].before = Money(StartingBalance + PnlOf(rows, S))
      BY <2>2, <3>1 DEF NothingAhead
    <3> HIDE DEF S
    <3>3. rows[j].before = Money(StartingBalance + Moved(S))
      BY <3>2 DEF PnlOf, Moved
    <3>4. QED
      BY <3>3 DEF S
  <2>4. \A k, l \in DOMAIN curve : k < l => Exit(curve[k].row) <= Exit(curve[l].row)
    BY <2>1 DEF Inv, Chronological, Exit
  <2>5. QED
    BY <2>3, <2>4
<1>2. QED
  BY <1>1, Invariance, PTL

-----------------------------------------------------------------------------
(* The report.  What it says is stated of any report, ledger and curve, so *)
(* that it is carried from the step that writes the report to every later  *)
(* state.                                                                  *)

BalancesOf(points) == <<Money(StartingBalance)>> \o [k \in DOMAIN points |-> points[k].balance]
Amounts(seq) == [k \in DOMAIN seq |-> Cent * seq[k]]
AllPoints(seq) == <<StartingBalance>> \o seq
Falls(seq) == UNION {{seq[k] - seq[l] : l \in k..Len(seq)} : k \in DOMAIN seq}
GroupTotal(by, field) == MapThenSumSet(LAMBDA s : by[s][field], DOMAIN by)

AmountsTold(o, points, b) ==
    /\ o.final = Money(b) /\ o.netPnl = o.grossProfit - o.grossLoss
    /\ 2 * ((Cent * o.final - StartingBalance) - Cent * o.netPnl) <= Cent * (o.executed + 1)
    /\ 2 * (Cent * o.netPnl - (Cent * o.final - StartingBalance)) <= Cent * (o.executed + 1)
    /\ 2 * (o.final - o.least - o.grossProfit) <= o.executed + 2
    /\ o.drawdown = Money(Max(Falls(AllPoints(Amounts(BalancesOf(points))))))

CountsTold(o) ==
    /\ o.executed = o.wins + o.losses + o.breakeven
    /\ GroupTotal(o.bySymbol, "trades") = o.executed
    /\ GroupTotal(o.bySymbol, "wins") = o.wins
    /\ GroupTotal(o.bySymbol, "netPnl") = o.netPnl

LedgerTold(o, ledger) ==
    /\ ToSet(o.ledger) = DOMAIN ledger /\ Len(o.ledger) = o.candidates
    /\ \A k, l \in DOMAIN o.ledger :
          k < l => ledger[o.ledger[k]].c.entry <= ledger[o.ledger[l]].c.entry

Told(o, ledger, points, b) ==
    AmountsTold(o, points, b) /\ CountsTold(o) /\ LedgerTold(o, ledger)

\* A close event carries what the trades closed by then have made of the
\* starting balance, rounded once.
ClosedIn(points, k) == {points[l].row : l \in 1..k}
Traced(ledger, points) ==
    \A k \in DOMAIN points :
        points[k].balance = Money(StartingBalance + PnlOf(ledger, ClosedIn(points, k)))

Reported == pc = "done" => Told(report[1], rows, curve, balance)

-----------------------------------------------------------------------------
(* The ledger: a sort by entry time                                        *)

\* A time and a place within n make one number that orders by time first.
LEMMA Lexicographic ==
    ASSUME NEW n \in Nat, NEW a \in Nat, NEW b \in Nat, NEW i \in 1..n, NEW j \in 1..n
    PROVE  /\ b * (n + 1) + j \in Int
           /\ b * (n + 1) + j < a * (n + 1) + i <=> b < a \/ (b = a /\ j < i)
<1> DEFINE m == n + 1
<1>1. m \in Nat /\ i < m /\ j < m /\ 1 <= i /\ 1 <= j /\ i \in Int /\ j \in Int
  OBVIOUS
<1> HIDE DEF m
<1>2. ASSUME NEW p \in Nat, NEW q \in Nat, p < q PROVE q * m >= p * m + m
  <2> DEFINE d == q - p - 1
  <2>1. d \in Nat /\ q = p + 1 + d
    BY <1>2
  <2> HIDE DEF d
  <2>2. q * m = p * m + m + d * m
    BY <1>1, <2>1
  <2>3. d * m \in Nat /\ p * m \in Nat
    BY <1>1, <2>1
  <2>4. QED
    BY <1>1, <2>2, <2>3
<1> DEFINE x == a * m
           y == b * m
<1>3. x \in Int /\ y \in Int
  BY <1>1
<1>4. (a < b => y >= x + m) /\ (b < a => x >= y + m) /\ (a = b => x = y)
  BY <1>2
<1> HIDE DEF x, y
<1>5. y + j \in Int /\ (y + j < x + i <=> b < a \/ (b = a /\ j < i))
  BY <1>1, <1>3, <1>4
<1>6. QED
  BY <1>5 DEF x, y, m

LEMMA RowsCounted ==
    ASSUME rows \in Seq(Row)
    PROVE  IsFiniteSet(DOMAIN rows) /\ Cardinality(DOMAIN rows) = Len(rows)
<1>1. DOMAIN rows = 1..Len(rows) /\ Len(rows) \in Nat
  OBVIOUS
<1>2. IsFiniteSet(1..Len(rows)) /\ Cardinality(1..Len(rows)) = Len(rows)
  BY <1>1, FS_Interval
<1>3. QED
  BY <1>1, <1>2

\* What a number of rows come before, each in its own place.
LEMMA RanksOfRows ==
    ASSUME rows \in Seq(Row), NEW k \in DOMAIN rows
    PROVE  \E i \in DOMAIN rows :
              Cardinality({j \in DOMAIN rows : EntersBefore(j, i)}) = k - 1
<1> DEFINE n == Len(rows)
           D == DOMAIN rows
           f == [i \in D |-> -(Entry(i) * (n + 1) + i)]
<1>1. D = 1..n /\ n \in Nat
  OBVIOUS
<1>2. \A i \in D : Entry(i) \in Nat
  BY RowParts DEF Entry
<1>3. IsFiniteSet(D) /\ Cardinality(D) = n
  BY <1>1, RowsCounted
<1>4. ASSUME NEW i \in D, NEW j \in D
      PROVE  f[i] \in Int /\ (f[j] > f[i] <=> EntersBefore(j, i))
  <2> DEFINE x == Entry(i) * (n + 1) + i
             y == Entry(j) * (n + 1) + j
  <2>1. Entry(i) \in Nat /\ Entry(j) \in Nat /\ i \in 1..n /\ j \in 1..n
    BY <1>1, <1>2
  <2>2. f[i] = -x /\ f[j] = -y
    OBVIOUS
  <2>3. x \in Int /\ y \in Int
    BY <1>1, <2>1, Lexicographic
  <2>4. y < x <=> EntersBefore(j, i)
    BY <1>1, <2>1, Lexicographic DEF EntersBefore
  <2> HIDE DEF x, y, f
  <2>5. QED
    BY <2>2, <2>3, <2>4
<1> HIDE DEF f
<1>5. f \in [D -> Int]
  BY <1>4 DEF f
<1>6. \A i, j \in D : f[i] = f[j] => i = j
  <2> SUFFICES ASSUME NEW i \in D, NEW j \in D, f[i] = f[j] PROVE i = j
    OBVIOUS
  <2>1. f[i] \in Int /\ ~ f[j] > f[i] /\ ~ f[i] > f[j]
    BY <1>4
  <2>2. ~ EntersBefore(j, i) /\ ~ EntersBefore(i, j)
    BY <1>4, <2>1
  <2>3. Entry(i) \in Nat /\ Entry(j) \in Nat /\ i \in Nat /\ j \in Nat
    BY <1>1, <1>2
  <2>4. QED
    BY <2>2, <2>3 DEF EntersBefore
<1>7. k - 1 \in 0..(Cardinality(D) - 1)
  BY <1>1, <1>3
<1>8. PICK i \in D : Cardinality(Above(D, f, i)) = k - 1
  <2> HIDE DEF D
  <2>1. QED
    BY <1>3, <1>5, <1>6, <1>7, EveryRankTaken
<1>9. Above(D, f, i) = {j \in D : EntersBefore(j, i)}
  BY <1>4, <1>8 DEF Above
<1>10. QED
  BY <1>8, <1>9

\* The report lists every row once, in order of entry.
LEMMA LedgerSorted == ASSUME rows \in Seq(Row) PROVE LedgerTold(Overall, rows)
<1> DEFINE D == DOMAIN rows
           Before(i) == {j \in D : EntersBefore(j, i)}
           L == Ledger
<1>1. D = 1..Len(rows) /\ Len(rows) \in Nat /\ IsFiniteSet(D) /\ Cardinality(D) = Len(rows)
  BY RowsCounted
<1>2. \A i \in D : Entry(i) \in Nat /\ i \in Nat
  BY RowParts DEF Entry
<1>3. L = [k \in D |-> CHOOSE i \in D : Cardinality(Before(i)) = k - 1]
  BY DEF Ledger
<1>4. \A k \in D : L[k] \in D /\ Cardinality(Before(L[k])) = k - 1
  <2> SUFFICES ASSUME NEW k \in D PROVE L[k] \in D /\ Cardinality(Before(L[k])) = k - 1
    OBVIOUS
  <2>1. \E i \in D : Cardinality(Before(i)) = k - 1
    BY RanksOfRows
  <2>2. L[k] = CHOOSE i \in D : Cardinality(Before(i)) = k - 1
    BY <1>3
  <2> HIDE DEF L, Before
  <2>3. QED
    BY <2>1, <2>2
<1>5. DOMAIN L = D
  BY <1>3
<1> HIDE DEF L
<1>6. ASSUME NEW k \in D, NEW l \in D, k < l PROVE Entry(L[k]) <= Entry(L[l])
  <2>1. /\ L[k] \in D /\ L[l] \in D /\ Entry(L[k]) \in Nat /\ Entry(L[l]) \in Nat
        /\ k \in Nat /\ l \in Nat
    BY <1>2, <1>4
  <2> SUFFICES ASSUME Entry(L[l]) < Entry(L[k]) PROVE FALSE
    BY <2>1
  <2>2. Before(L[l]) \subseteq Before(L[k])
    <3> SUFFICES ASSUME NEW j \in D, EntersBefore(j, L[l]) PROVE EntersBefore(j, L[k])
      OBVIOUS
    <3>1. Entry(j) <= Entry(L[l]) /\ Entry(j) \in Nat
      BY <1>2, <2>1 DEF EntersBefore
    <3>2. QED
      BY <2>1, <3>1 DEF EntersBefore
  <2>3. Cardinality(Before(L[l])) <= Cardinality(Before(L[k]))
    <3>1. IsFiniteSet(Before(L[k]))
      BY <1>1, FS_Subset
    <3>2. QED
      BY <2>2, <3>1, FS_Subset
  <2>4. Cardinality(Before(L[l])) = l - 1 /\ Cardinality(Before(L[k])) = k - 1
    BY <1>4
  <2> HIDE DEF Before
  <2>5. QED
    BY <1>6, <2>1, <2>3, <2>4
<1>7. ToSet(L) = D
  <2>1. \A k, l \in D : L[k] = L[l] => k = l
    <3> HIDE DEF Before
    <3>1. QED
      BY <1>1, <1>4
  <2>2. L \in Injection(D, D)
    BY <1>3, <1>4, <1>5, <2>1 DEF Injection, IsInjective, L
  <2>3. L \in Surjection(D, D)
    <3> HIDE DEF D
    <3>1. QED
      BY <1>1, <2>2, FS_Injection
  <2>4. QED
    BY <1>5, <2>3 DEF Surjection, ToSet
<1>8. Len(L) = Len(rows)
  BY <1>1, <1>3, <1>5 DEF L
<1>9. QED
  BY <1>5, <1>6, <1>7, <1>8 DEF L, LedgerTold, Overall, Entry

-----------------------------------------------------------------------------
(* The drawdown: a fold over the balances                                  *)

DrawStep(acc, b) ==
    LET peak == Max({acc.peak, b}) IN [peak |-> peak, fall |-> Max({acc.fall, peak - b})]
NoFall == [peak |-> StartingBalance, fall |-> 0]

Draws(g, seq) ==
    g = [s \in SUBSET DOMAIN seq |->
            IF s = {} THEN NoFall ELSE DrawStep(g[s \ {Greatest(s)}], seq[Greatest(s)])]

LEMMA DrawdownIs == Drawdown = (CHOOSE g : Draws(g, Points))[DOMAIN Points]
BY DEF Drawdown, FoldLeft, MapThenFoldSet, Max, Greatest, Draws, DrawStep, NoFall

Peaks == [peak : Int, fall : Int]

LEMMA DrawTyped ==
    ASSUME NEW acc \in Peaks, NEW b \in Int
    PROVE  /\ DrawStep(acc, b) \in Peaks
           /\ DrawStep(acc, b).peak = Max({acc.peak, b})
           /\ DrawStep(acc, b).fall = Max({acc.fall, DrawStep(acc, b).peak - b})
<1> DEFINE peak == Max({acc.peak, b})
           fall == Max({acc.fall, peak - b})
<1>1. acc.peak \in Int /\ acc.fall \in Int
  BY DEF Peaks
<1>2. peak \in Int
  BY <1>1, OfTwo
<1>3. fall \in Int
  <2>1. peak - b \in Int
    BY <1>2
  <2> HIDE DEF peak
  <2>2. QED
    BY <1>1, <2>1, OfTwo
<1>4. DrawStep(acc, b) = [peak |-> peak, fall |-> fall]
  BY DEF DrawStep
<1> HIDE DEF peak, fall
<1>5. DrawStep(acc, b) \in Peaks /\ DrawStep(acc, b).peak = peak /\ DrawStep(acc, b).fall = fall
  BY <1>2, <1>3, <1>4 DEF Peaks
<1>6. QED
  BY <1>5 DEF peak, fall

LEMMA Higher ==
    ASSUME NEW a \in Int, NEW b \in Int, NEW m, m = Max({a, b})
    PROVE  m \in Int /\ m >= a /\ m >= b /\ (m = a \/ m = b)
BY OfTwo

\* There is a table of the fold's results.
LEMMA DrawsExist == ASSUME NEW seq \in Seq(Int) PROVE \E g : Draws(g, seq)
<1> DEFINE D == DOMAIN seq
           T == [z \in D \X Peaks |-> DrawStep(z[2], seq[z[1]])]
<1>1. IsFiniteSet(D) /\ HasGreatest(D) /\ \A x \in D : seq[x] \in Int
  BY Indices
<1>2. \A x \in D : \A a \in Peaks : T[<<x, a>>] = DrawStep(a, seq[x]) /\ T[<<x, a>>] \in Peaks
  BY <1>1, DrawTyped
<1>3. NoFall \in Peaks
  BY PaperAssumption DEF NoFall, Peaks
<1> HIDE DEF T, D
<1>4. PICK g : Steps(g, T, NoFall, D)
  BY <1>1, StepsExists
<1>5. \A s \in SUBSET D : g[s] \in Peaks
  BY <1>1, <1>2, <1>3, <1>4, StepsIn
<1>6. \A s \in SUBSET D : s # {} =>
         T[<<Greatest(s), g[s \ {Greatest(s)}]>>] = DrawStep(g[s \ {Greatest(s)}], seq[Greatest(s)])
  BY <1>1, <1>2, <1>5 DEF HasGreatest
<1>7. g = [s \in SUBSET D |->
             IF s = {} THEN NoFall ELSE DrawStep(g[s \ {Greatest(s)}], seq[Greatest(s)])]
  BY <1>4, <1>6, Zenon DEF Steps
<1>8. QED
  BY <1>7 DEF Draws, D

\* After n balances the peak is their highest, and the fall their deepest.
FellOver(acc, seq, n) ==
    /\ acc \in Peaks
    /\ \A k \in 1..n : seq[k] <= acc.peak
    /\ \E k \in 1..n : seq[k] = acc.peak
    /\ \A k, l \in 1..n : k <= l => seq[k] - seq[l] <= acc.fall
    /\ \E k, l \in 1..n : k <= l /\ seq[k] - seq[l] = acc.fall

LEMMA FellFurther ==
    ASSUME NEW seq \in Seq(Int), NEW n \in Nat \ {0}, n + 1 <= Len(seq), NEW acc, FellOver(acc, seq, n)
    PROVE  FellOver(DrawStep(acc, seq[n + 1]), seq, n + 1)
<1> DEFINE b == seq[n + 1]
           r == DrawStep(acc, b)
<1>1. /\ acc \in Peaks /\ acc.peak \in Int /\ acc.fall \in Int /\ b \in Int
      /\ \A k \in 1..(n + 1) : seq[k] \in Int
  BY DEF FellOver, Peaks
<1>2. /\ r \in Peaks /\ r.peak = Max({acc.peak, b}) /\ r.fall = Max({acc.fall, r.peak - b})
      /\ r.peak \in Int /\ r.fall \in Int
  BY <1>1, DrawTyped DEF Peaks
<1> DEFINE d == r.peak - b
           x == acc.peak
           y == acc.fall
           u == r.peak
           v == r.fall
<1>3. r.peak >= acc.peak /\ r.peak >= b /\ (r.peak = acc.peak \/ r.peak = b)
  <2>1. x \in Int /\ b \in Int /\ u = Max({x, b})
    BY <1>1, <1>2
  <2> HIDE DEF x, b, u, r
  <2>2. u \in Int /\ u >= x /\ u >= b /\ (u = x \/ u = b)
    BY <2>1, Higher
  <2>3. QED
    BY <2>2 DEF x, u
<1>4. r.fall >= acc.fall /\ r.fall >= r.peak - b /\ (r.fall = acc.fall \/ r.fall = r.peak - b)
  <2>1. y \in Int /\ d \in Int /\ v = Max({y, d})
    BY <1>1, <1>2
  <2> HIDE DEF y, d, v, r
  <2>2. v \in Int /\ v >= y /\ v >= d /\ (v = y \/ v = d)
    BY <2>1, Higher
  <2>3. QED
    BY <2>2 DEF y, d, v
<1> HIDE DEF r, d, x, y, u, v
<1>5. \A k \in 1..(n + 1) : k \in 1..n \/ k = n + 1
  OBVIOUS
<1>6. \A k \in 1..n : k \in 1..(n + 1) /\ k <= n + 1
  OBVIOUS
<1>7. \A k \in 1..(n + 1) : seq[k] <= r.peak
  <2> SUFFICES ASSUME NEW k \in 1..(n + 1) PROVE seq[k] <= r.peak
    OBVIOUS
  <2>1. CASE k = n + 1
    BY <1>3, <2>1
  <2>2. CASE k \in 1..n
    <3>1. seq[k] <= acc.peak /\ seq[k] \in Int
      BY <1>1, <2>2 DEF FellOver
    <3> HIDE DEF b
    <3>2. QED
      BY <1>1, <1>2, <1>3, <3>1
  <2>3. QED
    BY <1>5, <2>1, <2>2
<1>8. PICK p \in 1..(n + 1) : seq[p] = r.peak
  <2>1. CASE r.peak = b
    <3>1. n + 1 \in 1..(n + 1)
      OBVIOUS
    <3>2. QED
      BY <2>1, <3>1
  <2>2. CASE r.peak = acc.peak
    BY <1>6, <2>2 DEF FellOver
  <2>3. QED
    BY <1>3, <2>1, <2>2
<1>9. ASSUME NEW k \in 1..(n + 1), NEW l \in 1..(n + 1), k <= l PROVE seq[k] - seq[l] <= r.fall
  <2>1. CASE l = n + 1
    <3>1. seq[k] <= r.peak /\ seq[l] = b /\ seq[k] \in Int
      BY <1>1, <1>7, <2>1
    <3>2. QED
      BY <1>1, <1>2, <1>4, <3>1
  <2>2. CASE l \in 1..n
    <3>1. k \in 1..n
      BY <1>9, <2>2
    <3> DEFINE fell == seq[k] - seq[l]
    <3>2. fell <= acc.fall /\ fell \in Int
      <4>1. \A i, j \in 1..n : i <= j => seq[i] - seq[j] <= acc.fall
        BY DEF FellOver
      <4>2. fell <= acc.fall
        BY <1>9, <2>2, <3>1, <4>1
      <4>3. seq[k] \in Int /\ seq[l] \in Int
        BY <1>1
      <4>4. QED
        BY <4>2, <4>3
    <3>3. acc.fall <= r.fall /\ acc.fall \in Int /\ r.fall \in Int
      BY <1>1, <1>2, <1>4
    <3> HIDE DEF fell
    <3>4. fell <= r.fall
      BY <3>2, <3>3
    <3>5. QED
      BY <3>4 DEF fell
  <2>3. QED
    BY <1>5, <2>1, <2>2
<1>10. \E k, l \in 1..(n + 1) : k <= l /\ seq[k] - seq[l] = r.fall
  <2>1. CASE r.fall = acc.fall
    <3>1. PICK k, l \in 1..n : k <= l /\ seq[k] - seq[l] = acc.fall
      BY DEF FellOver
    <3>2. QED
      BY <1>6, <2>1, <3>1
  <2>2. CASE r.fall = r.peak - b
    <3>1. p <= n + 1 /\ n + 1 \in 1..(n + 1) /\ seq[p] - seq[n + 1] = r.fall
      BY <1>8, <2>2
    <3>2. QED
      BY <1>8, <3>1
  <2>3. QED
    BY <1>4, <2>1, <2>2
<1>11. FellOver(r, seq, n + 1)
  BY <1>2, <1>7, <1>8, <1>9, <1>10 DEF FellOver
<1>12. QED
  BY <1>11 DEF r

\* The fold's last fall is the greatest of all falls, those from the balance at
\* the start included.
LEMMA DeepestFall ==
    ASSUME NEW seq \in Seq(Int)
    PROVE  (CHOOSE g : Draws(g, seq))[DOMAIN seq].fall = Max(Falls(AllPoints(seq)))
<1> DEFINE h == CHOOSE g : Draws(g, seq)
           n == Len(seq)
           all == AllPoints(seq)
           Upto(k) == {i \in DOMAIN seq : i <= k}
           S == {k \in Nat : k <= n => FellOver(h[Upto(k)], all, k + 1)}
<1>1. Draws(h, seq)
  BY DrawsExist
<1>2. n \in Nat /\ DOMAIN seq = 1..n /\ \A k \in 1..n : seq[k] \in Int
  OBVIOUS
<1>3. /\ all \in Seq(Int) /\ Len(all) = n + 1 /\ all[1] = StartingBalance
      /\ \A k \in 1..n : all[k + 1] = seq[k]
      /\ DOMAIN all = 1..(n + 1) /\ \A k \in 1..(n + 1) : all[k] \in Int
      /\ StartingBalance \in Int
  <2>1. StartingBalance \in Int
    BY PaperAssumption
  <2>2. <<StartingBalance>> \in Seq(Int) /\ Len(<<StartingBalance>>) = 1
    BY <2>1
  <2>3. all \in Seq(Int) /\ Len(all) = n + 1
    BY <2>2 DEF AllPoints
  <2>4. all[1] = StartingBalance
    BY <1>2, <2>2 DEF AllPoints
  <2>5. ASSUME NEW k \in 1..n PROVE all[k + 1] = seq[k]
    BY <1>2, <2>2 DEF AllPoints
  <2> HIDE DEF all
  <2>6. QED
    BY <2>1, <2>3, <2>4, <2>5
<1> HIDE DEF h, n, all
<1>4. ASSUME NEW k \in Nat, k + 1 <= n
      PROVE  h[Upto(k + 1)] = DrawStep(h[Upto(k)], all[(k + 1) + 1])
  <2> DEFINE s == Upto(k + 1)
  <2>0. k + 1 \in 1..n
    BY <1>2, <1>4
  <2>1. s \subseteq Int /\ IsFiniteSet(s) /\ k + 1 \in s /\ s \in SUBSET DOMAIN seq
    <3>1. IsFiniteSet(DOMAIN seq) /\ DOMAIN seq \subseteq Int
      BY Indices
    <3>2. s \subseteq DOMAIN seq
      OBVIOUS
    <3>3. QED
      BY <1>2, <2>0, <3>1, <3>2, FS_Subset
  <2>2. Greatest(s) \in s /\ \A y \in s : Greatest(s) >= y
    <3> HIDE DEF s
    <3>1. QED
      BY <2>1, GreatestIs
  <2>3. Greatest(s) = k + 1
    <3>1. Greatest(s) >= k + 1 /\ Greatest(s) <= k + 1 /\ Greatest(s) \in Int
      BY <2>1, <2>2
    <3> HIDE DEF s
    <3>2. QED
      BY <3>1
  <2>4. s \ {k + 1} = Upto(k)
    BY <1>2
  <2>5. h[s] = IF s = {} THEN NoFall ELSE DrawStep(h[s \ {Greatest(s)}], seq[Greatest(s)])
    <3> HIDE DEF s
    <3>1. QED
      BY <1>1, <2>1 DEF Draws
  <2>6. h[s] = DrawStep(h[Upto(k)], seq[k + 1])
    <3>1. s # {}
      BY <2>1
    <3> HIDE DEF s, Upto
    <3>2. QED
      BY <2>3, <2>4, <2>5, <3>1
  <2>7. all[(k + 1) + 1] = seq[k + 1]
    BY <1>3, <2>0
  <2> HIDE DEF Upto
  <2>8. QED
    BY <2>6, <2>7
<1>5. h[Upto(0)] = NoFall
  <2>1. Upto(0) = {}
    BY <1>2
  <2>2. {} \in SUBSET DOMAIN seq
    OBVIOUS
  <2>3. h[{}] = NoFall
    BY <1>1, <2>2 DEF Draws
  <2>4. QED
    BY <2>1, <2>3
<1> HIDE DEF Upto
<1>6. 0 \in S
  <2>1. NoFall \in Peaks /\ NoFall.peak = StartingBalance /\ NoFall.fall = 0
    BY PaperAssumption DEF NoFall, Peaks
  <2>2. 1..1 = {1} /\ all[1] - all[1] = 0 /\ all[1] <= all[1]
    BY <1>3
  <2>3. FellOver(NoFall, all, 1)
    BY <1>3, <2>1, <2>2 DEF FellOver
  <2>4. QED
    BY <1>5, <2>3
<1>7. ASSUME NEW k \in S PROVE k + 1 \in S
  <2> SUFFICES ASSUME k + 1 <= n PROVE FellOver(h[Upto(k + 1)], all, (k + 1) + 1)
    BY <1>7
  <2>1. k \in Nat /\ k + 1 \in Nat \ {0} /\ k <= n /\ (k + 1) + 1 <= Len(all)
    BY <1>2, <1>3, <1>7
  <2>2. FellOver(h[Upto(k)], all, k + 1)
    BY <1>7, <2>1
  <2>3. h[Upto(k + 1)] = DrawStep(h[Upto(k)], all[(k + 1) + 1])
    BY <1>4, <2>1
  <2>4. QED
    BY <1>3, <2>1, <2>2, <2>3, FellFurther
<1>8. S = Nat
  <2>1. S \subseteq Nat
    OBVIOUS
  <2> HIDE DEF S
  <2>2. QED
    BY <1>6, <1>7, <2>1, SetInduction
<1> DEFINE last == h[DOMAIN seq]
           N == n + 1
<1>9. FellOver(last, all, N)
  <2>1. n \in S
    BY <1>2, <1>8
  <2>2. Upto(n) = DOMAIN seq
    BY <1>2 DEF Upto
  <2>3. QED
    BY <2>1, <2>2
<1>10. DOMAIN all = 1..N /\ Len(all) = N /\ N \in Nat /\ \A k \in 1..N : all[k] \in Int
  BY <1>2, <1>3
<1> HIDE DEF last, N
<1> DEFINE F == Falls(all)
<1>11. \A k, l \in 1..N : k <= l <=> l \in k..N
  BY <1>10
<1>12. ASSUME NEW k \in 1..N, NEW l \in 1..N, k <= l PROVE all[k] - all[l] \in F
  <2> DEFINE G(j) == {all[j] - all[m] : m \in j..N}
  <2>1. l \in k..N
    BY <1>11, <1>12
  <2>2. all[k] - all[l] \in G(k)
    BY <2>1
  <2>3. F = UNION {G(j) : j \in 1..N}
    BY <1>10 DEF Falls
  <2> HIDE DEF F, G
  <2>4. G(k) \in {G(j) : j \in 1..N}
    OBVIOUS
  <2>5. QED
    BY <2>2, <2>3, <2>4
<1>13. ASSUME NEW x \in F PROVE x \in Int /\ \E k, l \in 1..N : k <= l /\ x = all[k] - all[l]
  <2>1. PICK k \in 1..N : x \in {all[k] - all[l] : l \in k..N}
    BY <1>10 DEF Falls
  <2>2. PICK l \in k..N : x = all[k] - all[l]
    BY <2>1
  <2>3. l \in 1..N /\ k <= l
    BY <1>10
  <2>4. all[k] \in Int /\ all[l] \in Int
    BY <1>10, <2>3
  <2>5. QED
    BY <2>2, <2>3, <2>4
<1> HIDE DEF F
<1>14. last.fall \in F /\ last.fall \in Int
  <2>1. PICK k, l \in 1..N : k <= l /\ all[k] - all[l] = last.fall
    BY <1>9 DEF FellOver
  <2>2. all[k] - all[l] \in F
    BY <1>12, <2>1
  <2>3. QED
    BY <1>13, <2>1, <2>2
<1>15. ASSUME NEW x \in F PROVE x <= last.fall /\ x \in Int
  <2>1. PICK k, l \in 1..N : k <= l /\ x = all[k] - all[l]
    BY <1>13
  <2>2. all[k] - all[l] <= last.fall
    BY <1>9, <2>1 DEF FellOver
  <2>3. QED
    BY <1>13, <2>1, <2>2
<1> DEFINE m == last.fall
<1>16. /\ m \in F /\ m \in Int /\ \A x \in F : m >= x
       /\ \A x \in F : x \in Int /\ (x >= m => x = m)
  BY <1>14, <1>15
<1> HIDE DEF m
<1>17. \A x : x \in F /\ (\A y \in F : x >= y) <=> x = m
  BY <1>16
<1>18. Max(F) = m
  BY <1>17, Zenon DEF Max
<1>19. QED
  BY <1>18 DEF F, m, last, h, all

-----------------------------------------------------------------------------
(* The amounts of the report                                               *)

\* The parts of a set have the profit of the whole, a part has at most what
\* was won in the whole, and what was won and lost is the whole profit.
LEMMA ProfitParts ==
    ASSUME NEW ledger \in Seq(Row), NEW S, S \subseteq DOMAIN ledger
    PROVE  /\ ProfitOf(ledger, S) \in Int /\ ProfitOf(ledger, {}) = 0
           /\ \A T \in SUBSET S :
                 /\ ProfitOf(ledger, T) \in Int
                 /\ ProfitOf(ledger, S) = ProfitOf(ledger, T) + ProfitOf(ledger, S \ T)
                 /\ ProfitOf(ledger, T) <= ProfitOf(ledger, {i \in S : Money(ledger[i].pnl) > 0})
           /\ ProfitOf(ledger, S) = ProfitOf(ledger, {i \in S : Money(ledger[i].pnl) > 0})
                                   + ProfitOf(ledger, {i \in S : Money(ledger[i].pnl) < 0})
           /\ ProfitOf(ledger, {i \in S : Money(ledger[i].pnl) < 0}) <= 0
<1> DEFINE f == Profits(ledger)
           Won(T) == {i \in T : f[i] > 0}
           Lost(T) == {i \in T : f[i] < 0}
           Flat(T) == {i \in T : ~ f[i] > 0 /\ ~ f[i] < 0}
<1>1. \A i \in S : f[i] = Money(ledger[i].pnl) /\ f[i] \in Int
  <2> SUFFICES ASSUME NEW i \in S PROVE f[i] = Money(ledger[i].pnl) /\ f[i] \in Int
    OBVIOUS
  <2>1. ledger[i].pnl \in Int /\ i \in DOMAIN ledger
    BY RowParts
  <2>2. Money(ledger[i].pnl) \in Int
    BY <2>1, MoneyNear
  <2>3. QED
    BY <2>1, <2>2 DEF Profits
<1>2. \A T \in SUBSET S : IsFiniteSet(T) /\ ProfitOf(ledger, T) = Sum(f, T)
  <2> SUFFICES ASSUME NEW T \in SUBSET S PROVE IsFiniteSet(T) /\ ProfitOf(ledger, T) = Sum(f, T)
    OBVIOUS
  <2>1. T \subseteq DOMAIN ledger
    OBVIOUS
  <2>2. IsFiniteSet(T)
    BY <2>1, LedgerFinite
  <2>3. QED
    BY <2>1, <2>2, ProfitIsSum
<1>3. /\ {i \in S : Money(ledger[i].pnl) > 0} = Won(S) /\ {i \in S : Money(ledger[i].pnl) < 0} = Lost(S)
      /\ Won(S) \in SUBSET S /\ Lost(S) \in SUBSET S /\ Flat(S) \in SUBSET S
      /\ S \in SUBSET S /\ {} \in SUBSET S
  BY <1>1
<1> HIDE DEF f
<1>4. Sum(f, {}) = 0
  BY SumEmpty
<1>5. \A T \in SUBSET S : Sum(f, T) \in Int /\ Sum(f, T) <= Sum(f, Won(S))
  <2> SUFFICES ASSUME NEW T \in SUBSET S PROVE Sum(f, T) \in Int /\ Sum(f, T) <= Sum(f, Won(S))
    OBVIOUS
  <2>1. Sum(f, T) \in Int
    BY <1>1, <1>2, SumInt
  <2>2. Sum(f, T) <= Sum(f, Won(S))
    BY <1>1, <1>2, <1>3, SumAtMostPositive
  <2>3. QED
    BY <2>1, <2>2
<1>6. ASSUME NEW T \in SUBSET S, Won(T) = {} PROVE Sum(f, T) <= 0
  <2>1. IsFiniteSet(T) /\ T \subseteq T /\ \A i \in T : f[i] \in Int
    BY <1>1, <1>2
  <2>2. Sum(f, T) <= Sum(f, Won(T))
    BY <2>1, SumAtMostPositive
  <2>3. QED
    BY <1>4, <1>6, <2>2
<1>7. ASSUME NEW T \in SUBSET S, NEW R \in SUBSET S, T \cap R = {}
      PROVE  Sum(f, T \cup R) = Sum(f, T) + Sum(f, R)
  BY <1>1, <1>2, <1>7, SumUnion
<1>8. \A T \in SUBSET S : Sum(f, S) = Sum(f, T) + Sum(f, S \ T)
  <2> SUFFICES ASSUME NEW T \in SUBSET S PROVE Sum(f, S) = Sum(f, T) + Sum(f, S \ T)
    OBVIOUS
  <2>1. T \cap (S \ T) = {} /\ T \cup (S \ T) = S /\ S \ T \in SUBSET S
    OBVIOUS
  <2>2. QED
    BY <1>7, <2>1
<1>9. Sum(f, Flat(S)) = 0
  <2>1. Sum(f, Flat(S)) <= 0
    BY <1>3, <1>6
  <2>2. IsFiniteSet(Flat(S)) /\ \A i \in Flat(S) : f[i] \in Int /\ f[i] >= 0
    BY <1>1, <1>2, <1>3
  <2>3. Sum(f, Flat(S)) \in Int /\ Sum(f, Flat(S)) >= 0
    <3> HIDE DEF Flat
    <3>1. QED
      BY <2>2, SumNotNegative
  <2> HIDE DEF Flat
  <2>4. QED
    BY <2>1, <2>3
<1>10. Sum(f, Lost(S)) <= 0
  <2>1. Won(Lost(S)) = {}
    BY <1>1
  <2>2. QED
    BY <1>3, <1>6, <2>1
<1>11. Sum(f, S) = Sum(f, Won(S)) + Sum(f, Lost(S))
  <2>1. /\ Won(S) \cap Lost(S) = {} /\ (Won(S) \cup Lost(S)) \cap Flat(S) = {}
        /\ (Won(S) \cup Lost(S)) \cup Flat(S) = S /\ Won(S) \cup Lost(S) \in SUBSET S
    BY <1>1
  <2>2. /\ Sum(f, Won(S)) \in Int /\ Sum(f, Lost(S)) \in Int
        /\ Sum(f, Won(S) \cup Lost(S)) \in Int
    BY <1>3, <1>5, <2>1
  <2> HIDE DEF Won, Lost, Flat
  <2>3. Sum(f, Won(S) \cup Lost(S)) = Sum(f, Won(S)) + Sum(f, Lost(S))
    BY <1>3, <1>7, <2>1
  <2>4. Sum(f, (Won(S) \cup Lost(S)) \cup Flat(S)) = Sum(f, Won(S) \cup Lost(S)) + Sum(f, Flat(S))
    BY <1>3, <1>7, <2>1
  <2>5. Sum(f, S) = Sum(f, Won(S) \cup Lost(S)) + 0
    BY <1>9, <2>1, <2>4
  <2>6. QED
    BY <2>2, <2>3, <2>5
<1>12. \A T \in SUBSET S : S \ T \in SUBSET S
  OBVIOUS
<1> HIDE DEF Won, Lost, Flat
<1>13. QED
  BY <1>2, <1>3, <1>4, <1>5, <1>8, <1>10, <1>11, <1>12

\* What a set of trades moved the account by is what its parts did.
LEMMA PnlSplit ==
    ASSUME NEW ledger \in Seq(Row), NEW S, S \subseteq DOMAIN ledger, NEW T, T \subseteq S
    PROVE  PnlOf(ledger, S) = PnlOf(ledger, T) + PnlOf(ledger, S \ T)
<1> DEFINE f == Pnls(ledger)
           R == S \ T
<1>1. T \cap R = {} /\ T \cup R = S /\ T \subseteq DOMAIN ledger /\ R \subseteq DOMAIN ledger
  OBVIOUS
<1>2. \A i \in S : f[i] \in Int
  BY RowParts DEF Pnls
<1> HIDE DEF f, R
<1>3. IsFiniteSet(S) /\ IsFiniteSet(T) /\ IsFiniteSet(R)
  BY <1>1, LedgerFinite
<1>4. Sum(f, T \cup R) = Sum(f, T) + Sum(f, R)
  BY <1>1, <1>2, <1>3, SumUnion
<1>5. PnlOf(ledger, S) = Sum(f, S) /\ PnlOf(ledger, T) = Sum(f, T) /\ PnlOf(ledger, R) = Sum(f, R)
  BY <1>1, <1>3, PnlIsSum DEF f
<1>6. QED
  BY <1>1, <1>4, <1>5 DEF R

\* The balances of the curve, the starting balance first.
LEMMA BalancesParts ==
    ASSUME TypeOK
    PROVE  /\ Balances = BalancesOf(curve) /\ Balances \in Seq(Int) /\ Balances # <<>>
           /\ Len(Balances) = Len(curve) + 1 /\ Balances[1] = Money(StartingBalance)
           /\ \A k \in 2..Len(Balances) : k - 1 \in DOMAIN curve /\ Balances[k] = curve[k - 1].balance
<1> DEFINE t == [k \in DOMAIN curve |-> curve[k].balance]
           T == Taken(rows)
           Point == [row : T, balance : Int]
<1>1. curve \in Seq(Point) /\ DOMAIN curve = 1..Len(curve) /\ Len(curve) \in Nat
  BY Sorts
<1>2. \A k \in DOMAIN curve : curve[k] \in Point
  <2> HIDE DEF Point
  <2>1. QED
    BY <1>1
<1>3. t \in Seq(Int) /\ Len(t) = Len(curve) /\ \A k \in DOMAIN curve : t[k] = curve[k].balance
  <2>1. \A k \in DOMAIN curve : curve[k].balance \in Int
    BY <1>2
  <2>2. t \in [1..Len(curve) -> Int]
    BY <1>1, <2>1
  <2>3. QED
    BY <1>1, <2>2
<1>4. Balances = <<Money(StartingBalance)>> \o t /\ Balances = BalancesOf(curve)
  BY DEF Balances, BalancesOf
<1> DEFINE first == Money(StartingBalance)
<1>5. first \in Int /\ Balances = <<first>> \o t
  BY <1>4, PaperAssumption, MoneyNear
<1> HIDE DEF t, Point, first
<1>6. /\ Balances \in Seq(Int) /\ Len(Balances) = Len(curve) + 1 /\ Balances # <<>>
      /\ Balances[1] = first
  BY <1>1, <1>3, <1>5
<1>7. ASSUME NEW k \in 2..Len(Balances)
      PROVE  k - 1 \in DOMAIN curve /\ Balances[k] = curve[k - 1].balance
  <2>1. k - 1 \in 1..Len(curve) /\ k \in 1..Len(Balances)
    BY <1>1, <1>6
  <2>2. Balances[k] = t[k - 1]
    BY <1>1, <1>3, <1>5, <1>6, <2>1
  <2>3. QED
    BY <1>1, <1>3, <2>1, <2>2
<1>8. QED
  BY <1>4, <1>6, <1>7 DEF first

\* The curve has the trades that were closed.
LEMMA AllClosed == Inv => ClosedIn(curve, Len(curve)) = Shut(rows, active)
<1> SUFFICES ASSUME Inv PROVE ClosedIn(curve, Len(curve)) = Shut(rows, active)
  OBVIOUS
<1>1. DOMAIN curve = 1..Len(curve) /\ \A k \in DOMAIN curve : curve[k].row \in Taken(rows)
  BY Sorts DEF Inv
<1>2. Booked
  BY DEF Inv
<1>3. QED
  BY <1>1, <1>2 DEF ClosedIn, Booked, Shut

\* A cent times one number is at most a cent times another only if the numbers
\* are so.
LEMMA Cents == \A a, b \in Int : Cent * a <= Cent * b => a <= b
BY PaperAssumption

\* The fold over the amounts of the curve's balances.
LEMMA DrawdownRight ==
    ASSUME TypeOK
    PROVE  Drawdown.fall = Max(Falls(AllPoints(Amounts(BalancesOf(curve)))))
<1>1. Balances = BalancesOf(curve) /\ Balances \in Seq(Int)
  BY BalancesParts
<1>2. Points = Amounts(Balances)
  BY DEF Points, Amounts
<1>3. Points \in Seq(Int)
  <2> DEFINE n == Len(Balances)
  <2>1. n \in Nat /\ DOMAIN Balances = 1..n /\ \A k \in 1..n : Balances[k] \in Int
    BY <1>1
  <2>2. \A k \in 1..n : Cent * Balances[k] \in Int
    BY <2>1, PaperAssumption
  <2> HIDE DEF n
  <2>3. Points \in [1..n -> Int]
    BY <2>1, <2>2 DEF Points
  <2>4. QED
    BY <2>1, <2>3
<1>4. (CHOOSE g : Draws(g, Points))[DOMAIN Points].fall = Max(Falls(AllPoints(Points)))
  BY <1>3, DeepestFall
<1>5. QED
  BY <1>1, <1>2, <1>4, DrawdownIs

\* The amounts of the report are those of the account, to the roundings.
LEMMA AmountsRight ==
    ASSUME Inv, Traced(rows, curve), active = <<>>
    PROVE  AmountsTold(Overall, curve, balance)
<1> DEFINE E == Taken(rows)
           won == ProfitOf(rows, {i \in E : Money(rows[i].pnl) > 0})
           lost == ProfitOf(rows, {i \in E : Money(rows[i].pnl) < 0})
           n == Len(Balances)
           size == Cardinality(E)
           net == ProfitOf(rows, E)
           o == Overall
<1>1. TypeOK /\ rows \in Seq(Row) /\ E \subseteq DOMAIN rows /\ Executed = E /\ E \in SUBSET E
  BY Sorts DEF Inv, Executed, Taken
<1>2. /\ net \in Int /\ won \in Int /\ lost \in Int
      /\ net = won + lost
      /\ \A T \in SUBSET E : ProfitOf(rows, T) <= won
  <2>1. /\ {i \in E : Money(rows[i].pnl) > 0} \in SUBSET E
        /\ {i \in E : Money(rows[i].pnl) < 0} \in SUBSET E
    OBVIOUS
  <2> HIDE DEF E
  <2>2. QED
    BY <1>1, <2>1, ProfitParts
<1>3. /\ o.grossProfit = won /\ o.grossLoss = -lost /\ o.netPnl = net /\ o.final = Balances[n]
      /\ o.least = Min(ToSet(Balances)) /\ o.drawdown = Money(Drawdown.fall) /\ o.executed = size
  <2>1. /\ {i \in Executed : IF TRUE THEN PnlUsd(i) > 0 ELSE PnlUsd(i) < 0}
             = {i \in E : Money(rows[i].pnl) > 0}
        /\ {i \in Executed : IF FALSE THEN PnlUsd(i) > 0 ELSE PnlUsd(i) < 0}
             = {i \in E : Money(rows[i].pnl) < 0}
    BY <1>1 DEF PnlUsd
  <2> HIDE DEF E
  <2>2. /\ o.grossProfit = Pnl({i \in Executed : IF TRUE THEN PnlUsd(i) > 0 ELSE PnlUsd(i) < 0})
        /\ o.grossLoss = -Pnl({i \in Executed : IF FALSE THEN PnlUsd(i) > 0 ELSE PnlUsd(i) < 0})
        /\ o.final = Balances[n] /\ o.least = Min(ToSet(Balances))
        /\ o.drawdown = Money(Drawdown.fall)
        /\ o.netPnl = Pnl(Executed) /\ o.executed = Cardinality(Executed)
    BY DEF Overall, Last
  <2> HIDE DEF o, n
  <2>3. \A T : Pnl(T) = ProfitOf(rows, T)
    BY DEF Pnl, ProfitOf, PnlUsd
  <2>4. QED
    BY <1>1, <2>1, <2>2, <2>3
<1>4. /\ Balances = BalancesOf(curve) /\ Balances \in Seq(Int) /\ Balances # <<>>
      /\ n = Len(curve) + 1 /\ Balances[1] = Money(StartingBalance)
      /\ \A k \in 2..n : k - 1 \in DOMAIN curve /\ Balances[k] = curve[k - 1].balance
      /\ DOMAIN curve = 1..Len(curve) /\ Len(curve) \in Nat /\ DOMAIN Balances = 1..n
  BY <1>1, BalancesParts, Sorts
<1> HIDE DEF E, won, lost, n, o, size, net
<1>5. \A k \in 1..n : k = 1 \/ k \in 2..n
  BY <1>4
<1>6. \A k \in DOMAIN Balances :
         /\ Balances[k] = Money(StartingBalance + PnlOf(rows, ClosedIn(curve, k - 1)))
         /\ ClosedIn(curve, k - 1) \in SUBSET E
  <2> SUFFICES ASSUME NEW k \in 1..n
               PROVE  /\ Balances[k] = Money(StartingBalance + PnlOf(rows, ClosedIn(curve, k - 1)))
                      /\ ClosedIn(curve, k - 1) \in SUBSET E
    BY <1>4
  <2>1. \A l \in DOMAIN curve : curve[l].row \in E
    BY <1>1, Sorts DEF E
  <2>2. ClosedIn(curve, k - 1) \in SUBSET E
    <3>1. \A l \in 1..(k - 1) : l \in DOMAIN curve
      BY <1>4
    <3>2. QED
      BY <2>1, <3>1 DEF ClosedIn
  <2>3. CASE k = 1
    <3>1. ClosedIn(curve, k - 1) = {}
      BY <2>3 DEF ClosedIn
    <3>2. PnlOf(rows, {}) = 0
      <4>1. PnlOf(rows, {}) = Sum(Pnls(rows), {})
        BY PnlIsSum, FS_EmptySet
      <4>2. QED
        BY <4>1, SumEmpty
    <3>3. StartingBalance + PnlOf(rows, {}) = StartingBalance
      BY <3>2, PaperAssumption
    <3>4. QED
      BY <1>4, <2>2, <2>3, <3>1, <3>3
  <2>4. CASE k \in 2..n
    BY <1>4, <2>2, <2>4 DEF Traced
  <2>5. QED
    BY <1>5, <2>3, <2>4
<1>7. n \in DOMAIN Balances /\ n - 1 = Len(curve)
  BY <1>4
<1>8. ClosedIn(curve, n - 1) = E
  <2>1. Held(active) = {}
    BY DEF Held
  <2>2. ClosedIn(curve, Len(curve)) = Shut(rows, active)
    BY AllClosed
  <2>3. QED
    BY <1>7, <2>1, <2>2 DEF Shut, E
<1>9. balance = StartingBalance + PnlOf(rows, E) /\ balance \in Int
  <2>1. Shut(rows, active) = E
    BY <1>7, <1>8, AllClosed
  <2>2. Balanced /\ balance \in Int
    BY Sorts DEF Inv
  <2>3. QED
    BY <2>1, <2>2 DEF Balanced
<1>10. o.final = Money(balance)
  BY <1>3, <1>6, <1>7, <1>8, <1>9
<1>11. o.netPnl = o.grossProfit - o.grossLoss
  BY <1>2, <1>3
<1> DEFINE P == PnlOf(rows, E)
           B0 == StartingBalance
           fin == Cent * o.final
           cnet == Cent * net
           csize == Cent * size
<1>12. /\ P \in Int /\ B0 \in Int /\ Cent \in Int /\ size \in Nat /\ balance = B0 + P
       /\ o.final \in Int /\ fin \in Int /\ cnet \in Int /\ csize \in Int
       /\ 2 * (cnet - P) <= csize /\ 2 * (P - cnet) <= csize
       /\ 2 * (fin - balance) <= Cent /\ 2 * (balance - fin) <= Cent
       /\ Cent * (size + 1) = csize + Cent
  <2>1. /\ net \in Int /\ P \in Int /\ size \in Nat
        /\ 2 * (cnet - P) <= csize /\ 2 * (P - cnet) <= csize
    BY <1>1, ProfitNear DEF net, size
  <2>2. o.final \in Int /\ 2 * (fin - balance) <= Cent /\ 2 * (balance - fin) <= Cent
    BY <1>9, <1>10, MoneyNear
  <2>3. Cent \in Int /\ B0 \in Int /\ 1 \in Int /\ size \in Int
    BY <2>1, PaperAssumption
  <2>4. Cent * (size + 1) = csize + Cent * 1 /\ csize \in Int
    BY <2>3, Spread
  <2>5. Cent * 1 = Cent
    BY <2>3
  <2>6. fin \in Int /\ cnet \in Int
    BY <2>1, <2>2, <2>3
  <2>7. QED
    BY <1>9, <2>1, <2>2, <2>3, <2>4, <2>5, <2>6
<1> HIDE DEF P, B0, fin, cnet, csize
<1>13. /\ 2 * ((fin - B0) - cnet) <= csize + Cent
       /\ 2 * (cnet - (fin - B0)) <= csize + Cent
  BY <1>12
<1>14. /\ 2 * ((Cent * o.final - StartingBalance) - Cent * o.netPnl) <= Cent * (o.executed + 1)
       /\ 2 * (Cent * o.netPnl - (Cent * o.final - StartingBalance)) <= Cent * (o.executed + 1)
  BY <1>3, <1>12, <1>13 DEF fin, B0, cnet
<1>15. 2 * (o.final - o.least - o.grossProfit) <= o.executed + 2
  <2> DEFINE B == ToSet(Balances)
  <2>1. B = {Balances[k] : k \in DOMAIN Balances}
    BY DEF ToSet
  <2>2. IsFiniteSet(DOMAIN Balances) /\ \A k \in DOMAIN Balances : Balances[k] \in Int
    BY <1>4, Indices
  <2>3. B \subseteq Int /\ B # {} /\ IsFiniteSet(B)
    <3>1. B \subseteq Int /\ B # {}
      BY <1>7, <2>1, <2>2
    <3>2. IsFiniteSet(B)
      BY <2>1, <2>2, FiniteImage
    <3>3. QED
      BY <3>1, <3>2
  <2>4. Min(B) \in B
    <3> HIDE DEF B
    <3>1. QED
      BY <2>3, MinIs
  <2>5. PICK k \in DOMAIN Balances : Min(B) = Balances[k]
    BY <2>1, <2>4
  <2> DEFINE C == ClosedIn(curve, k - 1)
             R == E \ C
             Q == PnlOf(rows, C)
             V == PnlOf(rows, R)
             X == ProfitOf(rows, R)
             r == Cardinality(R)
  <2>6. o.least = Money(B0 + Q) /\ C \in SUBSET E
    BY <1>3, <1>6, <2>5 DEF B0
  <2> HIDE DEF C, B
  <2>7. R \in SUBSET E /\ C \subseteq DOMAIN rows /\ R \subseteq DOMAIN rows
    BY <1>1, <2>6
  <2>8. Q \in Int /\ V \in Int /\ X \in Int /\ r \in Nat /\ 2 * (V - Cent * X) <= Cent * r
    BY <1>1, <2>7, ProfitNear
  <2>9. P = Q + V
    BY <1>1, <2>6, PnlSplit DEF P
  <2>10. X <= won
    BY <1>2, <2>7
  <2>11. r <= size
    <3> HIDE DEF R
    <3>1. IsFiniteSet(E) /\ R \subseteq E
      BY <1>1, <2>7, LedgerFinite
    <3>2. QED
      BY <3>1, FS_Subset DEF size
  <2> HIDE DEF Q, V, X, r, R
  <2>12. o.least \in Int /\ 2 * ((B0 + Q) - Cent * o.least) <= Cent
    <3>1. B0 + Q \in Int
      BY <1>12, <2>8
    <3> HIDE DEF B0
    <3>2. QED
      BY <2>6, <3>1, MoneyNear
  <2> DEFINE cl == Cent * o.least
             cx == Cent * X
             cr == Cent * r
             fell == 2 * (o.final - o.least)
             cap == (r + 2) + 2 * X
  <2>13. /\ cl \in Int /\ cx \in Int /\ cr \in Int /\ fell \in Int /\ cap \in Int
         /\ Cent * fell = 2 * (fin - cl) /\ Cent * cap = (cr + 2 * Cent) + 2 * cx
    <3>1. o.final \in Int /\ o.least \in Int /\ X \in Int /\ r \in Int /\ Cent \in Int
      BY <1>12, <2>8, <2>12
    <3> DEFINE a == o.final
               b == o.least
    <3>2. a \in Int /\ b \in Int
      BY <3>1
    <3>3. fin = Cent * a
      BY DEF fin
    <3> HIDE DEF a, b
    <3>4. Cent * (2 * (a - b)) = 2 * (Cent * a - Cent * b)
      BY <3>1, <3>2
    <3>5. Cent * ((r + 2) + 2 * X) = (Cent * r + 2 * Cent) + 2 * (Cent * X)
      BY <3>1
    <3>6. /\ Cent * b \in Int /\ Cent * X \in Int /\ Cent * r \in Int
          /\ 2 * (a - b) \in Int /\ (r + 2) + 2 * X \in Int
      BY <3>1, <3>2
    <3>7. QED
      BY <3>3, <3>4, <3>5, <3>6 DEF a, b
  <2> HIDE DEF cl, cx, cr
  <2>14. 2 * (fin - cl) <= (cr + 2 * Cent) + 2 * cx
    <3>1. 2 * (V - cx) <= cr /\ 2 * ((B0 + Q) - cl) <= Cent
      BY <2>8, <2>12 DEF cx, cr, cl
    <3>2. QED
      BY <1>12, <2>8, <2>9, <2>13, <3>1
  <2>15. fell <= cap
    <3>1. Cent * fell <= Cent * cap
      BY <2>13, <2>14
    <3> HIDE DEF fell, cap
    <3>2. QED
      BY <2>13, <3>1, Cents
  <2>16. QED
    BY <1>2, <1>3, <1>12, <2>8, <2>10, <2>11, <2>12, <2>15
<1>16. o.drawdown = Money(Max(Falls(AllPoints(Amounts(BalancesOf(curve))))))
  BY <1>1, <1>3, DrawdownRight
<1>17. QED
  BY <1>10, <1>11, <1>14, <1>15, <1>16 DEF AmountsTold, o

-----------------------------------------------------------------------------
(* The counts of the report, and its groups                                *)

AddsField(g, by, field, S) ==
    g = [s \in SUBSET S |->
            IF s = {} THEN 0 ELSE by[Some(s)][field] + g[s \ {Some(s)}]]

LEMMA TotalUnfolds ==
    ASSUME NEW by, NEW field
    PROVE  GroupTotal(by, field) = (CHOOSE g : AddsField(g, by, field, DOMAIN by))[DOMAIN by]
BY DEF GroupTotal, MapThenSumSet, MapThenFoldSet, AddsField, Some

LEMMA TotalIsSum ==
    ASSUME NEW by, NEW field, IsFiniteSet(DOMAIN by)
    PROVE  GroupTotal(by, field) = Sum([s \in DOMAIN by |-> by[s][field]], DOMAIN by)
<1> DEFINE S == DOMAIN by
           f == [s \in S |-> by[s][field]]
           g == CHOOSE h : AddsField(h, by, field, S)
           k == CHOOSE h : Adds(h, f, S)
<1>1. \A s \in SUBSET S : s # {} => f[Some(s)] = by[Some(s)][field]
  BY SomeIn
<1>2. ASSUME NEW h PROVE Adds(h, f, S) <=> AddsField(h, by, field, S)
  <2> HIDE DEF f, S
  <2>1. \A s \in SUBSET S :
          (IF s = {} THEN 0 ELSE f[Some(s)] + h[s \ {Some(s)}])
            = (IF s = {} THEN 0 ELSE by[Some(s)][field] + h[s \ {Some(s)}])
    BY <1>1
  <2>2. [s \in SUBSET S |-> IF s = {} THEN 0 ELSE f[Some(s)] + h[s \ {Some(s)}]]
          = [s \in SUBSET S |->
               IF s = {} THEN 0 ELSE by[Some(s)][field] + h[s \ {Some(s)}]]
    BY <2>1, Zenon
  <2>3. QED
    BY <2>2 DEF Adds, AddsField
<1>3. \E h : Adds(h, f, S)
  BY AddsExists
<1>4. Adds(k, f, S)
  BY <1>3
<1>5. AddsField(g, by, field, S)
  BY <1>2, <1>3
<1>6. Adds(g, f, S)
  BY <1>2, <1>5
<1> HIDE DEF g, k, f
<1>7. g[S] = k[S]
  BY <1>4, <1>6, AddsOnce
<1>8. QED
  BY <1>7, TotalUnfolds DEF g, k, f, Sum

\* A field that sums up a group of the trades S sums up S in all groups.
LEMMA TotalOfGroups ==
    ASSUME NEW S, IsFiniteSet(S), NEW f, \A x \in S : f[x] \in Int,
           NEW key, NEW by, NEW field, IsFiniteSet(DOMAIN by), \A x \in S : key[x] \in DOMAIN by,
           NEW of, \A d \in DOMAIN by : \A x : x \in of[d] <=> x \in S /\ key[x] = d,
           \A d \in DOMAIN by : by[d][field] = Sum(f, of[d])
    PROVE  GroupTotal(by, field) = Sum(f, S)
<1> DEFINE D == DOMAIN by
           g == [d \in D |-> by[d][field]]
<1>1. /\ IsFiniteSet(D) /\ \A x \in S : key[x] \in D
      /\ \A d \in D : \A x : x \in of[d] <=> x \in S /\ key[x] = d
      /\ \A d \in D : g[d] = Sum(f, of[d])
  OBVIOUS
<1>2. GroupTotal(by, field) = Sum(g, D)
  BY TotalIsSum
<1> HIDE DEF g, D
<1>3. Sum(g, D) = Sum(f, S)
  BY <1>1, SumOfGroups
<1>4. QED
  BY <1>2, <1>3

\* Every trade is counted once among those won, lost and even, and once in
\* the group of its symbol.
LEMMA CountsRight == ASSUME TypeOK PROVE CountsTold(Overall)
<1> DEFINE E == Executed
           W == Winners(E)
           L == Losers(E)
           Z == {i \in E : rows[i].c.r = 0}
           key == [i \in E |-> rows[i].c.symbol]
           D == {key[i] : i \in E}
           Of(s) == {i \in E : rows[i].c.symbol = s}
           by == [s \in D |-> Group(Of(s))]
           o == Overall
<1>1. rows \in Seq(Row) /\ E \subseteq DOMAIN rows
  BY Sorts DEF Executed
<1>2. \A i \in E : rows[i].pnl \in Int /\ rows[i].c.r \in Int
  <2> SUFFICES ASSUME NEW i \in E PROVE rows[i].pnl \in Int /\ rows[i].c.r \in Int
    OBVIOUS
  <2>1. rows[i] \in Row
    BY <1>1
  <2>2. rows[i].c \in Candidate /\ rows[i].pnl \in Int
    BY <2>1 DEF Row
  <2>3. QED
    BY <2>2, PaperAssumption DEF Candidate
<1>3. \A T \in SUBSET E : IsFiniteSet(T) /\ Cardinality(T) \in Nat
  <2> SUFFICES ASSUME NEW T \in SUBSET E PROVE IsFiniteSet(T) /\ Cardinality(T) \in Nat
    OBVIOUS
  <2>1. T \subseteq DOMAIN rows
    BY <1>1
  <2>2. QED
    BY <1>1, <2>1, LedgerFinite, FS_CardinalityType
<1>4. /\ o.executed = Cardinality(E) /\ o.wins = Cardinality(W) /\ o.losses = Cardinality(L)
      /\ o.breakeven = Cardinality(Z) /\ o.netPnl = ProfitOf(rows, E) /\ o.bySymbol = by
  <2>1. D = {rows[i].c.symbol : i \in E}
    OBVIOUS
  <2>2. by = [s \in {rows[i].c.symbol : i \in E} |-> Group({i \in E : rows[i].c.symbol = s})]
    BY <2>1
  <2>3. Pnl(E) = ProfitOf(rows, E)
    BY DEF Pnl, PnlUsd, ProfitOf
  <2> HIDE DEF by, D
  <2>4. QED
    BY <2>2, <2>3 DEF Overall
<1>5. o.executed = o.wins + o.losses + o.breakeven
  <2>1. /\ W \in SUBSET E /\ L \in SUBSET E /\ Z \in SUBSET E /\ E \in SUBSET E
        /\ W \cap L = {} /\ W \cup L \in SUBSET E /\ (W \cup L) \cap Z = {}
        /\ (W \cup L) \cup Z = E
    BY <1>2 DEF Winners, Losers
  <2> HIDE DEF W, L, Z, E, o
  <2>2. Cardinality(W \cup L) = Cardinality(W) + Cardinality(L)
    <3>1. Cardinality(W \cup L) = Cardinality(W) + Cardinality(L) - Cardinality(W \cap L)
      BY <1>3, <2>1, FS_Union
    <3>2. QED
      BY <1>3, <2>1, <3>1, FS_EmptySet
  <2>3. Cardinality(E) = Cardinality(W \cup L) + Cardinality(Z)
    <3>1. Cardinality((W \cup L) \cup Z)
            = Cardinality(W \cup L) + Cardinality(Z) - Cardinality((W \cup L) \cap Z)
      BY <1>3, <2>1, FS_Union
    <3>2. Cardinality((W \cup L) \cap Z) = 0
      BY <2>1, FS_EmptySet
    <3>3. Cardinality((W \cup L) \cup Z) = Cardinality(E)
      BY <2>1
    <3>4. Cardinality(W \cup L) \in Nat /\ Cardinality(Z) \in Nat
      BY <1>3, <2>1
    <3>5. QED
      BY <3>1, <3>2, <3>3, <3>4
  <2>4. QED
    BY <1>3, <1>4, <2>1, <2>2, <2>3
<1>6. IsFiniteSet(D)
  <2>1. IsFiniteSet(E)
    BY <1>3
  <2> HIDE DEF E, key
  <2>2. QED
    BY <2>1, FiniteImage
<1>7. /\ DOMAIN by = D
      /\ \A s \in D : /\ by[s].trades = Cardinality(Of(s))
                      /\ by[s].wins = Cardinality(Winners(Of(s)))
                      /\ by[s].netPnl = ProfitOf(rows, Of(s))
  <2> HIDE DEF D, Of
  <2>1. QED
    BY DEF Group, Pnl, PnlUsd, ProfitOf
<1>8. \A i \in E : key[i] = rows[i].c.symbol /\ key[i] \in D
  OBVIOUS
<1> DEFINE one == [i \in E |-> 1]
           profit == Profits(rows)
<1>9. \A T \in SUBSET E : Sum(one, T) = Cardinality(T) /\ ProfitOf(rows, T) = Sum(profit, T)
  <2> SUFFICES ASSUME NEW T \in SUBSET E
               PROVE  Sum(one, T) = Cardinality(T) /\ ProfitOf(rows, T) = Sum(profit, T)
    OBVIOUS
  <2>1. T \subseteq DOMAIN rows /\ IsFiniteSet(T) /\ \A x \in T : one[x] = 1
    BY <1>1, <1>3
  <2> HIDE DEF one
  <2>2. QED
    BY <2>1, ProfitIsSum, SumOfOnes
<1>10. /\ \A i \in E : one[i] \in Int /\ profit[i] \in Int
       /\ W \in SUBSET E /\ IsFiniteSet(W) /\ IsFiniteSet(E) /\ IsFiniteSet(DOMAIN by)
       /\ \A i \in E : key[i] \in DOMAIN by
       /\ \A d \in D : Of(d) \in SUBSET E /\ Winners(Of(d)) \in SUBSET E
  <2>1. W \in SUBSET E /\ \A d \in D : Of(d) \in SUBSET E /\ Winners(Of(d)) \in SUBSET E
    BY DEF Winners
  <2>2. \A i \in E : one[i] \in Int /\ profit[i] \in Int
    <3> SUFFICES ASSUME NEW i \in E PROVE one[i] \in Int /\ profit[i] \in Int
      OBVIOUS
    <3>1. i \in DOMAIN rows /\ Money(rows[i].pnl) \in Int
      BY <1>1, <1>2, MoneyNear
    <3>2. QED
      BY <3>1 DEF Profits
  <2> HIDE DEF D, by, E, W, key, Of, one, profit
  <2>3. QED
    BY <1>3, <1>6, <1>7, <1>8, <2>1, <2>2
<1> DEFINE all == [d \in D |-> Of(d)]
           won == [d \in D |-> Winners(Of(d))]
<1>11. \A d \in DOMAIN by :
          /\ \A x : x \in all[d] <=> x \in E /\ key[x] = d
          /\ \A x : x \in won[d] <=> x \in W /\ key[x] = d
          /\ by[d]["trades"] = Sum(one, all[d]) /\ by[d]["wins"] = Sum(one, won[d])
          /\ by[d]["netPnl"] = Sum(profit, all[d])
  <2> SUFFICES ASSUME NEW d \in D
               PROVE  /\ \A x : x \in Of(d) <=> x \in E /\ key[x] = d
                      /\ \A x : x \in Winners(Of(d)) <=> x \in W /\ key[x] = d
                      /\ by[d]["trades"] = Sum(one, Of(d)) /\ by[d]["wins"] = Sum(one, Winners(Of(d)))
                      /\ by[d]["netPnl"] = Sum(profit, Of(d))
    BY <1>7
  <2>1. \A x : x \in Of(d) <=> x \in E /\ key[x] = d
    OBVIOUS
  <2>2. \A x : x \in Winners(Of(d)) <=> x \in W /\ key[x] = d
    BY DEF Winners
  <2> HIDE DEF D, by, E, W, key, Of, one, profit
  <2>3. QED
    BY <1>7, <1>9, <1>10, <2>1, <2>2
<1>12. /\ GroupTotal(by, "trades") = Cardinality(E) /\ GroupTotal(by, "wins") = Cardinality(W)
       /\ GroupTotal(by, "netPnl") = ProfitOf(rows, E)
  <2> HIDE DEF D, by, E, W, key, Of, one, profit, all, won
  <2>1. GroupTotal(by, "trades") = Sum(one, E)
    BY <1>10, <1>11, TotalOfGroups
  <2>2. GroupTotal(by, "wins") = Sum(one, W)
    BY <1>10, <1>11, TotalOfGroups
  <2>3. GroupTotal(by, "netPnl") = Sum(profit, E)
    BY <1>10, <1>11, TotalOfGroups
  <2>4. E \in SUBSET E
    OBVIOUS
  <2>5. QED
    BY <1>9, <1>10, <2>1, <2>2, <2>3, <2>4
<1>13. QED
  <2> HIDE DEF by, E, W, L, Z, o
  <2>1. QED
    BY <1>4, <1>5, <1>12 DEF CountsTold, o

-----------------------------------------------------------------------------
(* The account                                                             *)

\* A step keeps what is said of the curve and of the report.
LEMMA TracedKept == ASSUME Inv, Inv', Traced(rows, curve), [Next]_vars PROVE Traced(rows', curve')
<1>1. /\ rows \in Seq(Row) /\ curve \in Seq([row : Taken(rows), balance : Int])
      /\ DOMAIN curve = 1..Len(curve) /\ Len(curve) \in Nat
      /\ \A k \in DOMAIN curve : curve[k].row \in Taken(rows)
      /\ Taken(rows) \subseteq DOMAIN rows
  BY Sorts DEF Inv
<1>2. CASE rows' = rows /\ curve' = curve
  BY <1>2
<1>3. CASE DecideCandidate
  <2>1. PICK row : rows' = Append(rows, row) /\ curve' = curve
    BY <1>3 DEF DecideCandidate
  <2>2. rows' \in Seq(Row)
    BY DEF Inv, TypeOK
  <2>3. \A i \in DOMAIN rows : i \in DOMAIN rows' /\ rows'[i] = rows[i]
    BY <1>1, <2>1
  <2>4. ASSUME NEW k \in DOMAIN curve
        PROVE  curve[k].balance = Money(StartingBalance + PnlOf(rows', ClosedIn(curve, k)))
    <3> DEFINE C == ClosedIn(curve, k)
    <3>1. C \subseteq DOMAIN rows
      <4>1. \A l \in 1..k : l \in DOMAIN curve
        BY <1>1
      <4>2. QED
        BY <1>1, <4>1 DEF ClosedIn
    <3>2. C \subseteq DOMAIN rows' /\ \A i \in C : rows[i] = rows'[i]
      BY <2>3, <3>1
    <3>3. curve[k].balance = Money(StartingBalance + PnlOf(rows, C))
      BY DEF Traced
    <3> HIDE DEF C
    <3>4. PnlOf(rows, C) = PnlOf(rows', C)
      BY <1>1, <2>2, <3>1, <3>2, PnlSame
    <3>5. QED
      BY <3>3, <3>4 DEF C
  <2>5. QED
    BY <2>1, <2>4 DEF Traced
<1>4. CASE CloseDueTrade
  <2> DEFINE n == Len(curve) + 1
  <2>1. PICK k \in Due : /\ curve' = Append(curve, [row |-> active[k], balance |-> Money(balance')])
                         /\ rows' = rows
    BY <1>4 DEF CloseDueTrade
  <2>2. /\ DOMAIN curve' = 1..n /\ Len(curve') = n /\ curve'[n].balance = Money(balance')
        /\ \A l \in 1..Len(curve) : curve'[l] = curve[l]
    BY <1>1, <2>1
  <2>3. ClosedIn(curve', Len(curve')) = Shut(rows', active')
    <3>1. (ClosedIn(curve, Len(curve)) = Shut(rows, active))'
      BY AllClosed, PTL
    <3>2. QED
      BY <3>1
  <2>4. balance' = StartingBalance + PnlOf(rows', ClosedIn(curve', n))
    BY <2>2, <2>3 DEF Inv, Balanced
  <2>5. ASSUME NEW l \in 1..Len(curve)
        PROVE  curve'[l].balance = Money(StartingBalance + PnlOf(rows', ClosedIn(curve', l)))
    <3>1. \A j \in 1..l : curve'[j] = curve[j]
      BY <1>1, <2>2
    <3>2. ClosedIn(curve', l) = ClosedIn(curve, l)
      BY <3>1 DEF ClosedIn
    <3>3. QED
      BY <1>1, <2>1, <2>2, <3>2 DEF Traced
  <2>6. \A l \in 1..n : l \in 1..Len(curve) \/ l = n
    BY <1>1
  <2> HIDE DEF n
  <2>7. QED
    BY <2>2, <2>4, <2>5, <2>6 DEF Traced
<1>5. QED
  BY <1>2, <1>3, <1>4 DEF Next, TakeCandidate, TakeEnd, Report, vars

LEMMA ReportedKept == ASSUME Inv, Traced(rows, curve), Reported, [Next]_vars PROVE Reported'
<1>1. CASE Report
  <2>1. /\ active = <<>> /\ report' = <<Overall>>
        /\ rows' = rows /\ curve' = curve /\ balance' = balance
    BY <1>1 DEF Report
  <2>2. rows \in Seq(Row) /\ TypeOK
    BY Sorts DEF Inv
  <2>3. Told(Overall, rows, curve, balance)
    BY <2>1, <2>2, AmountsRight, CountsRight, LedgerSorted DEF Told
  <2>4. report'[1] = Overall
    BY <2>1
  <2> HIDE DEF Told
  <2>5. Told(report'[1], rows', curve', balance')
    BY <2>1, <2>3, <2>4
  <2>6. QED
    BY <2>5 DEF Reported
<1>2. CASE pc' # "done"
  BY <1>2 DEF Reported
<1>3. CASE UNCHANGED vars
  <2>1. pc' = pc /\ report' = report /\ rows' = rows /\ curve' = curve /\ balance' = balance
    BY <1>3 DEF vars
  <2>2. QED
    BY <2>1 DEF Reported
<1>4. CASE CloseDueTrade
  <2>1. pc \in {"close", "drain"} /\ pc' = pc
    BY <1>4 DEF CloseDueTrade, Due, IsDue
  <2>2. QED
    BY <1>2, <2>1
<1>5. QED
  BY <1>1, <1>2, <1>3, <1>4 DEF Next, TakeCandidate, TakeEnd, DecideCandidate

LEMMA ReportedTrue == ASSUME Reported, Traced(rows, curve) PROVE ReportTrue
<1>1. \A k \in DOMAIN curve : curve[k].balance = Money(StartingBalance + Moved(ClosedBy(k)))
  BY DEF Traced, Moved, PnlOf, ClosedIn, ClosedBy
<1>2. QED
  BY <1>1 DEF Reported, ReportTrue, Told, AmountsTold, CountsTold, LedgerTold, GroupTotal, Falls,
     Balances, BalancesOf, Points, Amounts, AllPoints, Entry

\* The report's account is what the account did, whatever order the candidates
\* fill in: every executed trade is on the curve once, each balance told is the
\* account rounded once, the net profit summed over rounded rows is off by half
\* a cent a row at most, the drawdown is the deepest fall of the curve, the
\* groups add up, and the ledger is listed in order of entry.
THEOREM AccountAlwaysSound == Spec => []AccountSound
<1> DEFINE I == Inv /\ Traced(rows, curve) /\ Reported
<1>1. Init => I
  <2> SUFFICES ASSUME Init PROVE Traced(rows, curve) /\ Reported
    BY InvInit
  <2>1. curve = <<>> /\ pc = "next"
    BY DEF Init
  <2>2. QED
    BY <2>1 DEF Traced, Reported
<1>2. I /\ Inv' /\ [Next]_vars => I'
  BY TracedKept, ReportedKept
<1>3. I => TypeOK /\ ReportTrue
  BY ReportedTrue DEF Inv
<1> HIDE DEF I
<1>4. Spec => []I
  BY <1>1, <1>2, Invariance, PTL DEF Spec
<1>5. QED
  BY <1>3, <1>4, LedgerAlwaysBalances, PTL DEF AccountSound
=============================================================================
