------------------------- MODULE BacktestRunnerProofs -------------------------
(***************************************************************************)
(* Proofs about BacktestRunner.                                            *)
(*                                                                         *)
(* The first part is about the engine the runner starts.  Its invariant    *)
(* says where the order stands: it is of the bar at the cursor, every bar  *)
(* from its fill to the one it has come to was read, and what was closed   *)
(* of it, and what its targets can still close, is no further off the      *)
(* entry than the risk.  The equity stands while a trade runs, so that one *)
(* begun below the limit can overrun it by its own loss only.              *)
(*                                                                         *)
(* The second part is about who can tear a file of the trade cache.        *)
(* A process opens the temporary file of its key, writes it and moves it   *)
(* into place.  The invariant follows who has that file open: all of them  *)
(* are among its writers, and as long as that is a single process, what it *)
(* is about to write to is empty and what it is about to move is whole.    *)
(* A process that dies in between leaves the temporary file behind, which  *)
(* the next one to open it empties.                                        *)
(***************************************************************************)
EXTENDS BacktestRunner, CountingLemmas

-----------------------------------------------------------------------------
(* A trade of the engine                                                   *)

OrderFields ==
    {"signal", "side", "plan", "factor", "at", "fill", "entry", "firstStop", "stop", "target",
     "partials", "risk", "size", "remaining", "realized", "breakEven", "trailing", "exit", "reason"}

Levels == [size : Nat, price : Int]

BarType == [low : Int, high : Int, close : Int]

OrderOK(o) ==
    /\ DOMAIN o = OrderFields
    /\ o.side \in {"BUY", "SELL"} /\ o.plan \in Plans /\ o.partials \in Seq(Levels)
    /\ o.at \in Int /\ o.fill \in Int /\ o.exit \in Int
    /\ o.entry \in Int /\ o.firstStop \in Int /\ o.stop \in Int /\ o.target \in Int
    /\ o.factor \in Int /\ o.risk \in Nat \ {0} /\ o.remaining \in Int /\ o.realized \in Int
    /\ o.breakEven \in BOOLEAN

-----------------------------------------------------------------------------
(* The partial targets of a plan                                           *)

PartialType == [r : Nat, size : Nat]

LayOne(plan, entry, risk, levels, p) ==
    LET Level(q) == [size |-> q.size,
                     price |-> IF plan.adaptive THEN entry + risk * q.r ELSE StopTicks * q.r]
    IN  IF plan.adaptive /\ p.r >= plan.targetR THEN levels ELSE Append(levels, Level(p))

Lays(g, plan, entry, risk) ==
    g = [s \in SUBSET DOMAIN plan.partials |->
            IF s = {} THEN <<>>
            ELSE LayOne(plan, entry, risk, g[s \ {Greatest(s)}], plan.partials[Greatest(s)])]

LEMMA PartialsAre ==
    ASSUME NEW plan, NEW entry, NEW risk
    PROVE  Partials(plan, entry, risk) =
             (CHOOSE g : Lays(g, plan, entry, risk))[DOMAIN plan.partials]
BY DEF Partials, FoldLeft, MapThenFoldSet, Max, Greatest, Lays, LayOne

LEMMA PlanTyped ==
    ASSUME NEW plan \in Plans
    PROVE  /\ plan.adaptive \in BOOLEAN /\ plan.partials \in Seq(PartialType) /\ plan.targetR \in Nat
           /\ plan.hold \in Nat /\ plan.breakEvenR \in Nat /\ plan.trailingStartR \in Nat
           /\ plan.lookback \in Nat \ {0}
BY BacktestAssumption DEF PartialType

LEMMA LayTyped ==
    ASSUME NEW plan \in Plans, NEW entry \in Int, NEW risk \in Int,
           NEW levels \in Seq(Levels), NEW p \in PartialType
    PROVE  LayOne(plan, entry, risk, levels, p) \in Seq(Levels)
<1> DEFINE price == IF plan.adaptive THEN entry + risk * p.r ELSE StopTicks * p.r
<1>1. p.r \in Int /\ p.size \in Nat
  BY DEF PartialType
<1>2. risk * p.r \in Int /\ StopTicks * p.r \in Int
  BY <1>1, BacktestAssumption
<1>3. price \in Int
  BY <1>2
<1> HIDE DEF price
<1>4. [size |-> p.size, price |-> price] \in Levels
  BY <1>1, <1>3 DEF Levels
<1>5. Append(levels, [size |-> p.size, price |-> price]) \in Seq(Levels)
  BY <1>4
<1>6. QED
  BY <1>5 DEF LayOne, price

\* What holds of no target, and of one more whenever it holds of some, holds of
\* the plan's.
LEMMA PartialsIn ==
    ASSUME NEW plan \in Plans, NEW entry, NEW risk, NEW A, <<>> \in A,
           \A x \in DOMAIN plan.partials : \A a \in A :
              LayOne(plan, entry, risk, a, plan.partials[x]) \in A
    PROVE  Partials(plan, entry, risk) \in A
<1> DEFINE D == DOMAIN plan.partials
           F(B) == [z \in D \X B |-> LayOne(plan, entry, risk, z[2], plan.partials[z[1]])]
<1>1. IsFiniteSet(D) /\ HasGreatest(D)
  BY PlanTyped, Indices
<1>2. <<>> \in A
  OBVIOUS
<1>3. \A x \in D : \A a \in A : LayOne(plan, entry, risk, a, plan.partials[x]) \in A
  OBVIOUS
<1> HIDE DEF D
<1>4. \E g : Lays(g, plan, entry, risk)
  <2> DEFINE T == F(A)
  <2>1. \A x \in D : \A a \in A : T[<<x, a>>] = LayOne(plan, entry, risk, a, plan.partials[x])
    OBVIOUS
  <2>2. \A x \in D : \A a \in A : T[<<x, a>>] \in A
    BY <1>3, <2>1
  <2> HIDE DEF T
  <2>3. PICK g : Steps(g, T, <<>>, D)
    BY <1>1, StepsExists
  <2>4. \A s \in SUBSET D : g[s] \in A
    BY <1>1, <1>2, <2>2, <2>3, StepsIn
  <2>5. \A s \in SUBSET D : s # {} =>
           T[<<Greatest(s), g[s \ {Greatest(s)}]>>] =
             LayOne(plan, entry, risk, g[s \ {Greatest(s)}], plan.partials[Greatest(s)])
    BY <1>1, <2>1, <2>4 DEF HasGreatest
  <2>6. g = [s \in SUBSET D |->
               IF s = {} THEN <<>>
               ELSE LayOne(plan, entry, risk, g[s \ {Greatest(s)}], plan.partials[Greatest(s)])]
    BY <2>3, <2>5, Zenon DEF Steps
  <2>7. QED
    BY <2>6 DEF Lays, D
<1> DEFINE h == CHOOSE g : Lays(g, plan, entry, risk)
<1>5. Lays(h, plan, entry, risk)
  BY <1>4
<1> HIDE DEF h
<1>6. h[D] \in A
  <2> DEFINE B == A \cup {h[s] : s \in SUBSET D}
             T == F(B)
  <2>1. \A x \in D : \A a \in B : T[<<x, a>>] = LayOne(plan, entry, risk, a, plan.partials[x])
    OBVIOUS
  <2>2. \A x \in D : \A a \in A : T[<<x, a>>] \in A
    BY <1>3, <2>1
  <2>3. \A s \in SUBSET D : s # {} =>
           T[<<Greatest(s), h[s \ {Greatest(s)}]>>] =
             LayOne(plan, entry, risk, h[s \ {Greatest(s)}], plan.partials[Greatest(s)])
    BY <1>1, <2>1 DEF HasGreatest
  <2> HIDE DEF T
  <2>4. h = [s \in SUBSET D |->
               IF s = {} THEN <<>>
               ELSE LayOne(plan, entry, risk, h[s \ {Greatest(s)}], plan.partials[Greatest(s)])]
    BY <1>5 DEF Lays, D
  <2>5. h = [s \in SUBSET D |-> IF s = {} THEN <<>> ELSE T[<<Greatest(s), h[s \ {Greatest(s)}]>>]]
    BY <2>3, <2>4, Zenon
  <2>6. Steps(h, T, <<>>, D)
    BY <2>5 DEF Steps
  <2>7. \A s \in SUBSET D : h[s] \in A
    BY <1>1, <1>2, <2>2, <2>6, StepsIn
  <2>8. QED
    BY <2>7
<1>7. QED
  BY <1>6, PartialsAre DEF h, D

LEMMA PartialsTyped ==
    ASSUME NEW plan \in Plans, NEW entry \in Int, NEW risk \in Int
    PROVE  Partials(plan, entry, risk) \in Seq(Levels)
<1> DEFINE A == Seq(Levels)
<1>1. \A k \in DOMAIN plan.partials : plan.partials[k] \in PartialType
  BY PlanTyped
<1>2. <<>> \in A
  OBVIOUS
<1>3. \A x \in DOMAIN plan.partials : \A a \in A :
         LayOne(plan, entry, risk, a, plan.partials[x]) \in A
  BY <1>1, LayTyped
<1> HIDE DEF A
<1>4. Partials(plan, entry, risk) \in A
  BY <1>2, <1>3, PartialsIn
<1>5. QED
  BY <1>4 DEF A

-----------------------------------------------------------------------------
(* The partial targets taken by a bar                                      *)

TakeOne(o, bar, acc, p) ==
    LET closed == Min({p.size, acc.remaining})
    IN  IF closed = 0 \/ bar.high < p.price
        THEN [acc EXCEPT !.partials = Append(@, p)]
        ELSE [acc EXCEPT !.remaining = @ - closed,
                         !.realized = @ + Booked(o, closed, p.price)]

Takes(g, o, bar) ==
    g = [s \in SUBSET DOMAIN o.partials |->
            IF s = {} THEN [o EXCEPT !.partials = <<>>]
            ELSE TakeOne(o, bar, g[s \ {Greatest(s)}], o.partials[Greatest(s)])]

LEMMA TakePartialsAre ==
    ASSUME NEW o, NEW bar
    PROVE  TakePartials(o, bar) = (CHOOSE g : Takes(g, o, bar))[DOMAIN o.partials]
BY DEF TakePartials, FoldLeft, MapThenFoldSet, Max, Greatest, Takes, TakeOne

\* What taking targets can make of a trade.
Left(o, x, b, c) == [o EXCEPT !.partials = x, !.remaining = b, !.realized = c]

Taken(o) == {Left(o, z[1], z[2], z[3]) : z \in Seq(Levels) \X Int \X Int}

LEMMA LeftIn ==
    ASSUME NEW o, NEW x \in Seq(Levels), NEW b \in Int, NEW c \in Int
    PROVE  Left(o, x, b, c) \in Taken(o)
<1> DEFINE z == <<x, b, c>>
<1>1. z \in Seq(Levels) \X Int \X Int /\ z[1] = x /\ z[2] = b /\ z[3] = c
  OBVIOUS
<1> HIDE DEF z
<1>2. Left(o, x, b, c) = Left(o, z[1], z[2], z[3])
  BY <1>1
<1>3. QED
  BY <1>1, <1>2 DEF Taken

LEMMA BookedTyped ==
    ASSUME NEW o, OrderOK(o), NEW size \in Int, NEW price \in Int
    PROVE  Booked(o, size, price) \in Int
<1>1. o.entry \in Int
  BY DEF OrderOK
<1>2. price - o.entry \in Int
  BY <1>1
<1>3. QED
  BY <1>2 DEF Booked

LEMMA TakeTyped ==
    ASSUME NEW o, OrderOK(o), NEW bar \in BarType, NEW a \in Taken(o), NEW p \in Levels
    PROVE  TakeOne(o, bar, a, p) \in Taken(o)
<1>1. PICK x \in Seq(Levels), b \in Int, c \in Int :
         a = Left(o, x, b, c)
  BY DEF Taken
<1>2. DOMAIN o = OrderFields
  BY DEF OrderOK
<1>3. a.partials = x /\ a.remaining = b /\ a.realized = c
  BY <1>1, <1>2 DEF OrderFields, Left
<1> DEFINE closed == Min({p.size, a.remaining})
           gain == Booked(o, closed, p.price)
<1>4. p.size \in Int /\ p.price \in Int
  BY DEF Levels
<1>5. closed \in Int /\ gain \in Int
  <2>1. closed \in Int
    BY <1>3, <1>4, OfTwo
  <2>2. QED
    BY <1>4, <2>1, BookedTyped
<1> HIDE DEF closed, gain
<1>6. CASE closed = 0 \/ bar.high < p.price
  <2>1. TakeOne(o, bar, a, p) = [a EXCEPT !.partials = Append(@, p)]
    BY <1>6 DEF TakeOne, closed
  <2>2. TakeOne(o, bar, a, p) = Left(o, Append(x, p), b, c)
    BY <1>1, <1>2, <1>3, <2>1 DEF OrderFields, Left
  <2>3. Append(x, p) \in Seq(Levels)
    OBVIOUS
  <2>4. Left(o, Append(x, p), b, c) \in Taken(o)
    BY <2>3, LeftIn, Zenon
  <2>5. QED
    BY <2>2, <2>4, Zenon
<1>7. CASE ~(closed = 0 \/ bar.high < p.price)
  <2>1. TakeOne(o, bar, a, p) = [a EXCEPT !.remaining = @ - closed, !.realized = @ + gain]
    BY <1>7 DEF TakeOne, closed, gain
  <2>2. TakeOne(o, bar, a, p) = Left(o, x, b - closed, c + gain)
    BY <1>1, <1>2, <1>3, <2>1 DEF OrderFields, Left
  <2>3. b - closed \in Int /\ c + gain \in Int
    BY <1>5
  <2>4. Left(o, x, b - closed, c + gain) \in Taken(o)
    BY <2>3, LeftIn, Zenon
  <2>5. QED
    BY <2>2, <2>4, Zenon
<1>8. QED
  BY <1>6, <1>7

LEMMA TakePartialsIn ==
    ASSUME NEW o, OrderOK(o), NEW bar, NEW A, [o EXCEPT !.partials = <<>>] \in A,
           \A x \in DOMAIN o.partials : \A a \in A : TakeOne(o, bar, a, o.partials[x]) \in A
    PROVE  TakePartials(o, bar) \in A
<1> DEFINE D == DOMAIN o.partials
           base == [o EXCEPT !.partials = <<>>]
           F(B) == [z \in D \X B |-> TakeOne(o, bar, z[2], o.partials[z[1]])]
<1>1. IsFiniteSet(D) /\ HasGreatest(D)
  BY Indices DEF OrderOK
<1>2. base \in A
  OBVIOUS
<1>3. \A x \in D : \A a \in A : TakeOne(o, bar, a, o.partials[x]) \in A
  OBVIOUS
<1> HIDE DEF D, base
<1>4. \E g : Takes(g, o, bar)
  <2> DEFINE T == F(A)
  <2>1. \A x \in D : \A a \in A : T[<<x, a>>] = TakeOne(o, bar, a, o.partials[x])
    OBVIOUS
  <2>2. \A x \in D : \A a \in A : T[<<x, a>>] \in A
    BY <1>3, <2>1
  <2> HIDE DEF T
  <2>3. PICK g : Steps(g, T, base, D)
    BY <1>1, StepsExists
  <2>4. \A s \in SUBSET D : g[s] \in A
    BY <1>1, <1>2, <2>2, <2>3, StepsIn
  <2>5. \A s \in SUBSET D : s # {} =>
           T[<<Greatest(s), g[s \ {Greatest(s)}]>>] = TakeOne(o, bar, g[s \ {Greatest(s)}], o.partials[Greatest(s)])
    BY <1>1, <2>1, <2>4 DEF HasGreatest
  <2>6. g = [s \in SUBSET D |->
               IF s = {} THEN base ELSE TakeOne(o, bar, g[s \ {Greatest(s)}], o.partials[Greatest(s)])]
    BY <2>3, <2>5, Zenon DEF Steps
  <2>7. QED
    BY <2>6 DEF Takes, D, base
<1> DEFINE h == CHOOSE g : Takes(g, o, bar)
<1>5. Takes(h, o, bar)
  BY <1>4
<1> HIDE DEF h
<1>6. h[D] \in A
  <2> DEFINE B == A \cup {h[s] : s \in SUBSET D}
             T == F(B)
  <2>1. \A x \in D : \A a \in B : T[<<x, a>>] = TakeOne(o, bar, a, o.partials[x])
    OBVIOUS
  <2>2. \A x \in D : \A a \in A : T[<<x, a>>] \in A
    BY <1>3, <2>1
  <2>3. \A s \in SUBSET D : s # {} =>
           T[<<Greatest(s), h[s \ {Greatest(s)}]>>] = TakeOne(o, bar, h[s \ {Greatest(s)}], o.partials[Greatest(s)])
    BY <1>1, <2>1 DEF HasGreatest
  <2> HIDE DEF T
  <2>4. h = [s \in SUBSET D |->
               IF s = {} THEN base ELSE TakeOne(o, bar, h[s \ {Greatest(s)}], o.partials[Greatest(s)])]
    BY <1>5 DEF Takes, D, base
  <2>5. h = [s \in SUBSET D |-> IF s = {} THEN base ELSE T[<<Greatest(s), h[s \ {Greatest(s)}]>>]]
    BY <2>3, <2>4, Zenon
  <2>6. Steps(h, T, base, D)
    BY <2>5 DEF Steps
  <2>7. \A s \in SUBSET D : h[s] \in A
    BY <1>1, <1>2, <2>2, <2>6, StepsIn
  <2>8. QED
    BY <2>7
<1>7. QED
  BY <1>6, TakePartialsAre DEF h, D

LEMMA NothingTaken ==
    ASSUME NEW o, OrderOK(o)
    PROVE  LET base == [o EXCEPT !.partials = <<>>]
           IN  /\ base \in Taken(o) /\ base.partials = <<>>
               /\ base.remaining = o.remaining /\ base.realized = o.realized
<1> DEFINE base == [o EXCEPT !.partials = <<>>]
<1>1. /\ o.remaining \in Int /\ o.realized \in Int /\ DOMAIN o = OrderFields
      /\ <<>> \in Seq(Levels)
  BY DEF OrderOK
<1>2. base = Left(o, <<>>, o.remaining, o.realized)
  BY <1>1 DEF OrderFields, Left
<1>3. Left(o, <<>>, o.remaining, o.realized) \in Taken(o)
  BY <1>1, LeftIn, Zenon
<1>4. QED
  BY <1>1, <1>2, <1>3 DEF OrderFields

LEMMA TakePartialsTyped ==
    ASSUME NEW o, OrderOK(o), NEW bar \in BarType
    PROVE  TakePartials(o, bar) \in Taken(o)
<1> DEFINE A == Taken(o)
<1>1. \A k \in DOMAIN o.partials : o.partials[k] \in Levels
  BY DEF OrderOK
<1>2. [o EXCEPT !.partials = <<>>] \in A
  BY NothingTaken
<1>3. \A x \in DOMAIN o.partials : \A a \in A : TakeOne(o, bar, a, o.partials[x]) \in A
  BY <1>1, TakeTyped
<1> HIDE DEF A
<1>4. TakePartials(o, bar) \in A
  BY <1>2, <1>3, TakePartialsIn
<1>5. QED
  BY <1>4 DEF A

\* The rest of the trade is as it was.
Kept(r, o) ==
    /\ r.at = o.at /\ r.fill = o.fill /\ r.plan = o.plan /\ r.size = o.size
    /\ r.entry = o.entry /\ r.risk = o.risk /\ r.firstStop = o.firstStop
    /\ r.target = o.target /\ r.factor = o.factor

LEMMA TakePartialsKeeps ==
    ASSUME NEW o, OrderOK(o), NEW bar \in BarType
    PROVE  LET r == TakePartials(o, bar)
           IN  OrderOK(r) /\ Kept(r, o) /\ r.stop = o.stop /\ r.reason = o.reason
<1> DEFINE r == TakePartials(o, bar)
<1>1. PICK x \in Seq(Levels), b \in Int, c \in Int :
         r = Left(o, x, b, c)
  BY TakePartialsTyped DEF Taken
<1> HIDE DEF r
<1>2. QED
  BY <1>1 DEF OrderOK, OrderFields, Kept, Left, r

-----------------------------------------------------------------------------
(* Opening a trade                                                         *)

LEMMA ViewTyped ==
    ASSUME NEW side, NEW b \in Bars
    PROVE  View(side, b) \in BarType
<1>1. b \in BarType
  BY BacktestAssumption DEF BarType
<1>2. b.low \in Int /\ b.high \in Int /\ b.close \in Int
  BY <1>1 DEF BarType
<1>3. -b.low \in Int /\ -b.high \in Int /\ -b.close \in Int
  BY <1>2
<1>4. [low |-> -b.high, high |-> -b.low, close |-> -b.close] \in BarType
  BY <1>3 DEF BarType
<1>5. QED
  BY <1>1, <1>4 DEF View

LEMMA QuotientTyped ==
    ASSUME NEW a \in Int, NEW b \in Nat \ {0}
    PROVE  a \div b \in Int
OBVIOUS

OpenedAs(r, o, fill, size) ==
    /\ OrderOK(r) /\ r.fill = fill /\ r.exit = fill /\ r.size = size
    /\ r.at = o.at /\ r.plan = o.plan /\ r.reason = o.reason

LEMMA OpenedTyped ==
    ASSUME NEW o, OrderOK(o), NEW fill \in Int, NEW entry \in Int, NEW size \in 1..Whole,
           NEW atr \in Nat
    PROVE  OpenedAs(Opened(o, fill, entry, size, atr), o, fill, size)
<1> DEFINE stop == IF atr > 0 THEN entry - atr ELSE -StopTicks
           target == IF atr > 0 THEN entry + (atr * TargetTicks) \div StopTicks ELSE TargetTicks
           gap == IF entry >= stop THEN entry - stop ELSE stop - entry
           risk == Max({1, gap})
           takeProfit == TakeProfit(o.plan, entry, risk, target)
           partials == Partials(o.plan, entry, risk)
           r == Opened(o, fill, entry, size, atr)
<1>1. StopTicks \in Nat \ {0} /\ TargetTicks \in Nat \ {0}
  BY BacktestAssumption
<1>2. stop \in Int
  BY <1>1
<1>3. target \in Int
  <2>1. atr * TargetTicks \in Int
    BY <1>1
  <2>2. (atr * TargetTicks) \div StopTicks \in Int
    BY <1>1, <2>1, QuotientTyped
  <2>3. QED
    BY <1>1, <2>2
<1> HIDE DEF stop, target
<1>4. gap \in Int
  BY <1>2
<1> HIDE DEF gap
<1>5. risk \in Nat \ {0}
  BY <1>4, OfTwo
<1> HIDE DEF risk
<1>6. o.plan \in Plans /\ DOMAIN o = OrderFields
  BY DEF OrderOK
<1>7. takeProfit \in Int
  <2>1. o.plan.targetR \in Int
    BY <1>6, PlanTyped
  <2>2. risk * o.plan.targetR \in Int
    BY <1>5, <2>1
  <2>3. QED
    BY <1>3, <2>2 DEF TakeProfit
<1>8. partials \in Seq(Levels)
  BY <1>5, <1>6, PartialsTyped
<1> HIDE DEF takeProfit, partials
<1>9. r = [o EXCEPT !.fill = fill, !.exit = fill, !.entry = entry, !.firstStop = stop, !.stop = stop,
                    !.risk = risk, !.size = size, !.remaining = size,
                    !.target = takeProfit, !.partials = partials]
  BY DEF Opened, stop, target, gap, risk, takeProfit, partials
<1>10. size \in Int
  BY DEF Whole
<1> HIDE DEF r
<1>11. DOMAIN r = OrderFields
  BY <1>6, <1>9
<1>12. /\ r.fill = fill /\ r.exit = fill /\ r.entry = entry /\ r.firstStop = stop /\ r.stop = stop
       /\ r.risk = risk /\ r.size = size /\ r.remaining = size /\ r.target = takeProfit
       /\ r.partials = partials /\ r.at = o.at /\ r.plan = o.plan /\ r.reason = o.reason
       /\ r.side = o.side /\ r.factor = o.factor /\ r.realized = o.realized
       /\ r.breakEven = o.breakEven
  BY <1>6, <1>9 DEF OrderFields
<1>13. OrderOK(r)
  BY <1>2, <1>5, <1>7, <1>8, <1>10, <1>11, <1>12 DEF OrderOK
<1>14. QED
  BY <1>12, <1>13 DEF OpenedAs, r

-----------------------------------------------------------------------------
(* What a bar does to a trade                                              *)

LEMMA BreakEvenKeeps ==
    ASSUME NEW o, OrderOK(o), NEW bar
    PROVE  LET r == BreakEven(o, bar)
           IN  OrderOK(r) /\ Kept(r, o) /\ r.stop >= o.stop /\ r.reason = o.reason
<1>1. o.stop \in Int /\ o.entry \in Int /\ DOMAIN o = OrderFields
  BY DEF OrderOK
<1>2. CASE BreakEven(o, bar) = o
  BY <1>1, <1>2 DEF Kept
<1>3. CASE BreakEven(o, bar) = [o EXCEPT !.stop = o.entry, !.breakEven = TRUE] /\ o.stop < o.entry
  <2> DEFINE r == [o EXCEPT !.stop = o.entry, !.breakEven = TRUE]
  <2>1. OrderOK(r)
    BY DEF OrderOK, OrderFields
  <2>2. Kept(r, o) /\ r.stop = o.entry /\ r.reason = o.reason
    BY <1>1 DEF Kept, OrderFields
  <2>3. QED
    BY <1>1, <1>3, <2>1, <2>2
<1>4. QED
  BY <1>2, <1>3 DEF BreakEven

\* The bars from the fill to the one before i, as the replay read them.
Behind(o, i) == \A j \in o.fill..i - 1 : frame[j] \in Bars

LEMMA WindowTyped ==
    ASSUME NEW o, OrderOK(o), NEW i \in Int, o.fill <= i, Behind(o, i),
           NEW bar \in BarType, NEW bars \in Nat \ {0}
    PROVE  LET w == Window(o, i, bar, bars)
               lows == {w[j] : j \in DOMAIN w}
           IN  /\ lows \subseteq Int /\ IsFiniteSet(lows) /\ lows # {}
               /\ IsFiniteSet(DOMAIN w) /\ \A j \in DOMAIN w : w[j] \in Int
<1> DEFINE first == Max({o.fill, i - bars + 1})
           D == first..i
           w == Window(o, i, bar, bars)
           lows == {w[j] : j \in DOMAIN w}
<1>1. first \in Int /\ first >= o.fill /\ first <= i
  <2>1. o.fill \in Int /\ i - bars + 1 \in Int /\ i - bars + 1 <= i
    BY DEF OrderOK
  <2>2. QED
    BY <2>1, OfTwo
<1> HIDE DEF first
<1>2. w = [j \in D |-> IF j = i THEN bar.low ELSE View(o.side, frame[j]).low]
  BY DEF Window, first
<1>3. ASSUME NEW j \in D PROVE w[j] \in Int
  <2>1. CASE j = i
    BY <1>2, <2>1 DEF BarType
  <2>2. CASE j # i
    <3>1. j \in o.fill..i - 1
      BY <1>1, <2>2 DEF OrderOK
    <3>2. frame[j] \in Bars
      BY <3>1 DEF Behind
    <3>3. View(o.side, frame[j]) \in BarType
      BY <3>2, ViewTyped
    <3>4. View(o.side, frame[j]).low \in Int
      BY <3>3 DEF BarType
    <3>5. QED
      BY <1>2, <2>2, <3>4
  <2>3. QED
    BY <2>1, <2>2
<1>4. DOMAIN w = D /\ IsFiniteSet(D) /\ i \in D
  BY <1>1, <1>2, FS_Interval
<1> HIDE DEF w
<1>5. IsFiniteSet(lows)
  BY <1>4, FiniteImage
<1>6. lows \subseteq Int /\ lows # {}
  BY <1>3, <1>4
<1> HIDE DEF D
<1>7. QED
  BY <1>3, <1>4, <1>5, <1>6 DEF w

LEMMA SecondLowestTyped ==
    ASSUME NEW w, IsFiniteSet(DOMAIN w), DOMAIN w # {}, \A j \in DOMAIN w : w[j] \in Int
    PROVE  SecondLowest(w) \in Int
<1> DEFINE lows(D) == {w[j] : j \in D}
<1>1. ASSUME NEW D \in SUBSET DOMAIN w, D # {}
      PROVE  Min(lows(D)) \in Int
  <2>1. IsFiniteSet(D)
    BY <1>1, FS_Subset
  <2>2. IsFiniteSet(lows(D))
    BY <2>1, FiniteImage
  <2>3. lows(D) \subseteq Int /\ lows(D) # {}
    BY <1>1
  <2> HIDE DEF lows
  <2>4. QED
    BY <2>2, <2>3, MinIs
<1>2. Min(lows(DOMAIN w)) \in Int
  BY <1>1
<1> DEFINE least == Min({w[j] : j \in DOMAIN w})
           first == CHOOSE j \in DOMAIN w : w[j] = least
<1>3. CASE \E j \in DOMAIN w : j # first
  <2>1. DOMAIN w \ {first} # {}
    BY <1>3
  <2>2. Min(lows(DOMAIN w \ {first})) \in Int
    BY <1>1, <2>1
  <2>3. SecondLowest(w) = Min(lows(DOMAIN w \ {first}))
    BY <1>3 DEF SecondLowest
  <2>4. QED
    BY <2>2, <2>3
<1>4. CASE ~ \E j \in DOMAIN w : j # first
  BY <1>2, <1>4 DEF SecondLowest
<1>5. QED
  BY <1>3, <1>4

LEMMA TrailKeeps ==
    ASSUME NEW o, OrderOK(o), NEW i \in Int, o.fill <= i, Behind(o, i),
           NEW bar \in BarType, NEW atr \in Nat
    PROVE  LET r == Trail(o, i, bar, atr)
           IN  OrderOK(r) /\ Kept(r, o) /\ r.stop >= o.stop /\ r.reason = o.reason
<1> DEFINE w(bars) == Window(o, i, bar, bars)
           lows(bars) == {w(bars)[j] : j \in DOMAIN w(bars)}
           structural == {Min(lows(o.plan.lookback))}
           byAtr == IF o.plan.atrTrailing /\ atr > 0 THEN {bar.close - atr} ELSE {}
           byLiquidity == IF o.plan.liquidityTrailing THEN {SecondLowest(w(2)) - 1} ELSE {}
           all == {o.stop} \cup TrailingCandidates(o, i, bar, atr)
<1>1. o.stop \in Int /\ DOMAIN o = OrderFields /\ o.plan.lookback \in Nat \ {0}
  BY PlanTyped DEF OrderOK
<1>2. structural \subseteq Int /\ IsFiniteSet(structural)
  <2>1. lows(o.plan.lookback) \subseteq Int /\ IsFiniteSet(lows(o.plan.lookback))
        /\ lows(o.plan.lookback) # {}
    BY <1>1, WindowTyped
  <2> HIDE DEF lows
  <2>2. Min(lows(o.plan.lookback)) \in Int
    BY <2>1, MinIs
  <2>3. QED
    BY <2>2, FS_Singleton
<1>3. byAtr \subseteq Int /\ IsFiniteSet(byAtr)
  <2>1. bar.close - atr \in Int
    BY DEF BarType
  <2>2. QED
    BY <2>1, FS_Singleton, FS_EmptySet
<1>4. byLiquidity \subseteq Int /\ IsFiniteSet(byLiquidity)
  <2> DEFINE w2 == w(2)
  <2>1. /\ IsFiniteSet(DOMAIN w2) /\ {w2[j] : j \in DOMAIN w2} # {}
        /\ \A j \in DOMAIN w2 : w2[j] \in Int
    <3>1. 2 \in Nat \ {0}
      OBVIOUS
    <3>2. LET v == Window(o, i, bar, 2)
              heights == {v[j] : j \in DOMAIN v}
          IN  /\ heights \subseteq Int /\ IsFiniteSet(heights) /\ heights # {}
              /\ IsFiniteSet(DOMAIN v) /\ \A j \in DOMAIN v : v[j] \in Int
      BY <3>1, WindowTyped
    <3>3. QED
      BY <3>2
  <2> HIDE DEF w2
  <2>2. DOMAIN w2 # {}
    BY <2>1
  <2>3. SecondLowest(w2) \in Int
    BY <2>1, <2>2, SecondLowestTyped
  <2>4. SecondLowest(w2) - 1 \in Int
    BY <2>3
  <2>5. QED
    BY <2>4, FS_Singleton, FS_EmptySet DEF w2
<1>5. all = {o.stop} \cup structural \cup byAtr \cup byLiquidity
  BY DEF TrailingCandidates
<1> HIDE DEF structural, byAtr, byLiquidity, all
<1>6. all \subseteq Int /\ IsFiniteSet(all) /\ o.stop \in all
  <2>1. IsFiniteSet({o.stop} \cup structural)
    BY <1>2, FS_Singleton, FS_Union
  <2>2. IsFiniteSet(({o.stop} \cup structural) \cup byAtr)
    BY <1>3, <2>1, FS_Union
  <2>3. IsFiniteSet(all)
    BY <1>4, <1>5, <2>2, FS_Union
  <2>4. QED
    BY <1>1, <1>2, <1>3, <1>4, <1>5, <2>3
<1>7. Max(all) \in Int /\ Max(all) >= o.stop
  BY <1>6, MaxIs
<1>8. CASE Trail(o, i, bar, atr) = o
  BY <1>1, <1>8 DEF Kept
<1>9. CASE Trail(o, i, bar, atr) = [o EXCEPT !.stop = Max(all), !.trailing = TRUE]
  <2> DEFINE m == Max(all)
  <2> HIDE DEF m
  <2> DEFINE r == [o EXCEPT !.stop = m, !.trailing = TRUE]
  <2>1. OrderOK(r)
    BY <1>7 DEF OrderOK, OrderFields, m
  <2>2. Kept(r, o) /\ r.stop = m /\ r.reason = o.reason
    BY <1>1 DEF Kept, OrderFields
  <2>3. QED
    BY <1>7, <1>9, <2>1, <2>2 DEF m
<1>10. QED
  BY <1>8, <1>9 DEF Trail, all

LEMMA CloseKeeps ==
    ASSUME NEW o, OrderOK(o), NEW i \in Int, NEW price \in Int, NEW reason
    PROVE  LET r == CloseAt(o, i, price, reason)
           IN  OrderOK(r) /\ Kept(r, o) /\ r.stop = o.stop /\ r.reason = reason /\ r.remaining = 0
<1> DEFINE gain == Booked(o, o.remaining, price)
           r == [o EXCEPT !.exit = i, !.reason = reason, !.remaining = 0, !.realized = @ + gain]
<1>1. gain \in Int
  BY BookedTyped DEF OrderOK
<1> HIDE DEF gain
<1>2. OrderOK(r)
  BY <1>1 DEF OrderOK, OrderFields
<1>3. Kept(r, o) /\ r.stop = o.stop /\ r.reason = reason /\ r.remaining = 0
  BY DEF Kept, OrderOK, OrderFields
<1>4. CloseAt(o, i, price, reason) = r
  BY DEF CloseAt, gain
<1>5. QED
  BY <1>2, <1>3, <1>4

AfterAs(r, o, i) ==
    /\ OrderOK(r) /\ Kept(r, o) /\ r.stop >= o.stop
    /\ r.reason = "open" => i # LastExit(o.plan, o.fill)
    /\ r.reason # "open" => r.remaining = 0

LEMMA AfterBarKeeps ==
    ASSUME NEW o, OrderOK(o), o.reason = "open", NEW i \in Int, o.fill <= i, Behind(o, i),
           NEW bar \in BarType, NEW atr \in Nat
    PROVE  AfterAs(AfterBar(o, i, bar, atr), o, i)
<1> USE DEF AfterAs
<1> DEFINE taken == TakePartials(o, bar)
           r == AfterBar(o, i, bar, atr)
<1>1. OrderOK(taken) /\ Kept(taken, o) /\ taken.stop = o.stop /\ taken.reason = o.reason
  BY TakePartialsKeeps
<1>2. /\ o.stop \in Int /\ o.target \in Int
      /\ bar.low \in Int /\ bar.high \in Int /\ bar.close \in Int
  BY DEF OrderOK, BarType
<1> HIDE DEF taken
<1>3. CASE bar.low <= o.stop
  <2>1. r = CloseAt(o, i, o.stop, StopReason(o))
    BY <1>3 DEF AfterBar
  <2>2. StopReason(o) # "open"
    BY DEF StopReason
  <2>3. /\ OrderOK(r) /\ Kept(r, o) /\ r.stop = o.stop /\ r.reason = StopReason(o)
        /\ r.remaining = 0
    BY <1>2, <2>1, CloseKeeps
  <2>4. QED
    BY <1>2, <2>2, <2>3
<1>4. CASE ~(bar.low <= o.stop) /\ bar.high >= o.target
  <2>1. r = CloseAt(taken, i, o.target, "take_profit")
    BY <1>4 DEF AfterBar, taken
  <2>2. /\ OrderOK(r) /\ Kept(r, taken) /\ r.stop = taken.stop /\ r.reason = "take_profit"
        /\ r.remaining = 0
    BY <1>1, <1>2, <2>1, CloseKeeps
  <2>3. QED
    BY <1>1, <1>2, <2>2 DEF Kept
<1>5. CASE ~(bar.low <= o.stop) /\ ~(bar.high >= o.target)
  <2> DEFINE even == BreakEven(taken, bar)
             moved == Trail(even, i, bar, atr)
  <2>1. r = IF i = LastExit(taken.plan, taken.fill)
            THEN CloseAt(moved, i, bar.close, "timeout") ELSE moved
    BY <1>5 DEF AfterBar, Carry, taken
  <2>2. OrderOK(even) /\ Kept(even, taken) /\ even.stop >= taken.stop /\ even.reason = taken.reason
    BY <1>1, BreakEvenKeeps
  <2> HIDE DEF even
  <2>3. even.fill = o.fill /\ even.stop \in Int
    BY <1>1, <2>2 DEF Kept, OrderOK
  <2>4. OrderOK(moved) /\ Kept(moved, even) /\ moved.stop >= even.stop /\ moved.reason = even.reason
    <3>1. even.fill <= i /\ Behind(even, i)
      BY <2>3 DEF Behind
    <3>2. QED
      BY <2>2, <3>1, TrailKeeps
  <2> HIDE DEF moved
  <2>5. moved.stop >= o.stop /\ moved.stop \in Int /\ moved.reason = "open" /\ Kept(moved, o)
    BY <1>1, <1>2, <2>2, <2>3, <2>4 DEF OrderOK, Kept
  <2>6. taken.plan = o.plan /\ taken.fill = o.fill
    BY <1>1 DEF Kept
  <2>7. CASE i = LastExit(o.plan, o.fill)
    <3>1. r = CloseAt(moved, i, bar.close, "timeout")
      BY <2>1, <2>6, <2>7
    <3>2. /\ OrderOK(r) /\ Kept(r, moved) /\ r.stop = moved.stop /\ r.reason = "timeout"
          /\ r.remaining = 0
      BY <1>2, <2>4, <3>1, CloseKeeps
    <3>3. QED
      BY <2>5, <3>2 DEF Kept
  <2>8. CASE i # LastExit(o.plan, o.fill)
    <3>1. r = moved
      BY <2>1, <2>6, <2>8
    <3>2. QED
      BY <2>4, <2>5, <2>8, <3>1
  <2>9. QED
    BY <2>7, <2>8
<1>6. QED
  BY <1>3, <1>4, <1>5

-----------------------------------------------------------------------------
(* The invariant of the engine                                             *)

SegmentType ==
    [start : Nat, from : Nat, end : Nat, protected : BOOLEAN, realistic : BOOLEAN]

TradeType ==
    [at : Int, entry : Int, exit : Int, size : 1..Whole, risk : Int, realized : Int, left : {0}]

PlaceOK ==
    /\ program \in Programs /\ segment \in DOMAIN program /\ pairIndex \in DOMAIN PairOrder
    /\ cursor \in Int /\ cursor >= FirstCursor(Segment)

Filled(o) == o.at <= o.fill /\ o.size \in 1..Whole

\* Where the order stands: it is of the bar at the cursor, is filled there or
\* later, and every bar from its fill to the one it has come to was read.
OrderPlace(o) ==
    /\ o.at = Index
    /\ phase = "wait" => o.at <= o.fill /\ o.reason = "open"
    /\ phase = "trade" =>
          /\ Filled(o) /\ o.reason = "open"
          /\ o.fill <= o.exit /\ o.exit < LastExit(o.plan, o.fill)
          /\ o.fill..o.exit \subseteq DOMAIN frame
    /\ phase = "close" => Filled(o) /\ o.remaining = 0 /\ o.fill < o.exit /\ o.exit < Length

PhaseOK ==
    /\ phase \in {"scan", "wait", "trade", "close", "done"}
    /\ phase \in {"scan", "done"} => order = <<>>
    /\ phase \in {"wait", "trade", "close"} =>
          Len(order) = 1 /\ OrderOK(order[1]) /\ OrderPlace(order[1])

FrameOK ==
    DOMAIN frame \subseteq 0..Length - 1 /\ \A i \in DOMAIN frame : frame[i] \in Bars

TradesOK ==
    trades \in Seq(TradeType) /\ TradesApart /\ \A k \in DOMAIN trades : trades[k].exit < cursor

EquityOK(e) == e.value \in Int /\ e.peak \in Int /\ e.peak >= e.value

JournalOK == \A r \in journal : r.at >= Segment.start

EngineInv == PlaceOK /\ PhaseOK /\ FrameOK /\ TradesOK /\ EquityOK(equity) /\ JournalOK

-----------------------------------------------------------------------------
(* Lemmas about its parts                                                  *)

LEMMA SegmentTyped ==
    ASSUME NEW p \in Programs, NEW k \in DOMAIN p
    PROVE  p[k] \in SegmentType
<1>1. p \in Seq(SegmentType)
  BY BacktestAssumption DEF SegmentType
<1>2. QED
  BY <1>1

LEMMA FirstTyped ==
    ASSUME NEW s \in SegmentType
    PROVE  FirstCursor(s) \in Int /\ FirstCursor(s) >= s.start /\ s.start \in Nat /\ s.end \in Nat
<1>1. s.start \in Nat /\ s.from \in Nat /\ s.end \in Nat /\ Warmup \in Nat
  BY BacktestAssumption DEF SegmentType
<1> DEFINE warm == s.start + Warmup
           from == s.from
<1>2. warm \in Int /\ from \in Int /\ warm >= s.start
  BY <1>1
<1> HIDE DEF warm, from
<1>3. Max({warm, from}) \in Int /\ Max({warm, from}) >= warm
  BY <1>2, OfTwo
<1>4. FirstCursor(s) = Max({warm, from})
  BY DEF FirstCursor, warm, from
<1>5. QED
  BY <1>1, <1>2, <1>3, <1>4

LEMMA PlaceIs ==
    ASSUME PlaceOK
    PROVE  /\ Segment.start \in Nat /\ Segment.end \in Nat /\ Length \in Int /\ Index \in Nat
           /\ FirstCursor(Segment) \in Int /\ FirstCursor(Segment) >= Segment.start
           /\ cursor \in Nat /\ cursor = Time(Index)
<1>1. Segment \in SegmentType
  BY SegmentTyped DEF PlaceOK, Segment
<1>2. QED
  BY <1>1, FirstTyped DEF PlaceOK, Length, Index, Time

LEMMA StepTyped == EvaluationStep \in Nat \ {0}
BY BacktestAssumption DEF EvaluationStep

LEMMA LastExitIs ==
    ASSUME Length \in Int, NEW plan \in Plans, NEW fill \in Int
    PROVE  /\ LastExit(plan, fill) \in Int /\ LastExit(plan, fill) <= Length - 1
           /\ fill < Length - 1 => fill < LastExit(plan, fill)
<1>1. ExitBars(plan) \in Nat \ {0}
  BY PlanTyped, BacktestAssumption DEF ExitBars
<1>2. fill + ExitBars(plan) \in Int /\ Length - 1 \in Int /\ fill < fill + ExitBars(plan)
  BY <1>1
<1>3. QED
  BY <1>2, OfTwo DEF LastExit

LEMMA KnownIs ==
    ASSUME FrameOK, NEW i, NEW bar \in Known(i)
    PROVE  bar \in Bars
BY DEF FrameOK, Known

LEMMA ReadKeeps ==
    ASSUME FrameOK, NEW i \in Int, 0 <= i, i <= Length - 1, Length \in Int, NEW bar \in Bars,
           Read(i, bar), UNCHANGED <<program, segment>>
    PROVE  FrameOK' /\ DOMAIN frame \cup {i} \subseteq DOMAIN frame'
<1>1. /\ DOMAIN frame' = DOMAIN frame \cup {i}
      /\ \A j \in DOMAIN frame \cup {i} : frame'[j] = IF j = i THEN bar ELSE frame[j]
  BY DEF Read
<1>2. Length' = Length
  BY DEF Length, Segment
<1>3. QED
  BY <1>1, <1>2 DEF FrameOK

LEMMA AheadKeeps ==
    ASSUME FrameOK, NEW i, frame' = Ahead(frame, i), UNCHANGED <<program, segment>>
    PROVE  FrameOK'
<1>1. DOMAIN frame' \subseteq DOMAIN frame /\ \A j \in DOMAIN frame' : frame'[j] = frame[j]
  BY DEF Ahead
<1>2. Length' = Length
  BY DEF Length, Segment
<1>3. QED
  BY <1>1, <1>2 DEF FrameOK

LEMMA PlaceKeeps ==
    ASSUME PlaceOK, UNCHANGED placeVars, cursor' \in Int, cursor' >= cursor
    PROVE  PlaceOK' /\ Segment' = Segment /\ Length' = Length
<1>1. Segment' = Segment /\ FirstCursor(Segment)' = FirstCursor(Segment) /\ Length' = Length
  BY DEF placeVars, Segment, FirstCursor, Length
<1>2. FirstCursor(Segment) \in Int
  BY PlaceIs
<1>3. QED
  BY <1>1, <1>2 DEF PlaceOK, placeVars

LEMMA TradesKeep ==
    ASSUME PlaceOK, TradesOK, UNCHANGED <<placeVars, trades>>, cursor' \in Int, cursor' >= cursor
    PROVE  TradesOK'
<1>1. Segment' = Segment /\ FirstCursor(Segment)' = FirstCursor(Segment)
  BY DEF placeVars, Segment, FirstCursor
<1>2. TradesApart'
  BY <1>1 DEF TradesOK, TradesApart
<1>3. \A k \in DOMAIN trades : trades[k].exit \in Int
  <2>1. \A k \in DOMAIN trades : trades[k] \in TradeType
    BY DEF TradesOK
  <2>2. QED
    BY <2>1 DEF TradeType
<1>4. cursor \in Int
  BY DEF PlaceOK
<1>5. QED
  BY <1>2, <1>3, <1>4 DEF TradesOK

LEMMA JournalKeeps ==
    ASSUME JournalOK, UNCHANGED <<placeVars, journal>>
    PROVE  JournalOK'
<1>1. Segment' = Segment
  BY DEF placeVars, Segment
<1>2. QED
  BY <1>1 DEF JournalOK

\* The gate registers the signal of the bar at the cursor.
LEMMA RegisterKeeps ==
    ASSUME PlaceOK, JournalOK, NEW s \in Candidates, Gate!Register(s), UNCHANGED placeVars
    PROVE  JournalOK'
<1>1. s.at = cursor
  BY DEF Candidates
<1>2. journal' = journal \cup {Gate!ReleaseOf(s)}
  BY DEF Gate!Register
<1>3. Gate!ReleaseOf(s).at = cursor
  BY <1>1 DEF Gate!ReleaseOf
<1>4. cursor >= Segment.start
  BY PlaceIs DEF PlaceOK
<1>5. Segment' = Segment
  BY DEF placeVars, Segment
<1>6. QED
  BY <1>2, <1>3, <1>4, <1>5 DEF JournalOK

LEMMA DropKeeps ==
    ASSUME NEW s, Gate!DropAtCooldown(s) \/ Gate!DropAtBiasLimit(s) \/ Gate!DropAtExposureCap(s)
    PROVE  journal' = journal
BY DEF Gate!DropAtCooldown, Gate!DropAtBiasLimit, Gate!DropAtExposureCap, Gate!releaseVars

LEMMA MultiplierTyped ==
    ASSUME EquityOK(equity), NEW factor \in SizeFactors
    PROVE  Multiplier(factor) \in Int
<1> DEFINE down == Drawdown(equity)
           least == Min({down, MaxDrawdown})
           cut == (Whole * least) \div (2 * MaxDrawdown)
<1>1. MaxDrawdown \in Nat \ {0} /\ factor \in Nat
  BY BacktestAssumption
<1>2. down \in Int
  <2>1. 0 \in Int /\ equity.peak - equity.value \in Int
    BY DEF EquityOK
  <2>2. Max({0, equity.peak - equity.value}) \in Int
    BY <2>1, OfTwo, Zenon
  <2>3. QED
    BY <2>2 DEF Drawdown
<1> HIDE DEF down
<1>3. least \in Int
  <2>1. down \in Int /\ MaxDrawdown \in Int
    BY <1>1, <1>2
  <2>2. QED
    BY <2>1, OfTwo, Zenon
<1> HIDE DEF least
<1>4. cut \in Int
  <2>1. Whole * least \in Int /\ 2 * MaxDrawdown \in Nat \ {0}
    BY <1>1, <1>3 DEF Whole
  <2>2. QED
    BY <2>1, QuotientTyped
<1> HIDE DEF cut
<1>5. Max({1, Whole - cut}) \in Int
  <2>1. 1 \in Int /\ Whole - cut \in Int
    BY <1>4 DEF Whole
  <2>2. QED
    BY <2>1, OfTwo, Zenon
<1>6. CurrentRiskMultiplier \in Int
  <2>1. Whole \in Int
    BY DEF Whole
  <2>2. QED
    BY <1>5, <2>1 DEF CurrentRiskMultiplier, cut, least, down
<1>7. CurrentRiskMultiplier * factor \in Int /\ Whole \in Nat \ {0}
  BY <1>1, <1>6 DEF Whole
<1>8. QED
  BY <1>7, QuotientTyped DEF Multiplier

LEMMA NewOrderTyped ==
    ASSUME PlaceOK, EquityOK(equity), NEW s \in Candidates, NEW plan \in Plans,
           NEW factor \in SizeFactors
    PROVE  LET o == NewOrder(s, plan, Multiplier(factor))
           IN  OrderOK(o) /\ o.at = Index /\ o.reason = "open" /\ o.plan = plan /\ o.side = s.side
<1> DEFINE m == Multiplier(factor)
<1>1. m \in Int
  BY MultiplierTyped
<1> HIDE DEF m
<1>2. Index \in Int
  BY PlaceIs
<1>3. s.side \in {"BUY", "SELL"}
  BY DEF Candidates
<1>4. <<>> \in Seq(Levels)
  OBVIOUS
<1> DEFINE o == NewOrder(s, plan, m)
<1>5. OrderOK(o)
  BY <1>1, <1>2, <1>3, <1>4 DEF OrderOK, OrderFields, NewOrder
<1>6. o.at = Index /\ o.reason = "open" /\ o.plan = plan /\ o.side = s.side
  BY DEF NewOrder
<1>7. QED
  BY <1>5, <1>6 DEF m

-----------------------------------------------------------------------------
(* The engine: the steps                                                   *)

LEMMA ScanKeeps ==
    ASSUME EngineInv, phase = "scan", NEW bars \in Nat, Skip(bars), JournalOK'
    PROVE  EngineInv'
<1>1. /\ cursor' = cursor + bars /\ frame' = Ahead(frame, Index + bars)
      /\ UNCHANGED <<placeVars, phase, order, trades, equity>>
  BY DEF Skip
<1>2. cursor' \in Int /\ cursor' >= cursor
  BY <1>1 DEF EngineInv, PlaceOK
<1>3. PlaceOK' /\ Segment' = Segment /\ Length' = Length
  BY <1>1, <1>2, PlaceKeeps DEF EngineInv
<1>4. FrameOK'
  BY <1>1, AheadKeeps DEF EngineInv, placeVars
<1>5. TradesOK'
  BY <1>1, <1>2, TradesKeep DEF EngineInv
<1>6. PhaseOK'
  BY <1>1 DEF EngineInv, PhaseOK
<1>7. QED
  BY <1>1, <1>3, <1>4, <1>5, <1>6 DEF EngineInv, EquityOK

LEMMA MarketKeeps ==
    ASSUME EngineInv, NEW s \in Candidates, NEW plan \in Plans, NEW factor \in SizeFactors,
           NEW atr \in AtrValues, PlaceMarket(s, plan, factor, atr)
    PROVE  EngineInv'
<1> DEFINE o == NewOrder(s, plan, Multiplier(factor))
           Fills == IF Segment.realistic THEN {Min({Length - 1, Index + d}) : d \in Delays} ELSE {Index}
<1>1. /\ Scanning /\ Gate!Register(s) /\ phase' = "trade"
      /\ UNCHANGED <<placeVars, cursor, trades, equity>>
  BY DEF PlaceMarket, Evaluating
<1>2. PICK fill \in Fills \ {Length - 1} : \E bar \in Known(fill), cost \in Costs :
         LET entry == IF Segment.realistic THEN View(s.side, bar).close + cost ELSE 0
         IN  order' = <<Opened(o, fill, entry, Whole, atr)>> /\ Read(fill, bar)
  BY DEF PlaceMarket
<1>3. PICK bar \in Known(fill), cost \in Costs :
         LET entry == IF Segment.realistic THEN View(s.side, bar).close + cost ELSE 0
         IN  order' = <<Opened(o, fill, entry, Whole, atr)>> /\ Read(fill, bar)
  BY <1>2
<1> DEFINE entry == IF Segment.realistic THEN View(s.side, bar).close + cost ELSE 0
<1>4. order' = <<Opened(o, fill, entry, Whole, atr)>> /\ Read(fill, bar)
  BY <1>3
<1>5. /\ Length \in Int /\ Index \in Nat /\ cursor \in Int
  BY PlaceIs DEF EngineInv
<1>6. fill \in Int /\ Index <= fill /\ fill < Length - 1
  <2>1. MaxHold \in Nat \ {0} /\ Index < Length - MaxHold - 1
    BY <1>1, BacktestAssumption DEF Scanning
  <2>2. CASE fill = Index
    BY <1>5, <2>1, <2>2
  <2>3. CASE fill \in {Min({Length - 1, Index + d}) : d \in Delays}
    <3>1. PICK d \in Delays : fill = Min({Length - 1, Index + d})
      BY <2>3
    <3> DEFINE final == Length - 1
               late == Index + d
    <3>2. final \in Int /\ late \in Int /\ Index <= late
      BY <1>5, BacktestAssumption
    <3>3. fill = Min({final, late}) /\ fill # final
      BY <1>2, <3>1
    <3> HIDE DEF final, late
    <3>4. fill \in Int /\ fill = late /\ fill <= final
      BY <3>2, <3>3, OfTwo
    <3>5. QED
      BY <3>2, <3>3, <3>4 DEF final
  <2>4. QED
    BY <1>2, <2>2, <2>3
<1>7. bar \in Bars
  BY KnownIs DEF EngineInv
<1>8. OrderOK(o) /\ o.at = Index /\ o.reason = "open" /\ o.plan = plan
  BY NewOrderTyped DEF EngineInv
<1>9. entry \in Int
  <2>1. View(s.side, bar) \in BarType /\ cost \in Int
    BY <1>7, ViewTyped, BacktestAssumption
  <2>2. View(s.side, bar).close + cost \in Int
    BY <2>1 DEF BarType
  <2>3. QED
    BY <2>2
<1> HIDE DEF entry, o, Fills
<1>18. PICK r : r = Opened(o, fill, entry, Whole, atr)
  OBVIOUS
<1>10. /\ OrderOK(r) /\ r.fill = fill /\ r.exit = fill /\ r.size = Whole
       /\ r.at = Index /\ r.plan = plan /\ r.reason = "open"
  <2>1. Whole \in 1..Whole /\ atr \in Nat
    BY BacktestAssumption DEF Whole
  <2>2. OpenedAs(Opened(o, fill, entry, Whole, atr), o, fill, Whole)
    BY <1>6, <1>8, <1>9, <2>1, OpenedTyped
  <2>3. QED
    BY <1>8, <1>18, <2>2 DEF OpenedAs
<1>11. PlaceOK' /\ Segment' = Segment /\ Length' = Length /\ Index' = Index
  <2>1. cursor' \in Int /\ cursor' >= cursor
    BY <1>1, <1>5
  <2>2. PlaceOK' /\ Segment' = Segment /\ Length' = Length
    BY <1>1, <2>1, PlaceKeeps DEF EngineInv
  <2>3. QED
    BY <1>1, <2>2 DEF Index
<1>12. FrameOK' /\ DOMAIN frame \cup {fill} \subseteq DOMAIN frame'
  BY <1>1, <1>4, <1>5, <1>6, <1>7, ReadKeeps DEF EngineInv, placeVars
<1>13. TradesOK'
  BY <1>1, <1>5, TradesKeep DEF EngineInv
<1>14. JournalOK'
  BY <1>1, RegisterKeeps DEF EngineInv
<1>15. fill < LastExit(plan, fill)
  BY <1>5, <1>6, LastExitIs
<1>16. PhaseOK'
  <2>1. LastExit(plan, fill)' = LastExit(plan, fill)
    BY <1>11 DEF LastExit
  <2>2. Len(order') = 1 /\ order'[1] = r
    BY <1>4, <1>18
  <2>3. r.fill..r.exit = {fill}
    BY <1>6, <1>10
  <2>4. OrderPlace(r)'
    <3>1. Filled(r)
      BY <1>6, <1>10 DEF Filled, Whole
    <3>2. LastExit(r.plan, r.fill)' = LastExit(plan, fill)
      BY <1>10, <2>1
    <3>3. /\ r.at = Index' /\ r.reason = "open" /\ r.fill <= r.exit /\ r.exit < LastExit(plan, fill)
      BY <1>6, <1>10, <1>11, <1>15
    <3>4. r.fill..r.exit \subseteq DOMAIN frame'
      BY <1>12, <2>3
    <3>5. Filled(r)'
      BY <3>1 DEF Filled
    <3>6. QED
      BY <1>1, <3>2, <3>3, <3>4, <3>5 DEF OrderPlace
  <2>5. OrderOK(r)'
    BY <1>10 DEF OrderOK
  <2>6. QED
    BY <1>1, <2>2, <2>4, <2>5 DEF PhaseOK, OrderOK, OrderPlace, Filled
<1>17. QED
  BY <1>1, <1>11, <1>12, <1>13, <1>14, <1>16 DEF EngineInv, EquityOK

LEMMA LimitKeeps ==
    ASSUME EngineInv, NEW s \in Candidates, NEW plan \in Plans, NEW factor \in SizeFactors,
           PlaceLimit(s, plan, factor)
    PROVE  EngineInv'
<1> DEFINE o == NewOrder(s, plan, Multiplier(factor))
<1>1. /\ Gate!Register(s) /\ phase' = "wait"
      /\ UNCHANGED <<placeVars, cursor, frame, trades, equity>>
  BY DEF PlaceLimit
<1>2. PICK d \in (IF Segment.realistic THEN Delays ELSE {0}) :
         order' = <<[o EXCEPT !.fill = Index + 1 + d]>>
  BY DEF PlaceLimit
<1>3. d \in Nat
  BY BacktestAssumption
<1>4. OrderOK(o) /\ o.at = Index /\ o.reason = "open"
  BY NewOrderTyped DEF EngineInv
<1> HIDE DEF o
<1>5. Index \in Nat /\ cursor \in Int
  BY PlaceIs DEF EngineInv
<1> DEFINE late == Index + 1 + d
           r == [o EXCEPT !.fill = late]
<1>6. late \in Int /\ Index <= late
  BY <1>3, <1>5
<1>7. order' = <<r>>
  BY <1>2
<1> HIDE DEF late
<1>8. OrderOK(r) /\ r.at = Index /\ r.reason = "open" /\ r.fill = late
  BY <1>4, <1>6 DEF OrderOK, OrderFields
<1> HIDE DEF r
<1>9. cursor' \in Int /\ cursor' >= cursor
  BY <1>1, <1>5
<1>10. PlaceOK' /\ Segment' = Segment /\ Length' = Length /\ Index' = Index
  <2>1. PlaceOK' /\ Segment' = Segment /\ Length' = Length
    BY <1>1, <1>9, PlaceKeeps DEF EngineInv
  <2>2. QED
    BY <1>1, <2>1 DEF Index
<1>11. FrameOK'
  BY <1>1, <1>10 DEF EngineInv, FrameOK
<1>12. TradesOK'
  BY <1>1, <1>9, TradesKeep DEF EngineInv
<1>13. JournalOK'
  BY <1>1, RegisterKeeps DEF EngineInv
<1>14. PhaseOK'
  <2>1. Len(order') = 1 /\ order'[1] = r
    BY <1>7
  <2>2. OrderOK(order[1])' /\ OrderPlace(order[1])'
    BY <1>1, <1>6, <1>8, <1>10, <2>1 DEF OrderOK, OrderPlace
  <2>3. QED
    BY <1>1, <2>1, <2>2 DEF PhaseOK
<1>15. QED
  BY <1>1, <1>10, <1>11, <1>12, <1>13, <1>14 DEF EngineInv, EquityOK

\* The order was not filled: the scan goes on.
LEMMA AbandonKeeps ==
    ASSUME EngineInv, Abandon(frame), UNCHANGED <<placeVars, trades, equity, gateVars>>
    PROVE  EngineInv'
<1>1. /\ order' = <<>> /\ phase' = "scan" /\ cursor' = cursor + EvaluationStep
      /\ frame' = Ahead(frame, Index + EvaluationStep)
  BY DEF Abandon
<1>2. cursor' \in Int /\ cursor' >= cursor
  BY <1>1, StepTyped DEF EngineInv, PlaceOK
<1>3. PlaceOK' /\ FrameOK' /\ TradesOK'
  BY <1>1, <1>2, PlaceKeeps, AheadKeeps, TradesKeep DEF EngineInv, placeVars
<1>4. JournalOK'
  BY JournalKeeps DEF EngineInv, gateVars
<1>5. PhaseOK'
  BY <1>1 DEF PhaseOK
<1>6. QED
  BY <1>3, <1>4, <1>5 DEF EngineInv, EquityOK

LEMMA WaitKeeps ==
    ASSUME EngineInv, WaitForFill
    PROVE  EngineInv'
<1> DEFINE o == order[1]
<1>1. phase = "wait" /\ UNCHANGED <<placeVars, trades, equity, gateVars>>
  BY DEF WaitForFill
<1>2. OrderOK(o) /\ o.at = Index /\ o.at <= o.fill /\ o.reason = "open"
  BY <1>1 DEF EngineInv, PhaseOK, OrderPlace
<1>3. Length \in Int /\ Index \in Nat /\ cursor \in Int /\ o.fill \in Int
  BY <1>2, PlaceIs DEF EngineInv, OrderOK
<1>4. ASSUME Abandon(frame) PROVE EngineInv'
  BY <1>1, <1>4, AbandonKeeps
<1>5. CASE ~(o.fill > Length - 1)
  <2>1. PICK bar \in Known(o.fill) :
           IF bar.low > 0 \/ bar.high < 0
           THEN /\ order' = <<[o EXCEPT !.fill = @ + 1]>>
                /\ Read(o.fill, bar) /\ UNCHANGED <<phase, cursor>>
           ELSE IF o.fill = Length - 1 THEN Abandon(frame)
           ELSE /\ \E size \in FillSizes, entry \in LimitEntries, atr \in AtrValues :
                      order' = <<Opened(o, o.fill, entry, size, atr)>>
                /\ phase' = "trade" /\ Read(o.fill, bar) /\ UNCHANGED cursor
    BY <1>1, <1>5 DEF WaitForFill
  <2>2. bar \in Bars
    BY KnownIs DEF EngineInv
  <2>3. 0 <= o.fill /\ o.fill <= Length - 1
    BY <1>2, <1>3, <1>5
  <2>4. ASSUME Read(o.fill, bar), UNCHANGED cursor, PhaseOK'
        PROVE  EngineInv'
    <3>1. FrameOK'
      BY <1>1, <1>3, <2>2, <2>3, <2>4, ReadKeeps DEF EngineInv, placeVars
    <3>2. cursor' \in Int /\ cursor' >= cursor
      BY <1>3, <2>4
    <3>3. PlaceOK' /\ TradesOK'
      BY <1>1, <3>2, PlaceKeeps, TradesKeep DEF EngineInv
    <3>4. JournalOK'
      BY <1>1, JournalKeeps DEF EngineInv, gateVars
    <3>5. QED
      BY <1>1, <2>4, <3>1, <3>3, <3>4 DEF EngineInv, EquityOK
  <2>5. ASSUME UNCHANGED cursor PROVE Length' = Length /\ Index' = Index
    BY <1>1, <2>5 DEF placeVars, Length, Index, Segment
  <2>6. CASE bar.low > 0 \/ bar.high < 0
    <3>1. /\ order' = <<[o EXCEPT !.fill = @ + 1]>>
          /\ Read(o.fill, bar) /\ UNCHANGED <<phase, cursor>>
      BY <2>1, <2>6
    <3> DEFINE late == o.fill + 1
               r == [o EXCEPT !.fill = late]
    <3>2. late \in Int /\ o.at <= late
      BY <1>2, <1>3
    <3>3. Len(order') = 1 /\ order'[1] = r
      BY <3>1
    <3> HIDE DEF late
    <3>4. OrderOK(r) /\ r.at = o.at /\ r.reason = "open" /\ r.fill = late
      BY <1>2, <3>2 DEF OrderOK, OrderFields
    <3> HIDE DEF r
    <3>5. OrderOK(order[1])' /\ OrderPlace(order[1])'
      BY <1>1, <1>2, <2>5, <3>1, <3>2, <3>3, <3>4 DEF OrderOK, OrderPlace
    <3>6. PhaseOK'
      BY <1>1, <3>1, <3>3, <3>5 DEF PhaseOK
    <3>7. QED
      BY <2>4, <3>1, <3>6
  <2>7. CASE ~(bar.low > 0 \/ bar.high < 0) /\ o.fill = Length - 1
    BY <1>4, <2>1, <2>7
  <2>8. CASE ~(bar.low > 0 \/ bar.high < 0) /\ o.fill # Length - 1
    <3>1. /\ \E size \in FillSizes, entry \in LimitEntries, atr \in AtrValues :
                order' = <<Opened(o, o.fill, entry, size, atr)>>
          /\ phase' = "trade" /\ Read(o.fill, bar) /\ UNCHANGED cursor
      BY <2>1, <2>8
    <3>2. PICK size \in FillSizes, entry \in LimitEntries, atr \in AtrValues :
             order' = <<Opened(o, o.fill, entry, size, atr)>>
      BY <3>1
    <3>3. size \in 1..Whole /\ atr \in Nat /\ entry \in Int
      BY BacktestAssumption DEF FillSizes, LimitEntries, Whole
    <3>13. PICK r : r = Opened(o, o.fill, entry, size, atr)
      OBVIOUS
    <3>4. /\ OrderOK(r) /\ r.fill = o.fill /\ r.exit = o.fill /\ r.size = size
          /\ r.at = o.at /\ r.plan = o.plan /\ r.reason = o.reason
      <4>1. OpenedAs(Opened(o, o.fill, entry, size, atr), o, o.fill, size)
        BY <1>2, <1>3, <3>3, OpenedTyped
      <4>2. QED
        BY <3>13, <4>1 DEF OpenedAs
    <3>5. Len(order') = 1 /\ order'[1] = r
      BY <3>2, <3>13
    <3>6. o.fill \in DOMAIN frame'
      BY <1>1, <1>3, <2>2, <2>3, <3>1, ReadKeeps DEF EngineInv, placeVars
    <3>7. o.fill < LastExit(o.plan, o.fill)
      <4>1. o.plan \in Plans /\ o.fill \in Int /\ Length \in Int /\ o.fill < Length - 1
        BY <1>2, <1>3, <2>3, <2>8 DEF OrderOK
      <4>2. QED
        BY <4>1, LastExitIs, Zenon
    <3>8. LastExit(o.plan, o.fill) = LastExit(r.plan, r.fill)'
      <4>1. \A plan, fill : LastExit(plan, fill)' = LastExit(plan, fill)
        BY <2>5, <3>1 DEF LastExit
      <4>2. QED
        BY <3>4, <4>1
    <3>9. r.fill..r.exit \subseteq DOMAIN frame'
      BY <1>3, <3>4, <3>6
    <3>10. /\ OrderOK(r) /\ r.at = Index' /\ Filled(r) /\ r.reason = "open"
           /\ r.fill <= r.exit
      BY <1>2, <1>3, <2>5, <3>1, <3>3, <3>4 DEF Filled
    <3>11. PhaseOK'
      BY <3>1, <3>4, <3>5, <3>7, <3>8, <3>9, <3>10 DEF PhaseOK, OrderOK, OrderPlace, Filled
    <3>12. QED
      BY <2>4, <3>1, <3>11
  <2>9. QED
    BY <2>6, <2>7, <2>8
<1>6. CASE o.fill > Length - 1
  BY <1>1, <1>4, <1>6 DEF WaitForFill
<1>7. QED
  BY <1>5, <1>6

LEMMA SimulateKeeps ==
    ASSUME EngineInv, SimulateBar
    PROVE  EngineInv' /\ order'[1].stop >= order[1].stop
<1> DEFINE o == order[1]
           i == o.exit + 1
<1>1. phase = "trade" /\ UNCHANGED <<placeVars, cursor, trades, equity, gateVars>>
  BY DEF SimulateBar
<1>2. PICK bar \in Known(i), atr \in AtrValues :
         LET after == AfterBar(o, i, View(o.side, bar), atr)
         IN  /\ Read(i, bar)
             /\ order' = <<[after EXCEPT !.exit = i]>>
             /\ phase' = IF after.reason = "open" THEN "trade" ELSE "close"
  BY DEF SimulateBar
<1>3. PICK after : after = AfterBar(o, i, View(o.side, bar), atr)
  OBVIOUS
<1>4. /\ Read(i, bar)
      /\ order' = <<[after EXCEPT !.exit = i]>>
      /\ phase' = IF after.reason = "open" THEN "trade" ELSE "close"
  BY <1>2, <1>3
<1>5. /\ OrderOK(o) /\ o.at = Index /\ Filled(o) /\ o.reason = "open"
      /\ o.fill <= o.exit /\ o.exit < LastExit(o.plan, o.fill)
      /\ o.fill..o.exit \subseteq DOMAIN frame
  BY <1>1 DEF EngineInv, PhaseOK, OrderPlace
<1>6. /\ Length \in Int /\ Index \in Nat /\ cursor \in Int /\ o.plan \in Plans
      /\ o.at \in Int /\ o.fill \in Int /\ o.exit \in Int
  BY <1>5, PlaceIs DEF EngineInv, OrderOK
<1>7. LastExit(o.plan, o.fill) \in Int /\ LastExit(o.plan, o.fill) <= Length - 1
  BY <1>6, LastExitIs, Zenon
<1>8. /\ i \in Int /\ o.fill <= i /\ 0 <= i /\ i <= Length - 1 /\ i <= LastExit(o.plan, o.fill)
      /\ i - 1 = o.exit /\ o.fill < i
  BY <1>5, <1>6, <1>7 DEF Filled
<1>9. Behind(o, i)
  BY <1>5, <1>8 DEF Behind, EngineInv, FrameOK
<1>10. bar \in Bars /\ atr \in Nat
  BY KnownIs, BacktestAssumption DEF EngineInv
<1> HIDE DEF i
<1>11. AfterAs(after, o, i)
  <2>1. View(o.side, bar) \in BarType
    BY <1>10, ViewTyped
  <2>2. AfterAs(AfterBar(o, i, View(o.side, bar), atr), o, i)
    BY <1>5, <1>8, <1>9, <1>10, <2>1, AfterBarKeeps
  <2>3. QED
    BY <1>3, <2>2
<1>12. /\ OrderOK(after) /\ Kept(after, o) /\ after.stop >= o.stop
       /\ after.reason = "open" => i # LastExit(o.plan, o.fill)
       /\ after.reason # "open" => after.remaining = 0
  BY <1>11 DEF AfterAs
<1>13. PICK r : r = [after EXCEPT !.exit = i]
  OBVIOUS
<1>14. Len(order') = 1 /\ order'[1] = r
  BY <1>4, <1>13
<1>15. /\ OrderOK(r) /\ Kept(r, o) /\ r.stop = after.stop /\ r.reason = after.reason
       /\ r.remaining = after.remaining /\ r.exit = i
  BY <1>8, <1>12, <1>13 DEF OrderOK, OrderFields, Kept
<1>16. cursor' \in Int /\ cursor' >= cursor
  BY <1>1, <1>6
<1>17. PlaceOK' /\ Length' = Length /\ Index' = Index
  <2>1. PlaceOK' /\ Segment' = Segment /\ Length' = Length
    BY <1>1, <1>16, PlaceKeeps DEF EngineInv
  <2>2. QED
    BY <1>1, <2>1 DEF Index
<1>18. FrameOK' /\ DOMAIN frame \cup {i} \subseteq DOMAIN frame'
  BY <1>1, <1>4, <1>6, <1>8, <1>10, ReadKeeps DEF EngineInv, placeVars
<1>19. TradesOK' /\ JournalOK'
  BY <1>1, <1>16, TradesKeep, JournalKeeps DEF EngineInv, gateVars
<1>20. r.at = Index' /\ Filled(r) /\ r.fill = o.fill /\ r.plan = o.plan
  BY <1>5, <1>15, <1>17 DEF Kept, Filled
<1>21. CASE after.reason = "open"
  <2>1. phase' = "trade" /\ r.reason = "open"
    BY <1>4, <1>15, <1>21
  <2>2. i < LastExit(o.plan, o.fill)
    BY <1>7, <1>8, <1>12, <1>21
  <2>3. \A plan, fill : LastExit(plan, fill)' = LastExit(plan, fill)
    BY <1>17 DEF LastExit
  <2>4. r.exit < LastExit(r.plan, r.fill)'
    BY <1>15, <1>20, <2>2, <2>3
  <2>5. r.fill..r.exit \subseteq DOMAIN frame'
    <3>1. \A j \in o.fill..i : j \in o.fill..o.exit \/ j = i
      BY <1>6, <1>8
    <3>2. QED
      BY <1>5, <1>15, <1>18, <1>20, <3>1
  <2>6. r.fill <= r.exit
    BY <1>8, <1>15, <1>20
  <2>7. PhaseOK'
    BY <1>14, <1>15, <1>20, <2>1, <2>4, <2>5, <2>6 DEF PhaseOK, OrderOK, OrderPlace, Filled
  <2>8. QED
    BY <1>1, <1>12, <1>14, <1>15, <1>17, <1>18, <1>19, <2>7 DEF EngineInv, EquityOK
<1>22. CASE after.reason # "open"
  <2>1. phase' = "close" /\ r.remaining = 0
    BY <1>4, <1>12, <1>15, <1>22
  <2>2. r.fill < r.exit /\ r.exit < Length'
    BY <1>6, <1>8, <1>15, <1>17, <1>20
  <2>3. PhaseOK'
    BY <1>14, <1>15, <1>20, <2>1, <2>2 DEF PhaseOK, OrderOK, OrderPlace, Filled
  <2>4. QED
    BY <1>1, <1>12, <1>14, <1>15, <1>17, <1>18, <1>19, <2>3 DEF EngineInv, EquityOK
<1>23. QED
  BY <1>21, <1>22

LEMMA RegisterTradeTyped ==
    ASSUME NEW e, EquityOK(e), NEW r \in Int
    PROVE  EquityOK(RegisterTrade(e, r))
<1> DEFINE value == e.value + r
           peak == Max({e.peak, value})
<1>1. value \in Int /\ e.peak \in Int
  BY DEF EquityOK
<1> HIDE DEF value
<1>2. peak \in Int /\ peak >= value
  BY <1>1, OfTwo
<1> HIDE DEF peak
<1>3. RegisterTrade(e, r).value = value /\ RegisterTrade(e, r).peak = peak
  BY DEF RegisterTrade, value, peak
<1>4. QED
  BY <1>1, <1>2, <1>3 DEF EquityOK

LEMMA ResultTyped ==
    ASSUME NEW o, OrderOK(o)
    PROVE  Result(o) \in Int
<1>1. o.realized \in Int /\ o.factor \in Int /\ o.risk \in Nat \ {0}
  BY DEF OrderOK
<1>2. o.realized * o.factor \in Int /\ o.risk * Whole \in Nat \ {0}
  BY <1>1 DEF Whole
<1>3. QED
  BY <1>2, QuotientTyped DEF Result

LEMMA CloseTradeKeeps ==
    ASSUME EngineInv, RegisterClosed
    PROVE  EngineInv'
<1> DEFINE o == order[1]
<1>1. /\ phase = "close" /\ order' = <<>> /\ phase' = "scan"
      /\ UNCHANGED <<placeVars, gateVars>>
      /\ trades' = Append(trades, TradeOf(o))
      /\ equity' = IF Segment.protected THEN RegisterTrade(equity, Result(o)) ELSE equity
      /\ cursor' = CursorAfter(o)
      /\ frame' = Ahead(frame, CursorAfter(o) - Segment.start)
  BY DEF RegisterClosed
<1>2. /\ OrderOK(o) /\ o.at = Index /\ Filled(o) /\ o.remaining = 0
      /\ o.fill < o.exit /\ o.exit < Length
  BY <1>1 DEF EngineInv, PhaseOK, OrderPlace
<1>3. /\ Segment.start \in Nat /\ Segment.end \in Nat /\ Index \in Nat /\ cursor \in Nat
      /\ cursor = Time(Index) /\ cursor >= FirstCursor(Segment) /\ FirstCursor(Segment) \in Int
  BY PlaceIs DEF EngineInv, PlaceOK
<1>4. o.at \in Int /\ o.fill \in Int /\ o.exit \in Int
  BY <1>2 DEF OrderOK
<1> DEFINE t == TradeOf(o)
<1>5. /\ t.at = cursor /\ t.entry = Time(o.fill) /\ t.exit = Time(o.exit)
      /\ t.left = 0 /\ t.size = o.size
  BY <1>2, <1>3 DEF TradeOf
<1>6. /\ t.at <= t.entry /\ t.entry < t.exit /\ t.exit < Segment.end /\ cursor <= t.exit
      /\ t.exit \in Int /\ t.entry \in Int /\ t.at \in Int
  BY <1>2, <1>3, <1>4, <1>5 DEF Filled, Time, Length
<1>7. t \in TradeType
  <2>1. t = [at |-> Time(o.at), entry |-> Time(o.fill), exit |-> Time(o.exit),
             size |-> o.size, risk |-> o.risk, realized |-> o.realized, left |-> o.remaining]
    BY DEF TradeOf
  <2>2. Time(o.at) \in Int /\ Time(o.fill) \in Int /\ Time(o.exit) \in Int
    BY <1>3, <1>4 DEF Time
  <2>3. o.risk \in Nat \ {0} /\ o.realized \in Int
    BY <1>2 DEF OrderOK
  <2>4. o.size \in 1..Whole /\ o.remaining = 0
    BY <1>2 DEF Filled
  <2>5. o.risk \in Int /\ o.remaining \in {0}
    BY <2>3, <2>4
  <2>6. QED
    BY <2>1, <2>2, <2>3, <2>4, <2>5 DEF TradeType
<1> HIDE DEF t
<1>8. cursor' = t.exit + 1
  BY <1>1, <1>5 DEF CursorAfter
<1>9. cursor' \in Int /\ cursor' >= cursor
  BY <1>3, <1>6, <1>8
<1>10. PlaceOK' /\ Segment' = Segment /\ Length' = Length
  BY <1>1, <1>9, PlaceKeeps DEF EngineInv
<1>11. FrameOK'
  BY <1>1, AheadKeeps DEF EngineInv, placeVars
<1>12. JournalOK'
  BY <1>1, JournalKeeps DEF EngineInv, gateVars
<1>13. PhaseOK'
  BY <1>1 DEF PhaseOK
<1>14. EquityOK(equity')
  <2>1. EquityOK(equity)
    BY DEF EngineInv
  <2>2. CASE Segment.protected
    BY <1>1, <1>2, <2>1, <2>2, ResultTyped, RegisterTradeTyped
  <2>3. CASE ~Segment.protected
    BY <1>1, <2>1, <2>3
  <2>4. QED
    BY <2>2, <2>3
<1>15. TradesOK'
  <2>1. /\ trades \in Seq(TradeType) /\ TradesApart
        /\ \A k \in DOMAIN trades : trades[k].exit < cursor
    BY DEF EngineInv, TradesOK
  <2>2. /\ trades' \in Seq(TradeType) /\ DOMAIN trades' = DOMAIN trades \cup {Len(trades) + 1}
        /\ \A k \in DOMAIN trades : trades'[k] = trades[k] /\ k < Len(trades) + 1
        /\ trades'[Len(trades) + 1] = t
    BY <1>1, <1>7, <2>1 DEF t
  <2>3. \A k \in DOMAIN trades : trades[k].exit \in Int
    <3>1. \A k \in DOMAIN trades : trades[k] \in TradeType
      BY <2>1
    <3>2. QED
      BY <3>1 DEF TradeType
  <2>4. \A k \in DOMAIN trades' : trades'[k].exit < cursor'
    <3>1. t.exit < cursor'
      BY <1>6, <1>8
    <3>2. \A k \in DOMAIN trades : trades[k].exit < cursor'
      BY <1>3, <1>9, <2>1, <2>3
    <3>3. QED
      BY <2>2, <3>1, <3>2
  <2>5. FirstCursor(Segment)' = FirstCursor(Segment)
    BY <1>10 DEF FirstCursor
  <2>6. ASSUME NEW k \in DOMAIN trades'
        PROVE  /\ trades'[k].at >= FirstCursor(Segment)
               /\ trades'[k].at <= trades'[k].entry /\ trades'[k].entry < trades'[k].exit
               /\ trades'[k].exit < Segment.end
    <3>1. CASE k \in DOMAIN trades
      BY <2>1, <2>2, <3>1 DEF TradesApart
    <3>2. CASE k = Len(trades) + 1
      BY <1>3, <1>5, <1>6, <2>2, <3>2
    <3>3. QED
      BY <2>2, <3>1, <3>2
  <2>7. ASSUME NEW k \in DOMAIN trades', NEW m \in DOMAIN trades', m < k
        PROVE  trades'[m].exit < trades'[k].at
    <3>1. CASE k \in DOMAIN trades /\ m \in DOMAIN trades
      BY <2>1, <2>2, <2>7, <3>1 DEF TradesApart
    <3>2. CASE k = Len(trades) + 1 /\ m \in DOMAIN trades
      BY <1>5, <2>1, <2>2, <3>2
    <3>3. CASE m = Len(trades) + 1
      <4>1. \A j \in DOMAIN trades : j \in Int
        BY <2>1
      <4>2. Len(trades) + 1 \in Int
        BY <2>1
      <4>3. QED
        BY <2>2, <2>7, <3>3, <4>1, <4>2
    <3>4. QED
      BY <2>2, <3>1, <3>2, <3>3
  <2>8. TradesApart'
    BY <1>10, <2>5, <2>6, <2>7 DEF TradesApart
  <2>9. QED
    BY <2>2, <2>4, <2>8 DEF TradesOK
<1>16. QED
  BY <1>10, <1>11, <1>12, <1>13, <1>14, <1>15 DEF EngineInv

LEMMA EndKeeps ==
    ASSUME EngineInv, EndOfPair
    PROVE  EngineInv'
<1>1. phase = "scan" /\ frame' = <<>> /\ order' = order
  BY DEF EndOfPair
<1>2. order = <<>> /\ program \in Programs /\ segment \in DOMAIN program
  BY <1>1 DEF EngineInv, PhaseOK, PlaceOK
<1>3. FrameOK'
  BY <1>1 DEF FrameOK
<1>4. PairOrder \in Seq(Pairs) /\ PairOrder # <<>> /\ program \in Seq(SegmentType)
  BY <1>2, BacktestAssumption DEF SegmentType
<1>5. ASSUME trades' = <<>> PROVE TradesOK'
  BY <1>5 DEF TradesOK, TradesApart
<1>6. CASE StartPair
  <2>1. /\ pairIndex < Len(PairOrder) /\ pairIndex' = pairIndex + 1
        /\ cursor' = FirstCursor(Segment) /\ trades' = <<>>
        /\ UNCHANGED <<program, segment, phase, equity, gateVars>>
    BY <1>6 DEF StartPair
  <2>2. Segment' = Segment /\ FirstCursor(Segment)' = FirstCursor(Segment)
    BY <2>1 DEF Segment, FirstCursor
  <2>3. pairIndex' \in DOMAIN PairOrder
    BY <1>4, <2>1 DEF EngineInv, PlaceOK
  <2>4. FirstCursor(Segment) \in Int
    BY PlaceIs DEF EngineInv
  <2>5. PlaceOK'
    BY <1>2, <2>1, <2>2, <2>3, <2>4 DEF PlaceOK
  <2>6. PhaseOK'
    BY <1>1, <1>2, <2>1 DEF PhaseOK
  <2>7. JournalOK'
    BY <2>1, <2>2 DEF EngineInv, JournalOK, gateVars
  <2>8. QED
    BY <1>3, <1>5, <2>1, <2>5, <2>6, <2>7 DEF EngineInv, EquityOK
<1>7. CASE StartSegment
  <2>1. /\ segment < Len(program) /\ segment' = segment + 1 /\ pairIndex' = 1
        /\ cursor' = FirstCursor(program[segment + 1])
        /\ trades' = <<>> /\ equity' = FreshEquity /\ EmptyGate
        /\ UNCHANGED <<program, phase>>
    BY <1>7 DEF StartSegment
  <2>2. segment + 1 \in DOMAIN program
    BY <1>2, <1>4, <2>1
  <2>3. program[segment + 1] \in SegmentType
    BY <1>2, <2>2, SegmentTyped
  <2>4. Segment' = program[segment + 1]
    BY <2>1 DEF Segment
  <2>5. FirstCursor(Segment)' = FirstCursor(program[segment + 1])
    BY <2>4 DEF FirstCursor
  <2>6. FirstCursor(program[segment + 1]) \in Int
    BY <2>3, FirstTyped
  <2>7. 1 \in DOMAIN PairOrder
    BY <1>4
  <2>8. PlaceOK'
    BY <1>2, <2>1, <2>2, <2>5, <2>6, <2>7 DEF PlaceOK
  <2>9. PhaseOK'
    BY <1>1, <1>2, <2>1 DEF PhaseOK
  <2>10. JournalOK' /\ EquityOK(equity')
    BY <2>1 DEF EmptyGate, JournalOK, FreshEquity, EquityOK
  <2>11. QED
    BY <1>3, <1>5, <2>1, <2>8, <2>9, <2>10 DEF EngineInv, EquityOK
<1>8. CASE Finish
  <2>1. phase' = "done" /\ UNCHANGED <<placeVars, cursor, trades, equity, gateVars>>
    BY <1>8 DEF Finish
  <2>2. cursor' \in Int /\ cursor' >= cursor
    BY <2>1 DEF EngineInv, PlaceOK
  <2>3. PlaceOK' /\ TradesOK' /\ JournalOK'
    BY <2>1, <2>2, PlaceKeeps, TradesKeep, JournalKeeps DEF EngineInv, gateVars
  <2>4. PhaseOK'
    BY <1>1, <1>2, <2>1 DEF PhaseOK
  <2>5. QED
    BY <1>3, <2>1, <2>3, <2>4 DEF EngineInv, EquityOK
<1>9. QED
  BY <1>6, <1>7, <1>8 DEF EndOfPair

LEMMA EngineInit == Init => EngineInv
<1> SUFFICES ASSUME Init PROVE EngineInv
  OBVIOUS
<1>1. /\ program \in Programs /\ segment = 1 /\ pairIndex = 1
      /\ cursor = FirstCursor(program[1]) /\ phase = "scan"
      /\ frame = <<>> /\ order = <<>> /\ trades = <<>> /\ equity = FreshEquity /\ journal = {}
  BY DEF Init
<1>2. /\ program \in Seq(SegmentType) /\ program # <<>>
      /\ PairOrder \in Seq(Pairs) /\ PairOrder # <<>>
  BY <1>1, BacktestAssumption DEF SegmentType
<1>3. 1 \in DOMAIN program /\ 1 \in DOMAIN PairOrder
  BY <1>2
<1>4. FirstCursor(program[1]) \in Int
  BY <1>1, <1>3, SegmentTyped, FirstTyped
<1>5. PlaceOK
  BY <1>1, <1>3, <1>4 DEF PlaceOK, Segment
<1>6. PhaseOK /\ FrameOK /\ JournalOK
  BY <1>1 DEF PhaseOK, FrameOK, JournalOK
<1>7. TradesOK
  BY <1>1 DEF TradesOK, TradesApart
<1>8. EquityOK(equity)
  BY <1>1 DEF EquityOK, FreshEquity
<1>9. QED
  BY <1>5, <1>6, <1>7, <1>8 DEF EngineInv

LEMMA EngineStep ==
    ASSUME EngineInv, Next
    PROVE  EngineInv'
<1>1. EvaluationStep \in Nat /\ 1 \in Nat
  BY StepTyped
<1>2. CASE TooFewBars
  <2>1. JournalOK'
    BY <1>2, JournalKeeps DEF TooFewBars, Skip, EngineInv, gateVars
  <2>2. QED
    BY <1>1, <1>2, <2>1, ScanKeeps DEF TooFewBars, Scanning
<1>3. CASE Rejected
  <2>1. JournalOK'
    BY <1>3, JournalKeeps DEF Rejected, Skip, EngineInv, gateVars
  <2>2. QED
    BY <1>1, <1>3, <2>1, ScanKeeps DEF Rejected, Evaluating, Scanning
<1>4. ASSUME NEW s \in Candidates, Dropped(s)
      PROVE  EngineInv'
  <2>1. journal' = journal /\ UNCHANGED placeVars
    BY <1>4, DropKeeps DEF Dropped, Skip
  <2>2. JournalOK'
    BY <2>1, JournalKeeps DEF EngineInv
  <2>3. QED
    BY <1>1, <1>4, <2>2, ScanKeeps DEF Dropped, Evaluating, Scanning
<1>5. ASSUME NEW s \in Candidates, ReleasedInVain(s)
      PROVE  EngineInv'
  <2>1. Gate!Register(s) /\ UNCHANGED placeVars
    BY <1>5 DEF ReleasedInVain, Skip
  <2>2. JournalOK'
    BY <2>1, RegisterKeeps DEF EngineInv
  <2>3. QED
    BY <1>1, <1>5, <2>2, ScanKeeps DEF ReleasedInVain, Evaluating, Scanning
<1>6. ASSUME NEW s \in Candidates, NEW plan \in Plans, NEW factor \in SizeFactors,
             PlaceLimit(s, plan, factor) \/ \E atr \in AtrValues : PlaceMarket(s, plan, factor, atr)
      PROVE  EngineInv'
  BY <1>6, LimitKeeps, MarketKeeps
<1>7. CASE WaitForFill
  BY <1>7, WaitKeeps
<1>8. CASE SimulateBar
  BY <1>8, SimulateKeeps
<1>9. CASE RegisterClosed
  BY <1>9, CloseTradeKeeps
<1>10. CASE EndOfPair
  BY <1>10, EndKeeps
<1>11. QED
  BY <1>2, <1>3, <1>4, <1>5, <1>6, <1>7, <1>8, <1>9, <1>10 DEF Next

LEMMA EngineStays ==
    ASSUME EngineInv, UNCHANGED vars
    PROVE  EngineInv'
<1>1. /\ UNCHANGED <<program, segment, pairIndex, cursor, phase, frame, order, trades, equity, journal>>
  BY DEF vars, placeVars, gateVars
<1>2. Segment' = Segment /\ Length' = Length /\ Index' = Index
  BY <1>1 DEF Segment, Length, Index
<1>3. PlaceOK'
  BY <1>1, <1>2 DEF EngineInv, PlaceOK, FirstCursor
<1>4. PhaseOK'
  BY <1>1, <1>2 DEF EngineInv, PhaseOK, OrderOK, OrderPlace, LastExit, Filled
<1>5. FrameOK' /\ JournalOK' /\ EquityOK(equity')
  BY <1>1, <1>2 DEF EngineInv, FrameOK, JournalOK
<1>6. TradesOK'
  BY <1>1, <1>2 DEF EngineInv, TradesOK, TradesApart, FirstCursor
<1>7. QED
  BY <1>1, <1>3, <1>4, <1>5, <1>6 DEF EngineInv

LEMMA RunnerStepIs ==
    ASSUME [RunnerNext]_allVars
    PROVE  Next \/ UNCHANGED vars
BY DEF RunnerNext, allVars, InSuite

-----------------------------------------------------------------------------
(* What a trade may lose                                                   *)

NoneBelow(levels, floor) == \A k \in DOMAIN levels : levels[k].price >= floor

\* Nothing that was closed, and no target still to come, is further than f off
\* the entry.
Covered(o, f) ==
    /\ o.remaining \in 0..o.size
    /\ NoneBelow(o.partials, o.entry + f)
    /\ o.realized >= (o.size - o.remaining) * f

LossOK(o) ==
    /\ o.stop >= o.firstStop /\ o.firstStop >= o.entry - o.risk /\ o.target >= o.entry - o.risk
    /\ o.breakEven => o.stop >= o.entry /\ o.target >= o.entry
    /\ ~Chased(o) => Covered(o, 0)
    /\ TargetsInReach => Covered(o, -o.risk)

LEMMA LosesMore ==
    ASSUME NEW c \in Nat, NEW x \in Int, NEW f \in Int, x >= f
    PROVE  c * x >= c * f
OBVIOUS

LEMMA LossesAdd ==
    ASSUME NEW a \in Int, NEW c \in Int, NEW f \in Int
    PROVE  a * f + c * f = (a + c) * f
OBVIOUS

\* Closing part of a position no worse than f keeps it covered.
LEMMA CoverKeeps ==
    ASSUME NEW a \in Int, NEW c \in Nat, NEW f \in Int, NEW x \in Int, x >= f,
           NEW realized \in Int, realized >= a * f
    PROVE  realized + c * x >= (a + c) * f
<1> DEFINE whole == (a + c) * f
           old == a * f
           new == c * x
           least == c * f
<1>1. old \in Int /\ new \in Int /\ least \in Int /\ whole \in Int
  OBVIOUS
<1>2. new >= least
  BY LosesMore
<1>3. old + least = whole
  BY LossesAdd
<1>4. realized >= old
  OBVIOUS
<1> HIDE DEF whole, old, new, least
<1>5. realized + new >= whole
  BY <1>1, <1>2, <1>3, <1>4
<1>6. QED
  BY <1>5 DEF whole, new

LEMMA LayAbove ==
    ASSUME NEW plan \in Plans, NEW entry \in Int, NEW risk \in Nat, NEW floor \in Int,
           NEW levels \in Seq(Levels), NoneBelow(levels, floor), NEW p \in PartialType,
           plan.adaptive => floor <= entry, ~plan.adaptive => StopTicks * p.r >= floor
    PROVE  NoneBelow(LayOne(plan, entry, risk, levels, p), floor)
<1> DEFINE price == IF plan.adaptive THEN entry + risk * p.r ELSE StopTicks * p.r
           level == [size |-> p.size, price |-> price]
<1>1. p.r \in Nat
  BY DEF PartialType
<1>2. price >= floor
  <2>1. risk * p.r \in Nat
    BY <1>1
  <2>2. CASE plan.adaptive
    <3> DEFINE gain == risk * p.r
    <3>1. gain \in Nat /\ price = entry + gain
      BY <2>1, <2>2
    <3> HIDE DEF gain, price
    <3>2. QED
      BY <2>2, <3>1
  <2>3. CASE ~plan.adaptive
    BY <2>3
  <2>4. QED
    BY <2>2, <2>3
<1>3. level.price >= floor
  BY <1>2
<1> HIDE DEF price, level
<1>4. \A k \in DOMAIN Append(levels, level) :
         \/ k \in DOMAIN levels /\ Append(levels, level)[k] = levels[k]
         \/ Append(levels, level)[k] = level
  OBVIOUS
<1>5. NoneBelow(Append(levels, level), floor)
  BY <1>3, <1>4 DEF NoneBelow
<1>6. QED
  BY <1>5 DEF LayOne, price, level

LEMMA PartialsAbove ==
    ASSUME NEW plan \in Plans, NEW entry \in Int, NEW risk \in Nat, NEW floor \in Int,
           plan.adaptive => floor <= entry,
           ~plan.adaptive => \A k \in DOMAIN plan.partials : StopTicks * plan.partials[k].r >= floor
    PROVE  NoneBelow(Partials(plan, entry, risk), floor)
<1> DEFINE A == {levels \in Seq(Levels) : NoneBelow(levels, floor)}
<1>1. \A k \in DOMAIN plan.partials : plan.partials[k] \in PartialType
  BY PlanTyped
<1>2. <<>> \in A
  BY DEF NoneBelow
<1>3. ASSUME NEW x \in DOMAIN plan.partials, NEW a \in A
      PROVE  LayOne(plan, entry, risk, a, plan.partials[x]) \in A
  <2>1. /\ plan.partials[x] \in PartialType /\ a \in Seq(Levels) /\ NoneBelow(a, floor)
        /\ ~plan.adaptive => StopTicks * plan.partials[x].r >= floor
    BY <1>1
  <2>2. NoneBelow(LayOne(plan, entry, risk, a, plan.partials[x]), floor)
    BY <2>1, LayAbove
  <2>3. LayOne(plan, entry, risk, a, plan.partials[x]) \in Seq(Levels)
    BY <2>1, LayTyped
  <2>4. QED
    BY <2>2, <2>3
<1> HIDE DEF A
<1>4. Partials(plan, entry, risk) \in A
  BY <1>2, <1>3, PartialsIn
<1>5. QED
  BY <1>4 DEF A

\* What taking targets can make of a trade that is covered.
TakenCovered(o, f) ==
    {a \in Taken(o) :
        /\ NoneBelow(a.partials, o.entry + f)
        /\ a.remaining \in 0..o.size
        /\ a.realized >= (o.size - a.remaining) * f}

LEMMA TakeCovered ==
    ASSUME NEW o, OrderOK(o), o.size \in Nat, NEW bar \in BarType, NEW f \in Int,
           NEW a \in TakenCovered(o, f), NEW p \in Levels, p.price >= o.entry + f
    PROVE  TakeOne(o, bar, a, p) \in TakenCovered(o, f)
<1>1. PICK x \in Seq(Levels), b \in Int, c \in Int : a = Left(o, x, b, c)
  BY DEF Taken, TakenCovered
<1>2. DOMAIN o = OrderFields /\ o.entry \in Int
  BY DEF OrderOK
<1>3. a.partials = x /\ a.remaining = b /\ a.realized = c
  BY <1>1, <1>2 DEF OrderFields, Left
<1>4. NoneBelow(x, o.entry + f) /\ b \in 0..o.size /\ c >= (o.size - b) * f
  BY <1>3 DEF TakenCovered
<1> DEFINE closed == Min({p.size, a.remaining})
           gain == Booked(o, closed, p.price)
           r == TakeOne(o, bar, a, p)
<1>5. p.size \in Nat /\ p.price \in Int
  BY DEF Levels
<1>6. closed \in Nat /\ closed <= b
  <2>1. p.size \in Int /\ a.remaining \in Int /\ a.remaining = b
    BY <1>3, <1>5
  <2>2. closed \in {p.size, a.remaining} /\ closed <= a.remaining
    BY <2>1, OfTwo, Zenon
  <2> HIDE DEF closed
  <2>3. QED
    BY <1>4, <1>5, <2>1, <2>2
<1>7. gain = closed * (p.price - o.entry)
  BY DEF Booked
<1>8. r \in Taken(o)
  BY TakeTyped DEF TakenCovered
<1> HIDE DEF closed, gain
<1>9. CASE closed = 0 \/ bar.high < p.price
  <2>1. r = [a EXCEPT !.partials = Append(@, p)]
    BY <1>9 DEF TakeOne, closed
  <2>2. r.partials = Append(x, p) /\ r.remaining = b /\ r.realized = c
    BY <1>1, <1>2, <1>3, <2>1 DEF OrderFields, Left
  <2>3. \A k \in DOMAIN Append(x, p) :
           \/ k \in DOMAIN x /\ Append(x, p)[k] = x[k]
           \/ Append(x, p)[k] = p
    OBVIOUS
  <2>4. NoneBelow(Append(x, p), o.entry + f)
    BY <1>4, <2>3 DEF NoneBelow
  <2> HIDE DEF r
  <2>5. QED
    BY <1>4, <1>8, <2>2, <2>4 DEF TakenCovered, r
<1>10. CASE ~(closed = 0 \/ bar.high < p.price)
  <2>1. r = [a EXCEPT !.remaining = @ - closed, !.realized = @ + gain]
    BY <1>10 DEF TakeOne, closed, gain
  <2>2. r.partials = x /\ r.remaining = b - closed /\ r.realized = c + gain
    BY <1>1, <1>2, <1>3, <2>1 DEF OrderFields, Left
  <2> HIDE DEF r
  <2> DEFINE past == o.size - b
             won == p.price - o.entry
  <2>3. past \in Int /\ won \in Int /\ won >= f
    BY <1>2, <1>4, <1>5
  <2>4. c >= past * f
    BY <1>4
  <2>5. o.size - (b - closed) = past + closed
    BY <1>4, <1>6
  <2>6. gain = closed * won
    BY <1>7
  <2> HIDE DEF past, won
  <2>7. c + closed * won >= (past + closed) * f
    BY <1>6, <2>3, <2>4, CoverKeeps
  <2>8. r.realized >= (o.size - r.remaining) * f
    BY <2>2, <2>5, <2>6, <2>7
  <2>9. r.remaining \in 0..o.size
    BY <1>4, <1>6, <2>2
  <2>10. QED
    BY <1>4, <1>8, <2>2, <2>8, <2>9 DEF TakenCovered, r
<1>11. QED
  BY <1>9, <1>10

LEMMA TakePartialsCovered ==
    ASSUME NEW o, OrderOK(o), o.size \in Nat,
           NEW bar \in BarType, NEW f \in Int, Covered(o, f)
    PROVE  Covered(TakePartials(o, bar), f)
<1> DEFINE A == TakenCovered(o, f)
           base == [o EXCEPT !.partials = <<>>]
           r == TakePartials(o, bar)
<1>1. \A k \in DOMAIN o.partials : o.partials[k] \in Levels /\ o.partials[k].price >= o.entry + f
  BY DEF OrderOK, Covered, NoneBelow
<1>2. base \in A
  <2>1. /\ base \in Taken(o) /\ base.partials = <<>>
        /\ base.remaining = o.remaining /\ base.realized = o.realized
    BY NothingTaken
  <2> HIDE DEF base
  <2>2. NoneBelow(base.partials, o.entry + f)
    BY <2>1 DEF NoneBelow
  <2>3. base.realized >= (o.size - base.remaining) * f
    BY <2>1 DEF Covered
  <2>4. QED
    BY <2>1, <2>2, <2>3 DEF TakenCovered, Covered
<1>3. \A x \in DOMAIN o.partials : \A a \in A : TakeOne(o, bar, a, o.partials[x]) \in A
  BY <1>1, TakeCovered
<1> HIDE DEF A
<1>4. r \in A
  BY <1>2, <1>3, TakePartialsIn
<1>5. Kept(r, o)
  BY TakePartialsKeeps
<1> HIDE DEF r
<1>6. QED
  BY <1>4, <1>5 DEF A, TakenCovered, Covered, Kept, r

LEMMA CloseCovered ==
    ASSUME NEW o, OrderOK(o), o.size \in Nat,
           NEW i \in Int, NEW price \in Int, NEW reason, NEW f \in Int,
           Covered(o, f), price >= o.entry + f
    PROVE  CloseAt(o, i, price, reason).realized >= o.size * f
<1> DEFINE r == CloseAt(o, i, price, reason)
           past == o.size - o.remaining
           won == price - o.entry
           rest == o.remaining
<1>1. /\ o.entry \in Int /\ o.realized \in Int /\ DOMAIN o = OrderFields
      /\ o.realized >= past * f
  BY DEF OrderOK, Covered
<1>2. r.realized = o.realized + rest * won
  BY <1>1 DEF CloseAt, Booked, OrderFields
<1>3. /\ past \in Int /\ won \in Int /\ won >= f /\ rest \in Nat
      /\ past + rest = o.size
  BY <1>1 DEF Covered
<1> HIDE DEF r, past, won, rest
<1>4. o.realized + rest * won >= (past + rest) * f
  BY <1>1, <1>3, CoverKeeps
<1>5. QED
  BY <1>2, <1>3, <1>4 DEF r

LEMMA BreakEvenIs ==
    ASSUME NEW o, OrderOK(o), NEW bar
    PROVE  LET r == BreakEven(o, bar)
           IN  /\ r.partials = o.partials /\ r.remaining = o.remaining /\ r.realized = o.realized
               /\ r.breakEven # o.breakEven =>
                     /\ r.stop = o.entry /\ bar.high - o.entry >= o.plan.breakEvenR * o.risk
<1>1. DOMAIN o = OrderFields
  BY DEF OrderOK
<1>2. QED
  BY <1>1 DEF BreakEven, OrderFields

LEMMA TrailIs ==
    ASSUME NEW o, OrderOK(o), NEW i, NEW bar, NEW atr
    PROVE  LET r == Trail(o, i, bar, atr)
           IN  /\ r.partials = o.partials /\ r.remaining = o.remaining /\ r.realized = o.realized
               /\ r.breakEven = o.breakEven
<1>1. DOMAIN o = OrderFields
  BY DEF OrderOK
<1>2. QED
  BY <1>1 DEF Trail, OrderFields

\* What a trade may lose once the bar is done with it.
LossAs(r, o) ==
    /\ r.reason = "open" => LossOK(r)
    /\ TargetsInReach => r.realized >= -(o.size * o.risk)
    /\ o.breakEven /\ ~Chased(o) => r.realized >= 0

\* Any part of a covered position that is still open can only add to what is
\* bounded.
LEMMA CoverBounds ==
    ASSUME NEW o, o.size \in Nat, o.realized \in Int, o.risk \in Nat
    PROVE  /\ Covered(o, -o.risk) => o.realized >= -(o.size * o.risk)
           /\ Covered(o, 0) => o.realized >= 0
<1> DEFINE past == o.size - o.remaining
<1> SUFFICES ASSUME o.remaining \in 0..o.size
             PROVE  /\ Covered(o, -o.risk) => o.realized >= -(o.size * o.risk)
                    /\ Covered(o, 0) => o.realized >= 0
  BY DEF Covered
<1>1. past \in Nat /\ past <= o.size
  OBVIOUS
<1>2. ASSUME o.realized >= past * (-o.risk) PROVE o.realized >= -(o.size * o.risk)
  <2> HIDE DEF past
  <2>1. o.size * o.risk >= past * o.risk
    <3> DEFINE more == o.size - past
    <3>1. more \in Nat /\ o.size = past + more
      BY <1>1
    <3> HIDE DEF more
    <3>2. (past + more) * o.risk = past * o.risk + more * o.risk
      BY <1>1, <3>1
    <3>3. more * o.risk \in Nat /\ past * o.risk \in Nat
      BY <1>1, <3>1
    <3>4. QED
      BY <3>1, <3>2, <3>3
  <2>2. past * (-o.risk) = -(past * o.risk)
    BY <1>1
  <2>3. past * o.risk \in Int /\ o.size * o.risk \in Int
    BY <1>1
  <2>4. QED
    BY <1>2, <2>1, <2>2, <2>3
<1>3. QED
  BY <1>1, <1>2 DEF Covered

LEMMA ProductTyped ==
    ASSUME NEW a \in Nat, NEW b \in Nat
    PROVE  a * b \in Nat
OBVIOUS

LEMMA QuotientPositive ==
    ASSUME NEW a \in Nat, NEW b \in Nat \ {0}
    PROVE  a \div b \in Nat
OBVIOUS

LEMMA OpenedCovered ==
    ASSUME NEW o, OrderOK(o), o.realized = 0, ~o.breakEven, NEW fill \in Int,
           NEW entry \in EntryPrices, entry \in Int, NEW size \in 1..Whole, NEW atr \in AtrValues
    PROVE  LossOK(Opened(o, fill, entry, size, atr))
<1> DEFINE stop == IF atr > 0 THEN entry - atr ELSE -StopTicks
           target == IF atr > 0 THEN entry + (atr * TargetTicks) \div StopTicks ELSE TargetTicks
           gap == IF entry >= stop THEN entry - stop ELSE stop - entry
           risk == Max({1, gap})
           takeProfit == TakeProfit(o.plan, entry, risk, target)
           partials == Partials(o.plan, entry, risk)
           r == Opened(o, fill, entry, size, atr)
<1>1. StopTicks \in Nat \ {0} /\ TargetTicks \in Nat \ {0} /\ atr \in Nat
  BY BacktestAssumption
<1>2. o.plan \in Plans /\ DOMAIN o = OrderFields /\ o.plan.targetR \in Nat
      /\ \A k \in DOMAIN o.plan.partials : o.plan.partials[k].r \in Nat
  <2>1. o.plan \in Plans /\ DOMAIN o = OrderFields
    BY DEF OrderOK
  <2>2. o.plan.partials \in Seq(PartialType) /\ o.plan.targetR \in Nat
    BY <2>1, PlanTyped
  <2>3. \A k \in DOMAIN o.plan.partials : o.plan.partials[k] \in PartialType
    BY <2>2
  <2>4. QED
    BY <2>1, <2>2, <2>3 DEF PartialType
<1>3. stop \in Int /\ (atr > 0 => stop = entry - atr) /\ (atr = 0 => stop = -StopTicks)
  BY <1>1
<1>4. target \in Int /\ (target >= entry \/ target >= stop)
  <2> DEFINE span == atr * TargetTicks
  <2>1. span \in Nat
    BY <1>1, ProductTyped
  <2> HIDE DEF span
  <2>2. span \div StopTicks \in Nat
    BY <1>1, <2>1, QuotientPositive
  <2> DEFINE far == span \div StopTicks
  <2>3. target = IF atr > 0 THEN entry + far ELSE TargetTicks
    BY DEF span
  <2>4. far \in Nat
    BY <2>2
  <2> HIDE DEF far, target, stop
  <2>5. QED
    BY <1>1, <1>3, <2>3, <2>4
<1> HIDE DEF stop, target
<1>5. gap \in Int /\ gap >= entry - stop
  BY <1>3
<1> HIDE DEF gap
<1>6. risk \in Nat \ {0} /\ risk >= gap
  <2>1. 1 \in Int /\ gap \in Int
    BY <1>5
  <2>2. risk \in Int /\ risk >= 1 /\ risk >= gap
    BY <2>1, OfTwo, Zenon
  <2> HIDE DEF risk
  <2>3. QED
    BY <2>2
<1> HIDE DEF risk
<1>7. stop >= entry - risk
  BY <1>3, <1>5, <1>6
<1>8. takeProfit >= entry - risk
  <2>1. CASE o.plan.adaptive
    <3> DEFINE gain == risk * o.plan.targetR
    <3>1. gain \in Nat
      BY <1>2, <1>6, ProductTyped
    <3>2. takeProfit = entry + gain
      BY <2>1 DEF TakeProfit
    <3> HIDE DEF gain, takeProfit
    <3>3. QED
      BY <1>6, <3>1, <3>2
  <2>2. CASE ~o.plan.adaptive
    <3>1. takeProfit = target
      BY <2>2 DEF TakeProfit
    <3>2. QED
      BY <1>3, <1>4, <1>6, <1>7, <3>1
  <2>3. QED
    BY <2>1, <2>2
<1>9. ASSUME NEW floor \in Int, floor <= entry,
             ~o.plan.adaptive =>
                \A k \in DOMAIN o.plan.partials : StopTicks * o.plan.partials[k].r >= floor
      PROVE  NoneBelow(partials, floor)
  <2>1. risk \in Nat
    BY <1>6
  <2>2. QED
    BY <1>2, <1>9, <2>1, PartialsAbove
<1> HIDE DEF takeProfit, partials
<1>10. r = [o EXCEPT !.fill = fill, !.exit = fill, !.entry = entry, !.firstStop = stop, !.stop = stop,
                     !.risk = risk, !.size = size, !.remaining = size,
                     !.target = takeProfit, !.partials = partials]
  BY DEF Opened, stop, target, gap, risk, takeProfit, partials
<1> HIDE DEF r
<1>11. /\ r.entry = entry /\ r.firstStop = stop /\ r.stop = stop /\ r.risk = risk
       /\ r.size = size /\ r.remaining = size /\ r.target = takeProfit /\ r.partials = partials
       /\ r.plan = o.plan /\ r.realized = 0 /\ r.breakEven = o.breakEven
  BY <1>2, <1>10 DEF OrderFields
<1>12. \A f : r.realized >= (r.size - r.remaining) * f <=> 0 >= 0 * f
  <2>1. size - size = 0
    BY DEF Whole
  <2>2. QED
    BY <1>11, <2>1
<1>13. size \in Nat
  BY DEF Whole
<1>14. ASSUME ~Chased(r) PROVE Covered(r, 0)
  <2>1. ~o.plan.adaptive =>
           \A k \in DOMAIN o.plan.partials : ~(StopTicks * o.plan.partials[k].r < entry)
    BY <1>11, <1>14 DEF Chased
  <2>2. \A k \in DOMAIN o.plan.partials : StopTicks * o.plan.partials[k].r \in Nat
    BY <1>1, <1>2, ProductTyped
  <2>3. ~o.plan.adaptive =>
           \A k \in DOMAIN o.plan.partials : StopTicks * o.plan.partials[k].r >= entry
    BY <2>1, <2>2
  <2>4. entry <= entry
    OBVIOUS
  <2>5. NoneBelow(partials, entry)
    BY <1>9, <2>3, <2>4
  <2>6. r.entry + 0 = entry
    BY <1>11
  <2>7. QED
    BY <1>11, <1>12, <1>13, <2>5, <2>6 DEF Covered
<1>15. ASSUME TargetsInReach PROVE Covered(r, -r.risk)
  <2> DEFINE floor == entry - risk
  <2>1. floor \in Int /\ floor <= entry /\ floor <= stop
    BY <1>3, <1>6, <1>7
  <2>2. ASSUME ~o.plan.adaptive, NEW k \in DOMAIN o.plan.partials
        PROVE  StopTicks * o.plan.partials[k].r >= stop
    <3> DEFINE price == StopTicks * o.plan.partials[k].r
    <3>1. price \in Nat
      BY <1>1, <1>2, ProductTyped
    <3>2. CASE atr > 0
      <4>1. price >= entry - atr
        BY <1>2, <1>15, <2>2, <3>2 DEF TargetsInReach
      <4>2. QED
        BY <1>3, <3>2, <4>1
    <3>3. CASE atr = 0
      <4> HIDE DEF price
      <4>1. price >= stop
        BY <1>1, <1>3, <3>1, <3>3
      <4>2. QED
        BY <4>1 DEF price
    <3>4. QED
      BY <1>1, <3>2, <3>3
  <2>3. ~o.plan.adaptive =>
           \A k \in DOMAIN o.plan.partials : StopTicks * o.plan.partials[k].r >= floor
    <3>1. \A k \in DOMAIN o.plan.partials : StopTicks * o.plan.partials[k].r \in Nat
      BY <1>1, <1>2, ProductTyped
    <3> HIDE DEF floor
    <3>2. QED
      BY <1>3, <2>1, <2>2, <3>1
  <2> HIDE DEF floor
  <2>4. NoneBelow(partials, floor)
    BY <1>9, <2>1, <2>3
  <2>5. r.entry + (-r.risk) = floor
    BY <1>6, <1>11 DEF floor
  <2>6. 0 >= 0 * (-r.risk)
    BY <1>6, <1>11
  <2>7. QED
    BY <1>11, <1>12, <1>13, <2>4, <2>5, <2>6 DEF Covered
<1>16. /\ r.stop >= r.firstStop /\ r.firstStop >= r.entry - r.risk
       /\ r.target >= r.entry - r.risk /\ ~r.breakEven
  BY <1>3, <1>7, <1>8, <1>11
<1>17. QED
  BY <1>14, <1>15, <1>16 DEF LossOK, r

LEMMA SameChase ==
    ASSUME NEW r, NEW o, Kept(r, o)
    PROVE  Chased(r) = Chased(o)
BY DEF Kept, Chased

Within(o, price) ==
    price >= o.entry - o.risk /\ (o.breakEven => price >= o.entry)

CoveredAs(q, o) ==
    (TargetsInReach => Covered(q, -o.risk)) /\ (~Chased(o) => Covered(q, 0))

LEMMA CloseLoses ==
    ASSUME NEW o, OrderOK(o), o.size \in Nat, NEW q, OrderOK(q), Kept(q, o), CoveredAs(q, o),
           NEW i \in Int, NEW price \in Int, Within(o, price), NEW reason, reason # "open"
    PROVE  LossAs(CloseAt(q, i, price, reason), o)
<1> DEFINE r == CloseAt(q, i, price, reason)
<1>1. r.reason = reason
  BY CloseKeeps
<1>2. q.size = o.size /\ q.entry = o.entry /\ q.risk = o.risk
  BY DEF Kept
<1>3. o.entry \in Int /\ o.risk \in Nat \ {0}
  BY DEF OrderOK
<1>4. ASSUME TargetsInReach PROVE r.realized >= -(o.size * o.risk)
  <2> DEFINE f == -o.risk
  <2>1. f \in Int /\ Covered(q, f) /\ price >= q.entry + f
    BY <1>2, <1>3, <1>4 DEF Within, CoveredAs
  <2>2. q.size * f = -(o.size * o.risk)
    BY <1>2, <1>3
  <2> HIDE DEF f
  <2>3. r.realized >= q.size * f
    BY <1>2, <2>1, CloseCovered
  <2>4. QED
    BY <2>2, <2>3
<1>5. ASSUME o.breakEven, ~Chased(o) PROVE r.realized >= 0
  <2> DEFINE f == 0
  <2>1. f \in Int /\ Covered(q, f) /\ price >= q.entry + f
    BY <1>2, <1>3, <1>5 DEF Within, CoveredAs
  <2>2. q.size * f = 0
    BY <1>2
  <2> HIDE DEF f
  <2>3. r.realized >= q.size * f
    BY <1>2, <2>1, CloseCovered
  <2>4. QED
    BY <2>2, <2>3
<1> HIDE DEF r
<1>6. LossAs(r, o)
  BY <1>1, <1>4, <1>5 DEF LossAs
<1>7. QED
  BY <1>6 DEF r

\* One turn of the loop of _simulate_trade.
LEMMA AfterBarLoses ==
    ASSUME NEW o, OrderOK(o), o.size \in 1..Whole, LossOK(o),
           NEW i \in Int, o.fill <= i, Behind(o, i), NEW bar \in BarType, bar.low <= bar.close,
           NEW atr \in Nat
    PROVE  LossAs(AfterBar(o, i, bar, atr), o)
<1> DEFINE taken == TakePartials(o, bar)
           r == AfterBar(o, i, bar, atr)
<1> SUFFICES LossAs(r, o)
  OBVIOUS
<1>1. /\ o.stop \in Int /\ o.target \in Int /\ o.entry \in Int /\ o.risk \in Nat \ {0}
      /\ o.firstStop \in Int /\ o.realized \in Int /\ o.plan \in Plans
      /\ bar.low \in Int /\ bar.high \in Int /\ bar.close \in Int
  BY DEF OrderOK, BarType
<1>2. o.size \in Nat /\ 0 \in Int /\ -o.risk \in Int
  BY <1>1 DEF Whole
<1>3. Within(o, o.stop) /\ Within(o, o.target)
  BY <1>1 DEF LossOK, Within
<1>4. /\ OrderOK(taken) /\ Kept(taken, o) /\ taken.stop = o.stop /\ taken.breakEven = o.breakEven
  <2>1. PICK x \in Seq(Levels), b \in Int, c \in Int : taken = Left(o, x, b, c)
    BY TakePartialsTyped DEF Taken
  <2> HIDE DEF taken
  <2>2. taken.breakEven = o.breakEven
    BY <2>1 DEF OrderOK, OrderFields, Left
  <2>3. QED
    BY <2>2, TakePartialsKeeps DEF taken
<1>5. ASSUME NEW f \in Int, Covered(o, f)
      PROVE  Covered(taken, f)
  BY <1>2, <1>5, TakePartialsCovered
<1> HIDE DEF taken
<1>6. taken.size = o.size /\ taken.entry = o.entry /\ taken.risk = o.risk
  BY <1>4 DEF Kept
<1>7. CASE bar.low <= o.stop
  <2>1. r = CloseAt(o, i, o.stop, StopReason(o))
    BY <1>7 DEF AfterBar
  <2>2. StopReason(o) # "open" /\ Kept(o, o) /\ CoveredAs(o, o)
    BY DEF StopReason, Kept, LossOK, CoveredAs
  <2> HIDE DEF r
  <2>3. QED
    BY <1>1, <1>2, <1>3, <2>1, <2>2, CloseLoses
<1>8. CoveredAs(taken, o)
  BY <1>2, <1>5 DEF LossOK, CoveredAs
<1>9. CASE ~(bar.low <= o.stop) /\ bar.high >= o.target
  <2>1. r = CloseAt(taken, i, o.target, "take_profit")
    BY <1>9 DEF AfterBar, taken
  <2> HIDE DEF r
  <2>2. QED
    BY <1>1, <1>2, <1>3, <1>4, <1>8, <2>1, CloseLoses
<1>10. CASE ~(bar.low <= o.stop) /\ ~(bar.high >= o.target)
  <2> DEFINE even == BreakEven(taken, bar)
             moved == Trail(even, i, bar, atr)
  <2>1. r = IF i = LastExit(taken.plan, taken.fill)
            THEN CloseAt(moved, i, bar.close, "timeout") ELSE moved
    BY <1>10 DEF AfterBar, Carry, taken
  <2>2. OrderOK(even) /\ Kept(even, taken) /\ even.stop >= taken.stop
    BY <1>4, BreakEvenKeeps
  <2>3. /\ even.partials = taken.partials /\ even.remaining = taken.remaining
        /\ even.realized = taken.realized
        /\ even.breakEven # taken.breakEven =>
              even.stop = taken.entry /\ bar.high - taken.entry >= taken.plan.breakEvenR * taken.risk
    BY <1>4, BreakEvenIs
  <2> HIDE DEF even
  <2>4. OrderOK(moved) /\ Kept(moved, even) /\ moved.stop >= even.stop
    <3>1. even.fill <= i /\ Behind(even, i)
      BY <1>4, <2>2 DEF Kept, Behind
    <3>2. QED
      BY <2>2, <3>1, TrailKeeps
  <2>5. /\ moved.partials = even.partials /\ moved.remaining = even.remaining
        /\ moved.realized = even.realized /\ moved.breakEven = even.breakEven
    BY <2>2, TrailIs
  <2> HIDE DEF moved, r
  <2>6. Kept(moved, o)
    BY <1>4, <2>2, <2>3, <2>4, <2>5 DEF Kept
  <2>7. \A f : Covered(taken, f) => Covered(moved, f)
    BY <1>4, <2>3, <2>5, <2>6 DEF Covered, Kept
  <2>8. CoveredAs(moved, o)
    BY <1>8, <2>7 DEF CoveredAs
  <2>9. CASE i = LastExit(taken.plan, taken.fill)
    <3>1. r = CloseAt(moved, i, bar.close, "timeout")
      BY <2>1, <2>9
    <3>2. bar.close > o.stop
      BY <1>1, <1>10
    <3>3. Within(o, bar.close)
      BY <1>1, <1>3, <3>2 DEF Within
    <3>4. QED
      BY <1>1, <1>2, <2>4, <2>6, <2>8, <3>1, <3>3, CloseLoses
  <2>10. CASE i # LastExit(taken.plan, taken.fill)
    <3>1. r = moved
      BY <2>1, <2>10
    <3>2. moved.realized \in Int /\ moved.stop \in Int /\ even.stop \in Int
      BY <2>2, <2>4 DEF OrderOK
    <3>3. /\ moved.size = o.size /\ moved.entry = o.entry /\ moved.risk = o.risk
          /\ moved.firstStop = o.firstStop /\ moved.target = o.target
      BY <2>6 DEF Kept
    <3>4. moved.stop >= o.stop /\ moved.stop >= even.stop
      BY <1>1, <1>4, <2>2, <2>4, <3>2
    <3>5. /\ moved.stop >= moved.firstStop /\ moved.firstStop >= moved.entry - moved.risk
          /\ moved.target >= moved.entry - moved.risk
      BY <1>1, <3>2, <3>3, <3>4 DEF LossOK
    <3>6. moved.breakEven => moved.stop >= moved.entry /\ moved.target >= moved.entry
      <4>1. CASE even.breakEven = taken.breakEven
        <5>1. moved.breakEven = o.breakEven
          BY <1>4, <2>5, <4>1
        <5>2. QED
          BY <1>1, <1>3, <3>2, <3>3, <3>4, <5>1 DEF Within
      <4>2. CASE even.breakEven # taken.breakEven
        <5> DEFINE least == taken.plan.breakEvenR * taken.risk
        <5>1. even.stop = o.entry /\ bar.high - o.entry >= least
          BY <1>6, <2>3, <4>2
        <5>2. least \in Nat
          <6>1. taken.plan.breakEvenR \in Nat /\ taken.risk \in Nat
            BY <1>1, <1>4, <1>6, PlanTyped DEF Kept
          <6>2. QED
            BY <6>1, ProductTyped
        <5> HIDE DEF least
        <5>3. bar.high >= o.entry
          BY <1>1, <5>1, <5>2
        <5>4. QED
          BY <1>1, <1>10, <3>2, <3>3, <3>4, <5>1, <5>3
      <4>3. QED
        BY <4>1, <4>2
    <3>7. ~Chased(moved) => Covered(moved, 0)
      BY <2>6, <2>8, SameChase DEF CoveredAs
    <3>8. TargetsInReach => Covered(moved, -moved.risk)
      BY <2>8, <3>3 DEF CoveredAs
    <3>9. LossOK(moved)
      BY <2>6, <3>3, <3>5, <3>6, <3>7, <3>8 DEF LossOK
    <3>10. /\ TargetsInReach => moved.realized >= -(o.size * o.risk)
           /\ ~Chased(o) => moved.realized >= 0
      <4>1. moved.size \in Nat /\ moved.risk \in Nat
        BY <1>1, <1>2, <3>3
      <4>2. QED
        BY <2>8, <3>2, <3>3, <4>1, CoverBounds DEF CoveredAs
    <3>11. QED
      BY <3>1, <3>9, <3>10 DEF LossAs
  <2>11. QED
    BY <2>9, <2>10
<1>11. QED
  BY <1>7, <1>9, <1>10

-----------------------------------------------------------------------------
(* What the engine may lose                                                *)

OrderLoss(o) ==
    /\ o.factor \in 0..MaxLoss
    /\ phase = "wait" => o.realized = 0 /\ ~o.breakEven
    /\ phase = "trade" => LossOK(o)
    /\ phase = "close" => (TargetsInReach => o.realized >= -(o.size * o.risk))

\* A trade was only begun below the limit, and nothing moves the equity until
\* it is registered.
BegunInside == Segment.protected /\ order # <<>> => Drawdown(equity) < MaxDrawdown

LossInv ==
    /\ order # <<>> => OrderLoss(order[1])
    /\ BegunInside /\ LossBounded /\ DrawdownBounded

LEMMA MaxLossIs ==
    MaxLoss \in Nat /\ \A f \in SizeFactors : f \in Nat /\ f <= MaxLoss
<1>1. /\ SizeFactors \subseteq Nat /\ SizeFactors \subseteq Int /\ IsFiniteSet(SizeFactors)
      /\ SizeFactors # {}
  BY BacktestAssumption
<1>2. Max(SizeFactors) \in SizeFactors /\ \A f \in SizeFactors : Max(SizeFactors) >= f
  BY <1>1, MaxIs
<1>3. MaxLoss \in SizeFactors /\ \A f \in SizeFactors : MaxLoss >= f
  BY <1>2 DEF MaxLoss
<1>4. \A f \in SizeFactors : f \in Nat /\ f <= MaxLoss
  BY <1>1, <1>3
<1>5. QED
  BY <1>1, <1>3, <1>4

LEMMA DrawdownIs ==
    ASSUME NEW e, EquityOK(e)
    PROVE  /\ Drawdown(e) \in Nat /\ Drawdown(e) >= e.peak - e.value
           /\ Drawdown(e) = 0 \/ Drawdown(e) = e.peak - e.value
<1> DEFINE gap == e.peak - e.value
<1>1. 0 \in Int /\ gap \in Int
  BY DEF EquityOK
<1>2. Drawdown(e) = Max({0, gap})
  BY DEF Drawdown
<1> HIDE DEF gap
<1>3. Max({0, gap}) \in {0, gap} /\ Max({0, gap}) >= 0 /\ Max({0, gap}) >= gap
  BY <1>1, OfTwo, Zenon
<1>4. QED
  BY <1>1, <1>2, <1>3 DEF gap

LEMMA ProductOfFour ==
    ASSUME NEW a \in 0..4, NEW b \in Nat
    PROVE  (a * b) \div 4 \in 0..b
OBVIOUS

\* The multiplier of a trade never exceeds the factor it was sized with.
LEMMA MultiplierBounded ==
    ASSUME EquityOK(equity), NEW factor \in SizeFactors
    PROVE  Multiplier(factor) \in 0..MaxLoss
<1> DEFINE down == Drawdown(equity)
           least == Min({down, MaxDrawdown})
           cut == (Whole * least) \div (2 * MaxDrawdown)
           m == CurrentRiskMultiplier
<1>1. MaxDrawdown \in Nat \ {0} /\ factor \in Nat /\ factor <= MaxLoss /\ MaxLoss \in Nat
  BY BacktestAssumption, MaxLossIs
<1>2. down \in Nat
  BY DrawdownIs
<1> HIDE DEF down
<1>3. least \in Nat
  <2>1. down \in Int /\ MaxDrawdown \in Int
    BY <1>1, <1>2
  <2>2. least \in {down, MaxDrawdown}
    BY <2>1, OfTwo, Zenon
  <2>3. QED
    BY <1>1, <1>2, <2>2
<1> HIDE DEF least
<1>4. cut \in Nat
  <2>1. Whole * least \in Nat /\ 2 * MaxDrawdown \in Nat \ {0}
    BY <1>1, <1>3 DEF Whole
  <2>2. QED
    BY <2>1, QuotientPositive
<1> HIDE DEF cut
<1>5. Max({1, Whole - cut}) \in 0..Whole
  <2> DEFINE reduced == Whole - cut
  <2>1. 1 \in Int /\ reduced \in Int /\ reduced <= Whole
    BY <1>4 DEF Whole
  <2> HIDE DEF reduced
  <2>2. Max({1, reduced}) \in {1, reduced} /\ Max({1, reduced}) >= 1
    BY <2>1, OfTwo, Zenon
  <2>3. Max({1, reduced}) \in 0..Whole
    BY <2>1, <2>2 DEF Whole
  <2>4. QED
    BY <2>3 DEF reduced
<1>6. m \in 0..Whole
  <2>1. Whole \in 0..Whole /\ 1 \in 0..Whole
    BY DEF Whole
  <2>2. QED
    BY <1>5, <2>1 DEF CurrentRiskMultiplier, cut, least, down
<1> HIDE DEF m
<1>7. Multiplier(factor) = (m * factor) \div 4
  BY DEF Multiplier, Whole, m
<1>8. (m * factor) \div 4 \in 0..factor
  BY <1>1, <1>6, ProductOfFour DEF Whole
<1>9. QED
  BY <1>1, <1>7, <1>8

LEMMA QuotientBounded ==
    ASSUME NEW x \in Int, NEW d \in Nat \ {0}, NEW f \in Nat, x >= -(d * f)
    PROVE  x \div d >= -f
<1> DEFINE q == x \div d
<1>1. q \in Int /\ x < d * (q + 1)
  OBVIOUS
<1> HIDE DEF q
<1>2. SUFFICES ASSUME q <= -f - 1 PROVE FALSE
  BY <1>1 DEF q
<1> DEFINE g == -(q + 1)
<1>3. g \in Nat /\ g >= f /\ q + 1 = -g
  BY <1>1, <1>2
<1> HIDE DEF g
<1>4. d * g >= d * f
  BY <1>3, LosesMore
<1>5. d * (-g) = -(d * g)
  BY <1>3
<1>6. d * g \in Int /\ d * f \in Int
  BY <1>3
<1>7. QED
  BY <1>1, <1>3, <1>4, <1>5, <1>6

\* A trade that loses its risk at most costs its factor at most.
LEMMA ResultBounded ==
    ASSUME NEW o, OrderOK(o), o.factor \in 0..MaxLoss, o.size \in 1..Whole,
           o.realized >= -(o.size * o.risk)
    PROVE  Result(o) >= -MaxLoss
<1> DEFINE d == o.risk * Whole
           f == o.factor
           x == o.realized * f
           lost == o.size * o.risk
<1>1. /\ o.realized \in Int /\ o.risk \in Nat \ {0} /\ f \in Nat /\ f <= MaxLoss /\ MaxLoss \in Nat
      /\ o.size \in Nat /\ o.size <= Whole
  BY MaxLossIs DEF OrderOK, Whole
<1>2. d \in Nat \ {0} /\ lost \in Nat /\ lost <= d
  <2> DEFINE more == Whole - o.size
  <2>1. more \in Nat
    BY <1>1 DEF Whole
  <2>2. more * o.risk \in Nat /\ lost \in Nat
    BY <1>1, <2>1, ProductTyped
  <2>3. d = lost + more * o.risk
    <3>1. Whole = o.size + more
      BY <1>1 DEF Whole
    <3> HIDE DEF more
    <3>2. (o.size + more) * o.risk = o.size * o.risk + more * o.risk
      BY <1>1, <2>1
    <3>3. d = Whole * o.risk
      BY <1>1 DEF Whole
    <3>4. QED
      BY <3>1, <3>2, <3>3
  <2>4. d \in Nat \ {0}
    BY <1>1 DEF Whole
  <2> HIDE DEF more, d, lost
  <2>5. QED
    BY <2>2, <2>3, <2>4
<1>3. o.realized >= -lost
  OBVIOUS
<1> HIDE DEF d, lost
<1>4. -d \in Int /\ o.realized >= -d
  BY <1>1, <1>2, <1>3
<1>5. x \in Int /\ x >= -(d * f)
  <2>1. f * o.realized >= f * (-d)
    BY <1>1, <1>4, LosesMore
  <2>2. f * (-d) = -(d * f) /\ x = f * o.realized
    BY <1>1, <1>2
  <2>3. x \in Int
    BY <1>1
  <2> HIDE DEF x
  <2>4. QED
    BY <2>1, <2>2, <2>3
<1> HIDE DEF x, f
<1>6. x \div d >= -f
  BY <1>1, <1>2, <1>5, QuotientBounded
<1>7. Result(o) = x \div d
  BY DEF Result, x, d, f
<1>8. x \div d \in Int
  BY <1>2, <1>5
<1>9. QED
  BY <1>1, <1>6, <1>7, <1>8

LEMMA DrawdownKeeps ==
    ASSUME NEW e, EquityOK(e), Drawdown(e) < MaxDrawdown, NEW r \in Int, r >= -MaxLoss
    PROVE  Drawdown(RegisterTrade(e, r)) < MaxDrawdown + MaxLoss
<1> DEFINE value == e.value + r
           peak == Max({e.peak, value})
           after == RegisterTrade(e, r)
<1>1. /\ value \in Int /\ e.peak \in Int /\ e.value \in Int /\ MaxLoss \in Nat
      /\ MaxDrawdown \in Nat \ {0}
  BY BacktestAssumption, MaxLossIs DEF EquityOK
<1>2. Drawdown(e) \in Nat /\ Drawdown(e) >= e.peak - e.value
  BY DrawdownIs
<1>3. after.value = value /\ after.peak = peak /\ EquityOK(after)
  BY RegisterTradeTyped DEF RegisterTrade
<1>4. value = e.value + r
  OBVIOUS
<1> HIDE DEF value
<1>5. peak \in {e.peak, value}
  BY <1>1, OfTwo, Zenon
<1> HIDE DEF peak, after
<1>6. Drawdown(after) = 0 \/ Drawdown(after) = peak - value
  BY <1>3, DrawdownIs
<1>7. Drawdown(after) < MaxDrawdown + MaxLoss
  BY <1>1, <1>2, <1>4, <1>5, <1>6
<1>8. QED
  BY <1>7 DEF after

\* Without a trade to register neither the book nor the equity loses anything.
LEMMA BooksStay ==
    ASSUME LossBounded, DrawdownBounded, trades' = trades \/ trades' = <<>>,
           (equity' = equity /\ Segment' = Segment) \/ equity' = FreshEquity
    PROVE  LossBounded' /\ DrawdownBounded'
<1>1. LossBounded'
  BY DEF LossBounded
<1>2. Drawdown(FreshEquity) < MaxDrawdown + MaxLoss
  <2>1. EquityOK(FreshEquity) /\ FreshEquity.peak - FreshEquity.value = 0
    BY DEF EquityOK, FreshEquity
  <2>2. Drawdown(FreshEquity) = 0
    BY <2>1, DrawdownIs
  <2>3. QED
    BY <2>2, MaxLossIs, BacktestAssumption
<1>3. DrawdownBounded'
  BY <1>2 DEF DrawdownBounded
<1>4. QED
  BY <1>1, <1>3

LEMMA QuietLoses ==
    ASSUME LossInv, order' = <<>>, trades' = trades \/ trades' = <<>>,
           (equity' = equity /\ Segment' = Segment) \/ equity' = FreshEquity
    PROVE  LossInv'
<1>1. LossBounded' /\ DrawdownBounded'
  BY BooksStay DEF LossInv
<1>2. QED
  BY <1>1 DEF LossInv, BegunInside

LEMMA OrderThere ==
    ASSUME PhaseOK, phase \in {"wait", "trade", "close"}
    PROVE  order # <<>> /\ OrderOK(order[1]) /\ OrderPlace(order[1])
<1>1. Len(order) = 1 /\ OrderOK(order[1]) /\ OrderPlace(order[1])
  BY DEF PhaseOK
<1>2. Len(<<>>) = 0
  OBVIOUS
<1>3. QED
  BY <1>1, <1>2

LEMMA SegmentKeeps ==
    ASSUME UNCHANGED placeVars
    PROVE  Segment' = Segment
BY DEF placeVars, Segment

LEMMA OpenedFactor ==
    ASSUME NEW o, OrderOK(o), NEW fill, NEW entry, NEW size, NEW atr
    PROVE  Opened(o, fill, entry, size, atr).factor = o.factor
<1>1. DOMAIN o = OrderFields
  BY DEF OrderOK
<1>2. QED
  BY <1>1 DEF Opened, OrderFields

\* An order that was just placed or opened, while the equity stands.
LEMMA BegunLoses ==
    ASSUME LossInv, UNCHANGED <<placeVars, trades, equity>>,
           NEW r, order' = <<r>>, r.factor \in 0..MaxLoss,
           Segment.protected => Drawdown(equity) < MaxDrawdown,
           \/ phase' = "trade" /\ LossOK(r)
           \/ phase' = "wait" /\ r.realized = 0 /\ ~r.breakEven
    PROVE  LossInv'
<1>1. Segment' = Segment
  BY SegmentKeeps
<1>2. LossBounded' /\ DrawdownBounded'
  BY <1>1, BooksStay DEF LossInv
<1>3. order'[1] = r
  OBVIOUS
<1>4. BegunInside'
  BY <1>1 DEF BegunInside
<1>5. OrderLoss(order[1])'
  BY <1>3 DEF OrderLoss
<1>6. QED
  BY <1>2, <1>4, <1>5 DEF LossInv

LEMMA NewOrderLoses ==
    ASSUME EquityOK(equity), NEW s, NEW plan, NEW factor \in SizeFactors
    PROVE  LET o == NewOrder(s, plan, Multiplier(factor))
           IN  o.factor \in 0..MaxLoss /\ o.realized = 0 /\ ~o.breakEven
BY MultiplierBounded DEF NewOrder

LEMMA MarketLoses ==
    ASSUME EngineInv, LossInv, NEW s \in Candidates, NEW plan \in Plans,
           NEW factor \in SizeFactors, NEW atr \in AtrValues, PlaceMarket(s, plan, factor, atr)
    PROVE  LossInv'
<1> DEFINE o == NewOrder(s, plan, Multiplier(factor))
           Fills == IF Segment.realistic THEN {Min({Length - 1, Index + d}) : d \in Delays} ELSE {Index}
<1>1. /\ AllowNewTrade /\ phase' = "trade"
      /\ UNCHANGED <<placeVars, cursor, trades, equity>>
  BY DEF PlaceMarket
<1>2. PICK fill \in Fills \ {Length - 1} : \E bar \in Known(fill), cost \in Costs :
         LET entry == IF Segment.realistic THEN View(s.side, bar).close + cost ELSE 0
         IN  order' = <<Opened(o, fill, entry, Whole, atr)>> /\ Read(fill, bar)
  BY DEF PlaceMarket
<1>3. PICK bar \in Known(fill), cost \in Costs :
         LET entry == IF Segment.realistic THEN View(s.side, bar).close + cost ELSE 0
         IN  order' = <<Opened(o, fill, entry, Whole, atr)>> /\ Read(fill, bar)
  BY <1>2
<1> DEFINE entry == IF Segment.realistic THEN View(s.side, bar).close + cost ELSE 0
<1>4. order' = <<Opened(o, fill, entry, Whole, atr)>>
  BY <1>3
<1>5. fill \in Int
  <2>1. Index \in Int /\ Length - 1 \in Int
    BY PlaceIs DEF EngineInv
  <2>2. ASSUME NEW d \in Delays PROVE Min({Length - 1, Index + d}) \in Int
    <3>1. Index + d \in Int
      BY <2>1, BacktestAssumption
    <3>2. QED
      BY <2>1, <3>1, OfTwo, Zenon
  <2>3. QED
    BY <1>2, <2>1, <2>2
<1>6. bar \in Bars
  BY KnownIs DEF EngineInv
<1>7. entry \in Int /\ entry \in EntryPrices
  <2>1. s.side \in {"BUY", "SELL"}
    BY DEF Candidates
  <2>2. View(s.side, bar) \in BarType /\ cost \in Int
    BY <1>6, ViewTyped, BacktestAssumption
  <2>3. View(s.side, bar).close + cost \in EntryPrices
    BY <1>6, <2>1 DEF EntryPrices
  <2>4. 0 \in EntryPrices
    BY DEF EntryPrices
  <2>5. View(s.side, bar).close + cost \in Int
    BY <2>2 DEF BarType
  <2>6. QED
    BY <2>3, <2>4, <2>5
<1>8. OrderOK(o)
  BY NewOrderTyped DEF EngineInv
<1>9. o.factor \in 0..MaxLoss /\ o.realized = 0 /\ ~o.breakEven
  BY NewOrderLoses DEF EngineInv
<1> HIDE DEF o, entry, Fills
<1>10. PICK r : r = Opened(o, fill, entry, Whole, atr)
  OBVIOUS
<1>11. LossOK(r)
  <2>1. Whole \in 1..Whole
    BY DEF Whole
  <2>2. LossOK(Opened(o, fill, entry, Whole, atr))
    BY <1>5, <1>7, <1>8, <1>9, <2>1, OpenedCovered
  <2>3. QED
    BY <1>10, <2>2
<1>12. r.factor \in 0..MaxLoss
  BY <1>8, <1>9, <1>10, OpenedFactor
<1>13. Segment.protected => Drawdown(equity) < MaxDrawdown
  BY <1>1 DEF AllowNewTrade
<1>14. order' = <<r>>
  BY <1>4, <1>10
<1>15. QED
  BY <1>1, <1>11, <1>12, <1>13, <1>14, BegunLoses

LEMMA LimitLoses ==
    ASSUME EngineInv, LossInv, NEW s \in Candidates, NEW plan \in Plans,
           NEW factor \in SizeFactors, PlaceLimit(s, plan, factor)
    PROVE  LossInv'
<1> DEFINE o == NewOrder(s, plan, Multiplier(factor))
<1>1. /\ AllowNewTrade /\ phase' = "wait"
      /\ UNCHANGED <<placeVars, cursor, frame, trades, equity>>
  BY DEF PlaceLimit
<1>2. PICK d \in (IF Segment.realistic THEN Delays ELSE {0}) :
         order' = <<[o EXCEPT !.fill = Index + 1 + d]>>
  BY DEF PlaceLimit
<1>3. OrderOK(o)
  BY NewOrderTyped DEF EngineInv
<1>4. o.factor \in 0..MaxLoss /\ o.realized = 0 /\ ~o.breakEven
  BY NewOrderLoses DEF EngineInv
<1> HIDE DEF o
<1>5. PICK r : r = [o EXCEPT !.fill = Index + 1 + d]
  OBVIOUS
<1>6. r.factor = o.factor /\ r.realized = o.realized /\ r.breakEven = o.breakEven
  BY <1>3, <1>5 DEF OrderOK, OrderFields
<1>7. Segment.protected => Drawdown(equity) < MaxDrawdown
  BY <1>1 DEF AllowNewTrade
<1>8. order' = <<r>>
  BY <1>2, <1>5
<1>9. QED
  BY <1>1, <1>4, <1>6, <1>7, <1>8, BegunLoses

LEMMA WaitLoses ==
    ASSUME EngineInv, LossInv, WaitForFill
    PROVE  LossInv'
<1> DEFINE o == order[1]
<1>1. phase = "wait" /\ UNCHANGED <<placeVars, trades, equity, gateVars>>
  BY DEF WaitForFill
<1>2. OrderOK(o) /\ order # <<>> /\ o.fill \in Int
  <2>1. OrderOK(o) /\ order # <<>>
    BY <1>1, OrderThere DEF EngineInv
  <2>2. QED
    BY <2>1 DEF OrderOK
<1>3. o.factor \in 0..MaxLoss /\ o.realized = 0 /\ ~o.breakEven
  BY <1>1, <1>2 DEF LossInv, OrderLoss
<1>4. Segment.protected => Drawdown(equity) < MaxDrawdown
  BY <1>2 DEF LossInv, BegunInside
<1>5. ASSUME Abandon(frame) PROVE LossInv'
  <2>1. order' = <<>> /\ Segment' = Segment
    BY <1>1, <1>5, SegmentKeeps DEF Abandon
  <2>2. QED
    BY <1>1, <2>1, QuietLoses
<1>6. ASSUME NEW size \in FillSizes, NEW entry \in LimitEntries, NEW atr \in AtrValues,
             order' = <<Opened(o, o.fill, entry, size, atr)>>, phase' = "trade"
      PROVE  LossInv'
  <2>1. size \in 1..Whole /\ entry \in Int /\ entry \in EntryPrices
    BY BacktestAssumption DEF FillSizes, LimitEntries, EntryPrices, Whole
  <2> HIDE DEF o
  <2>2. PICK r : r = Opened(o, o.fill, entry, size, atr)
    OBVIOUS
  <2>3. LossOK(Opened(o, o.fill, entry, size, atr))
    BY <1>2, <1>3, <2>1, OpenedCovered
  <2>4. LossOK(r) /\ r.factor \in 0..MaxLoss
    BY <1>2, <1>3, <2>2, <2>3, OpenedFactor
  <2>5. order' = <<r>>
    BY <1>6, <2>2
  <2>6. QED
    BY <1>1, <1>4, <1>6, <2>4, <2>5, BegunLoses
<1>7. ASSUME order' = <<[o EXCEPT !.fill = @ + 1]>>, phase' = "wait"
      PROVE  LossInv'
  <2> HIDE DEF o
  <2>1. PICK r : r = [o EXCEPT !.fill = @ + 1]
    OBVIOUS
  <2>2. r.factor = o.factor /\ r.realized = o.realized /\ r.breakEven = o.breakEven
    BY <1>2, <2>1 DEF OrderOK, OrderFields
  <2>3. order' = <<r>>
    BY <1>7, <2>1
  <2>4. QED
    BY <1>1, <1>3, <1>4, <1>7, <2>2, <2>3, BegunLoses
<1>8. \/ Abandon(frame)
      \/ \E size \in FillSizes, entry \in LimitEntries, atr \in AtrValues :
            order' = <<Opened(o, o.fill, entry, size, atr)>> /\ phase' = "trade"
      \/ order' = <<[o EXCEPT !.fill = @ + 1]>> /\ phase' = "wait"
  BY <1>1 DEF WaitForFill
<1> HIDE DEF o
<1>9. QED
  BY <1>5, <1>6, <1>7, <1>8

\* What the next bar makes of the trade, and what it may have cost by then.
LEMMA SimulateLoses ==
    ASSUME EngineInv, LossInv, SimulateBar
    PROVE  /\ LossInv'
           /\ order[1].breakEven /\ ~Chased(order[1]) => order'[1].realized >= 0
<1> DEFINE o == order[1]
           i == o.exit + 1
<1>1. phase = "trade" /\ UNCHANGED <<placeVars, cursor, trades, equity, gateVars>>
  BY DEF SimulateBar
<1>2. PICK bar \in Known(i), atr \in AtrValues :
         LET after == AfterBar(o, i, View(o.side, bar), atr)
         IN  /\ Read(i, bar)
             /\ order' = <<[after EXCEPT !.exit = i]>>
             /\ phase' = IF after.reason = "open" THEN "trade" ELSE "close"
  BY DEF SimulateBar
<1>3. PICK after : after = AfterBar(o, i, View(o.side, bar), atr)
  OBVIOUS
<1>4. /\ order' = <<[after EXCEPT !.exit = i]>>
      /\ phase' = IF after.reason = "open" THEN "trade" ELSE "close"
  BY <1>2, <1>3
<1>5. /\ OrderOK(o) /\ Filled(o) /\ o.reason = "open" /\ order # <<>>
      /\ o.fill <= o.exit /\ o.fill..o.exit \subseteq DOMAIN frame
  <2>1. OrderOK(o) /\ OrderPlace(o) /\ order # <<>>
    BY <1>1, OrderThere DEF EngineInv
  <2>2. QED
    BY <1>1, <2>1 DEF OrderPlace
<1>6. LossOK(o) /\ o.factor \in 0..MaxLoss
  BY <1>1, <1>5 DEF LossInv, OrderLoss
<1>7. i \in Int /\ o.fill <= i /\ i - 1 = o.exit
  <2>1. o.fill \in Int /\ o.exit \in Int
    BY <1>5 DEF OrderOK
  <2> HIDE DEF o
  <2>2. QED
    BY <1>5, <2>1
<1>8. Behind(o, i)
  BY <1>5, <1>7 DEF Behind, EngineInv, FrameOK
<1>9. bar \in Bars /\ atr \in Nat /\ o.side \in {"BUY", "SELL"}
  BY <1>5, KnownIs, BacktestAssumption DEF EngineInv, OrderOK
<1> HIDE DEF i
<1> DEFINE view == View(o.side, bar)
<1>10. view \in BarType /\ view.low <= view.close
  <2>1. bar.low <= bar.close /\ bar.close <= bar.high /\ bar \in BarType
    BY <1>9, BacktestAssumption DEF BarType
  <2>2. QED
    BY <1>9, <2>1, ViewTyped DEF View, BarType
<1>11. after = AfterBar(o, i, view, atr)
  BY <1>3
<1> HIDE DEF view, o
<1>12. LossAs(after, o)
  BY <1>5, <1>6, <1>7, <1>8, <1>9, <1>10, <1>11, AfterBarLoses DEF Filled
<1>13. OrderOK(after) /\ Kept(after, o)
  <2>1. AfterAs(AfterBar(o, i, view, atr), o, i)
    BY <1>5, <1>7, <1>8, <1>9, <1>10, AfterBarKeeps
  <2>2. QED
    BY <1>11, <2>1 DEF AfterAs
<1>14. PICK r : r = [after EXCEPT !.exit = i]
  OBVIOUS
<1>15. order'[1] = r /\ order' # <<>>
  BY <1>4, <1>14
<1>16. /\ r.factor = o.factor /\ r.size = o.size /\ r.risk = o.risk
       /\ r.realized = after.realized /\ r.reason = after.reason
       /\ LossOK(after) => LossOK(r)
  <2>1. DOMAIN after = OrderFields
    BY <1>13 DEF OrderOK
  <2>2. /\ r.factor = after.factor /\ r.size = after.size /\ r.risk = after.risk
        /\ r.realized = after.realized /\ r.reason = after.reason /\ r.stop = after.stop
        /\ r.firstStop = after.firstStop /\ r.entry = after.entry /\ r.target = after.target
        /\ r.breakEven = after.breakEven /\ r.plan = after.plan
        /\ r.remaining = after.remaining /\ r.partials = after.partials
    BY <1>14, <2>1 DEF OrderFields
  <2>3. LossOK(after) => LossOK(r)
    BY <2>2 DEF LossOK, Chased, Covered
  <2>4. QED
    BY <1>13, <2>2, <2>3 DEF Kept
<1>17. Segment' = Segment
  BY <1>1, SegmentKeeps
<1>18. LossBounded' /\ DrawdownBounded'
  BY <1>1, <1>17, BooksStay DEF LossInv
<1>19. BegunInside'
  BY <1>1, <1>5, <1>17 DEF LossInv, BegunInside
<1>20. OrderLoss(r)'
  <2>1. phase' = "trade" => LossOK(r)
    BY <1>4, <1>12, <1>16 DEF LossAs
  <2>2. TargetsInReach => r.realized >= -(r.size * r.risk)
    BY <1>12, <1>16 DEF LossAs
  <2>3. phase' # "wait"
    BY <1>4
  <2>4. QED
    BY <1>6, <1>16, <2>1, <2>2, <2>3 DEF OrderLoss
<1>21. LossInv'
  BY <1>15, <1>18, <1>19, <1>20 DEF LossInv, OrderLoss
<1>22. o.breakEven /\ ~Chased(o) => order'[1].realized >= 0
  BY <1>12, <1>15, <1>16 DEF LossAs
<1>23. QED
  BY <1>21, <1>22 DEF o

LEMMA CloseTradeLoses ==
    ASSUME EngineInv, LossInv, RegisterClosed
    PROVE  LossInv'
<1> DEFINE o == order[1]
           t == TradeOf(o)
<1>1. /\ phase = "close" /\ order' = <<>> /\ UNCHANGED placeVars
      /\ trades' = Append(trades, t)
      /\ equity' = IF Segment.protected THEN RegisterTrade(equity, Result(o)) ELSE equity
  BY DEF RegisterClosed
<1>2. OrderOK(o) /\ o.size \in 1..Whole /\ order # <<>>
  <2>1. OrderOK(o) /\ OrderPlace(o) /\ order # <<>>
    BY <1>1, OrderThere DEF EngineInv
  <2>2. QED
    BY <1>1, <2>1 DEF OrderPlace, Filled
<1>3. o.factor \in 0..MaxLoss /\ (TargetsInReach => o.realized >= -(o.size * o.risk))
  BY <1>1, <1>2 DEF LossInv, OrderLoss
<1>4. t.size = o.size /\ t.risk = o.risk /\ t.realized = o.realized
  BY DEF TradeOf
<1>5. Segment' = Segment
  BY <1>1, SegmentKeeps
<1>6. LossBounded'
  <2>1. trades \in Seq(TradeType)
    BY DEF EngineInv, TradesOK
  <2> HIDE DEF t, o
  <2>2. \A k \in DOMAIN trades' : (k \in DOMAIN trades /\ trades'[k] = trades[k]) \/ trades'[k] = t
    BY <1>1, <2>1
  <2>3. QED
    BY <1>3, <1>4, <2>2 DEF LossBounded, LossInv
<1>7. ASSUME TargetsInReach, Segment.protected
      PROVE  Drawdown(equity') < MaxDrawdown + MaxLoss
  <2>1. Drawdown(equity) < MaxDrawdown /\ EquityOK(equity)
    BY <1>2, <1>7 DEF LossInv, BegunInside, EngineInv
  <2> HIDE DEF o
  <2>2. Result(o) \in Int /\ Result(o) >= -MaxLoss
    BY <1>2, <1>3, <1>7, ResultBounded, ResultTyped
  <2>3. Drawdown(RegisterTrade(equity, Result(o))) < MaxDrawdown + MaxLoss
    BY <2>1, <2>2, DrawdownKeeps
  <2>4. QED
    BY <1>1, <1>7, <2>3
<1>8. DrawdownBounded'
  BY <1>5, <1>7 DEF DrawdownBounded
<1>9. QED
  BY <1>1, <1>6, <1>8 DEF LossInv, BegunInside

LEMMA LossInit == Init => LossInv
<1> SUFFICES ASSUME Init PROVE LossInv
  OBVIOUS
<1>1. order = <<>> /\ trades = <<>> /\ equity = FreshEquity
  BY DEF Init
<1>2. Drawdown(equity) < MaxDrawdown + MaxLoss
  <2>1. EquityOK(equity) /\ equity.peak - equity.value = 0
    BY <1>1 DEF EquityOK, FreshEquity
  <2>2. Drawdown(equity) = 0
    BY <2>1, DrawdownIs
  <2>3. QED
    BY <2>2, MaxLossIs, BacktestAssumption
<1>3. QED
  BY <1>1, <1>2 DEF LossInv, BegunInside, LossBounded, DrawdownBounded

LEMMA LossStep ==
    ASSUME EngineInv, LossInv, Next
    PROVE  LossInv'
<1>1. ASSUME NEW bars, phase = "scan", Skip(bars) PROVE LossInv'
  <2>1. order = <<>>
    BY <1>1 DEF EngineInv, PhaseOK
  <2>2. order' = <<>> /\ trades' = trades /\ equity' = equity /\ Segment' = Segment
    BY <1>1, <2>1, SegmentKeeps DEF Skip
  <2>3. QED
    BY <2>2, QuietLoses
<1>2. CASE TooFewBars
  BY <1>1, <1>2 DEF TooFewBars, Scanning
<1>3. CASE Rejected
  BY <1>1, <1>3 DEF Rejected, Evaluating, Scanning
<1>4. ASSUME NEW s \in Candidates, Dropped(s) \/ ReleasedInVain(s) PROVE LossInv'
  BY <1>1, <1>4 DEF Dropped, ReleasedInVain, Evaluating, Scanning
<1>5. ASSUME NEW s \in Candidates, NEW plan \in Plans, NEW factor \in SizeFactors,
             PlaceLimit(s, plan, factor) \/ \E atr \in AtrValues : PlaceMarket(s, plan, factor, atr)
      PROVE  LossInv'
  BY <1>5, LimitLoses, MarketLoses
<1>6. CASE WaitForFill
  BY <1>6, WaitLoses
<1>7. CASE SimulateBar
  BY <1>7, SimulateLoses
<1>8. CASE RegisterClosed
  BY <1>8, CloseTradeLoses
<1>9. CASE EndOfPair
  <2>1. phase = "scan" /\ order' = order
    BY <1>9 DEF EndOfPair
  <2>2. order' = <<>>
    BY <2>1 DEF EngineInv, PhaseOK
  <2>3. (trades' = trades \/ trades' = <<>>)
        /\ ((equity' = equity /\ Segment' = Segment) \/ equity' = FreshEquity)
    BY <1>9 DEF EndOfPair, StartPair, StartSegment, Finish, Segment, placeVars
  <2>4. QED
    BY <2>2, <2>3, QuietLoses
<1>10. QED
  BY <1>2, <1>3, <1>4, <1>5, <1>6, <1>7, <1>8, <1>9 DEF Next

LEMMA LossStays ==
    ASSUME LossInv, UNCHANGED vars
    PROVE  LossInv'
<1>1. UNCHANGED <<placeVars, phase, order, trades, equity>>
  BY DEF vars
<1>2. Segment' = Segment
  BY <1>1, SegmentKeeps
<1>3. LossBounded' /\ DrawdownBounded' /\ BegunInside'
  BY <1>1, <1>2, BooksStay DEF LossInv, BegunInside
<1>4. QED
  BY <1>1, <1>3 DEF LossInv, OrderLoss

-----------------------------------------------------------------------------
(* The engine: what follows                                                *)

\* The invariant holds at every step of every run of the engine.
LEMMA EngineAlways == RunnerSpec => [](EngineInv /\ LossInv)
<1>1. RunnerInit => EngineInv /\ LossInv
  BY EngineInit, LossInit DEF RunnerInit
<1>2. EngineInv /\ LossInv /\ [RunnerNext]_allVars => (EngineInv /\ LossInv)'
  BY RunnerStepIs, EngineStep, EngineStays, LossStep, LossStays
<1>3. QED
  BY <1>1, <1>2, PTL DEF RunnerSpec

\* The book of trades is well formed at every step of every run of the engine,
\* its trades are apart, none of them loses more than the risk it was sized
\* for, and the equity protection bounds the drawdown of a run by its limit and
\* one loss: for any bars, plans, costs, delays, factors and programs.
\* (RunSound)
THEOREM RunAlwaysSound == RunnerSpec => []RunSound
<1>1. EngineInv /\ LossInv => RunSound
  <2> SUFFICES ASSUME EngineInv, LossInv PROVE RunSound
    OBVIOUS
  <2>1. /\ phase \in {"scan", "wait", "trade", "close", "done"}
        /\ Len(order) = (IF phase \in {"wait", "trade", "close"} THEN 1 ELSE 0)
    BY DEF EngineInv, PhaseOK
  <2>2. segment \in DOMAIN program /\ pairIndex \in DOMAIN PairOrder /\ cursor \in Nat
    BY PlaceIs DEF EngineInv, PlaceOK
  <2>3. \A k \in DOMAIN trades : trades[k].left = 0 /\ trades[k].size \in 1..Whole
    <3>1. \A k \in DOMAIN trades : trades[k] \in TradeType
      BY DEF EngineInv, TradesOK
    <3>2. QED
      BY <3>1 DEF TradeType
  <2>4. TypeOK
    BY <2>1, <2>2, <2>3 DEF TypeOK, EngineInv, FrameOK, JournalOK, EquityOK
  <2>5. BookSound
    BY <2>4 DEF BookSound, EngineInv, TradesOK
  <2>6. QED
    BY <2>5 DEF RunSound, LossInv
<1>2. QED
  BY <1>1, EngineAlways, PTL

\* No turn of a trade, whatever the bar, moves its stop away from the price,
\* and from the bar after its stop has come to the entry none makes it a loss,
\* unless its fill ran past a target.  (StopsOnlyTighten)
THEOREM StopsAlwaysTighten == RunnerSpec => StopsOnlyTighten
<1>1. EngineInv /\ LossInv /\ [RunnerNext]_allVars =>
        [phase = "trade" /\ order' # <<>> =>
            /\ order'[1].stop >= order[1].stop
            /\ order[1].breakEven /\ ~Chased(order[1]) => order'[1].realized >= 0]_vars
  <2> SUFFICES ASSUME EngineInv, LossInv, Next, phase = "trade"
               PROVE  /\ order'[1].stop >= order[1].stop
                      /\ order[1].breakEven /\ ~Chased(order[1]) => order'[1].realized >= 0
    BY RunnerStepIs
  <2>1. SimulateBar
    BY DEF Next, TooFewBars, Rejected, Dropped, ReleasedInVain, PlaceLimit, PlaceMarket,
           Evaluating, Scanning, WaitForFill, RegisterClosed, EndOfPair
  <2>2. QED
    BY <2>1, SimulateKeeps, SimulateLoses
<1>2. QED
  BY <1>1, EngineAlways, PTL DEF RunnerSpec, StopsOnlyTighten

-----------------------------------------------------------------------------
(* The files of the trade cache: the invariant                             *)

Fields == {"phase", "asked", "todo", "next", "loaded", "snapshots", "result", "other",
           "rows", "writing"}

\* CacheKey of the process with this record.
KeyOf(r) ==
    LET j == r.todo[r.next]
    IN  [runner |-> j.runner, tag |-> j.tag, settings |-> j.settings, history |-> j.history,
         step |-> j.step, end |-> j.end, cacheOnly |-> r.asked[1].cacheOnly]

\* It has the temporary file of the key open, or is about to move it.
HasOpen(r, key) == r.phase \in {"write", "replace"} /\ KeyOf(r) = key

Several(f) == \E a, b \in f.writers : a # b

EntryOK(f) ==
    DOMAIN f = {"key", "whole", "content", "writers"} /\ f.writers \subseteq Processes

\* All who hold a temporary file are its writers.
HoldersWrite(jobs, temp) ==
    \A f \in temp : \A p \in Processes : HasOpen(jobs[p], f.key) => p \in f.writers

\* One that holds it alone writes to an empty file and moves a whole one.
AloneIsClean(jobs, temp) ==
    \A f \in temp : \A p \in Processes :
        HasOpen(jobs[p], f.key) /\ f.writers = {p} =>
            /\ jobs[p].phase = "write" => jobs[p].writing = "partial" /\ f.content = <<>>
            /\ jobs[p].phase = "replace" => f.whole

\* One whose open file another has moved into place is not alone.
MovedIsShared(jobs, kept) ==
    \A f \in kept : \A p \in Processes :
        HasOpen(jobs[p], f.key) /\ jobs[p].phase = "write" /\ jobs[p].writing = "file" => Several(f)

TornIsShared(kept) == \A f \in kept : ~f.whole => Several(f)

Inv ==
    /\ DOMAIN process = Processes /\ \A p \in Processes : DOMAIN process[p] = Fields
    /\ \A f \in files \cup partial : EntryOK(f)
    /\ HoldersWrite(process, partial) /\ AloneIsClean(process, partial)
    /\ MovedIsShared(process, files) /\ TornIsShared(files)

-----------------------------------------------------------------------------
(* The files of the trade cache: the steps                                 *)

LEMMA KeyIs == ASSUME NEW p PROVE CacheKey(p) = KeyOf(process[p])
BY DEF CacheKey, KeyOf, Current, Todo, Asked

LEMMA BecomeIs ==
    ASSUME DOMAIN process = Processes, NEW p \in Processes, NEW r, Become(p, r)
    PROVE  /\ DOMAIN process' = Processes /\ process'[p] = r
           /\ \A q \in Processes \ {p} : process'[q] = process[q]
BY DEF Become

\* A process that holds no file after its step disturbs nothing.
LEMMA StepsAside ==
    ASSUME Inv, NEW p \in Processes, NEW r, Become(p, r), DOMAIN r = Fields,
           r.phase \notin {"write", "replace"}, UNCHANGED <<files, partial>>
    PROVE  Inv'
<1>1. /\ DOMAIN process' = Processes /\ process'[p] = r
      /\ \A q \in Processes \ {p} : process'[q] = process[q]
  BY BecomeIs DEF Inv
<1>2. \A q \in Processes : \A key : HasOpen(process'[q], key) =>
         q # p /\ process'[q] = process[q] /\ HasOpen(process[q], key)
  BY <1>1 DEF HasOpen
<1>3. files' = files /\ partial' = partial
  OBVIOUS
<1>4. \A q \in Processes : DOMAIN process'[q] = Fields
  BY <1>1 DEF Inv
<1>5. HoldersWrite(process', partial')
  BY <1>2, <1>3 DEF Inv, HoldersWrite
<1>6. AloneIsClean(process', partial')
  BY <1>2, <1>3 DEF Inv, AloneIsClean
<1>7. MovedIsShared(process', files')
  BY <1>2, <1>3 DEF Inv, MovedIsShared
<1>8. QED
  BY <1>1, <1>3, <1>4, <1>5, <1>6, <1>7 DEF Inv, EntryOK, TornIsShared, Several

LEMMA OpenKeeps ==
    ASSUME Inv, NEW p \in Processes, OpenTmp(p)
    PROVE  Inv'
<1> DEFINE key == CacheKey(p)
           r == [process[p] EXCEPT !.phase = "write", !.writing = "partial"]
           f0 == [key |-> key, whole |-> FALSE, content |-> <<>>, writers |-> {p} \cup Others(p)]
<1>1. /\ process[p].phase = "open" /\ Become(p, r) /\ files' = files
      /\ partial' = Without(partial, key) \cup {f0}
  BY DEF OpenTmp
<1>2. DOMAIN process = Processes /\ DOMAIN process[p] = Fields
  BY DEF Inv
<1>3. /\ DOMAIN r = Fields /\ r.phase = "write" /\ r.writing = "partial"
      /\ KeyOf(r) = key
  BY <1>2, KeyIs DEF Fields, KeyOf
<1> HIDE DEF r
<1>4. /\ DOMAIN process' = Processes /\ process'[p] = r
      /\ \A q \in Processes \ {p} : process'[q] = process[q]
  BY <1>1, <1>2, BecomeIs
<1>5. /\ DOMAIN f0 = {"key", "whole", "content", "writers"}
      /\ f0.key = key /\ f0.content = <<>> /\ f0.writers = {p} \cup Others(p)
  OBVIOUS
<1>6. \A q \in Processes \ {p} : HasOpen(process[q], key) => q \in Others(p)
  BY KeyIs DEF Others, HasOpen
<1>7. Others(p) \subseteq Processes
  BY DEF Others
<1> HIDE DEF f0, key
<1>8. \A f \in partial' : f = f0 \/ (f \in partial /\ f.key # key)
  BY <1>1 DEF Without
<1>9. \A q \in Processes : DOMAIN process'[q] = Fields
  BY <1>3, <1>4 DEF Inv
<1>10. \A f \in files' \cup partial' : EntryOK(f)
  BY <1>1, <1>5, <1>7, <1>8 DEF Inv, EntryOK
<1>11. HoldersWrite(process', partial')
  <2> SUFFICES ASSUME NEW f \in partial', NEW q \in Processes, HasOpen(process'[q], f.key)
               PROVE  q \in f.writers
    BY DEF HoldersWrite
  <2>1. CASE f = f0
    BY <1>4, <1>5, <1>6, <2>1
  <2>2. CASE f \in partial /\ f.key # key
    <3>1. q # p
      BY <1>3, <1>4, <2>2 DEF HasOpen
    <3>2. QED
      BY <1>4, <2>2, <3>1 DEF Inv, HoldersWrite
  <2>3. QED
    BY <1>8, <2>1, <2>2
<1>12. AloneIsClean(process', partial')
  <2> SUFFICES ASSUME NEW f \in partial', NEW q \in Processes, HasOpen(process'[q], f.key),
                      f.writers = {q}
               PROVE  /\ process'[q].phase = "write" =>
                            process'[q].writing = "partial" /\ f.content = <<>>
                      /\ process'[q].phase = "replace" => f.whole
    BY DEF AloneIsClean
  <2>1. CASE f = f0
    <3>1. q = p
      BY <1>5, <2>1
    <3>2. QED
      BY <1>3, <1>4, <1>5, <2>1, <3>1
  <2>2. CASE f \in partial /\ f.key # key
    <3>1. q # p
      BY <1>3, <1>4, <2>2 DEF HasOpen
    <3>2. QED
      BY <1>4, <2>2, <3>1 DEF Inv, AloneIsClean
  <2>3. QED
    BY <1>8, <2>1, <2>2
<1>13. MovedIsShared(process', files')
  BY <1>1, <1>3, <1>4 DEF Inv, MovedIsShared
<1>14. QED
  BY <1>1, <1>4, <1>9, <1>10, <1>11, <1>12, <1>13 DEF Inv, TornIsShared

\* What is in a file after p has written over it: the file is the same, and
\* whole if nothing of another process was in it.
LEMMA WrittenOver ==
    ASSUME NEW f, EntryOK(f), NEW result, NEW g \in Overwritten(f, result)
    PROVE  /\ EntryOK(g) /\ g.key = f.key /\ g.writers = f.writers
           /\ f.content = <<>> => g.whole
<1>1. PICK whole \in (IF f.content \in {<<>>, <<result>>} THEN {TRUE} ELSE BOOLEAN) :
         g = [f EXCEPT !.whole = whole, !.content = IF whole THEN <<result>> ELSE <<>>]
  BY DEF Overwritten
<1>2. f.content = <<>> => whole = TRUE
  BY <1>1
<1>3. QED
  BY <1>1, <1>2 DEF EntryOK

LEMMA WriteKeeps ==
    ASSUME Inv, NEW p \in Processes, WriteTmp(p)
    PROVE  Inv'
<1> DEFINE key == CacheKey(p)
           r == [process[p] EXCEPT !.phase = "replace", !.writing = "none"]
           result == process[p].result[1]
           WriteOver(entries) ==
              UNION {{Without(entries, f.key) \cup {g} : g \in Overwritten(f, result)} :
                        f \in {e \in entries : e.key = key}}
<1>1. /\ process[p].phase = "write" /\ Become(p, r)
      /\ \/ process[p].writing = "partial" /\ partial' \in WriteOver(partial) /\ files' = files
         \/ process[p].writing = "file" /\ files' \in WriteOver(files) /\ partial' = partial
         \/ process[p].writing = "gone" /\ files' = files /\ partial' = partial
  BY DEF WriteTmp
<1>2. DOMAIN process = Processes /\ DOMAIN process[p] = Fields
  BY DEF Inv
<1>3. DOMAIN r = Fields /\ r.phase = "replace" /\ KeyOf(r) = key /\ KeyOf(process[p]) = key
  BY <1>2, KeyIs DEF Fields, KeyOf
<1> HIDE DEF r
<1>4. /\ DOMAIN process' = Processes /\ process'[p] = r
      /\ \A q \in Processes \ {p} : process'[q] = process[q]
  BY <1>1, <1>2, BecomeIs
<1>5. \A q \in Processes : DOMAIN process'[q] = Fields
  BY <1>3, <1>4 DEF Inv
<1>6. \A q \in Processes : \A k : HasOpen(process'[q], k) <=> HasOpen(process[q], k)
  <2>1. \A k : HasOpen(process'[p], k) <=> HasOpen(process[p], k)
    BY <1>1, <1>3, <1>4 DEF HasOpen
  <2>2. QED
    BY <1>4, <2>1
<1>7. HasOpen(process[p], key)
  BY <1>1, <1>3 DEF HasOpen
\* Each entry is an earlier one of another key, or one written over.
<1>8. ASSUME NEW entries, NEW after \in WriteOver(entries), \A f \in entries : EntryOK(f),
             NEW f \in after
      PROVE  \/ f \in entries /\ f.key # key
             \/ /\ f.key = key /\ EntryOK(f)
                /\ \E e \in entries : /\ e.key = key /\ f.writers = e.writers
                                      /\ e.content = <<>> => f.whole
  <2>1. PICK e \in entries : /\ e.key = key
                             /\ \E g \in Overwritten(e, result) :
                                   after = Without(entries, e.key) \cup {g}
    BY <1>8
  <2>2. PICK g \in Overwritten(e, result) : after = Without(entries, e.key) \cup {g}
    BY <2>1
  <2>3. /\ EntryOK(g) /\ g.key = e.key /\ g.writers = e.writers
        /\ e.content = <<>> => g.whole
    BY <1>8, <2>1, <2>2, WrittenOver
  <2>4. CASE f = g
    BY <2>1, <2>3, <2>4
  <2>5. CASE f \in Without(entries, e.key)
    BY <2>1, <2>5 DEF Without
  <2>6. QED
    BY <1>8, <2>2, <2>4, <2>5
<1> HIDE DEF WriteOver, result
<1>9. ASSUME partial' = partial, process[p].writing # "partial"
      PROVE  HoldersWrite(process', partial') /\ AloneIsClean(process', partial')
  <2>1. HoldersWrite(process', partial')
    BY <1>6, <1>9 DEF Inv, HoldersWrite
  <2>2. ASSUME NEW f \in partial, NEW q \in Processes, HasOpen(process'[q], f.key),
               f.writers = {q}
        PROVE  /\ process'[q].phase = "write" =>
                     process'[q].writing = "partial" /\ f.content = <<>>
               /\ process'[q].phase = "replace" => f.whole
    <3>1. /\ HasOpen(process[q], f.key)
          /\ process[q].phase = "write" => process[q].writing = "partial" /\ f.content = <<>>
          /\ process[q].phase = "replace" => f.whole
      BY <1>6, <2>2 DEF Inv, AloneIsClean
    <3>2. q # p
      BY <1>1, <1>9, <3>1
    <3>3. QED
      BY <1>4, <3>1, <3>2
  <2>3. AloneIsClean(process', partial')
    BY <1>9, <2>2 DEF AloneIsClean
  <2>4. QED
    BY <2>1, <2>3
<1>10. CASE process[p].writing = "partial" /\ partial' \in WriteOver(partial) /\ files' = files
  <2>1. \A f \in partial : EntryOK(f)
    BY DEF Inv
  <2>2. \A f \in partial' :
           \/ f \in partial /\ f.key # key
           \/ /\ f.key = key /\ EntryOK(f)
              /\ \E e \in partial : /\ e.key = key /\ f.writers = e.writers
                                    /\ e.content = <<>> => f.whole
    BY <1>8, <1>10, <2>1
  <2>3. \A f \in files' \cup partial' : EntryOK(f)
    BY <1>10, <2>2 DEF Inv
  <2>4. HoldersWrite(process', partial')
    <3> SUFFICES ASSUME NEW f \in partial', NEW q \in Processes, HasOpen(process[q], f.key)
                 PROVE  q \in f.writers
      BY <1>6 DEF HoldersWrite
    <3>1. QED
      BY <2>2 DEF Inv, HoldersWrite
  <2>5. AloneIsClean(process', partial')
    <3> SUFFICES ASSUME NEW f \in partial', NEW q \in Processes, HasOpen(process'[q], f.key),
                        f.writers = {q}
                 PROVE  /\ process'[q].phase = "write" =>
                              process'[q].writing = "partial" /\ f.content = <<>>
                        /\ process'[q].phase = "replace" => f.whole
      BY DEF AloneIsClean
    <3>1. HasOpen(process[q], f.key)
      BY <1>6
    <3>2. CASE f \in partial /\ f.key # key
      <4>1. q # p
        BY <1>3, <3>1, <3>2 DEF HasOpen
      <4>2. QED
        BY <1>4, <3>1, <3>2, <4>1 DEF Inv, AloneIsClean
    <3>3. CASE /\ f.key = key
               /\ \E e \in partial : /\ e.key = key /\ f.writers = e.writers
                                     /\ e.content = <<>> => f.whole
      <4>1. PICK e \in partial : /\ e.key = key /\ f.writers = e.writers
                                 /\ e.content = <<>> => f.whole
        BY <3>3
      <4>2. p \in e.writers
        BY <1>7, <4>1 DEF Inv, HoldersWrite
      <4>3. q = p /\ e.writers = {p}
        BY <4>1, <4>2
      <4>4. e.content = <<>>
        BY <1>1, <1>7, <4>1, <4>3 DEF Inv, AloneIsClean
      <4>5. QED
        BY <1>3, <1>4, <4>1, <4>3, <4>4
    <3>4. QED
      BY <2>2, <3>2, <3>3
  <2>6. MovedIsShared(process', files')
    <3> SUFFICES ASSUME NEW f \in files, NEW q \in Processes, HasOpen(process'[q], f.key),
                        process'[q].phase = "write", process'[q].writing = "file"
                 PROVE  Several(f)
      BY <1>10 DEF MovedIsShared
    <3>1. q # p
      BY <1>3, <1>4
    <3>2. QED
      BY <1>4, <3>1 DEF Inv, MovedIsShared
  <2>7. QED
    BY <1>4, <1>5, <1>10, <2>3, <2>4, <2>5, <2>6 DEF Inv
<1>11. CASE process[p].writing = "file" /\ files' \in WriteOver(files) /\ partial' = partial
  <2>1. \A f \in files : EntryOK(f)
    BY DEF Inv
  <2>2. \A f \in files' :
           \/ f \in files /\ f.key # key
           \/ /\ f.key = key /\ EntryOK(f)
              /\ \E e \in files : e.key = key /\ f.writers = e.writers
    BY <1>8, <1>11, <2>1
  <2>3. \A f \in files' \cup partial' : EntryOK(f)
    BY <1>11, <2>2 DEF Inv
  <2>4. HoldersWrite(process', partial') /\ AloneIsClean(process', partial')
    BY <1>9, <1>11
  <2>5. \A e \in files : e.key = key => Several(e)
    BY <1>1, <1>7, <1>11 DEF Inv, MovedIsShared
  <2>6. \A f \in files' : (f \in files /\ f.key # key) \/ Several(f)
    BY <2>2, <2>5 DEF Several
  <2>7. MovedIsShared(process', files')
    <3> SUFFICES ASSUME NEW f \in files', f \in files, NEW q \in Processes,
                        HasOpen(process'[q], f.key),
                        process'[q].phase = "write", process'[q].writing = "file"
                 PROVE  Several(f)
      BY <2>6 DEF MovedIsShared
    <3>1. q # p
      BY <1>3, <1>4
    <3>2. QED
      BY <1>4, <3>1 DEF Inv, MovedIsShared
  <2>8. TornIsShared(files')
    BY <2>6 DEF Inv, TornIsShared
  <2>9. QED
    BY <1>4, <1>5, <2>3, <2>4, <2>7, <2>8 DEF Inv
<1>12. CASE process[p].writing = "gone" /\ files' = files /\ partial' = partial
  <2>1. HoldersWrite(process', partial') /\ AloneIsClean(process', partial')
    BY <1>9, <1>12
  <2>2. MovedIsShared(process', files')
    <3> SUFFICES ASSUME NEW f \in files, NEW q \in Processes, HasOpen(process'[q], f.key),
                        process'[q].phase = "write", process'[q].writing = "file"
                 PROVE  Several(f)
      BY <1>12 DEF MovedIsShared
    <3>1. q # p
      BY <1>3, <1>4
    <3>2. QED
      BY <1>4, <3>1 DEF Inv, MovedIsShared
  <2>3. QED
    BY <1>4, <1>5, <1>12, <2>1, <2>2 DEF Inv
<1>13. QED
  BY <1>1, <1>10, <1>11, <1>12

LEMMA ReplaceKeeps ==
    ASSUME Inv, NEW p \in Processes, Replace(p)
    PROVE  Inv'
<1> DEFINE key == CacheKey(p)
           r == [process[p] EXCEPT !.phase = "ready"]
<1>1. PICK f \in partial : /\ f.key = key
                           /\ files' = Without(files, f.key) \cup {f}
                           /\ partial' = partial \ {f}
  BY DEF Replace
<1>2. /\ process[p].phase = "replace"
      /\ process' = [q \in Processes |-> IF q = p THEN r ELSE Moved(p, q)]
  BY DEF Replace
<1>3. DOMAIN process = Processes /\ \A q \in Processes : DOMAIN process[q] = Fields
  BY DEF Inv
<1>4. DOMAIN r = Fields /\ r.phase = "ready" /\ KeyOf(process[p]) = key
  BY <1>3, KeyIs DEF Fields
<1> HIDE DEF r
<1>5. /\ DOMAIN process' = Processes /\ process'[p] = r
      /\ \A q \in Processes \ {p} : process'[q] = Moved(p, q)
  BY <1>2
<1>6. ASSUME NEW q \in Processes \ {p}
      PROVE  /\ DOMAIN Moved(p, q) = Fields
             /\ Moved(p, q).phase = process[q].phase /\ KeyOf(Moved(p, q)) = KeyOf(process[q])
             /\ q \notin Others(p) => Moved(p, q) = process[q]
             /\ q \in Others(p) /\ Moved(p, q).writing = "file" => process[q].writing = "partial"
  <2> DEFINE w == process[q].writing
             moved == CASE w = "partial" -> "file" [] w = "file" -> "gone" [] OTHER -> w
  <2>1. q \in Others(p) => Moved(p, q) = [process[q] EXCEPT !.writing = moved]
    BY DEF Moved
  <2>2. moved = "file" => w = "partial"
    OBVIOUS
  <2> HIDE DEF moved
  <2>3. q \notin Others(p) => Moved(p, q) = process[q]
    BY DEF Moved
  <2>4. QED
    BY <1>3, <2>1, <2>2, <2>3 DEF Fields, KeyOf
<1>7. ASSUME NEW q \in Processes \ {p}, HasOpen(process[q], key) PROVE q \in Others(p)
  BY <1>7, KeyIs DEF Others, HasOpen
<1>8. ASSUME NEW q \in Processes, NEW k, HasOpen(process'[q], k)
      PROVE  /\ q # p /\ HasOpen(process[q], k) /\ process'[q].phase = process[q].phase
             /\ k # key => process'[q] = process[q]
  <2>1. q # p
    BY <1>4, <1>5, <1>8 DEF HasOpen
  <2>2. HasOpen(process[q], k) /\ process'[q].phase = process[q].phase
    BY <1>5, <1>6, <1>8, <2>1 DEF HasOpen
  <2>3. ASSUME k # key PROVE process'[q] = process[q]
    <3>1. q \notin Others(p)
      BY <2>2, <2>3, KeyIs DEF Others, HasOpen
    <3>2. QED
      BY <1>5, <1>6, <2>1, <3>1
  <2>4. QED
    BY <2>1, <2>2, <2>3
<1>9. \A q \in Processes : DOMAIN process'[q] = Fields
  BY <1>4, <1>5, <1>6
<1>10. HasOpen(process[p], key)
  BY <1>2, <1>4 DEF HasOpen
<1>11. \A g \in files' \cup partial' : EntryOK(g)
  BY <1>1 DEF Inv, Without
<1>12. HoldersWrite(process', partial')
  BY <1>1, <1>8 DEF Inv, HoldersWrite
<1>13. AloneIsClean(process', partial')
  <2> SUFFICES ASSUME NEW g \in partial, NEW q \in Processes, HasOpen(process'[q], g.key),
                      g.writers = {q}
               PROVE  /\ process'[q].phase = "write" =>
                            process'[q].writing = "partial" /\ g.content = <<>>
                      /\ process'[q].phase = "replace" => g.whole
    BY <1>1 DEF AloneIsClean
  <2>1. q # p /\ HasOpen(process[q], g.key) /\ (g.key # key => process'[q] = process[q])
    BY <1>8
  <2>2. g.key # key
    <3>1. g.key = key => p \in g.writers
      BY <1>10 DEF Inv, HoldersWrite
    <3>2. QED
      BY <2>1, <3>1
  <2>3. QED
    BY <2>1, <2>2 DEF Inv, AloneIsClean
<1>14. MovedIsShared(process', files')
  <2> SUFFICES ASSUME NEW g \in files', NEW q \in Processes, HasOpen(process'[q], g.key),
                      process'[q].phase = "write", process'[q].writing = "file"
               PROVE  Several(g)
    BY DEF MovedIsShared
  <2>1. /\ q # p /\ HasOpen(process[q], g.key) /\ process[q].phase = "write"
        /\ g.key # key => process'[q] = process[q]
    BY <1>8
  <2>2. CASE g = f
    <3>1. p \in f.writers /\ q \in f.writers
      BY <1>1, <1>10, <2>1, <2>2 DEF Inv, HoldersWrite
    <3>2. QED
      BY <2>1, <2>2, <3>1 DEF Several
  <2>3. CASE g \in files /\ g.key # key
    BY <2>1, <2>3 DEF Inv, MovedIsShared
  <2>4. QED
    BY <1>1, <2>2, <2>3 DEF Without
<1>15. TornIsShared(files')
  <2>1. p \in f.writers
    BY <1>1, <1>10 DEF Inv, HoldersWrite
  <2>2. CASE f.writers = {p}
    <3>1. f.whole
      BY <1>1, <1>2, <1>10, <2>2 DEF Inv, AloneIsClean
    <3>2. QED
      BY <1>1, <3>1 DEF Inv, TornIsShared, Without
  <2>3. CASE f.writers # {p}
    <3>1. Several(f)
      BY <2>1, <2>3 DEF Several
    <3>2. QED
      BY <1>1, <3>1 DEF Inv, TornIsShared, Without
  <2>4. QED
    BY <2>2, <2>3
<1>16. QED
  BY <1>5, <1>9, <1>11, <1>12, <1>13, <1>14, <1>15 DEF Inv

LEMMA AfterRunIs == ASSUME NEW p PROVE AfterRun(p) \in {"open", "ready"}
BY DEF AfterRun

LEMMA DeadIs ==
    ASSUME NEW p, DOMAIN process[p] = Fields
    PROVE  DOMAIN Dead(p) = Fields /\ Dead(p).phase = "dead"
BY DEF Dead, Fields

\* Everything else a process does leaves the files alone, and it holds none.
LEMMA OtherWorkKeeps ==
    ASSUME Inv, NEW p \in Processes,
           \/ LoadHit(p) \/ LoadTorn(p) \/ LoadFrames(p) \/ EvaluateBar(p) \/ RunBoth(p)
           \/ ReplaceFails(p) \/ Compare(p) \/ Report(p) \/ FinishSuite(p) \/ Crash(p)
    PROVE  Inv'
<1>1. DOMAIN process[p] = Fields
  BY DEF Inv
<1>2. SUFFICES \E r : /\ Become(p, r) /\ DOMAIN r = Fields
                      /\ r.phase \notin {"write", "replace"} /\ UNCHANGED <<files, partial>>
  BY StepsAside
<1>3. CASE LoadHit(p)
  <2>1. PICK f \in Stored(p) :
           Become(p, [process[p] EXCEPT !.phase = "ready", !.result = f.content])
    BY <1>3 DEF LoadHit
  <2> DEFINE r == [process[p] EXCEPT !.phase = "ready", !.result = f.content]
  <2>2. DOMAIN r = Fields /\ r.phase = "ready"
    BY <1>1 DEF Fields
  <2>3. QED
    BY <1>3, <2>1, <2>2 DEF LoadHit
<1>4. CASE LoadTorn(p) \/ ReplaceFails(p) \/ Crash(p)
  <2>1. Become(p, Dead(p)) /\ UNCHANGED <<files, partial>>
    BY <1>4 DEF LoadTorn, ReplaceFails, Crash
  <2>2. QED
    BY <1>1, <2>1, DeadIs
<1>5. CASE LoadFrames(p)
  <2>1. PICK failed \in BOOLEAN :
           Become(p, [process[p] EXCEPT !.phase = IF failed THEN AfterRun(p) ELSE "scan",
                                        !.loaded = newest,
                                        !.result = <<ResultOf(Current(p), <<>>, failed)>>])
    BY <1>5 DEF LoadFrames
  <2> DEFINE next == IF failed THEN AfterRun(p) ELSE "scan"
             result == <<ResultOf(Current(p), <<>>, failed)>>
             r == [process[p] EXCEPT !.phase = next, !.loaded = newest, !.result = result]
  <2>2. next \notin {"write", "replace"}
    BY AfterRunIs
  <2> HIDE DEF next, result
  <2>3. DOMAIN r = Fields /\ r.phase = next
    BY <1>1 DEF Fields
  <2>4. Become(p, r)
    BY <2>1 DEF next, result
  <2>5. QED
    BY <1>5, <2>2, <2>3, <2>4 DEF LoadFrames
<1>6. CASE EvaluateBar(p)
  <2> DEFINE j == Current(p)
             bars == EvaluatedBars(j, process[p].loaded)
             done == Len(process[p].result[1].decisions) + 1
             key == SnapshotKey(j.settings, FirstCandle(j, process[p].loaded), bars[done])
             next == IF done = Len(bars) THEN AfterRun(p) ELSE "scan"
             cache(d) == IF Shared(Asked(p)) THEN Put(process[p].snapshots, key, d)
                         ELSE process[p].snapshots
  <2>1. PICK d : Become(p, [process[p] EXCEPT !.phase = next,
                               !.result[1].decisions = Append(@, d), !.snapshots = cache(d)])
    BY <1>6, Zenon DEF EvaluateBar
  <2>2. next \notin {"write", "replace"}
    BY AfterRunIs
  <2> HIDE DEF next
  <2> DEFINE kept == cache(d)
             r == [process[p] EXCEPT !.phase = next,
                      !.result[1].decisions = Append(@, d), !.snapshots = kept]
  <2>3. Become(p, r)
    BY <2>1
  <2> HIDE DEF kept
  <2>4. DOMAIN r = Fields /\ r.phase = next
    BY <1>1 DEF Fields
  <2> HIDE DEF r
  <2>5. UNCHANGED <<files, partial>>
    BY <1>6 DEF EvaluateBar
  <2>6. QED
    BY <2>2, <2>3, <2>4, <2>5
<1>7. CASE RunBoth(p)
  <2>1. PICK result, other : Become(p, [process[p] EXCEPT !.phase = "report", !.result = result,
                                                          !.other = other])
    BY <1>7 DEF RunBoth
  <2> DEFINE r == [process[p] EXCEPT !.phase = "report", !.result = result, !.other = other]
  <2>2. DOMAIN r = Fields /\ r.phase = "report"
    BY <1>1 DEF Fields
  <2>3. QED
    BY <1>7, <2>1, <2>2 DEF RunBoth
<1>8. CASE Compare(p)
  <2>1. PICK other : Become(p, [process[p] EXCEPT !.phase = "report", !.other = other])
    BY <1>8 DEF Compare
  <2> DEFINE r == [process[p] EXCEPT !.phase = "report", !.other = other]
  <2>2. DOMAIN r = Fields /\ r.phase = "report"
    BY <1>1 DEF Fields
  <2>3. QED
    BY <1>8, <2>1, <2>2 DEF Compare
<1>9. CASE Report(p)
  <2>1. PICK row : Become(p, [process[p] EXCEPT !.phase = "load", !.next = @ + 1, !.loaded = 0,
                                                !.result = <<>>, !.other = <<>>,
                                                !.rows = Append(@, row)])
    BY <1>9 DEF Report
  <2> DEFINE r == [process[p] EXCEPT !.phase = "load", !.next = @ + 1, !.loaded = 0,
                                     !.result = <<>>, !.other = <<>>, !.rows = Append(@, row)]
  <2>2. DOMAIN r = Fields /\ r.phase = "load"
    BY <1>1 DEF Fields
  <2> HIDE DEF r
  <2>3. Become(p, r)
    BY <2>1 DEF r
  <2>4. QED
    BY <1>9, <2>2, <2>3 DEF Report
<1>10. CASE FinishSuite(p)
  <2> DEFINE r == [process[p] EXCEPT !.phase = "done", !.snapshots = <<>>]
  <2>1. Become(p, r) /\ UNCHANGED <<files, partial>>
    BY <1>10 DEF FinishSuite
  <2>2. DOMAIN r = Fields /\ r.phase = "done"
    BY <1>1 DEF Fields
  <2>3. QED
    BY <2>1, <2>2
<1>11. QED
  BY <1>3, <1>4, <1>5, <1>6, <1>7, <1>8, <1>9, <1>10

LEMMA StartKeeps ==
    ASSUME Inv, NEW p \in Processes, Start(p)
    PROVE  Inv'
<1> DEFINE r == [NoProcess EXCEPT !.phase = "load", !.asked = <<session[starts + 1]>>,
                                  !.todo = Jobs(session[starts + 1])]
<1>1. Become(p, r) /\ UNCHANGED <<files, partial>>
  BY DEF Start
<1>2. DOMAIN r = Fields /\ r.phase = "load"
  BY DEF NoProcess, Fields
<1> HIDE DEF r
<1>3. QED
  BY <1>1, <1>2, StepsAside

\* The invariant as an operator of the variables it reads.
LEMMA SameFiles ==
    ASSUME Inv, UNCHANGED <<process, files, partial>>
    PROVE  Inv'
BY DEF Inv, HoldersWrite, AloneIsClean, MovedIsShared, TornIsShared, EntryOK, HasOpen, KeyOf,
       Several

LEMMA InitInv == RunnerInit => Inv
<1> SUFFICES ASSUME RunnerInit PROVE Inv
  OBVIOUS
<1>1. process = [p \in Processes |-> NoProcess] /\ files = {} /\ partial = {}
  BY DEF RunnerInit
<1>2. DOMAIN NoProcess = Fields
  BY DEF NoProcess, Fields
<1>3. QED
  BY <1>1, <1>2 DEF Inv, HoldersWrite, AloneIsClean, MovedIsShared, TornIsShared

LEMMA StepInv == Inv /\ [RunnerNext]_allVars => Inv'
<1> SUFFICES ASSUME Inv, [RunnerNext]_allVars PROVE Inv'
  OBVIOUS
<1>1. CASE UNCHANGED suiteVars
  BY <1>1, SameFiles DEF suiteVars
<1>2. CASE UNCHANGED allVars
  BY <1>1, <1>2 DEF allVars
<1>3. ASSUME NEW p \in Processes, Start(p) PROVE Inv'
  BY <1>3, StartKeeps
<1>4. ASSUME NEW p \in Processes, Work(p) PROVE Inv'
  BY <1>4, OpenKeeps, WriteKeeps, ReplaceKeeps, OtherWorkKeeps DEF Work
<1>5. ASSUME NEW p \in Processes, Crash(p) PROVE Inv'
  BY <1>5, OtherWorkKeeps
<1>6. CASE NewestGrows
  BY <1>6, SameFiles DEF NewestGrows
<1>7. QED
  BY <1>1, <1>2, <1>3, <1>4, <1>5, <1>6 DEF RunnerNext, InSuite

LEMMA SeveralIsMoreThanOne ==
    ASSUME NEW f, f.writers \subseteq Processes, Several(f)
    PROVE  Cardinality(f.writers) > 1
<1>1. PICK a \in f.writers, b \in f.writers : a # b
  BY DEF Several
<1>2. IsFiniteSet(f.writers)
  BY RunnerAssumption, FS_Subset
<1>3. Cardinality({a, b}) = 2
  <2>1. Cardinality({a}) = 1 /\ IsFiniteSet({a})
    BY FS_Singleton
  <2>2. Cardinality({a} \cup {b}) = Cardinality({a}) + 1
    BY <1>1, <2>1, FS_AddElement
  <2>3. {a} \cup {b} = {a, b}
    OBVIOUS
  <2>4. QED
    BY <2>1, <2>2, <2>3
<1>4. Cardinality({a, b}) <= Cardinality(f.writers)
  BY <1>1, <1>2, FS_Subset, {a, b} \subseteq f.writers
<1>5. Cardinality(f.writers) \in Nat
  BY <1>2, FS_CardinalityType
<1>6. QED
  BY <1>3, <1>4, <1>5

-----------------------------------------------------------------------------
(* The files of the trade cache: what follows                              *)

\* A stored result that cannot be read comes of two processes writing it at
\* once: no process that dies, at any step of its store, leaves one.
THEOREM TornAlwaysByOverlap == RunnerSpec => []TornOnlyByOverlap
<1>1. Inv => TornOnlyByOverlap
  <2> SUFFICES ASSUME Inv, NEW f \in files, ~f.whole
               PROVE  Cardinality(f.writers) > 1
    BY DEF TornOnlyByOverlap
  <2>1. f.writers \subseteq Processes /\ Several(f)
    BY DEF Inv, EntryOK, TornIsShared
  <2>2. QED
    BY <2>1, SeveralIsMoreThanOne
<1>2. QED
  BY <1>1, InitInv, StepInv, PTL DEF RunnerSpec
=============================================================================
