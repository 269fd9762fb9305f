---------------------------- MODULE SmcDetectors ----------------------------
(***************************************************************************)
(* The detectors of src/smc: pure functions of a frame, a sequence of      *)
(* candles with the newest one last, in progress or closed.  Prices are    *)
(* counted in ticks; averages, which the code takes in floats, are         *)
(* compared by cross-multiplication; a strength is in hundredths.          *)
(***************************************************************************)
EXTENDS Integers, FiniteSets, FiniteSetsExt, SequencesExt

CONSTANTS
    EqualTolerance,      \* highs or lows this close are equal
    DisplacementLookback,\* 20 candles
    ZoneLookback,        \* 150 candles searched for zones
    AverageLookback,     \* 20 candles of an average before a candle
    BlockLookback,       \* 6 candles before an impulse
    SmtLookback,         \* 80 candles of a divergence
    FirstEvent,          \* 20, the candles structure_events passes over
    LevelBucket          \* ticks of a bucket of break levels

ASSUME SmcDetectorsAssumption ==
    /\ {DisplacementLookback, ZoneLookback, AverageLookback, BlockLookback} \subseteq Nat \ {0}
    /\ EqualTolerance \in Nat /\ SmtLookback \in Nat /\ FirstEvent \in Nat
    /\ LevelBucket \in Nat \ {0}

AtLeast(a, b) == IF a >= b THEN a ELSE b
AtMost(a, b)  == IF a <= b THEN a ELSE b
Distance(a, b) == IF a >= b THEN a - b ELSE b - a

\* Python's round of n / d: a half goes to the even neighbour.
Rounded(n, d) ==
    LET up == (2 * n + d) \div (2 * d) IN
    IF (2 * n + d) % (2 * d) = 0 /\ up % 2 = 1 THEN up - 1 ELSE up

Body(k)  == Distance(k.c, k.o)
Height(k) == k.h - k.l
LastCandles(f, n) == SubSeq(f, AtLeast(1, Len(f) - n + 1), Len(f))
SumOver(f, from, to, Op(_)) == MapThenSumSet(LAMBDA i : Op(f[i]), from .. to)

-----------------------------------------------------------------------------
(* structure.py *)

\* identify_swings: a pivot needs w candles on either side, so it is known w
\* candles later.
Pivotal(f, w) == IF Len(f) < 2 * w + 3 THEN {} ELSE w + 1 .. Len(f) - w
HighSwings(f, w) == { i \in Pivotal(f, w) : \A j \in i - w .. i + w : f[j].h <= f[i].h }
LowSwings(f, w)  == { i \in Pivotal(f, w) : \A j \in i - w .. i + w : f[j].l >= f[i].l }

LastTwo(S) == LET last == Max(S) IN <<Max(S \ {last}), last>>

Rising(f, S, Level(_))  == LET p == LastTwo(S) IN Level(f[p[2]]) > Level(f[p[1]])
Falling(f, S, Level(_)) == LET p == LastTwo(S) IN Level(f[p[2]]) < Level(f[p[1]])
High(k) == k.h
Low(k)  == k.l

InferTrend(f, highs, lows) ==
    IF Cardinality(highs) < 2 \/ Cardinality(lows) < 2 THEN "neutral"
    ELSE IF Rising(f, highs, High) /\ Rising(f, lows, Low) THEN "bullish"
    ELSE IF Falling(f, highs, High) /\ Falling(f, lows, Low) THEN "bearish"
    ELSE "neutral"

\* The break of the newest swing of the sets by the close of candle i.
BreakAt(f, i, highs, lows) ==
    IF highs = {} \/ lows = {} THEN "none"
    ELSE IF f[i].c > f[Max(highs)].h THEN "bullish"
    ELSE IF f[i].c < f[Max(lows)].l THEN "bearish"
    ELSE "none"

EventOf(direction, trend) ==
    CASE direction = "none" -> "none"
      [] trend \in {direction, "neutral"} -> "BOS"
      [] OTHER -> "CHoCH"

StateOf(trend, direction, highs, lows) ==
    [trend |-> trend, direction |-> direction, event |-> EventOf(direction, trend),
     highs |-> highs, lows |-> lows]

StructureOf(f, highs, lows) ==
    StateOf(InferTrend(f, highs, lows), BreakAt(f, Len(f), highs, lows), highs, lows)

DetectBosChoch(f, w) == StructureOf(f, HighSwings(f, w), LowSwings(f, w))

-----------------------------------------------------------------------------
(* liquidity.py *)

\* Twice the level of two equal last swings, if they are equal.
Equal(a, b) == IF Distance(a, b) <= EqualTolerance THEN <<a + b>> ELSE <<>>
EqualHigh(f, S) ==
    IF Cardinality(S) < 2 THEN <<>> ELSE Equal(f[LastTwo(S)[1]].h, f[LastTwo(S)[2]].h)
EqualLow(f, S) ==
    IF Cardinality(S) < 2 THEN <<>> ELSE Equal(f[LastTwo(S)[1]].l, f[LastTwo(S)[2]].l)

\* A sweep of equal lows is looked for last and wins.
SweepDirection(f, equalHigh, equalLow) ==
    LET k == f[Len(f)] IN
    IF equalLow # <<>> /\ 2 * k.l < equalLow[1] /\ 2 * k.c > equalLow[1] THEN "bullish"
    ELSE IF equalHigh # <<>> /\ 2 * k.h > equalHigh[1] /\ 2 * k.c < equalHigh[1] THEN "bearish"
    ELSE "none"

DisplacementDirection(f) ==
    LET n == Len(f)
        bodies == SumOver(f, n - DisplacementLookback, n - 1, Body)
        ranges == SumOver(f, n - DisplacementLookback, n - 1, Height)
    IN IF \/ n < DisplacementLookback + 2
          \/ bodies = 0 \/ ranges = 0
          \/ 10 * DisplacementLookback * Body(f[n]) < 18 * bodies
          \/ 10 * DisplacementLookback * Height(f[n]) < 15 * ranges
       THEN "none"
       ELSE IF f[n].c > f[n].o THEN "bullish" ELSE "bearish"

LiquidityOf(f, equalHigh, equalLow) ==
    [equalHighs |-> equalHigh # <<>>, equalLows |-> equalLow # <<>>,
     sweep |-> SweepDirection(f, equalHigh, equalLow),
     displacement |-> DisplacementDirection(f)]

AnalyzeLiquidity(f, w) ==
    LiquidityOf(f, EqualHigh(f, HighSwings(f, w)), EqualLow(f, LowSwings(f, w)))

-----------------------------------------------------------------------------
(* trigger.py *)

Points(condition, n) == IF condition THEN n ELSE 0

TriggerDirection(structure, liquidity) ==
    IF structure.direction # "none" THEN structure.direction
    ELSE IF liquidity.displacement # "none" THEN liquidity.displacement
    ELSE IF liquidity.sweep # "none" THEN liquidity.sweep
    ELSE "neutral"

TriggerOf(s, q, d) ==
    [direction |-> d, event |-> s.event, liquidity |-> q,
     strength |-> AtMost(20,
           Points(d # "neutral", 4) + Points(s.event # "none", 5)
         + Points(s.direction = d, 3) + Points(q.displacement # "none", 6)
         + Points(q.sweep # "none", 4) + Points(q.equalHighs \/ q.equalLows, 1)
         + Points(q.displacement = d, 2) + Points(q.sweep = d, 2))]

Directed(s, q) == TriggerOf(s, q, TriggerDirection(s, q))

AnalyzeTrigger(f, w) == Directed(DetectBosChoch(f, w), AnalyzeLiquidity(f, w))

-----------------------------------------------------------------------------
(* zones.py, fvg.py, order_block.py *)

Touches(f, z) == { i \in z.created + 1 .. Len(f) : f[i].l <= z.upper /\ f[i].h >= z.lower }

\* How deep a candle reaches into a zone from the side it is entered at, in
\* ticks, at most its width.
Depth(z, k) ==
    IF z.direction = "bullish" THEN AtMost(z.upper - z.lower, AtLeast(0, z.upper - k.l))
                               ELSE AtMost(z.upper - z.lower, AtLeast(0, k.h - z.lower))

Lifecycle(f, z) ==
    LET touched == Touches(f, z)
        deepest == Max({0} \cup { Depth(z, f[i]) : i \in touched })
    IN z @@ [touches |-> Cardinality(touched), deepest |-> deepest,
             invalidated |-> touched # {} /\ deepest >= z.upper - z.lower,
             lastTouch |-> Max({0} \cup touched)]

AverageFrom(i) == AtLeast(1, i - AverageLookback)

\* The gap around candle m, once the candle after it is there.
Gap(f, m) ==
    CASE f[m + 1].l > f[m - 1].h /\ f[m].c >= f[m].o ->
             <<[direction |-> "bullish", lower |-> f[m - 1].h, upper |-> f[m + 1].l]>>
      [] f[m + 1].h < f[m - 1].l /\ f[m].c <= f[m].o ->
             <<[direction |-> "bearish", lower |-> f[m + 1].h, upper |-> f[m - 1].l]>>
      [] OTHER -> <<>>

\* Variant: the gap is dated by its middle candle.
MiddleOf(m) == m

CompletedBy(m) == m + 1

FvgAt(f, m) ==
    LET gap == Gap(f, m)
        n == m - AverageFrom(m)
        ranges == SumOver(f, AverageFrom(m), m - 1, Height)
        size == gap[1].upper - gap[1].lower
    IN IF \/ gap = <<>> \/ ranges = 0
          \/ 100 * n * size < 15 * ranges
          \/ 100 * n * Body(f[m]) < 35 * ranges
       THEN {}
       ELSE { gap[1] @@ [kind |-> "fvg", created |-> CompletedBy(m), source |-> m,
                         strength |-> AtMost(100, (n * (70 * size + 30 * Body(f[m]))) \div ranges)] }

DetectFvgZones(f) ==
    { Lifecycle(f, z) : z \in UNION { FvgAt(f, m) : m \in AtLeast(2, Len(f) - ZoneLookback) .. Len(f) - 1 } }

\* The last candle against the impulse, at most BlockLookback before it.
BlockCandles(f, i) ==
    { b \in AtLeast(1, i - BlockLookback) .. i - 1 :
        IF f[i].c >= f[i].o THEN f[b].c < f[b].o ELSE f[b].c > f[b].o }

OrderBlockAt(f, i) ==
    LET n == i - AverageFrom(i)
        bodies == SumOver(f, AverageFrom(i), i - 1, Body)
        ranges == SumOver(f, AverageFrom(i), i - 1, Height)
        strength == AtMost(100, (20 * n * Body(f[i])) \div bodies
                              + (40 * n * Height(f[i])) \div (3 * ranges))
        b == Max(BlockCandles(f, i))
    IN IF \/ bodies = 0 \/ ranges = 0
          \/ 10 * n * Body(f[i]) < 16 * bodies
          \/ 10 * n * Height(f[i]) < 14 * ranges
          \/ BlockCandles(f, i) = {}
          \/ strength < 35
       THEN {}
       ELSE { [kind |-> "order_block", created |-> i, source |-> b, strength |-> strength]
              @@ IF f[i].c >= f[i].o
                 THEN [direction |-> "bullish", lower |-> f[b].l, upper |-> f[b].o]
                 ELSE [direction |-> "bearish", lower |-> f[b].o, upper |-> f[b].h] }

DetectOrderBlocks(f) ==
    { Lifecycle(f, z) : z \in UNION { OrderBlockAt(f, i) : i \in AtLeast(2, Len(f) - ZoneLookback + 1) .. Len(f) } }

\* latest_fvg and latest_order_block: the zone created last.
Latest(zones, direction) ==
    LET those == { z \in zones : z.direction = direction }
        newest == { z \in those : \A y \in those : y.created <= z.created }
    IN SetToSeq(newest)

-----------------------------------------------------------------------------
(* mitigation.py: the reaction of the last candle that touched the zone *)

ReactionStrength(z, k) ==
    LET width == z.upper - z.lower
        beyond == IF z.direction = "bullish" THEN k.c - z.upper ELSE z.lower - k.c
        position == beyond + width
    IN IF beyond >= 0 THEN AtMost(100, 70 + (25 * beyond) \div width)
       ELSE IF 2 * position >= width THEN 50 + (25 * position) \div width
       ELSE 35 + (15 * AtLeast(0, position)) \div width

EvaluateMitigation(f, z) ==
    IF z.touches = 0 THEN [touched |-> FALSE]
    ELSE LET k == f[z.lastTouch]
             strength == ReactionStrength(z, k)
         IN [touched |-> TRUE, strength |-> strength,
             direction |-> IF strength >= 50 THEN z.direction ELSE "neutral",
             mitigated |-> IF z.direction = "bullish" THEN k.c >= z.upper ELSE k.c <= z.lower,
             depth |-> (100 * Depth(z, k)) \div (z.upper - z.lower)]

-----------------------------------------------------------------------------
(* smt.py *)

\* The two greatest values of a column in the order of the frame.
ExtremePair(f, Better(_, _)) ==
    LET first == Min({ i \in DOMAIN f : \A j \in DOMAIN f : ~Better(f[j], f[i]) })
        rest  == DOMAIN f \ {first}
        second == Min({ i \in rest : \A j \in rest : ~Better(f[j], f[i]) })
    IN <<AtMost(first, second), AtLeast(first, second)>>

HigherThan(a, b) == a.h > b.h
LowerThan(a, b) == a.l < b.l

SwingPair(f, S, Better(_, _)) ==
    IF Cardinality(S) >= 2 THEN LastTwo(S) ELSE ExtremePair(f, Better)

\* Of two frames of n candles: the target makes a new extreme, the reference none.
Divergence(t, r, n, th, rh, tl, rl) ==
    LET scale == AtLeast(SumOver(t, 1, n, Height), SumOver(r, 1, n, Height))
        Strength(move, resilience) ==
            AtMost(100, 55 + ((35 * move + 20 * resilience) * n) \div AtLeast(1, scale))
    IN IF t[th[2]].h > t[th[1]].h /\ r[rh[2]].h <= r[rh[1]].h THEN
           <<[direction |-> "bearish",
              strength |-> Strength(t[th[2]].h - t[th[1]].h, r[rh[1]].h - r[rh[2]].h)]>>
       ELSE IF t[tl[2]].l < t[tl[1]].l /\ r[rl[2]].l >= r[rl[1]].l THEN
           <<[direction |-> "bullish",
              strength |-> Strength(t[tl[1]].l - t[tl[2]].l, r[rl[2]].l - r[rl[1]].l)]>>
       ELSE <<>>

SmtOf(t, r, w) ==
    IF Len(t) < 2 THEN <<>>
    ELSE Divergence(t, r, Len(t),
                    SwingPair(t, HighSwings(t, w), HigherThan), SwingPair(r, HighSwings(r, w), HigherThan),
                    SwingPair(t, LowSwings(t, w), LowerThan), SwingPair(r, LowSwings(r, w), LowerThan))

DetectSmt(target, reference, w) ==
    LET n == AtMost(SmtLookback, AtMost(Len(target), Len(reference)))
    IN SmtOf(LastCandles(target, n), LastCandles(reference, n), w)

-----------------------------------------------------------------------------
(* structure_quality.py: the breaks of the frame's past, each found with the
   swings up to its candle, those among them that were not yet confirmed then
   included *)

Before(S, i) == { p \in S : p <= i }

BucketOf(level) == Rounded(level, LevelBucket)

StructureEventAt(f, w, i) ==
    LET highs == Before(HighSwings(f, w), i)
        lows  == Before(LowSwings(f, w), i)
        direction == BreakAt(f, i, highs, lows)
        level == IF direction = "bullish" THEN f[Max(highs)].h ELSE f[Max(lows)].l
    IN IF direction = "none" THEN {}
       ELSE { [index |-> i, direction |-> direction, bucket |-> BucketOf(level),
               event |-> EventOf(direction, InferTrend(f, highs, lows))] }

StructureEvents(f, w) ==
    IF Len(f) < 2 * FirstEvent THEN {}
    ELSE UNION { StructureEventAt(f, w, i) : i \in FirstEvent + 1 .. Len(f) }

\* The newest swing on a side, if the frame has swings on both.
SideLevel(f, structure, direction) ==
    IF structure.highs = {} \/ structure.lows = {} THEN <<>>
    ELSE IF direction = "bullish" THEN <<f[Max(structure.highs)].h>>
    ELSE <<f[Max(structure.lows)].l>>

\* Whether the frame broke that level, by that kind of event, twice.
DuplicateLevel(f, w, structure, direction) ==
    LET level == SideLevel(f, structure, direction)
        Same(e) == /\ e.event = structure.event
                   /\ e.direction = direction
                   /\ e.bucket = BucketOf(level[1])
    IN /\ level # <<>>
       /\ Cardinality({ e \in StructureEvents(f, w) : Same(e) }) >= 2

\* evaluate_structure_quality without the settings of the bonus; minBreak in ticks.
ScoreOfStructure(f, w, s, direction, minBreak) ==
    LET level == SideLevel(f, s, direction)
        distance == IF level = <<>> THEN 0 ELSE Distance(f[Len(f)].c, level[1])
    IN   Points(s.event # "none" /\ s.direction = direction, 25)
       + (IF distance >= 3 * minBreak THEN 35 ELSE (35 * distance) \div (3 * minBreak))
       + Points(~DuplicateLevel(f, w, s, direction), 30)
       + Points(s.trend \in {direction, "neutral"}, 10)

StructureScore(f, w, direction, minBreak) ==
    ScoreOfStructure(f, w, DetectBosChoch(f, w), direction, minBreak)

BonusOf(score, minScore, maxBonus) ==
    IF score < minScore THEN 0
    ELSE AtMost(maxBonus, Rounded(maxBonus * (score - minScore), 100 - minScore))
=============================================================================
