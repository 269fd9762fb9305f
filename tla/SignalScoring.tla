--------------------------- MODULE SignalScoring ----------------------------
(***************************************************************************)
(* core/scoring.py, core/shadow.py, core/adaptive_weights.py, smc/regime.py*)
(* and smc/mtf.py: what the scan makes of the detectors.  A component of   *)
(* the score is a whole number of points; ratios the code keeps in floats  *)
(* are in hundredths.  Prices are in ticks.                                *)
(***************************************************************************)
EXTENDS SmcDetectors

CONSTANTS
    SessionPoints(_),   \* score_session_timing: points of an hour, by market
    AdaptiveWeights     \* <<>>, or <<[label -> [component -> capacity]]>>

DirectionOf(side) == IF side = "BUY" THEN "bullish" ELSE "bearish"
Aligned(side, direction) == direction = DirectionOf(side)

-----------------------------------------------------------------------------
(* regime.py and mtf.py, on the statistics of the higher timeframe *)

RegimeLabel(stats) ==
    IF stats.vol >= 115 /\ stats.trend >= 20 THEN "expansion"
    ELSE IF stats.trend >= 28 THEN "trend"
    ELSE IF stats.vol <= 85 /\ stats.trend <= 15 THEN "contraction"
    ELSE "range"

AnalyzeRegime(stats) ==
    [label |-> RegimeLabel(stats), direction |-> stats.drift,
     confidence |-> AtMost(100, 25 + AtMost(stats.trend \div 2, 50)
                                   + AtMost(Distance(stats.vol, 100), 100) \div 4)]

IsDirectional(regime) ==
    regime.label \in {"trend", "expansion"} /\ regime.direction \in {"bullish", "bearish"}

PremiumDiscount(stats, price) ==
    LET twice == stats.low + stats.high IN
    IF 2 * price < twice THEN "discount" ELSE IF 2 * price > twice THEN "premium" ELSE "equilibrium"

-----------------------------------------------------------------------------
(* shadow.py *)

ProximityPoints(price, z) ==
    LET off == Distance(2 * price, z.upper + z.lower)
        width == z.upper - z.lower
    IN IF off <= width THEN 4 ELSE IF off <= 2 * width THEN 1 ELSE 0

ZoneProximityScore(price, z) ==
    IF z.invalidated THEN 0
    ELSE AtLeast(0, AtMost(7,
             ProximityPoints(price, z) + AtMost(2, Rounded(2 * z.strength, 100))
           + Points(z.touches = 0, 2) - Points(z.touches >= 2, 1)
           - Points(4 * z.deepest >= 3 * (z.upper - z.lower), 1)))

MitigationScore(side, m) ==
    IF ~m.touched THEN 0
    ELSE IF ~Aligned(side, m.direction) THEN Points(m.direction = "neutral" /\ m.mitigated, 1)
    ELSE AtMost(6, 2 + (IF m.strength >= 80 THEN 2 ELSE Points(m.strength >= 60, 1))
                     + Points(m.mitigated, 1) + Points(m.depth <= 45, 1)
                     + Points(m.depth <= 25 /\ ~m.mitigated, 1))

NoCandidate == [zone |-> <<>>, mitigation |-> [touched |-> FALSE], points |-> 0]

CandidateOf(side, price, z, m) ==
    [zone |-> <<z>>, mitigation |-> m,
     points |-> IF z.invalidated THEN 0 ELSE ZoneProximityScore(price, z) + MitigationScore(side, m)]

SelectZoneCandidate(side, price, f, found) ==
    IF found = <<>> THEN NoCandidate
    ELSE CandidateOf(side, price, found[1], EvaluateMitigation(f, found[1]))

\* More points, then the stronger zone, then the one touched less often.
Better(a, b) ==
    \/ a.points > b.points
    \/ /\ a.points = b.points
       /\ LET Strength(x) == IF x.zone = <<>> THEN -1 ELSE x.zone[1].strength
              Touched(x)  == IF x.zone = <<>> THEN 999 ELSE x.zone[1].touches
          IN \/ Strength(a) > Strength(b)
             \/ Strength(a) = Strength(b) /\ Touched(a) <= Touched(b)

PickBestCandidate(first, second) == IF Better(first, second) THEN first ELSE second

OfKind(side, price, ltf, trigger, Detect(_)) ==
    LET In(f) == SelectZoneCandidate(side, price, f, Latest(Detect(f), DirectionOf(side)))
    IN PickBestCandidate(In(ltf), In(trigger))

SmtPoints(side, smt) ==
    IF smt = <<>> \/ ~Aligned(side, smt[1].direction) THEN 0
    ELSE AtMost(8, 4 + Rounded(smt[1].strength, 20))

ShadowOf(fvg, block, smt) ==
    [fvg |-> fvg, block |-> block, entry |-> PickBestCandidate(fvg, block), smt |-> smt]

AnalyzeShadow(side, price, ltf, trigger, reference, w, withBlocks) ==
    ShadowOf(OfKind(side, price, ltf, trigger, DetectFvgZones),
             IF withBlocks THEN OfKind(side, price, ltf, trigger, DetectOrderBlocks) ELSE NoCandidate,
             IF reference = <<>> THEN <<>> ELSE DetectSmt(trigger, reference[1], w))

-----------------------------------------------------------------------------
(* scoring.py *)

HtfPoints(side, bias) ==
    IF Aligned(side, bias) THEN 20 ELSE Points(bias = "neutral", 10)

RegimeBase ==
    [aligned |-> [trend |-> 15, expansion |-> 13, range |-> 9, contraction |-> 6],
     neutral |-> [trend |-> 8, expansion |-> 7, range |-> 6, contraction |-> 5],
     opposed |-> [trend |-> 0, expansion |-> 2, range |-> 4, contraction |-> 3]]

RegimePoints(side, regime) ==
    LET stance == IF Aligned(side, regime.direction) THEN "aligned"
                  ELSE IF regime.direction = "neutral" THEN "neutral" ELSE "opposed"
    IN AtMost(15, RegimeBase[stance][regime.label] + Rounded(2 * regime.confidence, 100))

TriggerPoints(side, trigger) ==
    IF Aligned(side, trigger.direction) THEN AtMost(15, 7 + trigger.strength)
    ELSE IF trigger.direction # "neutral" THEN 0
    ELSE AtMost(15, 3 + AtMost(4, trigger.strength \div 4) + Points(trigger.event # "none", 2)
                      + Points(trigger.liquidity.sweep # "none" \/ trigger.liquidity.displacement # "none", 2))

LiquidityPoints(side, q) ==
    LET Graded(d, with, against) == IF Aligned(side, d) THEN with ELSE Points(d # "none", against)
    IN AtMost(20, Graded(q.sweep, 8, 3) + Graded(q.displacement, 10, 4)
                + Points(q.equalHighs \/ q.equalLows, 2))

ZonePoints(side, zone) ==
    IF zone = (IF side = "BUY" THEN "discount" ELSE "premium") THEN 15
    ELSE Points(zone = "equilibrium", 8)

OfZone(price, candidate) ==
    IF candidate.zone = <<>> THEN 0 ELSE ZoneProximityScore(price, candidate.zone[1])

ShadowComponents == {"fvg", "ob", "mitigation", "smt"}

\* The components of calculate_score_details; shadow is <<>> when it is off.
RawComponents(side, price, stats, regime, liquidity, trigger, news, hour, shadow) ==
    [htf |-> HtfPoints(side, stats.bias), regime |-> RegimePoints(side, regime),
     trigger |-> TriggerPoints(side, trigger), liquidity |-> LiquidityPoints(side, liquidity),
     pd |-> ZonePoints(side, PremiumDiscount(stats, price)),
     session |-> SessionPoints(hour), news |-> AtLeast(0, AtMost(5, news.score \div 3)),
     fvg |-> IF shadow = <<>> THEN 0 ELSE OfZone(price, shadow[1].fvg),
     ob |-> IF shadow = <<>> THEN 0 ELSE OfZone(price, shadow[1].block),
     mitigation |-> IF shadow = <<>> THEN 0
                    ELSE AtLeast(MitigationScore(side, shadow[1].fvg.mitigation),
                                 MitigationScore(side, shadow[1].block.mitigation)),
     smt |-> IF shadow = <<>> THEN 0 ELSE SmtPoints(side, shadow[1].smt)]

SumOf(components, S) == MapThenSumSet(LAMBDA k : components[k], S)

FeatureMax ==
    [htf |-> 20, regime |-> 15, trigger |-> 15, liquidity |-> 20, pd |-> 15, session |-> 12,
     news |-> 5, fvg |-> 7, ob |-> 7, mitigation |-> 6, smt |-> 8]

\* apply_regime_weights: each component as a share of its capacity.
Weighted(components, label) ==
    [k \in DOMAIN FeatureMax |->
        Rounded(AtMost(components[k], FeatureMax[k]) * AdaptiveWeights[1][label][k], FeatureMax[k])]

\* The components that calculate_score_details returns.
Scored(components, label) ==
    IF AdaptiveWeights = <<>> THEN components ELSE Weighted(components, label)

\* The total without weights takes the shadow components as one of at most 30.
ScoreTotal(scored, bonus) ==
    LET plain == DOMAIN FeatureMax \ ShadowComponents IN
    IF AdaptiveWeights = <<>>
    THEN AtMost(100, SumOf(scored, plain) + AtMost(30, SumOf(scored, ShadowComponents)) + AtMost(20, bonus))
    ELSE AtMost(100, AtMost(100, SumOf(scored, DOMAIN FeatureMax)) + AtMost(20, bonus))
=============================================================================
