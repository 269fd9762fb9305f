-------------------------- MODULE SignalEvaluation --------------------------
(***************************************************************************)
(* evaluate_snapshot of core/signal_engine.py for one pair: the market     *)
(* goes on candle by candle and tick by tick, the engine fetches frames of *)
(* two timeframes, the slower one perhaps from a cache, and takes a        *)
(* decision through the gates, the score, its threshold and the plan of    *)
(* an entry.  The score normaliser and the tracker of the threshold carry  *)
(* state from one evaluation to the next.                                  *)
(*                                                                         *)
(* Prices of a plan are in Scale-ths of a tick, ratios in hundredths.      *)
(***************************************************************************)
EXTENDS SignalScoring

CONSTANTS
    Histories,     \* frames of the trigger timeframe to start from
    Settings,      \* the settings, the overrides of the pair applied
    Views,         \* the rest of what an evaluation reads: higher timeframe,
                   \* news, hour, age of the newest candle, reference frame
    Gaps, Ticks,   \* moves of the price between and within candles
    Ratio,         \* trigger candles in a candle of the lower timeframe
    CacheTtl,      \* moves of the market for which a fetched frame is served
    SwingWindow, TriggerWindow, QualityWindow, SmtWindow,
    RequiredLtf, RequiredTrigger,   \* 80 and 40 candles
    StopLookback,  \* 25 candles of the stop of a market entry
    MinBuffer,     \* least buffer of a stop, in Scale-ths of a tick
    HistorySize,   \* scores kept by the normaliser and by the tracker
    MinSamples,    \* 5 scores before a threshold is recommended
    MaxCandles, MaxMoves, MaxScans  \* bounds

Scale == 4000

ASSUME SignalEvaluationAssumption ==
    /\ Ratio \in Nat \ {0} /\ HistorySize \in Nat \ {0} /\ MinSamples \in Nat \ {0}
    /\ MinBuffer \in Nat /\ MinBuffer % 100 = 0
    /\ {MaxCandles, MaxMoves, MaxScans, CacheTtl} \subseteq Nat

VARIABLES
    settings,   \* of the engine
    market,     \* the trigger frame, its last candle in progress
    ltf,        \* the frame of the lower timeframe last fetched
    ltfAge,     \* moves of the market since
    normal,     \* _score_normalizer._history
    observed,   \* _dynamic_threshold_tracker._history
    outcome,    \* the evaluation of this moment, <<>> before it
    moves, scans

vars == <<settings, market, ltf, ltfAge, normal, observed, outcome, moves, scans>>

-----------------------------------------------------------------------------
(* Frames *)

\* The lower timeframe: candles of Ratio trigger candles, the last in progress.
Group(f, i) ==
    LET from == (i - 1) * Ratio + 1
        to   == AtMost(Len(f), i * Ratio)
    IN [o |-> f[from].o, c |-> f[to].c,
        h |-> Max({ f[j].h : j \in from .. to }), l |-> Min({ f[j].l : j \in from .. to })]

Aggregate(f) == [i \in 1 .. (Len(f) + Ratio - 1) \div Ratio |-> Group(f, i)]

LastPrice(f) == f[Len(f)].c

-----------------------------------------------------------------------------
(* Gates *)

\* _check_live_data_freshness: the age is that of the trigger frame alone.
IsFresh(v) == v.age >= -60 /\ v.age <= settings.maxAge

HourInWindow(hour, w) ==
    IF w[1] < w[2] THEN w[1] <= hour /\ hour < w[2] ELSE hour >= w[1] \/ hour < w[2]
SessionOpen(v) == settings.windows = {} \/ \E w \in settings.windows : HourInWindow(v.hour, w)

\* _resolve_side: the side and where it comes from.
SideOf(direction) == IF direction = "bullish" THEN "BUY" ELSE IF direction = "bearish" THEN "SELL" ELSE "none"

ResolveSide(structure, trigger, regime, bias) ==
    IF SideOf(trigger.direction) # "none" THEN [side |-> SideOf(trigger.direction), source |-> "trigger"]
    ELSE IF SideOf(structure.direction) # "none" THEN [side |-> SideOf(structure.direction), source |-> "structure"]
    ELSE IF IsDirectional(regime) THEN [side |-> SideOf(regime.direction), source |-> "regime"]
    ELSE [side |-> SideOf(bias), source |-> "htf"]

DirectionGateOpen(x) ==
    \/ ~settings.strictGate
    \/ x.source \in {"trigger", "structure"}
    \/ DirectionOf(x.side) \in {x.trigger.direction, x.structure.direction,
                                x.liquidity.sweep, x.liquidity.displacement}

RegimeFilterOpen(x) ==
    /\ ~ /\ x.regime.direction \in {"bullish", "bearish"} \ {DirectionOf(x.side)}
         /\ x.regime.confidence >= settings.opposition
    /\ x.regime.label = "contraction" =>
          /\ settings.contractionDisplacement => x.liquidity.displacement # "none"
          /\ x.trigger.strength >= settings.contractionStrength
    /\ x.regime.label = "range" =>
          x.trigger.strength >= settings.rangeStrength \/ x.liquidity.sweep # "none"

\* _check_smt_filter
SmtFilterOpen(v, x) ==
    LET hard == settings.smtHard /\ IsDirectional(x.regime)
        smt == x.shadow[1].smt
    IN IF ~settings.smt \/ x.shadow = <<>> \/ v.reference = <<>> THEN TRUE
       ELSE IF smt = <<>> THEN ~hard
       ELSE IF Aligned(x.side, smt[1].direction) THEN hard => smt[1].strength >= settings.smtMin
       ELSE ~hard /\ smt[1].strength < settings.smtOpposite

-----------------------------------------------------------------------------
(* Score and threshold *)

\* _trigger_for_scoring: the quality of the structure replaces its points.
ScoringTrigger(trigger) ==
    IF settings.quality.enabled /\ settings.quality.replaces /\ trigger.event # "none"
    THEN [trigger EXCEPT !.event = "none", !.strength = AtLeast(0, @ - 8)]
    ELSE trigger

QualityBonus(frame, x) ==
    LET q == settings.quality IN
    IF ~q.enabled \/ x.regime.label \notin q.bonusRegimes THEN 0
    ELSE BonusOf(StructureScore(frame, QualityWindow, DirectionOf(x.side), q.minBreak),
                 q.minScore, q.maxBonus)

ComponentsOf(v, x) ==
    Scored(RawComponents(x.side, x.price, v.stats, x.regime, x.liquidity,
                         ScoringTrigger(x.trigger), v.news, v.hour, x.shadow),
           x.regime.label)

Clamped(n) == AtLeast(0, AtMost(100, n))

\* ScoreNormalizer.transform by "minmax" and "scale".
Normalized(raw) ==
    LET low == Min(ToSet(normal))
        high == Max(ToSet(normal))
    IN CASE settings.normalise = "minmax" ->
              IF Len(normal) < 2 \/ high <= low THEN raw
              ELSE Clamped(Rounded(AtLeast(0, 100 * (raw - low)), high - low))
         [] settings.normalise = "scale" -> Clamped(Rounded(raw * settings.scaleFactor, 100))
         [] OTHER -> raw

Remember(history, score) == LastCandles(Append(history, score), HistorySize)

\* DynamicThresholdTracker.recommended_threshold
Recommended ==
    IF ~settings.threshold.active \/ Len(observed) < MinSamples THEN <<>>
    ELSE LET sorted == SortSeq(observed, LAMBDA a, b : a < b)
             position == settings.threshold.percentile * (Len(sorted) - 1)
             low  == sorted[position \div 100 + 1]
             high == sorted[AtMost(position \div 100 + 2, Len(sorted))]
         IN <<Rounded(100 * low + (high - low) * (position % 100), 100)>>

ThresholdUsed ==
    IF settings.threshold.apply /\ Recommended # <<>> THEN Recommended[1] ELSE settings.minScore

-----------------------------------------------------------------------------
(* Entry *)

\* live_profile.py: the target in hundredths of the risk and the first partial.
ProfileRr == [trend |-> 240, expansion |-> 340, range |-> 135, contraction |-> 135]
ProfilePartial == [trend |-> 100, expansion |-> 120, range |-> 80, contraction |-> 80]

TargetRr(v, label) ==
    IF ~settings.profile.enabled THEN AtLeast(10, settings.riskReward)
    ELSE IF ~settings.profile.byVolatility THEN ProfileRr[label]
    ELSE AtLeast(10, (ProfileRr[label] * AtLeast(85, AtMost(125, v.volatility))) \div 100)

PartialR(label) ==
    IF settings.profile.enabled THEN ProfilePartial[label] ELSE settings.partialR

MarketFallbackAllowed(x) ==
    /\ settings.fallback.allow
    /\ x.trigger.strength >= settings.fallback.minStrength
    /\ settings.fallback.displacement =>
          DirectionOf(x.side) \in {x.trigger.liquidity.displacement, x.liquidity.displacement}

Toward(side) == IF side = "BUY" THEN 1 ELSE -1

\* A plan with a stop on the right side of its entry, or none.
Plan(mode, side, entry, stop, rr) ==
    LET risk == Toward(side) * (entry - stop) IN
    IF risk <= 0 THEN <<>>
    ELSE <<[mode |-> mode, entry |-> entry, stop |-> stop,
            target |-> entry + Toward(side) * ((risk \div 100) * rr)]>>

MitigationPlan(side, candidate, rr) ==
    LET z == candidate.zone[1]
        m == candidate.mitigation
        buffer == AtLeast(MinBuffer, (Scale \div 20) * (z.upper - z.lower))
    IN IF \/ candidate.zone = <<>> \/ ~Aligned(side, z.direction)
          \/ z.invalidated \/ ~m.touched \/ ~Aligned(side, m.direction)
          \/ candidate.points < 5 \/ m.strength < 55
       THEN <<>>
       ELSE Plan("MITIGATION_LIMIT", side, (Scale \div 2) * (z.lower + z.upper),
                 IF side = "BUY" THEN Scale * z.lower - buffer ELSE Scale * z.upper + buffer, rr)

MarketPlan(side, price, frame, rr) ==
    LET scoped == ToSet(LastCandles(frame, StopLookback)) IN
    Plan("MARKET", side, Scale * price,
         IF side = "BUY" THEN Scale * Min({ k.l : k \in scoped }) - MinBuffer
                         ELSE Scale * Max({ k.h : k \in scoped }) + MinBuffer, rr)

BuildEntryPlan(v, frame, x) ==
    LET rr == TargetRr(v, x.regime.label)
        limit == IF settings.mitigationEntry /\ x.shadow # <<>>
                 THEN MitigationPlan(x.side, x.shadow[1].entry, rr) ELSE <<>>
    IN IF limit # <<>> THEN limit
       ELSE IF MarketFallbackAllowed(x) THEN MarketPlan(x.side, x.price, frame, rr) ELSE <<>>

\* build_trade_management_plan: a partial target this side of the target.
PartialTarget(side, plan, label) ==
    LET price == plan.entry + (PartialR(label) * (plan.entry - plan.stop)) \div 100 IN
    IF PartialR(label) > 0 /\ Toward(side) * (plan.target - price) > 0 THEN <<price>> ELSE <<>>

-----------------------------------------------------------------------------
(* evaluate_snapshot *)

ContextOf(v, f, structure, liquidity, regime, trigger) ==
    [structure |-> structure, liquidity |-> liquidity, regime |-> regime, trigger |-> trigger,
     price |-> LastPrice(f)] @@ ResolveSide(structure, trigger, regime, v.stats.bias)

Context(v, frame, f) ==
    ContextOf(v, f, DetectBosChoch(frame, SwingWindow), AnalyzeLiquidity(frame, SwingWindow),
              AnalyzeRegime(v.stats), AnalyzeTrigger(f, TriggerWindow))

WithShadow(v, frame, f, x) ==
    x @@ [shadow |-> IF ~settings.shadow THEN <<>>
                     ELSE <<AnalyzeShadow(x.side, x.price, frame, f,
                                          IF settings.smt THEN v.reference ELSE <<>>,
                                          SmtWindow, settings.blocks)>>]

\* The gates before the score, in their order.
StageOfData(v, frame, f, x) ==
    IF Len(frame) < RequiredLtf \/ Len(f) < RequiredTrigger THEN "history"
    ELSE IF ~IsFresh(v) THEN "data_freshness"
    ELSE IF ~SessionOpen(v) THEN "session_gate"
    ELSE IF x.regime.label \in settings.blockedRegimes THEN "regime_gate"
    ELSE "passed"

StageOfDirection(v, x) ==
    IF x.side = "none" THEN "direction"
    ELSE IF ~DirectionGateOpen(x) THEN "direction_gate"
    ELSE IF ~RegimeFilterOpen(x) THEN "regime"
    ELSE IF ~v.news.allow THEN "news"
    ELSE "scored"

StageBeforeScore(v, frame, f, x) ==
    IF StageOfData(v, frame, f, x) # "passed" THEN StageOfData(v, frame, f, x) ELSE StageOfDirection(v, x)

\* The gates after it.
StageAfterScore(v, x, components, score, plan) ==
    IF score < ThresholdUsed THEN "scoring"
    ELSE IF ~SmtFilterOpen(v, x) THEN "smt"
    ELSE IF settings.sessionMin > 0 /\ components.session < settings.sessionMin THEN "session"
    ELSE IF plan = <<>> THEN "entry"
    ELSE "accepted"

Unscored(stage) ==
    [stage |-> stage, side |-> "none", raw |-> <<>>, score |-> <<>>, plan |-> <<>>, partial |-> <<>>]

Decided(x, raw, score, plan, stage) ==
    [stage |-> stage, side |-> x.side, raw |-> <<raw>>, score |-> <<score>>,
     plan |-> IF stage = "accepted" THEN plan ELSE <<>>,
     partial |-> IF stage = "accepted" THEN PartialTarget(x.side, plan[1], x.regime.label) ELSE <<>>]

Judged(v, x, components, raw, score, plan) ==
    Decided(x, raw, score, plan, StageAfterScore(v, x, components, score, plan))

WithScore(v, frame, x, components, raw) ==
    Judged(v, x, components, raw, Normalized(raw), BuildEntryPlan(v, frame, x))

WithComponents(v, frame, x, components) ==
    WithScore(v, frame, x, components, ScoreTotal(components, QualityBonus(frame, x)))

WithFeatures(v, frame, x) == WithComponents(v, frame, x, ComponentsOf(v, x))

Gated(v, frame, f, x, stage) ==
    IF stage # "scored" THEN Unscored(stage) ELSE WithFeatures(v, frame, WithShadow(v, frame, f, x))

InContext(v, frame, f, x) == Gated(v, frame, f, x, StageBeforeScore(v, frame, f, x))

EvaluateSnapshot(v, frame, f) == InContext(v, frame, f, Context(v, frame, f))

-----------------------------------------------------------------------------
Init ==
    /\ settings \in Settings
    /\ market \in Histories
    /\ ltf = Aggregate(market) /\ ltfAge = 0
    /\ normal = <<>> /\ observed = <<>>
    /\ outcome = <<>> /\ moves = 0 /\ scans = 0

\* The frames already fetched grow older and the last decision is of the past.
MarketMoves ==
    /\ moves < MaxMoves
    /\ moves' = moves + 1
    /\ ltfAge' = AtMost(CacheTtl + 1, ltfAge + 1)
    /\ outcome' = <<>>
    /\ UNCHANGED <<settings, ltf, normal, observed, scans>>

OpenCandle(gap) ==
    /\ Len(market) < MaxCandles
    /\ LET p == LastPrice(market) + gap IN
       market' = Append(market, [o |-> p, h |-> p, l |-> p, c |-> p])
    /\ MarketMoves

Tick(d) ==
    /\ LET p == LastPrice(market) + d
           k == market[Len(market)]
       IN market' = [market EXCEPT ![Len(market)] =
                       [k EXCEPT !.h = AtLeast(@, p), !.l = AtMost(@, p), !.c = p]]
    /\ MarketMoves

\* The lower timeframe is fetched anew, or served from the cache in its time.
Evaluate(v, refresh) ==
    /\ scans < MaxScans
    /\ refresh \/ ltfAge \in 1 .. CacheTtl
    /\ ltf' = IF refresh THEN Aggregate(market) ELSE ltf
    /\ ltfAge' = IF refresh THEN 0 ELSE ltfAge
    /\ \E e \in {EvaluateSnapshot(v, ltf', market)} :
          /\ outcome' = <<e>>
          /\ normal' = IF e.raw # <<>> /\ settings.normalise # "none"
                       THEN Remember(normal, e.raw[1]) ELSE normal
          /\ observed' = IF e.score # <<>> /\ settings.threshold.active
                         THEN Remember(observed, e.score[1]) ELSE observed
    /\ scans' = scans + 1
    /\ UNCHANGED <<settings, market, moves>>

Next ==
    \/ \E gap \in Gaps : OpenCandle(gap)
    \/ \E d \in Ticks : Tick(d)
    \/ \E v \in Views, refresh \in BOOLEAN : Evaluate(v, refresh)

Spec == Init /\ [][Next]_vars

-----------------------------------------------------------------------------
(* Properties *)

\* Candles contain their prices, the fetched frame covers the candles that
\* were there when it was fetched, the histories keep scores in their bound.
TypeOK ==
    /\ \A i \in DOMAIN market :
          /\ {market[i].o, market[i].c} \subseteq market[i].l .. market[i].h
    /\ Len(ltf) <= Len(Aggregate(market)) /\ ltfAge \in 0 .. CacheTtl + 1
    /\ \A history \in {normal, observed} :
          /\ Len(history) <= AtMost(scans, HistorySize)
          /\ ToSet(history) \subseteq 0 .. 100
    /\ \A e \in ToSet(outcome) : e.plan # <<>> <=> e.stage = "accepted"

ClosedCandles(f) == Len(f) - 1

Zones(f) == DetectFvgZones(f) \cup DetectOrderBlocks(f)

\* What the candles already closed have shown stands, whatever the price does
\* next: a swing whose candles on both sides are closed remains a swing, and a
\* zone created by a closed candle remains where it is, its touches, its
\* deepest penetration and its invalidation only growing (no repainting of
\* identify_swings, detect_fvg_zones and detect_order_blocks). A zone is
\* promised only while the detectors still search for it: the middle of a gap
\* among the ZoneLookback candles before the last, the impulse of an order
\* block among the last ZoneLookback. Each candle that opens moves that window
\* on, and the oldest zone is then forgotten though it may be untouched.
InWindow(f, z) ==
    IF z.kind = "fvg" THEN z.source \in Len(f) - ZoneLookback .. Len(f) - 1
                      ELSE z.created \in Len(f) - ZoneLookback + 1 .. Len(f)

SameZone(y, z) ==
    [y EXCEPT !.touches = z.touches, !.deepest = z.deepest,
              !.invalidated = z.invalidated, !.lastTouch = z.lastTouch] = z

Continues(y, z) ==
    /\ SameZone(y, z)
    /\ y.touches >= z.touches /\ y.deepest >= z.deepest /\ y.lastTouch >= z.lastTouch
    /\ z.invalidated => y.invalidated

NoRepaint ==
    [][ market' # market =>
        /\ \A i \in HighSwings(market, TriggerWindow) :
              i + TriggerWindow <= ClosedCandles(market) => i \in HighSwings(market', TriggerWindow)
        /\ \A i \in LowSwings(market, TriggerWindow) :
              i + TriggerWindow <= ClosedCandles(market) => i \in LowSwings(market', TriggerWindow)
        /\ \A z \in Zones(market) :
              z.created <= ClosedCandles(market) /\ InWindow(market', z) =>
                  \E y \in Zones(market') : Continues(y, z) ]_market

Contiguous(f) == \A i \in 2 .. Len(f) : f[i].o = f[i - 1].c

\* An accepted signal can still be traded as it was meant: when both frames
\* show the same moment and no candle opened away from the one before it, the
\* last price has not reached the stop, be the plan a limit inside a zone of
\* either frame or a market entry, and the partial target lies between the
\* entry and the target (build_entry_plan, build_trade_management_plan).
StopBehindPrice ==
    \A e \in ToSet(outcome) :
        e.stage = "accepted" =>
            LET p == e.plan[1]
                t == Toward(e.side)
            IN /\ ltf = Aggregate(market) /\ Contiguous(market) => t * (Scale * LastPrice(market) - p.stop) > 0
               /\ t * (p.target - p.entry) > 0
               /\ \A price \in ToSet(e.partial) : t * (price - p.entry) > 0 /\ t * (p.target - price) > 0

\* The outcome of a scan is well formed, and its signals can be traded.
PlansSound == TypeOK /\ StopBehindPrice
=============================================================================
