---------------------------- MODULE MCNewsFilter ----------------------------
(***************************************************************************)
(* Windows of one candle on either side and averages of three.  One        *)
(* history has left a narrow gap and come back into it; the other is a     *)
(* fall, one candle short of the length required.  The settings differ in  *)
(* every gate, and in the second the score is normalised, the threshold    *)
(* follows the scores and the target is nearer than the partial target.    *)
(*                                                                         *)
(* The calendar has releases only beside the first history and the second settings,   *)
(* where signals are accepted: one ahead, one that has just been, one of   *)
(* another currency; a calendar is kept for one move, and news blacks out  *)
(* one move to either side.                                                *)
(***************************************************************************)
EXTENDS NewsFilter

K(o, h, l, c) == [o |-> o, h |-> h, l |-> l, c |-> c]

Rally == <<K(40, 42, 39, 41), K(41, 43, 40, 42), K(42, 42, 38, 39), K(39, 40, 37, 38),
           K(38, 40, 38, 40), K(40, 48, 40, 48), K(48, 50, 46, 49), K(49, 51, 47, 48),
           K(48, 49, 45, 46), K(46, 48, 45, 48)>>
Mirrored(f) == [i \in DOMAIN f |-> K(90 - f[i].o, 90 - f[i].l, 90 - f[i].h, 90 - f[i].c)]

Pullback == <<K(40, 44, 39, 44), K(44, 44, 40, 40), K(40, 40, 36, 36), K(36, 40, 35, 40),
              K(40, 44, 40, 44), K(44, 52, 44, 52), K(52, 53, 46, 50), K(50, 56, 50, 56),
              K(56, 56, 45, 50), K(50, 50, 46, 47)>>

MCHistories == {Pullback, Mirrored(SubSeq(Rally, 1, 9))}

Stats(vol, trend, drift, bias) ==
    [vol |-> vol, trend |-> trend, drift |-> drift, bias |-> bias, low |-> 30, high |-> 66]
View(stats, hour, reference) ==
    [stats |-> stats, news |-> [allow |-> TRUE, score |-> 12], hour |-> hour, age |-> 30,
     reference |-> reference, volatility |-> 110]
Trending == View(Stats(100, 40, "bullish", "bullish"), 9, <<>>)
Ranging  == View(Stats(100, 20, "neutral", "neutral"), 4, <<Mirrored(Rally)>>)
Quiet    == View(Stats(80, 10, "neutral", "bearish"), 2, <<>>)
MCViews == {Trending, Ranging, Quiet,
            [Trending EXCEPT !.age = 901],
            [Trending EXCEPT !.hour = 23]}

Base ==
    [minScore |-> 45, maxAge |-> 900, windows |-> {<<22, 12>>}, blockedRegimes |-> {},
     strictGate |-> TRUE, opposition |-> 60, contractionDisplacement |-> FALSE,
     contractionStrength |-> 4, rangeStrength |-> 4, shadow |-> TRUE, blocks |-> TRUE,
     smt |-> TRUE, smtHard |-> FALSE, smtMin |-> 60, smtOpposite |-> 80,
     quality |-> [enabled |-> TRUE, replaces |-> TRUE, bonusRegimes |-> {"trend", "range"},
                  minBreak |-> 1, minScore |-> 60, maxBonus |-> 8],
     sessionMin |-> 0, normalise |-> "none", scaleFactor |-> 100,
     threshold |-> [active |-> FALSE, apply |-> FALSE, percentile |-> 50],
     profile |-> [enabled |-> TRUE, byVolatility |-> TRUE], riskReward |-> 200, partialR |-> 100,
     mitigationEntry |-> TRUE, fallback |-> [allow |-> TRUE, minStrength |-> 4, displacement |-> FALSE]]
Adaptive ==
    [Base EXCEPT !.windows = {<<1, 12>>}, !.strictGate = FALSE, !.normalise = "minmax",
                 !.quality.enabled = FALSE,
                 !.threshold = [active |-> TRUE, apply |-> TRUE, percentile |-> 75],
                 !.profile.enabled = FALSE, !.partialR = 250, !.sessionMin = 5, !.blockedRegimes = {"contraction"}]
MCSettings == {Base, Adaptive}

MCWeights == <<>>
MCGaps == {0, -7}
MCTicks == {-9, -2, 3, 9}
MCSessionPoints(hour) == IF hour \in 7 .. 16 THEN 12 ELSE 4

Release(at, currency, impact, forecast, actual) ==
    [at |-> at, currency |-> currency, impact |-> impact, forecast |-> forecast,
     actual |-> actual, since |-> -9]
MCCalendars ==
    {{}, {Release(2, "USD", "high", <<20>>, <<>>)},
     {Release(0, "USD", "high", <<20>>, <<32>>), Release(1, "JPY", "high", <<>>, <<>>)},
     {Release(1, "USD", "high", <<>>, <<>>), Release(1, "USD", "medium", <<5>>, <<9>>)}}
MCAnnounced == {Release(3, "EUR", "high", <<0>>, <<>>)}

MCInit ==
    /\ NewsInit
    /\ calendar # {} => market = Pullback /\ settings = Adaptive
\* There the price rises, within the last candle.
MCNext ==
    /\ NewsNext
    /\ IF calendar = {} THEN calendar' = {}
       ELSE Len(market') = Len(market) /\ LastPrice(market') - LastPrice(market) \in {0, 3}
MCSpec == MCInit /\ [][MCNext]_scanVars
=============================================================================
