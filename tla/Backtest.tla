------------------------------ MODULE Backtest ------------------------------
(***************************************************************************)
(* backtest/engine.py, exit_engine.py, risk.py and walk_forward.py: the    *)
(* replay of the signal engine over downloaded frames.  The pairs of a     *)
(* segment are replayed one after the other, each over the whole of its    *)
(* frame, against one release gate, one equity protection and one          *)
(* portfolio layer, so that the second pair starts again at the first bar  *)
(* with the state the first one left behind.                               *)
(*                                                                         *)
(* A bar is a range and a close, in ticks around the price the signal      *)
(* names, and is chosen when the replay first reads it; the bars that were *)
(* read stay fixed until the cursor passes them.  Prices of a trade are    *)
(* counted in the direction of the trade, so that the BUY and the SELL     *)
(* branches of the code, which mirror each other, are one.  Sizes are      *)
(* quarters of a position, equity is in quarters of R.  The release gate   *)
(* is the live one, SignalRelease.                                         *)
(***************************************************************************)
EXTENDS Integers, FiniteSetsExt, SequencesExt

CONSTANTS
    Pairs, Currencies, Base, Quote, Biases,
    PairCooldown, MaxEntriesPerBias, BiasWindow, GrossCap, NetCap, Holds,
    PairOrder,          \* the pairs in the order they are replayed
    Programs,           \* sequences of segments one process may run
    Bars,               \* [low, high, close] in ticks
    Warmup, MinBars,    \* warmup_bars, bars an evaluation needs
    MaxHold,            \* max_hold_bars
    Step,               \* evaluation_step as configured
    Delays,             \* execution_delay_bars
    Costs,              \* spread and slippage of a fill, in ticks
    Plans,              \* the exits of a signal or of a regime profile
    AtrValues,          \* ATR of the bars read so far, 0 while unusable
    SizeFactors,        \* sizing * meta label * portfolio layer, in quarters
    MaxDrawdown,        \* max_drawdown_limit, in quarters of R
    MaxLosses,          \* max_consecutive_losses
    StopTicks, TargetTicks   \* how far a signal puts its stop and its target

ASSUME BacktestAssumption ==
    /\ MaxHold \in Nat \ {0} /\ Warmup \in Nat /\ Step \in Nat
    /\ StopTicks \in Nat \ {0} /\ TargetTicks \in Nat \ {0}
    /\ MaxDrawdown \in Nat \ {0} /\ MaxLosses \in Nat \ {0}
    /\ Delays \subseteq Nat /\ AtrValues \subseteq Nat
    /\ SizeFactors \subseteq Nat /\ SizeFactors # {} /\ IsFiniteSet(SizeFactors)
    /\ Costs \subseteq Int
    /\ PairOrder \in Seq(Pairs) \ {<<>>}
    /\ Programs \subseteq Seq([start : Nat, from : Nat, end : Nat,
                               protected : BOOLEAN, realistic : BOOLEAN]) \ {<<>>}
    /\ Bars \subseteq [low : Int, high : Int, close : Int]
    /\ \A b \in Bars : b.low <= b.close /\ b.close <= b.high
    /\ Plans \subseteq [adaptive : BOOLEAN, partials : Seq([r : Nat, size : Nat]),
                        targetR : Nat, hold : Nat, breakEvenR : Nat, trailing : BOOLEAN,
                        trailingStartR : Nat, lookback : Nat \ {0},
                        atrTrailing : BOOLEAN, liquidityTrailing : BOOLEAN]

VARIABLES
    program, segment,   \* the segments of this process, and the current one
    pairIndex, cursor,  \* the pair being replayed, and its cursor
    phase,              \* "scan", "wait", "trade" or "done"
    frame,              \* the bars of this pair that were read
    order,              \* the signal and the trade being simulated, if any
    trades,             \* the report of this pair so far
    equity,             \* EquityProtectionState
    cooldownUntil, biasHistory, exposure, serial, journal   \* the release gate

gateVars == <<cooldownUntil, biasHistory, exposure, serial, journal>>
placeVars == <<program, segment, pairIndex>>
vars == <<placeVars, cursor, phase, frame, order, trades, equity, gateVars>>

Gate == INSTANCE SignalRelease WITH
    CurrencyCap <- 0, TradeGateChoices <- {FALSE}, MaxLag <- 0, MaxTime <- 0,
    MaxReleases <- 0, MaxBatch <- 0, now <- cursor, tradeGate <- FALSE,
    phase <- "idle", queue <- <<>>, kept <- <<>>, scanStart <- 0, returned <- {}

Whole == 4   \* quarters in a full position or in a full risk multiplier

Segment == program[segment]
Length == Segment.end - Segment.start
Pair == PairOrder[pairIndex]
Time(i) == Segment.start + i

\* A segment may be given bars before the ones it evaluates.
FirstCursor(s) == Max({s.start + Warmup, s.from})

-----------------------------------------------------------------------------
(* risk.py: equity protection, shared by the pairs of a run and absent     *)
(* from the segments of a walk-forward.                                    *)

FreshEquity == [value |-> 0, peak |-> 0, losses |-> 0, halted |-> FALSE]

Drawdown(e) == Max({0, e.peak - e.value})

AllowNewTrade == ~Segment.protected \/ (~equity.halted /\ Drawdown(equity) < MaxDrawdown)

\* current_risk_multiplier with a reduction factor of one half and a floor of
\* one quarter.
CurrentRiskMultiplier ==
    LET reduced == Whole - (Whole * Min({Drawdown(equity), MaxDrawdown})) \div (2 * MaxDrawdown)
    IN  IF ~Segment.protected THEN Whole
        ELSE IF equity.losses >= MaxLosses THEN 1 ELSE Max({1, reduced})

RegisterTrade(e, r) ==
    LET value == e.value + r
        peak == Max({e.peak, value})
    IN  [value |-> value, peak |-> peak,
         losses |-> IF r < 0 THEN e.losses + 1 ELSE IF r > 0 THEN 0 ELSE e.losses,
         halted |-> e.halted \/ peak - value >= MaxDrawdown]

-----------------------------------------------------------------------------
(* A trade: its plan, and what one bar does to it.                         *)

Known(i) == IF i \in DOMAIN frame THEN {frame[i]} ELSE Bars

\* The bars behind the cursor are not read again.
Ahead(f, i) == [j \in {k \in DOMAIN f : k >= i} |-> f[j]]

Read(i, bar) == frame' = [j \in DOMAIN frame \cup {i} |-> IF j = i THEN bar ELSE frame[j]]

\* A bar in the direction of the trade.
View(side, b) ==
    IF side = "BUY" THEN b ELSE [low |-> -b.high, high |-> -b.low, close |-> -b.close]

\* exit_engine.build_plan: a legacy plan keeps the prices of the signal, an
\* adaptive one is laid out from the entry, and skips the targets beyond its
\* take profit.
TakeProfit(plan, entry, risk, target) ==
    IF plan.adaptive THEN entry + risk * plan.targetR ELSE target

Partials(plan, entry, risk) ==
    LET Level(p) == [size |-> p.size,
                     price |-> IF plan.adaptive THEN entry + risk * p.r ELSE StopTicks * p.r]
        Lay(levels, p) == IF plan.adaptive /\ p.r >= plan.targetR THEN levels ELSE Append(levels, Level(p))
    IN  FoldLeft(Lay, <<>>, plan.partials)

ExitBars(plan) == IF plan.hold > 0 THEN plan.hold ELSE MaxHold

LastExit(plan, fill) == Min({Length - 1, fill + ExitBars(plan)})

\* _simulate_trade up to its loop: the ATR may replace the stop and scale the
\* target, and the risk is what lies between the entry and that stop.
Opened(o, fill, entry, size, atr) ==
    LET stop == IF atr > 0 THEN entry - atr ELSE -StopTicks
        target == IF atr > 0 THEN entry + (atr * TargetTicks) \div StopTicks ELSE TargetTicks
        gap == IF entry >= stop THEN entry - stop ELSE stop - entry
        risk == Max({1, gap})
    IN  [o EXCEPT !.fill = fill, !.exit = fill, !.entry = entry, !.firstStop = stop, !.stop = stop,
                  !.risk = risk, !.size = size, !.remaining = size,
                  !.target = TakeProfit(o.plan, entry, risk, target),
                  !.partials = Partials(o.plan, entry, risk)]

\* Ticks from the entry to the price, scaled by the size closed there.
Booked(o, size, price) == size * (price - o.entry)

\* The targets of the bar are taken in the order of the plan, while anything
\* remains of the position.
TakePartials(o, bar) ==
    LET Take(acc, p) ==
            LET closed == Min({p.size, acc.remaining})
            IN  IF closed = 0 \/ bar.high < p.price
                THEN [acc EXCEPT !.partials = Append(@, p)]
                ELSE [acc EXCEPT !.remaining = @ - closed,
                                 !.realized = @ + Booked(o, closed, p.price)]
    IN  FoldLeft(Take, [o EXCEPT !.partials = <<>>], o.partials)

BreakEven(o, bar) ==
    IF /\ o.plan.breakEvenR > 0 /\ ~o.breakEven
       /\ bar.high - o.entry >= o.plan.breakEvenR * o.risk
       /\ o.stop < o.entry
    THEN [o EXCEPT !.stop = o.entry, !.breakEven = TRUE]
    ELSE o

\* trailing_stop_candidate: the structural low, an ATR below the close, the
\* second lowest low less a tick; the best of them, if it tightens the stop.
Window(o, i, bar, bars) ==
    [j \in Max({o.fill, i - bars + 1})..i |->
        IF j = i THEN bar.low ELSE View(o.side, frame[j]).low]

SecondLowest(w) ==
    LET least == Min({w[j] : j \in DOMAIN w})
        first == CHOOSE j \in DOMAIN w : w[j] = least
    IN  IF \E j \in DOMAIN w : j # first
        THEN Min({w[j] : j \in DOMAIN w \ {first}}) ELSE least

TrailingCandidates(o, i, bar, atr) ==
    LET lows == Window(o, i, bar, o.plan.lookback)
    IN  {Min({lows[j] : j \in DOMAIN lows})}
        \cup (IF o.plan.atrTrailing /\ atr > 0 THEN {bar.close - atr} ELSE {})
        \cup (IF o.plan.liquidityTrailing
              THEN {SecondLowest(Window(o, i, bar, 2)) - 1} ELSE {})

\* Variant: the candidate replaces the stop whichever side of it it lies.
TrailLoosely(o, i, bar, atr) ==
    IF o.plan.trailing /\ bar.high - o.entry >= o.plan.trailingStartR * o.risk
    THEN [o EXCEPT !.stop = Max(TrailingCandidates(o, i, bar, atr)), !.trailing = TRUE]
    ELSE o

Trail(o, i, bar, atr) ==
    IF o.plan.trailing /\ bar.high - o.entry >= o.plan.trailingStartR * o.risk
    THEN [o EXCEPT !.stop = Max({@} \cup TrailingCandidates(o, i, bar, atr)), !.trailing = TRUE]
    ELSE o

CloseAt(o, i, price, reason) ==
    [o EXCEPT !.exit = i, !.reason = reason, !.remaining = 0,
              !.realized = @ + Booked(o, o.remaining, price)]

StopReason(o) ==
    IF o.trailing /\ o.stop > o.firstStop THEN "trailing_stop"
    ELSE IF o.breakEven /\ o.stop = o.entry THEN "break_even_stop" ELSE "stop_loss"

\* What follows in the turn of the loop that no exit ends.
Carry(o, i, bar, atr) ==
    LET moved == Trail(BreakEven(o, bar), i, bar, atr)
    IN  IF i = LastExit(o.plan, o.fill) THEN CloseAt(moved, i, bar.close, "timeout") ELSE moved

\* One turn of the loop of _simulate_trade: the stop left by the bar before is
\* tried first, and the stop moves only after everything else.
AfterBar(o, i, bar, atr) ==
    LET taken == TakePartials(o, bar)
    IN  IF bar.low <= o.stop THEN CloseAt(o, i, o.stop, StopReason(o))
        ELSE IF bar.high >= o.target THEN CloseAt(taken, i, o.target, "take_profit")
        ELSE Carry(taken, i, bar, atr)

-----------------------------------------------------------------------------
(* run, walk_forward.run and _run_segment.                                 *)

EmptyGate ==
    /\ cooldownUntil' = [p \in Pairs |-> 0]
    /\ biasHistory' = {} /\ exposure' = {} /\ serial' = 0 /\ journal' = {}

Init ==
    /\ program \in Programs
    /\ segment = 1 /\ pairIndex = 1 /\ cursor = FirstCursor(program[1]) /\ phase = "scan"
    /\ frame = <<>> /\ order = <<>> /\ trades = <<>> /\ equity = FreshEquity
    /\ cooldownUntil = [p \in Pairs |-> 0]
    /\ biasHistory = {} /\ exposure = {} /\ serial = 0 /\ journal = {}

\* The cursor of the code counts from the first bar of the slice.
Index == cursor - Segment.start

Scanning == phase = "scan" /\ Index < Length - MaxHold - 1

\* Variant: the configured step as it is.
EvaluationStepRaw == Step

\* max(1, evaluation_step)
EvaluationStep == IF Step < 1 THEN 1 ELSE Step

Skip(bars) ==
    /\ cursor' = cursor + bars
    /\ frame' = Ahead(frame, Index + bars)
    /\ UNCHANGED <<placeVars, phase, order, trades, equity>>

TooFewBars ==
    /\ Scanning /\ Index + 1 < MinBars
    /\ Skip(1)
    /\ UNCHANGED gateVars

Evaluating == Scanning /\ Index + 1 >= MinBars

\* evaluate_snapshot rejects, the equity protection has halted the run, or
\* the pre-trade filter blocks: nothing of the gate is touched.
Rejected ==
    /\ Evaluating
    /\ Skip(EvaluationStep)
    /\ UNCHANGED gateVars

\* generated_at is the time of the trigger bar.
Candidates ==
    [pair : {Pair}, side : {"BUY", "SELL"}, bias : Biases, at : {cursor}, hold : Holds]

Dropped(s) ==
    /\ Evaluating /\ AllowNewTrade
    /\ Gate!DropAtCooldown(s) \/ Gate!DropAtBiasLimit(s) \/ Gate!DropAtExposureCap(s)
    /\ Skip(EvaluationStep)

\* The release is committed before the meta label is asked and before the
\* entry is known to be filled, and is not taken back.
ReleasedInVain(s) ==
    /\ Evaluating /\ AllowNewTrade
    /\ Gate!Register(s)
    /\ Skip(EvaluationStep)

NewOrder(s, plan, factor) ==
    [signal |-> s, side |-> s.side, plan |-> plan, factor |-> factor, at |-> Index,
     fill |-> 0, entry |-> 0, firstStop |-> 0, stop |-> 0, target |-> 0, partials |-> <<>>,
     risk |-> 1, size |-> 0, remaining |-> 0, realized |-> 0, breakEven |-> FALSE,
     trailing |-> FALSE, exit |-> 0, reason |-> "open"]

\* risk_multiplier: the equity protection times the other factors.
Multiplier(factor) == (CurrentRiskMultiplier * factor) \div Whole

\* A market order is filled at the close of the bar the delay leads to, or,
\* without realistic execution, at the price and the bar of the signal.
PlaceMarket(s, plan, factor, atr) ==
    LET o == NewOrder(s, plan, Multiplier(factor))
        Fills == IF Segment.realistic THEN {Min({Length - 1, Index + d}) : d \in Delays} ELSE {Index}
    IN  /\ Evaluating /\ AllowNewTrade
        /\ Gate!Register(s)
        /\ \E fill \in Fills \ {Length - 1} : \E bar \in Known(fill), cost \in Costs :
              LET entry == IF Segment.realistic THEN View(s.side, bar).close + cost ELSE 0
              IN  /\ order' = <<Opened(o, fill, entry, Whole, atr)>>
                  /\ Read(fill, bar)
        /\ phase' = "trade"
        /\ UNCHANGED <<placeVars, cursor, trades, equity>>

\* A mitigation order waits at the price of the signal.
PlaceLimit(s, plan, factor) ==
    /\ Evaluating /\ AllowNewTrade
    /\ Gate!Register(s)
    /\ \E d \in IF Segment.realistic THEN Delays ELSE {0} :
          order' = <<[NewOrder(s, plan, Multiplier(factor)) EXCEPT !.fill = Index + 1 + d]>>
    /\ phase' = "wait"
    /\ UNCHANGED <<placeVars, cursor, frame, trades, equity>>

Abandon(bars) ==
    /\ order' = <<>> /\ phase' = "scan" /\ cursor' = cursor + EvaluationStep
    /\ frame' = Ahead(bars, Index + EvaluationStep)

FillSizes == IF Segment.realistic THEN {Whole, Whole \div 2} ELSE {Whole}

\* Spread and slippage are charged to a limit order where the settings say so.
LimitEntries == IF Segment.realistic THEN {0} \cup Costs ELSE {0}

\* The fill may be partial; the last bar leaves no room for a trade.
WaitForFill ==
    /\ phase = "wait"
    /\ LET o == order[1]
       IN  IF o.fill > Length - 1
           THEN Abandon(frame)
           ELSE \E bar \in Known(o.fill) :
                   IF bar.low > 0 \/ bar.high < 0
                   THEN /\ order' = <<[o EXCEPT !.fill = @ + 1]>>
                        /\ Read(o.fill, bar) /\ UNCHANGED <<phase, cursor>>
                   ELSE IF o.fill = Length - 1 THEN Abandon(frame)
                   ELSE /\ \E size \in FillSizes, entry \in LimitEntries, atr \in AtrValues :
                              order' = <<Opened(o, o.fill, entry, size, atr)>>
                        /\ phase' = "trade" /\ Read(o.fill, bar) /\ UNCHANGED cursor
    /\ UNCHANGED <<placeVars, trades, equity, gateVars>>

SimulateBar ==
    /\ phase = "trade"
    /\ LET o == order[1]
           i == o.exit + 1
       IN  \E bar \in Known(i), atr \in AtrValues :
              LET after == AfterBar(o, i, View(o.side, bar), atr)
              IN  /\ Read(i, bar)
                  /\ order' = <<[after EXCEPT !.exit = i]>>
                  /\ phase' = IF after.reason = "open" THEN "trade" ELSE "close"
    /\ UNCHANGED <<placeVars, cursor, trades, equity, gateVars>>

\* r_multiple of the trade in quarters of R, scaled by its multiplier.
Result(o) == (o.realized * o.factor) \div (o.risk * Whole)

TradeOf(o) ==
    [at |-> Time(o.at), entry |-> Time(o.fill), exit |-> Time(o.exit),
     size |-> o.size, risk |-> o.risk, realized |-> o.realized, left |-> o.remaining]

\* Variant: the scan goes on behind the bar of the signal.
CursorAfterSignal(o) == Time(o.at) + EvaluationStep

CursorAfter(o) == Time(o.exit) + 1

RegisterClosed ==
    /\ phase = "close"
    /\ LET o == order[1]
       IN  /\ trades' = Append(trades, TradeOf(o))
           /\ equity' = IF Segment.protected THEN RegisterTrade(equity, Result(o)) ELSE equity
           /\ cursor' = CursorAfter(o)
           /\ frame' = Ahead(frame, CursorAfter(o) - Segment.start)
    /\ order' = <<>> /\ phase' = "scan"
    /\ UNCHANGED <<placeVars, gateVars>>

\* The next pair starts at its own first bar, with the gate and the equity as
\* they are; a pair whose frames cannot be loaded leaves an empty report.
StartPair ==
    /\ pairIndex < Len(PairOrder)
    /\ pairIndex' = pairIndex + 1
    /\ cursor' = FirstCursor(Segment)
    /\ trades' = <<>>
    /\ UNCHANGED <<program, segment, phase, equity, gateVars>>

\* Every segment starts from a reset gate.
StartSegment ==
    /\ pairIndex = Len(PairOrder) /\ segment < Len(program)
    /\ segment' = segment + 1 /\ pairIndex' = 1
    /\ cursor' = FirstCursor(program[segment + 1])
    /\ trades' = <<>> /\ equity' = FreshEquity
    /\ EmptyGate
    /\ UNCHANGED <<program, phase>>

Finish ==
    /\ pairIndex = Len(PairOrder) /\ segment = Len(program)
    /\ phase' = "done"
    /\ UNCHANGED <<placeVars, cursor, trades, equity, gateVars>>

EndOfPair ==
    /\ phase = "scan"
    /\ ~Scanning \/ (frame = <<>> /\ trades = <<>> /\ cursor = FirstCursor(Segment))
    /\ frame' = <<>> /\ UNCHANGED order
    /\ StartPair \/ StartSegment \/ Finish

Next ==
    \/ TooFewBars
    \/ Rejected
    \/ \E s \in Candidates : Dropped(s) \/ ReleasedInVain(s)
    \/ \E s \in Candidates, plan \in Plans, factor \in SizeFactors :
          \/ PlaceLimit(s, plan, factor)
          \/ \E atr \in AtrValues : PlaceMarket(s, plan, factor, atr)
    \/ WaitForFill
    \/ SimulateBar
    \/ RegisterClosed
    \/ EndOfPair

Spec == Init /\ [][Next]_vars /\ WF_vars(Next)

-----------------------------------------------------------------------------
(* Properties.                                                             *)

\* The state has its type: the order is one trade at most, a finished trade
\* has nothing left open, and no state of the gate outlives its segment.
TypeOK ==
    /\ phase \in {"scan", "wait", "trade", "close", "done"}
    /\ Len(order) = (IF phase \in {"wait", "trade", "close"} THEN 1 ELSE 0)
    /\ segment \in DOMAIN program /\ pairIndex \in DOMAIN PairOrder /\ cursor \in Nat
    /\ DOMAIN frame \subseteq 0..Length - 1 /\ \A i \in DOMAIN frame : frame[i] \in Bars
    /\ \A k \in DOMAIN trades : trades[k].left = 0 /\ trades[k].size \in 1..Whole
    /\ \A r \in journal : r.at >= Segment.start
    /\ equity.peak >= equity.value

\* Where a trade can be entered, in ticks from the price of its signal.
EntryPrices ==
    {0} \cup Costs \cup {View(side, b).close + c : side \in {"BUY", "SELL"}, b \in Bars, c \in Costs}

\* No partial target of a signal lies behind the ATR stop of a fill: a delayed
\* fill may have run past the target, but by less than the ATR.
TargetsInReach ==
    \A plan \in Plans, entry \in EntryPrices, atr \in AtrValues :
        ~plan.adaptive /\ atr > 0 =>
            \A k \in DOMAIN plan.partials : StopTicks * plan.partials[k].r >= entry - atr

\* Whatever the costs of the entry, the ATR stop, the partial targets and the
\* trailing do, a trade loses at most the risk it was sized for.
\* (_simulate_trade)
LossBounded ==
    TargetsInReach =>
        \A k \in DOMAIN trades : trades[k].realized >= -(trades[k].size * trades[k].risk)

\* Two trades of a pair never overlap, and none leaves its segment: the scan
\* takes up behind the exit, so that no bar earns twice, and a test window
\* sees no bar of another window.  (run_pair_from_frames, _run_segment)
TradesApart ==
    \A k \in DOMAIN trades :
        /\ trades[k].at >= FirstCursor(Segment)
        /\ trades[k].at <= trades[k].entry /\ trades[k].entry < trades[k].exit
        /\ trades[k].exit < Segment.end
        /\ \A m \in DOMAIN trades :
              m < k => trades[m].exit < trades[k].at

\* The equity protection bounds the drawdown of the whole run by its limit
\* and the loss of the one trade that reached it, although the trades of
\* several pairs share it.  (EquityProtectionState)
MaxLoss == Max(SizeFactors)
DrawdownBounded ==
    TargetsInReach /\ Segment.protected => Drawdown(equity) < MaxDrawdown + MaxLoss

\* The fill has run past a partial target of the signal, which is then booked
\* at a loss.
Chased(o) ==
    ~o.plan.adaptive /\ \E k \in DOMAIN o.plan.partials : StopTicks * o.plan.partials[k].r < o.entry

\* A stop that protects a position never moves away from the price again, and
\* once it has come to the entry no later bar makes the trade a loss, unless
\* its fill ran past a target.  (break even and trailing_stop_candidate)
StopsOnlyTighten ==
    [][phase = "trade" /\ order' # <<>> =>
          /\ order'[1].stop >= order[1].stop
          /\ order[1].breakEven /\ ~Chased(order[1]) => order'[1].realized >= 0]_vars

\* The book of trades is well formed, and its trades are apart.
BookSound == TypeOK /\ TradesApart
=============================================================================
