---------------------------- MODULE PaperTrading ----------------------------
(***************************************************************************)
(* services/crypto_paper_trading.py: the replay of the forward journal and *)
(* its labelled outcomes into a virtual account.  The candidates come in   *)
(* order of generated_at, but each is decided at the entry time of its     *)
(* outcome, and a limit entry may fill much later than the signal was      *)
(* generated.  The account is kept unrounded, in units of which Cent make  *)
(* a cent; what the ledger, the equity curve and the report tell is        *)
(* rounded to whole cents.                                                 *)
(***************************************************************************)
EXTENDS Integers, Sequences, FiniteSets, FiniteSetsExt, SequencesExt

CONSTANTS
    Symbols,
    Rs,                    \* r_multiple of closed outcomes
    RiskModes,             \* the values risk_mode may have
    Cent,                  \* units in a cent
    StartingBalance, RiskPerTrade, RiskPct, \* the amounts in units
    MaxOpenPositions,      \* 0 disables the check
    OnePositionChoices,    \* the values one_position_per_symbol may have
    MaxTime, MaxCandidates \* bounds of the model

ASSUME PaperAssumption ==
    /\ Rs \subseteq Int
    /\ RiskModes \subseteq {"fixed", "equity_pct"}
    /\ Cent \in Nat \ {0}
    /\ StartingBalance \in Nat /\ RiskPerTrade \in Nat /\ RiskPct \in 0..100
    /\ MaxOpenPositions \in Nat /\ OnePositionChoices \subseteq BOOLEAN
    /\ MaxTime \in Nat /\ MaxCandidates \in Nat

VARIABLES
    riskMode, onePositionPerSymbol,   \* settings
    pc,         \* where _simulate is
    pending,    \* the candidate being replayed, if any
    lastGen,    \* generated_at of the latest candidate
    balance,    \* the account, unrounded
    active,     \* the open trades, as positions in rows, oldest first
    rows,       \* the ledger
    curve,      \* the close events of the equity curve
    report      \* the report written, if any

settings == <<riskMode, onePositionPerSymbol>>
vars == <<settings, pc, pending, lastGen, balance, active, rows, curve, report>>

\* A candidate with its latest outcome.  An outcome without an entry time
\* counts from generated_at and one without an exit time from the entry, so
\* entry and exit are always there; labelled is whether the outcome is closed,
\* has an R and its signal the minimum score.  The tracker rounded r when it
\* logged it, so rounding it for the ledger changes nothing.
Candidate ==
    [symbol : Symbols, gen : Nat, entry : Nat, exit : Nat, r : Rs, labelled : BOOLEAN]

Skips == {"", "not_labelled", "max_open_positions", "symbol_already_open"}

\* A ledger row: before is its balance_before in cents, pnl the unrounded
\* amount of its _PendingTrade, of which the row itself shows the cents.
Row == [c : Candidate, skip : Skips, before : Int, pnl : Int]

Executed == {i \in DOMAIN rows : rows[i].skip = ""}
\* _money: the nearest whole cents, half a cent to the even one.
Money(x) ==
    LET cents == x \div Cent
        over == x % Cent
    IN  IF 2 * over < Cent \/ (2 * over = Cent /\ cents % 2 = 0) THEN cents ELSE cents + 1

PnlUsd(i) == Money(rows[i].pnl)

Entry(i) == rows[i].c.entry
Exit(i) == rows[i].c.exit

-----------------------------------------------------------------------------
Init ==
    /\ riskMode \in RiskModes /\ onePositionPerSymbol \in OnePositionChoices
    /\ pc = "next" /\ pending = <<>> /\ lastGen = 0
    /\ balance = StartingBalance
    /\ active = <<>> /\ rows = <<>> /\ curve = <<>> /\ report = <<>>

\* The candidates still to come.  A candidate that is not labelled is skipped
\* whatever its symbol, exit and R are.
Arrivals ==
    {c \in [symbol : Symbols, gen : lastGen..MaxTime, entry : 0..MaxTime,
            exit : 0..MaxTime, r : Rs, labelled : BOOLEAN] :
        /\ c.gen <= c.entry /\ c.entry <= c.exit
        /\ ~c.labelled => c.exit = c.entry /\ c.r = Min(Rs)}

TakeCandidate(c) ==
    /\ pc = "next" /\ Len(rows) < MaxCandidates
    /\ pending' = <<c>> /\ lastGen' = c.gen
    /\ pc' = "close"
    /\ UNCHANGED <<settings, balance, active, rows, curve, report>>

\* The final close_due_trades(far_future).
TakeEnd ==
    /\ pc = "next"
    /\ pc' = "drain"
    /\ UNCHANGED <<settings, pending, lastGen, balance, active, rows, curve, report>>

\* Variant: a trade that ends at the entry time is not due.
DueBefore(i) == pc = "drain" \/ (pc = "close" /\ Exit(i) < Head(pending).entry)

\* close_due_trades, one trade at a time: in order of exit time, and in the
\* order they were opened when that is equal.
IsDue(i) == pc = "drain" \/ (pc = "close" /\ Exit(i) <= Head(pending).entry)
Due == {k \in DOMAIN active : IsDue(active[k])}

ClosedFirst(k) ==
    /\ k \in Due
    /\ \A j \in Due \ {k} :
          \/ Exit(active[k]) < Exit(active[j])
          \/ Exit(active[k]) = Exit(active[j]) /\ k < j

\* Variant: the account takes what the ledger row shows.
PendingPnlRounded(i) == Cent * PnlUsd(i)

\* _PendingTrade.pnl
PendingPnl(i) == rows[i].pnl

CloseDueTrade ==
    \E k \in Due :
        /\ ClosedFirst(k)
        /\ balance' = balance + PendingPnl(active[k])
        /\ curve' = Append(curve, [row |-> active[k], balance |-> Money(balance')])
        /\ active' = [j \in 1..(Len(active) - 1) |-> active[IF j < k THEN j ELSE j + 1]]
        /\ UNCHANGED <<settings, pc, pending, lastGen, rows, report>>

\* Variant: one position too many.
SkipReasonOffByOne ==
    IF ~Head(pending).labelled THEN "not_labelled"
    ELSE IF MaxOpenPositions > 0 /\ Len(active) > MaxOpenPositions
         THEN "max_open_positions" ELSE ""

\* The order of the checks of _simulate and _skip_reason.
SkipReason ==
    LET c == Head(pending)
        full == MaxOpenPositions > 0 /\ Len(active) >= MaxOpenPositions
        symbolOpen == \E k \in DOMAIN active : rows[active[k]].c.symbol = c.symbol
    IN  IF ~c.labelled THEN "not_labelled"
        ELSE IF full THEN "max_open_positions"
        ELSE IF onePositionPerSymbol /\ symbolOpen THEN "symbol_already_open" ELSE ""

\* _risk_amount.  The share of the account is a whole number of units, the
\* grid of the float it is.
RiskAmount ==
    IF riskMode = "equity_pct" THEN Max({0, (balance * RiskPct) \div 100}) ELSE RiskPerTrade

DecideCandidate ==
    /\ pc = "close" /\ Due = {}
    /\ rows' = Append(rows, [c |-> Head(pending), skip |-> SkipReason, before |-> Money(balance),
                             pnl |-> IF SkipReason = "" THEN RiskAmount * Head(pending).r ELSE 0])
    /\ active' = IF SkipReason = "" THEN Append(active, Len(rows) + 1) ELSE active
    /\ pending' = <<>> /\ pc' = "next"
    /\ UNCHANGED <<settings, lastGen, balance, curve, report>>

-----------------------------------------------------------------------------
(* The report, in cents, of the ledger and the equity curve.  _money of a  *)
(* sum of cents is that sum.                                               *)

Pnl(trades) == MapThenSumSet(LAMBDA i : PnlUsd(i), trades)
Winners(trades) == {i \in trades : rows[i].c.r > 0}
Losers(trades) == {i \in trades : rows[i].c.r < 0}

Group(trades) ==
    [trades |-> Cardinality(trades), wins |-> Cardinality(Winners(trades)),
     totalR |-> MapThenSumSet(LAMBDA i : rows[i].c.r, trades), netPnl |-> Pnl(trades)]

Balances == <<Money(StartingBalance)>> \o [k \in DOMAIN curve |-> curve[k].balance]

\* The balances of the curve as amounts; the peak begins at the setting, which
\* is not rounded.
Points == [k \in DOMAIN Balances |-> Cent * Balances[k]]

Drawdown ==
    FoldLeft(LAMBDA acc, b : LET peak == Max({acc.peak, b})
                             IN  [peak |-> peak, fall |-> Max({acc.fall, peak - b})],
             [peak |-> StartingBalance, fall |-> 0], Points)

\* rows.sort by entry time; journal ids are taken to be in order of arrival.
EntersBefore(i, j) == Entry(i) < Entry(j) \/ (Entry(i) = Entry(j) /\ i < j)

Ledger ==
    [k \in DOMAIN rows |-> CHOOSE i \in DOMAIN rows :
        Cardinality({j \in DOMAIN rows : EntersBefore(j, i)}) = k - 1]

Overall ==
    LET amounts(won) == {i \in Executed : IF won THEN PnlUsd(i) > 0 ELSE PnlUsd(i) < 0}
    IN  [candidates |-> Len(rows), executed |-> Cardinality(Executed),
         wins |-> Cardinality(Winners(Executed)), losses |-> Cardinality(Losers(Executed)),
         breakeven |-> Cardinality({i \in Executed : rows[i].c.r = 0}),
         final |-> Last(Balances), least |-> Min(ToSet(Balances)),
         drawdown |-> Money(Drawdown.fall),
         netPnl |-> Pnl(Executed), grossProfit |-> Pnl(amounts(TRUE)), grossLoss |-> -Pnl(amounts(FALSE)),
         bySymbol |-> [s \in {rows[i].c.symbol : i \in Executed} |->
                          Group({i \in Executed : rows[i].c.symbol = s})],
         ledger |-> Ledger]

\* Variant: the trades still open are left out.
ReportWithOpenTrades ==
    /\ pc = "drain"
    /\ pc' = "done" /\ report' = <<Overall>>
    /\ UNCHANGED <<settings, pending, lastGen, balance, active, rows, curve>>

Report ==
    /\ pc = "drain" /\ active = <<>>
    /\ pc' = "done" /\ report' = <<Overall>>
    /\ UNCHANGED <<settings, pending, lastGen, balance, active, rows, curve>>

Next ==
    \/ \E c \in Arrivals : TakeCandidate(c)
    \/ TakeEnd
    \/ CloseDueTrade
    \/ DecideCandidate
    \/ Report

Spec == Init /\ [][Next]_vars /\ WF_vars(TakeEnd \/ CloseDueTrade \/ DecideCandidate \/ Report)

-----------------------------------------------------------------------------
\* Every variable has its type.
TypeOK ==
    /\ riskMode \in RiskModes /\ onePositionPerSymbol \in OnePositionChoices
    /\ pc \in {"next", "close", "drain", "done"}
    /\ pending \in Seq(Candidate) /\ Len(pending) = (IF pc = "close" THEN 1 ELSE 0)
    /\ lastGen \in Nat /\ balance \in Int
    /\ rows \in Seq(Row)
    /\ active \in Seq(Executed) /\ Len(report) = (IF pc = "done" THEN 1 ELSE 0)
    /\ curve \in Seq([row : Executed, balance : Int])

\* What the trades moved the account by, unrounded.
Moved(trades) == MapThenSumSet(LAMBDA i : rows[i].pnl, trades)
ClosedBy(k) == {curve[l].row : l \in 1..k}

\* The simulator's account: every executed trade is closed exactly once, and
\* the balance is the starting balance and what the trades moved it by,
\* whatever was open across skipped candidates; no rounding for the ledger or
\* the curve gets into it.
LedgerBalances ==
    pc = "done" =>
        /\ \A i \in Executed : Cardinality({k \in DOMAIN curve : curve[k].row = i}) = 1
        /\ balance = StartingBalance + Moved(Executed)

\* What the report says of the account is what the account did, to the cent.
\* Every point of the curve, the last of which is the final balance, is off by
\* its own rounding only, however many trades came before.  The net profit is
\* summed over rounded rows and need not be the change of the balance, but is
\* off by no more than half a cent a row, and so are the gross figures.  No
\* fall of the curve is deeper than the drawdown and one is as deep, the groups
\* add up to the whole, and the ledger has every candidate once, in order of
\* entry.
ReportTrue ==
    pc = "done" =>
        LET o == report[1]
            points == <<StartingBalance>> \o Points
            falls == UNION {{points[k] - points[l] : l \in k..Len(points)} : k \in DOMAIN points}
            total(field) == MapThenSumSet(LAMBDA s : o.bySymbol[s][field], DOMAIN o.bySymbol)
            change == Cent * o.final - StartingBalance
        IN  /\ o.final = Money(balance)
            /\ \A k \in DOMAIN curve : curve[k].balance = Money(StartingBalance + Moved(ClosedBy(k)))
            /\ o.netPnl = o.grossProfit - o.grossLoss
            /\ 2 * (change - Cent * o.netPnl) <= Cent * (o.executed + 1)
            /\ 2 * (Cent * o.netPnl - change) <= Cent * (o.executed + 1)
            /\ 2 * (o.final - o.least - o.grossProfit) <= o.executed + 2
            /\ o.drawdown = Money(Max(falls))
            /\ o.executed = o.wins + o.losses + o.breakeven
            /\ total("trades") = o.executed /\ total("wins") = o.wins /\ total("netPnl") = o.netPnl
            /\ ToSet(o.ledger) = DOMAIN rows /\ Len(o.ledger) = o.candidates
            /\ \A k, l \in DOMAIN o.ledger : k < l => Entry(o.ledger[k]) <= Entry(o.ledger[l])

\* The decisions were made in the order of the entry times.
EntriesOrdered ==
    \A i, j \in DOMAIN rows : i < j => Entry(i) <= Entry(j)

\* Executed trades that are open at the same time.
OpenAt(t) == {i \in Executed : Entry(i) <= t /\ t < Exit(i)}

PositionsLimited ==
    MaxOpenPositions > 0 =>
        \A t \in 0..MaxTime : Cardinality(OpenAt(t)) <= MaxOpenPositions

\* When signals fill in the order they were generated, the two portfolio
\* constraints hold of the intervals in the ledger, not only of the list the
\* simulator keeps.
OrderedPositionsLimited == EntriesOrdered => PositionsLimited

OrderedSymbolsApart ==
    EntriesOrdered /\ onePositionPerSymbol =>
        \A i, j \in Executed :
            i < j /\ rows[i].c.symbol = rows[j].c.symbol => Exit(i) <= Entry(j)

\* Then also no trade is sized with money of a trade that closes after it
\* opens: balance_before is the account at the entry time, in cents.
OrderedNoLookAhead ==
    EntriesOrdered =>
        \A j \in Executed :
            rows[j].before =
                Money(StartingBalance + Moved({i \in Executed : i < j /\ Exit(i) <= Entry(j)}))

\* And the equity curve, from which the drawdown is read, is chronological.
OrderedCurve ==
    EntriesOrdered =>
        \A k, l \in DOMAIN curve : k < l => Exit(curve[k].row) <= Exit(curve[l].row)

\* The account of the report adds up, whatever order the candidates fill in.
AccountSound == TypeOK /\ LedgerBalances /\ ReportTrue

\* What the ledger promises for signals that fill in the order they were
\* generated: the limits hold of its intervals, and no balance in it looks
\* ahead.
OrderedLimits == OrderedPositionsLimited /\ OrderedSymbolsApart
OrderedBalances == OrderedNoLookAhead /\ OrderedCurve
=============================================================================
