---------------------------- MODULE ForwardOutcomes ----------------------------
(***************************************************************************)
(* services/forward_outcomes.py: a journalled candidate is labelled, again *)
(* and again, from the newest candles the provider has, until the outcome  *)
(* log holds a terminal label of it.  One candidate: they share only the   *)
(* log, which is read and skipped per journal id.                          *)
(*                                                                         *)
(* A candle is the set of levels it reaches (it hits the stop and the      *)
(* target also beyond them, the entry only inside its range) and the R of  *)
(* its close.  The provider also returns the candle in progress, whose     *)
(* range can still grow.  Positions count from 1, the first candle after   *)
(* generated_at.  Of the log only the latest row is ever read.             *)
(***************************************************************************)
EXTENDS Integers, Sequences, FiniteSetsExt

CONSTANTS
    ModeChoices,         \* the entry modes of the candidate
    RiskChoices,         \* whether entry and stop differ
    HoldBars,            \* time_stop_bars of the candidate, or max_hold_bars
    EntryExpiryBars,     \* entry_expiry_bars, 0 for the holding time
    Policies,            \* the values ambiguous_policy may have
    WriteAllChoices,     \* the values --write-all may have
    HistoryLimit,        \* history_limit: the provider returns no more candles
    TargetR, Closes,     \* R at the target, and R values a close may have
    MidCandleChoices,    \* whether the tracker also runs while a candle is open
    MaxBars              \* bound of the model

ASSUME OutcomeAssumption ==
    /\ ModeChoices \subseteq {"MARKET", "MITIGATION_LIMIT"}
    /\ RiskChoices \subseteq BOOLEAN /\ WriteAllChoices \subseteq BOOLEAN
    /\ Policies \subseteq {"ambiguous", "stop_first", "target_first"}
    /\ HoldBars \in Nat \ {0} /\ EntryExpiryBars \in Nat /\ HistoryLimit \in Nat \ {0}
    /\ TargetR \in Int /\ Closes \subseteq Int
    /\ MidCandleChoices \subseteq BOOLEAN /\ MaxBars \in Nat

VARIABLES
    mode, hasRisk, policy, writeAll,   \* the candidate and the settings
    midCandle,  \* the schedule of the tracker: also while a candle is open
    bars,       \* the candles after generated_at
    growing,    \* the last of them is in progress
    provider,   \* whether the provider answers
    latest      \* the latest row of the outcome log, if any

settings == <<mode, hasRisk, policy, writeAll, midCandle>>
vars == <<settings, bars, growing, provider, latest>>

\* Entry lies between stop and target, so a candle that spans both has it too.
Levels == {"entry", "stop", "target"}
Ranges == {s \in SUBSET Levels : {"stop", "target"} \subseteq s => "entry" \in s}
Candle == [range : Ranges, close : Closes]

\* r_multiple, if the row has one.
NoR == <<>>
Statuses == {"insufficient_data", "waiting_for_data", "pending_entry", "entry_not_filled",
             "invalid_candidate", "open", "closed"}
Reasons == {"", "stop_loss", "take_profit", "ambiguous_tp_sl", "ambiguous_stop_first",
            "ambiguous_target_first", "time_stop"}

\* The status determines the exit reason of a row that is not closed.  fill and
\* exit are the candles the row names, as positions in bars, 0 for none.
Row(status, reason, observed, fill, exit, r) ==
    [status |-> status, reason |-> reason, observed |-> observed,
     fill |-> fill, exit |-> exit, r |-> r]

Terminal(row) == row.status \in {"closed", "entry_not_filled"}

-----------------------------------------------------------------------------
(* evaluate_candidate on the candles the provider returns.                 *)

\* Where the window of the newest history_limit candles starts.
Dropped == Max({0, Len(bars) - HistoryLimit})
Future == SubSeq(bars, Dropped + 1, Len(bars))

ExpiryBars == IF EntryExpiryBars > 0 THEN EntryExpiryBars ELSE HoldBars

Touching(f, from, to, levels) == {i \in from..to : f[i].range \cap levels # {}}

\* _find_fill_position: a market order fills at the first candle.
FillPositions(f) ==
    IF mode = "MARKET" THEN {1} ELSE Touching(f, 1, Min({Len(f), ExpiryBars}), {"entry"})

\* Variant: any later candle that reaches them counts.
ExitPositionsUnbounded(f, fill) == Touching(f, fill, Len(f), {"stop", "target"})

\* The candles of the holding time that reach the stop or the target.
ExitPositions(f, fill) ==
    Touching(f, fill, Min({Len(f), fill + HoldBars}), {"stop", "target"})

\* The first of them decides, and the policy when it reaches both.
HitRow(f, fill, exit) ==
    LET stop   == "stop" \in f[exit].range
        target == "target" \in f[exit].range
        held   == exit - fill + 1
        closed(reason, observed, r) ==
            Row("closed", reason, observed, fill + Dropped, exit + Dropped, r)
    IN  CASE stop /\ target /\ policy = "ambiguous" ->
                closed("ambiguous_tp_sl", held, NoR)
          [] stop /\ target /\ policy = "stop_first" ->
                closed("ambiguous_stop_first", held, <<-1>>)
          [] stop /\ target /\ policy = "target_first" ->
                closed("ambiguous_target_first", held, <<TargetR>>)
          [] stop /\ ~target -> closed("stop_loss", Len(f), <<-1>>)
          [] target /\ ~stop -> closed("take_profit", Len(f), <<TargetR>>)

\* Variant: the time stop is due one candle early.
HoldOverEarly(f, fill) == Len(f) >= fill + HoldBars - 1

HoldOver(f, fill) == Len(f) >= fill + HoldBars

\* _evaluate_filled_candidate
FilledRow(f, fill) ==
    LET exits == ExitPositions(f, fill)
        last  == Min({Len(f), fill + HoldBars})
    IN  IF ~hasRisk THEN Row("invalid_candidate", "", Len(f), 0, 0, NoR)
        ELSE IF exits # {} THEN HitRow(f, fill, Min(exits))
        ELSE IF HoldOver(f, fill)
             THEN Row("closed", "time_stop", Len(f), fill + Dropped, last + Dropped,
                      <<f[last].close>>)
             ELSE Row("open", "", Len(f), fill + Dropped, 0, NoR)

\* Variant: an entry never expires.
NeverExpired(f) == FALSE

Expired(f) == Len(f) >= ExpiryBars

Label(f) ==
    IF f = <<>> THEN Row("waiting_for_data", "", 0, 0, 0, NoR)
    ELSE IF FillPositions(f) # {} THEN FilledRow(f, Min(FillPositions(f)))
    ELSE Row(IF Expired(f) THEN "entry_not_filled" ELSE "pending_entry", "", Len(f), 0, 0, NoR)

NoData == Row("insufficient_data", "", 0, 0, 0, NoR)

-----------------------------------------------------------------------------
Init ==
    /\ mode \in ModeChoices /\ hasRisk \in RiskChoices
    /\ policy \in Policies /\ writeAll \in WriteAllChoices /\ midCandle \in MidCandleChoices
    /\ bars = <<>> /\ growing = FALSE /\ provider = TRUE /\ latest = <<>>

OpenCandle(close) ==
    /\ ~growing /\ Len(bars) < MaxBars
    /\ bars' = Append(bars, [range |-> {}, close |-> close])
    /\ growing' = TRUE
    /\ UNCHANGED <<settings, provider, latest>>

\* The price moves, and the range of the candle can only grow.
PriceMoves(candle) ==
    /\ growing
    /\ bars[Len(bars)].range \subseteq candle.range
    /\ bars' = [bars EXCEPT ![Len(bars)] = candle]
    /\ UNCHANGED <<settings, growing, provider, latest>>

CandleCloses ==
    /\ growing
    /\ growing' = FALSE
    /\ UNCHANGED <<settings, bars, provider, latest>>

ProviderChanges ==
    /\ provider' = ~provider
    /\ UNCHANGED <<settings, bars, growing, latest>>

\* _should_skip
ShouldSkip(row) ==
    /\ latest # <<>> /\ ~writeAll
    /\ LET previous == Head(latest)
       IN  \/ Terminal(previous)
           \/ /\ previous.status = row.status /\ previous.reason = row.reason
              /\ previous.observed = row.observed

\* One run of the tracker: label, and append unless there is nothing new.
Track ==
    /\ growing => midCandle
    /\ LET row == IF provider THEN Label(Future) ELSE NoData
       IN  latest' = IF ShouldSkip(row) THEN latest ELSE <<row>>
    /\ UNCHANGED <<settings, bars, growing, provider>>

Market == (\E c \in Closes : OpenCandle(c)) \/ (\E k \in Candle : PriceMoves(k)) \/ CandleCloses

Next == Market \/ ProviderChanges \/ Track

\* Candles go on being opened and closed, and the tracker is run again and
\* again.  Nothing is assumed of the provider.
Spec ==
    /\ Init /\ [][Next]_vars
    /\ WF_vars(\E c \in Closes : OpenCandle(c)) /\ WF_vars(CandleCloses) /\ WF_vars(Track)

-----------------------------------------------------------------------------
\* Every variable has its type.
TypeOK ==
    /\ mode \in ModeChoices /\ hasRisk \in RiskChoices
    /\ policy \in Policies /\ writeAll \in WriteAllChoices /\ midCandle \in MidCandleChoices
    /\ bars \in Seq(Candle) /\ growing \in BOOLEAN /\ provider \in BOOLEAN
    /\ Len(latest) <= 1
    /\ \A i \in DOMAIN latest :
          /\ latest[i].status \in Statuses /\ latest[i].reason \in Reasons
          /\ latest[i].observed \in 0..MaxBars
          /\ latest[i].fill \in 0..MaxBars /\ latest[i].exit \in 0..MaxBars
          /\ latest[i].exit > 0 <=> latest[i].status = "closed"

ClosedRows == {latest[i] : i \in {j \in DOMAIN latest : latest[j].status = "closed"}}

\* A closed label tells what the whole history tells: the candidate was filled
\* where it says, nothing was hit between, and the exit candle has the level it
\* names, or the time stop came after the holding time without any hit.
ClosedLabelsTrue ==
    \A row \in ClosedRows :
        LET between == Touching(bars, row.fill, row.exit - 1, {"stop", "target"})
        IN  /\ row.fill \in 1..row.exit /\ row.exit \in 1..Len(bars)
            /\ IF mode = "MARKET" THEN row.fill = 1
               ELSE /\ "entry" \in bars[row.fill].range
                    /\ Touching(bars, 1, row.fill - 1, {"entry"}) = {}
            /\ between = {}
            /\ row.reason = "time_stop" => row.exit = row.fill + HoldBars
            /\ row.reason \in {"stop_loss", "ambiguous_stop_first", "ambiguous_tp_sl"} =>
                  "stop" \in bars[row.exit].range
            /\ row.reason \in {"take_profit", "ambiguous_target_first", "ambiguous_tp_sl"} =>
                  "target" \in bars[row.exit].range

\* A time stop is marked at the close of its candle, and that candle did not
\* reach stop or target.
TimeStopsAtClose ==
    ~growing =>
        \A row \in ClosedRows :
            row.reason = "time_stop" =>
                /\ row.r = <<bars[row.exit].close>>
                /\ bars[row.exit].range \cap {"stop", "target"} = {}

\* A label "not filled" means the entry was not touched before it expired.
NotFilledIsTrue ==
    \A i \in DOMAIN latest :
        latest[i].status = "entry_not_filled" =>
            Touching(bars, 1, Min({Len(bars), ExpiryBars}), {"entry"}) = {}

\* The labels that look at the last candle as a whole are right when the tracker
\* only runs between candles.
LabelsOfWholeCandles == ~midCandle => TimeStopsAtClose /\ NotFilledIsTrue

\* Two labels say the same of the trade; how many candles they saw may differ.
SameOutcome(row, other) ==
    /\ row.status = other.status /\ row.reason = other.reason
    /\ row.fill = other.fill /\ row.exit = other.exit /\ row.r = other.r

\* Nothing is lost by skipping a candidate once its label is terminal: what was
\* written when the candles were fewer is what a run over all of them would
\* write now, so the outcome does not depend on when, or how often, the tracker
\* happened to run.  (Between candles, and while the history limit reaches back
\* to the candidate: a growing candle may still hit the other level, and a moved
\* window would be labelled as if it began with the candidate.)
TerminalLabelsStand ==
    ~midCandle /\ ~growing /\ Dropped = 0 =>
        \A i \in DOMAIN latest :
            Terminal(latest[i]) => SameOutcome(Label(Future), latest[i])

\* When the provider is up from some time on and there are candles enough, every
\* valid candidate gets a terminal label.
LabelsSettle ==
    hasRisk /\ <>[]provider => <>(latest # <<>> /\ Terminal(Head(latest)))

\* Every label is true of the whole history.
LabelsTrue == TypeOK /\ ClosedLabelsTrue /\ LabelsOfWholeCandles
=============================================================================
