-------------------------- MODULE MCBacktestRunner --------------------------
(***************************************************************************)
(* The engine: two pairs that share a currency; a run of one protected     *)
(* segment, a walk-forward by the calendar and one by bars, a train and a  *)
(* test window each; frames of seven bars, so that a pair has room for two *)
(* trades.  The runners: two processes, two starts, and the command lines  *)
(* below.                                                                  *)
(***************************************************************************)
EXTENDS BacktestRunner

CONSTANTS EURUSD, GBPUSD, EUR, GBP, USD

MCPairs == {EURUSD, GBPUSD}
MCCurrencies == {EUR, GBP, USD}
MCBase == [p \in MCPairs |-> IF p = EURUSD THEN EUR ELSE GBP]
MCQuote == [p \in MCPairs |-> USD]
MCOrder == <<EURUSD, GBPUSD>>

MCPrograms ==
    {<<[start |-> 0, from |-> 0, end |-> 7, protected |-> TRUE, realistic |-> TRUE]>>,
     CalendarWindows(0, 14, 7, 7, 7, FALSE, FALSE),
     BarWindows(10, 5, 4, 4, TRUE, FALSE)}

Bar(low, high, close) == [low |-> low, high |-> high, close |-> close]
\* Quiet; up to the trailing start; through the stop of a BUY and the first
\* target of a SELL; through everything.
MCBars == {Bar(-1, 1, 0), Bar(1, 4, 3), Bar(-3, 1, 1), Bar(-5, 5, 1)}

Legacy == [adaptive |-> FALSE, partials |-> <<[r |-> 1, size |-> 2]>>, targetR |-> 2, hold |-> 0,
               breakEvenR |-> 1, trailing |-> TRUE, trailingStartR |-> 1, lookback |-> 2,
               atrTrailing |-> FALSE, liquidityTrailing |-> FALSE]
Adaptive == [adaptive |-> TRUE,
             partials |-> <<[r |-> 1, size |-> 2], [r |-> 3, size |-> 2]>>,
             targetR |-> 3, hold |-> 2, breakEvenR |-> 0, trailing |-> TRUE,
             trailingStartR |-> 1, lookback |-> 1, atrTrailing |-> TRUE,
             liquidityTrailing |-> TRUE]
MCPlans == {Legacy, Adaptive}

MCBaseSettings ==
    [config |-> "plain", profile |-> "none", exit |-> "plain", risk |-> "plain", filter |-> "off",
     execution |-> "mild"]

MCProfileSteps ==
    [p \in {"none", "step3", "blocked", "strong", "disabled", "floor8", "floor10", "floor12", "floor14"} |->
        IF p = "none" THEN 0 ELSE 2]

MCWorth == ("fast" :> 1) @@ ("exit_v2" :> 2) @@ ("harsh" :> -1) @@ ("range_bonus_4" :> 1)
           @@ ("all_features" :> 1) @@ ("range_fast" :> 1)

Request(runner, names) ==
    [runner |-> runner, names |-> names, presets |-> <<"moderate">>, preset |-> "strict_ltf_step3_v1",
     strict |-> TRUE, places |-> <<<<3, 1>>>>, end |-> 0, tradeCache |-> FALSE, refresh |-> FALSE,
     snapshots |-> TRUE, cacheOnly |-> FALSE, maxRuns |-> 0, grid |-> FALSE, conditional |-> TRUE,
     bonuses |-> <<>>, compare |-> FALSE]

Stress == [Request("stress", <<"mild", "harsh">>) EXCEPT !.tradeCache = TRUE, !.preset = "step3"]
Baseline == [Request("hypothesis", <<"baseline", "timeout_fast">>) EXCEPT
                !.tradeCache = TRUE, !.presets = <<"harsh">>, !.end = 3]
Several == [Request("hypothesis", <<"baseline", "no_expansion_continuation">>) EXCEPT !.snapshots = FALSE]
Exits == [Request("exit", <<"exit_default", "range_fast">>) EXCEPT !.tradeCache = TRUE]
Tiers == [Request("tier", <<"baseline", "exit_v2">>) EXCEPT !.places = <<<<3, 1>>, <<2, 2>>>>, !.maxRuns = 3]
Structure == Request("structure", <<"baseline", "range_bonus_4">>)
Ablation == [Request("ablation", <<>>) EXCEPT !.places = <<<<3, 1>>, <<2, 1>>>>]
Main == [Request("main", <<>>) EXCEPT !.tradeCache = TRUE, !.compare = TRUE]
Shadow == Request("validate_shadow", <<>>)

Pinned == [Stress EXCEPT !.end = 3, !.names = <<"harsh">>]
Refresh == [Pinned EXCEPT !.refresh = TRUE]

\* Runners that share files, or one that shares decisions with itself.
MCSessions ==
    {<<Pinned, Refresh, Pinned>>, <<Refresh, Refresh, Refresh>>, <<Pinned, Baseline>>,
     <<Exits, [Exits EXCEPT !.names = <<"range_fast">>]>>,
     <<Stress>>, <<Several>>, <<Tiers>>, <<Structure>>, <<Ablation>>, <<Main>>, <<Shadow>>}

\* The documented release-candidate command.
Candidate ==
    [Request("hypothesis", <<"timeout_fast", "no_expansion_continuation">>) EXCEPT !.tradeCache = TRUE]
MCCandidates == {<<Candidate>>}
=============================================================================
