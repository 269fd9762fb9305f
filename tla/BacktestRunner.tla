--------------------------- MODULE BacktestRunner ---------------------------
(***************************************************************************)
(* backtest_runner.py and the calibration runners of research/: what is    *)
(* run, with which settings, and what is kept of it.  A runner works       *)
(* through its scenarios one engine at a time; the engines of a process    *)
(* share the decisions of the signal engine (snapshot_cache.py), and all   *)
(* processes share the results of whole runs (trade_cache.py), in files    *)
(* that outlive them.  The report is rewritten after every scenario.       *)
(*                                                                         *)
(* A process replays either the segments of Backtest bar by bar, or a      *)
(* suite of scenarios in which a whole run of the engine is one step.  The *)
(* engine is deterministic, so that a run is known by what it was computed *)
(* from: a decision by the settings and the candles evaluate_snapshot saw, *)
(* a result by its decisions and the settings of its trades.               *)
(***************************************************************************)
EXTENDS Backtest

CONSTANTS
    Processes,
    Sessions,       \* sequences of command lines, one for each process started
    BaseSettings,   \* Settings.from_env
    ProfileSteps,   \* evaluation_step of a pair profile, 0 for none
    Worth,          \* what a setting is worth to candidate_score
    Oldest, Newest, \* newest candle of the market data, at first and at last
    Capacity        \* max_entries of the snapshot cache

ASSUME RunnerAssumption ==
    /\ IsFiniteSet(Processes)
    /\ Oldest \in Nat \ {0} /\ Newest >= Oldest /\ Capacity > 0

VARIABLES
    suite,          \* a suite of scenarios, or the detailed engine
    session,        \* the command lines of the suite
    newest,         \* newest candle of the market data
    process,        \* the runners, with the report each has written
    files, partial, \* the trade cache: its files, and those being written
    starts

suiteVars == <<suite, session, newest, process, files, partial, starts>>
allVars == <<vars, suiteVars>>

-----------------------------------------------------------------------------
(* The windows of a walk-forward, as the segments of Backtest.             *)

\* Months or days: walk_forward.py, and tier_calibration with --walk-forward.
\* A test window starts where its train window ends, the next pair of windows
\* a step later.
CalendarWindows(first, final, train, test, step, protected, realistic) ==
    LET Part(from, to) ==
            [start |-> from, from |-> from, end |-> to, protected |-> protected, realistic |-> realistic]
        Fold(from) == <<Part(from, from + train), Part(from + train, from + train + test)>>
        fit == final - first - train - test
    IN  IF fit < 0 THEN <<>> ELSE FlattenSeq([k \in 1..(fit \div step) + 1 |-> Fold(first + (k - 1) * step)])

\* Bars: tier_calibration with --bar-walk-forward.  The frames go back to
\* their first bar, and only the scan starts at the window.
BarWindows(bars, train, test, step, protected, realistic) ==
    LET least == Max({train, Warmup + MaxHold + 1})
        Part(from, to) ==
            [start |-> 0, from |-> from, end |-> to, protected |-> protected, realistic |-> realistic]
        Fold(c) == <<Part(Max({0, c - train}), c), Part(c, Min({c + test, bars - 1}))>>
        fit == bars - 1 - least - test
    IN  IF fit < 0 THEN <<>> ELSE FlattenSeq([k \in 1..(fit \div step) + 1 |-> Fold(least + (k - 1) * step)])

-----------------------------------------------------------------------------
(* The scenarios.  Settings are [config, profile, exit, risk, filter,      *)
(* execution]: config is all that the snapshot key names, profile the      *)
(* pair profiles, which it does not name.                                  *)

Job(r, name, settings, place, end, tag) ==
    [runner |-> r.runner, name |-> name, settings |-> settings,
     history |-> place[1], step |-> place[2], end |-> end, tag |-> tag]

\* for a in as: for b in bs
Cross(as, bs) == FlattenSeq([i \in DOMAIN as |-> [k \in DOMAIN bs |-> <<as[i], bs[k]>>]])

Distinct(names) ==
    FoldLeft(LAMBDA acc, n : IF n \in ToSet(acc) THEN acc ELSE Append(acc, n), <<>>, names)

\* phase3_stress_validation
StressPresets == <<"ideal", "mild", "moderate", "harsh">>

SignalProfile(s, r) ==
    [s EXCEPT !.config = IF r.strict THEN "strict" ELSE @,
              !.profile = IF r.preset = "current" THEN @ ELSE r.preset]

StressJobs(r) ==
    LET Run(name) == Job(r, name, [SignalProfile(BaseSettings, r) EXCEPT !.execution = name],
                         r.places[1], r.end, <<r.preset>>)
        names == IF r.names = <<"all">> THEN StressPresets ELSE Distinct(r.names)
    IN  [i \in DOMAIN names |-> Run(names[i])]

\* phase3_hypothesis_calibration: name -> <<profile, exit, filter>>
Hypotheses ==
    ("baseline" :> <<"step3", "plain", "off">>)
    @@ ("block_expansion" :> <<"blocked", "plain", "off">>)
    @@ ("fallback_strong" :> <<"strong", "plain", "off">>)
    @@ ("fallback_disabled" :> <<"disabled", "plain", "off">>)
    @@ ("timeout_fast" :> <<"step3", "fast", "off">>)
    @@ ("timeout_fast_fallback_strong" :> <<"strong", "fast", "off">>)
    @@ ("timeout_fast_block_expansion" :> <<"blocked", "fast", "off">>)
    @@ ("timeout_fast_fallback_8" :> <<"floor8", "fast", "off">>)
    @@ ("timeout_fast_fallback_10" :> <<"floor10", "fast", "off">>)
    @@ ("timeout_fast_fallback_12" :> <<"floor12", "fast", "off">>)
    @@ ("timeout_fast_fallback_14" :> <<"floor14", "fast", "off">>)
    @@ ("no_expansion_continuation_fallback" :> <<"floor8", "fast", "fallback">>)
    @@ ("no_expansion_continuation" :> <<"floor8", "fast", "all">>)

HypothesisSettings(name) ==
    [BaseSettings EXCEPT !.config = "strict", !.profile = Hypotheses[name][1],
                         !.exit = Hypotheses[name][2], !.filter = Hypotheses[name][3]]

\* The baseline goes by the key of the stress runner.
HypothesisJobs(r) ==
    LET Tag(name) == IF name = "baseline" THEN <<"step3">> ELSE <<"phase3_hypothesis", name>>
        Run(x) == Job([r EXCEPT !.runner = "stress"], x[2],
                      [HypothesisSettings(x[1]) EXCEPT !.execution = x[2]], r.places[1], r.end, Tag(x[1]))
        pairs == Cross(r.names, r.presets)
    IN  [i \in DOMAIN pairs |-> Run(pairs[i])]

\* exit_calibration.  Like the runners below, it never passes the pre-trade
\* filter on.
ExitScenarios ==
    <<"baseline_legacy", "exit_default", "hybrid_balanced", "range_fast", "range_soft",
      "trend_runner", "late_be_runner", "no_partials_runner", "atr_trailing",
      "liquidity_trailing", "volatility_rr", "vol_rr_f075", "vol_rr_f085", "vol_rr_f095">>

SelectedExits(names) ==
    LET Expand(n) == IF n = "volatility_grid" THEN SubSeq(ExitScenarios, 12, 14) ELSE <<n>>
    IN  IF names = <<"all">> THEN ExitScenarios
        ELSE Distinct(FlattenSeq([i \in DOMAIN names |-> Expand(names[i])]))

ExitJobs(r) ==
    LET Run(name) == Job(r, name, [BaseSettings EXCEPT !.exit = name, !.filter = "off"],
                         r.places[1], r.end, <<>>)
        names == SelectedExits(r.names)
    IN  [i \in DOMAIN names |-> Run(names[i])]

\* tier_calibration: name -> <<config, exit, risk>>
TierScenarios ==
    ("baseline" :> <<"plain", "plain", "plain">>)
    @@ ("exit_v2" :> <<"plain", "exit_v2", "plain">>)
    @@ ("weights_v1" :> <<"weights", "plain", "plain">>)
    @@ ("weights_v1_sizing" :> <<"weights", "plain", "sizing">>)
    @@ ("weights_v1_portfolio_c045" :> <<"weights", "plain", "portfolio045">>)
    @@ ("sizing_only" :> <<"plain", "plain", "sizing">>)
    @@ ("exit_sizing" :> <<"plain", "exit_v2", "sizing">>)
    @@ ("portfolio_c045" :> <<"plain", "plain", "portfolio045">>)
    @@ ("exit_portfolio_c045" :> <<"plain", "exit_v2", "portfolio045">>)
    @@ ("tier2_meta_052" :> <<"plain", "exit_v2", "meta052">>)
    @@ ("tier2_meta_055" :> <<"plain", "exit_v2", "meta055">>)
    @@ ("tier2_meta_058" :> <<"plain", "exit_v2", "meta058">>)
    @@ ("tier3_c045" :> <<"plain", "exit_v2", "tier045">>)
    @@ ("tier3_c055" :> <<"plain", "exit_v2", "tier055">>)

TierSettings(name) ==
    [BaseSettings EXCEPT !.config = TierScenarios[name][1], !.exit = TierScenarios[name][2],
                         !.risk = TierScenarios[name][3], !.filter = "off"]

\* BACKTEST_END_TIME is not passed on, here and below.
TierJobs(r) ==
    LET Run(x) == Job(r, x[2], TierSettings(x[2]), x[1], 0, <<>>)
        all == Cross(r.places, r.names)
        most == IF r.maxRuns > 0 THEN Min({r.maxRuns, Len(all)}) ELSE Len(all)
    IN  [i \in 1..most |-> Run(all[i])]

\* structure_quality_calibration
StructureScenarios(r) ==
    LET conditional == <<"range_bonus_4", "usdjpy_bonus_4", "usdjpy_range_bonus_4",
                         "exclude_gbpusd_bonus_4", "range_bonus_2", "range_bonus_3",
                         "range_bonus_4", "range_bonus_5">>
        all == <<"baseline">> \o (IF r.grid THEN r.bonuses ELSE <<>>)
                              \o (IF r.conditional THEN conditional ELSE <<>>)
    IN  SelectSeq(Distinct(all), LAMBDA n : r.names = <<>> \/ n \in ToSet(r.names))

StructureJobs(r) ==
    LET Settings(name) == [BaseSettings EXCEPT !.config = name, !.filter = "off"]
        Run(x) == Job(r, x[2], Settings(x[2]), x[1], 0, <<>>)
        all == Cross(r.places, StructureScenarios(r))
    IN  [i \in DOMAIN all |-> Run(all[i])]

\* smc_feature_ablation: one run for each place; the scenarios select among
\* its trades.
AblationPredicates ==
    <<"baseline", "strict_structure_score", "fresh_ob_score", "relaxed_fvg_score",
      "strict_structure_plus_fresh_ob", "strict_structure_plus_relaxed_fvg",
      "fresh_ob_plus_relaxed_fvg", "all_features">>

AblationJobs(r) ==
    [i \in DOMAIN r.places |->
        Job(r, "ablation", [BaseSettings EXCEPT !.filter = "off"], r.places[i], 0, <<>>)]

\* backtest_runner: one run, or the two sides of a validation.
MainJobs(r) == <<Job(r, "main", BaseSettings, r.places[1], r.end, <<>>)>>

Sides == ("validate_mitigation" :> <<"no_mitigation", "mitigation">>)
         @@ ("validate_shadow" :> <<"no_shadow", "shadow">>)

ValidationJobs(r) ==
    <<Job(r, "baseline", [BaseSettings EXCEPT !.config = Sides[r.runner][1]], r.places[1], r.end, <<>>)>>

Jobs(r) ==
    CASE r.runner = "stress" -> StressJobs(r)
      [] r.runner = "hypothesis" -> HypothesisJobs(r)
      [] r.runner = "exit" -> ExitJobs(r)
      [] r.runner = "tier" -> TierJobs(r)
      [] r.runner = "structure" -> StructureJobs(r)
      [] r.runner = "ablation" -> AblationJobs(r)
      [] r.runner = "main" -> MainJobs(r)
      [] OTHER -> ValidationJobs(r)

\* What the first run of a report is set against: in backtest_runner the same
\* run without costs, in a validation its shadow side.
OtherJob(r, j) ==
    IF r.runner = "main" THEN [j EXCEPT !.settings.execution = "ideal"]
    ELSE [j EXCEPT !.name = "shadow", !.settings.config = Sides[r.runner][2]]

-----------------------------------------------------------------------------
(* A run of the engine, and the decisions its process remembers.  A        *)
(* decision is a function of the settings of the signal engine and of the  *)
(* candles from the first of the frames to the bar.                        *)

LastCandle(j, l) == IF j.end = 0 THEN l ELSE Min({j.end, l})
FirstCandle(j, l) == Max({1, LastCandle(j, l) - j.history + 1})

\* The step of a pair profile comes before the one of the command line.
PairStep(j) ==
    IF ProfileSteps[j.settings.profile] > 0 THEN ProfileSteps[j.settings.profile] ELSE Max({1, j.step})

EvaluatedBars(j, l) ==
    LET first == FirstCandle(j, l)
    IN  [k \in 1..((LastCandle(j, l) - first) \div PairStep(j)) + 1 |-> first + (k - 1) * PairStep(j)]

Decide(settings, first, bar) ==
    [config |-> settings.config, profile |-> settings.profile, first |-> first, bar |-> bar]

\* The profile of the pair is not part of the key.
SnapshotKey(settings, first, bar) ==
    [config |-> settings.config, bar |-> bar, count |-> bar - first + 1]

\* The cache is a sequence of entries, the least recently used one first.
Remembered(cache, key) == {k \in DOMAIN cache : cache[k].key = key}

Put(cache, key, decision) ==
    LET others == SelectSeq(cache, LAMBDA e : e.key # key)
        all == Append(others, [key |-> key, decision |-> decision])
    IN  IF Len(all) > Capacity THEN Tail(all) ELSE all

\* evaluate_snapshot at every bar of a run.
Decisions(j, l) ==
    [k \in DOMAIN EvaluatedBars(j, l) |-> Decide(j.settings, FirstCandle(j, l), EvaluatedBars(j, l)[k])]

\* A run that could not load its frames is a result with an error.
ResultOf(j, decisions, failed) ==
    [decisions |-> IF failed THEN <<>> ELSE decisions, failed |-> failed, exit |-> j.settings.exit,
     risk |-> j.settings.risk, filter |-> j.settings.filter, execution |-> j.settings.execution]

\* What the run would be without any cache.
Fresh(j, l) == ResultOf(j, Decisions(j, l), FALSE)

-----------------------------------------------------------------------------
(* The ranking of a report.                                                *)

WorthOf(name) == IF name \in DOMAIN Worth THEN Worth[name] ELSE 0

\* candidate_score; an empty result has the penalty for too few trades.
Score(row) ==
    IF row.result.failed THEN -3
    ELSE WorthOf(row.job.settings.config) + WorthOf(row.result.exit)
         + WorthOf(row.result.risk) + WorthOf(row.result.execution)

\* float(candidate_score or -999.0)
HypothesisKey(row) == IF Score(row) = 0 THEN -999 ELSE Score(row)

\* Twice the score: the margin over the baseline of the same place counts half.
StructureKey(row, rows) ==
    LET base == {k \in DOMAIN rows : /\ rows[k].job.name = "baseline"
                                     /\ rows[k].job.history = row.job.history
                                     /\ rows[k].job.step = row.job.step}
    IN  2 * Score(row) + (IF base = {} THEN 0 ELSE Score(row) - Score(rows[Max(base)]))

\* The rows to rank, each with the number it is ranked by and its place.
Ranked(r, rows) ==
    LET Entry(k, predicate, key) == [row |-> rows[k], predicate |-> predicate, key |-> key, at |-> k]
        Kept(k) == r.runner # "structure" \/ rows[k].job.name # "baseline"
        Key(k) == CASE r.runner = "hypothesis" -> HypothesisKey(rows[k])
                    [] r.runner = "structure" -> StructureKey(rows[k], rows)
                    [] OTHER -> Score(rows[k])
        Ablated(k) == [m \in DOMAIN AblationPredicates |->
                          Entry(k, m, Score(rows[k]) + WorthOf(AblationPredicates[m]))]
        Entries(k) == IF r.runner = "ablation" THEN Ablated(k)
                      ELSE IF Kept(k) THEN <<Entry(k, 1, Key(k))>> ELSE <<>>
    IN  FlattenSeq([k \in DOMAIN rows |-> Entries(k)])

\* sorted(..., reverse=True) keeps equals in their order.
Ranking(r, rows) ==
    LET Before(a, b) == \/ a.key > b.key
                        \/ a.key = b.key /\ a.at < b.at
                        \/ a.key = b.key /\ a.at = b.at /\ a.predicate < b.predicate
    IN  SortSeq(Ranked(r, rows), Before)

-----------------------------------------------------------------------------
(* The processes.                                                          *)

NoProcess ==
    [phase |-> "idle", asked |-> <<>>, todo |-> <<>>, next |-> 1, loaded |-> 0, snapshots |-> <<>>,
     result |-> <<>>, other |-> <<>>, rows |-> <<>>, writing |-> "none"]

RunnerInit ==
    /\ Init /\ suite \in BOOLEAN
    /\ suite => program = CHOOSE p \in Programs : TRUE
    /\ session \in IF suite THEN Sessions ELSE {<<>>}
    /\ newest = Oldest /\ process = [p \in Processes |-> NoProcess]
    /\ files = {} /\ partial = {} /\ starts = 0

Asked(p) == process[p].asked[1]
Todo(p) == process[p].todo
Current(p) == Todo(p)[process[p].next]

\* Variant: the exit profile is left out of the key.
CacheKeyWithoutExit(p) ==
    LET j == Current(p)
    IN  [runner |-> j.runner, tag |-> <<>>, settings |-> [j.settings EXCEPT !.exit = "any"],
         history |-> j.history, step |-> j.step, end |-> j.end, cacheOnly |-> Asked(p).cacheOnly]

\* stable_cache_key: nothing of the candles is in it.
CacheKey(p) ==
    LET j == Current(p)
    IN  [runner |-> j.runner, tag |-> j.tag, settings |-> j.settings, history |-> j.history,
         step |-> j.step, end |-> j.end, cacheOnly |-> Asked(p).cacheOnly]

Running(p) == process[p].phase \notin {"idle", "done", "dead"}

Become(p, changed) == process' = [process EXCEPT ![p] = changed]

Dead(p) == [process[p] EXCEPT !.phase = "dead", !.snapshots = <<>>, !.writing = "none"]

Start(p) ==
    /\ ~Running(p) /\ starts < Len(session)
    /\ starts' = starts + 1
    /\ Become(p, [NoProcess EXCEPT !.phase = "load", !.asked = <<session[starts + 1]>>,
                               !.todo = Jobs(session[starts + 1])])
    /\ UNCHANGED <<newest, files, partial>>

\* load: the file of the key, when the request lets it be used.
Stored(p) == {f \in files : Asked(p).tradeCache /\ ~Asked(p).refresh /\ f.key = CacheKey(p)}

Loading(p) == process[p].phase = "load" /\ process[p].next <= Len(Todo(p))

LoadHit(p) ==
    /\ Loading(p)
    /\ \E f \in Stored(p) : f.whole /\ Become(p, [process[p] EXCEPT !.phase = "ready", !.result = f.content])
    /\ UNCHANGED <<newest, files, partial, starts>>

\* json.loads raises, and nothing catches it.
LoadTorn(p) ==
    /\ Loading(p)
    /\ \E f \in Stored(p) : ~f.whole
    /\ Become(p, Dead(p))
    /\ UNCHANGED <<newest, files, partial, starts>>

Validation(r) == r.runner \in DOMAIN Sides

AfterRun(p) == IF Asked(p).tradeCache /\ ~Validation(Asked(p)) THEN "open" ELSE "ready"

\* Each engine of backtest_runner has a snapshot cache of its own.
Shared(r) == r.snapshots /\ r.runner # "main" /\ ~Validation(r)

\* load_pair_frames; run_pair turns a provider failure into a result.
LoadFrames(p) ==
    /\ Loading(p) /\ Stored(p) = {} /\ ~Validation(Asked(p))
    /\ \E failed \in BOOLEAN :
          Become(p, [process[p] EXCEPT !.phase = IF failed THEN AfterRun(p) ELSE "scan", !.loaded = newest,
                                       !.result = <<ResultOf(Current(p), <<>>, failed)>>])
    /\ UNCHANGED <<newest, files, partial, starts>>

\* A turn of the scan: get, else evaluate and put.
EvaluateBar(p) ==
    /\ process[p].phase = "scan"
    /\ LET j == Current(p)
           bars == EvaluatedBars(j, process[p].loaded)
           cache == process[p].snapshots
           done == Len(process[p].result[1].decisions) + 1
           first == FirstCandle(j, process[p].loaded)
           key == SnapshotKey(j.settings, first, bars[done])
           known == IF Shared(Asked(p)) THEN Remembered(cache, key) ELSE {}
       IN  \E decision \in IF known # {} THEN {cache[k].decision : k \in known}
                           ELSE {Decide(j.settings, first, bars[done])} :
              Become(p, [process[p] EXCEPT
                            !.phase = IF done = Len(bars) THEN AfterRun(p) ELSE "scan",
                            !.result[1].decisions = Append(@, decision),
                            !.snapshots = IF Shared(Asked(p)) THEN Put(cache, key, decision) ELSE @])
    /\ UNCHANGED <<newest, files, partial, starts>>

\* BacktestValidationRunner.run: both sides from the frames loaded once.
RunBoth(p) ==
    /\ Loading(p) /\ Validation(Asked(p))
    /\ \E failed \in BOOLEAN :
          LET Side(j) == ResultOf(j, Decisions(j, newest), failed)
          IN  Become(p, [process[p] EXCEPT !.phase = "report", !.result = <<Side(Current(p))>>,
                             !.other = <<Side(OtherJob(Asked(p), Current(p)))>>])
    /\ UNCHANGED <<newest, files, partial, starts>>

\* store: the temporary file has one name for all processes, and opening it
\* empties what another may have written there.  writers is not in the code:
\* the processes whose work on the file overlapped.
Others(p) == {q \in Processes \ {p} : process[q].phase \in {"write", "replace"} /\ CacheKey(q) = CacheKey(p)}

Without(entries, key) == {f \in entries : f.key # key}

\* Variant: the result is written in place.
OpenTarget(p) ==
    /\ process[p].phase = "open"
    /\ files' = Without(files, CacheKey(p))
                \cup {[key |-> CacheKey(p), whole |-> FALSE, content |-> <<>>, writers |-> {p} \cup Others(p)]}
    /\ Become(p, [process[p] EXCEPT !.phase = "write", !.writing = "file"])
    /\ UNCHANGED <<newest, partial, starts>>

OpenTmp(p) ==
    /\ process[p].phase = "open"
    /\ partial' = Without(partial, CacheKey(p))
                  \cup {[key |-> CacheKey(p), whole |-> FALSE, content |-> <<>>, writers |-> {p} \cup Others(p)]}
    /\ Become(p, [process[p] EXCEPT !.phase = "write", !.writing = "partial"])
    /\ UNCHANGED <<newest, files, starts>>

\* Written over the text of another process, the longer of the two shows.
Overwritten(f, result) ==
    {[f EXCEPT !.whole = whole, !.content = IF whole THEN <<result>> ELSE <<>>] :
        whole \in IF f.content \in {<<>>, <<result>>} THEN {TRUE} ELSE BOOLEAN}

WriteTmp(p) ==
    /\ process[p].phase = "write"
    /\ LET result == process[p].result[1]
           WriteOver(entries) ==
              UNION {{Without(entries, f.key) \cup {g} : g \in Overwritten(f, result)} :
                        f \in {e \in entries : e.key = CacheKey(p)}}
       IN  \/ process[p].writing = "partial" /\ partial' \in WriteOver(partial) /\ UNCHANGED files
           \/ process[p].writing = "file" /\ files' \in WriteOver(files) /\ UNCHANGED partial
           \/ process[p].writing = "gone" /\ UNCHANGED <<files, partial>>
    /\ Become(p, [process[p] EXCEPT !.phase = "replace", !.writing = "none"])
    /\ UNCHANGED <<newest, starts>>

\* What another process has open moves along with its name.
Moved(p, q) ==
    IF q \notin Others(p) THEN process[q]
    ELSE [process[q] EXCEPT !.writing = CASE @ = "partial" -> "file" [] @ = "file" -> "gone" [] OTHER -> @]

Replace(p) ==
    /\ process[p].phase = "replace"
    /\ \E f \in partial :
          /\ f.key = CacheKey(p)
          /\ files' = Without(files, f.key) \cup {f}
          /\ partial' = partial \ {f}
    /\ process' = [q \in Processes |->
                      IF q = p THEN [process[p] EXCEPT !.phase = "ready"] ELSE Moved(p, q)]
    /\ UNCHANGED <<newest, starts>>

\* Another process has moved the file away: FileNotFoundError.
ReplaceFails(p) ==
    /\ process[p].phase = "replace"
    /\ \A f \in partial : f.key # CacheKey(p)
    /\ Become(p, Dead(p))
    /\ UNCHANGED <<newest, files, partial, starts>>

\* print_realistic_comparison, unless skipped: a second engine, on the
\* candles as they are by then.
Compare(p) ==
    /\ process[p].phase = "ready" /\ Asked(p).runner = "main" /\ Asked(p).compare
    /\ \E failed \in BOOLEAN :
          LET j == OtherJob(Asked(p), Current(p))
          IN  Become(p, [process[p] EXCEPT !.phase = "report",
                             !.other = <<ResultOf(j, Decisions(j, newest), failed)>>])
    /\ UNCHANGED <<newest, files, partial, starts>>

\* The row is appended and the report rewritten with its ranking.
Report(p) ==
    /\ \/ process[p].phase = "report"
       \/ process[p].phase = "ready" /\ ~(Asked(p).runner = "main" /\ Asked(p).compare)
    /\ LET row == [job |-> Current(p), result |-> process[p].result[1], other |-> process[p].other]
       IN  Become(p, [process[p] EXCEPT !.phase = "load", !.next = @ + 1, !.loaded = 0, !.result = <<>>, !.other = <<>>,
                                        !.rows = Append(@, row)])
    /\ UNCHANGED <<newest, files, partial, starts>>

FinishSuite(p) ==
    /\ process[p].phase = "load" /\ process[p].next > Len(Todo(p))
    /\ Become(p, [process[p] EXCEPT !.phase = "done", !.snapshots = <<>>])
    /\ UNCHANGED <<newest, files, partial, starts>>

\* The report keeps what was written; what is open for writing stays as it is.
Crash(p) ==
    /\ Running(p)
    /\ Become(p, Dead(p))
    /\ UNCHANGED <<newest, files, partial, starts>>

NewestGrows ==
    /\ newest < Newest /\ newest' = newest + 1
    /\ UNCHANGED <<process, files, partial, starts>>

Work(p) ==
    \/ LoadHit(p) \/ LoadTorn(p) \/ LoadFrames(p) \/ EvaluateBar(p) \/ RunBoth(p)
    \/ OpenTmp(p) \/ WriteTmp(p) \/ Replace(p) \/ ReplaceFails(p)
    \/ Compare(p) \/ Report(p) \/ FinishSuite(p)

InSuite(A) == suite /\ A /\ UNCHANGED <<suite, session, vars>>

RunnerNext ==
    \/ ~suite /\ Next /\ UNCHANGED suiteVars
    \/ InSuite(\E p \in Processes : Start(p))
    \/ InSuite(\E p \in Processes : Work(p))
    \/ InSuite(\E p \in Processes : Crash(p))
    \/ InSuite(NewestGrows)

RunnerSpec ==
    /\ RunnerInit /\ [][RunnerNext]_allVars
    /\ WF_allVars(~suite /\ Next /\ UNCHANGED suiteVars)
    /\ \A p \in Processes : WF_allVars(InSuite(Work(p)))

-----------------------------------------------------------------------------
(* Properties.                                                             *)

FreshAt(j, l, result) == result.failed \/ result = Fresh(j, l)

\* Whatever the processes share and whichever of them died: a row of a report
\* is what the engine computes, without any cache, for the settings of that
\* row on candles that ended where the market data has ended at some time;
\* and the two sides of a validation were computed on the same candles.
\* (trade_cache.py, snapshot_cache.py, validation.py)
RowTrue(row) ==
    \E l \in Oldest..newest :
        /\ FreshAt(row.job, l, row.result)
        /\ Validation(row.job) => FreshAt(OtherJob(row.job, row.job), l, row.other[1])

\* Of two runs over the same candles with the same step the report ranks the
\* one with the better score first, whatever baseline the scores are set
\* against; but a hypothesis that scores exactly nothing is ranked last.
RankingTrue(r, rows) ==
    LET ranking == Ranking(r, rows)
        Comparable(a, b) == /\ a.predicate = b.predicate /\ a.row.job.history = b.row.job.history
                            /\ a.row.job.step = b.row.job.step
    IN  \A i, k \in DOMAIN ranking :
            i < k /\ Comparable(ranking[i], ranking[k]) =>
                \/ Score(ranking[i].row) >= Score(ranking[k].row)
                \/ r.runner = "hypothesis" /\ Score(ranking[k].row) = 0

ResultsTrue ==
    \A p \in Processes : LET rows == process[p].rows
                         IN  /\ \A k \in DOMAIN rows : RowTrue(rows[k])
                             /\ rows # <<>> => RankingTrue(Asked(p), rows)

\* A stored result that cannot be read, which stops every later run of its
\* key, comes of two processes writing it at once, and of nothing else: no
\* crash of a process leaves one.  (BacktestTradeCache.store)
TornOnlyByOverlap == \A f \in files : ~f.whole => Cardinality(f.writers) > 1

\* A run of the engine ends, and so does every suite that is not killed: no
\* file another process has left or taken away holds it for ever.
RunsEnd ==
    /\ ~suite ~> phase = "done"
    /\ \A p \in Processes : Running(p) ~> ~Running(p)

\* docs/phase3_stress_validation.md, of the current release candidate: "soft
\* MARKET fallback floor at trigger strength `8`".  Every decision of a row was
\* taken under the pair profile of its scenario.
OwnDecisions ==
    \A p \in Processes : \A k \in DOMAIN process[p].rows :
        LET row == process[p].rows[k]
        IN  \A i \in DOMAIN row.result.decisions :
                row.result.decisions[i].profile = row.job.settings.profile

\* The book of trades is sound, and so is what it was made from.
RunSound == BookSound /\ LossBounded /\ DrawdownBounded
=============================================================================
