# A verification of the SMC signal engine and its crypto paper pipeline

The repository is a signal engine in Python: it fetches candles, evaluates
smart-money patterns, lets a few signals through a release gate, sends them to
Telegram, journals them, labels them later from market data, replays the labels
into a paper account, and walks a chain of execution phases none of which may
place a live order. Beside the live engine stand a backtest, the research
runners built on it, and a replay of the scan as of a past moment. This
directory holds TLA+ modules for the parts of it that keep state, the TLC
configurations that check them on small instances, and TLAPS proofs for every
value of the constants.

Paths in this file are relative to the repository.

## 1. Inventory

| Component | State | Operations | Talks to |
|---|---|---|---|
| live loop, `main.py run_engine` | the cycle, the heartbeat file | safe mode, scan, journal, send, journal, compare with the shadow, sleep, stop | all of the live rows below, sequentially, most of them through `asyncio.to_thread` |
| feed safe mode, `services/feed_safe_mode.py`, `feed_health.py` | none; reads the recent rows of log files | `evaluate` | blocks the scan; its rows are written by the scan and by the shadow |
| health check, `research/live_health_check.py`, `services/live_health.py` | its last alert, in a file | one check per timer tick | reads the heartbeat and the fetch log, writes to Telegram |
| evaluation, `core/signal_engine.py evaluate_snapshot`, `smc/*`, `core/scoring.py`, `core/adaptive_weights.py`, `execution/news.py` | cached frames, score history, threshold history, the week's calendar | `evaluate_snapshot` of a pair | fetches through the market data client |
| release gate, `core/signal_engine.py`, `core/portfolio.py` | `_pair_cooldown_until`, `_bias_history`, `_currency_exposure_records` | `scan_pairs`, `generate_signal`, `gate_signal_release`, `reset_release_state` | correlation cap, trade gate v2; backtest and as-of replay use the same gate |
| correlation cap, `core/correlation.py` | none | `filter` | the scan and the replay |
| delivery, `services/telegram.py`, `utils/dedup.py`, `services/forward_journal.py` | remembered fingerprints; an append-only journal | `send_signal` with retries, `record_candidate`, `record_delivery` | Telegram; the journal is read by tracker, paper trading, phases, as-of replay |
| outcome tracker, `services/forward_outcomes.py` | an append-only file | `run` | journal, candles; run by hand or by a timer |
| paper trading, `services/crypto_paper_trading.py` | account, open trades, ledger of one run | `run` | journal and latest outcomes |
| live bars, `services/live_bar_builder.py`, `data/live_bar_provider.py` | current and closed bars, event log, CSV snapshots | `on_quote`, `flush`, reload; `fetch_ohlcv` | fed by the collector; snapshots are read by the market data client |
| websocket collector, `services/itick_websocket_shadow.py` | connection, back-off | connect, subscribe, read, reconnect, stop | live bars |
| market data, `data/*` | cache files shared by processes, connection to a terminal | `fetch_ohlcv` | exchanges, brokers, live bars |
| execution phases 7 to 12, `services/crypto_*` | one report file per phase, a kill-switch file, a file of order-book snapshots | build a report | each reads its predecessor's file; no exchange gets an order |
| backtest, `backtest/*`, `backtest_runner.py` | frames, gate, equity protection, open trade; files of decisions and of results | run a pair, a segment, a walk-forward | the release gate; runners share files |
| research runners, `research/phase3_*` | the report of a run | run scenarios one after the other | the backtest engine, the shared files |
| as-of replay, `services/crypto_asof_replay.py` | decisions file, journals, report | run, step by step | the scan's loops over sliced frames |

`PROJECT.json` lists every component with its status, what is left out of it and
why.

What is hard here: time stands still for a pair whose candles lag while the
clock goes on for another; lists are pruned with the time of whichever
candidate is looked at; checks and commits of one signal are several loops
apart; several processes share files that are replaced or rewritten in place,
and die in between; the breaker reads what only the scan it blocks may write;
quotes are late, links break, restarts reload what was flushed last; fills come
in another order than signals; labels are final but candles grow; caches are
keyed by part of what they depend on. `PROJECT.json` "hazards" gives each of
these its line and the properties that would catch it going wrong.

## 2. Modules

| Module | Models | Abstracts |
|---|---|---|
| `SignalRelease` | the loops of `scan_pairs` after evaluation, the trade-gate loop, `generate_signal`, the gate and its state, restarts | evaluation and correlation cap: any sequence of fresh signals of different pairs |
| `ReleasePolicy` | the abstract specification: a release may be added to the history of the process when the whole history has room for it | all lists the code keeps |
| `SignalDelivery` | journalling, sending, retrying, remembering, crashes | the text of a message; a signal is its fingerprint |
| `PaperTrading` | the replay of labelled candidates into an account, and the figures of its report | a label by its R and its two times; rendering |
| `LiveModes` | which pairs a live engine scans | a profile by whether it says anything |
| `FeedSafeMode` | the breaker, the fetches that feed it, the loop around it | a row by its age in ticks; prices |
| `LiveHealth` | heartbeat, health check, alerts; extends `FeedSafeMode` | texts |
| `LiveBarBuilder` | quotes to bars, event log, snapshots, reload, what the provider serves | one pair; a bar by the set of quotes it aggregates |
| `LiveQuotes` | the collector's task and its life with the engine; extends `LiveBarBuilder` | pings |
| `ForwardOutcomes` | the label of a candidate from the newest candles, the append-only log | one candidate; a candle by the levels it reaches |
| `ExecutionPipeline` | the phases, their files, the guard's snapshots | limits in basis points are absolute distances |
| `Backtest` | engine, exits, risk, walk-forward windows; instantiates `SignalRelease` | prices in ticks in the direction of the trade |
| `BacktestRunner` | main runner and calibration runners, shared files; extends `Backtest` | a run of the engine by what it is computed from |
| `CorrelationCap` | clusters and their survivors, against a definition by connected components | the correlations |
| `AsofReplay` | slices, steps, loops, files, report; instantiates `SignalRelease`, uses `CorrelationCap` | evaluation: any plan the frames allow |
| `MarketData` | cache modes, sources in order, freshness, paging, the save protocol | of a frame its newest candle |
| `SmcDetectors` | swings, structure, zones, liquidity, SMT, displacement as functions of a frame | integer prices |
| `SignalScoring` | score components, threshold, regime; extends `SmcDetectors` | averages by cross-multiplication |
| `SignalEvaluation` | `evaluate_snapshot`: a market that grows, cached frames, gates, entry plans; extends `SignalScoring` | correlated statistics are a view chosen at each evaluation |
| `NewsFilter` | calendar, blackout, surprise; extends `SignalEvaluation` | the feed |

The modules named `...Proofs` hold the theorems, each about the module it
extends (`ForwardOutcomesProofs`, `MarketDataProofs` and `SignalDeliveryProofs` about a
second one too);
`CountingLemmas` holds the facts about finite sets, ranks, sums and folds
they share.

A definition carries the name of its function where TLA+ allows it, and the
comment above it names the function where the names differ. Definitions whose
comment begins with "Variant:" are plausible mistakes in the definition that
follows them. They are used nowhere in a specification; `PROJECT.json`
"mutants" pairs each with the property it breaks when it takes the place of the
original, which shows that the property can fail.

### Release and delivery

**SignalRelease.** `phase`, `queue` and `kept` are the loop `scan_pairs` is in,
what it has still to visit and what it has let through; an action is one
iteration. `cooldownUntil`, `biasHistory` and `exposure` are the three attributes
of the engine, the lists held as the sets of releases they were filled from.
`serial`, `journal`, `scanStart` and `returned` are history variables. `DropAt...`
and `Register` are the outcomes of `gate_signal_release` in the order of its
checks, each with the pruning that has happened by then. `at` of a signal is the
time of its trigger candle, which may lag the clock by `MaxLag`; the code also
tolerates a candle up to 60 s ahead of the clock, which the model leaves out. The
trade gate is called without a regime, so it classifies an empty frame as a
transition and drops every signal: `CheckTrade` says just that. A restart empties
the gate's memory (`core/signal_engine.py:374`); every promise is about a process.

**SignalDelivery.** `pc` follows the cycle. `SendRaises` covers both a lost
message and a lost answer, so the chat may hold a message whose attempt failed.
`Crash` may happen between any two steps; rows and chat survive it, the
deduplicator does not. Cycle ids contain the start time and are never reused.

**PaperTrading.** `TakeCandidate` brings the next candidate with its outcome,
`CloseDueTrade` is an iteration of `close_due_trades`, `DecideCandidate` the rest of
the loop body, `Report` the figures of the report. Candidates come in order of
generation and are decided at their entry times, which may come in any other
order; the promises about limits and balances hold when they come in the same
one, and only then (`EntriesOrdered` is the premise). `balance` is the account as
the code keeps it, unrounded, in units of which `Cent` make a cent; what the rows,
the curve and the report show is rounded by `Money` to cents, half a cent to the
even one, and the report adds up the rounded profits of the rows, as the code
does.

### The live loop

**FeedSafeMode, LiveHealth.** `feed` is what a fetch of a pair would meet now and
changes at will. `fetchLog` has the rows inside the window, by age. Under `ccxt` they
are rows of the trigger timeframe in the market-data diagnostics; under
`redundant` rows of all timeframes in the redundancy log. The iTick and live-bar
components, which look at files of another task, are switched off, as their
settings allow. The loop replaces its heartbeat at every step; the check is a
process of its own with a timer, compares ages, and remembers in a file what it
last told the operator and when.

**LiveBarBuilder, LiveQuotes.** `OnQuote` accepts a quote, `ApplyToTimeframe` is one
iteration of its loop, `LogCurrent` and `WriteCsv` are the two writes of `flush` for
one timeframe. Of the log only the newest row per bar start is kept, which is
the one the loader would choose. `LiveQuotes` adds the task that opens the link,
breaks, backs off and is stopped.

**MarketData.** One pair and timeframe. `job` of a client is its fetch: choosing,
asking a source, paging, saving through the one `.tmp` file, renaming. A client
may die in every stage. What a provider answers is chosen anew each time within
what its kind may know; `answer` is the latest answer with the newest candle it
holds, whether it was served as fresh, and what the bound on its age depends on.

### Outcomes and execution

**ForwardOutcomes.** `OpenCandle`, `PriceMoves` and `CandleCloses` are the market;
`Track` is a whole run for the candidate: fetch, label, compare with the latest
row, append. `Label` follows `evaluate_candidate` branch by branch.

**ExecutionPipeline.** A phase is a command: it computes its report from the file
its predecessor left, truncates its own file and writes it, and may die between
any two of these. `cleared` is a history variable: what any phase has established
of a candidate. The guard of phase 12 collects snapshots from quotes, from its
file and from a fallback ticker. A ticker without a time (`NoTime`) is stamped by
the guard with the moment it arrives, as a websocket event is, and is refused by
phase 11. `heard` is a history variable: the quotes the guard has heard and when.

### Evaluation

**SmcDetectors, SignalScoring, SignalEvaluation, NewsFilter.** The market opens a
candle or moves the price of the last one; `Evaluate` is a whole call of
`evaluate_snapshot`, with the trigger frame fresh and the slower frame perhaps
from the cache, through gates, score, threshold, news and plan. The numeric
regime statistics are a `View` chosen among a few; everything structural is
computed from the candles. The calendar is fetched when an evaluation gets as far
as the news and kept for `NewsTtl`. Zones are searched for among the newest
`ZoneLookback` candles (150 in the code), so a candle that opens may push the
oldest zone out; `NoRepaint` promises a zone only while it is in that window.

### Replays

**Backtest, BacktestRunner.** `Backtest` replays the pairs of a segment one after
the other over one release gate, one equity protection and one portfolio layer.
Bars are chosen when they are first read and stay fixed until the cursor is past
them. `BacktestRunner` runs either such a program bar by bar or a suite of command
lines in which a whole run of the engine is one step; a decision is known by
the settings and candles it was computed from, and a result by its decisions and
trade settings. `writers` is a history variable: who has written into a file.

**AsofReplay, CorrelationCap.** A run walks the steps of its request, evaluates
each pair on the slice of candles before the step, filters, runs the scan's
loops one by one, and appends decisions and journal rows. A step of the model
writes one row or removes one file; the process may be killed between any two of
them, and within one (`torn`: a buffered row or report of which a part got to the
file), and the next run begins over the files it left. So the last step of a
decisions file may have the rows of some pairs only, and the last journal row may
lack its delivery.

## 3. Runs

| Run | Result | Distinct states | Question |
|---|---|---|---|
| `release_gate` | passes | 623,460 | do the pruned lists enforce bias window and caps on the whole history, is the net exposure that remains within its cap whenever a release is registered, does the per-scan cap hold through the later filters, is every registered exposure handed on while the trade gate is off, and does the gate implement `ReleasePolicy`? |
| `delivery` | passes | 72,640 | is the journal true of the chat through retries and crashes, are messages bounded and confirmed once while remembered, is every signal answered? |
| `paper_trading` | passes | 1,526,268 | does the account of ledger, curve and report add up for every order of fills and whatever is rounded, and do limits and balances hold when fills come in order? |
| `safe_mode` | passes | 461,975 | does no scan follow a bad fetch or, under ccxt, an unseen pair; does the breaker let go; is an operator told of a hung loop? |
| `live_bars` | passes | 870,279 | are bars ordered, complete, durable and final once served, through broken links, late quotes, half flushes, stops and crashes? |
| `outcomes` | passes | 305,216 | are closed labels true of the whole history, what a run over all candles would still give, and given in the end? |
| `pipeline` | passes | 731,548 | has what phase 12 lets through been cleared by every phase; was its price heard in time; does a kill switch reach the last file? |
| `backtest` | passes | 227,018 | engine: trades of a pair never overlap or leave their segment and lose at most their risk, stops only tighten and make no loss once they are at the entry, equity protection bounds the drawdown; runners: reports hold what was run, stored results are those of their key, files are torn by overlap only, runs end |
| `asof_replay` | passes | 982,540 | does a kill cost the last step only, is a report of whole files, is one of each correlated group and each signal once, is every live step covered? |
| `market_data` | passes | 682,812 | is the cache torn by overlapping saves only, is what is served as fresh bounded in age, do paged requests end? |
| `scan` | passes | 148,913 | does every signal satisfy what plan, gates and news promise; does what was detected on closed candles stand as long as it is searched for? |
| `release_candidate` | violation | stops at 46,661 | does a scenario report decisions taken under its own profile? |

### The violation

With the snapshot cache that the documented commands leave on, a scenario of the
hypothesis runner is reported with decisions of another (`OwnDecisions`): the
snapshot key (`src/backtest/engine.py:652`) names the settings of the signal engine
but not the pair profile that `evaluate_snapshot` applies, and the scenarios of
`phase3_hypothesis_calibration` differ in nothing else. The result is then stored
under the scenario's own key of the trade cache, where a rerun without the
snapshot cache still finds it. `PROJECT.json` "findings" quotes the document it
contradicts.

### Other disagreements met while modelling

They are described here and not run, or are premises of the properties above:

- The trade gate runs after the release is registered
  (`src/core/signal_engine.py:1827`); what it drops has used up cooldown, bias
  window and exposure. `NoPhantomExposure` is about processes without it.
- With `ccxt` and no shadow the breaker blocks the scans that would write the rows
  it asks for (`src/services/feed_health.py:237`;
  `docs/phase6_live_reliability.md:114`). With no components (MT5) it blocks for ever.
- A process that restarts at once, as launchd's `KeepAlive` allows, takes a late
  quote of a completed bar as the first of a new one
  (`src/services/live_bar_builder.py:235`). systemd waits 15 s, longer than the 5 s
  a quote may be old: `RestartAssumption`.
- A time stop or an expiry counted while a candle is in progress is early
  (`src/services/forward_outcomes.py:453`; `docs/phase4_outcome_tracker.md:99`).
- The paper limits do not hold of the intervals in the ledger when fills overtake
  each other (`src/services/crypto_paper_trading.py:176`).
- The profits of the ledger's rows, each rounded to cents, need not add up to the
  difference of the balances, which are rounded after they were added up
  (`src/services/crypto_paper_trading.py:203`); `ReportTrue` bounds the difference
  by half a cent per trade and half a cent for the final balance.
- A ticker without a time counts as heard now for the guard of phase 12
  (`src/services/crypto_realtime_guard.py:245`), while phase 11 refuses it
  (`src/services/crypto_market_safety.py:539`), so the price of a feed that gives no
  times is never too old for the guard: `GuardReadyIsFresh` counts from its
  arrival there.
- A replay that was killed leaves files that do not say so: the last step may
  lack pairs, and the decisions file may end in half a row, which the reader of
  the parity report skips without a word. Only the missing report tells.
- The as-of replay shows the open candle of the slower frames with its later
  prices (`src/services/crypto_asof_replay.py:228`;
  `docs/crypto_phase13_asof_replay.md:3`).
- `--evaluation-step 2` has no effect: the profile's step 3 wins
  (`src/backtest/engine.py:585`; `docs/phase3_stress_validation.md:141`).
- A kill switch of plain words is read as JSON and taken as off
  (`src/services/crypto_sandbox_execution.py:325`;
  `docs/crypto_phase9_sandbox_execution.md:56`).
- A stale cache entry served after a provider failure raises nothing
  (`src/data/market_data.py:380`; `docs/phase6_live_reliability.md:24`), and its row
  looks like a successful fetch (the one hazard without a property).
- The alert text of a stale heartbeat holds its growing age, so every check is a
  new reason and the cooldown does not apply (`src/services/live_health.py:282`;
  `docs/phase5_live_health_monitor.md:104`).
- News fails open: without a feed a signal passes with a score, also inside a
  blackout, and the calendar's `USD` never matches the `USDT` of crypto pairs. In
  backtests a pending result of a numeric column is `NaN`, not uncertain, and a
  result is known before its release.
- `last_frame` of the redundant provider is never set, so `fail_closed = 0` still
  raises; MT5 never reconnects; `structure_events` of the quality score uses
  swings that are not yet confirmed; equity protection is absent in walk-forward.
- A fill that was delayed past a partial target of a plan with the signal's own
  prices books that part at a loss (`src/backtest/engine.py:972`), also after
  break-even (`Chased`), and, when the ATR stop lies in front of the target, at a
  larger one than the risk (`TargetsInReach` is the premise of `LossBounded` and
  `DrawdownBounded`). The bar that ends the holding time may move the stop to the
  entry and still close the trade below it; a fill behind the stop is booked as a
  gain at the stop (`src/backtest/engine.py:957`).
- A failure of a provider is stored in the trade cache as a result until it is
  refreshed; a torn trade file makes every later run of its key fail until it is
  deleted.

### Bounds

- `release_gate`: two pairs over three currencies sharing the quote, one bias,
  bias window 2, leg cap 1, gross cap 3, net cap 1, hold 2, lag 1, clock 3, four
  releases, batches of two: records expire while a lagging candidate is in
  flight, and an exposure on the other side lets through what only the batch cap
  stops. The proofs remove these bounds.
- `delivery`: two fingerprints and a memory of one; two attempts; two cycles.
- `paper_trading`: three candidates, two symbols, times 0 to 2, a win and a loss,
  two positions: the third can fill before, inside or after the first two. Four
  units make a cent, and the amounts (a balance of 102, a risk of 9) are no whole
  cents, so profits and balances round up, down and to the even cent.
- `safe_mode`: window 2, interval 1, health window 1, cooldown 3, five deployments
  of one or two pairs. No bound on time: rows carry ages, heartbeat ages above
  `MaxAge` go round at `MaxAge + 3`.
- `live_bars`: two timeframes, the longer twice the shorter, two closed bars kept,
  four quotes (two over a flaky link) in five ticks.
- `outcomes`: holding one candle, expiry two, three candles; all consistent ranges
  of a candle; the history limit has room for every candle.
- `pipeline`: two candidates, of which one symbol is not allowed; ten views of
  the market, each but the first with one thing wrong (a missing ticker and one
  without a time among them); one command at a time
  beside its file; ages to 1.
- `backtest`: frames of seven bars out of four kinds of bar, two pairs, a plan with the
  signal's prices and an adaptive one, each with partial targets; a protected
  segment, a walk-forward by calendar and one by bars; runners: two processes,
  eleven sessions of one to three command lines, two ends of the data, decision
  caches of three.
- `asof_replay`: three pairs of which the middle one correlates with both, two or
  three steps, two runs, one gap in the data.
- `market_data`: two clients with limits on both sides of a page, candles 5 to 7,
  time to live 1, two sources before the last. `Delays` is `{0}` and `MaxSlow` 0;
  the proof is for any.
- `scan`: two histories of nine and ten trigger candles, windows of one candle,
  averages of three, zones searched for among five candles, so that each history
  loses zones and keeps others, two settings that differ in every gate, five views, three
  moves and two scans; the calendars with releases are combined with the history
  and settings that give signals.

`CHECK_DEADLOCK FALSE` is set where the models stop at their bounds or a program
ends. In `market_data` deadlock is checked.

### Fairness

- `delivery`: the loop's own steps. Every await ends: the HTTP client has a timeout
  and retries are bounded. A new cycle, a crash and a restart are not assumed.
- `safe_mode`: the steps of a loop that does not hang, the passing of time, the
  restart of a dead process by its service manager, the timer of the check.
  Nothing is assumed of the feed: `LoopWatched` and the let-go of the breaker are
  about feeds that stay good from some time on.
- `outcomes`: candles open and close, the tracker is run again and again; the
  property speaks of providers that stay up.
- `pipeline`: a command that has begun to write goes on (`Truncate`, `WriteReport`);
  that phases are run again and again is a premise of `StopPropagates`.
- `paper_trading` states the fairness of a sequential program.
- `backtest`: the engine and each process go on; starts, crashes and the growth of
  the data are not assumed.
- `release_gate`, `live_bars`, `asof_replay`, `market_data`, `scan` have none:
  nothing there must happen.

## 4. Proofs

Assumptions are the named ASSUMEs of the modules: limits, ages and counts are
natural numbers (positive where the settings' validation or the arithmetic makes
them so), base and quote of a pair differ, journal rows have distinct places,
prices are whole numbers, candles have numbers, the close of a backtest's bar lies
in its range, powers of naturals are naturals, a replay lists its pairs once,
correlation is symmetric and a live journal finite, and a new process accepts no quote
older than the last of the old one (`RestartAssumption`: 15 s against 5 s under
systemd; section 3 says what happens otherwise). TLC evaluates each of them on the runs.

| Theorem | States, for every value of the constants |
|---|---|
| `SignalReleaseProofs`: `TypeCorrect`, `Remembered` | `TypeOK`; `RelevantRemembered` |
| `CooldownAlways`, `BiasWindowAlways`, `GrossCapAlways` | the promises of the gate about the whole history |
| `NetCapAlways` | the action property `NetCapRespected`, about all releases that have not expired |
| `BatchLegCapAlways`, `NoPhantomExposureAlways` | the per-scan cap; exposure is of signals handed on |
| `GateImplementsPolicy` | `SignalRelease` implements `ReleasePolicy` |
| `SignalDeliveryProofs`: `JournalAlwaysTrue`, `ConfirmedOnceAlways`, `MessagesAlwaysBounded` | `JournalTrue`, `ConfirmedOnce`, `MessagesBounded` |
| `FilesAlwaysSound`, `CorrelatedAlwaysOnce`, `LiveStepsAlwaysCovered` | `FilesSound`, `CorrelatedOnce`, `LiveStepsCovered` of `AsofReplay` |
| `SignalAlwaysOnce` | `SignalOnce` of `AsofReplay`, while the pair cooldown is on |
| `PaperTradingProofs`: `OrderedLimitsAlways`, `OrderedBalancesAlways` | `OrderedLimits`, `OrderedBalances` |
| `AccountAlwaysSound`, `LedgerAlwaysBalances` | `AccountSound`; its part about the running account |
| `ExecutionPipelineProofs`: `ReportsAlwaysSound`, `GuardAlwaysFresh` | `ReportsSound`; the action property `GuardReadyIsFresh` |
| `ForwardOutcomesProofs`: `LabelsAlwaysTrue` | `LabelsTrue`, while the history limit has room for every candle |
| `TerminalLabelsAlwaysStand` | `TerminalLabelsStand`, under the same premise |
| `TypesAlways` | `TypeOK`, for any limit |
| `QuotesAlwaysSound`, `LoggedAlwaysSurvives`, `ServedAlwaysFinal` | `QuotesSound` and `LoggedSurvives` of `LiveQuotes`; the action property `ServedBarsFinal` |
| `BacktestRunnerProofs`: `RunAlwaysSound`, `StopsAlwaysTighten` | `RunSound`; the action property `StopsOnlyTighten` |
| `TornAlwaysByOverlap` | `TornOnlyByOverlap` |
| `MarketDataProofs`: `CacheAlwaysSound`, `LagAlwaysBounded`, `PagesAlwaysBounded` | `CacheSound`, `LagBounded`, `PagesBounded` |
| `WatchAlwaysSound`, `ScansAlwaysOnSight` | `WatchSound`; the action property `ScansOnlyOnSight` of `LiveHealth` |

**The gate.** What the code consults are lists pruned with the time of past
candidates, while a promise is about the history at the wall clock. The
strengthening is `CandidatesNotAhead` together with `RelevantRemembered`: a prune
is relative to a time that is not ahead of the clock, so whatever it removes has
also expired at the clock. `StepKinds` reduces every step to one of five as far
as the release state goes, and `RegisterAdmissible` shows that what the lists
allow the history allows; promises and refinement follow. The net cap goes both
ways: a list that lost a release too early and one that kept it too long would
both be wrong. `PrunedIsOpen` says that what a candidate of the current time is held
against is exactly what has not expired at the clock, whatever earlier, lagging or
dropped candidates pruned; without `RelevantRemembered` that would be false. Of a
lagging candidate no more is promised. `HandedOn` follows each
registered release through the loops to the caller; `LegsWithinCap` counts the
legs of what is kept and what is queued together.

**Delivery.** `Joinable` says of every cycle which rows may still come, which
makes the journal's consistency inductive across a crash; `RemembersLast` relates
the remembered fingerprints to the last confirmations, evictions included;
`AttemptsCounted` ties the copies in the chat to the attempts made.

**As-of replay.** `FilesSound` relates files that are written at different moments,
so `ReplayInv` says for each stage how far apart they may be. As rows are written one
by one, it speaks of the file and the rows still in hand together (`Complete`):
`RunCounted` ties the counters of a run to them and says which steps they cover,
`JournalSound` that the rows a cycle accepted and the journal lacks are exactly
those the cycle still holds, `FilesKept` and `JournalKept` what holds even of files
that a killed process left behind, or that the next one has begun to remove:
`EarlierStepsWhole` survives a kill because nobody writes behind the step that was
cut short, and `NothingLeftOver` the removal because the decisions go before the
journal.
`EvaluateSound` and `LoopsSound` follow a candidate through the filters: a
pair is undecided exactly while it is in a list. One of each correlated group remains
because `ClustersApart`, by induction over the pairs of candidates that were
compared, makes the groups disjoint and puts correlated candidates in the same one.
A candle is signalled once because of the release gate: a registered release is
newer than every accepted decision of its pair and inside the cooldown it set off
(`Registered`), and a second visit looks at the same candle. That needs the cooldown:
`PAIR_COOLDOWN_MINUTES` is 30 by default, 0 switches the check off, and a
replay then journals the candle at each visit. `AscendingListed` says
that the list of steps, which counts how many are smaller, is ordered and complete.

**Paper trading.** The simulator's checks read the list of open trades, the
promises are about intervals in the ledger. `Settled` relates the two: a trade is
off the list because a candidate came that enters no earlier than it ends (or the
replay is over). So when entries come in order, a new row finds on the list all
that is open at its entry, closed trades are exactly those that end by it, and the
unrounded balance, which is always the starting balance plus what the closed
trades moved it by, is the account at the entry. Sums are those of `CountingLemmas`, to which
`MapThenSumSet` is related by unfolding its recursion.

The report is proved whatever the order. `Traced` says that a point of the curve
carries the starting balance and what the trades closed by it moved, rounded
once, so the last one is the final balance. A row's profit is rounded on its own
(`MoneyNear`), and `ProfitNear` adds those errors up over the trades, which bounds how
far the net profit and the balances are apart; `DeepestFall` that the fold that reads the drawdown
off the curve finds its deepest fall, from a table of the fold's results
(`DrawsExist`) and the invariant `FellOver` of that table; `TotalOfGroups` that the
groups by symbol add up to the whole; `LedgerSorted` that counting who enters
before whom lists every row once, in order. What a report says is stated of any
report, ledger and curve (`Told`), so a later step carries it on.

**Pipeline.** `Chain` says of each phase's report, in its file or in the hands of
the command, what the phases so far have established of every candidate in it.
It is inductive because a report may be of any age but what was established does
not go away (`PassedForGood`): a delivery is never taken back and clearances only
grow. Along a phase, items are drawn from its predecessor's (`InOrderSelects`).
Freshness is about a snapshot that is patched together from several quotes, runs
and files. `Traced` says of every snapshot, in the file or in a guard's memory, that
a part young enough to count is in `heard` with that very age; ages grow on both
sides alike (`TracedLater`), and only parts that are young enough make a guard ready.

**Market data.** The invariant follows the age of a frame from the feed to the
answer: `RowsOf` through a paged request, whose rows hold a candle some page gave
as the newest or are one interval without gaps; `PageCount` bounds pages by rows;
`SaversApart` says that without an overlap so far every saver owns the temporary
file; `FilesOK` and `AnswerOK` end it. The attempt corrected the property: its bound
once ignored how old a live overlay may be.

**Live loop.** Both halves reason about what is forgotten. The breaker sees rows,
not fetches: `BadFetchLogged` says that while the last watched fetch that went
badly is within the window its row is still in the log, with its own age; rows and
fetches grow old together (`TimeKeeps`), crash, hang and restart touch neither. The
watch remembers one alert and not how often it stayed silent: `ToldInTime` bounds
the silent checks by the age of that alert, with a check that is due already
counted. The age is reset only by a message that did go out.

**Live bars.** What makes a completed bar final is time: a quote that is the first
of a new bar must be later than any bar there was. While a process lives its
current bar sees to that; after a restart nothing in the code does, and
`LateEnough` follows the clock instead: no completed bar begins after the latest
time a quote may have carried (`Horizon`), and a process that finds no bar in
progress accepts only quotes of later ones. `AliveWith` relates the bars of a process to the log: its completed bars are
the newest rows, in order, the current one is behind none of them and has the
quotes of its row. `LeavingSound` follows the finally clause: only while the
collector is being stopped may a quote still come, so the flush after it logs
everything. `CompletedListed` and `SnapshotFinal` turn this into what a reload and a
snapshot contain.

**Outcomes.** A label is made of the candles of one run and promises something of
all candles there will be. `TrueOf` is what stays true when candles come and the
range of the last one grows; `WholeOf`, of time stops and missed entries, speaks
of complete candles, and is kept only when the tracker runs between candles.
`RoomForAll` is the premise that the window has not moved past the candidate:
without it labels are false, as said in section 3. `TerminalLabelsStand` compares
with what a run over all candles would write. `LabelStands` is its heart: one candle
more does not change a terminal label, because the position of the first hit, of
the fill and of the time stop each stay where they are once they lie within the
candles there were (`LeastStays`, `TouchingGrows`); `Stands` carries that along
the history, and a repeated run adds nothing (`SameTwice`).

**Backtest engine.** `EngineInv` says where the order stands: it is of the bar at the
cursor, was filled there or later, has come no further than its last exit, and
every bar in between was read; all trades of the report end before the cursor. So
a jump behind the exit is a jump behind everything. `LossInv` says of the running
trade that what was closed of it, and what its targets and its stop can still
close, is no further off the entry than the risk (`Covered`), and not behind the
entry at all unless the fill ran past a target. It is kept by the taking of any target and
by every exit, the stop having only come closer. As the equity stands from the
release to the registering of a trade (`BegunInside`), a run that was below its
limit overruns it by one loss at most.

**Runners.** The invariant follows who has the temporary file of a key open: all of
them are among its writers (`HoldersWrite`), and one that is alone writes to an
empty file and moves a whole one (`AloneIsClean`), so that a dead process matters to
nobody. A process whose open file was moved into place shares it (`MovedIsShared`).

**CountingLemmas.** Smallest elements of families of finite sets give induction
over sets (`SmallestSubset`) without an operator parameter; ranks (`EveryRankTaken`,
`RanksOrder`) describe what a sort by counting returns; `Sum` with `SumPut` and `SumSame` is
summation over a finite set. A fold over a sequence takes its greatest index last;
`StepsExists`, `StepsUnique` and `StepsIn` say that the table of its results exists,
is one, and stays in a set that every step stays in, which is how what targets
make of a trade is known without induction.

### What stays with TLC

- Liveness under fairness, and everything with ENABLED: `SignalsAnswered`,
  `LoopWatched`, `LabelsSettle`, `StopPropagates`, `RunsEnd`.
- `SignalsSound`: the threshold of a score comes out of folds over a frame, whose
  results need induction over data.
- The detectors and scores: recursive functions of a frame, checked over the
  histories of `scan`, and with them `NoRepaint` for zones in their window.
- `ResultsTrue`: that a ranking is sorted is about `SortSeq`, and that a row is
  what its settings give holds of the sessions of the run, not of every session:
  the violation below the table in section 3 is one where it does not.

### Plan

Every other safety invariant and action property of the runs is proved. What is left:
the orders in which `SortSeq` ranks the rows of `BacktestRunner`, by the counting that
`CountingLemmas` has for sets, and the threshold of `SignalsSound` for one score
component at a time.

## 5. Not modelled

- Optimisers and risk engines (`core/meta_optimizer.py`,
  `core/prop_risk_engine_v2.py`, `core/portfolio_risk_v2.py`, `risk/*`),
  `backtest/tick_engine.py`, `analysis/edge_*`, `strategy/*`: imported by nothing
  the engine runs, or pure statistics over reports.
- Configuration: parsing of environment variables; its values are the constants.
- Network clients, broker terminals and the calendar feed: external, answered by
  choice.
- Daily, forward and validation reports: functions of logs.
- Crashes while a report is rewritten in place, a builder's own disk errors inside
  `on_quote`, and a candle ahead of the clock.
- Cache mode "disabled" and a time to live of 0 (a cache that lives for ever) are
  outside `LagBounded`.
