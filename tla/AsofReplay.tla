----------------------------- MODULE AsofReplay -----------------------------
(***************************************************************************)
(* services/crypto_asof_replay.py: the replay of the scan over candles     *)
(* that were downloaded beforehand, one step per trigger candle or per     *)
(* scan time of the live journal, with its output files and the parity     *)
(* report.  The loops of the scan are those of SignalRelease, which the    *)
(* scanner calls one by one to record what each of them drops.             *)
(*                                                                         *)
(* Time counts trigger candles.  A candle of a timeframe carries the time  *)
(* it opens at, the multiples of the timeframe, and its prices run until   *)
(* it closes.  The journals and the decisions file outlive the process.    *)
(***************************************************************************)
EXTENDS Integers, FiniteSetsExt, SequencesExt

CONSTANTS
    Pairs, Currencies, Base, Quote,
    PairCooldown, MaxEntriesPerBias, BiasWindow, CurrencyCap, GrossCap, NetCap,
    Holds, TradeGateChoices,
    PairOrder,            \* settings.pairs, sorted
    Frames,               \* timeframe -> its length in trigger candles
    HistoryEnd,           \* the last trigger candle that was downloaded
    HistoryLimit,         \* rows a fetch returns at most
    Gaps,                 \* sets of <<pair, time>> of missing trigger candles
    Correlated(_, _),
    Scores, PlanSides,    \* what the scan may make of a pair
    Requests,             \* [start, end, source, maxSteps] of a command line
    Needed,               \* timeframe -> rows of a full warmup
    LiveJournals,         \* sets of live candidates
    MaxRuns               \* bound on the runs

\* Symbols are normalised and listed once; frames too short to correlate count
\* as uncorrelated, whichever comes first.
ASSUME ReplayAssumption ==
    /\ PairOrder \in Seq(Pairs) /\ IsInjective(PairOrder) /\ Range(PairOrder) = Pairs
    /\ \A p, q \in Pairs : Correlated(p, q) <=> Correlated(q, p)
    /\ "trigger" \in DOMAIN Frames /\ HistoryEnd \in Nat
    /\ PairCooldown \in Nat /\ Holds \subseteq Nat /\ Scores \subseteq Int
    /\ \A r \in Requests : r.maxSteps \in Nat
    /\ \A journals \in LiveJournals :
          IsFiniteSet(journals) /\ \A c \in journals : c.observed \in Nat

VARIABLES
    runs, gaps, live,     \* runs so far; what was downloaded; the live journal
    request, steps,       \* of the current run
    step,                 \* index of the current step
    stage,                \* where the process is
    candidates,           \* candidates of the current scanned, in pair order
    decided,              \* decisions_by_pair of the current cycle
    accesses,             \* access log of the current cycle
    report,               \* cycle_results, as far as the report counts them
    decisionsFile,        \* rows of the decisions file
    journalFile,          \* candidate rows of the journal
    deliveries,           \* those of them that have their delivery row
    parityFile, reportFile,
    torn,                 \* files whose last row, or whose text, was cut short
    now, tradeGate, phase, queue, kept, cooldownUntil, biasHistory, exposure,
    serial, journal, scanStart, returned

files == <<decisionsFile, journalFile, deliveries, parityFile, reportFile, torn>>
world == <<gaps, live>>
scanned == <<candidates, decided, accesses>>
gateVars == <<cooldownUntil, biasHistory, exposure, serial, journal>>
loopVars == <<now, tradeGate, phase, queue, kept, scanStart, returned>>
replayVars == <<runs, world, request, steps, step, stage, scanned, report, files, gateVars, loopVars>>

Biases == {"any"}
Gate == INSTANCE SignalRelease WITH MaxLag <- 0, MaxTime <- 0, MaxReleases <- 0, MaxBatch <- 0
Cap == INSTANCE CorrelationCap

-----------------------------------------------------------------------------
(* The as-of provider.                                                     *)

\* The candles of a frame, by the time they open.
Labels(p, tf) ==
    {t \in 0..HistoryEnd : t % Frames[tf] = 0 /\ ~(Frames[tf] = 1 /\ <<p, t>> \in gaps)}

Newest(S, k) == {t \in S : Cardinality({u \in S : u > t}) < k}

\* AsOfMarketDataProvider.fetch_ohlcv
Visible(p, tf, asOf) == {t \in Labels(p, tf) : t <= asOf}
Fetch(p, tf, asOf) == Newest(Visible(p, tf, asOf), HistoryLimit)

Access(p, tf, asOf) ==
    [pair |-> p, tf |-> tf, asOf |-> asOf, rows |-> Fetch(p, tf, asOf),
     blocked |-> Cardinality(Labels(p, tf)) - Cardinality(Visible(p, tf, asOf))]

FutureLeaks(log) == {a \in log : \E t \in a.rows : t > a.asOf}

-----------------------------------------------------------------------------
(* The steps of a run.                                                     *)

Within(r, t) == t >= r.start /\ t <= r.end

TriggerSteps(r) ==
    IF r.source = "live_journal" THEN {}
    ELSE {t \in UNION {Labels(p, "trigger") : p \in Pairs} : Within(r, t)}

\* Variant: the time of a live scan is rounded up.
LiveStepsRoundedUp(r) ==
    IF r.source = "trigger" THEN {} ELSE {t \in {c.observed + 1 : c \in live} : Within(r, t)}

\* The live scans, floored to the trigger timeframe.
LiveSteps(r) ==
    IF r.source = "trigger" THEN {} ELSE {t \in {c.observed : c \in live} : Within(r, t)}

HasWarmup(t) ==
    \A p \in Pairs, tf \in DOMAIN Frames : Cardinality(Visible(p, tf, t)) >= Needed[tf]

\* The times of S, each in the place that as many are before it.
Ascending(S) ==
    [k \in 1..Cardinality(S) |-> CHOOSE t \in S : Cardinality({u \in S : u < t}) = k - 1]

BuildSteps(r) ==
    LET all == Ascending({t \in TriggerSteps(r) \cup LiveSteps(r) : HasWarmup(t)})
    IN  SubSeq(all, 1, Min({r.maxSteps, Len(all)}))

-----------------------------------------------------------------------------
(* Runs: a new process starts from an empty release gate and removes the   *)
(* outputs of the last one, file by file.                                  *)

NoDecision == [state |-> "none", stage |-> "none", side |-> "none", at |-> 0]
NoneDecided == [p \in Pairs |-> NoDecision]
NoReport == [decisions |-> 0, signals |-> 0, guard |-> TRUE]

ReplayInit ==
    /\ runs = 0 /\ gaps \in Gaps /\ live \in LiveJournals
    /\ request \in Requests /\ steps = <<>> /\ step = 0 /\ stage = "idle"
    /\ candidates = <<>> /\ decided = NoneDecided /\ accesses = {} /\ report = NoReport
    /\ decisionsFile = {} /\ journalFile = {} /\ deliveries = {}
    /\ parityFile = <<>> /\ reportFile = <<>> /\ torn = {}
    /\ now = 0 /\ tradeGate \in TradeGateChoices
    /\ phase = "idle" /\ queue = <<>> /\ kept = <<>> /\ scanStart = 0 /\ returned = {}
    /\ cooldownUntil = [p \in Pairs |-> 0]
    /\ biasHistory = {} /\ exposure = {} /\ serial = 0 /\ journal = {}

\* The frames are loaded and the steps built before anything is removed.
StartRun(r) ==
    /\ stage = "idle" /\ runs < MaxRuns
    /\ runs' = runs + 1 /\ request' = r /\ tradeGate' \in TradeGateChoices
    /\ steps' = BuildSteps(r) /\ stage' = "reset"
    /\ UNCHANGED <<world, step, scanned, report, files, gateVars,
                   now, phase, queue, kept, scanStart, returned>>

FailToLoad ==
    /\ stage = "idle" /\ runs < MaxRuns
    /\ runs' = runs + 1
    /\ UNCHANGED <<world, request, steps, step, stage, scanned, report, files, gateVars, loopVars>>

\* Variants: the journal of the run before stays, or goes first.
OutputsButJournal == <<"decisions", "report", "parity">>
OutputsJournalFirst == <<"journal", "decisions", "report", "parity">>

\* The files in the order in which they are removed.  (The outcomes and their
\* summary, between the journal and the report, are left out.)
Outputs == <<"decisions", "journal", "report", "parity">>

Exists(f) ==
    \/ f \in torn
    \/ f = "decisions" /\ decisionsFile # {}
    \/ f = "journal" /\ journalFile # {}
    \/ f = "report" /\ reportFile # <<>>
    \/ f = "parity" /\ parityFile # <<>>

RemoveOutput ==
    /\ stage = "reset"
    /\ \E i \in DOMAIN Outputs :
          /\ Exists(Outputs[i]) /\ \A j \in 1..(i - 1) : ~Exists(Outputs[j])
          /\ torn' = torn \ {Outputs[i]}
          /\ decisionsFile' = IF Outputs[i] = "decisions" THEN {} ELSE decisionsFile
          /\ journalFile' = IF Outputs[i] = "journal" THEN {} ELSE journalFile
          /\ deliveries' = IF Outputs[i] = "journal" THEN {} ELSE deliveries
          /\ reportFile' = IF Outputs[i] = "report" THEN <<>> ELSE reportFile
          /\ parityFile' = IF Outputs[i] = "parity" THEN <<>> ELSE parityFile
    /\ UNCHANGED <<runs, world, request, steps, step, stage, scanned, report, gateVars, loopVars>>

OutputsRemoved ==
    /\ stage = "reset" /\ \A i \in DOMAIN Outputs : ~Exists(Outputs[i])
    /\ stage' = "run"
    /\ UNCHANGED <<runs, world, request, steps, step, scanned, report, files, gateVars, loopVars>>

CycleDone == stage = "run" \/ (stage = "journal" /\ candidates = <<>>)

\* Nothing that the process remembers outlives it.
ForgetAll ==
    /\ stage' = "idle" /\ steps' = <<>> /\ step' = 0
    /\ candidates' = <<>> /\ decided' = NoneDecided /\ accesses' = {} /\ report' = NoReport
    /\ now' = 0 /\ phase' = "idle" /\ queue' = <<>> /\ kept' = <<>>
    /\ scanStart' = 0 /\ returned' = {}
    /\ cooldownUntil' = [p \in Pairs |-> 0]
    /\ biasHistory' = {} /\ exposure' = {} /\ serial' = 0 /\ journal' = {}

\* The file that the process is writing: rows and reports are written through a
\* buffer, of which a part may get to the file.
InHand ==
    CASE stage = "decisions" -> {"decisions"}
      [] stage = "delivery" \/ (stage = "journal" /\ candidates # <<>>) -> {"journal"}
      [] CycleDone /\ step = Len(steps) /\ live # {} -> {"parity"}
      [] stage = "report" -> {"report"}
      [] OTHER -> {}

Kill ==
    /\ stage # "idle"
    /\ ForgetAll
    /\ torn' \in {torn, torn \cup InHand}
    /\ UNCHANGED <<runs, world, request, tradeGate,
                   decisionsFile, journalFile, deliveries, parityFile, reportFile>>

-----------------------------------------------------------------------------
(* AsofReplayScanner.scan_cycle.                                           *)

ScanCycle ==
    /\ CycleDone /\ step < Len(steps)
    /\ step' = step + 1 /\ now' = steps[step + 1] /\ stage' = "evaluate"
    /\ candidates' = <<>> /\ decided' = NoneDecided
    /\ accesses' = {Access(p, tf, steps[step + 1]) : p \in Pairs, tf \in DOMAIN Frames}
    /\ UNCHANGED <<runs, world, request, steps, report, files, gateVars,
                   tradeGate, phase, queue, kept, scanStart, returned>>

\* The pairs in their order; fetching them may have failed, and the snapshot
\* may be rejected.  generated_at is the time of the newest trigger candle.
Undecided == {i \in DOMAIN PairOrder : decided[PairOrder[i]] = NoDecision}

Decide(p, state, where, s) ==
    decided' = [decided EXCEPT ![p] = [state |-> state, stage |-> where,
                                       side |-> s.side, at |-> s.at]]

NewestTrigger(p) == Max(Fetch(p, "trigger", now))

Evaluate ==
    /\ stage = "evaluate" /\ Undecided # {}
    /\ LET p == PairOrder[Min(Undecided)]
       IN  \/ \E where \in {"data", "score"} :
                 /\ decided' = [decided EXCEPT ![p] = [NoDecision EXCEPT
                          !.state = IF where = "data" THEN "error" ELSE "rejected",
                          !.stage = where]]
                 /\ UNCHANGED candidates
           \/ \E side \in PlanSides, score \in Scores, hold \in Holds :
                 /\ Fetch(p, "trigger", now) # {}
                 /\ LET s == [pair |-> p, side |-> side, bias |-> "any",
                              at |-> NewestTrigger(p), hold |-> hold, score |-> score]
                    IN  /\ Decide(p, "candidate", "candidate", s)
                        /\ candidates' = Append(candidates, s)
    /\ UNCHANGED <<runs, world, request, steps, step, stage, accesses, report, files, gateVars, loopVars>>

\* A candidate that no loop passes on is recorded under the name of the loop.
DropAll(where, before, after) ==
    [p \in Pairs |->
        IF p \in {before[i].pair : i \in DOMAIN before} \ {after[i].pair : i \in DOMAIN after}
        THEN [decided[p] EXCEPT !.state = "rejected", !.stage = where]
        ELSE decided[p]]

\* The score has done its work when the candidates are in order.
SignalOf(s) == [pair |-> s.pair, side |-> s.side, bias |-> s.bias, at |-> s.at, hold |-> s.hold]

FilterCorrelated ==
    /\ stage = "evaluate" /\ Undecided = {}
    /\ \E k \in Cap!Kept(candidates) :
          /\ queue' = [i \in DOMAIN k |-> SignalOf(k[i])]
          /\ decided' = DropAll("correlation", candidates, k)
    /\ phase' = "currency" /\ kept' = <<>> /\ scanStart' = serial
    /\ stage' = "loops"
    /\ UNCHANGED <<runs, world, request, steps, step, candidates, accesses, report, files, gateVars,
                   now, tradeGate, returned>>

\* One candidate in one of the loops of the scan.
RunLoops ==
    /\ stage = "loops" /\ queue # <<>>
    /\ Gate!ApplyCurrencyCap \/ Gate!ApplyPortfolioCap \/ Gate!GateSignalRelease \/ Gate!CheckTrade
    /\ decided' = IF Len(kept') > Len(kept) THEN decided
                  ELSE DropAll(phase, <<Head(queue)>>, <<>>)
    /\ UNCHANGED <<runs, world, request, steps, step, stage, candidates, accesses, report, files>>

NextLoop ==
    /\ stage = "loops"
    /\ Gate!NextLoop
    /\ UNCHANGED <<runs, world, request, steps, step, stage, scanned, report, files>>

\* The cycle ends: a row is appended for the decision of each pair, and then, for
\* each released signal, its candidate row and the delivery it would have had.
Accepted(d) == [d EXCEPT !.state = "accepted", !.stage = "released"]

Released == {kept[i].pair : i \in DOMAIN kept}

FinalDecision(p) == IF p \in Released THEN Accepted(decided[p]) ELSE decided[p]

ReplaySignal(r) == [step |-> now, pair |-> r.pair, side |-> r.side, at |-> r.at]

ReturnCycle ==
    /\ stage = "loops"
    /\ Gate!ReturnSignals
    /\ decided' = [p \in Pairs |-> FinalDecision(p)]
    /\ candidates' = [i \in DOMAIN kept |-> ReplaySignal(kept[i])]
    /\ stage' = "decisions"
    /\ report' = [report EXCEPT !.guard = @ /\ FutureLeaks(accesses) = {},
                                !.decisions = @ + Cardinality(Pairs)]
    /\ UNCHANGED <<runs, world, request, steps, step, accesses, files>>

\* Pairs whose row is still to be written.
Unwritten == {i \in DOMAIN PairOrder : decided[PairOrder[i]] # NoDecision}

AppendDecision ==
    /\ stage = "decisions" /\ Unwritten # {}
    /\ LET p == PairOrder[Min(Unwritten)]
       IN  /\ decisionsFile' = decisionsFile \cup
                 {[step |-> now, pair |-> p, decision |-> decided[p]]}
           /\ decided' = [decided EXCEPT ![p] = NoDecision]
    /\ stage' = IF decided' = NoneDecided THEN "journal" ELSE "decisions"
    /\ UNCHANGED <<runs, world, request, steps, step, candidates, accesses, report,
                   journalFile, deliveries, parityFile, reportFile, torn, gateVars, loopVars>>

AppendJournalSignal ==
    /\ stage = "journal" /\ candidates # <<>>
    /\ journalFile' = journalFile \cup {Head(candidates)}
    /\ stage' = "delivery"
    /\ UNCHANGED <<runs, world, request, steps, step, scanned, report,
                   decisionsFile, deliveries, parityFile, reportFile, torn, gateVars, loopVars>>

AppendDelivery ==
    /\ stage = "delivery"
    /\ deliveries' = deliveries \cup {Head(candidates)}
    /\ candidates' = Tail(candidates) /\ stage' = "journal"
    /\ report' = [report EXCEPT !.signals = @ + 1]
    /\ UNCHANGED <<runs, world, request, steps, step, decided, accesses,
                   decisionsFile, journalFile, parityFile, reportFile, torn, gateVars, loopVars>>

-----------------------------------------------------------------------------
(* The parity report.                                                      *)

Key(c) == <<c.at, c.pair, c.side>>
LiveKeys == {Key(c) : c \in live}
ReplayKeys == {Key(c) : c \in journalFile}

DecisionsAt(t, p) == {d \in decisionsFile : d.step = t /\ d.pair = p}

Classification(c) ==
    LET atScan == DecisionsAt(c.observed, c.pair)
        atSignal == DecisionsAt(c.at, c.pair)
        accepted(S) == \E d \in S : d.decision.state = "accepted"
    IN  IF Key(c) \in ReplayKeys THEN "exact_match"
        ELSE IF atScan # {}
        THEN IF accepted(atScan) THEN "scan_time_accepted_different_signal"
             ELSE "replay_rejected_at_scan_time"
        ELSE IF atSignal # {}
        THEN IF accepted(atSignal) THEN "signal_time_accepted_different_signal"
             ELSE "replay_rejected_at_signal_time"
        ELSE "missing_replay_decision"

Parity == IF LiveKeys = ReplayKeys THEN "matched" ELSE "mismatch"

Missing == {c \in live : Classification(c) = "missing_replay_decision"}

\* Without a live journal there is no parity report.
WriteParity ==
    /\ CycleDone /\ step = Len(steps)
    /\ parityFile' = IF live = {} THEN parityFile ELSE <<[status |-> Parity, missing |-> Missing]>>
    /\ stage' = "report"
    /\ UNCHANGED <<runs, world, request, steps, step, scanned, report,
                   decisionsFile, journalFile, deliveries, reportFile, torn, gateVars, loopVars>>

FinishRun ==
    /\ stage = "report"
    /\ reportFile' = <<[request |-> request, steps |-> Len(steps), decisions |-> report.decisions,
                        signals |-> report.signals, guard |-> report.guard,
                        parity |-> IF live = {} THEN "off" ELSE parityFile[1].status]>>
    /\ ForgetAll
    /\ UNCHANGED <<runs, world, request, tradeGate,
                   decisionsFile, journalFile, deliveries, parityFile, torn>>

ReplayNext ==
    \/ \E r \in Requests : StartRun(r)
    \/ FailToLoad
    \/ RemoveOutput
    \/ OutputsRemoved
    \/ Kill
    \/ ScanCycle
    \/ Evaluate
    \/ FilterCorrelated
    \/ RunLoops
    \/ NextLoop
    \/ ReturnCycle
    \/ AppendDecision
    \/ AppendJournalSignal
    \/ AppendDelivery
    \/ WriteParity
    \/ FinishRun

ReplaySpec == ReplayInit /\ [][ReplayNext]_replayVars

-----------------------------------------------------------------------------
(* Properties.                                                             *)

\* The state has its type, and a decision that was written is final.
ReplayTypeOK ==
    /\ stage \in {"idle", "reset", "run", "evaluate", "loops", "decisions", "journal", "delivery", "report"}
    /\ step \in 0..Len(steps)
    /\ \A d \in decisionsFile : d.decision.state \in {"accepted", "rejected", "error"}
    /\ deliveries \subseteq journalFile
    /\ Len(parityFile) <= 1 /\ Len(reportFile) <= 1 /\ torn \subseteq {"decisions", "journal", "report", "parity"}

AcceptedRows == {d \in decisionsFile : d.decision.state = "accepted"}

RowOf(d) == [step |-> d.step, pair |-> d.pair, side |-> d.decision.side, at |-> d.decision.at]

Running == stage \notin {"idle", "reset"}

\* Only the last step may lack rows when the process dies: of every earlier one
\* each pair has its decision, and each accepted signal both its journal rows.
\* (run, _append_decisions, _append_journal_signal)
EarlierStepsWhole ==
    /\ \A d, e \in decisionsFile : d.step < e.step =>
          /\ \A p \in Pairs : DecisionsAt(d.step, p) # {}
          /\ d \in AcceptedRows => RowOf(d) \in deliveries
    /\ \A j, k \in journalFile \ deliveries : j = k

\* As long as there is a decisions file, every row of the journal beside it has
\* its accepted decision there: none is of an earlier run.  A process that goes
\* on writes behind no torn row.  (_reset_outputs)
NothingLeftOver ==
    /\ Running \/ decisionsFile # {} => journalFile \subseteq {RowOf(d) : d \in AcceptedRows}
    /\ Running => torn = {}

\* A report is of whole files and counts what they hold: every pair at every
\* step, each signal with both its rows, nothing of an earlier or of a killed
\* run.  Only while the next run removes them does it stand alone.  (_report)
ReportTrue ==
    reportFile # <<>> =>
        LET r == reportFile[1]
        IN  /\ torn = {}
            /\ live # {} => parityFile # <<>> /\ parityFile[1].status = r.parity
            /\ \/ decisionsFile = {} /\ r.decisions > 0
               \/ /\ r.decisions = Cardinality(decisionsFile)
                  /\ \A d \in decisionsFile, p \in Pairs : DecisionsAt(d.step, p) # {}
                  /\ r.signals = Cardinality(AcceptedRows)
                  /\ r.signals = Cardinality(journalFile) /\ deliveries = journalFile
                  /\ r.parity = "matched" => \A c \in live : Classification(c) = "exact_match"

\* No two signals of one cycle come from pairs that correlate.  (CorrelationCap.filter)
CorrelatedOnce ==
    \A d, e \in AcceptedRows :
        d.step = e.step /\ d.pair # e.pair => ~Correlated(d.pair, e.pair)

\* The replay visits a trigger candle more than once when another pair or the
\* live journal adds a step; its signal is released once all the same, while the
\* pair cooldown is on.
SignalOnce ==
    \A j, k \in journalFile : j.pair = k.pair /\ j.at = k.at => j = k

\* A live candidate of a pair and a time the request asked to replay is compared with a decision:
\* the parity report calls none of them missing.  (_live_journal_steps)
LiveStepsCovered ==
    reportFile # <<>> /\ live # {} =>
        LET r == reportFile[1].request
        IN  r.source # "trigger" /\ reportFile[1].steps < r.maxSteps =>
                \A c \in parityFile[1].missing :
                    ~(c.pair \in Pairs /\ Within(r, c.observed) /\ HasWarmup(c.observed))

\* The files of a replay are well formed and agree with each other.
FilesSound == ReplayTypeOK /\ EarlierStepsWhole /\ NothingLeftOver /\ ReportTrue
=============================================================================
