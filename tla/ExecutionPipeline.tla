------------------------- MODULE ExecutionPipeline -------------------------
(***************************************************************************)
(* Phases 7 to 12 of the crypto execution design: paper readiness, dry     *)
(* run, sandbox execution, order preview, market safety, realtime guard.   *)
(* Each phase is a command of its own: it reads the report file its        *)
(* predecessor left, of whatever age, computes its own report and          *)
(* rewrites its file in place.  Phases run in any order and overlap.       *)
(*                                                                         *)
(* The require_* switches of the settings are on, as by default.  The      *)
(* live-order flags are the literal False in every report written, so the  *)
(* checks of them are left out.  Prices are small integers, limits in      *)
(* basis points absolute distances, ages counted in ticks.  Of a report    *)
(* only what its successor can use is kept: nothing, unless its decision   *)
(* is ready.                                                               *)
(***************************************************************************)
EXTENDS Integers, Sequences, FiniteSets

CONSTANTS
    Candidates,          \* [symbol, side, entry, stop, at]: rows of the journal
    Allowed,             \* allowed_symbols of phases 10 and 12
    Evidence,            \* what a run of phase 7 can find
    Words,               \* contents of the kill-switch file
    Modes,               \* <<mode, allow_sandbox_stub>> a run of phase 9 may have
    Views,               \* what the exchange and the diagnostics log may answer
    Books, Lasts,        \* quotes a websocket message may carry
    Risk, MaxRisk, MinOrder, MinNotional, MaxNotional,
    MaxCandidates, MaxOrders,
    MaxTickerAge, MaxSnapshotAge, MaxDiagnosticsAge,
    MaxSpread, MaxDeviation, MaxDrift,
    MaxRunning           \* bound of the model: commands running at once

ASSUME BoundsAssumption ==
    /\ MaxCandidates \in Nat \ {0} /\ MaxOrders \in Nat /\ MaxRunning \in Nat \ {0}
    /\ MaxSnapshotAge \in Nat /\ MaxTickerAge \in Nat /\ MaxDiagnosticsAge \in Nat

\* A candidate's place in the order of (generated_at, symbol, journal_id),
\* which no two rows share.
ASSUME CandidatesAssumption ==
    /\ \A c \in Candidates : c.at \in Nat
    /\ \A c, d \in Candidates : c.at = d.at => c = d

\* Prices are whole numbers; a ticker without a time has the age NoTime.
NoTime == -1
ASSUME QuotesAssumption ==
    /\ Books \subseteq [bid : Int, ask : Int] /\ Lasts \subseteq Int
    /\ \A v \in Views :
        v.ticker \in Seq([bid : Int, ask : Int, last : Int, age : Nat \cup {NoTime}])

VARIABLES
    journal,    \* candidate -> "absent", "recorded" or "sent"
    switch,     \* what the kill-switch file says
    file,       \* phase -> its report file
    run,        \* phase -> the command running, if any
    store,      \* the snapshot file of phase 12, symbol -> snapshot
    memory,     \* the snapshot store of a running phase 12
    cleared,    \* history: candidates accepted while the switch was off
    heard       \* history: symbol -> what was quoted lately, with its age

vars == <<journal, switch, file, run, store, memory, cleared, heard>>

Phases == 7..12
Old == MaxSnapshotAge + 1

\* The decision that lets the next phase go on; a missing, truncated or
\* unreadable file is as good as a decision that does not.
Go == [p \in Phases |->
    CASE p = 7 -> "READY_FOR_EXECUTION_DESIGN_REVIEW"
      [] p = 8 -> "DRY_RUN_ORDER_INTENTS_READY"
      [] p = 9 -> "SANDBOX_EXECUTION_READY"
      [] p = 10 -> "TESTNET_ORDER_REQUEST_PREVIEW_READY"
      [] p = 11 -> "REALTIME_MARKET_SAFETY_READY"
      [] p = 12 -> "FINAL_PRE_ORDER_GUARD_READY"]

Unusable == [ready |-> FALSE, items |-> <<>>]
Report(p, decision, items) ==
    IF decision = Go[p] THEN [ready |-> TRUE, items |-> items] ELSE Unusable

Item(c, state) == [candidate |-> c, state |-> state]
States(items) == {items[i].state : i \in DOMAIN items}
Take(s, n) == SubSeq(s, 1, IF n < Len(s) THEN n ELSE Len(s))

\* What s has at these places, in the order it has there.
InOrder(s, places) ==
    [k \in 1..Cardinality(places) |->
        s[CHOOSE i \in places : Cardinality({j \in places : j < i}) = k - 1]]
InState(items, state) == {i \in DOMAIN items : items[i].state = state}

Distance(a, b) == IF a > b THEN a - b ELSE b - a

-----------------------------------------------------------------------------
(* Phase 7, crypto_execution_readiness.py                                  *)

\* build_crypto_execution_readiness_report: the failed guardrails, by severity
FailedBlockers(e) ==
    {g \in {"market_scope", "live_mode_disabled", "health"} : ~e[g]}
    \cup {g \in {"expectancy", "drawdown", "roi"} : ~e[g] /\ e.sample}
    \cup {g \in {"coverage"} : e[g] = "negative"}

FailedCollecting(e) ==
    {g \in {"sample"} : ~e[g]}
    \cup {g \in {"expectancy", "drawdown", "roi"} : ~e[g] /\ ~e.sample}
    \cup {g \in {"coverage"} : e[g] \in {"missing", "undersampled"}}

\* _decision
ReadinessDecision(e) ==
    IF FailedBlockers(e) # {} THEN "BLOCK_LIVE_EXECUTION_DESIGN"
    ELSE IF FailedCollecting(e) # {} THEN "KEEP_PAPER_MONITORING"
    ELSE "READY_FOR_EXECUTION_DESIGN_REVIEW"

-----------------------------------------------------------------------------
(* Phase 8, crypto_execution_dry_run.py                                    *)

NextPhaseAllowed == file[7].ready

\* Variant: undelivered candidates count as well.
NewestOfAll ==
    LET Rows == {c \in Candidates : journal[c] # "absent"}
        Rank(c) == Cardinality({d \in Rows : d.at > c.at})
    IN  Take([i \in 1..Cardinality(Rows) |-> CHOOSE c \in Rows : Rank(c) = i - 1],
             MaxCandidates)

\* load_candidates(sent_only=True), newest first, the first max_candidates
Newest ==
    LET Sent == {c \in Candidates : journal[c] = "sent"}
        Rank(c) == Cardinality({d \in Sent : d.at > c.at})
    IN  Take([i \in 1..Cardinality(Sent) |-> CHOOSE c \in Sent : Rank(c) = i - 1],
             MaxCandidates)

RiskQuote == IF MaxRisk > 0 /\ Risk > MaxRisk THEN MaxRisk ELSE Risk
Quantity(c) == IF c.entry = c.stop THEN 0 ELSE RiskQuote \div Distance(c.entry, c.stop)
Notional(c) == Quantity(c) * c.entry

\* _intent: the reasons to block it, apart from phase 7
IntentBlocks(c) ==
    {r \in {"spot_sell", "invalid_stop_distance", "below_min_order", "below_minimum",
            "above_maximum", "quantity_zero"} :
        \/ r = "spot_sell" /\ c.side = "SELL"
        \/ r = "invalid_stop_distance" /\ c.entry = c.stop
        \/ r = "below_min_order" /\ Quantity(c) < MinOrder
        \/ r = "below_minimum" /\ Notional(c) < MinNotional
        \/ r = "above_maximum" /\ MaxNotional > 0 /\ Notional(c) > MaxNotional
        \/ r = "quantity_zero" /\ Quantity(c) <= 0}

Intent(c) ==
    Item(c, IF NextPhaseAllowed /\ IntentBlocks(c) = {} THEN "ready_dry_run" ELSE "blocked")

\* build_report and _decision
DryRunReport ==
    LET intents == [i \in DOMAIN Newest |-> Intent(Newest[i])]
    IN  Report(8,
               IF ~NextPhaseAllowed THEN "WAIT_FOR_PHASE7_READINESS"
               ELSE IF intents = <<>> THEN "COLLECT_FORWARD_SIGNALS"
               ELSE IF "ready_dry_run" \notin States(intents) THEN "REVIEW_BLOCKED_ORDER_INTENTS"
               ELSE "DRY_RUN_ORDER_INTENTS_READY",
               intents)

-----------------------------------------------------------------------------
(* Phase 9, crypto_sandbox_execution.py                                    *)

\* The words the code lists for a switch that is on.
ListedWords == {"1", "true", "yes", "on", "enabled", "active", "halt", "stop", "kill"}

\* read_kill_switch: json.loads accepts "1" and "true", and what it accepts
\* only counts when it is an object.
SwitchActive(w) ==
    \/ w = "unreadable"
    \/ w \in ListedWords \ {"1", "true"}
    \/ w = "{enabled}"

\* _ready_intents
ReadyIntents(items) ==
    Take(InOrder(items, InState(items, "ready_dry_run")), MaxOrders)

\* Variant: a run goes by the switch of an earlier day.
KillSwitchCached == FALSE

\* What a run of phase 9 finds.
KillSwitch == SwitchActive(switch)

\* The order of one selected intent: _blocked_by_kill_switch, or the adapter's
\* submit_order_intent with validate_order_intent.
Executed(c, mode) ==
    IF KillSwitch THEN Item(c, "blocked_by_kill_switch")
    ELSE IF mode = <<"sandbox_stub", FALSE>> THEN Item(c, "rejected")
    ELSE IF Quantity(c) <= 0 \/ c.entry <= 0 THEN Item(c, "rejected")
    ELSE Item(c, "simulated_filled")

\* build_reconciliation_report: one result per intent, with ids of their own
Reconciled(orders) ==
    \A i, j \in DOMAIN orders : orders[i].candidate = orders[j].candidate => i = j

\* build_report and _decision
SandboxReport(mode) ==
    LET selected == ReadyIntents(file[8].items)
        orders == [i \in DOMAIN selected |-> Executed(selected[i].candidate, mode)]
    IN  Report(9,
               IF KillSwitch THEN "KILL_SWITCH_ACTIVE"
               ELSE IF orders = <<>> THEN "COLLECT_DRY_RUN_INTENTS"
               ELSE IF ~Reconciled(orders) THEN "REVIEW_RECONCILIATION"
               ELSE IF "rejected" \in States(orders) THEN "REVIEW_EXECUTION_REJECTIONS"
               ELSE "SANDBOX_EXECUTION_READY",
               orders)

-----------------------------------------------------------------------------
(* Phase 10, crypto_testnet_order_preview.py                               *)

\* phase9_source_blocks: missing, unreadable, not reconciled or not ready
PreviewSourceBlocks == ~file[9].ready

\* source_orders
SourceOrders(items) ==
    Take(InOrder(items, InState(items, "simulated_filled")), MaxOrders)

\* order_blocks
OrderBlocked(c) == c.symbol \notin Allowed \/ c.side # "BUY" \/ Quantity(c) <= 0

\* build_report, _preview and _decision
PreviewReport ==
    LET orders == IF PreviewSourceBlocks THEN <<>> ELSE SourceOrders(file[9].items)
        Preview(c) == Item(c, IF OrderBlocked(c) THEN "blocked" ELSE "request_previewed")
        requests == [i \in DOMAIN orders |-> Preview(orders[i].candidate)]
    IN  Report(10,
               IF PreviewSourceBlocks THEN "BLOCK_PHASE9_SOURCE"
               ELSE IF requests = <<>> THEN "COLLECT_PHASE9_SANDBOX_ORDERS"
               ELSE IF "blocked" \in States(requests) THEN "REVIEW_BLOCKED_TESTNET_REQUESTS"
               ELSE "TESTNET_ORDER_REQUEST_PREVIEW_READY",
               requests)

-----------------------------------------------------------------------------
(* What phases 11 and 12 share.  A view v holds the answers of one check:  *)
(* ticker, drift and book, each a sequence of at most one (a call that     *)
(* raised leaves it empty), and diagnostics, the newest row likewise.      *)

SpreadOf(q) == IF q.bid > 0 /\ q.ask >= q.bid THEN <<q.ask - q.bid>> ELSE <<>>

\* _reference_price of a buy or a sell
Reference(side, bid, ask, last) ==
    LET near == IF side = "BUY" THEN ask ELSE bid
    IN  IF near > 0 THEN near ELSE last

\* market_diagnostics_blocks on latest_market_diagnostic
DiagnosticsClean(v) ==
    \E d \in {v.diagnostics[i] : i \in DOMAIN v.diagnostics} :
        d.age <= MaxDiagnosticsAge /\ d.served = "fresh" /\ d.ok /\ ~d.stale

\* _exchange_time_details
ClockAgrees(v) == v.drift # <<>> /\ v.drift[1] <= MaxDrift

\* _order_book_details: a top of book with both sides, uncrossed
BookValid(v) == v.book # <<>> /\ SpreadOf(v.book[1]) # <<>>

PriceNear(c, reference) ==
    c.entry > 0 /\ reference > 0 /\ Distance(c.entry, reference) <= MaxDeviation

-----------------------------------------------------------------------------
(* Phase 11, crypto_market_safety.py                                       *)

\* phase10_source_blocks
SafetySourceBlocks == ~file[10].ready

\* _ticker_details: a ticker without a time is refused
TickerValid(v) ==
    v.ticker # <<>> /\ v.ticker[1].age \in 0..MaxTickerAge /\ SpreadOf(v.ticker[1]) # <<>>

\* _check_request, with the order book check on: the book overrides the
\* ticker's spread, bid and ask when it has a spread.
RequestSafe(c, v) ==
    /\ TickerValid(v) /\ ClockAgrees(v) /\ BookValid(v) /\ DiagnosticsClean(v)
    /\ SpreadOf(v.book[1])[1] <= MaxSpread
    /\ PriceNear(c, Reference(c.side, v.book[1].bid, v.book[1].ask, v.ticker[1].last))

\* build_report and _decision; every check of a run meets the same answers
SafetyReport(v) ==
    LET source == IF SafetySourceBlocks THEN <<>> ELSE
            InOrder(file[10].items, InState(file[10].items, "request_previewed"))
        Check(c) == Item(c, IF RequestSafe(c, v) THEN "market_safe" ELSE "blocked")
        checks == [i \in DOMAIN source |-> Check(source[i].candidate)]
    IN  Report(11,
               IF SafetySourceBlocks THEN "BLOCK_PHASE10_SOURCE"
               ELSE IF checks = <<>> THEN "COLLECT_PHASE10_PREVIEWS"
               ELSE IF "blocked" \in States(checks) THEN "BLOCK_EXECUTION_MARKET_UNSAFE"
               ELSE "REALTIME_MARKET_SAFETY_READY",
               checks)

-----------------------------------------------------------------------------
(* Phase 12, crypto_realtime_guard.py: the snapshot store.  Ages are taken *)
(* from book_ticker_observed_at and last_observed_at.                      *)

NoSnapshot == [bid |-> 0, ask |-> 0, last |-> 0, bookAge |-> NoTime, lastAge |-> NoTime]

\* _age_seconds one tick later, up to one beyond the limit
Aged(a) == IF a \in 0..MaxSnapshotAge THEN a + 1 ELSE a
AgedSnapshot(s) == [s EXCEPT !.bookAge = Aged(@), !.lastAge = Aged(@)]

\* Variant: a last price makes the whole snapshot new.
LastUpdateOfBoth(s, l) == [s EXCEPT !.last = l, !.bookAge = 0, !.lastAge = 0]

\* update_book_ticker keeps the last price and its time, update_mini_ticker
\* the book and its time.  Either counts from its arrival (observed_at).
BookUpdate(s, q) == [s EXCEPT !.bid = q.bid, !.ask = q.ask, !.bookAge = 0]
LastUpdate(s, l) == [s EXCEPT !.last = l, !.lastAge = 0]

\* Variant: every ticker counts as new when it arrives.
TickerUpdateStamped(q) ==
    [bid |-> q.bid, ask |-> q.ask, last |-> q.last, bookAge |-> 0, lastAge |-> 0]

\* update_from_ticker: ticker_time or observed_at.  The time of the ticker,
\* and for one without a time that of the guard's run.
TickerUpdate(q) ==
    LET age == IF q.age = NoTime THEN 0 ELSE IF q.age > Old THEN Old ELSE q.age
    IN  [bid |-> q.bid, ask |-> q.ask, last |-> q.last, bookAge |-> age, lastAge |-> age]

\* _snapshot_details without reasons
SnapshotReady(s) ==
    /\ s.bookAge \in 0..MaxSnapshotAge /\ s.lastAge \in 0..MaxSnapshotAge
    /\ SpreadOf(s) # <<>> /\ s.last > 0

\* What the quotes of the last MaxSnapshotAge ticks said, kept apart from the
\* snapshots: each top of book and each last price with the age it really has.
\* Only for a ticker without a time that is the age since its arrival.
Nothing == [books |-> {}, lasts |-> {}]
BooksOf(q, age) == {b \in {[bid |-> q.bid, ask |-> q.ask, age |-> age]} : age <= MaxSnapshotAge}
LastsOf(l, age) == {x \in {[last |-> l, age |-> age]} : age <= MaxSnapshotAge}
TickerAge(q) == IF q.age = NoTime THEN 0 ELSE q.age
Heard(h, q) ==
    [books |-> h.books \cup BooksOf(q, TickerAge(q)),
     lasts |-> h.lasts \cup LastsOf(q.last, TickerAge(q))]
Later(h) ==
    [books |-> UNION {BooksOf(b, b.age + 1) : b \in h.books},
     lasts |-> UNION {LastsOf(x.last, x.age + 1) : x \in h.lasts}]

\* A snapshot says what was quoted at the ages it gives.
Quoted(s, h) ==
    /\ [bid |-> s.bid, ask |-> s.ask, age |-> s.bookAge] \in h.books
    /\ [last |-> s.last, age |-> s.lastAge] \in h.lasts

-----------------------------------------------------------------------------
(* Phase 12: the guard.                                                    *)

\* phase11_source_blocks
GuardSourceBlocks == ~file[11].ready

\* source_phase11_checks
SourceChecks(items) ==
    InOrder(items, {i \in InState(items, "market_safe") : items[i].candidate.symbol \in Allowed})

\* The fallback of _check_source, and the snapshot the check then uses.
NeedsFallback(s) == ~SnapshotReady(memory[s])
AfterFallback(s, v) ==
    IF NeedsFallback(s) /\ v.ticker # <<>> THEN TickerUpdate(v.ticker[1]) ELSE memory[s]

\* _check_source, with the order book refresh and the fallback on
CheckReady(c, v) ==
    LET s == AfterFallback(c.symbol, v)
    IN  /\ NeedsFallback(c.symbol) => v.ticker # <<>>
        /\ SnapshotReady(s)
        /\ BookValid(v) /\ ClockAgrees(v) /\ DiagnosticsClean(v)
        /\ SpreadOf(v.book[1])[1] <= MaxSpread
        /\ PriceNear(c, Reference(c.side, v.book[1].bid, v.book[1].ask, s.last))

GuardSource == IF GuardSourceBlocks THEN <<>> ELSE SourceChecks(file[11].items)

\* build_report and _decision
GuardReport(v) ==
    LET Check(c) == Item(c, IF CheckReady(c, v) THEN "final_guard_ready" ELSE "blocked")
        checks == [i \in DOMAIN GuardSource |-> Check(GuardSource[i].candidate)]
    IN  Report(12,
               IF GuardSourceBlocks THEN "BLOCK_PHASE11_SOURCE"
               ELSE IF checks = <<>> THEN "COLLECT_PHASE11_MARKET_SAFETY"
               ELSE IF "blocked" \in States(checks) THEN "BLOCK_FINAL_PRE_ORDER_GUARD"
               ELSE "FINAL_PRE_ORDER_GUARD_READY",
               checks)

-----------------------------------------------------------------------------
(* The commands, research/crypto_*.py.  A command computes its report from *)
(* what it reads, then truncates its file and fills it (write_..._outputs).*)

Idle == [step |-> "idle", report |-> Unusable]
Running == {p \in Phases : run[p].step # "idle"}

Starts(p) == run[p].step = "idle" /\ Cardinality(Running) < MaxRunning
Computes(p, report) == run' = [run EXCEPT ![p] = [step |-> "computed", report |-> report]]

RunReadiness ==
    /\ Starts(7)
    /\ \E e \in Evidence : Computes(7, Report(7, ReadinessDecision(e), <<>>))
    /\ UNCHANGED <<journal, switch, file, store, memory, cleared, heard>>

RunDryRun ==
    /\ Starts(8)
    /\ Computes(8, DryRunReport)
    /\ UNCHANGED <<journal, switch, file, store, memory, cleared, heard>>

RunSandbox ==
    /\ Starts(9)
    /\ \E mode \in Modes : Computes(9, SandboxReport(mode))
    /\ cleared' = IF SwitchActive(switch) THEN cleared ELSE cleared \cup
           {file[8].items[i].candidate : i \in InState(file[8].items, "ready_dry_run")}
    /\ UNCHANGED <<journal, switch, file, store, memory, heard>>

RunPreview ==
    /\ Starts(10)
    /\ Computes(10, PreviewReport)
    /\ UNCHANGED <<journal, switch, file, store, memory, cleared, heard>>

RunSafety ==
    /\ Starts(11)
    /\ \E v \in Views : Computes(11, SafetyReport(v))
    /\ UNCHANGED <<journal, switch, file, store, memory, cleared, heard>>

\* RealtimeSnapshotStore.load when the command of phase 12 starts
LoadSnapshots ==
    /\ Starts(12)
    /\ run' = [run EXCEPT ![12] = [step |-> "collecting", report |-> Unusable]]
    /\ memory' = store
    /\ UNCHANGED <<journal, switch, file, store, cleared, heard>>

\* collect_for receives a message
ReceiveQuote(s) ==
    /\ run[12].step = "collecting"
    /\ \/ \E q \in Books :
            /\ memory' = [memory EXCEPT ![s] = BookUpdate(@, q)]
            /\ heard' = [heard EXCEPT ![s].books = @ \cup BooksOf(q, 0)]
       \/ \E l \in Lasts :
            /\ memory' = [memory EXCEPT ![s] = LastUpdate(@, l)]
            /\ heard' = [heard EXCEPT ![s].lasts = @ \cup LastsOf(l, 0)]
    /\ UNCHANGED <<journal, switch, file, run, store, cleared>>

\* collect_for ends and saves
SaveSnapshots ==
    /\ run[12].step = "collecting" /\ store # memory
    /\ store' = memory
    /\ UNCHANGED <<journal, switch, file, run, memory, cleared, heard>>

\* build_report: what a check takes from a ticker is saved at once
RunGuard ==
    /\ run[12].step = "collecting"
    /\ \E v \in Views :
        LET symbols == {GuardSource[i].candidate.symbol : i \in DOMAIN GuardSource}
            refreshed == {s \in symbols : NeedsFallback(s) /\ v.ticker # <<>>}
        IN  /\ Computes(12, GuardReport(v))
            /\ memory' = [s \in Allowed |->
                   IF s \in refreshed THEN AfterFallback(s, v) ELSE memory[s]]
            /\ store' = IF refreshed = {} THEN store ELSE memory'
            /\ heard' = [s \in Allowed |->
                   IF s \in refreshed THEN Heard(heard[s], v.ticker[1]) ELSE heard[s]]
    /\ UNCHANGED <<journal, switch, file, cleared>>

Truncate(p) ==
    /\ run[p].step = "computed"
    /\ file' = [file EXCEPT ![p] = Unusable]
    /\ run' = [run EXCEPT ![p].step = "writing"]
    /\ UNCHANGED <<journal, switch, store, memory, cleared, heard>>

Forgotten(p) == IF p = 12 THEN [s \in Allowed |-> NoSnapshot] ELSE memory

WriteReport(p) ==
    /\ run[p].step = "writing"
    /\ file' = [file EXCEPT ![p] = run[p].report]
    /\ run' = [run EXCEPT ![p] = Idle]
    /\ memory' = Forgotten(p)
    /\ UNCHANGED <<journal, switch, store, cleared, heard>>

\* The command dies, or a call it does not guard raises.
Die(p) ==
    /\ run[p].step # "idle"
    /\ run' = [run EXCEPT ![p] = Idle]
    /\ memory' = Forgotten(p)
    /\ UNCHANGED <<journal, switch, file, store, cleared, heard>>

-----------------------------------------------------------------------------
(* The surroundings: the live loop's journal, the operator, the clock.     *)

RecordCandidate(c) ==
    /\ journal[c] = "absent" /\ \A d \in Candidates : d.at < c.at => journal[d] # "absent"
    /\ journal' = [journal EXCEPT ![c] = "recorded"]
    /\ UNCHANGED <<switch, file, run, store, memory, cleared, heard>>

RecordDelivery(c) ==
    /\ journal[c] = "recorded"
    /\ journal' = [journal EXCEPT ![c] = "sent"]
    /\ UNCHANGED <<switch, file, run, store, memory, cleared, heard>>

WriteSwitch ==
    /\ \E w \in Words \ {switch} : switch' = w
    /\ UNCHANGED <<journal, file, run, store, memory, cleared, heard>>

Tick ==
    /\ store' = [s \in Allowed |-> AgedSnapshot(store[s])]
    /\ memory' = [s \in Allowed |-> AgedSnapshot(memory[s])]
    /\ heard' = [s \in Allowed |-> Later(heard[s])]
    /\ <<store', memory', heard'>> # <<store, memory, heard>>
    /\ UNCHANGED <<journal, switch, file, run, cleared>>

Init ==
    /\ journal = [c \in Candidates |-> "absent"]
    /\ switch = "missing"
    /\ file = [p \in Phases |-> Unusable]
    /\ run = [p \in Phases |-> Idle]
    /\ store = [s \in Allowed |-> NoSnapshot]
    /\ memory = [s \in Allowed |-> NoSnapshot]
    /\ cleared = {}
    /\ heard = [s \in Allowed |-> Nothing]

Next ==
    \/ RunReadiness \/ RunDryRun \/ RunSandbox \/ RunPreview \/ RunSafety
    \/ LoadSnapshots \/ SaveSnapshots \/ RunGuard
    \/ \E s \in Allowed : ReceiveQuote(s)
    \/ \E p \in Phases : Truncate(p) \/ WriteReport(p) \/ Die(p)
    \/ \E c \in Candidates : RecordCandidate(c) \/ RecordDelivery(c)
    \/ WriteSwitch \/ Tick

\* A command that computed its report goes on to write it.
Fairness == \A p \in Phases : WF_vars(Truncate(p)) /\ WF_vars(WriteReport(p))

Spec == Init /\ [][Next]_vars /\ Fairness

-----------------------------------------------------------------------------
\* The variables keep their types: reports hold candidates, snapshots ages
\* up to one beyond the limit.
TypeOK ==
    LET Steps == {"idle", "collecting", "computed", "writing"}
        Ages == {NoTime} \cup 0..Old
        WellFormed(r) ==
            /\ r.ready \in BOOLEAN /\ ~r.ready => r.items = <<>>
            /\ \A i \in DOMAIN r.items : r.items[i].candidate \in Candidates
    IN  /\ journal \in [Candidates -> {"absent", "recorded", "sent"}]
        /\ switch \in Words \cup {"missing"}
        /\ DOMAIN file = Phases /\ \A p \in Phases : WellFormed(file[p])
        /\ DOMAIN run = Phases
        /\ \A p \in Phases : run[p].step \in Steps /\ WellFormed(run[p].report)
        /\ \A s \in Allowed : {store[s].bookAge, store[s].lastAge,
                                memory[s].bookAge, memory[s].lastAge} \subseteq Ages
        /\ \A s \in Allowed : \A q \in heard[s].books \cup heard[s].lasts :
                q.age \in 0..MaxSnapshotAge
        /\ cleared \subseteq Candidates

\* What the last phase lets through has been through all of them: a report
\* that is ready holds only candidates that were delivered, are long and of an
\* allowed symbol, passed the sizing limits, and were executed by a run of
\* phase 9 that found the kill switch off, each at most once.
GuardReadyCleared ==
    \A r \in {file[12], run[12].report} :
        r.ready =>
            /\ r.items # <<>>
            /\ \A i \in DOMAIN r.items :
                LET c == r.items[i].candidate
                IN  /\ r.items[i].state = "final_guard_ready"
                    /\ journal[c] = "sent" /\ c \in cleared
                    /\ c.side = "BUY" /\ c.symbol \in Allowed /\ IntentBlocks(c) = {}
                    /\ \A j \in DOMAIN r.items : r.items[j].candidate = c => j = i

\* A guard that becomes ready did so, for each symbol, on a top of book and a
\* last price that were quoted within MaxSnapshotAge: on the websocket, counted
\* from their arrival, or by the fallback's ticker, counted from the time it
\* gives or, without one, from its arrival.  That holds whichever of them came
\* from the file of an earlier run, in whatever order the two parts were
\* updated, and however long ago the other one was; what was taken from a
\* ticker is in the file.
GuardReadyIsFresh ==
    [][ /\ run[12].step = "collecting" /\ run'[12].step = "computed"
        /\ run'[12].report.ready
        => \A i \in DOMAIN run'[12].report.items :
            LET s == run'[12].report.items[i].candidate.symbol
            IN  /\ Quoted(memory'[s], heard'[s])
                /\ SpreadOf(memory'[s]) # <<>> /\ memory'[s].last > 0
                /\ memory'[s] # memory[s] => store'[s] = memory'[s] ]_vars

\* While every phase is run again and again, a switch that stays on, or paper
\* evidence that stays insufficient, reaches the end of the chain: from some
\* time on no report lets anything through.
StopPropagates ==
    (\A p \in Phases : []<><<WriteReport(p)>>_vars) =>
        (<>[]SwitchActive(switch) \/ <>[]~NextPhaseAllowed => <>[]~file[12].ready)

\* The reports are well formed, and the last one lets through only what every
\* phase before it has cleared.
ReportsSound == TypeOK /\ GuardReadyCleared
=============================================================================
