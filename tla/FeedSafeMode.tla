---------------------------- MODULE FeedSafeMode ----------------------------
(***************************************************************************)
(* The circuit breaker at the head of the live loop: main.py asks          *)
(* services/feed_safe_mode.py, which reads the recent rows of the fetch    *)
(* log (services/feed_health.py), and skips the scan when they are bad.    *)
(* The rows are written by the fetches of the scan itself, and by those of *)
(* the market-data shadow after it.  Time is counted in ticks, and a row   *)
(* by its age, so the loop can run for ever in a finite model.             *)
(***************************************************************************)
EXTENDS Naturals, LiveModes

CONSTANTS
    Setups,     \* the settings an engine may be started with
    Window,     \* feed_safe_mode_recent_minutes
    Interval    \* scan_interval_minutes

\* data_source, enable_market_data_shadow, feed_safe_mode_block_signals and
\* pairs; the other settings are those of LiveModes.
ASSUME SafeModeAssumption ==
    /\ \A s \in Setups :
          /\ s.source \in {"ccxt", "redundant"} /\ s.shadow \in BOOLEAN /\ s.block \in BOOLEAN
          /\ s.pairs # {} /\ ScannedPairs(s) # {}
    /\ Window \in Nat \ {0} /\ Interval \in Nat \ {0}

VARIABLES
    setup,     \* the settings of this deployment
    feed,      \* what a fetch of a scanned pair would meet now
    fetchLog,  \* the trigger rows of the fetch log that are in the window
    pc,        \* where the loop is
    todo,      \* pairs the current loop still has to fetch
    wait,      \* ticks until the next cycle
    sinceBad   \* ticks since a watched fetch logged a bad row, at most Window + 1 (history)

loopVars == <<setup, feed, fetchLog, pc, todo, wait, sinceBad>>

Expected == setup.pairs          \* what the breaker asks for
Scanned == ScannedPairs(setup)   \* what the loop fetches

\* good: all three frames arrive; bad: the trigger fetch fails or is slow or
\* stale; early: a fetch before the trigger's raises, and leaves the pair out.
\* The ccxt rows are those of the trigger timeframe; the redundancy rows are
\* those of all three, and make no such difference.
FeedStates == IF setup.source = "ccxt" THEN {"good", "bad", "early"} ELSE {"good", "bad"}
Row == [pair : Scanned, ok : BOOLEAN, age : 0..Window]

LoopInit ==
    /\ setup \in Setups
    /\ feed \in [Scanned -> FeedStates]
    \* The log may hold rows of an engine that ran before, with other settings.
    /\ fetchLog \in {{}, {[pair |-> p, ok |-> TRUE, age |-> 0] : p \in Scanned}}
    /\ pc = "evaluate" /\ todo = {} /\ wait = 0
    /\ sinceBad = Window + 1

-----------------------------------------------------------------------------
(* FeedSafeModeGuard.evaluate                                              *)

\* _ccxt_component: every expected pair was fetched in the window, and none of
\* their rows is bad.  The rows of other pairs are not looked at.
ExpectedRows == {r \in fetchLog : r.pair \in Expected}
CcxtHealthy ==
    /\ Expected = {r.pair : r \in ExpectedRows}
    /\ \A r \in ExpectedRows : r.ok

\* Variant: only the rows of this moment count.
LatestRowsHealthy == \A r \in fetchLog : r.age = 0 => r.ok

\* _redundancy_component: no recent row is bad; none at all is healthy too.
RedundancyHealthy == \A r \in fetchLog : r.ok

Healthy == IF setup.source = "ccxt" THEN CcxtHealthy ELSE RedundancyHealthy

ShouldBlock == ~Healthy /\ setup.block

AfterScan == IF setup.shadow THEN "compare" ELSE "sleep"

Evaluate ==
    /\ pc = "evaluate"
    /\ IF ShouldBlock
       THEN pc' = AfterScan /\ todo' = IF setup.shadow THEN Scanned ELSE {}
       ELSE pc' = "scan" /\ todo' = Scanned
    /\ wait' = Interval
    /\ UNCHANGED <<setup, feed, fetchLog, sinceBad>>

-----------------------------------------------------------------------------
(* The fetches: MarketDataClient logs a row per fetch for ccxt, the         *)
(* redundant provider one in its own log, which the breaker reads then.    *)

Log(p, good) ==
    /\ fetchLog' = fetchLog \cup {[pair |-> p, ok |-> good, age |-> 0]}
    /\ sinceBad' = IF good \/ (setup.source = "ccxt" /\ p \notin Expected) THEN sinceBad ELSE 0

\* scan_pairs fetches all pairs first, and goes on when a pair raises.
FetchForScan(p) ==
    /\ pc = "scan" /\ p \in todo
    /\ IF feed[p] = "early"
       THEN UNCHANGED <<fetchLog, sinceBad>>
       ELSE Log(p, feed[p] = "good")
    /\ todo' = todo \ {p}
    /\ UNCHANGED <<setup, feed, pc, wait>>

ScanDone ==
    /\ pc = "scan" /\ todo = {}
    /\ pc' = AfterScan /\ todo' = IF setup.shadow THEN Scanned ELSE {}
    /\ UNCHANGED <<setup, feed, fetchLog, wait, sinceBad>>

\* compare_market_data runs after blocked cycles too, and each timeframe has
\* its own try, so the trigger frame is fetched whatever the others do.
FetchForCompare(p) ==
    /\ pc = "compare" /\ p \in todo
    /\ Log(p, feed[p] \in {"good", "early"})
    /\ todo' = todo \ {p}
    /\ UNCHANGED <<setup, feed, pc, wait>>

CompareDone ==
    /\ pc = "compare" /\ todo = {}
    /\ pc' = "sleep"
    /\ UNCHANGED <<setup, feed, fetchLog, todo, wait, sinceBad>>

WakeUp ==
    /\ pc = "sleep" /\ wait = 0
    /\ pc' = "evaluate"
    /\ UNCHANGED <<setup, feed, fetchLog, todo, wait, sinceBad>>

\* Reading the log again at the next cycle, the rows older than the window
\* are left out (observed_at >= cutoff).
StillRecent(r) == r.age < Window

TimePasses ==
    /\ pc \in {"sleep", "hung", "down"}
    /\ pc = "sleep" => wait > 0
    /\ wait' = IF wait > 0 THEN wait - 1 ELSE 0
    /\ fetchLog' = {[r EXCEPT !.age = @ + 1] : r \in {q \in fetchLog : StillRecent(q)}}
    /\ sinceBad' = IF sinceBad > Window THEN sinceBad ELSE sinceBad + 1
    /\ UNCHANGED <<setup, feed, pc, todo>>

\* A fetch that never returns: scan_pairs and compare_market_data are awaited
\* without a timeout of their own.
Hang ==
    /\ pc \in {"scan", "compare"} /\ todo # {}
    /\ pc' = "hung" /\ todo' = {} /\ wait' = 0
    /\ UNCHANGED <<setup, feed, fetchLog, sinceBad>>

\* The log file survives the process; systemd and launchd start it again.
Crash ==
    /\ pc # "down"
    /\ pc' = "down" /\ todo' = {} /\ wait' = 0
    /\ UNCHANGED <<setup, feed, fetchLog, sinceBad>>

Restart ==
    /\ pc = "down"
    /\ pc' = "evaluate"
    /\ UNCHANGED <<setup, feed, fetchLog, todo, wait, sinceBad>>

FeedChanges(p) ==
    /\ \E s \in FeedStates \ {feed[p]} : feed' = [feed EXCEPT ![p] = s]
    /\ UNCHANGED <<setup, fetchLog, pc, todo, wait, sinceBad>>

Fetch == \E p \in Scanned : FetchForScan(p) \/ FetchForCompare(p)

Loop == Evaluate \/ Fetch \/ ScanDone \/ CompareDone \/ WakeUp

LoopNext == Loop \/ TimePasses \/ Hang \/ Crash \/ Restart \/ (\E p \in Scanned : FeedChanges(p))

\* The loop runs on, time passes, and the service manager restarts a dead
\* process.  Nothing is assumed of the feed, of crashes or of hangs.
LoopSpec ==
    /\ LoopInit /\ [][LoopNext]_loopVars
    /\ WF_loopVars(Loop) /\ WF_loopVars(TimePasses) /\ WF_loopVars(Restart)

-----------------------------------------------------------------------------
\* Every variable has its type.
LoopTypeOK ==
    /\ setup \in Setups
    /\ feed \in [Scanned -> FeedStates] /\ fetchLog \subseteq Row
    /\ pc \in {"evaluate", "scan", "compare", "sleep", "hung", "down"}
    /\ todo \subseteq Scanned /\ wait \in 0..Interval /\ sinceBad \in 0..(Window + 1)

\* A scan starts only when the last bad fetch of any process, before or after
\* a restart, is out of the window: the feed can surprise one scan, not two.
\* (Under ccxt the fetches of pairs that the settings do not name do not count.)
NoScanAfterBadFetch ==
    [][pc = "evaluate" /\ pc' = "scan" /\ setup.block => sinceBad = Window + 1]_loopVars

\* Under ccxt the breaker also never lets a scan start on an expected pair
\* whose last trigger row is out of the window.
NoBlindCcxtScan ==
    [][pc = "evaluate" /\ pc' = "scan" /\ setup.block /\ setup.source = "ccxt" =>
          \A p \in Expected : \E r \in fetchLog : r.pair = p]_loopVars

\* No scan is let through on a feed the rows speak against, or, under ccxt, do
\* not speak of.
ScansOnlyOnSight == NoScanAfterBadFetch /\ NoBlindCcxtScan

FeedIsBack == (\A p \in Scanned : feed[p] = "good") /\ pc \notin {"hung", "down"}

\* Whatever the settings, scans go on once the feed is good.
ScanningResumes == <>[]FeedIsBack => []<>(pc = "scan")

\* When the feed is good from some time on and the process lives, the breaker
\* lets scans go on by itself: under ccxt because the shadow fetches in blocked
\* cycles too, provided that it fetches all the pairs that are expected; under
\* the redundant source because old rows are forgotten.
BreakerLetsGo ==
    setup.source = "redundant" \/ (setup.shadow /\ Expected \subseteq Scanned) => ScanningResumes
=============================================================================
