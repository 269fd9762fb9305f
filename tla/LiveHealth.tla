----------------------------- MODULE LiveHealth -----------------------------
(***************************************************************************)
(* The watch over the live loop: run_engine replaces a heartbeat file at   *)
(* every step of a cycle (services/live_health.py), and a timer starts     *)
(* research/live_health_check.py, a process of its own, which reads that   *)
(* file and the fetch log and tells an operator over Telegram.  It keeps   *)
(* what it last saw and when it last got a message through in a file too.  *)
(***************************************************************************)
EXTENDS FeedSafeMode, Sequences

CONSTANTS
    Monitored,      \* the setups in which the timer is installed
    FeedChecks,     \* enable_feed_health_checks
    HealthWindow,   \* feed_health_recent_minutes
    MaxAge,         \* health_max_scan_age_minutes
    Cooldown        \* health_alert_cooldown_minutes

ASSUME HealthAssumption ==
    /\ Monitored \subseteq Setups /\ FeedChecks \in BOOLEAN
    /\ HealthWindow \in 1..Window   \* the model forgets older rows
    /\ MaxAge \in Nat \ {0} /\ Cooldown \in Nat \ {0}

VARIABLES
    heartbeat,   \* the heartbeat file, empty before the first start
    alertState,  \* the alert state file
    telegram,    \* whether a message would be delivered now
    due,         \* whether the timer has fired
    seen,        \* the last message the operator got (history)
    untold       \* checks in a row that found the loop unhealthy, could have
                 \* told it and did not (history)

watchVars == <<heartbeat, alertState, telegram, due, seen, untold>>
allVars == <<loopVars, watchVars>>

Watched == setup \in Monitored

\* Ages are exact up to AgeBound; older ones go round above MaxAge, where the
\* code only tells them apart.
AgeBound == MaxAge + 3
Older(age) == IF age = AgeBound THEN MaxAge + 1 ELSE age + 1

Statuses == {"engine_started", "scan_started", "scan_completed", "scan_failed"}
Heartbeat == [status : Statuses, age : 0..AgeBound]

\* LiveHeartbeatWriter._write: the file is replaced as a whole.  Every status
\* comes with the time the checker takes for its reference.
Write(status) == heartbeat' = IF Watched THEN <<[status |-> status, age |-> 0]>> ELSE heartbeat

HealthInit ==
    /\ LoopInit
    /\ heartbeat = <<>>
    \* No state file: whatever is unhealthy is told, and nothing has recovered.
    /\ alertState = [ok |-> TRUE, status |-> "", reason |-> <<>>, alertAge |-> Cooldown]
    /\ telegram = TRUE /\ due = FALSE /\ seen = "nothing" /\ untold = 0

-----------------------------------------------------------------------------
(* LiveHealthChecker.check and combine_health_components.  A reason is a   *)
(* text; here it is what the text is made of.                              *)

Result(ok, status, reason) == [ok |-> ok, status |-> status, reason |-> reason]

\* Variant: a completed scan does not go stale.
StaleDuringScan(h) == h.age > MaxAge /\ h.status # "scan_completed"

Stale(h) == h.age > MaxAge

HeartbeatResult ==
    IF heartbeat = <<>> THEN Result(FALSE, "missing", <<"missing">>)
    ELSE LET h == Head(heartbeat)
         IN  CASE h.status = "scan_failed" -> Result(FALSE, h.status, <<"failed">>)
               [] h.status # "scan_failed" /\ Stale(h) -> Result(FALSE, h.status, <<"stale", h.age>>)
               [] OTHER -> Result(TRUE, h.status, <<"healthy">>)

HealthRows == {r \in fetchLog : r.age <= HealthWindow}

\* The reason of a feed component counts its rows.
FeedResult(status) ==
    LET bad == {r \in HealthRows : ~r.ok /\ (setup.source = "ccxt" => r.pair \in Expected)}
        missing == {p \in Expected : setup.source = "ccxt" /\ ~\E r \in HealthRows : r.pair = p}
    IN  IF bad \cup missing = {} THEN Result(TRUE, status, <<"healthy">>)
        ELSE Result(FALSE, "feed_alert", <<"feed", Cardinality(bad), missing>>)

\* The heartbeat comes first.
HealthResult ==
    IF HeartbeatResult.ok /\ FeedChecks THEN FeedResult(HeartbeatResult.status) ELSE HeartbeatResult

-----------------------------------------------------------------------------
(* HealthAlertState and maybe_send_alert                                   *)

\* should_send
ShouldSend(r) ==
    IF r.ok THEN ~alertState.ok
    ELSE \/ <<alertState.status, alertState.reason>> # <<r.status, r.reason>>
         \/ alertState.alertAge >= Cooldown

\* Variant: an alert that was not delivered starts the cooldown as well.
UpdatedAlways(r, sent) ==
    [ok |-> r.ok, status |-> r.status, reason |-> r.reason, alertAge |-> 0]

\* update: a message that was not delivered does not count as an alert, but
\* what it was about counts as seen.
Updated(r, sent) ==
    [ok |-> r.ok, status |-> r.status, reason |-> r.reason,
     alertAge |-> IF sent THEN 0 ELSE alertState.alertAge]

Check ==
    /\ due
    /\ LET r == HealthResult
           sent == ShouldSend(r) /\ telegram
           told == IF sent THEN IF r.ok THEN "ok" ELSE "alert" ELSE seen
       IN  /\ alertState' = Updated(r, sent)
           /\ seen' = told
           /\ untold' = CASE r.ok \/ told = "alert" -> 0
                          [] ~r.ok /\ told # "alert" /\ telegram ->
                                IF untold > Cooldown THEN untold ELSE untold + 1
                          [] OTHER -> untold
    /\ due' = FALSE
    /\ UNCHANGED <<loopVars, heartbeat, telegram>>

\* Of no account but when a message may be sent.
TelegramChanges ==
    /\ due
    /\ telegram' = ~telegram
    /\ UNCHANGED <<loopVars, heartbeat, alertState, due, seen, untold>>

-----------------------------------------------------------------------------
(* run_engine with its heartbeats.  A cycle starts with scan_started, just *)
(* before the breaker is asked; a blocked cycle is completed like another. *)

Quiet == UNCHANGED <<alertState, telegram, due, seen, untold>>

BeatOnEvaluate ==
    Evaluate /\ Write(IF pc' = "scan" THEN "scan_started" ELSE "scan_completed") /\ Quiet

BeatOnScanDone == ScanDone /\ Write("scan_completed") /\ Quiet

\* evaluate or scan_pairs raises: the failure is written and raised again.
ScanFails ==
    /\ pc \in {"evaluate", "scan"}
    /\ Crash /\ Write("scan_failed") /\ Quiet

BeatOnRestart == Restart /\ Write("engine_started") /\ Quiet

NoBeat == (Fetch \/ CompareDone \/ WakeUp) /\ UNCHANGED heartbeat /\ Quiet

\* The timer fires with every tick.
WatchedTick ==
    /\ TimePasses /\ ~due
    /\ heartbeat' = [i \in DOMAIN heartbeat |-> [heartbeat[i] EXCEPT !.age = Older(@)]]
    /\ alertState' = [alertState EXCEPT !.alertAge = IF @ < Cooldown THEN @ + 1 ELSE @]
    /\ due' = Watched
    /\ UNCHANGED <<telegram, seen, untold>>

Disturbed ==
    /\ Hang \/ Crash \/ \E p \in Scanned : FeedChanges(p)
    /\ UNCHANGED heartbeat /\ Quiet

WatchedLoop == BeatOnEvaluate \/ BeatOnScanDone \/ NoBeat

HealthNext ==
    WatchedLoop \/ ScanFails \/ BeatOnRestart \/ WatchedTick \/ Disturbed \/ Check \/ TelegramChanges

\* As FeedSafeMode; the timer starts the check each time.
HealthSpec ==
    /\ HealthInit /\ [][HealthNext]_allVars
    /\ WF_allVars(WatchedLoop) /\ WF_allVars(WatchedTick) /\ WF_allVars(BeatOnRestart)
    /\ WF_allVars(Check)

-----------------------------------------------------------------------------
\* Every variable has its type, and an incident is told within the cooldown:
\* whatever was seen, sent and lost before, the operator has had an alert once
\* that many checks in a row found the loop unhealthy and could tell it.
WatchSound ==
    /\ LoopTypeOK
    /\ heartbeat \in {<<>>} \cup {<<h>> : h \in Heartbeat}
    /\ alertState.ok \in BOOLEAN /\ alertState.alertAge \in 0..Cooldown
    /\ telegram \in BOOLEAN /\ due \in BOOLEAN /\ seen \in {"nothing", "alert", "ok"}
    /\ untold < Cooldown

\* A loop that hangs for good ends with an alert as the last thing the
\* operator has heard of it, if Telegram answers from some time on.
OutageIsSeen ==
    Watched /\ <>[](pc = "hung") /\ <>[]telegram => <>[](seen = "alert")

\* The breaker lets go of a living loop, and the watch tells of a dead one.
LoopWatched == BreakerLetsGo /\ OutageIsSeen
=============================================================================
