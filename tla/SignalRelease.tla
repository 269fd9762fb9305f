--------------------------- MODULE SignalRelease ---------------------------
(***************************************************************************)
(* The release gating of core/signal_engine.py: what happens to the        *)
(* candidates of one scan between their evaluation and the list            *)
(* scan_pairs returns.  The in-memory state of the gate (cooldowns, bias   *)
(* history, currency exposure) lives as long as the process; journal,      *)
(* scanStart and returned are history variables.                           *)
(*                                                                         *)
(* One long-standing position contributes one record per currency to       *)
(* _currency_exposure_records, each of weight one, so the list is kept     *)
(* here as the set of releases it was filled from, and the bias history    *)
(* likewise.                                                               *)
(***************************************************************************)
EXTENDS Integers, Sequences, FiniteSets

CONSTANTS
    Pairs, Currencies,   \* normalised symbols, and the currencies they trade
    Base, Quote,         \* [Pairs -> Currencies]
    Biases,              \* the HTF bias labels of a signal
    PairCooldown,        \* pair_cooldown_minutes, 0 disables the check
    MaxEntriesPerBias,   \* max_entries_per_bias, 0 disables the check
    BiasWindow,          \* bias_window_minutes, 0 disables the check
    CurrencyCap,         \* currency_exposure_cap, 0 disables the check
    GrossCap, NetCap,    \* portfolio_currency_{gross,net}_cap, 0 disables
    Holds,               \* minutes a release may stay exposed (exposure_expiry)
    TradeGateChoices,    \* the values enable_trade_gate_v2 may have
    MaxLag,              \* how far the newest candle may lag the clock
    MaxTime, MaxReleases, MaxBatch   \* bounds of the model

ASSUME PairsAssumption ==
    /\ Base \in [Pairs -> Currencies]
    /\ Quote \in [Pairs -> Currencies]
    /\ \A p \in Pairs : Base[p] # Quote[p]

ASSUME LimitsAssumption ==
    /\ PairCooldown \in Nat /\ MaxEntriesPerBias \in Nat /\ BiasWindow \in Nat
    /\ CurrencyCap \in Nat /\ GrossCap \in Nat /\ NetCap \in Nat
    /\ Holds \subseteq Nat \ {0}
    /\ MaxLag \in Nat /\ MaxBatch \in Nat
    /\ TradeGateChoices \subseteq BOOLEAN

VARIABLES
    now,            \* the wall clock, in minutes
    tradeGate,      \* enable_trade_gate_v2 of this process
    phase,          \* the loop scan_pairs is in
    queue,          \* what that loop has still to visit
    kept,           \* what it has let through
    cooldownUntil,  \* _pair_cooldown_until, 0 for no entry
    biasHistory,    \* _bias_history
    exposure,       \* _currency_exposure_records
    serial,         \* number of releases registered by this process
    journal,        \* every release registered by this process
    scanStart,      \* serial when the current scan began
    returned        \* the releases scan_pairs has returned

scanVars == <<phase, queue, kept, scanStart, returned>>
releaseVars == <<cooldownUntil, biasHistory, exposure, serial, journal>>
vars == <<now, tradeGate, scanVars, releaseVars>>

Sides == {"BUY", "SELL"}
Phases == {"idle", "currency", "portfolio", "release", "gate"}

\* A signal as evaluate_snapshot returns it: generated_at is the time of the
\* last trigger candle, which may lag the wall clock but not run ahead of it.
Signal == [pair : Pairs, side : Sides, bias : Biases, at : Nat, hold : Holds]
Release == [n : Nat, pair : Pairs, side : Sides, bias : Biases, at : Nat, expires : Nat]

-----------------------------------------------------------------------------
(* core/portfolio.py, and the exposure read off the records.               *)

Touches(s, c) == c \in {Base[s.pair], Quote[s.pair]}

\* signal_currency_deltas
Delta(s, c) ==
    IF (c = Base[s.pair]) = (s.side = "BUY") THEN 1 ELSE -1

\* _signal_currency_legs
Legs(s) == {<<c, Delta(s, c)>> : c \in {Base[s.pair], Quote[s.pair]}}

Gross(S, c) == Cardinality({r \in S : Touches(r, c)})
Net(S, c) ==
      Cardinality({r \in S : Touches(r, c) /\ Delta(r, c) = 1})
    - Cardinality({r \in S : Touches(r, c) /\ Delta(r, c) = -1})

\* The same two sums over the candidates already staged by the current loop.
StagedGross == [c \in Currencies |-> Cardinality({i \in DOMAIN kept : Touches(kept[i], c)})]
StagedNet ==
    LET Side(c, d) == {i \in DOMAIN kept : Touches(kept[i], c) /\ Delta(kept[i], c) = d}
    IN  [c \in Currencies |-> Cardinality(Side(c, 1)) - Cardinality(Side(c, -1))]
NothingStaged == [c \in Currencies |-> 0]

CapsEnabled == GrossCap > 0 \/ NetCap > 0

\* Variant: a record leaves one minute before it expires.
PrunedExposureEarly(s) ==
    IF CapsEnabled THEN {r \in exposure : r.expires > s.at + 1} ELSE exposure

\* _prune_exposure_records: destructive, and relative to the signal's time.
PrunedExposure(s) ==
    IF CapsEnabled THEN {r \in exposure : r.expires > s.at} ELSE exposure

\* _check_portfolio_exposure_cap, on top of what is staged already
WithinCaps(s, stagedGross, stagedNet) ==
    \A c \in {Base[s.pair], Quote[s.pair]} :
        /\ GrossCap > 0 =>
              Gross(PrunedExposure(s), c) + stagedGross[c] + 1 <= GrossCap
        /\ NetCap > 0 =>
              Net(PrunedExposure(s), c) + stagedNet[c] + Delta(s, c) \in -NetCap..NetCap

-----------------------------------------------------------------------------
(* gate_signal_release: the checks in the order of the code, and the       *)
(* registration.  Each drop prunes what the code has pruned by then.       *)

\* Variant: the cooldown ends one minute early.
CooldownActiveTooShort(s) == PairCooldown > 0 /\ s.at + 1 < cooldownUntil[s.pair]

CooldownActive(s) == PairCooldown > 0 /\ s.at < cooldownUntil[s.pair]

BiasEnabled == MaxEntriesPerBias > 0 /\ BiasWindow > 0

SameBias(r, s) == r.pair = s.pair /\ r.bias = s.bias

\* Variant: an entry leaves when it is exactly as old as the window.
PrunedBiasEarly(s) ==
    IF BiasEnabled
    THEN {r \in biasHistory : SameBias(r, s) => r.at > s.at - BiasWindow}
    ELSE biasHistory

\* _prune_times on the entry of the signal's (symbol, bias)
PrunedBias(s) ==
    IF BiasEnabled
    THEN {r \in biasHistory : SameBias(r, s) => r.at >= s.at - BiasWindow}
    ELSE biasHistory

\* Variant: one entry more than the limit.
BiasLimitExceeded(s) ==
    /\ BiasEnabled
    /\ Cardinality({r \in PrunedBias(s) : SameBias(r, s)}) > MaxEntriesPerBias

BiasLimitReached(s) ==
    /\ BiasEnabled
    /\ Cardinality({r \in PrunedBias(s) : SameBias(r, s)}) >= MaxEntriesPerBias

DropAtCooldown(s) ==
    /\ CooldownActive(s)
    /\ UNCHANGED releaseVars

DropAtBiasLimit(s) ==
    /\ ~CooldownActive(s)
    /\ BiasLimitReached(s)
    /\ biasHistory' = PrunedBias(s)
    /\ UNCHANGED <<cooldownUntil, exposure, serial, journal>>

DropAtExposureCap(s) ==
    /\ ~CooldownActive(s)
    /\ ~BiasLimitReached(s)
    /\ ~WithinCaps(s, NothingStaged, NothingStaged)
    /\ biasHistory' = PrunedBias(s)
    /\ exposure' = PrunedExposure(s)
    /\ UNCHANGED <<cooldownUntil, serial, journal>>

\* exposure_expiry is taken relative to the signal's time.
ReleaseOf(s) ==
    [n |-> serial + 1, pair |-> s.pair, side |-> s.side, bias |-> s.bias,
     at |-> s.at, expires |-> s.at + s.hold]

\* _register_released_signal
Register(s) ==
    /\ ~CooldownActive(s)
    /\ ~BiasLimitReached(s)
    /\ WithinCaps(s, NothingStaged, NothingStaged)
    /\ cooldownUntil' = IF PairCooldown > 0
                        THEN [cooldownUntil EXCEPT ![s.pair] = s.at + PairCooldown]
                        ELSE cooldownUntil
    /\ biasHistory' = IF BiasEnabled
                      THEN PrunedBias(s) \cup {ReleaseOf(s)}
                      ELSE biasHistory
    /\ exposure' = PrunedExposure(s) \cup {ReleaseOf(s)}
    /\ serial' = serial + 1
    /\ journal' = journal \cup {ReleaseOf(s)}

-----------------------------------------------------------------------------
(* scan_pairs: three loops over the candidates, one more when the trade    *)
(* gate is on.                                                             *)

Init ==
    /\ now = 0
    /\ tradeGate \in TradeGateChoices
    /\ phase = "idle" /\ queue = <<>> /\ kept = <<>>
    /\ cooldownUntil = [p \in Pairs |-> 0]
    /\ biasHistory = {} /\ exposure = {}
    /\ serial = 0 /\ journal = {} /\ scanStart = 0 /\ returned = {}

Tick ==
    /\ now < MaxTime
    /\ now' = now + 1
    /\ UNCHANGED <<tradeGate, scanVars, releaseVars>>

FreshSignals == {s \in [pair : Pairs, side : Sides, bias : Biases,
                        at : 0..now, hold : Holds] : s.at >= now - MaxLag}

Batches ==
    UNION {{b \in [1..n -> FreshSignals] :
              \A i, j \in 1..n : i # j => b[i].pair # b[j].pair} : n \in 1..MaxBatch}

\* Candidates that survived evaluation and CorrelationCap.filter, which
\* orders them by score: any subset of the pairs in any order.
StartScan(b) ==
    /\ phase = "idle"
    /\ serial + Len(b) <= MaxReleases
    /\ phase' = "currency" /\ queue' = b /\ kept' = <<>>
    /\ scanStart' = serial
    /\ UNCHANGED <<now, tradeGate, returned, releaseVars>>

\* Variant: the legs are counted one candidate late.
LegCountLate(leg) == Cardinality({i \in DOMAIN kept \ {Len(kept)} : leg \in Legs(kept[i])})

LegCount(leg) == Cardinality({i \in DOMAIN kept : leg \in Legs(kept[i])})

\* One iteration of _apply_currency_exposure_cap.
ApplyCurrencyCap ==
    /\ phase = "currency" /\ queue # <<>>
    /\ LET s == Head(queue)
           fits == CurrencyCap > 0 => \A leg \in Legs(s) : LegCount(leg) < CurrencyCap
       IN  kept' = IF fits THEN Append(kept, s) ELSE kept
    /\ queue' = Tail(queue)
    /\ UNCHANGED <<now, tradeGate, phase, scanStart, returned, releaseVars>>

\* One iteration of _apply_portfolio_exposure_cap.
ApplyPortfolioCap ==
    /\ phase = "portfolio" /\ queue # <<>>
    /\ LET s == Head(queue)
       IN  /\ kept' = IF WithinCaps(s, StagedGross, StagedNet)
                      THEN Append(kept, s) ELSE kept
           /\ exposure' = PrunedExposure(s)
    /\ queue' = Tail(queue)
    /\ UNCHANGED <<now, tradeGate, phase, scanStart, returned,
                   cooldownUntil, biasHistory, serial, journal>>

\* One iteration of the release loop.
GateSignalRelease ==
    /\ phase = "release" /\ queue # <<>>
    /\ LET s == Head(queue)
       IN  \/ (DropAtCooldown(s) \/ DropAtBiasLimit(s) \/ DropAtExposureCap(s))
              /\ kept' = kept
           \/ Register(s) /\ kept' = Append(kept, ReleaseOf(s))
    /\ queue' = Tail(queue)
    /\ UNCHANGED <<now, tradeGate, phase, scanStart, returned>>

\* One iteration of the trade-gate loop.  check_trade is called without a
\* regime, so classify_regime sees an empty frame and answers transition,
\* which block_transition rejects before any other check is reached.
RegimeOfEmptyFrame == "transition"
TradeGateAllows(regime) == regime # "transition"

CheckTrade ==
    /\ phase = "gate" /\ queue # <<>>
    /\ LET r == Head(queue)
       IN  kept' = IF TradeGateAllows(RegimeOfEmptyFrame) THEN Append(kept, r) ELSE kept
    /\ queue' = Tail(queue)
    /\ UNCHANGED <<now, tradeGate, phase, scanStart, returned, releaseVars>>

NextLoop ==
    /\ queue = <<>>
    /\ \/ phase = "currency" /\ phase' = "portfolio"
       \/ phase = "portfolio" /\ phase' = "release"
       \/ phase = "release" /\ tradeGate /\ phase' = "gate"
    /\ queue' = kept /\ kept' = <<>>
    /\ UNCHANGED <<now, tradeGate, scanStart, returned, releaseVars>>

\* scan_pairs returns the list of the last loop.
ReturnSignals ==
    /\ queue = <<>>
    /\ phase = IF tradeGate THEN "gate" ELSE "release"
    /\ returned' = returned \cup {kept[i] : i \in DOMAIN kept}
    /\ phase' = "idle" /\ kept' = <<>>
    /\ UNCHANGED <<now, tradeGate, queue, scanStart, releaseVars>>

\* generate_signal: one pair, the release gate only.
GenerateSignal(s) ==
    /\ phase = "idle"
    /\ serial < MaxReleases
    /\ \/ (DropAtCooldown(s) \/ DropAtBiasLimit(s) \/ DropAtExposureCap(s))
          /\ UNCHANGED <<scanStart, returned>>
       \/ /\ Register(s)
          /\ scanStart' = serial
          /\ returned' = returned \cup {ReleaseOf(s)}
    /\ UNCHANGED <<now, tradeGate, phase, queue, kept>>

\* Variant: the exposure records are not cleared.
RestartKeepingExposure ==
    /\ tradeGate' \in TradeGateChoices
    /\ phase' = "idle" /\ queue' = <<>> /\ kept' = <<>>
    /\ cooldownUntil' = [p \in Pairs |-> 0]
    /\ biasHistory' = {} /\ exposure' = exposure
    /\ serial' = 0 /\ journal' = {} /\ scanStart' = 0 /\ returned' = {}
    /\ UNCHANGED now

\* The process ends (run_engine re-raises a failed scan) and is started
\* again: a fresh SignalEngine, with nothing restored.  reset_release_state
\* has the same effect between two replays.
Restart ==
    /\ tradeGate' \in TradeGateChoices
    /\ phase' = "idle" /\ queue' = <<>> /\ kept' = <<>>
    /\ cooldownUntil' = [p \in Pairs |-> 0]
    /\ biasHistory' = {} /\ exposure' = {}
    /\ serial' = 0 /\ journal' = {} /\ scanStart' = 0 /\ returned' = {}
    /\ UNCHANGED now

Next ==
    \/ Tick
    \/ \E b \in Batches : StartScan(b)
    \/ ApplyCurrencyCap
    \/ ApplyPortfolioCap
    \/ GateSignalRelease
    \/ CheckTrade
    \/ NextLoop
    \/ ReturnSignals
    \/ \E s \in FreshSignals : GenerateSignal(s)
    \/ Restart

Spec == Init /\ [][Next]_vars

-----------------------------------------------------------------------------
(* What the gate promises, said of the whole history of the process and of *)
(* the wall clock: the code only sees lists it has pruned by the time of   *)
(* whichever candidate it looked at last.                                  *)

\* Every variable has its type, and the remembered lists hold nothing but
\* registered releases.
TypeOK ==
    /\ now \in Nat /\ tradeGate \in BOOLEAN /\ phase \in Phases
    /\ queue \in Seq(IF phase \in {"currency", "portfolio", "release"} THEN Signal ELSE Release)
    /\ kept \in Seq(IF phase \in {"currency", "portfolio"} THEN Signal ELSE Release)
    /\ cooldownUntil \in [Pairs -> Nat]
    /\ serial \in Nat /\ scanStart \in 0..serial
    /\ journal \subseteq Release /\ IsFiniteSet(journal)
    /\ biasHistory \subseteq journal /\ exposure \subseteq journal
    /\ returned \subseteq Release

\* Two releases of a pair are at least the cooldown apart, whatever was
\* scanned, dropped or pruned between them (_check_release_constraints).
CooldownRespected ==
    PairCooldown > 0 =>
        \A q, r \in journal :
            q.pair = r.pair /\ q.n < r.n => r.at >= q.at + PairCooldown

\* At any time the releases of a pair and bias within the last
\* bias_window_minutes are at most max_entries_per_bias, although the history
\* is pruned with the time of candidates that may be dropped afterwards.
BiasWindowRespected ==
    BiasEnabled =>
        \A p \in Pairs, b \in Biases :
            Cardinality({r \in journal : r.pair = p /\ r.bias = b
                                        /\ r.at >= now - BiasWindow}) <= MaxEntriesPerBias

\* No currency is ever in more than portfolio_currency_gross_cap releases that
\* have not expired by the wall clock, however far the candles of the pairs
\* lag behind each other when the records are pruned.
GrossCapRespected ==
    GrossCap > 0 =>
        \A c \in Currencies :
            Gross({r \in journal : r.expires > now}, c) <= GrossCap

\* Whenever a release is registered from a candle that does not lag the clock,
\* all releases that have not expired by then, this one with them, leave its
\* currencies within portfolio_currency_net_cap: no earlier prune, with the
\* time of whichever candidate the gate looked at, lost one that still counts
\* or left one that no longer does.  (A lagging candle is judged by a list that
\* others may have pruned with a later time, and an expiry may unbalance what
\* two opposite releases held: neither is promised more.)
NetCapRespected ==
    [][\A r \in journal' \ journal, c \in Currencies :
          NetCap > 0 /\ Touches(r, c) /\ r.at = now =>
              Net({q \in journal' : q.expires > now}, c) \in -NetCap..NetCap]_vars

\* One scan releases at most currency_exposure_cap signals on the same side of
\* a currency, through all the filters that follow the batch cap.
BatchLegCapRespected ==
    CurrencyCap > 0 =>
        \A leg \in Currencies \X {-1, 1} :
            Cardinality({r \in journal : r.n > scanStart /\ leg \in Legs(r)}) <= CurrencyCap

\* Between scans of a process without the trade gate, the exposure that counts
\* against the caps is exposure of signals that were handed on.  (With it the
\* gate drops signals whose release is registered already, although a comment
\* calls it the "Trade Gate v2 check BEFORE release".)
NoPhantomExposure == phase = "idle" /\ ~tradeGate => exposure \subseteq returned

\* What makes the three promises inductive: every candidate in flight has a
\* candle that is not ahead of the clock, so that no prune relative to it can
\* remove a release that still matters at the wall clock.
CandidatesNotAhead ==
    /\ phase \in {"currency", "portfolio", "release"} =>
          \A i \in DOMAIN queue : queue[i].at <= now
    /\ phase \in {"currency", "portfolio"} =>
          \A i \in DOMAIN kept : kept[i].at <= now

RelevantRemembered ==
    /\ \A r \in journal : r.n <= serial /\ r.at <= now
    /\ PairCooldown > 0 =>
          \A r \in journal : r.at + PairCooldown <= cooldownUntil[r.pair]
    /\ BiasEnabled =>
          \A r \in journal : r.at >= now - BiasWindow => r \in biasHistory
    /\ \A r \in journal : r.expires > now => r \in exposure

\* The gate with its pruned lists implements the policy over the whole history.
Policy == INSTANCE ReleasePolicy WITH
    now <- now,          \* the wall clock
    serial <- serial,    \* how many releases this process has registered
    journal <- journal   \* all of them, pruned or not
ImplementsPolicy == Policy!Spec
=============================================================================
