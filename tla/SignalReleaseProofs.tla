------------------------ MODULE SignalReleaseProofs ------------------------
(***************************************************************************)
(* Proofs about SignalRelease, for every number of pairs and every value   *)
(* of the limits: its types, and the three promises of the release gate    *)
(* that have to survive pruning by candidates whose clocks disagree.       *)
(***************************************************************************)
EXTENDS SignalRelease, FiniteSetTheorems, SequenceTheorems, TLAPS

-----------------------------------------------------------------------------
(* Types                                                                   *)

\* A signal fit to be released yields a well-typed release.
LEMMA ReleaseOfType ==
    ASSUME NEW s \in Signal, serial \in Nat
    PROVE  ReleaseOf(s) \in Release
<1>1. /\ s.pair \in Pairs /\ s.side \in Sides /\ s.bias \in Biases
      /\ s.at \in Nat /\ s.hold \in Holds
  BY DEF Signal
<1>2. s.at + s.hold \in Nat
  <2>1. s.hold \in Nat
    BY <1>1, LimitsAssumption, Zenon
  <2>2. QED
    BY <1>1, <2>1
<1>3. QED
  BY <1>1, <1>2 DEF ReleaseOf, Release

\* A batch is a sequence of signals whose candles are not ahead of the clock.
LEMMA BatchType ==
    ASSUME NEW b \in Batches, now \in Nat
    PROVE  b \in Seq(Signal) /\ \A i \in DOMAIN b : b[i].at <= now
<1>1. PICK n \in 1..MaxBatch : b \in [1..n -> FreshSignals]
  BY DEF Batches
<1>2. n \in Nat
  BY <1>1, LimitsAssumption
<1>3. \A s \in FreshSignals : s \in Signal /\ s.at <= now
  BY DEF FreshSignals, Signal
<1>4. b \in [1..n -> Signal]
  BY <1>1, <1>3
<1>5. b \in Seq(Signal)
  BY <1>2, <1>4, SeqDef
<1>6. QED
  BY <1>1, <1>3, <1>5

\* Registering or dropping a signal keeps the release state well typed.
LEMMA RegisterType ==
    ASSUME TypeOK, NEW s \in Signal, Register(s)
    PROVE  /\ cooldownUntil' \in [Pairs -> Nat]
           /\ serial' \in Nat /\ serial' = serial + 1
           /\ journal' \subseteq Release /\ IsFiniteSet(journal')
           /\ biasHistory' \subseteq journal' /\ exposure' \subseteq journal'
           /\ ReleaseOf(s) \in Release
<1>1. ReleaseOf(s) \in Release
  BY ReleaseOfType DEF TypeOK
<1>2. IsFiniteSet(journal')
  BY FS_AddElement DEF TypeOK, Register
<1>3. cooldownUntil' \in [Pairs -> Nat]
  BY LimitsAssumption DEF TypeOK, Register, Signal
<1>4. biasHistory' \subseteq journal' /\ exposure' \subseteq journal'
  BY DEF TypeOK, Register, PrunedBias, PrunedExposure
<1>5. QED
  BY <1>1, <1>2, <1>3, <1>4 DEF TypeOK, Register

\* Dropping a signal keeps the release state well typed.
LEMMA DropType ==
    ASSUME TypeOK, NEW s \in Signal,
           DropAtCooldown(s) \/ DropAtBiasLimit(s) \/ DropAtExposureCap(s)
    PROVE  /\ biasHistory' \subseteq biasHistory /\ exposure' \subseteq exposure
           /\ UNCHANGED <<cooldownUntil, serial, journal>>
  BY DEF DropAtCooldown, DropAtBiasLimit, DropAtExposureCap, releaseVars,
         PrunedBias, PrunedExposure

\* Every reachable state is well typed.
THEOREM TypeCorrect == Spec => []TypeOK
<1>1. Init => TypeOK
  BY FS_EmptySet, LimitsAssumption DEF Init, TypeOK, Phases
<1>2. TypeOK /\ [Next]_vars => TypeOK'
  <2> SUFFICES ASSUME TypeOK, [Next]_vars PROVE TypeOK'
    OBVIOUS
  <2> USE DEF Phases
  <2>1. CASE Tick
    BY <2>1 DEF TypeOK, Tick, scanVars, releaseVars
  <2>2. ASSUME NEW b \in Batches, StartScan(b) PROVE TypeOK'
    BY <2>2, BatchType DEF TypeOK, StartScan, releaseVars
  <2>3. CASE ApplyCurrencyCap
    BY <2>3 DEF TypeOK, ApplyCurrencyCap, releaseVars
  <2>4. CASE ApplyPortfolioCap
    BY <2>4 DEF TypeOK, ApplyPortfolioCap, PrunedExposure
  <2>5. CASE GateSignalRelease
    <3> DEFINE s == Head(queue)
    <3>1. s \in Signal /\ queue' \in Seq(Signal) /\ phase' = "release"
      BY <2>5 DEF TypeOK, GateSignalRelease
    <3>2. UNCHANGED <<now, tradeGate, phase, scanStart, returned>>
      BY <2>5 DEF GateSignalRelease
    <3>3. CASE Register(s) /\ kept' = Append(kept, ReleaseOf(s))
      <4>1. kept' \in Seq(Release)
        BY <2>5, <3>1, <3>3, RegisterType DEF TypeOK, GateSignalRelease
      <4>2. scanStart' \in 0..serial'
        BY <3>1, <3>2, <3>3, RegisterType DEF TypeOK
      <4>3. QED
        BY <3>1, <3>2, <3>3, <4>1, <4>2, RegisterType DEF TypeOK
    <3>4. CASE (DropAtCooldown(s) \/ DropAtBiasLimit(s) \/ DropAtExposureCap(s)) /\ kept' = kept
      BY <3>1, <3>2, <3>4, DropType, <2>5 DEF TypeOK, GateSignalRelease
    <3>5. QED
      BY <2>5, <3>3, <3>4 DEF GateSignalRelease
  <2>6. CASE CheckTrade
    BY <2>6 DEF TypeOK, CheckTrade, releaseVars
  <2>7. CASE NextLoop
    BY <2>7 DEF TypeOK, NextLoop, releaseVars
  <2>8. CASE ReturnSignals
    BY <2>8 DEF TypeOK, ReturnSignals, releaseVars
  <2>9. ASSUME NEW s \in FreshSignals, GenerateSignal(s) PROVE TypeOK'
    <3>1. s \in Signal
      BY DEF FreshSignals, Signal, TypeOK
    <3>2. UNCHANGED <<now, tradeGate, phase, queue, kept>>
      BY <2>9 DEF GenerateSignal
    <3>3. CASE Register(s) /\ scanStart' = serial /\ returned' = returned \cup {ReleaseOf(s)}
      BY <3>1, <3>2, <3>3, RegisterType DEF TypeOK
    <3>4. CASE /\ DropAtCooldown(s) \/ DropAtBiasLimit(s) \/ DropAtExposureCap(s)
               /\ UNCHANGED <<scanStart, returned>>
      BY <3>1, <3>2, <3>4, DropType DEF TypeOK
    <3>5. QED
      BY <2>9, <3>3, <3>4 DEF GenerateSignal
  <2>10. CASE Restart
    BY <2>10, FS_EmptySet, LimitsAssumption DEF TypeOK, Restart
  <2>11. CASE UNCHANGED vars
    BY <2>11 DEF TypeOK, vars, scanVars, releaseVars
  <2>12. QED
    BY <2>1, <2>2, <2>3, <2>4, <2>5, <2>6, <2>7, <2>8, <2>9, <2>10, <2>11 DEF Next
<1>3. QED
  BY <1>1, <1>2, PTL DEF Spec

-----------------------------------------------------------------------------
(* Candidates in flight are never ahead of the clock                       *)

\* A step that is not a clock tick moves candidates between the loops only.
LEMMA NotAheadStep ==
    TypeOK /\ CandidatesNotAhead /\ [Next]_vars => CandidatesNotAhead'
<1> SUFFICES ASSUME TypeOK, CandidatesNotAhead, [Next]_vars
             PROVE  CandidatesNotAhead'
  OBVIOUS
<1> USE DEF CandidatesNotAhead
<1>1. CASE Tick
  <2>1. now \in Nat /\ now' = now + 1 /\ UNCHANGED <<phase, queue, kept>>
    BY <1>1 DEF Tick, scanVars, TypeOK
  <2>2. \A s \in Signal : s.at \in Nat
    BY DEF Signal
  <2>3. phase \in {"currency", "portfolio", "release"} =>
          \A i \in DOMAIN queue : queue[i] \in Signal
    BY DEF TypeOK
  <2>4. phase \in {"currency", "portfolio"} =>
          \A i \in DOMAIN kept : kept[i] \in Signal
    BY DEF TypeOK
  <2>5. QED
    BY <2>1, <2>2, <2>3, <2>4
<1>2. ASSUME NEW b \in Batches, StartScan(b) PROVE CandidatesNotAhead'
  <2>1. \A i \in DOMAIN b : b[i].at <= now
    BY BatchType DEF TypeOK
  <2>2. queue' = b /\ kept' = <<>> /\ now' = now
    BY <1>2 DEF StartScan
  <2>3. QED
    BY <2>1, <2>2
<1>3. CASE ApplyCurrencyCap
  BY <1>3 DEF ApplyCurrencyCap, TypeOK
<1>4. CASE ApplyPortfolioCap
  BY <1>4 DEF ApplyPortfolioCap, TypeOK
<1>5. CASE GateSignalRelease
  BY <1>5 DEF GateSignalRelease, TypeOK
<1>6. CASE CheckTrade
  BY <1>6 DEF CheckTrade
<1>7. CASE NextLoop
  BY <1>7 DEF NextLoop
<1>8. CASE ReturnSignals
  BY <1>8 DEF ReturnSignals
<1>9. ASSUME NEW s \in FreshSignals, GenerateSignal(s) PROVE CandidatesNotAhead'
  BY <1>9 DEF GenerateSignal
<1>10. CASE Restart
  BY <1>10 DEF Restart
<1>11. CASE UNCHANGED vars
  BY <1>11 DEF vars, scanVars
<1>12. QED
  BY <1>1, <1>2, <1>3, <1>4, <1>5, <1>6, <1>7, <1>8, <1>9, <1>10, <1>11 DEF Next

\* The candidates of a scan stay at or behind the wall clock.
LEMMA NotAhead == Spec => []CandidatesNotAhead
<1>1. Init => CandidatesNotAhead
  BY DEF Init, CandidatesNotAhead
<1>2. QED
  BY <1>1, NotAheadStep, TypeCorrect, PTL DEF Spec

-----------------------------------------------------------------------------
(* The steps of the release state                                          *)

\* A visit to candidate s that does not register it: the lists may lose what
\* the time of s makes obsolete, nothing else changes.
Visit(s) ==
    /\ biasHistory' \in {biasHistory, PrunedBias(s)}
    /\ exposure' \in {exposure, PrunedExposure(s)}
    /\ UNCHANGED <<now, cooldownUntil, serial, journal>>

Cleared ==
    /\ cooldownUntil' = [p \in Pairs |-> 0]
    /\ biasHistory' = {} /\ exposure' = {} /\ serial' = 0 /\ journal' = {}
    /\ now' = now

Current(s) == s \in Signal /\ s.at <= now

\* Every step is one of five as far as the release state is concerned.
LEMMA StepKinds ==
    ASSUME TypeOK, CandidatesNotAhead, [Next]_vars
    PROVE  \/ UNCHANGED <<now, releaseVars>>
           \/ now' = now + 1 /\ UNCHANGED releaseVars
           \/ \E s : Current(s) /\ Visit(s)
           \/ \E s : Current(s) /\ Register(s) /\ now' = now
           \/ Cleared
<1> DEFINE Drop(s) == DropAtCooldown(s) \/ DropAtBiasLimit(s) \/ DropAtExposureCap(s)
<1>0. ASSUME NEW s, Drop(s), now' = now PROVE Visit(s)
  BY <1>0 DEF DropAtCooldown, DropAtBiasLimit, DropAtExposureCap, releaseVars, Visit
<1>1. CASE Tick
  BY <1>1 DEF Tick
<1>2. CASE GateSignalRelease
  <2>1. Current(Head(queue)) /\ now' = now
    BY <1>2 DEF GateSignalRelease, TypeOK, CandidatesNotAhead, Current
  <2>2. Drop(Head(queue)) \/ Register(Head(queue))
    BY <1>2 DEF GateSignalRelease
  <2>3. QED
    BY <2>1, <2>2, <1>0
<1>3. ASSUME NEW s \in FreshSignals, GenerateSignal(s)
      PROVE  \/ \E r : Current(r) /\ Visit(r)
             \/ \E r : Current(r) /\ Register(r) /\ now' = now
  <2>1. Current(s) /\ now' = now
    BY <1>3 DEF GenerateSignal, FreshSignals, Signal, TypeOK, Current
  <2>2. Drop(s) \/ Register(s)
    BY <1>3 DEF GenerateSignal
  <2>3. QED
    BY <2>1, <2>2, <1>0
<1>4. CASE ApplyPortfolioCap
  <2>1. Current(Head(queue))
    BY <1>4 DEF ApplyPortfolioCap, TypeOK, CandidatesNotAhead, Current
  <2>2. Visit(Head(queue))
    BY <1>4 DEF ApplyPortfolioCap, Visit
  <2>3. QED
    BY <2>1, <2>2
<1>5. CASE Restart
  BY <1>5 DEF Restart, Cleared
<1>6. CASE \/ \E b \in Batches : StartScan(b)
           \/ ApplyCurrencyCap \/ CheckTrade \/ NextLoop \/ ReturnSignals
  BY <1>6 DEF StartScan, ApplyCurrencyCap, CheckTrade, NextLoop, ReturnSignals
<1>7. CASE UNCHANGED vars
  BY <1>7 DEF vars
<1>8. QED
  BY <1>1, <1>2, <1>3, <1>4, <1>5, <1>6, <1>7 DEF Next

-----------------------------------------------------------------------------
(* What matters is remembered                                              *)

\* No step loses a release that matters: pruning is relative to a time that is
\* not ahead of the clock, and registering adds to every list it must.
LEMMA RememberedStep ==
    TypeOK /\ CandidatesNotAhead /\ RelevantRemembered /\ [Next]_vars
        => RelevantRemembered'
<1> SUFFICES ASSUME TypeOK, CandidatesNotAhead, RelevantRemembered, [Next]_vars
             PROVE  RelevantRemembered'
  OBVIOUS
<1>0. /\ journal \subseteq Release /\ now \in Nat /\ serial \in Nat
      /\ cooldownUntil \in [Pairs -> Nat]
      /\ PairCooldown \in Nat /\ BiasWindow \in Nat
      /\ \A r \in journal : r.at \in Nat /\ r.n \in Nat /\ r.expires \in Nat /\ r.pair \in Pairs
  BY LimitsAssumption DEF TypeOK, Release
<1>1. CASE UNCHANGED <<now, releaseVars>>
  BY <1>1 DEF RelevantRemembered, releaseVars
<1>2. CASE now' = now + 1 /\ UNCHANGED releaseVars
  BY <1>0, <1>2 DEF RelevantRemembered, releaseVars
<1>3. ASSUME NEW s, Current(s), Visit(s) PROVE RelevantRemembered'
  BY <1>0, <1>3 DEF RelevantRemembered, Visit, Current, Signal, PrunedBias, PrunedExposure
<1>4. ASSUME NEW s, Current(s), Register(s), now' = now PROVE RelevantRemembered'
  <2> DEFINE r == ReleaseOf(s)
  <2>1. /\ s.at \in Nat /\ s.at <= now /\ s.pair \in Pairs
        /\ r.n = serial + 1 /\ r.at = s.at /\ r.pair = s.pair
    BY <1>4 DEF Current, Signal, ReleaseOf
  <2>2. \A q \in journal' : q.n <= serial' /\ q.at <= now'
    BY <1>0, <1>4, <2>1 DEF Register, RelevantRemembered
  <2>3. PairCooldown > 0 =>
          \A q \in journal' : q.at + PairCooldown <= cooldownUntil'[q.pair]
    BY <1>0, <1>4, <2>1 DEF Register, RelevantRemembered, CooldownActive
  <2>4. BiasEnabled =>
          \A q \in journal' : q.at >= now' - BiasWindow => q \in biasHistory'
    BY <1>0, <1>4, <2>1 DEF Register, RelevantRemembered, PrunedBias
  <2>5. \A q \in journal' : q.expires > now' => q \in exposure'
    BY <1>0, <1>4, <2>1 DEF Register, RelevantRemembered, PrunedExposure
  <2>6. QED
    BY <2>2, <2>3, <2>4, <2>5 DEF RelevantRemembered, BiasEnabled
<1>5. CASE Cleared
  BY <1>0, <1>5 DEF Cleared, RelevantRemembered
<1>6. QED
  BY <1>1, <1>2, <1>3, <1>4, <1>5, StepKinds

\* Whatever is pruned, a release that matters at the wall clock is still in the
\* list that is consulted about it.
THEOREM Remembered == Spec => []RelevantRemembered
<1>1. Init => RelevantRemembered
  BY DEF Init, RelevantRemembered
<1>2. QED
  BY <1>1, RememberedStep, TypeCorrect, NotAhead, PTL DEF Spec

-----------------------------------------------------------------------------
(* A registration is admissible for the whole history                      *)

\* A set that is a part of a counted one has a natural cardinality, at most
\* as large.
LEMMA SmallerCount ==
    ASSUME NEW S, NEW T, IsFiniteSet(T), S \subseteq T
    PROVE  IsFiniteSet(S) /\ Cardinality(S) \in Nat /\ Cardinality(T) \in Nat
           /\ Cardinality(S) <= Cardinality(T)
  BY FS_Subset, FS_CardinalityType

\* One more element counts for at most one.
LEMMA OneMore ==
    ASSUME NEW S, NEW x, NEW limit \in Nat, IsFiniteSet(S), Cardinality(S) < limit
    PROVE  IsFiniteSet(S \cup {x}) /\ Cardinality(S \cup {x}) <= limit
<1>1. Cardinality(S) \in Nat
  BY FS_CardinalityType
<1>2. Cardinality(S \cup {x}) \in {Cardinality(S), Cardinality(S) + 1}
  BY FS_AddElement
<1>3. QED
  BY <1>1, <1>2, FS_AddElement

\* What the pruned lists allow, the history at the wall clock allows.
LEMMA RegisterAdmissible ==
    ASSUME TypeOK, RelevantRemembered, NEW s, Current(s), Register(s)
    PROVE  /\ PairCooldown > 0 =>
                 \A q \in journal : q.pair = s.pair => s.at >= q.at + PairCooldown
           /\ BiasEnabled =>
                 Cardinality({q \in journal : SameBias(q, s) /\ q.at >= now - BiasWindow})
                     < MaxEntriesPerBias
           /\ GrossCap > 0 =>
                 \A c \in {Base[s.pair], Quote[s.pair]} :
                    Cardinality({q \in journal : q.expires > now /\ Touches(q, c)}) < GrossCap
<1>0. /\ journal \subseteq Release /\ IsFiniteSet(journal)
      /\ biasHistory \subseteq journal /\ exposure \subseteq journal
      /\ now \in Nat /\ s.at \in Nat /\ s.at <= now /\ s.pair \in Pairs
      /\ cooldownUntil \in [Pairs -> Nat]
      /\ PairCooldown \in Nat /\ BiasWindow \in Nat /\ GrossCap \in Nat
      /\ MaxEntriesPerBias \in Nat
      /\ \A r \in journal : r.at \in Nat /\ r.expires \in Nat /\ r.pair \in Pairs
  BY LimitsAssumption DEF TypeOK, Release, Current, Signal
<1>1. PairCooldown > 0 =>
        \A q \in journal : q.pair = s.pair => s.at >= q.at + PairCooldown
  BY <1>0 DEF Register, CooldownActive, RelevantRemembered
<1>2. ASSUME BiasEnabled
      PROVE  Cardinality({q \in journal : SameBias(q, s) /\ q.at >= now - BiasWindow})
                 < MaxEntriesPerBias
  <2> DEFINE inWindow == {q \in journal : SameBias(q, s) /\ q.at >= now - BiasWindow}
             seen == {r \in PrunedBias(s) : SameBias(r, s)}
  <2>1. inWindow \subseteq seen
    BY <1>0, <1>2 DEF RelevantRemembered, PrunedBias
  <2>2. IsFiniteSet(seen)
    BY <1>0, FS_Subset, seen \subseteq journal DEF PrunedBias
  <2>3. ~(Cardinality(seen) >= MaxEntriesPerBias)
    BY <1>2 DEF Register, BiasLimitReached
  <2>4. QED
    BY <1>0, <2>1, <2>2, <2>3, SmallerCount
<1>3. ASSUME GrossCap > 0, NEW c \in {Base[s.pair], Quote[s.pair]}
      PROVE  Cardinality({q \in journal : q.expires > now /\ Touches(q, c)}) < GrossCap
  <2> DEFINE open == {q \in journal : q.expires > now /\ Touches(q, c)}
             counted == {r \in PrunedExposure(s) : Touches(r, c)}
  <2>1. open \subseteq counted
    BY <1>0 DEF RelevantRemembered, PrunedExposure
  <2>2. IsFiniteSet(counted)
    BY <1>0, FS_Subset, counted \subseteq journal DEF PrunedExposure
  <2>3. c \in Currencies
    BY <1>0, PairsAssumption
  <2>4. Cardinality(counted) + 0 + 1 <= GrossCap
    BY <1>3, <2>3 DEF Register, WithinCaps, NothingStaged, Gross
  <2>5. QED
    BY <1>0, <2>1, <2>2, <2>4, SmallerCount
<1>4. QED
  BY <1>1, <1>2, <1>3

-----------------------------------------------------------------------------
(* The three promises                                                      *)

\* Every step keeps the cooldown, the bias window and the gross cap.
LEMMA PromisesStep ==
    TypeOK /\ CandidatesNotAhead /\ RelevantRemembered /\ [Next]_vars
        => /\ CooldownRespected => CooldownRespected'
           /\ BiasWindowRespected => BiasWindowRespected'
           /\ GrossCapRespected => GrossCapRespected'
<1> SUFFICES ASSUME TypeOK, CandidatesNotAhead, RelevantRemembered, [Next]_vars
             PROVE  /\ CooldownRespected => CooldownRespected'
                    /\ BiasWindowRespected => BiasWindowRespected'
                    /\ GrossCapRespected => GrossCapRespected'
  OBVIOUS
<1> DEFINE Promises == /\ CooldownRespected => CooldownRespected'
                       /\ BiasWindowRespected => BiasWindowRespected'
                       /\ GrossCapRespected => GrossCapRespected'
           Window(t, p, b) ==
               {r \in journal : r.pair = p /\ r.bias = b /\ r.at >= t - BiasWindow}
           Open(t, c) == {r \in {q \in journal : q.expires > t} : Touches(r, c)}
<1>0. /\ journal \subseteq Release /\ IsFiniteSet(journal) /\ now \in Nat
      /\ serial \in Nat
      /\ PairCooldown \in Nat /\ BiasWindow \in Nat /\ GrossCap \in Nat
      /\ MaxEntriesPerBias \in Nat
      /\ \A r \in journal : r.at \in Nat /\ r.n \in Nat /\ r.expires \in Nat
  BY LimitsAssumption DEF TypeOK, Release
<1>1. CASE UNCHANGED <<now, journal>>
  BY <1>1 DEF CooldownRespected, BiasWindowRespected, GrossCapRespected
<1>2. CASE now' = now + 1 /\ journal' = journal
  <2>1. ASSUME BiasWindowRespected, BiasEnabled, NEW p \in Pairs, NEW b \in Biases
        PROVE  Cardinality(Window(now + 1, p, b)) <= MaxEntriesPerBias
    <3>1. Window(now + 1, p, b) \subseteq Window(now, p, b)
      BY <1>0
    <3>2. IsFiniteSet(Window(now, p, b))
      BY <1>0, FS_Subset
    <3>3. Cardinality(Window(now, p, b)) <= MaxEntriesPerBias
      BY <2>1 DEF BiasWindowRespected
    <3>4. QED
      BY <1>0, <3>1, <3>2, <3>3, SmallerCount
  <2>2. ASSUME GrossCapRespected, GrossCap > 0, NEW c \in Currencies
        PROVE  Cardinality(Open(now + 1, c)) <= GrossCap
    <3>1. Open(now + 1, c) \subseteq Open(now, c)
      BY <1>0
    <3>2. IsFiniteSet(Open(now, c))
      BY <1>0, FS_Subset
    <3>3. Cardinality(Open(now, c)) <= GrossCap
      BY <2>2 DEF GrossCapRespected, Gross
    <3>4. QED
      BY <1>0, <3>1, <3>2, <3>3, SmallerCount
  <2>3. BiasWindowRespected => BiasWindowRespected'
    BY <1>2, <2>1 DEF BiasWindowRespected, BiasEnabled
  <2>4. GrossCapRespected => GrossCapRespected'
    BY <1>2, <2>2 DEF GrossCapRespected, Gross, Touches
  <2>5. QED
    BY <1>2, <2>3, <2>4 DEF CooldownRespected
<1>3. ASSUME NEW s, Current(s), Register(s), now' = now PROVE Promises
  <2> DEFINE new == ReleaseOf(s)
  <2>1. /\ new.n = serial + 1 /\ new.at = s.at /\ new.pair = s.pair
        /\ new.bias = s.bias /\ s.at \in Nat /\ journal' = journal \cup {new}
    BY <1>3 DEF ReleaseOf, Register, Current, Signal
  <2>2. CooldownRespected => CooldownRespected'
    <3> SUFFICES ASSUME CooldownRespected, PairCooldown > 0,
                        NEW q \in journal', NEW r \in journal',
                        q.pair = r.pair, q.n < r.n
                 PROVE  r.at >= q.at + PairCooldown
      BY DEF CooldownRespected
    <3>1. \A x \in journal : x.n <= serial
      BY DEF RelevantRemembered
    <3>2. q \in journal
      BY <1>0, <2>1, <3>1
    <3>3. CASE r \in journal
      BY <3>2, <3>3 DEF CooldownRespected
    <3>4. CASE r = new
      BY <1>3, <2>1, <3>2, <3>4, RegisterAdmissible
    <3>5. QED
      BY <2>1, <3>3, <3>4
  <2>3. ASSUME BiasWindowRespected, BiasEnabled, NEW p \in Pairs, NEW b \in Biases
        PROVE  Cardinality({r \in journal' : r.pair = p /\ r.bias = b
                               /\ r.at >= now - BiasWindow}) <= MaxEntriesPerBias
    <3> DEFINE after == {r \in journal' : r.pair = p /\ r.bias = b
                               /\ r.at >= now - BiasWindow}
    <3>1. IsFiniteSet(Window(now, p, b)) /\ Cardinality(Window(now, p, b)) \in Nat
      BY <1>0, SmallerCount
    <3>2. Cardinality(Window(now, p, b)) <= MaxEntriesPerBias
      BY <2>3 DEF BiasWindowRespected
    <3>3. CASE p = s.pair /\ b = s.bias
      <4>1. Cardinality(Window(now, p, b)) < MaxEntriesPerBias
        <5>1. Window(now, p, b) = {q \in journal : SameBias(q, s) /\ q.at >= now - BiasWindow}
          BY <3>3 DEF SameBias
        <5>2. QED
          BY <1>3, <2>3, <5>1, RegisterAdmissible
      <4>2. /\ IsFiniteSet(Window(now, p, b) \cup {new})
            /\ Cardinality(Window(now, p, b) \cup {new}) <= MaxEntriesPerBias
        BY <1>0, <3>1, <4>1, OneMore
      <4>3. after \subseteq Window(now, p, b) \cup {new}
        BY <2>1
      <4>4. QED
        BY <1>0, <4>2, <4>3, SmallerCount
    <3>4. CASE ~(p = s.pair /\ b = s.bias)
      <4>1. after = Window(now, p, b)
        BY <2>1, <3>4
      <4>2. QED
        BY <3>2, <4>1
    <3>5. QED
      BY <3>3, <3>4
  <2>4. ASSUME GrossCapRespected, GrossCap > 0, NEW c \in Currencies
        PROVE  Cardinality({r \in {q \in journal' : q.expires > now} : Touches(r, c)}) <= GrossCap
    <3> DEFINE after == {r \in {q \in journal' : q.expires > now} : Touches(r, c)}
    <3>1. IsFiniteSet(Open(now, c)) /\ Cardinality(Open(now, c)) \in Nat
      BY <1>0, SmallerCount
    <3>2. Cardinality(Open(now, c)) <= GrossCap
      BY <2>4 DEF GrossCapRespected, Gross
    <3>3. CASE c \in {Base[s.pair], Quote[s.pair]}
      <4>1. Cardinality(Open(now, c)) < GrossCap
        <5>1. Open(now, c) = {q \in journal : q.expires > now /\ Touches(q, c)}
          OBVIOUS
        <5>2. QED
          BY <1>3, <2>4, <3>3, <5>1, RegisterAdmissible
      <4>2. /\ IsFiniteSet(Open(now, c) \cup {new})
            /\ Cardinality(Open(now, c) \cup {new}) <= GrossCap
        BY <1>0, <3>1, <4>1, OneMore
      <4>3. after \subseteq Open(now, c) \cup {new}
        BY <2>1
      <4>4. QED
        BY <1>0, <4>2, <4>3, SmallerCount
    <3>4. CASE c \notin {Base[s.pair], Quote[s.pair]}
      <4>1. ~Touches(new, c)
        BY <2>1, <3>4 DEF Touches
      <4>2. after = Open(now, c)
        BY <2>1, <4>1
      <4>3. QED
        BY <3>2, <4>2
    <3>5. QED
      BY <3>3, <3>4
  <2>5. BiasWindowRespected => BiasWindowRespected'
    BY <1>3, <2>3 DEF BiasWindowRespected, BiasEnabled
  <2>6. GrossCapRespected => GrossCapRespected'
    BY <1>3, <2>4 DEF GrossCapRespected, Gross, Touches
  <2>7. QED
    BY <2>2, <2>5, <2>6
<1>4. CASE Cleared
  BY <1>0, <1>4, FS_EmptySet
     DEF Cleared, CooldownRespected, BiasWindowRespected, GrossCapRespected, Gross
<1>5. ASSUME NEW s, Visit(s) PROVE UNCHANGED <<now, journal>>
  BY <1>5 DEF Visit
<1>6. QED
  BY <1>1, <1>2, <1>3, <1>4, <1>5, StepKinds DEF releaseVars

\* A process that has released nothing keeps all three.
LEMMA InitialPromises ==
    Init => CooldownRespected /\ BiasWindowRespected /\ GrossCapRespected
<1> SUFFICES ASSUME Init PROVE CooldownRespected /\ BiasWindowRespected /\ GrossCapRespected
  OBVIOUS
<1>1. journal = {}
  BY DEF Init
<1>2. CooldownRespected
  BY <1>1 DEF CooldownRespected
<1>3. BiasWindowRespected
  BY <1>1, FS_EmptySet, LimitsAssumption DEF BiasWindowRespected, BiasEnabled
<1>4. GrossCapRespected
  BY <1>1, FS_EmptySet, LimitsAssumption DEF GrossCapRespected, Gross
<1>5. QED
  BY <1>2, <1>3, <1>4

\* Two releases of one pair are never closer than the cooldown.
THEOREM CooldownAlways == Spec => []CooldownRespected
  BY InitialPromises, PromisesStep, TypeCorrect, NotAhead, Remembered, PTL DEF Spec

\* The bias window never holds more releases than its limit.
THEOREM BiasWindowAlways == Spec => []BiasWindowRespected
  BY InitialPromises, PromisesStep, TypeCorrect, NotAhead, Remembered, PTL DEF Spec

\* No currency is ever open in more releases than the gross cap.
THEOREM GrossCapAlways == Spec => []GrossCapRespected
  BY InitialPromises, PromisesStep, TypeCorrect, NotAhead, Remembered, PTL DEF Spec

-----------------------------------------------------------------------------
(* The gate implements the policy over the whole history                   *)

\* Every step of the gate is a step of the policy, or changes nothing it sees.
LEMMA PolicyStep ==
    TypeOK /\ CandidatesNotAhead /\ RelevantRemembered /\ [Next]_vars
        => [Policy!Next]_(Policy!policyVars)
<1> SUFFICES ASSUME TypeOK, CandidatesNotAhead, RelevantRemembered, [Next]_vars
             PROVE  [Policy!Next]_(Policy!policyVars)
  OBVIOUS
<1>1. CASE UNCHANGED <<now, serial, journal>>
  BY <1>1 DEF Policy!policyVars
<1>2. CASE now' = now + 1 /\ UNCHANGED <<serial, journal>>
  BY <1>2 DEF Policy!Next, Policy!Pass
<1>3. ASSUME NEW s, Current(s), Register(s), now' = now
      PROVE  Policy!Next
  <2> DEFINE new == ReleaseOf(s)
  <2>1. /\ new.n = serial + 1 /\ new.at = s.at /\ new.pair = s.pair /\ new.bias = s.bias
        /\ s.at <= now /\ new \in Release /\ serial \in Nat
        /\ serial' = serial + 1 /\ journal' = journal \cup {new}
    BY <1>3, ReleaseOfType DEF ReleaseOf, Register, Current, Signal, TypeOK
  <2>2. new \in journal' \ journal
    BY <2>1 DEF RelevantRemembered, TypeOK, Release
  <2>3. Policy!Admissible(new)
    <3>1. new \in Policy!Release
      BY <2>1 DEF Release, Policy!Release
    <3>2. PairCooldown > 0 => \A q \in Policy!SamePair(new) : new.at >= q.at + PairCooldown
      BY <1>3, <2>1, RegisterAdmissible DEF Policy!SamePair
    <3>3. MaxEntriesPerBias > 0 /\ BiasWindow > 0 =>
             Cardinality(Policy!BiasCompetitors(new)) < MaxEntriesPerBias
      <4>1. Policy!BiasCompetitors(new)
              = {q \in journal : SameBias(q, s) /\ q.at >= now - BiasWindow}
        BY <2>1 DEF Policy!BiasCompetitors, SameBias
      <4>2. QED
        BY <1>3, <4>1, RegisterAdmissible DEF BiasEnabled
    <3>4. GrossCap > 0 =>
             \A c \in {Base[new.pair], Quote[new.pair]} : Cardinality(Policy!Open(c)) < GrossCap
      <4> SUFFICES ASSUME GrossCap > 0, NEW c \in {Base[s.pair], Quote[s.pair]}
                   PROVE  Cardinality(Policy!Open(c)) < GrossCap
        BY <2>1
      <4>1. Policy!Open(c) = {q \in journal : q.expires > now /\ Touches(q, c)}
        BY DEF Policy!Open, Policy!Touches, Touches
      <4>2. QED
        BY <1>3, <4>1, RegisterAdmissible
    <3>5. new.n = serial + 1 /\ new.at <= now
      BY <2>1
    <3>6. \A S : Policy!Cardinality(S) = Cardinality(S)
      BY DEF Policy!Cardinality, Cardinality, Policy!IsFiniteSet, IsFiniteSet
    <3> HIDE DEF new
    <3>7. QED
      BY <3>1, <3>2, <3>3, <3>4, <3>5, <3>6 DEF Policy!Admissible
  <2>4. QED
    BY <1>3, <2>1, <2>2, <2>3 DEF Policy!Next, Policy!Admit
<1>4. CASE Cleared
  BY <1>4 DEF Cleared, Policy!Next, Policy!Forget
<1>5. ASSUME NEW s, Visit(s) PROVE UNCHANGED <<now, serial, journal>>
  BY <1>5 DEF Visit
<1>6. QED
  BY <1>1, <1>2, <1>3, <1>4, <1>5, StepKinds DEF releaseVars

\* The gate with its pruned lists implements the policy over the whole history.
THEOREM GateImplementsPolicy == Spec => ImplementsPolicy
<1>1. Init => Policy!Init
  BY DEF Init, Policy!Init
<1>2. QED
  BY <1>1, PolicyStep, TypeCorrect, NotAhead, Remembered, PTL
     DEF Spec, ImplementsPolicy, Policy!Spec

-----------------------------------------------------------------------------
(* The net cap at every registration                                       *)

\* An element that was not there counts for exactly one.
LEMMA FreshElement ==
    ASSUME NEW S, NEW x, IsFiniteSet(S), x \notin S
    PROVE  /\ Cardinality(S) \in Nat
           /\ Cardinality(S \cup {x}) = Cardinality(S) + 1
  BY FS_AddElement, FS_CardinalityType

\* A new release moves the net exposure of a currency by its own delta.
LEMMA NetOfOneMore ==
    ASSUME NEW S, NEW r, NEW c, IsFiniteSet(S), r \notin S, Touches(r, c)
    PROVE  Net(S \cup {r}, c) = Net(S, c) + Delta(r, c)
<1> DEFINE Side(T, d) == {q \in T : Touches(q, c) /\ Delta(q, c) = d}
<1>1. \A d : /\ IsFiniteSet(Side(S, d)) /\ Cardinality(Side(S, d)) \in Nat
             /\ Cardinality(Side(S, d) \cup {r}) = Cardinality(Side(S, d)) + 1
  <2> SUFFICES ASSUME NEW d
               PROVE  /\ IsFiniteSet(Side(S, d)) /\ Cardinality(Side(S, d)) \in Nat
                      /\ Cardinality(Side(S, d) \cup {r}) = Cardinality(Side(S, d)) + 1
    OBVIOUS
  <2>1. IsFiniteSet(Side(S, d)) /\ r \notin Side(S, d)
    BY SmallerCount
  <2>2. QED
    BY <2>1, FreshElement
<1>2. /\ Net(S, c) = Cardinality(Side(S, 1)) - Cardinality(Side(S, -1))
      /\ Net(S \cup {r}, c)
           = Cardinality(Side(S \cup {r}, 1)) - Cardinality(Side(S \cup {r}, -1))
  BY DEF Net
<1>3. \A d : Side(S \cup {r}, d)
             = IF Delta(r, c) = d THEN Side(S, d) \cup {r} ELSE Side(S, d)
  OBVIOUS
<1>4. Delta(r, c) \in {1, -1}
  BY DEF Delta
<1> DEFINE plus == Cardinality(Side(S, 1))
           minus == Cardinality(Side(S, -1))
           plusAfter == Cardinality(Side(S \cup {r}, 1))
           minusAfter == Cardinality(Side(S \cup {r}, -1))
<1>5. plus \in Nat /\ minus \in Nat
  BY <1>1
<1>6. CASE Delta(r, c) = 1
  <2>1. plusAfter = plus + 1
    BY <1>1, <1>3, <1>6
  <2>2. minusAfter = minus
    BY <1>3, <1>6
  <2> HIDE DEF plus, minus, plusAfter, minusAfter
  <2>3. (plus + 1) - minus = (plus - minus) + 1
    BY <1>5
  <2>4. QED
    BY <1>2, <1>6, <2>1, <2>2, <2>3 DEF plus, minus, plusAfter, minusAfter
<1>7. CASE Delta(r, c) = -1
  <2>1. minusAfter = minus + 1
    BY <1>1, <1>3, <1>7
  <2>2. plusAfter = plus
    BY <1>3, <1>7
  <2> HIDE DEF plus, minus, plusAfter, minusAfter
  <2>3. plus - (minus + 1) = (plus - minus) + (-1)
    BY <1>5
  <2>4. QED
    BY <1>2, <1>7, <2>1, <2>2, <2>3 DEF plus, minus, plusAfter, minusAfter
<1>8. QED
  BY <1>4, <1>6, <1>7

\* What is left of the records when they are pruned at the time of the clock
\* is exactly what has not expired by it: no prune before took more.
LEMMA PrunedIsOpen ==
    ASSUME TypeOK, RelevantRemembered, NetCap > 0, NEW s, s.at = now
    PROVE  PrunedExposure(s) = {q \in journal : q.expires > now}
BY DEF TypeOK, RelevantRemembered, PrunedExposure, CapsEnabled

\* Every release made from a candle that does not lag leaves what is open at
\* the clock within the net cap of its currencies.
THEOREM NetCapAlways == Spec => NetCapRespected
<1> DEFINE Step ==
      \A r \in journal' \ journal, c \in Currencies :
          NetCap > 0 /\ Touches(r, c) /\ r.at = now =>
              Net({q \in journal' : q.expires > now}, c) \in -NetCap..NetCap
<1>1. TypeOK /\ CandidatesNotAhead /\ RelevantRemembered /\ [Next]_vars => Step
  <2> SUFFICES ASSUME TypeOK, CandidatesNotAhead, RelevantRemembered, [Next]_vars,
                      NEW r \in journal' \ journal, NEW c \in Currencies,
                      NetCap > 0, Touches(r, c), r.at = now
               PROVE  Net({q \in journal' : q.expires > now}, c) \in -NetCap..NetCap
    OBVIOUS
  <2> DEFINE open == {q \in journal : q.expires > now}
  <2>1. PICK s : Current(s) /\ Register(s) /\ now' = now
    BY StepKinds DEF releaseVars, Visit, Cleared
  <2>2. r = ReleaseOf(s) /\ journal' = journal \cup {r}
    BY <2>1 DEF Register
  <2>3. r.pair = s.pair /\ r.side = s.side /\ s.at = now /\ r.expires = s.at + s.hold
    BY <2>2 DEF ReleaseOf
  <2>4. r.expires > now
    <3>1. s.hold \in Nat \ {0}
      BY <2>1, LimitsAssumption DEF Current, Signal
    <3>2. now \in Nat
      BY DEF TypeOK
    <3>3. QED
      BY <2>3, <3>1, <3>2
  <2>5. open = PrunedExposure(s)
    BY <2>3, PrunedIsOpen
  <2>6. {q \in journal' : q.expires > now} = open \cup {r}
    BY <2>2, <2>4
  <2>7. IsFiniteSet(open) /\ r \notin open
    BY FS_Subset, open \subseteq journal DEF TypeOK
  <2>8. c \in {Base[s.pair], Quote[s.pair]} /\ Delta(r, c) = Delta(s, c)
    BY <2>3 DEF Touches, Delta
  <2>9. Net(open, c) + 0 + Delta(s, c) \in -NetCap..NetCap
    BY <2>1, <2>5, <2>8 DEF Register, WithinCaps, NothingStaged
  <2>10. Net(open \cup {r}, c) = Net(open, c) + Delta(s, c)
    BY <2>7, <2>8, NetOfOneMore
  <2>11. Net(open, c) \in Int
    BY <2>7, SmallerCount DEF Net
  <2>12. Delta(s, c) \in Int
    BY DEF Delta
  <2> HIDE DEF open
  <2>13. Net(open \cup {r}, c) \in -NetCap..NetCap
    BY <2>9, <2>10, <2>11, <2>12
  <2>14. QED
    BY <2>6, <2>13
<1>2. QED
  BY <1>1, TypeCorrect, NotAhead, Remembered, PTL DEF Spec, NetCapRespected

-----------------------------------------------------------------------------
(* No phantom exposure                                                     *)

\* What a loop of the scan has let through.
KeptReleases == IF phase = "release" THEN {kept[i] : i \in DOMAIN kept} ELSE {}

\* Without the trade gate a registered release is either handed on already or
\* in the list the release loop is about to hand on.
HandedOn == ~tradeGate => phase # "gate" /\ exposure \subseteq returned \cup KeptReleases

\* An appended list has what it had and the new entry.
LEMMA AppendedEntries ==
    ASSUME NEW T, NEW seq \in Seq(T), NEW e \in T
    PROVE  {Append(seq, e)[i] : i \in DOMAIN Append(seq, e)} = {seq[i] : i \in DOMAIN seq} \cup {e}
<1>1. /\ DOMAIN seq = 1..Len(seq) /\ Len(seq) \in Nat
      /\ DOMAIN Append(seq, e) = 1..(Len(seq) + 1)
      /\ \A i \in 1..Len(seq) : Append(seq, e)[i] = seq[i]
      /\ Append(seq, e)[Len(seq) + 1] = e
  OBVIOUS
<1>2. \A i \in 1..(Len(seq) + 1) : i \in 1..Len(seq) \/ i = Len(seq) + 1
  BY <1>1
<1>3. QED
  BY <1>1, <1>2

\* Between the registration of a release and its return nothing else happens
\* to the list that holds it.
LEMMA StepHandedOn == TypeOK /\ HandedOn /\ [Next]_vars => HandedOn'
<1> SUFFICES ASSUME TypeOK, HandedOn, [Next]_vars, ~tradeGate'
             PROVE  phase' # "gate" /\ exposure' \subseteq returned' \cup KeptReleases'
  BY DEF HandedOn
<1>1. CASE Tick
  BY <1>1 DEF Tick, scanVars, releaseVars, HandedOn, KeptReleases
<1>2. ASSUME NEW b \in Batches, StartScan(b)
      PROVE  phase' # "gate" /\ exposure' \subseteq returned' \cup KeptReleases'
  BY <1>2 DEF StartScan, releaseVars, HandedOn, KeptReleases
<1>3. CASE ApplyCurrencyCap
  BY <1>3 DEF ApplyCurrencyCap, releaseVars, HandedOn, KeptReleases
<1>4. CASE ApplyPortfolioCap
  BY <1>4 DEF ApplyPortfolioCap, PrunedExposure, HandedOn, KeptReleases
<1>5. CASE GateSignalRelease
  <2> DEFINE s == Head(queue)
  <2>1. /\ s \in Signal /\ phase = "release" /\ phase' = "release" /\ ~tradeGate
        /\ UNCHANGED returned /\ kept \in Seq(Release)
    BY <1>5 DEF TypeOK, GateSignalRelease
  <2>2. CASE Register(s) /\ kept' = Append(kept, ReleaseOf(s))
    <3>1. ReleaseOf(s) \in Release
      BY <2>1, ReleaseOfType DEF TypeOK
    <3>2. {kept'[i] : i \in DOMAIN kept'} = {kept[i] : i \in DOMAIN kept} \cup {ReleaseOf(s)}
      BY <2>1, <2>2, <3>1, AppendedEntries
    <3>3. exposure' \subseteq exposure \cup {ReleaseOf(s)}
      BY <2>2 DEF Register, PrunedExposure
    <3>4. QED
      BY <2>1, <3>2, <3>3 DEF HandedOn, KeptReleases
  <2>3. CASE (DropAtCooldown(s) \/ DropAtBiasLimit(s) \/ DropAtExposureCap(s)) /\ kept' = kept
    BY <2>1, <2>3, DropType DEF HandedOn, KeptReleases
  <2>4. QED
    BY <1>5, <2>2, <2>3 DEF GateSignalRelease
<1>6. CASE CheckTrade
  BY <1>6 DEF CheckTrade, HandedOn
<1>7. CASE NextLoop
  <2>1. /\ phase' # "idle" /\ UNCHANGED <<tradeGate, exposure, returned>>
        /\ phase \in {"currency", "portfolio"} /\ phase' # "gate"
    BY <1>7, Zenon DEF NextLoop, releaseVars
  <2>2. QED
    BY <2>1 DEF HandedOn, KeptReleases
<1>8. CASE ReturnSignals
  BY <1>8 DEF ReturnSignals, releaseVars, HandedOn, KeptReleases
<1>9. ASSUME NEW s \in FreshSignals, GenerateSignal(s)
      PROVE  phase' # "gate" /\ exposure' \subseteq returned' \cup KeptReleases'
  <2>1. s \in Signal
    BY DEF FreshSignals, Signal, TypeOK
  <2>2. /\ phase = "idle" /\ phase' = "idle" /\ ~tradeGate
        /\ exposure \subseteq returned
    BY <1>9 DEF GenerateSignal, HandedOn, KeptReleases
  <2>3. CASE Register(s) /\ returned' = returned \cup {ReleaseOf(s)}
    BY <2>2, <2>3 DEF Register, PrunedExposure
  <2>4. CASE /\ DropAtCooldown(s) \/ DropAtBiasLimit(s) \/ DropAtExposureCap(s)
             /\ returned' = returned
    BY <2>1, <2>2, <2>4, DropType
  <2>5. QED
    BY <1>9, <2>3, <2>4 DEF GenerateSignal
<1>10. CASE Restart
  BY <1>10 DEF Restart
<1>11. CASE UNCHANGED vars
  BY <1>11 DEF vars, scanVars, releaseVars, HandedOn, KeptReleases
<1>12. QED
  BY <1>1, <1>2, <1>3, <1>4, <1>5, <1>6, <1>7, <1>8, <1>9, <1>10, <1>11 DEF Next

\* Without the trade gate every exposure that counts against the caps between
\* two scans belongs to a signal that was handed on.
THEOREM NoPhantomExposureAlways == Spec => []NoPhantomExposure
<1>1. Init => HandedOn
  BY DEF Init, HandedOn, KeptReleases
<1>2. HandedOn => NoPhantomExposure
  BY DEF HandedOn, NoPhantomExposure, KeptReleases
<1>3. QED
  BY <1>1, <1>2, StepHandedOn, TypeCorrect, PTL DEF Spec

-----------------------------------------------------------------------------
(* The batch cap holds of what the scan releases                           *)

\* How many candidates or releases of a list are on one side of a currency.
LegsOf(seq, leg) == Cardinality({i \in DOMAIN seq : leg \in Legs(seq[i])})
Worth(s, leg) == IF leg \in Legs(s) THEN 1 ELSE 0

\* The count of a list is a number, and nothing is counted in an empty list.
LEMMA LegsOfType ==
    ASSUME NEW T, NEW seq \in Seq(T), NEW leg
    PROVE  /\ IsFiniteSet({i \in DOMAIN seq : leg \in Legs(seq[i])})
           /\ LegsOf(seq, leg) \in Nat /\ LegsOf(<<>>, leg) = 0
<1>1. IsFiniteSet(DOMAIN seq)
  <2>1. DOMAIN seq = 1..Len(seq) /\ Len(seq) \in Int
    OBVIOUS
  <2>2. QED
    BY <2>1, FS_Interval
<1>2. {i \in DOMAIN <<>> : leg \in Legs(<<>>[i])} = {}
  OBVIOUS
<1>3. QED
  BY <1>1, <1>2, FS_EmptySet, SmallerCount DEF LegsOf

\* A list with one more entry counts that entry.
LEMMA LegsOfAppend ==
    ASSUME NEW T, NEW seq \in Seq(T), NEW e \in T, NEW leg
    PROVE  LegsOf(Append(seq, e), leg) = LegsOf(seq, leg) + Worth(e, leg)
<1> DEFINE before == {i \in DOMAIN seq : leg \in Legs(seq[i])}
           after == {i \in DOMAIN Append(seq, e) : leg \in Legs(Append(seq, e)[i])}
           last == Len(seq) + 1
<1>1. /\ DOMAIN seq = 1..Len(seq) /\ Len(seq) \in Nat
      /\ DOMAIN Append(seq, e) = 1..last
      /\ \A i \in 1..Len(seq) : Append(seq, e)[i] = seq[i]
      /\ Append(seq, e)[last] = e
      /\ \A i \in 1..last : i \in 1..Len(seq) \/ i = last
      /\ 1..Len(seq) \subseteq 1..last /\ last \in 1..last /\ last \notin 1..Len(seq)
  OBVIOUS
<1>2. after = IF leg \in Legs(e) THEN before \cup {last} ELSE before
  BY <1>1
<1>3. IsFiniteSet(before) /\ last \notin before
  BY <1>1, LegsOfType
<1>4. Cardinality(before) \in Nat /\ Cardinality(before \cup {last}) = Cardinality(before) + 1
  BY <1>3, FreshElement
<1> HIDE DEF before, after, last
<1>5. CASE leg \in Legs(e)
  BY <1>2, <1>4, <1>5 DEF LegsOf, Worth, before, after
<1>6. CASE leg \notin Legs(e)
  <2>1. Cardinality(after) = Cardinality(before) + 0
    BY <1>2, <1>4, <1>6
  <2>2. QED
    BY <1>6, <2>1 DEF LegsOf, Worth, before, after
<1>7. QED
  BY <1>5, <1>6

\* The head is counted once.
LEMMA LegsOfTail ==
    ASSUME NEW T, NEW seq \in Seq(T), seq # <<>>, NEW leg
    PROVE  LegsOf(seq, leg) = LegsOf(Tail(seq), leg) + Worth(Head(seq), leg)
<1> DEFINE all == {i \in DOMAIN seq : leg \in Legs(seq[i])}
           rest == {i \in DOMAIN Tail(seq) : leg \in Legs(Tail(seq)[i])}
           moved == {i \in all : i # 1}
           f == [i \in rest |-> i + 1]
<1>1. /\ DOMAIN seq = 1..Len(seq) /\ DOMAIN Tail(seq) = 1..(Len(seq) - 1)
      /\ Len(seq) \in Nat \ {0} /\ Head(seq) = seq[1] /\ Tail(seq) \in Seq(T)
      /\ \A i \in 1..(Len(seq) - 1) : Tail(seq)[i] = seq[i + 1]
  OBVIOUS
<1>2. f \in [rest -> moved]
  BY <1>1
<1>3. \A i, j \in rest : f[i] = f[j] => i = j
  BY <1>1
<1>4. \A k \in moved : \E i \in rest : f[i] = k
  <2> SUFFICES ASSUME NEW k \in moved PROVE k - 1 \in rest /\ f[k - 1] = k
    OBVIOUS
  <2>1. k \in 1..Len(seq) /\ k # 1
    BY <1>1
  <2>2. k - 1 \in 1..(Len(seq) - 1) /\ (k - 1) + 1 = k
    BY <1>1, <2>1
  <2>3. Tail(seq)[k - 1] = seq[k]
    BY <1>1, <2>2
  <2>4. QED
    BY <1>1, <2>2, <2>3
<1>5. f \in Bijection(rest, moved)
  <2> HIDE DEF f, rest, moved
  <2>1. f \in Injection(rest, moved)
    BY <1>2, <1>3 DEF Injection, IsInjective
  <2>2. f \in Surjection(rest, moved)
    BY <1>2, <1>4 DEF Surjection
  <2>3. QED
    BY <2>1, <2>2 DEF Bijection
<1>6. IsFiniteSet(rest) /\ Cardinality(rest) \in Nat
  BY <1>1, LegsOfType, FS_CardinalityType
<1>7. ExistsBijection(rest, moved)
  BY <1>5 DEF ExistsBijection
<1>8. IsFiniteSet(moved) /\ Cardinality(moved) = Cardinality(rest)
  BY <1>6, <1>7, FS_Bijection
<1>9. /\ all = IF leg \in Legs(Head(seq)) THEN moved \cup {1} ELSE moved
      /\ 1 \notin moved
  BY <1>1
<1>10. Cardinality(moved \cup {1}) = Cardinality(moved) + 1
  BY <1>8, <1>9, FreshElement
<1> HIDE DEF all, rest, moved, f
<1>11. CASE leg \in Legs(Head(seq))
  BY <1>8, <1>9, <1>10, <1>11 DEF LegsOf, Worth, all, rest
<1>12. CASE leg \notin Legs(Head(seq))
  <2>1. Cardinality(all) = Cardinality(rest) + 0
    BY <1>6, <1>8, <1>9, <1>12
  <2>2. QED
    BY <1>12, <2>1 DEF LegsOf, Worth, all, rest
<1>13. QED
  BY <1>11, <1>12

\* The releases of the current scan on one side of a currency.
OfThisScan(leg, history, start) == {r \in history : r.n > start /\ leg \in Legs(r)}
Released(leg) == OfThisScan(leg, journal, scanStart)

\* What is released and what is still in flight together respect the cap, from
\* the moment the first loop has counted it.
LegsWithinCap ==
    CurrencyCap > 0 =>
        \A leg :
            /\ phase \in {"currency", "portfolio"} => Released(leg) = {}
            /\ phase = "currency" => LegsOf(kept, leg) <= CurrencyCap
            /\ phase = "portfolio" => LegsOf(queue, leg) + LegsOf(kept, leg) <= CurrencyCap
            /\ phase = "release" => Cardinality(Released(leg)) + LegsOf(queue, leg) <= CurrencyCap
            /\ phase \in {"gate", "idle"} => Cardinality(Released(leg)) <= CurrencyCap

\* A registration counts for the legs of its signal only.
LEMMA OneMoreReleased ==
    ASSUME TypeOK, NEW s \in Signal, Register(s), NEW leg, NEW start,
           IsFiniteSet(OfThisScan(leg, journal, start))
    PROVE  /\ Cardinality(OfThisScan(leg, journal', start)) \in Nat
           /\ Cardinality(OfThisScan(leg, journal, start)) \in Nat
           /\ Cardinality(OfThisScan(leg, journal', start))
                <= Cardinality(OfThisScan(leg, journal, start)) + Worth(s, leg)
<1> DEFINE r == ReleaseOf(s)
           was == OfThisScan(leg, journal, start)
           is == OfThisScan(leg, journal', start)
<1>1. journal' = journal \cup {r} /\ Legs(r) = Legs(s)
  BY DEF Register, ReleaseOf, Legs, Delta
<1>2. Cardinality(was) \in Nat /\ IsFiniteSet(was)
  BY FS_CardinalityType
<1>3. CASE leg \in Legs(s)
  <2>1. is \subseteq was \cup {r}
    BY <1>1 DEF OfThisScan
  <2>2. IsFiniteSet(was \cup {r}) /\ Cardinality(was \cup {r}) <= Cardinality(was) + 1
    <3> HIDE DEF was, r
    <3>1. /\ IsFiniteSet(was \cup {r})
          /\ Cardinality(was \cup {r}) \in {Cardinality(was), Cardinality(was) + 1}
      BY <1>2, FS_AddElement
    <3>2. QED
      BY <1>2, <3>1
  <2>3. Cardinality(is) \in Nat /\ Cardinality(was \cup {r}) \in Nat
        /\ Cardinality(is) <= Cardinality(was \cup {r})
    BY <2>1, <2>2, SmallerCount
  <2>4. Worth(s, leg) = 1
    BY <1>3 DEF Worth
  <2> HIDE DEF was, is, r
  <2>5. QED
    BY <1>2, <2>2, <2>3, <2>4 DEF was, is
<1>4. CASE leg \notin Legs(s)
  <2>1. is = was
    BY <1>1, <1>4 DEF OfThisScan
  <2>2. Worth(s, leg) = 0
    BY <1>4 DEF Worth
  <2> HIDE DEF was, is, r
  <2>3. QED
    BY <1>2, <2>1, <2>2 DEF was, is
<1>5. QED
  BY <1>3, <1>4

\* Every loop hands on no more than it was handed, and the release loop pays
\* for each release with an entry of its queue.
LEMMA StepLegsWithinCap ==
    TypeOK /\ RelevantRemembered /\ LegsWithinCap /\ [Next]_vars => LegsWithinCap'
<1> SUFFICES ASSUME TypeOK, RelevantRemembered, LegsWithinCap, [Next]_vars
             PROVE  LegsWithinCap'
  OBVIOUS
<1>a. /\ \A start, leg : IsFiniteSet(OfThisScan(leg, journal, start))
      /\ \A start, leg : Cardinality(OfThisScan(leg, journal, start)) \in Nat
  <2>1. \A start, leg : OfThisScan(leg, journal, start) \subseteq journal
    BY DEF OfThisScan
  <2>2. QED
    BY <2>1, SmallerCount DEF TypeOK
<1>b. /\ CurrencyCap \in Nat /\ serial \in Nat /\ scanStart \in 0..serial
      /\ \A r \in journal : r.n \in Nat /\ r.n <= serial
  BY LimitsAssumption DEF TypeOK, RelevantRemembered, Release
<1>c. \A leg : OfThisScan(leg, journal, serial) = {}
  BY <1>b DEF OfThisScan
<1>d. Cardinality({}) = 0
  BY FS_EmptySet
<1>e. \A leg : LegsOf(<<>>, leg) = 0
  <2>1. <<>> \in Seq({})
    OBVIOUS
  <2>2. QED
    BY <2>1, LegsOfType
<1>1. CASE UNCHANGED <<phase, queue, kept, scanStart, journal>>
  BY <1>1 DEF LegsWithinCap, Released
<1>2. ASSUME NEW b \in Batches, StartScan(b) PROVE LegsWithinCap'
  <2>1. phase' = "currency" /\ kept' = <<>> /\ scanStart' = serial /\ journal' = journal
    BY <1>2 DEF StartScan, releaseVars
  <2>2. \A leg : LegsOf(<<>>, leg) = 0
    BY <1>e
  <2>3. QED
    BY <1>b, <1>c, <2>1, <2>2 DEF LegsWithinCap, Released
<1>3. CASE ApplyCurrencyCap
  <2> DEFINE s == Head(queue)
  <2>1. /\ phase = "currency" /\ phase' = "currency" /\ UNCHANGED <<scanStart, journal>>
        /\ s \in Signal /\ kept \in Seq(Signal)
    BY <1>3 DEF ApplyCurrencyCap, releaseVars, TypeOK
  <2>2. ASSUME CurrencyCap > 0, NEW leg PROVE LegsOf(kept', leg) <= CurrencyCap
    <3>1. LegsOf(kept, leg) \in Nat /\ LegsOf(kept, leg) <= CurrencyCap
      BY <2>1, <2>2, LegsOfType DEF LegsWithinCap
    <3>2. CASE kept' = kept
      BY <3>1, <3>2
    <3>3. CASE kept' = Append(kept, s) /\ \A l \in Legs(s) : LegCount(l) < CurrencyCap
      <4>1. LegsOf(kept', leg) = LegsOf(kept, leg) + Worth(s, leg)
        BY <2>1, <3>3, LegsOfAppend
      <4>2. leg \in Legs(s) => LegsOf(kept, leg) < CurrencyCap
        BY <3>3 DEF LegCount, LegsOf
      <4>3. QED
        BY <1>b, <3>1, <4>1, <4>2 DEF Worth
    <3>4. QED
      BY <1>3, <2>2, <3>2, <3>3 DEF ApplyCurrencyCap
  <2>3. QED
    BY <2>1, <2>2 DEF LegsWithinCap, Released
<1>4. CASE ApplyPortfolioCap
  <2> DEFINE s == Head(queue)
  <2>1. /\ phase = "portfolio" /\ phase' = "portfolio" /\ UNCHANGED <<scanStart, journal>>
        /\ queue \in Seq(Signal) /\ queue # <<>> /\ queue' = Tail(queue)
        /\ s \in Signal /\ kept \in Seq(Signal) /\ queue' \in Seq(Signal)
    BY <1>4 DEF ApplyPortfolioCap, TypeOK
  <2>2. kept' = kept \/ kept' = Append(kept, s)
    BY <1>4 DEF ApplyPortfolioCap
  <2>3. ASSUME CurrencyCap > 0, NEW leg
        PROVE  LegsOf(queue', leg) + LegsOf(kept', leg) <= CurrencyCap
    <3>1. LegsOf(queue, leg) + LegsOf(kept, leg) <= CurrencyCap
      BY <2>1, <2>3 DEF LegsWithinCap
    <3>2. LegsOf(queue, leg) = LegsOf(queue', leg) + Worth(s, leg)
      BY <2>1, LegsOfTail
    <3>3. LegsOf(queue', leg) \in Nat /\ LegsOf(kept, leg) \in Nat /\ Worth(s, leg) \in {0, 1}
      BY <2>1, LegsOfType DEF Worth
    <3>4. CASE kept' = kept
      BY <1>b, <3>1, <3>2, <3>3, <3>4
    <3>5. CASE kept' = Append(kept, s)
      <4>1. LegsOf(kept', leg) = LegsOf(kept, leg) + Worth(s, leg)
        BY <2>1, <3>5, LegsOfAppend
      <4>2. QED
        BY <1>b, <3>1, <3>2, <3>3, <4>1
    <3>6. QED
      BY <2>2, <3>4, <3>5
  <2>4. QED
    BY <2>1, <2>3 DEF LegsWithinCap, Released
<1>5. CASE GateSignalRelease
  <2> DEFINE s == Head(queue)
  <2>1. /\ phase = "release" /\ phase' = "release" /\ scanStart' = scanStart
        /\ queue \in Seq(Signal) /\ queue # <<>> /\ queue' = Tail(queue)
        /\ s \in Signal /\ queue' \in Seq(Signal)
    BY <1>5 DEF GateSignalRelease, TypeOK
  <2>2. ASSUME CurrencyCap > 0, NEW leg
        PROVE  Cardinality(Released(leg)') + LegsOf(queue', leg) <= CurrencyCap
    <3>1. Cardinality(Released(leg)) + LegsOf(queue, leg) <= CurrencyCap
      BY <2>1, <2>2 DEF LegsWithinCap
    <3>2. LegsOf(queue, leg) = LegsOf(queue', leg) + Worth(s, leg)
      BY <2>1, LegsOfTail
    <3>3. /\ LegsOf(queue', leg) \in Nat /\ Worth(s, leg) \in {0, 1}
          /\ Cardinality(Released(leg)) \in Nat
      BY <1>a, <2>1, LegsOfType DEF Worth, Released
    <3>4. CASE Register(s)
      <4>1. /\ Cardinality(Released(leg)') \in Nat
            /\ Cardinality(Released(leg)') <= Cardinality(Released(leg)) + Worth(s, leg)
        BY <1>a, <2>1, <3>4, OneMoreReleased DEF Released
      <4>2. QED
        BY <1>b, <3>1, <3>2, <3>3, <4>1
    <3>5. CASE DropAtCooldown(s) \/ DropAtBiasLimit(s) \/ DropAtExposureCap(s)
      <4>1. Released(leg)' = Released(leg)
        BY <2>1, <3>5, DropType DEF Released
      <4>2. QED
        BY <1>b, <3>1, <3>2, <3>3, <4>1
    <3>6. QED
      BY <1>5, <3>4, <3>5 DEF GateSignalRelease
  <2>3. QED
    BY <2>1, <2>2 DEF LegsWithinCap
<1>6. CASE CheckTrade
  BY <1>6 DEF CheckTrade, releaseVars, LegsWithinCap, Released
<1>7. CASE NextLoop
  <2>1. /\ \/ phase = "currency" /\ phase' = "portfolio"
           \/ phase = "portfolio" /\ phase' = "release"
           \/ phase = "release" /\ phase' = "gate"
        /\ UNCHANGED <<scanStart, journal>>
        /\ queue = <<>> /\ queue' = kept /\ kept' = <<>>
    BY <1>7 DEF NextLoop, releaseVars
  <2>2. \A leg : Released(leg)' = Released(leg) /\ Cardinality(Released(leg)) \in Nat
    BY <1>a, <2>1 DEF Released
  <2>3. \A leg : LegsOf(<<>>, leg) = 0
    BY <1>e
  <2>4. CASE phase = "currency"
    <3>1. \A leg : LegsOf(kept, leg) \in Nat
      BY <2>4, LegsOfType DEF TypeOK
    <3>2. QED
      BY <1>b, <2>1, <2>2, <2>3, <2>4, <3>1 DEF LegsWithinCap
  <2>5. CASE phase = "portfolio"
    <3>1. \A leg : LegsOf(kept, leg) \in Nat
      BY <2>5, LegsOfType DEF TypeOK
    <3>2. QED
      BY <1>b, <1>d, <2>1, <2>2, <2>3, <2>5, <3>1 DEF LegsWithinCap
  <2>6. CASE phase = "release"
    BY <1>b, <2>1, <2>2, <2>3, <2>6 DEF LegsWithinCap
  <2>7. QED
    BY <2>1, <2>4, <2>5, <2>6
<1>8. CASE ReturnSignals
  <2>1. /\ phase' = "idle" /\ UNCHANGED <<scanStart, journal>>
        /\ queue = <<>> /\ phase \in {"gate", "release"}
    BY <1>8 DEF ReturnSignals, releaseVars
  <2>2. \A leg : Released(leg)' = Released(leg) /\ Cardinality(Released(leg)) \in Nat
    BY <1>a, <2>1 DEF Released
  <2>3. \A leg : LegsOf(<<>>, leg) = 0
    BY <1>e
  <2>4. QED
    BY <1>b, <2>1, <2>2, <2>3 DEF LegsWithinCap
<1>9. ASSUME NEW s \in FreshSignals, GenerateSignal(s) PROVE LegsWithinCap'
  <2>1. s \in Signal /\ phase = "idle" /\ phase' = "idle"
    BY <1>9 DEF GenerateSignal, FreshSignals, Signal, TypeOK
  <2>2. CASE Register(s) /\ scanStart' = serial
    <3> SUFFICES ASSUME CurrencyCap > 0, NEW leg
                 PROVE  Cardinality(Released(leg)') <= CurrencyCap
      BY <2>1 DEF LegsWithinCap
    <3>1. /\ Cardinality(Released(leg)') \in Nat
          /\ Cardinality(Released(leg)') <= 0 + Worth(s, leg)
      BY <1>a, <1>c, <1>d, <2>1, <2>2, OneMoreReleased DEF Released
    <3>2. QED
      BY <1>b, <3>1 DEF Worth
  <2>3. CASE /\ DropAtCooldown(s) \/ DropAtBiasLimit(s) \/ DropAtExposureCap(s)
             /\ scanStart' = scanStart
    BY <2>1, <2>3, DropType DEF LegsWithinCap, Released
  <2>4. QED
    BY <1>9, <2>2, <2>3 DEF GenerateSignal
<1>10. CASE Restart
  <2>1. phase' = "idle" /\ \A leg : Released(leg)' = {}
    BY <1>10 DEF Restart, Released, OfThisScan
  <2>2. QED
    BY <1>b, <1>d, <2>1 DEF LegsWithinCap
<1>11. QED
  BY <1>1, <1>2, <1>3, <1>4, <1>5, <1>6, <1>7, <1>8, <1>9, <1>10
     DEF Next, Tick, vars, scanVars, releaseVars

\* However many pairs a batch holds and whatever the later filters drop, one
\* scan releases no more signals on one side of a currency than the cap.
THEOREM BatchLegCapAlways == Spec => []BatchLegCapRespected
<1>1. Init => LegsWithinCap
  <2> SUFFICES ASSUME Init PROVE LegsWithinCap
    OBVIOUS
  <2>1. phase = "idle" /\ \A leg : Released(leg) = {}
    BY DEF Init, Released, OfThisScan
  <2>2. Cardinality({}) = 0 /\ CurrencyCap \in Nat
    BY FS_EmptySet, LimitsAssumption
  <2>3. QED
    BY <2>1, <2>2 DEF LegsWithinCap
<1>2. TypeOK /\ LegsWithinCap => BatchLegCapRespected
  <2> SUFFICES ASSUME TypeOK, LegsWithinCap, CurrencyCap > 0, NEW leg \in Currencies \X {-1, 1}
               PROVE  Cardinality(Released(leg)) <= CurrencyCap
    BY DEF BatchLegCapRespected, Released, OfThisScan
  <2>1. CurrencyCap \in Nat /\ Cardinality({}) = 0 /\ phase \in Phases
    BY FS_EmptySet, LimitsAssumption DEF TypeOK
  <2>2. CASE phase = "release"
    <3>1. LegsOf(queue, leg) \in Nat
      BY <2>2, LegsOfType DEF TypeOK
    <3>2. Cardinality(Released(leg)) \in Nat
      BY SmallerCount, Released(leg) \subseteq journal DEF TypeOK, Released, OfThisScan
    <3>3. QED
      BY <2>1, <2>2, <3>1, <3>2 DEF LegsWithinCap
  <2>3. CASE phase # "release"
    BY <2>1, <2>3 DEF LegsWithinCap, Phases
  <2>4. QED
    BY <2>2, <2>3
<1>3. QED
  BY <1>1, <1>2, StepLegsWithinCap, TypeCorrect, Remembered, PTL DEF Spec
=============================================================================
