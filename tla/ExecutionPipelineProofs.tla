---------------------- MODULE ExecutionPipelineProofs ----------------------
(***************************************************************************)
(* What the last phase of the pipeline lets through has been through all   *)
(* of them, for every journal, every set of answers and every limit.  The  *)
(* inductive invariant says of each phase's report, in its file or still   *)
(* in the hands of the command, what the phases so far have established    *)
(* of every candidate in it: a report may be of any age, but a delivery is *)
(* never taken back and the history of clearances only grows.              *)
(***************************************************************************)
EXTENDS ExecutionPipeline, CountingLemmas

USE DEF Phases

-----------------------------------------------------------------------------
(* Types                                                                   *)

ItemStates ==
    {"blocked", "ready_dry_run", "blocked_by_kill_switch", "rejected",
     "simulated_filled", "request_previewed", "market_safe", "final_guard_ready"}
ItemType == [candidate : Candidates, state : ItemStates]
Items == Seq(ItemType)
Reports == {r \in [ready : BOOLEAN, items : Items] : ~r.ready => r.items = <<>>}
Runs == [step : {"idle", "collecting", "computed", "writing"}, report : Reports]
Ages == {NoTime} \cup 0..Old
Snapshots == [bid : Int, ask : Int, last : Int, bookAge : Ages, lastAge : Ages]

Typed ==
    /\ journal \in [Candidates -> {"absent", "recorded", "sent"}]
    /\ switch \in Words \cup {"missing"}
    /\ file \in [Phases -> Reports]
    /\ run \in [Phases -> Runs]
    /\ store \in [Allowed -> Snapshots]
    /\ memory \in [Allowed -> Snapshots]
    /\ cleared \subseteq Candidates

\* Only finitely many rows have been written.
FinitelyMany(rows) == IsFiniteSet({c \in Candidates : rows[c] # "absent"})

-----------------------------------------------------------------------------
(* Sequences: what Take and InOrder select                                 *)

LEMMA TakePrefix ==
    ASSUME NEW S, NEW s \in Seq(S), NEW n \in Nat
    PROVE  /\ Take(s, n) \in Seq(S)
           /\ \A k \in DOMAIN Take(s, n) : k \in DOMAIN s /\ Take(s, n)[k] = s[k]
<1> DEFINE m == IF n < Len(s) THEN n ELSE Len(s)
<1>1. m \in 0..Len(s)
  OBVIOUS
<1>2. Take(s, n) = SubSeq(s, 1, m)
  BY DEF Take
<1> HIDE DEF m
<1>3. QED
  BY <1>1, <1>2

\* Every place is the next one after as many others as come before it.
LEMMA PlaceOfEachRank ==
    ASSUME NEW n \in Nat, NEW places, places \subseteq 1..n,
           NEW k \in 1..Cardinality(places)
    PROVE  \E i \in places : Cardinality({j \in places : j < i}) = k - 1
<1> DEFINE f == [i \in places |-> -i]
<1>1. IsFiniteSet(places)
  <2>1. IsFiniteSet(1..n)
    BY FS_Interval
  <2>2. QED
    BY <2>1, FS_Subset
<1>2. Cardinality(places) \in Nat
  BY <1>1, FS_CardinalityType
<1>3. f \in [places -> Int] /\ \A x, y \in places : f[x] = f[y] => x = y
  OBVIOUS
<1>4. k - 1 \in 0..(Cardinality(places) - 1)
  BY <1>2
<1>5. PICK i \in places : Cardinality(Above(places, f, i)) = k - 1
  <2> HIDE DEF f
  <2>1. QED
    BY <1>1, <1>3, <1>4, EveryRankTaken
<1>6. Above(places, f, i) = {j \in places : j < i}
  <2>1. \A j \in places : f[j] > f[i] <=> j < i
    OBVIOUS
  <2> HIDE DEF f
  <2>2. QED
    BY <2>1 DEF Above
<1>7. QED
  BY <1>5, <1>6

\* What InOrder takes is what it was given, each place once.
LEMMA InOrderSelects ==
    ASSUME NEW S, NEW s \in Seq(S), NEW places, places \subseteq DOMAIN s
    PROVE  /\ InOrder(s, places) \in Seq(S)
           /\ \E pos \in [DOMAIN InOrder(s, places) -> places] :
                /\ \A k, l \in DOMAIN InOrder(s, places) : pos[k] = pos[l] => k = l
                /\ \A k \in DOMAIN InOrder(s, places) : InOrder(s, places)[k] = s[pos[k]]
<1> DEFINE D == 1..Cardinality(places)
           Rank(i) == Cardinality({j \in places : j < i})
           pos == [k \in D |-> CHOOSE i \in places : Rank(i) = k - 1]
<1>1. Cardinality(places) \in Nat
  <2>1. IsFiniteSet(1..Len(s)) /\ places \subseteq 1..Len(s)
    BY FS_Interval
  <2>2. QED
    BY <2>1, FS_Subset, FS_CardinalityType
<1>2. ASSUME NEW k \in D PROVE pos[k] \in places /\ Rank(pos[k]) = k - 1
  <2>1. \E i \in places : Rank(i) = k - 1
    <3>1. Len(s) \in Nat /\ places \subseteq 1..Len(s)
      OBVIOUS
    <3>2. QED
      BY <3>1, PlaceOfEachRank
  <2> HIDE DEF Rank
  <2>2. QED
    BY <2>1
<1>3. \A k, l \in D : pos[k] = pos[l] => k = l
  <2> HIDE DEF pos, Rank
  <2>1. QED
    BY <1>2
<1>4. InOrder(s, places) = [k \in D |-> s[pos[k]]]
  BY DEF InOrder
<1>5. pos \in [D -> places]
  BY <1>2
<1> HIDE DEF pos
<1>6. InOrder(s, places) \in Seq(S) /\ DOMAIN InOrder(s, places) = D
  <2>1. \A k \in D : s[pos[k]] \in S
    BY <1>5
  <2>2. QED
    BY <1>1, <1>4, <2>1
<1>7. QED
  BY <1>3, <1>4, <1>5, <1>6

-----------------------------------------------------------------------------
(* Lists of items                                                          *)

\* t is drawn from the items at these places, no candidate twice.
Drawn(t, items, places) ==
    /\ t \in Items /\ Reconciled(t)
    /\ \A k \in DOMAIN t : \E i \in places : t[k] = items[i]

LEMMA InOrderDraws ==
    ASSUME NEW items \in Items, NEW places, places \subseteq DOMAIN items, Reconciled(items)
    PROVE  Drawn(InOrder(items, places), items, places)
<1> DEFINE t == InOrder(items, places)
<1>1. /\ t \in Items
      /\ \E pos \in [DOMAIN t -> places] :
           /\ \A k, l \in DOMAIN t : pos[k] = pos[l] => k = l
           /\ \A k \in DOMAIN t : t[k] = items[pos[k]]
  <2>1. items \in Seq(ItemType)
    BY DEF Items
  <2>2. QED
    BY <2>1, InOrderSelects DEF Items
<1> HIDE DEF t
<1>2. PICK pos \in [DOMAIN t -> places] :
        /\ \A k, l \in DOMAIN t : pos[k] = pos[l] => k = l
        /\ \A k \in DOMAIN t : t[k] = items[pos[k]]
  BY <1>1
<1>3. Reconciled(t)
  <2> SUFFICES ASSUME NEW k \in DOMAIN t, NEW l \in DOMAIN t, t[k].candidate = t[l].candidate
               PROVE  k = l
    BY DEF Reconciled
  <2>1. pos[k] \in DOMAIN items /\ pos[l] \in DOMAIN items
    OBVIOUS
  <2>2. items[pos[k]].candidate = items[pos[l]].candidate
    BY <1>2
  <2>3. pos[k] = pos[l]
    BY <2>1, <2>2 DEF Reconciled
  <2>4. QED
    BY <1>2, <2>3
<1>4. \A k \in DOMAIN t : \E i \in places : t[k] = items[i]
  BY <1>2
<1>5. QED
  BY <1>1, <1>3, <1>4 DEF Drawn, t

LEMMA TakeDraws ==
    ASSUME NEW t, NEW items, NEW places, Drawn(t, items, places), NEW n \in Nat
    PROVE  Drawn(Take(t, n), items, places)
<1>1. /\ Take(t, n) \in Items
      /\ \A k \in DOMAIN Take(t, n) : k \in DOMAIN t /\ Take(t, n)[k] = t[k]
  <2>1. t \in Seq(ItemType)
    BY DEF Drawn, Items
  <2>2. QED
    BY <2>1, TakePrefix DEF Items
<1>2. QED
  BY <1>1 DEF Drawn, Reconciled

\* A list of verdicts on the candidates of another list.
Verdicts(t, f) == [i \in DOMAIN t |-> Item(t[i].candidate, f[i])]

LEMMA VerdictsOnItems ==
    ASSUME NEW t \in Items, NEW f \in [DOMAIN t -> ItemStates]
    PROVE  /\ Verdicts(t, f) \in Items /\ DOMAIN Verdicts(t, f) = DOMAIN t
           /\ Reconciled(t) => Reconciled(Verdicts(t, f))
           /\ \A i \in DOMAIN t : /\ Verdicts(t, f)[i].candidate = t[i].candidate
                                  /\ Verdicts(t, f)[i].state = f[i]
           /\ \A i \in DOMAIN t : f[i] \in States(Verdicts(t, f))
<1> DEFINE u == Verdicts(t, f)
<1>1. DOMAIN u = DOMAIN t /\ DOMAIN t = 1..Len(t) /\ Len(t) \in Nat
  BY DEF Verdicts, Items
<1>2. ASSUME NEW i \in DOMAIN t
      PROVE  u[i] \in ItemType /\ u[i].candidate = t[i].candidate /\ u[i].state = f[i]
  <2>1. t[i] \in ItemType /\ f[i] \in ItemStates
    BY <1>1 DEF Items
  <2>2. u[i] = [candidate |-> t[i].candidate, state |-> f[i]]
    BY DEF Verdicts, Item
  <2> HIDE DEF u
  <2>3. QED
    BY <2>1, <2>2 DEF ItemType
<1>3. u \in Items
  <2>1. u = [i \in 1..Len(t) |-> u[i]]
    BY <1>1 DEF Verdicts
  <2> HIDE DEF u
  <2>2. QED
    BY <1>1, <1>2, <2>1 DEF Items
<1>4. Reconciled(t) => Reconciled(u)
  <2> HIDE DEF u
  <2>1. QED
    BY <1>1, <1>2 DEF Reconciled
<1>5. \A i \in DOMAIN t : f[i] \in States(u)
  <2> HIDE DEF u
  <2>1. QED
    BY <1>1, <1>2 DEF States
<1>6. QED
  BY <1>1, <1>2, <1>3, <1>4, <1>5

LEMMA ReportTyped ==
    ASSUME NEW p, NEW decision, NEW items \in Items
    PROVE  /\ Report(p, decision, items) \in Reports
           /\ Report(p, decision, items).ready =>
                decision = Go[p] /\ Report(p, decision, items).items = items
<1>1. Unusable \in Reports
  <2>1. <<>> \in Items
    BY DEF Items
  <2>2. QED
    BY <2>1 DEF Unusable, Reports
<1>2. QED
  BY <1>1 DEF Report, Reports, Unusable

-----------------------------------------------------------------------------
(* The inductive invariant                                                 *)

\* What the phases up to p have established of an item of a ready report.
Vetted(p, x, rows, clearances) ==
    /\ rows[x.candidate] = "sent"
    /\ p = 8 /\ x.state = "ready_dry_run" => IntentBlocks(x.candidate) = {}
    /\ p >= 9 => IntentBlocks(x.candidate) = {} /\ x.candidate \in clearances
    /\ p >= 10 => x.candidate.side = "BUY" /\ x.candidate.symbol \in Allowed
    /\ p = 12 => x.state = "final_guard_ready"

Passed(p, r, rows, clearances) ==
    r.ready =>
        /\ Reconciled(r.items)
        /\ \A i \in DOMAIN r.items : Vetted(p, r.items[i], rows, clearances)
        /\ p = 12 => r.items # <<>>

Chain(files, runs, rows, clearances) ==
    \A p \in Phases : /\ Passed(p, files[p], rows, clearances)
                      /\ Passed(p, runs[p].report, rows, clearances)

Inv == Typed /\ FinitelyMany(journal) /\ Chain(file, run, journal, cleared)

\* A delivery is never taken back and clearances are never forgotten, so what
\* was established of a report stays established however long it lies there.
LEMMA PassedForGood ==
    ASSUME NEW p, NEW r \in Reports, NEW rows, NEW clearances, NEW rows2, NEW clearances2,
           \A c \in Candidates : rows[c] = "sent" => rows2[c] = "sent",
           clearances \subseteq clearances2,
           Passed(p, r, rows, clearances)
    PROVE  Passed(p, r, rows2, clearances2)
<1>1. \A i \in DOMAIN r.items : r.items[i].candidate \in Candidates
  <2>1. r.items \in Seq(ItemType)
    BY DEF Reports, Items
  <2>2. \A i \in DOMAIN r.items : r.items[i] \in ItemType
    BY <2>1
  <2>3. QED
    BY <2>2 DEF ItemType
<1>2. QED
  BY <1>1 DEF Passed, Vetted

LEMMA UnusablePassed ==
    ASSUME NEW p, NEW rows, NEW clearances
    PROVE  Unusable \in Reports /\ Passed(p, Unusable, rows, clearances)
<1>1. <<>> \in Items
  BY DEF Items
<1>2. QED
  BY <1>1 DEF Unusable, Reports, Passed

-----------------------------------------------------------------------------
(* The reports of the phases                                               *)

\* Phase 8 takes rows that were sent, each once.
LEMMA NewestSent ==
    ASSUME Inv
    PROVE  /\ Newest \in Seq({c \in Candidates : journal[c] = "sent"})
           /\ \A k, l \in DOMAIN Newest : Newest[k] = Newest[l] => k = l
<1> DEFINE Sent == {c \in Candidates : journal[c] = "sent"}
           Rank(c) == Cardinality({d \in Sent : d.at > c.at})
           D == 1..Cardinality(Sent)
           all == [i \in D |-> CHOOSE c \in Sent : Rank(c) = i - 1]
           at == [c \in Sent |-> c.at]
<1>1. IsFiniteSet(Sent) /\ Cardinality(Sent) \in Nat
  <2>1. Sent \subseteq {c \in Candidates : journal[c] # "absent"}
    OBVIOUS
  <2>2. QED
    BY <2>1, FS_Subset, FS_CardinalityType DEF Inv, FinitelyMany
<1>2. at \in [Sent -> Int] /\ \A c, d \in Sent : at[c] = at[d] => c = d
  BY CandidatesAssumption
<1>3. ASSUME NEW i \in D PROVE all[i] \in Sent /\ Rank(all[i]) = i - 1
  <2>1. PICK c \in Sent : Cardinality(Above(Sent, at, c)) = i - 1
    <3>1. i - 1 \in 0..(Cardinality(Sent) - 1)
      BY <1>1
    <3> HIDE DEF at, Sent
    <3>2. QED
      BY <1>1, <1>2, <3>1, EveryRankTaken
  <2>2. Above(Sent, at, c) = {d \in Sent : d.at > c.at}
    BY DEF Above
  <2>3. Rank(c) = i - 1
    BY <2>1, <2>2
  <2> HIDE DEF Rank, Sent
  <2>4. QED
    BY <2>3
<1>4. all \in Seq(Sent) /\ DOMAIN all = D
  <2> HIDE DEF Rank, Sent
  <2>1. all = [i \in D |-> all[i]]
    OBVIOUS
  <2> HIDE DEF all
  <2>2. QED
    BY <1>1, <1>3, <2>1
<1>5. \A k, l \in D : all[k] = all[l] => k = l
  <2> HIDE DEF all, Rank
  <2>1. QED
    BY <1>3
<1>6. Newest = Take(all, MaxCandidates)
  BY DEF Newest
<1>7. /\ Take(all, MaxCandidates) \in Seq(Sent)
      /\ \A k \in DOMAIN Take(all, MaxCandidates) :
           k \in DOMAIN all /\ Take(all, MaxCandidates)[k] = all[k]
  <2> HIDE DEF all, Sent
  <2>1. QED
    BY <1>4, TakePrefix, BoundsAssumption
<1> HIDE DEF all, D
<1>8. QED
  BY <1>4, <1>5, <1>6, <1>7

LEMMA DryRunVetted ==
    ASSUME Inv
    PROVE  DryRunReport \in Reports /\ Passed(8, DryRunReport, journal, cleared)
<1> DEFINE Sent == {c \in Candidates : journal[c] = "sent"}
           intents == [i \in DOMAIN Newest |-> Intent(Newest[i])]
<1>1. /\ Newest \in Seq(Sent)
      /\ \A k, l \in DOMAIN Newest : Newest[k] = Newest[l] => k = l
  BY NewestSent
<1>2. DOMAIN intents = DOMAIN Newest /\ DOMAIN Newest = 1..Len(Newest) /\ Len(Newest) \in Nat
  BY <1>1
<1>3. ASSUME NEW i \in DOMAIN Newest
      PROVE  /\ intents[i] \in ItemType /\ intents[i].candidate = Newest[i]
             /\ Newest[i] \in Sent
             /\ intents[i].state = "ready_dry_run" => IntentBlocks(Newest[i]) = {}
  <2>1. Newest[i] \in Sent
    <3> HIDE DEF Sent
    <3>1. QED
      BY <1>1
  <2>2. Newest[i] \in Candidates
    BY <2>1
  <2>3. QED
    BY <2>1, <2>2 DEF Intent, Item, ItemType, ItemStates
<1>4. intents \in Items
  <2>1. intents = [i \in 1..Len(Newest) |-> intents[i]]
    BY <1>2
  <2> HIDE DEF intents
  <2>2. QED
    BY <1>2, <1>3, <2>1 DEF Items
<1>5. DryRunReport \in Reports /\ (DryRunReport.ready => DryRunReport.items = intents)
  <2>1. \E d : DryRunReport = Report(8, d, intents)
    BY DEF DryRunReport
  <2> HIDE DEF intents
  <2>2. QED
    BY <1>4, <2>1, ReportTyped
<1>6. Reconciled(intents)
  <2> HIDE DEF intents
  <2>1. QED
    BY <1>1, <1>2, <1>3 DEF Reconciled
<1>7. \A i \in DOMAIN intents : Vetted(8, intents[i], journal, cleared)
  <2>1. \A i \in DOMAIN intents : journal[intents[i].candidate] = "sent"
    BY <1>2, <1>3
  <2> HIDE DEF intents
  <2>2. QED
    BY <1>2, <1>3, <2>1 DEF Vetted
<1> HIDE DEF intents
<1>8. QED
  BY <1>5, <1>6, <1>7 DEF Passed

\* The candidates phase 9 takes from the report of phase 8 are the ones its
\* clearance counts.
LEMMA SandboxVetted ==
    ASSUME Inv, NEW mode, NEW clearances,
           ~SwitchActive(switch) =>
               /\ cleared \subseteq clearances
               /\ \A i \in InState(file[8].items, "ready_dry_run") :
                    file[8].items[i].candidate \in clearances
    PROVE  SandboxReport(mode) \in Reports /\ Passed(9, SandboxReport(mode), journal, clearances)
<1> DEFINE source == file[8]
           places == InState(source.items, "ready_dry_run")
           selected == ReadyIntents(source.items)
           verdict == [i \in DOMAIN selected |-> Executed(selected[i].candidate, mode).state]
           orders == [i \in DOMAIN selected |-> Executed(selected[i].candidate, mode)]
<1>1. source \in Reports /\ Passed(8, source, journal, cleared)
  BY DEF Inv, Typed, Chain
<1>2. source.items \in Items /\ Reconciled(source.items) /\ places \subseteq DOMAIN source.items
  BY <1>1 DEF Reports, Passed, InState, Reconciled
<1>3. Drawn(selected, source.items, places)
  <2>1. selected = Take(InOrder(source.items, places), MaxOrders)
    BY DEF ReadyIntents
  <2> HIDE DEF selected, source, places
  <2>2. QED
    BY <1>2, <2>1, InOrderDraws, TakeDraws, BoundsAssumption
<1>4. orders = Verdicts(selected, verdict) /\ verdict \in [DOMAIN selected -> ItemStates]
  BY DEF Verdicts, Executed, Item, ItemStates
<1>5. /\ orders \in Items /\ DOMAIN orders = DOMAIN selected /\ Reconciled(orders)
      /\ \A i \in DOMAIN orders : orders[i].candidate = selected[i].candidate
  <2> HIDE DEF orders, verdict, selected, source, places
  <2>1. QED
    BY <1>3, <1>4, VerdictsOnItems DEF Drawn
<1>6. /\ SandboxReport(mode) \in Reports
      /\ SandboxReport(mode).ready =>
           ~SwitchActive(switch) /\ SandboxReport(mode).items = orders
  <2> DEFINE d == IF KillSwitch THEN "KILL_SWITCH_ACTIVE"
               ELSE IF orders = <<>> THEN "COLLECT_DRY_RUN_INTENTS"
               ELSE IF ~Reconciled(orders) THEN "REVIEW_RECONCILIATION"
               ELSE IF "rejected" \in States(orders) THEN "REVIEW_EXECUTION_REJECTIONS"
               ELSE "SANDBOX_EXECUTION_READY"
  <2>1. SandboxReport(mode) = Report(9, d, orders)
    BY DEF SandboxReport
  <2> HIDE DEF orders
  <2>2. d = Go[9] => ~SwitchActive(switch)
    BY DEF Go, KillSwitch
  <2> HIDE DEF d
  <2>3. QED
    BY <1>5, <2>1, <2>2, ReportTyped
<1>7. ASSUME ~SwitchActive(switch), NEW k \in DOMAIN orders
      PROVE  Vetted(9, orders[k], journal, clearances)
  <2> HIDE DEF orders, verdict, selected
  <2>1. PICK i \in places : selected[k] = source.items[i]
    BY <1>3, <1>5 DEF Drawn
  <2>2. orders[k].candidate = source.items[i].candidate
    BY <1>5, <2>1
  <2>3. i \in DOMAIN source.items /\ source.items[i].state = "ready_dry_run"
    BY <2>1 DEF InState
  <2>4. source.ready
    BY <1>1, <2>3 DEF Reports
  <2>5. Vetted(8, source.items[i], journal, cleared)
    BY <1>1, <2>3, <2>4 DEF Passed
  <2>6. source.items[i].candidate \in clearances
    BY <1>7, <2>1
  <2> HIDE DEF source
  <2>7. QED
    BY <2>2, <2>3, <2>5, <2>6 DEF Vetted
<1> HIDE DEF orders
<1>8. QED
  BY <1>5, <1>6, <1>7 DEF Passed

\* The checks are verdicts on the selected items, and each is of a candidate
\* whose item in the source report was vetted.
Judged(checks, selected, verdict, p, source, rows, clearances) ==
    /\ checks \in Items /\ DOMAIN checks = DOMAIN selected /\ Reconciled(checks)
    /\ \A k \in DOMAIN checks :
         /\ checks[k].candidate = selected[k].candidate /\ checks[k].state = verdict[k]
         /\ verdict[k] \in States(checks)
         /\ \E i \in DOMAIN source.items :
              /\ selected[k] = source.items[i]
              /\ Vetted(p, source.items[i], rows, clearances)

\* Items drawn from a ready report that passed, with verdicts of a later phase,
\* are still vetted up to the earlier one.
LEMMA DrawnVetted ==
    ASSUME NEW p, NEW source \in Reports, NEW rows, NEW clearances, source.ready,
           Passed(p, source, rows, clearances),
           NEW places, places \subseteq DOMAIN source.items,
           NEW selected, Drawn(selected, source.items, places),
           NEW verdict \in [DOMAIN selected -> ItemStates]
    PROVE  Judged(Verdicts(selected, verdict), selected, verdict, p, source, rows, clearances)
<1> DEFINE checks == Verdicts(selected, verdict)
<1>1. /\ checks \in Items /\ DOMAIN checks = DOMAIN selected /\ Reconciled(checks)
      /\ \A k \in DOMAIN checks :
           /\ checks[k].candidate = selected[k].candidate /\ checks[k].state = verdict[k]
           /\ verdict[k] \in States(checks)
  BY VerdictsOnItems DEF Drawn
<1> HIDE DEF checks
<1>2. ASSUME NEW k \in DOMAIN checks
      PROVE  \E i \in DOMAIN source.items : /\ selected[k] = source.items[i]
                                           /\ Vetted(p, source.items[i], rows, clearances)
  <2>1. PICK i \in places : selected[k] = source.items[i]
    BY <1>1 DEF Drawn
  <2>2. QED
    BY <1>1, <2>1 DEF Passed
<1>3. QED
  BY <1>1, <1>2 DEF checks, Judged

LEMMA NothingDrawn ==
    ASSUME NEW verdict
    PROVE  Verdicts(<<>>, verdict) = <<>> /\ <<>> \in Items
<1>1. DOMAIN <<>> = {}
  OBVIOUS
<1>2. QED
  BY <1>1 DEF Verdicts, Items

LEMMA PreviewVetted ==
    ASSUME Inv
    PROVE  PreviewReport \in Reports /\ Passed(10, PreviewReport, journal, cleared)
<1> DEFINE source == file[9]
           places == InState(source.items, "simulated_filled")
           orders == IF PreviewSourceBlocks THEN <<>> ELSE SourceOrders(source.items)
           Verdict(c) == IF OrderBlocked(c) THEN "blocked" ELSE "request_previewed"
           verdict == [i \in DOMAIN orders |-> Verdict(orders[i].candidate)]
           requests == Verdicts(orders, verdict)
           decision == IF PreviewSourceBlocks THEN "BLOCK_PHASE9_SOURCE"
               ELSE IF requests = <<>> THEN "COLLECT_PHASE9_SANDBOX_ORDERS"
               ELSE IF "blocked" \in States(requests) THEN "REVIEW_BLOCKED_TESTNET_REQUESTS"
               ELSE "TESTNET_ORDER_REQUEST_PREVIEW_READY"
<1>1. source \in Reports /\ Passed(9, source, journal, cleared)
  BY DEF Inv, Typed, Chain
<1>2. source.items \in Items /\ places \subseteq DOMAIN source.items
  BY <1>1 DEF Reports, InState
<1>3. PreviewReport = Report(10, decision, requests)
  <2>1. requests = [i \in DOMAIN orders |->
           Item(orders[i].candidate,
                IF OrderBlocked(orders[i].candidate) THEN "blocked" ELSE "request_previewed")]
    BY DEF Verdicts, Item
  <2>2. QED
    BY <2>1 DEF PreviewReport
<1>4. decision = Go[10] => source.ready /\ "blocked" \notin States(requests)
  <2> HIDE DEF requests, source
  <2>1. QED
    BY DEF Go, PreviewSourceBlocks, source
<1>5. CASE ~source.ready
  <2>1. orders = <<>>
    BY <1>5 DEF PreviewSourceBlocks
  <2>2. requests \in Items
    BY <2>1, NothingDrawn
  <2> HIDE DEF requests, decision, source
  <2>3. PreviewReport \in Reports /\ ~PreviewReport.ready
    BY <1>3, <1>4, <1>5, <2>2, ReportTyped
  <2>4. QED
    BY <2>3 DEF Passed
<1>6. CASE source.ready
  <2>1. Drawn(orders, source.items, places)
    <3>1. orders = Take(InOrder(source.items, places), MaxOrders)
      BY <1>6 DEF SourceOrders, PreviewSourceBlocks
    <3>2. Reconciled(source.items)
      BY <1>1, <1>6 DEF Passed
    <3> HIDE DEF orders, source, places
    <3>3. QED
      BY <1>2, <3>1, <3>2, InOrderDraws, TakeDraws, BoundsAssumption
  <2>2. verdict \in [DOMAIN orders -> ItemStates]
    BY DEF ItemStates
  <2>3. Judged(requests, orders, verdict, 9, source, journal, cleared)
    <3> HIDE DEF orders, source, places, verdict
    <3>1. QED
      BY <1>1, <1>2, <1>6, <2>1, <2>2, DrawnVetted
  <2>4. ASSUME "blocked" \notin States(requests), NEW k \in DOMAIN requests
        PROVE  Vetted(10, requests[k], journal, cleared)
    <3> HIDE DEF requests, orders, source, places
    <3>1. PICK i \in DOMAIN source.items : /\ requests[k].candidate = source.items[i].candidate
                                          /\ Vetted(9, source.items[i], journal, cleared)
      BY <2>3 DEF Judged
    <3>2. verdict[k] # "blocked" /\ verdict[k] = Verdict(requests[k].candidate)
      BY <2>3, <2>4 DEF Judged
    <3>3. ~OrderBlocked(requests[k].candidate)
      BY <3>2
    <3>4. QED
      BY <3>1, <3>3 DEF Vetted, OrderBlocked
  <2> HIDE DEF requests, decision
  <2>5. /\ PreviewReport \in Reports
        /\ PreviewReport.ready => decision = Go[10] /\ PreviewReport.items = requests
    BY <1>3, <2>3, ReportTyped DEF Judged
  <2>6. QED
    BY <1>4, <2>3, <2>4, <2>5 DEF Passed, Judged
<1>7. QED
  BY <1>5, <1>6

LEMMA SafetyVetted ==
    ASSUME Inv, NEW v
    PROVE  SafetyReport(v) \in Reports /\ Passed(11, SafetyReport(v), journal, cleared)
<1> DEFINE source == file[10]
           places == InState(source.items, "request_previewed")
           previews == IF SafetySourceBlocks THEN <<>> ELSE InOrder(source.items, places)
           Verdict(c) == IF RequestSafe(c, v) THEN "market_safe" ELSE "blocked"
           verdict == [i \in DOMAIN previews |-> Verdict(previews[i].candidate)]
           checks == Verdicts(previews, verdict)
           decision == IF SafetySourceBlocks THEN "BLOCK_PHASE10_SOURCE"
               ELSE IF checks = <<>> THEN "COLLECT_PHASE10_PREVIEWS"
               ELSE IF "blocked" \in States(checks) THEN "BLOCK_EXECUTION_MARKET_UNSAFE"
               ELSE "REALTIME_MARKET_SAFETY_READY"
<1>1. source \in Reports /\ Passed(10, source, journal, cleared)
  BY DEF Inv, Typed, Chain
<1>2. source.items \in Items /\ places \subseteq DOMAIN source.items
  BY <1>1 DEF Reports, InState
<1>3. SafetyReport(v) = Report(11, decision, checks)
  <2>1. checks = [i \in DOMAIN previews |->
           Item(previews[i].candidate,
                IF RequestSafe(previews[i].candidate, v) THEN "market_safe" ELSE "blocked")]
    BY DEF Verdicts, Item
  <2>2. QED
    BY <2>1 DEF SafetyReport
<1>4. decision = Go[11] => source.ready
  <2> HIDE DEF checks, source
  <2>1. QED
    BY DEF Go, SafetySourceBlocks, source
<1>5. CASE ~source.ready
  <2>1. previews = <<>>
    BY <1>5 DEF SafetySourceBlocks
  <2>2. checks \in Items
    BY <2>1, NothingDrawn
  <2> HIDE DEF checks, decision, source
  <2>3. SafetyReport(v) \in Reports /\ ~SafetyReport(v).ready
    BY <1>3, <1>4, <1>5, <2>2, ReportTyped
  <2>4. QED
    BY <2>3 DEF Passed
<1>6. CASE source.ready
  <2>1. Drawn(previews, source.items, places)
    <3>1. previews = InOrder(source.items, places)
      BY <1>6 DEF SafetySourceBlocks
    <3>2. Reconciled(source.items)
      BY <1>1, <1>6 DEF Passed
    <3> HIDE DEF previews, source, places
    <3>3. QED
      BY <1>2, <3>1, <3>2, InOrderDraws
  <2>2. verdict \in [DOMAIN previews -> ItemStates]
    BY DEF ItemStates
  <2>3. Judged(checks, previews, verdict, 10, source, journal, cleared)
    <3> HIDE DEF previews, source, places, verdict
    <3>1. QED
      BY <1>1, <1>2, <1>6, <2>1, <2>2, DrawnVetted
  <2>4. ASSUME NEW k \in DOMAIN checks PROVE Vetted(11, checks[k], journal, cleared)
    <3> HIDE DEF checks, previews, source, places
    <3>1. PICK i \in DOMAIN source.items : /\ checks[k].candidate = source.items[i].candidate
                                          /\ Vetted(10, source.items[i], journal, cleared)
      BY <2>3 DEF Judged
    <3>2. QED
      BY <3>1 DEF Vetted
  <2> HIDE DEF checks, decision
  <2>5. /\ SafetyReport(v) \in Reports
        /\ SafetyReport(v).ready => SafetyReport(v).items = checks
    BY <1>3, <2>3, ReportTyped DEF Judged
  <2>6. QED
    BY <2>3, <2>4, <2>5 DEF Passed, Judged
<1>7. QED
  BY <1>5, <1>6

\* A guard that is ready found every one of its candidates ready.
LEMMA GuardVetted ==
    ASSUME Inv, NEW v
    PROVE  /\ GuardReport(v) \in Reports /\ Passed(12, GuardReport(v), journal, cleared)
           /\ GuardReport(v).ready =>
                \A k \in DOMAIN GuardReport(v).items :
                    /\ k \in DOMAIN GuardSource
                    /\ GuardReport(v).items[k].candidate = GuardSource[k].candidate
                    /\ CheckReady(GuardSource[k].candidate, v)
           /\ \A k \in DOMAIN GuardSource : GuardSource[k].candidate.symbol \in Allowed
<1> DEFINE source == file[11]
           places == {i \in InState(source.items, "market_safe") :
                          source.items[i].candidate.symbol \in Allowed}
           Verdict(c) == IF CheckReady(c, v) THEN "final_guard_ready" ELSE "blocked"
           verdict == [i \in DOMAIN GuardSource |-> Verdict(GuardSource[i].candidate)]
           checks == Verdicts(GuardSource, verdict)
           decision == IF GuardSourceBlocks THEN "BLOCK_PHASE11_SOURCE"
               ELSE IF checks = <<>> THEN "COLLECT_PHASE11_MARKET_SAFETY"
               ELSE IF "blocked" \in States(checks) THEN "BLOCK_FINAL_PRE_ORDER_GUARD"
               ELSE "FINAL_PRE_ORDER_GUARD_READY"
<1>1. source \in Reports /\ Passed(11, source, journal, cleared)
  BY DEF Inv, Typed, Chain
<1>2. source.items \in Items /\ places \subseteq DOMAIN source.items
  BY <1>1 DEF Reports, InState
<1>3. GuardReport(v) = Report(12, decision, checks)
  <2>1. checks = [i \in DOMAIN GuardSource |->
           Item(GuardSource[i].candidate,
                IF CheckReady(GuardSource[i].candidate, v) THEN "final_guard_ready" ELSE "blocked")]
    BY DEF Verdicts, Item
  <2>2. QED
    BY <2>1 DEF GuardReport
<1>4. decision = Go[12] => source.ready /\ checks # <<>> /\ "blocked" \notin States(checks)
  <2> HIDE DEF checks, source
  <2>1. QED
    BY DEF Go, GuardSourceBlocks, source
<1>5. CASE ~source.ready
  <2>1. GuardSource = <<>>
    BY <1>5 DEF GuardSource, GuardSourceBlocks
  <2>2. checks \in Items
    BY <2>1, NothingDrawn
  <2> HIDE DEF checks, decision, source
  <2>3. GuardReport(v) \in Reports /\ ~GuardReport(v).ready
    BY <1>3, <1>4, <1>5, <2>2, ReportTyped
  <2>4. QED
    BY <2>1, <2>3 DEF Passed
<1>6. CASE source.ready
  <2>1. Drawn(GuardSource, source.items, places)
    <3>1. GuardSource = InOrder(source.items, places)
      BY <1>6 DEF GuardSource, GuardSourceBlocks, SourceChecks
    <3>2. Reconciled(source.items)
      BY <1>1, <1>6 DEF Passed
    <3> HIDE DEF source, places
    <3>3. QED
      BY <1>2, <3>1, <3>2, InOrderDraws
  <2>2. verdict \in [DOMAIN GuardSource -> ItemStates]
    BY DEF ItemStates
  <2>3. Judged(checks, GuardSource, verdict, 11, source, journal, cleared)
    <3> HIDE DEF source, places, verdict
    <3>1. QED
      BY <1>1, <1>2, <1>6, <2>1, <2>2, DrawnVetted
  <2>4. ASSUME "blocked" \notin States(checks), NEW k \in DOMAIN checks
        PROVE  /\ Vetted(12, checks[k], journal, cleared)
               /\ k \in DOMAIN GuardSource /\ checks[k].candidate = GuardSource[k].candidate
               /\ CheckReady(GuardSource[k].candidate, v)
    <3> HIDE DEF checks, source, places
    <3>1. PICK i \in DOMAIN source.items : /\ checks[k].candidate = source.items[i].candidate
                                          /\ Vetted(11, source.items[i], journal, cleared)
      BY <2>3 DEF Judged
    <3>2. /\ verdict[k] # "blocked" /\ checks[k].state = verdict[k]
          /\ k \in DOMAIN GuardSource /\ checks[k].candidate = GuardSource[k].candidate
      BY <2>3, <2>4 DEF Judged
    <3>3. verdict[k] = "final_guard_ready" /\ CheckReady(GuardSource[k].candidate, v)
      BY <3>2
    <3>4. QED
      BY <3>1, <3>2, <3>3 DEF Vetted
  <2>5. \A k \in DOMAIN GuardSource : GuardSource[k].candidate.symbol \in Allowed
    <3> HIDE DEF source
    <3>1. QED
      BY <2>1 DEF Drawn
  <2> HIDE DEF checks, decision
  <2>6. /\ GuardReport(v) \in Reports
        /\ GuardReport(v).ready => decision = Go[12] /\ GuardReport(v).items = checks
    BY <1>3, <2>3, ReportTyped DEF Judged
  <2>7. QED
    BY <1>4, <2>3, <2>4, <2>5, <2>6 DEF Passed, Judged
<1>7. QED
  BY <1>5, <1>6

-----------------------------------------------------------------------------
(* The steps                                                               *)

LEMMA InvInit == Init => Inv
<1> SUFFICES ASSUME Init PROVE Inv
  OBVIOUS
<1> USE DEF Init
<1>1. Unusable \in Reports /\ \A p : Passed(p, Unusable, journal, cleared)
  BY UnusablePassed
<1>2. Idle \in Runs /\ Idle.report = Unusable
  BY <1>1 DEF Idle, Runs
<1>3. NoSnapshot \in Snapshots
  BY BoundsAssumption DEF NoSnapshot, NoTime, Snapshots, Old, Ages
<1>4. FinitelyMany(journal)
  <2>1. {c \in Candidates : journal[c] # "absent"} = {}
    OBVIOUS
  <2>2. QED
    BY <2>1, FS_EmptySet DEF FinitelyMany
<1>5. Typed
  BY <1>1, <1>2, <1>3 DEF Typed
<1>6. Chain(file, run, journal, cleared)
  BY <1>1, <1>2 DEF Chain
<1>7. QED
  BY <1>4, <1>5, <1>6 DEF Inv

\* Putting a report that passed into the hands of a command keeps the chain.
LEMMA ChainWithRun ==
    ASSUME Inv, NEW p \in Phases, NEW r \in Runs,
           run' = [run EXCEPT ![p] = r], file' = file, journal' = journal,
           cleared \subseteq cleared',
           Passed(p, r.report, journal, cleared')
    PROVE  run' \in [Phases -> Runs] /\ Chain(file', run', journal', cleared')
<1>1. \A q \in Phases : file[q] \in Reports /\ run[q].report \in Reports
  BY DEF Inv, Typed, Runs
<1>2. \A q \in Phases : /\ Passed(q, file[q], journal, cleared')
                        /\ Passed(q, run[q].report, journal, cleared')
  BY <1>1, PassedForGood DEF Inv, Chain
<1>3. run' \in [Phases -> Runs]
  BY DEF Inv, Typed
<1>4. \A q \in Phases : run'[q] = IF q = p THEN r ELSE run[q]
  BY DEF Inv, Typed
<1>5. QED
  BY <1>2, <1>3, <1>4 DEF Chain

\* A command that computed a report which passed.
LEMMA StepComputes ==
    ASSUME Inv, NEW p \in Phases, NEW R \in Reports, Computes(p, R),
           file' = file, journal' = journal, switch' = switch,
           store' \in [Allowed -> Snapshots], memory' \in [Allowed -> Snapshots],
           cleared \subseteq cleared', cleared' \subseteq Candidates,
           Passed(p, R, journal, cleared')
    PROVE  Inv'
<1> DEFINE r == [step |-> "computed", report |-> R]
<1>1. r \in Runs /\ r.report = R /\ run' = [run EXCEPT ![p] = r]
  BY DEF Runs, Computes
<1> HIDE DEF r
<1>2. run' \in [Phases -> Runs] /\ Chain(file', run', journal', cleared')
  BY <1>1, ChainWithRun
<1>3. Typed'
  BY <1>2 DEF Inv, Typed
<1>4. QED
  BY <1>2, <1>3 DEF Inv, FinitelyMany

LEMMA StepReadiness == Inv /\ RunReadiness => Inv'
<1> SUFFICES ASSUME Inv, RunReadiness PROVE Inv'
  OBVIOUS
<1>1. PICK e \in Evidence : Computes(7, Report(7, ReadinessDecision(e), <<>>))
  BY DEF RunReadiness
<1> DEFINE R == Report(7, ReadinessDecision(e), <<>>)
<1>2. <<>> \in Items
  BY DEF Items
<1>3. R \in Reports /\ (R.ready => R.items = <<>>)
  BY <1>2, ReportTyped
<1> HIDE DEF R
<1>4. Passed(7, R, journal, cleared')
  BY <1>3 DEF Passed, Reconciled
<1>5. QED
  BY <1>1, <1>3, <1>4, StepComputes DEF RunReadiness, R, Inv, Typed

LEMMA StepDryRun == Inv /\ RunDryRun => Inv'
<1> SUFFICES ASSUME Inv, RunDryRun PROVE Inv'
  OBVIOUS
<1>1. QED
  BY DryRunVetted, StepComputes DEF RunDryRun, Inv, Typed

LEMMA StepSandbox == Inv /\ RunSandbox => Inv'
<1> SUFFICES ASSUME Inv, RunSandbox PROVE Inv'
  OBVIOUS
<1>1. PICK mode \in Modes : Computes(9, SandboxReport(mode))
  BY DEF RunSandbox
<1>2. /\ cleared \subseteq cleared'
      /\ ~SwitchActive(switch) => \A i \in InState(file[8].items, "ready_dry_run") :
                                     file[8].items[i].candidate \in cleared'
  BY DEF RunSandbox
<1>3. cleared' \subseteq Candidates
  <2>1. file[8].items \in Seq(ItemType)
    BY DEF Inv, Typed, Reports, Items
  <2>2. \A i \in InState(file[8].items, "ready_dry_run") : file[8].items[i] \in ItemType
    BY <2>1 DEF InState
  <2>3. \A i \in InState(file[8].items, "ready_dry_run") : file[8].items[i].candidate \in Candidates
    BY <2>2 DEF ItemType
  <2>4. QED
    BY <2>3 DEF RunSandbox, Inv, Typed
<1>4. SandboxReport(mode) \in Reports /\ Passed(9, SandboxReport(mode), journal, cleared')
  BY <1>2, SandboxVetted
<1>5. /\ file' = file /\ journal' = journal /\ switch' = switch
      /\ store' \in [Allowed -> Snapshots] /\ memory' \in [Allowed -> Snapshots]
  BY DEF RunSandbox, Inv, Typed
<1>6. QED
  BY <1>1, <1>2, <1>3, <1>4, <1>5, StepComputes

LEMMA StepPreview == Inv /\ RunPreview => Inv'
<1> SUFFICES ASSUME Inv, RunPreview PROVE Inv'
  OBVIOUS
<1>1. QED
  BY PreviewVetted, StepComputes DEF RunPreview, Inv, Typed

LEMMA StepSafety == Inv /\ RunSafety => Inv'
<1> SUFFICES ASSUME Inv, RunSafety PROVE Inv'
  OBVIOUS
<1>1. PICK v \in Views : Computes(11, SafetyReport(v))
  BY DEF RunSafety
<1>2. SafetyReport(v) \in Reports /\ Passed(11, SafetyReport(v), journal, cleared)
  BY SafetyVetted
<1>3. QED
  BY <1>1, <1>2, StepComputes DEF RunSafety, Inv, Typed

LEMMA StepLoad == Inv /\ LoadSnapshots => Inv'
<1> SUFFICES ASSUME Inv, LoadSnapshots PROVE Inv'
  OBVIOUS
<1> DEFINE r == [step |-> "collecting", report |-> Unusable]
<1>1. r \in Runs /\ Passed(12, r.report, journal, cleared')
  BY UnusablePassed DEF Runs
<1>2. /\ run' = [run EXCEPT ![12] = r]
      /\ file' = file /\ journal' = journal /\ cleared \subseteq cleared'
  BY DEF LoadSnapshots
<1> HIDE DEF r
<1>3. run' \in [Phases -> Runs] /\ Chain(file', run', journal', cleared')
  <2>1. 12 \in Phases
    OBVIOUS
  <2>2. QED
    BY <1>1, <1>2, <2>1, ChainWithRun
<1>4. Typed'
  BY <1>3 DEF LoadSnapshots, Inv, Typed
<1>5. QED
  BY <1>3, <1>4 DEF LoadSnapshots, Inv, FinitelyMany

Tickers == [bid : Int, ask : Int, last : Int, age : Nat \cup {NoTime}]

LEMMA TickerTyped ==
    ASSUME NEW v \in Views, v.ticker # <<>>
    PROVE  v.ticker[1] \in Tickers
<1>1. v.ticker \in Seq(Tickers)
  BY QuotesAssumption DEF Tickers
<1>2. QED
  BY <1>1

\* A ticker's snapshot is one, with ages within the model's bound.
LEMMA FallbackTyped ==
    ASSUME Inv, NEW v \in Views, NEW s \in Allowed
    PROVE  AfterFallback(s, v) \in Snapshots
<1>1. memory[s] \in Snapshots
  BY DEF Inv, Typed
<1>2. ASSUME v.ticker # <<>> PROVE TickerUpdate(v.ticker[1]) \in Snapshots
  <2>1. v.ticker[1] \in Tickers
    BY <1>2, TickerTyped
  <2>2. QED
    BY <2>1, BoundsAssumption DEF Tickers, TickerUpdate, Snapshots, Old, Ages, NoTime
<1>3. QED
  BY <1>1, <1>2 DEF AfterFallback

LEMMA StepGuard == Inv /\ RunGuard => Inv'
<1> SUFFICES ASSUME Inv, RunGuard PROVE Inv'
  OBVIOUS
<1> DEFINE symbols == {GuardSource[i].candidate.symbol : i \in DOMAIN GuardSource}
           refreshed(v) == {s \in symbols : NeedsFallback(s) /\ v.ticker # <<>>}
<1>1. PICK v \in Views :
        /\ Computes(12, GuardReport(v))
        /\ memory' = [s \in Allowed |->
               IF s \in refreshed(v) THEN AfterFallback(s, v) ELSE memory[s]]
        /\ store' = IF refreshed(v) = {} THEN store ELSE memory'
  BY DEF RunGuard
<1>2. memory' \in [Allowed -> Snapshots] /\ store' \in [Allowed -> Snapshots]
  <2> HIDE DEF refreshed
  <2>1. QED
    BY <1>1, FallbackTyped DEF Inv, Typed
<1>3. GuardReport(v) \in Reports /\ Passed(12, GuardReport(v), journal, cleared')
  BY GuardVetted DEF RunGuard
<1>4. QED
  BY <1>1, <1>2, <1>3, StepComputes DEF RunGuard, Inv, Typed

\* Only the snapshots change.
LEMMA StepQuotes ==
    ASSUME Inv,
           (\E s \in Allowed : ReceiveQuote(s)) \/ SaveSnapshots \/ Tick
    PROVE  Inv'
<1>1. UNCHANGED <<journal, switch, file, run, cleared>>
  BY DEF ReceiveQuote, SaveSnapshots, Tick
<1>2. memory' \in [Allowed -> Snapshots] /\ store' \in [Allowed -> Snapshots]
  <2>1. ASSUME NEW s \in Allowed, ReceiveQuote(s)
        PROVE  memory' \in [Allowed -> Snapshots] /\ store' \in [Allowed -> Snapshots]
    <3>0. memory[s] \in Snapshots /\ 0 \in Ages
      BY BoundsAssumption DEF Inv, Typed, Old, Ages
    <3>1. ASSUME NEW t \in Snapshots, NEW q \in Books PROVE BookUpdate(t, q) \in Snapshots
      <4>1. q \in [bid : Int, ask : Int]
        BY QuotesAssumption
      <4>2. QED
        BY <3>0, <4>1 DEF BookUpdate, Snapshots
    <3>2. ASSUME NEW t \in Snapshots, NEW l \in Lasts PROVE LastUpdate(t, l) \in Snapshots
      <4>1. l \in Int
        BY QuotesAssumption
      <4>2. QED
        BY <3>0, <4>1 DEF LastUpdate, Snapshots
    <3>3. QED
      BY <2>1, <3>0, <3>1, <3>2 DEF ReceiveQuote, Inv, Typed
  <2>2. CASE SaveSnapshots
    BY <2>2 DEF SaveSnapshots, Inv, Typed
  <2>3. CASE Tick
    <3>1. ASSUME NEW t \in Snapshots PROVE AgedSnapshot(t) \in Snapshots
      <4>1. \A a \in Ages : Aged(a) \in Ages
        BY BoundsAssumption DEF Aged, Old, Ages, NoTime
      <4>2. QED
        BY <4>1 DEF AgedSnapshot, Snapshots
    <3>2. QED
      BY <2>3, <3>1 DEF Tick, Inv, Typed
  <2>4. QED
    BY <2>1, <2>2, <2>3
<1>3. QED
  BY <1>1, <1>2 DEF Inv, Typed, FinitelyMany

\* A file is emptied, filled with the report of its command, or the command
\* dies.
LEMMA StepFile ==
    ASSUME Inv, NEW p \in Phases, Truncate(p) \/ WriteReport(p) \/ Die(p)
    PROVE  Inv'
<1>1. UNCHANGED <<journal, switch, store, cleared>>
  BY DEF Truncate, WriteReport, Die
<1>2. memory' \in [Allowed -> Snapshots]
  <2>1. Forgotten(p) \in [Allowed -> Snapshots]
    BY BoundsAssumption DEF Forgotten, NoSnapshot, NoTime, Snapshots, Old, Ages, Inv, Typed
  <2>2. QED
    BY <2>1 DEF Truncate, WriteReport, Die, Inv, Typed
<1>3. Unusable \in Reports /\ \A q : Passed(q, Unusable, journal, cleared)
  BY UnusablePassed
<1>4. file' \in [Phases -> Reports] /\ run' \in [Phases -> Runs]
  <2>1. CASE Truncate(p)
    BY <1>3, <2>1 DEF Truncate, Inv, Typed, Runs
  <2>2. CASE WriteReport(p)
    BY <1>3, <2>2 DEF WriteReport, Inv, Typed, Runs, Idle
  <2>3. CASE Die(p)
    BY <1>3, <2>3 DEF Die, Inv, Typed, Runs, Idle
  <2>4. QED
    BY <2>1, <2>2, <2>3
<1>5. ASSUME NEW q \in Phases
      PROVE  /\ file'[q] \in {file[q], run[q].report, Unusable}
             /\ run'[q].report \in {run[q].report, Unusable}
  <2>1. CASE Truncate(p)
    BY <2>1 DEF Truncate, Inv, Typed, Runs
  <2>2. CASE WriteReport(p)
    BY <2>2 DEF WriteReport, Inv, Typed, Runs, Idle
  <2>3. CASE Die(p)
    BY <2>3 DEF Die, Inv, Typed, Runs, Idle
  <2>4. QED
    BY <2>1, <2>2, <2>3
<1>6. Chain(file', run', journal', cleared')
  BY <1>1, <1>3, <1>5 DEF Inv, Chain
<1>7. Typed'
  BY <1>1, <1>2, <1>4 DEF Inv, Typed
<1>8. QED
  BY <1>1, <1>6, <1>7 DEF Inv, FinitelyMany

\* A row is written, or its delivery noted.
LEMMA StepJournal ==
    ASSUME Inv, NEW c \in Candidates, RecordCandidate(c) \/ RecordDelivery(c)
    PROVE  Inv'
<1>1. UNCHANGED <<switch, file, run, store, memory, cleared>>
  BY DEF RecordCandidate, RecordDelivery
<1>2. \E state \in {"recorded", "sent"} : journal' = [journal EXCEPT ![c] = state]
  BY DEF RecordCandidate, RecordDelivery
<1>3. journal[c] # "sent"
  BY DEF RecordCandidate, RecordDelivery
<1>4. \A d \in Candidates : journal[d] = "sent" => journal'[d] = "sent"
  BY <1>2, <1>3 DEF Inv, Typed
<1>5. FinitelyMany(journal')
  <2>1. {d \in Candidates : journal'[d] # "absent"}
           = {d \in Candidates : journal[d] # "absent"} \cup {c}
    BY <1>2 DEF Inv, Typed
  <2>2. QED
    BY <2>1, FS_AddElement DEF Inv, FinitelyMany
<1>6. Typed'
  BY <1>1, <1>2 DEF Inv, Typed
<1>7. Chain(file', run', journal', cleared')
  <2>1. \A q \in Phases : file[q] \in Reports /\ run[q].report \in Reports
    BY DEF Inv, Typed, Runs
  <2>2. QED
    BY <1>1, <1>4, <2>1, PassedForGood DEF Inv, Chain
<1>8. QED
  BY <1>5, <1>6, <1>7 DEF Inv

LEMMA InvNext == Inv /\ [Next]_vars => Inv'
<1> SUFFICES ASSUME Inv, [Next]_vars PROVE Inv'
  OBVIOUS
<1>1. CASE RunReadiness
  BY <1>1, StepReadiness
<1>2. CASE RunDryRun
  BY <1>2, StepDryRun
<1>3. CASE RunSandbox
  BY <1>3, StepSandbox
<1>4. CASE RunPreview
  BY <1>4, StepPreview
<1>5. CASE RunSafety
  BY <1>5, StepSafety
<1>6. CASE LoadSnapshots
  BY <1>6, StepLoad
<1>7. CASE RunGuard
  BY <1>7, StepGuard
<1>8. CASE (\E s \in Allowed : ReceiveQuote(s)) \/ SaveSnapshots \/ Tick
  BY <1>8, StepQuotes
<1>9. CASE \E p \in Phases : Truncate(p) \/ WriteReport(p) \/ Die(p)
  BY <1>9, StepFile
<1>10. CASE \E c \in Candidates : RecordCandidate(c) \/ RecordDelivery(c)
  BY <1>10, StepJournal
<1>11. CASE WriteSwitch
  BY <1>11 DEF WriteSwitch, Inv, Typed, FinitelyMany
<1>12. CASE UNCHANGED vars
  BY <1>12 DEF vars, Inv, Typed, FinitelyMany
<1>13. QED
  BY <1>1, <1>2, <1>3, <1>4, <1>5, <1>6, <1>7, <1>8, <1>9, <1>10, <1>11, <1>12 DEF Next

-----------------------------------------------------------------------------
(* The history of quotes: a snapshot whose parts are young enough to count *)
(* says what was quoted at those ages, in the file as in the memory of a   *)
(* running guard.                                                          *)

Histories ==
    [books : SUBSET [bid : Int, ask : Int, age : 0..MaxSnapshotAge],
     lasts : SUBSET [last : Int, age : 0..MaxSnapshotAge]]

TracedTo(x, h) ==
    /\ x.bookAge \in 0..MaxSnapshotAge =>
           [bid |-> x.bid, ask |-> x.ask, age |-> x.bookAge] \in h.books
    /\ x.lastAge \in 0..MaxSnapshotAge => [last |-> x.last, age |-> x.lastAge] \in h.lasts

Traced ==
    /\ heard \in [Allowed -> Histories]
    /\ \A s \in Allowed : TracedTo(store[s], heard[s]) /\ TracedTo(memory[s], heard[s])

LEMMA QuotesKept ==
    /\ \A q, age : q.bid \in Int /\ q.ask \in Int /\ age \in Nat =>
           /\ BooksOf(q, age) \subseteq [bid : Int, ask : Int, age : 0..MaxSnapshotAge]
           /\ age <= MaxSnapshotAge =>
                  [bid |-> q.bid, ask |-> q.ask, age |-> age] \in BooksOf(q, age)
    /\ \A l \in Int, age \in Nat :
           /\ LastsOf(l, age) \subseteq [last : Int, age : 0..MaxSnapshotAge]
           /\ age <= MaxSnapshotAge => [last |-> l, age |-> age] \in LastsOf(l, age)
  BY BoundsAssumption DEF BooksOf, LastsOf

\* Without a snapshot there is nothing to trace, and more quotes do no harm.
LEMMA TracedMore ==
    ASSUME NEW x, NEW h \in Histories, NEW h2 \in Histories, TracedTo(x, h),
           h.books \subseteq h2.books, h.lasts \subseteq h2.lasts
    PROVE  TracedTo(x, h2)
  BY DEF TracedTo

LEMMA TracedLater ==
    ASSUME NEW x \in Snapshots, NEW h \in Histories
    PROVE  /\ Later(h) \in Histories
           /\ TracedTo(x, h) => TracedTo(AgedSnapshot(x), Later(h))
<1>1. Later(h) \in Histories
  <2>1. ASSUME NEW b \in h.books
        PROVE  BooksOf(b, b.age + 1) \subseteq [bid : Int, ask : Int, age : 0..MaxSnapshotAge]
    <3>1. b \in [bid : Int, ask : Int, age : 0..MaxSnapshotAge]
      BY DEF Histories
    <3>2. b.bid \in Int /\ b.ask \in Int /\ b.age + 1 \in Nat
      BY <3>1, BoundsAssumption
    <3>3. QED
      BY <3>2, QuotesKept
  <2>2. ASSUME NEW y \in h.lasts
        PROVE  LastsOf(y.last, y.age + 1) \subseteq [last : Int, age : 0..MaxSnapshotAge]
    <3>1. y \in [last : Int, age : 0..MaxSnapshotAge]
      BY DEF Histories
    <3>2. y.last \in Int /\ y.age + 1 \in Nat
      BY <3>1, BoundsAssumption
    <3>3. QED
      BY <3>2, QuotesKept
  <2>3. QED
    BY <2>1, <2>2 DEF Later, Histories
<1>2. ASSUME TracedTo(x, h) PROVE TracedTo(AgedSnapshot(x), Later(h))
  <2> DEFINE y == AgedSnapshot(x)
  <2>1. /\ y.bid = x.bid /\ y.ask = x.ask /\ y.last = x.last
        /\ y.bookAge = Aged(x.bookAge) /\ y.lastAge = Aged(x.lastAge)
    BY DEF AgedSnapshot, Snapshots
  <2>2. \A a \in Ages : Aged(a) \in 0..MaxSnapshotAge =>
                           a \in 0..MaxSnapshotAge /\ Aged(a) = a + 1
    BY BoundsAssumption DEF Aged, Ages, NoTime, Old
  <2>3. x.bookAge \in Ages /\ x.lastAge \in Ages /\ x.bid \in Int /\ x.ask \in Int /\ x.last \in Int
    BY DEF Snapshots
  <2> HIDE DEF y
  <2>4. ASSUME y.bookAge \in 0..MaxSnapshotAge
        PROVE  [bid |-> y.bid, ask |-> y.ask, age |-> y.bookAge] \in Later(h).books
    <3> DEFINE b == [bid |-> x.bid, ask |-> x.ask, age |-> x.bookAge]
    <3>1. x.bookAge \in 0..MaxSnapshotAge /\ y.bookAge = x.bookAge + 1
      BY <2>1, <2>2, <2>3, <2>4
    <3>2. b \in h.books
      BY <1>2, <3>1 DEF TracedTo
    <3>3. [bid |-> b.bid, ask |-> b.ask, age |-> b.age + 1] \in BooksOf(b, b.age + 1)
      BY <2>3, <2>4, <3>1, QuotesKept, BoundsAssumption
    <3>4. QED
      BY <2>1, <3>1, <3>2, <3>3 DEF Later
  <2>5. ASSUME y.lastAge \in 0..MaxSnapshotAge
        PROVE  [last |-> y.last, age |-> y.lastAge] \in Later(h).lasts
    <3> DEFINE l == [last |-> x.last, age |-> x.lastAge]
    <3>1. x.lastAge \in 0..MaxSnapshotAge /\ y.lastAge = x.lastAge + 1
      BY <2>1, <2>2, <2>3, <2>5
    <3>2. l \in h.lasts
      BY <1>2, <3>1 DEF TracedTo
    <3>3. [last |-> l.last, age |-> l.age + 1] \in LastsOf(l.last, l.age + 1)
      BY <2>3, <2>5, <3>1, QuotesKept, BoundsAssumption
    <3>4. QED
      BY <2>1, <3>1, <3>2, <3>3 DEF Later
  <2>6. QED
    BY <2>4, <2>5 DEF TracedTo, y
<1>3. QED
  BY <1>1, <1>2

\* A ticker is on record with the age its snapshot gives.
LEMMA TracedTicker ==
    ASSUME NEW q \in Tickers, NEW h \in Histories
    PROVE  /\ Heard(h, q) \in Histories
           /\ h.books \subseteq Heard(h, q).books /\ h.lasts \subseteq Heard(h, q).lasts
           /\ TracedTo(TickerUpdate(q), Heard(h, q))
<1> DEFINE age == TickerAge(q)
           t == TickerUpdate(q)
<1>1. q.bid \in Int /\ q.ask \in Int /\ q.last \in Int /\ age \in Nat
  BY DEF Tickers, TickerAge
<1>2. /\ t.bid = q.bid /\ t.ask = q.ask /\ t.last = q.last
      /\ t.bookAge \in 0..MaxSnapshotAge => t.bookAge = age
      /\ t.lastAge \in 0..MaxSnapshotAge => t.lastAge = age
  BY BoundsAssumption DEF Tickers, TickerUpdate, TickerAge, Old, NoTime
<1> HIDE DEF age, t
<1>3. /\ BooksOf(q, age) \subseteq [bid : Int, ask : Int, age : 0..MaxSnapshotAge]
      /\ LastsOf(q.last, age) \subseteq [last : Int, age : 0..MaxSnapshotAge]
  BY <1>1, QuotesKept
<1>4. /\ Heard(h, q).books = h.books \cup BooksOf(q, age)
      /\ Heard(h, q).lasts = h.lasts \cup LastsOf(q.last, age)
  BY DEF Heard, age
<1>5. Heard(h, q) \in Histories
  BY <1>3 DEF Heard, Histories, age
<1>6. age <= MaxSnapshotAge =>
        /\ [bid |-> q.bid, ask |-> q.ask, age |-> age] \in BooksOf(q, age)
        /\ [last |-> q.last, age |-> age] \in LastsOf(q.last, age)
  BY <1>1, QuotesKept
<1>7. TracedTo(t, Heard(h, q))
  <2>1. t.bookAge \in 0..MaxSnapshotAge =>
          [bid |-> t.bid, ask |-> t.ask, age |-> t.bookAge] \in Heard(h, q).books
    BY <1>2, <1>4, <1>6, BoundsAssumption
  <2>2. t.lastAge \in 0..MaxSnapshotAge =>
          [last |-> t.last, age |-> t.lastAge] \in Heard(h, q).lasts
    BY <1>2, <1>4, <1>6, BoundsAssumption
  <2>3. QED
    BY <2>1, <2>2 DEF TracedTo
<1>8. QED
  BY <1>4, <1>5, <1>7 DEF t

LEMMA TracedInit == Init => Traced
  BY BoundsAssumption DEF Init, Traced, TracedTo, Histories, Nothing, NoSnapshot, NoTime

LEMMA TracedReceive ==
    ASSUME Inv, Traced, NEW s \in Allowed, ReceiveQuote(s)
    PROVE  Traced'
<1>1. memory[s] \in Snapshots /\ heard[s] \in Histories
      /\ TracedTo(memory[s], heard[s]) /\ TracedTo(store[s], heard[s])
  BY DEF Inv, Typed, Traced
<1>2. /\ \A r \in Allowed \ {s} : memory'[r] = memory[r] /\ heard'[r] = heard[r]
      /\ store' = store
  BY DEF ReceiveQuote, Inv, Typed, Traced
<1>3. CASE \E q \in Books : /\ memory' = [memory EXCEPT ![s] = BookUpdate(@, q)]
                             /\ heard' = [heard EXCEPT ![s].books = @ \cup BooksOf(q, 0)]
  <2>1. PICK q \in Books : /\ memory' = [memory EXCEPT ![s] = BookUpdate(@, q)]
                           /\ heard' = [heard EXCEPT ![s].books = @ \cup BooksOf(q, 0)]
    BY <1>3
  <2>2. q.bid \in Int /\ q.ask \in Int
    BY QuotesAssumption
  <2>3. /\ BooksOf(q, 0) \subseteq [bid : Int, ask : Int, age : 0..MaxSnapshotAge]
        /\ [bid |-> q.bid, ask |-> q.ask, age |-> 0] \in BooksOf(q, 0)
    BY <2>2, QuotesKept, BoundsAssumption
  <2>4. memory'[s] = BookUpdate(memory[s], q)
    BY <2>1 DEF Inv, Typed
  <2>5. heard'[s] = [heard[s] EXCEPT !.books = @ \cup BooksOf(q, 0)]
    BY <2>1 DEF Traced
  <2>6. /\ heard'[s].books = heard[s].books \cup BooksOf(q, 0)
        /\ heard'[s].lasts = heard[s].lasts
        /\ heard'[s] \in Histories
    BY <1>1, <2>3, <2>5 DEF Histories
  <2>7. heard' \in [Allowed -> Histories]
    BY <2>1, <2>6 DEF Traced
  <2>8. /\ memory'[s].bid = q.bid /\ memory'[s].ask = q.ask /\ memory'[s].bookAge = 0
        /\ memory'[s].last = memory[s].last /\ memory'[s].lastAge = memory[s].lastAge
    BY <1>1, <2>4 DEF BookUpdate, Snapshots
  <2>9. TracedTo(memory'[s], heard'[s]) /\ TracedTo(store'[s], heard'[s])
    BY <1>1, <1>2, <2>3, <2>6, <2>8 DEF TracedTo
  <2>10. QED
    BY <1>2, <2>7, <2>9 DEF Traced
<1>4. CASE \E l \in Lasts : /\ memory' = [memory EXCEPT ![s] = LastUpdate(@, l)]
                             /\ heard' = [heard EXCEPT ![s].lasts = @ \cup LastsOf(l, 0)]
  <2>1. PICK l \in Lasts : /\ memory' = [memory EXCEPT ![s] = LastUpdate(@, l)]
                           /\ heard' = [heard EXCEPT ![s].lasts = @ \cup LastsOf(l, 0)]
    BY <1>4
  <2>2. l \in Int
    BY QuotesAssumption
  <2>3. /\ LastsOf(l, 0) \subseteq [last : Int, age : 0..MaxSnapshotAge]
        /\ [last |-> l, age |-> 0] \in LastsOf(l, 0)
    BY <2>2, QuotesKept, BoundsAssumption
  <2>4. memory'[s] = LastUpdate(memory[s], l)
    BY <2>1 DEF Inv, Typed
  <2>5. heard'[s] = [heard[s] EXCEPT !.lasts = @ \cup LastsOf(l, 0)]
    BY <2>1 DEF Traced
  <2>6. /\ heard'[s].lasts = heard[s].lasts \cup LastsOf(l, 0)
        /\ heard'[s].books = heard[s].books
        /\ heard'[s] \in Histories
    BY <1>1, <2>3, <2>5 DEF Histories
  <2>7. heard' \in [Allowed -> Histories]
    BY <2>1, <2>6 DEF Traced
  <2>8. /\ memory'[s].last = l /\ memory'[s].lastAge = 0
        /\ memory'[s].bid = memory[s].bid /\ memory'[s].ask = memory[s].ask
        /\ memory'[s].bookAge = memory[s].bookAge
    BY <1>1, <2>4 DEF LastUpdate, Snapshots
  <2>9. TracedTo(memory'[s], heard'[s]) /\ TracedTo(store'[s], heard'[s])
    BY <1>1, <1>2, <2>3, <2>6, <2>8 DEF TracedTo
  <2>10. QED
    BY <1>2, <2>7, <2>9 DEF Traced
<1>5. QED
  BY <1>3, <1>4 DEF ReceiveQuote

LEMMA TracedGuard == Inv /\ Traced /\ RunGuard => Traced'
<1> SUFFICES ASSUME Inv, Traced, RunGuard PROVE Traced'
  OBVIOUS
<1> DEFINE symbols == {GuardSource[i].candidate.symbol : i \in DOMAIN GuardSource}
           refreshed(v) == {s \in symbols : NeedsFallback(s) /\ v.ticker # <<>>}
<1>1. PICK v \in Views :
        /\ memory' = [s \in Allowed |->
               IF s \in refreshed(v) THEN AfterFallback(s, v) ELSE memory[s]]
        /\ store' = IF refreshed(v) = {} THEN store ELSE memory'
        /\ heard' = [s \in Allowed |->
               IF s \in refreshed(v) THEN Heard(heard[s], v.ticker[1]) ELSE heard[s]]
  BY DEF RunGuard
<1>2. ASSUME NEW s \in Allowed
      PROVE  /\ heard'[s] \in Histories
             /\ TracedTo(memory'[s], heard'[s]) /\ TracedTo(store'[s], heard'[s])
  <2>1. /\ heard[s] \in Histories
        /\ TracedTo(memory[s], heard[s]) /\ TracedTo(store[s], heard[s])
    BY DEF Traced
  <2>2. CASE s \in refreshed(v)
    <3>1. NeedsFallback(s) /\ v.ticker # <<>>
      BY <2>2
    <3>2. v.ticker[1] \in Tickers /\ AfterFallback(s, v) = TickerUpdate(v.ticker[1])
      BY <3>1, TickerTyped DEF AfterFallback
    <3>3. refreshed(v) # {}
      BY <2>2
    <3> HIDE DEF refreshed
    <3>4. /\ memory'[s] = TickerUpdate(v.ticker[1]) /\ store'[s] = memory'[s]
          /\ heard'[s] = Heard(heard[s], v.ticker[1])
      BY <1>1, <2>2, <3>2, <3>3
    <3>5. QED
      BY <2>1, <3>2, <3>4, TracedTicker
  <2>3. CASE s \notin refreshed(v)
    <3> HIDE DEF refreshed
    <3>1. memory'[s] = memory[s] /\ heard'[s] = heard[s] /\ store'[s] \in {store[s], memory[s]}
      BY <1>1, <2>3
    <3>2. QED
      BY <2>1, <3>1
  <2>4. QED
    BY <2>2, <2>3
<1>3. heard' \in [Allowed -> Histories]
  <2> HIDE DEF refreshed
  <2>1. QED
    BY <1>1, <1>2
<1>4. QED
  BY <1>2, <1>3 DEF Traced

LEMMA TracedNext == Inv /\ Traced /\ [Next]_vars => Traced'
<1> SUFFICES ASSUME Inv, Traced, [Next]_vars PROVE Traced'
  OBVIOUS
<1>1. TracedTo(NoSnapshot, Nothing) /\ \A h : TracedTo(NoSnapshot, h)
  BY BoundsAssumption DEF TracedTo, NoSnapshot, NoTime
<1>2. CASE \E s \in Allowed : ReceiveQuote(s)
  BY <1>2, TracedReceive
<1>3. CASE RunGuard
  BY <1>3, TracedGuard
<1>4. CASE Tick
  <2>1. ASSUME NEW s \in Allowed
        PROVE  /\ Later(heard[s]) \in Histories
               /\ TracedTo(AgedSnapshot(store[s]), Later(heard[s]))
               /\ TracedTo(AgedSnapshot(memory[s]), Later(heard[s]))
    <3>1. /\ store[s] \in Snapshots /\ memory[s] \in Snapshots /\ heard[s] \in Histories
          /\ TracedTo(store[s], heard[s]) /\ TracedTo(memory[s], heard[s])
      BY DEF Inv, Typed, Traced
    <3>2. QED
      BY <3>1, TracedLater
  <2>2. QED
    BY <1>4, <2>1 DEF Tick, Traced
<1>5. CASE LoadSnapshots \/ SaveSnapshots
  BY <1>5 DEF LoadSnapshots, SaveSnapshots, Traced
<1>6. CASE \E p \in Phases : Truncate(p) \/ WriteReport(p) \/ Die(p)
  <2>1. heard' = heard /\ store' = store
        /\ (memory' = memory \/ memory' = [s \in Allowed |-> NoSnapshot])
    BY <1>6 DEF Truncate, WriteReport, Die, Forgotten
  <2>2. QED
    BY <1>1, <2>1 DEF Traced
<1>7. CASE UNCHANGED <<store, memory, heard>>
  BY <1>7 DEF Traced
<1>8. QED
  BY <1>2, <1>3, <1>4, <1>5, <1>6, <1>7
  DEF Next, vars, RunReadiness, RunDryRun, RunSandbox, RunPreview, RunSafety,
      RecordCandidate, RecordDelivery, WriteSwitch

-----------------------------------------------------------------------------
(* What follows                                                            *)

LEMMA InvImpliesSound == Inv /\ Traced => ReportsSound
<1> SUFFICES ASSUME Inv, Traced PROVE ReportsSound
  OBVIOUS
<1>1. \A p \in Phases : file[p] \in Reports /\ run[p] \in Runs /\ run[p].report \in Reports
  BY DEF Inv, Typed, Runs
<1>2. ASSUME NEW r \in Reports
      PROVE  /\ r.ready \in BOOLEAN /\ (~r.ready => r.items = <<>>)
             /\ \A i \in DOMAIN r.items : r.items[i].candidate \in Candidates
  <2>1. r.items \in Seq(ItemType) /\ r.ready \in BOOLEAN /\ (~r.ready => r.items = <<>>)
    BY DEF Reports, Items
  <2>2. \A i \in DOMAIN r.items : r.items[i] \in ItemType
    BY <2>1
  <2>3. QED
    BY <2>1, <2>2 DEF ItemType
<1>3. TypeOK
  <2>1. \A s \in Allowed : {store[s].bookAge, store[s].lastAge,
                             memory[s].bookAge, memory[s].lastAge} \subseteq {NoTime} \cup 0..Old
    BY DEF Inv, Typed, Snapshots, Ages
  <2>2. \A p \in Phases : run[p].step \in {"idle", "collecting", "computed", "writing"}
    BY <1>1 DEF Runs
  <2>3. DOMAIN file = Phases /\ DOMAIN run = Phases
    BY DEF Inv, Typed
  <2>4. \A s \in Allowed : \A q \in heard[s].books \cup heard[s].lasts :
            q.age \in 0..MaxSnapshotAge
    BY DEF Traced, Histories
  <2>5. QED
    BY <1>1, <1>2, <2>1, <2>2, <2>3, <2>4 DEF TypeOK, Inv, Typed
<1>4. GuardReadyCleared
  <2> SUFFICES ASSUME NEW r \in {file[12], run[12].report}, r.ready
               PROVE  /\ r.items # <<>>
                      /\ \A i \in DOMAIN r.items :
                          LET c == r.items[i].candidate
                          IN  /\ r.items[i].state = "final_guard_ready"
                              /\ journal[c] = "sent" /\ c \in cleared
                              /\ c.side = "BUY" /\ c.symbol \in Allowed /\ IntentBlocks(c) = {}
                              /\ \A j \in DOMAIN r.items : r.items[j].candidate = c => j = i
    BY DEF GuardReadyCleared
  <2>1. Passed(12, r, journal, cleared)
    BY DEF Inv, Chain
  <2>2. /\ Reconciled(r.items) /\ r.items # <<>>
        /\ \A i \in DOMAIN r.items : Vetted(12, r.items[i], journal, cleared)
    BY <2>1 DEF Passed
  <2>3. ASSUME NEW i \in DOMAIN r.items
        PROVE  LET c == r.items[i].candidate
               IN  /\ r.items[i].state = "final_guard_ready"
                   /\ journal[c] = "sent" /\ c \in cleared
                   /\ c.side = "BUY" /\ c.symbol \in Allowed /\ IntentBlocks(c) = {}
    <3>1. Vetted(12, r.items[i], journal, cleared)
      BY <2>2
    <3>2. 12 >= 9 /\ 12 >= 10
      OBVIOUS
    <3>3. QED
      BY <3>1, <3>2 DEF Vetted
  <2>4. \A i, j \in DOMAIN r.items : r.items[j].candidate = r.items[i].candidate => j = i
    BY <2>2 DEF Reconciled
  <2>5. QED
    BY <2>2, <2>3, <2>4
<1>5. QED
  BY <1>3, <1>4 DEF ReportsSound

\* Whatever the order in which the phases run, overlap and die, and however
\* old the files they read: a ready report of the last phase holds only
\* candidates that were delivered, bought, allowed, within the sizing limits
\* and executed by a run that found the kill switch off, each once.
THEOREM ReportsAlwaysSound == Spec => []ReportsSound
<1>1. QED
  BY InvInit, InvNext, TracedInit, TracedNext, InvImpliesSound, PTL DEF Spec

LEMMA StepFresh ==
    ASSUME Inv, Traced, Traced', [Next]_vars,
           run[12].step = "collecting", run'[12].step = "computed",
           run'[12].report.ready,
           NEW i \in DOMAIN run'[12].report.items
    PROVE  LET s == run'[12].report.items[i].candidate.symbol
           IN  /\ Quoted(memory'[s], heard'[s])
               /\ SpreadOf(memory'[s]) # <<>> /\ memory'[s].last > 0
               /\ memory'[s] # memory[s] => store'[s] = memory'[s]
<1>1. RunGuard
  <2>1. \A p \in Phases : run[p] \in Runs
    BY DEF Inv, Typed
  <2>2. run'[12] # run[12]
    OBVIOUS
  <2>3. ~RunReadiness /\ ~RunDryRun /\ ~RunSandbox /\ ~RunPreview /\ ~RunSafety
    BY <2>2 DEF RunReadiness, RunDryRun, RunSandbox, RunPreview, RunSafety, Computes, Inv, Typed
  <2>4. ~LoadSnapshots
    BY DEF LoadSnapshots, Starts
  <2>5. ~SaveSnapshots /\ ~Tick /\ ~WriteSwitch /\ ~UNCHANGED vars
    BY <2>2 DEF SaveSnapshots, Tick, WriteSwitch, vars
  <2>6. ~ \E s \in Allowed : ReceiveQuote(s)
    BY <2>2 DEF ReceiveQuote
  <2>7. ~ \E c \in Candidates : RecordCandidate(c) \/ RecordDelivery(c)
    BY <2>2 DEF RecordCandidate, RecordDelivery
  <2>8. ASSUME NEW p \in Phases, Truncate(p) \/ WriteReport(p) \/ Die(p) PROVE FALSE
    BY <2>8 DEF Truncate, WriteReport, Die, Inv, Typed, Runs, Idle
  <2>9. QED
    BY <2>3, <2>4, <2>5, <2>6, <2>7, <2>8 DEF Next
<1> DEFINE symbols == {GuardSource[k].candidate.symbol : k \in DOMAIN GuardSource}
           refreshed(v) == {s \in symbols : NeedsFallback(s) /\ v.ticker # <<>>}
<1>2. PICK v \in Views :
        /\ Computes(12, GuardReport(v))
        /\ memory' = [s \in Allowed |->
               IF s \in refreshed(v) THEN AfterFallback(s, v) ELSE memory[s]]
        /\ store' = IF refreshed(v) = {} THEN store ELSE memory'
  BY <1>1 DEF RunGuard
<1>3. run'[12].report = GuardReport(v)
  BY <1>2 DEF Computes, Inv, Typed
<1>4. /\ i \in DOMAIN GuardSource
      /\ run'[12].report.items[i].candidate = GuardSource[i].candidate
      /\ CheckReady(GuardSource[i].candidate, v)
      /\ GuardSource[i].candidate.symbol \in Allowed
  BY <1>3, GuardVetted
<1> DEFINE s == GuardSource[i].candidate.symbol
<1>5. s \in Allowed /\ s \in symbols
  BY <1>4
<1>6. /\ NeedsFallback(s) => v.ticker # <<>>
      /\ SnapshotReady(AfterFallback(s, v))
  BY <1>4 DEF CheckReady
<1>7. memory'[s] = AfterFallback(s, v)
  <2>1. CASE NeedsFallback(s)
    <3>1. s \in refreshed(v)
      BY <1>5, <1>6, <2>1
    <3> HIDE DEF refreshed, s
    <3>2. QED
      BY <1>2, <1>5, <3>1
  <2>2. CASE ~NeedsFallback(s)
    <3>1. AfterFallback(s, v) = memory[s]
      BY <2>2 DEF AfterFallback
    <3> HIDE DEF refreshed, s
    <3>2. QED
      BY <1>2, <1>5, <3>1
  <2>3. QED
    BY <2>1, <2>2
<1>8. SnapshotReady(memory'[s])
  BY <1>6, <1>7
<1>9. ASSUME memory'[s] # memory[s] PROVE store'[s] = memory'[s]
  <2>1. NeedsFallback(s) /\ v.ticker # <<>>
    BY <1>7, <1>9 DEF AfterFallback
  <2>2. refreshed(v) # {}
    BY <1>5, <2>1
  <2>3. QED
    BY <1>2, <2>2
<1>10. run'[12].report.items[i].candidate.symbol = s
  BY <1>4
<1> HIDE DEF s
<1>11. Quoted(memory'[s], heard'[s])
  <2>1. TracedTo(memory'[s], heard'[s])
    BY <1>5 DEF Traced
  <2>2. QED
    BY <1>8, <2>1 DEF TracedTo, SnapshotReady, Quoted
<1>12. SpreadOf(memory'[s]) # <<>> /\ memory'[s].last > 0
  BY <1>8 DEF SnapshotReady
<1>13. QED
  BY <1>9, <1>10, <1>11, <1>12

\* A guard becomes ready only on tops of book and last prices quoted within the
\* limit, however they came into its snapshots; a ticker counts from the time
\* it gives, what gives none from its arrival.
THEOREM GuardAlwaysFresh == Spec => GuardReadyIsFresh
<1>1. Inv /\ Traced /\ Traced' /\ [Next]_vars =>
        [ /\ run[12].step = "collecting" /\ run'[12].step = "computed"
          /\ run'[12].report.ready
          => \A i \in DOMAIN run'[12].report.items :
              LET s == run'[12].report.items[i].candidate.symbol
              IN  /\ Quoted(memory'[s], heard'[s])
                  /\ SpreadOf(memory'[s]) # <<>> /\ memory'[s].last > 0
                  /\ memory'[s] # memory[s] => store'[s] = memory'[s] ]_vars
  BY StepFresh
<1>2. QED
  BY <1>1, InvInit, InvNext, TracedInit, TracedNext, PTL DEF Spec, GuardReadyIsFresh
=============================================================================
