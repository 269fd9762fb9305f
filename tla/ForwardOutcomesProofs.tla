------------------------- MODULE ForwardOutcomesProofs -------------------------
(***************************************************************************)
(* Proofs about what is made of prices as they come.                       *)
(*                                                                         *)
(* ForwardOutcomes: types and, while the history limit has room for every  *)
(* candle since the candidate, the truth of every label and that no later  *)
(* run would label a settled candidate otherwise.  LiveQuotes, in the second half: the order of the bars,  *)
(* the survival of what was logged, the finality of what was served.       *)
(*                                                                         *)
(* A label is written from the candles of one run, and promises something  *)
(* of all candles there will be.  What a closed label names only grows     *)
(* (TrueOf); what it says of a candle as a whole, and that an entry was    *)
(* not touched, holds only of candles that are complete (WholeOf), which   *)
(* all are when the tracker runs between candles.                          *)
(***************************************************************************)
EXTENDS ForwardOutcomes, LiveQuotes, CountingLemmas

-----------------------------------------------------------------------------
(* The invariant                                                           *)

RowTyped(row) ==
    /\ row.status \in Statuses /\ row.reason \in Reasons
    /\ row.observed \in 0..MaxBars
    /\ row.fill \in 0..MaxBars /\ row.exit \in 0..MaxBars
    /\ row.exit > 0 <=> row.status = "closed"

Typed ==
    /\ mode \in ModeChoices /\ hasRisk \in RiskChoices
    /\ policy \in Policies /\ writeAll \in WriteAllChoices /\ midCandle \in MidCandleChoices
    /\ bars \in Seq(Candle) /\ Len(bars) <= MaxBars
    /\ growing \in BOOLEAN /\ (growing => bars # <<>>) /\ provider \in BOOLEAN
    /\ latest = <<>> \/ \E row : latest = <<row>> /\ RowTyped(row)

\* A closed label names a fill and an exit, with nothing hit between, and the
\* exit has the level of its reason.
TrueOf(row, candles, entryMode) ==
    row.status = "closed" =>
        /\ row.fill \in 1..row.exit /\ row.exit \in 1..Len(candles)
        /\ IF entryMode = "MARKET" THEN row.fill = 1
           ELSE /\ "entry" \in candles[row.fill].range
                /\ \A i \in 1..(row.fill - 1) : "entry" \notin candles[i].range
        /\ \A i \in row.fill..(row.exit - 1) :
              "stop" \notin candles[i].range /\ "target" \notin candles[i].range
        /\ row.reason = "time_stop" => row.exit = row.fill + HoldBars
        /\ row.reason \in {"stop_loss", "ambiguous_stop_first", "ambiguous_tp_sl"} =>
              "stop" \in candles[row.exit].range
        /\ row.reason \in {"take_profit", "ambiguous_target_first", "ambiguous_tp_sl"} =>
              "target" \in candles[row.exit].range

\* How many candles are complete.
Complete(candles, open) == IF open THEN Len(candles) - 1 ELSE Len(candles)

\* A time stop, and a missed entry, are about complete candles alone.
WholeOf(row, candles, done) ==
    /\ row.status = "closed" /\ row.reason = "time_stop" =>
          /\ row.exit <= done
          /\ row.r = <<candles[row.exit].close>>
          /\ "stop" \notin candles[row.exit].range
          /\ "target" \notin candles[row.exit].range
    /\ row.status = "entry_not_filled" =>
          /\ ExpiryBars <= done
          /\ \A i \in 1..ExpiryBars : "entry" \notin candles[i].range

GoodRow(row, candles, open, entryMode, mid) ==
    /\ TrueOf(row, candles, entryMode)
    /\ ~mid => WholeOf(row, candles, Complete(candles, open))

Inv ==
    /\ Typed
    /\ \A row : latest = <<row>> => GoodRow(row, bars, growing, mode, midCandle)

-----------------------------------------------------------------------------
(* What a label is made of                                                 *)

LEMMA LeastIsLeast ==
    ASSUME NEW S, S \subseteq Nat, S # {}
    PROVE  Min(S) \in S /\ \A n \in S : Min(S) <= n
BY LeastNatural DEF Min

LEMMA LesserOfTwo ==
    ASSUME NEW a \in Nat, NEW b \in Nat
    PROVE  Min({a, b}) \in Nat /\ Min({a, b}) \in {a, b} /\ Min({a, b}) <= a /\ Min({a, b}) <= b
<1>1. {a, b} \subseteq Nat /\ {a, b} # {}
  OBVIOUS
<1>2. QED
  BY <1>1, LeastIsLeast

\* The window of the newest candles, and where it starts.
LEMMA WindowParts ==
    ASSUME bars \in Seq(Candle)
    PROVE  /\ Dropped \in Nat /\ Dropped <= Len(bars) /\ Len(bars) \in Nat
           /\ Future \in Seq(Candle) /\ Len(Future) = Len(bars) - Dropped
           /\ Len(bars) <= HistoryLimit => Dropped = 0 /\ Future = bars
<1> DEFINE excess == Len(bars) - HistoryLimit
<1>1. Len(bars) \in Nat /\ excess \in Int /\ excess <= Len(bars)
  BY OutcomeAssumption
<1>2. Dropped = Max({0, excess})
  BY DEF Dropped
<1>3. Len(bars) <= HistoryLimit => excess <= 0
  BY <1>1, OutcomeAssumption
<1> HIDE DEF excess
<1>4. Max({0, excess}) \in {0, excess} /\ \A n \in {0, excess} : Max({0, excess}) >= n
  <2>1. \E m \in {0, excess} : \A n \in {0, excess} : m >= n
    BY <1>1
  <2>2. QED
    BY <2>1 DEF Max
<1>5. Dropped \in Nat /\ Dropped <= Len(bars) /\ (Len(bars) <= HistoryLimit => Dropped = 0)
  BY <1>1, <1>2, <1>3, <1>4
<1>6. Future \in Seq(Candle) /\ Len(Future) = Len(bars) - Dropped
  <2> DEFINE from == Dropped + 1
  <2>1. from \in 1..(Len(bars) + 1)
    BY <1>1, <1>5
  <2>2. Future = SubSeq(bars, from, Len(bars))
    BY DEF Future
  <2>3. Len(bars) - from + 1 = Len(bars) - Dropped
    BY <1>1, <1>5
  <2> HIDE DEF from
  <2>4. /\ SubSeq(bars, from, Len(bars)) \in Seq(Candle)
        /\ Len(SubSeq(bars, from, Len(bars))) = Len(bars) - from + 1
    BY <1>1, <2>1
  <2>5. QED
    BY <2>2, <2>3, <2>4
<1>7. ASSUME Dropped = 0 PROVE Future = bars
  <2>1. Future = SubSeq(bars, 1, Len(bars))
    BY <1>7 DEF Future
  <2>2. SubSeq(bars, 1, Len(bars)) = bars
    OBVIOUS
  <2>3. QED
    BY <2>1, <2>2
<1>8. QED
  BY <1>1, <1>5, <1>6, <1>7

LEMMA ExpiryPositive == ExpiryBars \in Nat \ {0}
BY OutcomeAssumption DEF ExpiryBars

Untouched(f, from, to) ==
    \A i \in from..to : "stop" \notin f[i].range /\ "target" \notin f[i].range

\* The entry is at the first candle, or at the first that touches it.
FilledAt(f, fill, entryMode) ==
    /\ fill \in 1..Len(f)
    /\ IF entryMode = "MARKET" THEN fill = 1
       ELSE /\ "entry" \in f[fill].range
            /\ \A i \in 1..(fill - 1) : "entry" \notin f[i].range

LEMMA FillFound ==
    ASSUME NEW f \in Seq(Candle), f # <<>>, FillPositions(f) # {}
    PROVE  FilledAt(f, Min(FillPositions(f)), mode)
<1>1. Len(f) \in Nat \ {0}
  OBVIOUS
<1>2. CASE mode = "MARKET"
  <2>1. FillPositions(f) = {1}
    BY <1>2 DEF FillPositions
  <2>2. Min({1}) \in {1}
    BY LeastIsLeast, {1} \subseteq Nat
  <2>3. QED
    BY <1>1, <1>2, <2>1, <2>2 DEF FilledAt
<1>3. CASE mode # "MARKET"
  <2> DEFINE limit == Min({Len(f), ExpiryBars})
             S == FillPositions(f)
  <2>1. limit \in Nat /\ limit <= Len(f)
    BY <1>1, ExpiryPositive, LesserOfTwo
  <2>2. S = {i \in 1..limit : f[i].range \cap {"entry"} # {}}
    BY <1>3 DEF FillPositions, Touching
  <2> HIDE DEF limit
  <2>3. S \subseteq Nat
    BY <2>1, <2>2
  <2> HIDE DEF S
  <2>4. Min(S) \in S /\ \A n \in S : Min(S) <= n
    <3>1. S # {}
      BY DEF S
    <3>2. QED
      BY <2>3, <3>1, LeastIsLeast
  <2> DEFINE k == Min(S)
  <2>5. k \in 1..limit /\ "entry" \in f[k].range
    BY <2>2, <2>4
  <2>6. ASSUME NEW i \in 1..(k - 1) PROVE "entry" \notin f[i].range
    <3>1. i \in 1..limit /\ ~(k <= i)
      BY <2>1, <2>5
    <3>2. i \notin S
      BY <2>4, <3>1
    <3>3. QED
      BY <2>2, <3>1, <3>2
  <2> HIDE DEF k
  <2>7. k \in 1..Len(f)
    BY <1>1, <2>1, <2>5
  <2>8. FilledAt(f, k, mode)
    BY <1>3, <2>5, <2>6, <2>7 DEF FilledAt
  <2>9. QED
    BY <2>8 DEF k, S
<1>4. QED
  BY <1>2, <1>3

\* How a filled candidate is closed.
Exited(f, fill, exit, reason, r) ==
    /\ exit \in fill..Len(f) /\ Untouched(f, fill, exit - 1)
    /\ reason \in Reasons
    /\ reason = "time_stop" =>
          exit = fill + HoldBars /\ r = <<f[exit].close>> /\ Untouched(f, exit, exit)
    /\ reason \in {"stop_loss", "ambiguous_stop_first", "ambiguous_tp_sl"} =>
          "stop" \in f[exit].range
    /\ reason \in {"take_profit", "ambiguous_target_first", "ambiguous_tp_sl"} =>
          "target" \in f[exit].range

LEMMA HitDecides ==
    ASSUME policy \in Policies, NEW f \in Seq(Candle), NEW fill \in 1..Len(f),
           NEW exit \in fill..Len(f), Untouched(f, fill, exit - 1),
           "stop" \in f[exit].range \/ "target" \in f[exit].range
    PROVE  \E reason, r : \E observed \in 0..Len(f) :
              /\ HitRow(f, fill, exit) =
                    Row("closed", reason, observed, fill + Dropped, exit + Dropped, r)
              /\ Exited(f, fill, exit, reason, r)
<1>1. Len(f) \in 0..Len(f) /\ exit - fill + 1 \in 0..Len(f)
  OBVIOUS
<1> DEFINE hit(reason, observed, r) ==
             Row("closed", reason, observed, fill + Dropped, exit + Dropped, r)
           held == exit - fill + 1
           stop == "stop" \in f[exit].range
           target == "target" \in f[exit].range
<1>2. HitRow(f, fill, exit) =
        CASE stop /\ target /\ policy = "ambiguous" -> hit("ambiguous_tp_sl", held, NoR)
          [] stop /\ target /\ policy = "stop_first" ->
                hit("ambiguous_stop_first", held, <<-1>>)
          [] stop /\ target /\ policy = "target_first" ->
                hit("ambiguous_target_first", held, <<TargetR>>)
          [] stop /\ ~target -> hit("stop_loss", Len(f), <<-1>>)
          [] target /\ ~stop -> hit("take_profit", Len(f), <<TargetR>>)
  BY DEF HitRow
<1>3. stop \/ target
  OBVIOUS
<1>4. policy \in {"ambiguous", "stop_first", "target_first"}
  BY OutcomeAssumption
<1>5. held \in 0..Len(f)
  BY <1>1
<1> HIDE DEF hit, held
<1>6. \/ /\ stop /\ target /\ policy = "ambiguous"
         /\ HitRow(f, fill, exit) = hit("ambiguous_tp_sl", held, NoR)
      \/ /\ stop /\ target /\ policy = "stop_first"
         /\ HitRow(f, fill, exit) = hit("ambiguous_stop_first", held, <<-1>>)
      \/ /\ stop /\ target /\ policy = "target_first"
         /\ HitRow(f, fill, exit) = hit("ambiguous_target_first", held, <<TargetR>>)
      \/ stop /\ ~target /\ HitRow(f, fill, exit) = hit("stop_loss", Len(f), <<-1>>)
      \/ target /\ ~stop /\ HitRow(f, fill, exit) = hit("take_profit", Len(f), <<TargetR>>)
  <2> HIDE DEF stop, target
  <2>1. QED
    BY <1>2, <1>3, <1>4
<1>7. ASSUME NEW reason \in Reasons, reason # "time_stop", NEW observed \in 0..Len(f), NEW r,
             HitRow(f, fill, exit) = hit(reason, observed, r),
             reason \in {"stop_loss", "ambiguous_stop_first", "ambiguous_tp_sl"} => stop,
             reason \in {"take_profit", "ambiguous_target_first", "ambiguous_tp_sl"} => target
      PROVE  \E reason_1, r_1 : \E observed_1 \in 0..Len(f) :
                /\ HitRow(f, fill, exit) =
                      Row("closed", reason_1, observed_1, fill + Dropped, exit + Dropped, r_1)
                /\ Exited(f, fill, exit, reason_1, r_1)
  <2>1. Exited(f, fill, exit, reason, r)
    BY <1>7 DEF Exited
  <2>2. QED
    BY <1>7, <2>1 DEF hit
<1> HIDE DEF stop, target
<1>8. CASE /\ stop /\ target
           /\ HitRow(f, fill, exit) = hit("ambiguous_tp_sl", held, NoR)
  BY <1>5, <1>7, <1>8 DEF Reasons
<1>9. CASE stop /\ HitRow(f, fill, exit) = hit("ambiguous_stop_first", held, <<-1>>)
  BY <1>5, <1>7, <1>9 DEF Reasons
<1>10. CASE target /\ HitRow(f, fill, exit) = hit("ambiguous_target_first", held, <<TargetR>>)
  BY <1>5, <1>7, <1>10 DEF Reasons
<1>11. CASE stop /\ HitRow(f, fill, exit) = hit("stop_loss", Len(f), <<-1>>)
  BY <1>1, <1>7, <1>11 DEF Reasons
<1>12. CASE target /\ HitRow(f, fill, exit) = hit("take_profit", Len(f), <<TargetR>>)
  BY <1>1, <1>7, <1>12 DEF Reasons
<1>13. QED
  BY <1>6, <1>8, <1>9, <1>10, <1>11, <1>12

\* Of the candles held, the first that is hit.
LEMMA ExitFound ==
    ASSUME NEW f \in Seq(Candle), NEW fill \in 1..Len(f)
    PROVE  /\ ExitPositions(f, fill) # {} =>
                LET exit == Min(ExitPositions(f, fill))
                IN  /\ exit \in fill..Len(f) /\ Untouched(f, fill, exit - 1)
                    /\ "stop" \in f[exit].range \/ "target" \in f[exit].range
           /\ ExitPositions(f, fill) = {} =>
                Untouched(f, fill, Min({Len(f), fill + HoldBars}))
<1> DEFINE limit == Min({Len(f), fill + HoldBars})
           S == ExitPositions(f, fill)
           exit == Min(S)
<1>1. limit \in Nat /\ limit <= Len(f) /\ Len(f) \in Nat
  <2>1. Len(f) \in Nat /\ fill + HoldBars \in Nat
    BY OutcomeAssumption
  <2>2. QED
    BY <2>1, LesserOfTwo
<1>2. S = {i \in fill..limit : f[i].range \cap {"stop", "target"} # {}}
  BY DEF ExitPositions, Touching
<1>3. S = {i \in fill..limit : "stop" \in f[i].range \/ "target" \in f[i].range}
  BY <1>2
<1> HIDE DEF limit, S
<1>4. S \subseteq Nat
  BY <1>1, <1>3
<1>5. ASSUME S # {}
      PROVE  /\ exit \in fill..Len(f) /\ Untouched(f, fill, exit - 1)
             /\ "stop" \in f[exit].range \/ "target" \in f[exit].range
  <2>1. exit \in S /\ \A n \in S : exit <= n
    BY <1>4, <1>5, LeastIsLeast
  <2> HIDE DEF exit
  <2>2. exit \in fill..limit /\ ("stop" \in f[exit].range \/ "target" \in f[exit].range)
    BY <1>3, <2>1
  <2>3. exit \in fill..Len(f)
    BY <1>1, <2>2
  <2>4. ASSUME NEW i \in fill..(exit - 1)
        PROVE  "stop" \notin f[i].range /\ "target" \notin f[i].range
    <3>1. i \in fill..limit /\ ~(exit <= i)
      BY <1>1, <2>2
    <3>2. i \notin S
      BY <2>1, <3>1
    <3>3. QED
      BY <1>3, <3>1, <3>2
  <2>5. QED
    BY <2>2, <2>3, <2>4 DEF Untouched
<1>6. ASSUME S = {} PROVE Untouched(f, fill, limit)
  BY <1>3, <1>6 DEF Untouched
<1>7. QED
  BY <1>5, <1>6 DEF S, limit

\* The rows a filled candidate can get.
LEMMA FilledRows ==
    ASSUME policy \in Policies, NEW f \in Seq(Candle), NEW fill \in 1..Len(f)
    PROVE  \/ FilledRow(f, fill) = Row("invalid_candidate", "", Len(f), 0, 0, NoR)
           \/ FilledRow(f, fill) = Row("open", "", Len(f), fill + Dropped, 0, NoR)
           \/ \E exit \in fill..Len(f), observed \in 0..Len(f) : \E reason, r :
                /\ FilledRow(f, fill) =
                      Row("closed", reason, observed, fill + Dropped, exit + Dropped, r)
                /\ Exited(f, fill, exit, reason, r)
<1> DEFINE S == ExitPositions(f, fill)
           last == Min({Len(f), fill + HoldBars})
           timeStop == Row("closed", "time_stop", Len(f), fill + Dropped, last + Dropped,
                           <<f[last].close>>)
<1>1. FilledRow(f, fill) =
        IF ~hasRisk THEN Row("invalid_candidate", "", Len(f), 0, 0, NoR)
        ELSE IF S # {} THEN HitRow(f, fill, Min(S))
        ELSE IF HoldOver(f, fill) THEN timeStop
        ELSE Row("open", "", Len(f), fill + Dropped, 0, NoR)
  BY DEF FilledRow
<1>2. ASSUME S # {}
      PROVE  \E exit \in fill..Len(f), observed \in 0..Len(f) : \E reason, r :
                /\ HitRow(f, fill, Min(S)) =
                      Row("closed", reason, observed, fill + Dropped, exit + Dropped, r)
                /\ Exited(f, fill, exit, reason, r)
  <2> DEFINE exit == Min(S)
  <2>1. /\ exit \in fill..Len(f) /\ Untouched(f, fill, exit - 1)
        /\ "stop" \in f[exit].range \/ "target" \in f[exit].range
    BY <1>2, ExitFound
  <2> HIDE DEF S
  <2>2. QED
    BY <2>1, HitDecides
<1>3. ASSUME S = {}, HoldOver(f, fill)
      PROVE  /\ last \in fill..Len(f)
             /\ Exited(f, fill, last, "time_stop", <<f[last].close>>)
  <2>1. Untouched(f, fill, last)
    BY <1>3, ExitFound
  <2>2. last = fill + HoldBars /\ last \in fill..Len(f)
    <3> DEFINE due == fill + HoldBars
    <3>1. Len(f) \in Nat /\ due \in Nat /\ fill <= due /\ due <= Len(f)
      BY <1>3, OutcomeAssumption DEF HoldOver
    <3> HIDE DEF due
    <3>2. Min({Len(f), due}) = due
      BY <3>1, LesserOfTwo
    <3>3. QED
      BY <3>1, <3>2 DEF due
  <2> HIDE DEF last
  <2>3. Untouched(f, fill, last - 1) /\ Untouched(f, last, last)
    <3>1. fill \in Int /\ last \in Int /\ fill <= last
      BY <2>2
    <3>2. QED
      BY <2>1, <3>1 DEF Untouched
  <2>4. QED
    BY <2>2, <2>3 DEF Exited, Reasons
<1>4. Len(f) \in 0..Len(f)
  OBVIOUS
<1> HIDE DEF S, last
<1>5. CASE ~hasRisk
  BY <1>1, <1>5
<1>6. CASE hasRisk /\ S # {}
  BY <1>1, <1>2, <1>6
<1>7. CASE hasRisk /\ S = {} /\ HoldOver(f, fill)
  <2>1. FilledRow(f, fill) = timeStop
    BY <1>1, <1>7
  <2>2. QED
    BY <1>3, <1>4, <1>7, <2>1
<1>8. CASE hasRisk /\ S = {} /\ ~HoldOver(f, fill)
  BY <1>1, <1>8
<1>9. QED
  BY <1>5, <1>6, <1>7, <1>8

\* The rows the tracker writes.
LEMMA LabelRows ==
    ASSUME policy \in Policies, NEW f \in Seq(Candle)
    PROVE  \/ \E status \in {"waiting_for_data", "pending_entry", "invalid_candidate"},
                 observed \in 0..Len(f) : Label(f) = Row(status, "", observed, 0, 0, NoR)
           \/ /\ Label(f) = Row("entry_not_filled", "", Len(f), 0, 0, NoR)
              /\ mode # "MARKET" /\ ExpiryBars <= Len(f)
              /\ \A i \in 1..ExpiryBars : "entry" \notin f[i].range
           \/ \E fill \in 1..Len(f) :
                Label(f) = Row("open", "", Len(f), fill + Dropped, 0, NoR)
           \/ \E fill \in 1..Len(f) : \E exit \in fill..Len(f), observed \in 0..Len(f) :
                \E reason, r :
                   /\ FilledAt(f, fill, mode)
                   /\ Label(f) = Row("closed", reason, observed, fill + Dropped,
                                     exit + Dropped, r)
                   /\ Exited(f, fill, exit, reason, r)
<1>1. Len(f) \in Nat /\ 0 \in 0..Len(f) /\ Len(f) \in 0..Len(f)
  OBVIOUS
<1> DEFINE fill == Min(FillPositions(f))
<1>2. CASE f = <<>>
  BY <1>1, <1>2 DEF Label
<1>3. CASE f # <<>> /\ FillPositions(f) # {}
  <2>1. FilledAt(f, fill, mode) /\ fill \in 1..Len(f)
    BY <1>3, FillFound DEF FilledAt
  <2>2. Label(f) = FilledRow(f, fill)
    BY <1>3 DEF Label
  <2> HIDE DEF fill
  <2>3. \/ FilledRow(f, fill) = Row("invalid_candidate", "", Len(f), 0, 0, NoR)
        \/ FilledRow(f, fill) = Row("open", "", Len(f), fill + Dropped, 0, NoR)
        \/ \E exit \in fill..Len(f), observed \in 0..Len(f) : \E reason, r :
             /\ FilledRow(f, fill) =
                   Row("closed", reason, observed, fill + Dropped, exit + Dropped, r)
             /\ Exited(f, fill, exit, reason, r)
    BY <2>1, FilledRows
  <2>4. QED
    BY <1>1, <2>1, <2>2, <2>3
<1>4. CASE f # <<>> /\ FillPositions(f) = {}
  <2>1. Label(f) = Row(IF Expired(f) THEN "entry_not_filled" ELSE "pending_entry",
                       "", Len(f), 0, 0, NoR)
    BY <1>4 DEF Label
  <2>2. mode # "MARKET"
    BY <1>4 DEF FillPositions
  <2>3. ASSUME Expired(f)
        PROVE  ExpiryBars <= Len(f) /\ \A i \in 1..ExpiryBars : "entry" \notin f[i].range
    <3>1. ExpiryBars \in Nat /\ ExpiryBars <= Len(f)
      BY <2>3, ExpiryPositive DEF Expired
    <3>2. Min({Len(f), ExpiryBars}) = ExpiryBars
      BY <1>1, <3>1, LesserOfTwo
    <3>3. {i \in 1..ExpiryBars : f[i].range \cap {"entry"} # {}} = {}
      BY <1>4, <2>2, <3>2 DEF FillPositions, Touching
    <3>4. QED
      BY <3>1, <3>3
  <2>4. QED
    BY <1>1, <2>1, <2>2, <2>3
<1>5. QED
  BY <1>2, <1>3, <1>4

LEMMA LabelTyped == ASSUME Typed PROVE RowTyped(Label(Future))
<1> DEFINE f == Future
<1>1. /\ Dropped \in Nat /\ Len(bars) \in Nat /\ Len(bars) <= MaxBars
      /\ f \in Seq(Candle) /\ Len(f) \in Nat /\ Len(f) + Dropped <= MaxBars /\ MaxBars \in Nat
      /\ policy \in Policies
  BY WindowParts, OutcomeAssumption DEF Typed
<1> HIDE DEF f
<1>2. ASSUME NEW status, NEW observed \in 0..Len(f), NEW fill \in 0..MaxBars,
             status \in Statuses, status # "closed"
      PROVE  RowTyped(Row(status, "", observed, fill, 0, NoR))
  BY <1>1, <1>2 DEF RowTyped, Row, Reasons
<1>3. ASSUME NEW reason, NEW r, NEW fill \in 1..Len(f), NEW exit \in fill..Len(f),
             NEW observed \in 0..Len(f), Exited(f, fill, exit, reason, r)
      PROVE  RowTyped(Row("closed", reason, observed, fill + Dropped, exit + Dropped, r))
  <2>1. reason \in Reasons
    BY <1>3 DEF Exited
  <2>2. /\ observed \in 0..MaxBars /\ fill + Dropped \in 0..MaxBars
        /\ exit + Dropped \in 1..MaxBars
    BY <1>1
  <2>3. QED
    BY <2>1, <2>2 DEF RowTyped, Row, Statuses
<1>4. Len(f) \in 0..Len(f) /\ 0 \in 0..MaxBars
  BY <1>1
<1>5. \A fill \in 1..Len(f) : fill + Dropped \in 0..MaxBars
  BY <1>1
<1>6. RowTyped(Label(f))
  BY <1>1, <1>2, <1>3, <1>4, <1>5, LabelRows DEF Statuses
<1>7. QED
  BY <1>6 DEF f

\* The provider can return every candle since the candidate.
RoomForAll == Len(bars) <= HistoryLimit

\* With room for every candle, a label is true of the candles it is made of.
LEMMA LabelTrue ==
    ASSUME Typed, RoomForAll
    PROVE  /\ TrueOf(Label(Future), bars, mode)
           /\ WholeOf(Label(Future), bars, Len(bars))
<1>1. /\ Dropped = 0 /\ Future = bars /\ bars \in Seq(Candle) /\ Len(bars) \in Nat
      /\ policy \in Policies
  BY WindowParts DEF Typed, RoomForAll
<1>2. ASSUME NEW status, NEW observed, NEW fill, status \notin {"closed", "entry_not_filled"}
      PROVE  /\ TrueOf(Row(status, "", observed, fill, 0, NoR), bars, mode)
             /\ WholeOf(Row(status, "", observed, fill, 0, NoR), bars, Len(bars))
  BY <1>2 DEF TrueOf, WholeOf, Row
<1>3. ASSUME ExpiryBars <= Len(bars), \A i \in 1..ExpiryBars : "entry" \notin bars[i].range
      PROVE  LET row == Row("entry_not_filled", "", Len(bars), 0, 0, NoR)
             IN  TrueOf(row, bars, mode) /\ WholeOf(row, bars, Len(bars))
  BY <1>3 DEF TrueOf, WholeOf, Row
<1>4. ASSUME NEW reason, NEW r, NEW fill \in 1..Len(bars), NEW exit \in fill..Len(bars),
             NEW observed, FilledAt(bars, fill, mode), Exited(bars, fill, exit, reason, r)
      PROVE  LET row == Row("closed", reason, observed, fill, exit, r)
             IN  TrueOf(row, bars, mode) /\ WholeOf(row, bars, Len(bars))
  <2> DEFINE row == Row("closed", reason, observed, fill, exit, r)
  <2>1. /\ row.status = "closed" /\ row.reason = reason /\ row.fill = fill
        /\ row.exit = exit /\ row.r = r
    BY DEF Row
  <2> HIDE DEF row
  <2>2. fill \in 1..exit /\ exit \in 1..Len(bars) /\ exit <= Len(bars) /\ exit \in exit..exit
    BY <1>1
  <2>3. TrueOf(row, bars, mode)
    BY <1>4, <2>1, <2>2 DEF TrueOf, FilledAt, Exited, Untouched
  <2>4. WholeOf(row, bars, Len(bars))
    BY <1>4, <2>1, <2>2 DEF WholeOf, Exited, Untouched
  <2>5. QED
    BY <2>3, <2>4 DEF row
<1>5. \A k \in 1..Len(bars) : k + Dropped = k
  BY <1>1
<1>6. TrueOf(Label(bars), bars, mode) /\ WholeOf(Label(bars), bars, Len(bars))
  <2>1. CASE \E status \in {"waiting_for_data", "pending_entry", "invalid_candidate"},
                observed \in 0..Len(bars) : Label(bars) = Row(status, "", observed, 0, 0, NoR)
    BY <1>2, <2>1
  <2>2. CASE /\ Label(bars) = Row("entry_not_filled", "", Len(bars), 0, 0, NoR)
             /\ ExpiryBars <= Len(bars)
             /\ \A i \in 1..ExpiryBars : "entry" \notin bars[i].range
    BY <1>3, <2>2
  <2>3. CASE \E fill \in 1..Len(bars) :
               Label(bars) = Row("open", "", Len(bars), fill + Dropped, 0, NoR)
    BY <1>2, <2>3
  <2>4. CASE \E fill \in 1..Len(bars) :
               \E exit \in fill..Len(bars), observed \in 0..Len(bars) : \E reason, r :
                   /\ FilledAt(bars, fill, mode)
                   /\ Label(bars) = Row("closed", reason, observed, fill + Dropped,
                                        exit + Dropped, r)
                   /\ Exited(bars, fill, exit, reason, r)
    <3>1. PICK fill \in 1..Len(bars) :
               \E exit \in fill..Len(bars), observed \in 0..Len(bars) : \E reason, r :
                   /\ FilledAt(bars, fill, mode)
                   /\ Label(bars) = Row("closed", reason, observed, fill + Dropped,
                                        exit + Dropped, r)
                   /\ Exited(bars, fill, exit, reason, r)
      BY <2>4
    <3>2. PICK exit \in fill..Len(bars), observed \in 0..Len(bars) : \E reason, r :
                   /\ FilledAt(bars, fill, mode)
                   /\ Label(bars) = Row("closed", reason, observed, fill + Dropped,
                                        exit + Dropped, r)
                   /\ Exited(bars, fill, exit, reason, r)
      BY <3>1
    <3>3. PICK reason, r :
                   /\ FilledAt(bars, fill, mode)
                   /\ Label(bars) = Row("closed", reason, observed, fill + Dropped,
                                        exit + Dropped, r)
                   /\ Exited(bars, fill, exit, reason, r)
      BY <3>2
    <3>4. fill + Dropped = fill /\ exit + Dropped = exit
      BY <1>1
    <3>5. QED
      BY <1>4, <3>3, <3>4
  <2>5. QED
    BY <1>1, <2>1, <2>2, <2>3, <2>4, LabelRows
<1>7. QED
  BY <1>1, <1>6

-----------------------------------------------------------------------------
(* The invariant holds                                                     *)

\* The tracker's step: a new row, or the old one.
LEMMA TrackWrites ==
    ASSUME Track
    PROVE  /\ \/ latest' = latest
              \/ latest' = <<Label(Future)>>
              \/ latest' = <<NoData>>
           /\ growing => midCandle
           /\ UNCHANGED <<settings, bars, growing, provider>>
BY DEF Track

LEMMA NoDataGood ==
    RowTyped(NoData) /\ TrueOf(NoData, bars, mode) /\ WholeOf(NoData, bars, Len(bars))
BY OutcomeAssumption DEF RowTyped, TrueOf, WholeOf, NoData, Row, Statuses, Reasons

LEMMA InitTyped == Init => Typed
<1> SUFFICES ASSUME Init PROVE Typed
  OBVIOUS
<1>1. bars \in Seq(Candle) /\ Len(bars) = 0 /\ latest = <<>> /\ growing = FALSE
  BY DEF Init
<1>2. Len(bars) <= MaxBars
  BY <1>1, OutcomeAssumption
<1>3. QED
  BY <1>1, <1>2 DEF Init, Typed

LEMMA StepTyped == Typed /\ [Next]_vars => Typed'
<1> SUFFICES ASSUME Typed, [Next]_vars PROVE Typed'
  OBVIOUS
<1>1. bars \in Seq(Candle) /\ Len(bars) \in Nat /\ Len(bars) <= MaxBars /\ MaxBars \in Nat
  BY OutcomeAssumption DEF Typed
<1>2. ASSUME NEW c \in Closes, OpenCandle(c) PROVE Typed'
  <2>1. [range |-> {}, close |-> c] \in Candle
    BY DEF Candle, Ranges, Levels
  <2>2. /\ bars' \in Seq(Candle) /\ Len(bars') = Len(bars) + 1 /\ bars' # <<>>
        /\ Len(bars') <= MaxBars
    <3>1. bars' = Append(bars, [range |-> {}, close |-> c]) /\ Len(bars) < MaxBars
      BY <1>2 DEF OpenCandle
    <3>2. bars' \in Seq(Candle) /\ Len(bars') = Len(bars) + 1
      BY <1>1, <2>1, <3>1
    <3>3. QED
      BY <1>1, <3>1, <3>2
  <2>3. QED
    BY <1>2, <2>2 DEF OpenCandle, Typed, settings, RowTyped
<1>3. ASSUME NEW k \in Candle, PriceMoves(k) PROVE Typed'
  <2>1. bars # <<>> /\ bars' = [bars EXCEPT ![Len(bars)] = k]
    BY <1>3 DEF PriceMoves, Typed
  <2>2. bars' \in Seq(Candle) /\ Len(bars') = Len(bars) /\ bars' # <<>>
    BY <1>1, <2>1
  <2>3. QED
    BY <1>1, <1>3, <2>2 DEF PriceMoves, Typed, settings, RowTyped
<1>4. CASE CandleCloses
  BY <1>4 DEF CandleCloses, Typed, settings, RowTyped
<1>5. CASE ProviderChanges
  BY <1>5 DEF ProviderChanges, Typed, settings, RowTyped
<1>6. CASE Track
  <2>1. RowTyped(Label(Future)) /\ RowTyped(NoData)
    BY LabelTyped, NoDataGood
  <2>2. latest' = <<>> \/ \E row : latest' = <<row>> /\ RowTyped(row)
    BY <1>6, <2>1, TrackWrites DEF Typed
  <2>3. QED
    BY <1>6, <2>2, TrackWrites DEF Typed, settings, RowTyped
<1>7. CASE UNCHANGED vars
  BY <1>7 DEF vars, settings, Typed, RowTyped
<1>8. QED
  BY <1>2, <1>3, <1>4, <1>5, <1>6, <1>7 DEF Next, Market

\* Later candles, and a longer range of the last one, keep a row true; what it
\* says of whole candles holds on as these do not change.
LEMMA MoreCandlesKeep ==
    ASSUME NEW row, RowTyped(row), NEW f \in Seq(Candle), NEW g \in Seq(Candle),
           NEW entryMode, NEW done \in Int, done <= Len(f), Len(f) <= Len(g),
           \A i \in 1..(Len(f) - 1) : g[i] = f[i],
           Len(f) > 0 => f[Len(f)].range \subseteq g[Len(f)].range,
           \A i \in 1..done : g[i] = f[i]
    PROVE  /\ TrueOf(row, f, entryMode) => TrueOf(row, g, entryMode)
           /\ WholeOf(row, f, done) => WholeOf(row, g, done)
<1>1. Len(f) \in Nat /\ Len(g) \in Nat
  OBVIOUS
<1>2. \A i \in 1..Len(f) : f[i].range \subseteq g[i].range
  BY <1>1
<1>3. ASSUME TrueOf(row, f, entryMode) PROVE TrueOf(row, g, entryMode)
  <2> SUFFICES ASSUME row.status = "closed" PROVE TrueOf(row, g, entryMode)
    BY DEF TrueOf
  <2>1. /\ row.fill \in 1..row.exit /\ row.exit \in 1..Len(f)
        /\ row.fill \in 1..Len(f) /\ row.exit \in 1..Len(g)
    BY <1>1, <1>3 DEF TrueOf
  <2>2. \A i \in 1..(row.fill - 1) : g[i] = f[i]
    BY <1>1, <2>1
  <2>3. \A i \in row.fill..(row.exit - 1) : g[i] = f[i]
    BY <1>1, <2>1
  <2>4. /\ f[row.fill].range \subseteq g[row.fill].range
        /\ f[row.exit].range \subseteq g[row.exit].range
    BY <1>2, <2>1
  <2>5. QED
    BY <1>3, <2>1, <2>2, <2>3, <2>4 DEF TrueOf
<1>4. ASSUME WholeOf(row, f, done) PROVE WholeOf(row, g, done)
  <2>1. row.status = "closed" => row.exit \in Nat \ {0}
    BY OutcomeAssumption DEF RowTyped
  <2>2. \A i \in Nat \ {0} : i <= done => g[i] = f[i]
    OBVIOUS
  <2>3. ASSUME ExpiryBars <= done PROVE \A i \in 1..ExpiryBars : g[i] = f[i]
    BY <2>3, ExpiryPositive
  <2>4. QED
    BY <1>4, <2>1, <2>2, <2>3 DEF WholeOf
<1>5. QED
  BY <1>3, <1>4

\* More complete candles keep it too.
LEMMA LaterWholeKeeps ==
    ASSUME NEW row, RowTyped(row), NEW f, NEW done \in Int, NEW later \in Int, done <= later,
           WholeOf(row, f, done)
    PROVE  WholeOf(row, f, later)
<1>1. row.exit \in Int /\ ExpiryBars \in Int
  BY OutcomeAssumption, ExpiryPositive DEF RowTyped
<1>2. QED
  BY <1>1 DEF WholeOf

LEMMA StepGood == RoomForAll /\ Inv /\ [Next]_vars => Inv'
<1> SUFFICES ASSUME RoomForAll, Inv, [Next]_vars PROVE Inv'
  OBVIOUS
<1>1. Typed /\ Typed'
  BY StepTyped DEF Inv
<1>2. /\ bars \in Seq(Candle) /\ Len(bars) \in Nat /\ Len(bars) <= HistoryLimit
      /\ bars' \in Seq(Candle) /\ Len(bars') \in Nat
  BY <1>1 DEF Typed, RoomForAll
<1> DEFINE done == Complete(bars, growing)
           done2 == Complete(bars', growing')
<1>3. done \in Int /\ done <= Len(bars) /\ done2 \in Int
  BY <1>2 DEF Complete
<1>4. \A row : latest = <<row>> =>
         /\ RowTyped(row) /\ TrueOf(row, bars, mode)
         /\ ~midCandle => WholeOf(row, bars, done)
  BY <1>1 DEF Inv, GoodRow, Typed
<1> SUFFICES ASSUME NEW row, latest' = <<row>>
             PROVE  GoodRow(row, bars', growing', mode', midCandle')
  BY <1>1 DEF Inv
<1>5. ASSUME latest' = latest, mode' = mode, midCandle' = midCandle, bars' = bars,
             done <= done2
      PROVE  GoodRow(row, bars', growing', mode', midCandle')
  <2>1. RowTyped(row) /\ TrueOf(row, bars, mode) /\ (~midCandle => WholeOf(row, bars, done))
    BY <1>4, <1>5
  <2> HIDE DEF done, done2
  <2>2. ~midCandle => WholeOf(row, bars, done2)
    BY <1>3, <1>5, <2>1, LaterWholeKeeps
  <2>3. QED
    BY <1>5, <2>1, <2>2 DEF GoodRow, done2
<1>6. ASSUME latest' = latest, mode' = mode, midCandle' = midCandle, done2 = done,
             Len(bars) <= Len(bars'),
             \A i \in 1..(Len(bars) - 1) : bars'[i] = bars[i],
             Len(bars) > 0 => bars[Len(bars)].range \subseteq bars'[Len(bars)].range,
             \A i \in 1..done : bars'[i] = bars[i]
      PROVE  GoodRow(row, bars', growing', mode', midCandle')
  <2>1. RowTyped(row) /\ TrueOf(row, bars, mode) /\ (~midCandle => WholeOf(row, bars, done))
    BY <1>4, <1>6
  <2> HIDE DEF done, done2
  <2>2. /\ TrueOf(row, bars, mode) => TrueOf(row, bars', mode)
        /\ WholeOf(row, bars, done) => WholeOf(row, bars', done)
    BY <1>2, <1>3, <1>6, <2>1, MoreCandlesKeep
  <2>3. QED
    BY <1>6, <2>1, <2>2 DEF GoodRow, done2
<1>7. ASSUME NEW c \in Closes, OpenCandle(c)
      PROVE  GoodRow(row, bars', growing', mode', midCandle')
  <2>1. /\ bars' = Append(bars, [range |-> {}, close |-> c]) /\ ~growing /\ growing' = TRUE
        /\ latest' = latest /\ mode' = mode /\ midCandle' = midCandle
    BY <1>7 DEF OpenCandle, settings
  <2>2. Len(bars') = Len(bars) + 1 /\ \A i \in 1..Len(bars) : bars'[i] = bars[i]
    BY <1>2, <2>1
  <2>3. done = Len(bars) /\ done2 = Len(bars)
    BY <1>2, <2>1, <2>2 DEF Complete
  <2> HIDE DEF done, done2
  <2>4. Len(bars) > 0 => bars[Len(bars)].range \subseteq bars'[Len(bars)].range
    BY <1>2, <2>2
  <2>5. \A i \in 1..(Len(bars) - 1) : bars'[i] = bars[i]
    BY <1>2, <2>2
  <2>6. Len(bars) <= Len(bars')
    BY <1>2, <2>2
  <2>7. done2 = done /\ \A i \in 1..done : bars'[i] = bars[i]
    BY <2>2, <2>3
  <2>8. QED
    BY <1>6, <2>1, <2>4, <2>5, <2>6, <2>7
<1>8. ASSUME NEW k \in Candle, PriceMoves(k)
      PROVE  GoodRow(row, bars', growing', mode', midCandle')
  <2>1. /\ bars' = [bars EXCEPT ![Len(bars)] = k] /\ growing /\ growing' = growing
        /\ bars[Len(bars)].range \subseteq k.range /\ bars # <<>>
        /\ latest' = latest /\ mode' = mode /\ midCandle' = midCandle
    BY <1>1, <1>8 DEF PriceMoves, settings, Typed
  <2>2. /\ Len(bars') = Len(bars) /\ Len(bars) \in DOMAIN bars /\ bars'[Len(bars)] = k
        /\ \A i \in 1..(Len(bars) - 1) : bars'[i] = bars[i]
    BY <1>2, <2>1
  <2>3. done = Len(bars) - 1 /\ done2 = done
    BY <2>1, <2>2 DEF Complete
  <2> HIDE DEF done, done2
  <2>4. Len(bars) <= Len(bars')
    BY <1>2, <2>2
  <2>5. QED
    BY <1>6, <2>1, <2>2, <2>3, <2>4
<1>9. CASE CandleCloses
  <2>1. /\ bars' = bars /\ growing' = FALSE
        /\ latest' = latest /\ mode' = mode /\ midCandle' = midCandle
    BY <1>9 DEF CandleCloses, settings
  <2>2. done <= done2
    BY <1>2, <2>1 DEF Complete
  <2> HIDE DEF done, done2
  <2>3. QED
    BY <1>5, <2>1, <2>2
<1>10. CASE ProviderChanges \/ UNCHANGED vars
  <2>1. /\ bars' = bars /\ growing' = growing
        /\ latest' = latest /\ mode' = mode /\ midCandle' = midCandle
    BY <1>10 DEF ProviderChanges, vars, settings
  <2>2. done <= done2
    BY <1>3, <2>1
  <2> HIDE DEF done, done2
  <2>3. QED
    BY <1>5, <2>1, <2>2
<1>11. CASE Track
  <2>1. /\ bars' = bars /\ growing' = growing /\ mode' = mode /\ midCandle' = midCandle
        /\ growing => midCandle
        /\ latest' = latest \/ latest' = <<Label(Future)>> \/ latest' = <<NoData>>
    BY <1>11, TrackWrites DEF settings
  <2>2. CASE latest' = latest
    <3>1. done <= done2
      BY <1>3, <2>1
    <3> HIDE DEF done, done2
    <3>2. QED
      BY <1>5, <2>1, <2>2, <3>1
  <2>3. CASE latest' = <<Label(Future)>> \/ latest' = <<NoData>>
    <3>1. row = Label(Future) \/ row = NoData
      BY <2>3
    <3>2. TrueOf(row, bars, mode) /\ WholeOf(row, bars, Len(bars))
      BY <1>1, <1>2, <3>1, LabelTrue, NoDataGood
    <3>3. ~midCandle => Complete(bars, growing) = Len(bars)
      BY <1>1, <2>1 DEF Complete, Typed
    <3>4. ~midCandle => WholeOf(row, bars, Complete(bars, growing))
      BY <3>2, <3>3
    <3>5. TrueOf(row, bars', mode')
      BY <2>1, <3>2
    <3>6. ~midCandle' => WholeOf(row, bars', Complete(bars', growing'))
      BY <2>1, <3>4
    <3>7. QED
      BY <3>5, <3>6 DEF GoodRow
  <2>4. QED
    BY <2>1, <2>2, <2>3
<1>12. QED
  BY <1>7, <1>8, <1>9, <1>10, <1>11 DEF Next, Market

-----------------------------------------------------------------------------
(* A terminal label stands when there are more candles                     *)

\* A least element is still the least when only larger ones are added.
LEMMA LeastStays ==
    ASSUME NEW S, NEW T, T \subseteq Nat, S \subseteq T, S # {}, NEW bound \in Nat,
           \A n \in S : n <= bound, \A n \in T \ S : n > bound
    PROVE  Min(T) = Min(S)
<1> DEFINE m == Min(S)
           k == Min(T)
<1>1. m \in S /\ k \in T /\ (\A n \in S : m <= n) /\ (\A n \in T : k <= n)
  BY LeastIsLeast
<1> HIDE DEF m, k
<1>2. m \in Nat /\ k \in Nat /\ k <= m /\ m <= bound
  BY <1>1
<1>3. k \in S
  BY <1>1, <1>2
<1>4. m = k
  BY <1>1, <1>2, <1>3
<1>5. QED
  BY <1>4 DEF m, k

\* T is S with larger positions added, and none once the limit is full.
Grows(S, T, length, limit) ==
    /\ S \subseteq T /\ T \subseteq Nat
    /\ \A n \in S : n <= length
    /\ \A n \in T \ S : n > length
    /\ limit <= length => T = S

\* g is f with one candle more.
OneMore(f, g) ==
    /\ f \in Seq(Candle) /\ g \in Seq(Candle) /\ Len(g) = Len(f) + 1
    /\ \A i \in 1..Len(f) : g[i] = f[i]

\* One candle more only adds its own position, and none once the limit is full.
LEMMA TouchingGrows ==
    ASSUME NEW f, NEW g, OneMore(f, g), NEW from \in Nat \ {0}, NEW limit \in Nat, NEW levels
    PROVE  Grows(Touching(f, from, Min({Len(f), limit}), levels),
                 Touching(g, from, Min({Len(g), limit}), levels), Len(f), limit)
<1> DEFINE a == Min({Len(f), limit})
           b == Min({Len(g), limit})
           S == Touching(f, from, a, levels)
           T == Touching(g, from, b, levels)
<1>1. /\ Len(f) \in Nat /\ Len(g) = Len(f) + 1 /\ Len(g) \in Nat
      /\ \A i \in 1..Len(f) : g[i] = f[i]
  BY DEF OneMore
<1>2. a \in {Len(f), limit} /\ a <= Len(f) /\ a <= limit /\ a \in Nat
  BY <1>1, LesserOfTwo
<1>3. b \in {Len(g), limit} /\ b <= Len(g) /\ b <= limit /\ b \in Nat
  BY <1>1, LesserOfTwo
<1>4. S = {i \in from..a : f[i].range \cap levels # {}}
  BY DEF Touching
<1>5. T = {i \in from..b : g[i].range \cap levels # {}}
  BY DEF Touching
<1> HIDE DEF a, b, S, T
<1>6. \A i \in from..a : i \in from..b /\ i <= Len(f) /\ g[i] = f[i]
  BY <1>1, <1>2, <1>3
<1>7. \A i \in from..b : i <= Len(f) => i \in from..a
  BY <1>1, <1>2, <1>3
<1>8. limit <= Len(f) => a = b
  BY <1>1, <1>2, <1>3
<1>9. \A n \in S : n \in T /\ n \in from..a
  <2> SUFFICES ASSUME NEW n \in S PROVE n \in T /\ n \in from..a
    OBVIOUS
  <2>1. n \in from..a /\ f[n].range \cap levels # {}
    BY <1>4
  <2>2. n \in from..b /\ g[n] = f[n]
    BY <1>6, <2>1
  <2>3. g[n].range \cap levels # {}
    BY <2>1, <2>2
  <2>4. QED
    BY <1>5, <2>1, <2>2, <2>3
<1>10. \A n \in T : n \in from..b
  BY <1>5
<1>11. \A n \in T : n <= Len(f) => n \in S
  <2> SUFFICES ASSUME NEW n \in T, n <= Len(f) PROVE n \in S
    OBVIOUS
  <2>1. n \in from..b /\ g[n].range \cap levels # {}
    BY <1>5
  <2>2. n \in from..a /\ g[n] = f[n]
    BY <1>6, <1>7, <2>1
  <2>3. f[n].range \cap levels # {}
    BY <2>1, <2>2
  <2>4. QED
    BY <1>4, <2>2, <2>3
<1>12. \A n \in T : n \in Nat
  BY <1>3, <1>10
<1>13. \A n \in S : n \in T /\ n <= Len(f)
  BY <1>1, <1>6, <1>9
<1>14. \A n \in T \ S : n > Len(f)
  BY <1>1, <1>11, <1>12
<1>15. limit <= Len(f) => \A n \in T : n \in S
  BY <1>1, <1>6, <1>8, <1>10, <1>11
<1>16. Grows(S, T, Len(f), limit)
  <2>1. S \subseteq T /\ T \subseteq Nat
    BY <1>12, <1>13
  <2>2. limit <= Len(f) => T = S
    BY <1>15, <2>1
  <2>3. QED
    BY <1>13, <1>14, <2>1, <2>2 DEF Grows
<1>17. QED
  BY <1>16 DEF S, T, a, b

LEMMA RowFields ==
    ASSUME NEW status, NEW reason, NEW observed, NEW fill, NEW exit, NEW r
    PROVE  LET row == Row(status, reason, observed, fill, exit, r)
           IN  /\ row.status = status /\ row.reason = reason
               /\ row.fill = fill /\ row.exit = exit /\ row.r = r
BY DEF Row

\* The same without a reason, and with nothing but the candles seen.
LEMMA EarlyRow ==
    ASSUME NEW status, NEW observed, NEW fill
    PROVE  Row(status, "", observed, fill, 0, NoR).status = status
BY Zenon DEF Row

LEMMA SameRow ==
    ASSUME NEW status, NEW reason, NEW seen, NEW observed, NEW fill, NEW exit, NEW r
    PROVE  SameOutcome(Row(status, reason, seen, fill, exit, r),
                       Row(status, reason, observed, fill, exit, r))
BY RowFields DEF SameOutcome

\* The cases of FilledRow, and of Label.
LEMMA FilledIs ==
    ASSUME NEW h, NEW fill
    PROVE  /\ ~hasRisk => FilledRow(h, fill).status = "invalid_candidate"
           /\ hasRisk /\ ExitPositions(h, fill) # {} =>
                FilledRow(h, fill) = HitRow(h, fill, Min(ExitPositions(h, fill)))
           /\ hasRisk /\ ExitPositions(h, fill) = {} /\ HoldOver(h, fill) =>
                LET last == Min({Len(h), fill + HoldBars})
                IN  FilledRow(h, fill) = Row("closed", "time_stop", Len(h), fill + Dropped,
                                             last + Dropped, <<h[last].close>>)
           /\ hasRisk /\ ExitPositions(h, fill) = {} /\ ~HoldOver(h, fill) =>
                FilledRow(h, fill).status = "open"
<1>1. ASSUME ~hasRisk PROVE FilledRow(h, fill).status = "invalid_candidate"
  <2>1. FilledRow(h, fill) = Row("invalid_candidate", "", Len(h), 0, 0, NoR)
    BY <1>1 DEF FilledRow
  <2>2. QED
    BY <2>1, EarlyRow, Zenon
<1>2. ASSUME hasRisk, ExitPositions(h, fill) = {}, ~HoldOver(h, fill)
      PROVE  FilledRow(h, fill).status = "open"
  <2>1. FilledRow(h, fill) = Row("open", "", Len(h), fill + Dropped, 0, NoR)
    BY <1>2 DEF FilledRow
  <2>2. QED
    BY <2>1, EarlyRow, Zenon
<1>3. ASSUME hasRisk, ExitPositions(h, fill) # {}
      PROVE  FilledRow(h, fill) = HitRow(h, fill, Min(ExitPositions(h, fill)))
  BY <1>3 DEF FilledRow
<1>4. ASSUME hasRisk, ExitPositions(h, fill) = {}, HoldOver(h, fill)
      PROVE  LET last == Min({Len(h), fill + HoldBars})
             IN  FilledRow(h, fill) = Row("closed", "time_stop", Len(h), fill + Dropped,
                                          last + Dropped, <<h[last].close>>)
  BY <1>4 DEF FilledRow
<1>5. QED
  BY <1>1, <1>2, <1>3, <1>4

Missed(observed) == Row("entry_not_filled", "", observed, 0, 0, NoR)

LEMMA LabelIs ==
    ASSUME NEW h, h # <<>>
    PROVE  /\ FillPositions(h) # {} => Label(h) = FilledRow(h, Min(FillPositions(h)))
           /\ FillPositions(h) = {} /\ Expired(h) => Label(h) = Missed(Len(h))
           /\ FillPositions(h) = {} /\ ~Expired(h) => Label(h).status = "pending_entry"
<1>1. ASSUME FillPositions(h) = {}, ~Expired(h) PROVE Label(h).status = "pending_entry"
  <2>1. Label(h) = Row("pending_entry", "", Len(h), 0, 0, NoR)
    BY <1>1 DEF Label
  <2>2. QED
    BY <2>1, EarlyRow, Zenon
<1>2. ASSUME FillPositions(h) = {}, Expired(h)
      PROVE  Label(h) = Missed(Len(h))
  BY <1>2 DEF Label, Missed
<1>3. ASSUME FillPositions(h) # {} PROVE Label(h) = FilledRow(h, Min(FillPositions(h)))
  BY <1>3 DEF Label
<1>4. QED
  BY <1>1, <1>2, <1>3

\* Two candles of the same range decide the same.
LEMMA HitStands ==
    ASSUME policy \in Policies, NEW f, NEW g, NEW fill, NEW exit, g[exit] = f[exit],
           "stop" \in f[exit].range \/ "target" \in f[exit].range
    PROVE  SameOutcome(HitRow(g, fill, exit), HitRow(f, fill, exit))
<1> DEFINE row(reason, observed, r) ==
             Row("closed", reason, observed, fill + Dropped, exit + Dropped, r)
<1>1. CASE "stop" \in f[exit].range /\ "target" \notin f[exit].range
  <2>1. /\ HitRow(f, fill, exit) = row("stop_loss", Len(f), <<-1>>)
        /\ HitRow(g, fill, exit) = row("stop_loss", Len(g), <<-1>>)
    BY <1>1 DEF HitRow
  <2>2. QED
    BY <2>1, SameRow
<1>2. CASE "stop" \notin f[exit].range /\ "target" \in f[exit].range
  <2>1. /\ HitRow(f, fill, exit) = row("take_profit", Len(f), <<TargetR>>)
        /\ HitRow(g, fill, exit) = row("take_profit", Len(g), <<TargetR>>)
    BY <1>2 DEF HitRow
  <2>2. QED
    BY <2>1, SameRow
<1>3. CASE "stop" \in f[exit].range /\ "target" \in f[exit].range
  <2>1. policy \in {"ambiguous", "stop_first", "target_first"}
    BY OutcomeAssumption
  <2>2. HitRow(g, fill, exit) = HitRow(f, fill, exit)
    BY <1>3, <2>1 DEF HitRow
  <2>3. QED
    BY <2>2 DEF SameOutcome
<1>4. QED
  BY <1>1, <1>2, <1>3

\* What a filled candidate was closed with is what it is closed with when there
\* is one candle more.
LEMMA FilledStands ==
    ASSUME policy \in Policies, NEW f, NEW g, OneMore(f, g), NEW fill \in 1..Len(f),
           Terminal(FilledRow(f, fill))
    PROVE  SameOutcome(FilledRow(g, fill), FilledRow(f, fill))
<1> DEFINE due == fill + HoldBars
           S == ExitPositions(f, fill)
           T == ExitPositions(g, fill)
<1>1. /\ f \in Seq(Candle) /\ Len(f) \in Nat /\ Len(g) = Len(f) + 1 /\ due \in Nat
      /\ \A i \in 1..Len(f) : g[i] = f[i]
      /\ fill \in Nat \ {0}
  BY OutcomeAssumption DEF OneMore
<1>2. Grows(S, T, Len(f), due)
  <2>1. /\ S = Touching(f, fill, Min({Len(f), due}), {"stop", "target"})
        /\ T = Touching(g, fill, Min({Len(g), due}), {"stop", "target"})
    BY DEF ExitPositions
  <2> HIDE DEF S, T, due
  <2>2. QED
    BY <1>1, <2>1, TouchingGrows
<1>3. hasRisk /\ (S # {} \/ HoldOver(f, fill))
  BY FilledIs DEF Terminal
<1>4. CASE S # {}
  <2> DEFINE exit == Min(S)
  <2>1. exit = Min(T) /\ T # {}
    <3> HIDE DEF S, T
    <3>1. Min(T) = Min(S)
      BY <1>1, <1>2, <1>4, LeastStays DEF Grows
    <3>2. QED
      BY <1>2, <1>4, <3>1 DEF Grows
  <2>2. FilledRow(f, fill) = HitRow(f, fill, exit) /\ FilledRow(g, fill) = HitRow(g, fill, exit)
    BY <1>3, <1>4, <2>1, FilledIs
  <2>3. exit \in fill..Len(f) /\ ("stop" \in f[exit].range \/ "target" \in f[exit].range)
    BY <1>1, <1>4, ExitFound
  <2> HIDE DEF exit, S, T
  <2>4. g[exit] = f[exit]
    BY <1>1, <2>3
  <2>5. QED
    BY <2>2, <2>3, <2>4, HitStands
<1>5. CASE S = {} /\ HoldOver(f, fill)
  <2>1. due <= Len(f) /\ HoldOver(g, fill)
    BY <1>1, <1>5 DEF HoldOver
  <2>2. T = {}
    BY <1>2, <1>5, <2>1 DEF Grows
  <2> DEFINE row(h) == Row("closed", "time_stop", Len(h), fill + Dropped,
                           Min({Len(h), due}) + Dropped, <<h[Min({Len(h), due})].close>>)
  <2>3. FilledRow(f, fill) = row(f) /\ FilledRow(g, fill) = row(g)
    BY <1>3, <1>5, <2>1, <2>2, FilledIs
  <2>4. due \in 1..Len(f)
    BY <1>1, <2>1, OutcomeAssumption
  <2> HIDE DEF due
  <2>5. Min({Len(f), due}) = due /\ Min({Len(g), due}) = due
    <3>1. Len(g) \in Nat /\ due <= Len(g)
      BY <1>1, <2>1
    <3>2. /\ Min({Len(f), due}) \in {Len(f), due} /\ Min({Len(f), due}) <= due
          /\ Min({Len(g), due}) \in {Len(g), due} /\ Min({Len(g), due}) <= due
      BY <1>1, <3>1, LesserOfTwo
    <3>3. QED
      BY <1>1, <2>1, <3>1, <3>2
  <2>6. g[due] = f[due]
    BY <1>1, <2>4
  <2>7. /\ row(f) = Row("closed", "time_stop", Len(f), fill + Dropped, due + Dropped,
                        <<f[due].close>>)
        /\ row(g) = Row("closed", "time_stop", Len(g), fill + Dropped, due + Dropped,
                        <<f[due].close>>)
    BY <2>5, <2>6
  <2>8. QED
    BY <2>3, <2>7, SameRow
<1>6. QED
  BY <1>3, <1>4, <1>5

\* A terminal label stands when there is one candle more.
LEMMA LabelStands ==
    ASSUME policy \in Policies, NEW f, NEW g, OneMore(f, g), Terminal(Label(f))
    PROVE  SameOutcome(Label(g), Label(f))
<1>1. f \in Seq(Candle) /\ g \in Seq(Candle) /\ Len(f) \in Nat /\ Len(g) = Len(f) + 1
  BY DEF OneMore
<1>2. f # <<>> /\ g # <<>>
  <2>1. CASE f = <<>>
    <3>1. Label(f) = Row("waiting_for_data", "", 0, 0, 0, NoR)
      BY <2>1, Zenon DEF Label
    <3>2. Label(f).status = "waiting_for_data"
      BY <3>1, EarlyRow, Zenon
    <3>3. QED
      BY <3>2 DEF Terminal
  <2>2. g # <<>>
    BY <1>1
  <2>3. QED
    BY <2>1, <2>2
<1>3. ExpiryBars \in Nat \ {0}
  BY ExpiryPositive
<1> DEFINE S == FillPositions(f)
           T == FillPositions(g)
<1>4. Grows(S, T, Len(f), ExpiryBars)
  <2>1. CASE mode = "MARKET"
    <3>1. S = {1} /\ T = {1}
      BY <2>1 DEF FillPositions
    <3>2. Len(f) >= 1
      BY <1>1, <1>2
    <3>3. QED
      BY <1>1, <3>1, <3>2 DEF Grows
  <2>2. CASE mode # "MARKET"
    <3>1. /\ S = Touching(f, 1, Min({Len(f), ExpiryBars}), {"entry"})
          /\ T = Touching(g, 1, Min({Len(g), ExpiryBars}), {"entry"})
      BY <2>2 DEF FillPositions
    <3>2. 1 \in Nat \ {0} /\ ExpiryBars \in Nat
      BY <1>3
    <3> HIDE DEF S, T
    <3>3. QED
      BY <3>1, <3>2, TouchingGrows
  <2>3. QED
    BY <2>1, <2>2
<1>5. CASE S # {}
  <2> DEFINE fill == Min(S)
  <2>1. fill \in 1..Len(f)
    BY <1>1, <1>2, <1>5, FillFound DEF FilledAt
  <2>2. Min(T) = fill /\ T # {}
    <3> HIDE DEF S, T
    <3>1. QED
      BY <1>1, <1>4, <1>5, LeastStays DEF Grows
  <2>3. Label(f) = FilledRow(f, fill) /\ Label(g) = FilledRow(g, fill)
    BY <1>2, <1>5, <2>2, LabelIs
  <2> HIDE DEF fill, S, T
  <2>4. QED
    BY <2>1, <2>3, FilledStands
<1>6. CASE S = {}
  <2>1. Expired(f)
    BY <1>2, <1>6, LabelIs DEF Terminal
  <2>2. ExpiryBars <= Len(f) /\ Expired(g)
    BY <1>1, <1>3, <2>1 DEF Expired
  <2>3. T = {}
    BY <1>4, <1>6, <2>2 DEF Grows
  <2>4. Label(f) = Missed(Len(f)) /\ Label(g) = Missed(Len(g))
    BY <1>2, <1>6, <2>1, <2>2, <2>3, LabelIs
  <2>5. QED
    BY <2>4, SameRow, Zenon DEF Missed
<1>7. QED
  BY <1>5, <1>6

-----------------------------------------------------------------------------
(* Results                                                                 *)

\* Every variable has its type, whatever the history limit.
THEOREM TypesAlways == Spec => []TypeOK
<1>1. Typed => TypeOK
  <2> SUFFICES ASSUME Typed PROVE TypeOK
    OBVIOUS
  <2>1. /\ Len(latest) <= 1
        /\ \A i \in DOMAIN latest : RowTyped(latest[i])
    <3>1. CASE latest = <<>>
      BY <3>1
    <3>2. CASE \E row : latest = <<row>> /\ RowTyped(row)
      BY <3>2
    <3>3. QED
      BY <3>1, <3>2 DEF Typed
  <2>2. QED
    BY <2>1 DEF Typed, TypeOK, RowTyped
<1>2. QED
  BY <1>1, InitTyped, StepTyped, PTL DEF Spec

\* A terminal label is what the whole candles are labelled with.
Stands ==
    ~midCandle =>
        \A row, whole :
            /\ latest = <<row>> /\ Terminal(row)
            /\ whole = SubSeq(bars, 1, Complete(bars, growing))
            => SameOutcome(Label(whole), row)

\* What Label reads besides the candles does not change.
LEMMA LabelUnchanged ==
    ASSUME UNCHANGED settings, Dropped' = Dropped, NEW f
    PROVE  Label(f)' = Label(f)
BY DEF settings, Label, FillPositions, FilledRow, HitRow, ExitPositions, HoldOver, Expired,
       ExpiryBars, Touching, Row, NoR

LEMMA SameTwice ==
    ASSUME NEW a, NEW b, NEW c, SameOutcome(a, b), SameOutcome(b, c)
    PROVE  SameOutcome(a, c)
BY DEF SameOutcome

LEMMA StepStands == RoomForAll /\ RoomForAll' /\ Typed /\ Stands /\ [Next]_vars => Stands'
<1> SUFFICES ASSUME RoomForAll, RoomForAll', Typed, Stands, [Next]_vars PROVE Stands'
  OBVIOUS
<1>1. Typed' /\ UNCHANGED settings
  BY StepTyped DEF Next, Market, OpenCandle, PriceMoves, CandleCloses, ProviderChanges,
                   Track, vars, settings
<1>2. /\ bars \in Seq(Candle) /\ Len(bars) \in Nat /\ Dropped = 0 /\ Future = bars
      /\ policy \in Policies
  BY WindowParts DEF Typed, RoomForAll
<1>3. Dropped' = 0
  <2>1. (Len(bars) <= HistoryLimit => Dropped = 0)'
    BY <1>1, WindowParts, PTL DEF Typed
  <2>2. QED
    BY <2>1 DEF RoomForAll
<1> SUFFICES ASSUME ~midCandle, NEW row, NEW whole, latest' = <<row>>, Terminal(row),
                    whole = SubSeq(bars', 1, Complete(bars', growing'))
             PROVE  SameOutcome(Label(whole), row)
  <2>1. \A whole, row : SameOutcome(Label(whole), row)' <=> SameOutcome(Label(whole), row)
    BY <1>1, <1>2, <1>3, LabelUnchanged DEF SameOutcome
  <2>2. QED
    BY <1>1, <2>1 DEF Stands, settings, Terminal, Complete
<1> DEFINE before == SubSeq(bars, 1, Complete(bars, growing))
<1>4. latest = <<row>> => SameOutcome(Label(before), row)
  BY DEF Stands
<1>5. ASSUME latest' = latest, whole = before PROVE SameOutcome(Label(whole), row)
  BY <1>4, <1>5
<1>6. ASSUME NEW close, OpenCandle(close) PROVE SameOutcome(Label(whole), row)
  <2>1. /\ bars' = Append(bars, [range |-> {}, close |-> close])
        /\ growing' = TRUE /\ ~growing /\ latest' = latest
    BY <1>6 DEF OpenCandle
  <2>2. Complete(bars', growing') = Len(bars) /\ Complete(bars, growing) = Len(bars)
    BY <1>2, <2>1 DEF Complete
  <2>3. SubSeq(bars', 1, Len(bars)) = SubSeq(bars, 1, Len(bars))
    BY <1>2, <2>1
  <2>4. QED
    BY <1>5, <2>1, <2>2, <2>3
<1>7. ASSUME NEW candle, PriceMoves(candle) PROVE SameOutcome(Label(whole), row)
  <2>1. /\ bars' = [bars EXCEPT ![Len(bars)] = candle]
        /\ growing /\ growing' = growing /\ latest' = latest
    BY <1>7 DEF PriceMoves
  <2>2. Len(bars') = Len(bars) /\ Len(bars) > 0
    BY <1>2, <2>1 DEF Typed
  <2>3. Complete(bars', growing') = Len(bars) - 1 /\ Complete(bars, growing) = Len(bars) - 1
    <3>1. growing /\ growing'
      BY <2>1, Zenon
    <3>2. QED
      BY <2>2, <3>1 DEF Complete
  <2>4. \A i \in 1..(Len(bars) - 1) : bars'[i] = bars[i]
    BY <1>2, <2>1
  <2>5. SubSeq(bars', 1, Len(bars) - 1) = SubSeq(bars, 1, Len(bars) - 1)
    BY <1>2, <2>2, <2>4
  <2>6. QED
    BY <1>5, <2>1, <2>3, <2>5
<1>8. CASE CandleCloses
  <2>1. /\ bars' = bars /\ growing /\ growing' = FALSE /\ latest' = latest
    BY <1>8 DEF CandleCloses
  <2>2. Len(bars) > 0
    BY <1>2, <2>1 DEF Typed
  <2>3. whole = bars /\ before = SubSeq(bars, 1, Len(bars) - 1)
    BY <1>2, <2>1 DEF Complete
  <2>4. OneMore(before, bars)
    <3> DEFINE n == Len(bars) - 1
    <3>1. before = SubSeq(bars, 1, n)
      BY <2>3
    <3> HIDE DEF before
    <3>2. n \in Nat /\ n <= Len(bars) /\ Len(bars) = n + 1
      BY <1>2, <2>2
    <3> HIDE DEF n
    <3>3. /\ SubSeq(bars, 1, n) \in Seq(Candle) /\ Len(SubSeq(bars, 1, n)) = n
          /\ \A i \in 1..n : SubSeq(bars, 1, n)[i] = bars[i]
      BY <1>2, <3>2
    <3>4. QED
      BY <1>2, <3>1, <3>2, <3>3 DEF OneMore
  <2>5. SameOutcome(Label(before), row)
    BY <1>4, <2>1
  <2>6. Terminal(Label(before))
    BY <2>5 DEF SameOutcome, Terminal
  <2> HIDE DEF before
  <2>7. SameOutcome(Label(bars), Label(before))
    BY <1>2, <2>4, <2>6, LabelStands
  <2>8. QED
    BY <2>3, <2>5, <2>7, SameTwice
<1>9. CASE ProviderChanges \/ UNCHANGED vars
  BY <1>5, <1>9 DEF ProviderChanges, vars
<1>10. CASE Track
  <2>1. /\ bars' = bars /\ growing' = growing /\ ~growing
        /\ latest' = latest \/ latest' = <<Label(Future)>> \/ latest' = <<NoData>>
    BY <1>10, TrackWrites
  <2>2. CASE latest' = latest
    BY <1>5, <2>1, <2>2
  <2>3. CASE latest' = <<Label(Future)>>
    <3>1. row = Label(bars) /\ whole = bars
      BY <1>2, <2>1, <2>3 DEF Complete
    <3>2. QED
      BY <3>1 DEF SameOutcome
  <2>4. CASE latest' = <<NoData>>
    <3>1. row = NoData
      BY <2>4
    <3>2. row.status = "insufficient_data"
      BY <3>1, EarlyRow, Zenon DEF NoData
    <3>3. QED
      BY <3>2 DEF Terminal
  <2>5. QED
    BY <2>1, <2>2, <2>3, <2>4
<1>11. QED
  BY <1>6, <1>7, <1>8, <1>9, <1>10 DEF Next, Market

\* While the history limit has room for every candle, and the tracker runs
\* between candles, a settled candidate would never be labelled otherwise.
THEOREM TerminalLabelsAlwaysStand == Spec /\ []RoomForAll => []TerminalLabelsStand
<1>1. Init => Typed /\ Stands
  BY InitTyped DEF Init, Stands
<1>2. RoomForAll /\ RoomForAll' /\ Typed /\ Stands /\ [Next]_vars => Typed' /\ Stands'
  BY StepTyped, StepStands
<1>3. RoomForAll /\ Typed /\ Stands => TerminalLabelsStand
  <2> SUFFICES ASSUME RoomForAll, Typed, Stands, ~midCandle, ~growing,
                      NEW i \in DOMAIN latest, Terminal(latest[i])
               PROVE  SameOutcome(Label(Future), latest[i])
    BY DEF TerminalLabelsStand
  <2>1. PICK row : latest = <<row>>
    BY DEF Typed
  <2>2. latest[i] = row
    BY <2>1
  <2>3. bars = SubSeq(bars, 1, Complete(bars, growing)) /\ Future = bars
    BY WindowParts DEF Typed, RoomForAll, Complete
  <2>4. SameOutcome(Label(bars), row)
    BY <2>1, <2>2, <2>3 DEF Stands
  <2>5. QED
    BY <2>2, <2>3, <2>4
<1>4. QED
  BY <1>1, <1>2, <1>3, PTL DEF Spec

\* While the history limit has room for every candle, every label is true of the
\* whole history.
THEOREM LabelsAlwaysTrue == Spec /\ []RoomForAll => []LabelsTrue
<1>1. Init => Inv
  BY InitTyped DEF Init, Inv
<1>2. RoomForAll /\ Inv /\ [Next]_vars => Inv'
  BY StepGood
<1>3. Inv => ClosedLabelsTrue /\ LabelsOfWholeCandles
  <2> SUFFICES ASSUME Inv PROVE ClosedLabelsTrue /\ LabelsOfWholeCandles
    OBVIOUS
  <2>1. ASSUME NEW i \in DOMAIN latest
        PROVE  RowTyped(latest[i]) /\ GoodRow(latest[i], bars, growing, mode, midCandle)
    BY DEF Inv, Typed
  <2>2. Len(bars) \in Nat
    BY DEF Inv, Typed
  <2>3. ClosedLabelsTrue
    <3> SUFFICES ASSUME NEW row \in ClosedRows
                 PROVE  /\ row.fill \in 1..row.exit /\ row.exit \in 1..Len(bars)
                        /\ IF mode = "MARKET" THEN row.fill = 1
                           ELSE /\ "entry" \in bars[row.fill].range
                                /\ Touching(bars, 1, row.fill - 1, {"entry"}) = {}
                        /\ Touching(bars, row.fill, row.exit - 1, {"stop", "target"}) = {}
                        /\ row.reason = "time_stop" => row.exit = row.fill + HoldBars
                        /\ row.reason \in {"stop_loss", "ambiguous_stop_first",
                                           "ambiguous_tp_sl"} =>
                              "stop" \in bars[row.exit].range
                        /\ row.reason \in {"take_profit", "ambiguous_target_first",
                                           "ambiguous_tp_sl"} =>
                              "target" \in bars[row.exit].range
      BY DEF ClosedLabelsTrue
    <3>1. TrueOf(row, bars, mode) /\ row.status = "closed"
      BY <2>1 DEF ClosedRows, GoodRow
    <3>2. QED
      BY <3>1 DEF TrueOf, Touching
  <2>4. ASSUME ~midCandle, ~growing PROVE TimeStopsAtClose
    <3>1. \A row \in ClosedRows : row.status = "closed" /\ WholeOf(row, bars, Len(bars))
      BY <2>1, <2>4 DEF ClosedRows, GoodRow, Complete
    <3>2. QED
      BY <3>1 DEF WholeOf, TimeStopsAtClose
  <2>5. ASSUME ~midCandle PROVE NotFilledIsTrue
    <3> SUFFICES ASSUME NEW i \in DOMAIN latest, latest[i].status = "entry_not_filled"
                 PROVE  Touching(bars, 1, Min({Len(bars), ExpiryBars}), {"entry"}) = {}
      BY DEF NotFilledIsTrue
    <3> DEFINE limit == Min({Len(bars), ExpiryBars})
    <3>1. limit \in Nat /\ limit <= ExpiryBars /\ ExpiryBars \in Nat
      BY <2>2, ExpiryPositive, LesserOfTwo
    <3>2. \A j \in 1..ExpiryBars : "entry" \notin bars[j].range
      BY <2>1, <2>5 DEF GoodRow, WholeOf
    <3> HIDE DEF limit
    <3>3. Touching(bars, 1, limit, {"entry"}) = {}
      BY <3>1, <3>2 DEF Touching
    <3>4. QED
      BY <3>3 DEF limit
  <2>6. QED
    BY <2>3, <2>4, <2>5 DEF LabelsOfWholeCandles, TimeStopsAtClose
<1>4. Spec /\ []RoomForAll => [](ClosedLabelsTrue /\ LabelsOfWholeCandles)
  BY <1>1, <1>2, <1>3, PTL DEF Spec
<1>5. QED
  BY <1>4, TypesAlways, PTL DEF LabelsTrue

-----------------------------------------------------------------------------
(* Live bars (LiveQuotes).  A timeframe is its completed bars, its current  *)
(* bar and the rows of the log; a step of the builder moves the three       *)
(* together.  What makes a bar final is time: a quote that may still come   *)
(* belongs to a later bar than any completed one.                           *)

Increasing(seq) == \A i, j \in DOMAIN seq : i < j => seq[i].start < seq[j].start

\* What the log of a timeframe says at any time, also with no process running.
Stored(rows) ==
    /\ IsFiniteSet(rows)
    /\ \A q, r \in rows : q # r => q.start # r.start /\ q.quotes \cap r.quotes = {}
    /\ \A q, r \in rows : q # r /\ ~q.complete => r.start < q.start

\* The rows before the current bar are of completed bars, and the row of the
\* current bar, if there is one yet, has only some of its quotes.
BehindBar(bar, rows) ==
    /\ ~bar.complete
    /\ \A r \in rows : \/ r.start < bar.start /\ r.complete /\ r.quotes \cap bar.quotes = {}
                       \/ r.start = bar.start /\ ~r.complete /\ r.quotes \subseteq bar.quotes

\* A process has every completed bar of the log that there is room for.
AliveWith(done, begun, rows) ==
    /\ Increasing(done)
    /\ \A i \in DOMAIN done : done[i] \in rows /\ done[i].complete
    /\ \A r \in rows : r.complete => \/ \E i \in DOMAIN done : done[i] = r
                                     \/ Len(done) = BarsKept /\ r.start < done[1].start
    /\ begun = <<>> => \A r \in rows : r.complete
    /\ begun # <<>> => BehindBar(begun[1], rows)

\* The timeframe still waits for the latest quote.
Waits(tf) == pc = "apply" /\ tf \in Range(todo)

\* The quotes a timeframe has counted.
Counted(tf) == 1..(IF Waits(tf) THEN serial - 1 ELSE serial)

\* The latest time of a quote that may have been accepted.
Horizon == (IF pc = "down" THEN downSince ELSE now) + MaxSkew

TimeframeSound(tf) ==
    /\ Stored(logged[tf])
    /\ IF pc = "down" THEN current[tf] = <<>> /\ closed[tf] = <<>>
       ELSE AliveWith(closed[tf], current[tf], logged[tf])
    /\ \A r \in logged[tf] \cup Range(current[tf]) : r.quotes \subseteq Counted(tf)
    /\ durable[tf] \subseteq QuotesIn(logged[tf])
    /\ \A i \in DOMAIN csv[tf] : csv[tf][i].complete => csv[tf][i] \in logged[tf]

\* A quote that may be the first of a new bar is of a later one than all there
\* were.
LateEnough(tf) ==
    /\ \A r \in logged[tf] : r.complete => r.start < FloorTime(Horizon, tf)
    /\ pc # "down" /\ current[tf] = <<>> =>
          /\ \A t \in Nat : now <= t + MaxQuoteAge =>
                \A r \in logged[tf] : r.start < FloorTime(t, tf)
          /\ Waits(tf) => \A r \in logged[tf] : r.start < FloorTime(quote, tf)

\* The timeframes that the last flush has still to log.
Unlogged == CASE pc = "flush" -> Range(todo)
              [] pc = "csv" -> Range(Tail(todo))
              [] OTHER -> {}

\* What is left of the finally clause, and what it has done.
LeavingSound ==
    /\ ~stopping => leaving = <<>>
    /\ leaving \in {<<>>, Finally, <<"flush">>}
    /\ stopping /\ leaving # Finally => pc \in {"idle", "flush", "csv"}
    /\ leaving = <<"flush">> => pc = "idle"
    /\ stopping /\ leaving = <<>> =>
          \A tf \in Lengths \ Unlogged : QuotesIn(Range(current[tf])) \subseteq QuotesIn(logged[tf])
    /\ lost = {}

ControlSound ==
    /\ \A i, j \in DOMAIN todo : todo[i] = todo[j] => i = j
    /\ pc \in {"idle", "down"} => todo = <<>>
    /\ pc = "csv" => todo # <<>>
    /\ pc = "apply" => quote <= now + MaxSkew /\ serial > 0
    /\ downSince <= now
    /\ pc = "down" => ~stopping

BuilderSound ==
    /\ BarsTypeOK /\ ControlSound /\ LeavingSound
    /\ \A tf \in Lengths : TimeframeSound(tf) /\ LateEnough(tf)

\* No task outlives its engine, nor the step that stops it.
LinkSound ==
    /\ pc = "down" => link = "off"
    /\ stopping /\ leaving # Finally => link = "off"
    /\ link = "waiting" => errors > 0

LiveInv == BuilderSound /\ LinkTypeOK /\ LinkSound

Replaced(rows, row) == {r \in rows : r.start # row.start} \cup {row}

LEMMA BarParts ==
    ASSUME NEW s, NEW q, NEW c
    PROVE  /\ Bar(s, q, c).start = s /\ Bar(s, q, c).quotes = q /\ Bar(s, q, c).complete = c
           /\ s \in Nat /\ q \subseteq 1..MaxQuotes /\ c \in BOOLEAN => Bar(s, q, c) \in BarType
BY DEF Bar, BarType

\* The first bar of a process, later than all that is logged.
LEMMA FirstBar ==
    ASSUME NEW done, NEW rows, AliveWith(done, <<>>, rows),
           NEW bar, ~bar.complete, \A r \in rows : r.start < bar.start /\ r.quotes \cap bar.quotes = {}
    PROVE  AliveWith(done, <<bar>>, rows)
<1>1. \A r \in rows : r.complete
  BY DEF AliveWith
<1>2. BehindBar(bar, rows)
  BY <1>1 DEF BehindBar
<1>3. <<bar>> # <<>> /\ <<bar>>[1] = bar
  OBVIOUS
<1>4. QED
  BY <1>2, <1>3 DEF AliveWith

\* One more quote of the current bar.
LEMMA MoreInBar ==
    ASSUME NEW done, NEW rows, NEW old, AliveWith(done, <<old>>, rows),
           NEW bar, bar.start = old.start, ~bar.complete, NEW n, bar.quotes = old.quotes \cup {n},
           \A r \in rows : n \notin r.quotes
    PROVE  AliveWith(done, <<bar>>, rows)
<1>1. <<bar>> # <<>> /\ <<bar>>[1] = bar /\ <<old>> # <<>> /\ <<old>>[1] = old
  OBVIOUS
<1>2. BehindBar(old, rows)
  BY <1>1 DEF AliveWith
<1>3. BehindBar(bar, rows)
  BY <1>2 DEF BehindBar
<1>4. QED
  BY <1>1, <1>3 DEF AliveWith

\* A row that replaces the one of its start keeps the log sound and what it
\* counts, and drops no completed row.
LEMMA RowReplaced ==
    ASSUME NEW rows, rows \subseteq BarType, Stored(rows), NEW bar, BehindBar(bar, rows), NEW row \in BarType,
           row.start = bar.start, row.quotes = bar.quotes
    PROVE  /\ Stored(Replaced(rows, row)) /\ row \in Replaced(rows, row)
           /\ \A r \in rows : r.complete => r \in Replaced(rows, row)
           /\ \A r \in Replaced(rows, row) : r = row \/ (r \in rows /\ r.start < row.start /\ r.complete)
           /\ QuotesIn(rows) \cup row.quotes \subseteq QuotesIn(Replaced(rows, row))
<1> DEFINE new == Replaced(rows, row)
           kept == {r \in rows : r.start # row.start}
<1>1. \A r \in new : r = row \/ (r \in rows /\ r.start < row.start /\ r.complete /\ r.quotes \cap row.quotes = {})
  BY DEF BehindBar, Replaced
<1>2. row \in new /\ \A r \in rows : r.complete => r \in new
  BY DEF Replaced, BehindBar, BarType
<1>3. IsFiniteSet(new)
  <2>1. IsFiniteSet(kept)
    BY FS_Subset DEF Stored
  <2>2. QED
    BY <2>1, FS_AddElement DEF Replaced
<1>4. \A r \in rows : r \in new \/ r.quotes \subseteq row.quotes
  BY DEF Replaced, BehindBar, BarType
<1>5. QuotesIn(rows) \cup row.quotes \subseteq QuotesIn(new)
  BY <1>2, <1>4 DEF QuotesIn
<1> HIDE DEF new
<1>6. Stored(new)
  <2>1. \A q, r \in new : q # r => q.start # r.start /\ q.quotes \cap r.quotes = {}
    <3> SUFFICES ASSUME NEW q \in new, NEW r \in new, q # r
                 PROVE  q.start # r.start /\ q.quotes \cap r.quotes = {}
      OBVIOUS
    <3>1. \A x \in rows : x.start \in Nat
      BY DEF BarType
    <3>2. row.start \in Nat
      BY DEF BarType
    <3>3. CASE q = row
      BY <3>1, <3>2, <3>3, <1>1
    <3>4. CASE r = row
      BY <3>1, <3>2, <3>4, <1>1
    <3>5. CASE q # row /\ r # row
      BY <3>5, <1>1 DEF Stored
    <3>6. QED
      BY <3>3, <3>4, <3>5
  <2>2. \A q, r \in new : q # r /\ ~q.complete => r.start < q.start
    BY <1>1
  <2>3. QED
    BY <1>3, <2>1, <2>2 DEF Stored
<1>7. QED
  BY <1>1, <1>2, <1>5, <1>6 DEF new

\* The current bar is logged by a flush.
LEMMA BarLogged ==
    ASSUME NEW done, NEW rows, rows \subseteq BarType, Stored(rows),
           NEW bar \in BarType, AliveWith(done, <<bar>>, rows)
    PROVE  AliveWith(done, <<bar>>, Replaced(rows, bar)) /\ BehindBar(bar, rows)
<1> DEFINE new == Replaced(rows, bar)
<1>1. <<bar>> # <<>> /\ <<bar>>[1] = bar
  OBVIOUS
<1>2. BehindBar(bar, rows)
  BY <1>1 DEF AliveWith
<1>3. /\ \A r \in rows : r.complete => r \in new
      /\ \A r \in new : r = bar \/ (r \in rows /\ r.start < bar.start /\ r.complete)
      /\ Stored(new) /\ bar \in new
  BY <1>2, RowReplaced
<1> HIDE DEF new
<1>4. BehindBar(bar, new)
  <2>1. ~bar.complete /\ bar.start \in Nat
    BY <1>2 DEF BehindBar, BarType
  <2>2. ASSUME NEW r \in new, r # bar PROVE r.quotes \cap bar.quotes = {}
    BY <1>3, <2>2 DEF Stored
  <2>3. QED
    BY <1>3, <2>1, <2>2 DEF BehindBar
<1>5. \A r \in new : r.complete => r \in rows
  BY <1>2, <1>3 DEF BehindBar
<1>6. AliveWith(done, <<bar>>, new)
  BY <1>1, <1>3, <1>4, <1>5 DEF AliveWith
<1>7. QED
  BY <1>2, <1>6 DEF new

LEMMA PushedParts ==
    ASSUME NEW seq \in Seq(BarType), NEW bar \in BarType, Len(seq) <= BarsKept
    PROVE  /\ Pushed(seq, bar) \in Seq(BarType) /\ Len(Pushed(seq, bar)) <= BarsKept
           /\ Len(Pushed(seq, bar)) > 0 /\ Pushed(seq, bar)[Len(Pushed(seq, bar))] = bar
           /\ Len(seq) # BarsKept =>
                 /\ Len(Pushed(seq, bar)) = Len(seq) + 1
                 /\ \A i \in 1..Len(seq) : Pushed(seq, bar)[i] = seq[i]
           /\ Len(seq) = BarsKept =>
                 /\ Len(Pushed(seq, bar)) = Len(seq)
                 /\ \A i \in 1..(Len(seq) - 1) : Pushed(seq, bar)[i] = seq[i + 1]
<1> USE BarAssumption
<1>1. CASE Len(seq) < BarsKept
  BY <1>1 DEF Pushed
<1>2. CASE ~ Len(seq) < BarsKept
  <2>1. /\ Tail(seq) \in Seq(BarType) /\ Len(Tail(seq)) = Len(seq) - 1 /\ Len(seq) = BarsKept
        /\ \A i \in 1..(Len(seq) - 1) : Tail(seq)[i] = seq[i + 1]
    BY <1>2
  <2>2. Pushed(seq, bar) = Append(Tail(seq), bar)
    BY <1>2 DEF Pushed
  <2>3. QED
    BY <1>2, <2>1, <2>2
<1>3. QED
  BY <1>1, <1>2

\* The first quote of the next bar closes the current one.
LEMMA BarDone ==
    ASSUME NEW done \in Seq(BarType), Len(done) <= BarsKept, NEW rows, rows \subseteq BarType, Stored(rows),
           NEW old \in BarType, AliveWith(done, <<old>>, rows),
           NEW bar, bar.start \in Nat, ~bar.complete, old.start < bar.start,
           \A r \in rows \cup {old} : r.quotes \cap bar.quotes = {}
    PROVE  AliveWith(Pushed(done, Done(old)), <<bar>>, Replaced(rows, Done(old)))
<1> DEFINE row == Done(old)
           new == Replaced(rows, row)
           now2 == Pushed(done, row)
           m == Len(done)
           n == Len(now2)
<1>1. /\ row \in BarType /\ row.start = old.start /\ row.quotes = old.quotes /\ row.complete
      /\ old.start \in Nat
  <2>1. old.start \in Nat /\ old.quotes \subseteq 1..MaxQuotes /\ TRUE \in BOOLEAN
    BY DEF BarType
  <2>2. /\ Bar(old.start, old.quotes, TRUE).start = old.start
        /\ Bar(old.start, old.quotes, TRUE).quotes = old.quotes
        /\ Bar(old.start, old.quotes, TRUE).complete = TRUE
        /\ Bar(old.start, old.quotes, TRUE) \in BarType
    BY <2>1 DEF Bar, BarType
  <2>3. QED
    BY <2>1, <2>2 DEF Done
<1>2. <<bar>> # <<>> /\ <<bar>>[1] = bar /\ <<old>> # <<>> /\ <<old>>[1] = old
  OBVIOUS
<1>3. BehindBar(old, rows)
  BY <1>2 DEF AliveWith
<1> HIDE DEF row
<1>4. /\ \A r \in rows : r.complete => r \in new
      /\ \A r \in new : r = row \/ (r \in rows /\ r.start < row.start /\ r.complete)
      /\ Stored(new) /\ row \in new
  BY <1>1, <1>3, RowReplaced
<1>5. /\ n \in Nat /\ n > 0 /\ now2[n] = row /\ DOMAIN now2 = 1..n
      /\ m \in Nat /\ DOMAIN done = 1..m
      /\ m # BarsKept => n = m + 1 /\ \A i \in 1..m : now2[i] = done[i]
      /\ m = BarsKept => n = m /\ \A i \in 1..(m - 1) : now2[i] = done[i + 1]
  <2>1. now2 \in Seq(BarType) /\ n > 0 /\ now2[n] = row
    BY <1>1, PushedParts
  <2>2. m # BarsKept => n = m + 1 /\ \A i \in 1..m : now2[i] = done[i]
    BY <1>1, PushedParts
  <2>3. m = BarsKept => n = m /\ \A i \in 1..(m - 1) : now2[i] = done[i + 1]
    BY <1>1, PushedParts
  <2> HIDE DEF now2
  <2>4. DOMAIN now2 = 1..n /\ n \in Nat /\ DOMAIN done = 1..m /\ m \in Nat
    BY <2>1
  <2>5. QED
    BY <2>1, <2>2, <2>3, <2>4
<1> HIDE DEF new, now2, m, n
<1>7. \A i \in DOMAIN done : done[i] \in rows /\ done[i].complete /\ done[i].start < row.start
                             /\ done[i].start \in Nat
  BY <1>1, <1>3 DEF AliveWith, BehindBar, BarType
<1>8. \A i \in DOMAIN now2 : i = n \/ \E k \in DOMAIN done : now2[i] = done[k]
  <2> SUFFICES ASSUME NEW i \in DOMAIN now2, i # n
               PROVE  \E k \in DOMAIN done : now2[i] = done[k]
    OBVIOUS
  <2>1. CASE m # BarsKept
    <3>1. i \in DOMAIN done /\ now2[i] = done[i]
      BY <1>5, <2>1
    <3>2. QED
      BY <3>1
  <2>2. CASE m = BarsKept
    <3>1. i + 1 \in DOMAIN done /\ now2[i] = done[i + 1]
      BY <1>5, <2>2
    <3>2. QED
      BY <3>1
  <2>3. QED
    BY <2>1, <2>2
<1>9. Increasing(now2)
  <2> SUFFICES ASSUME NEW i \in DOMAIN now2, NEW j \in DOMAIN now2, i < j
               PROVE  now2[i].start < now2[j].start
    BY DEF Increasing
  <2>1. CASE j = n
    <3>1. i # n
      BY <1>5, <2>1
    <3>2. PICK k \in DOMAIN done : now2[i] = done[k]
      BY <1>8, <3>1
    <3>3. QED
      BY <1>5, <1>7, <2>1, <3>2
  <2>2. CASE j # n /\ m # BarsKept
    <3>1. i \in DOMAIN done /\ j \in DOMAIN done /\ now2[i] = done[i] /\ now2[j] = done[j]
      BY <1>5, <2>2
    <3>2. QED
      BY <3>1 DEF AliveWith, Increasing
  <2>3. CASE j # n /\ m = BarsKept
    <3>1. /\ i + 1 \in DOMAIN done /\ j + 1 \in DOMAIN done /\ i + 1 < j + 1
          /\ now2[i] = done[i + 1] /\ now2[j] = done[j + 1]
      BY <1>5, <2>3
    <3>2. QED
      BY <3>1 DEF AliveWith, Increasing
  <2>4. QED
    BY <2>1, <2>2, <2>3
<1>10. \A i \in DOMAIN now2 : now2[i] \in new /\ now2[i].complete
  BY <1>1, <1>4, <1>5, <1>7, <1>8
<1>11. ASSUME NEW r \in new
       PROVE  (\E i \in DOMAIN now2 : now2[i] = r) \/ (n = BarsKept /\ r.start < now2[1].start)
  <2>1. CASE r = row
    <3>1. n \in DOMAIN now2
      BY <1>5
    <3>2. QED
      BY <1>5, <2>1, <3>1
  <2>2. ASSUME NEW k \in DOMAIN done, done[k] = r
        PROVE  (\E i \in DOMAIN now2 : now2[i] = r) \/ (n = BarsKept /\ r.start < now2[1].start)
    <3>1. CASE m # BarsKept
      <4>1. k \in DOMAIN now2 /\ now2[k] = done[k]
        BY <1>5, <3>1
      <4>2. QED
        BY <2>2, <4>1
    <3>2. CASE m = BarsKept /\ k > 1
      <4>1. k - 1 \in DOMAIN now2 /\ now2[k - 1] = done[k]
        BY <1>5, <3>2
      <4>2. QED
        BY <2>2, <4>1
    <3>3. CASE m = BarsKept /\ k = 1
      <4>1. n = BarsKept /\ 1 \in DOMAIN now2
        BY <1>5, <3>3
      <4>2. now2[1] = row \/ (2 \in DOMAIN done /\ now2[1] = done[2])
        BY <1>5, <3>3
      <4>3. r.start < now2[1].start
        <5>1. CASE now2[1] = row
          BY <1>7, <2>2, <5>1
        <5>2. CASE 2 \in DOMAIN done /\ now2[1] = done[2]
          BY <2>2, <3>3, <5>2 DEF AliveWith, Increasing
        <5>3. QED
          BY <4>2, <5>1, <5>2
      <4>4. QED
        BY <4>1, <4>3
    <3>4. QED
      BY <1>5, <3>1, <3>2, <3>3
  <2>3. CASE r \in rows /\ r.complete /\ m = BarsKept /\ r.start < done[1].start
    <3>1. n = BarsKept /\ 1 \in DOMAIN now2 /\ 1 \in DOMAIN done
      BY <1>5, <2>3
    <3>2. now2[1] = row \/ (2 \in DOMAIN done /\ now2[1] = done[2])
      BY <1>5, <2>3
    <3>3. r.start \in Nat
      BY <2>3 DEF BarType
    <3>4. done[1].start < now2[1].start
      <4>1. CASE now2[1] = row
        BY <1>7, <3>1, <4>1
      <4>2. CASE 2 \in DOMAIN done /\ now2[1] = done[2]
        BY <3>1, <4>2 DEF AliveWith, Increasing
      <4>3. QED
        BY <3>2, <4>1, <4>2
    <3>5. now2[1].start \in Nat /\ done[1].start \in Nat
      BY <1>1, <1>7, <3>1, <3>2
    <3>6. QED
      BY <2>3, <3>1, <3>3, <3>4, <3>5
  <2>4. QED
    BY <1>4, <2>1, <2>2, <2>3 DEF AliveWith, m
<1>12. BehindBar(bar, new)
  <2>1. ASSUME NEW r \in new PROVE r.start < bar.start /\ r.complete /\ r.quotes \cap bar.quotes = {}
    <3>1. CASE r = row
      BY <1>1, <3>1
    <3>2. CASE r \in rows /\ r.start < row.start /\ r.complete
      <4>1. r.start \in Nat
        BY <3>2 DEF BarType
      <4>2. QED
        BY <1>1, <1>7, <3>2, <4>1
    <3>3. QED
      BY <1>4, <3>1, <3>2
  <2>2. QED
    BY <2>1 DEF BehindBar
<1>13. QED
  BY <1>2, <1>9, <1>10, <1>11, <1>12 DEF AliveWith, new, now2, row, n

\* The completed rows of a log, listed by start.
LEMMA CompletedListed ==
    ASSUME NEW tf \in Lengths, logged[tf] \subseteq BarType, Stored(logged[tf])
    PROVE  /\ CompletedByStart(tf) \in Seq(BarType) /\ Increasing(CompletedByStart(tf))
           /\ \A i \in DOMAIN CompletedByStart(tf) :
                 CompletedByStart(tf)[i] \in logged[tf] /\ CompletedByStart(tf)[i].complete
           /\ \A r \in logged[tf] : r.complete =>
                 \E i \in DOMAIN CompletedByStart(tf) : CompletedByStart(tf)[i] = r
<1> DEFINE S == {r \in logged[tf] : r.complete}
           f == [r \in S |-> -r.start]
           L == CompletedByStart(tf)
           n == Cardinality(S)
<1>1. IsFiniteSet(S) /\ S \subseteq BarType
  BY FS_Subset DEF Stored
<1>2. n \in Nat
  BY <1>1, FS_CardinalityType
<1>3. \A r \in S : r.start \in Nat /\ f[r] = -r.start
  BY <1>1 DEF BarType
<1>4. f \in [S -> Int] /\ \A x, y \in S : f[x] = f[y] => x = y
  <2>1. \A x, y \in S : x.start = y.start => x = y
    BY DEF Stored
  <2>2. f \in [S -> Int]
    <3>1. \A r \in S : r.start \in Nat
      BY <1>3
    <3>2. \A r \in S : -r.start \in Int
      <4> HIDE DEF S
      <4>1. QED
        BY <3>1
    <3> HIDE DEF S
    <3>3. QED
      BY <3>2
  <2>3. ASSUME NEW x \in S, NEW y \in S, f[x] = f[y] PROVE x.start = y.start
    BY <1>3, <2>3
  <2>4. QED
    BY <2>1, <2>2, <2>3
<1>5. ASSUME NEW r \in S PROVE {q \in S : q.start < r.start} = Above(S, f, r)
  <2>1. \A q \in S : q.start < r.start <=> f[q] > f[r]
    BY <1>3
  <2>2. QED
    BY <2>1 DEF Above
<1>6. L = [k \in 1..n |-> CHOOSE r \in S : Cardinality({q \in S : q.start < r.start}) = k - 1]
  BY DEF CompletedByStart
<1> HIDE DEF f, L
<1>7. ASSUME NEW k \in 1..n PROVE L[k] \in S /\ Cardinality(Above(S, f, L[k])) = k - 1
  <2>1. k - 1 \in 0..(n - 1)
    BY <1>2
  <2>2. \E r \in S : Cardinality(Above(S, f, r)) = k - 1
    <3> HIDE DEF S
    <3>1. QED
      BY <1>1, <1>4, <2>1, EveryRankTaken
  <2>3. \E r \in S : Cardinality({q \in S : q.start < r.start}) = k - 1
    BY <1>5, <2>2
  <2>4. L[k] = CHOOSE r \in S : Cardinality({q \in S : q.start < r.start}) = k - 1
    BY <1>6
  <2>5. L[k] \in S /\ Cardinality({q \in S : q.start < L[k].start}) = k - 1
    <3> HIDE DEF S
    <3>1. QED
      BY <2>3, <2>4
  <2>6. QED
    BY <1>5, <2>5
<1>8. L \in Seq(BarType) /\ DOMAIN L = 1..n
  <2>1. \A k \in 1..n : L[k] \in BarType
    BY <1>1, <1>7
  <2> DEFINE Picked(k) == CHOOSE r \in S : Cardinality({q \in S : q.start < r.start}) = k - 1
  <2>2. L = [k \in 1..n |-> Picked(k)]
    BY <1>6
  <2> HIDE DEF Picked, S, n
  <2>3. DOMAIN L = 1..n /\ L \in [1..n -> BarType]
    BY <2>1, <2>2
  <2>4. QED
    BY <1>2, <2>3
<1>9. /\ \A k, l \in 1..n : k < l => f[L[k]] > f[L[l]]
      /\ \A x \in S : \E k \in 1..n : L[k] = x
  <2> HIDE DEF S
  <2>1. QED
    BY <1>1, <1>4, <1>7, RanksOrder
<1>10. Increasing(L)
  <2>1. ASSUME NEW k \in 1..n, NEW l \in 1..n, k < l PROVE L[k].start < L[l].start
    <3>1. L[k] \in S /\ L[l] \in S /\ f[L[k]] > f[L[l]]
      BY <1>7, <1>9, <2>1
    <3>2. QED
      BY <1>3, <3>1
  <2>2. QED
    BY <1>8, <2>1 DEF Increasing
<1>11. QED
  BY <1>7, <1>8, <1>9, <1>10 DEF L

\* The newest of them, as many as are kept.
LEMMA LoadedParts ==
    ASSUME NEW tf \in Lengths, logged[tf] \subseteq BarType, Stored(logged[tf])
    PROVE  /\ LoadedClosed(tf) \in Seq(BarType) /\ Len(LoadedClosed(tf)) <= BarsKept
           /\ Increasing(LoadedClosed(tf))
           /\ \A i \in DOMAIN LoadedClosed(tf) :
                 LoadedClosed(tf)[i] \in logged[tf] /\ LoadedClosed(tf)[i].complete
           /\ \A r \in logged[tf] : r.complete =>
                 \/ \E i \in DOMAIN LoadedClosed(tf) : LoadedClosed(tf)[i] = r
                 \/ Len(LoadedClosed(tf)) = BarsKept /\ r.start < LoadedClosed(tf)[1].start
<1> DEFINE B == CompletedByStart(tf)
           n == Len(B)
           m == Max({1, n - BarsKept + 1})
           C == LoadedClosed(tf)
<1>1. /\ B \in Seq(BarType) /\ Increasing(B)
      /\ \A i \in DOMAIN B : B[i] \in logged[tf] /\ B[i].complete
      /\ \A r \in logged[tf] : r.complete => \E i \in DOMAIN B : B[i] = r
  BY CompletedListed
<1>2. BarsKept \in Nat /\ BarsKept > 0
  BY BarAssumption
<1>3. C = SubSeq(B, m, n)
  BY DEF LoadedClosed
<1> HIDE DEF B, C
<1>4. n \in Nat /\ DOMAIN B = 1..n
  BY <1>1
<1>5. m \in Nat /\ m >= 1 /\ (m = 1 \/ m = n - BarsKept + 1) /\ m >= n - BarsKept + 1
  <2>1. 1 \in Int /\ n - BarsKept + 1 \in Int
    BY <1>2, <1>4
  <2> DEFINE b == n - BarsKept + 1
  <2> HIDE DEF b
  <2>2. Max({1, b}) \in Int /\ Max({1, b}) \in {1, b} /\ Max({1, b}) >= 1 /\ Max({1, b}) >= b
    BY <2>1, OfTwo DEF b
  <2>3. QED
    BY <2>2 DEF b
<1> HIDE DEF m
<1>6. /\ C \in Seq(BarType) /\ Len(C) = n - m + 1
      /\ \A i \in 1..(n - m + 1) : C[i] = B[i + m - 1]
  <2>1. m <= n + 1 /\ n - m + 1 \in Nat
    BY <1>2, <1>4, <1>5
  <2>2. \A i \in 1..(n - m + 1) : B[i + m - 1] \in BarType
    BY <1>1, <1>4, <1>5, <2>1
  <2>3. C = [i \in 1..(n - m + 1) |-> B[i + m - 1]]
    <3> HIDE DEF n
    <3>1. QED
      BY <1>3, <1>4, <1>5 DEF SubSeq
  <2>4. QED
    BY <2>1, <2>2, <2>3
<1> DEFINE c == n - m + 1
<1>7. c \in Nat /\ DOMAIN C = 1..c /\ c <= BarsKept
  BY <1>2, <1>4, <1>5, <1>6
<1>8. \A i \in 1..c : i + m - 1 \in DOMAIN B /\ C[i] = B[i + m - 1]
  BY <1>4, <1>5, <1>6
<1>9. Increasing(C)
  <2> SUFFICES ASSUME NEW i \in 1..c, NEW j \in 1..c, i < j PROVE C[i].start < C[j].start
    BY <1>7 DEF Increasing
  <2>1. i + m - 1 < j + m - 1
    BY <1>5
  <2>2. QED
    BY <1>1, <1>8, <2>1 DEF Increasing
<1>10. ASSUME NEW r \in logged[tf], r.complete
       PROVE  (\E i \in 1..c : C[i] = r) \/ (c = BarsKept /\ r.start < C[1].start)
  <2>1. PICK k \in DOMAIN B : B[k] = r
    BY <1>1, <1>10
  <2>2. CASE k >= m
    <3>1. k - m + 1 \in 1..c /\ (k - m + 1) + m - 1 = k
      BY <1>4, <1>5, <2>2
    <3>2. C[k - m + 1] = r
      BY <1>8, <2>1, <3>1
    <3>3. QED
      BY <3>1, <3>2
  <2>3. CASE k < m
    <3>1. m > 1 /\ c = BarsKept /\ 1 \in 1..c /\ 1 + m - 1 = m
      BY <1>2, <1>4, <1>5, <2>3
    <3>2. m \in DOMAIN B /\ C[1] = B[m]
      BY <1>8, <3>1
    <3>3. r.start < C[1].start
      BY <1>1, <2>1, <2>3, <3>2 DEF Increasing
    <3>4. QED
      BY <3>1, <3>3
  <2>4. QED
    BY <1>4, <1>5, <2>2, <2>3
<1>11. \A i \in DOMAIN C : C[i] \in logged[tf] /\ C[i].complete
  BY <1>1, <1>7, <1>8
<1>12. QED
  BY <1>6, <1>7, <1>9, <1>10, <1>11 DEF C

\* Of one row at most the bar is still open.
LEMMA SmallSequences ==
    ASSUME NEW S, NEW r
    PROVE  (S = {} => SetToSeq(S) = <<>>) /\ (S = {r} => SetToSeq(S) = <<r>>)
<1>1. CASE S = {}
  <2>1. Cardinality(S) = 0
    BY <1>1, FS_EmptySet
  <2>2. <<>> \in [1..Cardinality(S) -> S] /\ IsInjective(<<>>)
    BY <1>1, <2>1 DEF IsInjective
  <2>3. SetToSeq(S) \in [1..Cardinality(S) -> S]
    BY <2>2 DEF SetToSeq
  <2> DEFINE s == SetToSeq(S)
  <2> HIDE DEF s
  <2>4. s \in [1..0 -> S]
    BY <2>1, <2>3 DEF s
  <2>5. s \in Seq(S) /\ Len(s) = 0
    BY <2>4
  <2>6. s = <<>>
    BY <2>5
  <2>7. S # {r}
    BY <1>1
  <2>8. QED
    BY <2>6, <2>7 DEF s
<1>2. CASE S = {r}
  <2>1. Cardinality(S) = 1
    BY <1>2, FS_Singleton
  <2>2. <<r>> \in [1..Cardinality(S) -> S] /\ IsInjective(<<r>>)
    BY <1>2, <2>1 DEF IsInjective
  <2>3. SetToSeq(S) \in [1..Cardinality(S) -> S]
    BY <2>2 DEF SetToSeq
  <2> DEFINE s == SetToSeq(S)
  <2> HIDE DEF s
  <2>4. s \in [1..1 -> S]
    BY <2>1, <2>3 DEF s
  <2>5. s \in Seq(S) /\ Len(s) = 1 /\ s[1] = r
    BY <1>2, <2>4
  <2>6. s = <<r>>
    BY <2>5
  <2>7. S # {}
    BY <1>2
  <2>8. QED
    BY <2>6, <2>7 DEF s
<1>3. QED
  BY <1>1, <1>2

\* What a process loads is what it would have had.
LEMMA BarsLoaded ==
    ASSUME NEW tf \in Lengths, logged[tf] \subseteq BarType, Stored(logged[tf])
    PROVE  /\ \/ SetToSeq(LoadedCurrent(tf)) = <<>>
              \/ \E r \in logged[tf] : SetToSeq(LoadedCurrent(tf)) = <<r>>
           /\ AliveWith(LoadedClosed(tf), SetToSeq(LoadedCurrent(tf)), logged[tf])
<1> DEFINE U == LoadedCurrent(tf)
           C == LoadedClosed(tf)
<1>1. /\ Increasing(C) /\ \A i \in DOMAIN C : C[i] \in logged[tf] /\ C[i].complete
      /\ \A r \in logged[tf] : r.complete => \/ \E i \in DOMAIN C : C[i] = r
                                             \/ Len(C) = BarsKept /\ r.start < C[1].start
  BY LoadedParts
<1> HIDE DEF C
<1>2. \A r \in logged[tf] : r.start \in Nat /\ r.complete \in BOOLEAN /\ r.quotes \subseteq Nat
  BY DEF BarType
<1>3. CASE \A r \in logged[tf] : r.complete
  <2>1. U = {}
    BY <1>3 DEF LoadedCurrent
  <2>2. SetToSeq(U) = <<>>
    BY <2>1, SmallSequences
  <2>3. QED
    BY <1>1, <1>3, <2>2 DEF AliveWith, C
<1>4. ASSUME NEW r \in logged[tf], ~r.complete
      PROVE  /\ SetToSeq(U) = <<r>>
             /\ AliveWith(C, SetToSeq(U), logged[tf])
  <2>1. \A q \in logged[tf] : q # r => q.start < r.start /\ q.quotes \cap r.quotes = {}
    BY <1>4 DEF Stored
  <2>2. \A q \in logged[tf] : q # r => q.complete
    <3> SUFFICES ASSUME NEW q \in logged[tf], q # r, ~q.complete PROVE FALSE
      BY <1>2
    <3>1. r.start < q.start /\ q.start < r.start
      BY <2>1 DEF Stored
    <3>2. QED
      BY <1>2, <3>1
  <2>3. U = {r}
    BY <1>4, <2>1, <2>2 DEF LoadedCurrent
  <2>4. SetToSeq(U) = <<r>>
    BY <2>3, SmallSequences
  <2>5. BehindBar(r, logged[tf])
    BY <1>4, <2>1, <2>2 DEF BehindBar
  <2>6. <<r>> # <<>> /\ <<r>>[1] = r
    OBVIOUS
  <2>7. QED
    BY <1>1, <2>4, <2>5, <2>6 DEF AliveWith
<1>5. QED
  BY <1>3, <1>4 DEF C

-----------------------------------------------------------------------------
(* The state of one timeframe.                                             *)

LEMMA Divided ==
    ASSUME NEW t \in Nat, NEW m \in Nat \ {0}
    PROVE  /\ t % m \in 0..(m - 1) /\ t \div m \in Nat /\ t = m * (t \div m) + (t % m)
OBVIOUS

\* Starts of bars follow the times they are of.
LEMMA Floors ==
    ASSUME NEW t \in Nat, NEW u \in Nat, NEW m \in Nat \ {0}, t <= u
    PROVE  FloorTime(t, m) \in Nat /\ FloorTime(t, m) <= t /\ FloorTime(t, m) <= FloorTime(u, m)
<1> DEFINE p == t \div m
           q == u \div m
           a == t % m
           b == u % m
<1>1. a \in 0..(m - 1) /\ b \in 0..(m - 1) /\ p \in Nat /\ q \in Nat /\ t = m * p + a /\ u = m * q + b
  BY Divided
<1>2. FloorTime(t, m) = t - a /\ FloorTime(u, m) = u - b
  BY DEF FloorTime
<1> HIDE DEF a, b, p, q
<1>3. t - a = m * p /\ u - b = m * q /\ m * p \in Nat /\ m * q \in Nat
  BY <1>1
<1>4. m * p <= m * q
  <2> SUFFICES ASSUME q < p PROVE FALSE
    <3>1. p <= q => m * p <= m * q
      BY <1>1
    <3>2. QED
      BY <1>1, <3>1
  <2> DEFINE d == p - q - 1
  <2>1. d \in Nat /\ p = q + 1 + d
    BY <1>1
  <2> HIDE DEF d
  <2>2. m * p = m * q + m + m * d
    BY <2>1, <1>1
  <2>3. m * d \in Nat
    BY <2>1
  <2>4. QED
    BY <1>1, <1>3, <2>2, <2>3
<1>5. QED
  BY <1>1, <1>2, <1>3, <1>4

LEMMA LengthsTyped ==
    /\ Lengths \subseteq Nat \ {0} /\ Timeframes \in Seq(Lengths) /\ Range(Timeframes) = Lengths
    /\ \A i, j \in DOMAIN Timeframes : Timeframes[i] = Timeframes[j] => i = j
BY BarAssumption DEF Lengths, Range, IsInjective

\* What is left after the first of a list of timeframes.
LEMMA FirstOfList ==
    ASSUME NEW list \in Seq(Lengths), list # <<>>, \A i, j \in DOMAIN list : list[i] = list[j] => i = j
    PROVE  /\ Head(list) \in Lengths /\ Head(list) \in Range(list)
           /\ Tail(list) \in Seq(Lengths) /\ Range(Tail(list)) = Range(list) \ {Head(list)}
           /\ \A i, j \in DOMAIN Tail(list) : Tail(list)[i] = Tail(list)[j] => i = j
<1> DEFINE n == Len(list)
           rest == Tail(list)
<1>1. n \in Nat /\ n > 0 /\ DOMAIN list = 1..n /\ Head(list) = list[1]
  OBVIOUS
<1>2. rest \in Seq(Lengths) /\ DOMAIN rest = 1..(n - 1) /\ \A i \in 1..(n - 1) : rest[i] = list[i + 1]
  OBVIOUS
<1> HIDE DEF n, rest
<1>3. Head(list) \in Lengths /\ Head(list) \in Range(list)
  BY <1>1 DEF Range
<1>4. ASSUME NEW i \in DOMAIN rest, NEW j \in DOMAIN rest, rest[i] = rest[j] PROVE i = j
  <2>1. i + 1 \in DOMAIN list /\ j + 1 \in DOMAIN list /\ list[i + 1] = list[j + 1]
    BY <1>1, <1>2, <1>4
  <2>2. i + 1 = j + 1 /\ i \in Int /\ j \in Int
    BY <1>2, <2>1
  <2>3. QED
    BY <2>2
<1>5. ASSUME NEW x \in Range(rest) PROVE x \in Range(list) /\ x # Head(list)
  <2>1. PICK i \in 1..(n - 1) : x = list[i + 1]
    BY <1>2, <1>5 DEF Range
  <2>2. i + 1 \in DOMAIN list /\ 1 \in DOMAIN list /\ i + 1 # 1
    BY <1>1
  <2>3. QED
    BY <1>1, <2>1, <2>2 DEF Range
<1>6. ASSUME NEW x \in Range(list), x # Head(list) PROVE x \in Range(rest)
  <2>1. PICK i \in 1..n : x = list[i]
    BY <1>1, <1>6 DEF Range
  <2>2. i - 1 \in 1..(n - 1) /\ (i - 1) + 1 = i
    BY <1>1, <1>6, <2>1
  <2>3. rest[i - 1] = x
    BY <1>2, <2>1, <2>2
  <2>4. QED
    BY <1>2, <2>2, <2>3 DEF Range
<1>7. QED
  BY <1>2, <1>3, <1>4, <1>5, <1>6 DEF rest

LEMMA NoneLeft == Range(<<>>) = {}
BY DEF Range

LEMMA OneElement ==
    ASSUME NEW T, NEW s, s \in Seq(T), Len(s) <= 1, s # <<>>
    PROVE  s[1] \in T /\ s = <<s[1]>>
<1> DEFINE n == Len(s)
<1>1. n \in Nat /\ n # 0 /\ n <= 1
  OBVIOUS
<1> HIDE DEF n
<1>2. n = 1
  BY <1>1
<1>3. Len(s) = 1
  BY <1>2 DEF n
<1>4. QED
  BY <1>3

\* The parts of a timeframe have their types.
LEMMA TimeframeTyped ==
    ASSUME BarsTypeOK, NEW tf \in Lengths
    PROVE  /\ tf \in Nat \ {0} /\ now \in Nat /\ quote \in Nat /\ serial \in Nat /\ downSince \in Nat
           /\ logged[tf] \subseteq BarType
           /\ closed[tf] \in Seq(BarType) /\ Len(closed[tf]) <= BarsKept
           /\ csv[tf] \in Seq(BarType) /\ durable[tf] \subseteq 1..MaxQuotes
           /\ current[tf] = <<>> \/ \E bar \in BarType : current[tf] = <<bar>>
<1>1. tf \in Nat \ {0}
  BY LengthsTyped
<1>2. current[tf] \in Seq(BarType) /\ Len(current[tf]) <= 1
  BY DEF BarsTypeOK
<1>3. CASE current[tf] # <<>>
  <2>1. current[tf] = <<current[tf][1]>> /\ current[tf][1] \in BarType
    BY <1>2, <1>3, OneElement
  <2>2. QED
    BY <1>1, <2>1 DEF BarsTypeOK
<1>4. QED
  BY <1>1, <1>3 DEF BarsTypeOK

\* A step that leaves the bars and the files of a timeframe alone, and does
\* not end or start the process, lets no quote wait that did not.
LEMMA TimeframeUntouched ==
    ASSUME BarsTypeOK, NEW tf \in Lengths, TimeframeSound(tf), LateEnough(tf),
           current'[tf] = current[tf], closed'[tf] = closed[tf], logged'[tf] = logged[tf],
           csv'[tf] = csv[tf], durable'[tf] = durable[tf],
           now' \in Nat, now <= now', downSince' = downSince, pc = "down" <=> pc' = "down",
           Counted(tf) \subseteq Counted(tf)', Waits(tf)' => Waits(tf) /\ quote' = quote
    PROVE  TimeframeSound(tf)' /\ LateEnough(tf)'
<1>1. TimeframeSound(tf)'
  BY DEF TimeframeSound
<1>2. /\ tf \in Nat \ {0} /\ now \in Nat /\ downSince \in Nat /\ MaxSkew \in Nat /\ MaxQuoteAge \in Nat
      /\ \A r \in logged[tf] : r.start \in Nat
  BY TimeframeTyped, BarAssumption DEF BarType
<1>3. Horizon \in Nat /\ Horizon' \in Nat /\ Horizon <= Horizon'
  BY <1>2 DEF Horizon
<1>4. /\ FloorTime(Horizon, tf) \in Nat /\ FloorTime(Horizon', tf) \in Nat
      /\ FloorTime(Horizon, tf) <= FloorTime(Horizon', tf)
  BY <1>2, <1>3, Floors
<1>5. ASSUME NEW r \in logged[tf], r.complete PROVE r.start < FloorTime(Horizon', tf)
  BY <1>2, <1>4, <1>5 DEF LateEnough
<1>6. ASSUME pc # "down", current[tf] = <<>>, NEW t \in Nat, now' <= t + MaxQuoteAge, NEW r \in logged[tf]
      PROVE  r.start < FloorTime(t, tf)
  <2>1. now <= t + MaxQuoteAge
    BY <1>2, <1>6
  <2>2. QED
    BY <1>6, <2>1 DEF LateEnough
<1>7. ASSUME pc # "down", current[tf] = <<>>, Waits(tf)', NEW r \in logged[tf]
      PROVE  r.start < FloorTime(quote', tf)
  BY <1>7 DEF LateEnough
<1>8. QED
  BY <1>1, <1>5, <1>6, <1>7 DEF LateEnough, FloorTime

\* A quote is applied to the timeframe whose turn it is.
LEMMA ApplyToHead ==
    ASSUME BuilderSound, ApplyToTimeframe, NEW tf \in Lengths, tf = Head(todo)
    PROVE  /\ TimeframeSound(tf)' /\ LateEnough(tf)'
           /\ closed'[tf] \in Seq(BarType) /\ Len(closed'[tf]) <= BarsKept
           /\ current'[tf] \in Seq(BarType) /\ Len(current'[tf]) <= 1
           /\ logged'[tf] \subseteq BarType
<1> DEFINE C == closed[tf]
           L == logged[tf]
           start == FloorTime(quote, tf)
           bar == Bar(start, {serial}, FALSE)
<1>1. /\ pc = "apply" /\ todo \in Seq(Lengths) /\ todo # <<>> /\ todo' = Tail(todo) /\ pc' = pc
      /\ UNCHANGED <<now, quote, serial, downSince, csv, durable>>
      /\ \A i, j \in DOMAIN todo : todo[i] = todo[j] => i = j
      /\ quote <= now + MaxSkew /\ serial > 0 /\ serial \in 1..MaxQuotes
  BY DEF BuilderSound, BarsTypeOK, ControlSound, ApplyToTimeframe
<1>2. Waits(tf) /\ ~Waits(tf)'
  BY <1>1, FirstOfList DEF Waits
<1>3. Counted(tf) = 1..(serial - 1) /\ Counted(tf)' = 1..serial /\ Horizon' = Horizon /\ Horizon = now + MaxSkew
  BY <1>1, <1>2 DEF Counted, Horizon
<1>4. /\ tf \in Nat \ {0} /\ now \in Nat /\ quote \in Nat /\ serial \in Nat
      /\ L \subseteq BarType /\ C \in Seq(BarType) /\ Len(C) <= BarsKept
      /\ current[tf] = <<>> \/ \E b \in BarType : current[tf] = <<b>>
      /\ tf \in DOMAIN current /\ tf \in DOMAIN closed /\ tf \in DOMAIN logged
  BY TimeframeTyped DEF BuilderSound, BarsTypeOK
<1>5. /\ TimeframeSound(tf) /\ LateEnough(tf) /\ Stored(L) /\ AliveWith(C, current[tf], L)
      /\ \A r \in L \cup Range(current[tf]) : r.quotes \subseteq 1..(serial - 1)
      /\ durable[tf] \subseteq QuotesIn(L)
      /\ \A i \in DOMAIN csv[tf] : csv[tf][i].complete => csv[tf][i] \in L
  BY <1>1, <1>3 DEF BuilderSound, TimeframeSound
<1>6. start \in Nat /\ start <= FloorTime(Horizon, tf) /\ FloorTime(Horizon, tf) \in Nat
  <2>1. quote \in Nat /\ Horizon \in Nat /\ quote <= Horizon
    BY <1>1, <1>3, <1>4, BarAssumption
  <2>2. QED
    BY <1>4, <2>1, Floors
<1>7. bar.start = start /\ bar.quotes = {serial} /\ ~bar.complete /\ bar \in BarType
  <2>1. FALSE \in BOOLEAN /\ {serial} \subseteq 1..MaxQuotes
    BY <1>1
  <2>2. QED
    BY <1>6, <2>1 DEF Bar, BarType
<1>8. \A r \in L \cup Range(current[tf]) : serial \notin r.quotes
  BY <1>4, <1>5
<1>9. \A r \in L : r.complete => r.start < FloorTime(Horizon, tf)
  BY <1>5 DEF LateEnough
<1>10. ASSUME NEW b, current'[tf] = <<b>>, b \in BarType, b.quotes \subseteq 1..serial,
              closed'[tf] \in Seq(BarType), Len(closed'[tf]) <= BarsKept,
              logged'[tf] \subseteq BarType, Stored(logged'[tf]),
              AliveWith(closed'[tf], <<b>>, logged'[tf]),
              \A r \in logged'[tf] : r.quotes \subseteq 1..serial,
              QuotesIn(L) \subseteq QuotesIn(logged'[tf]), \A r \in L : r.complete => r \in logged'[tf],
              \A r \in logged'[tf] : r.complete => r.start < FloorTime(Horizon, tf)
       PROVE  /\ TimeframeSound(tf)' /\ LateEnough(tf)'
              /\ closed'[tf] \in Seq(BarType) /\ Len(closed'[tf]) <= BarsKept
              /\ current'[tf] \in Seq(BarType) /\ Len(current'[tf]) <= 1
              /\ logged'[tf] \subseteq BarType
  <2>1. Range(<<b>>) = {b} /\ <<b>> # <<>> /\ <<b>> \in Seq(BarType) /\ Len(<<b>>) <= 1
    BY <1>10 DEF Range
  <2>2. \A r \in logged'[tf] \cup Range(current'[tf]) : r.quotes \subseteq Counted(tf)'
    BY <1>3, <1>10, <2>1
  <2>3. \A i \in DOMAIN csv'[tf] : csv'[tf][i].complete => csv'[tf][i] \in logged'[tf]
    BY <1>1, <1>5, <1>10
  <2>4. durable'[tf] \subseteq QuotesIn(logged'[tf])
    BY <1>1, <1>5, <1>10
  <2>5. TimeframeSound(tf)'
    BY <1>1, <1>10, <2>2, <2>3, <2>4 DEF TimeframeSound, QuotesIn
  <2>6. LateEnough(tf)'
    <3>1. \A r \in logged'[tf] : r.complete => r.start < FloorTime(Horizon', tf)
      BY <1>3, <1>10
    <3>2. QED
      BY <1>10, <2>1, <3>1 DEF LateEnough, FloorTime
  <2>7. QED
    BY <1>10, <2>1, <2>5, <2>6
<1>11. \A r \in L : r.quotes \subseteq 1..serial
  BY <1>4, <1>5
<1>12. CASE current[tf] = <<>>
  <2>1. closed' = closed /\ logged' = logged /\ current' = [current EXCEPT ![tf] = <<bar>>]
    BY <1>12 DEF ApplyToTimeframe, ApplyQuote
  <2>2. current'[tf] = <<bar>> /\ closed'[tf] = C /\ logged'[tf] = L
    BY <1>4, <2>1
  <2> HIDE DEF bar, C, L
  <2>3. \A r \in L : r.start < bar.start /\ r.quotes \cap bar.quotes = {}
    BY <1>1, <1>2, <1>5, <1>7, <1>8, <1>12 DEF LateEnough, L
  <2>4. AliveWith(C, <<bar>>, L)
    BY <1>5, <1>7, <1>12, <2>3, FirstBar
  <2>5. bar.quotes \subseteq 1..serial
    BY <1>1, <1>7
  <2>6. QED
    BY <1>4, <1>5, <1>7, <1>9, <1>10, <1>11, <2>2, <2>4, <2>5
<1>13. ASSUME NEW old \in BarType, current[tf] = <<old>>
       PROVE  /\ TimeframeSound(tf)' /\ LateEnough(tf)'
              /\ closed'[tf] \in Seq(BarType) /\ Len(closed'[tf]) <= BarsKept
              /\ current'[tf] \in Seq(BarType) /\ Len(current'[tf]) <= 1
              /\ logged'[tf] \subseteq BarType
  <2>1. Head(current[tf]) = old /\ current[tf] # <<>> /\ Range(current[tf]) = {old}
        /\ current[tf][1] = old
    BY <1>13 DEF Range
  <2>2. /\ old.start \in Nat /\ old.quotes \subseteq 1..(serial - 1) /\ serial \notin old.quotes
        /\ old.quotes \subseteq 1..serial /\ old.quotes \subseteq 1..MaxQuotes
        /\ BehindBar(old, L)
    BY <1>4, <1>5, <1>8, <2>1 DEF BarType, AliveWith
  <2>3. AliveWith(C, <<old>>, L)
    BY <1>5, <1>13
  <2>4. CASE start < old.start /\ UNCHANGED <<memory, logged>>
    <3>1. current'[tf] = <<old>> /\ closed'[tf] = C /\ logged'[tf] = L
      BY <1>13, <2>4 DEF memory
    <3> HIDE DEF C, L
    <3>2. QED
      BY <1>4, <1>5, <1>9, <1>10, <1>11, <1>13, <2>2, <2>3, <3>1
  <2>5. CASE /\ OpensNextBar(tf)
             /\ closed' = [closed EXCEPT ![tf] = Pushed(@, Done(old))]
             /\ logged' = [logged EXCEPT ![tf] = Rewritten(tf, Done(old))]
             /\ current' = [current EXCEPT ![tf] = <<bar>>]
    <3> DEFINE row == Done(old)
    <3>1. old.start < start
      BY <1>6, <2>1, <2>2, <2>5 DEF OpensNextBar
    <3>2. current'[tf] = <<bar>> /\ closed'[tf] = Pushed(C, row) /\ logged'[tf] = Replaced(L, row)
      BY <1>4, <2>5 DEF Rewritten, Replaced
    <3>3. row \in BarType /\ row.start = old.start /\ row.quotes = old.quotes /\ row.complete
      <4>1. TRUE \in BOOLEAN
        OBVIOUS
      <4>2. QED
        BY <2>2, <4>1 DEF Done, Bar, BarType
    <3> HIDE DEF row, bar, C, L
    <3>4. /\ Pushed(C, row) \in Seq(BarType) /\ Len(Pushed(C, row)) <= BarsKept
      BY <1>4, <3>3, PushedParts
    <3>5. /\ Stored(Replaced(L, row))
          /\ \A r \in L : r.complete => r \in Replaced(L, row)
          /\ \A r \in Replaced(L, row) : r = row \/ (r \in L /\ r.start < row.start /\ r.complete)
          /\ QuotesIn(L) \cup row.quotes \subseteq QuotesIn(Replaced(L, row))
      BY <1>4, <1>5, <2>2, <3>3, RowReplaced
    <3>6. AliveWith(Pushed(C, row), <<bar>>, Replaced(L, row))
      <4>1. \A r \in L \cup {old} : r.quotes \cap bar.quotes = {}
        BY <1>7, <1>8, <2>1 DEF L
      <4>2. bar.start \in Nat /\ old.start < bar.start
        BY <1>6, <1>7, <3>1
      <4>3. QED
        BY <1>4, <1>5, <1>7, <2>3, <4>1, <4>2, BarDone DEF row
    <3>7. \A r \in Replaced(L, row) : r \in BarType /\ r.quotes \subseteq 1..serial
      BY <1>4, <1>11, <2>2, <3>3, <3>5
    <3>8. \A r \in Replaced(L, row) : r.complete => r.start < FloorTime(Horizon, tf)
      BY <1>6, <1>9, <2>2, <3>1, <3>3, <3>5
    <3>9. bar.quotes \subseteq 1..serial
      BY <1>1, <1>7
    <3>10. QED
      BY <1>7, <1>10, <3>2, <3>4, <3>5, <3>6, <3>7, <3>8, <3>9
  <2>6. CASE /\ start = old.start /\ UNCHANGED <<closed, logged>>
             /\ current' = [current EXCEPT ![tf] = <<Bar(start, old.quotes \cup {serial}, old.complete)>>]
    <3> DEFINE more == Bar(start, old.quotes \cup {serial}, old.complete)
    <3>1. current'[tf] = <<more>> /\ closed'[tf] = C /\ logged'[tf] = L
      BY <1>4, <2>6
    <3>2. /\ more.start = old.start /\ more.quotes = old.quotes \cup {serial} /\ more.complete = old.complete
          /\ more \in BarType /\ ~old.complete
      BY <1>1, <1>6, <2>2, <2>6 DEF Bar, BarType, BehindBar
    <3> HIDE DEF more, C, L
    <3>3. AliveWith(C, <<more>>, L)
      BY <1>8, <2>3, <3>2, MoreInBar DEF L
    <3>4. more.quotes \subseteq 1..serial
      BY <1>1, <2>2, <3>2
    <3>5. QED
      BY <1>4, <1>5, <1>9, <1>10, <1>11, <3>1, <3>2, <3>3, <3>4
  <2>7. QED
    BY <2>1, <2>4, <2>5, <2>6 DEF ApplyToTimeframe, ApplyQuote, Done
<1>14. QED
  BY <1>4, <1>12, <1>13

\* A flush logs the current bar of a timeframe.
LEMMA LogOfHead ==
    ASSUME BuilderSound, LogCurrent, NEW tf \in Lengths, tf = Head(todo)
    PROVE  /\ TimeframeSound(tf)' /\ LateEnough(tf)'
           /\ logged'[tf] \subseteq BarType /\ durable'[tf] \subseteq 1..MaxQuotes
           /\ QuotesIn(Range(current'[tf])) \subseteq QuotesIn(logged'[tf])
<1> DEFINE C == closed[tf]
           L == logged[tf]
           N == logged'[tf]
<1>1. /\ pc = "flush" /\ pc' = "csv"
      /\ UNCHANGED <<now, quote, serial, todo, downSince, current, closed, csv>>
  BY DEF LogCurrent, memory
<1>2. /\ Counted(tf) = 1..serial /\ Counted(tf)' = 1..serial
      /\ Horizon' = Horizon /\ ~Waits(tf)'
  BY <1>1 DEF Counted, Horizon, Waits
<1>3. /\ L \subseteq BarType /\ C \in Seq(BarType) /\ durable[tf] \subseteq 1..MaxQuotes
      /\ current[tf] = <<>> \/ \E b \in BarType : current[tf] = <<b>>
      /\ tf \in DOMAIN logged /\ tf \in DOMAIN durable
  BY TimeframeTyped DEF BuilderSound, BarsTypeOK
<1>4. /\ TimeframeSound(tf) /\ LateEnough(tf) /\ Stored(L) /\ AliveWith(C, current[tf], L)
      /\ \A r \in L \cup Range(current[tf]) : r.quotes \subseteq 1..serial
      /\ durable[tf] \subseteq QuotesIn(L)
      /\ \A i \in DOMAIN csv[tf] : csv[tf][i].complete => csv[tf][i] \in L
  BY <1>1, <1>2 DEF BuilderSound, TimeframeSound
<1>5. CASE current[tf] = <<>>
  <2>1. N = L /\ durable'[tf] = durable[tf] \cup QuotesIn(Range(<<>>))
    BY <1>3, <1>5 DEF LogCurrent
  <2>2. QuotesIn(Range(<<>>)) = {}
    BY NoneLeft DEF QuotesIn
  <2>3. durable'[tf] = durable[tf]
    BY <2>1, <2>2
  <2>4. TimeframeSound(tf)' /\ LateEnough(tf)'
    BY <1>1, <1>2, <1>4, <2>1, <2>3 DEF TimeframeSound, LateEnough, FloorTime
  <2>5. QED
    BY <1>1, <1>3, <1>5, <2>1, <2>2, <2>3, <2>4
<1>6. ASSUME NEW bar \in BarType, current[tf] = <<bar>>
      PROVE  /\ TimeframeSound(tf)' /\ LateEnough(tf)'
             /\ logged'[tf] \subseteq BarType /\ durable'[tf] \subseteq 1..MaxQuotes
             /\ QuotesIn(Range(current'[tf])) \subseteq QuotesIn(logged'[tf])
  <2>1. Head(current[tf]) = bar /\ current[tf] # <<>> /\ Range(current[tf]) = {bar}
    BY <1>6 DEF Range
  <2>2. QuotesIn({bar}) = bar.quotes /\ bar.quotes \subseteq 1..MaxQuotes /\ bar.start \in Nat
    BY DEF QuotesIn, BarType
  <2>3. N = Replaced(L, bar) /\ durable'[tf] = durable[tf] \cup bar.quotes
    BY <1>3, <2>1, <2>2 DEF LogCurrent, Rewritten, Replaced
  <2> HIDE DEF C, L, N
  <2>4. AliveWith(C, <<bar>>, N) /\ BehindBar(bar, L)
    BY <1>3, <1>4, <1>6, <2>3, BarLogged
  <2>5. /\ Stored(N) /\ bar \in N
        /\ \A r \in L : r.complete => r \in N
        /\ \A r \in N : r = bar \/ (r \in L /\ r.start < bar.start /\ r.complete)
        /\ QuotesIn(L) \cup bar.quotes \subseteq QuotesIn(N)
    BY <1>3, <1>4, <2>3, <2>4, RowReplaced
  <2>6. \A r \in N : r \in BarType /\ r.quotes \subseteq 1..serial
    BY <1>3, <1>4, <2>1, <2>5 DEF L
  <2>7. AliveWith(closed'[tf], current'[tf], N)
    BY <1>1, <1>6, <2>4 DEF C
  <2>8. \A r \in N \cup Range(current'[tf]) : r.quotes \subseteq Counted(tf)'
    BY <1>1, <1>2, <2>1, <2>5, <2>6
  <2>9. durable'[tf] \subseteq QuotesIn(N)
    BY <1>4, <2>3, <2>5 DEF L
  <2>10. \A i \in DOMAIN csv'[tf] : csv'[tf][i].complete => csv'[tf][i] \in N
    BY <1>1, <1>4, <2>5 DEF L
  <2>11. TimeframeSound(tf)'
    BY <1>1, <2>5, <2>7, <2>8, <2>9, <2>10 DEF TimeframeSound, QuotesIn, N
  <2>12. LateEnough(tf)'
    <3>1. ~bar.complete
      BY <2>4 DEF BehindBar
    <3>2. \A r \in N : r.complete => r \in L
      BY <2>5, <3>1
    <3>3. \A r \in N : r.complete => r.start < FloorTime(Horizon', tf)
      BY <1>2, <1>4, <3>2 DEF LateEnough, L
    <3>4. current'[tf] # <<>>
      BY <1>1, <2>1
    <3>5. QED
      BY <3>3, <3>4 DEF LateEnough, N, FloorTime
  <2>13. QED
    BY <1>1, <1>3, <2>1, <2>2, <2>3, <2>5, <2>6, <2>11, <2>12 DEF N
<1>7. QED
  BY <1>3, <1>5, <1>6

\* The bars of a process are in order, and their completed ones are logged.
LEMMA RowsLogged ==
    ASSUME NEW done \in Seq(BarType), NEW begun, begun = <<>> \/ \E b \in BarType : begun = <<b>>,
           NEW rows, rows \subseteq BarType, AliveWith(done, begun, rows)
    PROVE  /\ done \o begun \in Seq(BarType) /\ Increasing(done \o begun)
           /\ \A i \in DOMAIN (done \o begun) : (done \o begun)[i].complete => (done \o begun)[i] \in rows
           /\ \A r \in rows : r.complete =>
                 \/ \E i \in DOMAIN (done \o begun) : (done \o begun)[i] = r
                 \/ Len(done) = BarsKept /\ r.start < (done \o begun)[1].start /\ (done \o begun)[1].complete
                    /\ done \o begun # <<>>
           /\ done \o begun = <<>> => done = <<>> /\ begun = <<>>
           /\ Range(done \o begun) = Range(done) \cup Range(begun)
<1> DEFINE R == done \o begun
           n == Len(done)
<1>1. n \in Nat /\ DOMAIN done = 1..n /\ BarsKept \in Nat \ {0}
  BY BarAssumption
<1>2. /\ \A i \in 1..n : done[i] \in rows /\ done[i].complete /\ done[i].start \in Nat
      /\ Increasing(done)
      /\ \A r \in rows : r.complete => (\E i \in 1..n : done[i] = r)
                                       \/ (n = BarsKept /\ r.start < done[1].start)
  <2>1. /\ \A i \in DOMAIN done : done[i] \in rows /\ done[i].complete
        /\ Increasing(done)
        /\ \A r \in rows : r.complete => (\E i \in DOMAIN done : done[i] = r)
                                         \/ (n = BarsKept /\ r.start < done[1].start)
    BY DEF AliveWith
  <2>2. \A r \in rows : r.start \in Nat
    BY DEF BarType
  <2>3. QED
    BY <1>1, <2>1, <2>2
<1>3. CASE begun = <<>>
  <2>1. R = done
    BY <1>3
  <2>2. n = BarsKept => 1 \in 1..n /\ done # <<>>
    BY <1>1
  <2>3. Range(begun) = {}
    BY <1>3, NoneLeft
  <2> HIDE DEF R, n
  <2>4. \A r \in rows : r.complete =>
                 \/ \E i \in DOMAIN done : done[i] = r
                 \/ n = BarsKept /\ r.start < done[1].start /\ done[1].complete /\ done # <<>>
    BY <1>1, <1>2, <2>2
  <2>5. QED
    BY <1>1, <1>2, <1>3, <2>1, <2>3, <2>4 DEF R, n
<1>4. ASSUME NEW b \in BarType, begun = <<b>>
      PROVE  /\ R \in Seq(BarType) /\ Increasing(R) /\ R # <<>>
             /\ \A i \in DOMAIN R : R[i].complete => R[i] \in rows
             /\ \A r \in rows : r.complete =>
                   \/ \E i \in DOMAIN R : R[i] = r
                   \/ n = BarsKept /\ r.start < R[1].start /\ R[1].complete /\ R # <<>>
             /\ Range(R) = Range(done) \cup Range(begun)
  <2>1. begun # <<>> /\ begun[1] = b /\ Range(begun) = {b}
    BY <1>4 DEF Range
  <2>2. /\ R \in Seq(BarType) /\ DOMAIN R = 1..(n + 1) /\ R[n + 1] = b /\ R # <<>>
        /\ \A i \in 1..n : R[i] = done[i]
    BY <1>1, <1>4
  <2>3. BehindBar(b, rows)
    BY <2>1 DEF AliveWith
  <2> HIDE DEF R, n
  <2>4. \A i \in 1..n : done[i].start < b.start
    BY <1>2, <2>3 DEF BehindBar
  <2>5. Increasing(R)
    <3> SUFFICES ASSUME NEW i \in 1..(n + 1), NEW j \in 1..(n + 1), i < j PROVE R[i].start < R[j].start
      BY <2>2 DEF Increasing
    <3>1. i \in 1..n
      BY <1>1
    <3>2. CASE j = n + 1
      BY <2>2, <2>4, <3>1, <3>2
    <3>3. CASE j # n + 1
      <4>1. j \in 1..n
        BY <1>1, <3>3
      <4>2. QED
        BY <1>1, <1>2, <2>2, <3>1, <4>1 DEF Increasing
    <3>4. QED
      BY <3>2, <3>3
  <2>6. \A i \in 1..(n + 1) : i = n + 1 \/ i \in 1..n
    BY <1>1
  <2>7. ~b.complete
    BY <2>3 DEF BehindBar
  <2>8. \A i \in DOMAIN R : R[i].complete => R[i] \in rows
    BY <1>2, <2>2, <2>6, <2>7
  <2>9. \A i \in 1..n : i \in 1..(n + 1)
    BY <1>1
  <2>10. n + 1 \in 1..(n + 1)
    BY <1>1
  <2>11. Range(R) = Range(done) \cup {b}
    BY <1>1, <2>2, <2>6, <2>9, <2>10 DEF Range
  <2>12. n = BarsKept => 1 \in 1..n
    BY <1>1
  <2>13. QED
    BY <1>2, <2>1, <2>2, <2>5, <2>8, <2>9, <2>11, <2>12
<1>5. QED
  BY <1>3, <1>4 DEF R, n

\* What the provider serves of a snapshot.
ServedOf(rows) ==
    {rows[i] : i \in {j \in DOMAIN rows :
        /\ rows[j].complete
        /\ \A k \in DOMAIN rows : k > j /\ rows[k].start = rows[j].start => ~rows[k].complete}}

FinalFrom(before, after) ==
    \A bar \in before : bar \in after \/ (after # {} /\ \A later \in after : later.start > bar.start)

\* A snapshot of the bars of a process takes nothing back.
LEMMA SnapshotFinal ==
    ASSUME NEW done \in Seq(BarType), NEW begun, begun = <<>> \/ \E b \in BarType : begun = <<b>>,
           NEW rows, rows \subseteq BarType, AliveWith(done, begun, rows), done \o begun # <<>>,
           NEW old, \A i \in DOMAIN old : old[i].complete => old[i] \in rows
    PROVE  FinalFrom(ServedOf(old), ServedOf(done \o begun))
<1> DEFINE R == done \o begun
           n == Len(R)
<1>1. /\ R \in Seq(BarType) /\ Increasing(R)
      /\ \A i \in DOMAIN R : R[i].complete => R[i] \in rows
      /\ \A r \in rows : r.complete =>
            \/ \E i \in DOMAIN R : R[i] = r
            \/ r.start < R[1].start /\ R[1].complete /\ R # <<>>
  BY RowsLogged
<1> HIDE DEF R
<1>2. DOMAIN R = 1..n /\ n \in Nat /\ \A i \in 1..n : R[i].start \in Nat
  <2>1. DOMAIN R = 1..n /\ n \in Nat /\ \A i \in 1..n : R[i] \in BarType
    BY <1>1
  <2>2. \A r \in BarType : r.start \in Nat
    BY DEF BarType
  <2>3. QED
    BY <2>1, <2>2
<1> HIDE DEF n
<1>3. ASSUME NEW i \in 1..n, R[i].complete PROVE R[i] \in ServedOf(R)
  <2>1. \A k \in 1..n : k > i => R[k].start # R[i].start
    <3> SUFFICES ASSUME NEW k \in 1..n, k > i PROVE R[k].start # R[i].start
      OBVIOUS
    <3>1. i < k
      OBVIOUS
    <3>2. R[i].start < R[k].start
      BY <1>1, <1>2, <3>1 DEF Increasing
    <3>3. QED
      BY <1>2, <3>2
  <2>2. QED
    BY <1>2, <1>3, <2>1 DEF ServedOf
<1>4. ASSUME NEW bar \in ServedOf(old)
      PROVE  bar \in ServedOf(R) \/ (ServedOf(R) # {} /\ \A later \in ServedOf(R) : later.start > bar.start)
  <2>1. bar \in rows /\ bar.complete /\ bar.start \in Nat
    BY DEF ServedOf, BarType
  <2>2. CASE \E i \in DOMAIN R : R[i] = bar
    BY <1>2, <1>3, <2>1, <2>2
  <2>3. CASE bar.start < R[1].start /\ R[1].complete /\ R # <<>>
    <3>1. 1 \in 1..n
      <4>1. Len(R) # 0
        BY <1>1, <2>3
      <4>2. QED
        BY <1>2, <4>1 DEF n
    <3>2. R[1] \in ServedOf(R)
      BY <1>3, <2>3, <3>1
    <3>3. ASSUME NEW later \in ServedOf(R) PROVE later.start > bar.start
      <4>1. PICK i \in 1..n : later = R[i]
        BY <1>2 DEF ServedOf
      <4>2. i = 1 \/ 1 < i
        BY <1>2
      <4>3. i = 1 \/ R[1].start < R[i].start
        BY <1>1, <1>2, <3>1, <4>2 DEF Increasing
      <4>4. R[1].start \in Nat /\ R[i].start \in Nat
        BY <1>2, <3>1
      <4>5. QED
        BY <2>1, <2>3, <4>1, <4>3, <4>4
    <3>4. QED
      BY <3>2, <3>3
  <2>4. QED
    BY <1>1, <2>1, <2>2, <2>3
<1>5. QED
  BY <1>4 DEF FinalFrom, R

\* A flush replaces the snapshot of a timeframe.
LEMMA WriteOfHead ==
    ASSUME BuilderSound, WriteCsv, NEW tf \in Lengths, tf = Head(todo)
    PROVE  /\ TimeframeSound(tf)' /\ LateEnough(tf)' /\ csv'[tf] \in Seq(BarType)
           /\ FinalFrom(ServedOf(csv[tf]), ServedOf(csv'[tf]))
<1> DEFINE C == closed[tf]
           U == current[tf]
           L == logged[tf]
<1>1. /\ pc = "csv" /\ pc' = "flush"
      /\ UNCHANGED <<now, quote, serial, downSince, current, closed, logged, durable>>
  BY DEF WriteCsv, memory
<1>2. /\ Counted(tf) = 1..serial /\ Counted(tf)' = 1..serial
      /\ Horizon' = Horizon /\ ~Waits(tf)'
  BY <1>1 DEF Counted, Horizon, Waits
<1>3. /\ L \subseteq BarType /\ C \in Seq(BarType) /\ csv[tf] \in Seq(BarType)
      /\ U = <<>> \/ \E b \in BarType : U = <<b>>
      /\ tf \in DOMAIN csv
  BY TimeframeTyped DEF BuilderSound, BarsTypeOK
<1>4. /\ TimeframeSound(tf) /\ LateEnough(tf) /\ AliveWith(C, U, L)
      /\ \A i \in DOMAIN csv[tf] : csv[tf][i].complete => csv[tf][i] \in L
  BY <1>1 DEF BuilderSound, TimeframeSound
<1>5. csv'[tf] = (IF C \o U = <<>> THEN csv[tf] ELSE C \o U)
  BY <1>3 DEF WriteCsv, Rows
<1>6. /\ C \o U \in Seq(BarType)
      /\ \A i \in DOMAIN (C \o U) : (C \o U)[i].complete => (C \o U)[i] \in L
      /\ C \o U # <<>> => FinalFrom(ServedOf(csv[tf]), ServedOf(C \o U))
  <2> HIDE DEF C, U, L
  <2>1. \A i \in DOMAIN csv[tf] : csv[tf][i].complete => csv[tf][i] \in L
    BY <1>4 DEF L
  <2>2. QED
    BY <1>3, <1>4, <2>1, RowsLogged, SnapshotFinal
<1>7. FinalFrom(ServedOf(csv[tf]), ServedOf(csv[tf]))
  BY DEF FinalFrom
<1>8. /\ csv'[tf] \in Seq(BarType) /\ FinalFrom(ServedOf(csv[tf]), ServedOf(csv'[tf]))
      /\ \A i \in DOMAIN csv'[tf] : csv'[tf][i].complete => csv'[tf][i] \in L
  <2> HIDE DEF C, U, L
  <2>1. CASE C \o U = <<>>
    BY <1>3, <1>4, <1>5, <1>7, <2>1 DEF L
  <2>2. CASE C \o U # <<>>
    BY <1>5, <1>6, <2>2
  <2>3. QED
    BY <2>1, <2>2
<1>9. TimeframeSound(tf)'
  BY <1>1, <1>2, <1>4, <1>8 DEF TimeframeSound, QuotesIn
<1>10. LateEnough(tf)'
  BY <1>1, <1>2, <1>4 DEF LateEnough, FloorTime
<1>11. QED
  BY <1>8, <1>9, <1>10

\* A quote that is accepted is late enough for every timeframe that has no
\* current bar.
LEMMA QuoteWaits ==
    ASSUME BuilderSound, NEW t \in Nat, OnQuote(t), NEW tf \in Lengths
    PROVE  TimeframeSound(tf)' /\ LateEnough(tf)'
<1>1. /\ pc = "idle" /\ pc' = "apply" /\ quote' = t /\ serial' = serial + 1 /\ todo' = Timeframes
      /\ now <= t + MaxQuoteAge
      /\ UNCHANGED <<now, downSince, current, closed, logged, csv, durable>>
  BY DEF OnQuote, memory, files
<1>2. serial \in Nat /\ tf \in Range(Timeframes)
  BY DEF BuilderSound, BarsTypeOK, Lengths
<1>3. Counted(tf)' = Counted(tf) /\ Horizon' = Horizon
  BY <1>1, <1>2 DEF Counted, Horizon, Waits
<1>4. TimeframeSound(tf)'
  BY <1>1, <1>3 DEF BuilderSound, TimeframeSound, QuotesIn
<1>5. LateEnough(tf)'
  BY <1>1, <1>3 DEF BuilderSound, LateEnough, FloorTime
<1>6. QED
  BY <1>4, <1>5

\* The end of a process, in whatever way.
LEMMA TimeframeLeft ==
    ASSUME BuilderSound, Leave, pc # "down", now' = now, NEW tf \in Lengths
    PROVE  TimeframeSound(tf)' /\ LateEnough(tf)'
<1>1. /\ pc' = "down" /\ todo' = <<>> /\ downSince' = now /\ current'[tf] = <<>> /\ closed'[tf] = <<>>
      /\ UNCHANGED <<now, quote, serial, logged, csv, durable>>
  BY DEF Leave, Nothing
<1>2. Horizon' = Horizon /\ Counted(tf) \subseteq Counted(tf)'
  <2>1. serial \in Nat
    BY DEF BuilderSound, BarsTypeOK
  <2>2. QED
    BY <1>1, <2>1 DEF Horizon, Counted, Waits
<1>3. Range(current'[tf]) = {}
  BY <1>1, NoneLeft
<1>4. \A r \in logged'[tf] \cup Range(current'[tf]) : r.quotes \subseteq Counted(tf)'
  BY <1>1, <1>2, <1>3 DEF BuilderSound, TimeframeSound
<1>5. TimeframeSound(tf)'
  BY <1>1, <1>4 DEF BuilderSound, TimeframeSound, QuotesIn
<1>6. LateEnough(tf)'
  BY <1>1, <1>2 DEF BuilderSound, LateEnough, FloorTime
<1>7. QED
  BY <1>5, <1>6

\* A process that starts takes up where the log ends, and the quotes it may
\* still get are late enough.
LEMMA TimeframeLoaded ==
    ASSUME BuilderSound, Restart, NEW tf \in Lengths
    PROVE  /\ TimeframeSound(tf)' /\ LateEnough(tf)'
           /\ closed'[tf] \in Seq(BarType) /\ Len(closed'[tf]) <= BarsKept
           /\ current'[tf] \in Seq(BarType) /\ Len(current'[tf]) <= 1
           /\ csv'[tf] \in Seq(BarType)
           /\ FinalFrom(ServedOf(csv[tf]), ServedOf(csv'[tf]))
<1> DEFINE C == LoadedClosed(tf)
           U == SetToSeq(LoadedCurrent(tf))
           L == logged[tf]
<1>1. /\ pc = "down" /\ pc' = "idle" /\ downSince + RestartDelay <= now
      /\ UNCHANGED <<now, quote, serial, todo, downSince, logged, durable>>
      /\ closed'[tf] = C /\ current'[tf] = U
      /\ csv'[tf] = (IF C \o U = <<>> THEN csv[tf] ELSE C \o U)
  <2>1. now \in Nat /\ downSince \in Nat /\ RestartDelay \in Nat
    BY BarAssumption DEF BuilderSound, BarsTypeOK
  <2>2. QED
    BY <2>1 DEF Restart
<1>2. /\ L \subseteq BarType /\ csv[tf] \in Seq(BarType)
      /\ now \in Nat /\ downSince \in Nat /\ serial \in Nat /\ tf \in Nat \ {0}
      /\ MaxQuoteAge \in Nat /\ MaxSkew \in Nat /\ RestartDelay \in Nat
      /\ RestartDelay >= MaxQuoteAge + MaxSkew
  BY TimeframeTyped, BarAssumption, RestartAssumption DEF BuilderSound
<1>3. /\ TimeframeSound(tf) /\ LateEnough(tf) /\ Stored(L)
      /\ \A r \in L : r.quotes \subseteq Counted(tf)
      /\ durable[tf] \subseteq QuotesIn(L)
      /\ \A i \in DOMAIN csv[tf] : csv[tf][i].complete => csv[tf][i] \in L
  BY DEF BuilderSound, TimeframeSound
<1>4. C \in Seq(BarType) /\ Len(C) <= BarsKept
  BY <1>2, <1>3, LoadedParts
<1>5. AliveWith(C, U, L) /\ (U = <<>> \/ \E r \in L : U = <<r>>)
  BY <1>2, <1>3, BarsLoaded
<1> HIDE DEF C, U
<1>6. U = <<>> \/ \E b \in BarType : U = <<b>>
  BY <1>2, <1>5
<1>7. U \in Seq(BarType) /\ Len(U) <= 1 /\ Range(U) \subseteq L
  <2>1. CASE U = <<>>
    BY <2>1, NoneLeft
  <2>2. ASSUME NEW r \in L, U = <<r>> PROVE U \in Seq(BarType) /\ Len(U) <= 1 /\ Range(U) \subseteq L
    <3>1. r \in BarType /\ Range(U) = {r}
      BY <1>2, <2>2 DEF Range
    <3>2. QED
      BY <2>2, <3>1
  <2>3. QED
    BY <1>5, <2>1, <2>2
<1>8. Counted(tf) = 1..serial /\ Counted(tf)' = 1..serial /\ ~Waits(tf)'
  BY <1>1 DEF Counted, Waits
<1>9. /\ C \o U \in Seq(BarType)
      /\ \A i \in DOMAIN (C \o U) : (C \o U)[i].complete => (C \o U)[i] \in L
      /\ C \o U # <<>> => FinalFrom(ServedOf(csv[tf]), ServedOf(C \o U))
  <2> HIDE DEF L
  <2>1. \A i \in DOMAIN csv[tf] : csv[tf][i].complete => csv[tf][i] \in L
    BY <1>3
  <2>2. QED
    BY <1>2, <1>4, <1>5, <1>6, <2>1, RowsLogged, SnapshotFinal
<1>10. FinalFrom(ServedOf(csv[tf]), ServedOf(csv[tf]))
  BY DEF FinalFrom
<1>11. /\ csv'[tf] \in Seq(BarType) /\ FinalFrom(ServedOf(csv[tf]), ServedOf(csv'[tf]))
       /\ \A i \in DOMAIN csv'[tf] : csv'[tf][i].complete => csv'[tf][i] \in L
  <2>1. CASE C \o U = <<>>
    BY <1>1, <1>2, <1>3, <1>10, <2>1
  <2>2. CASE C \o U # <<>>
    BY <1>1, <1>9, <2>2
  <2>3. QED
    BY <2>1, <2>2
<1>12. \A r \in logged'[tf] \cup Range(current'[tf]) : r.quotes \subseteq Counted(tf)'
  BY <1>1, <1>3, <1>7, <1>8
<1>13. TimeframeSound(tf)'
  BY <1>1, <1>3, <1>5, <1>11, <1>12 DEF TimeframeSound, QuotesIn
<1>14. LateEnough(tf)'
  <2> DEFINE before == downSince + MaxSkew
             after == now + MaxSkew
  <2>1. /\ before \in Nat /\ after \in Nat /\ before <= after /\ Horizon = before /\ Horizon' = after
    BY <1>1, <1>2 DEF Horizon
  <2> HIDE DEF before, after
  <2>2. \A r \in L : r.start \in Nat /\ (r.complete => r.start < FloorTime(before, tf))
    BY <1>2, <1>3, <2>1 DEF LateEnough, BarType
  <2>3. FloorTime(before, tf) \in Nat
    BY <1>2, <2>1, Floors
  <2>4. ASSUME NEW r \in L, r.complete, NEW t \in Nat, before <= t PROVE r.start < FloorTime(t, tf)
    <3>1. FloorTime(t, tf) \in Nat /\ FloorTime(before, tf) <= FloorTime(t, tf)
      BY <1>2, <2>1, <2>4, Floors
    <3>2. QED
      BY <2>2, <2>3, <2>4, <3>1
  <2>5. \A r \in logged'[tf] : r.complete => r.start < FloorTime(Horizon', tf)
    BY <1>1, <2>1, <2>4
  <2>6. ASSUME U = <<>>, NEW t \in Nat, now <= t + MaxQuoteAge, NEW r \in L
        PROVE  r.start < FloorTime(t, tf)
    <3>1. before <= t
      BY <1>1, <1>2, <2>6 DEF before
    <3>2. r.complete
      BY <1>5, <2>6 DEF AliveWith
    <3>3. QED
      BY <2>4, <2>6, <3>1, <3>2
  <2>7. QED
    BY <1>1, <1>8, <2>5, <2>6 DEF LateEnough, FloorTime
<1>15. QED
  BY <1>1, <1>4, <1>7, <1>11, <1>13, <1>14

-----------------------------------------------------------------------------
(* The steps of the engine and of its link.                                *)

LEMMA LiveInvInit == ASSUME LinkInit PROVE LiveInv
<1>1. /\ now = 0 /\ downSince = 0 /\ pc = "idle" /\ quote = 0 /\ serial = 0 /\ todo = <<>>
      /\ stopping = FALSE /\ leaving = <<>> /\ lost = {}
      /\ current = [tf \in Lengths |-> <<>>] /\ closed = current /\ csv = current
      /\ logged = [tf \in Lengths |-> {}] /\ durable = logged
      /\ kind \in LinkChoices /\ link \in {"connecting", "open"}
      /\ errors = 0 /\ delay = 0 /\ connectedFor = 0
  BY DEF LinkInit, BarsInit, Nothing
<1>2. BarsTypeOK
  <2>1. <<>> \in Seq(BarType) /\ Len(<<>>) = 0 /\ 0 \in 0..MaxQuotes
    BY BarAssumption
  <2>2. BarsKept \in Nat /\ <<>> \in Seq(Lengths) /\ <<>> \in Seq(Range(Finally))
    BY BarAssumption
  <2>3. stopping \in BOOLEAN
    BY <1>1
  <2>4. QED
    BY <1>1, <2>1, <2>2, <2>3 DEF BarsTypeOK
<1>3. LinkTypeOK
  <2>1. ErrorBound \in Nat
    BY LinkAssumption DEF ErrorBound
  <2>2. QED
    BY <1>1, <2>1, LinkAssumption DEF LinkTypeOK, LinkStates
<1>4. ControlSound
  BY <1>1, BarAssumption DEF ControlSound
<1>5. LeavingSound
  <2>1. ~stopping
    BY <1>1, Zenon
  <2>2. QED
    BY <1>1, <2>1 DEF LeavingSound
<1>6. ASSUME NEW tf \in Lengths PROVE TimeframeSound(tf) /\ LateEnough(tf)
  <2>1. /\ current[tf] = <<>> /\ closed[tf] = <<>> /\ csv[tf] = <<>> /\ logged[tf] = {} /\ durable[tf] = {}
    BY <1>1
  <2>2. Stored({}) /\ AliveWith(<<>>, <<>>, {})
    BY FS_EmptySet DEF Stored, AliveWith, Increasing
  <2>3. Range(current[tf]) = {}
    BY <2>1, NoneLeft
  <2>4. TimeframeSound(tf)
    BY <1>1, <2>1, <2>2, <2>3 DEF TimeframeSound
  <2>5. LateEnough(tf)
    BY <2>1 DEF LateEnough
  <2>6. QED
    BY <2>4, <2>5
<1>7. QED
  BY <1>1, <1>2, <1>3, <1>4, <1>5, <1>6 DEF LiveInv, BuilderSound, LinkSound

LEMMA SmallestIs ==
    ASSUME NEW a \in Nat, NEW b \in Nat
    PROVE  /\ Smallest(a, b) \in Nat /\ Smallest(a, b) <= a /\ Smallest(a, b) <= b
           /\ Smallest(a, b) \in {a, b}
BY DEF Smallest

LEMMA ErrorsBounded == ErrorBound \in Nat /\ ErrorBound >= 1
<1>1. MaxReconnectDelay \div ReconnectDelay \in Nat
  BY LinkAssumption, Divided
<1>2. QED
  BY <1>1 DEF ErrorBound

\* The task waits no longer than the longest delay.
LEMMA DelaysBounded == ASSUME NEW n \in 1..ErrorBound PROVE Delays(n) \subseteq 0..MaxReconnectDelay
<1> DEFINE factor == IF n <= 1 THEN 1 ELSE BackoffFactor ^ (n - 1)
           wait == ReconnectDelay * factor
<1>1. factor \in Nat
  <2>1. n - 1 \in 0..ErrorBound /\ 1 \in Nat
    BY ErrorsBounded
  <2>2. BackoffFactor ^ (n - 1) \in Nat
    BY <2>1, PowerAssumption
  <2> DEFINE p == BackoffFactor ^ (n - 1)
  <2> HIDE DEF p
  <2>3. (IF n <= 1 THEN 1 ELSE p) \in Nat
    BY <2>2 DEF p
  <2>4. QED
    BY <2>3 DEF p
<1> HIDE DEF factor
<1>2. wait \in Nat
  BY <1>1, LinkAssumption
<1>3. Backoff(n) = Smallest(MaxReconnectDelay, wait)
  BY DEF Backoff, factor
<1> HIDE DEF wait
<1>4. Backoff(n) \in Nat
  BY <1>2, <1>3, LinkAssumption, SmallestIs
<1>5. ASSUME NEW j \in 0..Jitter
      PROVE  Smallest(MaxReconnectDelay, Backoff(n) + j) \in 0..MaxReconnectDelay
  <2> DEFINE sum == Backoff(n) + j
  <2>1. sum \in Nat /\ MaxReconnectDelay \in Nat
    BY <1>4, LinkAssumption
  <2> HIDE DEF sum
  <2>2. Smallest(MaxReconnectDelay, sum) \in Nat /\ Smallest(MaxReconnectDelay, sum) <= MaxReconnectDelay
    BY <2>1, SmallestIs
  <2>3. QED
    BY <2>1, <2>2 DEF sum
<1>6. QED
  BY <1>5 DEF Delays

\* The task keeps its own variables in their bounds, and waits after an error
\* only; with the process it ends.
LEMMA LinkKept ==
    ASSUME LiveInv, [LinkNext]_allVars
    PROVE  LinkTypeOK' /\ (link' = "waiting" => errors' > 0)
<1>1. /\ kind \in LinkChoices /\ link \in LinkStates
      /\ errors \in 0..ErrorBound /\ delay \in 0..MaxReconnectDelay /\ connectedFor \in 0..Heartbeat
      /\ link = "waiting" => errors > 0
      /\ ErrorBound \in Nat /\ ErrorBound >= 1 /\ MaxReconnectDelay \in Nat /\ Heartbeat \in Nat
  BY ErrorsBounded, LinkAssumption DEF LiveInv, LinkTypeOK, LinkSound
<1>2. CASE UNCHANGED <<kind, linkVars>>
  BY <1>1, <1>2 DEF linkVars, LinkTypeOK
<1>3. ASSUME UNCHANGED <<kind, errors, delay, connectedFor>>, link' \in LinkStates \ {"waiting"}
      PROVE  LinkTypeOK' /\ (link' = "waiting" => errors' > 0)
  BY <1>1, <1>3 DEF LinkTypeOK
<1>4. CASE Connected \/ TaskFails \/ Message \/ StopCollector \/ StopRaises \/ Gone
  BY <1>3, <1>4 DEF Connected, TaskFails, Message, StopCollector, StopRaises, Gone, LinkStates
<1>5. CASE ConnectionError
  <2>1. /\ kind' = kind /\ connectedFor' = connectedFor /\ link' = "waiting" /\ delay' \in Delays(errors')
        /\ errors' = (IF connectedFor >= Heartbeat THEN 1 ELSE Smallest(errors + 1, ErrorBound))
    BY <1>5 DEF ConnectionError
  <2> DEFINE more == errors + 1
  <2>2. more \in Nat /\ more >= 1
    BY <1>1
  <2> HIDE DEF more
  <2>3. errors' \in 1..ErrorBound
    <3>1. /\ Smallest(more, ErrorBound) \in Nat /\ Smallest(more, ErrorBound) <= ErrorBound
          /\ Smallest(more, ErrorBound) \in {more, ErrorBound}
      BY <1>1, <2>2, SmallestIs
    <3>2. errors' \in {1, Smallest(more, ErrorBound)}
      BY <2>1 DEF more
    <3>3. QED
      BY <1>1, <2>2, <3>1, <3>2
  <2>4. delay' \in 0..MaxReconnectDelay
    BY <2>1, <2>3, DelaysBounded
  <2>5. QED
    BY <1>1, <2>1, <2>3, <2>4 DEF LinkTypeOK, LinkStates
<1>6. CASE Reconnect \/ StartEngine
  <2>1. /\ kind' = kind /\ errors' \in {errors, 0} /\ delay' \in {delay, 0} /\ connectedFor' = 0
        /\ link' \in {"connecting", "open"}
    BY <1>6 DEF Reconnect, StartEngine, Started
  <2>2. QED
    BY <1>1, <2>1 DEF LinkTypeOK, LinkStates
<1>7. CASE LinkTick
  <2>1. /\ kind' = kind /\ link' = link /\ errors' = errors
        /\ delay' = (IF delay > 0 THEN delay - 1 ELSE 0)
        /\ connectedFor' = (IF link \in {"connecting", "open"}
                            THEN Smallest(connectedFor + 1, Heartbeat) ELSE connectedFor)
    BY <1>7 DEF LinkTick
  <2>2. delay' \in 0..MaxReconnectDelay
    BY <1>1, <2>1
  <2>3. connectedFor' \in 0..Heartbeat
    <3>1. connectedFor + 1 \in Nat
      BY <1>1
    <3>2. Smallest(connectedFor + 1, Heartbeat) \in 0..Heartbeat
      BY <1>1, <3>1, SmallestIs
    <3>3. QED
      BY <1>1, <2>1, <3>2
  <2>4. QED
    BY <1>1, <2>1, <2>2, <2>3 DEF LinkTypeOK
<1>8. QED
  BY <1>2, <1>4, <1>5, <1>6, <1>7 DEF LinkNext, allVars

\* A step that leaves the builder alone.
LEMMA BuilderUntouched == ASSUME BuilderSound, UNCHANGED barVars PROVE BuilderSound'
<1>1. /\ now' = now /\ pc' = pc /\ quote' = quote /\ serial' = serial /\ todo' = todo /\ stopping' = stopping
      /\ leaving' = leaving /\ downSince' = downSince /\ current' = current /\ closed' = closed
      /\ logged' = logged /\ csv' = csv /\ durable' = durable /\ lost' = lost
  BY DEF barVars, control, memory, files
<1>2. BarsTypeOK' /\ ControlSound'
  BY <1>1 DEF BuilderSound, BarsTypeOK, ControlSound
<1>3. LeavingSound'
  BY <1>1 DEF BuilderSound, LeavingSound, Unlogged, QuotesIn
<1>4. ASSUME NEW tf \in Lengths PROVE TimeframeSound(tf)' /\ LateEnough(tf)'
  <2>1. Waits(tf)' = Waits(tf) /\ Counted(tf)' = Counted(tf) /\ now \in Nat /\ now <= now'
    BY <1>1 DEF Waits, Counted, BuilderSound, BarsTypeOK
  <2>2. QED
    BY <1>1, <2>1, TimeframeUntouched DEF BuilderSound
<1>5. QED
  BY <1>2, <1>3, <1>4 DEF BuilderSound

\* A step of the control alone: the bars and the files stay.
LEMMA ControlStep ==
    ASSUME BuilderSound, UNCHANGED <<downSince, current, closed, logged, csv, durable, lost>>,
           now' \in Nat, now <= now', quote' \in Nat, serial' \in 0..MaxQuotes,
           pc' \in {"idle", "apply", "flush", "csv", "down"}, pc = "down" <=> pc' = "down",
           todo' \in Seq(Lengths), stopping' \in BOOLEAN, leaving' \in Seq(Range(Finally)),
           ControlSound', LeavingSound',
           \A tf \in Lengths : Counted(tf) \subseteq Counted(tf)' /\ (Waits(tf)' => Waits(tf) /\ quote' = quote)
    PROVE  BuilderSound'
<1>1. BarsTypeOK'
  BY DEF BuilderSound, BarsTypeOK
<1>2. ASSUME NEW tf \in Lengths PROVE TimeframeSound(tf)' /\ LateEnough(tf)'
  BY TimeframeUntouched DEF BuilderSound
<1>3. QED
  BY <1>1, <1>2 DEF BuilderSound

LEMMA FinallyParts ==
    /\ Finally # <<>> /\ Head(Finally) = "collector" /\ Tail(Finally) = <<"flush">> /\ Finally # <<"flush">>
    /\ <<"flush">> # <<>> /\ Head(<<"flush">>) = "flush" /\ Tail(<<"flush">>) = <<>>
    /\ Finally \in Seq(Range(Finally)) /\ <<"flush">> \in Seq(Range(Finally)) /\ <<>> \in Seq(Range(Finally))
<1>1. Finally[1] = "collector" /\ Finally[2] = "flush" /\ DOMAIN Finally = {1, 2}
  BY DEF Finally
<1>2. "collector" \in Range(Finally) /\ "flush" \in Range(Finally)
  BY <1>1 DEF Range
<1>3. Finally \in Seq(Range(Finally)) /\ <<"flush">> \in Seq(Range(Finally))
  BY <1>2 DEF Finally
<1>4. Finally # <<"flush">>
  <2>1. Len(Finally) = 2 /\ Len(<<"flush">>) = 1
    BY DEF Finally
  <2>2. QED
    BY <2>1
<1>5. QED
  BY <1>3, <1>4 DEF Finally

LEMMA TickKeeps == ASSUME BuilderSound, Tick PROVE BuilderSound'
<1>1. /\ now' = now + 1 /\ pc' = pc /\ quote' = quote /\ serial' = serial /\ todo' = todo
      /\ stopping' = stopping /\ leaving' = leaving
      /\ UNCHANGED <<downSince, current, closed, logged, csv, durable, lost>>
  BY DEF Tick, control, memory, files
<1>2. /\ now \in Nat /\ quote \in Nat /\ downSince \in Nat /\ MaxSkew \in Nat
      /\ serial \in 0..MaxQuotes /\ pc \in {"idle", "apply", "flush", "csv", "down"}
      /\ todo \in Seq(Lengths) /\ stopping \in BOOLEAN /\ leaving \in Seq(Range(Finally))
  BY BarAssumption DEF BuilderSound, BarsTypeOK
<1>3. ControlSound'
  BY <1>1, <1>2 DEF BuilderSound, ControlSound
<1>4. LeavingSound'
  BY <1>1 DEF BuilderSound, LeavingSound, Unlogged, QuotesIn
<1>5. \A tf \in Lengths : Waits(tf)' = Waits(tf) /\ Counted(tf)' = Counted(tf)
  BY <1>1 DEF Waits, Counted
<1>6. QED
  BY <1>1, <1>2, <1>3, <1>4, <1>5, ControlStep

LEMMA QuoteKeeps ==
    ASSUME BuilderSound, NEW t \in Nat, OnQuote(t), ~(stopping /\ leaving # Finally)
    PROVE  BuilderSound'
<1>1. /\ pc = "idle" /\ pc' = "apply" /\ quote' = t /\ serial' = serial + 1 /\ todo' = Timeframes
      /\ t <= now + MaxSkew /\ serial < MaxQuotes
      /\ UNCHANGED <<now, stopping, leaving, downSince, current, closed, logged, csv, durable, lost>>
  BY DEF OnQuote, memory, files
<1>2. BarsTypeOK'
  <2>1. serial' \in 0..MaxQuotes
    BY <1>1, BarAssumption DEF BuilderSound, BarsTypeOK
  <2>2. QED
    BY <1>1, <2>1, LengthsTyped DEF BuilderSound, BarsTypeOK
<1>3. ControlSound'
  <2>1. serial' > 0
    BY <1>1 DEF BuilderSound, BarsTypeOK
  <2>2. QED
    BY <1>1, <2>1, LengthsTyped DEF BuilderSound, ControlSound
<1>4. LeavingSound'
  BY <1>1, FinallyParts DEF BuilderSound, LeavingSound
<1>5. QED
  BY <1>2, <1>3, <1>4, QuoteWaits DEF BuilderSound

LEMMA ApplyKeeps == ASSUME BuilderSound, ApplyToTimeframe PROVE BuilderSound'
<1>1. /\ pc = "apply" /\ pc' = "apply" /\ todo \in Seq(Lengths) /\ todo # <<>> /\ todo' = Tail(todo)
      /\ UNCHANGED <<now, quote, serial, stopping, leaving, downSince, csv, durable, lost>>
      /\ \A i, j \in DOMAIN todo : todo[i] = todo[j] => i = j
  BY DEF BuilderSound, BarsTypeOK, ControlSound, ApplyToTimeframe
<1> PICK tf \in Lengths : tf = Head(todo)
  BY <1>1, FirstOfList
<1>2. /\ tf \in Lengths /\ tf \in Range(todo) /\ todo' \in Seq(Lengths) /\ Range(todo') = Range(todo) \ {tf}
      /\ \A i, j \in DOMAIN todo' : todo'[i] = todo'[j] => i = j
  BY <1>1, FirstOfList
<1>3. ApplyQuote(tf)
  BY DEF ApplyToTimeframe
<1>4. /\ TimeframeSound(tf)' /\ LateEnough(tf)'
      /\ closed'[tf] \in Seq(BarType) /\ Len(closed'[tf]) <= BarsKept
      /\ current'[tf] \in Seq(BarType) /\ Len(current'[tf]) <= 1
      /\ logged'[tf] \subseteq BarType
  BY ApplyToHead
<1>5. /\ \E x : current' = [current EXCEPT ![tf] = x]
      /\ \E x : closed' = [closed EXCEPT ![tf] = x]
      /\ \E x : logged' = [logged EXCEPT ![tf] = x]
  <2>1. /\ current \in [Lengths -> Seq(BarType)] /\ closed \in [Lengths -> Seq(BarType)]
        /\ logged \in [Lengths -> SUBSET BarType]
    BY DEF BuilderSound, BarsTypeOK
  <2>2. /\ current = [current EXCEPT ![tf] = current[tf]] /\ closed = [closed EXCEPT ![tf] = closed[tf]]
        /\ logged = [logged EXCEPT ![tf] = logged[tf]]
    BY <2>1
  <2>3. QED
    BY <1>3, <2>2 DEF ApplyQuote, memory
<1>6. /\ current' \in [Lengths -> Seq(BarType)] /\ closed' \in [Lengths -> Seq(BarType)]
      /\ logged' \in [Lengths -> SUBSET BarType]
      /\ \A o \in Lengths : o # tf => current'[o] = current[o] /\ closed'[o] = closed[o] /\ logged'[o] = logged[o]
  BY <1>2, <1>4, <1>5 DEF BuilderSound, BarsTypeOK
<1>7. BarsTypeOK'
  BY <1>1, <1>2, <1>4, <1>6 DEF BuilderSound, BarsTypeOK
<1>8. ControlSound'
  BY <1>1, <1>2 DEF BuilderSound, ControlSound
<1>9. LeavingSound'
  BY <1>1, FinallyParts DEF BuilderSound, LeavingSound
<1>10. ASSUME NEW o \in Lengths, o # tf PROVE TimeframeSound(o)' /\ LateEnough(o)'
  <2>1. Waits(o)' = Waits(o) /\ Counted(o)' = Counted(o) /\ now \in Nat /\ now <= now' /\ quote' = quote
    BY <1>1, <1>2, <1>10 DEF Waits, Counted, BuilderSound, BarsTypeOK
  <2>2. QED
    BY <1>1, <1>6, <1>10, <2>1, TimeframeUntouched DEF BuilderSound
<1>11. QED
  BY <1>4, <1>7, <1>8, <1>9, <1>10 DEF BuilderSound

LEMMA AfterQuoteKeeps == ASSUME BuilderSound, AfterQuote PROVE BuilderSound'
<1>1. /\ pc = "apply" /\ todo = <<>>
      /\ \/ pc' = "idle" /\ todo' = todo
         \/ pc' = "flush" /\ todo' = Timeframes
      /\ UNCHANGED <<now, quote, serial, stopping, leaving, downSince, current, closed, logged, csv, durable, lost>>
  BY DEF AfterQuote, memory, files
<1>2. /\ now \in Nat /\ quote \in Nat /\ serial \in 0..MaxQuotes /\ stopping \in BOOLEAN
      /\ leaving \in Seq(Range(Finally)) /\ todo' \in Seq(Lengths)
      /\ \A i, j \in DOMAIN todo' : todo'[i] = todo'[j] => i = j
  BY <1>1, LengthsTyped DEF BuilderSound, BarsTypeOK, ControlSound
<1>3. ControlSound'
  BY <1>1, <1>2 DEF BuilderSound, ControlSound
<1>4. LeavingSound'
  BY <1>1, FinallyParts DEF BuilderSound, LeavingSound
<1>5. \A tf \in Lengths : ~Waits(tf)' /\ Counted(tf) = 1..serial /\ Counted(tf)' = 1..serial
  BY <1>1, NoneLeft DEF Waits, Counted
<1>6. QED
  BY <1>1, <1>2, <1>3, <1>4, <1>5, ControlStep

LEMMA FlushLogKeeps == ASSUME BuilderSound, LogCurrent PROVE BuilderSound'
<1>1. /\ pc = "flush" /\ pc' = "csv" /\ todo \in Seq(Lengths) /\ todo # <<>>
      /\ UNCHANGED <<now, quote, serial, todo, stopping, leaving, downSince, current, closed, csv, lost>>
      /\ \A i, j \in DOMAIN todo : todo[i] = todo[j] => i = j
  BY DEF BuilderSound, BarsTypeOK, ControlSound, LogCurrent, memory
<1> PICK tf \in Lengths : tf = Head(todo)
  BY <1>1, FirstOfList
<1>2. Range(Tail(todo)) = Range(todo) \ {tf}
  BY <1>1, FirstOfList
<1>3. /\ TimeframeSound(tf)' /\ LateEnough(tf)'
      /\ logged'[tf] \subseteq BarType /\ durable'[tf] \subseteq 1..MaxQuotes
      /\ QuotesIn(Range(current'[tf])) \subseteq QuotesIn(logged'[tf])
  BY LogOfHead
<1>4. (\E x : logged' = [logged EXCEPT ![tf] = x]) /\ (\E x : durable' = [durable EXCEPT ![tf] = x])
  BY DEF LogCurrent
<1>5. /\ logged' \in [Lengths -> SUBSET BarType] /\ durable' \in [Lengths -> SUBSET (1..MaxQuotes)]
      /\ \A o \in Lengths : o # tf => logged'[o] = logged[o] /\ durable'[o] = durable[o]
  BY <1>3, <1>4 DEF BuilderSound, BarsTypeOK
<1>6. BarsTypeOK'
  BY <1>1, <1>5 DEF BuilderSound, BarsTypeOK
<1>7. ControlSound'
  BY <1>1 DEF BuilderSound, ControlSound
<1>8. LeavingSound'
  <2>1. Unlogged = Range(todo) /\ Unlogged' = Range(todo) \ {tf}
    BY <1>1, <1>2 DEF Unlogged
  <2>2. ASSUME stopping, leaving = <<>>, NEW o \in Lengths \ Unlogged'
        PROVE  QuotesIn(Range(current'[o])) \subseteq QuotesIn(logged'[o])
    <3>1. CASE o = tf
      BY <1>3, <3>1
    <3>2. CASE o # tf
      <4>1. QuotesIn(Range(current[o])) \subseteq QuotesIn(logged[o])
        BY <2>1, <2>2, <3>2 DEF BuilderSound, LeavingSound
      <4>2. current'[o] = current[o] /\ logged'[o] = logged[o]
        BY <1>1, <1>5, <3>2
      <4>3. QED
        BY <4>1, <4>2
    <3>3. QED
      BY <3>1, <3>2
  <2>3. QED
    BY <1>1, <2>2 DEF BuilderSound, LeavingSound, QuotesIn
<1>9. ASSUME NEW o \in Lengths, o # tf PROVE TimeframeSound(o)' /\ LateEnough(o)'
  <2>1. ~Waits(o)' /\ Counted(o)' = Counted(o) /\ now \in Nat /\ now <= now'
    BY <1>1 DEF Waits, Counted, BuilderSound, BarsTypeOK
  <2>2. QED
    BY <1>1, <1>5, <1>9, <2>1, TimeframeUntouched DEF BuilderSound
<1>10. QED
  BY <1>3, <1>6, <1>7, <1>8, <1>9 DEF BuilderSound

LEMMA WriteKeeps ==
    ASSUME BuilderSound, WriteCsv
    PROVE  BuilderSound' /\ \A tf \in Lengths : FinalFrom(ServedOf(csv[tf]), ServedOf(csv'[tf]))
<1>1. /\ pc = "csv" /\ pc' = "flush" /\ todo \in Seq(Lengths) /\ todo # <<>> /\ todo' = Tail(todo)
      /\ UNCHANGED <<now, quote, serial, stopping, leaving, downSince, current, closed, logged, durable, lost>>
      /\ \A i, j \in DOMAIN todo : todo[i] = todo[j] => i = j
  BY DEF BuilderSound, BarsTypeOK, ControlSound, WriteCsv, memory
<1> PICK tf \in Lengths : tf = Head(todo)
  BY <1>1, FirstOfList
<1>2. /\ todo' \in Seq(Lengths) /\ Range(todo') = Range(todo) \ {tf}
      /\ \A i, j \in DOMAIN todo' : todo'[i] = todo'[j] => i = j
  BY <1>1, FirstOfList
<1>3. /\ TimeframeSound(tf)' /\ LateEnough(tf)' /\ csv'[tf] \in Seq(BarType)
      /\ FinalFrom(ServedOf(csv[tf]), ServedOf(csv'[tf]))
  BY WriteOfHead
<1>4. \E x : csv' = [csv EXCEPT ![tf] = x]
  BY DEF WriteCsv
<1>5. /\ csv' \in [Lengths -> Seq(BarType)]
      /\ \A o \in Lengths : o # tf => csv'[o] = csv[o]
  BY <1>3, <1>4 DEF BuilderSound, BarsTypeOK
<1>6. BarsTypeOK'
  BY <1>1, <1>2, <1>5 DEF BuilderSound, BarsTypeOK
<1>7. ControlSound'
  BY <1>1, <1>2 DEF BuilderSound, ControlSound
<1>8. LeavingSound'
  <2>1. Unlogged' = Unlogged
    BY <1>1 DEF Unlogged
  <2>2. QED
    BY <1>1, <2>1 DEF BuilderSound, LeavingSound, QuotesIn
<1>9. ASSUME NEW o \in Lengths, o # tf PROVE TimeframeSound(o)' /\ LateEnough(o)'
  <2>1. ~Waits(o)' /\ Counted(o)' = Counted(o) /\ now \in Nat /\ now <= now'
    BY <1>1 DEF Waits, Counted, BuilderSound, BarsTypeOK
  <2>2. QED
    BY <1>1, <1>5, <1>9, <2>1, TimeframeUntouched DEF BuilderSound
<1>10. \A o \in Lengths : FinalFrom(ServedOf(csv[o]), ServedOf(csv'[o]))
  <2>1. \A o \in Lengths : o # tf => FinalFrom(ServedOf(csv[o]), ServedOf(csv'[o]))
    BY <1>5 DEF FinalFrom
  <2>2. QED
    BY <1>3, <2>1
<1>11. QED
  BY <1>3, <1>6, <1>7, <1>8, <1>9, <1>10 DEF BuilderSound

LEMMA FlushDoneKeeps == ASSUME BuilderSound, FlushDone PROVE BuilderSound'
<1>1. /\ pc = "flush" /\ todo = <<>> /\ pc' = "idle"
      /\ UNCHANGED <<now, quote, serial, todo, stopping, leaving, downSince,
                     current, closed, logged, csv, durable, lost>>
  BY DEF FlushDone, memory, files
<1>2. /\ now \in Nat /\ quote \in Nat /\ serial \in 0..MaxQuotes /\ stopping \in BOOLEAN
      /\ leaving \in Seq(Range(Finally)) /\ todo \in Seq(Lengths)
  BY DEF BuilderSound, BarsTypeOK
<1>3. ControlSound'
  BY <1>1 DEF BuilderSound, ControlSound
<1>4. LeavingSound'
  <2>1. Unlogged = {} /\ Unlogged' = {}
    BY <1>1, NoneLeft DEF Unlogged
  <2>2. QED
    BY <1>1, <2>1 DEF BuilderSound, LeavingSound, QuotesIn
<1>5. \A tf \in Lengths : ~Waits(tf)' /\ Counted(tf) = 1..serial /\ Counted(tf)' = 1..serial
  BY <1>1 DEF Waits, Counted
<1>6. QED
  BY <1>1, <1>2, <1>3, <1>4, <1>5, ControlStep

LEMMA StopKeeps == ASSUME BuilderSound, Stop PROVE BuilderSound'
<1>1. /\ pc = "idle" /\ pc' = "idle" /\ stopping' = TRUE /\ leaving' = Finally
      /\ UNCHANGED <<now, quote, serial, todo, downSince, current, closed, logged, csv, durable, lost>>
  BY DEF Stop, memory, files
<1>2. /\ now \in Nat /\ quote \in Nat /\ serial \in 0..MaxQuotes /\ todo \in Seq(Lengths)
      /\ leaving' \in Seq(Range(Finally))
  BY <1>1, FinallyParts DEF BuilderSound, BarsTypeOK
<1>3. ControlSound'
  BY <1>1 DEF BuilderSound, ControlSound
<1>4. LeavingSound'
  BY <1>1, FinallyParts DEF BuilderSound, LeavingSound
<1>5. \A tf \in Lengths : ~Waits(tf)' /\ Counted(tf) = 1..serial /\ Counted(tf)' = 1..serial
  BY <1>1 DEF Waits, Counted
<1>6. stopping' \in BOOLEAN
  BY <1>1
<1>7. QED
  BY <1>1, <1>2, <1>3, <1>4, <1>5, <1>6, ControlStep

\* The finally clause goes on: the collector has stopped, or the last flush
\* begins.
LEMMA FinallyKeeps ==
    ASSUME BuilderSound, stopping, leaving # <<>>, pc = "idle",
           \/ LastFlush
           \/ /\ Head(leaving) = "collector" /\ leaving' = Tail(leaving)
              /\ UNCHANGED <<now, pc, quote, serial, todo, stopping, downSince, memory, files>>
    PROVE  BuilderSound' /\ leaving' # Finally
<1>1. /\ UNCHANGED <<now, quote, serial, stopping, downSince, current, closed, logged, csv, durable, lost>>
      /\ \/ leaving = <<"flush">> /\ leaving' = <<>> /\ pc' = "flush" /\ todo' = Timeframes
         \/ leaving = Finally /\ leaving' = <<"flush">> /\ pc' = "idle" /\ todo' = todo
  BY FinallyParts DEF LastFlush, memory, files, BuilderSound, LeavingSound
<1>2. /\ now \in Nat /\ quote \in Nat /\ serial \in 0..MaxQuotes /\ todo' \in Seq(Lengths)
      /\ leaving' \in Seq(Range(Finally)) /\ stopping' \in BOOLEAN
      /\ \A i, j \in DOMAIN todo' : todo'[i] = todo'[j] => i = j
  BY <1>1, FinallyParts, LengthsTyped DEF BuilderSound, BarsTypeOK, ControlSound
<1>3. ControlSound'
  BY <1>1, <1>2 DEF BuilderSound, ControlSound
<1>4. LeavingSound'
  <2>1. CASE leaving' = <<"flush">>
    BY <1>1, <2>1, FinallyParts DEF BuilderSound, LeavingSound
  <2>2. CASE leaving' = <<>>
    <3>1. pc' = "flush" /\ todo' = Timeframes
      BY <1>1, <2>2, FinallyParts DEF Finally
    <3>2. Unlogged' = Range(Timeframes)
      BY <3>1 DEF Unlogged
    <3>3. Lengths \ Unlogged' = {}
      BY <3>2, LengthsTyped
    <3>4. leaving' \in {<<>>, Finally, <<"flush">>} /\ leaving' # <<"flush">> /\ lost' = {} /\ stopping'
      BY <1>1, <2>2, FinallyParts DEF BuilderSound, LeavingSound
    <3>5. QED
      BY <3>1, <3>3, <3>4 DEF LeavingSound
  <2>3. QED
    BY <1>1, <2>1, <2>2
<1>5. \A tf \in Lengths : ~Waits(tf)' /\ Counted(tf) = 1..serial /\ Counted(tf)' = 1..serial
  BY <1>1 DEF Waits, Counted
<1>6. leaving' # Finally
  BY <1>1, FinallyParts
<1>7. QED
  BY <1>1, <1>2, <1>3, <1>4, <1>5, <1>6, ControlStep

\* Of what a process has counted, an orderly end has logged everything.
LEMMA NothingLost == ASSUME BuilderSound, pc = "idle", stopping, leaving = <<>>, End PROVE lost' = {}
<1> SUFFICES ASSUME NEW tf \in Lengths, NEW q \in QuotesIn(Range(Rows(tf))) PROVE q \in QuotesIn(logged[tf])
  BY DEF End
<1>1. /\ AliveWith(closed[tf], current[tf], logged[tf])
      /\ QuotesIn(Range(current[tf])) \subseteq QuotesIn(logged[tf])
  BY DEF BuilderSound, TimeframeSound, LeavingSound, Unlogged
<1>2. Range(Rows(tf)) = Range(closed[tf]) \cup Range(current[tf])
  BY <1>1, TimeframeTyped, RowsLogged DEF BuilderSound, Rows
<1>3. PICK bar \in Range(closed[tf]) \cup Range(current[tf]) : q \in bar.quotes
  BY <1>2 DEF QuotesIn
<1>4. CASE bar \in Range(closed[tf])
  BY <1>1, <1>3, <1>4 DEF AliveWith, Range, QuotesIn
<1>5. CASE bar \in Range(current[tf])
  BY <1>1, <1>3, <1>5 DEF QuotesIn
<1>6. QED
  BY <1>3, <1>4, <1>5

\* A process ends, and with nothing lost unless it was lost before.
LEMMA LeaveKeeps ==
    ASSUME BuilderSound, pc # "down", Leave, now' = now, lost' = {}
    PROVE  BuilderSound' /\ stopping' = FALSE
<1>1. /\ pc' = "down" /\ todo' = <<>> /\ stopping' = FALSE /\ leaving' = <<>> /\ downSince' = now
      /\ current' = [tf \in Lengths |-> <<>>] /\ closed' = current'
      /\ UNCHANGED <<quote, serial, logged, csv, durable>>
  BY DEF Leave, Nothing
<1>2. BarsTypeOK'
  <2>1. <<>> \in Seq(BarType) /\ Len(<<>>) = 0 /\ <<>> \in Seq(Lengths) /\ BarsKept \in Nat
    BY BarAssumption
  <2>2. stopping' \in BOOLEAN /\ leaving' \in Seq(Range(Finally))
    BY <1>1, FinallyParts
  <2>3. QED
    BY <1>1, <2>1, <2>2 DEF BuilderSound, BarsTypeOK
<1>3. ~stopping'
  BY <1>1, Zenon
<1>4. now' \in Nat
  BY DEF BuilderSound, BarsTypeOK
<1>5. ControlSound'
  BY <1>1, <1>3, <1>4 DEF ControlSound
<1>6. LeavingSound'
  BY <1>1, <1>3 DEF LeavingSound
<1>7. QED
  BY <1>1, <1>2, <1>5, <1>6, TimeframeLeft DEF BuilderSound

LEMMA RestartKeeps ==
    ASSUME BuilderSound, Restart
    PROVE  BuilderSound' /\ \A tf \in Lengths : FinalFrom(ServedOf(csv[tf]), ServedOf(csv'[tf]))
<1>1. /\ pc = "down" /\ pc' = "idle"
      /\ UNCHANGED <<now, quote, serial, todo, stopping, leaving, downSince, logged, durable, lost>>
  BY DEF Restart
<1>2. \A tf \in Lengths :
        /\ TimeframeSound(tf)' /\ LateEnough(tf)'
        /\ closed'[tf] \in Seq(BarType) /\ Len(closed'[tf]) <= BarsKept
        /\ current'[tf] \in Seq(BarType) /\ Len(current'[tf]) <= 1
        /\ csv'[tf] \in Seq(BarType)
        /\ FinalFrom(ServedOf(csv[tf]), ServedOf(csv'[tf]))
  BY TimeframeLoaded
<1>3. (\E f : closed' = [tf \in Lengths |-> f[tf]]) /\ (\E f : current' = [tf \in Lengths |-> f[tf]])
      /\ (\E f : csv' = [tf \in Lengths |-> f[tf]])
  <2>1. closed' = [tf \in Lengths |-> closed'[tf]] /\ current' = [tf \in Lengths |-> current'[tf]]
        /\ csv' = [tf \in Lengths |-> csv'[tf]]
    BY DEF Restart
  <2>2. QED
    BY <2>1
<1>4. /\ closed' \in [Lengths -> Seq(BarType)] /\ current' \in [Lengths -> Seq(BarType)]
      /\ csv' \in [Lengths -> Seq(BarType)]
  BY <1>2, <1>3
<1>5. BarsTypeOK'
  BY <1>1, <1>2, <1>4 DEF BuilderSound, BarsTypeOK
<1>6. ~stopping /\ todo = <<>>
  BY <1>1 DEF BuilderSound, ControlSound
<1>7. ControlSound' /\ LeavingSound'
  BY <1>1, <1>6 DEF BuilderSound, ControlSound, LeavingSound
<1>8. QED
  BY <1>2, <1>5, <1>7 DEF BuilderSound

\* Every step keeps the bars, takes back nothing that was served, and leaves no
\* task behind.
LEMMA EngineStep ==
    ASSUME LiveInv, LinkNext
    PROVE  /\ BuilderSound'
           /\ \A tf \in Lengths : FinalFrom(ServedOf(csv[tf]), ServedOf(csv'[tf]))
           /\ pc' = "down" => link' = "off"
           /\ stopping' /\ leaving' # Finally => link' = "off"
<1>1. /\ BuilderSound /\ lost = {}
      /\ pc = "down" => link = "off"
      /\ stopping /\ leaving # Finally => link = "off"
      /\ pc = "down" => ~stopping
  BY DEF LiveInv, LinkSound, BuilderSound, LeavingSound, ControlSound
<1>2. csv' = csv => \A tf \in Lengths : FinalFrom(ServedOf(csv[tf]), ServedOf(csv'[tf]))
  BY DEF FinalFrom
<1>3. CASE Connected \/ ConnectionError \/ Reconnect \/ TaskFails
  <2>1. UNCHANGED barVars /\ link # "off"
    BY <1>3 DEF Connected, ConnectionError, Reconnect, TaskFails
  <2>2. pc' = pc /\ stopping' = stopping /\ leaving' = leaving /\ csv' = csv
    BY <2>1 DEF barVars, control, files
  <2>3. BuilderSound'
    BY <1>1, <2>1, BuilderUntouched
  <2>4. QED
    BY <1>1, <1>2, <2>1, <2>2, <2>3
<1>4. CASE Message
  <2>1. link # "off" /\ link' = (IF stopping THEN "off" ELSE "open")
    BY <1>4 DEF Message
  <2>2. PICK t \in 0..(MaxTime + MaxSkew) : OnQuote(t)
    BY <1>4 DEF Message, OnAnyQuote
  <2>3. t \in Nat
    BY BarAssumption
  <2>4. BuilderSound'
    BY <1>1, <2>1, <2>2, <2>3, QuoteKeeps
  <2>5. pc' = "apply" /\ stopping' = stopping /\ csv' = csv
    BY <2>2 DEF OnQuote, files
  <2>6. QED
    BY <1>2, <2>1, <2>4, <2>5
<1>5. CASE Build /\ UNCHANGED <<kind, linkVars>>
  <2>1. link' = link
    BY <1>5 DEF linkVars
  <2>2. pc # "down" /\ pc' # "down" /\ stopping' = stopping /\ leaving' = leaving
    BY <1>5 DEF Build, ApplyToTimeframe, AfterQuote, LogCurrent, WriteCsv, FlushDone
  <2>3. CASE WriteCsv
    BY <1>1, <2>1, <2>2, <2>3, WriteKeeps
  <2>4. CASE ApplyToTimeframe \/ AfterQuote \/ LogCurrent \/ FlushDone
    <3>1. csv' = csv
      BY <2>4 DEF ApplyToTimeframe, AfterQuote, LogCurrent, FlushDone, files
    <3>2. BuilderSound'
      BY <1>1, <2>4, ApplyKeeps, AfterQuoteKeeps, FlushLogKeeps, FlushDoneKeeps
    <3>3. QED
      BY <1>1, <1>2, <2>1, <2>2, <3>1, <3>2
  <2>5. QED
    BY <1>5, <2>3, <2>4 DEF Build
<1>6. CASE Stop
  <2>1. pc' = "idle" /\ leaving' = Finally /\ csv' = csv
    BY <1>6 DEF Stop, files
  <2>2. BuilderSound'
    BY <1>1, <1>6, StopKeeps
  <2>3. QED
    BY <1>2, <2>1, <2>2
<1>7. CASE LastFlush /\ UNCHANGED <<kind, linkVars>>
  <2>1. /\ pc = "idle" /\ stopping /\ leaving # <<>> /\ Head(leaving) = "flush" /\ pc' = "flush"
        /\ link' = link /\ csv' = csv
    BY <1>7 DEF LastFlush, linkVars, files
  <2>2. BuilderSound'
    BY <1>1, <1>7, <2>1, FinallyKeeps
  <2>3. leaving # Finally
    BY <2>1, FinallyParts
  <2>4. QED
    BY <1>1, <1>2, <2>1, <2>2, <2>3
<1>8. CASE StopCollector
  <2>1. /\ pc = "idle" /\ stopping /\ leaving # <<>> /\ Head(leaving) = "collector" /\ leaving' = Tail(leaving)
        /\ UNCHANGED <<now, pc, quote, serial, todo, stopping, downSince, memory, files>>
        /\ link' = "off" /\ csv' = csv
    BY <1>8 DEF StopCollector, files
  <2>2. BuilderSound'
    BY <1>1, <2>1, FinallyKeeps
  <2>3. QED
    BY <1>2, <2>1, <2>2
<1>9. CASE StopRaises \/ Gone
  <2>1. /\ pc # "down" /\ Leave /\ lost' = {} /\ link' = "off"
    <3>1. CASE StopRaises
      BY <1>1, <3>1 DEF StopRaises, Crash
    <3>2. CASE Gone /\ Crash
      BY <1>1, <3>2 DEF Gone, Crash
    <3>3. CASE Gone /\ End
      <4>1. pc = "idle" /\ stopping /\ leaving = <<>> /\ Leave /\ link' = "off"
        BY <3>3 DEF Gone, End
      <4>2. lost' = {}
        BY <1>1, <3>3, <4>1, NothingLost
      <4>3. QED
        BY <4>1, <4>2
    <3>4. QED
      BY <1>9, <3>1, <3>2, <3>3 DEF Gone
  <2>2. now' = now /\ csv' = csv
    BY <2>1 DEF Leave
  <2>3. BuilderSound'
    BY <1>1, <2>1, <2>2, LeaveKeeps
  <2>4. QED
    BY <1>2, <2>1, <2>2, <2>3
<1>10. CASE StartEngine
  <2>1. Restart /\ pc = "down" /\ pc' = "idle" /\ stopping' = stopping
    BY <1>10 DEF StartEngine, Restart
  <2>2. QED
    BY <1>1, <2>1, RestartKeeps
<1>11. CASE LinkTick
  <2>1. Tick /\ link' = link /\ pc' = pc /\ stopping' = stopping /\ leaving' = leaving /\ csv' = csv
    BY <1>11 DEF LinkTick, Tick, control, files
  <2>2. BuilderSound'
    BY <1>1, <2>1, TickKeeps
  <2>3. QED
    BY <1>1, <1>2, <2>1, <2>2
<1>12. QED
  BY <1>3, <1>4, <1>5, <1>6, <1>7, <1>8, <1>9, <1>10, <1>11 DEF LinkNext

LEMMA LiveInvariance == LinkSpec => []LiveInv
<1>1. LinkInit => LiveInv
  BY LiveInvInit
<1>2. ASSUME LiveInv, [LinkNext]_allVars PROVE LiveInv'
  <2>1. LinkTypeOK' /\ (link' = "waiting" => errors' > 0)
    BY <1>2, LinkKept
  <2>2. CASE LinkNext
    BY <1>2, <2>1, <2>2, EngineStep DEF LiveInv, LinkSound
  <2>3. CASE UNCHANGED allVars
    <3>1. UNCHANGED barVars /\ link' = link
      BY <2>3 DEF allVars, linkVars
    <3>2. BuilderSound'
      BY <1>2, <3>1, BuilderUntouched DEF LiveInv
    <3>3. pc' = pc /\ stopping' = stopping /\ leaving' = leaving
      BY <3>1 DEF barVars, control
    <3>4. QED
      BY <1>2, <2>1, <3>1, <3>2, <3>3 DEF LiveInv, LinkSound
  <2>4. QED
    BY <1>2, <2>2, <2>3
<1>3. QED
  BY <1>1, <1>2, PTL DEF LinkSpec

\* The bars of every length stay in order and no quote is counted in two of
\* them, through late quotes, closings, flushes, crashes and reloads, and a task
\* of the collector lives only in a living engine and waits only after an
\* error: on_quote, _load_existing_state, run and stop.
THEOREM QuotesAlwaysSound == LinkSpec => []QuotesSound
<1>1. ASSUME LiveInv PROVE QuotesSound
  <2>1. BuilderSound /\ BarsTypeOK
    BY <1>1 DEF LiveInv, BuilderSound
  <2>2. ASSUME NEW tf \in Lengths PROVE Increasing(Rows(tf))
    <3>1. CASE pc = "down"
      <4>1. current[tf] = <<>> /\ closed[tf] = <<>>
        BY <2>1, <3>1 DEF BuilderSound, TimeframeSound
      <4>2. Len(<<>> \o <<>>) = 0
        OBVIOUS
      <4>3. QED
        BY <4>1, <4>2 DEF Rows, Increasing
    <3>2. CASE pc # "down"
      <4>1. AliveWith(closed[tf], current[tf], logged[tf])
        BY <2>1, <3>2 DEF BuilderSound, TimeframeSound
      <4>2. QED
        BY <2>1, <4>1, TimeframeTyped, RowsLogged DEF Rows
    <3>3. QED
      BY <3>1, <3>2
  <2>3. BarsInOrder
    BY <2>2 DEF BarsInOrder, Increasing
  <2>4. QuotesCountedOnce
    BY <2>1 DEF QuotesCountedOnce, BuilderSound, TimeframeSound, Stored
  <2>5. QED
    BY <1>1, <2>1, <2>3, <2>4 DEF QuotesSound, BarsSound, LiveInv, LinkSound
<1>2. QED
  BY <1>1, LiveInvariance, PTL

\* What a flush has logged is never lost, a process that has reloaded has every
\* completed bar there is room for, and an orderly end loses nothing:
\* flush, _load_existing_state and run_engine's finally clause.
THEOREM LoggedAlwaysSurvives == LinkSpec => []LoggedSurvives
<1>1. ASSUME LiveInv PROVE LoggedSurvives
  <2>1. BuilderSound
    BY <1>1 DEF LiveInv
  <2>2. FlushedQuotesSurvive
    BY <2>1 DEF FlushedQuotesSurvive, BuilderSound, TimeframeSound
  <2>3. ASSUME pc = "idle", NEW tf \in Lengths, NEW r \in logged[tf], r.complete,
               \A i \in DOMAIN closed[tf] : closed[tf][i] # r
        PROVE  Len(closed[tf]) = BarsKept /\ r.start < closed[tf][1].start
    BY <2>1, <2>3 DEF BuilderSound, TimeframeSound, AliveWith
  <2>4. ClosedBarsReloaded
    BY <2>3 DEF ClosedBarsReloaded
  <2>5. OrderlyEndSaves
    BY <2>1 DEF OrderlyEndSaves, BuilderSound, LeavingSound
  <2>6. QED
    BY <2>2, <2>4, <2>5 DEF LoggedSurvives
<1>2. QED
  BY <1>1, LiveInvariance, PTL

\* A completed bar the provider has served once is never served with other
\* prices and disappears only as the oldest one, whatever is flushed or
\* reloaded: flush, _load_existing_state and LiveBarMarketDataProvider.
THEOREM ServedAlwaysFinal == LinkSpec => ServedBarsFinal
<1> DEFINE Final == \A tf \in Lengths :
                       \A bar \in Served(tf) :
                          \/ bar \in Served(tf)'
                          \/ /\ Served(tf)' # {}
                             /\ \A later \in Served(tf)' : later.start > bar.start
<1>1. ASSUME LiveInv, [LinkNext]_allVars PROVE [Final]_barVars
  <2>1. CASE LinkNext
    <3>1. \A tf \in Lengths : FinalFrom(ServedOf(csv[tf]), ServedOf(csv'[tf]))
      BY <1>1, <2>1, EngineStep
    <3>2. \A tf \in Lengths : Served(tf) = ServedOf(csv[tf]) /\ Served(tf)' = ServedOf(csv'[tf])
      BY DEF Served, ServedOf
    <3>3. Final
      BY <3>1, <3>2 DEF FinalFrom
    <3>4. QED
      BY <3>3
  <2>2. CASE UNCHANGED allVars
    BY <2>2 DEF allVars
  <2>3. QED
    BY <1>1, <2>1, <2>2
<1>2. QED
  BY <1>1, LiveInvariance, PTL DEF LinkSpec, ServedBarsFinal
=============================================================================
