------------------------ MODULE SignalDeliveryProofs ------------------------
(***************************************************************************)
(* Proofs about SignalDelivery, for any number of signals, cycles, retries *)
(* and remembered fingerprints: the journal and the chat never contradict  *)
(* each other, and a signal is not confirmed again too soon.  And about    *)
(* AsofReplay, for any pairs, correlations, frames, requests and journals: *)
(* its files agree over kills and reruns, and hold no signal twice.        *)
(***************************************************************************)
EXTENDS SignalDelivery, AsofReplay, CountingLemmas, FiniteSetTheorems, TLAPS

-----------------------------------------------------------------------------
(* Sequences and their elements                                            *)

\* Appending adds one element at the end.
LEMMA AppendElements ==
    ASSUME NEW S, NEW seq \in Seq(S), NEW e \in S
    PROVE  /\ Append(seq, e) \in Seq(S)
           /\ Elements(Append(seq, e)) = Elements(seq) \cup {e}
           /\ DOMAIN seq = 1..Len(seq) /\ Len(seq) \in Nat
           /\ DOMAIN Append(seq, e) = 1..(Len(seq) + 1)
           /\ \A i \in 1..Len(seq) : Append(seq, e)[i] = seq[i]
           /\ Append(seq, e)[Len(seq) + 1] = e
<1>1. /\ Append(seq, e) \in Seq(S)
      /\ DOMAIN seq = 1..Len(seq) /\ Len(seq) \in Nat
      /\ DOMAIN Append(seq, e) = 1..(Len(seq) + 1)
      /\ \A i \in 1..Len(seq) : Append(seq, e)[i] = seq[i]
      /\ Append(seq, e)[Len(seq) + 1] = e
  OBVIOUS
<1>2. Elements(Append(seq, e)) = Elements(seq) \cup {e}
  BY <1>1 DEF Elements
<1>3. QED
  BY <1>1, <1>2

\* The head leaves the tail.
LEMMA TailElements ==
    ASSUME NEW S, NEW seq \in Seq(S), seq # <<>>
    PROVE  /\ Head(seq) \in S /\ Tail(seq) \in Seq(S)
           /\ Elements(seq) = {Head(seq)} \cup Elements(Tail(seq))
           /\ Len(Tail(seq)) = Len(seq) - 1 /\ Len(seq) \in Nat \ {0}
           /\ \A i \in 1..(Len(seq) - 1) : Tail(seq)[i] = seq[i + 1]
<1>1. /\ Head(seq) \in S /\ Tail(seq) \in Seq(S)
      /\ Len(Tail(seq)) = Len(seq) - 1 /\ Len(seq) \in Nat \ {0}
      /\ DOMAIN seq = 1..Len(seq) /\ DOMAIN Tail(seq) = 1..(Len(seq) - 1)
      /\ \A i \in 1..(Len(seq) - 1) : Tail(seq)[i] = seq[i + 1]
      /\ Head(seq) = seq[1]
  OBVIOUS
<1>2. \A i \in DOMAIN seq : i = 1 \/ (i - 1) \in DOMAIN Tail(seq)
  BY <1>1
<1>3. Elements(seq) \subseteq {Head(seq)} \cup Elements(Tail(seq))
  <2> SUFFICES ASSUME NEW i \in DOMAIN seq, i # 1 PROVE seq[i] \in Elements(Tail(seq))
    BY <1>1 DEF Elements
  <2>1. i - 1 \in DOMAIN Tail(seq) /\ Tail(seq)[i - 1] = seq[i]
    BY <1>1
  <2>2. QED
    BY <2>1 DEF Elements
<1>4. {Head(seq)} \cup Elements(Tail(seq)) \subseteq Elements(seq)
  <2>1. \A i \in DOMAIN Tail(seq) : i + 1 \in DOMAIN seq /\ Tail(seq)[i] = seq[i + 1]
    BY <1>1
  <2>2. 1 \in DOMAIN seq
    BY <1>1
  <2>3. QED
    BY <1>1, <2>1, <2>2 DEF Elements
<1>5. QED
  BY <1>1, <1>3, <1>4

Apart(seq) == \A i, j \in DOMAIN seq : seq[i] = seq[j] => i = j

\* In a sequence without repetitions the head is not in the tail.
LEMMA TailApart ==
    ASSUME NEW S, NEW seq \in Seq(S), seq # <<>>, Apart(seq)
    PROVE  Head(seq) \notin Elements(Tail(seq)) /\ Apart(Tail(seq))
<1>1. /\ DOMAIN seq = 1..Len(seq) /\ DOMAIN Tail(seq) = 1..(Len(seq) - 1)
      /\ Len(seq) \in Nat \ {0} /\ Head(seq) = seq[1]
      /\ \A i \in 1..(Len(seq) - 1) : Tail(seq)[i] = seq[i + 1]
  OBVIOUS
<1>2. \A i \in DOMAIN Tail(seq) : i + 1 \in DOMAIN seq /\ i + 1 # 1 /\ i \in Nat
  BY <1>1
<1>3. Head(seq) \notin Elements(Tail(seq))
  BY <1>1, <1>2 DEF Elements, Apart
<1>4. \A i, j \in DOMAIN Tail(seq) : Tail(seq)[i] = Tail(seq)[j] => i + 1 = j + 1
  BY <1>1, <1>2 DEF Apart
<1>5. QED
  BY <1>2, <1>3, <1>4 DEF Apart

\* A batch is a sequence of different signals.
LEMMA BatchApart ==
    ASSUME NEW b \in Batches
    PROVE  b \in Seq(Fingerprints) /\ Apart(b)
<1>1. PICK n \in 0..MaxBatch : /\ b \in [1..n -> Fingerprints]
                               /\ \A i, j \in 1..n : i # j => b[i] # b[j]
  BY DEF Batches
<1>2. n \in Nat
  BY <1>1, DeliveryAssumption
<1>3. QED
  BY <1>1, <1>2 DEF Apart

-----------------------------------------------------------------------------
(* Types                                                                   *)

\* An answer is recorded of a signal there is.
Typed == TypeOK /\ (pc = "log" => toSend # <<>>)

LEMMA InitTyped == Init => Typed
<1> SUFFICES ASSUME Init PROVE Typed
  OBVIOUS
<1>1. telegram \in BOOLEAN /\ delivered \in BOOLEAN
  BY DeliveryAssumption, Zenon DEF Init
<1>2. pc = "idle" /\ cycle \in Nat /\ attempts \in 0..(SendRetries - 1)
  BY DeliveryAssumption DEF Init
<1>3. /\ <<>> \in Seq(Fingerprints) /\ <<>> \in Seq(Row) /\ <<>> \in Seq(Message)
  OBVIOUS
<1>4. QED
  BY <1>1, <1>2, <1>3 DEF Init, Typed, TypeOK, Points

LEMMA StepTyped == Typed /\ [Next]_vars => Typed'
<1> SUFFICES ASSUME Typed, [Next]_vars PROVE Typed'
  OBVIOUS
<1> USE DEF Typed, TypeOK, Points, volatile
<1>1. ASSUME NEW b \in Batches, StartCycle(b) PROVE Typed'
  BY <1>1, BatchApart DEF StartCycle
<1>2. CASE RecordCandidate
  <2>1. CandidateRow(cycle, Head(toRecord)) \in Row
    BY <1>2 DEF RecordCandidate, CandidateRow, Row
  <2>2. QED
    BY <1>2, <2>1 DEF RecordCandidate
<1>3. CASE StartSending
  BY <1>3 DEF StartSending
<1>4. CASE SkipSend
  BY <1>4 DEF SkipSend
<1>5. CASE SendSucceeds
  <2>1. Head(toSend) \in Fingerprints /\ toSend # <<>>
    BY <1>5 DEF SendSucceeds, MaySend
  <2>2. [cycle |-> cycle, fp |-> Head(toSend)] \in Message
    BY <2>1 DEF Message
  <2>3. Remember(Head(toSend)) \in Seq(Fingerprints)
    <3> DEFINE longer == Append(remembered, Head(toSend))
    <3>1. /\ longer \in Seq(Fingerprints)
          /\ DOMAIN longer = 1..(Len(remembered) + 1) /\ Len(remembered) \in Nat
      BY <2>1, AppendElements
    <3>2. 1 \in DOMAIN longer
      <4> HIDE DEF longer
      <4>1. QED
        BY <3>1
    <3>3. longer # <<>>
      <4> HIDE DEF longer
      <4>1. QED
        BY <3>2
    <3> HIDE DEF longer
    <3>4. Tail(longer) \in Seq(Fingerprints)
      BY <3>1, <3>3
    <3>5. QED
      BY <3>1, <3>4 DEF Remember, longer
  <2>4. chat' \in Seq(Message) /\ answered' \in Seq(Fingerprints)
    BY <1>5, <2>1, <2>2, AppendElements DEF SendSucceeds
  <2>5. pc' = "log" /\ attempts' \in 0..(SendRetries - 1) /\ delivered' \in BOOLEAN
    BY <1>5, DeliveryAssumption DEF SendSucceeds
  <2>6. QED
    BY <1>5, <2>1, <2>3, <2>4, <2>5 DEF SendSucceeds
<1>6. CASE SendRaises
  <2>1. [cycle |-> cycle, fp |-> Head(toSend)] \in Message
    BY <1>6 DEF SendRaises, MaySend, Message
  <2>2. chat' \in Seq(Message)
    <3>1. chat' = chat \/ chat' = Append(chat, [cycle |-> cycle, fp |-> Head(toSend)])
      BY <1>6, Zenon DEF SendRaises
    <3>2. Append(chat, [cycle |-> cycle, fp |-> Head(toSend)]) \in Seq(Message)
      BY <2>1, AppendElements
    <3>3. QED
      BY <3>1, <3>2
  <2>3. attempts' \in 0..(SendRetries - 1) /\ pc' \in Points /\ toSend' # <<>>
    BY <1>6, DeliveryAssumption DEF SendRaises, LastAttempt, MaySend
  <2>4. delivered' \in BOOLEAN
    BY <1>6, Zenon DEF SendRaises
  <2>5. QED
    BY <1>6, <2>2, <2>3, <2>4 DEF SendRaises
<1>7. CASE RecordDelivery
  <2>1. DeliveryRow(cycle, Head(toSend), delivered) \in Row
    BY <1>7 DEF RecordDelivery, DeliveryRow, Row
  <2>2. QED
    BY <1>7, <2>1 DEF RecordDelivery
<1>8. CASE FinishCycle
  BY <1>8 DEF FinishCycle
<1>9. CASE Crash
  <2>1. pc' = "down" /\ delivered' = FALSE /\ attempts' = 0
    BY <1>9, Zenon DEF Crash
  <2>2. <<>> \in Seq(Fingerprints) /\ 0 \in 0..(SendRetries - 1)
    BY DeliveryAssumption
  <2>3. QED
    BY <1>9, <2>1, <2>2 DEF Crash
<1>10. CASE Restart
  <2>1. telegram' \in BOOLEAN
    BY <1>10, DeliveryAssumption, Zenon DEF Restart
  <2>2. QED
    BY <1>10, <2>1 DEF Restart
<1>11. CASE UNCHANGED vars
  BY <1>11 DEF vars
<1>12. QED
  BY <1>1, <1>2, <1>3, <1>4, <1>5, <1>6, <1>7, <1>8, <1>9, <1>10, <1>11 DEF Next, Work, Deliver

LEMMA AlwaysTyped == Spec => []Typed
  BY InitTyped, StepTyped, PTL DEF Spec

-----------------------------------------------------------------------------
(* The journal and the chat                                                *)

\* What the loop still has to do is not in the journal yet, and what it has
\* announced there is: the rows are of cycles begun, the signals to send are
\* different ones without a delivery row of this cycle, those that no longer
\* wait for a candidate row have one, and the answer about to be recorded is
\* true.
Joinable ==
    /\ \A r \in Elements(rows) :
          r.cycle <= cycle /\ (r.type = "delivery" /\ r.cycle = cycle => r.fp \notin Elements(toSend))
    /\ Apart(toSend)
    /\ pc \in {"send", "log"} => toRecord = <<>>
    /\ \A s \in Elements(toSend) :
          s \in Elements(toRecord) \/ CandidateRow(cycle, s) \in Elements(rows)
    /\ pc = "log" /\ delivered => [cycle |-> cycle, fp |-> Head(toSend)] \in Elements(chat)

Consistent == MessageHasCandidate /\ SentRowsAreTrue /\ DeliveryRowsMatch

Journalled == Joinable /\ Consistent

\* A row that is true and can be joined keeps the journal consistent.
LEMMA RowAppended ==
    ASSUME Typed, Consistent, NEW r \in Row, rows' = Append(rows, r), chat' = chat,
           r.delivered => [cycle |-> r.cycle, fp |-> r.fp] \in Elements(chat),
           r.type = "delivery" =>
               /\ CandidateRow(r.cycle, r.fp) \in Elements(rows)
               /\ \A x \in Elements(rows) :
                     ~(x.type = "delivery" /\ x.cycle = r.cycle /\ x.fp = r.fp)
    PROVE  Consistent'
<1>1. /\ Elements(rows') = Elements(rows) \cup {r}
      /\ DOMAIN rows = 1..Len(rows) /\ Len(rows) \in Nat
      /\ DOMAIN rows' = 1..(Len(rows) + 1)
      /\ \A i \in 1..Len(rows) : rows'[i] = rows[i]
      /\ rows'[Len(rows) + 1] = r
  BY AppendElements DEF Typed, TypeOK
<1>2. MessageHasCandidate' /\ SentRowsAreTrue'
  BY <1>1 DEF Consistent, MessageHasCandidate, SentRowsAreTrue
<1>3. DeliveryRowsMatch'
  <2> SUFFICES ASSUME NEW j \in DOMAIN rows', rows'[j].type = "delivery"
               PROVE  /\ \E i \in 1..(j - 1) : rows'[i] = CandidateRow(rows'[j].cycle, rows'[j].fp)
                      /\ \A i \in DOMAIN rows' \ {j} :
                            ~(/\ rows'[i].type = "delivery"
                              /\ rows'[i].cycle = rows'[j].cycle /\ rows'[i].fp = rows'[j].fp)
    BY Zenon DEF DeliveryRowsMatch
  <2>1. CASE j = Len(rows) + 1
    <3>1. rows'[j] = r
      BY <1>1, <2>1
    <3>2. PICK i \in DOMAIN rows : rows[i] = CandidateRow(r.cycle, r.fp)
      BY <3>1 DEF Elements
    <3>3. i \in 1..(j - 1) /\ rows'[i] = CandidateRow(rows'[j].cycle, rows'[j].fp)
      BY <1>1, <2>1, <3>1, <3>2
    <3>4. \A k \in DOMAIN rows' \ {j} : rows'[k] \in Elements(rows)
      BY <1>1, <2>1 DEF Elements
    <3>5. QED
      BY <3>1, <3>3, <3>4
  <2>2. CASE j # Len(rows) + 1
    <3>1. j \in DOMAIN rows /\ rows'[j] = rows[j] /\ rows[j] \in Elements(rows)
      BY <1>1, <2>2 DEF Elements
    <3>2. PICK i \in 1..(j - 1) : rows[i] = CandidateRow(rows[j].cycle, rows[j].fp)
      BY <3>1 DEF Consistent, DeliveryRowsMatch
    <3>3. rows'[i] = CandidateRow(rows'[j].cycle, rows'[j].fp)
      BY <1>1, <3>1, <3>2
    <3>4. \A k \in DOMAIN rows \ {j} :
             ~(/\ rows'[k].type = "delivery"
               /\ rows'[k].cycle = rows'[j].cycle /\ rows'[k].fp = rows'[j].fp)
      BY <1>1, <3>1 DEF Consistent, DeliveryRowsMatch
    <3>5. \A k \in DOMAIN rows' : k \in DOMAIN rows \/ rows'[k] = r
      BY <1>1
    <3>6. QED
      BY <3>1, <3>3, <3>4, <3>5
  <2>3. QED
    BY <2>1, <2>2
<1>4. QED
  BY <1>2, <1>3 DEF Consistent

\* So does a message whose candidate is in the journal.
LEMMA MessageAdded ==
    ASSUME Typed, Consistent, NEW m \in Message, rows' = rows,
           CandidateRow(m.cycle, m.fp) \in Elements(rows),
           chat' = chat \/ chat' = Append(chat, m)
    PROVE  Consistent' /\ Elements(chat) \subseteq Elements(chat')
           /\ (chat' = Append(chat, m) => m \in Elements(chat'))
<1>1. Elements(Append(chat, m)) = Elements(chat) \cup {m}
  BY AppendElements DEF Typed, TypeOK
<1>2. QED
  BY <1>1 DEF Consistent, MessageHasCandidate, SentRowsAreTrue, DeliveryRowsMatch

LEMMA InitJournalled == Init => Journalled
  BY DEF Init, Journalled, Joinable, Consistent, Elements, Apart, MessageHasCandidate,
         SentRowsAreTrue, DeliveryRowsMatch

LEMMA StepJournalled == Typed /\ Journalled /\ [Next]_vars => Journalled'
<1> SUFFICES ASSUME Typed, Joinable, Consistent, [Next]_vars PROVE Joinable' /\ Consistent'
  BY DEF Journalled
<1>a. /\ toSend \in Seq(Fingerprints) /\ toRecord \in Seq(Fingerprints) /\ cycle \in Nat
      /\ rows \in Seq(Row) /\ (pc = "log" => toSend # <<>>)
  BY DEF Typed, TypeOK
<1>b. UNCHANGED <<rows, chat>> => Consistent'
  BY DEF Consistent, MessageHasCandidate, SentRowsAreTrue, DeliveryRowsMatch
<1>1. ASSUME NEW b \in Batches, StartCycle(b) PROVE Joinable' /\ Consistent'
  <2>1. /\ cycle' = cycle + 1 /\ toRecord' = b /\ toSend' = b /\ pc' = "record"
        /\ rows' = rows /\ chat' = chat
    BY <1>1 DEF StartCycle
  <2>2. \A r \in Elements(rows) : r.cycle <= cycle /\ r.cycle \in Nat
    <3>1. Elements(rows) \subseteq Row
      BY <1>a DEF Elements
    <3>2. QED
      BY <3>1 DEF Joinable, Row
  <2>3. \A r \in Elements(rows') : r.cycle <= cycle' /\ r.cycle # cycle'
    BY <1>a, <2>1, <2>2
  <2>4. Apart(toSend')
    BY <2>1, BatchApart
  <2>5. QED
    BY <1>b, <2>1, <2>3, <2>4 DEF Joinable
<1>2. CASE RecordCandidate
  <2> DEFINE s == Head(toRecord)
             r == CandidateRow(cycle, s)
  <2>1. /\ rows' = Append(rows, r) /\ toRecord' = Tail(toRecord) /\ toRecord # <<>>
        /\ UNCHANGED <<pc, cycle, toSend, chat, delivered>> /\ pc = "record"
    BY <1>2 DEF RecordCandidate
  <2>2. /\ r \in Row /\ r.type = "candidate" /\ ~r.delivered /\ r.cycle = cycle
        /\ Elements(toRecord) = {s} \cup Elements(Tail(toRecord))
    BY <1>a, <2>1, TailElements DEF CandidateRow, Row
  <2>3. Elements(rows') = Elements(rows) \cup {r}
    BY <1>a, <2>1, <2>2, AppendElements
  <2>4. Consistent'
    BY <2>1, <2>2, RowAppended
  <2>5. Joinable'
    BY <1>a, <2>1, <2>2, <2>3 DEF Joinable
  <2>6. QED
    BY <2>4, <2>5
<1>3. CASE StartSending
  BY <1>3, <1>b DEF StartSending, volatile, Joinable
<1>4. CASE SkipSend
  BY <1>4, <1>b DEF SkipSend, Joinable
<1>5. CASE SendSucceeds \/ SendRaises
  <2> DEFINE m == [cycle |-> cycle, fp |-> Head(toSend)]
  <2>1. /\ UNCHANGED <<cycle, toRecord, toSend, rows>> /\ toSend # <<>> /\ pc = "send"
        /\ pc' \in {"send", "log"}
    BY <1>5 DEF SendSucceeds, SendRaises, MaySend
  <2>2. chat' = chat \/ chat' = Append(chat, m)
    BY <1>5, Zenon DEF SendSucceeds, SendRaises
  <2>3. pc' = "log" /\ delivered' => chat' = Append(chat, m)
    BY <1>5, <2>1 DEF SendSucceeds, SendRaises
  <2>4. Head(toSend) \in Fingerprints /\ Head(toSend) \in Elements(toSend)
    BY <1>a, <2>1, TailElements
  <2>5. toRecord = <<>> /\ CandidateRow(cycle, Head(toSend)) \in Elements(rows)
    BY <2>1, <2>4 DEF Joinable, Elements
  <2>6. m \in Message /\ m.cycle = cycle /\ m.fp = Head(toSend)
    BY <1>a, <2>4 DEF Message
  <2>7. Consistent' /\ (chat' = Append(chat, m) => m \in Elements(chat'))
    BY <2>1, <2>2, <2>5, <2>6, MessageAdded
  <2>8. Joinable'
    BY <2>1, <2>3, <2>5, <2>7 DEF Joinable
  <2>9. QED
    BY <2>7, <2>8
<1>6. CASE RecordDelivery
  <2> DEFINE s == Head(toSend)
             r == DeliveryRow(cycle, s, delivered)
  <2>1. /\ rows' = Append(rows, r) /\ toSend' = Tail(toSend) /\ toSend # <<>>
        /\ UNCHANGED <<cycle, toRecord, chat>> /\ pc = "log" /\ pc' = "send"
    BY <1>6, <1>a DEF RecordDelivery
  <2>2. /\ s \in Fingerprints /\ s \in Elements(toSend)
        /\ Elements(toSend') \subseteq Elements(toSend)
    BY <1>a, <2>1, TailElements
  <2>3. s \notin Elements(toSend') /\ Apart(toSend')
    BY <1>a, <2>1, TailApart DEF Joinable
  <2>4. /\ r \in Row /\ r.type = "delivery" /\ r.delivered = delivered
        /\ r.cycle = cycle /\ r.fp = s
    BY <1>a, <2>2 DEF DeliveryRow, Row, Typed, TypeOK
  <2>5. Elements(rows') = Elements(rows) \cup {r}
    BY <1>a, <2>1, <2>4, AppendElements
  <2>6. toRecord = <<>> /\ CandidateRow(cycle, s) \in Elements(rows)
    BY <2>1, <2>2 DEF Joinable, Elements
  <2>7. \A x \in Elements(rows) : ~(x.type = "delivery" /\ x.cycle = cycle /\ x.fp = s)
    BY <2>2 DEF Joinable
  <2>8. delivered => [cycle |-> cycle, fp |-> s] \in Elements(chat)
    BY <2>1 DEF Joinable
  <2>9. Consistent'
    BY <2>1, <2>4, <2>6, <2>7, <2>8, RowAppended
  <2>10. Joinable'
    <3>1. \A x \in Elements(rows') :
             x.cycle <= cycle' /\ (x.type = "delivery" /\ x.cycle = cycle' => x.fp \notin Elements(toSend'))
      BY <1>a, <2>1, <2>2, <2>3, <2>4, <2>5 DEF Joinable
    <3>2. \A x \in Elements(toSend') :
             x \in Elements(toRecord') \/ CandidateRow(cycle', x) \in Elements(rows')
      BY <2>1, <2>2, <2>5 DEF Joinable
    <3>3. QED
      BY <2>1, <2>3, <2>6, <3>1, <3>2 DEF Joinable
  <2>11. QED
    BY <2>9, <2>10
<1>7. CASE FinishCycle
  BY <1>7, <1>b DEF FinishCycle, volatile, Joinable
<1>8. CASE Crash
  BY <1>8, <1>b DEF Crash, Joinable, Elements, Apart
<1>9. CASE Restart
  BY <1>9, <1>b DEF Restart, volatile, Joinable
<1>10. CASE UNCHANGED vars
  BY <1>10, <1>b DEF vars, volatile, Joinable
<1>11. QED
  BY <1>1, <1>2, <1>3, <1>4, <1>5, <1>6, <1>7, <1>8, <1>9, <1>10 DEF Next, Work, Deliver

LEMMA AlwaysJournalled == Spec => []Journalled
  BY InitJournalled, StepJournalled, AlwaysTyped, PTL DEF Spec

\* The journal and the chat never contradict each other, for any signals,
\* retries and number of cycles, wherever a crash comes (the loop of
\* run_engine, the journal it writes and the messages it sends).
THEOREM JournalAlwaysTrue == Spec => []JournalTrue
<1>1. Typed /\ Journalled => JournalTrue
  BY DEF Typed, Journalled, Consistent, JournalTrue
<1>2. QED
  BY <1>1, AlwaysTyped, AlwaysJournalled, PTL

-----------------------------------------------------------------------------
(* Confirmed signals                                                       *)

\* What the deduplicator remembers are the last confirmed signals, as many as
\* it has room for.
RemembersLast ==
    /\ Len(remembered) = IF Len(answered) < DedupCache THEN Len(answered) ELSE DedupCache
    /\ \A i \in 1..Len(remembered) : remembered[i] = answered[Len(answered) - Len(remembered) + i]

LEMMA StepRemembers ==
    Typed /\ RemembersLast /\ ConfirmedOnce /\ [Next]_vars => RemembersLast' /\ ConfirmedOnce'
<1> SUFFICES ASSUME Typed, RemembersLast, ConfirmedOnce, [Next]_vars
             PROVE  RemembersLast' /\ ConfirmedOnce'
  OBVIOUS
<1>a. remembered \in Seq(Fingerprints) /\ answered \in Seq(Fingerprints) /\ DedupCache \in Nat
  BY DeliveryAssumption DEF Typed, TypeOK
<1>b. UNCHANGED <<remembered, answered>> => RemembersLast' /\ ConfirmedOnce'
  BY DEF RemembersLast, ConfirmedOnce
<1>1. CASE SendSucceeds
  <2> DEFINE s == Head(toSend)
             n == Len(answered)
             k == Len(remembered)
             all == Append(remembered, s)
  <2>1. /\ s \in Fingerprints /\ s \notin Elements(remembered)
        /\ answered' = Append(answered, s) /\ remembered' = Remember(s)
    BY <1>1, TailElements DEF SendSucceeds, MaySend, Seen, Typed, TypeOK
  <2>2. /\ n \in Nat /\ k \in Nat /\ k = (IF n < DedupCache THEN n ELSE DedupCache)
        /\ \A i \in 1..k : remembered[i] = answered[n - k + i]
    <3>1. n \in Nat /\ k \in Nat
      BY <1>a
    <3>2. QED
      BY <3>1, Zenon DEF RemembersLast
  <2>3. /\ Len(answered') = n + 1 /\ answered'[n + 1] = s /\ DOMAIN answered' = 1..(n + 1)
        /\ \A i \in 1..n : answered'[i] = answered[i]
    BY <1>a, <2>1
  <2>4. remembered' = IF k + 1 > DedupCache THEN Tail(all) ELSE all
    BY <1>a, <2>1, <2>2 DEF Remember, Seen
  <2>5. /\ all \in Seq(Fingerprints) /\ all # <<>> /\ Len(all) = k + 1 /\ all[k + 1] = s
        /\ \A i \in 1..k : all[i] = remembered[i]
    BY <1>a, <2>1
  <2>6. \A i \in 1..(k + 1) : all[i] = answered'[n - k + i]
    <3>1. \A i \in 1..k : n - k + i \in 1..n
      BY <2>2, <1>a
    <3>2. SUFFICES ASSUME NEW i \in 1..(k + 1) PROVE all[i] = answered'[n - k + i]
      OBVIOUS
    <3>3. CASE i = k + 1
      BY <2>2, <2>3, <2>5, <3>3
    <3>4. CASE i # k + 1
      BY <2>2, <2>3, <2>5, <3>1, <3>4
    <3>5. QED
      BY <3>3, <3>4
  <2>7. RemembersLast'
    <3>1. CASE k + 1 > DedupCache
      <4>1. /\ remembered' = Tail(all) /\ Len(Tail(all)) = k
            /\ \A i \in 1..k : Tail(all)[i] = all[i + 1]
        BY <2>4, <2>5, <2>2, <3>1, TailElements
      <4>2. k = DedupCache /\ n >= DedupCache
        BY <1>a, <2>2, <3>1
      <4>3. \A i \in 1..k : all[i + 1] = answered'[(n + 1) - k + i]
        <5>1. \A i \in 1..k : i + 1 \in 1..(k + 1) /\ n - k + (i + 1) = (n + 1) - k + i
          BY <2>2
        <5>2. QED
          BY <2>6, <5>1
      <4>4. Len(remembered') = IF Len(answered') < DedupCache THEN Len(answered') ELSE DedupCache
        BY <1>a, <2>2, <2>3, <4>1, <4>2
      <4>5. Len(remembered') = k /\ \A i \in 1..k : remembered'[i] = answered'[(n + 1) - k + i]
        BY <4>1, <4>3
      <4>6. QED
        BY <2>3, <4>4, <4>5, Zenon DEF RemembersLast
    <3>2. CASE ~(k + 1 > DedupCache)
      <4>1. remembered' = all /\ k = n /\ n + 1 <= DedupCache
        BY <1>a, <2>2, <2>4, <3>2
      <4>2. Len(remembered') = IF Len(answered') < DedupCache THEN Len(answered') ELSE DedupCache
        BY <1>a, <2>2, <2>3, <2>5, <4>1
      <4>3. Len(remembered') = k + 1 /\ n - k = (n + 1) - (k + 1)
        BY <2>2, <2>5, <4>1
      <4>4. \A i \in 1..(k + 1) : remembered'[i] = answered'[(n + 1) - (k + 1) + i]
        BY <2>6, <4>1, <4>3
      <4>5. QED
        BY <2>3, <4>2, <4>3, <4>4, Zenon DEF RemembersLast
    <3>3. QED
      BY <3>1, <3>2
  <2>8. \A i \in 1..n : answered[i] = s => (n + 1) - i > DedupCache
    <3> SUFFICES ASSUME NEW i \in 1..n, answered[i] = s, ~((n + 1) - i > DedupCache) PROVE FALSE
      OBVIOUS
    <3>1. i - (n - k) \in 1..k
      BY <1>a, <2>2
    <3>2. remembered[i - (n - k)] = answered[n - k + (i - (n - k))]
      BY <2>2, <3>1
    <3>3. n - k + (i - (n - k)) = i
      BY <2>2
    <3>4. remembered[i - (n - k)] \in Elements(remembered)
      BY <1>a, <3>1 DEF Elements
    <3>5. QED
      BY <2>1, <3>2, <3>3, <3>4
  <2>9. ConfirmedOnce'
    <3> SUFFICES ASSUME NEW i \in DOMAIN answered', NEW j \in DOMAIN answered',
                        i < j, answered'[i] = answered'[j]
                 PROVE  j - i > DedupCache
      BY Zenon DEF ConfirmedOnce
    <3>1. i \in 1..n /\ j \in 1..(n + 1) /\ DOMAIN answered = 1..n
      BY <1>a, <2>2, <2>3
    <3>2. CASE j = n + 1
      BY <2>3, <2>8, <3>1, <3>2
    <3>3. CASE j \in 1..n
      BY <2>3, <3>1, <3>3 DEF ConfirmedOnce
    <3>4. QED
      BY <2>2, <3>1, <3>2, <3>3
  <2>10. QED
    BY <2>7, <2>9
<1>2. CASE Crash
  <2>1. remembered' = <<>> /\ answered' = <<>>
    BY <1>2 DEF Crash
  <2>2. QED
    BY <1>a, <2>1 DEF RemembersLast, ConfirmedOnce
<1>3. CASE UNCHANGED <<remembered, answered>>
  BY <1>3, <1>b
<1>4. QED
  BY <1>1, <1>2, <1>3 DEF Next, Work, Deliver, vars, volatile, StartCycle, RecordCandidate,
     StartSending, SkipSend, SendRaises, RecordDelivery, FinishCycle, Restart

\* A signal the process has had confirmed is not confirmed again before
\* max_cache others have been, for every size of the cache
\* (SignalDeduplicator as send_signal uses it).
THEOREM ConfirmedOnceAlways == Spec => []ConfirmedOnce
<1>1. Init => RemembersLast /\ ConfirmedOnce
  BY DeliveryAssumption DEF Init, RemembersLast, ConfirmedOnce
<1>2. QED
  BY <1>1, StepRemembers, AlwaysTyped, PTL DEF Spec

-----------------------------------------------------------------------------
(* Messages                                                                *)

Copies(m, messages) == {i \in DOMAIN messages : messages[i] = m}

LEMMA CopiesFinite ==
    ASSUME Typed, NEW m
    PROVE  IsFiniteSet(Copies(m, chat)) /\ Cardinality(Copies(m, chat)) \in Nat
<1>1. DOMAIN chat = 1..Len(chat) /\ Len(chat) \in Nat
  BY DEF Typed, TypeOK
<1>2. IsFiniteSet(DOMAIN chat)
  BY <1>1, FS_Interval
<1>3. IsFiniteSet(Copies(m, chat))
  BY <1>2, FS_Subset DEF Copies
<1>4. QED
  BY <1>3, FS_CardinalityType

\* A message in the chat is one more copy of itself and of no other.
LEMMA OneMoreCopy ==
    ASSUME Typed, NEW m \in Message, chat' = Append(chat, m)
    PROVE  /\ \A x : x # m => Copies(x, chat') = Copies(x, chat)
           /\ Cardinality(Copies(m, chat')) <= Cardinality(Copies(m, chat)) + 1
           /\ Cardinality(Copies(m, chat')) \in Nat
<1>1. /\ DOMAIN chat = 1..Len(chat) /\ Len(chat) \in Nat
      /\ DOMAIN chat' = 1..(Len(chat) + 1)
      /\ \A i \in 1..Len(chat) : chat'[i] = chat[i]
      /\ chat'[Len(chat) + 1] = m
  BY AppendElements DEF Typed, TypeOK
<1>2. ASSUME NEW x, x # m PROVE Copies(x, chat') = Copies(x, chat)
  <2>1. \A i \in DOMAIN chat' : chat'[i] = x => i \in DOMAIN chat /\ chat[i] = x
    BY <1>1, <1>2
  <2>2. \A i \in DOMAIN chat : i \in DOMAIN chat' /\ chat'[i] = chat[i]
    BY <1>1
  <2>3. QED
    BY <2>1, <2>2 DEF Copies
<1>3. Copies(m, chat') = Copies(m, chat) \cup {Len(chat) + 1}
  <2>1. \A i \in DOMAIN chat' : i = Len(chat) + 1 \/ i \in DOMAIN chat
    BY <1>1
  <2>2. \A i \in DOMAIN chat : i \in DOMAIN chat' /\ chat'[i] = chat[i]
    BY <1>1
  <2>3. Len(chat) + 1 \in DOMAIN chat'
    BY <1>1
  <2>4. QED
    BY <1>1, <2>1, <2>2, <2>3 DEF Copies
<1>4. Cardinality(Copies(m, chat')) \in {Cardinality(Copies(m, chat)), Cardinality(Copies(m, chat)) + 1}
  BY <1>3, CopiesFinite, FS_AddElement
<1>5. QED
  BY <1>2, <1>4, CopiesFinite

\* A signal of the cycle has as many copies in the chat as it had attempts, and
\* the signals behind it in the queue have none.  Attempts are only made for a
\* signal that is not skipped, so a skipped signal leaves no count behind.
AttemptsCounted ==
    /\ \A m \in Elements(chat) : m.cycle <= cycle
    /\ \A m \in Message : Cardinality(Copies(m, chat)) <= SendRetries
    /\ pc # "send" \/ toSend = <<>> => attempts = 0
    /\ attempts # 0 => telegram /\ Head(toSend) \notin Elements(remembered)
    /\ pc \in {"record", "send", "log"} =>
          \A s \in Elements(toSend) : s # Head(toSend) => Copies([cycle |-> cycle, fp |-> s], chat) = {}
    /\ pc \in {"record", "send"} /\ toSend # <<>> =>
          Cardinality(Copies([cycle |-> cycle, fp |-> Head(toSend)], chat)) <= attempts

LEMMA StepCounted ==
    Typed /\ Joinable /\ AttemptsCounted /\ [Next]_vars => AttemptsCounted'
<1> SUFFICES ASSUME Typed, Joinable, AttemptsCounted, [Next]_vars PROVE AttemptsCounted'
  OBVIOUS
<1> USE DeliveryAssumption
<1>a. /\ toSend \in Seq(Fingerprints) /\ cycle \in Nat /\ attempts \in 0..(SendRetries - 1)
      /\ chat \in Seq(Message) /\ (pc = "log" => toSend # <<>>)
  BY DEF Typed, TypeOK
<1>b. chat' = chat => \A m : Copies(m, chat') = Copies(m, chat)
  BY DEF Copies
<1>1. ASSUME NEW b \in Batches, StartCycle(b) PROVE AttemptsCounted'
  <2>1. /\ cycle' = cycle + 1 /\ toSend' = b /\ pc' = "record"
        /\ chat' = chat /\ attempts' = attempts /\ attempts = 0
    BY <1>1 DEF StartCycle, AttemptsCounted
  <2>2. \A m \in Elements(chat) : m.cycle \in Nat /\ m.cycle <= cycle /\ m.cycle # cycle'
    <3>1. Elements(chat) \subseteq Message
      BY <1>a DEF Elements
    <3>2. QED
      BY <1>a, <2>1, <3>1 DEF AttemptsCounted, Message
  <2>3. \A s : Copies([cycle |-> cycle', fp |-> s], chat') = {}
    BY <2>1, <2>2 DEF Copies, Elements
  <2>4. QED
    BY <1>a, <1>b, <2>1, <2>2, <2>3, FS_EmptySet DEF AttemptsCounted
<1>2. CASE RecordCandidate \/ StartSending \/ SkipSend
  <2>1. /\ UNCHANGED <<cycle, toSend, chat, attempts>>
        /\ \/ pc' = pc /\ pc = "record"
           \/ pc' = "send" /\ pc = "record"
           \/ pc' = "log" /\ pc = "send" /\ toSend # <<>> /\ attempts = 0
    BY <1>2 DEF RecordCandidate, StartSending, SkipSend, Seen, volatile, AttemptsCounted
  <2>2. /\ \A m \in Elements(chat') : m.cycle <= cycle'
        /\ \A m \in Message : Cardinality(Copies(m, chat')) <= SendRetries
    BY <2>1 DEF AttemptsCounted
  <2>3. /\ pc' # "send" \/ toSend' = <<>> => attempts' = 0
        /\ attempts' # 0 => telegram' /\ Head(toSend') \notin Elements(remembered')
    <3>1. UNCHANGED <<telegram, remembered>>
      BY <1>2 DEF RecordCandidate, StartSending, SkipSend, volatile
    <3>2. QED
      BY <2>1, <3>1 DEF AttemptsCounted
  <2>4. \A s \in Elements(toSend') : s # Head(toSend') => Copies([cycle |-> cycle', fp |-> s], chat') = {}
    BY <2>1 DEF AttemptsCounted
  <2>5. pc' \in {"record", "send"} /\ toSend' # <<>> =>
          Cardinality(Copies([cycle |-> cycle', fp |-> Head(toSend')], chat')) <= attempts'
    BY <2>1 DEF AttemptsCounted
  <2>6. QED
    BY <2>2, <2>3, <2>4, <2>5, Zenon DEF AttemptsCounted
<1>3. CASE SendSucceeds \/ SendRaises
  <2> DEFINE m == [cycle |-> cycle, fp |-> Head(toSend)]
  <2>1. /\ UNCHANGED <<cycle, toSend>> /\ toSend # <<>> /\ pc = "send"
        /\ \/ pc' = "log" /\ attempts' = 0
           \/ pc' = "send" /\ attempts' = attempts + 1
    BY <1>3, Zenon DEF SendSucceeds, SendRaises, MaySend
  <2>2. chat' = chat \/ chat' = Append(chat, m)
    BY <1>3, Zenon DEF SendSucceeds, SendRaises
  <2>3. Head(toSend) \in Fingerprints /\ m \in Message
    BY <1>a, <2>1, TailElements DEF Message
  <2>4. /\ Elements(chat') \subseteq Elements(chat) \cup {m}
        /\ \A x : x # m => Copies(x, chat') = Copies(x, chat)
        /\ Cardinality(Copies(m, chat')) <= Cardinality(Copies(m, chat)) + 1
        /\ Cardinality(Copies(m, chat')) \in Nat /\ Cardinality(Copies(m, chat)) \in Nat
    <3> HIDE DEF m
    <3>1. CASE chat' = chat
      <4>1. Cardinality(Copies(m, chat)) \in Nat
        BY <1>a, CopiesFinite
      <4>2. Cardinality(Copies(m, chat)) <= Cardinality(Copies(m, chat)) + 1
        BY <4>1
      <4>3. QED
        BY <3>1, <4>1, <4>2
    <3>2. CASE chat' = Append(chat, m)
      <4>1. Elements(chat') = Elements(chat) \cup {m}
        BY <1>a, <2>3, <3>2, AppendElements
      <4>2. /\ \A x : x # m => Copies(x, chat') = Copies(x, chat)
            /\ Cardinality(Copies(m, chat')) <= Cardinality(Copies(m, chat)) + 1
            /\ Cardinality(Copies(m, chat')) \in Nat
        BY <1>a, <2>3, <3>2, OneMoreCopy
      <4>3. Cardinality(Copies(m, chat)) \in Nat
        BY <1>a, CopiesFinite
      <4>4. QED
        BY <4>1, <4>2, <4>3
    <3>3. QED
      BY <2>2, <3>1, <3>2
  <2>5. Cardinality(Copies(m, chat')) <= attempts + 1 /\ Cardinality(Copies(m, chat')) <= SendRetries
    BY <1>a, <2>1, <2>4 DEF AttemptsCounted
  <2>6. \A x \in Elements(chat') : x.cycle <= cycle'
    BY <1>a, <2>1, <2>4 DEF AttemptsCounted
  <2>7. \A x \in Message : Cardinality(Copies(x, chat')) <= SendRetries
    BY <2>4, <2>5 DEF AttemptsCounted
  <2>8. \A s \in Elements(toSend) : s # Head(toSend) => Copies([cycle |-> cycle, fp |-> s], chat') = {}
    BY <2>1, <2>4 DEF AttemptsCounted
  <2>9. attempts' # 0 => telegram' /\ Head(toSend') \notin Elements(remembered')
    <3>1. \/ attempts' = 0
          \/ /\ telegram /\ telegram' = telegram /\ remembered' = remembered
             /\ Head(toSend) \notin Elements(remembered)
      BY <1>3, Zenon DEF SendSucceeds, SendRaises, MaySend, Seen
    <3>2. QED
      BY <2>1, <3>1
  <2>10. QED
    BY <2>1, <2>5, <2>6, <2>7, <2>8, <2>9 DEF AttemptsCounted
<1>4. CASE RecordDelivery
  <2>1. /\ toSend' = Tail(toSend) /\ toSend # <<>> /\ pc = "log" /\ pc' = "send"
        /\ UNCHANGED <<cycle, chat, attempts>>
    BY <1>a, <1>4 DEF RecordDelivery
  <2>2. /\ Elements(toSend') \subseteq Elements(toSend)
        /\ Head(toSend) \notin Elements(toSend')
    BY <1>a, <2>1, TailElements, TailApart DEF Joinable
  <2>3. \A s \in Elements(toSend') : Copies([cycle |-> cycle, fp |-> s], chat) = {}
    BY <2>1, <2>2 DEF AttemptsCounted
  <2>4. toSend' # <<>> => Head(toSend') \in Elements(toSend')
    <3>1. toSend' \in Seq(Fingerprints)
      BY <1>a, <2>1, TailElements
    <3>2. QED
      BY <3>1, TailElements
  <2>5. /\ attempts' = 0
        /\ \A m \in Elements(chat') : m.cycle <= cycle'
        /\ \A m \in Message : Cardinality(Copies(m, chat')) <= SendRetries
    BY <2>1 DEF AttemptsCounted
  <2>6. toSend' # <<>> =>
          Cardinality(Copies([cycle |-> cycle', fp |-> Head(toSend')], chat')) <= attempts'
    <3> SUFFICES ASSUME toSend' # <<>>
                 PROVE  Cardinality(Copies([cycle |-> cycle, fp |-> Head(toSend')], chat)) <= attempts
      BY <2>1
    <3>1. Copies([cycle |-> cycle, fp |-> Head(toSend')], chat) = {}
      BY <2>3, <2>4
    <3>2. Cardinality({}) = 0
      BY FS_EmptySet
    <3>3. 0 <= attempts
      BY <1>a
    <3>4. QED
      BY <3>1, <3>2, <3>3
  <2>7. \A s \in Elements(toSend') : Copies([cycle |-> cycle', fp |-> s], chat') = {}
    BY <2>1, <2>3
  <2>8. QED
    BY <2>5, <2>6, <2>7, Zenon DEF AttemptsCounted
<1>5. CASE FinishCycle \/ Crash \/ Restart
  <2>1. UNCHANGED <<cycle, chat>> /\ pc' \in {"idle", "down"}
    BY <1>5 DEF FinishCycle, Crash, Restart, volatile
  <2>2. attempts' = 0
    BY <1>5 DEF FinishCycle, Crash, Restart, volatile, AttemptsCounted
  <2>3. QED
    BY <1>b, <2>1, <2>2 DEF AttemptsCounted
<1>6. CASE UNCHANGED vars
  BY <1>6 DEF vars, volatile, AttemptsCounted
<1>7. QED
  BY <1>1, <1>2, <1>3, <1>4, <1>5, <1>6 DEF Next, Work, Deliver

\* One candidate never costs more messages than the retries allow, for every
\* number of retries (_send_message_with_retry).
THEOREM MessagesAlwaysBounded == Spec => []MessagesBounded
<1>1. Init => AttemptsCounted
  <2> SUFFICES ASSUME Init PROVE AttemptsCounted
    OBVIOUS
  <2>1. Elements(chat) = {} /\ \A m : Copies(m, chat) = {}
    BY DEF Init, Elements, Copies
  <2>2. Cardinality({}) = 0 /\ 0 <= SendRetries
    BY FS_EmptySet, DeliveryAssumption
  <2>3. \A m \in Message : Cardinality(Copies(m, chat)) <= SendRetries
    BY <2>1, <2>2
  <2>4. pc = "idle" /\ toSend = <<>> /\ attempts = 0
    BY DEF Init
  <2>5. QED
    BY <2>1, <2>3, <2>4 DEF AttemptsCounted
<1>2. Typed /\ AttemptsCounted => MessagesBounded
  <2> SUFFICES ASSUME Typed, AttemptsCounted, NEW m \in Elements(chat)
               PROVE  Cardinality(Copies(m, chat)) <= SendRetries
    BY DEF MessagesBounded, Copies
  <2>1. m \in Message
    BY DEF Elements, Typed, TypeOK
  <2>2. QED
    BY <2>1 DEF AttemptsCounted
<1>3. Journalled => Joinable
  BY DEF Journalled
<1>4. QED
  BY <1>1, <1>2, <1>3, StepCounted, AlwaysTyped, AlwaysJournalled, PTL DEF Spec

-----------------------------------------------------------------------------
(* The as-of replay (AsofReplay).  While a run goes on, its files and the  *)
(* counters of its report move together, one step behind the loops; the    *)
(* rows of a cycle that ended are those in the file and those still to be  *)
(* written; what a cycle still considers is exactly what its decisions     *)
(* still call candidates.                                                  *)

States == {"none", "candidate", "rejected", "error", "accepted"}
Wheres == {"none", "data", "score", "candidate", "correlation",
           "currency", "portfolio", "release", "gate", "released"}
DecisionType == [state : States, stage : Wheres, side : PlanSides \cup {"none"}, at : Nat]
RowType == [step : Nat, pair : Pairs, decision : DecisionType]
EntryType == [step : Nat, pair : Pairs, side : PlanSides \cup {"none"}, at : Nat]
ReportType == [decisions : Nat, signals : Nat, guard : BOOLEAN]

CandidateType == [pair : Pairs, side : PlanSides, bias : {"any"}, at : Nat, hold : Holds, score : Scores]
SignalType == [pair : Pairs, side : PlanSides, bias : {"any"}, at : Nat, hold : Holds]
ReleaseType == [n : Nat, pair : Pairs, side : PlanSides, bias : {"any"}, at : Nat, expires : Nat]

PairsIn(s) == {s[i].pair : i \in DOMAIN s}
OnePerPair(s) == \A i, j \in DOMAIN s : s[i].pair = s[j].pair => i = j
Uncorrelated(S) == \A p, q \in S : p # q => ~Correlated(p, q)

\* All the steps that were asked for and can be replayed, unless there were too
\* many.
Wanted(r) == {t \in TriggerSteps(r) \cup LiveSteps(r) : HasWarmup(t)}
StepsOf(r) == Len(steps) < r.maxSteps => \A t \in Wanted(r) : \E i \in DOMAIN steps : steps[i] = t

Stages == {"idle", "reset", "run", "evaluate", "loops", "decisions", "journal", "delivery", "report"}

StepsSound ==
    /\ steps \in Seq(Nat) /\ step \in 0..Len(steps)
    /\ \A i, j \in DOMAIN steps : i < j => steps[i] < steps[j]
    /\ stage \in Stages
    /\ stage \in {"idle", "reset", "run"} => step = 0
    /\ stage \in {"evaluate", "loops", "decisions", "journal", "delivery"} => step > 0 /\ now = steps[step]
    /\ stage # "idle" => StepsOf(request)

GateSound ==
    /\ cooldownUntil \in [Pairs -> Nat] /\ serial \in Nat
    /\ live \in LiveJournals /\ request \in Requests

\* The rows of the file and those that the process is about to write to it.
Pending ==
    IF stage = "decisions"
    THEN {[step |-> now, pair |-> p, decision |-> decided[p]] : p \in {q \in Pairs : decided[q] # NoDecision}}
    ELSE {}
Complete == decisionsFile \cup Pending
AcceptedAll == {d \in Complete : d.decision.state = "accepted"}
RowsAt(t, p) == {d \in Complete : d.step = t /\ d.pair = p}

FilesKept ==
    /\ Complete \subseteq RowType /\ IsFiniteSet(Complete)
    /\ \A d \in Complete : d.decision.state \in {"accepted", "rejected", "error"}
    /\ \A d, e \in Complete : d.step = e.step /\ d.pair = e.pair => d = e
    /\ \A d, e \in AcceptedAll :
          /\ d.step = e.step /\ d.pair # e.pair => ~Correlated(d.pair, e.pair)
          /\ PairCooldown > 0 /\ d.pair = e.pair /\ d.decision.at = e.decision.at => d = e

\* What is in the files, in whatever stage the process is or was killed.
JournalKept ==
    /\ IsFiniteSet(journalFile) /\ deliveries \subseteq journalFile
    /\ PairCooldown > 0 => \A j, k \in journalFile : j.pair = k.pair /\ j.at = k.at => j = k
    /\ torn \subseteq {"decisions", "journal", "report", "parity"}
    /\ EarlierStepsWhole /\ NothingLeftOver

\* The steps that the decisions file covers.
Covered == IF stage \in {"evaluate", "loops"} THEN step - 1 ELSE step

RunCounted ==
    /\ report \in ReportType
    /\ IF ~Running THEN report = NoReport
       ELSE /\ reportFile = <<>>
            /\ report.decisions = Cardinality(Complete)
            /\ report.signals = Cardinality(deliveries)
            /\ journalFile = IF stage = "delivery" THEN deliveries \cup {Head(candidates)} ELSE deliveries
            /\ \A d \in Complete : \E i \in 1..Covered : d.step = steps[i]
            /\ \A i \in 1..Covered, p \in Pairs : RowsAt(steps[i], p) # {}
            /\ PairCooldown > 0 => \A d \in AcceptedAll : d.decision.at < cooldownUntil[d.pair]
    /\ stage \in {"run", "evaluate", "loops", "report"} => {RowOf(d) : d \in AcceptedAll} \subseteq deliveries

\* The signals of the cycle that the journal has still to get.
JournalSound ==
    stage \in {"decisions", "journal", "delivery"} =>
        /\ candidates \in Seq(EntryType)
        /\ \A i, j \in DOMAIN candidates : candidates[i] = candidates[j] => i = j
        /\ \A i \in DOMAIN candidates : candidates[i] \notin deliveries /\ candidates[i].step = now
        /\ {RowOf(d) : d \in AcceptedAll} = deliveries \cup {candidates[i] : i \in DOMAIN candidates}
        /\ stage = "delivery" => candidates # <<>>

\* A parity report that calls none missing that the steps of a request cover.
Answers(p, r, n) ==
    r.source # "trigger" /\ n < r.maxSteps =>
        \A c \in p.missing : ~(c.pair \in Pairs /\ Within(r, c.observed) /\ HasWarmup(c.observed))

ParityKept ==
    /\ parityFile # <<>> => parityFile = <<parityFile[1]>>
    /\ stage = "report" /\ live # {} =>
          /\ parityFile # <<>> /\ Answers(parityFile[1], request, Len(steps))
          /\ parityFile[1].status = "matched" => LiveKeys = ReplayKeys

\* What a report counts of the files beside it.
CountsFiles(r) ==
    /\ r.decisions = Cardinality(decisionsFile)
    /\ \A d \in decisionsFile, p \in Pairs : DecisionsAt(d.step, p) # {}
    /\ r.signals = Cardinality(AcceptedRows)
    /\ r.signals = Cardinality(journalFile) /\ deliveries = journalFile
    /\ r.parity = "matched" => LiveKeys = ReplayKeys

ReportedTrue ==
    reportFile # <<>> =>
        /\ reportFile = <<reportFile[1]>> /\ torn = {}
        /\ live # {} => /\ parityFile # <<>> /\ parityFile[1].status = reportFile[1].parity
                        /\ Answers(parityFile[1], reportFile[1].request, reportFile[1].steps)
        /\ (decisionsFile = {} /\ reportFile[1].decisions > 0) \/ CountsFiles(reportFile[1])

\* A decision says of a candidate what the candidate says of itself.
Agrees(x) ==
    /\ decided[x.pair].state = "candidate"
    /\ decided[x.pair].side = x.side /\ decided[x.pair].at = x.at

DecidedSound ==
    /\ decided \in [Pairs -> DecisionType]
    /\ \A p \in Pairs : decided[p].state = "none" => decided[p] = NoDecision

EvaluateSound ==
    stage = "evaluate" =>
        /\ candidates \in Seq(CandidateType) /\ OnePerPair(candidates)
        /\ \A i \in DOMAIN candidates : Agrees(candidates[i])
        /\ \A p \in Pairs : /\ decided[p].state # "accepted"
                            /\ decided[p].state = "candidate" => p \in PairsIn(candidates)

\* The releases that are registered already, of pairs whose cooldown they set
\* off.
Registered ==
    CASE phase = "gate" -> {queue[i] : i \in DOMAIN queue} \cup {kept[i] : i \in DOMAIN kept}
      [] phase = "release" -> {kept[i] : i \in DOMAIN kept}
      [] OTHER -> {}

LoopsSound ==
    stage = "loops" =>
        /\ phase \in {"currency", "portfolio", "release", "gate"}
        /\ queue \in Seq(IF phase = "gate" THEN ReleaseType ELSE SignalType)
        /\ kept \in Seq(IF phase \in {"release", "gate"} THEN ReleaseType ELSE SignalType)
        /\ OnePerPair(queue) /\ OnePerPair(kept) /\ PairsIn(queue) \cap PairsIn(kept) = {}
        /\ \A i \in DOMAIN queue : Agrees(queue[i])
        /\ \A i \in DOMAIN kept : Agrees(kept[i])
        /\ \A p \in Pairs : /\ decided[p].state \in {"candidate", "rejected", "error"}
                            /\ decided[p].state = "candidate" => p \in PairsIn(queue) \cup PairsIn(kept)
        /\ Uncorrelated(PairsIn(queue) \cup PairsIn(kept))
        /\ PairCooldown > 0 => \A x \in Registered :
              /\ x.at < cooldownUntil[x.pair]
              /\ \A d \in AcceptedRows : d.pair = x.pair => d.decision.at < x.at

ReplayInv ==
    /\ StepsSound /\ GateSound /\ FilesKept /\ JournalKept /\ RunCounted /\ JournalSound
    /\ ParityKept /\ ReportedTrue /\ DecidedSound /\ EvaluateSound /\ LoopsSound

\* The list of steps is in order and complete.
LEMMA AscendingListed ==
    ASSUME NEW S, S \subseteq Nat, IsFiniteSet(S)
    PROVE  /\ Ascending(S) \in Seq(Nat)
           /\ \A i, j \in DOMAIN Ascending(S) : i < j => Ascending(S)[i] < Ascending(S)[j]
           /\ \A t \in S : \E i \in DOMAIN Ascending(S) : Ascending(S)[i] = t
<1> DEFINE f == [t \in S |-> -t]
           L == Ascending(S)
           n == Cardinality(S)
<1>1. n \in Nat
  BY FS_CardinalityType
<1>2. f \in [S -> Int] /\ \A x, y \in S : f[x] = f[y] => x = y
  OBVIOUS
<1>3. ASSUME NEW t \in S PROVE {u \in S : u < t} = Above(S, f, t)
  <2>1. \A u \in S : u < t <=> f[u] > f[t]
    OBVIOUS
  <2>2. QED
    BY <2>1 DEF Above
<1>4. L = [k \in 1..n |-> CHOOSE t \in S : Cardinality({u \in S : u < t}) = k - 1]
  BY DEF Ascending
<1>5. \A t \in S : t \in Nat /\ f[t] = -t
  OBVIOUS
<1> HIDE DEF f, L
<1>6. ASSUME NEW k \in 1..n PROVE L[k] \in S /\ Cardinality(Above(S, f, L[k])) = k - 1
  <2>1. k - 1 \in 0..(n - 1)
    BY <1>1
  <2>2. \E t \in S : Cardinality(Above(S, f, t)) = k - 1
    BY <1>2, <2>1, EveryRankTaken
  <2>3. \E t \in S : Cardinality({u \in S : u < t}) = k - 1
    BY <1>3, <2>2
  <2>4. L[k] = CHOOSE t \in S : Cardinality({u \in S : u < t}) = k - 1
    BY <1>4
  <2>5. L[k] \in S /\ Cardinality({u \in S : u < L[k]}) = k - 1
    BY <2>3, <2>4
  <2>6. QED
    BY <1>3, <2>5
<1>7. L \in Seq(Nat) /\ DOMAIN L = 1..n
  <2> DEFINE Picked(k) == CHOOSE t \in S : Cardinality({u \in S : u < t}) = k - 1
  <2>1. L = [k \in 1..n |-> Picked(k)]
    BY <1>4
  <2> HIDE DEF Picked, n
  <2>2. DOMAIN L = 1..n /\ L \in [1..n -> Nat]
    BY <1>6, <2>1
  <2>3. QED
    BY <1>1, <2>2
<1>8. /\ \A k, l \in 1..n : k < l => f[L[k]] > f[L[l]]
      /\ \A x \in S : \E k \in 1..n : L[k] = x
  <2>1. \A k \in 1..Cardinality(S) : L[k] \in S /\ Cardinality(Above(S, f, L[k])) = k - 1
    BY <1>6
  <2>2. \A x, y \in S : f[x] = f[y] => x = y
    BY <1>2
  <2>3. f \in [S -> Int] /\ IsFiniteSet(S)
    BY <1>2
  <2> HIDE DEF n
  <2>4. /\ \A k, l \in 1..Cardinality(S) : k < l => f[L[k]] > f[L[l]]
        /\ \A x \in S : \E k \in 1..Cardinality(S) : L[k] = x
    BY ONLY <2>1, <2>2, <2>3, RanksOrder
  <2>5. QED
    BY <2>4 DEF n
<1>9. ASSUME NEW k \in 1..n, NEW l \in 1..n, k < l PROVE L[k] < L[l]
  <2>1. L[k] \in S /\ L[l] \in S /\ f[L[k]] > f[L[l]]
    BY <1>6, <1>8, <1>9
  <2>2. L[k] \in Nat /\ L[l] \in Nat /\ f[L[k]] = -L[k] /\ f[L[l]] = -L[l]
    BY <1>5, <2>1
  <2>3. QED
    BY <2>1, <2>2
<1>10. QED
  BY <1>7, <1>8, <1>9 DEF L

\* The candles that were downloaded.
LEMMA LabelsFinite ==
    ASSUME NEW p \in Pairs, NEW tf
    PROVE  Labels(p, tf) \subseteq Nat /\ IsFiniteSet(Labels(p, tf))
<1>1. Labels(p, tf) \subseteq 0..HistoryEnd /\ HistoryEnd \in Int
  BY ReplayAssumption DEF Labels
<1>2. IsFiniteSet(0..HistoryEnd)
  BY <1>1, FS_Interval
<1>3. QED
  BY <1>1, <1>2, FS_Subset

LEMMA NewestTyped ==
    ASSUME NEW p \in Pairs, Fetch(p, "trigger", now) # {} PROVE NewestTrigger(p) \in Nat
<1> DEFINE S == Fetch(p, "trigger", now)
<1>1. S \subseteq Labels(p, "trigger")
  BY DEF Fetch, Newest, Visible
<1>2. S \subseteq Int /\ IsFiniteSet(S) /\ S \subseteq Nat
  BY <1>1, LabelsFinite, FS_Subset
<1> HIDE DEF S
<1>3. Max(S) \in S
  BY <1>2, MaxIs DEF S
<1>4. QED
  BY <1>2, <1>3 DEF NewestTrigger, S

LEMMA WantedFinite ==
    ASSUME live \in LiveJournals, NEW r PROVE Wanted(r) \subseteq Nat /\ IsFiniteSet(Wanted(r))
<1> DEFINE times == {c.observed : c \in live}
<1>1. IsFiniteSet(live) /\ \A c \in live : c.observed \in Nat
  BY ReplayAssumption
<1>2. IsFiniteSet(times) /\ times \subseteq Nat
  <2> DEFINE g == [c \in live |-> c.observed]
  <2>1. times = {g[c] : c \in live}
    OBVIOUS
  <2> HIDE DEF g
  <2>2. IsFiniteSet({g[c] : c \in live})
    BY <1>1, FiniteImage
  <2>3. QED
    BY <1>1, <2>1, <2>2
<1>3. TriggerSteps(r) \subseteq 0..HistoryEnd /\ HistoryEnd \in Nat
  BY ReplayAssumption DEF TriggerSteps, Labels
<1>4. LiveSteps(r) \subseteq times
  BY DEF LiveSteps
<1> HIDE DEF times
<1>5. Wanted(r) \subseteq (0..HistoryEnd) \cup times
  BY <1>3, <1>4 DEF Wanted
<1>6. IsFiniteSet(0..HistoryEnd)
  BY <1>3, FS_Interval
<1> DEFINE span == 0..HistoryEnd
<1>7. span \subseteq Nat
  BY <1>3
<1> HIDE DEF span
<1>8. IsFiniteSet(span \cup times)
  BY <1>2, <1>6, FS_Union DEF span
<1>9. Wanted(r) \subseteq span \cup times
  BY <1>5 DEF span
<1>10. QED
  BY <1>2, <1>7, <1>8, <1>9, FS_Subset

LEMMA BuiltSteps ==
    ASSUME live \in LiveJournals, NEW r \in Requests, NEW s, s = BuildSteps(r)
    PROVE  /\ s \in Seq(Nat)
           /\ \A i, j \in DOMAIN s : i < j => s[i] < s[j]
           /\ Len(s) < r.maxSteps => \A t \in Wanted(r) : \E i \in DOMAIN s : s[i] = t
<1> DEFINE all == Ascending(Wanted(r))
           n == Len(all)
           m == Min({r.maxSteps, n})
<1>1. /\ all \in Seq(Nat)
      /\ \A i, j \in DOMAIN all : i < j => all[i] < all[j]
      /\ \A t \in Wanted(r) : \E i \in DOMAIN all : all[i] = t
  BY WantedFinite, AscendingListed
<1>2. s = SubSeq(all, 1, m)
  BY DEF BuildSteps, Wanted
<1> HIDE DEF all
<1>3. n \in Nat /\ r.maxSteps \in Nat /\ DOMAIN all = 1..n
  BY <1>1, ReplayAssumption
<1> HIDE DEF n
<1>4. m \in {r.maxSteps, n} /\ m <= r.maxSteps /\ m <= n
  <2> DEFINE a == r.maxSteps
  <2>1. a \in Int /\ n \in Int
    BY <1>3
  <2> HIDE DEF a
  <2>2. Min({a, n}) \in {a, n} /\ Min({a, n}) <= a /\ Min({a, n}) <= n
    BY <2>1, OfTwo
  <2>3. QED
    BY <2>2 DEF a
<1>5. m \in 0..n
  BY <1>3, <1>4
<1> HIDE DEF m
<1>6. s \in Seq(Nat) /\ Len(s) = m /\ DOMAIN s = 1..m /\ \A i \in 1..m : s[i] = all[i]
  BY <1>1, <1>2, <1>3, <1>5 DEF n
<1>7. \A i, j \in DOMAIN s : i < j => s[i] < s[j]
  BY <1>1, <1>3, <1>5, <1>6
<1>8. Len(s) < r.maxSteps => m = n
  BY <1>4, <1>6
<1>9. QED
  BY <1>1, <1>3, <1>6, <1>7, <1>8

-----------------------------------------------------------------------------
(* The groups of the correlation cap.                                      *)

Twos(n) == {p \in (1..n) \X (1..n) : p[1] < p[2]}

LEMMA SameListing == ASSUME NEW S PROVE Cap!SetToSeq(S) = SetToSeq(S)
BY DEF Cap!SetToSeq, SetToSeq, Cap!IsInjective, IsInjective, Cap!Cardinality, Cardinality

\* SetToSeq lists a finite set completely.
LEMMA AllListed ==
    ASSUME NEW S, IsFiniteSet(S)
    PROVE  SetToSeq(S) \in Seq(S) /\ \A x \in S : \E k \in DOMAIN SetToSeq(S) : SetToSeq(S)[k] = x
<1> DEFINE n == Cardinality(S)
           f == SetToSeq(S)
<1>1. n \in Nat /\ ExistsBijection(1..n, S)
  BY FS_CardinalityType
<1>2. \E b \in [1..n -> S] : IsInjective(b)
  BY <1>1 DEF ExistsBijection, Bijection, Injection, IsInjective
<1>3. f \in [1..n -> S] /\ IsInjective(f)
  BY <1>2 DEF SetToSeq
<1> HIDE DEF n, f
<1>4. f \in Injection(1..n, S)
  BY <1>3 DEF Injection, IsInjective
<1>5. IsFiniteSet(1..n) /\ Cardinality(1..n) = n
  BY <1>1, FS_Interval
<1>6. f \in Surjection(1..n, S)
  BY <1>4, <1>5, FS_Injection DEF n
<1>7. \A x \in S : \E k \in 1..n : f[k] = x
  BY <1>6 DEF Surjection
<1>8. f \in Seq(S) /\ DOMAIN f = 1..n
  BY <1>1, <1>3
<1>9. QED
  BY <1>7, <1>8 DEF f

LEMMA PairsListed ==
    ASSUME NEW n \in Nat
    PROVE  /\ Cap!PairsOf(n) \in Seq(Twos(n))
           /\ \A p \in Twos(n) : \E k \in DOMAIN Cap!PairsOf(n) : Cap!PairsOf(n)[k] = p
<1>1. IsFiniteSet(1..n)
  BY FS_Interval
<1>2. IsFiniteSet((1..n) \X (1..n))
  BY <1>1, FS_Product
<1>3. IsFiniteSet(Twos(n))
  BY <1>2, FS_Subset DEF Twos
<1>4. Cap!PairsOf(n) = SetToSeq(Twos(n))
  BY SameListing DEF Cap!PairsOf, Twos
<1>5. QED
  BY <1>3, <1>4, AllListed

\* The groups while some of the pairs have been looked at.
Joined(g, cands) ==
    g = [s \in SUBSET DOMAIN Cap!PairsOf(Len(cands)) |->
            IF s = {} THEN {{i} : i \in DOMAIN cands}
            ELSE Cap!Join(g[s \ {Greatest(s)}], Cap!PairsOf(Len(cands))[Greatest(s)][1],
                          Cap!PairsOf(Len(cands))[Greatest(s)][2], cands)]

LEMMA ClustersAre ==
    ASSUME NEW cands
    PROVE  Cap!Clusters(cands) =
              (CHOOSE g : Joined(g, cands))[DOMAIN Cap!PairsOf(Len(cands))]
BY DEF Cap!Clusters, Cap!FoldLeft, Cap!MapThenFoldSet, Cap!Max, Greatest, Joined

Partitioned(G, D) ==
    /\ G \subseteq SUBSET D /\ {} \notin G
    /\ \A g, h \in G : g # h => g \cap h = {}
    /\ \A i \in D : \E g \in G : i \in g

Together(G, i, j) == \E g \in G : i \in g /\ j \in g

LEMMA JoinKeepsApart ==
    ASSUME NEW cands, NEW D, NEW G, Partitioned(G, D), NEW i \in D, NEW j \in D
    PROVE  /\ Partitioned(Cap!Join(G, i, j, cands), D)
           /\ Correlated(cands[i].pair, cands[j].pair) => Together(Cap!Join(G, i, j, cands), i, j)
           /\ \A a, b \in D : Together(G, a, b) => Together(Cap!Join(G, i, j, cands), a, b)
<1> DEFINE touched == {g \in G : i \in g \/ j \in g}
           all == UNION touched
           H == (G \ touched) \cup {all}
<1>1. CASE ~Correlated(cands[i].pair, cands[j].pair)
  <2>1. Cap!Join(G, i, j, cands) = G
    BY <1>1 DEF Cap!Join
  <2>2. QED
    BY <1>1, <2>1
<1>2. CASE Correlated(cands[i].pair, cands[j].pair)
  <2>1. Cap!Join(G, i, j, cands) = H
    BY <1>2 DEF Cap!Join
  <2>2. i \in all /\ j \in all /\ all \subseteq D /\ all # {}
    BY DEF Partitioned
  <2>3. \A g \in G \ touched : g \cap all = {}
    BY DEF Partitioned
  <2> HIDE DEF all
  <2>4. H \subseteq SUBSET D /\ {} \notin H
    BY <2>2 DEF Partitioned
  <2>5. \A g, h \in H : g # h => g \cap h = {}
    BY <2>3 DEF Partitioned
  <2>6. ASSUME NEW a \in D PROVE \E g \in H : a \in g
    <3>1. PICK g \in G : a \in g
      BY DEF Partitioned
    <3>2. CASE g \in touched
      <4>1. a \in all /\ all \in H
        BY <3>1, <3>2 DEF all
      <4>2. QED
        BY <4>1
    <3>3. CASE g \notin touched
      <4>1. g \in H
        BY <3>3
      <4>2. QED
        BY <3>1, <4>1
    <3>4. QED
      BY <3>2, <3>3
  <2>7. \A a, b \in D : Together(G, a, b) => Together(H, a, b)
    BY DEF Together, all
  <2>8. Together(H, i, j)
    BY <2>2 DEF Together
  <2>9. QED
    BY <2>1, <2>4, <2>5, <2>6, <2>7, <2>8 DEF Partitioned
<1>3. QED
  BY <1>1, <1>2

\* Once all pairs have been looked at, candidates that correlate are in one
\* group.
LEMMA ClustersApart ==
    ASSUME NEW T, NEW cands \in Seq(T)
    PROVE  /\ Partitioned(Cap!Clusters(cands), DOMAIN cands)
           /\ \A i, j \in DOMAIN cands :
                 i < j /\ Correlated(cands[i].pair, cands[j].pair) =>
                    Together(Cap!Clusters(cands), i, j)
<1> DEFINE n == Len(cands)
           C == DOMAIN cands
           p == Cap!PairsOf(n)
           D == DOMAIN p
           base == {{i} : i \in C}
           A == {G \in SUBSET SUBSET C : Partitioned(G, C)}
           B == [z \in D \X A |-> Cap!Join(z[2], p[z[1]][1], p[z[1]][2], cands)]
<1>1. n \in Nat /\ C = 1..n
  OBVIOUS
<1> HIDE DEF n
<1>2. /\ IsFiniteSet(D) /\ HasGreatest(D)
      /\ \A k \in D : p[k][1] \in C /\ p[k][2] \in C
      /\ \A i, j \in C : i < j => \E k \in D : p[k][1] = i /\ p[k][2] = j
  <2>1. p \in Seq(Twos(n)) /\ \A q \in Twos(n) : \E k \in D : p[k] = q
    BY <1>1, PairsListed
  <2> HIDE DEF p
  <2>2. IsFiniteSet(D) /\ HasGreatest(D) /\ \A k \in D : p[k] \in Twos(n)
    BY <2>1, Indices
  <2>3. ASSUME NEW i \in 1..n, NEW j \in 1..n, i < j
        PROVE  \E k \in D : p[k][1] = i /\ p[k][2] = j
    <3>1. <<i, j>> \in Twos(n)
      BY <2>3 DEF Twos
    <3>2. PICK k \in D : p[k] = <<i, j>>
      BY <2>1, <3>1
    <3>3. QED
      BY <3>2
  <2>4. \A k \in D : p[k][1] \in 1..n /\ p[k][2] \in 1..n
    <3>1. \A q \in Twos(n) : q[1] \in 1..n /\ q[2] \in 1..n
      BY DEF Twos
    <3>2. QED
      BY <2>2, <3>1
  <2>5. QED
    BY <1>1, <2>2, <2>3, <2>4
<1>3. base \in A /\ Partitioned(base, C)
  BY DEF Partitioned
<1>4. \A k \in D : \A G \in A : Cap!Join(G, p[k][1], p[k][2], cands) \in A
  <2> SUFFICES ASSUME NEW k \in D, NEW G \in A PROVE Cap!Join(G, p[k][1], p[k][2], cands) \in A
    OBVIOUS
  <2>1. Partitioned(G, C)
    OBVIOUS
  <2> DEFINE J == Cap!Join(G, p[k][1], p[k][2], cands)
  <2>2. Partitioned(J, C)
    BY <1>2, <2>1, JoinKeepsApart
  <2> HIDE DEF J
  <2>3. QED
    BY <2>2 DEF Partitioned, J
<1>5. \A s \in SUBSET D : s # {} => Greatest(s) \in s
  BY <1>2 DEF HasGreatest
<1> HIDE DEF D, p, C, base
<1>6. \E g : Joined(g, cands)
  <2>1. \A x \in D : \A a \in A : B[<<x, a>>] = Cap!Join(a, p[x][1], p[x][2], cands)
    OBVIOUS
  <2>2. \A x \in D : \A a \in A : B[<<x, a>>] \in A
    BY <1>4, <2>1
  <2> HIDE DEF B, A
  <2>3. PICK g : Steps(g, B, base, D)
    BY <1>2, StepsExists
  <2>4. \A s \in SUBSET D : g[s] \in A
    BY <1>2, <1>3, <2>2, <2>3, StepsIn
  <2>5. \A s \in SUBSET D : s # {} =>
           B[<<Greatest(s), g[s \ {Greatest(s)}]>>] =
             Cap!Join(g[s \ {Greatest(s)}], p[Greatest(s)][1], p[Greatest(s)][2], cands)
    BY <1>5, <2>1, <2>4
  <2>6. g = [s \in SUBSET D |->
               IF s = {} THEN base
               ELSE Cap!Join(g[s \ {Greatest(s)}], p[Greatest(s)][1], p[Greatest(s)][2], cands)]
    BY <2>3, <2>5, Zenon DEF Steps
  <2>7. QED
    BY <2>6 DEF Joined, D, p, n, base, C
<1> DEFINE h == CHOOSE g : Joined(g, cands)
<1>7. Joined(h, cands)
  BY <1>6
<1> HIDE DEF h
<1>8. /\ h[{}] = base
      /\ \A s \in SUBSET D : s # {} =>
            h[s] = Cap!Join(h[s \ {Greatest(s)}], p[Greatest(s)][1], p[Greatest(s)][2], cands)
  <2>1. h = [s \in SUBSET D |->
               IF s = {} THEN base
               ELSE Cap!Join(h[s \ {Greatest(s)}], p[Greatest(s)][1], p[Greatest(s)][2], cands)]
    BY <1>7 DEF Joined, D, p, n, base, C
  <2>2. QED
    BY <2>1
<1> DEFINE Good(s) == /\ Partitioned(h[s], C)
                      /\ \A k \in s : Correlated(cands[p[k][1]].pair, cands[p[k][2]].pair) =>
                                         Together(h[s], p[k][1], p[k][2])
           Family == {s \in SUBSET D : ~Good(s)}
<1>9. Family = {}
  <2> SUFFICES ASSUME Family # {} PROVE FALSE
    OBVIOUS
  <2>1. \A s \in Family : IsFiniteSet(s)
    BY <1>2, FS_Subset
  <2>2. PICK s \in Family : \A r \in Family : r \subseteq s => r = s
    <3> HIDE DEF Family
    <3>1. QED
      BY <2>1, SmallestSubset
  <2>3. s \in SUBSET D /\ ~Good(s)
    OBVIOUS
  <2>4. s # {}
    BY <1>3, <1>8, <2>3
  <2> DEFINE k == Greatest(s)
             r == s \ {k}
             G == h[r]
             J == Cap!Join(G, p[k][1], p[k][2], cands)
  <2>5. k \in s /\ k \in D /\ r \in SUBSET D /\ r \subseteq s /\ r # s /\ s = r \cup {k}
    BY <1>5, <2>3, <2>4
  <2>6. Good(r)
    <3>1. r \notin Family
      BY <2>2, <2>5
    <3>2. QED
      BY <2>5, <3>1
  <2>7. h[s] = J
    BY <1>8, <2>3, <2>4
  <2> HIDE DEF k, r, G, J
  <2>8. Partitioned(G, C) /\ p[k][1] \in C /\ p[k][2] \in C
    BY <1>2, <2>5, <2>6 DEF G
  <2>9. /\ Partitioned(J, C)
        /\ Correlated(cands[p[k][1]].pair, cands[p[k][2]].pair) => Together(J, p[k][1], p[k][2])
        /\ \A a, b \in C : Together(G, a, b) => Together(J, a, b)
    BY <2>8, JoinKeepsApart DEF J
  <2>10. \A l \in r : Correlated(cands[p[l][1]].pair, cands[p[l][2]].pair) =>
                         Together(J, p[l][1], p[l][2])
    BY <1>2, <2>5, <2>6, <2>9 DEF G
  <2>11. Good(s)
    BY <2>5, <2>7, <2>9, <2>10
  <2>12. QED
    BY <2>3, <2>11
<1>10. Good(D)
  BY <1>9
<1>11. Cap!Clusters(cands) = h[D]
  BY ClustersAre DEF h, D, p, n
<1>12. QED
  BY <1>2, <1>10, <1>11 DEF C

LEMMA BestChosen ==
    ASSUME NEW cands \in Seq(CandidateType), NEW g, g \subseteq DOMAIN cands, g # {}
    PROVE  Cap!Best(g, cands) \in g
<1> DEFINE score == [i \in g |-> cands[i].score]
           all == {score[i] : i \in g}
<1>1. DOMAIN cands \subseteq Int /\ IsFiniteSet(DOMAIN cands) /\ \A i \in g : cands[i] \in CandidateType
  BY Indices
<1>2. IsFiniteSet(g)
  BY <1>1, FS_Subset
<1>3. \A i \in g : score[i] = cands[i].score /\ score[i] \in Int
  BY <1>1, ReplayAssumption DEF CandidateType
<1> HIDE DEF score
<1>4. IsFiniteSet(all) /\ all \subseteq Int /\ all # {}
  BY <1>2, <1>3, FiniteImage
<1>5. PICK m \in all : \A y \in all : y <= m
  <2> HIDE DEF all
  <2>1. QED
    BY <1>4, Extremes
<1> DEFINE top == {i \in g : score[i] = m}
<1>6. IsFiniteSet(top) /\ top \subseteq Int /\ top # {}
  BY <1>1, <1>2, FS_Subset
<1>7. PICK i \in top : \A j \in top : i <= j
  <2> HIDE DEF top
  <2>1. QED
    BY <1>6, Extremes
<1>8. \A j \in g : cands[i].score > cands[j].score \/ (cands[i].score = cands[j].score /\ i <= j)
  <2> SUFFICES ASSUME NEW j \in g
               PROVE  score[i] > score[j] \/ (score[i] = score[j] /\ i <= j)
    BY <1>3
  <2>1. score[i] = m /\ score[j] <= m /\ score[i] \in Int /\ score[j] \in Int
    BY <1>3, <1>5
  <2>2. score[j] = m => i <= j
    BY <1>7
  <2>3. QED
    BY <2>1, <2>2
<1>9. i \in g
  OBVIOUS
<1>10. QED
  BY <1>8, <1>9 DEF Cap!Best

\* What the cap keeps are candidates no two of which correlate.
LEMMA KeptUncorrelated ==
    ASSUME NEW cands \in Seq(CandidateType), OnePerPair(cands), NEW k \in Cap!Kept(cands)
    PROVE  /\ k \in Seq(CandidateType) /\ OnePerPair(k)
           /\ \A i \in DOMAIN k : \E j \in DOMAIN cands : k[i] = cands[j]
           /\ Uncorrelated(PairsIn(k))
<1> DEFINE C == DOMAIN cands
           G == Cap!Clusters(cands)
           best == [g \in G |-> Cap!Best(g, cands)]
           survivors == {cands[i] : i \in Cap!Survivors(cands)}
<1>1. C \subseteq Int /\ IsFiniteSet(C) /\ \A i \in C : cands[i] \in CandidateType
  BY Indices
<1>2. /\ Partitioned(G, C)
      /\ \A i, j \in C : i < j /\ Correlated(cands[i].pair, cands[j].pair) => Together(G, i, j)
  BY ClustersApart
<1> HIDE DEF G
<1>3. \A g \in G : best[g] \in g /\ g \subseteq C
  <2>1. \A g \in G : g \subseteq C /\ g # {}
    BY <1>2 DEF Partitioned
  <2>2. QED
    BY <2>1, BestChosen
<1>4. Cap!Survivors(cands) = {best[g] : g \in G}
  BY DEF Cap!Survivors, G
<1>5. Cap!Survivors(cands) \subseteq C
  BY <1>3, <1>4
<1> DEFINE at == [i \in C |-> cands[i]]
<1>6. IsFiniteSet(survivors) /\ survivors \subseteq CandidateType
  <2>1. IsFiniteSet(Cap!Survivors(cands))
    BY <1>1, <1>5, FS_Subset
  <2> DEFINE V == Cap!Survivors(cands)
  <2>2. survivors = {cands[i] : i \in V}
    OBVIOUS
  <2> HIDE DEF V
  <2>3. IsFiniteSet({cands[i] : i \in V})
    BY <2>1, FiniteImage DEF V
  <2>4. QED
    BY <1>1, <1>5, <2>2, <2>3 DEF V
<1>7. Cap!Cardinality(survivors) = Cardinality(survivors) /\ Cardinality(survivors) \in Nat
  BY <1>6, FS_CardinalityType DEF Cap!Cardinality, Cardinality
<1> DEFINE n == Cardinality(survivors)
<1>8. k \in [1..n -> survivors] /\ \A a, b \in DOMAIN k : a < b => k[a] # k[b]
  BY <1>7 DEF Cap!Kept
<1>9. n \in Nat
  BY <1>7
<1> HIDE DEF n, survivors
<1>10. k \in Seq(CandidateType) /\ DOMAIN k = 1..n
  BY <1>6, <1>8, <1>9
<1>11. \A a \in DOMAIN k : \E g \in G : k[a] = cands[best[g]]
  BY <1>4, <1>8 DEF survivors
<1>12. ASSUME NEW a \in DOMAIN k, NEW b \in DOMAIN k, a # b
       PROVE  k[a].pair # k[b].pair /\ ~Correlated(k[a].pair, k[b].pair)
  <2>1. PICK g \in G : k[a] = cands[best[g]]
    BY <1>11
  <2>2. PICK h \in G : k[b] = cands[best[h]]
    BY <1>11
  <2>3. k[a] # k[b]
    <3>1. a < b \/ b < a
      BY <1>10, <1>9, <1>12
    <3>2. QED
      BY <1>8, <3>1
  <2> DEFINE i == best[g]
             j == best[h]
  <2>4. i \in C /\ j \in C /\ i # j /\ g # h
    BY <1>3, <2>1, <2>2, <2>3
  <2>5. i \in g /\ j \in h /\ k[a] = cands[i] /\ k[b] = cands[j]
    BY <1>3, <2>1, <2>2
  <2> HIDE DEF i, j, best
  <2>6. cands[i].pair # cands[j].pair
    BY <2>4 DEF OnePerPair
  <2>7. ~Together(G, i, j) /\ ~Together(G, j, i)
    BY <1>2, <2>4, <2>5 DEF Partitioned, Together
  <2>8. cands[i].pair \in Pairs /\ cands[j].pair \in Pairs
    BY <1>1, <2>4 DEF CandidateType
  <2>9. i < j \/ j < i
    BY <1>1, <2>4
  <2>10. ~Correlated(cands[i].pair, cands[j].pair)
    BY <1>2, <2>4, <2>7, <2>8, <2>9, ReplayAssumption
  <2>11. QED
    BY <2>5, <2>6, <2>10
<1>13. OnePerPair(k)
  BY <1>12 DEF OnePerPair
<1>14. Uncorrelated(PairsIn(k))
  BY <1>12 DEF Uncorrelated, PairsIn
<1>15. \A a \in DOMAIN k : \E j \in C : k[a] = cands[j]
  BY <1>3, <1>11
<1>16. QED
  BY <1>10, <1>13, <1>14, <1>15

-----------------------------------------------------------------------------
(* What each part of the invariant reads.                                  *)

LEMMA StepsOfSame ==
    ASSUME UNCHANGED <<gaps, live, request, steps>> PROVE StepsOf(request)' <=> StepsOf(request)
<1>1. Wanted(request)' = Wanted(request)
  BY DEF Wanted, TriggerSteps, LiveSteps, HasWarmup, Visible, Labels, Within
<1>2. QED
  BY <1>1 DEF StepsOf

LEMMA StepsFrame ==
    ASSUME StepsSound, UNCHANGED <<gaps, live, request, steps, step, now>>,
           \/ UNCHANGED stage
           \/ /\ stage \in {"evaluate", "loops", "decisions", "journal", "delivery"}
              /\ stage' \in {"evaluate", "loops", "decisions", "journal", "delivery"}
    PROVE  StepsSound'
BY StepsOfSame DEF StepsSound, Stages

\* Where no row is waiting, the file has them all.
LEMMA Whole ==
    ASSUME stage # "decisions"
    PROVE  /\ Complete = decisionsFile /\ AcceptedAll = AcceptedRows
           /\ \A t, p : RowsAt(t, p) = DecisionsAt(t, p)
BY DEF Complete, Pending, AcceptedAll, AcceptedRows, RowsAt, DecisionsAt

LEMMA SameRows ==
    ASSUME Complete' = Complete
    PROVE  AcceptedAll' = AcceptedAll /\ \A t, p : RowsAt(t, p)' = RowsAt(t, p)
BY DEF AcceptedAll, RowsAt

LEMMA RowsFrame ==
    ASSUME UNCHANGED decisionsFile,
           \/ stage # "decisions" /\ stage' # "decisions"
           \/ UNCHANGED <<stage, now, decided>>
    PROVE  /\ Complete' = Complete /\ AcceptedAll' = AcceptedAll
           /\ \A t, p : RowsAt(t, p)' = RowsAt(t, p)
<1>1. Complete' = Complete
  BY DEF Complete, Pending
<1>2. QED
  BY <1>1, SameRows

LEMMA AcceptedAmong == AcceptedRows \subseteq AcceptedAll /\ decisionsFile \subseteq Complete
BY DEF AcceptedRows, AcceptedAll, Complete

LEMMA SameFile ==
    ASSUME UNCHANGED decisionsFile
    PROVE  AcceptedRows' = AcceptedRows /\ \A t, p : DecisionsAt(t, p)' = DecisionsAt(t, p)
BY DEF AcceptedRows, DecisionsAt

LEMMA FilesFrame ==
    ASSUME FilesKept, UNCHANGED decisionsFile,
           \/ stage # "decisions" /\ stage' # "decisions"
           \/ UNCHANGED <<stage, now, decided>>
    PROVE  FilesKept'
<1>1. Complete' = Complete /\ AcceptedAll' = AcceptedAll
  BY RowsFrame
<1>2. QED
  BY <1>1 DEF FilesKept

LEMMA JournalKeptFrame ==
    ASSUME JournalKept, UNCHANGED <<decisionsFile, journalFile, deliveries, torn>>, Running' <=> Running
    PROVE  JournalKept'
<1>1. AcceptedRows' = AcceptedRows /\ \A t, p : DecisionsAt(t, p)' = DecisionsAt(t, p)
  BY SameFile
<1>2. EarlierStepsWhole' /\ NothingLeftOver'
  BY <1>1 DEF JournalKept, EarlierStepsWhole, NothingLeftOver
<1>3. QED
  BY <1>2 DEF JournalKept

LEMMA CountedFrame ==
    ASSUME RunCounted, stage # "decisions",
           UNCHANGED <<report, candidates, reportFile, decisionsFile, journalFile, deliveries,
                       steps, step, stage, cooldownUntil>>
    PROVE  RunCounted'
<1>1. Complete' = Complete /\ AcceptedAll' = AcceptedAll /\ \A t, p : RowsAt(t, p)' = RowsAt(t, p)
  BY RowsFrame
<1>2. Covered' = Covered /\ (Running' <=> Running)
  BY DEF Covered, Running
<1>3. QED
  BY <1>1, <1>2 DEF RunCounted

LEMMA WarmupSame == ASSUME UNCHANGED gaps PROVE \A t : HasWarmup(t)' <=> HasWarmup(t)
BY DEF HasWarmup, Visible, Labels

LEMMA ParityFrame ==
    ASSUME ParityKept, UNCHANGED <<gaps, live, parityFile, journalFile>>,
           stage' # "report" \/ UNCHANGED <<stage, request, steps>>
    PROVE  ParityKept'
<1>1. LiveKeys' = LiveKeys /\ ReplayKeys' = ReplayKeys
  BY DEF LiveKeys, ReplayKeys
<1>2. QED
  BY <1>1, WarmupSame DEF ParityKept, Answers, Within

LEMMA ReportedFrame ==
    ASSUME ReportedTrue,
           UNCHANGED <<gaps, live, reportFile, parityFile, decisionsFile, journalFile, deliveries, torn>>
    PROVE  ReportedTrue'
<1>1. AcceptedRows' = AcceptedRows /\ \A t, p : DecisionsAt(t, p)' = DecisionsAt(t, p)
  BY SameFile
<1>2. LiveKeys' = LiveKeys /\ ReplayKeys' = ReplayKeys
  BY DEF LiveKeys, ReplayKeys
<1>3. CountsFiles(reportFile[1])' <=> CountsFiles(reportFile[1])
  BY <1>1, <1>2 DEF CountsFiles
<1>4. QED
  BY <1>3, WarmupSame DEF ReportedTrue, Answers, Within

\* What holds of the files while a process goes on with its cycle.
LEMMA CycleFrame ==
    ASSUME ReplayInv, UNCHANGED <<gaps, live, files>>, stage # "decisions",
           stage \in {"run", "evaluate", "loops", "journal"}, stage' \in {"evaluate", "loops"}
    PROVE  FilesKept' /\ JournalKept' /\ ParityKept' /\ ReportedTrue' /\ JournalSound'
<1>1. UNCHANGED <<decisionsFile, journalFile, deliveries, parityFile, reportFile, torn>>
  BY DEF files
<1>2. Running /\ Running' /\ stage' # "decisions" /\ stage' # "report"
  BY DEF Running
<1>3. FilesKept' /\ JournalKept'
  BY <1>1, <1>2, FilesFrame, JournalKeptFrame DEF ReplayInv
<1>4. ParityKept' /\ ReportedTrue'
  BY <1>1, <1>2, ParityFrame, ReportedFrame DEF ReplayInv
<1>5. JournalSound'
  BY DEF JournalSound
<1>6. QED
  BY <1>3, <1>4, <1>5

LEMMA EvaluateFrame ==
    ASSUME EvaluateSound, UNCHANGED <<stage, candidates, decided>> PROVE EvaluateSound'
BY DEF EvaluateSound, Agrees, OnePerPair, PairsIn

LEMMA LoopsFrame ==
    ASSUME LoopsSound, UNCHANGED <<stage, phase, queue, kept, decided, cooldownUntil, decisionsFile>>
    PROVE  LoopsSound'
<1>1. AcceptedRows' = AcceptedRows /\ Registered' = Registered
  BY DEF AcceptedRows, Registered
<1>2. PairsIn(queue)' = PairsIn(queue) /\ PairsIn(kept)' = PairsIn(kept)
  BY DEF PairsIn
<1>3. \A x : Agrees(x)' <=> Agrees(x)
  BY DEF Agrees
<1>4. (OnePerPair(queue)' <=> OnePerPair(queue)) /\ (OnePerPair(kept)' <=> OnePerPair(kept))
  BY DEF OnePerPair
<1>5. Uncorrelated(PairsIn(queue) \cup PairsIn(kept))' <=> Uncorrelated(PairsIn(queue) \cup PairsIn(kept))
  BY <1>2 DEF Uncorrelated
<1>6. QED
  BY <1>1, <1>2, <1>3, <1>4, <1>5 DEF LoopsSound

\* An idle process considers no cycle, and a process that is not in the loops is
\* in none of them.
LEMMA NotThere ==
    /\ stage # "evaluate" => EvaluateSound
    /\ stage # "loops" => LoopsSound
    /\ stage \notin {"decisions", "journal", "delivery"} => JournalSound
BY DEF EvaluateSound, LoopsSound, JournalSound

-----------------------------------------------------------------------------
(* Runs.                                                                   *)

LEMMA ReplayBegins == ASSUME ReplayInit PROVE ReplayInv
<1> USE DEF ReplayInit
<1>1. Complete = {} /\ AcceptedAll = {} /\ AcceptedRows = {}
  BY DEF Complete, Pending, AcceptedAll, AcceptedRows
<1>2. StepsSound
  BY DEF StepsSound, Stages
<1>3. GateSound
  BY DEF GateSound
<1>4. FilesKept
  BY <1>1, FS_EmptySet DEF FilesKept
<1>5. JournalKept
  BY FS_EmptySet DEF JournalKept, EarlierStepsWhole, NothingLeftOver, Running
<1>6. RunCounted
  BY DEF RunCounted, NoReport, ReportType, Running
<1>7. ParityKept /\ ReportedTrue
  BY DEF ParityKept, ReportedTrue
<1>8. DecidedSound
  BY DEF DecidedSound, NoneDecided, NoDecision, DecisionType, States, Wheres
<1>9. EvaluateSound /\ LoopsSound /\ JournalSound
  BY NotThere
<1>10. QED
  BY <1>2, <1>3, <1>4, <1>5, <1>6, <1>7, <1>8, <1>9 DEF ReplayInv

LEMMA KeepsStuttering ==
    ASSUME ReplayInv,
           UNCHANGED <<world, request, steps, step, stage, scanned, report, files, gateVars, loopVars>>
    PROVE  ReplayInv'
<1> USE DEF world, scanned, files, gateVars, loopVars
<1>1. Complete' = Complete /\ AcceptedAll' = AcceptedAll /\ \A t, p : RowsAt(t, p)' = RowsAt(t, p)
  BY RowsFrame
<1>2. (Running' <=> Running) /\ Covered' = Covered
  BY DEF Running, Covered
<1>3. StepsSound' /\ FilesKept' /\ JournalKept'
  BY <1>2, StepsFrame, FilesFrame, JournalKeptFrame DEF ReplayInv
<1>4. RunCounted'
  BY <1>1, <1>2 DEF ReplayInv, RunCounted
<1>5. JournalSound'
  BY <1>1 DEF ReplayInv, JournalSound
<1>6. ParityKept' /\ ReportedTrue' /\ EvaluateSound' /\ LoopsSound'
  BY ParityFrame, ReportedFrame, EvaluateFrame, LoopsFrame DEF ReplayInv
<1>7. GateSound' /\ DecidedSound'
  BY DEF ReplayInv, GateSound, DecidedSound
<1>8. QED
  BY <1>3, <1>4, <1>5, <1>6, <1>7 DEF ReplayInv

LEMMA KeepsStartRun ==
    ASSUME ReplayInv, NEW r \in Requests, StartRun(r) PROVE ReplayInv'
<1> USE DEF StartRun, world, scanned, files, gateVars
<1>1. /\ stage = "idle" /\ stage' = "reset" /\ request' = r /\ steps' = BuildSteps(r)
      /\ UNCHANGED <<gaps, live, step, candidates, decided, report, decisionsFile, journalFile, deliveries,
                     parityFile, reportFile, torn, cooldownUntil, serial>>
  OBVIOUS
<1>2. /\ steps' \in Seq(Nat) /\ \A i, j \in DOMAIN steps' : i < j => steps'[i] < steps'[j]
      /\ Len(steps') < r.maxSteps => \A t \in Wanted(r) : \E i \in DOMAIN steps' : steps'[i] = t
  BY BuiltSteps DEF ReplayInv, GateSound
<1>3. StepsSound'
  <2>1. Wanted(request)' = Wanted(r)
    BY <1>1 DEF Wanted, TriggerSteps, LiveSteps, HasWarmup, Visible, Labels, Within
  <2>2. StepsOf(request)'
    BY <1>1, <1>2, <2>1 DEF StepsOf
  <2>3. step = 0 /\ Len(steps') \in Nat
    BY <1>1, <1>2 DEF ReplayInv, StepsSound
  <2>4. QED
    BY <1>1, <1>2, <2>2, <2>3 DEF StepsSound, Stages
<1>4. ~Running /\ ~Running'
  BY <1>1 DEF Running
<1>5. GateSound' /\ DecidedSound'
  BY <1>1 DEF GateSound, ReplayInv, DecidedSound
<1>6. FilesKept' /\ JournalKept' /\ ReportedTrue'
  BY <1>1, <1>4, FilesFrame, JournalKeptFrame, ReportedFrame DEF ReplayInv
<1>7. RunCounted'
  BY <1>1, <1>4 DEF ReplayInv, RunCounted
<1>8. ParityKept'
  BY <1>1, ParityFrame DEF ReplayInv
<1>9. EvaluateSound' /\ LoopsSound' /\ JournalSound'
  BY <1>1 DEF EvaluateSound, LoopsSound, JournalSound
<1>10. QED
  BY <1>3, <1>5, <1>6, <1>7, <1>8, <1>9 DEF ReplayInv

\* Only where the files end with the process, and where it removes them, do its
\* rows get fewer.
LEMMA FewerRows ==
    ASSUME FilesKept, decisionsFile' \subseteq decisionsFile, stage' # "decisions" PROVE FilesKept'
<1>1. Complete' \subseteq Complete /\ AcceptedAll' \subseteq AcceptedAll
  BY DEF Complete, Pending, AcceptedAll
<1>2. IsFiniteSet(Complete')
  BY <1>1, FS_Subset DEF FilesKept
<1>3. QED
  BY <1>1, <1>2 DEF FilesKept

\* The decisions file is the first to be removed.
LEMMA OneRemoved ==
    ASSUME RemoveOutput
    PROVE  /\ decisionsFile' = {} /\ torn' \subseteq torn
           /\ (journalFile' = journalFile /\ deliveries' = deliveries) \/ (journalFile' = {} /\ deliveries' = {})
           /\ parityFile' \in {parityFile, <<>>}
           /\ reportFile' # <<>> =>
                 /\ reportFile' = reportFile /\ parityFile' = parityFile
                 /\ Exists("decisions") \/ (decisionsFile = {} /\ Exists("journal"))
<1>1. DOMAIN Outputs = 1..4 /\ Outputs[1] = "decisions" /\ Outputs[2] = "journal"
      /\ Outputs[3] = "report" /\ Outputs[4] = "parity"
  BY DEF Outputs
<1>2. PICK i \in 1..4 :
         /\ Exists(Outputs[i]) /\ \A j \in 1..(i - 1) : ~Exists(Outputs[j])
         /\ torn' = torn \ {Outputs[i]}
         /\ decisionsFile' = IF Outputs[i] = "decisions" THEN {} ELSE decisionsFile
         /\ journalFile' = IF Outputs[i] = "journal" THEN {} ELSE journalFile
         /\ deliveries' = IF Outputs[i] = "journal" THEN {} ELSE deliveries
         /\ reportFile' = IF Outputs[i] = "report" THEN <<>> ELSE reportFile
         /\ parityFile' = IF Outputs[i] = "parity" THEN <<>> ELSE parityFile
  BY <1>1 DEF RemoveOutput
<1>3. i = 1 \/ i = 2 \/ i = 3 \/ i = 4
  OBVIOUS
<1>4. i # 1 => ~Exists("decisions") /\ decisionsFile = {}
  <2>1. i # 1 => 1 \in 1..(i - 1)
    OBVIOUS
  <2>2. QED
    BY <1>1, <1>2, <2>1 DEF Exists
<1>5. i = 4 => ~Exists("report") /\ reportFile = <<>>
  <2>1. i = 4 => 3 \in 1..(i - 1)
    OBVIOUS
  <2>2. QED
    BY <1>1, <1>2, <2>1 DEF Exists
<1>6. decisionsFile' = {}
  BY <1>1, <1>2, <1>4
<1>7. QED
  BY <1>1, <1>2, <1>3, <1>4, <1>5, <1>6

LEMMA KeepsRemoveOutput == ASSUME ReplayInv, RemoveOutput PROVE ReplayInv'
<1>1. /\ stage = "reset" /\ stage' = "reset"
      /\ UNCHANGED <<gaps, live, request, steps, step, candidates, decided, report,
                     cooldownUntil, serial, now>>
  BY DEF RemoveOutput, world, scanned, gateVars, loopVars
<1>2. /\ decisionsFile' = {} /\ torn' \subseteq torn
      /\ (journalFile' = journalFile /\ deliveries' = deliveries) \/ (journalFile' = {} /\ deliveries' = {})
      /\ parityFile' \in {parityFile, <<>>}
      /\ reportFile' # <<>> =>
            /\ reportFile' = reportFile /\ parityFile' = parityFile
            /\ Exists("decisions") \/ (decisionsFile = {} /\ Exists("journal"))
  BY OneRemoved
<1>3. ~Running /\ ~Running'
  BY <1>1 DEF Running
<1>4. StepsSound' /\ GateSound' /\ DecidedSound'
  BY <1>1, StepsFrame DEF ReplayInv, GateSound, DecidedSound
<1>5. FilesKept'
  BY <1>1, <1>2, FewerRows DEF ReplayInv
<1>6. JournalKept'
  <2>1. IsFiniteSet(journalFile) /\ deliveries \subseteq journalFile /\ EarlierStepsWhole
    BY DEF ReplayInv, JournalKept
  <2>2. EarlierStepsWhole' /\ NothingLeftOver'
    BY <1>2, <1>3, <2>1 DEF EarlierStepsWhole, NothingLeftOver
  <2>3. IsFiniteSet(journalFile')
    BY <1>2, <2>1, FS_EmptySet
  <2>4. QED
    BY <1>2, <2>2, <2>3 DEF ReplayInv, JournalKept
<1>7. RunCounted'
  BY <1>1, <1>3 DEF ReplayInv, RunCounted
<1>8. ParityKept'
  BY <1>1, <1>2 DEF ReplayInv, ParityKept
<1>9. ReportedTrue'
  <2> SUFFICES ASSUME reportFile' # <<>> PROVE ReportedTrue'
    BY DEF ReportedTrue
  <2>1. /\ reportFile' = reportFile /\ parityFile' = parityFile
        /\ Exists("decisions") \/ (decisionsFile = {} /\ Exists("journal"))
    BY <1>2
  <2>2. /\ reportFile = <<reportFile[1]>> /\ torn = {}
        /\ live # {} => /\ parityFile # <<>> /\ parityFile[1].status = reportFile[1].parity
                        /\ Answers(parityFile[1], reportFile[1].request, reportFile[1].steps)
        /\ (decisionsFile = {} /\ reportFile[1].decisions > 0) \/ CountsFiles(reportFile[1])
    BY <2>1 DEF ReplayInv, ReportedTrue
  <2>3. decisionsFile # {} \/ journalFile # {}
    BY <2>1, <2>2 DEF Exists
  <2>4. ASSUME CountsFiles(reportFile[1]) PROVE reportFile[1].decisions > 0
    <3>1. /\ reportFile[1].decisions = Cardinality(decisionsFile)
          /\ Cardinality(AcceptedRows) = Cardinality(journalFile)
      BY <2>4 DEF CountsFiles
    <3>2. IsFiniteSet(decisionsFile) /\ IsFiniteSet(journalFile)
      BY AcceptedAmong, FS_Subset DEF ReplayInv, FilesKept, JournalKept
    <3>3. decisionsFile # {}
      <4> SUFFICES ASSUME decisionsFile = {} PROVE FALSE
        OBVIOUS
      <4>1. Cardinality(journalFile) = 0
        BY <3>1, FS_EmptySet DEF AcceptedRows
      <4>2. QED
        BY <2>3, <3>2, <4>1, FS_EmptySet
    <3>4. Cardinality(decisionsFile) \in Nat /\ Cardinality(decisionsFile) # 0
      BY <3>2, <3>3, FS_CardinalityType, FS_EmptySet
    <3>5. QED
      BY <3>1, <3>4
  <2>5. decisionsFile' = {} /\ torn' = {} /\ reportFile[1].decisions > 0
    BY <1>2, <2>2, <2>4
  <2>6. live # {} => Answers(parityFile[1], reportFile[1].request, reportFile[1].steps)'
    BY <1>1, <2>1, <2>2, WarmupSame DEF Answers, Within
  <2>7. QED
    BY <1>1, <2>1, <2>2, <2>5, <2>6 DEF ReportedTrue
<1>10. EvaluateSound' /\ LoopsSound' /\ JournalSound'
  BY <1>1 DEF EvaluateSound, LoopsSound, JournalSound
<1>11. QED
  BY <1>4, <1>5, <1>6, <1>7, <1>8, <1>9, <1>10 DEF ReplayInv

LEMMA KeepsOutputsRemoved == ASSUME ReplayInv, OutputsRemoved PROVE ReplayInv'
<1> USE DEF world, scanned, files, gateVars, loopVars
<1>1. /\ stage = "reset" /\ stage' = "run"
      /\ UNCHANGED <<gaps, live, request, steps, step, candidates, decided, report, files,
                     cooldownUntil, serial, now>>
  BY DEF OutputsRemoved
<1>2. decisionsFile = {} /\ journalFile = {} /\ reportFile = <<>> /\ parityFile = <<>> /\ torn = {}
  <2>1. /\ 1 \in DOMAIN Outputs /\ 2 \in DOMAIN Outputs /\ 3 \in DOMAIN Outputs /\ 4 \in DOMAIN Outputs
        /\ Outputs[1] = "decisions" /\ Outputs[2] = "journal"
        /\ Outputs[3] = "report" /\ Outputs[4] = "parity"
    BY DEF Outputs
  <2>2. ~Exists("decisions") /\ ~Exists("journal") /\ ~Exists("report") /\ ~Exists("parity")
    BY <2>1 DEF OutputsRemoved
  <2>3. torn \subseteq {"decisions", "journal", "report", "parity"}
    BY DEF ReplayInv, JournalKept
  <2>4. QED
    BY <2>2, <2>3 DEF Exists
<1>3. ~Running /\ Running'
  BY <1>1 DEF Running
<1>4. deliveries = {} /\ Complete' = {} /\ AcceptedAll' = {} /\ AcceptedRows' = {}
  BY <1>1, <1>2 DEF ReplayInv, JournalKept, Complete, Pending, AcceptedAll, AcceptedRows
<1>5. StepsSound'
  <2>1. StepsOf(request)' <=> StepsOf(request)
    BY <1>1, StepsOfSame
  <2>2. QED
    BY <1>1, <2>1 DEF ReplayInv, StepsSound, Stages
<1>6. GateSound' /\ DecidedSound'
  BY <1>1 DEF GateSound, ReplayInv, DecidedSound
<1>7. FilesKept'
  BY <1>4, FS_EmptySet DEF FilesKept
<1>8. JournalKept'
  BY <1>1, <1>2, <1>4, FS_EmptySet DEF JournalKept, EarlierStepsWhole, NothingLeftOver
<1>9. RunCounted'
  <2>1. Covered' = 0
    BY <1>1 DEF Covered, ReplayInv, StepsSound
  <2>2. report' = NoReport /\ report' \in ReportType
    BY <1>1, <1>3 DEF ReplayInv, RunCounted
  <2>3. QED
    BY <1>1, <1>2, <1>3, <1>4, <2>1, <2>2, FS_EmptySet DEF RunCounted, NoReport
<1>10. ParityKept' /\ ReportedTrue'
  BY <1>1, <1>2 DEF ParityKept, ReportedTrue
<1>11. EvaluateSound' /\ LoopsSound' /\ JournalSound'
  BY <1>1 DEF EvaluateSound, LoopsSound, JournalSound
<1>12. QED
  BY <1>5, <1>6, <1>7, <1>8, <1>9, <1>10, <1>11 DEF ReplayInv

\* What every process leaves behind of itself.
LEMMA Forgotten ==
    ASSUME ReplayInv, ForgetAll, UNCHANGED <<gaps, live, request>>
    PROVE  /\ StepsSound' /\ GateSound' /\ DecidedSound' /\ RunCounted'
           /\ EvaluateSound' /\ LoopsSound' /\ JournalSound'
<1> USE DEF ForgetAll
<1>1. StepsSound'
  BY DEF StepsSound, Stages
<1>2. GateSound'
  BY DEF ReplayInv, GateSound
<1>3. DecidedSound'
  BY DEF DecidedSound, NoneDecided, NoDecision, DecisionType, States, Wheres
<1>4. RunCounted'
  BY DEF RunCounted, Running, NoReport, ReportType
<1>5. EvaluateSound' /\ LoopsSound' /\ JournalSound'
  BY DEF EvaluateSound, LoopsSound, JournalSound
<1>6. QED
  BY <1>1, <1>2, <1>3, <1>4, <1>5

LEMMA KeepsKill == ASSUME ReplayInv, Kill PROVE ReplayInv'
<1>1. /\ stage # "idle" /\ stage' = "idle" /\ ForgetAll /\ torn' \in {torn, torn \cup InHand}
      /\ UNCHANGED <<gaps, live, request, decisionsFile, journalFile, deliveries, parityFile, reportFile>>
  BY DEF Kill, ForgetAll, world
<1>2. /\ StepsSound' /\ GateSound' /\ DecidedSound' /\ RunCounted'
      /\ EvaluateSound' /\ LoopsSound' /\ JournalSound'
  BY <1>1, Forgotten
<1>3. FilesKept'
  BY <1>1, FewerRows DEF ReplayInv
<1>4. InHand \subseteq {"decisions", "journal", "report", "parity"}
  BY DEF InHand
<1>5. JournalKept'
  <2>1. AcceptedRows' = AcceptedRows /\ \A t, p : DecisionsAt(t, p)' = DecisionsAt(t, p)
    BY <1>1, SameFile
  <2>2. ~Running'
    BY <1>1 DEF Running
  <2>3. EarlierStepsWhole' /\ NothingLeftOver'
    BY <1>1, <2>1, <2>2 DEF ReplayInv, JournalKept, EarlierStepsWhole, NothingLeftOver
  <2>4. QED
    BY <1>1, <1>4, <2>3 DEF ReplayInv, JournalKept
<1>6. ParityKept'
  BY <1>1 DEF ReplayInv, ParityKept
<1>7. ReportedTrue'
  <2>1. CASE Running
    BY <1>1, <2>1 DEF ReplayInv, RunCounted, ReportedTrue
  <2>2. CASE ~Running
    <3>1. InHand = {}
      BY <1>1, <2>2 DEF Running, InHand, CycleDone
    <3>2. torn' = torn
      BY <1>1, <3>1
    <3>3. QED
      BY <1>1, <3>2, ReportedFrame DEF ReplayInv
  <2>3. QED
    BY <2>1, <2>2
<1>8. QED
  BY <1>2, <1>3, <1>5, <1>6, <1>7 DEF ReplayInv

\* What the last cycle released is in the journal before the next one begins.
LEMMA WrittenUp ==
    ASSUME ReplayInv, stage = "report" \/ CycleDone
    PROVE  /\ stage \in {"run", "journal", "report"} /\ Running /\ Covered = step
           /\ deliveries = journalFile /\ {RowOf(d) : d \in AcceptedRows} = journalFile
<1>1. stage \in {"run", "journal", "report"} /\ Running /\ Covered = step
  BY DEF CycleDone, Running, Covered
<1>2. AcceptedAll = AcceptedRows /\ deliveries = journalFile
  BY <1>1, Whole DEF ReplayInv, RunCounted
<1>3. journalFile \subseteq {RowOf(d) : d \in AcceptedRows}
  BY <1>1 DEF ReplayInv, JournalKept, NothingLeftOver
<1>4. CASE stage \in {"run", "report"}
  BY <1>1, <1>2, <1>3, <1>4 DEF ReplayInv, RunCounted
<1>5. CASE stage = "journal"
  <2>1. candidates = <<>>
    BY <1>5 DEF CycleDone
  <2>2. {RowOf(d) : d \in AcceptedAll} = deliveries \cup {candidates[i] : i \in DOMAIN candidates}
    BY <1>5 DEF ReplayInv, JournalSound
  <2>3. {candidates[i] : i \in DOMAIN candidates} = {}
    BY <2>1
  <2>4. QED
    BY <1>1, <1>2, <2>2, <2>3
<1>6. QED
  BY <1>1, <1>4, <1>5

LEMMA KeepsScanCycle == ASSUME ReplayInv, ScanCycle PROVE ReplayInv'
<1> USE DEF ScanCycle, world, gateVars
<1>1. /\ stage \in {"run", "journal"} /\ Covered = step /\ stage' = "evaluate"
      /\ deliveries = journalFile /\ {RowOf(d) : d \in AcceptedRows} = journalFile
      /\ UNCHANGED <<decisionsFile, journalFile, deliveries, reportFile>>
  BY WrittenUp DEF CycleDone, files
<1>2. Complete' = Complete /\ AcceptedAll' = AcceptedAll /\ \A t, p : RowsAt(t, p)' = RowsAt(t, p)
  BY <1>1, RowsFrame
<1>3. steps \in Seq(Nat) /\ step \in 0..Len(steps)
  BY DEF ReplayInv, StepsSound
<1>4. StepsSound'
  <2>1. StepsOf(request)' <=> StepsOf(request)
    BY StepsOfSame
  <2>2. QED
    BY <1>1, <1>3, <2>1 DEF ReplayInv, StepsSound, Stages
<1>5. FilesKept' /\ JournalKept' /\ ParityKept' /\ ReportedTrue' /\ JournalSound'
  BY <1>1, CycleFrame
<1>6. Covered' = Covered /\ Running /\ Running' /\ AcceptedAll = AcceptedRows
  BY <1>1, <1>3, Whole DEF Covered, Running
<1>7. RunCounted'
  BY <1>1, <1>2, <1>6 DEF ReplayInv, RunCounted
<1>8. GateSound' /\ DecidedSound'
  BY DEF ReplayInv, GateSound, DecidedSound, NoneDecided, NoDecision, DecisionType, States, Wheres
<1>9. EvaluateSound'
  BY DEF EvaluateSound, OnePerPair, NoneDecided, NoDecision
<1>10. LoopsSound'
  BY DEF LoopsSound
<1>11. QED
  BY <1>4, <1>5, <1>7, <1>8, <1>9, <1>10 DEF ReplayInv

-----------------------------------------------------------------------------
(* One cycle: the evaluation of the pairs.                                 *)

LEMMA PairsListedOnce ==
    /\ IsFiniteSet(Pairs) /\ IsFiniteSet(DOMAIN PairOrder) /\ DOMAIN PairOrder \subseteq Int
    /\ \A i \in DOMAIN PairOrder : PairOrder[i] \in Pairs
    /\ \A p \in Pairs : \E i \in DOMAIN PairOrder : PairOrder[i] = p
<1>1. IsFiniteSet(DOMAIN PairOrder) /\ DOMAIN PairOrder \subseteq Int
  BY ReplayAssumption, Indices
<1>2. Pairs = {PairOrder[i] : i \in DOMAIN PairOrder}
  BY ReplayAssumption DEF Range
<1> DEFINE D == DOMAIN PairOrder
<1> HIDE DEF D
<1>3. IsFiniteSet({PairOrder[i] : i \in D})
  BY <1>1, FiniteImage DEF D
<1>4. QED
  BY <1>1, <1>2, <1>3 DEF D

LEMMA NextUndecided ==
    ASSUME DecidedSound, Undecided # {}
    PROVE  /\ PairOrder[Min(Undecided)] \in Pairs
           /\ decided[PairOrder[Min(Undecided)]] = NoDecision
<1>1. Undecided \subseteq Int /\ IsFiniteSet(Undecided)
  BY PairsListedOnce, FS_Subset DEF Undecided
<1>2. Min(Undecided) \in Undecided
  BY <1>1, MinIs
<1>3. QED
  BY <1>2, PairsListedOnce DEF Undecided

LEMMA AllDecided ==
    ASSUME DecidedSound, Undecided = {} PROVE \A p \in Pairs : decided[p].state # "none"
BY PairsListedOnce DEF DecidedSound, Undecided

\* A pair that a decision still calls a candidate is one of the candidates.
LEMMA CandidateAdded ==
    ASSUME EvaluateSound, DecidedSound, stage = "evaluate", stage' = stage,
           NEW p \in Pairs, decided[p] = NoDecision,
           NEW s \in CandidateType, s.pair = p, Decide(p, "candidate", "candidate", s),
           candidates' = Append(candidates, s)
    PROVE  EvaluateSound' /\ DecidedSound'
<1> DEFINE n == Len(candidates)
           d == [state |-> "candidate", stage |-> "candidate", side |-> s.side, at |-> s.at]
<1>1. /\ candidates \in Seq(CandidateType) /\ OnePerPair(candidates)
      /\ \A i \in DOMAIN candidates : Agrees(candidates[i])
      /\ \A q \in Pairs : /\ decided[q].state # "accepted"
                          /\ decided[q].state = "candidate" => q \in PairsIn(candidates)
  BY DEF EvaluateSound
<1>2. /\ n \in Nat /\ DOMAIN candidates = 1..n
      /\ candidates' \in Seq(CandidateType) /\ DOMAIN candidates' = 1..(n + 1)
      /\ \A i \in 1..n : candidates'[i] = candidates[i]
      /\ candidates'[n + 1] = s
  BY <1>1
<1> HIDE DEF n
<1>3. decided \in [Pairs -> DecisionType] /\ decided' = [decided EXCEPT ![p] = d]
  BY DEF DecidedSound, Decide
<1>4. d \in DecisionType
  BY DEF DecisionType, CandidateType, States, Wheres
<1>5. DecidedSound'
  <2>1. decided' \in [Pairs -> DecisionType]
    BY <1>3, <1>4
  <2>2. ASSUME NEW q \in Pairs, decided'[q].state = "none" PROVE decided'[q] = NoDecision
    BY <1>3, <2>2 DEF DecidedSound
  <2>3. QED
    BY <2>1, <2>2 DEF DecidedSound
<1>6. \A i \in 1..n : candidates[i].pair # p /\ candidates[i].pair \in Pairs
  <2>1. \A i \in 1..n : candidates[i] \in CandidateType /\ Agrees(candidates[i])
    BY <1>1, <1>2
  <2>2. QED
    BY <2>1 DEF Agrees, NoDecision, CandidateType
<1>7. OnePerPair(candidates')
  <2> SUFFICES ASSUME NEW i \in 1..(n + 1), NEW j \in 1..(n + 1),
                      candidates'[i].pair = candidates'[j].pair
               PROVE  i = j
    BY <1>2 DEF OnePerPair
  <2>1. i \in 1..n \/ i = n + 1
    BY <1>2
  <2>2. j \in 1..n \/ j = n + 1
    BY <1>2
  <2>3. QED
    BY <1>1, <1>2, <1>6, <2>1, <2>2 DEF OnePerPair
<1>8. \A i \in DOMAIN candidates' : Agrees(candidates[i])'
  <2> SUFFICES ASSUME NEW i \in 1..(n + 1)
               PROVE  /\ decided'[candidates'[i].pair].state = "candidate"
                      /\ decided'[candidates'[i].pair].side = candidates'[i].side
                      /\ decided'[candidates'[i].pair].at = candidates'[i].at
    BY <1>2 DEF Agrees
  <2>1. CASE i = n + 1
    BY <1>2, <1>3, <2>1
  <2>2. CASE i \in 1..n
    <3>1. decided'[candidates[i].pair] = decided[candidates[i].pair]
      BY <1>3, <1>6, <2>2
    <3>2. Agrees(candidates[i])
      BY <1>1, <1>2, <2>2
    <3>3. QED
      BY <1>2, <2>2, <3>1, <3>2 DEF Agrees
  <2>3. QED
    BY <1>2, <2>1, <2>2
<1>9. ASSUME NEW q \in Pairs
      PROVE  /\ decided'[q].state # "accepted"
             /\ decided'[q].state = "candidate" => q \in PairsIn(candidates')
  <2>1. CASE q = p
    <3>1. n + 1 \in DOMAIN candidates' /\ candidates'[n + 1].pair = p
      BY <1>2
    <3>2. QED
      BY <1>3, <2>1, <3>1 DEF PairsIn
  <2>2. CASE q # p
    <3>1. decided'[q] = decided[q]
      BY <1>3, <2>2
    <3>2. PairsIn(candidates) \subseteq PairsIn(candidates')
      BY <1>2 DEF PairsIn
    <3>3. QED
      BY <1>1, <3>1, <3>2
  <2>3. QED
    BY <2>1, <2>2
<1>10. QED
  <2>1. OnePerPair(candidates)' /\ PairsIn(candidates)' = PairsIn(candidates')
    BY <1>7 DEF OnePerPair, PairsIn
  <2>2. EvaluateSound'
    BY <1>2, <1>8, <1>9, <2>1 DEF EvaluateSound
  <2>3. QED
    BY <1>5, <2>2

LEMMA KeepsEvaluate == ASSUME ReplayInv, Evaluate PROVE ReplayInv'
<1> USE DEF world, files, gateVars, loopVars
<1>1. /\ stage = "evaluate" /\ Undecided # {}
      /\ UNCHANGED <<runs, gaps, live, request, steps, step, stage, report, files, gateVars, loopVars>>
  BY DEF Evaluate
<1>2. EvaluateSound /\ DecidedSound
  BY DEF ReplayInv
<1>3. /\ StepsSound' /\ FilesKept' /\ JournalKept' /\ ParityKept' /\ ReportedTrue' /\ JournalSound'
      /\ GateSound' /\ LoopsSound' /\ Covered' = Covered /\ Running /\ Running'
  BY <1>1, StepsFrame, CycleFrame DEF ReplayInv, GateSound, LoopsSound, Covered, Running
<1>4. RunCounted'
  <2>1. Complete' = Complete /\ AcceptedAll' = AcceptedAll /\ \A t, p : RowsAt(t, p)' = RowsAt(t, p)
    BY <1>1, RowsFrame
  <2>2. QED
    BY <1>1, <1>3, <2>1 DEF ReplayInv, RunCounted
<1>5. PICK p : p = PairOrder[Min(Undecided)]
  OBVIOUS
<1>6. p \in Pairs /\ decided[p] = NoDecision
  BY <1>1, <1>2, <1>5, NextUndecided
<1>7. \/ \E where \in {"data", "score"} :
            /\ decided' = [decided EXCEPT ![p] = [NoDecision EXCEPT
                     !.state = IF where = "data" THEN "error" ELSE "rejected", !.stage = where]]
            /\ UNCHANGED candidates
      \/ \E side \in PlanSides, score \in Scores, hold \in Holds :
            /\ Fetch(p, "trigger", now) # {}
            /\ LET s == [pair |-> p, side |-> side, bias |-> "any",
                         at |-> NewestTrigger(p), hold |-> hold, score |-> score]
               IN  /\ Decide(p, "candidate", "candidate", s)
                   /\ candidates' = Append(candidates, s)
  BY <1>5 DEF Evaluate
<1>8. CASE \E where \in {"data", "score"} :
              /\ decided' = [decided EXCEPT ![p] = [NoDecision EXCEPT
                       !.state = IF where = "data" THEN "error" ELSE "rejected", !.stage = where]]
              /\ UNCHANGED candidates
  <2>1. PICK d \in DecisionType : /\ d.state \in {"error", "rejected"}
                                  /\ decided' = [decided EXCEPT ![p] = d] /\ candidates' = candidates
    BY <1>8 DEF NoDecision, DecisionType, States, Wheres
  <2>2. DecidedSound'
    BY <1>2, <2>1 DEF DecidedSound
  <2>3. \A i \in DOMAIN candidates : candidates[i].pair # p /\ candidates[i].pair \in Pairs
    <3>1. candidates \in Seq(CandidateType) /\ \A i \in DOMAIN candidates : Agrees(candidates[i])
      BY <1>1, <1>2 DEF EvaluateSound
    <3>2. \A i \in DOMAIN candidates : candidates[i] \in CandidateType
      BY <3>1, Indices
    <3>3. QED
      BY <1>6, <3>1, <3>2 DEF Agrees, NoDecision, CandidateType
  <2>4. \A q \in Pairs \ {p} : decided'[q] = decided[q]
    BY <1>2, <2>1 DEF DecidedSound
  <2>5. decided'[p] = d
    BY <1>2, <1>6, <2>1 DEF DecidedSound
  <2>6. EvaluateSound'
    BY <1>1, <1>2, <2>1, <2>3, <2>4, <2>5 DEF EvaluateSound, Agrees, OnePerPair, PairsIn
  <2>7. QED
    BY <1>3, <1>4, <2>2, <2>6 DEF ReplayInv
<1>9. CASE \E side \in PlanSides, score \in Scores, hold \in Holds :
              /\ Fetch(p, "trigger", now) # {}
              /\ LET s == [pair |-> p, side |-> side, bias |-> "any",
                           at |-> NewestTrigger(p), hold |-> hold, score |-> score]
                 IN  /\ Decide(p, "candidate", "candidate", s)
                     /\ candidates' = Append(candidates, s)
  <2>1. PICK side \in PlanSides, score \in Scores, hold \in Holds :
           /\ Fetch(p, "trigger", now) # {}
           /\ LET s == [pair |-> p, side |-> side, bias |-> "any",
                        at |-> NewestTrigger(p), hold |-> hold, score |-> score]
              IN  /\ Decide(p, "candidate", "candidate", s)
                  /\ candidates' = Append(candidates, s)
    BY <1>9
  <2> DEFINE s == [pair |-> p, side |-> side, bias |-> "any",
                   at |-> NewestTrigger(p), hold |-> hold, score |-> score]
  <2>2. NewestTrigger(p) \in Nat
    BY <1>6, <2>1, NewestTyped
  <2>3. s \in CandidateType /\ s.pair = p
    BY <1>6, <2>1, <2>2 DEF CandidateType
  <2>4. Decide(p, "candidate", "candidate", s) /\ candidates' = Append(candidates, s)
    BY <2>1
  <2> HIDE DEF s
  <2>5. EvaluateSound' /\ DecidedSound'
    BY <1>1, <1>2, <1>6, <2>3, <2>4, CandidateAdded
  <2>6. QED
    BY <1>3, <1>4, <2>5 DEF ReplayInv
<1>10. QED
  BY <1>7, <1>8, <1>9

LEMMA Dropped ==
    ASSUME NEW d \in DecisionType, NEW where \in Wheres
    PROVE  /\ [d EXCEPT !.state = "rejected", !.stage = where] \in DecisionType
           /\ [d EXCEPT !.state = "rejected", !.stage = where].state = "rejected"
BY DEF DecisionType, States

LEMMA KeepsFilterCorrelated == ASSUME ReplayInv, FilterCorrelated PROVE ReplayInv'
<1> USE DEF world, files, gateVars
<1>1. /\ stage = "evaluate" /\ Undecided = {} /\ stage' = "loops" /\ phase' = "currency" /\ kept' = <<>>
      /\ UNCHANGED <<runs, gaps, live, request, steps, step, report, files, gateVars, now>>
  BY DEF FilterCorrelated
<1>2. PICK k \in Cap!Kept(candidates) :
         /\ queue' = [i \in DOMAIN k |-> SignalOf(k[i])]
         /\ decided' = DropAll("correlation", candidates, k)
  BY DEF FilterCorrelated
<1>3. /\ candidates \in Seq(CandidateType) /\ OnePerPair(candidates)
      /\ \A i \in DOMAIN candidates : Agrees(candidates[i])
      /\ \A p \in Pairs : /\ decided[p].state # "accepted"
                          /\ decided[p].state = "candidate" => p \in PairsIn(candidates)
  BY <1>1 DEF ReplayInv, EvaluateSound
<1>4. /\ decided \in [Pairs -> DecisionType]
      /\ \A p \in Pairs : decided[p].state # "none"
  BY <1>1, AllDecided DEF ReplayInv, DecidedSound
<1>5. /\ k \in Seq(CandidateType) /\ OnePerPair(k)
      /\ \A i \in DOMAIN k : \E j \in DOMAIN candidates : k[i] = candidates[j]
      /\ Uncorrelated(PairsIn(k))
  BY <1>2, <1>3, KeptUncorrelated
<1>6. \A i \in DOMAIN k : k[i] \in CandidateType /\ Agrees(k[i])
  BY <1>3, <1>5, Indices
<1>7. \A p \in Pairs :
         decided'[p] = IF p \in PairsIn(candidates) \ PairsIn(k)
                       THEN [decided[p] EXCEPT !.state = "rejected", !.stage = "correlation"]
                       ELSE decided[p]
  BY <1>2 DEF DropAll, PairsIn
<1>8. decided' \in [Pairs -> DecisionType]
  <2>1. ASSUME NEW p \in Pairs PROVE decided'[p] \in DecisionType
    <3>1. decided[p] \in DecisionType /\ "correlation" \in Wheres
      BY <1>4 DEF Wheres
    <3>2. [decided[p] EXCEPT !.state = "rejected", !.stage = "correlation"] \in DecisionType
      BY <3>1, Dropped
    <3>3. QED
      BY <1>7, <3>1, <3>2
  <2>2. decided' = [p \in Pairs |-> decided'[p]]
    BY <1>2 DEF DropAll
  <2>3. QED
    BY <2>1, <2>2
<1>9. \A p \in Pairs : /\ decided'[p].state \in {"candidate", "rejected", "error"}
                       /\ decided'[p].state = "candidate" => p \in PairsIn(k)
  BY <1>3, <1>4, <1>7 DEF DecisionType, States
<1>10. DecidedSound'
  <2>1. \A p \in Pairs : decided'[p].state # "none"
    BY <1>9
  <2>2. QED
    BY <1>8, <2>1 DEF DecidedSound
<1>11. /\ DOMAIN queue' = DOMAIN k /\ PairsIn(queue') = PairsIn(k)
       /\ \A i \in DOMAIN k : /\ queue'[i].pair = k[i].pair /\ queue'[i].side = k[i].side
                              /\ queue'[i].at = k[i].at
  BY <1>2 DEF SignalOf, PairsIn
<1>12. queue' \in Seq(SignalType)
  <2>1. \A i \in DOMAIN k : queue'[i] \in SignalType
    BY <1>2, <1>6 DEF SignalOf, CandidateType, SignalType
  <2>2. Len(k) \in Nat /\ DOMAIN k = 1..Len(k)
    BY <1>5
  <2>3. QED
    BY <1>2, <2>1, <2>2
<1>13. \A i \in DOMAIN queue' : /\ decided'[queue'[i].pair].state = "candidate"
                                /\ decided'[queue'[i].pair].side = queue'[i].side
                                /\ decided'[queue'[i].pair].at = queue'[i].at
  <2>1. \A i \in DOMAIN k : k[i].pair \in Pairs /\ k[i].pair \in PairsIn(k)
    BY <1>6 DEF CandidateType, PairsIn
  <2>2. \A i \in DOMAIN k : decided'[k[i].pair] = decided[k[i].pair]
    BY <1>7, <2>1
  <2>3. QED
    BY <1>6, <1>11, <2>2 DEF Agrees
<1>14. LoopsSound'
  <2>1. OnePerPair(queue)' /\ OnePerPair(kept)' /\ PairsIn(kept)' = {} /\ PairsIn(queue)' = PairsIn(k)
    BY <1>1, <1>5, <1>11 DEF OnePerPair, PairsIn
  <2>2. Registered' = {}
    BY <1>1 DEF Registered
  <2>3. \A i \in DOMAIN queue' : Agrees(queue[i])'
    BY <1>13 DEF Agrees
  <2>4. (Uncorrelated(PairsIn(queue) \cup PairsIn(kept)))'
    BY <1>5, <2>1 DEF Uncorrelated
  <2>5. QED
    BY <1>1, <1>9, <1>12, <2>1, <2>2, <2>3, <2>4 DEF LoopsSound
<1>15. /\ StepsSound' /\ FilesKept' /\ JournalKept' /\ ParityKept' /\ ReportedTrue' /\ JournalSound'
       /\ GateSound' /\ EvaluateSound' /\ Covered' = Covered /\ Running /\ Running'
  BY <1>1, StepsFrame, CycleFrame DEF ReplayInv, GateSound, EvaluateSound, Covered, Running
<1>16. RunCounted'
  <2>1. Complete' = Complete /\ AcceptedAll' = AcceptedAll /\ \A t, p : RowsAt(t, p)' = RowsAt(t, p)
    BY <1>1, RowsFrame
  <2>2. QED
    BY <1>1, <1>15, <2>1 DEF ReplayInv, RunCounted
<1>17. QED
  BY <1>10, <1>14, <1>15, <1>16 DEF ReplayInv

-----------------------------------------------------------------------------
(* One cycle: the loops of the release gate.                               *)

Loops == {"currency", "portfolio", "release", "gate"}

QueueType == IF phase = "gate" THEN ReleaseType ELSE SignalType
KeptType == IF phase \in {"release", "gate"} THEN ReleaseType ELSE SignalType

\* What a loop passes on says of the pair what came in.
Passes(x, s) == x \in KeptType /\ x.pair = s.pair /\ x.side = s.side /\ x.at = s.at

\* The release loop sets off the cooldown of a pair that was not cooling down.
SetsOff(x) ==
    /\ PairCooldown > 0 =>
          /\ ~(x.at < cooldownUntil[x.pair])
          /\ cooldownUntil' = [cooldownUntil EXCEPT ![x.pair] = x.at + PairCooldown]
    /\ PairCooldown = 0 => cooldownUntil' = cooldownUntil

LEMMA HeadTyped ==
    ASSUME LoopsSound, stage = "loops", queue # <<>>
    PROVE  Head(queue) \in QueueType /\ 1 \in DOMAIN queue /\ Head(queue) = queue[1]
BY DEF LoopsSound, QueueType

LEMMA LoopTaken ==
    ASSUME LoopsSound, GateSound, RunLoops
    PROVE  /\ stage = "loops" /\ queue # <<>> /\ queue' = Tail(queue)
           /\ UNCHANGED <<now, phase>>
           /\ cooldownUntil' \in [Pairs -> Nat] /\ serial' \in Nat
           /\ \/ /\ kept' = kept /\ UNCHANGED cooldownUntil
                 /\ decided' = DropAll(phase, <<Head(queue)>>, <<>>)
              \/ \E x : /\ Passes(x, Head(queue)) /\ kept' = Append(kept, x) /\ decided' = decided
                        /\ IF phase = "release" THEN SetsOff(x) ELSE UNCHANGED cooldownUntil
                        /\ phase = "gate" => x = Head(queue)
<1> DEFINE s == Head(queue)
<1>1. stage = "loops" /\ queue # <<>>
  BY DEF RunLoops
<1>2. s \in QueueType /\ cooldownUntil \in [Pairs -> Nat] /\ serial \in Nat
  BY <1>1, HeadTyped DEF GateSound
<1>3. decided' = IF Len(kept') > Len(kept) THEN decided ELSE DropAll(phase, <<s>>, <<>>)
  BY DEF RunLoops
<1>4. kept \in Seq(KeptType)
  BY <1>1 DEF LoopsSound, KeptType
<1>5. kept' = kept => decided' = DropAll(phase, <<s>>, <<>>)
  <2>1. kept' = kept => ~(Len(kept') > Len(kept))
    BY <1>4
  <2>2. QED
    BY <1>3, <2>1
<1>6. ASSUME NEW x \in KeptType, kept' = Append(kept, x) PROVE decided' = decided
  <2>1. Len(kept') > Len(kept)
    BY <1>4, <1>6
  <2>2. QED
    BY <1>3, <2>1
<1> HIDE DEF s
<1>7. CASE Gate!ApplyCurrencyCap
  <2>1. /\ phase = "currency" /\ queue' = Tail(queue) /\ kept' \in {kept, Append(kept, s)}
        /\ UNCHANGED <<now, phase, cooldownUntil, serial>>
    BY <1>7 DEF Gate!ApplyCurrencyCap, Gate!releaseVars, s
  <2>2. Passes(s, s) /\ s \in KeptType
    BY <1>2, <2>1 DEF Passes, KeptType, QueueType
  <2>3. QED
    BY <1>1, <1>2, <1>5, <1>6, <2>1, <2>2 DEF s
<1>8. CASE Gate!ApplyPortfolioCap
  <2>1. /\ phase = "portfolio" /\ queue' = Tail(queue) /\ kept' \in {kept, Append(kept, s)}
        /\ UNCHANGED <<now, phase, cooldownUntil, serial>>
    BY <1>8 DEF Gate!ApplyPortfolioCap, s
  <2>2. Passes(s, s) /\ s \in KeptType
    BY <1>2, <2>1 DEF Passes, KeptType, QueueType
  <2>3. QED
    BY <1>1, <1>2, <1>5, <1>6, <2>1, <2>2 DEF s
<1>9. CASE Gate!GateSignalRelease
  <2>1. /\ phase = "release" /\ queue' = Tail(queue) /\ UNCHANGED <<now, phase>>
        /\ \/ Gate!DropAtCooldown(s) /\ kept' = kept
           \/ Gate!DropAtBiasLimit(s) /\ kept' = kept
           \/ Gate!DropAtExposureCap(s) /\ kept' = kept
           \/ Gate!Register(s) /\ kept' = Append(kept, Gate!ReleaseOf(s))
    BY <1>9 DEF Gate!GateSignalRelease, s
  <2>2. CASE \/ Gate!DropAtCooldown(s) /\ kept' = kept
             \/ Gate!DropAtBiasLimit(s) /\ kept' = kept
             \/ Gate!DropAtExposureCap(s) /\ kept' = kept
    <3>1. kept' = kept /\ UNCHANGED <<cooldownUntil, serial>>
      BY <2>2 DEF Gate!DropAtCooldown, Gate!DropAtBiasLimit, Gate!DropAtExposureCap, Gate!releaseVars
    <3>2. QED
      BY <1>1, <1>2, <1>5, <2>1, <3>1 DEF s
  <2>3. CASE Gate!Register(s) /\ kept' = Append(kept, Gate!ReleaseOf(s))
    <3> DEFINE x == Gate!ReleaseOf(s)
    <3>1. s \in SignalType
      BY <1>2, <2>1 DEF QueueType
    <3>2. s.pair \in Pairs /\ s.at \in Nat /\ s.hold \in Nat /\ PairCooldown \in Nat
      BY <3>1, ReplayAssumption DEF SignalType
    <3>3. x \in ReleaseType /\ x.pair = s.pair /\ x.side = s.side /\ x.at = s.at
      <4>1. serial + 1 \in Nat /\ s.at + s.hold \in Nat
        BY <1>2, <3>2
      <4>2. QED
        BY <3>1, <4>1 DEF Gate!ReleaseOf, ReleaseType, SignalType
    <3>4. /\ ~(PairCooldown > 0 /\ s.at < cooldownUntil[s.pair])
          /\ cooldownUntil' = IF PairCooldown > 0
                              THEN [cooldownUntil EXCEPT ![s.pair] = s.at + PairCooldown]
                              ELSE cooldownUntil
          /\ serial' = serial + 1
      BY <2>3 DEF Gate!Register, Gate!CooldownActive
    <3> HIDE DEF x
    <3>5. SetsOff(x)
      BY <3>2, <3>3, <3>4 DEF SetsOff
    <3>6. cooldownUntil' \in [Pairs -> Nat] /\ serial' \in Nat
      BY <1>2, <3>2, <3>4
    <3>7. Passes(x, s) /\ x \in KeptType
      BY <2>1, <3>3 DEF Passes, KeptType
    <3>8. kept' = Append(kept, x)
      BY <2>3 DEF x
    <3>9. decided' = decided
      BY <1>6, <3>7, <3>8
    <3>10. QED
      BY <1>1, <2>1, <3>5, <3>6, <3>7, <3>8, <3>9 DEF s
  <2>4. QED
    BY <2>1, <2>2, <2>3
<1>10. CASE Gate!CheckTrade
  <2>1. /\ phase = "gate" /\ queue' = Tail(queue) /\ kept' \in {kept, Append(kept, s)}
        /\ UNCHANGED <<now, phase, cooldownUntil, serial>>
    BY <1>10 DEF Gate!CheckTrade, Gate!releaseVars, s
  <2>2. Passes(s, s) /\ s \in KeptType
    BY <1>2, <2>1 DEF Passes, KeptType, QueueType
  <2>3. QED
    BY <1>1, <1>2, <1>5, <1>6, <2>1, <2>2 DEF s
<1>11. QED
  BY <1>7, <1>8, <1>9, <1>10 DEF RunLoops

LEMMA TailTaken ==
    ASSUME NEW T, NEW q \in Seq(T), q # <<>>, OnePerPair(q), NEW r, r = Tail(q)
    PROVE  /\ r \in Seq(T) /\ OnePerPair(r)
           /\ \A i \in DOMAIN r : i + 1 \in DOMAIN q /\ r[i] = q[i + 1]
           /\ PairsIn(r) = PairsIn(q) \ {Head(q).pair}
<1> DEFINE n == Len(q)
<1>1. n \in Nat \ {0} /\ DOMAIN q = 1..n /\ Head(q) = q[1]
  OBVIOUS
<1>2. r \in Seq(T) /\ Len(r) = n - 1 /\ DOMAIN r = 1..(n - 1) /\ \A i \in 1..(n - 1) : r[i] = q[i + 1]
  OBVIOUS
<1> HIDE DEF n
<1>3. \A i \in DOMAIN r : i + 1 \in DOMAIN q /\ r[i] = q[i + 1]
  BY <1>1, <1>2
<1>4. OnePerPair(r)
  <2> SUFFICES ASSUME NEW i \in DOMAIN r, NEW j \in DOMAIN r, r[i].pair = r[j].pair PROVE i = j
    BY DEF OnePerPair
  <2>1. i + 1 = j + 1
    BY <1>3 DEF OnePerPair
  <2>2. QED
    BY <1>1, <1>2, <2>1
<1>5. ASSUME NEW p PROVE p \in PairsIn(r) <=> p \in PairsIn(q) /\ p # q[1].pair
  <2>1. ASSUME p \in PairsIn(r) PROVE p \in PairsIn(q) /\ p # q[1].pair
    <3>1. PICK i \in DOMAIN r : r[i].pair = p
      BY <2>1 DEF PairsIn
    <3>2. i + 1 \in DOMAIN q /\ q[i + 1].pair = p
      BY <1>3, <3>1
    <3>3. 1 \in DOMAIN q /\ i + 1 # 1
      BY <1>1, <1>2
    <3>4. QED
      BY <3>2, <3>3 DEF OnePerPair, PairsIn
  <2>2. ASSUME p \in PairsIn(q), p # q[1].pair PROVE p \in PairsIn(r)
    <3>1. PICK i \in DOMAIN q : q[i].pair = p
      BY <2>2 DEF PairsIn
    <3>2. i # 1
      BY <2>2, <3>1
    <3>3. i - 1 \in 1..(n - 1) /\ (i - 1) + 1 = i
      BY <1>1, <3>2
    <3>4. r[i - 1] = q[i] /\ i - 1 \in DOMAIN r
      BY <1>2, <3>3
    <3>5. QED
      BY <3>1, <3>4 DEF PairsIn
  <2>3. QED
    BY <2>1, <2>2
<1>6. QED
  BY <1>1, <1>2, <1>3, <1>4, <1>5

LEMMA Appended ==
    ASSUME NEW T, NEW k \in Seq(T), OnePerPair(k), NEW x \in T, \A i \in DOMAIN k : k[i].pair # x.pair
    PROVE  /\ Append(k, x) \in Seq(T) /\ OnePerPair(Append(k, x))
           /\ \A i \in DOMAIN Append(k, x) :
                 (i \in DOMAIN k /\ Append(k, x)[i] = k[i]) \/ Append(k, x)[i] = x
           /\ \A i \in DOMAIN k : i \in DOMAIN Append(k, x) /\ Append(k, x)[i] = k[i]
           /\ \E i \in DOMAIN Append(k, x) : Append(k, x)[i] = x
<1> DEFINE n == Len(k)
           r == Append(k, x)
<1>1. n \in Nat /\ DOMAIN k = 1..n
  OBVIOUS
<1>2. /\ r \in Seq(T) /\ DOMAIN r = 1..(n + 1) /\ r[n + 1] = x
      /\ \A i \in 1..n : r[i] = k[i]
  OBVIOUS
<1> HIDE DEF n, r
<1>3. \A i \in 1..(n + 1) : i \in 1..n \/ i = n + 1
  BY <1>1
<1>4. 1..n \subseteq 1..(n + 1) /\ n + 1 \in 1..(n + 1)
  BY <1>1
<1>5. OnePerPair(r)
  BY <1>1, <1>2, <1>3 DEF OnePerPair
<1>6. QED
  BY <1>1, <1>2, <1>3, <1>4, <1>5 DEF r

\* Whatever loop takes a candidate, those it has and those it has passed on are
\* the pairs whose decision still calls them candidates.
LEMMA LoopKeepsCandidates ==
    ASSUME LoopsSound, DecidedSound, GateSound, RunLoops
    PROVE  /\ DecidedSound'
           /\ queue' \in Seq(QueueType) /\ kept' \in Seq(KeptType)
           /\ OnePerPair(queue') /\ OnePerPair(kept')
           /\ PairsIn(queue') \cap PairsIn(kept') = {}
           /\ PairsIn(queue') \cup PairsIn(kept') \subseteq PairsIn(queue) \cup PairsIn(kept)
           /\ \A i \in DOMAIN queue' : Agrees(queue[i])'
           /\ \A i \in DOMAIN kept' : Agrees(kept[i])'
           /\ \A p \in Pairs : /\ decided'[p].state \in {"candidate", "rejected", "error"}
                               /\ decided'[p].state = "candidate" =>
                                     p \in PairsIn(queue') \cup PairsIn(kept')
<1> DEFINE s == Head(queue)
<1>1. /\ stage = "loops" /\ queue # <<>> /\ queue' = Tail(queue)
      /\ \/ kept' = kept /\ decided' = DropAll(phase, <<s>>, <<>>)
         \/ \E x : Passes(x, s) /\ kept' = Append(kept, x) /\ decided' = decided
  BY LoopTaken
<1>2. /\ queue \in Seq(QueueType) /\ kept \in Seq(KeptType) /\ phase \in Wheres
      /\ OnePerPair(queue) /\ OnePerPair(kept) /\ PairsIn(queue) \cap PairsIn(kept) = {}
      /\ \A i \in DOMAIN queue : Agrees(queue[i])
      /\ \A i \in DOMAIN kept : Agrees(kept[i])
      /\ \A p \in Pairs : /\ decided[p].state \in {"candidate", "rejected", "error"}
                          /\ decided[p].state = "candidate" => p \in PairsIn(queue) \cup PairsIn(kept)
  BY <1>1 DEF LoopsSound, QueueType, KeptType, Wheres
<1>3. decided \in [Pairs -> DecisionType]
  BY DEF DecidedSound
<1>4. /\ queue' \in Seq(QueueType) /\ OnePerPair(queue')
      /\ \A i \in DOMAIN queue' : i + 1 \in DOMAIN queue /\ queue'[i] = queue[i + 1]
      /\ PairsIn(queue') = PairsIn(queue) \ {s.pair}
  <2> DEFINE r == Tail(queue)
  <2>1. queue \in Seq(QueueType) /\ queue # <<>> /\ OnePerPair(queue)
    BY <1>1, <1>2
  <2> HIDE DEF r
  <2>2. /\ r \in Seq(QueueType) /\ OnePerPair(r)
        /\ \A i \in DOMAIN r : i + 1 \in DOMAIN queue /\ r[i] = queue[i + 1]
        /\ PairsIn(r) = PairsIn(queue) \ {s.pair}
    BY <2>1, TailTaken DEF r
  <2>3. queue' = r
    BY <1>1 DEF r
  <2>4. QED
    BY <2>2, <2>3
<1>5. s \in QueueType /\ 1 \in DOMAIN queue /\ s = queue[1]
  BY <1>1, HeadTyped
<1>6. s.pair \in Pairs /\ s.pair \in PairsIn(queue) /\ Agrees(s)
  BY <1>2, <1>5 DEF PairsIn, QueueType, SignalType, ReleaseType
<1>7. /\ \A i \in DOMAIN queue' : queue'[i].pair \in PairsIn(queue')
      /\ \A i \in DOMAIN kept : kept[i].pair \in PairsIn(kept)
  BY DEF PairsIn
<1>8. /\ \A i \in DOMAIN queue' : queue'[i].pair \in Pairs
      /\ \A i \in DOMAIN kept : kept[i].pair \in Pairs
  <2>1. /\ \A i \in DOMAIN queue' : queue'[i] \in QueueType
        /\ \A i \in DOMAIN kept : kept[i] \in KeptType
    BY <1>2, <1>4
  <2>2. QED
    BY <2>1 DEF QueueType, KeptType, SignalType, ReleaseType
<1> HIDE DEF s
<1>9. CASE kept' = kept /\ decided' = DropAll(phase, <<s>>, <<>>)
  <2>1. ASSUME NEW p \in Pairs
        PROVE  decided'[p] = IF p = s.pair THEN [decided[p] EXCEPT !.state = "rejected", !.stage = phase]
                             ELSE decided[p]
    <3>1. {<<s>>[i].pair : i \in DOMAIN <<s>>} = {s.pair}
      OBVIOUS
    <3>2. {<<>>[i].pair : i \in DOMAIN <<>>} = {}
      OBVIOUS
    <3>3. QED
      BY <1>9, <3>1, <3>2 DEF DropAll
  <2>2. decided'[s.pair] \in DecisionType /\ decided'[s.pair].state = "rejected"
    <3> DEFINE d == decided[s.pair]
    <3>1. d \in DecisionType /\ phase \in Wheres
      BY <1>2, <1>3, <1>6
    <3>2. decided'[s.pair] = [d EXCEPT !.state = "rejected", !.stage = phase]
      BY <1>6, <2>1
    <3> HIDE DEF d
    <3>3. /\ [d EXCEPT !.state = "rejected", !.stage = phase] \in DecisionType
          /\ [d EXCEPT !.state = "rejected", !.stage = phase].state = "rejected"
      BY <3>1, Dropped
    <3>4. QED
      BY <3>2, <3>3
  <2>3. \A p \in Pairs \ {s.pair} : decided'[p] = decided[p]
    BY <2>1
  <2>4. DecidedSound'
    <3>1. decided' = [p \in Pairs |-> decided'[p]]
      BY <1>9 DEF DropAll
    <3>2. \A p \in Pairs : decided'[p] \in DecisionType
      BY <1>3, <2>2, <2>3
    <3>3. QED
      BY <2>2, <2>3, <3>1, <3>2 DEF DecidedSound
  <2>5. \A i \in DOMAIN queue' : Agrees(queue[i])'
    <3> SUFFICES ASSUME NEW i \in DOMAIN queue'
                 PROVE  /\ decided'[queue'[i].pair].state = "candidate"
                        /\ decided'[queue'[i].pair].side = queue'[i].side
                        /\ decided'[queue'[i].pair].at = queue'[i].at
      BY DEF Agrees
    <3>1. decided'[queue'[i].pair] = decided[queue'[i].pair]
      BY <1>4, <1>7, <1>8, <2>3
    <3>2. Agrees(queue'[i])
      BY <1>2, <1>4
    <3>3. QED
      BY <3>1, <3>2 DEF Agrees
  <2>6. \A i \in DOMAIN kept' : Agrees(kept[i])'
    <3> SUFFICES ASSUME NEW i \in DOMAIN kept
                 PROVE  /\ decided'[kept[i].pair].state = "candidate"
                        /\ decided'[kept[i].pair].side = kept[i].side
                        /\ decided'[kept[i].pair].at = kept[i].at
      BY <1>9 DEF Agrees
    <3>1. decided'[kept[i].pair] = decided[kept[i].pair]
      BY <1>2, <1>6, <1>7, <1>8, <2>3
    <3>2. QED
      BY <1>2, <3>1 DEF Agrees
  <2>7. \A p \in Pairs : /\ decided'[p].state \in {"candidate", "rejected", "error"}
                         /\ decided'[p].state = "candidate" =>
                               p \in PairsIn(queue') \cup PairsIn(kept')
    BY <1>2, <1>4, <1>9, <2>2, <2>3
  <2>8. QED
    BY <1>2, <1>4, <1>9, <2>4, <2>5, <2>6, <2>7
<1>10. CASE \E x : Passes(x, s) /\ kept' = Append(kept, x) /\ decided' = decided
  <2>1. PICK x : Passes(x, s) /\ kept' = Append(kept, x) /\ decided' = decided
    BY <1>10
  <2>2. x \in KeptType /\ x.pair = s.pair /\ x.side = s.side /\ x.at = s.at
    BY <2>1 DEF Passes
  <2>3. x.pair \notin PairsIn(kept)
    BY <1>2, <1>6, <2>2
  <2>4. /\ kept' \in Seq(KeptType) /\ OnePerPair(kept') /\ PairsIn(kept') = PairsIn(kept) \cup {x.pair}
        /\ \A i \in DOMAIN kept' : (i \in DOMAIN kept /\ kept'[i] = kept[i]) \/ kept'[i] = x
    <3> DEFINE r == Append(kept, x)
    <3>1. /\ r \in Seq(KeptType) /\ OnePerPair(r)
          /\ \A i \in DOMAIN r : (i \in DOMAIN kept /\ r[i] = kept[i]) \/ r[i] = x
          /\ \A i \in DOMAIN kept : i \in DOMAIN r /\ r[i] = kept[i]
          /\ \E i \in DOMAIN r : r[i] = x
      <4>1. kept \in Seq(KeptType) /\ OnePerPair(kept)
        BY <1>2
      <4>2. x \in KeptType /\ \A i \in DOMAIN kept : kept[i].pair # x.pair
        BY <2>2, <2>3 DEF PairsIn
      <4>3. QED
        BY <4>1, <4>2, Appended
    <3> HIDE DEF r
    <3>2. kept' = r
      BY <2>1 DEF r
    <3>3. PairsIn(r) = PairsIn(kept) \cup {x.pair}
      BY <3>1 DEF PairsIn
    <3>4. QED
      BY <3>1, <3>2, <3>3
  <2>5. DecidedSound'
    BY <2>1 DEF DecidedSound
  <2>6. Agrees(x)
    BY <1>6, <2>2 DEF Agrees
  <2>7. \A i \in DOMAIN queue' : Agrees(queue[i])'
    <3>1. \A i \in DOMAIN queue' : Agrees(queue'[i])
      BY <1>2, <1>4
    <3>2. QED
      BY <2>1, <3>1 DEF Agrees
  <2>8. \A i \in DOMAIN kept' : Agrees(kept[i])'
    <3>1. \A i \in DOMAIN kept' : Agrees(kept'[i])
      BY <1>2, <2>4, <2>6
    <3>2. QED
      BY <2>1, <3>1 DEF Agrees
  <2>9. \A p \in Pairs : p \in PairsIn(queue) \cup PairsIn(kept) =>
                            p \in PairsIn(queue') \cup PairsIn(kept')
    BY <1>4, <2>2, <2>4
  <2>10. PairsIn(queue') \cap PairsIn(kept') = {}
    BY <1>2, <1>4, <2>2, <2>4
  <2>11. PairsIn(queue') \cup PairsIn(kept') \subseteq PairsIn(queue) \cup PairsIn(kept)
    BY <1>4, <1>6, <2>2, <2>4
  <2>12. QED
    BY <1>2, <1>4, <2>1, <2>4, <2>5, <2>7, <2>8, <2>9, <2>10, <2>11
<1>11. QED
  BY <1>1, <1>9, <1>10

\* A registered release is newer than every accepted decision of its pair, and
\* its cooldown reaches past it.
Ahead(x) ==
    /\ x.at < cooldownUntil[x.pair]
    /\ \A d \in AcceptedRows : d.pair = x.pair => d.decision.at < x.at

LEMMA AcceptedTyped ==
    ASSUME FilesKept, NEW d \in AcceptedRows
    PROVE  /\ d \in decisionsFile /\ d \in RowType /\ d.decision.state = "accepted"
           /\ d.step \in Nat /\ d.pair \in Pairs /\ d.decision \in DecisionType /\ d.decision.at \in Nat
<1>1. d \in decisionsFile /\ d \in RowType /\ d.decision.state = "accepted"
  BY AcceptedAmong DEF FilesKept, AcceptedRows
<1>2. QED
  BY <1>1 DEF RowType, DecisionType

\* A release that is registered is ahead, and takes nothing from those before it.
LEMMA RegisteredAhead ==
    ASSUME ReplayInv, RunLoops, PairCooldown > 0
    PROVE  /\ \A x \in Registered' : Ahead(x)'
           /\ \A d \in AcceptedRows : d.decision.at < cooldownUntil'[d.pair]
<1> DEFINE s == Head(queue)
<1>1. /\ stage = "loops" /\ queue # <<>> /\ queue' = Tail(queue) /\ UNCHANGED phase
      /\ cooldownUntil' \in [Pairs -> Nat]
      /\ \/ kept' = kept /\ UNCHANGED cooldownUntil
         \/ \E x : /\ Passes(x, s) /\ kept' = Append(kept, x)
                   /\ IF phase = "release" THEN SetsOff(x) ELSE UNCHANGED cooldownUntil
                   /\ phase = "gate" => x = s
  BY LoopTaken DEF ReplayInv
<1>2. /\ LoopsSound /\ FilesKept /\ PairCooldown \in Nat /\ cooldownUntil \in [Pairs -> Nat]
      /\ AcceptedRows' = AcceptedRows
  BY ReplayAssumption DEF ReplayInv, GateSound, RunLoops, files, AcceptedRows
<1>3. /\ phase \in Loops /\ \A x \in Registered : Ahead(x)
      /\ queue \in Seq(QueueType) /\ kept \in Seq(KeptType)
      /\ OnePerPair(queue) /\ PairsIn(queue) \cap PairsIn(kept) = {}
  BY <1>1, <1>2 DEF LoopsSound, Ahead, Loops, QueueType, KeptType
<1>4. \A d \in AcceptedRows : d.decision.at < cooldownUntil[d.pair]
  BY <1>1, Whole DEF ReplayInv, RunCounted, Running
<1>5. s \in QueueType /\ 1 \in DOMAIN queue /\ s = queue[1]
  BY <1>1, <1>2, HeadTyped
<1>6. \A i \in DOMAIN queue' : i + 1 \in DOMAIN queue /\ queue'[i] = queue[i + 1]
  <2> DEFINE r == Tail(queue)
  <2>1. queue \in Seq(QueueType) /\ queue # <<>> /\ OnePerPair(queue)
    BY <1>1, <1>3
  <2> HIDE DEF r
  <2>2. \A i \in DOMAIN r : i + 1 \in DOMAIN queue /\ r[i] = queue[i + 1]
    BY <2>1, TailTaken DEF r
  <2>3. QED
    BY <1>1, <2>2 DEF r
<1>7. ASSUME NEW x, kept' = Append(kept, x), NEW i \in DOMAIN kept'
      PROVE  (i \in DOMAIN kept /\ kept'[i] = kept[i]) \/ kept'[i] = x
  <2> DEFINE n == Len(kept)
  <2>1. n \in Nat /\ DOMAIN kept = 1..n
    BY <1>3
  <2>2. DOMAIN kept' = 1..(n + 1) /\ kept'[n + 1] = x /\ \A j \in 1..n : kept'[j] = kept[j]
    BY <1>3, <1>7
  <2> HIDE DEF n
  <2>3. i \in 1..n \/ i = n + 1
    BY <2>1, <2>2
  <2>4. QED
    BY <2>1, <2>2, <2>3
<1> HIDE DEF s
<1>8. CASE phase \in {"currency", "portfolio"}
  <2>1. Registered' = {} /\ UNCHANGED cooldownUntil
    BY <1>1, <1>8 DEF Registered
  <2>2. QED
    BY <1>2, <1>4, <2>1
<1>9. CASE phase = "gate"
  <2>1. Registered = {queue[i] : i \in DOMAIN queue} \cup {kept[i] : i \in DOMAIN kept}
    BY <1>9 DEF Registered
  <2>2. Registered' = {queue'[i] : i \in DOMAIN queue'} \cup {kept'[i] : i \in DOMAIN kept'}
    BY <1>1, <1>9 DEF Registered
  <2>3. UNCHANGED cooldownUntil
    BY <1>1, <1>9
  <2>4. \A i \in DOMAIN queue' : queue'[i] \in Registered
    BY <1>6, <2>1
  <2>5. \A i \in DOMAIN kept' : kept'[i] \in Registered
    BY <1>1, <1>5, <1>7, <1>9, <2>1
  <2>6. Registered' \subseteq Registered
    BY <2>2, <2>4, <2>5
  <2>7. QED
    BY <1>2, <1>3, <1>4, <2>3, <2>6 DEF Ahead
<1>10. CASE phase = "release"
  <2>1. Registered = {kept[i] : i \in DOMAIN kept} /\ Registered' = {kept'[i] : i \in DOMAIN kept'}
    BY <1>1, <1>10 DEF Registered
  <2>2. CASE kept' = kept /\ UNCHANGED cooldownUntil
    BY <1>2, <1>3, <1>4, <2>1, <2>2 DEF Ahead
  <2>3. CASE \E x : Passes(x, s) /\ kept' = Append(kept, x) /\ SetsOff(x)
    <3>1. PICK x : Passes(x, s) /\ kept' = Append(kept, x) /\ SetsOff(x)
      BY <2>3
    <3>2. x.pair = s.pair /\ x.pair \in Pairs /\ x.at \in Nat
      <4>1. x \in ReleaseType /\ x.pair = s.pair
        BY <1>10, <3>1 DEF Passes, KeptType
      <4>2. QED
        BY <4>1 DEF ReleaseType
    <3>3. /\ ~(x.at < cooldownUntil[x.pair])
          /\ cooldownUntil' = [cooldownUntil EXCEPT ![x.pair] = x.at + PairCooldown]
      BY <3>1 DEF SetsOff
    <3>4. /\ cooldownUntil'[x.pair] = x.at + PairCooldown /\ cooldownUntil[x.pair] \in Nat
          /\ \A p \in Pairs \ {x.pair} : cooldownUntil'[p] = cooldownUntil[p]
      BY <1>2, <3>2, <3>3
    <3>5. \A i \in DOMAIN kept : kept[i].pair \in Pairs /\ kept[i].pair # x.pair
      <4>1. \A i \in DOMAIN kept : kept[i] \in ReleaseType
        BY <1>3, <1>10 DEF KeptType
      <4>2. x.pair \in PairsIn(queue)
        BY <1>5, <3>2 DEF PairsIn
      <4>3. \A i \in DOMAIN kept : kept[i].pair \in PairsIn(kept)
        BY DEF PairsIn
      <4>4. QED
        BY <1>3, <4>1, <4>2, <4>3 DEF ReleaseType
    <3>6. ASSUME NEW d \in AcceptedRows, d.pair = x.pair PROVE d.decision.at < x.at
      <4>1. d.decision.at \in Nat /\ d.decision.at < cooldownUntil[x.pair]
        BY <1>2, <1>4, <3>6, AcceptedTyped
      <4>2. QED
        BY <3>2, <3>3, <3>4, <4>1
    <3>7. x.at < cooldownUntil'[x.pair]
      BY <1>2, <3>2, <3>4
    <3>8. ASSUME NEW d \in AcceptedRows PROVE d.decision.at < cooldownUntil'[d.pair]
      <4>1. d.decision.at \in Nat /\ d.pair \in Pairs
        BY <1>2, AcceptedTyped
      <4>2. CASE d.pair = x.pair
        BY <1>2, <3>2, <3>4, <3>6, <4>1, <4>2
      <4>3. CASE d.pair # x.pair
        BY <1>4, <3>4, <4>1, <4>3
      <4>4. QED
        BY <4>2, <4>3
    <3>9. ASSUME NEW i \in DOMAIN kept' PROVE Ahead(kept[i])'
      <4> SUFFICES /\ kept'[i].at < cooldownUntil'[kept'[i].pair]
                   /\ \A d \in AcceptedRows : d.pair = kept'[i].pair => d.decision.at < kept'[i].at
        BY <1>2 DEF Ahead
      <4>1. CASE i \in DOMAIN kept /\ kept'[i] = kept[i]
        <5>1. Ahead(kept[i])
          BY <1>3, <2>1, <4>1
        <5>2. QED
          BY <3>4, <3>5, <4>1, <5>1 DEF Ahead
      <4>2. CASE kept'[i] = x
        BY <3>6, <3>7, <4>2
      <4>3. QED
        BY <1>7, <3>1, <4>1, <4>2
    <3>10. \A y \in Registered' : Ahead(y)'
      <4>1. \A i \in DOMAIN kept' : /\ kept'[i].at < cooldownUntil'[kept'[i].pair]
                                    /\ \A d \in AcceptedRows : d.pair = kept'[i].pair => d.decision.at < kept'[i].at
        BY <1>2, <3>9 DEF Ahead
      <4>2. QED
        BY <1>2, <2>1, <4>1 DEF Ahead
    <3>11. QED
      BY <3>8, <3>10
  <2>4. QED
    BY <1>1, <1>10, <2>2, <2>3
<1>11. QED
  BY <1>3, <1>8, <1>9, <1>10 DEF Loops

LEMMA KeepsRunLoops == ASSUME ReplayInv, RunLoops PROVE ReplayInv'
<1> USE DEF world, files
<1>1. /\ stage = "loops" /\ stage' = "loops" /\ UNCHANGED <<now, phase>>
      /\ cooldownUntil' \in [Pairs -> Nat] /\ serial' \in Nat
      /\ UNCHANGED <<runs, gaps, live, request, steps, step, candidates, accesses, report, files>>
  BY LoopTaken DEF ReplayInv, RunLoops
<1>2. /\ StepsSound' /\ FilesKept' /\ JournalKept' /\ ParityKept' /\ ReportedTrue' /\ JournalSound'
      /\ Covered' = Covered /\ Running /\ Running'
  BY <1>1, StepsFrame, CycleFrame DEF ReplayInv, Covered, Running
<1>3. GateSound' /\ EvaluateSound'
  BY <1>1 DEF ReplayInv, GateSound, EvaluateSound
<1>4. Complete' = Complete /\ AcceptedAll' = AcceptedAll /\ \A t, p : RowsAt(t, p)' = RowsAt(t, p)
  BY <1>1, RowsFrame
<1>5. RunCounted'
  <2>1. PairCooldown > 0 => \A d \in AcceptedAll : d.decision.at < cooldownUntil'[d.pair]
    BY <1>1, Whole, RegisteredAhead
  <2>2. QED
    BY <1>1, <1>2, <1>4, <2>1 DEF ReplayInv, RunCounted
<1>6. /\ DecidedSound'
      /\ queue' \in Seq(QueueType) /\ kept' \in Seq(KeptType)
      /\ OnePerPair(queue') /\ OnePerPair(kept')
      /\ PairsIn(queue') \cap PairsIn(kept') = {}
      /\ PairsIn(queue') \cup PairsIn(kept') \subseteq PairsIn(queue) \cup PairsIn(kept)
      /\ \A i \in DOMAIN queue' : Agrees(queue[i])'
      /\ \A i \in DOMAIN kept' : Agrees(kept[i])'
      /\ \A p \in Pairs : /\ decided'[p].state \in {"candidate", "rejected", "error"}
                          /\ decided'[p].state = "candidate" =>
                                p \in PairsIn(queue') \cup PairsIn(kept')
  BY LoopKeepsCandidates DEF ReplayInv
<1>7. LoopsSound'
  <2>1. phase \in Loops /\ Uncorrelated(PairsIn(queue) \cup PairsIn(kept))
    BY <1>1 DEF ReplayInv, LoopsSound, Loops
  <2>2. /\ (OnePerPair(queue))' /\ (OnePerPair(kept))'
        /\ (PairsIn(queue))' = PairsIn(queue') /\ (PairsIn(kept))' = PairsIn(kept')
    BY <1>6 DEF OnePerPair, PairsIn
  <2>3. (Uncorrelated(PairsIn(queue) \cup PairsIn(kept)))'
    BY <1>6, <2>1, <2>2 DEF Uncorrelated
  <2>4. PairCooldown > 0 => \A x \in Registered' : Ahead(x)'
    BY RegisteredAhead
  <2>5. QED
    BY <1>1, <1>6, <2>1, <2>2, <2>3, <2>4 DEF LoopsSound, QueueType, KeptType, Loops, Ahead
<1>8. QED
  BY <1>2, <1>3, <1>5, <1>6, <1>7 DEF ReplayInv

LEMMA KeepsNextLoop == ASSUME ReplayInv, NextLoop PROVE ReplayInv'
<1> USE DEF world, files
<1>1. /\ stage = "loops" /\ stage' = "loops" /\ queue = <<>> /\ queue' = kept /\ kept' = <<>>
      /\ \/ phase = "currency" /\ phase' = "portfolio"
         \/ phase = "portfolio" /\ phase' = "release"
         \/ phase = "release" /\ phase' = "gate"
      /\ UNCHANGED <<runs, gaps, live, request, steps, step, candidates, decided, accesses, report, files,
                     now, cooldownUntil, serial>>
  BY DEF NextLoop, Gate!NextLoop, Gate!releaseVars, scanned
<1>2. StepsSound' /\ FilesKept' /\ JournalKept' /\ ParityKept' /\ ReportedTrue' /\ JournalSound'
  BY <1>1, StepsFrame, CycleFrame DEF ReplayInv
<1>3. GateSound' /\ EvaluateSound' /\ DecidedSound' /\ RunCounted'
  BY <1>1, CountedFrame DEF ReplayInv, GateSound, EvaluateSound, DecidedSound
<1>4. LoopsSound'
  <2>1. LoopsSound
    BY DEF ReplayInv
  <2>2. Registered' \subseteq Registered
    BY <1>1 DEF Registered
  <2>3. AcceptedRows' = AcceptedRows /\ PairsIn(queue)' = PairsIn(kept) /\ PairsIn(kept)' = {}
    BY <1>1 DEF AcceptedRows, PairsIn
  <2>4. PairsIn(queue) = {} /\ OnePerPair(queue)' /\ OnePerPair(kept)'
    BY <1>1, <2>1 DEF PairsIn, LoopsSound, OnePerPair
  <2>6. (Uncorrelated(PairsIn(queue) \cup PairsIn(kept)))'
    BY <1>1, <2>1, <2>3, <2>4 DEF LoopsSound, Uncorrelated
  <2>7. PairCooldown > 0 => \A x \in Registered' :
           /\ x.at < cooldownUntil'[x.pair]
           /\ \A d \in AcceptedRows' : d.pair = x.pair => d.decision.at < x.at
    BY <1>1, <2>1, <2>2, <2>3 DEF LoopsSound
  <2>8. /\ queue' \in Seq(IF phase' = "gate" THEN ReleaseType ELSE SignalType)
        /\ kept' \in Seq(IF phase' \in {"release", "gate"} THEN ReleaseType ELSE SignalType)
    BY <1>1, <2>1 DEF LoopsSound
  <2>9. /\ \A i \in DOMAIN queue' : Agrees(queue[i])'
        /\ \A i \in DOMAIN kept' : Agrees(kept[i])'
    <3>1. \A i \in DOMAIN queue' : Agrees(queue'[i])
      BY <1>1, <2>1 DEF LoopsSound
    <3>2. QED
      BY <1>1, <3>1 DEF Agrees
  <2>10. \A p \in Pairs : /\ decided'[p].state \in {"candidate", "rejected", "error"}
                          /\ decided'[p].state = "candidate" => p \in PairsIn(kept)
    BY <1>1, <2>1, <2>4 DEF LoopsSound
  <2>11. QED
    BY <1>1, <2>3, <2>4, <2>6, <2>7, <2>8, <2>9, <2>10 DEF LoopsSound
<1>5. QED
  BY <1>2, <1>3, <1>4 DEF ReplayInv

-----------------------------------------------------------------------------
(* The files of a run.                                                     *)

\* As many rows as there are different keys.
LEMMA SameNumber ==
    ASSUME NEW S, IsFiniteSet(S), NEW f, \A x, y \in S : f[x] = f[y] => x = y
    PROVE  IsFiniteSet({f[x] : x \in S}) /\ Cardinality({f[x] : x \in S}) = Cardinality(S)
<1> DEFINE T == {f[x] : x \in S}
           g == [x \in S |-> f[x]]
<1>1. g \in Bijection(S, T)
  BY DEF Bijection, Injection, Surjection, IsInjective
<1> HIDE DEF T, g
<1>2. IsFiniteSet(T) /\ Cardinality(T) = Cardinality(S)
  BY <1>1, FS_Bijection DEF ExistsBijection
<1>3. QED
  BY <1>2 DEF T

LEMMA RowsCounted ==
    ASSUME FilesKept
    PROVE  Cardinality({RowOf(d) : d \in AcceptedRows}) = Cardinality(AcceptedRows)
<1> DEFINE f == [d \in AcceptedRows |-> RowOf(d)]
<1>1. IsFiniteSet(AcceptedRows)
  BY AcceptedAmong, FS_Subset DEF FilesKept, AcceptedRows
<1>2. \A d, e \in AcceptedRows : f[d] = f[e] => d = e
  BY AcceptedAmong DEF FilesKept, AcceptedRows, RowOf
<1>3. {RowOf(d) : d \in AcceptedRows} = {f[d] : d \in AcceptedRows}
  OBVIOUS
<1> HIDE DEF f
<1>4. Cardinality({f[d] : d \in AcceptedRows}) = Cardinality(AcceptedRows)
  BY <1>1, <1>2, SameNumber
<1>5. QED
  BY <1>3, <1>4

\* The rows of earlier steps are in the file, and their signals in the journal,
\* before the first row of the next one.
LEMMA EarlierWritten ==
    ASSUME ReplayInv, stage = "decisions", NEW d \in Complete, NEW e \in Complete, d.step < e.step
    PROVE  /\ \A p \in Pairs : \E f \in decisionsFile : f.step = d.step /\ f.pair = p
           /\ d.decision.state = "accepted" => RowOf(d) \in deliveries
<1>1. Running /\ Covered = step
  BY DEF Running, Covered
<1>2. /\ steps \in Seq(Nat) /\ step \in 0..Len(steps) /\ step > 0 /\ now = steps[step]
      /\ \A i, j \in DOMAIN steps : i < j => steps[i] < steps[j]
  BY DEF ReplayInv, StepsSound
<1>3. /\ \A f \in Complete : \E i \in 1..step : f.step = steps[i]
      /\ \A i \in 1..step, p \in Pairs : RowsAt(steps[i], p) # {}
  BY <1>1 DEF ReplayInv, RunCounted
<1>4. PICK i \in 1..step : d.step = steps[i]
  BY <1>3
<1>5. PICK j \in 1..step : e.step = steps[j]
  BY <1>3
<1>6. d.step # now
  <2>1. /\ i \in DOMAIN steps /\ j \in DOMAIN steps /\ step \in DOMAIN steps
        /\ steps[i] \in Nat /\ steps[j] \in Nat /\ steps[step] \in Nat
    BY <1>2
  <2>2. steps[j] <= steps[step]
    BY <1>2, <2>1
  <2>3. QED
    BY <1>2, <1>4, <1>5, <2>1, <2>2
<1>7. ASSUME NEW p \in Pairs PROVE \E f \in decisionsFile : f.step = d.step /\ f.pair = p
  <2>1. PICK f \in Complete : f.step = d.step /\ f.pair = p
    BY <1>3, <1>4 DEF RowsAt
  <2>2. f \notin Pending
    BY <1>6, <2>1 DEF Pending
  <2>3. QED
    BY <2>1, <2>2 DEF Complete
<1>8. ASSUME d.decision.state = "accepted" PROVE RowOf(d) \in deliveries
  <2>1. d \in AcceptedAll
    BY <1>8 DEF AcceptedAll
  <2>2. /\ {RowOf(f) : f \in AcceptedAll} = deliveries \cup {candidates[k] : k \in DOMAIN candidates}
        /\ \A k \in DOMAIN candidates : candidates[k].step = now
    BY DEF ReplayInv, JournalSound
  <2>3. RowOf(d).step # now
    BY <1>6 DEF RowOf
  <2>4. QED
    BY <2>1, <2>2, <2>3
<1>9. QED
  BY <1>7, <1>8

LEMMA NextUnwritten ==
    ASSUME Unwritten # {}
    PROVE  /\ PairOrder[Min(Unwritten)] \in Pairs
           /\ decided[PairOrder[Min(Unwritten)]] # NoDecision
<1>1. Unwritten \subseteq Int /\ IsFiniteSet(Unwritten)
  BY PairsListedOnce, FS_Subset DEF Unwritten
<1>2. Min(Unwritten) \in Unwritten
  BY <1>1, MinIs
<1>3. QED
  BY <1>2, PairsListedOnce DEF Unwritten

LEMMA KeepsAppendDecision == ASSUME ReplayInv, AppendDecision PROVE ReplayInv'
<1>1. /\ stage = "decisions" /\ Unwritten # {}
      /\ stage' = IF decided' = NoneDecided THEN "journal" ELSE "decisions"
      /\ UNCHANGED <<gaps, live, request, steps, step, candidates, report, journalFile, deliveries,
                     parityFile, reportFile, torn, now, cooldownUntil, serial>>
  BY DEF AppendDecision, world, gateVars, loopVars
<1>2. PICK p : p = PairOrder[Min(Unwritten)]
  OBVIOUS
<1>3. p \in Pairs /\ decided[p] # NoDecision
  BY <1>1, <1>2, NextUnwritten
<1> DEFINE row == [step |-> now, pair |-> p, decision |-> decided[p]]
<1>4. decisionsFile' = decisionsFile \cup {row} /\ decided' = [decided EXCEPT ![p] = NoDecision]
  BY <1>2 DEF AppendDecision
<1>5. decided \in [Pairs -> DecisionType] /\ NoDecision \in DecisionType
  BY DEF ReplayInv, DecidedSound, NoDecision, DecisionType, States, Wheres
<1>6. decided'[p] = NoDecision /\ \A q \in Pairs \ {p} : decided'[q] = decided[q]
  BY <1>3, <1>4, <1>5
<1>7. Complete' = Complete
  <2>1. row \in Pending
    BY <1>1, <1>3 DEF Pending
  <2>2. CASE stage' = "decisions"
    <3>1. Pending' = {[step |-> now, pair |-> q, decision |-> decided'[q]] : q \in {q \in Pairs : decided'[q] # NoDecision}}
      BY <1>1, <2>2 DEF Pending
    <3>2. Pending = {[step |-> now, pair |-> q, decision |-> decided[q]] : q \in {q \in Pairs : decided[q] # NoDecision}}
      BY <1>1 DEF Pending
    <3>3. {q \in Pairs : decided'[q] # NoDecision} = {q \in Pairs : decided[q] # NoDecision} \ {p}
      BY <1>3, <1>6
    <3>4. Pending = Pending' \cup {row}
      BY <1>3, <1>6, <3>1, <3>2, <3>3
    <3>5. QED
      BY <1>4, <3>4 DEF Complete
  <2>3. CASE stage' # "decisions"
    <3>1. Pending' = {} /\ decided' = NoneDecided
      BY <1>1, <2>3 DEF Pending
    <3>2. \A q \in Pairs \ {p} : decided[q] = NoDecision
      BY <1>6, <3>1 DEF NoneDecided
    <3>3. Pending = {row}
      BY <1>1, <1>3, <3>2 DEF Pending
    <3>4. QED
      BY <1>4, <3>1, <3>3 DEF Complete
  <2>4. QED
    BY <2>2, <2>3
<1>8. AcceptedAll' = AcceptedAll /\ \A t, q : RowsAt(t, q)' = RowsAt(t, q)
  BY <1>7, SameRows
<1>9. Running /\ Running' /\ Covered' = Covered /\ stage' \in {"decisions", "journal"}
  BY <1>1 DEF Running, Covered
<1>10. StepsSound'
  BY <1>1, <1>9, StepsFrame DEF ReplayInv
<1>11. GateSound'
  BY <1>1 DEF ReplayInv, GateSound
<1>12. FilesKept'
  BY <1>7, <1>8 DEF ReplayInv, FilesKept
<1>13. JournalKept'
  <2>1. decisionsFile \subseteq decisionsFile' /\ decisionsFile' \subseteq Complete
    BY <1>4, <1>7, AcceptedAmong DEF Complete
  <2>2. AcceptedRows \subseteq AcceptedRows'
    BY <2>1 DEF AcceptedRows
  <2>3. NothingLeftOver'
    <3>1. journalFile \subseteq {RowOf(d) : d \in AcceptedRows} /\ torn = {}
      BY <1>9 DEF ReplayInv, JournalKept, NothingLeftOver
    <3>2. QED
      BY <1>1, <2>2, <3>1 DEF NothingLeftOver
  <2>4. ASSUME NEW d \in decisionsFile', NEW e \in decisionsFile', d.step < e.step
        PROVE  /\ \A q \in Pairs : DecisionsAt(d.step, q)' # {}
               /\ d \in AcceptedRows' => RowOf(d) \in deliveries
    <3>1. d \in Complete /\ e \in Complete
      BY <2>1
    <3>2. /\ \A q \in Pairs : \E f \in decisionsFile : f.step = d.step /\ f.pair = q
          /\ d.decision.state = "accepted" => RowOf(d) \in deliveries
      BY <1>1, <2>4, <3>1, EarlierWritten
    <3>3. QED
      BY <2>1, <3>2 DEF DecisionsAt, AcceptedRows
  <2>5. EarlierStepsWhole'
    BY <1>1, <2>4 DEF ReplayInv, JournalKept, EarlierStepsWhole
  <2>6. QED
    BY <1>1, <2>3, <2>5 DEF ReplayInv, JournalKept
<1>14. RunCounted'
  BY <1>1, <1>7, <1>8, <1>9 DEF ReplayInv, RunCounted
<1>15. JournalSound'
  BY <1>1, <1>8, <1>9 DEF ReplayInv, JournalSound
<1>16. ParityKept' /\ ReportedTrue'
  BY <1>1, <1>9 DEF ReplayInv, ParityKept, RunCounted, ReportedTrue
<1>17. DecidedSound'
  <2>1. decided' \in [Pairs -> DecisionType]
    BY <1>4, <1>5
  <2>2. QED
    BY <1>6, <2>1 DEF ReplayInv, DecidedSound
<1>18. EvaluateSound' /\ LoopsSound'
  BY <1>9 DEF EvaluateSound, LoopsSound
<1>19. QED
  BY <1>10, <1>11, <1>12, <1>13, <1>14, <1>15, <1>16, <1>17, <1>18 DEF ReplayInv

LEMMA KeepsAppendJournalSignal == ASSUME ReplayInv, AppendJournalSignal PROVE ReplayInv'
<1> USE DEF world, scanned, gateVars, loopVars
<1>1. /\ stage = "journal" /\ stage' = "delivery" /\ candidates # <<>>
      /\ journalFile' = journalFile \cup {Head(candidates)}
      /\ UNCHANGED <<gaps, live, request, steps, step, candidates, decided, report, decisionsFile, deliveries,
                     parityFile, reportFile, torn, now, cooldownUntil, serial>>
  BY DEF AppendJournalSignal
<1>2. Running /\ Running' /\ Covered' = Covered
  BY <1>1 DEF Running, Covered
<1>3. Complete' = Complete /\ AcceptedAll' = AcceptedAll /\ \A t, p : RowsAt(t, p)' = RowsAt(t, p)
  BY <1>1, RowsFrame
<1>4. /\ candidates \in Seq(EntryType) /\ AcceptedAll = AcceptedRows
      /\ {RowOf(d) : d \in AcceptedAll} = deliveries \cup {candidates[i] : i \in DOMAIN candidates}
  BY <1>1, Whole DEF ReplayInv, JournalSound
<1>5. Head(candidates) = candidates[1] /\ 1 \in DOMAIN candidates
  BY <1>1, <1>4
<1>6. deliveries = journalFile /\ journalFile' \subseteq {RowOf(d) : d \in AcceptedRows}
  BY <1>1, <1>2, <1>4, <1>5 DEF ReplayInv, RunCounted
<1>7. AcceptedRows' = AcceptedRows /\ \A t, p : DecisionsAt(t, p)' = DecisionsAt(t, p)
  BY <1>1, SameFile
<1>8. JournalKept'
  <2>1. IsFiniteSet(journalFile')
    BY <1>1, FS_AddElement DEF ReplayInv, JournalKept
  <2>2. ASSUME PairCooldown > 0, NEW j \in journalFile', NEW k \in journalFile', j.pair = k.pair, j.at = k.at
        PROVE  j = k
    <3>1. PICK d \in AcceptedRows, e \in AcceptedRows : j = RowOf(d) /\ k = RowOf(e)
      BY <1>6
    <3>2. d.pair = e.pair /\ d.decision.at = e.decision.at
      BY <2>2, <3>1 DEF RowOf
    <3>3. d = e
      BY <1>4, <2>2, <3>2 DEF ReplayInv, FilesKept
    <3>4. QED
      BY <3>1, <3>3
  <2>3. EarlierStepsWhole'
    BY <1>1, <1>6, <1>7 DEF ReplayInv, JournalKept, EarlierStepsWhole
  <2>4. NothingLeftOver'
    BY <1>1, <1>2, <1>6, <1>7 DEF ReplayInv, JournalKept, NothingLeftOver
  <2>5. QED
    BY <1>1, <2>1, <2>2, <2>3, <2>4 DEF ReplayInv, JournalKept
<1>9. StepsSound' /\ FilesKept' /\ GateSound' /\ DecidedSound'
  BY <1>1, StepsFrame, FilesFrame DEF ReplayInv, GateSound, DecidedSound
<1>10. RunCounted'
  BY <1>1, <1>2, <1>3, <1>6 DEF ReplayInv, RunCounted
<1>11. JournalSound'
  BY <1>1, <1>3 DEF ReplayInv, JournalSound
<1>12. ParityKept' /\ ReportedTrue' /\ EvaluateSound' /\ LoopsSound'
  BY <1>1, <1>2 DEF ReplayInv, ParityKept, RunCounted, ReportedTrue, EvaluateSound, LoopsSound
<1>13. QED
  BY <1>8, <1>9, <1>10, <1>11, <1>12 DEF ReplayInv

LEMMA KeepsAppendDelivery == ASSUME ReplayInv, AppendDelivery PROVE ReplayInv'
<1> USE DEF world, gateVars, loopVars
<1>1. /\ stage = "delivery" /\ stage' = "journal"
      /\ deliveries' = deliveries \cup {Head(candidates)} /\ candidates' = Tail(candidates)
      /\ report' = [report EXCEPT !.signals = @ + 1]
      /\ UNCHANGED <<gaps, live, request, steps, step, decided, decisionsFile, journalFile,
                     parityFile, reportFile, torn, now, cooldownUntil, serial>>
  BY DEF AppendDelivery
<1> DEFINE h == Head(candidates)
           n == Len(candidates)
<1>2. /\ candidates \in Seq(EntryType) /\ candidates # <<>>
      /\ \A i, j \in DOMAIN candidates : candidates[i] = candidates[j] => i = j
      /\ \A i \in DOMAIN candidates : candidates[i] \notin deliveries /\ candidates[i].step = now
      /\ {RowOf(d) : d \in AcceptedAll} = deliveries \cup {candidates[i] : i \in DOMAIN candidates}
  BY <1>1 DEF ReplayInv, JournalSound
<1>3. /\ n \in Nat \ {0} /\ DOMAIN candidates = 1..n /\ h = candidates[1]
      /\ candidates' \in Seq(EntryType) /\ DOMAIN candidates' = 1..(n - 1)
      /\ \A i \in 1..(n - 1) : candidates'[i] = candidates[i + 1]
  BY <1>1, <1>2
<1>4. Running /\ Running' /\ Covered' = Covered
  BY <1>1 DEF Running, Covered
<1>5. journalFile = deliveries \cup {h}
  BY <1>1, <1>4 DEF ReplayInv, RunCounted
<1> HIDE DEF h, n
<1>6. Complete' = Complete /\ AcceptedAll' = AcceptedAll /\ \A t, p : RowsAt(t, p)' = RowsAt(t, p)
  BY <1>1, RowsFrame
<1>7. AcceptedRows' = AcceptedRows /\ \A t, p : DecisionsAt(t, p)' = DecisionsAt(t, p)
  BY <1>1, SameFile
<1>8. /\ \A i \in 1..(n - 1) : i + 1 \in 1..n /\ i + 1 # 1
      /\ \A i \in 1..n : i = 1 \/ (i - 1 \in 1..(n - 1) /\ (i - 1) + 1 = i)
      /\ 1 \in 1..n
  BY <1>3
<1>9. h \notin deliveries
  BY <1>2, <1>3, <1>8
<1>10. deliveries' = deliveries \cup {h} /\ deliveries' = journalFile'
  BY <1>1, <1>5 DEF h
<1>11. JournalSound'
  <2>1. \A i, j \in DOMAIN candidates' : candidates'[i] = candidates'[j] => i = j
    <3> SUFFICES ASSUME NEW i \in 1..(n - 1), NEW j \in 1..(n - 1), candidates'[i] = candidates'[j]
                 PROVE  i = j
      BY <1>3
    <3>1. i + 1 \in 1..n /\ j + 1 \in 1..n /\ candidates[i + 1] = candidates[j + 1]
      BY <1>3, <1>8
    <3>2. i + 1 = j + 1
      BY <1>2, <1>3, <3>1
    <3>3. QED
      BY <3>2
  <2>2. \A i \in DOMAIN candidates' : candidates'[i] \notin deliveries' /\ candidates'[i].step = now
    BY <1>2, <1>3, <1>8, <1>10
  <2>3. {candidates[i] : i \in DOMAIN candidates} = {h} \cup {candidates'[i] : i \in DOMAIN candidates'}
    <3>1. \A i \in DOMAIN candidates' : \E j \in DOMAIN candidates : candidates'[i] = candidates[j]
      BY <1>3, <1>8
    <3>2. \A i \in DOMAIN candidates : candidates[i] = h \/ \E j \in DOMAIN candidates' : candidates[i] = candidates'[j]
      BY <1>3, <1>8
    <3>3. \E i \in DOMAIN candidates : candidates[i] = h
      BY <1>3, <1>8
    <3>4. QED
      BY <3>1, <3>2, <3>3
  <2>4. {RowOf(d) : d \in AcceptedAll} = deliveries' \cup {candidates'[i] : i \in DOMAIN candidates'}
    BY <1>2, <1>10, <2>3
  <2>5. QED
    BY <1>1, <1>3, <1>6, <2>1, <2>2, <2>4 DEF JournalSound
<1>12. JournalKept'
  <2>1. EarlierStepsWhole'
    BY <1>1, <1>7, <1>10 DEF ReplayInv, JournalKept, EarlierStepsWhole
  <2>2. NothingLeftOver'
    BY <1>1, <1>4, <1>7 DEF ReplayInv, JournalKept, NothingLeftOver
  <2>3. QED
    BY <1>1, <1>10, <2>1, <2>2 DEF ReplayInv, JournalKept
<1>13. RunCounted'
  <2>1. IsFiniteSet(deliveries)
    BY FS_Subset DEF ReplayInv, JournalKept
  <2>2. Cardinality(deliveries') = Cardinality(deliveries) + 1
    BY <1>9, <1>10, <2>1, FS_AddElement
  <2>3. report \in ReportType /\ report.signals = Cardinality(deliveries)
    BY <1>4 DEF ReplayInv, RunCounted
  <2>4. /\ report' \in ReportType /\ report'.signals = report.signals + 1
        /\ report'.decisions = report.decisions
    BY <1>1, <2>3 DEF ReportType
  <2>5. QED
    BY <1>1, <1>4, <1>6, <1>10, <2>2, <2>3, <2>4 DEF ReplayInv, RunCounted
<1>14. StepsSound' /\ FilesKept' /\ GateSound' /\ DecidedSound'
  BY <1>1, StepsFrame, FilesFrame DEF ReplayInv, GateSound, DecidedSound
<1>15. ParityKept' /\ ReportedTrue' /\ EvaluateSound' /\ LoopsSound'
  BY <1>1, <1>4 DEF ReplayInv, ParityKept, RunCounted, ReportedTrue, EvaluateSound, LoopsSound
<1>16. QED
  BY <1>11, <1>12, <1>13, <1>14, <1>15 DEF ReplayInv

LEMMA KeepsWriteParity == ASSUME ReplayInv, WriteParity PROVE ReplayInv'
<1> USE DEF world, scanned, gateVars, loopVars
<1>1. /\ CycleDone /\ step = Len(steps) /\ stage' = "report"
      /\ parityFile' = IF live = {} THEN parityFile ELSE <<[status |-> Parity, missing |-> Missing]>>
      /\ UNCHANGED <<gaps, live, request, steps, step, candidates, decided, report, decisionsFile, journalFile,
                     deliveries, reportFile, torn, now, cooldownUntil, serial>>
  BY DEF WriteParity
<1>2. /\ stage \in {"run", "journal"} /\ Running /\ Covered = step
      /\ deliveries = journalFile /\ {RowOf(d) : d \in AcceptedRows} = journalFile
  BY <1>1, WrittenUp DEF CycleDone
<1>3. Running' /\ Covered' = Covered
  BY <1>1, <1>2 DEF Running, Covered
<1>4. Complete' = Complete /\ AcceptedAll' = AcceptedAll /\ \A t, p : RowsAt(t, p)' = RowsAt(t, p)
  BY <1>1, <1>2, RowsFrame
<1>5. AcceptedAll = AcceptedRows /\ \A t, p : RowsAt(t, p) = DecisionsAt(t, p)
  BY <1>2, Whole
<1>6. StepsSound'
  <2>1. StepsOf(request)' <=> StepsOf(request)
    BY <1>1, StepsOfSame
  <2>2. stage # "idle"
    BY <1>2
  <2>3. QED
    BY <1>1, <2>1, <2>2 DEF ReplayInv, StepsSound, Stages
<1>7. FilesKept' /\ JournalKept' /\ GateSound' /\ DecidedSound'
  BY <1>1, <1>2, <1>3, FilesFrame, JournalKeptFrame DEF ReplayInv, GateSound, DecidedSound
<1>8. RunCounted'
  BY <1>1, <1>2, <1>3, <1>4, <1>5 DEF ReplayInv, RunCounted
<1>9. ParityKept'
  <2> DEFINE p == [status |-> Parity, missing |-> Missing]
  <2>1. CASE live = {}
    BY <1>1, <2>1 DEF ReplayInv, ParityKept
  <2>2. CASE live # {}
    <3>1. parityFile' = <<p>>
      BY <1>1, <2>2
    <3>2. p.status = "matched" => LiveKeys = ReplayKeys
      BY DEF Parity
    <3>3. ASSUME request.source # "trigger", Len(steps) < request.maxSteps, NEW c \in Missing,
                 c.pair \in Pairs, Within(request, c.observed), HasWarmup(c.observed)
          PROVE  FALSE
      <4>1. c \in live /\ Classification(c) = "missing_replay_decision"
        BY DEF Missing
      <4>2. c.observed \in Wanted(request)
        BY <3>3, <4>1 DEF Wanted, LiveSteps
      <4>3. PICK i \in DOMAIN steps : steps[i] = c.observed
        BY <1>2, <3>3, <4>2 DEF ReplayInv, StepsSound, StepsOf
      <4>4. i \in 1..Covered
        BY <1>1, <1>2 DEF ReplayInv, StepsSound
      <4>5. DecisionsAt(c.observed, c.pair) # {}
        BY <1>2, <1>5, <3>3, <4>3, <4>4 DEF ReplayInv, RunCounted
      <4>6. QED
        BY <4>1, <4>5 DEF Classification
    <3>4. Answers(p, request, Len(steps))
      BY <3>3 DEF Answers
    <3> HIDE DEF p
    <3>5. parityFile' # <<>> /\ parityFile'[1] = p /\ parityFile' = <<parityFile'[1]>>
      BY <3>1
    <3>6. Answers(parityFile[1], request, Len(steps))'
      BY <1>1, <3>4, <3>5, WarmupSame DEF Answers, Within
    <3>7. LiveKeys' = LiveKeys /\ ReplayKeys' = ReplayKeys
      BY <1>1 DEF LiveKeys, ReplayKeys
    <3>8. QED
      BY <1>1, <3>2, <3>5, <3>6, <3>7, Zenon DEF ParityKept
  <2>3. QED
    BY <2>1, <2>2
<1>10. ReportedTrue' /\ EvaluateSound' /\ LoopsSound' /\ JournalSound'
  BY <1>1, <1>2 DEF ReplayInv, RunCounted, ReportedTrue, EvaluateSound, LoopsSound, JournalSound
<1>11. QED
  BY <1>6, <1>7, <1>8, <1>9, <1>10 DEF ReplayInv

LEMMA KeepsFinishRun == ASSUME ReplayInv, FinishRun PROVE ReplayInv'
<1> DEFINE final == [request |-> request, steps |-> Len(steps), decisions |-> report.decisions,
                     signals |-> report.signals, guard |-> report.guard,
                     parity |-> IF live = {} THEN "off" ELSE parityFile[1].status]
<1>1. /\ stage = "report" /\ stage' = "idle" /\ ForgetAll /\ reportFile' = <<final>>
      /\ UNCHANGED <<gaps, live, request, decisionsFile, journalFile, deliveries, parityFile, torn>>
  BY DEF FinishRun, ForgetAll, world
<1>2. /\ StepsSound' /\ GateSound' /\ DecidedSound' /\ RunCounted'
      /\ EvaluateSound' /\ LoopsSound' /\ JournalSound'
  BY <1>1, Forgotten
<1>3. /\ Running /\ Covered = step
      /\ deliveries = journalFile /\ {RowOf(d) : d \in AcceptedRows} = journalFile
  BY <1>1, WrittenUp
<1>4. FilesKept'
  BY <1>1, FewerRows DEF ReplayInv
<1>5. AcceptedRows' = AcceptedRows /\ \A t, p : DecisionsAt(t, p)' = DecisionsAt(t, p)
  BY <1>1, SameFile
<1>6. ~Running'
  BY <1>1 DEF Running
<1>7. JournalKept'
  <2>1. EarlierStepsWhole' /\ NothingLeftOver'
    BY <1>1, <1>3, <1>5, <1>6 DEF ReplayInv, JournalKept, EarlierStepsWhole, NothingLeftOver
  <2>2. QED
    BY <1>1, <2>1 DEF ReplayInv, JournalKept
<1>8. ParityKept'
  BY <1>1 DEF ReplayInv, ParityKept
<1>9. ReportedTrue'
  <2>1. /\ final.decisions = report.decisions /\ final.signals = report.signals
        /\ final.request = request /\ final.steps = Len(steps)
        /\ final.parity = IF live = {} THEN "off" ELSE parityFile[1].status
    OBVIOUS
  <2> HIDE DEF final
  <2>2. reportFile'[1] = final /\ reportFile' = <<reportFile'[1]>>
    BY <1>1
  <2>3. torn = {}
    BY <1>3 DEF ReplayInv, JournalKept, NothingLeftOver
  <2>4. live # {} => /\ parityFile # <<>> /\ parityFile[1].status = final.parity
                     /\ Answers(parityFile[1], request, Len(steps))
                     /\ final.parity = "matched" => LiveKeys = ReplayKeys
    BY <1>1, <2>1 DEF ReplayInv, ParityKept
  <2>5. final.parity = "matched" => LiveKeys = ReplayKeys
    BY <2>1, <2>4
  <2>6. final.decisions = Cardinality(decisionsFile) /\ final.signals = Cardinality(journalFile)
    BY <1>1, <1>3, <2>1, Whole DEF ReplayInv, RunCounted
  <2>7. Cardinality(journalFile) = Cardinality(AcceptedRows)
    BY <1>3, RowsCounted DEF ReplayInv
  <2>8. ASSUME NEW d \in decisionsFile, NEW p \in Pairs PROVE DecisionsAt(d.step, p) # {}
    <3>1. PICK i \in 1..Covered : d.step = steps[i]
      BY <1>3, AcceptedAmong DEF ReplayInv, RunCounted
    <3>2. RowsAt(steps[i], p) # {}
      BY <1>3 DEF ReplayInv, RunCounted
    <3>3. QED
      BY <1>1, <3>1, <3>2, Whole
  <2>9. CountsFiles(final)
    BY <1>3, <2>5, <2>6, <2>7, <2>8 DEF CountsFiles
  <2>10. LiveKeys' = LiveKeys /\ ReplayKeys' = ReplayKeys
    BY <1>1 DEF LiveKeys, ReplayKeys
  <2>11. CountsFiles(reportFile[1])'
    BY <1>1, <1>5, <2>2, <2>9, <2>10 DEF CountsFiles
  <2>12. live # {} => Answers(parityFile[1], reportFile[1].request, reportFile[1].steps)'
    BY <1>1, <2>1, <2>2, <2>4, WarmupSame DEF Answers, Within
  <2>13. QED
    BY <1>1, <2>2, <2>3, <2>4, <2>11, <2>12 DEF ReportedTrue
<1>10. QED
  BY <1>2, <1>4, <1>7, <1>8, <1>9 DEF ReplayInv

LEMMA AcceptedDecision ==
    ASSUME NEW d \in DecisionType
    PROVE  /\ Accepted(d) \in DecisionType /\ Accepted(d).state = "accepted"
           /\ Accepted(d).side = d.side /\ Accepted(d).at = d.at
BY DEF Accepted, DecisionType, States, Wheres

\* The rows a cycle adds: one for each pair, of a step that has none yet; the
\* accepted ones are those of the releases.
LEMMA CycleRows ==
    ASSUME ReplayInv, ReturnCycle,
           NEW row, row = [p \in Pairs |-> [step |-> now, pair |-> p, decision |-> FinalDecision(p)]]
    PROVE  /\ Complete' = decisionsFile \cup {row[p] : p \in Pairs}
           /\ decided' \in [Pairs -> DecisionType] /\ \A p \in Pairs : decided'[p].state # "none"
           /\ \A p \in Pairs : /\ row[p] \in RowType /\ row[p].step = now /\ row[p].pair = p
                               /\ row[p].decision.state \in {"accepted", "rejected", "error"}
                               /\ row[p].decision.state = "accepted" <=> p \in PairsIn(kept)
           /\ \A i \in DOMAIN kept :
                 /\ kept[i].pair \in Pairs /\ RowOf(row[kept[i].pair]) = ReplaySignal(kept[i])
                 /\ row[kept[i].pair].decision.at = kept[i].at
                 /\ PairCooldown > 0 => Ahead(kept[i])
           /\ \A d \in decisionsFile : d.step # now
<1>1. /\ stage = "loops" /\ queue = <<>> /\ phase \in {"gate", "release"} /\ stage' = "decisions"
      /\ decided' = [p \in Pairs |-> FinalDecision(p)] /\ UNCHANGED <<decisionsFile, now>>
  BY DEF ReturnCycle, Gate!ReturnSignals, files
<1>2. /\ kept \in Seq(ReleaseType) /\ PairsIn(queue) = {}
      /\ \A i \in DOMAIN kept : Agrees(kept[i])
      /\ \A p \in Pairs : /\ decided[p].state \in {"candidate", "rejected", "error"}
                          /\ decided[p].state = "candidate" => p \in PairsIn(kept)
  BY <1>1 DEF ReplayInv, LoopsSound, PairsIn
<1>3. decided \in [Pairs -> DecisionType]
  BY DEF ReplayInv, DecidedSound
<1>4. Released = PairsIn(kept)
  BY DEF Released, PairsIn
<1>5. /\ now = steps[step] /\ step > 0 /\ steps \in Seq(Nat) /\ step \in 0..Len(steps)
      /\ \A i, j \in DOMAIN steps : i < j => steps[i] < steps[j]
  BY <1>1 DEF ReplayInv, StepsSound
<1>6. now \in Nat /\ step \in DOMAIN steps
  BY <1>5
<1>7. ASSUME NEW d \in decisionsFile PROVE d.step # now
  <2>1. PICK i \in 1..Covered : d.step = steps[i]
    BY <1>1, AcceptedAmong DEF ReplayInv, RunCounted, Running
  <2>2. Covered = step - 1
    BY <1>1 DEF Covered
  <2>3. i \in DOMAIN steps /\ i < step
    BY <1>5, <2>1, <2>2
  <2>4. steps[i] < steps[step] /\ steps[i] \in Nat
    BY <1>5, <1>6, <2>3
  <2>5. QED
    BY <1>5, <2>1, <2>4
<1>8. ASSUME NEW p \in Pairs
      PROVE  /\ row[p] \in RowType /\ row[p].step = now /\ row[p].pair = p
             /\ row[p].decision = FinalDecision(p)
             /\ row[p].decision.state \in {"accepted", "rejected", "error"}
             /\ row[p].decision.state = "accepted" <=> p \in PairsIn(kept)
  <2>1. row[p] = [step |-> now, pair |-> p, decision |-> FinalDecision(p)]
    OBVIOUS
  <2>2. decided[p] \in DecisionType
    BY <1>3
  <2>3. /\ FinalDecision(p) \in DecisionType
        /\ FinalDecision(p).state \in {"accepted", "rejected", "error"}
        /\ FinalDecision(p).state = "accepted" <=> p \in PairsIn(kept)
    <3>1. CASE p \in Released
      BY <1>4, <2>2, <3>1, AcceptedDecision DEF FinalDecision
    <3>2. CASE p \notin Released
      BY <1>2, <1>4, <2>2, <3>2 DEF FinalDecision
    <3>3. QED
      BY <3>1, <3>2
  <2>4. QED
    BY <1>6, <2>1, <2>3 DEF RowType
<1>9. ASSUME NEW i \in DOMAIN kept
      PROVE  /\ kept[i].pair \in Pairs /\ RowOf(row[kept[i].pair]) = ReplaySignal(kept[i])
             /\ row[kept[i].pair].decision.at = kept[i].at
             /\ PairCooldown > 0 => Ahead(kept[i])
  <2>1. kept[i] \in ReleaseType /\ Agrees(kept[i])
    BY <1>2
  <2>2. kept[i].pair \in Pairs /\ kept[i].pair \in Released
    BY <2>1 DEF Released, ReleaseType
  <2>3. /\ row[kept[i].pair].step = now /\ row[kept[i].pair].pair = kept[i].pair
        /\ row[kept[i].pair].decision = Accepted(decided[kept[i].pair])
    BY <1>8, <2>2 DEF FinalDecision
  <2>4. /\ Accepted(decided[kept[i].pair]).side = kept[i].side
        /\ Accepted(decided[kept[i].pair]).at = kept[i].at
    BY <1>3, <2>1, <2>2, AcceptedDecision DEF Agrees
  <2>5. PairCooldown > 0 => Ahead(kept[i])
    <3>1. kept[i] \in Registered
      BY <1>1 DEF Registered
    <3>2. QED
      BY <1>1, <3>1 DEF ReplayInv, LoopsSound, Ahead
  <2>6. QED
    BY <2>2, <2>3, <2>4, <2>5 DEF RowOf, ReplaySignal
<1>10. decided' \in [Pairs -> DecisionType] /\ \A p \in Pairs : decided'[p].state # "none"
  <2>1. \A p \in Pairs : decided'[p] = row[p].decision
    BY <1>1, <1>8
  <2>2. \A p \in Pairs : row[p].decision \in DecisionType
    BY <1>8 DEF RowType
  <2>3. QED
    BY <1>1, <1>8, <2>1, <2>2
<1>11. Complete' = decisionsFile \cup {row[p] : p \in Pairs}
  <2>1. {q \in Pairs : decided'[q] # NoDecision} = Pairs
    BY <1>10 DEF NoDecision
  <2>2. Pending' = {[step |-> now, pair |-> p, decision |-> decided'[p]] : p \in {q \in Pairs : decided'[q] # NoDecision}}
    BY <1>1 DEF Pending
  <2>3. \A p \in Pairs : row[p] = [step |-> now, pair |-> p, decision |-> decided'[p]]
    BY <1>1
  <2>4. Pending' = {row[p] : p \in Pairs}
    <3>1. Pending' = {[step |-> now, pair |-> p, decision |-> decided'[p]] : p \in Pairs}
      BY <2>1, <2>2
    <3> DEFINE r(p) == [step |-> now, pair |-> p, decision |-> decided'[p]]
    <3>2. /\ Pending' = {r(p) : p \in Pairs}
          /\ \A p \in Pairs : row[p] = r(p)
      BY <2>3, <3>1
    <3> HIDE DEF r
    <3>3. ASSUME NEW d \in Pending' PROVE d \in {row[p] : p \in Pairs}
      <4>1. PICK p \in Pairs : d = r(p)
        BY <3>2, <3>3
      <4>2. QED
        BY <3>2, <4>1
    <3>4. ASSUME NEW d \in {row[p] : p \in Pairs} PROVE d \in Pending'
      <4>1. PICK p \in Pairs : d = row[p]
        BY <3>4
      <4>2. QED
        BY <3>2, <4>1
    <3>5. QED
      BY <3>3, <3>4
  <2>5. QED
    BY <1>1, <2>4 DEF Complete
<1>12. QED
  BY <1>7, <1>8, <1>9, <1>10, <1>11

LEMMA KeepsReturnCycle == ASSUME ReplayInv, ReturnCycle PROVE ReplayInv'
<1>1. /\ stage = "loops" /\ stage' = "decisions" /\ queue = <<>>
      /\ candidates' = [i \in DOMAIN kept |-> ReplaySignal(kept[i])]
      /\ report' = [report EXCEPT !.guard = @ /\ FutureLeaks(accesses) = {},
                                  !.decisions = @ + Cardinality(Pairs)]
      /\ UNCHANGED <<gaps, live, request, steps, step, decisionsFile, journalFile, deliveries,
                     parityFile, reportFile, torn, now, cooldownUntil, serial>>
  BY DEF ReturnCycle, files, Gate!ReturnSignals, Gate!releaseVars, world
<1>2. PICK row : row = [p \in Pairs |-> [step |-> now, pair |-> p, decision |-> FinalDecision(p)]]
  OBVIOUS
<1> DEFINE New == {row[p] : p \in Pairs}
           Won == {row[p] : p \in PairsIn(kept)}
<1>3. /\ Complete' = Complete \cup New
      /\ decided' \in [Pairs -> DecisionType] /\ \A p \in Pairs : decided'[p].state # "none"
      /\ \A p \in Pairs : /\ row[p] \in RowType /\ row[p].step = now /\ row[p].pair = p
                          /\ row[p].decision.state \in {"accepted", "rejected", "error"}
                          /\ row[p].decision.state = "accepted" <=> p \in PairsIn(kept)
      /\ \A i \in DOMAIN kept :
            /\ kept[i].pair \in Pairs /\ RowOf(row[kept[i].pair]) = ReplaySignal(kept[i])
            /\ row[kept[i].pair].decision.at = kept[i].at
            /\ PairCooldown > 0 => Ahead(kept[i])
      /\ \A d \in Complete : d.step # now
  BY <1>1, <1>2, CycleRows, Whole
<1>4. /\ kept \in Seq(ReleaseType) \cup Seq(SignalType) /\ OnePerPair(kept)
      /\ Uncorrelated(PairsIn(kept))
  BY <1>1 DEF ReplayInv, LoopsSound, Uncorrelated
<1>5. /\ FilesKept /\ RunCounted /\ Running /\ Running' /\ Complete = decisionsFile /\ AcceptedAll = AcceptedRows
      /\ deliveries = journalFile /\ {RowOf(d) : d \in AcceptedAll} = deliveries
  <2>1. Running /\ Running' /\ AcceptedAll = AcceptedRows /\ Complete = decisionsFile
    BY <1>1, Whole DEF Running
  <2>2. QED
    BY <1>1, <2>1 DEF ReplayInv, RunCounted, JournalKept, NothingLeftOver
<1>6. PairsIn(kept) \subseteq Pairs
  BY <1>3 DEF PairsIn
<1>7. AcceptedAll' = AcceptedAll \cup Won
  <2>1. \A d \in New : d.decision.state = "accepted" <=> d \in Won
    <3> SUFFICES ASSUME NEW p \in Pairs PROVE row[p].decision.state = "accepted" <=> row[p] \in Won
      OBVIOUS
    <3>1. ASSUME row[p] \in Won PROVE p \in PairsIn(kept)
      <4>1. PICK q \in PairsIn(kept) : row[p] = row[q]
        BY <3>1
      <4>2. p = q
        BY <1>3, <1>6, <4>1
      <4>3. QED
        BY <4>2
    <3>2. QED
      BY <1>3, <3>1
  <2>2. Won \subseteq New
    BY <1>6
  <2> HIDE DEF New, Won
  <2>3. QED
    BY <1>3, <2>1, <2>2 DEF AcceptedAll
<1>8. IsFiniteSet(New) /\ Cardinality(New) = Cardinality(Pairs) /\ Cardinality(Pairs) \in Nat
  <2>1. \A p, q \in Pairs : row[p] = row[q] => p = q
    BY <1>3
  <2>2. IsFiniteSet(Pairs)
    BY PairsListedOnce
  <2>3. QED
    BY <2>1, <2>2, SameNumber, FS_CardinalityType
<1>9. New \cap Complete = {}
  BY <1>3
<1>10. \A d \in New : d \in RowType /\ d.step = now /\ d.decision.state \in {"accepted", "rejected", "error"}
  BY <1>3
<1>11. \A d, e \in New : d.pair = e.pair => d = e
  BY <1>3
<1>12. \A p \in Pairs : \E d \in New : d.pair = p /\ d.step = now
  BY <1>3
<1>13. \A d \in Won : \E i \in DOMAIN kept : /\ d.pair = kept[i].pair /\ d.decision.at = kept[i].at
                                             /\ RowOf(d) = ReplaySignal(kept[i])
  <2> SUFFICES ASSUME NEW p \in PairsIn(kept)
               PROVE  \E i \in DOMAIN kept : /\ row[p].pair = kept[i].pair /\ row[p].decision.at = kept[i].at
                                             /\ RowOf(row[p]) = ReplaySignal(kept[i])
    OBVIOUS
  <2>1. PICK i \in DOMAIN kept : p = kept[i].pair
    BY DEF PairsIn
  <2>2. QED
    BY <1>3, <2>1
<1>14. \A i \in DOMAIN kept : \E d \in Won : RowOf(d) = ReplaySignal(kept[i])
  BY <1>3 DEF PairsIn
<1>15. Won \subseteq New /\ \A d \in Won : d.pair \in PairsIn(kept)
  BY <1>3, <1>6
<1> HIDE DEF New, Won
<1>16. FilesKept'
  <2>1. Complete' \subseteq RowType /\ IsFiniteSet(Complete')
    BY <1>3, <1>5, <1>8, <1>10, FS_Union DEF FilesKept
  <2>2. \A d \in Complete' : d.decision.state \in {"accepted", "rejected", "error"}
    BY <1>3, <1>5, <1>10 DEF FilesKept
  <2>3. \A d, e \in Complete' : d.step = e.step /\ d.pair = e.pair => d = e
    BY <1>3, <1>5, <1>10, <1>11 DEF FilesKept
  <2>5. ASSUME NEW d \in AcceptedAll \cup Won, NEW e \in AcceptedAll \cup Won,
               d.step = e.step, d.pair # e.pair
        PROVE  ~Correlated(d.pair, e.pair)
    <3>1. AcceptedAll \subseteq Complete
      BY DEF AcceptedAll
    <3>2. (d \in AcceptedAll /\ e \in AcceptedAll) \/ (d \in Won /\ e \in Won)
      BY <1>3, <1>10, <1>15, <2>5, <3>1
    <3>3. QED
      BY <1>4, <1>5, <1>15, <2>5, <3>2 DEF FilesKept, Uncorrelated
  <2>6. ASSUME PairCooldown > 0, NEW d \in AcceptedAll \cup Won, NEW e \in AcceptedAll \cup Won,
               d.pair = e.pair, d.decision.at = e.decision.at
        PROVE  d = e
    <3>1. ASSUME NEW b \in AcceptedAll, NEW c \in Won, b.pair = c.pair PROVE b.decision.at # c.decision.at
      <4>1. PICK i \in DOMAIN kept : c.pair = kept[i].pair /\ c.decision.at = kept[i].at
        BY <1>13
      <4>2. b.decision.at < kept[i].at /\ b.decision.at \in Nat
        BY <1>3, <1>5, <2>6, <3>1, <4>1, AcceptedTyped DEF Ahead
      <4>3. QED
        BY <4>1, <4>2
    <3>2. (d \in AcceptedAll /\ e \in AcceptedAll) \/ (d \in Won /\ e \in Won)
      BY <2>6, <3>1
    <3>3. QED
      BY <1>5, <1>11, <1>15, <2>6, <3>2 DEF FilesKept
  <2>7. QED
    BY <1>7, <2>1, <2>2, <2>3, <2>5, <2>6 DEF FilesKept
<1>17. RunCounted'
  <2>1. report \in ReportType /\ reportFile = <<>> /\ report.decisions = Cardinality(Complete)
        /\ report.signals = Cardinality(deliveries)
    BY <1>1, <1>5 DEF RunCounted
  <2>2. /\ report' \in ReportType /\ report'.signals = report.signals
        /\ report'.decisions = report.decisions + Cardinality(Pairs)
    <3> DEFINE b == report.guard /\ FutureLeaks(accesses) = {}
               c == report.decisions + Cardinality(Pairs)
    <3>1. report' = [report EXCEPT !.guard = b, !.decisions = c]
      BY <1>1
    <3>2. report.decisions \in Nat
      BY <2>1 DEF ReportType
    <3>3. c \in Nat
      BY <1>8, <3>2
    <3>4. b \in BOOLEAN
      OBVIOUS
    <3> HIDE DEF b, c
    <3>5. report' \in ReportType /\ report'.signals = report.signals /\ report'.decisions = c
      BY <2>1, <3>1, <3>3, <3>4 DEF ReportType
    <3>6. QED
      BY <3>5 DEF c
  <2>3. Cardinality(Complete') = Cardinality(Complete) + Cardinality(Pairs)
    <3>1. IsFiniteSet(Complete) /\ Cardinality(Complete) \in Nat
      BY <1>5, FS_CardinalityType DEF FilesKept
    <3>2. Cardinality(Complete \cup New) =
             Cardinality(Complete) + Cardinality(New) - Cardinality(Complete \cap New)
      BY <1>8, <3>1, FS_Union
    <3>3. Cardinality(Complete \cap New) = 0
      <4>1. Complete \cap New = {}
        BY <1>9
      <4>2. QED
        BY <4>1, FS_EmptySet
    <3>4. Cardinality(Complete') = Cardinality(Complete \cup New)
      BY <1>3
    <3>5. QED
      BY <1>8, <3>1, <3>2, <3>3, <3>4
  <2>4. /\ Covered = step - 1 /\ Covered' = step /\ now = steps[step] /\ step \in Nat \ {0}
    BY <1>1 DEF Covered, ReplayInv, StepsSound
  <2>5. \A d \in Complete' : \E i \in 1..step : d.step = steps[i]
    <3>1. \A d \in Complete : \E i \in 1..(step - 1) : d.step = steps[i]
      BY <1>1, <1>5, <2>4 DEF RunCounted
    <3>2. 1..(step - 1) \subseteq 1..step /\ step \in 1..step
      BY <2>4
    <3>3. QED
      BY <1>3, <1>10, <2>4, <3>1, <3>2
  <2>6. ASSUME NEW i \in 1..step, NEW p \in Pairs PROVE RowsAt(steps[i], p)' # {}
    <3>1. CASE i = step
      <4>1. PICK d \in New : d.pair = p /\ d.step = now
        BY <1>12
      <4>2. QED
        BY <1>1, <1>3, <2>4, <3>1, <4>1 DEF RowsAt
    <3>2. CASE i # step
      <4>1. i \in 1..Covered
        BY <2>4, <3>2
      <4>2. RowsAt(steps[i], p) # {}
        BY <1>1, <1>5, <4>1 DEF RunCounted
      <4>3. QED
        BY <1>1, <1>3, <4>2 DEF RowsAt
    <3>3. QED
      BY <3>1, <3>2
  <2>7. PairCooldown > 0 => \A d \in AcceptedAll \cup Won : d.decision.at < cooldownUntil[d.pair]
    <3>1. PairCooldown > 0 => \A d \in AcceptedAll : d.decision.at < cooldownUntil[d.pair]
      BY <1>1, <1>5 DEF RunCounted
    <3>2. PairCooldown > 0 => \A d \in Won : d.decision.at < cooldownUntil[d.pair]
      BY <1>3, <1>13 DEF Ahead
    <3>3. QED
      BY <3>1, <3>2
  <2>8. QED
    BY <1>1, <1>5, <1>7, <2>1, <2>2, <2>3, <2>4, <2>5, <2>6, <2>7 DEF RunCounted
<1>18. JournalSound'
  <2>1. /\ DOMAIN candidates' = DOMAIN kept
        /\ \A i \in DOMAIN kept : candidates'[i] = ReplaySignal(kept[i])
    BY <1>1
  <2>2. \A d \in Won : RowOf(d) \in EntryType
    BY <1>10, <1>15 DEF RowOf, RowType, DecisionType, EntryType
  <2>3. candidates' \in Seq(EntryType)
    <3>1. \A i \in DOMAIN kept : candidates'[i] \in EntryType
      BY <1>14, <2>1, <2>2
    <3>2. Len(kept) \in Nat /\ DOMAIN kept = 1..Len(kept)
      BY <1>4
    <3>3. QED
      BY <1>1, <2>1, <3>1, <3>2
  <2>4. \A i, j \in DOMAIN candidates' : candidates'[i] = candidates'[j] => i = j
    BY <1>4, <2>1 DEF ReplaySignal, OnePerPair
  <2>5. ASSUME NEW i \in DOMAIN candidates'
        PROVE  candidates'[i] \notin deliveries /\ candidates'[i].step = now
    <3>1. candidates'[i].step = now
      BY <2>1 DEF ReplaySignal
    <3>2. \A d \in AcceptedAll : RowOf(d).step # now
      BY <1>3 DEF AcceptedAll, RowOf
    <3>3. QED
      BY <1>5, <3>1, <3>2
  <2>6. {RowOf(d) : d \in AcceptedAll \cup Won} =
           deliveries \cup {candidates'[i] : i \in DOMAIN candidates'}
    <3>1. \A i \in DOMAIN candidates' : \E d \in Won : RowOf(d) = candidates'[i]
      BY <1>14, <2>1
    <3>2. \A d \in Won : \E i \in DOMAIN candidates' : RowOf(d) = candidates'[i]
      BY <1>13, <2>1
    <3>3. QED
      BY <1>5, <3>1, <3>2
  <2>7. QED
    BY <1>1, <1>7, <2>3, <2>4, <2>5, <2>6 DEF JournalSound
<1>19. StepsSound' /\ GateSound' /\ EvaluateSound' /\ LoopsSound'
  BY <1>1, StepsFrame DEF ReplayInv, GateSound, EvaluateSound, LoopsSound
<1>20. JournalKept' /\ ParityKept' /\ ReportedTrue'
  BY <1>1, <1>5, JournalKeptFrame, ParityFrame DEF ReplayInv, RunCounted, ReportedTrue
<1>21. DecidedSound'
  BY <1>3 DEF DecidedSound
<1>22. QED
  BY <1>16, <1>17, <1>18, <1>19, <1>20, <1>21 DEF ReplayInv

-----------------------------------------------------------------------------
(* The invariant holds of every replay, and what the runs check follows    *)
(* from it.                                                                *)

\* Whatever the requests, and whenever the process is killed or run again, the
\* files, the report and the cycle fit together.
THEOREM ReplayAlwaysInv == ReplaySpec => []ReplayInv
<1>1. ReplayInit => ReplayInv
  BY ReplayBegins
<1>2. ReplayInv /\ [ReplayNext]_replayVars => ReplayInv'
  <2> SUFFICES ASSUME ReplayInv, [ReplayNext]_replayVars PROVE ReplayInv'
    OBVIOUS
  <2>1. ASSUME NEW r \in Requests, StartRun(r) PROVE ReplayInv'
    BY <2>1, KeepsStartRun
  <2>2. CASE FailToLoad
    BY <2>2, KeepsStuttering DEF FailToLoad
  <2>3. CASE RemoveOutput
    BY <2>3, KeepsRemoveOutput
  <2>4. CASE OutputsRemoved
    BY <2>4, KeepsOutputsRemoved
  <2>5. CASE Kill
    BY <2>5, KeepsKill
  <2>6. CASE ScanCycle
    BY <2>6, KeepsScanCycle
  <2>7. CASE Evaluate
    BY <2>7, KeepsEvaluate
  <2>8. CASE FilterCorrelated
    BY <2>8, KeepsFilterCorrelated
  <2>9. CASE RunLoops
    BY <2>9, KeepsRunLoops
  <2>10. CASE NextLoop
    BY <2>10, KeepsNextLoop
  <2>11. CASE ReturnCycle
    BY <2>11, KeepsReturnCycle
  <2>12. CASE AppendDecision
    BY <2>12, KeepsAppendDecision
  <2>13. CASE AppendJournalSignal
    BY <2>13, KeepsAppendJournalSignal
  <2>14. CASE AppendDelivery
    BY <2>14, KeepsAppendDelivery
  <2>15. CASE WriteParity
    BY <2>15, KeepsWriteParity
  <2>16. CASE FinishRun
    BY <2>16, KeepsFinishRun
  <2>17. CASE UNCHANGED replayVars
    BY <2>17, KeepsStuttering DEF replayVars
  <2>18. QED
    BY <2>1, <2>2, <2>3, <2>4, <2>5, <2>6, <2>7, <2>8, <2>9, <2>10, <2>11, <2>12,
       <2>13, <2>14, <2>15, <2>16, <2>17 DEF ReplayNext
<1>3. QED
  BY <1>1, <1>2, PTL DEF ReplaySpec

\* Wherever the process is killed, among the rows it writes or the files it
\* removes: only the last step of a decisions file may lack rows, no journal row
\* beside it lacks its accepted decision, and a report counts exactly the whole
\* files beside it.
THEOREM FilesAlwaysSound == ReplaySpec => []FilesSound
<1>1. ReplayInv => FilesSound
  <2> SUFFICES ASSUME ReplayInv PROVE FilesSound
    OBVIOUS
  <2>1. /\ reportFile # <<>> => reportFile = <<reportFile[1]>> /\ Len(<<reportFile[1]>>) = 1
        /\ parityFile # <<>> => parityFile = <<parityFile[1]>> /\ Len(<<parityFile[1]>>) = 1
    BY DEF ReplayInv, ReportedTrue, ParityKept
  <2>2. Len(reportFile) <= 1 /\ Len(parityFile) <= 1
    <3>1. reportFile = <<>> \/ Len(reportFile) = 1
      BY <2>1
    <3>2. parityFile = <<>> \/ Len(parityFile) = 1
      BY <2>1
    <3>3. QED
      BY <3>1, <3>2
  <2>3. \A d \in decisionsFile : d.decision.state \in {"accepted", "rejected", "error"}
    BY AcceptedAmong DEF ReplayInv, FilesKept
  <2>4. ReplayTypeOK
    BY <2>2, <2>3 DEF ReplayInv, StepsSound, Stages, JournalKept, ReplayTypeOK
  <2>5. LiveKeys = ReplayKeys => \A c \in live : Classification(c) = "exact_match"
    BY DEF Classification, LiveKeys
  <2>6. ReportTrue
    BY <2>5 DEF ReplayInv, ReportedTrue, CountsFiles, ReportTrue
  <2>7. QED
    BY <2>4, <2>6 DEF ReplayInv, JournalKept, FilesSound
<1>2. QED
  BY <1>1, ReplayAlwaysInv, PTL

\* No cycle accepts two signals of pairs that correlate.
THEOREM CorrelatedAlwaysOnce == ReplaySpec => []CorrelatedOnce
<1>1. ReplayInv => CorrelatedOnce
  BY AcceptedAmong DEF ReplayInv, FilesKept, CorrelatedOnce
<1>2. QED
  BY <1>1, ReplayAlwaysInv, PTL

\* While the pair cooldown is on, a trigger candle that the replay visits more
\* than once has its signal in the journal once.
THEOREM SignalAlwaysOnce ==
    ASSUME PairCooldown > 0 PROVE ReplaySpec => []SignalOnce
<1>1. ReplayInv => SignalOnce
  BY DEF ReplayInv, JournalKept, SignalOnce
<1>2. QED
  BY <1>1, ReplayAlwaysInv, PTL

\* Unless there were too many steps, the report compares every live candidate in
\* the requested time with a decision.
THEOREM LiveStepsAlwaysCovered == ReplaySpec => []LiveStepsCovered
<1>1. ReplayInv => LiveStepsCovered
  BY DEF ReplayInv, ReportedTrue, Answers, LiveStepsCovered
<1>2. QED
  BY <1>1, ReplayAlwaysInv, PTL
=============================================================================
