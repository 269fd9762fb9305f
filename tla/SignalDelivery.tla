--------------------------- MODULE SignalDelivery ---------------------------
(***************************************************************************)
(* The live loop of main.py from the signals of one scan to the chat:      *)
(* journal the candidates, send each with retries and in-memory            *)
(* de-duplication (services/telegram.py, utils/dedup.py), journal the      *)
(* outcome (services/forward_journal.py).  The journal file and the chat   *)
(* survive a crash, everything else is lost.  A signal is its fingerprint; *)
(* a cycle id is never reused.                                             *)
(***************************************************************************)
EXTENDS Naturals, Sequences, FiniteSets

CONSTANTS
    Fingerprints,      \* what TradeSignal.fingerprint can yield
    TelegramChoices,   \* the values telegram_enabled may have
    SendRetries,       \* attempts of _send_message_with_retry
    DedupCache,        \* max_cache of SignalDeduplicator
    MaxCycles, MaxBatch   \* bounds of the model

ASSUME DeliveryAssumption ==
    /\ TelegramChoices \subseteq BOOLEAN
    /\ SendRetries \in Nat \ {0}
    /\ DedupCache \in Nat /\ MaxBatch \in Nat

VARIABLES
    pc,          \* where the loop is
    telegram,    \* whether this process has a Telegram service
    cycle,       \* id of the latest cycle
    toRecord,    \* signals whose candidate row is still to be written
    toSend,      \* signals whose delivery is still to be attempted
    attempts,    \* failed attempts for the head of toSend
    delivered,   \* the answer of send_signal for the head of toSend
    remembered,  \* _queue of the deduplicator, oldest first
    rows,        \* the forward journal file
    chat,        \* messages that reached the chat
    answered     \* fingerprints remembered since the process started (history)

volatile == <<toRecord, toSend, attempts, delivered, remembered, answered>>
vars == <<pc, telegram, cycle, volatile, rows, chat>>

Points == {"idle", "record", "send", "log", "down"}
Message == [cycle : Nat, fp : Fingerprints]
CandidateRow(c, s) == [type |-> "candidate", cycle |-> c, fp |-> s, delivered |-> FALSE]
DeliveryRow(c, s, d) == [type |-> "delivery", cycle |-> c, fp |-> s, delivered |-> d]
Row == [type : {"candidate", "delivery"}, cycle : Nat, fp : Fingerprints, delivered : BOOLEAN]

Elements(seq) == {seq[i] : i \in DOMAIN seq}

-----------------------------------------------------------------------------
Init ==
    /\ pc = "idle" /\ telegram \in TelegramChoices /\ cycle = 0
    /\ toRecord = <<>> /\ toSend = <<>> /\ attempts = 0 /\ delivered = FALSE
    /\ remembered = <<>> /\ answered = <<>>
    /\ rows = <<>> /\ chat = <<>>

\* The signals of one scan are for different pairs, so their fingerprints
\* differ.  A scan blocked by feed safe mode yields none.
Batches ==
    UNION {{b \in [1..n -> Fingerprints] :
              \A i, j \in 1..n : i # j => b[i] # b[j]} : n \in 0..MaxBatch}

StartCycle(b) ==
    /\ pc = "idle" /\ cycle < MaxCycles
    /\ cycle' = cycle + 1
    /\ toRecord' = b /\ toSend' = b
    /\ pc' = "record"
    /\ UNCHANGED <<telegram, attempts, delivered, remembered, answered, rows, chat>>

\* Every candidate of the cycle is journalled before the first message.
RecordCandidate ==
    /\ pc = "record" /\ toRecord # <<>>
    /\ rows' = Append(rows, CandidateRow(cycle, Head(toRecord)))
    /\ toRecord' = Tail(toRecord)
    /\ UNCHANGED <<pc, telegram, cycle, toSend, attempts, delivered, remembered,
                   answered, chat>>

StartSending ==
    /\ pc = "record" /\ toRecord = <<>>
    /\ pc' = "send"
    /\ UNCHANGED <<telegram, cycle, volatile, rows, chat>>

Seen(s) == s \in Elements(remembered)

\* Variant: the answer of the previous signal is kept.
SkipSendKeepingAnswer ==
    /\ pc = "send" /\ toSend # <<>>
    /\ ~telegram \/ Seen(Head(toSend))
    /\ pc' = "log"
    /\ UNCHANGED <<telegram, cycle, volatile, rows, chat>>

\* send_signal answers without sending: no service, or a remembered signal.
SkipSend ==
    /\ pc = "send" /\ toSend # <<>>
    /\ ~telegram \/ Seen(Head(toSend))
    /\ delivered' = FALSE /\ pc' = "log"
    /\ UNCHANGED <<telegram, cycle, toRecord, toSend, attempts, remembered,
                   answered, rows, chat>>

\* Variant: evicts one entry too many.
RememberTooFew(s) ==
    IF Seen(s) THEN remembered
    ELSE LET all == Append(remembered, s)
         IN  IF Len(all) >= DedupCache THEN Tail(all) ELSE all

\* SignalDeduplicator.remember: the oldest entries leave when there are more
\* than max_cache.
Remember(s) ==
    IF Seen(s) THEN remembered
    ELSE LET all == Append(remembered, s)
         IN  IF Len(all) > DedupCache THEN Tail(all) ELSE all

MaySend == pc = "send" /\ toSend # <<>> /\ telegram /\ ~Seen(Head(toSend))

\* The attempt returns: the message is in the chat and the signal remembered.
SendSucceeds ==
    /\ MaySend
    /\ chat' = Append(chat, [cycle |-> cycle, fp |-> Head(toSend)])
    /\ remembered' = Remember(Head(toSend))
    /\ answered' = Append(answered, Head(toSend))
    /\ delivered' = TRUE /\ attempts' = 0 /\ pc' = "log"
    /\ UNCHANGED <<telegram, cycle, toRecord, toSend, rows>>

\* Variant: one attempt more than the setting.
OneMoreAttempt == attempts >= SendRetries

\* The last attempt the loop makes.
LastAttempt == attempts + 1 >= SendRetries

\* The attempt raises, with the message lost or, when only the answer was
\* lost, in the chat.  The last failure makes send_signal answer False.
SendRaises ==
    /\ MaySend
    /\ \/ UNCHANGED chat
       \/ chat' = Append(chat, [cycle |-> cycle, fp |-> Head(toSend)])
    /\ IF LastAttempt
       THEN delivered' = FALSE /\ attempts' = 0 /\ pc' = "log"
       ELSE attempts' = attempts + 1 /\ UNCHANGED <<delivered, pc>>
    /\ UNCHANGED <<telegram, cycle, toRecord, toSend, remembered, answered, rows>>

\* Variant: a signal that was not sent gets no row.
RecordSentOnly ==
    /\ pc = "log"
    /\ rows' = IF delivered THEN Append(rows, DeliveryRow(cycle, Head(toSend), TRUE)) ELSE rows
    /\ toSend' = Tail(toSend)
    /\ pc' = "send"
    /\ UNCHANGED <<telegram, cycle, toRecord, attempts, delivered, remembered,
                   answered, chat>>

RecordDelivery ==
    /\ pc = "log"
    /\ rows' = Append(rows, DeliveryRow(cycle, Head(toSend), delivered))
    /\ toSend' = Tail(toSend)
    /\ pc' = "send"
    /\ UNCHANGED <<telegram, cycle, toRecord, attempts, delivered, remembered,
                   answered, chat>>

FinishCycle ==
    /\ pc = "send" /\ toSend = <<>>
    /\ pc' = "idle"
    /\ UNCHANGED <<telegram, cycle, volatile, rows, chat>>

\* The process ends between any two steps: killed, or an exception of the
\* scan or of a journal write leaves run_engine.
Crash ==
    /\ pc # "down"
    /\ pc' = "down"
    /\ toRecord' = <<>> /\ toSend' = <<>> /\ attempts' = 0 /\ delivered' = FALSE
    /\ remembered' = <<>> /\ answered' = <<>>
    /\ UNCHANGED <<telegram, cycle, rows, chat>>

Restart ==
    /\ pc = "down"
    /\ pc' = "idle" /\ telegram' \in TelegramChoices
    /\ UNCHANGED <<cycle, volatile, rows, chat>>

Deliver == SkipSend \/ SendSucceeds \/ SendRaises

Work == RecordCandidate \/ StartSending \/ Deliver \/ RecordDelivery \/ FinishCycle

Next == (\E b \in Batches : StartCycle(b)) \/ Work \/ Crash \/ Restart

\* The loop runs on while the process lives: every await of it ends, the
\* sends because the client has a timeout and the retries are bounded.
Spec == Init /\ [][Next]_vars /\ WF_vars(Work)

-----------------------------------------------------------------------------
\* Every variable has its type.
TypeOK ==
    /\ pc \in Points /\ telegram \in BOOLEAN /\ cycle \in Nat
    /\ toRecord \in Seq(Fingerprints) /\ toSend \in Seq(Fingerprints)
    /\ attempts \in 0..(SendRetries - 1) /\ delivered \in BOOLEAN
    /\ remembered \in Seq(Fingerprints) /\ answered \in Seq(Fingerprints)
    /\ rows \in Seq(Row) /\ chat \in Seq(Message)

\* No message reaches the chat before its candidate is in the journal: a crash
\* can lose the outcome of a signal the user has seen, never the signal.
MessageHasCandidate ==
    \A m \in Elements(chat) : CandidateRow(m.cycle, m.fp) \in Elements(rows)

\* A row that says "sent" is about a message that is in the chat, whatever
\* was retried, skipped or lost before it.
SentRowsAreTrue ==
    \A r \in Elements(rows) :
        r.delivered => [cycle |-> r.cycle, fp |-> r.fp] \in Elements(chat)

\* A delivery row follows the one candidate row of its journal id, and there is
\* at most one of it: what load_candidates joins on is unambiguous.
DeliveryRowsMatch ==
    \A j \in DOMAIN rows :
        rows[j].type = "delivery" =>
            /\ \E i \in 1..(j - 1) : rows[i] = CandidateRow(rows[j].cycle, rows[j].fp)
            /\ \A i \in DOMAIN rows \ {j} :
                  ~(/\ rows[i].type = "delivery"
                    /\ rows[i].cycle = rows[j].cycle /\ rows[i].fp = rows[j].fp)

\* A signal the process has had confirmed is not confirmed again before
\* max_cache other signals have been.
ConfirmedOnce ==
    \A i, j \in DOMAIN answered :
        i < j /\ answered[i] = answered[j] => j - i > DedupCache

\* One candidate never costs more messages than the retries allow.
MessagesBounded ==
    \A m \in Elements(chat) :
        Cardinality({i \in DOMAIN chat : chat[i] = m}) <= SendRetries

\* Every signal a scan returned gets its delivery row, unless the process
\* dies first: no skipped, failed or repeated send leaves the loop waiting.
SignalsAnswered ==
    \A c \in 1..MaxCycles, s \in Fingerprints :
        (cycle = c /\ s \in Elements(toSend))
            ~> \/ \E d \in BOOLEAN : DeliveryRow(c, s, d) \in Elements(rows)
               \/ pc = "down"

\* The journal and the chat never contradict each other, at any point a crash
\* may come: what is in the chat is in the journal, what the journal calls
\* sent is in the chat, and the rows of a signal can be joined.
JournalTrue == TypeOK /\ MessageHasCandidate /\ SentRowsAreTrue /\ DeliveryRowsMatch
=============================================================================
