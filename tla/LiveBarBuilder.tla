--------------------------- MODULE LiveBarBuilder ---------------------------
(***************************************************************************)
(* services/live_bar_builder.py: bars built from live quotes, their event  *)
(* log, the CSV snapshots data/live_bar_provider.py reads, and the reload  *)
(* after a restart.  One pair: the bars of different pairs never meet.     *)
(*                                                                         *)
(* A bar is its start and the set of quotes it aggregates, which determine *)
(* its prices and its volume; a quote is a serial number.  Of the log only *)
(* the latest row of each start matters to the loader, so only that row is *)
(* kept; it is at least as new as any CSV row of that start, because every *)
(* bar is logged before it is put into a CSV.                              *)
(***************************************************************************)
EXTENDS Naturals, Sequences, FiniteSets, FiniteSetsExt, SequencesExt

CONSTANTS
    Timeframes,     \* the lengths of the bars in ticks, in the order of the settings
    BarsKept,       \* max_bars_per_timeframe
    MaxQuoteAge,    \* max_quote_age_seconds
    MaxSkew,        \* how far a provider clock may run ahead of ours
    RestartDelay,   \* ticks before the service manager starts a new process
    MaxTime, MaxQuotes   \* bounds of the model

ASSUME BarAssumption ==
    /\ Timeframes \in Seq(Nat \ {0}) /\ IsInjective(Timeframes)
    /\ BarsKept \in Nat \ {0}
    /\ MaxQuoteAge \in Nat /\ MaxSkew \in Nat /\ RestartDelay \in Nat
    /\ MaxTime \in Nat /\ MaxQuotes \in Nat

\* A quote that is accepted after a restart is no older than the last one
\* before it: RestartSec is 15, max_quote_age_seconds 5.
ASSUME RestartAssumption == RestartDelay >= MaxQuoteAge + MaxSkew

VARIABLES
    now,
    pc,         \* where on_quote is, or "down"
    quote,      \* provider time of the latest quote
    serial,     \* number of quotes accepted so far
    todo,       \* timeframes the current loop has still to visit
    stopping,   \* run_engine has left its loop and is in its finally clause
    leaving,    \* the steps of that clause that are left
    downSince,
    current,    \* _current: at most one bar per timeframe
    closed,     \* _closed
    logged,     \* the latest row of each start in the event log
    csv,        \* the snapshot of each timeframe
    durable,    \* quotes whose bars had been logged when a flush came by (history)
    lost        \* quotes of bars that an orderly end left unlogged (history)

control == <<pc, quote, serial, todo, stopping, leaving>>
memory == <<current, closed>>
files == <<logged, csv, durable, lost>>
barVars == <<now, control, downSince, memory, files>>

Lengths == Range(Timeframes)

Bar(start, quotes, complete) == [start |-> start, quotes |-> quotes, complete |-> complete]
BarType == [start : Nat, quotes : SUBSET (1..MaxQuotes), complete : BOOLEAN]

Nothing == [tf \in Lengths |-> <<>>]

BarsInit ==
    /\ now = 0 /\ downSince = 0
    /\ pc = "idle" /\ quote = 0 /\ serial = 0 /\ todo = <<>>
    /\ stopping = FALSE /\ leaving = <<>>
    /\ current = Nothing /\ closed = Nothing /\ csv = Nothing
    /\ logged = [tf \in Lengths |-> {}]
    /\ durable = [tf \in Lengths |-> {}]
    /\ lost = {}

Tick ==
    /\ now < MaxTime
    /\ now' = now + 1
    /\ UNCHANGED <<control, downSince, memory, files>>

-----------------------------------------------------------------------------
(* on_quote                                                                *)

FloorTime(t, tf) == t - (t % tf)

\* A quote that is too old changes nothing but a counter.
OnQuote(providerTime) ==
    /\ pc = "idle" /\ serial < MaxQuotes
    /\ providerTime <= now + MaxSkew
    /\ now <= providerTime + MaxQuoteAge
    /\ quote' = providerTime /\ serial' = serial + 1
    /\ pc' = "apply" /\ todo' = Timeframes
    /\ UNCHANGED <<now, stopping, leaving, downSince, memory, files>>

Rewritten(tf, row) == {r \in logged[tf] : r.start # row.start} \cup {row}

\* deque(maxlen): the oldest bar leaves when there are too many.
Pushed(seq, bar) ==
    IF Len(seq) < BarsKept THEN Append(seq, bar) ELSE Append(Tail(seq), bar)

\* Variant: a late quote closes the bar too.
OpensDifferentBar(tf) == FloorTime(quote, tf) # Head(current[tf]).start

\* The quote belongs to a later bar than the current one.
OpensNextBar(tf) == FloorTime(quote, tf) > Head(current[tf]).start

\* Variant: the quote that closes a bar is counted in it.
DoneWithNextQuote(bar) == Bar(bar.start, bar.quotes \cup {serial}, TRUE)

Done(bar) == Bar(bar.start, bar.quotes, TRUE)

\* _apply_quote for one timeframe, with the event it logs.
ApplyQuote(tf) ==
    LET start == FloorTime(quote, tf)
        open  == current[tf] # <<>>
        bar   == Head(current[tf])
    IN  \/ \* late for the current bar
           /\ open /\ start < bar.start
           /\ UNCHANGED <<memory, logged>>
        \/ \* the first quote there is
           /\ ~open
           /\ current' = [current EXCEPT ![tf] = <<Bar(start, {serial}, FALSE)>>]
           /\ UNCHANGED <<closed, logged>>
        \/ \* the first quote of the next bar closes this one
           /\ open /\ OpensNextBar(tf)
           /\ closed' = [closed EXCEPT ![tf] = Pushed(@, Done(bar))]
           /\ logged' = [logged EXCEPT ![tf] = Rewritten(tf, Done(bar))]
           /\ current' = [current EXCEPT ![tf] = <<Bar(start, {serial}, FALSE)>>]
        \/ \* one more quote of this bar
           /\ open /\ start = bar.start
           /\ current' = [current EXCEPT ![tf] =
                             <<Bar(start, bar.quotes \cup {serial}, bar.complete)>>]
           /\ UNCHANGED <<closed, logged>>

ApplyToTimeframe ==
    /\ pc = "apply" /\ todo # <<>>
    /\ ApplyQuote(Head(todo))
    /\ todo' = Tail(todo)
    /\ UNCHANGED <<now, pc, quote, serial, stopping, leaving, downSince, csv, durable, lost>>

\* The flush interval has passed, or not.
AfterQuote ==
    /\ pc = "apply" /\ todo = <<>>
    /\ \/ pc' = "idle" /\ UNCHANGED todo
       \/ pc' = "flush" /\ todo' = Timeframes
    /\ UNCHANGED <<now, quote, serial, stopping, leaving, downSince, memory, files>>

-----------------------------------------------------------------------------
(* flush: for each timeframe log the current bar, then replace the CSV.    *)

Rows(tf) == closed[tf] \o current[tf]
QuotesIn(bars) == UNION {b.quotes : b \in bars}

LogCurrent ==
    /\ pc = "flush" /\ todo # <<>>
    /\ LET tf == Head(todo)
       IN  /\ logged' = [logged EXCEPT ![tf] =
                            IF current[tf] = <<>> THEN @ ELSE Rewritten(tf, Head(current[tf]))]
           /\ durable' = [durable EXCEPT ![tf] = @ \cup QuotesIn(Range(current[tf]))]
    /\ pc' = "csv"
    /\ UNCHANGED <<now, quote, serial, todo, stopping, leaving, downSince, memory, csv, lost>>

WriteCsv ==
    /\ pc = "csv"
    /\ LET tf == Head(todo)
       IN  csv' = [csv EXCEPT ![tf] = IF Rows(tf) = <<>> THEN @ ELSE Rows(tf)]
    /\ pc' = "flush" /\ todo' = Tail(todo)
    /\ UNCHANGED <<now, quote, serial, stopping, leaving, downSince, memory, logged, durable, lost>>

FlushDone ==
    /\ pc = "flush" /\ todo = <<>>
    /\ pc' = "idle"
    /\ UNCHANGED <<now, quote, serial, todo, stopping, leaving, downSince, memory, files>>

-----------------------------------------------------------------------------
(* Stop, crash and restart.                                                *)

\* run_engine's finally clause: first the collector, which LiveQuotes stops.
Finally == <<"collector", "flush">>

Stop ==
    /\ pc = "idle" /\ ~stopping
    /\ stopping' = TRUE /\ leaving' = Finally
    /\ UNCHANGED <<now, pc, quote, serial, todo, downSince, memory, files>>

LastFlush ==
    /\ pc = "idle" /\ stopping /\ leaving # <<>> /\ Head(leaving) = "flush"
    /\ pc' = "flush" /\ todo' = Timeframes /\ leaving' = Tail(leaving)
    /\ UNCHANGED <<now, quote, serial, stopping, downSince, memory, files>>

Leave ==
    /\ pc' = "down" /\ todo' = <<>> /\ stopping' = FALSE /\ leaving' = <<>> /\ downSince' = now
    /\ current' = Nothing /\ closed' = Nothing
    /\ UNCHANGED <<now, quote, serial, logged, csv, durable>>

End ==
    /\ pc = "idle" /\ stopping /\ leaving = <<>>
    /\ lost' = UNION {QuotesIn(Range(Rows(tf))) \ QuotesIn(logged[tf]) : tf \in Lengths}
    /\ Leave

Crash ==
    /\ pc # "down"
    /\ lost' = lost
    /\ Leave

\* The completed rows, each in the place that as many rows start before.
CompletedByStart(tf) ==
    LET done == {r \in logged[tf] : r.complete}
        earlier(r) == Cardinality({q \in done : q.start < r.start})
    IN  [k \in 1..Cardinality(done) |-> CHOOSE r \in done : earlier(r) = k - 1]

LoadedClosed(tf) ==
    LET bars == CompletedByStart(tf)
    IN  SubSeq(bars, Max({1, Len(bars) - BarsKept + 1}), Len(bars))

\* Variant: the bar in progress is not reloaded.
LoadedNoCurrent(tf) == {}

LoadedCurrent(tf) ==
    {r \in logged[tf] : /\ ~r.complete
                        /\ \A q \in logged[tf] : q # r => q.start < r.start}

\* _load_existing_state, which also brings the snapshots up to date.
Restart ==
    /\ pc = "down" /\ now >= downSince + RestartDelay
    /\ pc' = "idle"
    /\ closed' = [tf \in Lengths |-> LoadedClosed(tf)]
    /\ current' = [tf \in Lengths |-> SetToSeq(LoadedCurrent(tf))]
    /\ csv' = [tf \in Lengths |->
                  LET rows == LoadedClosed(tf) \o SetToSeq(LoadedCurrent(tf))
                  IN  IF rows = <<>> THEN csv[tf] ELSE rows]
    /\ UNCHANGED <<now, quote, serial, todo, stopping, leaving, downSince, logged, durable, lost>>

-----------------------------------------------------------------------------
(* What LiveBarMarketDataProvider makes of a snapshot by default: completed *)
(* rows only, the last one of each start.                                   *)

Served(tf) ==
    {csv[tf][i] : i \in {j \in DOMAIN csv[tf] :
        /\ csv[tf][j].complete
        /\ \A k \in DOMAIN csv[tf] :
              k > j /\ csv[tf][k].start = csv[tf][j].start => ~csv[tf][k].complete}}

OnAnyQuote == \E t \in 0..(MaxTime + MaxSkew) : OnQuote(t)

\* What the builder does with a quote it has got.
Build == ApplyToTimeframe \/ AfterQuote \/ LogCurrent \/ WriteCsv \/ FlushDone

-----------------------------------------------------------------------------
\* Every variable has its type.
BarsTypeOK ==
    /\ now \in Nat /\ downSince \in Nat /\ quote \in Nat /\ serial \in 0..MaxQuotes
    /\ pc \in {"idle", "apply", "flush", "csv", "down"}
    /\ todo \in Seq(Lengths) /\ stopping \in BOOLEAN /\ leaving \in Seq(Range(Finally))
    /\ current \in [Lengths -> Seq(BarType)]
    /\ closed \in [Lengths -> Seq(BarType)]
    /\ csv \in [Lengths -> Seq(BarType)]
    /\ logged \in [Lengths -> SUBSET BarType]
    /\ durable \in [Lengths -> SUBSET (1..MaxQuotes)]
    /\ \A tf \in Lengths : Len(current[tf]) <= 1 /\ Len(closed[tf]) <= BarsKept

\* A timeframe never holds two bars of one start, and its bars are in order,
\* through late quotes, closings and reloads.
BarsInOrder ==
    \A tf \in Lengths :
        \A i, j \in DOMAIN Rows(tf) : i < j => Rows(tf)[i].start < Rows(tf)[j].start

\* No quote is counted in two bars of a timeframe, whatever was reloaded.
QuotesCountedOnce ==
    \A tf \in Lengths :
        \A q, r \in logged[tf] : q # r => q.quotes \cap r.quotes = {}

\* What a flush has logged is never lost: a later event or a reload can only
\* replace a row by one that has its quotes too.
FlushedQuotesSurvive ==
    \A tf \in Lengths : durable[tf] \subseteq QuotesIn(logged[tf])

\* A process that has reloaded has every completed bar that was ever logged,
\* up to the maximal number of bars.
ClosedBarsReloaded ==
    pc = "idle" =>
        \A tf \in Lengths :
            \A r \in logged[tf] :
                r.complete /\ (\A i \in DOMAIN closed[tf] : closed[tf][i] # r)
                    => Len(closed[tf]) = BarsKept /\ r.start < closed[tf][1].start

\* A completed bar the provider has served once is never served with other
\* prices, and only disappears as the oldest one.
ServedBarsFinal ==
    [][\A tf \in Lengths :
          \A bar \in Served(tf) :
              \/ bar \in Served(tf)'
              \/ /\ Served(tf)' # {}
                 /\ \A later \in Served(tf)' : later.start > bar.start]_barVars

\* The bars of every timeframe are in order and count every quote once.
BarsSound == BarsTypeOK /\ BarsInOrder /\ QuotesCountedOnce

\* An orderly end loses no quote: all that the bars of the process count is in
\* the log, also what came while the collector was being stopped.
OrderlyEndSaves == lost = {}

\* What was logged survives: the quotes of every flush and of every orderly
\* end, and after a reload every completed bar there is room for.
LoggedSurvives == FlushedQuotesSurvive /\ ClosedBarsReloaded /\ OrderlyEndSaves
=============================================================================
