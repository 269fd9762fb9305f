---------------------------- MODULE MarketData ----------------------------
(***************************************************************************)
(* MarketDataClient.fetch_ohlcv of one pair and timeframe, called by       *)
(* processes that share the cache directory: the live scan, the outcome    *)
(* tracker, the replay.  A fetch reads the cache file, asks the provider   *)
(* behind data_source (for "redundant" several, in order), saves the       *)
(* answer through the one ".tmp" file of the pair, and otherwise makes do  *)
(* with what it read before.                                               *)
(*                                                                         *)
(* Time is counted in candles: candle `now' is the open one.  Of a frame   *)
(* only its newest candle is kept, 0 if it is empty.  A paged request of   *)
(* ccxt is taken page by page, any other one at once; what a feed answers  *)
(* is chosen anew each time.                                               *)
(***************************************************************************)
EXTENDS Integers, Sequences, FiniteSets

CONSTANTS
    Clients,        \* processes with a MarketDataClient
    Requests,       \* client -> [limit, mode, until]: what it asks, until = 0 for no end_time
    DataSources,    \* values of DATA_SOURCE
    Backups,        \* the redundant provider's primary and backup sources, in order
    RequireFresh, RequireOverlay,
    MaxCandleAge,   \* of the redundant provider, in candles, at least 2
    MaxOverlayAge,  \* of the live-bar provider, in candles, at least 2
    CacheTtl,       \* in candles; 0 is no limit
    RequestLimit,   \* CCXT_OHLCV_REQUEST_LIMIT
    Delays,         \* by how many candles a feed may be behind
    First, Last,    \* bounds of the model: the first and the last open candle
    MaxSlow         \* candles that may open during one fetch: requests time out

ASSUME AgesAssumption ==
    /\ MaxCandleAge \in Nat /\ MaxCandleAge >= 2
    /\ MaxOverlayAge \in Nat /\ MaxOverlayAge >= 2
    /\ CacheTtl \in Nat /\ RequestLimit \in Nat \ {0}

Sources == {"live_bars", "download", "mt5", "yahoo", "itick", "ccxt"}
Modes == {"read_through", "cache_only", "refresh"}

ASSUME SettingsAssumption ==
    /\ DataSources \subseteq (Sources \ {"download"}) \cup {"redundant"}
    /\ Backups \in Seq(Sources \ {"download"}) /\ Backups # <<>>
    /\ \A p \in Clients :
        Requests[p] \subseteq [limit : Nat \ {0}, mode : Modes, until : Nat]

\* The candles a feed may know, and the three before them, have numbers.
ASSUME WindowAssumption ==
    /\ First \in Nat /\ Last \in Nat /\ 4 <= First /\ First <= Last
    /\ MaxSlow \in Nat /\ Delays # {} /\ Delays \subseteq 0..(First - 1)

VARIABLES
    now,        \* the open candle
    source,     \* DATA_SOURCE, fixed while the processes live
    cache,      \* the cache file: <<>> or <<[newest, at, whole, shared, writers]>>
    tmp,        \* its ".tmp" file, likewise
    link,       \* client -> its connection to the MT5 terminal
    job,        \* client -> the fetch under way
    answer,     \* what the last fetch to end returned, until the next one starts
    overlapped  \* history: two clients were saving at once

vars == <<now, source, cache, tmp, link, job, answer, overlapped>>

Candles == 0..Last
Top(S) == CHOOSE c \in S : \A d \in S : d <= c
Larger(a, b) == IF a > b THEN a ELSE b

-----------------------------------------------------------------------------
(* What the providers may answer: the newest candle, or Raise.             *)

Raise == -1
Known == {now - d : d \in Delays}      \* the newest candle a feed may know

\* A request that fails, or brings rows up to the newest one known: an answer
\* that is empty, malformed or short of a price is refused by each provider.
Plain == {Raise} \cup Known
Yahoo == Plain
Itick == Plain
CcxtInOnePage == Plain

\* _download_yahoo_ohlcv: the whole period, and an empty frame as it is
DownloadYahoo == {Raise, 0} \cup Known

\* LiveBarMarketDataProvider: the fallback, Yahoo, may fail if the overlay is
\* required, which then must be recent.
Overlaid(live) == live # 0 /\ now - (live + 1) <= MaxOverlayAge

Merged(fallback, live) ==
    IF RequireOverlay THEN IF Overlaid(live) THEN Larger(fallback, live) ELSE Raise
    ELSE IF fallback = Raise THEN Raise ELSE Larger(fallback, live)

LiveBarProvider == {Merged(fallback, live) : fallback \in Yahoo, live \in 0 .. (now - 1)}

\* MT5MarketDataProvider connects on its first call, and never again: the
\* calls over a lost connection bring nothing.
Terminal(p) == IF link[p] = "lost" THEN {Raise} ELSE Plain

Answers(s, p) ==
    CASE s = "live_bars" -> LiveBarProvider
      [] s = "download"  -> DownloadYahoo
      [] s = "mt5"       -> Terminal(p)
      [] s = "yahoo"     -> Yahoo
      [] s = "itick"     -> Itick
      [] s = "ccxt"      -> CcxtInOnePage

\* One page of CCXT, as a set of candles: from `since' on, or, from an
\* exchange that does not honour it, the newest ones.
Pages(size, since) ==
    {{c \in since..k : c < since + size} : k \in Known} \cup {(k - size + 1)..k : k \in Known}

\* _fetch_provider_ohlcv and RedundantMarketDataProvider._source_order
SourceOrder ==
    CASE source = "mt5"       -> <<"mt5", "download">>
      [] source = "yahoo"     -> <<"download">>
      [] source = "redundant" -> Backups
      [] OTHER                -> <<source>>

\* _freshness, and the raise on a frame that is not fresh
Refused(newest) ==
    source = "redundant" /\ RequireFresh /\ now - (newest + 1) > MaxCandleAge

-----------------------------------------------------------------------------
(* One fetch.                                                              *)

Idle == [stage |-> "idle"]
Error == [ok |-> FALSE, from |-> "nothing", lag |-> 0, raced |-> FALSE, until |-> 0]

Init ==
    /\ now = First
    /\ source \in DataSources
    /\ cache = <<>> /\ tmp = <<>>
    /\ link = [p \in Clients |-> "closed"]
    /\ job = [p \in Clients |-> Idle]
    /\ answer = Error
    /\ overlapped = FALSE

\* _read_cache: a torn file can be read, cannot be parsed, or lacks rows
CacheReads ==
    LET Frame(file, newest) == <<[newest |-> newest, at |-> file.at]>>
    IN  IF cache = <<>> THEN {<<>>}
        ELSE {Frame(cache[1], cache[1].newest)} \cup
             IF cache[1].whole THEN {} ELSE {<<>>, Frame(cache[1], cache[1].newest - 1)}

Cached(p) == IF job[p].cached = <<>> THEN 0 ELSE job[p].cached[1].newest

\* The end of fetch_ohlcv: the cut at end_time, tail(limit), the diagnostics
\* row.  Without any row left, as when all of them are later, it raises.
Cuts(newest, until) ==
    IF until = 0 \/ newest <= until THEN {newest} ELSE {0, until}

Return(p, newest, from) ==
    \E kept \in Cuts(newest, job[p].asked.until) :
        /\ answer' =
              IF kept = 0 THEN Error
              ELSE [ok |-> TRUE, from |-> from, lag |-> now - kept,
                    raced |-> from = "cache_fresh" /\ cache[1].at # job[p].cached[1].at,
                    until |-> job[p].asked.until]
        /\ job' = [job EXCEPT ![p] = Idle]

\* fetch_ohlcv reads the cache file first, whatever the mode
Start(p) ==
    /\ job[p] = Idle
    /\ \E asked \in Requests[p], read \in CacheReads :
          job' = [job EXCEPT ![p] =
              [stage |-> "choose", asked |-> asked, cached |-> read, order |-> <<>>,
               rows |-> {}, since |-> 0, dull |-> 0, pages |-> 0, newest |-> 0, slow |-> 0]]
    /\ answer' = Error
    /\ UNCHANGED <<now, source, cache, tmp, link, overlapped>>

\* _cache_is_fresh looks at the file there is by now, not at the one read
CacheIsFresh(p) ==
    /\ job[p].cached # <<>>
    /\ CacheTtl = 0 \/ now - cache[1].at <= CacheTtl

CacheOnly(p) ==
    /\ job[p].stage = "choose" /\ job[p].asked.mode = "cache_only"
    /\ Return(p, Cached(p), "cache_only")
    /\ UNCHANGED <<now, source, cache, tmp, link, overlapped>>

ServeFreshCache(p) ==
    /\ job[p].stage = "choose" /\ job[p].asked.mode = "read_through" /\ CacheIsFresh(p)
    /\ Return(p, Cached(p), "cache_fresh")
    /\ UNCHANGED <<now, source, cache, tmp, link, overlapped>>

TurnToProvider(p) ==
    /\ job[p].stage = "choose"
    /\ job[p].asked.mode # "cache_only"
    /\ job[p].asked.mode = "refresh" \/ ~CacheIsFresh(p)
    /\ job' = [job EXCEPT ![p].stage = "ask", ![p].order = SourceOrder]
    /\ UNCHANGED <<now, source, cache, tmp, link, answer, overlapped>>

\* The frame read at the start, of any age, stands in for the provider.
\* Variant: and is saved again, which makes it look new.
FallBackAndSave(p) ==
    /\ Return(p, Cached(p), "stale_cache")
    /\ cache' = IF job[p].cached = <<>> THEN cache
                ELSE <<[cache[1] EXCEPT !.newest = Cached(p), !.at = now]>>

FallBack(p) ==
    /\ Return(p, Cached(p), "stale_cache")
    /\ UNCHANGED cache

\* A source raised: the next one, or the end of the provider's attempts
SourceFails(p) ==
    IF Len(job[p].order) > 1
    THEN /\ job' = [job EXCEPT ![p].stage = "ask", ![p].order = Tail(@), ![p].rows = {},
                               ![p].since = 0, ![p].dull = 0, ![p].pages = 0]
         /\ UNCHANGED <<answer, cache>>
    ELSE FallBack(p)

SourceAnswers(p, newest) ==
    IF newest = 0 \* only Yahoo asked directly: cached_empty_fallback
    THEN FallBack(p)
    ELSE IF Refused(newest)
    THEN SourceFails(p)
    ELSE /\ job' = [job EXCEPT ![p].stage = "save", ![p].newest = newest, ![p].order = <<>>,
                               ![p].rows = {}, ![p].since = 0, ![p].dull = 0, ![p].pages = 0]
         /\ UNCHANGED <<answer, cache>>

Paged(p) == Head(job[p].order) = "ccxt" /\ job[p].asked.limit > RequestLimit

AskSource(p) ==
    /\ job[p].stage = "ask" /\ ~Paged(p)
    /\ \E got \in Answers(Head(job[p].order), p) :
          /\ IF got = Raise THEN SourceFails(p) ELSE SourceAnswers(p, got)
          /\ link' = IF Head(job[p].order) = "mt5" /\ got # Raise
                     THEN [link EXCEPT ![p] = "open"] ELSE link
    /\ UNCHANGED <<now, source, tmp, overlapped>>

\* _fetch_ohlcv_rows: from two candles more than are asked for, rounded up
\* to the next candle unless one opens at this very moment
StartPaging(p) ==
    /\ job[p].stage = "ask" /\ Paged(p)
    /\ \E back \in {1, 2} :
          job' = [job EXCEPT ![p].stage = "page", ![p].rows = {}, ![p].dull = 0,
                             ![p].since = now - job[p].asked.limit - back]
    /\ UNCHANGED <<now, source, cache, tmp, link, answer, overlapped>>

\* Variant: pages that bring nothing new do not end the loop.
PagedEnoughForEver(p, rows, dull) == Cardinality(rows) >= job[p].asked.limit
PagedEnough(p, rows, dull) == Cardinality(rows) >= job[p].asked.limit \/ dull = 3

Page(p) ==
    /\ job[p].stage = "page"
    /\ \/ SourceFails(p)
       \/ LET left == job[p].asked.limit - Cardinality(job[p].rows)
              size == IF left < RequestLimit THEN left ELSE RequestLimit
          IN  \E page \in Pages(size, job[p].since) :
                 LET rows == job[p].rows \cup page
                     dull == IF rows = job[p].rows THEN job[p].dull + 1 ELSE 0
                 IN  IF page = {} \/ PagedEnough(p, rows, dull)
                     THEN IF rows = {} THEN SourceFails(p) ELSE SourceAnswers(p, Top(rows))
                     ELSE /\ job' = [job EXCEPT ![p].rows = rows, ![p].dull = dull,
                                                ![p].pages = @ + 1, ![p].since = Top(page) + 1]
                          /\ UNCHANGED <<answer, cache>>
    /\ UNCHANGED <<now, source, tmp, link, overlapped>>

-----------------------------------------------------------------------------
(* _write_cache: the ".tmp" file is opened, written and renamed.  Two      *)
(* clients open the same one; a rename takes it away from the other, whose *)
(* writes then go to the cache file and whose own rename fails.            *)

\* Variant: the cache file is written in place.
OpenInPlace(p) ==
    /\ job[p].stage = "save"
    /\ cache' = <<[newest |-> job[p].newest, at |-> now, whole |-> FALSE, shared |-> FALSE,
                   writers |-> {p}]>>
    /\ job' = [job EXCEPT ![p].stage = "write"]
    /\ UNCHANGED <<now, source, tmp, link, answer, overlapped>>

Open(p) ==
    /\ job[p].stage = "save"
    /\ LET others == UNION {tmp[i].writers : i \in DOMAIN tmp}
       IN  /\ tmp' = <<[newest |-> job[p].newest, at |-> now, whole |-> FALSE,
                        shared |-> others # {}, writers |-> others \cup {p}]>>
    /\ overlapped' = (overlapped \/
                         \E q \in Clients \ {p} : job[q].stage \in {"write", "rename"})
    /\ job' = [job EXCEPT ![p].stage = "write"]
    /\ UNCHANGED <<now, source, cache, link, answer>>

\* What is left of a file when p closes it, or dies
Closed(file, p, done) ==
    [i \in DOMAIN file |->
        IF p \notin file[i].writers THEN file[i]
        ELSE [file[i] EXCEPT !.writers = @ \ {p}, !.at = now,
                             !.newest = IF done THEN job[p].newest ELSE @,
                             !.whole = done /\ ~file[i].shared,
                             !.shared = @ /\ file[i].writers # {p}]]

Close(p) ==
    /\ job[p].stage = "write"
    /\ tmp' = Closed(tmp, p, TRUE) /\ cache' = Closed(cache, p, TRUE)
    /\ job' = [job EXCEPT ![p].stage = "rename"]
    /\ UNCHANGED <<now, source, link, answer, overlapped>>

Rename(p) ==
    /\ job[p].stage = "rename"
    /\ IF tmp = <<>> \* FileNotFoundError, in the same try as the provider
       THEN FallBack(p) /\ UNCHANGED tmp
       ELSE /\ cache' = tmp /\ tmp' = <<>>
            /\ Return(p, job[p].newest, "provider")
    /\ UNCHANGED <<now, source, link, overlapped>>

-----------------------------------------------------------------------------
Step(p) ==
    \/ Start(p) \/ CacheOnly(p) \/ ServeFreshCache(p) \/ TurnToProvider(p)
    \/ AskSource(p) \/ StartPaging(p) \/ Page(p)
    \/ Open(p) \/ Close(p) \/ Rename(p)

Die(p) ==
    /\ job[p] # Idle
    /\ job' = [job EXCEPT ![p] = Idle]
    /\ link' = [link EXCEPT ![p] = "closed"]
    /\ tmp' = Closed(tmp, p, FALSE) /\ cache' = Closed(cache, p, FALSE)
    /\ UNCHANGED <<now, source, answer, overlapped>>

Tick ==
    /\ now < Last
    /\ \A p \in Clients : job[p] # Idle => job[p].slow < MaxSlow
    /\ now' = now + 1
    /\ job' = [p \in Clients |->
          IF job[p] = Idle THEN Idle ELSE [job[p] EXCEPT !.slow = @ + 1]]
    /\ UNCHANGED <<source, cache, tmp, link, answer, overlapped>>

\* The terminal restarts, or its connection breaks
LoseTerminal ==
    /\ \E p \in Clients : link[p] = "open"
    /\ link' = [p \in Clients |-> IF link[p] = "open" THEN "lost" ELSE link[p]]
    /\ UNCHANGED <<now, source, cache, tmp, job, answer, overlapped>>

Next ==
    \/ \E p \in Clients : Step(p) \/ Die(p)
    \/ Tick \/ LoseTerminal

Spec == Init /\ [][Next]_vars

-----------------------------------------------------------------------------
(* Properties                                                              *)

Files == [newest : Candles \ {0}, at : First..Last, whole : BOOLEAN, shared : BOOLEAN,
          writers : SUBSET Clients]

\* Files, jobs and the answer stay in range; what is saved has rows.
TypeOK ==
    /\ \A file \in {cache, tmp} : file # <<>> => Len(file) = 1 /\ file[1] \in Files
    /\ \A p \in Clients : job[p] # Idle =>
          /\ job[p].dull \in 0..2 /\ job[p].slow \in 0..MaxSlow
          /\ Cardinality(job[p].rows) < job[p].asked.limit
          /\ (job[p].stage \in {"save", "write", "rename"}) = (job[p].newest # 0)
          /\ (job[p].stage \in {"ask", "page"}) = (job[p].order # <<>>)
    /\ answer.lag \in 0..Last

\* A client that dies while it saves, at any step, leaves the cache file as
\* it was: only two writers at once can tear it (market_data.py:205-213).
TornOnlyByOverlap == cache # <<>> /\ ~cache[1].whole => overlapped

\* What is served as fresh is bounded in age: what the feed itself is behind,
\* the age allowed to an overlay, or the three candles a paged request may
\* stop short of; then the candles that open during a slow fetch, and for the
\* cache its time to live.  (A file replaced between the read and the check of
\* its age voids this, so does a torn one, and who asks for candles up to some
\* time, or lets the cache live for ever, gets old ones.)
LagBound(from) ==
    Larger(Top(Delays), Larger(3, MaxOverlayAge + 1)) + MaxSlow
        + (IF from = "provider" THEN 0 ELSE CacheTtl)

LagBounded ==
    /\ answer.from = "provider" \/ (answer.from = "cache_fresh" /\ CacheTtl # 0)
    /\ ~answer.raced /\ answer.until = 0 /\ ~overlapped
    => answer.lag <= LagBound(answer.from)

\* A paged request ends within a number of pages that depends only on the
\* rows asked for, also if the exchange does not honour `since', repeats
\* itself, or a candle opens now and then (ccxt_provider.py:248-264).
PagesBounded ==
    \A p \in Clients : job[p].stage = "page" => job[p].pages < 3 * job[p].asked.limit - 2

\* The cache is well formed, and torn only by two writers at once.
CacheSound == TypeOK /\ TornOnlyByOverlap
=============================================================================
