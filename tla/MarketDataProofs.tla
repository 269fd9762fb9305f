-------------------------- MODULE MarketDataProofs --------------------------
(***************************************************************************)
(* The market data client, and the breaker and the watch of the live loop  *)
(* that read what fetching it came to.                                     *)
(*                                                                         *)
(* For any clients, requests, feeds and interleaving: the cache file is    *)
(* torn by two overlapping saves only, what is served as fresh is bounded  *)
(* in age, and a paged request ends within a number of pages that depends  *)
(* on its limit alone.                                                     *)
(*                                                                         *)
(* The inductive invariant follows the age of a frame from the feed to the *)
(* answer: through the rows of a paged request, which either hold a candle *)
(* some page gave as the newest or are one interval without gaps, through  *)
(* the save and the file, to the reader.                                   *)
(*                                                                         *)
(* For any settings and any feed: the breaker starts no scan while a bad   *)
(* fetch counts, though it sees rows that are forgotten; and the watch     *)
(* tells the operator in time, though alerts are held back and lost.       *)
(***************************************************************************)
EXTENDS MarketData, LiveHealth, CountingLemmas

\* How far behind the clock a frame may be when its provider answers.
Behind == Larger(Top(Delays), Larger(3, MaxOverlayAge + 1))

LEMMA BehindBounds ==
    /\ Behind \in Nat /\ 3 <= Behind /\ MaxOverlayAge + 1 <= Behind
    /\ \A d \in Delays : d \in 0..(First - 1) /\ d <= Behind
    /\ First \in Nat /\ Last \in Nat /\ 4 <= First /\ First <= Last /\ MaxSlow \in Nat
<1>0. First \in Nat /\ Delays \subseteq 0..(First - 1) /\ Delays # {}
  BY WindowAssumption
<1>1. Delays \subseteq Int /\ IsFiniteSet(Delays)
  <2>1. IsFiniteSet(0..(First - 1))
    BY <1>0, FS_Interval
  <2>2. IsFiniteSet(Delays)
    BY <1>0, <2>1, FS_Subset
  <2>3. Delays \subseteq Int
    BY <1>0
  <2>4. QED
    BY <2>2, <2>3
<1>2. Top(Delays) \in Delays /\ \A d \in Delays : d <= Top(Delays)
  <2>1. \E x \in Delays : \A y \in Delays : y <= x
    BY <1>0, <1>1, Extremes
  <2>2. QED
    BY <2>1 DEF Top
<1>3. Top(Delays) \in Nat /\ \A d \in Delays : d \in 0..(First - 1)
  <2>1. \A d \in Delays : d \in 0..(First - 1)
    BY <1>0
  <2>2. Top(Delays) \in 0..(First - 1)
    BY <1>2, <2>1
  <2>3. QED
    BY <1>0, <2>1, <2>2
<1>4. Behind \in Nat /\ 3 <= Behind /\ MaxOverlayAge + 1 <= Behind /\ Top(Delays) <= Behind
  BY <1>3, AgesAssumption DEF Behind, Larger
<1> HIDE DEF Behind
<1>5. \A d \in Delays : d <= Behind
  BY <1>2, <1>3, <1>4, WindowAssumption
<1>6. QED
  BY <1>3, <1>4, <1>5, WindowAssumption

-----------------------------------------------------------------------------
(* Types                                                                   *)

Stages == {"choose", "ask", "page", "save", "write", "rename"}
Asked == [limit : Nat \ {0}, mode : Modes, until : Nat]
Reads == [newest : Candles, at : First..Last]
Dulls == 0..2
Slows == 0..MaxSlow
Fetches ==
    [stage : Stages, asked : Asked, cached : Seq(Reads), order : Seq(Sources),
     rows : SUBSET Int, since : Int, dull : Dulls, pages : Nat, newest : Candles,
     slow : Slows]
Jobs == {Idle} \cup Fetches
Shelf == {file \in Seq(Files) : file # <<>> => Len(file) = 1}
Links == {"closed", "open", "lost"}

Typed ==
    /\ now \in First..Last
    /\ source \in DataSources
    /\ cache \in Shelf /\ tmp \in Shelf
    /\ link \in [Clients -> Links]
    /\ job \in [Clients -> Jobs]
    /\ overlapped \in BOOLEAN

-----------------------------------------------------------------------------
(* The inductive invariant                                                 *)

\* The rows of a paged request reach up to what some page gave as the newest
\* candle, or are all there are from where the request began.
RowsOf(j, time) ==
    \/ \E c \in j.rows : 1 <= c /\ time <= c + Behind + j.slow
    \/ \E first \in Int :
        /\ j.rows = first..(j.since - 1) /\ first <= j.since
        /\ time <= first + j.asked.limit + 2 + j.slow

PageCount(j) ==
    IF j.rows = {} THEN j.pages = 0
    ELSE j.pages <= 3 * (Cardinality(j.rows) - 1) + 1 + j.dull

\* One fetch, at a time and with or without overlapping saves so far.
FetchOK(j, time, overlap) ==
    /\ IsFiniteSet(j.rows) /\ Cardinality(j.rows) < j.asked.limit
    /\ \A c \in j.rows : c <= time
    /\ First + j.slow <= time
    /\ (j.stage \in {"save", "write", "rename"}) = (j.newest # 0)
    /\ (j.stage \in {"ask", "page"}) = (j.order # <<>>)
    /\ IF j.stage = "page" THEN RowsOf(j, time) /\ PageCount(j) ELSE j.pages = 0
    /\ j.newest <= time
    /\ j.newest # 0 => time <= j.newest + Behind + j.slow
    /\ \A i \in DOMAIN j.cached :
        /\ j.cached[i].newest <= time
        /\ ~overlap => j.cached[i].at <= j.cached[i].newest + Behind + MaxSlow

FilesOK(file, time, overlap) ==
    \A i \in DOMAIN file :
        /\ file[i].newest <= time
        /\ ~overlap /\ file[i].whole => file[i].at <= file[i].newest + Behind + MaxSlow

\* Without overlap only one client saves, only its own ".tmp" file is open,
\* and what it renames is whole.
Saving == {"write", "rename"}
SaversApart(jobs, temp, kept) ==
    /\ \A p, q \in Clients : jobs[p].stage \in Saving /\ jobs[q].stage \in Saving => p = q
    /\ \A i \in DOMAIN temp : /\ ~temp[i].shared
                             /\ \A p \in temp[i].writers : jobs[p].stage = "write"
    /\ \A i \in DOMAIN kept : kept[i].whole /\ kept[i].writers = {}
    /\ \A p \in Clients :
        /\ jobs[p].stage = "write" => temp # <<>> /\ p \in temp[1].writers
        /\ jobs[p].stage = "rename" => temp # <<>> /\ temp[1].whole

AnswerOK(given, overlap) ==
    /\ given.lag \in 0..Last
    /\ /\ given.from = "provider" \/ (given.from = "cache_fresh" /\ CacheTtl # 0)
       /\ ~given.raced /\ given.until = 0 /\ ~overlap
       => given.lag <= LagBound(given.from)

Inv ==
    /\ Typed
    /\ \A p \in Clients : job[p] # Idle => FetchOK(job[p], now, overlapped)
    /\ FilesOK(cache, now, overlapped) /\ FilesOK(tmp, now, overlapped)
    /\ ~overlapped => SaversApart(job, tmp, cache)
    /\ AnswerOK(answer, overlapped)

-----------------------------------------------------------------------------
(* What a provider answers                                                 *)

LEMMA KnownRecent ==
    ASSUME now \in First..Last
    PROVE  \A k \in Known : k \in 1..now /\ now <= k + Behind
<1>1. ASSUME NEW d \in Delays PROVE now - d \in 1..now /\ now <= now - d + Behind
  BY BehindBounds
<1>2. QED
  BY <1>1 DEF Known

\* A provider raises, has nothing (Yahoo asked directly), or brings a frame that
\* is not older than allowed.
LEMMA AnswersRecent ==
    ASSUME now \in First..Last, NEW s \in Sources, NEW p, NEW got \in Answers(s, p)
    PROVE  \/ got = Raise
           \/ got = 0
           \/ got \in 1..now /\ now <= got + Behind
<1>1. \A k \in Known : k \in 1..now /\ now <= k + Behind
  BY KnownRecent
<1>2. ASSUME NEW plain \in Plain
      PROVE  plain = Raise \/ (plain \in 1..now /\ now <= plain + Behind)
  BY <1>1 DEF Plain
<1>3. ASSUME NEW fallback \in Yahoo, NEW live \in 0..(now - 1)
      PROVE  \/ Merged(fallback, live) = Raise
             \/ Merged(fallback, live) \in 1..now /\ now <= Merged(fallback, live) + Behind
  <2>1. fallback = -1 \/ (fallback \in 1..now /\ now <= fallback + Behind)
    BY <1>2 DEF Yahoo, Raise
  <2>2. now \in Nat /\ live \in Nat /\ live < now
    BY BehindBounds
  <2>3. CASE RequireOverlay
    <3>1. CASE Overlaid(live)
      <4>1. live \in 1..now /\ now <= live + Behind
        BY <2>2, <3>1, BehindBounds, AgesAssumption DEF Overlaid
      <4>2. Larger(fallback, live) \in 1..now /\ now <= Larger(fallback, live) + Behind
        BY <2>1, <2>2, <4>1, BehindBounds DEF Larger
      <4>3. QED
        BY <2>3, <3>1, <4>2 DEF Merged
    <3>2. CASE ~Overlaid(live)
      BY <2>3, <3>2 DEF Merged
    <3>3. QED
      BY <3>1, <3>2
  <2>4. CASE ~RequireOverlay
    <3>1. CASE fallback = Raise
      BY <2>4, <3>1 DEF Merged
    <3>2. CASE fallback # Raise
      <4>1. Larger(fallback, live) \in 1..now /\ now <= Larger(fallback, live) + Behind
        BY <2>1, <2>2, <3>2, BehindBounds DEF Larger, Raise
      <4>2. QED
        BY <2>4, <3>2, <4>1 DEF Merged
    <3>3. QED
      BY <3>1, <3>2
  <2>5. QED
    BY <2>3, <2>4
<1>4. CASE s = "live_bars"
  BY <1>3, <1>4 DEF Answers, LiveBarProvider
<1>5. CASE s = "download"
  BY <1>1, <1>5 DEF Answers, DownloadYahoo
<1>6. CASE s = "mt5"
  BY <1>2, <1>6 DEF Answers, Terminal
<1>7. CASE s \in {"yahoo", "itick", "ccxt"}
  BY <1>2, <1>7 DEF Answers, Yahoo, Itick, CcxtInOnePage
<1>8. QED
  BY <1>4, <1>5, <1>6, <1>7 DEF Sources

-----------------------------------------------------------------------------
(* Pieces of a step                                                        *)

\* The end of a fetch: the frame is cut, and an age noted that is the frame's.
LEMMA ReturnAnswers ==
    ASSUME Inv, NEW p \in Clients, job[p] # Idle, NEW newest, newest \in 0..now,
           NEW from, Return(p, newest, from),
           from = "provider" /\ newest # 0 /\ ~overlapped =>
               now <= newest + Behind + MaxSlow,
           from = "cache_fresh" /\ CacheTtl # 0 /\ newest # 0 /\ ~overlapped
                   /\ cache[1].at = job[p].cached[1].at =>
               now <= newest + Behind + MaxSlow + CacheTtl
    PROVE  /\ AnswerOK(answer', overlapped)
           /\ job' = [job EXCEPT ![p] = Idle]
<1>1. job[p] \in Fetches /\ now \in First..Last
  BY DEF Inv, Typed, Jobs
<1>2. PICK kept \in Cuts(newest, job[p].asked.until) :
        answer' = IF kept = 0 THEN Error
                  ELSE [ok |-> TRUE, from |-> from, lag |-> now - kept,
                        raced |-> from = "cache_fresh" /\ cache[1].at # job[p].cached[1].at,
                        until |-> job[p].asked.until]
  BY DEF Return
<1>3. job[p].asked.until \in Nat
  <2>1. job[p].asked \in Asked
    BY <1>1 DEF Fetches
  <2>2. QED
    BY <2>1 DEF Asked
<1>4. kept \in 0..now /\ (job[p].asked.until = 0 => kept = newest)
  BY <1>1, <1>2, <1>3, BehindBounds DEF Cuts
<1>5. CASE kept = 0
  <2>1. answer' = Error
    BY <1>2, <1>5
  <2>2. QED
    BY <2>1, BehindBounds DEF AnswerOK, Error, Return
<1>6. CASE kept # 0
  <2>1. /\ answer'.from = from /\ answer'.lag = now - kept
        /\ answer'.raced <=> from = "cache_fresh" /\ cache[1].at # job[p].cached[1].at
        /\ answer'.until = job[p].asked.until
    BY <1>2, <1>6
  <2>2. answer'.lag \in 0..Last
    BY <1>1, <1>4, <2>1, BehindBounds
  <2>3. ASSUME answer'.until = 0, ~overlapped, from = "provider"
        PROVE  answer'.lag <= LagBound(from)
    <3>1. answer'.lag <= Behind + MaxSlow
      BY <1>1, <1>4, <1>6, <2>1, <2>3, BehindBounds
    <3>2. LagBound(from) = Behind + MaxSlow + 0
      BY <2>3 DEF LagBound, Behind
    <3>3. QED
      BY <3>1, <3>2, BehindBounds
  <2>4. ASSUME answer'.until = 0, ~overlapped, from = "cache_fresh", CacheTtl # 0, ~answer'.raced
        PROVE  answer'.lag <= LagBound(from)
    <3>1. now <= newest + Behind + MaxSlow + CacheTtl /\ kept = newest
      BY <1>4, <1>6, <2>1, <2>4
    <3>2. answer'.lag <= Behind + MaxSlow + CacheTtl
      BY <1>1, <2>1, <3>1, BehindBounds, AgesAssumption
    <3>3. LagBound(from) = Behind + MaxSlow + CacheTtl
      BY <2>4 DEF LagBound, Behind
    <3>4. QED
      BY <3>2, <3>3
  <2>5. AnswerOK(answer', overlapped)
    BY <2>1, <2>2, <2>3, <2>4 DEF AnswerOK
  <2>6. QED
    BY <2>5 DEF Return
<1>7. QED
  BY <1>5, <1>6 DEF Return

LEMMA CachedInRange ==
    ASSUME Inv, NEW p \in Clients, job[p] # Idle
    PROVE  /\ Cached(p) \in 0..now
           /\ ~overlapped /\ job[p].cached # <<>> =>
                job[p].cached[1].at <= Cached(p) + Behind + MaxSlow
<1>1. job[p].cached \in Seq(Reads)
  BY DEF Inv, Typed, Jobs, Fetches
<1>2. CASE job[p].cached = <<>>
  BY <1>2, BehindBounds DEF Cached, Inv, Typed
<1>3. CASE job[p].cached # <<>>
  <2>1. 1 \in DOMAIN job[p].cached /\ job[p].cached[1] \in Reads
    BY <1>1, <1>3
  <2>2. job[p].cached[1].newest <= now /\ job[p].cached[1].newest \in Candles
    BY <2>1 DEF Inv, FetchOK, Reads
  <2>3. ~overlapped => job[p].cached[1].at <= job[p].cached[1].newest + Behind + MaxSlow
    BY <2>1 DEF Inv, FetchOK
  <2>4. QED
    BY <1>3, <2>2, <2>3, BehindBounds DEF Cached, Candles, Inv, Typed
<1>4. QED
  BY <1>2, <1>3

\* Only the fetch of p goes on, or ends; it is not one that holds a file open.
Proceeds(p) ==
    /\ job' \in [Clients -> Jobs]
    /\ \A q \in Clients \ {p} : job'[q] = job[q]
    /\ job'[p] = Idle \/ FetchOK(job'[p], now, overlapped)
    /\ job'[p].stage \notin Saving
    /\ AnswerOK(answer', overlapped)

LEMMA ProceedsKeeps ==
    ASSUME Inv, NEW p \in Clients, Proceeds(p), job[p].stage # "write",
           UNCHANGED <<now, source, cache, tmp, overlapped>>,
           link' \in [Clients -> Links]
    PROVE  Inv'
<1>1. Typed'
  BY DEF Inv, Typed, Proceeds
<1>2. \A q \in Clients : job'[q] # Idle => FetchOK(job'[q], now', overlapped')
  BY DEF Inv, Proceeds
<1>3. ASSUME ~overlapped' PROVE SaversApart(job', tmp', cache')
  <2>1. SaversApart(job, tmp, cache) /\ tmp' = tmp /\ cache' = cache
    BY <1>3 DEF Inv
  <2>2. \A q \in Clients : job'[q].stage \in Saving => job'[q] = job[q]
    BY DEF Proceeds
  <2>3. ASSUME NEW i \in DOMAIN tmp, NEW q \in tmp[i].writers PROVE job'[q].stage = "write"
    <3>1. tmp[i] \in Files
      BY DEF Inv, Typed, Shelf
    <3>2. q \in Clients
      BY <3>1 DEF Files
    <3>3. job[q].stage = "write"
      BY <2>1 DEF SaversApart
    <3>4. QED
      BY <3>2, <3>3 DEF Proceeds
  <2>4. "write" \in Saving /\ "rename" \in Saving
    BY DEF Saving
  <2>5. \A q, r \in Clients : job'[q].stage \in Saving /\ job'[r].stage \in Saving => q = r
    BY <2>1, <2>2 DEF SaversApart
  <2>6. \A q \in Clients :
          /\ job'[q].stage = "write" => tmp # <<>> /\ q \in tmp[1].writers
          /\ job'[q].stage = "rename" => tmp # <<>> /\ tmp[1].whole
    BY <2>1, <2>2, <2>4 DEF SaversApart
  <2>7. QED
    BY <2>1, <2>3, <2>5, <2>6 DEF SaversApart
<1>4. QED
  BY <1>1, <1>2, <1>3 DEF Inv, Proceeds

LEMMA EndsWell ==
    ASSUME Inv, NEW p \in Clients, AnswerOK(answer', overlapped), job' = [job EXCEPT ![p] = Idle]
    PROVE  Proceeds(p)
<1>1. job' \in [Clients -> Jobs] /\ job'[p] = Idle /\ \A q \in Clients \ {p} : job'[q] = job[q]
  BY DEF Inv, Typed, Jobs
<1>2. Idle.stage \notin Saving
  BY DEF Idle, Saving
<1>3. QED
  BY <1>1, <1>2 DEF Proceeds

LEMMA FallBackProceeds ==
    ASSUME Inv, NEW p \in Clients, job[p] # Idle, FallBack(p)
    PROVE  Proceeds(p) /\ cache' = cache
<1>1. Cached(p) \in 0..now
  BY CachedInRange
<1>2. Return(p, Cached(p), "stale_cache") /\ cache' = cache
  BY DEF FallBack
<1>3. AnswerOK(answer', overlapped) /\ job' = [job EXCEPT ![p] = Idle]
  BY <1>1, <1>2, ReturnAnswers
<1>4. QED
  BY <1>2, <1>3, EndsWell

LEMMA TailOfTwo ==
    ASSUME NEW S, NEW s \in Seq(S), Len(s) > 1
    PROVE  Tail(s) \in Seq(S) /\ Tail(s) # <<>>
<1>1. Tail(s) \in Seq(S) /\ Len(Tail(s)) = Len(s) - 1 /\ Len(s) \in Nat
  OBVIOUS
<1>2. Len(Tail(s)) # 0
  <2> DEFINE n == Len(s)
  <2> DEFINE m == Len(Tail(s))
  <2>1. m = n - 1 /\ n \in Nat /\ n > 1
    BY <1>1
  <2> HIDE DEF n, m
  <2>2. m # 0
    BY <2>1
  <2>3. QED
    BY <2>2 DEF m
<1>3. Len(<<>>) = 0
  OBVIOUS
<1>4. Tail(s) # <<>>
  BY <1>2, <1>3, Zenon
<1>5. QED
  BY <1>1, <1>4

\* A fetch with no rows in hand that is to ask the next source.
LEMMA SourceFailsProceeds ==
    ASSUME Inv, NEW p \in Clients, job[p] # Idle, job[p].stage \in {"ask", "page"},
           SourceFails(p)
    PROVE  Proceeds(p) /\ cache' = cache
<1>1. job[p] \in Fetches /\ FetchOK(job[p], now, overlapped)
  BY DEF Inv, Typed, Jobs
<1>2. CASE Len(job[p].order) > 1
  <2>1. /\ job' = [job EXCEPT ![p].stage = "ask", ![p].order = Tail(@), ![p].rows = {},
                              ![p].since = 0, ![p].dull = 0, ![p].pages = 0]
        /\ answer' = answer /\ cache' = cache
    BY <1>2 DEF SourceFails
  <2> DEFINE j == [job[p] EXCEPT !.stage = "ask", !.order = Tail(@), !.rows = {},
                                 !.since = 0, !.dull = 0, !.pages = 0]
  <2>2. job' = [job EXCEPT ![p] = j]
    BY <2>1
  <2>3. Tail(job[p].order) \in Seq(Sources) /\ Tail(job[p].order) # <<>>
    <3>1. job[p].order \in Seq(Sources)
      BY <1>1 DEF Fetches
    <3>2. QED
      BY <1>2, <3>1, TailOfTwo
  <2>4. j \in Fetches /\ j # Idle
    <3>1. {} \in SUBSET Int /\ "ask" \in Stages /\ 0 \in Dulls /\ 0 \in Nat /\ 0 \in Int
      BY DEF Stages, Dulls
    <3>2. QED
      BY <1>1, <2>3, <3>1 DEF Fetches, Idle
  <2>5. /\ j.stage = "ask" /\ j.order = Tail(job[p].order) /\ j.rows = {}
        /\ j.asked = job[p].asked /\ j.slow = job[p].slow /\ j.newest = job[p].newest
        /\ j.cached = job[p].cached /\ j.pages = 0
    BY <1>1 DEF Fetches
  <2> HIDE DEF j
  <2>6. FetchOK(j, now, overlapped)
    <3>1. IsFiniteSet({}) /\ Cardinality({}) = 0 /\ j.asked.limit \in Nat \ {0}
      <4>1. j.asked \in Asked
        BY <1>1, <2>5 DEF Fetches
      <4>2. QED
        BY <4>1, FS_EmptySet DEF Asked
    <3>2. Cardinality(j.rows) < j.asked.limit
      BY <2>5, <3>1
    <3>3. /\ First + job[p].slow <= now /\ job[p].newest <= now
          /\ (job[p].stage \in {"save", "write", "rename"}) = (job[p].newest # 0)
          /\ job[p].newest # 0 => now <= job[p].newest + Behind + job[p].slow
          /\ \A i \in DOMAIN job[p].cached :
              /\ job[p].cached[i].newest <= now
              /\ ~overlapped => job[p].cached[i].at <= job[p].cached[i].newest + Behind + MaxSlow
      BY <1>1 DEF FetchOK
    <3>4. job[p].newest = 0
      BY <3>3
    <3>5. QED
      BY <2>3, <2>5, <3>1, <3>2, <3>3, <3>4 DEF FetchOK
  <2>7. job' \in [Clients -> Jobs] /\ job'[p] = j /\ \A q \in Clients \ {p} : job'[q] = job[q]
    BY <2>2, <2>4 DEF Inv, Typed, Jobs
  <2>8. QED
    BY <2>1, <2>5, <2>6, <2>7 DEF Proceeds, Saving, Inv
<1>3. CASE ~(Len(job[p].order) > 1)
  <2>1. FallBack(p)
    BY <1>3 DEF SourceFails
  <2>2. QED
    BY <2>1, FallBackProceeds
<1>4. QED
  BY <1>2, <1>3

\* A source brought a frame: it is saved, refused, or empty.
LEMMA SourceAnswersProceeds ==
    ASSUME Inv, NEW p \in Clients, job[p] # Idle, job[p].stage \in {"ask", "page"},
           NEW newest, newest \in 0..now, SourceAnswers(p, newest),
           newest # 0 => now <= newest + Behind + job[p].slow
    PROVE  Proceeds(p) /\ cache' = cache
<1>1. job[p] \in Fetches /\ FetchOK(job[p], now, overlapped)
  BY DEF Inv, Typed, Jobs
<1>2. CASE newest = 0
  <2>1. FallBack(p)
    BY <1>2 DEF SourceAnswers
  <2>2. QED
    BY <2>1, FallBackProceeds
<1>3. CASE newest # 0 /\ Refused(newest)
  <2>1. SourceFails(p)
    BY <1>3 DEF SourceAnswers
  <2>2. QED
    BY <2>1, SourceFailsProceeds
<1>4. CASE newest # 0 /\ ~Refused(newest)
  <2>1. /\ job' = [job EXCEPT ![p].stage = "save", ![p].newest = newest, ![p].order = <<>>,
                              ![p].rows = {}, ![p].since = 0, ![p].dull = 0, ![p].pages = 0]
        /\ answer' = answer /\ cache' = cache
    BY <1>4 DEF SourceAnswers
  <2> DEFINE j == [job[p] EXCEPT !.stage = "save", !.newest = newest, !.order = <<>>,
                                 !.rows = {}, !.since = 0, !.dull = 0, !.pages = 0]
  <2>2. job' = [job EXCEPT ![p] = j]
    BY <2>1
  <2>3. newest \in Candles
    BY BehindBounds DEF Candles, Inv, Typed
  <2>4. j \in Fetches /\ j # Idle
    <3>1. {} \in SUBSET Int /\ "save" \in Stages /\ 0 \in Dulls /\ 0 \in Nat /\ 0 \in Int
      BY DEF Stages, Dulls
    <3>2. <<>> \in Seq(Sources)
      OBVIOUS
    <3>3. QED
      BY <1>1, <2>3, <3>1, <3>2 DEF Fetches, Idle
  <2>5. /\ j.stage = "save" /\ j.order = <<>> /\ j.rows = {} /\ j.newest = newest /\ j.pages = 0
        /\ j.asked = job[p].asked /\ j.slow = job[p].slow /\ j.cached = job[p].cached
    BY <1>1 DEF Fetches
  <2> HIDE DEF j
  <2>6. FetchOK(j, now, overlapped)
    <3>1. IsFiniteSet({}) /\ Cardinality({}) = 0 /\ j.asked.limit \in Nat \ {0}
      <4>1. j.asked \in Asked
        BY <1>1, <2>5 DEF Fetches
      <4>2. QED
        BY <4>1, FS_EmptySet DEF Asked
    <3>2. Cardinality(j.rows) < j.asked.limit
      BY <2>5, <3>1
    <3>3. /\ First + job[p].slow <= now
          /\ \A i \in DOMAIN job[p].cached :
              /\ job[p].cached[i].newest <= now
              /\ ~overlapped => job[p].cached[i].at <= job[p].cached[i].newest + Behind + MaxSlow
      BY <1>1 DEF FetchOK
    <3>4. newest <= now /\ newest # 0
      BY <1>4, BehindBounds DEF Inv, Typed
    <3>5. QED
      BY <2>5, <3>1, <3>2, <3>3, <3>4 DEF FetchOK
  <2>7. job' \in [Clients -> Jobs] /\ job'[p] = j /\ \A q \in Clients \ {p} : job'[q] = job[q]
    BY <2>2, <2>4 DEF Inv, Typed, Jobs
  <2>8. QED
    BY <2>1, <2>5, <2>6, <2>7 DEF Proceeds, Saving, Inv
<1>5. QED
  BY <1>2, <1>3, <1>4

-----------------------------------------------------------------------------
(* The pages of a paged request                                            *)

LEMMA TopOf ==
    ASSUME NEW S \in SUBSET Int, IsFiniteSet(S), S # {}
    PROVE  Top(S) \in S /\ \A x \in S : x <= Top(S)
<1>1. \E x \in S : \A y \in S : y <= x
  BY Extremes
<1>2. QED
  BY <1>1 DEF Top

\* A page holds the newest candle its feed knows; or is empty, as the request
\* went past that candle; or goes on without a gap from where it was to begin.
PageOK(page, since, time) ==
    \/ \E k \in page : 1 <= k /\ time <= k + Behind
    \/ page = {} /\ \E k \in 1..(since - 1) : time <= k + Behind
    \/ \E last \in Int : since <= last /\ page = since..last

LEMMA PageSound ==
    ASSUME Inv, NEW size \in Nat \ {0}, NEW since \in Int, NEW page \in Pages(size, since)
    PROVE  /\ page \in SUBSET Int /\ IsFiniteSet(page) /\ \A c \in page : c <= now
           /\ PageOK(page, since, now)
<1>1. now \in First..Last /\ now \in Nat
  BY BehindBounds DEF Inv, Typed
<1>2. CASE \E k \in Known : page = (k - size + 1)..k
  <2>1. PICK k \in Known : page = (k - size + 1)..k
    BY <1>2
  <2>2. k \in 1..now /\ now <= k + Behind
    BY <1>1, KnownRecent
  <2>3. k \in page /\ page \in SUBSET Int /\ \A c \in page : c <= now
    BY <1>1, <2>1, <2>2
  <2>4. IsFiniteSet(page)
    <3>1. k \in Int /\ k - size + 1 \in Int
      BY <2>2, <1>1
    <3>2. QED
      BY <2>1, <3>1, FS_Interval
  <2>5. PageOK(page, since, now)
    BY <2>2, <2>3 DEF PageOK
  <2>6. QED
    BY <2>3, <2>4, <2>5
<1>3. CASE \E k \in Known : page = {c \in since..k : c < since + size}
  <2>1. PICK k \in Known : page = {c \in since..k : c < since + size}
    BY <1>3
  <2>2. k \in 1..now /\ now <= k + Behind
    BY <1>1, KnownRecent
  <2> DEFINE last == IF k < since + size THEN k ELSE since + size - 1
  <2>3. last \in Int /\ last <= now /\ page = since..last
    BY <1>1, <2>1, <2>2
  <2>4. last < since => page = {} /\ k \in 1..(since - 1)
    BY <1>1, <2>1, <2>2
  <2> HIDE DEF last
  <2>5. page \in SUBSET Int /\ \A c \in page : c <= now
    BY <1>1, <2>3
  <2>6. IsFiniteSet(page)
    BY <2>3, FS_Interval
  <2>7. PageOK(page, since, now)
    BY <2>2, <2>3, <2>4 DEF PageOK
  <2>8. QED
    BY <2>5, <2>6, <2>7
<1>4. QED
  BY <1>2, <1>3 DEF Pages

\* The rows in hand, and the page that comes, while p pages.
PagingWith(p, page) ==
    /\ job[p].stage = "page"
    /\ page \in SUBSET Int /\ IsFiniteSet(page) /\ \A c \in page : c <= now
    /\ PageOK(page, job[p].since, now)

LEMMA PagingFacts ==
    ASSUME Inv, NEW p \in Clients, NEW page, PagingWith(p, page)
    PROVE  /\ job[p] \in Fetches /\ FetchOK(job[p], now, overlapped)
           /\ now \in Nat /\ now <= Last /\ job[p].slow \in Nat /\ First + job[p].slow <= now
           /\ job[p].asked.limit \in Nat \ {0} /\ job[p].since \in Int
           /\ job[p].rows \in SUBSET Int /\ IsFiniteSet(job[p].rows)
           /\ Cardinality(job[p].rows) \in Nat
           /\ Cardinality(job[p].rows) < job[p].asked.limit
           /\ job[p].dull \in 0..2 /\ job[p].pages \in Nat
           /\ RowsOf(job[p], now) /\ PageCount(job[p])
<1>1. job[p] # Idle
  BY DEF PagingWith, Idle
<1>2. job[p] \in Fetches /\ FetchOK(job[p], now, overlapped)
  BY <1>1 DEF Inv, Typed, Jobs
<1>3. /\ job[p].asked \in Asked /\ job[p].since \in Int /\ job[p].rows \in SUBSET Int
      /\ job[p].dull \in Dulls /\ job[p].pages \in Nat /\ job[p].slow \in Slows
  BY <1>2 DEF Fetches
<1>4. now \in Nat /\ now <= Last
  BY BehindBounds DEF Inv, Typed
<1>5. job[p].slow \in Nat
  BY <1>3, BehindBounds DEF Slows
<1>6. job[p].asked.limit \in Nat \ {0} /\ job[p].dull \in 0..2
  BY <1>3 DEF Asked, Dulls
<1>7. /\ IsFiniteSet(job[p].rows) /\ Cardinality(job[p].rows) < job[p].asked.limit
      /\ First + job[p].slow <= now /\ RowsOf(job[p], now) /\ PageCount(job[p])
  BY <1>2 DEF FetchOK, PagingWith
<1>8. Cardinality(job[p].rows) \in Nat
  BY <1>7, FS_CardinalityType
<1>9. QED
  BY <1>2, <1>3, <1>4, <1>5, <1>6, <1>7, <1>8

\* The rows with the page: they hold a newest candle, or have no gap.
GrowsTo(j, page, rows, time) ==
    /\ rows \in SUBSET Int /\ IsFiniteSet(rows) /\ \A c \in rows : c <= time
    /\ \/ \E c \in rows : 1 <= c /\ time <= c + Behind + j.slow
       \/ /\ rows = j.rows
          /\ page = {}
          /\ rows # {} => \E c \in rows : 1 <= c /\ time <= c + Behind
       \/ /\ rows # j.rows
          /\ page # {}
          /\ \E first \in Int, last \in Int :
               /\ rows = first..last /\ first <= last
               /\ time <= first + j.asked.limit + 2 + j.slow
               /\ last \in page /\ \A c \in page : c <= last

LEMMA RowsWithPage ==
    ASSUME Inv, NEW p \in Clients, NEW page, PagingWith(p, page)
    PROVE  GrowsTo(job[p], page, job[p].rows \cup page, now)
<1> DEFINE rows == job[p].rows \cup page
<1>1. /\ now \in Nat /\ job[p].slow \in Nat /\ job[p].since \in Int
      /\ job[p].rows \in SUBSET Int /\ IsFiniteSet(job[p].rows)
      /\ job[p].asked.limit \in Nat \ {0} /\ RowsOf(job[p], now)
  BY PagingFacts
<1>2. /\ page \in SUBSET Int /\ IsFiniteSet(page) /\ \A c \in page : c <= now
      /\ PageOK(page, job[p].since, now)
  BY DEF PagingWith
<1>3. rows \in SUBSET Int /\ \A c \in rows : c <= now
  <2>1. \A c \in job[p].rows : c <= now
    BY PagingFacts DEF FetchOK
  <2>2. QED
    BY <1>1, <1>2, <2>1
<1>4. IsFiniteSet(rows)
  BY <1>1, <1>2, FS_Union
<1>5. ASSUME \E c \in job[p].rows : 1 <= c /\ now <= c + Behind + job[p].slow
      PROVE  \E c \in rows : 1 <= c /\ now <= c + Behind + job[p].slow
  BY <1>5
<1>6. ASSUME \E k \in page : 1 <= k /\ now <= k + Behind
      PROVE  \E c \in rows : 1 <= c /\ now <= c + Behind + job[p].slow
  <2>1. PICK k \in page : 1 <= k /\ now <= k + Behind
    BY <1>6
  <2>2. k \in rows /\ 1 <= k /\ now <= k + Behind + job[p].slow
    BY <1>1, <1>2, <2>1, BehindBounds
  <2>3. QED
    BY <2>2
<1>7. ASSUME NEW first \in Int, job[p].rows = first..(job[p].since - 1), first <= job[p].since,
             now <= first + job[p].asked.limit + 2 + job[p].slow,
             page = {}, NEW k \in 1..(job[p].since - 1), now <= k + Behind
      PROVE  rows = job[p].rows /\ (rows # {} => \E c \in rows : 1 <= c /\ now <= c + Behind)
  <2>1. rows = job[p].rows
    BY <1>7
  <2>2. ASSUME rows # {} PROVE \E c \in rows : 1 <= c /\ now <= c + Behind
    <3>1. job[p].since - 1 \in rows
      <4> DEFINE since == job[p].since
      <4>1. since \in Int
        BY <1>1
      <4>2. first..(since - 1) # {}
        BY <1>7, <2>1, <2>2
      <4> HIDE DEF since
      <4>3. since - 1 \in first..(since - 1)
        BY <4>1, <4>2
      <4>4. rows = first..(since - 1)
        BY <1>7, <2>1 DEF since
      <4>5. since - 1 \in rows
        BY <4>3, <4>4
      <4>6. QED
        BY <4>5 DEF since
    <3>2. 1 <= job[p].since - 1 /\ now <= job[p].since - 1 + Behind
      BY <1>1, <1>7, BehindBounds
    <3>3. QED
      BY <3>1, <3>2
  <2>3. QED
    BY <2>1, <2>2
<1>8. ASSUME NEW first \in Int, job[p].rows = first..(job[p].since - 1), first <= job[p].since,
             NEW last \in Int, job[p].since <= last, page = job[p].since..last
      PROVE  /\ rows # job[p].rows /\ page # {}
             /\ rows = first..last /\ first <= last
             /\ last \in page /\ \A c \in page : c <= last
  <2>1. last \in page /\ \A c \in page : c <= last
    BY <1>1, <1>8
  <2>2. last \notin job[p].rows
    BY <1>1, <1>8
  <2>3. rows = first..last /\ first <= last
    BY <1>1, <1>8
  <2>4. QED
    BY <2>1, <2>2, <2>3
<1> HIDE DEF rows
<1>9. \/ \E c \in rows : 1 <= c /\ now <= c + Behind + job[p].slow
      \/ /\ rows = job[p].rows
         /\ page = {}
         /\ rows # {} => \E c \in rows : 1 <= c /\ now <= c + Behind
      \/ /\ rows # job[p].rows
         /\ page # {}
         /\ \E first \in Int, last \in Int :
              /\ rows = first..last /\ first <= last
              /\ now <= first + job[p].asked.limit + 2 + job[p].slow
              /\ last \in page /\ \A c \in page : c <= last
  <2>1. CASE \E first \in Int :
               /\ job[p].rows = first..(job[p].since - 1) /\ first <= job[p].since
               /\ now <= first + job[p].asked.limit + 2 + job[p].slow
    <3>1. PICK first \in Int :
               /\ job[p].rows = first..(job[p].since - 1) /\ first <= job[p].since
               /\ now <= first + job[p].asked.limit + 2 + job[p].slow
      BY <2>1
    <3>2. CASE page = {} /\ \E k \in 1..(job[p].since - 1) : now <= k + Behind
      BY <1>7, <3>1, <3>2
    <3>3. CASE \E last \in Int : job[p].since <= last /\ page = job[p].since..last
      <4>1. PICK last \in Int : job[p].since <= last /\ page = job[p].since..last
        BY <3>3
      <4>2. /\ rows # job[p].rows /\ page # {}
            /\ rows = first..last /\ first <= last
            /\ last \in page /\ \A c \in page : c <= last
        BY <1>8, <3>1, <4>1
      <4>3. QED
        BY <3>1, <4>2
    <3>4. QED
      BY <1>2, <1>6, <3>2, <3>3 DEF PageOK, rows
  <2>2. QED
    BY <1>1, <1>5, <2>1 DEF RowsOf, rows
<1>10. QED
  BY <1>3, <1>4, <1>9 DEF rows, GrowsTo

\* The end of the pages brings a frame no older than allowed.
LEMMA PagesEnd ==
    ASSUME Inv, NEW p \in Clients, NEW page, PagingWith(p, page),
           NEW rows, rows = job[p].rows \cup page, rows # {},
           NEW dull, dull = IF rows = job[p].rows THEN job[p].dull + 1 ELSE 0,
           page = {} \/ PagedEnough(p, rows, dull)
    PROVE  Top(rows) \in 1..now /\ now <= Top(rows) + Behind + job[p].slow
<1>1. GrowsTo(job[p], page, rows, now)
  BY RowsWithPage
<1>2. /\ now \in Nat /\ job[p].slow \in Nat /\ First + job[p].slow <= now
      /\ job[p].asked.limit \in Nat \ {0}
  BY PagingFacts
<1>3. Top(rows) \in rows /\ \A x \in rows : x <= Top(rows)
  BY <1>1, TopOf DEF GrowsTo
<1>4. Top(rows) \in Int /\ Top(rows) <= now
  BY <1>1, <1>3 DEF GrowsTo
<1>5. ASSUME NEW c \in rows, 1 <= c, now <= c + Behind + job[p].slow
      PROVE  Top(rows) \in 1..now /\ now <= Top(rows) + Behind + job[p].slow
  <2>1. c <= Top(rows) /\ c \in Int
    BY <1>1, <1>3 DEF GrowsTo
  <2>2. QED
    BY <1>2, <1>4, <1>5, <2>1, BehindBounds
<1>6. ASSUME rows # {} => \E c \in rows : 1 <= c /\ now <= c + Behind
      PROVE  Top(rows) \in 1..now /\ now <= Top(rows) + Behind + job[p].slow
  <2>1. PICK c \in rows : 1 <= c /\ now <= c + Behind
    BY <1>6
  <2>2. c \in Int
    BY <1>1 DEF GrowsTo
  <2>3. now <= c + Behind + job[p].slow
    BY <1>2, <2>1, <2>2, BehindBounds
  <2>4. QED
    BY <1>5, <2>1, <2>3
<1>7. ASSUME rows # job[p].rows, page # {}, NEW first \in Int, NEW last \in Int,
             rows = first..last, first <= last,
             now <= first + job[p].asked.limit + 2 + job[p].slow
      PROVE  Top(rows) \in 1..now /\ now <= Top(rows) + Behind + job[p].slow
  <2>1. dull = 0
    BY <1>7
  <2>2. Cardinality(rows) >= job[p].asked.limit
    BY <1>7, <2>1 DEF PagedEnough
  <2>3. Cardinality(rows) = last - first + 1
    <3>1. Cardinality(first..last) = IF first > last THEN 0 ELSE last - first + 1
      BY FS_Interval
    <3>2. Cardinality(first..last) = last - first + 1
      BY <1>7, <3>1
    <3>3. QED
      BY <1>7, <3>2, Zenon
  <2>4. last \in rows
    BY <1>7
  <2>5. last <= Top(rows)
    BY <1>3, <2>4
  <2>6. first + job[p].asked.limit - 1 <= last
    BY <1>2, <1>7, <2>2, <2>3
  <2> DEFINE top == Top(rows)
  <2> DEFINE limit == job[p].asked.limit
  <2> DEFINE slow == job[p].slow
  <2>7. now <= top + 3 + slow
    <3>1. /\ top \in Int /\ limit \in Int /\ slow \in Int /\ now \in Int
          /\ last <= top /\ first + limit - 1 <= last /\ now <= first + limit + 2 + slow
      BY <1>2, <1>4, <1>7, <2>5, <2>6
    <3> HIDE DEF top, limit, slow
    <3>2. QED
      BY <3>1
  <2>8. QED
    BY <1>2, <1>4, <2>7, BehindBounds
<1>8. QED
  BY <1>1, <1>5, <1>6, <1>7 DEF GrowsTo

\* The pages go on, with the rows and the count of them.
LEMMA PagesGoOn ==
    ASSUME Inv, NEW p \in Clients, NEW page, PagingWith(p, page), page # {},
           NEW rows, rows = job[p].rows \cup page,
           NEW dull, dull = IF rows = job[p].rows THEN job[p].dull + 1 ELSE 0,
           ~PagedEnough(p, rows, dull),
           NEW j \in Fetches, j.rows = rows, j.dull = dull, j.pages = job[p].pages + 1,
           j.since = Top(page) + 1, j.slow = job[p].slow, j.asked = job[p].asked
    PROVE  RowsOf(j, now) /\ PageCount(j)
<1>1. GrowsTo(job[p], page, rows, now)
  BY RowsWithPage
<1>2. /\ now \in Nat /\ job[p].slow \in Nat /\ job[p].dull \in 0..2 /\ job[p].pages \in Nat
      /\ job[p].rows \in SUBSET Int /\ IsFiniteSet(job[p].rows)
      /\ Cardinality(job[p].rows) \in Nat /\ PageCount(job[p])
  BY PagingFacts
<1>3. RowsOf(j, now)
  <2>1. CASE \E c \in rows : 1 <= c /\ now <= c + Behind + job[p].slow
    BY <2>1 DEF RowsOf
  <2>2. ASSUME NEW first \in Int, NEW last \in Int, rows = first..last, first <= last,
               now <= first + job[p].asked.limit + 2 + job[p].slow,
               last \in page, \A c \in page : c <= last
        PROVE  RowsOf(j, now)
    <3>1. page \in SUBSET Int /\ IsFiniteSet(page)
      BY DEF PagingWith
    <3>2. Top(page) \in page /\ \A c \in page : c <= Top(page)
      BY <3>1, TopOf
    <3>3. Top(page) = last
      BY <2>2, <3>1, <3>2
    <3>4. j.rows = first..(j.since - 1) /\ first <= j.since
      BY <2>2, <3>3
    <3>5. QED
      BY <2>2, <3>4 DEF RowsOf
  <2>3. QED
    BY <1>1, <2>1, <2>2 DEF GrowsTo
<1>4. PageCount(j)
  <2>1. rows # {} /\ IsFiniteSet(rows) /\ Cardinality(rows) \in Nat
    BY <1>1, FS_CardinalityType DEF GrowsTo
  <2>2. CASE rows = job[p].rows
    <3>1. dull = job[p].dull + 1
      BY <2>2
    <3>2. job[p].pages <= 3 * (Cardinality(rows) - 1) + 1 + job[p].dull
      BY <1>2, <2>1, <2>2 DEF PageCount
    <3>3. j.pages <= 3 * (Cardinality(rows) - 1) + 1 + dull
      BY <1>2, <2>1, <3>1, <3>2
    <3>4. QED
      BY <2>1, <3>3 DEF PageCount
  <2>3. CASE rows # job[p].rows /\ job[p].rows = {}
    <3>1. Cardinality(rows) # 0
      BY <2>1, FS_EmptySet
    <3>2. QED
      BY <1>2, <2>1, <2>3, <3>1 DEF PageCount
  <2>4. CASE rows # job[p].rows /\ job[p].rows # {}
    <3>1. Cardinality(job[p].rows) < Cardinality(rows)
      BY <1>2, <2>1, <2>4, FS_Subset
    <3>2. QED
      BY <1>2, <2>1, <2>4, <3>1 DEF PageCount
  <2>5. QED
    BY <2>2, <2>3, <2>4
<1>5. QED
  BY <1>3, <1>4

LEMMA PageProceeds ==
    ASSUME Inv, NEW p \in Clients, Page(p)
    PROVE  Proceeds(p) /\ cache' = cache
<1>1. job[p].stage = "page" /\ job[p].stage \in {"ask", "page"} /\ job[p] # Idle
  <2>1. job[p].stage = "page"
    BY DEF Page
  <2>2. QED
    BY <2>1 DEF Idle
<1>2. CASE SourceFails(p)
  BY <1>1, <1>2, SourceFailsProceeds
<1>3. CASE ~SourceFails(p)
  <2> DEFINE left == job[p].asked.limit - Cardinality(job[p].rows)
  <2> DEFINE size == IF left < RequestLimit THEN left ELSE RequestLimit
  <2>1. PICK page \in Pages(size, job[p].since) :
          LET rows == job[p].rows \cup page
              dull == IF rows = job[p].rows THEN job[p].dull + 1 ELSE 0
          IN  IF page = {} \/ PagedEnough(p, rows, dull)
              THEN IF rows = {} THEN SourceFails(p) ELSE SourceAnswers(p, Top(rows))
              ELSE /\ job' = [job EXCEPT ![p].rows = rows, ![p].dull = dull,
                                         ![p].pages = @ + 1, ![p].since = Top(page) + 1]
                   /\ answer' = answer /\ cache' = cache
    BY <1>3 DEF Page
  <2>2. size \in Nat \ {0} /\ job[p].since \in Int
    <3>1. job[p] \in Fetches /\ FetchOK(job[p], now, overlapped)
      BY <1>1 DEF Inv, Typed, Jobs
    <3>2. job[p].asked \in Asked /\ job[p].since \in Int
      BY <3>1 DEF Fetches
    <3>3. job[p].asked.limit \in Nat
      BY <3>2 DEF Asked
    <3>4. Cardinality(job[p].rows) \in Nat /\ Cardinality(job[p].rows) < job[p].asked.limit
      BY <3>1, FS_CardinalityType DEF FetchOK
    <3>5. left \in Nat \ {0}
      BY <3>3, <3>4
    <3> HIDE DEF left
    <3>6. QED
      BY <3>2, <3>5, AgesAssumption
  <2> HIDE DEF size, left
  <2>3. PagingWith(p, page)
    BY <1>1, <2>2, PageSound DEF PagingWith
  <2> DEFINE rows == job[p].rows \cup page
  <2> DEFINE dull == IF rows = job[p].rows THEN job[p].dull + 1 ELSE 0
  <2>4. GrowsTo(job[p], page, rows, now)
    BY <2>3, RowsWithPage
  <2>5. CASE page = {} \/ PagedEnough(p, rows, dull)
    <3>1. CASE rows = {}
      <4>1. SourceFails(p)
        BY <2>1, <2>5, <3>1
      <4>2. QED
        BY <1>3, <4>1
    <3>2. CASE rows # {}
      <4>1. SourceAnswers(p, Top(rows))
        BY <2>1, <2>5, <3>2
      <4>2. Top(rows) \in 1..now /\ now <= Top(rows) + Behind + job[p].slow
        BY <2>3, <2>5, <3>2, PagesEnd
      <4>3. Top(rows) \in 0..now
        BY <4>2, BehindBounds DEF Inv, Typed
      <4> HIDE DEF rows
      <4>4. QED
        BY <1>1, <4>1, <4>2, <4>3, SourceAnswersProceeds
    <3>3. QED
      BY <3>1, <3>2
  <2>6. CASE ~(page = {} \/ PagedEnough(p, rows, dull))
    <3>1. /\ job' = [job EXCEPT ![p].rows = rows, ![p].dull = dull,
                                ![p].pages = @ + 1, ![p].since = Top(page) + 1]
          /\ answer' = answer /\ cache' = cache
      BY <2>1, <2>6
    <3>2. job[p] \in Fetches /\ FetchOK(job[p], now, overlapped) /\ job[p].dull \in 0..2
      BY <2>3, PagingFacts
    <3>3. rows \in SUBSET Int /\ IsFiniteSet(rows) /\ \A c \in rows : c <= now
      BY <2>4 DEF GrowsTo
    <3>4. ~(Cardinality(rows) >= job[p].asked.limit) /\ dull # 3
      BY <2>6 DEF PagedEnough
    <3>5. dull \in Dulls
      BY <3>2, <3>4 DEF Dulls
    <3>6. Top(page) + 1 \in Int
      <4>1. page \in SUBSET Int /\ IsFiniteSet(page) /\ page # {}
        BY <2>3, <2>6 DEF PagingWith
      <4>2. Top(page) \in page
        BY <4>1, TopOf
      <4>3. Top(page) \in Int
        BY <4>1, <4>2
      <4>4. QED
        BY <4>3
    <3>7. Cardinality(rows) < job[p].asked.limit
      <4>1. job[p].asked \in Asked
        BY <3>2 DEF Fetches
      <4>2. job[p].asked.limit \in Nat /\ Cardinality(rows) \in Nat
        BY <3>3, <4>1, FS_CardinalityType DEF Asked
      <4>3. QED
        BY <3>4, <4>2
    <3> HIDE DEF rows, dull
    <3> DEFINE j == [job[p] EXCEPT !.rows = rows, !.dull = dull, !.pages = @ + 1,
                                   !.since = Top(page) + 1]
    <3>8. job' = [job EXCEPT ![p] = j]
      BY <3>1
    <3>9. j \in Fetches /\ j # Idle
      <4>1. job[p].pages + 1 \in Nat /\ rows \in SUBSET Int
        BY <3>2, <3>3 DEF Fetches
      <4>2. QED
        BY <1>1, <3>2, <3>5, <3>6, <4>1 DEF Fetches, Idle
    <3>10. /\ j.stage = "page" /\ j.order = job[p].order /\ j.rows = rows /\ j.dull = dull
           /\ j.pages = job[p].pages + 1 /\ j.since = Top(page) + 1
           /\ j.asked = job[p].asked /\ j.slow = job[p].slow /\ j.newest = job[p].newest
           /\ j.cached = job[p].cached
      BY <1>1, <3>2 DEF Fetches
    <3> HIDE DEF j
    <3>11. RowsOf(j, now) /\ PageCount(j)
      BY <2>3, <2>6, <3>9, <3>10, PagesGoOn DEF rows, dull
    <3>12. FetchOK(j, now, overlapped)
      <4>1. /\ First + job[p].slow <= now /\ job[p].newest <= now
            /\ (job[p].stage \in {"save", "write", "rename"}) = (job[p].newest # 0)
            /\ (job[p].stage \in {"ask", "page"}) = (job[p].order # <<>>)
            /\ job[p].newest # 0 => now <= job[p].newest + Behind + job[p].slow
            /\ \A i \in DOMAIN job[p].cached :
                /\ job[p].cached[i].newest <= now
                /\ ~overlapped => job[p].cached[i].at <= job[p].cached[i].newest + Behind + MaxSlow
        BY <3>2 DEF FetchOK
      <4>2. QED
        BY <1>1, <3>3, <3>7, <3>10, <3>11, <4>1 DEF FetchOK
    <3>13. job' \in [Clients -> Jobs] /\ job'[p] = j /\ \A q \in Clients \ {p} : job'[q] = job[q]
      BY <3>8, <3>9 DEF Inv, Typed, Jobs
    <3>14. QED
      BY <3>1, <3>10, <3>12, <3>13 DEF Proceeds, Saving, Inv
  <2>7. QED
    BY <2>5, <2>6
<1>4. QED
  BY <1>2, <1>3

LEMMA AskSourceProceeds ==
    ASSUME Inv, NEW p \in Clients, AskSource(p)
    PROVE  Proceeds(p) /\ cache' = cache /\ link' \in [Clients -> Links]
<1>1. job[p].stage = "ask" /\ job[p].stage \in {"ask", "page"} /\ job[p] # Idle
  BY DEF AskSource, Idle
<1>2. job[p] \in Fetches /\ FetchOK(job[p], now, overlapped)
  BY <1>1 DEF Inv, Typed, Jobs
<1>3. Head(job[p].order) \in Sources
  <2>1. job[p].order \in Seq(Sources) /\ job[p].order # <<>>
    BY <1>1, <1>2 DEF Fetches, FetchOK
  <2>2. QED
    BY <2>1
<1>4. PICK got \in Answers(Head(job[p].order), p) :
        /\ IF got = Raise THEN SourceFails(p) ELSE SourceAnswers(p, got)
        /\ link' = IF Head(job[p].order) = "mt5" /\ got # Raise
                   THEN [link EXCEPT ![p] = "open"] ELSE link
  BY DEF AskSource
<1>5. link' \in [Clients -> Links]
  BY <1>4 DEF Inv, Typed, Links
<1>6. CASE got = Raise
  BY <1>1, <1>4, <1>5, <1>6, SourceFailsProceeds
<1>7. CASE got # Raise
  <2>1. now \in First..Last
    BY DEF Inv, Typed
  <2>2. got = 0 \/ (got \in 1..now /\ now <= got + Behind)
    BY <1>3, <1>7, <2>1, AnswersRecent
  <2>3. got \in 0..now /\ (got # 0 => now <= got + Behind + job[p].slow)
    <3>1. job[p].slow \in Slows
      BY <1>2 DEF Fetches
    <3>2. QED
      BY <2>1, <2>2, <3>1, BehindBounds DEF Slows
  <2>4. SourceAnswers(p, got)
    BY <1>4, <1>7
  <2>5. QED
    BY <1>1, <1>5, <2>3, <2>4, SourceAnswersProceeds
<1>8. QED
  BY <1>6, <1>7

LEMMA StartPagingProceeds ==
    ASSUME Inv, NEW p \in Clients, StartPaging(p)
    PROVE  Proceeds(p)
<1>1. job[p].stage = "ask" /\ job[p] # Idle /\ answer' = answer
  BY DEF StartPaging, Idle
<1>2. job[p] \in Fetches /\ FetchOK(job[p], now, overlapped)
  BY <1>1 DEF Inv, Typed, Jobs
<1>3. PICK back \in {1, 2} :
        job' = [job EXCEPT ![p].stage = "page", ![p].rows = {}, ![p].dull = 0,
                           ![p].since = now - job[p].asked.limit - back]
  BY DEF StartPaging
<1> DEFINE since == now - job[p].asked.limit - back
<1>4. /\ now \in Nat /\ job[p].asked.limit \in Nat \ {0} /\ job[p].slow \in Nat
      /\ since \in Int /\ now <= since + job[p].asked.limit + 2 + job[p].slow
  <2>1. job[p].asked \in Asked /\ job[p].slow \in Slows
    BY <1>2 DEF Fetches
  <2>2. now \in Nat /\ job[p].asked.limit \in Nat \ {0} /\ job[p].slow \in Nat
    BY <2>1, BehindBounds DEF Inv, Typed, Asked, Slows
  <2>3. QED
    BY <2>2
<1> HIDE DEF since
<1> DEFINE j == [job[p] EXCEPT !.stage = "page", !.rows = {}, !.dull = 0, !.since = since]
<1>5. job' = [job EXCEPT ![p] = j]
  BY <1>3 DEF since
<1>6. j \in Fetches /\ j # Idle
  <2>1. {} \in SUBSET Int /\ "page" \in Stages /\ 0 \in Dulls
    BY DEF Stages, Dulls
  <2>2. QED
    BY <1>2, <1>4, <2>1 DEF Fetches, Idle
<1>7. /\ j.stage = "page" /\ j.order = job[p].order /\ j.rows = {} /\ j.since = since
      /\ j.pages = job[p].pages /\ j.asked = job[p].asked /\ j.slow = job[p].slow
      /\ j.newest = job[p].newest /\ j.cached = job[p].cached
  BY <1>2 DEF Fetches
<1> HIDE DEF j
<1>8. RowsOf(j, now)
  <2>1. j.rows = since..(j.since - 1) /\ since <= j.since
    BY <1>4, <1>7
  <2>2. QED
    BY <1>4, <1>7, <2>1 DEF RowsOf
<1>9. FetchOK(j, now, overlapped)
  <2>1. IsFiniteSet({}) /\ Cardinality({}) = 0
    BY FS_EmptySet
  <2>2. Cardinality(j.rows) < j.asked.limit
    BY <1>4, <1>7, <2>1
  <2>3. /\ First + job[p].slow <= now /\ job[p].newest <= now
        /\ (job[p].stage \in {"save", "write", "rename"}) = (job[p].newest # 0)
        /\ (job[p].stage \in {"ask", "page"}) = (job[p].order # <<>>)
        /\ job[p].newest # 0 => now <= job[p].newest + Behind + job[p].slow
        /\ \A i \in DOMAIN job[p].cached :
            /\ job[p].cached[i].newest <= now
            /\ ~overlapped => job[p].cached[i].at <= job[p].cached[i].newest + Behind + MaxSlow
    BY <1>2 DEF FetchOK
  <2>4. PageCount(j)
    BY <1>1, <1>2, <1>7 DEF FetchOK, PageCount
  <2>5. QED
    BY <1>1, <1>7, <1>8, <2>1, <2>2, <2>3, <2>4 DEF FetchOK
<1>10. job' \in [Clients -> Jobs] /\ job'[p] = j /\ \A q \in Clients \ {p} : job'[q] = job[q]
  BY <1>5, <1>6 DEF Inv, Typed, Jobs
<1>11. QED
  BY <1>1, <1>7, <1>9, <1>10 DEF Proceeds, Saving, Inv

\* The provider has a source to ask, whatever DATA_SOURCE is.
LEMMA SomeSource ==
    ASSUME Inv
    PROVE  SourceOrder \in Seq(Sources) /\ SourceOrder # <<>>
<1>1. source \in (Sources \ {"download"}) \cup {"redundant"}
  BY SettingsAssumption DEF Inv, Typed
<1>2. Backups \in Seq(Sources) /\ Backups # <<>>
  BY SettingsAssumption
<1>3. \A s, t \in Sources :
        /\ <<s>> \in Seq(Sources) /\ <<s>> # <<>>
        /\ <<s, t>> \in Seq(Sources) /\ <<s, t>> # <<>>
  OBVIOUS
<1>4. "mt5" \in Sources /\ "download" \in Sources
  BY DEF Sources
<1>5. CASE source = "mt5"
  BY <1>3, <1>4, <1>5 DEF SourceOrder
<1>6. CASE source = "yahoo"
  BY <1>3, <1>4, <1>6 DEF SourceOrder
<1>7. CASE source = "redundant"
  BY <1>2, <1>7 DEF SourceOrder
<1>8. CASE source \notin {"mt5", "yahoo", "redundant"}
  <2>1. SourceOrder = <<source>>
    BY <1>8 DEF SourceOrder
  <2>2. QED
    BY <1>1, <1>3, <1>8, <2>1
<1>9. QED
  BY <1>5, <1>6, <1>7, <1>8

LEMMA TurnToProviderProceeds ==
    ASSUME Inv, NEW p \in Clients, TurnToProvider(p)
    PROVE  Proceeds(p)
<1>1. job[p].stage = "choose" /\ job[p] # Idle /\ answer' = answer
  BY DEF TurnToProvider, Idle
<1>2. job[p] \in Fetches /\ FetchOK(job[p], now, overlapped)
  BY <1>1 DEF Inv, Typed, Jobs
<1>3. job' = [job EXCEPT ![p].stage = "ask", ![p].order = SourceOrder]
  BY DEF TurnToProvider
<1>4. SourceOrder \in Seq(Sources) /\ SourceOrder # <<>>
  BY SomeSource
<1> DEFINE j == [job[p] EXCEPT !.stage = "ask", !.order = SourceOrder]
<1>5. job' = [job EXCEPT ![p] = j]
  BY <1>3
<1>6. j \in Fetches /\ j # Idle
  <2>1. "ask" \in Stages
    BY DEF Stages
  <2>2. QED
    BY <1>2, <1>4, <2>1 DEF Fetches, Idle
<1>7. /\ j.stage = "ask" /\ j.order = SourceOrder /\ j.rows = job[p].rows /\ j.pages = job[p].pages
      /\ j.asked = job[p].asked /\ j.slow = job[p].slow
      /\ j.newest = job[p].newest /\ j.cached = job[p].cached
  BY <1>2 DEF Fetches
<1> HIDE DEF j
<1>8. FetchOK(j, now, overlapped)
  BY <1>1, <1>2, <1>4, <1>7 DEF FetchOK
<1>9. job' \in [Clients -> Jobs] /\ job'[p] = j /\ \A q \in Clients \ {p} : job'[q] = job[q]
  BY <1>5, <1>6 DEF Inv, Typed, Jobs
<1>10. QED
  BY <1>1, <1>7, <1>8, <1>9 DEF Proceeds, Saving, Inv

LEMMA CacheOnlyProceeds ==
    ASSUME Inv, NEW p \in Clients, CacheOnly(p)
    PROVE  Proceeds(p)
<1>1. job[p] # Idle /\ Return(p, Cached(p), "cache_only")
  BY DEF CacheOnly, Idle
<1>2. Cached(p) \in 0..now
  BY <1>1, CachedInRange
<1>3. QED
  BY <1>1, <1>2, ReturnAnswers, EndsWell

\* The file is at most CacheTtl old, so is the frame unless it is another file's.
LEMMA ServeFreshCacheProceeds ==
    ASSUME Inv, NEW p \in Clients, ServeFreshCache(p)
    PROVE  Proceeds(p)
<1>1. job[p] # Idle /\ Return(p, Cached(p), "cache_fresh") /\ CacheIsFresh(p)
  BY DEF ServeFreshCache, Idle
<1>2. /\ Cached(p) \in 0..now
      /\ ~overlapped /\ job[p].cached # <<>> =>
           job[p].cached[1].at <= Cached(p) + Behind + MaxSlow
  BY <1>1, CachedInRange
<1>3. ASSUME CacheTtl # 0, ~overlapped, cache[1].at = job[p].cached[1].at
      PROVE  now <= Cached(p) + Behind + MaxSlow + CacheTtl
  <2>1. job[p].cached # <<>> /\ now - job[p].cached[1].at <= CacheTtl
    BY <1>1, <1>3 DEF CacheIsFresh
  <2>2. job[p].cached \in Seq(Reads)
    BY <1>1 DEF Inv, Typed, Jobs, Fetches
  <2>3. job[p].cached[1] \in Reads
    BY <2>1, <2>2
  <2>4. job[p].cached[1].at \in First..Last
    BY <2>3 DEF Reads
  <2>5. now \in Nat
    BY BehindBounds DEF Inv, Typed
  <2> DEFINE at == job[p].cached[1].at
  <2> DEFINE newest == Cached(p)
  <2>6. /\ at \in Int /\ now - at <= CacheTtl /\ at <= newest + Behind + MaxSlow
        /\ newest \in Int /\ now \in Int
    BY <1>2, <1>3, <2>1, <2>4, <2>5, BehindBounds
  <2> HIDE DEF at, newest
  <2>7. now <= newest + Behind + MaxSlow + CacheTtl
    BY <2>6, BehindBounds, AgesAssumption
  <2>8. QED
    BY <2>7 DEF newest
<1>4. AnswerOK(answer', overlapped) /\ job' = [job EXCEPT ![p] = Idle]
  BY <1>1, <1>2, <1>3, ReturnAnswers
<1>5. QED
  BY <1>4, EndsWell

LEMMA FileFacts ==
    ASSUME NEW file \in Shelf, NEW i \in DOMAIN file
    PROVE  /\ i = 1 /\ file # <<>> /\ DOMAIN file = {1}
           /\ file[i].newest \in Candles \ {0} /\ file[i].at \in First..Last
           /\ file[i].whole \in BOOLEAN /\ file[i].shared \in BOOLEAN
           /\ file[i].writers \in SUBSET Clients
<1>1. file \in Seq(Files) /\ (file # <<>> => Len(file) = 1)
  BY DEF Shelf
<1>2. file # <<>> /\ DOMAIN file = {1}
  BY <1>1
<1>3. file[i] \in Files
  BY <1>1
<1>4. QED
  BY <1>2, <1>3 DEF Files

\* What a client may read of the cache file.
LEMMA CacheReadable ==
    ASSUME Inv, NEW read \in CacheReads
    PROVE  /\ read \in Seq(Reads)
           /\ \A i \in DOMAIN read :
                /\ read[i].newest <= now
                /\ ~overlapped => read[i].at <= read[i].newest + Behind + MaxSlow
<1>1. CASE read = <<>>
  BY <1>1
<1>2. CASE read # <<>>
  <2>1. cache # <<>>
    BY <1>2 DEF CacheReads
  <2>2. cache \in Shelf /\ 1 \in DOMAIN cache
    BY <2>1 DEF Inv, Typed, Shelf
  <2>3. /\ cache[1].newest \in Candles \ {0} /\ cache[1].at \in First..Last
        /\ cache[1].whole \in BOOLEAN
    BY <2>2, FileFacts
  <2>4. /\ cache[1].newest <= now
        /\ ~overlapped => cache[1].whole
        /\ ~overlapped => cache[1].at <= cache[1].newest + Behind + MaxSlow
    BY <2>2 DEF Inv, FilesOK, SaversApart
  <2>5. PICK newest \in {cache[1].newest, cache[1].newest - 1} :
          /\ read = <<[newest |-> newest, at |-> cache[1].at]>>
          /\ cache[1].whole => newest = cache[1].newest
    BY <1>2, <2>1, <2>3 DEF CacheReads
  <2>6. newest \in Candles /\ newest <= now
    BY <2>3, <2>4, <2>5, BehindBounds DEF Candles, Inv, Typed
  <2> DEFINE frame == [newest |-> newest, at |-> cache[1].at]
  <2>7. frame \in Reads /\ frame.newest = newest /\ frame.at = cache[1].at
    BY <2>3, <2>6 DEF Reads
  <2> HIDE DEF frame
  <2>8. read = <<frame>>
    BY <2>5 DEF frame
  <2>9. read \in Seq(Reads) /\ \A i \in DOMAIN read : read[i] = frame
    BY <2>7, <2>8
  <2>10. QED
    BY <2>4, <2>5, <2>6, <2>7, <2>9
<1>3. QED
  BY <1>1, <1>2

LEMMA StartProceeds ==
    ASSUME Inv, NEW p \in Clients, Start(p)
    PROVE  Proceeds(p)
<1>1. job[p] = Idle /\ answer' = Error
  BY DEF Start
<1>2. PICK asked \in Requests[p], read \in CacheReads :
        job' = [job EXCEPT ![p] =
              [stage |-> "choose", asked |-> asked, cached |-> read, order |-> <<>>,
               rows |-> {}, since |-> 0, dull |-> 0, pages |-> 0, newest |-> 0, slow |-> 0]]
  BY DEF Start
<1>3. asked \in Asked
  BY SettingsAssumption DEF Asked
<1>4. /\ read \in Seq(Reads)
      /\ \A i \in DOMAIN read :
           /\ read[i].newest <= now
           /\ ~overlapped => read[i].at <= read[i].newest + Behind + MaxSlow
  BY CacheReadable
<1> DEFINE j == [stage |-> "choose", asked |-> asked, cached |-> read, order |-> <<>>,
                 rows |-> {}, since |-> 0, dull |-> 0, pages |-> 0, newest |-> 0, slow |-> 0]
<1>5. job' = [job EXCEPT ![p] = j]
  BY <1>2
<1>6. j \in Fetches
  <2>1. /\ {} \in SUBSET Int /\ "choose" \in Stages /\ 0 \in Dulls /\ 0 \in Slows
        /\ 0 \in Candles /\ <<>> \in Seq(Sources)
    BY BehindBounds DEF Stages, Dulls, Slows, Candles
  <2>2. QED
    BY <1>3, <1>4, <2>1 DEF Fetches
<1>7. /\ j.stage = "choose" /\ j.order = <<>> /\ j.rows = {} /\ j.pages = 0
      /\ j.asked = asked /\ j.slow = 0 /\ j.newest = 0 /\ j.cached = read
  OBVIOUS
<1> HIDE DEF j
<1>8. FetchOK(j, now, overlapped)
  <2>1. IsFiniteSet({}) /\ Cardinality({}) = 0 /\ asked.limit \in Nat \ {0}
    BY <1>3, FS_EmptySet DEF Asked
  <2>2. Cardinality(j.rows) < j.asked.limit
    BY <1>7, <2>1
  <2>3. First + 0 <= now /\ 0 <= now
    BY BehindBounds DEF Inv, Typed
  <2>4. QED
    BY <1>4, <1>7, <2>1, <2>2, <2>3 DEF FetchOK
<1>9. job' \in [Clients -> Jobs] /\ job'[p] = j /\ \A q \in Clients \ {p} : job'[q] = job[q]
  BY <1>5, <1>6 DEF Inv, Typed, Jobs
<1>10. AnswerOK(answer', overlapped)
  <2>1. Error.lag \in 0..Last /\ Error.from = "nothing"
    BY BehindBounds DEF Error
  <2>2. QED
    BY <1>1, <2>1 DEF AnswerOK
<1>11. QED
  BY <1>7, <1>8, <1>9, <1>10 DEF Proceeds, Saving

-----------------------------------------------------------------------------
(* The files                                                               *)

\* What becomes of a file that p closes, done or not.
ClosesTo(file, p, done, after) ==
    /\ after \in Shelf /\ DOMAIN after = DOMAIN file
    /\ (after = <<>>) <=> (file = <<>>)
    /\ \A i \in DOMAIN file :
         /\ p \notin file[i].writers => after[i] = file[i]
         /\ after[i].writers = file[i].writers \ {p}
         /\ after[i].shared => file[i].shared
         /\ p \in file[i].writers => (after[i].whole <=> done /\ ~file[i].shared)

LEMMA ClosedFile ==
    ASSUME Inv, NEW p \in Clients, job[p] # Idle, NEW done \in BOOLEAN,
           done => job[p].newest # 0,
           NEW file \in Shelf, FilesOK(file, now, overlapped)
    PROVE  /\ ClosesTo(file, p, done, Closed(file, p, done))
           /\ FilesOK(Closed(file, p, done), now, overlapped)
<1> DEFINE after == Closed(file, p, done)
<1>1. job[p] \in Fetches /\ FetchOK(job[p], now, overlapped) /\ now \in First..Last
  BY DEF Inv, Typed, Jobs
<1>2. /\ job[p].newest \in Candles /\ job[p].newest <= now
      /\ (done => now <= job[p].newest + Behind + MaxSlow)
  <2>1. job[p].newest \in Candles /\ job[p].slow \in Slows
    BY <1>1 DEF Fetches
  <2>2. job[p].newest <= now /\ (done => now <= job[p].newest + Behind + job[p].slow)
    BY <1>1 DEF FetchOK
  <2>3. QED
    BY <1>1, <2>1, <2>2, BehindBounds DEF Candles, Slows
<1>3. DOMAIN after = DOMAIN file
  BY DEF Closed
<1>4. ASSUME NEW i \in DOMAIN file, p \in file[i].writers
      PROVE  /\ after[i] \in Files
             /\ after[i].newest = IF done THEN job[p].newest ELSE file[i].newest
             /\ after[i].at = now
             /\ after[i].whole <=> done /\ ~file[i].shared
             /\ after[i].shared => file[i].shared
             /\ after[i].writers = file[i].writers \ {p}
  <2>1. file[i] \in Files
    BY DEF Shelf
  <2>2. after[i] = [file[i] EXCEPT !.writers = @ \ {p}, !.at = now,
                             !.newest = IF done THEN job[p].newest ELSE @,
                             !.whole = done /\ ~file[i].shared,
                             !.shared = @ /\ file[i].writers # {p}]
    BY <1>4 DEF Closed
  <2>3. /\ (IF done THEN job[p].newest ELSE file[i].newest) \in Candles \ {0}
        /\ file[i].writers \ {p} \in SUBSET Clients
    BY <1>2, <2>1 DEF Files
  <2>4. QED
    BY <1>1, <2>1, <2>2, <2>3 DEF Files
<1>5. ASSUME NEW i \in DOMAIN file, p \notin file[i].writers
      PROVE  after[i] = file[i] /\ file[i].writers = file[i].writers \ {p}
  BY <1>5 DEF Closed
<1>6. after \in Shelf
  <2>1. \A i \in DOMAIN file : after[i] \in Files
    BY <1>4, <1>5 DEF Shelf
  <2>2. PICK n \in Nat : DOMAIN file = 1..n /\ Len(file) = n
    BY DEF Shelf
  <2>3. after = [i \in 1..n |-> after[i]]
    BY <1>3, <2>2 DEF Closed
  <2>4. after \in Seq(Files) /\ Len(after) = n
    BY <2>1, <2>2, <2>3
  <2>5. after # <<>> => n # 0
    BY <2>4
  <2>6. n # 0 => n = 1
    BY <2>2 DEF Shelf
  <2>7. QED
    BY <2>4, <2>5, <2>6 DEF Shelf
<1>7. FilesOK(after, now, overlapped)
  <2>1. ASSUME NEW i \in DOMAIN file
        PROVE  /\ after[i].newest <= now
               /\ ~overlapped /\ after[i].whole =>
                    after[i].at <= after[i].newest + Behind + MaxSlow
    <3>1. /\ file[i].newest <= now
          /\ ~overlapped /\ file[i].whole => file[i].at <= file[i].newest + Behind + MaxSlow
      BY DEF FilesOK
    <3>2. CASE p \notin file[i].writers
      BY <1>5, <3>1, <3>2
    <3>3. CASE p \in file[i].writers
      BY <1>2, <1>4, <3>1, <3>3
    <3>4. QED
      BY <3>2, <3>3
  <2>2. QED
    BY <1>3, <2>1 DEF FilesOK
<1>8. (after = <<>>) <=> (file = <<>>)
  <2>1. file \in Seq(Files) /\ after \in Seq(Files)
    BY <1>6 DEF Shelf
  <2>2. QED
    BY <1>3, <2>1
<1>9. \A i \in DOMAIN file :
        /\ p \notin file[i].writers => after[i] = file[i]
        /\ after[i].writers = file[i].writers \ {p}
        /\ after[i].shared => file[i].shared
        /\ p \in file[i].writers => (after[i].whole <=> done /\ ~file[i].shared)
  BY <1>4, <1>5
<1>10. QED
  BY <1>3, <1>6, <1>7, <1>8, <1>9 DEF ClosesTo

\* A fetch whose stage only goes on.
LEMMA StageGoesOn ==
    ASSUME Inv, NEW p \in Clients, job[p] # Idle, NEW stage,
           \/ job[p].stage = "save" /\ stage = "write"
           \/ job[p].stage = "write" /\ stage = "rename",
           job' = [job EXCEPT ![p].stage = stage], NEW overlap, overlapped => overlap
    PROVE  /\ job' \in [Clients -> Jobs]
           /\ job'[p].stage = stage /\ \A q \in Clients \ {p} : job'[q] = job[q]
           /\ \A q \in Clients : job'[q] # Idle => FetchOK(job'[q], now, overlap)
<1>1. job[p] \in Fetches /\ FetchOK(job[p], now, overlapped)
  BY DEF Inv, Typed, Jobs
<1> DEFINE j == [job[p] EXCEPT !.stage = stage]
<1>2. job' = [job EXCEPT ![p] = j]
  OBVIOUS
<1>3. j \in Fetches
  <2>1. stage \in Stages
    BY DEF Stages
  <2>2. QED
    BY <1>1, <2>1 DEF Fetches
<1>4. /\ j.stage = stage /\ j.order = job[p].order /\ j.rows = job[p].rows
      /\ j.pages = job[p].pages /\ j.asked = job[p].asked /\ j.slow = job[p].slow
      /\ j.newest = job[p].newest /\ j.cached = job[p].cached
  BY <1>1 DEF Fetches
<1> HIDE DEF j
<1>5. FetchOK(j, now, overlap)
  BY <1>1, <1>4 DEF FetchOK
<1>6. job' \in [Clients -> Jobs] /\ job'[p] = j /\ \A q \in Clients \ {p} : job'[q] = job[q]
  BY <1>2, <1>3 DEF Inv, Typed, Jobs
<1>7. ASSUME NEW q \in Clients, job'[q] # Idle PROVE FetchOK(job'[q], now, overlap)
  <2>1. CASE q = p
    BY <1>5, <1>6, <2>1
  <2>2. CASE q # p
    <3>1. FetchOK(job[q], now, overlapped) /\ job'[q] = job[q]
      BY <1>6, <1>7, <2>2 DEF Inv
    <3>2. QED
      BY <3>1 DEF FetchOK
  <2>3. QED
    BY <2>1, <2>2
<1>8. QED
  BY <1>4, <1>6, <1>7

LEMMA AnswerKeeps ==
    ASSUME Inv, NEW overlap, overlapped => overlap
    PROVE  AnswerOK(answer, overlap)
BY DEF Inv, AnswerOK

LEMMA OpenKeeps ==
    ASSUME Inv, NEW p \in Clients, Open(p)
    PROVE  Inv'
<1>1. /\ job[p].stage = "save" /\ job[p] # Idle
      /\ job' = [job EXCEPT ![p].stage = "write"]
      /\ now' = now /\ source' = source /\ cache' = cache /\ link' = link /\ answer' = answer
      /\ overlapped' = (overlapped \/
                           \E q \in Clients \ {p} : job[q].stage \in {"write", "rename"})
  BY DEF Open, Idle
<1> DEFINE others == UNION {tmp[i].writers : i \in DOMAIN tmp}
<1> DEFINE opened == [newest |-> job[p].newest, at |-> now, whole |-> FALSE,
                      shared |-> others # {}, writers |-> others \cup {p}]
<1>2. tmp' = <<opened>>
  BY DEF Open
<1>3. job[p] \in Fetches /\ FetchOK(job[p], now, overlapped) /\ now \in First..Last
  BY <1>1 DEF Inv, Typed, Jobs
<1>4. job[p].newest \in Candles \ {0} /\ job[p].newest <= now
  BY <1>1, <1>3 DEF FetchOK, Fetches
<1>5. \A i \in DOMAIN tmp : tmp[i].writers \in SUBSET Clients
  BY FileFacts DEF Inv, Typed
<1>6. others \in SUBSET Clients
  BY <1>5
<1>7. opened \in Files /\ opened.newest = job[p].newest /\ ~opened.whole
      /\ (opened.shared <=> others # {}) /\ opened.writers = others \cup {p}
  BY <1>3, <1>4, <1>6 DEF Files
<1> HIDE DEF opened
<1>8. tmp' \in Shelf /\ DOMAIN tmp' = {1} /\ tmp'[1] = opened /\ tmp' # <<>>
  BY <1>2, <1>7 DEF Shelf
<1>9. /\ job' \in [Clients -> Jobs]
      /\ job'[p].stage = "write" /\ \A q \in Clients \ {p} : job'[q] = job[q]
      /\ \A q \in Clients : job'[q] # Idle => FetchOK(job'[q], now, overlapped')
  BY <1>1, StageGoesOn
<1>10. Typed'
  <2>1. overlapped' \in BOOLEAN
    BY <1>1 DEF Inv, Typed
  <2>2. QED
    BY <1>1, <1>8, <1>9, <2>1 DEF Inv, Typed
<1>11. FilesOK(tmp', now', overlapped') /\ FilesOK(cache', now', overlapped')
  <2>1. FilesOK(tmp', now, overlapped')
    BY <1>4, <1>7, <1>8 DEF FilesOK
  <2>2. FilesOK(cache, now, overlapped')
    BY <1>1 DEF Inv, FilesOK
  <2>3. QED
    BY <1>1, <2>1, <2>2
<1>12. ASSUME ~overlapped' PROVE SaversApart(job', tmp', cache')
  <2>1. ~overlapped /\ \A q \in Clients \ {p} : job[q].stage \notin Saving
    BY <1>1, <1>12 DEF Saving
  <2>2. SaversApart(job, tmp, cache)
    BY <2>1 DEF Inv
  <2>3. others = {}
    <3>1. ASSUME NEW i \in DOMAIN tmp, NEW q \in tmp[i].writers PROVE FALSE
      <4>1. q \in Clients /\ job[q].stage = "write"
        BY <1>5, <2>2 DEF SaversApart
      <4>2. job[q].stage \in Saving
        BY <4>1 DEF Saving
      <4>3. QED
        BY <1>1, <2>1, <4>1, <4>2
    <3>2. QED
      BY <3>1
  <2> HIDE DEF others
  <2>4. \A q \in Clients \ {p} : job'[q].stage \notin Saving
    BY <1>9, <2>1
  <2>5. ~opened.shared /\ opened.writers = {p}
    BY <1>7, <2>3
  <2>6. \A q, r \in Clients : job'[q].stage \in Saving /\ job'[r].stage \in Saving => q = r
    BY <2>4
  <2>7. \A q \in Clients : job'[q].stage \in {"write", "rename"} => q = p
    BY <2>4 DEF Saving
  <2>8. \A i \in DOMAIN cache' : cache'[i].whole /\ cache'[i].writers = {}
    BY <1>1, <2>2 DEF SaversApart
  <2>9. QED
    BY <1>8, <1>9, <2>5, <2>6, <2>7, <2>8 DEF SaversApart
<1>13. AnswerOK(answer', overlapped')
  BY <1>1, AnswerKeeps
<1>14. QED
  BY <1>1, <1>9, <1>10, <1>11, <1>12, <1>13 DEF Inv

LEMMA CloseKeeps ==
    ASSUME Inv, NEW p \in Clients, Close(p)
    PROVE  Inv'
<1>1. /\ job[p].stage = "write" /\ job[p] # Idle
      /\ job' = [job EXCEPT ![p].stage = "rename"]
      /\ tmp' = Closed(tmp, p, TRUE) /\ cache' = Closed(cache, p, TRUE)
      /\ now' = now /\ source' = source /\ link' = link /\ answer' = answer
      /\ overlapped' = overlapped
  BY DEF Close, Idle
<1>2. job[p].newest # 0
  <2>1. FetchOK(job[p], now, overlapped)
    BY <1>1 DEF Inv
  <2>2. QED
    BY <1>1, <2>1 DEF FetchOK
<1>3. ClosesTo(tmp, p, TRUE, tmp') /\ FilesOK(tmp', now, overlapped)
  <2>1. tmp \in Shelf /\ FilesOK(tmp, now, overlapped) /\ TRUE \in BOOLEAN
    BY DEF Inv, Typed
  <2>2. QED
    BY <1>1, <1>2, <2>1, ClosedFile
<1>4. ClosesTo(cache, p, TRUE, cache') /\ FilesOK(cache', now, overlapped)
  <2>1. cache \in Shelf /\ FilesOK(cache, now, overlapped) /\ TRUE \in BOOLEAN
    BY DEF Inv, Typed
  <2>2. QED
    BY <1>1, <1>2, <2>1, ClosedFile
<1>5. /\ job' \in [Clients -> Jobs]
      /\ job'[p].stage = "rename" /\ \A q \in Clients \ {p} : job'[q] = job[q]
      /\ \A q \in Clients : job'[q] # Idle => FetchOK(job'[q], now, overlapped)
  BY <1>1, StageGoesOn
<1>6. Typed'
  BY <1>1, <1>3, <1>4, <1>5 DEF Inv, Typed, ClosesTo
<1>7. ASSUME ~overlapped' PROVE SaversApart(job', tmp', cache')
  <2>1. SaversApart(job, tmp, cache)
    BY <1>1, <1>7 DEF Inv
  <2>2. "write" \in Saving /\ "rename" \in Saving
    BY DEF Saving
  <2>3. \A q \in Clients \ {p} : job[q].stage \notin Saving
    BY <1>1, <2>1, <2>2 DEF SaversApart
  <2>4. \A q \in Clients \ {p} : job'[q].stage \notin Saving
    BY <1>5, <2>3
  <2>5. \A q, r \in Clients : job'[q].stage \in Saving /\ job'[r].stage \in Saving => q = r
    BY <2>4
  <2>6. \A i \in DOMAIN cache' : cache'[i].whole /\ cache'[i].writers = {}
    BY <1>4, <2>1 DEF SaversApart, ClosesTo
  <2>7. tmp # <<>> /\ p \in tmp[1].writers /\ 1 \in DOMAIN tmp
    BY <1>1, <2>1 DEF SaversApart, Inv, Typed, Shelf
  <2>8. tmp' # <<>> /\ tmp'[1].whole
    BY <1>3, <2>1, <2>7 DEF SaversApart, ClosesTo
  <2>9. ASSUME NEW i \in DOMAIN tmp', NEW q \in tmp'[i].writers PROVE FALSE
    <3>1. q \in tmp[i].writers /\ q # p /\ i \in DOMAIN tmp
      BY <1>3, <2>9 DEF ClosesTo
    <3>2. q \in Clients /\ job[q].stage = "write"
      BY <2>1, <3>1, FileFacts DEF SaversApart, Inv, Typed
    <3>3. QED
      BY <2>2, <2>3, <3>1, <3>2
  <2>10. \A i \in DOMAIN tmp' : ~tmp'[i].shared
    BY <1>3, <2>1 DEF SaversApart, ClosesTo
  <2>11. \A q \in Clients : job'[q].stage # "write" /\ (job'[q].stage = "rename" => q = p)
    BY <1>5, <2>2, <2>4
  <2>12. QED
    BY <2>5, <2>6, <2>8, <2>9, <2>10, <2>11 DEF SaversApart
<1>8. QED
  BY <1>1, <1>3, <1>4, <1>5, <1>6, <1>7 DEF Inv

LEMMA RenameKeeps ==
    ASSUME Inv, NEW p \in Clients, Rename(p)
    PROVE  Inv'
<1>1. /\ job[p].stage = "rename" /\ job[p] # Idle /\ job[p].stage # "write"
      /\ now' = now /\ source' = source /\ link' = link /\ overlapped' = overlapped
  BY DEF Rename, Idle
<1>2. job[p] \in Fetches /\ FetchOK(job[p], now, overlapped) /\ now \in First..Last
  BY <1>1 DEF Inv, Typed, Jobs
<1>3. CASE tmp = <<>>
  <2>1. FallBack(p) /\ tmp' = tmp
    BY <1>3 DEF Rename
  <2>2. Proceeds(p) /\ cache' = cache
    BY <1>1, <2>1, FallBackProceeds
  <2>3. link' \in [Clients -> Links]
    BY <1>1 DEF Inv, Typed
  <2>4. QED
    BY <1>1, <2>1, <2>2, <2>3, ProceedsKeeps
<1>4. CASE tmp # <<>>
  <2>1. cache' = tmp /\ tmp' = <<>> /\ Return(p, job[p].newest, "provider")
    BY <1>4 DEF Rename
  <2>2. job[p].newest \in 0..now /\ now <= job[p].newest + Behind + MaxSlow
    <3>1. job[p].newest \in Candles /\ job[p].slow \in Slows
      BY <1>2 DEF Fetches
    <3>2. job[p].newest <= now /\ now <= job[p].newest + Behind + job[p].slow
      BY <1>1, <1>2 DEF FetchOK
    <3>3. QED
      BY <1>2, <3>1, <3>2, BehindBounds DEF Candles, Slows
  <2>3. AnswerOK(answer', overlapped) /\ job' = [job EXCEPT ![p] = Idle]
    BY <1>1, <2>1, <2>2, ReturnAnswers
  <2>4. Proceeds(p)
    BY <2>3, EndsWell
  <2>5. tmp' \in Shelf
    BY <2>1 DEF Shelf
  <2>6. Typed'
    BY <1>1, <2>1, <2>4, <2>5 DEF Inv, Typed, Proceeds
  <2>7. FilesOK(cache', now, overlapped) /\ FilesOK(tmp', now, overlapped)
    BY <2>1 DEF Inv, FilesOK
  <2>8. ASSUME ~overlapped PROVE SaversApart(job', tmp', cache')
    <3>1. SaversApart(job, tmp, cache)
      BY <2>8 DEF Inv
    <3>2. "write" \in Saving /\ "rename" \in Saving
      BY DEF Saving
    <3>3. \A q \in Clients \ {p} : job[q].stage \notin Saving
      BY <1>1, <3>1, <3>2 DEF SaversApart
    <3>4. \A q \in Clients : job'[q].stage \notin Saving
      BY <2>4, <3>3 DEF Proceeds
    <3>5. tmp[1].whole /\ DOMAIN tmp = {1}
      BY <1>1, <1>4, <3>1 DEF SaversApart, Inv, Typed, Shelf
    <3>6. tmp[1].writers = {}
      <4>1. ASSUME NEW q \in tmp[1].writers PROVE FALSE
        <5>1. q \in Clients
          BY <3>5, FileFacts DEF Inv, Typed
        <5>2. job[q].stage = "write"
          BY <3>1, <3>5 DEF SaversApart
        <5>3. QED
          BY <1>1, <3>2, <3>3, <5>1, <5>2
      <4>2. QED
        BY <4>1
    <3>7. \A i \in DOMAIN cache' : cache'[i].whole /\ cache'[i].writers = {}
      BY <2>1, <3>5, <3>6
    <3>8. DOMAIN tmp' = {}
      BY <2>1
    <3>9. QED
      BY <3>2, <3>4, <3>7, <3>8 DEF SaversApart
  <2>9. \A q \in Clients : job'[q] # Idle => FetchOK(job'[q], now, overlapped)
    BY <2>4 DEF Inv, Proceeds
  <2>10. QED
    BY <1>1, <2>3, <2>6, <2>7, <2>8, <2>9 DEF Inv
<1>5. QED
  BY <1>3, <1>4

LEMMA DieKeeps ==
    ASSUME Inv, NEW p \in Clients, Die(p)
    PROVE  Inv'
<1>1. /\ job[p] # Idle
      /\ job' = [job EXCEPT ![p] = Idle] /\ link' = [link EXCEPT ![p] = "closed"]
      /\ tmp' = Closed(tmp, p, FALSE) /\ cache' = Closed(cache, p, FALSE)
      /\ now' = now /\ source' = source /\ answer' = answer /\ overlapped' = overlapped
  BY DEF Die
<1>2. ClosesTo(tmp, p, FALSE, tmp') /\ FilesOK(tmp', now, overlapped)
  <2>1. tmp \in Shelf /\ FilesOK(tmp, now, overlapped) /\ FALSE \in BOOLEAN
    BY DEF Inv, Typed
  <2>2. QED
    BY <1>1, <2>1, ClosedFile
<1>3. ClosesTo(cache, p, FALSE, cache') /\ FilesOK(cache', now, overlapped)
  <2>1. cache \in Shelf /\ FilesOK(cache, now, overlapped) /\ FALSE \in BOOLEAN
    BY DEF Inv, Typed
  <2>2. QED
    BY <1>1, <2>1, ClosedFile
<1>4. Proceeds(p)
  BY <1>1, EndsWell DEF Inv
<1>5. Typed'
  <2>1. link' \in [Clients -> Links]
    BY <1>1 DEF Inv, Typed, Links
  <2>2. QED
    BY <1>1, <1>2, <1>3, <1>4, <2>1 DEF Inv, Typed, ClosesTo, Proceeds
<1>6. ASSUME ~overlapped PROVE SaversApart(job', tmp', cache')
  <2>1. SaversApart(job, tmp, cache)
    BY <1>6 DEF Inv
  <2>2. "write" \in Saving /\ "rename" \in Saving
    BY DEF Saving
  <2>3. job'[p].stage \notin Saving /\ \A q \in Clients \ {p} : job'[q] = job[q]
    BY <1>4 DEF Proceeds
  <2>4. \A q, r \in Clients : job'[q].stage \in Saving /\ job'[r].stage \in Saving => q = r
    BY <2>1, <2>3 DEF SaversApart
  <2>5. \A i \in DOMAIN cache' : cache'[i].whole /\ cache'[i].writers = {}
    BY <1>3, <2>1 DEF SaversApart, ClosesTo
  <2>6. ASSUME NEW i \in DOMAIN tmp'
        PROVE  ~tmp'[i].shared /\ \A q \in tmp'[i].writers : job'[q].stage = "write"
    <3>1. i \in DOMAIN tmp /\ tmp'[i].writers = tmp[i].writers \ {p} /\ ~tmp[i].shared
      BY <1>2, <2>1 DEF ClosesTo, SaversApart
    <3>2. ~tmp'[i].shared
      BY <1>2, <3>1 DEF ClosesTo
    <3>3. ASSUME NEW q \in tmp'[i].writers PROVE job'[q].stage = "write"
      <4>1. q \in tmp[i].writers /\ q # p
        BY <3>1
      <4>2. q \in Clients /\ job[q].stage = "write"
        BY <2>1, <3>1, <4>1, FileFacts DEF SaversApart, Inv, Typed
      <4>3. QED
        BY <2>3, <4>1, <4>2
    <3>4. QED
      BY <3>2, <3>3
  <2>7. ASSUME NEW q \in Clients, job'[q].stage \in {"write", "rename"}
        PROVE  /\ tmp' # <<>>
               /\ job'[q].stage = "write" => q \in tmp'[1].writers
               /\ job'[q].stage = "rename" => tmp'[1].whole
    <3>1. q # p /\ job'[q] = job[q]
      BY <2>3, <2>7 DEF Saving
    <3>2. /\ tmp # <<>>
          /\ job[q].stage = "write" => q \in tmp[1].writers
          /\ job[q].stage = "rename" => tmp[1].whole
      BY <2>1, <2>7, <3>1 DEF SaversApart
    <3>3. 1 \in DOMAIN tmp
      BY <3>2 DEF Inv, Typed, Shelf
    <3>4. p \notin tmp[1].writers
      <4>1. ASSUME p \in tmp[1].writers PROVE FALSE
        <5>1. job[p].stage = "write"
          BY <2>1, <3>3, <4>1 DEF SaversApart
        <5>2. job[q].stage \in Saving /\ job[p].stage \in Saving
          BY <2>7, <3>1, <5>1 DEF Saving
        <5>3. QED
          BY <2>1, <3>1, <5>2 DEF SaversApart
      <4>2. QED
        BY <4>1
    <3>5. tmp'[1] = tmp[1] /\ tmp' # <<>>
      BY <1>2, <3>2, <3>3, <3>4 DEF ClosesTo
    <3>6. QED
      BY <3>1, <3>2, <3>5
  <2>8. QED
    BY <2>4, <2>5, <2>6, <2>7 DEF SaversApart
<1>7. \A q \in Clients : job'[q] # Idle => FetchOK(job'[q], now, overlapped)
  BY <1>4 DEF Inv, Proceeds
<1>8. QED
  BY <1>1, <1>2, <1>3, <1>5, <1>6, <1>7 DEF Inv

LEMMA TickKeeps ==
    ASSUME Inv, Tick
    PROVE  Inv'
<1>1. /\ now < Last /\ now' = now + 1
      /\ job' = [p \in Clients |->
              IF job[p] = Idle THEN Idle ELSE [job[p] EXCEPT !.slow = @ + 1]]
      /\ source' = source /\ cache' = cache /\ tmp' = tmp /\ link' = link
      /\ answer' = answer /\ overlapped' = overlapped
  BY DEF Tick
<1>2. now \in First..Last /\ now' \in First..Last /\ now \in Int
  BY <1>1, BehindBounds DEF Inv, Typed
<1>3. ASSUME NEW p \in Clients, job[p] # Idle
      PROVE  /\ job'[p] \in Fetches /\ FetchOK(job'[p], now', overlapped)
             /\ job'[p].stage = job[p].stage
  <2>1. job[p] \in Fetches /\ FetchOK(job[p], now, overlapped)
    BY <1>3 DEF Inv, Typed, Jobs
  <2>2. job[p].slow < MaxSlow /\ job[p].slow \in Slows
    BY <1>3, <2>1 DEF Tick, Fetches
  <2>3. job[p].slow + 1 \in Slows /\ job[p].slow \in Int
    BY <2>2, BehindBounds DEF Slows
  <2> DEFINE j == [job[p] EXCEPT !.slow = @ + 1]
  <2>4. job'[p] = j
    BY <1>1, <1>3
  <2>5. j \in Fetches
    BY <2>1, <2>3 DEF Fetches
  <2>6. /\ j.stage = job[p].stage /\ j.order = job[p].order /\ j.rows = job[p].rows
        /\ j.pages = job[p].pages /\ j.asked = job[p].asked /\ j.slow = job[p].slow + 1
        /\ j.newest = job[p].newest /\ j.cached = job[p].cached /\ j.since = job[p].since
        /\ j.dull = job[p].dull
    BY <2>1 DEF Fetches
  <2> HIDE DEF j
  <2>7. /\ job[p].asked.limit \in Int /\ job[p].rows \in SUBSET Int
        /\ job[p].newest \in Int /\ job[p].cached \in Seq(Reads)
    <3>1. /\ job[p].asked \in Asked /\ job[p].rows \in SUBSET Int
          /\ job[p].newest \in Candles /\ job[p].cached \in Seq(Reads)
      BY <2>1 DEF Fetches
    <3>2. QED
      BY <3>1, BehindBounds DEF Asked, Candles
  <2>8. job[p].stage = "page" => RowsOf(j, now') /\ PageCount(j)
    <3>1. ASSUME job[p].stage = "page" PROVE RowsOf(job[p], now) /\ PageCount(job[p])
      BY <2>1, <3>1 DEF FetchOK
    <3>2. ASSUME RowsOf(job[p], now) PROVE RowsOf(j, now')
      <4>1. ASSUME NEW c \in job[p].rows, 1 <= c, now <= c + Behind + job[p].slow
            PROVE  now' <= c + Behind + j.slow
        <5> DEFINE slow == job[p].slow
        <5>1. /\ c \in Int /\ slow \in Int /\ now \in Int /\ now' = now + 1
              /\ now <= c + Behind + slow
          BY <1>1, <1>2, <2>3, <2>7, <4>1
        <5>2. j.slow = slow + 1
          BY <2>6
        <5> HIDE DEF slow
        <5>3. now' <= c + Behind + (slow + 1)
          BY <5>1, BehindBounds
        <5>4. QED
          BY <5>2, <5>3
      <4>2. ASSUME NEW first \in Int, now <= first + job[p].asked.limit + 2 + job[p].slow
            PROVE  now' <= first + j.asked.limit + 2 + j.slow
        <5> DEFINE limit == job[p].asked.limit
        <5> DEFINE slow == job[p].slow
        <5>1. /\ limit \in Int /\ slow \in Int /\ now \in Int /\ now' = now + 1
              /\ now <= first + limit + 2 + slow
          BY <1>1, <1>2, <2>3, <2>7, <4>2
        <5>2. j.asked.limit = limit /\ j.slow = slow + 1
          BY <2>6
        <5> HIDE DEF limit, slow
        <5>3. now' <= first + limit + 2 + (slow + 1)
          BY <5>1
        <5>4. QED
          BY <5>2, <5>3
      <4>3. QED
        BY <2>6, <3>2, <4>1, <4>2 DEF RowsOf
    <3>3. ASSUME PageCount(job[p]) PROVE PageCount(j)
      BY <2>6, <3>3 DEF PageCount
    <3>4. QED
      BY <3>1, <3>2, <3>3
  <2>9. \A c \in j.rows : c <= now'
    BY <1>1, <1>2, <2>1, <2>6, <2>7 DEF FetchOK
  <2>10. /\ First + j.slow <= now' /\ j.newest <= now'
         /\ j.newest # 0 => now' <= j.newest + Behind + j.slow
    <3> DEFINE newest == job[p].newest
    <3> DEFINE slow == job[p].slow
    <3>1. /\ First + slow <= now /\ newest <= now
          /\ newest # 0 => now <= newest + Behind + slow
      BY <2>1 DEF FetchOK
    <3>2. newest \in Int /\ slow \in Int /\ j.newest = newest /\ j.slow = slow + 1
      BY <2>3, <2>6, <2>7
    <3> HIDE DEF newest, slow
    <3>3. /\ First + (slow + 1) <= now' /\ newest <= now'
          /\ newest # 0 => now' <= newest + Behind + (slow + 1)
      BY <1>1, <1>2, <3>1, <3>2, BehindBounds
    <3>4. QED
      BY <3>2, <3>3
  <2>11. ASSUME NEW i \in DOMAIN j.cached PROVE j.cached[i].newest <= now'
    <3>1. job[p].cached[i] \in Reads
      BY <2>6, <2>7
    <3>2. job[p].cached[i].newest \in Int
      BY <3>1, BehindBounds DEF Reads, Candles
    <3>3. job[p].cached[i].newest <= now
      BY <2>1, <2>6 DEF FetchOK
    <3>4. QED
      BY <1>1, <1>2, <2>6, <3>2, <3>3
  <2>12. FetchOK(j, now', overlapped)
    BY <2>1, <2>6, <2>8, <2>9, <2>10, <2>11 DEF FetchOK
  <2>13. QED
    BY <2>4, <2>5, <2>6, <2>12
<1>4. ASSUME NEW p \in Clients, job[p] = Idle PROVE job'[p] = Idle
  BY <1>1, <1>4
<1>5. job' \in [Clients -> Jobs]
  <2>1. \A p \in Clients : job'[p] \in Jobs
    BY <1>3, <1>4 DEF Jobs
  <2>2. QED
    BY <1>1, <2>1
<1>6. \A p \in Clients : job'[p].stage = job[p].stage
  BY <1>3, <1>4
<1>7. \A p \in Clients : job'[p] # Idle => FetchOK(job'[p], now', overlapped)
  BY <1>3, <1>4
<1>8. ASSUME NEW file \in Shelf, FilesOK(file, now, overlapped)
      PROVE  FilesOK(file, now', overlapped)
  <2>1. ASSUME NEW i \in DOMAIN file PROVE file[i].newest <= now'
    <3>1. file[i].newest \in Int /\ file[i].newest <= now
      BY <1>8, FileFacts, BehindBounds DEF FilesOK, Candles
    <3>2. QED
      BY <1>1, <1>2, <3>1
  <2>2. QED
    BY <1>8, <2>1 DEF FilesOK
<1>9. FilesOK(cache, now', overlapped) /\ FilesOK(tmp, now', overlapped)
  BY <1>8 DEF Inv, Typed
<1>10. ~overlapped => SaversApart(job', tmp, cache)
  <2>1. ~overlapped => SaversApart(job, tmp, cache)
    BY DEF Inv
  <2>2. \A i \in DOMAIN tmp : tmp[i].writers \in SUBSET Clients
    BY FileFacts DEF Inv, Typed
  <2>3. QED
    BY <1>6, <2>1, <2>2 DEF SaversApart
<1>11. Typed'
  BY <1>1, <1>2, <1>5 DEF Inv, Typed
<1>12. QED
  BY <1>1, <1>7, <1>9, <1>10, <1>11 DEF Inv

-----------------------------------------------------------------------------
(* The invariant                                                           *)

LEMMA InvInit == Init => Inv
<1> SUFFICES ASSUME Init PROVE Inv
  OBVIOUS
<1>1. /\ now = First /\ source \in DataSources /\ cache = <<>> /\ tmp = <<>>
      /\ link = [p \in Clients |-> "closed"] /\ job = [p \in Clients |-> Idle]
      /\ answer = Error /\ overlapped = FALSE
  BY DEF Init
<1>2. Typed
  <2>1. now \in First..Last
    BY <1>1, BehindBounds
  <2>2. cache \in Shelf /\ tmp \in Shelf
    BY <1>1 DEF Shelf
  <2>3. link \in [Clients -> Links]
    BY <1>1 DEF Links
  <2>4. job \in [Clients -> Jobs]
    BY <1>1 DEF Jobs
  <2>5. QED
    BY <1>1, <2>1, <2>2, <2>3, <2>4 DEF Typed
<1>3. Idle.stage \notin Saving /\ Idle.stage \notin {"write", "rename"}
  BY DEF Idle, Saving
<1>4. SaversApart(job, tmp, cache)
  BY <1>1, <1>3 DEF SaversApart
<1>5. AnswerOK(answer, overlapped)
  <2>1. Error.lag \in 0..Last /\ Error.from = "nothing"
    BY BehindBounds DEF Error
  <2>2. QED
    BY <1>1, <2>1 DEF AnswerOK
<1>6. FilesOK(cache, now, overlapped) /\ FilesOK(tmp, now, overlapped)
  BY <1>1 DEF FilesOK
<1>7. QED
  BY <1>1, <1>2, <1>4, <1>5, <1>6 DEF Inv

LEMMA InvNext == Inv /\ [Next]_vars => Inv'
<1> SUFFICES ASSUME Inv, [Next]_vars PROVE Inv'
  OBVIOUS
<1>1. link \in [Clients -> Links]
  BY DEF Inv, Typed
<1>2. ASSUME NEW p \in Clients, Start(p) PROVE Inv'
  <2>1. Proceeds(p) /\ job[p].stage # "write" /\ link' = link
    <3>1. Proceeds(p) /\ job[p] = Idle /\ link' = link
      BY <1>2, StartProceeds DEF Start
    <3>2. QED
      BY <3>1 DEF Idle
  <2>2. UNCHANGED <<now, source, cache, tmp, overlapped>>
    BY <1>2 DEF Start
  <2>3. QED
    BY <1>1, <2>1, <2>2, ProceedsKeeps
<1>3. ASSUME NEW p \in Clients, CacheOnly(p) PROVE Inv'
  <2>1. Proceeds(p) /\ job[p].stage # "write" /\ link' = link
    BY <1>3, CacheOnlyProceeds DEF CacheOnly
  <2>2. UNCHANGED <<now, source, cache, tmp, overlapped>>
    BY <1>3 DEF CacheOnly
  <2>3. QED
    BY <1>1, <2>1, <2>2, ProceedsKeeps
<1>4. ASSUME NEW p \in Clients, ServeFreshCache(p) PROVE Inv'
  <2>1. Proceeds(p) /\ job[p].stage # "write" /\ link' = link
    BY <1>4, ServeFreshCacheProceeds DEF ServeFreshCache
  <2>2. UNCHANGED <<now, source, cache, tmp, overlapped>>
    BY <1>4 DEF ServeFreshCache
  <2>3. QED
    BY <1>1, <2>1, <2>2, ProceedsKeeps
<1>5. ASSUME NEW p \in Clients, TurnToProvider(p) PROVE Inv'
  <2>1. Proceeds(p) /\ job[p].stage # "write" /\ link' = link
    BY <1>5, TurnToProviderProceeds DEF TurnToProvider
  <2>2. UNCHANGED <<now, source, cache, tmp, overlapped>>
    BY <1>5 DEF TurnToProvider
  <2>3. QED
    BY <1>1, <2>1, <2>2, ProceedsKeeps
<1>6. ASSUME NEW p \in Clients, AskSource(p) PROVE Inv'
  <2>1. /\ Proceeds(p) /\ cache' = cache /\ link' \in [Clients -> Links]
        /\ job[p].stage # "write"
    BY <1>6, AskSourceProceeds DEF AskSource
  <2>2. now' = now /\ source' = source /\ tmp' = tmp /\ overlapped' = overlapped
    BY <1>6 DEF AskSource
  <2>3. QED
    BY <2>1, <2>2, ProceedsKeeps
<1>7. ASSUME NEW p \in Clients, StartPaging(p) PROVE Inv'
  <2>1. Proceeds(p) /\ job[p].stage # "write" /\ link' = link
    BY <1>7, StartPagingProceeds DEF StartPaging
  <2>2. UNCHANGED <<now, source, cache, tmp, overlapped>>
    BY <1>7 DEF StartPaging
  <2>3. QED
    BY <1>1, <2>1, <2>2, ProceedsKeeps
<1>8. ASSUME NEW p \in Clients, Page(p) PROVE Inv'
  <2>1. Proceeds(p) /\ cache' = cache
    BY <1>8, PageProceeds
  <2>2. /\ job[p].stage # "write" /\ link' = link
        /\ now' = now /\ source' = source /\ tmp' = tmp /\ overlapped' = overlapped
    BY <1>8 DEF Page
  <2>3. QED
    BY <1>1, <2>1, <2>2, ProceedsKeeps
<1>9. ASSUME NEW p \in Clients, Step(p) PROVE Inv'
  BY <1>2, <1>3, <1>4, <1>5, <1>6, <1>7, <1>8, <1>9, OpenKeeps, CloseKeeps, RenameKeeps DEF Step
<1>10. CASE LoseTerminal
  <2>1. /\ link' = [p \in Clients |-> IF link[p] = "open" THEN "lost" ELSE link[p]]
        /\ UNCHANGED <<now, source, cache, tmp, job, answer, overlapped>>
    BY <1>10 DEF LoseTerminal
  <2>2. link' \in [Clients -> Links]
    BY <1>1, <2>1 DEF Links
  <2>3. Typed'
    BY <2>1, <2>2 DEF Inv, Typed
  <2>4. QED
    BY <2>1, <2>3 DEF Inv
<1>11. CASE UNCHANGED vars
  BY <1>11 DEF vars, Inv, Typed
<1>12. QED
  BY <1>9, <1>10, <1>11, DieKeeps, TickKeeps DEF Next

THEOREM Invariance == Spec => []Inv
<1>1. QED
  BY InvInit, InvNext, PTL DEF Spec

-----------------------------------------------------------------------------
(* What follows                                                            *)

\* The cache is well formed, and torn by two writers at once only: a client
\* that dies while it saves, at any step, leaves it as it was
\* (market_data.py:205-213).
THEOREM CacheAlwaysSound == Spec => []CacheSound
<1>1. Inv => CacheSound
  <2> SUFFICES ASSUME Inv PROVE CacheSound
    OBVIOUS
  <2>1. \A file \in {cache, tmp} : file # <<>> => Len(file) = 1 /\ file[1] \in Files
    BY DEF Inv, Typed, Shelf
  <2>2. ASSUME NEW p \in Clients, job[p] # Idle
        PROVE  /\ job[p].dull \in 0..2 /\ job[p].slow \in 0..MaxSlow
               /\ Cardinality(job[p].rows) < job[p].asked.limit
               /\ (job[p].stage \in {"save", "write", "rename"}) = (job[p].newest # 0)
               /\ (job[p].stage \in {"ask", "page"}) = (job[p].order # <<>>)
    <3>1. job[p] \in Fetches /\ FetchOK(job[p], now, overlapped)
      BY <2>2 DEF Inv, Typed, Jobs
    <3>2. job[p].dull \in Dulls /\ job[p].slow \in Slows
      BY <3>1 DEF Fetches
    <3>3. QED
      BY <3>1, <3>2 DEF FetchOK, Dulls, Slows
  <2>3. answer.lag \in 0..Last
    BY DEF Inv, AnswerOK
  <2>4. TornOnlyByOverlap
    <3>1. ASSUME ~overlapped, cache # <<>> PROVE cache[1].whole
      BY <3>1 DEF Inv, Typed, Shelf, SaversApart
    <3>2. QED
      BY <3>1 DEF TornOnlyByOverlap, Inv, Typed
  <2>5. QED
    BY <2>1, <2>2, <2>3, <2>4 DEF CacheSound, TypeOK
<1>2. QED
  BY <1>1, Invariance, PTL

\* What is served as fresh, by a provider or from the cache, is bounded in age,
\* however pages, timeouts, saves and deaths interleave (market_data.py:352-405).
THEOREM LagAlwaysBounded == Spec => []LagBounded
<1>1. Inv => LagBounded
  BY DEF Inv, AnswerOK, LagBounded
<1>2. QED
  BY <1>1, Invariance, PTL

\* A paged request ends within a number of pages that depends on its limit
\* alone (ccxt_provider.py:248-264).
THEOREM PagesAlwaysBounded == Spec => []PagesBounded
<1>1. Inv => PagesBounded
  <2> SUFFICES ASSUME Inv, NEW p \in Clients, job[p].stage = "page"
               PROVE  job[p].pages < 3 * job[p].asked.limit - 2
    BY DEF PagesBounded
  <2>1. job[p] \in Fetches /\ FetchOK(job[p], now, overlapped)
    BY DEF Inv, Typed, Jobs, Idle
  <2>2. job[p].asked \in Asked /\ job[p].dull \in Dulls /\ job[p].pages \in Nat
    BY <2>1 DEF Fetches
  <2> DEFINE limit == job[p].asked.limit
  <2> DEFINE rows == Cardinality(job[p].rows)
  <2> DEFINE dull == job[p].dull
  <2> DEFINE pages == job[p].pages
  <2>3. /\ limit \in Nat \ {0} /\ dull \in 0..2 /\ pages \in Nat /\ rows \in Nat
        /\ rows < limit /\ (pages = 0 \/ pages <= 3 * (rows - 1) + 1 + dull)
    BY <2>1, <2>2, FS_CardinalityType DEF FetchOK, PageCount, Asked, Dulls
  <2> HIDE DEF limit, rows, dull, pages
  <2>4. pages < 3 * limit - 2
    BY <2>3
  <2>5. QED
    BY <2>4 DEF limit, pages
<1>2. QED
  BY <1>1, Invariance, PTL

-----------------------------------------------------------------------------
(* The live loop, its breaker and the watch over it (LiveHealth).  The      *)
(* breaker reads rows and not what happened, and rows are forgotten, so     *)
(* the invariant says that a bad fetch is still in the log for as long as   *)
(* it counts; and the watch keeps no count of the checks that told nobody,  *)
(* so it says that their number is bounded by the age of the last alert.    *)

\* The log still has the row of the last watched fetch that went badly, for as
\* long as that fetch is within the window.
BadFetchLogged ==
    sinceBad <= Window =>
        \E r \in fetchLog : /\ ~r.ok /\ r.age = sinceBad
                            /\ setup.source = "ccxt" => r.pair \in Expected

WatchTypes ==
    /\ heartbeat \in {<<>>} \cup {<<h>> : h \in Heartbeat}
    /\ alertState = [ok |-> alertState.ok, status |-> alertState.status,
                     reason |-> alertState.reason, alertAge |-> alertState.alertAge]
    /\ alertState.ok \in BOOLEAN /\ alertState.alertAge \in 0..Cooldown
    /\ telegram \in BOOLEAN /\ due \in BOOLEAN /\ seen \in {"nothing", "alert", "ok"}

\* Between two messages the checks are as many as the ticks at most.
ToldInTime ==
    /\ untold \in Nat /\ untold < Cooldown /\ untold <= alertState.alertAge
    /\ due => untold + 1 <= alertState.alertAge

WatchInv == LoopTypeOK /\ BadFetchLogged /\ WatchTypes /\ ToldInTime

LEMMA WatchInvInit == HealthInit => WatchInv
<1> SUFFICES ASSUME HealthInit PROVE WatchInv
  OBVIOUS
<1> USE SafeModeAssumption, HealthAssumption
<1>1. LoopInit
  BY DEF HealthInit
<1>2. fetchLog \subseteq Row
  <2>1. \A p \in Scanned : [pair |-> p, ok |-> TRUE, age |-> 0] \in Row
    BY DEF Row
  <2>2. QED
    BY <1>1, <2>1 DEF LoopInit
<1>3. LoopTypeOK
  BY <1>1, <1>2 DEF LoopInit, LoopTypeOK
<1>4. BadFetchLogged
  BY <1>1 DEF LoopInit, BadFetchLogged
<1>5. /\ alertState = [ok |-> TRUE, status |-> "", reason |-> <<>>, alertAge |-> Cooldown]
      /\ heartbeat = <<>> /\ telegram = TRUE /\ due = FALSE /\ seen = "nothing" /\ untold = 0
  BY DEF HealthInit
<1>6. /\ alertState.ok = TRUE /\ alertState.status = "" /\ alertState.reason = <<>>
      /\ alertState.alertAge = Cooldown
  BY <1>5
<1>7. WatchTypes
  <2>1. Cooldown \in 0..Cooldown
    OBVIOUS
  <2>2. alertState.ok \in BOOLEAN /\ telegram \in BOOLEAN /\ due \in BOOLEAN
    BY <1>5, <1>6
  <2>3. alertState = [ok |-> alertState.ok, status |-> alertState.status,
                      reason |-> alertState.reason, alertAge |-> alertState.alertAge]
    BY <1>5
  <2>4. QED
    BY <1>5, <1>6, <2>1, <2>2, <2>3 DEF WatchTypes
<1>8. ToldInTime
  <2>1. 0 \in Nat /\ 0 < Cooldown /\ 0 <= Cooldown
    OBVIOUS
  <2>2. ~due
    BY <1>5, Zenon
  <2>3. QED
    BY <1>5, <1>6, <2>1, <2>2 DEF ToldInTime
<1>9. QED
  BY <1>3, <1>4, <1>7, <1>8 DEF WatchInv

\* A row is logged, a bad one that counts with its own age.
LEMMA LogKeeps ==
    ASSUME LoopTypeOK, BadFetchLogged, NEW p \in Scanned, NEW good \in BOOLEAN, Log(p, good),
           UNCHANGED <<setup, feed, pc, wait>>, todo' \subseteq Scanned
    PROVE  LoopTypeOK' /\ BadFetchLogged'
<1> USE SafeModeAssumption
<1> DEFINE row == [pair |-> p, ok |-> good, age |-> 0]
<1>1. row \in Row /\ row.ok = good /\ row.age = 0 /\ row.pair = p
  BY DEF Row
<1>2. /\ fetchLog' = fetchLog \cup {row} /\ setup' = setup /\ Scanned' = Scanned /\ Expected' = Expected
      /\ sinceBad' = (IF good \/ (setup.source = "ccxt" /\ p \notin Expected) THEN sinceBad ELSE 0)
  BY DEF Log, Scanned, Expected
<1>3. fetchLog \subseteq Row /\ Row' = Row /\ FeedStates' = FeedStates
  BY <1>2 DEF LoopTypeOK, Row, FeedStates
<1> HIDE DEF row
<1>4. sinceBad' \in 0..(Window + 1) /\ fetchLog' \subseteq Row'
  BY <1>1, <1>2, <1>3 DEF LoopTypeOK
<1>5. LoopTypeOK'
  BY <1>2, <1>3, <1>4 DEF LoopTypeOK
<1>6. BadFetchLogged'
  BY <1>1, <1>2 DEF BadFetchLogged
<1>7. QED
  BY <1>5, <1>6

\* Time passes: the rows grow older and leave the window together with the
\* fetches they are of.
LEMMA TimeKeeps ==
    ASSUME LoopTypeOK, BadFetchLogged, TimePasses
    PROVE  LoopTypeOK' /\ BadFetchLogged'
<1> USE SafeModeAssumption
<1>1. /\ setup' = setup /\ feed' = feed /\ pc' = pc /\ todo' = todo
      /\ Scanned' = Scanned /\ Expected' = Expected
      /\ fetchLog' = {[r EXCEPT !.age = @ + 1] : r \in {q \in fetchLog : StillRecent(q)}}
      /\ wait' = (IF wait > 0 THEN wait - 1 ELSE 0)
      /\ sinceBad' = (IF sinceBad > Window THEN sinceBad ELSE sinceBad + 1)
  BY DEF TimePasses, Scanned, Expected
<1>2. Row' = Row /\ FeedStates' = FeedStates /\ fetchLog \subseteq Row
  BY <1>1 DEF LoopTypeOK, Row, FeedStates
<1>3. ASSUME NEW r \in fetchLog, StillRecent(r)
      PROVE  /\ [r EXCEPT !.age = @ + 1] \in Row
             /\ [r EXCEPT !.age = @ + 1].ok = r.ok /\ [r EXCEPT !.age = @ + 1].pair = r.pair
             /\ [r EXCEPT !.age = @ + 1].age = r.age + 1
  <2>1. r \in Row /\ r.age < Window
    BY <1>2, <1>3 DEF StillRecent
  <2>2. r = [pair |-> r.pair, ok |-> r.ok, age |-> r.age] /\ r.age \in 0..Window
        /\ r.pair \in Scanned /\ r.ok \in BOOLEAN
    BY <2>1 DEF Row
  <2>3. [r EXCEPT !.age = @ + 1] = [pair |-> r.pair, ok |-> r.ok, age |-> r.age + 1]
    BY <2>2
  <2>4. r.age + 1 \in 0..Window
    BY <2>1, <2>2
  <2>5. QED
    BY <2>2, <2>3, <2>4 DEF Row
<1>4. fetchLog' \subseteq Row'
  BY <1>1, <1>2, <1>3
<1>5. wait' \in 0..Interval /\ sinceBad' \in 0..(Window + 1)
  BY <1>1 DEF LoopTypeOK
<1>6. LoopTypeOK'
  BY <1>1, <1>2, <1>4, <1>5 DEF LoopTypeOK
<1>7. BadFetchLogged'
  <2> SUFFICES ASSUME sinceBad' <= Window
               PROVE  \E r \in fetchLog' : /\ ~r.ok /\ r.age = sinceBad'
                                           /\ setup.source = "ccxt" => r.pair \in Expected
    BY <1>1 DEF BadFetchLogged
  <2>1. sinceBad \in 0..(Window + 1) /\ sinceBad < Window /\ sinceBad' = sinceBad + 1
    BY <1>1 DEF LoopTypeOK
  <2>2. PICK r \in fetchLog : /\ ~r.ok /\ r.age = sinceBad
                              /\ setup.source = "ccxt" => r.pair \in Expected
    BY <2>1 DEF BadFetchLogged
  <2>3. StillRecent(r)
    BY <2>1, <2>2 DEF StillRecent
  <2>4. [r EXCEPT !.age = @ + 1] \in fetchLog'
    BY <1>1, <2>3
  <2>5. QED
    BY <1>3, <2>1, <2>2, <2>3, <2>4
<1>8. QED
  BY <1>6, <1>7

\* A step of the loop, a crash, a hang or a change of the feed.
LEMMA LoopKeeps ==
    ASSUME LoopTypeOK, BadFetchLogged, [LoopNext]_loopVars
    PROVE  LoopTypeOK' /\ BadFetchLogged'
<1> USE SafeModeAssumption
<1>1. CASE UNCHANGED loopVars
  <2>1. /\ setup' = setup /\ feed' = feed /\ fetchLog' = fetchLog /\ pc' = pc /\ todo' = todo
        /\ wait' = wait /\ sinceBad' = sinceBad
    BY <1>1 DEF loopVars
  <2>2. Scanned' = Scanned /\ Expected' = Expected /\ FeedStates' = FeedStates /\ Row' = Row
    BY <2>1 DEF Scanned, Expected, FeedStates, Row
  <2>3. QED
    BY <2>1, <2>2 DEF LoopTypeOK, BadFetchLogged
<1>2. ASSUME UNCHANGED <<setup, fetchLog, sinceBad>>, feed' \in [Scanned -> FeedStates],
             pc' \in {"evaluate", "scan", "compare", "sleep", "hung", "down"},
             todo' \subseteq Scanned, wait' \in 0..Interval
      PROVE  LoopTypeOK' /\ BadFetchLogged'
  <2>1. /\ setup' = setup /\ fetchLog' = fetchLog /\ sinceBad' = sinceBad
        /\ Scanned' = Scanned /\ Expected' = Expected /\ FeedStates' = FeedStates /\ Row' = Row
    BY <1>2 DEF Scanned, Expected, FeedStates, Row
  <2>2. QED
    BY <1>2, <2>1 DEF LoopTypeOK, BadFetchLogged
<1>3. /\ feed \in [Scanned -> FeedStates] /\ todo \subseteq Scanned /\ wait \in 0..Interval
      /\ {} \subseteq Scanned /\ Scanned \subseteq Scanned /\ Interval \in 0..Interval
      /\ 0 \in 0..Interval
  BY DEF LoopTypeOK
<1>4. CASE Evaluate
  BY <1>2, <1>3, <1>4 DEF Evaluate, AfterScan
<1>5. ASSUME NEW p \in Scanned, FetchForScan(p) PROVE LoopTypeOK' /\ BadFetchLogged'
  <2>1. UNCHANGED <<setup, feed, pc, wait>> /\ todo' = todo \ {p} /\ pc = "scan"
    BY <1>5 DEF FetchForScan
  <2>2. CASE feed[p] = "early"
    <3>1. fetchLog' = fetchLog /\ sinceBad' = sinceBad
      BY <1>5, <2>2 DEF FetchForScan
    <3>2. QED
      BY <1>2, <1>3, <2>1, <3>1
  <2>3. CASE feed[p] # "early"
    <3>1. Log(p, feed[p] = "good") /\ (feed[p] = "good") \in BOOLEAN
      BY <1>5, <2>3 DEF FetchForScan
    <3>2. QED
      BY <1>3, <2>1, <3>1, LogKeeps
  <2>4. QED
    BY <2>2, <2>3
<1>6. ASSUME NEW p \in Scanned, FetchForCompare(p) PROVE LoopTypeOK' /\ BadFetchLogged'
  <2>1. /\ UNCHANGED <<setup, feed, pc, wait>> /\ todo' = todo \ {p}
        /\ Log(p, feed[p] \in {"good", "early"}) /\ (feed[p] \in {"good", "early"}) \in BOOLEAN
    BY <1>6 DEF FetchForCompare
  <2>2. QED
    BY <1>3, <2>1, LogKeeps
<1>7. CASE ScanDone
  BY <1>2, <1>3, <1>7 DEF ScanDone, AfterScan
<1>8. CASE CompareDone
  BY <1>2, <1>3, <1>8 DEF CompareDone
<1>9. CASE WakeUp
  BY <1>2, <1>3, <1>9 DEF WakeUp
<1>10. CASE TimePasses
  BY <1>10, TimeKeeps
<1>11. CASE Hang
  BY <1>2, <1>3, <1>11 DEF Hang
<1>12. CASE Crash
  BY <1>2, <1>3, <1>12 DEF Crash
<1>13. CASE Restart
  BY <1>2, <1>3, <1>13 DEF Restart
<1>14. ASSUME NEW p \in Scanned, FeedChanges(p) PROVE LoopTypeOK' /\ BadFetchLogged'
  <2>1. PICK s \in FeedStates : feed' = [feed EXCEPT ![p] = s]
    BY <1>14 DEF FeedChanges
  <2>2. feed' \in [Scanned -> FeedStates]
    BY <1>3, <2>1
  <2>3. pc' = pc /\ todo' = todo /\ wait' = wait /\ UNCHANGED <<setup, fetchLog, sinceBad>>
    BY <1>14 DEF FeedChanges
  <2>4. pc \in {"evaluate", "scan", "compare", "sleep", "hung", "down"}
    BY DEF LoopTypeOK
  <2>5. QED
    BY <1>2, <1>3, <2>2, <2>3, <2>4
<1>15. QED
  BY <1>1, <1>4, <1>5, <1>6, <1>7, <1>8, <1>9, <1>10, <1>11, <1>12, <1>13, <1>14
     DEF LoopNext, Loop, Fetch

\* Every step of the watched loop is one of the loop, or none.
LEMMA WatchedSteps == ASSUME [HealthNext]_allVars PROVE [LoopNext]_loopVars
<1>1. CASE UNCHANGED allVars
  BY <1>1 DEF allVars
<1>2. CASE WatchedLoop
  BY <1>2 DEF WatchedLoop, BeatOnEvaluate, BeatOnScanDone, NoBeat, LoopNext, Loop
<1>3. CASE ScanFails \/ BeatOnRestart \/ WatchedTick \/ Disturbed
  BY <1>3 DEF ScanFails, BeatOnRestart, WatchedTick, Disturbed, LoopNext
<1>4. CASE Check \/ TelegramChanges
  BY <1>4 DEF Check, TelegramChanges
<1>5. QED
  BY <1>1, <1>2, <1>3, <1>4 DEF HealthNext

\* A heartbeat is written, or not, and the watch is not run.
LEMMA QuietKeeps ==
    ASSUME WatchTypes, ToldInTime, Quiet,
           heartbeat' = heartbeat \/ \E status \in Statuses : Write(status)
    PROVE  WatchTypes' /\ ToldInTime'
<1> USE HealthAssumption
<1>1. /\ alertState' = alertState /\ telegram' = telegram /\ due' = due /\ seen' = seen
      /\ untold' = untold
  BY DEF Quiet
<1>2. heartbeat' \in {<<>>} \cup {<<h>> : h \in Heartbeat}
  <2>1. CASE heartbeat' = heartbeat
    BY <2>1 DEF WatchTypes
  <2>2. ASSUME NEW status \in Statuses, Write(status)
        PROVE  heartbeat' \in {<<>>} \cup {<<h>> : h \in Heartbeat}
    <3>1. [status |-> status, age |-> 0] \in Heartbeat
      BY DEF Heartbeat, AgeBound
    <3>2. QED
      BY <2>2, <3>1 DEF Write, WatchTypes
  <2>3. QED
    BY <2>1, <2>2
<1>3. QED
  BY <1>1, <1>2 DEF WatchTypes, ToldInTime

\* The timer fires, and the last alert is a tick older.
LEMMA WatchedTickKeeps ==
    ASSUME WatchTypes, ToldInTime, WatchedTick PROVE WatchTypes' /\ ToldInTime'
<1> USE HealthAssumption
<1> DEFINE a == alertState.alertAge
           b == IF a < Cooldown THEN a + 1 ELSE a
<1>1. /\ telegram' = telegram /\ seen' = seen /\ untold' = untold /\ due' = Watched
      /\ heartbeat' = [i \in DOMAIN heartbeat |-> [heartbeat[i] EXCEPT !.age = Older(@)]]
      /\ alertState' = [alertState EXCEPT !.alertAge = b]
  BY DEF WatchedTick
<1>2. a \in 0..Cooldown /\ b \in 0..Cooldown /\ untold + 1 <= b
  BY DEF WatchTypes, ToldInTime
<1>3. /\ alertState'.alertAge = b /\ alertState'.ok = alertState.ok
      /\ alertState' = [ok |-> alertState'.ok, status |-> alertState'.status,
                        reason |-> alertState'.reason, alertAge |-> alertState'.alertAge]
  <2> DEFINE o == alertState.ok
             s == alertState.status
             r == alertState.reason
  <2>1. alertState = [ok |-> o, status |-> s, reason |-> r, alertAge |-> a]
    BY DEF WatchTypes
  <2> HIDE DEF o, s, r, a, b
  <2>2. alertState' = [ok |-> o, status |-> s, reason |-> r, alertAge |-> b]
    BY <1>1, <2>1
  <2>3. alertState.ok = o
    BY <2>1
  <2>4. QED
    BY <2>2, <2>3
<1>4. heartbeat' \in {<<>>} \cup {<<h>> : h \in Heartbeat}
  <2>1. CASE heartbeat = <<>>
    BY <1>1, <2>1
  <2>2. ASSUME NEW h \in Heartbeat, heartbeat = <<h>>
        PROVE  heartbeat' \in {<<>>} \cup {<<g>> : g \in Heartbeat}
    <3>1. h = [status |-> h.status, age |-> h.age] /\ h.status \in Statuses /\ h.age \in 0..AgeBound
      BY DEF Heartbeat
    <3>2. Older(h.age) \in 0..AgeBound
      BY <3>1 DEF Older, AgeBound
    <3>3. [h EXCEPT !.age = Older(@)] = [status |-> h.status, age |-> Older(h.age)]
      BY <3>1
    <3>4. [h EXCEPT !.age = Older(@)] \in Heartbeat
      BY <3>1, <3>2, <3>3 DEF Heartbeat
    <3>5. heartbeat' = <<[h EXCEPT !.age = Older(@)]>>
      BY <1>1, <2>2
    <3>6. QED
      BY <3>4, <3>5
  <2>3. QED
    BY <2>1, <2>2 DEF WatchTypes
<1> HIDE DEF a, b
<1>5. QED
  BY <1>1, <1>2, <1>3, <1>4 DEF WatchTypes, ToldInTime, Watched

\* A check that finds the loop unhealthy and can tell it either does, or the
\* last alert is younger than the cooldown.
LEMMA CheckKeeps == ASSUME WatchTypes, ToldInTime, Check PROVE WatchTypes' /\ ToldInTime'
<1> USE HealthAssumption
<1> DEFINE r == HealthResult
           sent == ShouldSend(r) /\ telegram
           told == IF sent THEN IF r.ok THEN "ok" ELSE "alert" ELSE seen
           a == alertState.alertAge
<1>1. r.ok \in BOOLEAN
  <2>1. HeartbeatResult.ok \in BOOLEAN
    <3> DEFINE h == Head(heartbeat)
    <3>1. CASE heartbeat = <<>>
      BY <3>1 DEF HeartbeatResult, Result
    <3>2. CASE heartbeat # <<>> /\ h.status = "scan_failed"
      BY <3>2 DEF HeartbeatResult, Result
    <3>3. CASE heartbeat # <<>> /\ h.status # "scan_failed" /\ Stale(h)
      BY <3>3 DEF HeartbeatResult, Result
    <3>4. CASE heartbeat # <<>> /\ h.status # "scan_failed" /\ ~Stale(h)
      BY <3>4 DEF HeartbeatResult, Result
    <3>5. QED
      BY <3>1, <3>2, <3>3, <3>4
  <2>2. \A status : FeedResult(status).ok \in BOOLEAN
    BY DEF FeedResult, Result
  <2>3. QED
    BY <2>1, <2>2 DEF HealthResult
<1>2. /\ due /\ due' = FALSE /\ seen' = told /\ telegram' = telegram /\ heartbeat' = heartbeat
      /\ alertState' = [ok |-> r.ok, status |-> r.status, reason |-> r.reason,
                        alertAge |-> IF sent THEN 0 ELSE a]
      /\ untold' = (CASE r.ok \/ told = "alert" -> 0
                      [] ~r.ok /\ told # "alert" /\ telegram ->
                            IF untold > Cooldown THEN untold ELSE untold + 1
                      [] OTHER -> untold)
  BY DEF Check, Updated
<1>3. /\ telegram \in BOOLEAN /\ a \in 0..Cooldown /\ untold \in Nat /\ untold < Cooldown
      /\ untold + 1 <= a /\ seen \in {"nothing", "alert", "ok"}
  BY <1>2 DEF WatchTypes, ToldInTime
<1>4. ~r.ok /\ telegram /\ ~sent => a < Cooldown
  BY <1>3 DEF ShouldSend
<1>5. told \in {"nothing", "alert", "ok"} /\ (sent => r.ok \/ told = "alert")
  BY <1>1, <1>3
<1> HIDE DEF r, sent, told, a
<1>6. untold' \in Nat /\ untold' < Cooldown /\ untold' <= (IF sent THEN 0 ELSE a)
  <2>1. CASE r.ok \/ told = "alert"
    BY <1>2, <1>3, <2>1
  <2>2. CASE ~r.ok /\ told # "alert" /\ telegram
    <3>1. ~sent /\ a < Cooldown
      BY <1>1, <1>4, <1>5, <2>2
    <3>2. untold' = untold + 1
      BY <1>2, <1>3, <2>2
    <3>3. QED
      BY <1>3, <3>1, <3>2
  <2>3. CASE ~r.ok /\ told # "alert" /\ ~telegram
    <3>1. ~sent
      BY <1>1, <1>5, <2>3
    <3>2. untold' = untold
      BY <1>2, <2>3
    <3>3. QED
      BY <1>3, <3>1, <3>2
  <2>4. QED
    BY <1>1, <1>3, <2>1, <2>2, <2>3
<1>7. /\ alertState'.ok = r.ok /\ alertState'.alertAge = (IF sent THEN 0 ELSE a)
      /\ alertState' = [ok |-> alertState'.ok, status |-> alertState'.status,
                        reason |-> alertState'.reason, alertAge |-> alertState'.alertAge]
  BY <1>2
<1>8. (IF sent THEN 0 ELSE a) \in 0..Cooldown
  BY <1>3
<1>9. QED
  BY <1>1, <1>2, <1>3, <1>5, <1>6, <1>7, <1>8 DEF WatchTypes, ToldInTime

LEMMA WatchKeeps ==
    ASSUME LoopTypeOK, WatchTypes, ToldInTime, [HealthNext]_allVars
    PROVE  WatchTypes' /\ ToldInTime'
<1>1. CASE UNCHANGED allVars
  BY <1>1, QuietKeeps DEF allVars, watchVars, Quiet
<1>2. CASE BeatOnEvaluate
  BY <1>2, QuietKeeps DEF BeatOnEvaluate, Statuses
<1>3. CASE BeatOnScanDone \/ ScanFails \/ BeatOnRestart
  BY <1>3, QuietKeeps DEF BeatOnScanDone, ScanFails, BeatOnRestart, Statuses
<1>4. CASE NoBeat \/ Disturbed
  BY <1>4, QuietKeeps DEF NoBeat, Disturbed
<1>5. CASE WatchedTick
  BY <1>5, WatchedTickKeeps
<1>6. CASE Check
  BY <1>6, CheckKeeps
<1>7. CASE TelegramChanges
  <2>1. /\ telegram' = ~telegram /\ heartbeat' = heartbeat /\ alertState' = alertState
        /\ due' = due /\ seen' = seen /\ untold' = untold
    BY <1>7 DEF TelegramChanges
  <2>2. telegram' \in BOOLEAN
    BY <2>1 DEF WatchTypes
  <2>3. QED
    BY <2>1, <2>2 DEF WatchTypes, ToldInTime
<1>8. QED
  BY <1>1, <1>2, <1>3, <1>4, <1>5, <1>6, <1>7 DEF HealthNext, WatchedLoop

THEOREM WatchInvariance == HealthSpec => []WatchInv
<1>1. WatchInv /\ [HealthNext]_allVars => WatchInv'
  BY WatchedSteps, LoopKeeps, WatchKeeps DEF WatchInv
<1>2. QED
  BY <1>1, WatchInvInit, PTL DEF HealthSpec

\* The operator has had an alert once Cooldown checks in a row found the loop
\* unhealthy and could tell it, whatever was seen, sent and lost before.
THEOREM WatchAlwaysSound == HealthSpec => []WatchSound
<1>1. WatchInv => WatchSound
  BY DEF WatchInv, WatchTypes, ToldInTime, WatchSound
<1>2. QED
  BY <1>1, WatchInvariance, PTL

\* The breaker lets no scan start while a bad fetch is in its window, whichever
\* process made it, and under ccxt none on a pair it has no row of.
THEOREM ScansAlwaysOnSight == HealthSpec => ScansOnlyOnSight
<1>1. ASSUME WatchInv, [LoopNext]_loopVars, pc = "evaluate", pc' = "scan", setup.block
      PROVE  /\ sinceBad = Window + 1
             /\ setup.source = "ccxt" => \A p \in Expected : \E r \in fetchLog : r.pair = p
  <2> USE SafeModeAssumption
  <2>1. Healthy
    BY <1>1 DEF LoopNext, Loop, Fetch, FetchForScan, FetchForCompare, Evaluate, ScanDone,
                CompareDone, WakeUp, TimePasses, Hang, Crash, Restart, FeedChanges, loopVars,
                ShouldBlock, AfterScan
  <2>2. sinceBad \in 0..(Window + 1) /\ setup.source \in {"ccxt", "redundant"}
    BY <1>1 DEF WatchInv, LoopTypeOK
  <2>3. sinceBad = Window + 1
    <3> SUFFICES ASSUME sinceBad <= Window PROVE FALSE
      BY <2>2
    <3>1. PICK r \in fetchLog : ~r.ok /\ (setup.source = "ccxt" => r.pair \in Expected)
      BY <1>1 DEF WatchInv, BadFetchLogged
    <3>2. QED
      BY <2>1, <2>2, <3>1 DEF Healthy, CcxtHealthy, RedundancyHealthy, ExpectedRows
  <2>4. setup.source = "ccxt" => \A p \in Expected : \E r \in fetchLog : r.pair = p
    BY <2>1 DEF Healthy, CcxtHealthy, ExpectedRows
  <2>5. QED
    BY <2>3, <2>4
<1>2. WatchInv /\ [HealthNext]_allVars =>
        /\ [pc = "evaluate" /\ pc' = "scan" /\ setup.block => sinceBad = Window + 1]_loopVars
        /\ [pc = "evaluate" /\ pc' = "scan" /\ setup.block /\ setup.source = "ccxt" =>
               \A p \in Expected : \E r \in fetchLog : r.pair = p]_loopVars
  BY <1>1, WatchedSteps
<1>3. QED
  BY <1>2, WatchInvariance, PTL DEF HealthSpec, ScansOnlyOnSight, NoScanAfterBadFetch, NoBlindCcxtScan

=============================================================================
