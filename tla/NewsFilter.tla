----------------------------- MODULE NewsFilter -----------------------------
(***************************************************************************)
(* execution/news.py below the scan: the calendar of the week is fetched   *)
(* when an evaluation gets as far as the news, kept for a while, and a     *)
(* release of high impact near the moment of the scan, before or after,    *)
(* can keep the signal back.  The calendar goes on meanwhile: results are  *)
(* published and releases added.  A feed that does not answer lets the     *)
(* signal through.  backtest/news.py judges the same releases from a file. *)
(*                                                                         *)
(* A move of the market is a unit of time.                                 *)
(***************************************************************************)
EXTENDS SignalEvaluation

CONSTANTS
    Calendars,      \* sets of releases to start from
    Announced,      \* releases that may be added to the calendar
    Currencies,     \* of the pair
    Actuals,        \* results a release may have
    NewsTtl,        \* age up to which a fetched calendar is used
    BlackoutBefore, BlackoutAfter,
    SurpriseThreshold   \* in hundredths

ASSUME NewsAssumption ==
    /\ {NewsTtl, BlackoutBefore, BlackoutAfter, SurpriseThreshold} \subseteq Nat
    /\ SurpriseThreshold % 2 = 0

VARIABLES
    calendar,   \* the releases as the site has them, each with the time of its last change
    fetched,    \* _cached_events and _cached_at, <<>> before the first fetch
    news        \* what the scan of this moment was told, and by whom, <<>> if it did not ask

newsVars == <<calendar, fetched, news>>
scanVars == <<vars, newsVars>>

-----------------------------------------------------------------------------
(* A release is [currency, impact, at, actual, forecast, since].           *)

Relevant(events) == {e \in events : e.currency \in Currencies /\ e.impact = "high"}

Near(e, now) == e.at - now \in -BlackoutAfter .. BlackoutBefore

\* The distance of the result from the forecast, in hundredths of the latter.
Surprises(e, hundredths) ==
    LET actual == e.actual[1]
        forecast == e.forecast[1]
    IN  IF actual = forecast THEN hundredths = 0
        ELSE 100 * Distance(actual, forecast) >= hundredths * Distance(forecast, 0)

SurpriseOf(e) ==
    IF Surprises(e, (3 * SurpriseThreshold) \div 2) THEN "high"
    ELSE IF Surprises(e, SurpriseThreshold) THEN "medium" ELSE "low"

UncertaintyOf(e) ==
    IF e.actual = <<>> THEN "high" ELSE IF e.forecast = <<>> THEN "medium" ELSE SurpriseOf(e)

Verdict(uncertainties, any) ==
    IF "high" \in uncertainties THEN [allow |-> FALSE, score |-> 0]
    ELSE IF "medium" \in uncertainties THEN [allow |-> TRUE, score |-> 8]
    ELSE [allow |-> TRUE, score |-> IF any THEN 12 ELSE 15]

\* NewsFilter.evaluate_pair, of the events it has.
Assessment(events, now) ==
    Verdict({UncertaintyOf(e) : e \in {x \in Relevant(events) : Near(x, now)}}, Relevant(events) # {})

\* Without an answer of the feed.
Unavailable == [allow |-> TRUE, score |-> 7]

\* HistoricalNewsFeed.evaluate.  A column with a number in it has NaN, and not
\* None, where a number is missing, and NaN is never a surprise.
Missing(events, column) == IF \A e \in events : e[column] = <<>> THEN "none" ELSE "nan"

HistoricalUncertainty(e, events) ==
    LET none(column) == e[column] = <<>> /\ Missing(events, column) = "none"
    IN  IF none("actual") THEN "high"
        ELSE IF none("forecast") THEN "medium"
        ELSE IF <<>> \in {e.actual, e.forecast} THEN "low"
        ELSE SurpriseOf(e)

HistoricalAssessment(events, now) ==
    Verdict({HistoricalUncertainty(e, events) : e \in {x \in Relevant(events) : Near(x, now)}},
            Relevant(events) # {})

-----------------------------------------------------------------------------
NewsInit == Init /\ calendar \in Calendars /\ fetched = <<>> /\ news = <<>>

\* The result of a release that is due.
Publish ==
    /\ \E e \in calendar, actual \in Actuals :
          /\ e.actual = <<>> /\ e.at <= moves
          /\ calendar' = (calendar \ {e}) \cup {[e EXCEPT !.actual = <<actual>>, !.since = moves]}
    /\ UNCHANGED <<vars, fetched, news>>

Announce ==
    /\ \E e \in Announced :
          /\ \A x \in calendar : x.at # e.at \/ x.currency # e.currency
          /\ calendar' = calendar \cup {[e EXCEPT !.since = moves]}
    /\ UNCHANGED <<vars, fetched, news>>

\* Variant: the calendar fetched first is used for good.
FetchedOnce == fetched # <<>>

\* _get_events
StillGood == fetched # <<>> /\ moves - fetched[1].at <= NewsTtl

Answers ==
    LET Told(events, source, kept) ==
            [news |-> Assessment(events, moves), source |-> source, fetched |-> kept]
    IN  IF StillGood THEN {Told(fetched[1].events, "cache", fetched)}
        ELSE {Told(calendar, "feed", <<[events |-> calendar, at |-> moves]>>),
              [news |-> Unavailable, source |-> "nobody", fetched |-> fetched]}

\* The gates before the news.
EarlierStages ==
    {"history", "data_freshness", "session_gate", "regime_gate", "direction", "direction_gate", "regime"}

ScanWithNews(v, refresh) ==
    \E answer \in Answers :
        /\ Evaluate([v EXCEPT !.news = answer.news], refresh)
        /\ LET asked == outcome'[1].stage \notin EarlierStages
           IN  /\ fetched' = IF asked THEN answer.fetched ELSE fetched
               /\ news' = IF asked THEN <<[source |-> answer.source] @@ answer.news>> ELSE <<>>
        /\ UNCHANGED calendar

MarketStep ==
    /\ \/ \E gap \in Gaps : OpenCandle(gap)
       \/ \E d \in Ticks : Tick(d)
    /\ news' = <<>> /\ UNCHANGED <<calendar, fetched>>

NewsNext ==
    \/ MarketStep
    \/ \E v \in Views, refresh \in BOOLEAN : ScanWithNews(v, refresh)
    \/ Publish
    \/ Announce

NewsSpec == NewsInit /\ [][NewsNext]_scanVars

-----------------------------------------------------------------------------
(* Properties *)

\* The releases that have stood as they are for longer than a calendar is kept.
Settled == {e \in calendar : moves - e.since > NewsTtl}

\* No signal is let through while a release of high impact for its pair is
\* near whose result is not known, or far from its forecast, and has been for
\* longer than a fetched calendar is kept; unless the feed did not answer.
NoBlindSignal ==
    \A e \in ToSet(outcome), n \in ToSet(news) :
        e.stage = "accepted" /\ n.source # "nobody" =>
            \A x \in Relevant(Settled) : Near(x, moves) => UncertaintyOf(x) # "high"

\* And none is kept back for what is no longer so: when nothing has changed for
\* as long, a release of the calendar is the reason.
BlockedWithReason ==
    \A e \in ToSet(outcome) :
        e.stage = "news" /\ Settled = calendar =>
            \E x \in Relevant(calendar) : Near(x, moves) /\ UncertaintyOf(x) = "high"

\* A backtest over the same releases is told what a live scan is told, where
\* every release near the moment has its forecast and its result.
HistoryAgrees ==
    LET near == {x \in Relevant(calendar) : Near(x, moves)}
    IN  (\A x \in near : x.actual # <<>> /\ x.forecast # <<>>) =>
            HistoricalAssessment(calendar, moves) = Assessment(calendar, moves)

NewsSound == NoBlindSignal /\ BlockedWithReason /\ HistoryAgrees

\* The outcome of a scan is well formed, its signals can be traded, and none
\* goes out blind into a release.
SignalsSound == PlansSound /\ NewsSound
=============================================================================
