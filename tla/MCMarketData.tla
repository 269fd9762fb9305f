--------------------------- MODULE MCMarketData ---------------------------
(***************************************************************************)
(* The scan asks for less than a page of candles, the outcome tracker for  *)
(* more; now and then the scan's process replays from the cache.           *)
(***************************************************************************)
EXTENDS MarketData, TLC

CONSTANTS scan, tracker

MCRequests == (scan :> {[limit |-> 2, mode |-> "read_through", until |-> 0]})
              @@ (tracker :> {[limit |-> 3, mode |-> "read_through", until |-> 0],
                              [limit |-> 3, mode |-> "cache_only", until |-> 6]})
MCBackups == <<"live_bars", "ccxt">>
=============================================================================
