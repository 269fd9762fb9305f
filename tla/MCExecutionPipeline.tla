------------------------ MODULE MCExecutionPipeline ------------------------
(***************************************************************************)
(* Two candidates: one that can go all the way, and a newer one of a       *)
(* symbol phase 10 does not allow.  Each view but the first has one thing  *)
(* wrong with it.                                                          *)
(***************************************************************************)
EXTENDS ExecutionPipeline

MCCandidates ==
    { [symbol |-> "BTCUSDT", side |-> "BUY", entry |-> 10, stop |-> 9, at |-> 1],
      [symbol |-> "DOGEUSDT", side |-> "BUY", entry |-> 10, stop |-> 8, at |-> 2] }

AllGood ==
    [market_scope |-> TRUE, live_mode_disabled |-> TRUE, health |-> TRUE, sample |-> TRUE,
     expectancy |-> TRUE, drawdown |-> TRUE, roi |-> TRUE, coverage |-> "ok"]
MCEvidence ==
    { AllGood, [AllGood EXCEPT !.health = FALSE], [AllGood EXCEPT !.drawdown = FALSE],
      [AllGood EXCEPT !.sample = FALSE], [AllGood EXCEPT !.sample = FALSE, !.roi = FALSE],
      [AllGood EXCEPT !.coverage = "negative"], [AllGood EXCEPT !.coverage = "undersampled"] }

Fresh == [age |-> 0, served |-> "fresh", ok |-> TRUE, stale |-> FALSE]
Good ==
    [ticker |-> <<[bid |-> 9, ask |-> 10, last |-> 10, age |-> 0]>>, drift |-> <<0>>,
     book |-> <<[bid |-> 9, ask |-> 10]>>, diagnostics |-> <<Fresh>>]
MCViews ==
    { Good,
      [Good EXCEPT !.ticker = <<>>],
      [Good EXCEPT !.ticker = <<[bid |-> 9, ask |-> 10, last |-> 11, age |-> 2]>>],
      [Good EXCEPT !.ticker[1].age = NoTime],
      [Good EXCEPT !.ticker[1].ask = 8],
      [Good EXCEPT !.book = <<>>],
      [Good EXCEPT !.book = <<[bid |-> 12, ask |-> 13]>>],
      [Good EXCEPT !.drift = <<2>>],
      [Good EXCEPT !.diagnostics = <<[Fresh EXCEPT !.served = "stale_cache_after_provider_failure"]>>],
      [Good EXCEPT !.diagnostics = <<>>] }

MCBooks == {[bid |-> 8, ask |-> 10]}
MCModes == {<<"dry_run", FALSE>>, <<"sandbox_stub", FALSE>>}
=============================================================================
