--------------------------- MODULE MCForwardOutcomes ---------------------------
(***************************************************************************)
(* Holding time and expiry of one candle, and candles enough for a fill at *)
(* the last possible one to be held to its time stop.                      *)
(***************************************************************************)
EXTENDS ForwardOutcomes

=============================================================================
