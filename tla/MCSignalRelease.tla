-------------------------- MODULE MCSignalRelease --------------------------
(***************************************************************************)
(* SignalRelease on two pairs that share their quote currency, so that the *)
(* caps of the one count what the other released.  The gross cap is above  *)
(* the net cap, so that an exposure on the other side lets through what    *)
(* only the batch cap stops.                                               *)
(***************************************************************************)
EXTENDS SignalRelease

MCPairs == {"AQ", "BQ"}
MCCurrencies == {"A", "B", "Q"}
MCBase == [p \in MCPairs |-> IF p = "AQ" THEN "A" ELSE "B"]
MCQuote == [p \in MCPairs |-> "Q"]
=============================================================================
