---------------------------- MODULE MCAsofReplay ----------------------------
(***************************************************************************)
(* Three pairs, of which the first and the last correlate with the second  *)
(* only; two or three steps; two runs over the same files.                 *)
(***************************************************************************)
EXTENDS AsofReplay

CONSTANTS BTC, ETH, LTC, USDT

MCPairs == {BTC, ETH, LTC}
MCCurrencies == {BTC, ETH, LTC, USDT}
MCBase == [p \in MCPairs |-> p]
MCQuote == [p \in MCPairs |-> USDT]
MCOrder == <<BTC, ETH, LTC>>
MCCorrelated(p, q) == p # q /\ (p = ETH \/ q = ETH)

MCFrames == [htf |-> 4, ltf |-> 2, trigger |-> 1]
MCNeeded == [htf |-> 1, ltf |-> 1, trigger |-> 2]
\* A trigger candle of one pair is missing, so that the step of another pair
\* shows it the candle before once more.
MCGaps == {{}, {<<BTC, 2>>}}

Command(start, end, source, maxSteps) ==
    [start |-> start, end |-> end, source |-> source, maxSteps |-> maxSteps]
MCRequests == {Command(0, 2, "trigger", 3), Command(0, 5, "live_journal", 2)}

MCLive == {{}, {[observed |-> 2, pair |-> BTC, side |-> "BUY", at |-> 1]}}
=============================================================================
