---------------------------- MODULE MCLiveHealth ----------------------------
(***************************************************************************)
(* Deployments of the live loop: two pairs under each source and shadow    *)
(* setting; settings that name more or fewer pairs than the live mode or   *)
(* the profiles scan; and, with one pair, the timer of the health check.   *)
(***************************************************************************)
EXTENDS LiveHealth

Default == [source |-> "ccxt", shadow |-> TRUE, block |-> TRUE, pairs |-> {"BTCUSDT", "ETHUSDT"},
            enableLiveMode |-> FALSE, liveMode |-> "balanced", exitProfile |-> FALSE,
            enableProfiles |-> FALSE, allowLiveProfiles |-> FALSE, profiles |-> <<>>]

Unwatched == {
    Default,
    [Default EXCEPT !.source = "redundant", !.shadow = FALSE, !.exitProfile = TRUE],
    [Default EXCEPT !.enableLiveMode = TRUE, !.liveMode = "conservative"],
    [Default EXCEPT !.pairs = {"BTCUSDT"}, !.shadow = FALSE, !.enableProfiles = TRUE, !.allowLiveProfiles = TRUE,
                    !.profiles = [BTCUSDT |-> "set", ETHUSDT |-> "set", SOLUSDT |-> "empty"]]}

MCMonitored == {[Default EXCEPT !.pairs = {"BTCUSDT"}, !.source = "redundant"]}

MCSetups == Unwatched \cup MCMonitored
=============================================================================
