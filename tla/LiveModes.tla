----------------------------- MODULE LiveModes -----------------------------
(***************************************************************************)
(* Which pairs a live engine scans (main.py, core/pair_profiles.py): those *)
(* of the custom pair profiles, else those of the live mode, else those of *)
(* the settings.  A profile is reduced to whether it says anything: "off"  *)
(* is disabled or no mapping at all, "empty" sets none of the fields that  *)
(* a profile may set, "set" sets one.                                      *)
(***************************************************************************)
EXTENDS FiniteSets

\* LIVE_MODE_*_PAIRS, and LIVE_PROFILE_PAIRS of the older exit profile.
ModePairs == [balanced     |-> {"BTCUSDT", "ETHUSDT"},
              aggressive   |-> {"BTCUSDT", "ETHUSDT", "SOLUSDT"},
              conservative |-> {"BTCUSDT"}]
LiveProfilePairs == {"BTCUSDT", "ETHUSDT"}

\* _legacy_live_pairs
LegacyPairs(s) == IF s.exitProfile THEN LiveProfilePairs ELSE s.pairs

\* _effective_live_mode: an unknown name falls back to the settings.
EffectiveLiveMode(s) ==
    IF s.enableLiveMode /\ s.liveMode \in DOMAIN ModePairs
    THEN [enabled |-> TRUE, pairs |-> ModePairs[s.liveMode]]
    ELSE [enabled |-> FALSE, pairs |-> LegacyPairs(s)]

\* build_pair_runtime_profiles: a profile that says nothing is left out.
RuntimeProfiles(raw) == {p \in DOMAIN raw : raw[p] = "set"}

\* _build_live_pair_profiles: the live mode gives each of its pairs a minimum
\* score, so each has a profile that says something.
PairProfiles(s) ==
    IF s.enableProfiles /\ DOMAIN s.profiles # {}
    THEN IF s.allowLiveProfiles THEN RuntimeProfiles(s.profiles) ELSE {}
    ELSE IF EffectiveLiveMode(s).enabled THEN EffectiveLiveMode(s).pairs ELSE {}

\* live_pairs of run_engine
ScannedPairs(s) ==
    IF s.enableProfiles /\ s.allowLiveProfiles /\ PairProfiles(s) # {}
    THEN PairProfiles(s) ELSE EffectiveLiveMode(s).pairs
=============================================================================
