-------------------------- MODULE MCSignalDelivery --------------------------
(***************************************************************************)
(* Two fingerprints and a cache of one, so that a repeated signal meets    *)
(* both a remembered and an evicted fingerprint.                           *)
(***************************************************************************)
EXTENDS SignalDelivery
=============================================================================
