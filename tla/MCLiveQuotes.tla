---------------------------- MODULE MCLiveQuotes ----------------------------
(***************************************************************************)
(* Two timeframes, the longer one twice the shorter, two completed bars    *)
(* kept of each; with a link that breaks fewer quotes come in.             *)
(***************************************************************************)
EXTENDS LiveQuotes

MCTimeframes == <<1, 2>>
=============================================================================
