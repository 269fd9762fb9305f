--------------------------- MODULE MCPaperTrading ---------------------------
(***************************************************************************)
(* Three candidates over two symbols, with times that let the third fill   *)
(* before, inside or after the intervals of the first two.                 *)
(***************************************************************************)
EXTENDS PaperTrading

MCRs == {-1, 2}
=============================================================================
