------------------------- MODULE MCPairedCollection -------------------------
(***************************************************************************)
(* Two rows, so that there is a barrier between rows, one before the first *)
(* and one after the last, with both arms in every relative position.      *)
(***************************************************************************)
EXTENDS PairedCollection
=============================================================================
