----------------------------- MODULE MCEvalCost -----------------------------
(***************************************************************************)
(* Up to four calls of cost 0 to 2 against a budget of 3, so that a turn   *)
(* may end below the budget, at it and above it; three reads of each log.  *)
(***************************************************************************)
EXTENDS EvalCost
=============================================================================
