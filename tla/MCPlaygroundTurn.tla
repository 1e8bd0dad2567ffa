-------------------------- MODULE MCPlaygroundTurn --------------------------
(***************************************************************************)
(* Instances of PlaygroundTurn for TLC.  MCOutcomes has one outcome of     *)
(* each kind the advice tells apart: a failed script, one without any host *)
(* evidence, rows missing, only failed operations, data, data cut at the   *)
(* model boundary, data with a hint, and data that is cut and has a hint.  *)
(* MCFew has the last one, which is told as cut once a hint was given, and *)
(* the one whose note takes precedence over both.                          *)
(***************************************************************************)
EXTENDS PlaygroundTurn

Outcome(ok, truncated, evidence, ops, hint) ==
  [ok |-> ok, truncated |-> truncated, evidence |-> evidence, ops |-> ops,
   hint |-> hint]

Failed    == Outcome(FALSE, FALSE, "service-data", "good", FALSE)
Baseless  == Outcome(TRUE, FALSE, "none", "none", FALSE)
NoRows    == Outcome(TRUE, FALSE, "service-inconclusive", "good", FALSE)
AllFailed == Outcome(TRUE, FALSE, "service-inconclusive", "bad", FALSE)
Grounded  == Outcome(TRUE, FALSE, "service-data", "good", FALSE)
Truncated == Outcome(TRUE, TRUE, "service-data", "good", FALSE)
Hinted    == Outcome(TRUE, FALSE, "service-data", "good", TRUE)
CutHinted == Outcome(TRUE, TRUE, "service-data", "good", TRUE)

MCOutcomes  ==
  {Failed, Baseless, NoRows, AllFailed, Grounded, Truncated, Hinted, CutHinted}
MCFew       == {Baseless, CutHinted}
=============================================================================
