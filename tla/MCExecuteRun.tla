---------------------------- MODULE MCExecuteRun ----------------------------
(***************************************************************************)
(* Instances of ExecuteRun for TLC.                                        *)
(***************************************************************************)
EXTENDS ExecuteRun, TLC

OpSymmetry == Permutations(Ops)
=============================================================================
