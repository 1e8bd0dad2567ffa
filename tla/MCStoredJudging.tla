--------------------------- MODULE MCStoredJudging ---------------------------
(***************************************************************************)
(* Two rows, so that one may be judged when a process dies in the other,   *)
(* and a cap that lets both rows be answered twice and then judged once by *)
(* a panel; a deployment at any time; two judges and two panel sizes, so   *)
(* that a restart may ask for another one.                                 *)
(***************************************************************************)
EXTENDS StoredJudging
=============================================================================
