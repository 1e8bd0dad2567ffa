----------------------------- MODULE VerdictBook -----------------------------
(***************************************************************************)
(* What the stored judging of a saved collection promises of its file,     *)
(* whatever becomes of the processes that write it: the verdict of a row   *)
(* is written once and is never lost or replaced, and the file gets its    *)
(* summary only when every row has its verdict.                            *)
(***************************************************************************)
EXTENDS Naturals

CONSTANTS
  Rows,
  Verdicts,
  Unjudged    \* what stands where there is no verdict yet

VARIABLES
  book,       \* per row: its verdict, or Unjudged
  summary     \* the file has its summary

vars == <<book, summary>>

Init == book = [r \in Rows |-> Unjudged] /\ summary = FALSE

\* A write of the file: some rows get their verdict, and perhaps the summary.
Write ==
  /\ \E written \in SUBSET {r \in Rows : book[r] = Unjudged} :
       /\ \A r \in written : book'[r] \in Verdicts
       /\ \A r \in Rows \ written : book'[r] = book[r]
  /\ DOMAIN book' = Rows
  /\ summary' \in BOOLEAN
  /\ summary => summary'
  /\ summary' => \A r \in Rows : book'[r] # Unjudged

Next == Write

Spec == Init /\ [][Next]_vars
=============================================================================
