---------------------------- MODULE AuditTrail ----------------------------
(***************************************************************************)
(* What the host promises about the service calls behind an answer: every  *)
(* call is put on the trail before anyone is shown its result, nothing     *)
(* leaves the trail, and once the script is over a single report takes the *)
(* trail as it then stands.  So the report covers all that was shown.      *)
(***************************************************************************)
CONSTANTS Ops   \* service calls

VARIABLES
  trail,     \* the calls on record
  shown,     \* the calls whose results the script has been given
  over,      \* the script has ended
  filed,     \* the report has been made
  report     \* the calls the report covers

trailVars == <<trail, shown, over, filed, report>>

TrailInit ==
  /\ trail = {}
  /\ shown = {}
  /\ over = FALSE
  /\ filed = FALSE
  /\ report = {}

\* Calls are recorded at any time, also after the script or the report.
Record ==
  /\ \E c \in Ops : trail' = trail \cup {c}
  /\ UNCHANGED <<shown, over, filed, report>>

Show ==
  /\ ~over
  /\ \E S \in SUBSET trail : shown' = shown \cup S
  /\ UNCHANGED <<trail, over, filed, report>>

Conclude ==
  /\ ~over
  /\ over' = TRUE
  /\ UNCHANGED <<trail, shown, filed, report>>

File ==
  /\ over /\ ~filed
  /\ filed' = TRUE
  /\ report' = trail
  /\ UNCHANGED <<trail, shown, over>>

TrailNext == Record \/ Show \/ Conclude \/ File

TrailSpec == TrailInit /\ [][TrailNext]_trailVars
=============================================================================
