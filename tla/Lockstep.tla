------------------------------ MODULE Lockstep ------------------------------
(***************************************************************************)
(* What a paired collection promises: two arms that work through the same  *)
(* rows in lockstep, so that no arm begins a row before both have finished *)
(* the one before, and one verdict: a receipt, which needs every row of    *)
(* both, or a refusal.  Arms may abandon a row and stop at any time.       *)
(***************************************************************************)
EXTENDS Naturals

CONSTANTS
  Arms,
  NumRows

VARIABLES
  finished,   \* rows each arm has finished
  working,    \* the arms that are in a row
  verdict     \* "open", "receipt" or "refused"

vars == <<finished, working, verdict>>

Init ==
  /\ finished = [a \in Arms |-> 0]
  /\ working = {}
  /\ verdict = "open"

Begin(a) ==
  /\ a \notin working
  /\ finished[a] < NumRows
  /\ \A b \in Arms : finished[b] >= finished[a]
  /\ working' = working \cup {a}
  /\ UNCHANGED <<finished, verdict>>

Finish(a) ==
  /\ a \in working
  /\ finished' = [finished EXCEPT ![a] = @ + 1]
  /\ working' = working \ {a}
  /\ UNCHANGED verdict

Abandon ==
  /\ \E A \in (SUBSET working) \ {{}} : working' = working \ A
  /\ UNCHANGED <<finished, verdict>>

Receipt ==
  /\ verdict = "open"
  /\ working = {}
  /\ \A a \in Arms : finished[a] = NumRows
  /\ verdict' = "receipt"
  /\ UNCHANGED <<finished, working>>

Refuse ==
  /\ verdict = "open"
  /\ verdict' = "refused"
  /\ UNCHANGED <<finished, working>>

Next ==
  \/ \E a \in Arms : Begin(a) \/ Finish(a)
  \/ Abandon \/ Receipt \/ Refuse

Spec == Init /\ [][Next]_vars
=============================================================================
