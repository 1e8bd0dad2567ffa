----------------------------- MODULE OneAnswer -----------------------------
(***************************************************************************)
(* What one Playground turn promises the browser that reads its stream:    *)
(* whatever models the server tried, the visible answer has one author,    *)
(* the turn has one verdict, and the server closes the stream only once    *)
(* the verdict is in it, unless the browser has left.                      *)
(***************************************************************************)
CONSTANTS
  Models,     \* the models a turn may fall back through
  Nobody,     \* no model has spoken yet
  Verdicts    \* the terminal frames

VARIABLES
  author,     \* the model whose text and tool traces the browser shows
  verdict,    \* the terminal frame, or none yet
  left,       \* the browser has cancelled the stream
  closed      \* the server has closed the stream

vars == <<author, verdict, left, closed>>

Init ==
  /\ author = Nobody
  /\ verdict = "none"
  /\ left = FALSE
  /\ closed = FALSE

(* A model adds to the answer.  Only the first one to speak ever does.     *)
Speak(m) ==
  /\ ~left /\ ~closed
  /\ author \in {m, Nobody}
  /\ author' = m
  /\ UNCHANGED <<verdict, left, closed>>

(* The verdict reaches the browser.  The answer may still grow after it.   *)
Conclude(v) ==
  /\ ~left /\ ~closed
  /\ verdict = "none"
  /\ verdict' = v
  /\ UNCHANGED <<author, left, closed>>

Leave ==
  /\ ~closed
  /\ left' = TRUE
  /\ UNCHANGED <<author, verdict, closed>>

(* The server closes the stream, adding the verdict if none was sent.      *)
Close ==
  /\ ~closed
  /\ closed' = TRUE
  /\ \/ verdict' = verdict /\ (left \/ verdict # "none")
     \/ verdict = "none" /\ ~left /\ verdict' \in Verdicts
  /\ UNCHANGED <<author, left>>

Next ==
  \/ \E m \in Models : Speak(m)
  \/ \E v \in Verdicts : Conclude(v)
  \/ Leave
  \/ Close

Spec == Init /\ [][Next]_vars
=============================================================================
