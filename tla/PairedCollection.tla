-------------------------- MODULE PairedCollection --------------------------
(***************************************************************************)
(* A paired collection of the QA harness: a supervisor process             *)
(* (eval/qa/paired-collection-supervisor.mjs) and two runner processes     *)
(* (eval/qa/run-qa.mjs with paired-collection-control.mjs), the arms, that *)
(* answer the same rows with paid calls, in lockstep over two IPC          *)
(* channels.  Anything may die: an arm, its server, the supervisor.  A     *)
(* cancellation travels as a marker file, which an arm looks at before it  *)
(* pays, and as a message, which an arm hears only while it waits.         *)
(*                                                                         *)
(* An arm is blocked for the whole of a row (its calls are synchronous),   *)
(* so it handles no message there.  Timers may fire at any time after they *)
(* are armed: the model has no clock.                                      *)
(***************************************************************************)
EXTENDS Naturals, Sequences

CONSTANTS
  NumRows,    \* the selected rows
  MaxFaults   \* bound: what goes wrong by itself and not as a consequence

ASSUME NumRowsAssumption == NumRows \in Nat \ {0}
ASSUME MaxFaultsAssumption == MaxFaults \in Nat

VARIABLES
  pc,            \* where each arm is
  rows,          \* rows it has reported complete
  attempt,       \* which of the two attempts at a row it makes
  cancelled,     \* the arms that have heard of a cancellation
  up, down,      \* messages to the supervisor, and to the arm
  closed,        \* the arms whose end of the channel is closed
  ready, row, postflight, complete, exited, disconnected,  \* as the supervisor
  unsent,        \* arms to which a required message could not be delivered
  failed,        \* failureReason is set
  marker,        \* the cancellation file: "absent", "present" or "unwritable"
  armed,         \* the timers that are running
  outcome,       \* "open", "resolved", "rejected", or "dead"
  lost,          \* arms whose server has gone or was replaced
  faults,        \* history: how much has gone wrong by itself
  late,          \* history: calls an arm started after the collection failed
  strayed        \* history: arms that started a call without their server

Arms == {"baseline", "candidate"}
Peer(a) == CHOOSE b \in Arms : b # a

arm == <<pc, rows, attempt, cancelled>>
progress == <<ready, row, postflight, complete>>
ends == <<exited, disconnected>>
fate == <<failed, marker, armed, outcome>>
history == <<late, strayed>>
vars == <<arm, up, down, closed, progress, ends, unsent, fate, lost, faults, history>>

\* An arm waits for a message, is in a row, or has left.
Waiting == {"ready", "barrier", "final"}
InRow == {"check", "call", "calling"}
Left == {"exited", "dead"}

\* The supervisor's own timers, and per arm that of a channel that does not
\* close after the exit of its process.
Timers == {"deadline", "drain", "termination"} \cup Arms

Msg(t, i, ok) == [type |-> t, index |-> i, ok |-> ok]
Empty == [a \in Arms |-> <<>>]

Init ==
  /\ pc = [a \in Arms |-> "boot"]
  /\ rows = [a \in Arms |-> 0] /\ attempt = [a \in Arms |-> 1]
  /\ cancelled = {} /\ closed = {}
  /\ up = Empty /\ down = Empty
  /\ ready = {} /\ row = [a \in Arms |-> 0] /\ postflight = {} /\ complete = {}
  /\ exited = {} /\ disconnected = {} /\ unsent = {}
  /\ failed = FALSE /\ marker = "absent" /\ armed = {"deadline"}
  /\ outcome = "open"
  /\ lost = {} /\ faults = 0
  /\ late = [a \in Arms |-> 0] /\ strayed = {}

Listening == outcome = "open" /\ ~ failed

\* What need not happen, and happens MaxFaults times at most.
Fault == faults < MaxFaults /\ faults' = faults + 1
NoFault == UNCHANGED faults

-----------------------------------------------------------------------------
(***************************************************************************)
(* An arm                                                                  *)
(***************************************************************************)
Goto(a, l) == pc' = [pc EXCEPT ![a] = l]

\* A message the supervisor would drop (it has failed) is not kept.
Send(a, m) == up' = IF Listening THEN [up EXCEPT ![a] = Append(@, m)] ELSE up

\* A message with a content, which is rarely not that of the plan.
SendContent(a, t) ==
  \/ Send(a, Msg(t, 0, TRUE)) /\ NoFault
  \/ Send(a, Msg(t, 0, FALSE)) /\ Fault

\* Mutant: the arm trusts the messages alone.
ActiveByMessage(a) == a \notin cancelled

\* assertActive: neither a message nor the marker has cancelled the arm.
Active(a) == a \notin cancelled /\ marker # "present"

OnlyArm == UNCHANGED <<down, closed, progress, ends, unsent, fate, lost, history>>

\* main() up to ready(): what is wrong before the first row ends the process.
Boot(a) ==
  /\ pc[a] = "boot"
  /\ \/ Active(a) /\ SendContent(a, "ready") /\ Goto(a, "ready")
     \/ ~ Active(a) /\ Goto(a, "leaving") /\ UNCHANGED up /\ NoFault
     \/ Fault /\ Goto(a, "leaving") /\ UNCHANGED up
  /\ UNCHANGED <<rows, attempt, cancelled>>
  /\ OnlyArm

\* The collection ends with an error, of the arm's own or a cancellation.  The
\* arm reports it, if it may still send.
Fail(a) ==
  /\ Goto(a, "failing")
  /\ \/ Active(a) /\ (IF a \in lost THEN NoFault ELSE Fault) /\ Send(a, Msg("failed", 0, TRUE))
     \/ ~ Active(a) /\ NoFault /\ UNCHANGED up

\* assertPairedRunActive and authorizeSpend before an attempt: the last look
\* at the marker before the money is spent.
Check(a) ==
  /\ pc[a] = "check"
  /\ \/ Active(a) /\ Goto(a, "call") /\ UNCHANGED up /\ NoFault
     \/ Fail(a)
  /\ UNCHANGED <<rows, attempt, cancelled>>
  /\ OnlyArm

\* The paid call starts: nothing can be taken back from here.
StartCall(a) ==
  /\ pc[a] = "call"
  /\ Goto(a, "calling")
  /\ late' = [late EXCEPT ![a] = IF failed \/ outcome = "dead" THEN @ + 1 ELSE @]
  /\ strayed' = IF a \in lost THEN strayed \cup {a} ELSE strayed
  /\ UNCHANGED <<rows, attempt, cancelled, up, down, closed, progress, ends, unsent,
                 fate, lost, faults>>

\* Mutant: every transport failure is tried again.
EndCallAgain(a) ==
  /\ pc[a] = "calling"
  /\ \/ /\ attempt' = [attempt EXCEPT ![a] = @ + 1]
        /\ Goto(a, "check")
        /\ UNCHANGED <<rows, up>> /\ NoFault
     \/ Fail(a) /\ UNCHANGED <<rows, attempt>>
  /\ UNCHANGED cancelled
  /\ OnlyArm

\* The call returns: a second attempt after a transport failure, an error that
\* stops the collection, or an answer, good or bad, that completes the row.
EndCall(a) ==
  /\ pc[a] = "calling"
  /\ \/ /\ attempt[a] = 1
        /\ attempt' = [attempt EXCEPT ![a] = 2]
        /\ Goto(a, "check")
        /\ UNCHANGED <<rows, up>> /\ NoFault
     \/ /\ Fail(a)
        /\ UNCHANGED <<rows, attempt>>
     \/ /\ Active(a)
        /\ Send(a, Msg("row-complete", rows[a], TRUE)) /\ NoFault
        /\ rows' = [rows EXCEPT ![a] = @ + 1]
        /\ Goto(a, "barrier")
        /\ UNCHANGED attempt
  /\ UNCHANGED cancelled
  /\ OnlyArm

\* Servers, surface, revisions and identities are looked at once more.
Postflight(a) ==
  /\ pc[a] = "postflight"
  /\ \/ /\ Active(a) /\ a \notin lost
        /\ Send(a, Msg("postflight-complete", 0, TRUE)) /\ NoFault
        /\ Goto(a, "final")
     \/ Fail(a)
  /\ UNCHANGED <<rows, attempt, cancelled>>
  /\ OnlyArm

\* A collection that failed is saved as not comparable, the channel is closed
\* and the process ends with an error.
SaveIncomparable(a) ==
  /\ pc[a] = "failing"
  /\ closed' = closed \cup {a}
  /\ Goto(a, "leaving")
  /\ UNCHANGED <<rows, attempt, cancelled, up, down, progress, ends, unsent, fate, lost,
                 faults, history>>

\* The result file is written as comparable; complete() reports its path.
Complete(a) ==
  /\ pc[a] = "written"
  /\ \/ Active(a) /\ SendContent(a, "complete") /\ Goto(a, "closing")
     \/ ~ Active(a) /\ Goto(a, "leaving") /\ UNCHANGED up /\ NoFault
  /\ UNCHANGED <<rows, attempt, cancelled>>
  /\ OnlyArm

\* The message went out: the arm disconnects and is done.
Disconnect(a) ==
  /\ pc[a] = "closing"
  /\ closed' = closed \cup {a}
  /\ Goto(a, "done")
  /\ UNCHANGED <<rows, attempt, cancelled, up, down, progress, ends, unsent, fate, lost,
                 faults, history>>

\* The process of an arm ends and takes what it knew with it.
End(a, l) ==
  /\ Goto(a, l)
  /\ closed' = closed \cup {a}
  /\ attempt' = [attempt EXCEPT ![a] = 1]
  /\ cancelled' = cancelled \ {a}
  /\ down' = [down EXCEPT ![a] = <<>>]
  /\ UNCHANGED <<rows, up, progress, ends, unsent, fate, lost, history>>

\* It exits, with status 0 when it is done, or is killed, as a fault or by the
\* supervisor's SIGTERM.
Exit(a) ==
  \/ pc[a] = "done" /\ End(a, "exited") /\ NoFault
  \/ pc[a] = "leaving" /\ End(a, "dead") /\ NoFault
  \/ pc[a] \notin Left /\ "termination" \in armed /\ End(a, "dead") /\ NoFault
  \/ pc[a] \notin Left /\ End(a, "dead") /\ Fault

\* waitFor returns with the message an arm waits for: the next row, the
\* postflight, or the last message that lets it write its result.
Awaited == [ready |-> "start", barrier |-> "continue", final |-> "finalize"]

Receive(a) ==
  /\ pc[a] \in Waiting
  /\ down[a] # <<>> /\ Head(down[a]) = Awaited[pc[a]]
  /\ down' = [down EXCEPT ![a] = Tail(@)]
  /\ Goto(a, CASE pc[a] = "final" -> "written"
               [] rows[a] < NumRows -> "check"
               [] OTHER -> "postflight")
  /\ attempt' = [attempt EXCEPT ![a] = 1]
  /\ UNCHANGED <<rows, cancelled, up, closed, progress, ends, unsent, fate, lost, faults,
                 history>>

\* cancelLocal ends the wait of an arm with an error; elsewhere it is heard
\* between two awaits, or together with the message before it.
Cancelled(a) ==
  /\ cancelled' = cancelled \cup {a}
  /\ \/ pc[a] = "ready" /\ Goto(a, "leaving")
     \/ pc[a] \in {"barrier", "final"} /\ Goto(a, "failing")
     \/ pc[a] \in {"boot", "postflight", "written"} /\ UNCHANGED pc
     \/ pc[a] = "check" /\ attempt[a] = 1 /\ UNCHANGED pc
  /\ UNCHANGED <<rows, attempt, up, closed, progress, ends, unsent, fate, lost, faults,
                 history>>

ReceiveCancel(a) ==
  /\ down[a] # <<>> /\ Head(down[a]) = "cancel"
  /\ down' = [down EXCEPT ![a] = Tail(@)]
  /\ Cancelled(a)

\* The channel ends under an arm when the supervisor is gone.
SupervisorGone(a) ==
  /\ outcome = "dead" /\ down[a] = <<>> /\ a \notin cancelled
  /\ UNCHANGED down
  /\ Cancelled(a)

ArmStep(a) ==
  \/ Boot(a) \/ Check(a) \/ StartCall(a) \/ EndCall(a) \/ Postflight(a)
  \/ SaveIncomparable(a) \/ Complete(a) \/ Disconnect(a) \/ Exit(a)
  \/ Receive(a) \/ ReceiveCancel(a) \/ SupervisorGone(a)

-----------------------------------------------------------------------------
(***************************************************************************)
(* The supervisor                                                          *)
(***************************************************************************)
\* One more message on the channels of the arms in A; a closed one loses it.
Post(q, A, m) == [a \in Arms |-> IF a \in A \ closed THEN Append(q[a], m) ELSE q[a]]

\* Mutant: the first failure stops the deadline and arms no other timer.
CancelUntimed(hard, gone, q) ==
  /\ failed' = TRUE /\ marker' = "present" /\ NoFault
  /\ up' = Empty
  /\ down' = Post(q, Arms, "cancel")
  /\ outcome' = IF gone = Arms THEN "rejected" ELSE outcome
  /\ armed' = IF gone = Arms THEN {} ELSE armed \ {"deadline"}
  /\ unsent' = {}

\* cancel(reason, {hard}): the first failure writes the marker, tells both
\* arms, and gives them 30 s, or none when it is hard, before they are killed.
\* The promise is rejected at once when both have exited (settleFailure).
Cancel(hard, gone, q) ==
  /\ failed' = TRUE
  /\ \/ marker' = "present" /\ NoFault
     \/ marker' = "unwritable" /\ Fault
  /\ up' = Empty
  /\ down' = Post(q, Arms, "cancel")
  /\ outcome' = IF gone = Arms THEN "rejected" ELSE outcome
  /\ armed' = IF gone = Arms THEN {}
              ELSE (armed \ {"deadline"}) \cup {IF hard THEN "termination" ELSE "drain"}
  /\ unsent' = {}

\* Nothing is decided, or sent; u is what is left to read.
Quiet(u) == up' = u /\ NoFault /\ UNCHANGED <<down, unsent, fate>>

\* sendControl of a required message; its callback may report that it failed.
Deliver(u, m) ==
  /\ up' = u /\ NoFault
  /\ down' = Post(down, Arms, m)
  /\ unsent' = unsent \cup closed
  /\ UNCHANGED fate

\* releaseAfterBarrier: the servers are looked at, then both arms are let go,
\* unless a channel is known to be closed.
Release(u, m) ==
  IF lost # {} THEN Cancel(FALSE, exited, down)
  ELSE IF disconnected # {} THEN Cancel(TRUE, exited, down)
  ELSE Deliver(u, m)

\* After the last postflight the arms are told one by one: a candidate whose
\* channel is closed is found when the baseline has been told.
Finalize(u) ==
  IF disconnected = {} THEN Deliver(u, "finalize")
  ELSE Cancel(TRUE, exited,
              IF "baseline" \in disconnected THEN down ELSE Post(down, {"baseline"}, "finalize"))

\* What the supervisor takes from an arm at this point of the protocol.
Fits(a, m) ==
  CASE m.type = "ready" -> a \notin ready
    [] m.type = "row-complete" -> ready = Arms /\ m.index = row[a] /\ row[a] < NumRows
    [] m.type = "postflight-complete" -> row[a] = NumRows /\ a \notin postflight
    [] m.type = "complete" -> a \in postflight \ complete
    [] OTHER -> TRUE

\* A message of type t that fits, and whose content is accepted, has come.
Hear(a, t) ==
  /\ Listening /\ up[a] # <<>>
  /\ Head(up[a]).type = t /\ Head(up[a]).ok /\ Fits(a, Head(up[a]))
  /\ UNCHANGED <<arm, closed, ends, lost, history>>

Rest(a) == [up EXCEPT ![a] = Tail(@)]

\* Mutant: the arms are let go when the first of them is ready.
OnFirstReady(a) ==
  /\ Hear(a, "ready")
  /\ ready' = ready \cup {a}
  /\ IF ready = {} THEN Release(Rest(a), "start") ELSE Quiet(Rest(a))
  /\ UNCHANGED <<row, postflight, complete>>

OnReady(a) ==
  /\ Hear(a, "ready")
  /\ ready' = ready \cup {a}
  /\ IF ready' = Arms THEN Release(Rest(a), "start") ELSE Quiet(Rest(a))
  /\ UNCHANGED <<row, postflight, complete>>

\* Mutant: the barrier opens for the arm that is behind, or level.
OnRowCompleteEarly(a) ==
  /\ Hear(a, "row-complete")
  /\ row' = [row EXCEPT ![a] = @ + 1]
  /\ IF row[Peer(a)] >= row[a] THEN Release(Rest(a), "continue") ELSE Quiet(Rest(a))
  /\ UNCHANGED <<ready, postflight, complete>>

OnRowComplete(a) ==
  /\ Hear(a, "row-complete")
  /\ row' = [row EXCEPT ![a] = @ + 1]
  /\ IF row[Peer(a)] = row[a] + 1 THEN Release(Rest(a), "continue") ELSE Quiet(Rest(a))
  /\ UNCHANGED <<ready, postflight, complete>>

OnPostflight(a) ==
  /\ Hear(a, "postflight-complete")
  /\ postflight' = postflight \cup {a}
  /\ IF postflight' = Arms THEN Finalize(Rest(a)) ELSE Quiet(Rest(a))
  /\ UNCHANGED <<ready, row, complete>>

\* maybeResolve: both arms are complete, have exited well and are silent.
Resolved(done, gone, silent) ==
  /\ done = Arms /\ gone = Arms /\ silent = Arms
  /\ \A a \in Arms : pc[a] = "exited"

Resolve(u) ==
  /\ outcome' = "resolved" /\ armed' = {}
  /\ up' = u /\ NoFault
  /\ UNCHANGED <<down, unsent, failed, marker>>

OnComplete(a) ==
  /\ Hear(a, "complete")
  /\ complete' = complete \cup {a}
  /\ IF Resolved(complete', exited, disconnected) THEN Resolve(Rest(a)) ELSE Quiet(Rest(a))
  /\ UNCHANGED <<ready, row, postflight>>

\* An arm that failed by its own account cancels softly.
OnFailed(a) ==
  /\ Hear(a, "failed")
  /\ Cancel(FALSE, exited, down)
  /\ UNCHANGED progress

\* A message that does not fit, or whose content is not that of the plan.
OnProtocolFailure(a) ==
  /\ Listening /\ up[a] # <<>>
  /\ ~ (Head(up[a]).ok /\ Fits(a, Head(up[a])))
  /\ Cancel(TRUE, exited, down)
  /\ UNCHANGED <<arm, closed, progress, ends, lost, history>>

\* evaluateExit: nothing is decided before both events of an arm have come.
EvaluateExit(a, gone, silent) ==
  IF a \notin gone \cap silent THEN Quiet(up)
  ELSE IF a \notin complete \/ pc[a] # "exited" THEN Cancel(TRUE, gone, down)
  ELSE IF Resolved(complete, gone, silent) THEN Resolve(up)
  ELSE Quiet(up)

\* Mutant: the exit is judged without asking whether the collection failed.
OnExitEager(a) ==
  /\ outcome = "open" /\ pc[a] \in Left /\ a \notin exited
  /\ exited' = exited \cup {a}
  /\ IF a \in disconnected
       THEN EvaluateExit(a, exited', disconnected)
       ELSE armed' = armed \cup {a} /\ NoFault
            /\ UNCHANGED <<up, down, unsent, failed, marker, outcome>>
  /\ UNCHANGED <<arm, closed, progress, disconnected, lost, history>>

OnExit(a) ==
  /\ outcome = "open" /\ pc[a] \in Left /\ a \notin exited
  /\ exited' = exited \cup {a}
  /\ IF failed
       THEN /\ outcome' = IF exited' = Arms THEN "rejected" ELSE outcome
            /\ armed' = IF exited' = Arms THEN {} ELSE armed
            /\ UNCHANGED <<up, down, unsent, failed, marker>> /\ NoFault
       ELSE IF a \in disconnected
       THEN EvaluateExit(a, exited', disconnected)
       ELSE /\ armed' = armed \cup {a}
            /\ UNCHANGED <<up, down, unsent, failed, marker, outcome>> /\ NoFault
  /\ UNCHANGED <<arm, closed, progress, disconnected, lost, history>>

\* The channel of an arm ends after everything it sent has been read.
OnDisconnect(a) ==
  /\ outcome = "open" /\ a \in closed \ disconnected /\ up[a] = <<>>
  /\ disconnected' = disconnected \cup {a}
  /\ IF Listening /\ a \in exited
       THEN EvaluateExit(a, exited, disconnected')
       ELSE /\ armed' = armed \ {a}
            /\ UNCHANGED <<up, down, unsent, failed, marker, outcome>> /\ NoFault
  /\ UNCHANGED <<arm, closed, progress, exited, lost, history>>

\* The callback of a required message that could not be delivered.
OnSendError(a) ==
  /\ Listening /\ a \in unsent
  /\ Cancel(TRUE, exited, down)
  /\ UNCHANGED <<arm, closed, progress, ends, lost, history>>

Handle(a) ==
  \/ OnReady(a) \/ OnRowComplete(a) \/ OnPostflight(a) \/ OnComplete(a)
  \/ OnFailed(a) \/ OnProtocolFailure(a)
  \/ OnExit(a) \/ OnDisconnect(a) \/ OnSendError(a)

-----------------------------------------------------------------------------
(***************************************************************************)
(* Timers, and what happens to everyone                                    *)
(***************************************************************************)
OnlyTimer == UNCHANGED <<closed, progress, ends, lost, history>>

\* Four hours are over.
Deadline ==
  /\ "deadline" \in armed
  /\ Cancel(TRUE, exited, down)
  /\ UNCHANGED arm /\ OnlyTimer

\* The channel of an exited process did not close in a second.
IpcDrain(a) ==
  /\ a \in armed \ disconnected /\ Listening
  /\ Cancel(TRUE, exited, down)
  /\ UNCHANGED arm /\ OnlyTimer

\* The arms were given their time: SIGTERM, and 5 s more.
Drain ==
  /\ "drain" \in armed
  /\ armed' = (armed \ {"drain"}) \cup {"termination"}
  /\ UNCHANGED <<arm, up, down, unsent, failed, marker, outcome, faults>>
  /\ OnlyTimer

\* SIGKILL, which no arm survives, and the promise is rejected.
Terminate ==
  /\ "termination" \in armed
  /\ outcome' = "rejected" /\ armed' = {}
  /\ pc' = [a \in Arms |-> IF pc[a] \in Left THEN pc[a] ELSE "dead"]
  /\ UNCHANGED <<rows, attempt, cancelled, up, down, unsent, failed, marker, faults>>
  /\ OnlyTimer

\* The supervisor is killed: its channels end, and it leaves no marker.
SupervisorDies ==
  /\ outcome = "open" /\ Fault
  /\ outcome' = "dead" /\ armed' = {} /\ up' = Empty
  /\ UNCHANGED <<arm, down, unsent, failed, marker>>
  /\ OnlyTimer

\* A server stops, or another process takes its port.  It never comes back as
\* the process that was recorded.
LoseServer(a) ==
  /\ a \notin lost /\ outcome = "open" /\ Fault
  /\ lost' = lost \cup {a}
  /\ UNCHANGED <<arm, up, down, closed, progress, ends, unsent, fate, history>>

Next ==
  \/ \E a \in Arms : ArmStep(a) \/ Handle(a) \/ IpcDrain(a) \/ LoseServer(a)
  \/ Deadline \/ Drain \/ Terminate \/ SupervisorDies

Spec == Init /\ [][Next]_vars

\* Node's timers fire.  Nothing is assumed of the arms: they may hang.
FairSpec == Spec /\ WF_vars(Deadline) /\ WF_vars(Drain) /\ WF_vars(Terminate)

-----------------------------------------------------------------------------
TypeOK ==
  /\ pc \in [Arms -> Waiting \cup InRow \cup Left \cup
               {"boot", "postflight", "failing", "written", "closing", "leaving", "done"}]
  /\ rows \in [Arms -> 0..NumRows] /\ row \in [Arms -> 0..NumRows]
  /\ attempt \in [Arms -> 1..2]
  /\ \A S \in {cancelled, closed, ready, postflight, complete, exited, disconnected,
               unsent, lost, strayed} : S \subseteq Arms
  /\ failed \in BOOLEAN
  /\ marker \in {"absent", "present", "unwritable"}
  /\ armed \subseteq Timers
  /\ outcome \in {"open", "resolved", "rejected", "dead"}
  /\ faults \in 0..MaxFaults
  /\ late \in [Arms -> Nat]

\* A receipt says that both arms completed every row and ended well, that nobody
\* was told of a failure, and that no call ran on a server that had been replaced.
ReceiptIsSound ==
  outcome = "resolved" =>
    /\ ~ failed /\ marker = "absent"
    /\ \A a \in Arms : rows[a] = NumRows /\ pc[a] = "exited"
    /\ strayed = {}

\* Once the collection has failed an arm starts one more call at most; two,
\* the attempts of its row, when there is no marker for it to see.
SpendStops ==
  \A a \in Arms : late[a] <= IF marker = "present" THEN 1 ELSE 2

\* An arm that follows the protocol is never accused of breaking it, whatever
\* the order in which the messages of the two arms are read.
NeverAccused ==
  Listening => \A a \in Arms : up[a] # <<>> => Fits(a, Head(up[a]))

\* The supervisor answers, however the arms behave.
Settles == <>(outcome # "open")

Verdict == CASE outcome = "resolved" -> "receipt"
             [] outcome = "open" /\ ~ failed -> "open"
             [] OTHER -> "refused"

Promise == INSTANCE Lockstep WITH
  finished <- rows, working <- {a \in Arms : pc[a] \in InRow}, verdict <- Verdict

\* The arms work in lockstep, and a receipt needs every row of both.
ImplementsLockstep == Promise!Spec

-----------------------------------------------------------------------------
(***************************************************************************)
(* Why the properties above hold: what is known of the two channels, of an *)
(* arm's place beside the supervisor's record of it, and of the calls that *)
(* an arm can still start.                                                 *)
(***************************************************************************)
Messages == [type : {"ready", "row-complete", "postflight-complete", "complete", "failed"},
             index : 0..NumRows, ok : BOOLEAN]
Controls == {"start", "continue", "finalize", "cancel"}

\* An arm says one thing at a time: it waits for an answer, or ends.
Channels ==
  /\ up \in [Arms -> {<<>>} \cup {<<m>> : m \in Messages}]
  /\ down \in [Arms -> Seq(Controls)]

\* An arm that waits has been let go on.
Released(a) ==
  /\ pc[a] \in Waiting
  /\ \/ down[a] = <<Awaited[pc[a]]>>
     \/ failed /\ down[a] = <<Awaited[pc[a]], "cancel">>

\* It is told one thing at a time, and at last of the cancellation.
Told(a) ==
  \/ pc[a] \in Left
  \/ down[a] = <<>>
  \/ failed /\ down[a] = <<"cancel">>
  \/ Released(a)

\* What the supervisor's record and the place of an arm say of each other,
\* before and after the collection has failed.
Course(a) ==
  /\ row[a] <= rows[a]
  /\ row[a] > 0 => ready = Arms
  /\ pc[a] \in {"boot", "ready"} => rows[a] = 0
  /\ pc[a] \in InRow => rows[a] < NumRows
  /\ pc[a] \notin {"boot", "ready", "leaving", "dead"} => ready = Arms
  /\ pc[a] \in {"postflight", "final"} => rows[a] = NumRows
  /\ pc[a] \in {"written", "closing", "done", "exited"} => postflight = Arms
  /\ a \in postflight =>
       row[a] = NumRows /\ pc[a] \notin {"boot", "ready", "barrier", "postflight"} \cup InRow
  /\ a \in complete => a \in postflight /\ pc[a] \in {"closing", "done", "exited", "dead"}
  /\ Released(a) =>
       /\ pc[a] = "ready" => ready = Arms
       /\ pc[a] = "barrier" => \A b \in Arms : rows[a] <= rows[b]
       /\ pc[a] = "final" => postflight = Arms

\* An arm that has called without its server does not pass its postflight.
Caught(a) ==
  a \in strayed =>
    /\ a \in lost \ postflight
    /\ pc[a] \notin {"final", "written", "closing", "done", "exited"}

\* No arm is behind it in the supervisor's record.
Level(a) == \A b \in Arms : row[a] <= row[b]

\* While the supervisor listens: a message that has not been read fits, and was
\* said from where the arm is.
Unread(a) ==
  Listening /\ up[a] # <<>> =>
    LET m == Head(up[a]) IN
      /\ Fits(a, m) /\ down[a] = <<>>
      /\ m.type = "ready" => pc[a] \in {"ready", "dead"}
      /\ m.type = "row-complete" =>
           pc[a] \in {"barrier", "dead"} /\ rows[a] = row[a] + 1 /\ Level(a)
      /\ m.type = "postflight-complete" => pc[a] \in {"final", "dead"} /\ a \notin strayed
      /\ m.type = "complete" => pc[a] \in {"closing", "done", "exited", "dead"}
      /\ m.type = "failed" => pc[a] \in {"failing", "leaving", "dead"}

\* And where nothing is unread, the record is up to date.
Abreast(a) ==
  Listening =>
    /\ pc[a] = "boot" => a \notin ready
    /\ pc[a] = "ready" /\ up[a] = <<>> => a \in ready
    /\ pc[a] \in InRow \cup {"boot", "postflight", "written"} => up[a] = <<>>
    /\ pc[a] \notin {"failing", "leaving", "dead"} /\ up[a] = <<>> => row[a] = rows[a]
    /\ pc[a] \notin {"barrier", "leaving", "dead"} \/ Released(a) => Level(a)
    /\ pc[a] = "failing" => a \notin postflight
    /\ pc[a] = "leaving" => a \in closed \/ a \notin ready
    /\ pc[a] \in Left => a \in closed

\* The calls an arm can still start: those of one row, and none under a marker.
Spend(a) ==
  /\ late[a] <= 2
  /\ pc[a] \in {"check", "call"} => late[a] < attempt[a]
  /\ pc[a] = "calling" => late[a] <= attempt[a]
  /\ Released(a) => late[a] = 0
  /\ marker = "present" => late[a] <= 1 /\ (pc[a] = "call" => late[a] = 0)
  /\ ~ failed /\ outcome # "dead" => late[a] = 0

\* The collection fails once, nobody hears of it before, and nothing is armed
\* when it is over.
Fates ==
  /\ ~ failed => marker = "absent"
  /\ failed => "deadline" \notin armed
  /\ armed \cap {"drain", "termination"} # {} => failed
  /\ outcome # "open" => armed = {}
  /\ Listening => cancelled = {}

Place(a) == Told(a) /\ Course(a) /\ Caught(a) /\ Unread(a) /\ Abreast(a) /\ Spend(a)

IInv == TypeOK /\ Channels /\ Fates /\ ReceiptIsSound /\ \A a \in Arms : Place(a)
=============================================================================
