------------------------------ MODULE EvalCost ------------------------------
(***************************************************************************)
(* The accounting of one evaluation turn, src/demo/eval-cost.ts: a binding *)
(* between the chat and the AI Gateway that reads the cost of every model  *)
(* call from the Gateway's log before it lets the next one go, and reports *)
(* a total at the end of the turn, or null.                                *)
(*                                                                         *)
(* The chat makes its calls one after the other (no retries, no resume:    *)
(* chat.ts:334), but the turn may be aborted at any time, so that finish   *)
(* runs beside a dispatch that is settling or whose response is awaited.   *)
(*                                                                         *)
(* Calls are numbered in the order they are sent; the log of a call has    *)
(* its number, and 0 stands for no log.  Costs are integers.  A log that   *)
(* states a cost states the final one.                                     *)
(***************************************************************************)
EXTENDS Naturals

CONSTANTS
  MaxCalls,     \* bound on the calls of a turn
  MaxCost,      \* the most a call costs
  Authorized,   \* maxBudgetUsd
  Reads         \* attempts to read one log

ASSUME CostAssumption ==
  /\ MaxCalls \in Nat /\ MaxCost \in Nat
  /\ Authorized \in Nat \ {0} /\ Reads \in Nat \ {0}

VARIABLES
  calls, reportedCalls, reportedCost, error, pending, seen,
  dispatch,   \* the call in the making: "idle", "settle", "check" or "sent"
  finish,     \* "open", "settle", "report" or "done"
  taking,     \* the log each of the two settles, 0 for none
  reads,      \* and how often it has read it in vain
  report,     \* costUsd as reported
  cost,       \* history: what each call sent so far really costs
  spent,      \* history: what they cost together
  before      \* history: the same before the last call was sent

state == <<calls, reportedCalls, reportedCost, error, pending, seen>>
flow == <<dispatch, finish, taking, reads>>
bill == <<cost, spent, before>>
costVars == <<state, flow, report, bill>>

Ids == 1..MaxCalls
Settlers == {"dispatch", "finish"}
Unreported == [final |-> FALSE, known |-> FALSE, usd |-> 0]
Null == [final |-> TRUE, known |-> FALSE, usd |-> 0]
Usd(n) == [final |-> TRUE, known |-> TRUE, usd |-> n]

CostInit ==
  /\ calls = 0 /\ reportedCalls = 0 /\ reportedCost = 0
  /\ error = FALSE
  /\ pending = 0
  /\ seen = {}
  /\ dispatch = "idle" /\ finish = "open"
  /\ taking = [s \in Settlers |-> 0]
  /\ reads = [s \in Settlers |-> 0]
  /\ report = Unreported
  /\ cost = [i \in Ids |-> 0] /\ spent = 0 /\ before = 0

\* settle() takes the pending log before its first await, or has none to take.
Take(s) ==
  /\ taking' = [taking EXCEPT ![s] = pending]
  /\ reads' = [reads EXCEPT ![s] = 0]
  /\ pending' = 0
  /\ UNCHANGED <<calls, reportedCalls, reportedCost, error, seen>>

\* Mutant: a dispatch does not settle the call before it.
BeginDispatchUnsettled ==
  /\ finish = "open" /\ dispatch = "idle" /\ calls < MaxCalls
  /\ dispatch' = "check"
  /\ UNCHANGED <<state, finish, taking, reads, bill, report>>

\* dispatch(): the previous call is settled first.  The chat starts no call
\* once its turn has ended.
BeginDispatch ==
  /\ finish = "open" /\ dispatch = "idle" /\ calls < MaxCalls
  /\ Take("dispatch")
  /\ dispatch' = IF pending = 0 THEN "check" ELSE "settle"
  /\ UNCHANGED <<finish, bill, report>>

\* finish(): at the end of the turn, or when it is aborted.
BeginFinish ==
  /\ finish = "open"
  /\ Take("finish")
  /\ finish' = IF pending = 0 THEN "report" ELSE "settle"
  /\ UNCHANGED <<dispatch, bill, report>>

\* settle() of a dispatch or of finish is reading the log it took.
Settling(s) == IF s = "dispatch" THEN dispatch = "settle" ELSE finish = "settle"

\* settle() returns: the dispatch goes on to its checks, finish to its report.
EndSettle(s) ==
  /\ dispatch' = IF s = "dispatch" THEN "check" ELSE dispatch
  /\ finish' = IF s = "finish" THEN "report" ELSE finish
  /\ taking' = [taking EXCEPT ![s] = 0]
  /\ UNCHANGED reads

\* getLog answers with a cost.
ReadCost(s) ==
  /\ Settling(s)
  /\ reportedCalls' = reportedCalls + 1
  /\ reportedCost' = reportedCost + cost[taking[s]]
  /\ error' = (error \/ reportedCost' > Authorized)
  /\ EndSettle(s)
  /\ UNCHANGED <<calls, pending, seen, bill, report>>

\* Mutant: a log that does not come is asked for for ever.
ReadNothingForever(s) ==
  /\ Settling(s)
  /\ reads' = [reads EXCEPT ![s] = (@ + 1) % Reads]
  /\ UNCHANGED <<state, dispatch, finish, taking, bill, report>>

\* getLog fails, is late or has no cost yet: read again, or give the cost up.
ReadNothing(s) ==
  /\ Settling(s)
  /\ IF reads[s] + 1 < Reads
       THEN /\ reads' = [reads EXCEPT ![s] = @ + 1]
            /\ UNCHANGED <<error, dispatch, finish, taking>>
       ELSE error' = TRUE /\ EndSettle(s)
  /\ UNCHANGED <<calls, reportedCalls, reportedCost, pending, seen, bill, report>>

\* An unknown cost, or a budget that is spent: the call is not made.
Refuse ==
  /\ dispatch = "check"
  /\ error \/ reportedCost >= Authorized
  /\ dispatch' = "idle"
  /\ UNCHANGED <<state, finish, taking, reads, bill, report>>

\* The provider charges for a call that is sent.
Charge(i) ==
  /\ \E c \in 0..MaxCost : cost' = [cost EXCEPT ![i] = c] /\ spent' = spent + c
  /\ before' = spent

\* invoke(): from here on the call costs what it costs.
Send ==
  /\ dispatch = "check"
  /\ ~ error /\ reportedCost < Authorized
  /\ calls' = calls + 1
  /\ Charge(calls + 1)
  /\ dispatch' = "sent"
  /\ UNCHANGED <<reportedCalls, reportedCost, error, pending, seen, finish, taking, reads, report>>

\* Mutant: a log id that was seen before is taken for a new one.
RespondUnchecked ==
  /\ dispatch = "sent"
  /\ \E id \in Ids \cup {0} :
       /\ id \in seen \cup {calls, 0}
       /\ IF id = 0 THEN error' = TRUE /\ UNCHANGED <<seen, pending>>
          ELSE seen' = seen \cup {id} /\ pending' = id /\ UNCHANGED error
  /\ dispatch' = "idle"
  /\ UNCHANGED <<calls, reportedCalls, reportedCost, finish, taking, reads, bill, report>>

\* The response names its own log, one that was seen, or none.
Respond ==
  /\ dispatch = "sent"
  /\ \E id \in seen \cup {calls, 0} :
       IF id = 0 \/ id \in seen THEN error' = TRUE /\ UNCHANGED <<seen, pending>>
       ELSE seen' = seen \cup {id} /\ pending' = id /\ UNCHANGED error
  /\ dispatch' = "idle"
  /\ UNCHANGED <<calls, reportedCalls, reportedCost, finish, taking, reads, bill, report>>

\* invoke() rejects: the call may have cost something all the same.
InvokeFails ==
  /\ dispatch = "sent"
  /\ error' = TRUE
  /\ dispatch' = "idle"
  /\ UNCHANGED <<calls, reportedCalls, reportedCost, pending, seen, finish, taking, reads, bill, report>>

\* Mutant: the total is reported whenever there was no error.
ReportOnNoError ==
  /\ finish = "report"
  /\ finish' = "done"
  /\ report' = IF calls = 0 \/ error THEN Null ELSE Usd(reportedCost)
  /\ UNCHANGED <<state, dispatch, taking, reads, bill>>

\* finish() reports the total only when every call it counted was reported.
Report ==
  /\ finish = "report"
  /\ finish' = "done"
  /\ report' = IF calls = 0 \/ reportedCalls # calls THEN Null ELSE Usd(reportedCost)
  /\ UNCHANGED <<state, dispatch, taking, reads, bill>>

CostNext ==
  \/ BeginDispatch \/ Refuse \/ Send \/ Respond \/ InvokeFails
  \/ BeginFinish \/ Report
  \/ \E s \in Settlers : ReadCost(s) \/ ReadNothing(s)

CostSpec == CostInit /\ [][CostNext]_costVars

\* Each read of a log ends, on its timer of a second if need be.
Reading(s) == ReadCost(s) \/ ReadNothing(s)
CostFairSpec == CostSpec /\ WF_costVars(Reading("finish")) /\ WF_costVars(Report)

-----------------------------------------------------------------------------

CostTypeOK ==
  /\ calls \in 0..MaxCalls
  /\ reportedCalls \in Nat /\ reportedCost \in Nat
  /\ error \in BOOLEAN
  /\ pending \in 0..MaxCalls
  /\ seen \subseteq Ids
  /\ dispatch \in {"idle", "settle", "check", "sent"}
  /\ finish \in {"open", "settle", "report", "done"}
  /\ taking \in [Settlers -> 0..MaxCalls]
  /\ reads \in [Settlers -> Nat]
  /\ cost \in [Ids -> 0..MaxCost] /\ spent \in Nat /\ before \in Nat
  /\ report \in [final : BOOLEAN, known : BOOLEAN, usd : Nat]

\* A total that is reported is exactly what the calls of the turn had cost by
\* then: a lost answer, a late log, a repeated log id or an aborted turn makes
\* it null, never too small (eval-cost.ts:1, 178-183).
ReportIsExact ==
  [][Report /\ report'.known => report'.usd = spent]_costVars

\* A call is sent only when everything before it is known and was within the
\* budget: the turn spends less than the budget before its last call.
SpendBounded == before < Authorized

\* The last call is the only one whose cost may be out: on its way, pending, or
\* being read; when it is none of these, it was given up and that is an error.
Out ==
  \/ dispatch = "sent" \/ pending # 0
  \/ \E s \in Settlers : taking[s] # 0

Settled == reportedCalls = calls /\ reportedCost = spent /\ ~ Out
OneOut ==
  /\ reportedCalls + 1 = calls /\ reportedCost = before
  /\ calls > 0 /\ spent = before + cost[calls]
  /\ Out \/ error

Flow ==
  /\ dispatch \in {"settle", "check"} => calls < MaxCalls
  /\ dispatch = "check" => ~ Out
  /\ dispatch = "sent" => pending = 0 /\ \A s \in Settlers : taking[s] = 0
  /\ dispatch = "sent" => calls \notin seen
  /\ pending # 0 => pending = calls /\ \A s \in Settlers : taking[s] = 0
  /\ \A s \in Settlers : Settling(s) <=> taking[s] # 0
  /\ \A s \in Settlers : taking[s] # 0 => taking[s] = calls
  /\ ~ (Settling("dispatch") /\ Settling("finish"))
  /\ finish = "settle" => dispatch = "idle"
  /\ seen \subseteq 1..calls

CostIInv == CostTypeOK /\ Flow /\ SpendBounded /\ (Settled \/ OneOut)

\* The report of a turn that ends is not held up by logs that do not come.
TurnReports == [](finish = "settle" => <>(finish = "done"))

=============================================================================
