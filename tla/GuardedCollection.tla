-------------------------- MODULE GuardedCollection --------------------------
(***************************************************************************)
(* The collection of answers by one runner (eval/qa/run-qa.mjs): row by    *)
(* row, with at most two attempts at each, every paid call between two     *)
(* captures of the identity of the remote services                         *)
(* (eval/qa/remote-identity-guard.mjs) and within one spend ledger.  The   *)
(* services move forward while the run goes on (a deployment is not taken  *)
(* back), a probe may be unavailable, the operator may cancel, the process *)
(* may die.  An identity is the number of deployments; 0 is the one that   *)
(* the run was authorised for.                                             *)
(***************************************************************************)
EXTENDS SpendLedger, FiniteSets

CONSTANTS
  NumRows,        \* the selected cases
  Cap,            \* --max-budget-usd, in units of money
  MaxCost,        \* bound: what a call may report to have cost at most
  CaptureTries,   \* REMOTE_IDENTITY_MAX_CAPTURE_ATTEMPTS
  MaxWorld        \* bound: deployments of the remote services

ASSUME CollectionAssumption ==
  /\ NumRows \in Nat \ {0} /\ Cap \in Nat /\ MaxCost \in Nat \ {0}
  /\ CaptureTries \in Nat \ {0} /\ MaxWorld \in Nat

VARIABLES
  cpc,         \* where the runner is
  row,         \* the row it works at
  attempt,     \* the first or the second attempt at it
  captures,    \* probes of the capture it makes
  baseline,    \* baselineVector
  pending,     \* the vector of the call in flight (pendingCall)
  reusable,    \* reusableAfterCheck, while it is not too old
  retryable,   \* the call ended in a transport failure
  stopped,     \* collectionError is set
  closed,      \* the guard has failed or was cancelled
  outcomes,    \* per row: the first attempt's outcome
  ledger,      \* the spend ledger of the process
  artifact,    \* the saved file: "none", "comparable" or "incomparable"
  world,       \* the identity the services have
  cancel,      \* the operator has cancelled
  paid,        \* history: what was really reported as spent
  stale        \* history: calls that ran, to the end at least, under another identity

runner == <<row, attempt, captures, baseline, pending, reusable, retryable>>
verdicts == <<stopped, closed, outcomes, artifact>>
environment == <<world, cancel>>
collectVars == <<cpc, runner, verdicts, ledger, environment, paid, stale>>

Rows == 1..NumRows
Costs == 1..MaxCost
NoVector == MaxWorld + 1    \* no identity that the services ever have
Expected == 0

CollectInit ==
  /\ cpc = "authorize" /\ row = 1 /\ attempt = 1 /\ captures = 0
  /\ baseline = NoVector /\ pending = NoVector /\ reusable = NoVector
  /\ retryable = FALSE /\ stopped = FALSE /\ closed = FALSE
  /\ outcomes = [r \in Rows |-> "none"]
  /\ ledger = NewLedger /\ artifact = "none"
  /\ world = 0 /\ cancel = FALSE
  /\ paid = 0 /\ stale = 0

-----------------------------------------------------------------------------
CGoto(l) == cpc' = l

\* The row ends with an error: the collection is over but for the postflight.
Stop(guard) ==
  /\ stopped' = TRUE
  /\ closed' = (closed \/ guard)
  /\ CGoto("postflight")
  /\ pending' = NoVector
  /\ UNCHANGED <<row, attempt, reusable, retryable, outcomes, artifact>>

\* Mutant: the services are probed and the vectors are not compared.
MatchesAnything(v, w) == TRUE

\* compareRemoteIdentityVectors.
Matches(v, w) == v = w

\* Before anything else of an attempt: is the run active, is there money?
Authorize ==
  /\ cpc = "authorize"
  /\ IF cancel \/ ~ CanAuthorize(ledger, Cap)
       THEN Stop(FALSE)
       ELSE /\ CGoto("before")
            /\ UNCHANGED <<row, attempt, pending, reusable, retryable, verdicts>>
  /\ UNCHANGED <<captures, baseline, ledger, environment, paid, stale>>

\* The vector of a call is known: the first is that of the run and must be the
\* expected one, a later one must be like the first.  Cancellation is looked
\* at last, just before the call.
Proceed(v) ==
  /\ captures' = 0 /\ reusable' = NoVector
  /\ baseline' = IF baseline = NoVector THEN v ELSE baseline
  /\ IF Matches(baseline', v) /\ (baseline = NoVector => Matches(Expected, v)) /\ ~ cancel
       THEN CGoto("call") /\ pending' = v /\ UNCHANGED <<stopped, closed>>
       ELSE /\ CGoto("postflight") /\ stopped' = TRUE /\ closed' = TRUE
            /\ UNCHANGED pending

\* reusableBeforeVector: the capture after the last call stands for the one
\* before this.  It is not taken when it is older than a minute.
Reuse ==
  /\ cpc = "before" /\ captures = 0
  /\ reusable # NoVector /\ baseline # NoVector
  /\ Proceed(reusable)
  /\ UNCHANGED <<row, attempt, retryable, outcomes, artifact, ledger, environment, paid, stale>>

\* A minute passes: the last capture can no longer be reused.
Age ==
  /\ reusable # NoVector
  /\ reusable' = NoVector
  /\ UNCHANGED <<cpc, row, attempt, captures, baseline, pending, retryable, verdicts, ledger,
                 environment, paid, stale>>

\* captureVector gives up: no vector after the last try, an error that is not
\* the probe's, or a cancellation between two tries.
GiveUp == Stop(TRUE) /\ captures' = 0 /\ UNCHANGED baseline

Capturing == cpc \in {"before", "after"} /\ (cpc = "before" => reusable = NoVector)

CaptureFails ==
  /\ Capturing
  /\ \/ ~ cancel /\ captures + 1 < CaptureTries /\ captures' = captures + 1
        /\ UNCHANGED <<cpc, row, attempt, baseline, pending, reusable, retryable, verdicts>>
     \/ GiveUp
  /\ UNCHANGED <<ledger, environment, paid, stale>>

CaptureBefore ==
  /\ cpc = "before" /\ Capturing /\ ~ cancel
  /\ Proceed(world)
  /\ UNCHANGED <<row, attempt, retryable, outcomes, artifact, ledger, environment, paid, stale>>

\* The paid call starts.
StartCall ==
  /\ cpc = "call"
  /\ CGoto("calling")
  /\ UNCHANGED <<runner, verdicts, ledger, environment, paid, stale>>

Touched == stale' = IF world # Expected THEN stale + 1 ELSE stale

\* The call returns and is recorded (onCompleted, recordSpend).  A cost that is
\* missing or too high, and an agent that could not reach the server, end the
\* collection, after the second capture.
EndCall ==
  /\ cpc = "calling"
  /\ CGoto("after") /\ Touched
  /\ \E cost \in Costs \cup {NoCost}, result \in {"answer", "transport", "limit", "protocol"} :
       /\ ledger' = Record(ledger, cost)
       /\ paid' = IF cost = NoCost THEN paid ELSE paid + cost
       /\ stopped' = (Faulty(ledger, Cap, cost) \/ (attempt = 1 /\ result = "protocol"))
       /\ retryable' = (result = "transport")
       /\ outcomes' = IF attempt = 1
                        THEN [outcomes EXCEPT ![row] = IF result = "answer" THEN result ELSE "failure"]
                        ELSE outcomes
  /\ UNCHANGED <<row, attempt, captures, baseline, pending, reusable, closed, artifact, environment>>

\* The call ends with an error: there is nothing to record.
CallThrows ==
  /\ cpc = "calling"
  /\ CGoto("after") /\ Touched
  /\ stopped' = TRUE
  /\ UNCHANGED <<runner, closed, outcomes, artifact, ledger, environment, paid>>

\* After a call that was checked: the error of the call itself counts, then the
\* retry, then the next row.
Retrying == attempt = 1 /\ retryable

Advance ==
  \/ stopped /\ CGoto("postflight") /\ UNCHANGED <<row, attempt>>
  \/ ~ stopped /\ Retrying /\ CGoto("authorize") /\ attempt' = 2 /\ UNCHANGED row
  \/ /\ ~ stopped /\ ~ Retrying
     /\ CGoto(IF row = NumRows THEN "postflight" ELSE "authorize")
     /\ attempt' = 1
     /\ row' = IF row = NumRows THEN row ELSE row + 1

\* Mutant: a call that is to be repeated is not captured after, and the capture
\* before it stands for the next one too.
CaptureAfterUnlessRetry ==
  /\ cpc = "after" /\ ~ cancel
  /\ captures' = 0 /\ pending' = NoVector
  /\ \/ Retrying /\ reusable' = pending
     \/ ~ Retrying /\ Matches(pending, world) /\ reusable' = world
  /\ Advance
  /\ UNCHANGED <<stopped, closed, baseline, retryable, outcomes, artifact, ledger, environment,
                 paid, stale>>

\* The capture after the call must be like the one before.
CaptureAfter ==
  /\ cpc = "after" /\ ~ cancel
  /\ captures' = 0 /\ pending' = NoVector
  /\ IF Matches(pending, world)
       THEN reusable' = world /\ Advance /\ UNCHANGED <<stopped, closed>>
       ELSE /\ stopped' = TRUE /\ closed' = TRUE /\ CGoto("postflight")
            /\ UNCHANGED <<row, attempt, reusable>>
  /\ UNCHANGED <<baseline, retryable, outcomes, artifact, ledger, environment, paid, stale>>

\* postflight(): skipped when the guard has stopped, an error when there is no
\* baseline, and otherwise a fresh capture that must be like the first.
Postflight ==
  /\ cpc = "postflight"
  /\ closed' = (closed \/ baseline = NoVector \/ cancel \/ ~ Matches(baseline, world))
  /\ CGoto("write")
  /\ UNCHANGED <<runner, stopped, outcomes, artifact, ledger, environment, paid, stale>>

\* The last probe stays unavailable, or the server, its surface or its revision
\* are not what they were.
PostflightFails ==
  /\ cpc = "postflight" /\ ~ closed
  /\ closed' = TRUE
  /\ CGoto("write")
  /\ UNCHANGED <<runner, stopped, outcomes, artifact, ledger, environment, paid, stale>>

\* What the process knew, but for its result, goes with it.
Forget ==
  /\ row' = 1 /\ attempt' = 1 /\ captures' = 0
  /\ baseline' = NoVector /\ pending' = NoVector /\ reusable' = NoVector
  /\ retryable' = FALSE /\ stopped' = FALSE /\ closed' = FALSE

\* collectionComparabilityReasons: an error or a guard that stopped.
WriteArtifact ==
  /\ cpc = "write"
  /\ artifact' = IF stopped \/ closed THEN "incomparable" ELSE "comparable"
  /\ CGoto("done")
  /\ Forget
  /\ UNCHANGED <<outcomes, ledger, environment, paid, stale>>

\* The process dies: a collection leaves nothing that could be resumed.
CollectCrash ==
  /\ cpc \notin {"done", "crashed"}
  /\ CGoto("crashed")
  /\ Forget
  /\ UNCHANGED <<outcomes, artifact, ledger, environment, paid, stale>>

\* The services are deployed, the operator cancels.
Deploy ==
  /\ cpc \notin {"done", "crashed"} /\ world < MaxWorld
  /\ world' = world + 1
  /\ UNCHANGED <<cpc, runner, verdicts, ledger, cancel, paid, stale>>

Interrupt ==
  /\ cpc \notin {"done", "crashed"} /\ ~ cancel
  /\ cancel' = TRUE
  /\ UNCHANGED <<cpc, runner, verdicts, ledger, world, paid, stale>>

CollectStep ==
  \/ Authorize \/ Reuse \/ CaptureFails \/ CaptureBefore \/ StartCall \/ EndCall \/ CallThrows
  \/ CaptureAfter \/ Postflight \/ PostflightFails \/ WriteArtifact

CollectNext == CollectStep \/ Age \/ CollectCrash \/ Deploy \/ Interrupt

-----------------------------------------------------------------------------
\* The places of the runner, and the types of what the collection keeps.
Places == {"authorize", "before", "call", "calling", "after", "postflight", "write", "done",
           "crashed"}

CollectTypeOK ==
  /\ cpc \in Places
  /\ row \in Rows /\ attempt \in 1..2 /\ captures \in 0..(CaptureTries - 1)
  /\ baseline \in 0..NoVector /\ pending \in 0..NoVector /\ reusable \in 0..NoVector
  /\ retryable \in BOOLEAN /\ stopped \in BOOLEAN /\ closed \in BOOLEAN
  /\ outcomes \in [Rows -> {"none", "answer", "failure"}]
  /\ ledger \in [spent: Nat, missing: BOOLEAN]
  /\ artifact \in {"none", "comparable", "incomparable"}
  /\ world \in 0..MaxWorld /\ cancel \in BOOLEAN
  /\ paid \in Nat /\ stale \in Nat

\* Once the services have changed no more than one call is paid for, whether
\* the change is seen by a fresh capture or hidden by a reused one.
StaleSpendStops == stale <= 1

\* A comparable artifact holds no call that ran under another identity.
ComparableIsFrozen == artifact = "comparable" => stale = 0

\* Why: a call starts only from the expected identity, and one that ran under
\* another identity stops the guard in the very next step of the runner.
Frozen ==
  /\ StaleSpendStops
  /\ reusable \in {NoVector, Expected}
  /\ cpc \in {"authorize", "before", "call", "calling", "after"} => baseline \in {NoVector, Expected}
  /\ cpc \in {"call", "calling", "after"} => pending = Expected
  /\ stale > 0 => world > 0 /\ cpc \in {"after", "postflight", "write", "done", "crashed"}
  /\ stale > 0 /\ cpc \in {"postflight", "write"} => stopped \/ closed
  /\ artifact = "comparable" => cpc = "done" /\ stale = 0
=============================================================================
