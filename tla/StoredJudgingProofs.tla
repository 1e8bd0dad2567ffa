------------------------ MODULE StoredJudgingProofs ------------------------
(***************************************************************************)
(* The paid method for any number of rows, any cap, any costs, any number  *)
(* of deployments, any panels and any number of processes that die.  The   *)
(* invariant has three arguments that meet in no variable: Frozen, of the  *)
(* identity of the services, is kept by the collection alone; Money, of    *)
(* the spend, follows the ledger from the collection into the file and     *)
(* through the judging processes; Copy relates a process's copy to the     *)
(* file.                                                                   *)
(***************************************************************************)
EXTENDS StoredJudging, WellFoundedInduction, FiniteSetTheorems, TLAPS

\* A set of natural numbers that is not empty has a least element.
LEMMA MinOfNat ==
  ASSUME NEW T, T \subseteq Nat, T # {}
  PROVE \E x \in T : \A y \in T : x <= y
<1> DEFINE R == OpToRel(<, Nat)
<1>1. IsWellFoundedOn(R, Nat)
  BY NatLessThanWellFounded
<1>2. PICK x \in T : \A y \in T : ~ (<<y, x>> \in R)
  <2> HIDE DEF R
  <2> QED BY <1>1, WFMin, Zenon
<1>3. ASSUME NEW y \in T PROVE x <= y
  <2>1. x \in Nat /\ y \in Nat
    OBVIOUS
  <2>2. ~ (<<y, x>> \in R)
    BY <1>2
  <2>3. ~ (y < x)
    BY <2>1, <2>2 DEF OpToRel
  <2> QED BY <2>1, <2>3
<1> QED BY <1>3

\* The row at hand is one of those that are left.
LEMMA CurrentIsLeft ==
  ASSUME todo \subseteq Rows, todo # {}
  PROVE Current \in todo
<1>1. todo \subseteq Nat
  BY CollectionAssumption DEF Rows
<1>2. \E x \in todo : \A y \in todo : x <= y
  BY <1>1, MinOfNat
<1> QED BY <1>2, Zenon DEF Current

\* A call adds what it reported to what is spent, and nothing if it reported nothing.
LEMMA RecordIs ==
  ASSUME NEW l \in [spent: Nat, missing: BOOLEAN], NEW cost \in Nat
  PROVE  /\ Record(l, cost) \in [spent: Nat, missing: BOOLEAN]
         /\ Record(l, cost).spent = l.spent + cost
<1>1. CASE cost = 0
  <2>1. Record(l, cost) = [l EXCEPT !.missing = TRUE]
    BY <1>1 DEF Record, NoCost
  <2>2. [l EXCEPT !.missing = TRUE] \in [spent: Nat, missing: BOOLEAN]
    OBVIOUS
  <2>3. [l EXCEPT !.missing = TRUE].spent = l.spent
    OBVIOUS
  <2>4. l.spent = l.spent + 0
    OBVIOUS
  <2> QED BY <1>1, <2>1, <2>2, <2>3, <2>4
<1>2. CASE cost # 0
  <2>1. Record(l, cost) = [l EXCEPT !.spent = l.spent + cost]
    BY <1>2 DEF Record, NoCost
  <2> QED BY <2>1
<1> QED BY <1>1, <1>2

\* The collection keeps its types.
LEMMA CollectKeepsTypes ==
  ASSUME CollectTypeOK, CollectNext PROVE CollectTypeOK'
<1> USE CollectionAssumption DEF CollectTypeOK, Rows, NoVector, Expected, Places, CGoto
<1> USE DEF runner, verdicts, environment
<1>1. CASE Authorize
  <2>1. cpc' \in Places /\ artifact' \in {"none", "comparable", "incomparable"}
    BY <1>1 DEF Authorize, Stop
  <2>2. row' \in Rows /\ attempt' \in 1..2 /\ captures' \in 0..(CaptureTries - 1)
    BY <1>1 DEF Authorize, Stop
  <2>3. baseline' \in 0..NoVector /\ pending' \in 0..NoVector /\ reusable' \in 0..NoVector
    BY <1>1 DEF Authorize, Stop
  <2>4. retryable' \in BOOLEAN /\ stopped' \in BOOLEAN
    BY <1>1 DEF Authorize, Stop
  <2>5. closed' \in BOOLEAN /\ cancel' \in BOOLEAN
    BY <1>1 DEF Authorize, Stop
  <2>6. outcomes' \in [Rows -> {"none", "answer", "failure"}]
    BY <1>1 DEF Authorize, Stop
  <2>7. ledger' \in [spent: Nat, missing: BOOLEAN] /\ paid' \in Nat
    BY <1>1 DEF Authorize, Stop
  <2>8. world' \in 0..MaxWorld /\ stale' \in Nat
    BY <1>1 DEF Authorize, Stop
  <2> QED BY <2>1, <2>2, <2>3, <2>4, <2>5, <2>6, <2>7, <2>8, Zenon DEF CollectTypeOK
<1>2. CASE Reuse
  <2>1. cpc' \in Places /\ artifact' \in {"none", "comparable", "incomparable"}
    BY <1>2 DEF Reuse, Proceed
  <2>2. row' \in Rows /\ attempt' \in 1..2 /\ captures' \in 0..(CaptureTries - 1)
    BY <1>2 DEF Reuse, Proceed
  <2>3. baseline' \in 0..NoVector /\ pending' \in 0..NoVector /\ reusable' \in 0..NoVector
    BY <1>2 DEF Reuse, Proceed
  <2>4. retryable' \in BOOLEAN /\ stopped' \in BOOLEAN
    BY <1>2 DEF Reuse, Proceed
  <2>5. closed' \in BOOLEAN /\ cancel' \in BOOLEAN
    BY <1>2 DEF Reuse, Proceed
  <2>6. outcomes' \in [Rows -> {"none", "answer", "failure"}]
    BY <1>2 DEF Reuse, Proceed
  <2>7. ledger' \in [spent: Nat, missing: BOOLEAN] /\ paid' \in Nat
    BY <1>2 DEF Reuse, Proceed
  <2>8. world' \in 0..MaxWorld /\ stale' \in Nat
    BY <1>2 DEF Reuse, Proceed
  <2> QED BY <2>1, <2>2, <2>3, <2>4, <2>5, <2>6, <2>7, <2>8, Zenon DEF CollectTypeOK
<1>3. CASE CaptureFails
  <2>1. cpc' \in Places /\ artifact' \in {"none", "comparable", "incomparable"}
    BY <1>3 DEF CaptureFails, GiveUp, Stop
  <2>2. row' \in Rows /\ attempt' \in 1..2 /\ captures' \in 0..(CaptureTries - 1)
    BY <1>3 DEF CaptureFails, GiveUp, Stop
  <2>3. baseline' \in 0..NoVector /\ pending' \in 0..NoVector /\ reusable' \in 0..NoVector
    BY <1>3 DEF CaptureFails, GiveUp, Stop
  <2>4. retryable' \in BOOLEAN /\ stopped' \in BOOLEAN
    BY <1>3 DEF CaptureFails, GiveUp, Stop
  <2>5. closed' \in BOOLEAN /\ cancel' \in BOOLEAN
    BY <1>3 DEF CaptureFails, GiveUp, Stop
  <2>6. outcomes' \in [Rows -> {"none", "answer", "failure"}]
    BY <1>3 DEF CaptureFails, GiveUp, Stop
  <2>7. ledger' \in [spent: Nat, missing: BOOLEAN] /\ paid' \in Nat
    BY <1>3 DEF CaptureFails, GiveUp, Stop
  <2>8. world' \in 0..MaxWorld /\ stale' \in Nat
    BY <1>3 DEF CaptureFails, GiveUp, Stop
  <2> QED BY <2>1, <2>2, <2>3, <2>4, <2>5, <2>6, <2>7, <2>8, Zenon DEF CollectTypeOK
<1>4. CASE CaptureBefore
  <2>1. cpc' \in Places /\ artifact' \in {"none", "comparable", "incomparable"}
    BY <1>4 DEF CaptureBefore, Proceed
  <2>2. row' \in Rows /\ attempt' \in 1..2 /\ captures' \in 0..(CaptureTries - 1)
    BY <1>4 DEF CaptureBefore, Proceed
  <2>3. baseline' \in 0..NoVector /\ pending' \in 0..NoVector /\ reusable' \in 0..NoVector
    BY <1>4 DEF CaptureBefore, Proceed
  <2>4. retryable' \in BOOLEAN /\ stopped' \in BOOLEAN
    BY <1>4 DEF CaptureBefore, Proceed
  <2>5. closed' \in BOOLEAN /\ cancel' \in BOOLEAN
    BY <1>4 DEF CaptureBefore, Proceed
  <2>6. outcomes' \in [Rows -> {"none", "answer", "failure"}]
    BY <1>4 DEF CaptureBefore, Proceed
  <2>7. ledger' \in [spent: Nat, missing: BOOLEAN] /\ paid' \in Nat
    BY <1>4 DEF CaptureBefore, Proceed
  <2>8. world' \in 0..MaxWorld /\ stale' \in Nat
    BY <1>4 DEF CaptureBefore, Proceed
  <2> QED BY <2>1, <2>2, <2>3, <2>4, <2>5, <2>6, <2>7, <2>8, Zenon DEF CollectTypeOK
<1>5. CASE StartCall
  BY <1>5 DEF StartCall
<1>6. CASE EndCall
  <2>1. PICK cost \in Costs \cup {NoCost}, result \in {"answer", "transport", "limit", "protocol"} :
          /\ ledger' = Record(ledger, cost)
          /\ paid' = IF cost = NoCost THEN paid ELSE paid + cost
          /\ stopped' = (Faulty(ledger, Cap, cost) \/ (attempt = 1 /\ result = "protocol"))
          /\ retryable' = (result = "transport")
          /\ outcomes' = IF attempt = 1
                           THEN [outcomes EXCEPT ![row] = IF result = "answer" THEN result ELSE "failure"]
                           ELSE outcomes
    BY <1>6, Zenon DEF EndCall
  <2>2. cost \in Nat
    BY DEF Costs, NoCost
  <2>3. ledger' \in [spent: Nat, missing: BOOLEAN] /\ paid' \in Nat
    BY <2>1, <2>2, RecordIs
  <2>4. retryable' \in BOOLEAN /\ stopped' \in BOOLEAN
    BY <2>1, Zenon DEF Faulty
  <2>5. outcomes' \in [Rows -> {"none", "answer", "failure"}]
    <3>1. CASE attempt = 1
      BY <2>1, <3>1
    <3>2. CASE attempt # 1
      BY <2>1, <3>2
    <3> QED BY <3>1, <3>2
  <2>6. stale' \in Nat
    BY <1>6 DEF EndCall, Touched
  <2>7. cpc' \in Places
    BY <1>6 DEF EndCall
  <2> QED BY <1>6, <2>3, <2>4, <2>5, <2>6, <2>7, Zenon DEF EndCall
<1>7. CASE CallThrows
  BY <1>7 DEF CallThrows, Touched
<1>8. CASE CaptureAfter
  <2>1. cpc' \in Places /\ artifact' \in {"none", "comparable", "incomparable"}
    BY <1>8 DEF CaptureAfter, Advance, Retrying
  <2>2. row' \in Rows /\ attempt' \in 1..2 /\ captures' \in 0..(CaptureTries - 1)
    BY <1>8 DEF CaptureAfter, Advance, Retrying
  <2>3. baseline' \in 0..NoVector /\ pending' \in 0..NoVector /\ reusable' \in 0..NoVector
    BY <1>8 DEF CaptureAfter, Advance, Retrying
  <2>4. retryable' \in BOOLEAN /\ stopped' \in BOOLEAN
    BY <1>8 DEF CaptureAfter, Advance, Retrying
  <2>5. closed' \in BOOLEAN /\ cancel' \in BOOLEAN
    BY <1>8 DEF CaptureAfter, Advance, Retrying
  <2>6. outcomes' \in [Rows -> {"none", "answer", "failure"}]
    BY <1>8 DEF CaptureAfter, Advance, Retrying
  <2>7. ledger' \in [spent: Nat, missing: BOOLEAN] /\ paid' \in Nat
    BY <1>8 DEF CaptureAfter, Advance, Retrying
  <2>8. world' \in 0..MaxWorld /\ stale' \in Nat
    BY <1>8 DEF CaptureAfter, Advance, Retrying
  <2> QED BY <2>1, <2>2, <2>3, <2>4, <2>5, <2>6, <2>7, <2>8, Zenon DEF CollectTypeOK
<1>9. CASE Postflight
  BY <1>9 DEF Postflight
<1>10. CASE PostflightFails
  BY <1>10 DEF PostflightFails
<1>11. CASE WriteArtifact
  <2>1. cpc' \in Places /\ artifact' \in {"none", "comparable", "incomparable"}
    BY <1>11 DEF WriteArtifact, Forget
  <2>2. row' \in Rows /\ attempt' \in 1..2 /\ captures' \in 0..(CaptureTries - 1)
    BY <1>11 DEF WriteArtifact, Forget
  <2>3. baseline' \in 0..NoVector /\ pending' \in 0..NoVector /\ reusable' \in 0..NoVector
    BY <1>11 DEF WriteArtifact, Forget
  <2>4. retryable' \in BOOLEAN /\ stopped' \in BOOLEAN
    BY <1>11 DEF WriteArtifact, Forget
  <2>5. closed' \in BOOLEAN /\ cancel' \in BOOLEAN
    BY <1>11 DEF WriteArtifact, Forget
  <2>6. outcomes' \in [Rows -> {"none", "answer", "failure"}]
    BY <1>11 DEF WriteArtifact, Forget
  <2>7. ledger' \in [spent: Nat, missing: BOOLEAN] /\ paid' \in Nat
    BY <1>11 DEF WriteArtifact, Forget
  <2>8. world' \in 0..MaxWorld /\ stale' \in Nat
    BY <1>11 DEF WriteArtifact, Forget
  <2> QED BY <2>1, <2>2, <2>3, <2>4, <2>5, <2>6, <2>7, <2>8, Zenon DEF CollectTypeOK
<1>12. CASE Age
  BY <1>12 DEF Age
<1>13. CASE CollectCrash
  <2>1. cpc' \in Places /\ artifact' \in {"none", "comparable", "incomparable"}
    BY <1>13 DEF CollectCrash, Forget
  <2>2. row' \in Rows /\ attempt' \in 1..2 /\ captures' \in 0..(CaptureTries - 1)
    BY <1>13 DEF CollectCrash, Forget
  <2>3. baseline' \in 0..NoVector /\ pending' \in 0..NoVector /\ reusable' \in 0..NoVector
    BY <1>13 DEF CollectCrash, Forget
  <2>4. retryable' \in BOOLEAN /\ stopped' \in BOOLEAN
    BY <1>13 DEF CollectCrash, Forget
  <2>5. closed' \in BOOLEAN /\ cancel' \in BOOLEAN
    BY <1>13 DEF CollectCrash, Forget
  <2>6. outcomes' \in [Rows -> {"none", "answer", "failure"}]
    BY <1>13 DEF CollectCrash, Forget
  <2>7. ledger' \in [spent: Nat, missing: BOOLEAN] /\ paid' \in Nat
    BY <1>13 DEF CollectCrash, Forget
  <2>8. world' \in 0..MaxWorld /\ stale' \in Nat
    BY <1>13 DEF CollectCrash, Forget
  <2> QED BY <2>1, <2>2, <2>3, <2>4, <2>5, <2>6, <2>7, <2>8, Zenon DEF CollectTypeOK
<1>14. CASE Deploy
  BY <1>14 DEF Deploy
<1>15. CASE Interrupt
  BY <1>15 DEF Interrupt
<1> QED BY <1>1, <1>2, <1>3, <1>4, <1>5, <1>6, <1>7, <1>8, <1>9, <1>10, <1>11, <1>12, <1>13,
           <1>14, <1>15, Zenon DEF CollectNext, CollectStep

\* The collection keeps the argument about the identity of the services.
LEMMA CollectKeepsFrozen ==
  ASSUME CollectTypeOK, Frozen, CollectNext PROVE Frozen'
<1> USE CollectionAssumption
    DEF CollectTypeOK, Frozen, StaleSpendStops, NoVector, Expected, Places, CGoto
<1> USE DEF runner, verdicts, environment, Matches
<1>1. CASE Authorize
  BY <1>1 DEF Authorize, Stop
<1>2. CASE Reuse
  BY <1>2 DEF Reuse, Proceed
<1>3. CASE CaptureFails
  BY <1>3 DEF CaptureFails, GiveUp, Stop, Capturing
<1>4. CASE CaptureBefore
  BY <1>4 DEF CaptureBefore, Proceed, Capturing
<1>5. CASE StartCall
  BY <1>5 DEF StartCall
<1>6. CASE EndCall
  BY <1>6 DEF EndCall, Touched
<1>7. CASE CallThrows
  BY <1>7 DEF CallThrows, Touched
<1>8. CASE CaptureAfter
  BY <1>8 DEF CaptureAfter, Advance
<1>9. CASE Postflight
  BY <1>9 DEF Postflight
<1>10. CASE PostflightFails
  BY <1>10 DEF PostflightFails
<1>11. CASE WriteArtifact
  BY <1>11 DEF WriteArtifact, Forget
<1>12. CASE Age
  BY <1>12 DEF Age
<1>13. CASE CollectCrash
  BY <1>13 DEF CollectCrash, Forget
<1>14. CASE Deploy
  BY <1>14 DEF Deploy
<1>15. CASE Interrupt
  BY <1>15 DEF Interrupt
<1> QED BY <1>1, <1>2, <1>3, <1>4, <1>5, <1>6, <1>7, <1>8, <1>9, <1>10, <1>11, <1>12, <1>13,
           <1>14, <1>15, Zenon DEF CollectNext, CollectStep

-----------------------------------------------------------------------------
\* A step of judging, of any kind.
LEMMA JudgingFrame ==
  ASSUME CollectTypeOK,
         \/ JudgeStep \/ JudgeThrows \/ Crash
         \/ \E m \in Models, p \in Panels : Start(m, p)
  PROVE  /\ UNCHANGED <<cpc, row, attempt, captures, baseline, pending, reusable, retryable>>
         /\ UNCHANGED <<stopped, closed, outcomes, artifact, ledger, world, cancel, stale>>
         /\ paid' \in Nat
<1> USE DEF CollectTypeOK, collectVars, runner, verdicts, environment, OnlyJudge
<1>1. CASE TakeRow
  BY <1>1 DEF TakeRow
<1>2. CASE Exhausted
  BY <1>2 DEF Exhausted, Abandon
<1>3. CASE Vote
  BY <1>3, CollectionAssumption DEF Vote, Costs
<1>4. CASE FaultyVote
  BY <1>4, CollectionAssumption DEF FaultyVote, Costs, NoCost
<1>5. CASE SaveAttempt
  BY <1>5 DEF SaveAttempt
<1>6. CASE SaveRow
  BY <1>6 DEF SaveRow
<1>7. CASE Finish
  BY <1>7 DEF Finish
<1>8. CASE JudgeThrows
  BY <1>8 DEF JudgeThrows, Abandon
<1>9. CASE Crash
  BY <1>9 DEF Crash
<1>10. CASE \E m \in Models, p \in Panels : Start(m, p)
  BY <1>10 DEF Start
<1> QED BY <1>1, <1>2, <1>3, <1>4, <1>5, <1>6, <1>7, <1>8, <1>9, <1>10, Zenon DEF JudgeStep

\* A summary is added to a file whose rows all have a verdict.
LEMMA SummarisedIs ==
  ASSUME NEW f \in File
  PROVE  /\ Summarised(f) \in File
         /\ Summarised(f).verdict = f.verdict /\ Summarised(f).attempts = f.attempts
         /\ Summarised(f).ledger = f.ledger /\ Summarised(f).panel = f.panel
         /\ Summarised(f).summary = Complete(f)
<1>1. Complete(f) \in BOOLEAN
  BY DEF Complete
<1>2. f = [verdict |-> f.verdict, attempts |-> f.attempts, panelled |-> f.panelled,
           model |-> f.model, panel |-> f.panel, summary |-> f.summary, ledger |-> f.ledger]
  BY DEF File
<1>3. Summarised(f) = [verdict |-> f.verdict, attempts |-> f.attempts, panelled |-> f.panelled,
           model |-> f.model, panel |-> f.panel, summary |-> Complete(f), ledger |-> f.ledger]
  <2> DEFINE C == Complete(f)
  <2>1. C \in BOOLEAN
    BY <1>1
  <2> HIDE DEF C
  <2>2. [f EXCEPT !.summary = C] = [verdict |-> f.verdict, attempts |-> f.attempts, panelled |-> f.panelled,
           model |-> f.model, panel |-> f.panel, summary |-> C, ledger |-> f.ledger]
    BY <2>1 DEF File
  <2> QED BY <2>2 DEF Summarised, C
<1> DEFINE C == Complete(f)
<1>4. C \in BOOLEAN
  BY <1>1
<1>5. Summarised(f) = [verdict |-> f.verdict, attempts |-> f.attempts, panelled |-> f.panelled,
           model |-> f.model, panel |-> f.panel, summary |-> C, ledger |-> f.ledger]
  BY <1>3
<1> HIDE DEF C
<1>6. Summarised(f) \in File
  BY <1>4, <1>5 DEF File
<1>7. /\ Summarised(f).verdict = f.verdict /\ Summarised(f).attempts = f.attempts
      /\ Summarised(f).ledger = f.ledger /\ Summarised(f).panel = f.panel
  BY <1>5
<1>8. Summarised(f).summary = C
  BY <1>5
<1> QED BY <1>6, <1>7, <1>8 DEF C

\* An attempt is recorded in one row, whose verdict is set if it has none.
LEMMA AttemptedIs ==
  ASSUME NEW f \in File, NEW v \in Votes, Current \in Rows, f.attempts[Current] <= 1
  PROVE  /\ Attempted(f, v) \in File
         /\ Attempted(f, v).verdict =
              [f.verdict EXCEPT ![Current] = IF f.verdict[Current] = Unjudged THEN v ELSE f.verdict[Current]]
         /\ Attempted(f, v).attempts = [f.attempts EXCEPT ![Current] = f.attempts[Current] + 1]
         /\ Attempted(f, v).ledger = f.ledger /\ Attempted(f, v).panel = f.panel
         /\ Attempted(f, v).summary = f.summary
<1> DEFINE V == [f.verdict EXCEPT ![Current] = IF f.verdict[Current] = Unjudged THEN v ELSE f.verdict[Current]]
           A == [f.attempts EXCEPT ![Current] = f.attempts[Current] + 1]
           P == IF boundary /\ f.verdict[Current] = Unjudged THEN f.panelled \cup {Current} ELSE f.panelled
<1>1. Attempted(f, v) = [f EXCEPT !.attempts = A, !.verdict = V, !.panelled = P]
  BY DEF Attempted, File
<1>2. V \in [Rows -> Verdicts \cup {Unjudged}]
  BY DEF File, Verdicts
<1>3. A \in [Rows -> 0..2]
  BY DEF File
<1>4. P \in SUBSET Rows
  BY DEF File
<1> HIDE DEF V, A, P
<1>5. Attempted(f, v) = [verdict |-> V, attempts |-> A, panelled |-> P, model |-> f.model,
                         panel |-> f.panel, summary |-> f.summary, ledger |-> f.ledger]
  BY <1>1 DEF File
<1>6. Attempted(f, v) \in File
  BY <1>2, <1>3, <1>4, <1>5 DEF File
<1> QED BY <1>5, <1>6 DEF V, A

\* An attempt that ends with an error differs in the panel it does not record.
LEMMA BrokenIs ==
  ASSUME NEW f \in File, Current \in Rows, f.attempts[Current] <= 1
  PROVE  /\ Broken(f) \in File
         /\ Broken(f).verdict = Attempted(f, "terminal").verdict
         /\ Broken(f).attempts = Attempted(f, "terminal").attempts
         /\ Broken(f).ledger = f.ledger /\ Broken(f).panel = f.panel
         /\ Broken(f).summary = f.summary
<1> DEFINE g == Attempted(f, "terminal")
<1>1. g \in File /\ g.ledger = f.ledger /\ g.panel = f.panel /\ g.summary = f.summary
  BY AttemptedIs DEF Votes
<1>2. Broken(f) = [g EXCEPT !.panelled = f.panelled]
  BY DEF Broken
<1>3. f.panelled \in SUBSET Rows
  BY DEF File
<1> HIDE DEF g
<1>4. /\ Broken(f) \in File
      /\ Broken(f).verdict = g.verdict /\ Broken(f).attempts = g.attempts
      /\ Broken(f).ledger = g.ledger /\ Broken(f).panel = g.panel
      /\ Broken(f).summary = g.summary
  BY <1>1, <1>2, <1>3 DEF File
<1> QED BY <1>1, <1>4 DEF g

\* A ledger put into a file, and nothing else changed.
LEMMA LedgerIn ==
  ASSUME NEW f \in File, NEW l \in [spent: Nat, missing: BOOLEAN]
  PROVE  /\ [f EXCEPT !.ledger = l] \in File
         /\ [f EXCEPT !.ledger = l].verdict = f.verdict /\ [f EXCEPT !.ledger = l].attempts = f.attempts
         /\ [f EXCEPT !.ledger = l].ledger = l /\ [f EXCEPT !.ledger = l].panel = f.panel
         /\ [f EXCEPT !.ledger = l].summary = f.summary
<1>1. [f EXCEPT !.ledger = l] = [verdict |-> f.verdict, attempts |-> f.attempts,
          panelled |-> f.panelled, model |-> f.model, panel |-> f.panel, summary |-> f.summary, ledger |-> l]
  BY DEF File
<1>2. [f EXCEPT !.ledger = l] \in File
  BY <1>1 DEF File
<1> QED BY <1>1, <1>2

\* The file of a collection that has not been judged.
LEMMA NewFileIs ==
  /\ NewFile \in File /\ NewFile.ledger = NewLedger /\ NewLedger.spent = 0
  /\ NewLedger \in [spent: Nat, missing: BOOLEAN]
  /\ NewFile.summary = FALSE /\ \A r \in Rows : NewFile.verdict[r] = Unjudged
<1>1. NewLedger \in [spent: Nat, missing: BOOLEAN] /\ NewLedger.spent = 0
  BY DEF NewLedger
<1>2. /\ [r \in Rows |-> Unjudged] \in [Rows -> Verdicts \cup {Unjudged}]
      /\ [r \in Rows |-> 0] \in [Rows -> 0..2]
  OBVIOUS
<1> HIDE DEF NewLedger
<1>3. NewFile \in File
  BY <1>1, <1>2 DEF NewFile, File
<1> QED BY <1>1, <1>3 DEF NewFile

\* Judging keeps what the invariant says of the collection.
LEMMA JudgingKeepsCollect ==
  ASSUME CollectTypeOK, Frozen,
         \/ JudgeStep \/ JudgeThrows \/ Crash
         \/ \E m \in Models, p \in Panels : Start(m, p)
  PROVE  CollectTypeOK' /\ Frozen'
<1>1. /\ UNCHANGED <<cpc, row, attempt, captures, baseline, pending, reusable, retryable>>
      /\ UNCHANGED <<stopped, closed, outcomes, artifact, ledger, world, cancel, stale>>
      /\ paid' \in Nat
  BY JudgingFrame
<1>2. CollectTypeOK'
  BY <1>1, Zenon DEF CollectTypeOK
<1>3. Frozen'
  BY <1>1, Zenon DEF Frozen, StaleSpendStops
<1> QED BY <1>2, <1>3

\* While a process judges, the collection is done; the row at hand is left.
LEMMA AtHand ==
  ASSUME IInv
  PROVE  /\ jpc # "idle" => cpc = "done" /\ artifact = "comparable"
         /\ jpc \in {"vote", "attempted", "judged"} => Current \in todo /\ Current \in Rows
<1>1. ASSUME jpc # "idle" PROVE cpc = "done" /\ artifact = "comparable"
  BY <1>1 DEF IInv, Money, Frozen
<1>2. ASSUME jpc \in {"vote", "attempted", "judged"} PROVE Current \in todo /\ Current \in Rows
  BY <1>2, CurrentIsLeft DEF IInv, Copy, TypeOK
<1> QED BY <1>1, <1>2

\* Taking a row: only a row without an answer changes the copy.
LEMMA TakeRowKeeps ==
  ASSUME IInv, TakeRow PROVE IInv'
<1> DEFINE m == [mem EXCEPT !.verdict[Current] = "agent-error"]
<1>1. CollectTypeOK' /\ Frozen'
  BY JudgingKeepsCollect DEF IInv, TypeOK, JudgeStep
<1>2. Current \in todo /\ Current \in Rows /\ todo # {}
  BY CurrentIsLeft DEF IInv, TypeOK, TakeRow
<1>3. cpc' = cpc /\ artifact' = artifact /\ outcomes' = outcomes /\ paid' = paid /\ ledger' = ledger
  BY DEF TakeRow, collectVars, verdicts
<1>4. jpc = "row" /\ UNCHANGED <<disk, used, lost, convened, crashes>>
  BY DEF TakeRow
<1>5. CASE Answered(Current)
  <2>1. /\ jpc' = "vote" /\ calls' = 0 /\ votes' = 1 /\ boundary' = FALSE
        /\ mem' = mem /\ todo' = todo /\ kind' = kind
    BY <1>5 DEF TakeRow
  <2>2. TypeOK'
    <3>1. 0 \in 0..3 /\ 1 \in 1..3 /\ FALSE \in BOOLEAN
      OBVIOUS
    <3> QED BY <1>1, <1>4, <2>1, <3>1, Zenon DEF IInv, TypeOK
  <2>3. Money'
    BY <1>3, <1>4, <2>1, CollectionAssumption DEF IInv, TypeOK, CollectTypeOK, Money, File, CanAuthorize, Remaining
  <2>4. Copy'
    BY <1>2, <1>3, <1>4, <1>5, <2>1 DEF IInv, Copy, Complete, Answered, Current
  <2> QED BY <1>1, <2>2, <2>3, <2>4 DEF IInv
<1>6. CASE ~ Answered(Current)
  <2>1. /\ mem' = m /\ todo' = todo \ {Current}
        /\ UNCHANGED <<jpc, calls, votes, kind, boundary>>
    BY <1>6 DEF TakeRow
  <2>2. m.verdict = [mem.verdict EXCEPT ![Current] = "agent-error"]
    BY DEF IInv, TypeOK, File
  <2>3. m \in File /\ m.ledger = mem.ledger /\ m.panel = mem.panel /\ m.summary = mem.summary
        /\ m.attempts = mem.attempts
    BY DEF IInv, TypeOK, File, Verdicts
  <2>4. mem.verdict[Current] = Unjudged
    BY <1>2, <1>6 DEF IInv, Copy
  <2>5. disk.verdict[Current] = Unjudged
    BY <1>2, <1>4, <2>4 DEF IInv, Copy
  <2>6. mem.verdict \in [Rows -> Verdicts \cup {Unjudged}]
    BY DEF IInv, TypeOK, File
  <2> HIDE DEF m
  <2>7. TypeOK'
    BY <1>1, <1>4, <2>1, <2>3, Zenon DEF IInv, TypeOK
  <2>8. Money'
    BY <1>3, <1>4, <2>1, <2>3, CollectionAssumption
       DEF IInv, TypeOK, CollectTypeOK, Money, File, CanAuthorize, Remaining
  <2>9. Copy'
    <3>1. mem'.summary => Complete(mem)
      BY <2>1, <2>3 DEF IInv, Copy
    <3>2. Complete(mem)' <=> \A r \in Rows : mem'.verdict[r] # Unjudged
      BY DEF Complete
    <3>3. Complete(mem) => FALSE
      BY <1>2, <2>4 DEF Complete
    <3>4. \A r \in Rows : disk'.verdict[r] # Unjudged => mem'.verdict[r] = disk'.verdict[r]
      BY <1>4, <2>1, <2>2, <2>5, <2>6 DEF IInv, Copy
    <3>5. \A r \in todo' : ~ Answered(r)' => mem'.verdict[r] = Unjudged
      BY <1>3, <2>1, <2>2, <2>6 DEF IInv, Copy, Answered, TypeOK
    <3>6. \A r \in todo' : Answered(r)' => mem'.attempts[r] <= 1
      BY <1>3, <1>4, <2>1, <2>3 DEF IInv, Copy, Answered
    <3> QED BY <1>4, <2>1, <2>3, <3>1, <3>3, <3>4, <3>5, <3>6 DEF IInv, Copy, Complete
  <2> QED BY <1>1, <2>7, <2>8, <2>9 DEF IInv
<1> QED BY <1>5, <1>6

\* A process that ends leaves a file, and nothing else.
LEMMA EndKeeps ==
  ASSUME TypeOK, EndProcess, CollectTypeOK', disk' \in File, disk'.summary => Complete(disk)',
         lost' \in Nat, convened' = convened, crashes' \in 0..MaxCrashes
  PROVE  TypeOK' /\ Copy'
<1>1. /\ jpc' = "idle" /\ mem' = NewFile /\ todo' = {} /\ calls' = 0 /\ votes' = 1
      /\ kind' = "terminal" /\ boundary' = FALSE /\ used' = 0
  BY DEF EndProcess
<1>2. NewFile \in File /\ NewFile.summary = FALSE
  BY NewFileIs
<1>3. 0 \in 0..3 /\ 1 \in 1..3 /\ 0 \in Nat
  OBVIOUS
<1>4. TypeOK'
  <2>1. kind' \in Votes /\ boundary' \in BOOLEAN /\ todo' \subseteq Rows
    BY <1>1 DEF Votes
  <2>2. convened' \in Nat
    BY DEF TypeOK
  <2>3. jpc' \in {"idle", "row", "vote", "attempted", "judged"}
    BY <1>1
  <2> QED BY <1>1, <1>2, <1>3, <2>1, <2>2, <2>3, Zenon DEF TypeOK
<1>5. Copy'
  BY <1>1, <1>2 DEF Copy
<1> QED BY <1>4, <1>5

\* Three calls more for every process that has died, and none less.
LEMMA Allowance ==
  ASSUME NEW c \in Nat, NEW m \in Nat
  PROVE  /\ (c + 1) * 3 * m = c * 3 * m + 3 * m
         /\ c * 3 * m \in Nat /\ 3 * m \in Nat
<1>1. (c + 1) * 3 = c * 3 + 3 /\ c * 3 \in Nat
  OBVIOUS
<1>2. \A a \in Nat, b \in Nat : (a + b) * m = a * m + b * m /\ a * m \in Nat
  BY Z3
<1> QED BY <1>1, <1>2

\* The copy with the attempt at hand, if it has begun, recorded as an error.
LEMMA AbandonedIs ==
  ASSUME IInv, jpc = "vote"
  PROVE  /\ mem \in File /\ Broken(mem) \in File
         /\ Broken(mem).ledger = mem.ledger
         /\ \A r \in Rows : disk.verdict[r] # Unjudged => Broken(mem).verdict[r] = disk.verdict[r]
<1>1. mem \in File /\ Current \in Rows /\ Current \in todo /\ mem.attempts[Current] <= 1
  BY AtHand DEF IInv, TypeOK, Copy
<1>2. Broken(mem) \in File /\ Broken(mem).ledger = mem.ledger
  BY <1>1, BrokenIs
<1>3. Broken(mem).verdict = [mem.verdict EXCEPT ![Current] =
         IF mem.verdict[Current] = Unjudged THEN "terminal" ELSE mem.verdict[Current]]
  BY <1>1, BrokenIs, AttemptedIs, ZenonT(30) DEF Votes
<1>4. mem.verdict \in [Rows -> Verdicts \cup {Unjudged}]
  BY <1>1 DEF File
<1>5. \A r \in Rows : disk.verdict[r] # Unjudged => mem.verdict[r] = disk.verdict[r]
  BY DEF IInv, Copy
<1> QED BY <1>1, <1>2, <1>3, <1>4, <1>5

\* The loop ends before a vote.
LEMMA AbandonKeeps ==
  ASSUME IInv, Exhausted \/ JudgeThrows PROVE IInv'
<1> DEFINE f == IF calls = 0 THEN mem ELSE Broken(mem)
<1>1. CollectTypeOK' /\ Frozen'
  BY JudgingKeepsCollect DEF IInv, TypeOK, JudgeStep
<1>2. jpc = "vote" /\ disk' = Summarised(f) /\ EndProcess
  BY DEF Exhausted, JudgeThrows, Abandon
<1>3. f \in File /\ f.ledger = mem.ledger
  BY <1>2, AbandonedIs
<1>4. UNCHANGED <<cpc, artifact, ledger, paid, lost, convened>>
  BY DEF Exhausted, JudgeThrows, Abandon, collectVars, verdicts
<1>5. crashes' \in 0..MaxCrashes /\ (crashes' = crashes \/ crashes' = crashes + 1)
  BY JudgingAssumption DEF Exhausted, JudgeThrows, IInv, TypeOK
<1> HIDE DEF f
<1>6. disk' \in File /\ disk'.ledger = mem.ledger /\ disk'.summary = Complete(f)
      /\ disk'.verdict = f.verdict
  BY <1>2, <1>3, SummarisedIs
<1>7. Complete(disk)' = Complete(f)
  BY <1>6 DEF Complete
<1>8. TypeOK' /\ Copy'
  BY <1>1, <1>2, <1>4, <1>5, <1>6, <1>7, EndKeeps DEF IInv, TypeOK
<1>9. Money'
  <2>1. cpc = "done" /\ jpc' = "idle" /\ mem' = NewFile
    BY <1>2, AtHand DEF EndProcess
  <2>2. NewFile.ledger.spent = 0
    BY NewFileIs
  <2>3. lost <= crashes' * 3 * MaxCost
    BY <1>5, Allowance, CollectionAssumption DEF IInv, TypeOK, Money
  <2> QED BY <1>2, <1>4, <1>6, <2>1, <2>2, <2>3, CollectionAssumption DEF IInv, Money
<1> QED BY <1>1, <1>8, <1>9 DEF IInv

\* A vote of unknown or excessive cost ends the process, with its cost saved.
LEMMA FaultyVoteKeeps ==
  ASSUME IInv, FaultyVote PROVE IInv'
<1>1. CollectTypeOK' /\ Frozen'
  BY JudgingKeepsCollect DEF IInv, TypeOK, JudgeStep
<1>2. jpc = "vote" /\ EndProcess /\ CanAuthorize(mem.ledger, Cap)
      /\ UNCHANGED <<cpc, artifact, ledger, lost, convened, crashes>>
  BY DEF FaultyVote, OnlyJudge, verdicts
<1>3. PICK cost \in Costs \cup {NoCost} :
        /\ paid' = IF cost = NoCost THEN paid ELSE paid + cost
        /\ disk' = Summarised([Broken(mem) EXCEPT !.ledger = Record(mem.ledger, cost)])
  <2>1. PICK cost \in Costs \cup {NoCost} :
          /\ paid' = IF cost = NoCost THEN paid ELSE paid + cost
          /\ disk' = Summarised([Broken(mem) EXCEPT !.ledger = Record(@, cost)])
    BY Zenon DEF FaultyVote
  <2>2. Broken(mem) \in File /\ Broken(mem).ledger = mem.ledger
    BY <1>2, AbandonedIs
  <2>3. [Broken(mem) EXCEPT !.ledger = Record(@, cost)] = [Broken(mem) EXCEPT !.ledger = Record(mem.ledger, cost)]
    BY <2>2 DEF File
  <2> QED BY <2>1, <2>3
<1>4. cost \in 0..MaxCost
  BY CollectionAssumption DEF Costs, NoCost
<1> DEFINE l == Record(mem.ledger, cost)
           f == [Broken(mem) EXCEPT !.ledger = l]
<1>5. mem.ledger \in [spent: Nat, missing: BOOLEAN]
  BY DEF IInv, TypeOK, File
<1>6. l \in [spent: Nat, missing: BOOLEAN] /\ l.spent = mem.ledger.spent + cost
  BY <1>4, <1>5, RecordIs, CollectionAssumption
<1>7. paid \in Nat /\ paid' = paid + cost
  BY <1>3, <1>4, CollectionAssumption DEF NoCost, IInv, TypeOK, CollectTypeOK
<1>8. mem.ledger.spent < Cap
  BY <1>2, <1>5, CollectionAssumption DEF CanAuthorize, Remaining
<1> HIDE DEF l
<1>9. f \in File /\ f.ledger = l
  BY <1>2, <1>6, AbandonedIs, LedgerIn
<1>10. disk' = Summarised(f)
  BY <1>3 DEF l
<1> HIDE DEF f
<1>11. disk' \in File /\ disk'.ledger = l /\ disk'.summary = Complete(f) /\ disk'.verdict = f.verdict
  BY <1>9, <1>10, SummarisedIs
<1>12. Complete(disk)' = Complete(f)
  BY <1>11 DEF Complete
<1>13. TypeOK' /\ Copy'
  BY <1>1, <1>2, <1>11, <1>12, EndKeeps DEF IInv, TypeOK
<1>14. Money'
  <2>1. cpc = "done" /\ jpc' = "idle" /\ mem' = NewFile
    BY <1>2, AtHand DEF EndProcess
  <2>2. NewFile.ledger.spent = 0
    BY NewFileIs
  <2>3. mem.ledger.spent \in Nat /\ lost \in Nat
    BY <1>5 DEF IInv, TypeOK
  <2>4. paid = lost + mem.ledger.spent
    BY <1>2, <2>1 DEF IInv, Money
  <2>5. disk'.ledger.spent < Cap + MaxCost
    BY <1>4, <1>6, <1>8, <1>11, <2>3, CollectionAssumption
  <2>6. paid' = lost' + disk'.ledger.spent
    BY <1>2, <1>4, <1>6, <1>7, <1>11, <2>3, <2>4, CollectionAssumption
  <2> QED BY <1>2, <2>1, <2>2, <2>5, <2>6, CollectionAssumption DEF IInv, Money
<1> QED BY <1>1, <1>13, <1>14 DEF IInv

\* The last write.
LEMMA FinishKeeps ==
  ASSUME IInv, Finish PROVE IInv'
<1>1. CollectTypeOK' /\ Frozen'
  BY JudgingKeepsCollect DEF IInv, TypeOK, JudgeStep
<1>2. jpc = "row" /\ disk' = Summarised(mem) /\ EndProcess
      /\ UNCHANGED <<cpc, artifact, ledger, paid, lost, convened, crashes>>
  BY DEF Finish, collectVars, verdicts
<1>3. mem \in File
  BY DEF IInv, TypeOK
<1>4. disk' \in File /\ disk'.ledger = mem.ledger /\ disk'.summary = Complete(mem)
      /\ disk'.verdict = mem.verdict
  BY <1>2, <1>3, SummarisedIs
<1>5. Complete(disk)' = Complete(mem)
  BY <1>4 DEF Complete
<1>6. TypeOK' /\ Copy'
  BY <1>1, <1>2, <1>4, <1>5, EndKeeps DEF IInv, TypeOK
<1>7. Money'
  <2>1. cpc = "done" /\ jpc' = "idle" /\ mem' = NewFile
    BY <1>2, AtHand DEF EndProcess
  <2>2. NewFile.ledger.spent = 0
    BY NewFileIs
  <2> QED BY <1>2, <1>4, <2>1, <2>2, CollectionAssumption DEF IInv, Money
<1> QED BY <1>1, <1>6, <1>7 DEF IInv

\* A process that dies takes with it what it spent and had not written: the
\* votes of one attempt, three at most.
LEMMA CrashKeeps ==
  ASSUME IInv, Crash PROVE IInv'
<1>1. CollectTypeOK' /\ Frozen'
  BY JudgingKeepsCollect DEF IInv, TypeOK
<1>2. /\ jpc # "idle" /\ crashes < MaxCrashes /\ crashes' = crashes + 1
      /\ lost' = lost + (mem.ledger.spent - disk.ledger.spent)
      /\ EndProcess
      /\ UNCHANGED <<cpc, artifact, ledger, paid, disk, convened>>
  BY DEF Crash, collectVars, verdicts
<1>3. mem.ledger.spent \in Nat /\ disk.ledger.spent \in Nat /\ lost \in Nat /\ crashes \in Nat
      /\ calls \in 0..3
  BY DEF IInv, TypeOK, File
<1>4. mem.ledger.spent <= disk.ledger.spent + 3 * MaxCost /\ disk.ledger.spent <= mem.ledger.spent
  <2>1. disk.ledger.spent <= mem.ledger.spent
    BY <1>2 DEF IInv, Money
  <2>2. CASE jpc \in {"row", "judged"}
    BY <1>3, <2>2, CollectionAssumption DEF IInv, Money
  <2>3. CASE jpc \in {"vote", "attempted"}
    <3>1. mem.ledger.spent <= disk.ledger.spent + calls * MaxCost
      BY <2>3 DEF IInv, Money
    <3>2. calls = 0 \/ calls = 1 \/ calls = 2 \/ calls = 3
      BY <1>3
    <3> QED BY <1>3, <2>1, <3>1, <3>2, CollectionAssumption
  <2> QED BY <1>2, <2>1, <2>2, <2>3 DEF IInv, TypeOK
<1>5. lost' \in Nat /\ crashes' \in 0..MaxCrashes
  BY <1>2, <1>3, <1>4, JudgingAssumption
<1>6. disk \in File /\ (disk'.summary => Complete(disk)')
  BY <1>2 DEF IInv, TypeOK, Copy, Complete
<1>7. TypeOK' /\ Copy'
  BY <1>1, <1>2, <1>5, <1>6, EndKeeps DEF IInv, TypeOK
<1>8. Money'
  <2>1. cpc = "done" /\ jpc' = "idle" /\ mem' = NewFile
    BY <1>2, AtHand DEF EndProcess
  <2>2. NewFile.ledger.spent = 0
    BY NewFileIs
  <2>3. lost' <= crashes' * 3 * MaxCost
    <3>1. crashes' * 3 * MaxCost = crashes * 3 * MaxCost + 3 * MaxCost
      BY <1>2, <1>3, Allowance, CollectionAssumption
    <3>2. crashes * 3 * MaxCost \in Nat /\ 3 * MaxCost \in Nat
      BY <1>3, Allowance, CollectionAssumption
    <3>3. lost <= crashes * 3 * MaxCost
      BY DEF IInv, Money
    <3> QED BY <1>2, <1>3, <1>4, <3>1, <3>2, <3>3
  <2>4. paid' = lost' + disk'.ledger.spent
    BY <1>2, <1>3, <2>1 DEF IInv, Money
  <2> QED BY <1>2, <2>1, <2>2, <2>3, <2>4, CollectionAssumption DEF IInv, Money
<1> QED BY <1>1, <1>7, <1>8 DEF IInv

\* A vote that the ledger takes: the copy is ahead of the file by one cost more.
LEMMA VoteKeeps ==
  ASSUME IInv, Vote PROVE IInv'
<1>1. CollectTypeOK' /\ Frozen'
  BY JudgingKeepsCollect DEF IInv, TypeOK, JudgeStep
<1>2. /\ jpc = "vote" /\ CanAuthorize(mem.ledger, Cap)
      /\ UNCHANGED <<cpc, artifact, outcomes, ledger, disk, todo, lost, convened, crashes>>
  BY DEF Vote, OnlyJudge, verdicts
<1>3. PICK cost \in Costs, v \in Votes :
       /\ ~ Faulty(mem.ledger, Cap, cost)
       /\ paid' = paid + cost
       /\ mem' = [mem EXCEPT !.ledger = Record(mem.ledger, cost)]
       /\ calls' = calls + 1
       /\ IF calls = 0
            THEN /\ kind' = v
                 /\ boundary' = Escalates(v)
                 /\ used' = IF Escalates(v) THEN used + 1 ELSE used
                 /\ votes' = IF Escalates(v) THEN 3 ELSE mem.panel
            ELSE /\ kind' = Combined(kind, v)
                 /\ UNCHANGED <<boundary, used, votes>>
       /\ jpc' = IF calls' < votes' THEN "vote" ELSE "attempted"
  BY Zenon DEF Vote
<1>4. cost \in 1..MaxCost /\ cost \in Nat
  BY CollectionAssumption DEF Costs
<1>5. mem \in File /\ mem.ledger \in [spent: Nat, missing: BOOLEAN] /\ mem.ledger.spent \in Nat
      /\ disk.ledger.spent \in Nat
  BY DEF IInv, TypeOK, File
<1> DEFINE l == Record(mem.ledger, cost)
<1>6. l \in [spent: Nat, missing: BOOLEAN] /\ l.spent = mem.ledger.spent + cost
  BY <1>4, <1>5, RecordIs
<1>7. mem.ledger.spent + cost <= Cap
  <2>1. mem.ledger.spent < Cap
    BY <1>2, <1>5, CollectionAssumption DEF CanAuthorize, Remaining
  <2>2. cost <= Cap - mem.ledger.spent
    BY <1>3, <1>4, <1>5, <2>1, CollectionAssumption DEF Faulty, Remaining
  <2> QED BY <1>4, <1>5, <2>2, CollectionAssumption
<1> HIDE DEF l
<1>8. /\ mem' \in File /\ mem'.ledger = l /\ mem'.verdict = mem.verdict
      /\ mem'.attempts = mem.attempts /\ mem'.panel = mem.panel /\ mem'.summary = mem.summary
  <2>1. mem' = [mem EXCEPT !.ledger = l]
    BY <1>3 DEF l
  <2> QED BY <1>5, <1>6, <2>1, LedgerIn
<1>9. calls \in 0..3 /\ votes \in 1..3 /\ calls < votes /\ mem.panel \in 1..3 /\ used \in Nat
      /\ kind \in Votes /\ boundary \in BOOLEAN
  BY <1>2 DEF IInv, TypeOK, Copy
<1>10. votes' \in 1..3 /\ used' \in Nat
  <2>1. CASE calls = 0
    <3>1. CASE Escalates(v)
      BY <1>3, <1>9, <2>1, <3>1
    <3>2. CASE ~ Escalates(v)
      BY <1>3, <1>9, <2>1, <3>2
    <3> QED BY <3>1, <3>2
  <2>2. CASE calls # 0
    BY <1>3, <1>9, <2>2
  <2> QED BY <2>1, <2>2
<1>11. kind' \in Votes /\ boundary' \in BOOLEAN
  <2>1. CASE calls = 0
    BY <1>3, <2>1, Zenon DEF Escalates
  <2>2. CASE calls # 0
    <3>1. Combined(kind, v) \in Votes
      BY <1>9 DEF Combined, Votes
    <3> QED BY <1>3, <1>9, <2>2, <3>1
  <2> QED BY <2>1, <2>2
<1>12. calls' \in 0..3 /\ calls' = calls + 1
  BY <1>3, <1>9
<1>13. jpc' \in {"vote", "attempted"} /\ (jpc' = "vote" => calls' < votes')
  BY <1>3
<1>14. TypeOK'
  BY <1>1, <1>2, <1>8, <1>10, <1>11, <1>12, <1>13, Zenon DEF IInv, TypeOK
<1>15. Copy'
  BY <1>2, <1>8, <1>13 DEF IInv, Copy, Complete, Answered, Current
<1>16. Money'
  <2>1. cpc = "done"
    BY <1>2, AtHand
  <2>2. paid' = lost' + mem'.ledger.spent
    BY <1>2, <1>3, <1>4, <1>5, <1>6, <1>8, <2>1 DEF IInv, Money, TypeOK
  <2>3. mem'.ledger.spent < Cap + MaxCost
    BY <1>4, <1>5, <1>6, <1>7, <1>8, CollectionAssumption
  <2>4. disk'.ledger.spent <= mem'.ledger.spent
    BY <1>2, <1>4, <1>5, <1>6, <1>8 DEF IInv, Money
  <2>5. mem'.ledger.spent <= disk'.ledger.spent + calls' * MaxCost
    <3>1. mem.ledger.spent <= disk.ledger.spent + calls * MaxCost
      BY <1>2 DEF IInv, Money
    <3>2. calls = 0 \/ calls = 1 \/ calls = 2
      BY <1>9
    <3> QED BY <1>2, <1>4, <1>5, <1>6, <1>8, <1>12, <3>1, <3>2, CollectionAssumption
  <2> QED BY <1>2, <1>13, <2>1, <2>2, <2>3, <2>4, <2>5 DEF IInv, Money
<1> QED BY <1>1, <1>14, <1>15, <1>16 DEF IInv

\* The row is done, and the file is the copy.
LEMMA SaveRowKeeps ==
  ASSUME IInv, SaveRow PROVE IInv'
<1>1. CollectTypeOK' /\ Frozen'
  BY JudgingKeepsCollect DEF IInv, TypeOK, JudgeStep
<1>2. /\ jpc = "judged" /\ mem' = Summarised(mem) /\ disk' = mem' /\ jpc' = "row"
      /\ todo' = todo \ {Current}
      /\ UNCHANGED <<cpc, artifact, outcomes, ledger, paid, calls, votes, kind, boundary, used>>
      /\ UNCHANGED <<lost, convened, crashes>>
  BY DEF SaveRow, collectVars, verdicts
<1>3. mem \in File
  BY DEF IInv, TypeOK
<1>4. /\ mem' \in File /\ mem'.ledger = mem.ledger /\ mem'.summary = Complete(mem)
      /\ mem'.verdict = mem.verdict /\ mem'.attempts = mem.attempts /\ mem'.panel = mem.panel
  BY <1>2, <1>3, SummarisedIs
<1>5. TypeOK'
  BY <1>1, <1>2, <1>4, Zenon DEF IInv, TypeOK
<1>6. Copy'
  <2>1. Complete(mem)' = Complete(mem) /\ Complete(disk)' = Complete(mem)
    BY <1>2, <1>4 DEF Complete
  <2>2. mem'.summary => Complete(mem)'
    BY <1>4, <2>1
  <2>3. disk'.summary => Complete(disk)'
    BY <1>2, <1>4, <2>1
  <2>4. \A r \in todo' : ~ Answered(r)' => mem'.verdict[r] = Unjudged
    BY <1>2, <1>4 DEF IInv, Copy, Answered
  <2>5. \A r \in todo' : Answered(r)' => mem'.attempts[r] <= 1
    BY <1>2, <1>4 DEF IInv, Copy, Answered
  <2> QED BY <1>2, <1>4, <2>2, <2>3, <2>4, <2>5 DEF IInv, Copy
<1>7. Money'
  BY <1>2, <1>4, AtHand DEF IInv, Money
<1> QED BY <1>1, <1>5, <1>6, <1>7 DEF IInv

\* The attempt is saved: the file is the copy, and the row may be tried again.
LEMMA SaveAttemptKeeps ==
  ASSUME IInv, SaveAttempt PROVE IInv'
<1>1. CollectTypeOK' /\ Frozen'
  BY JudgingKeepsCollect DEF IInv, TypeOK, JudgeStep
<1>2. /\ jpc = "attempted" /\ mem' = Attempted(mem, kind) /\ disk' = mem'
      /\ IF mem'.attempts[Current] = 1 /\ kind = "retryable"
           THEN jpc' = "vote" /\ calls' = 0 /\ votes' = 1 /\ boundary' = FALSE
           ELSE jpc' = "judged" /\ UNCHANGED <<calls, votes, boundary>>
      /\ convened' = IF boundary THEN convened + 1 ELSE convened
      /\ UNCHANGED <<cpc, artifact, outcomes, ledger, paid, todo, kind, used, lost, crashes>>
  BY DEF SaveAttempt, collectVars, verdicts
<1>3. mem \in File /\ kind \in Votes /\ mem.attempts \in [Rows -> 0..2]
      /\ mem.verdict \in [Rows -> Verdicts \cup {Unjudged}]
  BY DEF IInv, TypeOK, File
<1>4. Current \in todo /\ Current \in Rows /\ mem.attempts[Current] <= 1 /\ Answered(Current)
  BY <1>2, AtHand DEF IInv, Copy
<1>5. Current' = Current
  BY <1>2 DEF Current
<1>6. /\ mem' \in File /\ mem'.ledger = mem.ledger /\ mem'.panel = mem.panel
      /\ mem'.summary = mem.summary
      /\ mem'.verdict = [mem.verdict EXCEPT ![Current] =
           IF mem.verdict[Current] = Unjudged THEN kind ELSE mem.verdict[Current]]
      /\ mem'.attempts = [mem.attempts EXCEPT ![Current] = mem.attempts[Current] + 1]
  BY <1>2, <1>3, <1>4, AttemptedIs
<1>7. mem'.attempts \in [Rows -> 0..2] /\ convened' \in Nat
  <2>1. convened \in Nat
    BY DEF IInv, TypeOK
  <2>2. convened' \in Nat
    BY <1>2, <2>1
  <2> QED BY <1>6, <2>2 DEF File
<1>8. \/ /\ jpc' = "vote" /\ calls' = 0 /\ votes' = 1 /\ boundary' = FALSE
         /\ mem'.attempts[Current] = 1
      \/ jpc' = "judged" /\ UNCHANGED <<calls, votes, boundary>>
  BY <1>2, Zenon
<1>9. TypeOK'
  <2>1. 0 \in 0..3 /\ 1 \in 1..3 /\ FALSE \in BOOLEAN
    OBVIOUS
  <2> QED BY <1>1, <1>2, <1>6, <1>7, <1>8, <2>1, Zenon DEF IInv, TypeOK
<1>10. Copy'
  <2>1. mem'.summary => Complete(mem)'
    <3>1. kind # Unjudged
      BY <1>3 DEF Votes, Unjudged
    <3>2. Complete(mem) => Complete(mem)'
      BY <1>3, <1>4, <1>6, <3>1 DEF Complete
    <3> QED BY <1>6, <3>2 DEF IInv, Copy
  <2>2. disk'.summary => Complete(disk)'
    BY <1>2, <2>1 DEF Complete
  <2>3. \A r \in todo' : ~ Answered(r)' => mem'.verdict[r] = Unjudged
    BY <1>2, <1>3, <1>4, <1>6 DEF IInv, Copy, Answered, TypeOK
  <2>4. \A r \in todo' \ {Current'} : Answered(r)' => mem'.attempts[r] <= 1
    BY <1>2, <1>3, <1>4, <1>5, <1>6 DEF IInv, Copy, TypeOK, Answered
  <2>5. jpc' # "judged" => \A r \in todo' : Answered(r)' => mem'.attempts[r] <= 1
    BY <1>5, <1>8, <2>4
  <2>6. todo' # {} /\ Answered(Current)'
    BY <1>2, <1>4, <1>5 DEF Answered
  <2>7. mem'.panel \in 1..3 /\ (jpc' = "vote" => calls' < votes')
    BY <1>2, <1>6, <1>8 DEF IInv, Copy
  <2> QED BY <1>2, <1>8, <2>1, <2>2, <2>3, <2>4, <2>5, <2>6, <2>7 DEF IInv, Copy
<1>11. Money'
  <2>1. mem.ledger.spent \in Nat /\ paid = lost + mem.ledger.spent /\ cpc = "done"
    BY <1>2, <1>3, AtHand DEF IInv, Money, File
  <2>2. disk'.ledger = mem.ledger /\ mem'.ledger = mem.ledger
    BY <1>2, <1>6
  <2>3. CASE jpc' = "vote" /\ calls' = 0
    BY <1>2, <2>1, <2>2, <2>3, CollectionAssumption DEF IInv, Money
  <2>4. CASE jpc' = "judged"
    BY <1>2, <2>1, <2>2, <2>4, CollectionAssumption DEF IInv, Money
  <2> QED BY <1>8, <2>3, <2>4
<1> QED BY <1>1, <1>9, <1>10, <1>11 DEF IInv

\* A process starts from the file as it is, with the rows that are pending.
LEMMA StartKeeps ==
  ASSUME IInv, NEW m \in Models, NEW p \in Panels, Start(m, p) PROVE IInv'
<1> DEFINE f == [disk EXCEPT !.model = m, !.panel = p]
<1>1. CollectTypeOK' /\ Frozen'
  BY JudgingKeepsCollect DEF IInv, TypeOK
<1>2. /\ jpc = "idle" /\ artifact = "comparable" /\ cpc = "done"
      /\ UNCHANGED <<cpc, artifact, outcomes, ledger, paid, lost, convened, crashes>>
  BY DEF Start, Admits, collectVars, verdicts, IInv, Frozen
<1>3. \/ /\ disk' = Summarised(f) /\ UNCHANGED <<jpc, mem, todo, calls, votes, kind, boundary, used>>
         /\ ~ disk.summary
      \/ /\ disk' = f /\ mem' = f /\ todo' = Pending(disk) /\ used' = KnownPanels(disk)
         /\ jpc' = "row" /\ UNCHANGED <<calls, votes, kind, boundary>>
  BY Zenon DEF Start, process
<1>4. disk \in File /\ disk.ledger.spent \in Nat
  BY DEF IInv, TypeOK, File
<1>5. p \in 1..3 /\ p \in 0..3
  BY JudgingAssumption
<1>6. /\ f \in File /\ f.ledger = disk.ledger /\ f.verdict = disk.verdict
      /\ f.attempts = disk.attempts /\ f.summary = disk.summary /\ f.panel = p
  <2>1. f = [verdict |-> disk.verdict, attempts |-> disk.attempts, panelled |-> disk.panelled,
             model |-> m, panel |-> p, summary |-> disk.summary, ledger |-> disk.ledger]
    <3> DEFINE g == [disk EXCEPT !.model = m]
    <3>1. g = [verdict |-> disk.verdict, attempts |-> disk.attempts, panelled |-> disk.panelled,
               model |-> m, panel |-> disk.panel, summary |-> disk.summary, ledger |-> disk.ledger]
      BY <1>4 DEF File
    <3>2. f = [g EXCEPT !.panel = p]
      BY <1>4 DEF File
    <3> HIDE DEF g
    <3> QED BY <3>1, <3>2
  <2>2. f \in File
    BY <1>4, <1>5, <2>1 DEF File
  <2> QED BY <2>1, <2>2
<1> HIDE DEF f
<1>7. CASE /\ disk' = Summarised(f)
           /\ UNCHANGED <<jpc, mem, todo, calls, votes, kind, boundary, used>>
           /\ ~ disk.summary
  <2>1. disk' \in File /\ disk'.ledger = disk.ledger /\ disk'.verdict = disk.verdict
        /\ disk'.summary = Complete(f)
    BY <1>6, <1>7, SummarisedIs
  <2>2. Complete(f) = Complete(disk)'
    BY <1>6, <2>1 DEF Complete
  <2>3. TypeOK'
    BY <1>1, <1>2, <1>7, <2>1, Zenon DEF IInv, TypeOK
  <2>4. Money'
    BY <1>2, <1>7, <2>1 DEF IInv, Money
  <2>5. Copy'
    BY <1>2, <1>7, <2>1, <2>2 DEF IInv, Copy, Complete
  <2> QED BY <1>1, <2>3, <2>4, <2>5 DEF IInv
<1>8. CASE /\ disk' = f /\ mem' = f /\ todo' = Pending(disk) /\ used' = KnownPanels(disk)
           /\ jpc' = "row" /\ UNCHANGED <<calls, votes, kind, boundary>>
  <2>1. Pending(disk) \subseteq Rows
    BY DEF Pending
  <2>2. KnownPanels(disk) \in Nat
    <3>1. IsFiniteSet(Rows)
      BY FS_Interval, CollectionAssumption DEF Rows
    <3>2. disk.panelled \subseteq Rows
      BY <1>4 DEF File
    <3>3. IsFiniteSet(disk.panelled)
      BY <3>1, <3>2, FS_Subset
    <3> QED BY <3>3, FS_CardinalityType DEF KnownPanels
  <2>3. TypeOK'
    <3>1. jpc' \in {"idle", "row", "vote", "attempted", "judged"}
      BY <1>8
    <3> QED BY <1>1, <1>2, <1>6, <1>8, <2>1, <2>2, <3>1, Zenon DEF IInv, TypeOK
  <2>4. Money'
    BY <1>2, <1>4, <1>6, <1>8 DEF IInv, Money
  <2>5. Copy'
    <3>1. \A r \in todo' : ~ Answered(r)' => mem'.verdict[r] = Unjudged
      BY <1>2, <1>6, <1>8 DEF Pending, Answered
    <3>2. \A r \in todo' : Answered(r)' => mem'.attempts[r] <= 1
      BY <1>2, <1>6, <1>8 DEF Pending, Answered
    <3>3. (mem'.summary => Complete(mem)') /\ (disk'.summary => Complete(disk)')
      BY <1>6, <1>8 DEF IInv, Copy, Complete
    <3> QED BY <1>5, <1>6, <1>8, <3>1, <3>2, <3>3 DEF Copy
  <2> QED BY <1>1, <2>3, <2>4, <2>5 DEF IInv
<1> QED BY <1>3, <1>7, <1>8

\* The collection: what it spends is in its ledger, and then in the file.
LEMMA CollectKeepsMoney ==
  ASSUME IInv, Collect PROVE Money'
<1> USE CollectionAssumption DEF CGoto, runner, verdicts, environment
<1>1. CollectNext /\ UNCHANGED <<jpc, mem, calls, lost, crashes>>
      /\ disk' = IF cpc = "write" /\ cpc' = "done" THEN [disk EXCEPT !.ledger = ledger] ELSE disk
  BY DEF Collect, process
<1>2. /\ disk \in File /\ ledger \in [spent: Nat, missing: BOOLEAN] /\ ledger.spent \in Nat
      /\ paid \in Nat
  BY DEF IInv, TypeOK, CollectTypeOK
<1>3. CASE cpc = "done"
  <2>1. UNCHANGED <<cpc, artifact, ledger, paid>>
    BY <1>1, <1>3 DEF CollectNext, CollectStep, Authorize, Reuse, CaptureFails, Capturing, CaptureBefore,
       StartCall, EndCall, CallThrows, CaptureAfter, Postflight, PostflightFails, WriteArtifact, Age,
       CollectCrash, Deploy, Interrupt
  <2>2. disk' = disk
    BY <1>1, <1>3
  <2> QED BY <1>1, <2>1, <2>2 DEF IInv, Money
<1>4. CASE cpc # "done"
  <2>1. jpc = "idle" /\ lost = 0 /\ paid = ledger.spent
    BY <1>4 DEF IInv, Money
  <2>2. CASE WriteArtifact
    <3>1. cpc = "write" /\ cpc' = "done" /\ ledger' = ledger /\ paid' = paid
      BY <2>2 DEF WriteArtifact
    <3>2. disk'.ledger = ledger
      BY <1>1, <1>2, <3>1, LedgerIn
    <3> QED BY <1>1, <1>2, <2>1, <3>1, <3>2 DEF IInv, Money
  <2>3. CASE EndCall
    <3>1. PICK cost \in Costs \cup {NoCost} :
            /\ ledger' = Record(ledger, cost)
            /\ paid' = IF cost = NoCost THEN paid ELSE paid + cost
      BY <2>3, Zenon DEF EndCall
    <3>2. cost \in 0..MaxCost /\ cost \in Nat
      BY DEF Costs, NoCost
    <3>3. ledger'.spent = ledger.spent + cost
      BY <1>2, <3>1, <3>2, RecordIs
    <3>4. paid' = paid + cost
      BY <1>2, <3>1, <3>2 DEF NoCost
    <3>5. ledger.spent < Cap
      BY <1>2, <2>3 DEF EndCall, IInv, Money, CanAuthorize, Remaining
    <3>6. cpc' = "after" /\ disk' = disk
      BY <1>1, <2>3 DEF EndCall
    <3> QED BY <1>1, <1>2, <2>1, <3>2, <3>3, <3>4, <3>5, <3>6 DEF IInv, Money
  <2>4. CASE ~ WriteArtifact /\ ~ EndCall
    <3>1. ledger' = ledger /\ paid' = paid
      BY <1>1, <2>4 DEF CollectNext, CollectStep, Authorize, Reuse, CaptureFails, CaptureBefore,
         StartCall, CallThrows, CaptureAfter, Postflight, PostflightFails, Age, CollectCrash, Deploy,
         Interrupt
    <3>2. cpc' # "done"
      BY <1>1, <1>4, <2>4 DEF CollectNext, CollectStep, Authorize, Stop, Reuse, Proceed, CaptureFails,
         GiveUp, CaptureBefore, StartCall, CallThrows, CaptureAfter, Advance, Postflight,
         PostflightFails, Age, CollectCrash, Deploy, Interrupt
    <3>3. cpc' \in {"before", "call", "calling"} => CanAuthorize(ledger, Cap)
      <4>1. CASE Authorize
        BY <4>1 DEF Authorize, Stop
      <4>2. CASE ~ Authorize
        <5>1. cpc' \in {"before", "call", "calling"} => cpc \in {"before", "call", "calling"}
          BY <1>1, <2>4, <4>2 DEF CollectNext, CollectStep, Reuse, Proceed, CaptureFails, Capturing,
             GiveUp, Stop, CaptureBefore, StartCall, CallThrows, CaptureAfter, Advance, Postflight,
             PostflightFails, Age, CollectCrash, Deploy, Interrupt
        <5> QED BY <5>1 DEF IInv, Money
      <4> QED BY <4>1, <4>2
    <3>4. disk' = disk /\ CanAuthorize(ledger, Cap)' = CanAuthorize(ledger, Cap)
      BY <1>1, <3>1, <3>2
    <3> QED BY <1>1, <2>1, <3>1, <3>2, <3>3, <3>4 DEF IInv, Money
  <2> QED BY <2>2, <2>3, <2>4
<1> QED BY <1>3, <1>4

\* The collection, as a whole.
LEMMA CollectKeeps ==
  ASSUME IInv, Collect PROVE IInv'
<1>1. /\ CollectNext /\ UNCHANGED <<jpc, mem, todo, calls, votes, kind, boundary, used>>
      /\ UNCHANGED <<lost, convened, crashes>>
      /\ disk' = IF cpc = "write" /\ cpc' = "done" THEN [disk EXCEPT !.ledger = ledger] ELSE disk
  BY DEF Collect, process
<1>2. CollectTypeOK' /\ Frozen'
  BY <1>1, CollectKeepsTypes, CollectKeepsFrozen DEF IInv, TypeOK
<1>3. Money'
  BY CollectKeepsMoney
<1>4. disk' \in File /\ disk'.verdict = disk.verdict /\ disk'.summary = disk.summary
  <2>1. disk \in File /\ ledger \in [spent: Nat, missing: BOOLEAN]
    BY DEF IInv, TypeOK, CollectTypeOK
  <2>2. CASE disk' = disk
    BY <2>1, <2>2
  <2>3. CASE disk' = [disk EXCEPT !.ledger = ledger]
    BY <2>1, <2>3, LedgerIn
  <2> QED BY <1>1, <2>2, <2>3
<1>5. TypeOK'
  BY <1>1, <1>2, <1>4, Zenon DEF IInv, TypeOK
<1>6. Copy'
  <2>1. CASE jpc = "idle"
    BY <1>1, <1>4, <2>1 DEF IInv, Copy, Complete
  <2>2. CASE jpc # "idle"
    <3>1. cpc = "done"
      BY <2>2, AtHand
    <3>2. outcomes' = outcomes
      BY <1>1, <3>1 DEF CollectNext, CollectStep, Authorize, Reuse, CaptureFails, Capturing,
         CaptureBefore, StartCall, EndCall, CallThrows, CaptureAfter, Postflight, PostflightFails,
         WriteArtifact, Age, CollectCrash, Deploy, Interrupt, runner, verdicts
    <3> QED BY <1>1, <1>4, <3>2 DEF IInv, Copy, Complete, Answered, Current
  <2> QED BY <2>1, <2>2
<1> QED BY <1>2, <1>3, <1>5, <1>6 DEF IInv

\* The initial state satisfies the invariant.
LEMMA InitIInv == Init => IInv
<1> SUFFICES ASSUME Init PROVE IInv
  OBVIOUS
<1> USE CollectionAssumption, JudgingAssumption DEF Init, CollectInit
<1>1. /\ NewFile \in File /\ NewFile.ledger.spent = 0 /\ NewFile.summary = FALSE
      /\ NewLedger \in [spent: Nat, missing: BOOLEAN] /\ NewLedger.spent = 0
  BY NewFileIs
<1>2. CollectTypeOK
  <2>1. /\ cpc \in Places /\ row \in Rows /\ attempt \in 1..2 /\ captures \in 0..(CaptureTries - 1)
        /\ baseline \in 0..NoVector /\ pending \in 0..NoVector /\ reusable \in 0..NoVector
    BY DEF Places, Rows, NoVector
  <2>2. outcomes \in [Rows -> {"none", "answer", "failure"}]
        /\ artifact \in {"none", "comparable", "incomparable"}
    OBVIOUS
  <2>3. retryable \in BOOLEAN /\ stopped \in BOOLEAN /\ closed \in BOOLEAN /\ cancel \in BOOLEAN
    BY Zenon
  <2>4. ledger \in [spent: Nat, missing: BOOLEAN]
    BY <1>1
  <2>5. world \in 0..MaxWorld /\ paid \in Nat /\ stale \in Nat
    OBVIOUS
  <2> QED BY <2>1, <2>2, <2>3, <2>4, <2>5, Zenon DEF CollectTypeOK
<1>3. TypeOK
  <2>1. /\ disk \in File /\ mem \in File /\ jpc \in {"idle", "row", "vote", "attempted", "judged"}
        /\ todo \subseteq Rows
    BY <1>1
  <2>2. calls \in 0..3 /\ votes \in 1..3 /\ kind \in Votes
    BY DEF Votes
  <2>3. boundary \in BOOLEAN
    BY Zenon
  <2>4. used \in Nat /\ lost \in Nat /\ convened \in Nat /\ crashes \in 0..MaxCrashes
    OBVIOUS
  <2> QED BY <1>2, <2>1, <2>2, <2>3, <2>4, Zenon DEF TypeOK
<1>4. Frozen
  BY DEF Frozen, StaleSpendStops, NoVector, Expected
<1>5. Money
  <2>1. 0 <= 0 * 3 * MaxCost
    BY Allowance
  <2> QED BY <1>1, <2>1 DEF Money
<1>6. Copy
  BY <1>1 DEF Copy
<1> QED BY <1>3, <1>4, <1>5, <1>6 DEF IInv

\* Every step keeps the invariant.
LEMMA StepIInv == IInv /\ [Next]_vars => IInv'
<1> SUFFICES ASSUME IInv, [Next]_vars PROVE IInv'
  OBVIOUS
<1>1. CASE Collect
  BY <1>1, CollectKeeps
<1>2. CASE TakeRow
  BY <1>2, TakeRowKeeps
<1>3. CASE Exhausted \/ JudgeThrows
  BY <1>3, AbandonKeeps
<1>4. CASE Vote
  BY <1>4, VoteKeeps
<1>5. CASE FaultyVote
  BY <1>5, FaultyVoteKeeps
<1>6. CASE SaveAttempt
  BY <1>6, SaveAttemptKeeps
<1>7. CASE SaveRow
  BY <1>7, SaveRowKeeps
<1>8. CASE Finish
  BY <1>8, FinishKeeps
<1>9. CASE Crash
  BY <1>9, CrashKeeps
<1>10. CASE \E m \in Models, p \in Panels : Start(m, p)
  BY <1>10, StartKeeps
<1>11. CASE UNCHANGED vars
  <2>1. /\ UNCHANGED <<cpc, row, attempt, captures, baseline, pending, reusable, retryable>>
        /\ UNCHANGED <<stopped, closed, outcomes, artifact, ledger, world, cancel, paid, stale>>
        /\ UNCHANGED <<disk, jpc, mem, todo, calls, votes, kind, boundary, used>>
        /\ UNCHANGED <<lost, convened, crashes>>
    BY <1>11 DEF vars, collectVars, judgeVars, runner, verdicts, environment, process
  <2>2. CollectTypeOK'
    BY <2>1, Zenon DEF IInv, TypeOK, CollectTypeOK
  <2>3. TypeOK'
    BY <2>1, <2>2, Zenon DEF IInv, TypeOK
  <2>4. Frozen'
    BY <2>1, Zenon DEF IInv, Frozen, StaleSpendStops
  <2>5. Money'
    BY <2>1 DEF IInv, Money, CanAuthorize, Remaining
  <2>6. Copy'
    BY <2>1 DEF IInv, Copy, Complete, Answered, Current
  <2> QED BY <2>3, <2>4, <2>5, <2>6 DEF IInv
<1> QED BY <1>1, <1>2, <1>3, <1>4, <1>5, <1>6, <1>7, <1>8, <1>9, <1>10, <1>11, Zenon DEF Next, JudgeStep

\* The invariant holds in every state.
THEOREM InductiveInvariant == Spec => []IInv
<1>1. Init => IInv
  BY InitIInv
<1>2. IInv /\ [Next]_vars => IInv'
  BY StepIInv
<1> QED BY <1>1, <1>2, PTL DEF Spec

\* The values of all variables of the collection and of judging.
THEOREM TypeCorrect == Spec => []TypeOK
<1>1. IInv => TypeOK
  BY DEF IInv
<1> QED BY <1>1, InductiveInvariant, PTL

\* What is spent stays within the cap, but for one call and for one attempt of
\* each process that died (authorizeSpend and recordSpend, eval/qa/spend-budget.mjs).
THEOREM CapOnSpend == Spec => []SpendWithinCap
<1>1. IInv => SpendWithinCap
  <2> SUFFICES ASSUME IInv PROVE SpendWithinCap
    OBVIOUS
  <2>1. /\ paid \in Nat /\ lost \in Nat /\ crashes \in Nat
        /\ disk.ledger.spent \in Nat /\ mem.ledger.spent \in Nat
    BY DEF IInv, TypeOK, CollectTypeOK, File
  <2>2. crashes * 3 * MaxCost \in Nat
    BY <2>1, Allowance, CollectionAssumption
  <2>3. paid < Cap + MaxCost + lost
    BY <2>1, CollectionAssumption DEF IInv, Money
  <2>4. lost <= crashes * 3 * MaxCost
    BY DEF IInv, Money
  <2> QED BY <2>1, <2>2, <2>3, <2>4, CollectionAssumption DEF SpendWithinCap
<1> QED BY <1>1, InductiveInvariant, PTL

\* Once the services have changed, one call is paid for at most
\* (runRemoteIdentityGuardedCall, eval/qa/remote-identity-guard.mjs).
THEOREM OneStaleCall == Spec => []StaleSpendStops
<1>1. IInv => StaleSpendStops
  BY DEF IInv, Frozen
<1> QED BY <1>1, InductiveInvariant, PTL

\* A file that counts as comparable holds no answer of changed services
\* (collectionComparabilityReasons, eval/qa/run-qa.mjs).
THEOREM FrozenArtifact == Spec => []ComparableIsFrozen
<1>1. IInv => ComparableIsFrozen
  BY DEF IInv, Frozen, ComparableIsFrozen
<1> QED BY <1>1, InductiveInvariant, PTL

-----------------------------------------------------------------------------
\* A write that adds verdicts, and a summary only to a full file, is a step of
\* the book.
LEMMA WriteOfBook ==
  ASSUME disk \in File, disk' \in File,
         \A r \in Rows : disk.verdict[r] # Unjudged => disk'.verdict[r] = disk.verdict[r],
         disk.summary => disk'.summary,
         disk'.summary => Complete(disk)'
  PROVE  Book!Next
<1> DEFINE written == {r \in Rows : disk.verdict[r] = Unjudged}
<1>1. disk'.verdict \in [Rows -> Verdicts \cup {Unjudged}] /\ disk'.summary \in BOOLEAN
  BY DEF File
<1>2. \A r \in Rows \ written : disk'.verdict[r] = disk.verdict[r]
  OBVIOUS
<1> DEFINE new == {r \in written : disk'.verdict[r] # Unjudged}
<1>3. new \in SUBSET written
  OBVIOUS
<1>4. \A r \in new : disk'.verdict[r] \in Verdicts
  BY <1>1
<1>5. \A r \in Rows \ new : disk'.verdict[r] = disk.verdict[r]
  BY <1>2
<1>6. \A r \in Rows : disk'.summary => disk'.verdict[r] # Unjudged
  BY DEF Complete
<1>7. DOMAIN disk'.verdict = Rows
  BY <1>1
<1>8. \E w \in SUBSET {r \in Rows : disk.verdict[r] = Unjudged} :
        /\ \A r \in w : disk'.verdict[r] \in Verdicts
        /\ \A r \in Rows \ w : disk'.verdict[r] = disk.verdict[r]
  BY <1>3, <1>4, <1>5
<1> QED BY <1>1, <1>6, <1>7, <1>8, Zenon DEF Book!Next, Book!Write

\* Every step is a write of the book, or leaves it as it is.
LEMMA StepOfBook ==
  ASSUME IInv, IInv', [Next]_vars PROVE [Book!Next]_<<disk.verdict, disk.summary>>
<1> DEFINE Grows == /\ \A r \in Rows : disk.verdict[r] # Unjudged => disk'.verdict[r] = disk.verdict[r]
                    /\ disk.summary => disk'.summary
<1>1. disk \in File /\ disk' \in File /\ mem \in File
  BY DEF IInv, TypeOK
<1>2. disk'.summary => Complete(disk)'
  BY DEF IInv, Copy
<1>3. Grows => Book!Next
  BY <1>1, <1>2, WriteOfBook
<1>4. ASSUME disk'.verdict = disk.verdict, disk'.summary = disk.summary
      PROVE [Book!Next]_<<disk.verdict, disk.summary>>
  BY <1>4
<1>5. CASE UNCHANGED disk
  BY <1>5, <1>4
<1>6. CASE Collect
  <2>1. ledger \in [spent: Nat, missing: BOOLEAN]
    BY DEF IInv, TypeOK, CollectTypeOK
  <2>2. CASE disk' = [disk EXCEPT !.ledger = ledger]
    BY <1>1, <1>4, <2>1, <2>2, LedgerIn
  <2> QED BY <1>5, <1>6, <2>2 DEF Collect
<1>7. CASE Exhausted \/ JudgeThrows
  <2> DEFINE f == IF calls = 0 THEN mem ELSE Broken(mem)
  <2>1. jpc = "vote" /\ disk' = Summarised(f)
    BY <1>7 DEF Exhausted, JudgeThrows, Abandon
  <2>2. f \in File /\ \A r \in Rows : disk.verdict[r] # Unjudged => f.verdict[r] = disk.verdict[r]
    BY <2>1, AbandonedIs DEF IInv, Copy
  <2> HIDE DEF f
  <2>3. disk'.verdict = f.verdict /\ disk'.summary = Complete(f)
    BY <2>1, <2>2, SummarisedIs
  <2>4. disk.summary => Complete(f)
    BY <2>2 DEF IInv, Copy, Complete
  <2> QED BY <1>3, <2>2, <2>3, <2>4
<1>8. CASE FaultyVote
  <2>1. PICK cost \in Costs \cup {NoCost} :
          disk' = Summarised([Broken(mem) EXCEPT !.ledger = Record(@, cost)])
    BY <1>8, Zenon DEF FaultyVote
  <2> DEFINE l == Record(mem.ledger, cost)
             f == [Broken(mem) EXCEPT !.ledger = l]
  <2>2. Broken(mem) \in File /\ Broken(mem).ledger = mem.ledger /\ jpc = "vote"
    BY <1>8, AbandonedIs DEF FaultyVote
  <2>3. disk' = Summarised(f)
    <3>1. [Broken(mem) EXCEPT !.ledger = Record(@, cost)] = f
      BY <2>2 DEF File
    <3> QED BY <2>1, <3>1
  <2>4. l \in [spent: Nat, missing: BOOLEAN]
    <3>1. cost \in Nat /\ mem.ledger \in [spent: Nat, missing: BOOLEAN]
      BY <1>1, CollectionAssumption DEF Costs, NoCost, File
    <3> QED BY <3>1, RecordIs
  <2> HIDE DEF l
  <2>5. f \in File /\ f.verdict = Broken(mem).verdict
    BY <2>2, <2>4, LedgerIn
  <2>6. \A r \in Rows : disk.verdict[r] # Unjudged => f.verdict[r] = disk.verdict[r]
    BY <2>2, <2>5, AbandonedIs
  <2> HIDE DEF f
  <2>7. disk'.verdict = f.verdict /\ disk'.summary = Complete(f)
    BY <2>3, <2>5, SummarisedIs
  <2>8. disk.summary => Complete(f)
    BY <2>6 DEF IInv, Copy, Complete
  <2> QED BY <1>3, <2>6, <2>7, <2>8
<1>9. CASE SaveAttempt
  <2>1. jpc = "attempted" /\ disk' = Attempted(mem, kind) /\ kind \in Votes
    BY <1>9 DEF SaveAttempt, IInv, TypeOK
  <2>2. Current \in Rows /\ Current \in todo /\ mem.attempts[Current] <= 1
    BY <2>1, AtHand DEF IInv, Copy
  <2>3. /\ disk'.verdict = [mem.verdict EXCEPT ![Current] =
             IF mem.verdict[Current] = Unjudged THEN kind ELSE mem.verdict[Current]]
        /\ disk'.summary = mem.summary
    BY <1>1, <2>1, <2>2, AttemptedIs
  <2>4. mem.verdict \in [Rows -> Verdicts \cup {Unjudged}]
    BY <1>1 DEF File
  <2>5. /\ \A r \in Rows : disk.verdict[r] # Unjudged => mem.verdict[r] = disk.verdict[r]
        /\ disk.summary => mem.summary
    BY <2>1 DEF IInv, Copy
  <2> QED BY <1>3, <2>3, <2>4, <2>5
<1>10. CASE SaveRow \/ Finish
  <2>1. jpc # "idle" /\ disk' = Summarised(mem)
    BY <1>10 DEF SaveRow, Finish
  <2>2. /\ \A r \in Rows : disk.verdict[r] # Unjudged => mem.verdict[r] = disk.verdict[r]
        /\ disk.summary => mem.summary
        /\ mem.summary => Complete(mem)
    BY <2>1 DEF IInv, Copy
  <2>3. disk'.verdict = mem.verdict /\ disk'.summary = Complete(mem)
    BY <1>1, <2>1, SummarisedIs
  <2> QED BY <1>3, <2>2, <2>3
<1>11. ASSUME NEW m \in Models, NEW p \in Panels, Start(m, p)
       PROVE [Book!Next]_<<disk.verdict, disk.summary>>
  <2> DEFINE f == [disk EXCEPT !.model = m, !.panel = p]
  <2>1. disk' = f \/ (~ disk.summary /\ disk' = Summarised(f))
    BY <1>11, Zenon DEF Start
  <2>2. f \in File /\ f.verdict = disk.verdict /\ f.summary = disk.summary
    <3>1. p \in 0..3
      BY JudgingAssumption
    <3> DEFINE g == [disk EXCEPT !.model = m]
    <3>2. g \in File /\ g.verdict = disk.verdict /\ g.summary = disk.summary
      BY <1>1 DEF File
    <3>3. f = [g EXCEPT !.panel = p]
      BY <1>1 DEF File
    <3> HIDE DEF g
    <3> QED BY <3>1, <3>2, <3>3 DEF File
  <2> HIDE DEF f
  <2>3. CASE disk' = f
    BY <1>4, <2>2, <2>3
  <2>4. CASE ~ disk.summary /\ disk' = Summarised(f)
    <3>1. disk'.verdict = f.verdict
      BY <2>2, <2>4, SummarisedIs
    <3> QED BY <1>3, <2>2, <2>4, <3>1
  <2> QED BY <2>1, <2>3, <2>4
<1>12. CASE TakeRow \/ Vote \/ Crash \/ UNCHANGED vars
  BY <1>5, <1>12 DEF TakeRow, Vote, Crash, vars, judgeVars
<1> QED BY <1>6, <1>7, <1>8, <1>9, <1>10, <1>11, <1>12, Zenon DEF Next, JudgeStep

\* The stored file implements the book: whatever dies on the way, a verdict is
\* written once and stays, and a summary stands for all of them
\* (judgeStoredResults, eval/qa/run-qa.mjs).
THEOREM JudgingImplementsBook == Spec => ImplementsVerdictBook
<1>1. Init => Book!Init
  <2> SUFFICES ASSUME Init PROVE Book!Init
    OBVIOUS
  <2>1. disk.verdict = [r \in Rows |-> Unjudged] /\ disk.summary = FALSE
    BY DEF Init, NewFile
  <2> QED BY <2>1 DEF Book!Init
<1>2. IInv /\ IInv' /\ [Next]_vars => [Book!Next]_(Book!vars)
  BY StepOfBook DEF Book!vars
<1> QED BY <1>1, <1>2, InductiveInvariant, PTL DEF Spec, ImplementsVerdictBook, Book!Spec
=============================================================================
