---------------------------- MODULE ServiceProofs ----------------------------
(***************************************************************************)
(* The three components that each talk to one remote service which may     *)
(* fail, be silent or answer too late: the docs adapter to its page store, *)
(* the usage collector to its database, and the evaluation cost to the log *)
(* of the gateway.  They share no state and no step; what their proofs     *)
(* have in common is that something is known of a request whose answer is  *)
(* not: the time it may take, the rows it may have stored, what it cost.   *)
(***************************************************************************)
EXTENDS StellarDocs, UsageCollector, EvalCost, FiniteSetTheorems, FunctionTheorems, TLAPS

-----------------------------------------------------------------------------
(***************************************************************************)
(* The invariants of StellarDocs for any pages, redirects, timeouts and    *)
(* budget.  AbsenceIsReal and RightPage rest on Ladder, which says what    *)
(* the store has already denied by the time a key is asked for; the bound  *)
(* on the time rests on nothing but the clipping of each wait.             *)
(***************************************************************************)
\* A clipped wait stays within the budget.
LEMMA WaitIsClipped ==
  ASSUME NEW t \in Nat, now \in Nat, WithinBudget, Takes(t)
  PROVE  now' \in Nat /\ now' <= Budget
BY DocsAssumption DEF WithinBudget, Takes, Lesser, Remaining

\* An attempt is such a wait.
LEMMA AttemptIsClipped ==
  ASSUME DocsTypeOK, WithinBudget, Attempt
  PROVE  /\ now' \in Nat /\ now' <= Budget
         /\ stage = "ask" /\ tries + 1 \in 0..Len(AttemptTimeouts)
<1>1. tries \in Nat /\ tries < Len(AttemptTimeouts) /\ stage = "ask"
  BY DocsAssumption DEF Attempt, MayTry, DocsTypeOK
<1>2. tries + 1 \in 1..Len(AttemptTimeouts)
  BY <1>1, DocsAssumption
<1>3. AttemptTimeouts[tries + 1] \in Nat
  BY <1>2, DocsAssumption
<1>4. now' \in Nat /\ now' <= Budget
  BY <1>3, WaitIsClipped DEF Attempt, DocsTypeOK
<1> QED BY <1>1, <1>2, <1>4

\* The initial states satisfy the invariant.
LEMMA DocsInitIInv == DocsInit => DocsIInv
<1> SUFFICES ASSUME DocsInit PROVE DocsIInv
  OBVIOUS
<1> USE DocsAssumption DEF DocsInit
<1>1. op.endpoint = "page" => op.path \in Pages /\ key = <<op.path, "page">>
  BY DEF Operations
<1>2. DocsTypeOK
  <2>0. Len(AttemptTimeouts) \in Nat
    OBVIOUS
  <2>1. tries \in 0..Len(AttemptTimeouts) /\ now \in Nat
    BY <2>0
  <2>4. moved \in BOOLEAN
    OBVIOUS
  <2>2. op.endpoint = "page" => key \in Keys
    BY <1>1 DEF Keys, Parts
  <2>3. answer \in Answers /\ op \in Operations
    BY DEF Answers
  <2> QED BY <2>1, <2>2, <2>3, <2>4 DEF DocsTypeOK
<1>3. Ladder
  BY <1>1 DEF Ladder
<1>4. WithinBudget
  BY DEF WithinBudget
<1>5. AbsenceIsReal /\ RightPage
  BY DEF AbsenceIsReal, RightPage, NoAnswer, SoftEmpty
<1> QED BY <1>2, <1>3, <1>4, <1>5 DEF DocsIInv

\* A step that returns something other than a page or an absence, and changes
\* neither the key nor the world, keeps what the invariant says of answers.
LEMMA ReturnKeeps ==
  ASSUME DocsIInv, NEW a \in Answers, Return(a), a.kind # "page", a.kind # "soft-empty",
         UNCHANGED <<held, site, op, key, moved>>,
         tries' \in 0..Len(AttemptTimeouts), now' \in Nat, now' <= Budget
  PROVE  DocsIInv'
<1> USE DEF Return
<1>1. DocsTypeOK'
  BY DEF DocsIInv, DocsTypeOK
<1>2. Ladder'
  BY DEF DocsIInv, Ladder, Lookups
<1>3. AbsenceIsReal' /\ RightPage'
  BY DEF DocsIInv, AbsenceIsReal, RightPage, SoftEmpty
<1> QED BY <1>1, <1>2, <1>3 DEF DocsIInv, WithinBudget

\* A page read keeps its path among the pages.
LEMMA PathTyped ==
  ASSUME DocsTypeOK, op.endpoint = "page"
  PROVE  op.path \in Pages /\ site[op.path] \in Pages \cup {None}
BY DEF DocsTypeOK, Operations

\* Every step preserves the invariant.
LEMMA DocsStepIInv == DocsIInv /\ [DocsNext]_docsVars => DocsIInv'
<1> SUFFICES ASSUME DocsIInv, [DocsNext]_docsVars PROVE DocsIInv'
  OBVIOUS
<1>t. DocsTypeOK /\ Ladder /\ WithinBudget /\ AbsenceIsReal /\ RightPage
  BY DEF DocsIInv
<1>f. Failure \in Answers /\ Failure.kind = "error" /\ SoftEmpty \in Answers
  BY DEF Answers, Failure, SoftEmpty
<1>1. CASE AttemptRetryable
  <2>1. now' \in Nat /\ now' <= Budget /\ tries' \in 0..Len(AttemptTimeouts)
    BY <1>1, <1>t, AttemptIsClipped DEF AttemptRetryable
  <2>2. DocsTypeOK'
    BY <1>1, <1>t, <2>1 DEF AttemptRetryable, DocsTypeOK
  <2>3. Ladder' /\ AbsenceIsReal' /\ RightPage'
    BY <1>1, <1>t DEF AttemptRetryable, Ladder, AbsenceIsReal, RightPage, Lookups
  <2> QED BY <2>1, <2>2, <2>3 DEF DocsIInv, WithinBudget
<1>2. CASE AttemptTerminal
  <2>1. now' \in Nat /\ now' <= Budget
    BY <1>2, <1>t, AttemptIsClipped DEF AttemptTerminal
  <2> QED BY <1>2, <1>f, <2>1, ReturnKeeps DEF AttemptTerminal, DocsIInv, DocsTypeOK
<1>3. CASE RequestFails
  BY <1>3, <1>f, ReturnKeeps DEF RequestFails, DocsIInv, DocsTypeOK, WithinBudget
<1>4. CASE PageAbsent
  <2>1. now' \in Nat /\ now' <= Budget /\ stage = "ask"
    BY <1>4, <1>t, AttemptIsClipped DEF PageAbsent
  <2>2. op.endpoint = "page" /\ key \notin held /\ key \in Keys
        /\ key[1] = (IF moved THEN site[op.path] ELSE op.path)
    BY <1>4, <1>t DEF PageAbsent, DocsTypeOK, Ladder
  <2>3. /\ key[1] \in Pages /\ key[2] \in Parts /\ key = <<key[1], key[2]>>
        /\ op.path \in Pages
    BY <2>2, PathTyped, <1>t DEF Keys
  <2>u. UNCHANGED <<held, site, op, moved>>
    BY <1>4 DEF PageAbsent
  <2>4. CASE key[2] = "page" /\ key[1] \notin IndexPages /\ AskFor(<<key[1], "index">>)
    <3>1. key' = <<key[1], "index">> /\ key' \in Keys
      BY <2>4, <2>3 DEF AskFor, Keys, Parts
    <3>2. DocsTypeOK'
      BY <2>1, <2>4, <2>u, <3>1, <1>t, DocsAssumption DEF DocsTypeOK, AskFor
    <3>3. Ladder'
      BY <2>1, <2>2, <2>3, <2>4, <2>u, <3>1, <1>t DEF Ladder, AskFor, Lookups
    <3>4. AbsenceIsReal' /\ RightPage'
      BY <2>4, <2>u, <1>t DEF AbsenceIsReal, RightPage, AskFor, Lookups
    <3> QED BY <2>1, <3>2, <3>3, <3>4 DEF DocsIInv, WithinBudget
  <2>5. CASE /\ key[2] = "index" \/ key[1] \in IndexPages
             /\ IF moved THEN Return(SoftEmpty) ELSE stage' = "probe" /\ UNCHANGED answer
             /\ UNCHANGED <<key, tries>>
    <3>1. Lookups(key[1]) \cap held = {}
      <4>1. CASE key[1] \in IndexPages
        <5>1. key[2] = "page"
          BY <4>1, <2>2, <2>3, <1>t DEF Ladder, Parts
        <5> QED BY <4>1, <5>1, <2>2, <2>3 DEF Lookups
      <4>2. CASE key[1] \notin IndexPages
        <5>1. key[2] = "index" /\ <<key[1], "page">> \notin held
          BY <4>2, <2>5, <2>2, <1>t DEF Ladder
        <5> QED BY <4>2, <5>1, <2>2, <2>3 DEF Lookups, Parts
      <4> QED BY <4>1, <4>2
    <3>2. DocsTypeOK'
      BY <2>1, <2>5, <2>u, <1>f, <1>t DEF DocsTypeOK, Return
    <3>3. Ladder'
      BY <2>1, <2>2, <2>5, <2>u, <3>1, <1>t DEF Ladder, Return, Lookups
    <3>4. AbsenceIsReal'
      BY <2>1, <2>2, <2>5, <2>u, <3>1, <1>t DEF AbsenceIsReal, Ladder, Return, Lookups
    <3>5. RightPage'
      BY <2>5, <2>u, <1>t DEF RightPage, Return, SoftEmpty, Lookups
    <3> QED BY <2>1, <3>2, <3>3, <3>4, <3>5 DEF DocsIInv, WithinBudget
  <2> QED BY <1>4, <2>4, <2>5 DEF PageAbsent
<1>5. CASE PageFound
  <2>1. now' \in Nat /\ now' <= Budget /\ stage = "ask"
    BY <1>5, <1>t, AttemptIsClipped DEF PageFound
  <2>2. CASE Return(Failure)
    BY <1>5, <2>1, <2>2, <1>f, ReturnKeeps DEF PageFound, DocsIInv, DocsTypeOK
  <2>3. CASE Return(Page(key))
    <3>1. /\ op.endpoint = "page" /\ key \in held /\ key \in Keys
          /\ key[1] = (IF moved THEN site[op.path] ELSE op.path)
          /\ key[2] = "index" => key[1] \notin IndexPages
          /\ moved => Lookups(op.path) \cap held = {}
      BY <1>5, <1>t DEF PageFound, DocsTypeOK, Ladder
    <3>2. key \in Lookups(key[1])
      BY <3>1 DEF Lookups, Keys, Parts
    <3>3. Page(key) \in Answers
      BY <3>1 DEF Answers
    <3>4. DocsTypeOK'
      BY <1>5, <2>1, <2>3, <3>3, <1>t DEF PageFound, DocsTypeOK, Return
    <3>5. Ladder'
      BY <1>5, <2>3, <1>t DEF PageFound, Return, Ladder, Lookups
    <3>6. AbsenceIsReal'
      BY <2>3 DEF Return, AbsenceIsReal, Page, SoftEmpty
    <3>7. RightPage'
      BY <1>5, <2>3, <3>1, <3>2 DEF PageFound, Return, RightPage, Page, Lookups
    <3> QED BY <2>1, <3>4, <3>5, <3>6, <3>7 DEF DocsIInv, WithinBudget
  <2> QED BY <1>5, <2>2, <2>3 DEF PageFound
<1>6. CASE ProbeMoved
  <2>1. AttemptTimeouts[1] \in Nat
    BY DocsAssumption
  <2>2. now' \in Nat /\ now' <= Budget
    BY <1>6, <2>1, <1>t, WaitIsClipped DEF ProbeMoved, DocsTypeOK
  <2>3. stage = "probe" /\ UNCHANGED <<held, site, op>> /\ moved' = TRUE
        /\ stage' = "ask" /\ key' = <<site[op.path], "page">> /\ tries' = 0 /\ answer' = answer
        /\ site[op.path] # None
    BY <1>6 DEF ProbeMoved, AskFor
  <2>4. op.endpoint = "page" => site[op.path] \in Pages /\ Lookups(op.path) \cap held = {}
    BY <2>3, <1>t, PathTyped DEF Ladder
  <2>5. DocsTypeOK'
    BY <2>2, <2>3, <2>4, <1>t, DocsAssumption DEF DocsTypeOK, Keys, Parts
  <2>6. Ladder'
    BY <2>3, <2>4, <1>t DEF Ladder, Lookups
  <2>7. RightPage'
    BY <2>3, <1>t DEF RightPage, Lookups
  <2>8. AbsenceIsReal'
    BY <2>3, <1>t DEF AbsenceIsReal, Ladder, NoAnswer, SoftEmpty
  <2> QED BY <2>2, <2>5, <2>6, <2>7, <2>8 DEF DocsIInv, WithinBudget
<1>7. CASE ProbeFails
  <2>1. AttemptTimeouts[1] \in Nat
    BY DocsAssumption
  <2>2. now' \in Nat /\ now' <= Budget
    BY <1>7, <2>1, <1>t, WaitIsClipped DEF ProbeFails, DocsTypeOK, WithinBudget
  <2>3. stage = "probe" /\ UNCHANGED <<held, site, op, key, tries, moved>>
        /\ stage' = "done" /\ answer' = SoftEmpty
    BY <1>7 DEF ProbeFails, Return
  <2>4. DocsTypeOK'
    BY <2>2, <2>3, <1>f, <1>t DEF DocsTypeOK
  <2>5. Ladder' /\ AbsenceIsReal'
    BY <2>3, <1>t DEF Ladder, AbsenceIsReal, Lookups
  <2>6. RightPage'
    BY <2>3 DEF RightPage, SoftEmpty
  <2> QED BY <2>2, <2>4, <2>5, <2>6 DEF DocsIInv, WithinBudget
<1>8. CASE SearchReturns
  <2>1. now' \in Nat /\ now' <= Budget /\ op.endpoint = "search"
    BY <1>8, <1>t, AttemptIsClipped DEF SearchReturns
  <2>2. CASE Return(Failure)
    BY <1>8, <2>1, <2>2, <1>f, ReturnKeeps DEF SearchReturns, DocsIInv, DocsTypeOK
  <2>3. ASSUME NEW w \in Windows, Return(Scoped(w))
        PROVE  DocsIInv'
    <3>3. Scoped(w) \in Answers /\ Scoped(w).kind # "page"
      BY DEF Scoped, Answers, Hits, SoftEmpty
    <3>4. UNCHANGED <<held, site, op, key, tries, moved>> /\ stage' = "done" /\ answer' = Scoped(w)
      BY <1>8, <2>3 DEF SearchReturns, Return
    <3>5. DocsTypeOK'
      BY <2>1, <3>3, <3>4, <1>t DEF DocsTypeOK
    <3>6. Ladder' /\ AbsenceIsReal' /\ RightPage'
      BY <2>1, <3>3, <3>4 DEF Ladder, AbsenceIsReal, RightPage
    <3> QED BY <2>1, <3>5, <3>6 DEF DocsIInv, WithinBudget
  <2> QED BY <1>8, <2>2, <2>3 DEF SearchReturns
<1>9. CASE Done \/ UNCHANGED docsVars
  BY <1>9, <1>t DEF Done, docsVars, DocsIInv, DocsTypeOK, Ladder, WithinBudget, AbsenceIsReal,
                    RightPage, Lookups
<1> QED BY <1>1, <1>2, <1>3, <1>4, <1>5, <1>6, <1>7, <1>8, <1>9 DEF DocsNext, Step

\* The inductive invariant holds in every reachable state.
THEOREM DocsInductive == DocsSpec => []DocsIInv
BY DocsInitIInv, DocsStepIInv, PTL DEF DocsSpec

\* No operation outlives its budget, whatever the timeouts and the number of
\* requests it takes (stellar-docs.ts:158-169).
THEOREM DocsWithinBudget == DocsSpec => []WithinBudget
<1>1. DocsIInv => WithinBudget
  BY DEF DocsIInv
<1> QED BY DocsInductive, <1>1, PTL

\* "No docs page exists" is said of pages the store does not have
\* (stellar-docs.ts:449-463).
THEOREM DocsAbsenceIsReal == DocsSpec => []AbsenceIsReal
<1>1. DocsIInv => AbsenceIsReal
  BY DEF DocsIInv
<1> QED BY DocsInductive, <1>1, PTL

\* A page that is returned is the page asked for, or the one it moved to.
THEOREM DocsRightPage == DocsSpec => []RightPage
<1>1. DocsIInv => RightPage
  BY DEF DocsIInv
<1> QED BY DocsInductive, <1>1, PTL

-----------------------------------------------------------------------------
(***************************************************************************)
(* The accounting of UsageCollector for any deliveries, traces, chunk size *)
(* and number of attempts.  Accounted says of each delivery where every    *)
(* statement it prepared is; the chunks it gave up are disjoint, so the    *)
(* count the code keeps is the size of their union.                        *)
(***************************************************************************)
\* A delivery prepares finitely many statements, each a row of its trace.
LEMMA PreparedFinite ==
  ASSUME NEW d \in Deliveries
  PROVE  IsFiniteSet(Prepared(d)) /\ Prepared(d) \subseteq TraceRows
<1> DEFINE S(t) == ResponseRows(t) \cup ReceiptRows(t, d)
           B == Batch[d]
           R == {S(t) : t \in B}
<1>1. B \subseteq Traces /\ IsFiniteSet(B)
  BY UsageAssumption, FS_Subset
<1>2. ASSUME NEW t \in B
      PROVE  IsFiniteSet(S(t)) /\ S(t) \subseteq TraceRows
  <2>1. t \in Traces /\ Responses[t] \in Nat
    BY <1>1, UsageAssumption
  <2>2. IsFiniteSet(ResponseRows(t))
    <3>1. CASE t \in Identified
      <4> DEFINE f == [i \in 1..Responses[t] |-> [kind |-> "response", trace |-> t, n |-> i]]
      <4>1. ResponseRows(t) = {[kind |-> "response", trace |-> t, n |-> i] : i \in 1..Responses[t]}
        BY <3>1 DEF ResponseRows
      <4>2. f \in Surjection(1..Responses[t], ResponseRows(t))
        BY <4>1 DEF Surjection
      <4>3. IsFiniteSet(1..Responses[t])
        BY <2>1, FS_Interval
      <4> HIDE DEF f
      <4> QED BY <4>2, <4>3, FS_Surjection
    <3>2. CASE t \notin Identified
      BY <3>2, FS_EmptySet DEF ResponseRows
    <3> QED BY <3>1, <3>2
  <2>3. IsFiniteSet(ReceiptRows(t, d))
    BY FS_EmptySet, FS_Singleton DEF ReceiptRows
  <2>4. IsFiniteSet(S(t))
    BY <2>2, <2>3, FS_Union
  <2>5. ResponseRows(t) \subseteq TraceRows
    BY <2>1 DEF ResponseRows, TraceRows
  <2>6. ReceiptRow(t, d) \in TraceRows
    BY <2>1 DEF ReceiptRow, TraceRows
  <2>7. ReceiptRows(t, d) \subseteq TraceRows
    BY <2>6 DEF ReceiptRows
  <2> QED BY <2>4, <2>5, <2>7
<1>3. IsFiniteSet(R)
  <2> DEFINE f == [t \in B |-> S(t)]
  <2>1. f \in Surjection(B, R)
    BY DEF Surjection
  <2> HIDE DEF f, R
  <2> QED BY <1>1, <2>1, FS_Surjection
<1>4. \A T \in R : IsFiniteSet(T) /\ T \subseteq TraceRows
  BY <1>2
<1>5. Prepared(d) = UNION R
  BY DEF Prepared
<1> HIDE DEF R
<1>6. IsFiniteSet(UNION R)
  BY <1>3, <1>4, FS_UNION
<1> QED BY <1>4, <1>5, <1>6

\* Failure receipts are gap rows and no trace rows.
LEMMA FailureIsGap ==
  ASSUME NEW d \in Deliveries
  PROVE  FailureRow(d) \in GapRows /\ FailureRow(d) \notin TraceRows
BY DEF FailureRow, GapRows, TraceRows

\* No row belongs to both tables' kinds.
LEMMA RowsDisjoint == TraceRows \cap GapRows = {}
BY DEF TraceRows, GapRows

\* Accounting of a delivery that a step leaves alone but for what is stored:
\* rows are only added, or removed by the retention.
LEMMA OthersAccounted ==
  ASSUME NEW d \in Deliveries, Accounted(d),
         phase'[d] = phase[d], left'[d] = left[d], chunk'[d] = chunk[d],
         failed'[d] = failed[d], lost'[d] = lost[d],
         \A r \in rows : r \in rows' \/ Expired(r)
  PROVE  Accounted(d)'
BY DEF Accounted, Expired, Prepared, ResponseRows, ReceiptRows, ReceiptRow, FailureRow, TraceRows

\* The initial states satisfy the invariant.
LEMMA UsageInitIInv == UsageInit => UsageIInv
<1> SUFFICES ASSUME UsageInit PROVE UsageIInv
  OBVIOUS
<1>1. UsageTypeOK
  BY DEF UsageInit, UsageTypeOK, Phases
<1>2. \A d \in Deliveries : Accounted(d)
  BY FS_EmptySet DEF UsageInit, Accounted
<1>3. GapIds
  BY DEF UsageInit, GapIds
<1> QED BY <1>1, <1>2, <1>3 DEF UsageIInv


\* Collect: everything the delivery prepared is still to be written.
LEMMA CollectAccounts ==
  ASSUME UsageIInv, NEW d \in Deliveries, Collect(d)
  PROVE  Accounted(d)'
<1>1. /\ phase'[d] = "writing" /\ left'[d] = Prepared(d) /\ chunk'[d] = {}
      /\ lost'[d] = {} /\ failed'[d] = 0 /\ rows' = rows
  BY DEF UsageIInv, UsageTypeOK, Collect, Accounted
<1>2. Prepared(d)' = Prepared(d)
  BY DEF Prepared, ResponseRows, ReceiptRows, ReceiptRow
<1> QED BY <1>1, <1>2, FS_EmptySet DEF Accounted

\* NextChunk: a slice moves from what is left to the transaction.
LEMMA NextChunkAccounts ==
  ASSUME UsageIInv, NEW d \in Deliveries, NextChunk(d)
  PROVE  Accounted(d)'
<1>1. PICK c \in SUBSET left[d] : chunk'[d] = c /\ left'[d] = left[d] \ c
  BY DEF UsageIInv, UsageTypeOK, NextChunk
<1>2. /\ phase'[d] = "writing" /\ phase[d] = "writing" /\ chunk[d] = {}
      /\ lost'[d] = lost[d] /\ failed'[d] = failed[d] /\ rows' = rows
  BY DEF NextChunk
<1>3. Prepared(d)' = Prepared(d) /\ Accounted(d)
  BY DEF Prepared, ResponseRows, ReceiptRows, ReceiptRow, UsageIInv
<1> QED BY <1>1, <1>2, <1>3 DEF Accounted, Expired

\* Committed: what was in the transaction is stored.
LEMMA CommittedAccounts ==
  ASSUME UsageIInv, NEW d \in Deliveries, Committed(d)
  PROVE  Accounted(d)'
<1>1. /\ phase[d] \in {"writing", "reporting"}
      /\ phase'[d] = IF phase[d] = "reporting" THEN "threw" ELSE phase[d]
      /\ chunk'[d] = {} /\ left'[d] = left[d] /\ lost'[d] = lost[d]
      /\ failed'[d] = failed[d] /\ rows' = rows \cup chunk[d]
  BY DEF UsageIInv, UsageTypeOK, Committed, EndChunk
<1>2. Prepared(d)' = Prepared(d) /\ Accounted(d)
  BY DEF Prepared, ResponseRows, ReceiptRows, ReceiptRow, UsageIInv
<1>3. CASE phase[d] = "writing"
  BY <1>1, <1>2, <1>3 DEF Accounted, Expired
<1>4. CASE phase[d] = "reporting"
  BY <1>1, <1>2, <1>4, FailureIsGap, PreparedFinite DEF Accounted, Expired
<1> QED BY <1>1, <1>3, <1>4

\* Sets that share nothing are counted apart.
LEMMA CountedApart ==
  ASSUME NEW S, NEW T, IsFiniteSet(S), IsFiniteSet(T), S \cap T = {}
  PROVE  Cardinality(S \cup T) = Cardinality(S) + Cardinality(T)
<1>1. Cardinality(S \cap T) = 0
  BY FS_EmptySet
<1>2. Cardinality(S) \in Nat /\ Cardinality(T) \in Nat
  BY FS_CardinalityType
<1>3. Cardinality(S \cup T) = Cardinality(S) + Cardinality(T) - Cardinality(S \cap T)
  BY FS_Union
<1> QED BY <1>1, <1>2, <1>3

\* AttemptFails: the transaction stays, or its statements become lost ones.
LEMMA AttemptFailsAccounts ==
  ASSUME UsageIInv, NEW d \in Deliveries, AttemptFails(d)
  PROVE  Accounted(d)'
<1>1. Prepared(d)' = Prepared(d) /\ Accounted(d)
  BY DEF Prepared, ResponseRows, ReceiptRows, ReceiptRow, UsageIInv
<1>2. phase[d] \in {"writing", "reporting"} /\ rows \subseteq rows'
  BY DEF AttemptFails
<1>3. CASE Retry(d)
  <2>1. UNCHANGED <<phase, left, chunk, failed, lost>>
    BY <1>3 DEF Retry
  <2> QED BY <1>1, <1>2, <2>1 DEF Accounted, Expired
<1>4. CASE GiveUp(d) /\ phase[d] = "writing"
  <2>1. /\ phase'[d] = "writing" /\ chunk'[d] = {} /\ left'[d] = left[d]
        /\ failed'[d] = failed[d] + Cardinality(chunk[d])
        /\ lost'[d] = lost[d] \cup chunk[d]
    BY <1>4 DEF UsageIInv, UsageTypeOK, GiveUp, EndChunk
  <2>2. /\ lost[d] \cup chunk[d] \subseteq Prepared(d)
        /\ lost[d] \cap chunk[d] = {} /\ left[d] \cap chunk[d] = {}
        /\ failed[d] = Cardinality(lost[d])
    BY <1>1, <1>4 DEF Accounted
  <2>3. IsFiniteSet(lost[d]) /\ IsFiniteSet(chunk[d])
    BY <2>2, PreparedFinite, FS_Subset
  <2>4. Cardinality(lost[d] \cup chunk[d]) = Cardinality(lost[d]) + Cardinality(chunk[d])
    BY <2>2, <2>3, CountedApart
  <2> QED BY <1>1, <1>2, <1>4, <2>1, <2>2, <2>4 DEF Accounted, Expired
<1>5. CASE GiveUp(d) /\ phase[d] = "reporting"
  <2>1. /\ phase'[d] = "threw" /\ chunk'[d] = {} /\ left'[d] = left[d]
        /\ failed'[d] = failed[d] /\ lost'[d] = lost[d]
    BY <1>5 DEF UsageIInv, UsageTypeOK, GiveUp, EndChunk
  <2> QED BY <1>1, <1>2, <1>5, <2>1, FailureIsGap, PreparedFinite DEF Accounted, Expired
<1> QED BY <1>2, <1>3, <1>4, <1>5 DEF AttemptFails

\* Finish: nothing is left, and the count decides how the delivery ends.
LEMMA FinishAccounts ==
  ASSUME UsageIInv, NEW d \in Deliveries, Finish(d)
  PROVE  Accounted(d)'
<1>1. Prepared(d)' = Prepared(d) /\ Accounted(d) /\ failed[d] \in Nat
  BY DEF Prepared, ResponseRows, ReceiptRows, ReceiptRow, UsageIInv, UsageTypeOK
<1>2. /\ phase[d] = "writing" /\ chunk[d] = {} /\ left[d] = {} /\ rows' = rows
      /\ left' = left /\ failed' = failed /\ lost' = lost
  BY DEF Finish
<1>3. CASE failed[d] = 0
  <2>1. phase'[d] = "done" /\ chunk' = chunk
    BY <1>3 DEF Finish, UsageIInv, UsageTypeOK
  <2> QED BY <1>1, <1>2, <1>3, <2>1 DEF Accounted, Expired
<1>4. CASE failed[d] # 0
  <2>1. phase'[d] = "reporting" /\ chunk'[d] = {FailureRow(d)}
    BY <1>4 DEF Finish, UsageIInv, UsageTypeOK
  <2>2. FailureRow(d)' = FailureRow(d)
    BY DEF FailureRow
  <2> QED BY <1>1, <1>2, <1>4, <2>1, <2>2 DEF Accounted, Expired
<1> QED BY <1>3, <1>4

\* Kill: what was in the transaction stays in it, stored or not.
LEMMA KillAccounts ==
  ASSUME UsageIInv, NEW d \in Deliveries, Kill(d)
  PROVE  Accounted(d)'
<1>1. Prepared(d)' = Prepared(d) /\ Accounted(d)
  BY DEF Prepared, ResponseRows, ReceiptRows, ReceiptRow, UsageIInv
<1>2. /\ phase[d] \in {"writing", "reporting"} /\ phase'[d] = "killed" /\ rows \subseteq rows'
      /\ UNCHANGED <<left, chunk, failed, lost>>
  BY DEF Kill, UsageIInv, UsageTypeOK
<1> QED BY <1>1, <1>2 DEF Accounted, Expired

\* Types and the ids of failure receipts, step by step.
LEMMA StepTyped == UsageIInv /\ [UsageNext]_usageVars => UsageTypeOK' /\ GapIds'
<1> SUFFICES ASSUME UsageIInv, [UsageNext]_usageVars PROVE UsageTypeOK' /\ GapIds'
  OBVIOUS
<1>t. UsageTypeOK /\ GapIds
  BY DEF UsageIInv
<1>1. ASSUME NEW d \in Deliveries, Collect(d)
      PROVE  UsageTypeOK' /\ GapIds'
  <2>1. Prepared(d) \in SUBSET TraceRows
    BY PreparedFinite
  <2>2. UsageTypeOK'
    BY <1>1, <1>t, <2>1 DEF Collect, UsageTypeOK, Phases
  <2> QED BY <1>1, <1>t, <2>2 DEF Collect, GapIds, FailureRow
<1>2. ASSUME NEW d \in Deliveries, NextChunk(d)
      PROVE  UsageTypeOK' /\ GapIds'
  <2>1. PICK c \in SUBSET left[d] :
          chunk' = [chunk EXCEPT ![d] = c] /\ left' = [left EXCEPT ![d] = @ \ c]
    BY <1>2 DEF NextChunk
  <2>2. c \in SUBSET TraceRows /\ left[d] \ c \in SUBSET TraceRows
    BY <2>1, <1>t DEF UsageTypeOK
  <2>3. UsageTypeOK'
    BY <1>2, <1>t, <2>1, <2>2 DEF NextChunk, UsageTypeOK
  <2>4. c \cap GapRows = {}
    BY <2>2, RowsDisjoint
  <2> QED BY <1>2, <1>t, <2>1, <2>3, <2>4 DEF NextChunk, GapIds, FailureRow, UsageTypeOK
<1>3. ASSUME NEW d \in Deliveries, Committed(d)
      PROVE  UsageTypeOK' /\ GapIds'
  <2>1. /\ rows' = rows \cup chunk[d] /\ chunk' = [chunk EXCEPT ![d] = {}]
        /\ phase' = [phase EXCEPT ![d] = IF @ = "reporting" THEN "threw" ELSE @]
        /\ UNCHANGED <<left, failures, failed, lost>>
    BY <1>3 DEF Committed, EndChunk
  <2>2. UsageTypeOK'
    BY <2>1, <1>t DEF UsageTypeOK, Phases
  <2> QED BY <2>1, <2>2, <1>t DEF GapIds, FailureRow, UsageTypeOK
<1>4. ASSUME NEW d \in Deliveries, AttemptFails(d)
      PROVE  UsageTypeOK' /\ GapIds'
  <2>1. rows' \subseteq rows \cup chunk[d] /\ chunk[d] \subseteq TraceRows \cup GapRows
    BY <1>4, <1>t DEF AttemptFails, UsageTypeOK
  <2>2. CASE Retry(d)
    <3>1. UsageTypeOK'
      BY <2>1, <2>2, <1>t DEF Retry, UsageTypeOK
    <3> QED BY <2>1, <2>2, <3>1, <1>t DEF Retry, GapIds, FailureRow
  <2>3. CASE GiveUp(d)
    <3>1. /\ chunk' = [chunk EXCEPT ![d] = {}]
          /\ phase' = [phase EXCEPT ![d] = IF @ = "reporting" THEN "threw" ELSE @]
          /\ UNCHANGED <<left, failures>>
      BY <2>3 DEF GiveUp, EndChunk
    <3>2. failed' \in [Deliveries -> Nat] /\ lost' \in [Deliveries -> SUBSET TraceRows]
      <4>1. CASE phase[d] = "writing"
        <5>1. chunk[d] \subseteq Prepared(d)
          BY <4>1 DEF UsageIInv, Accounted
        <5>2. chunk[d] \subseteq TraceRows /\ Cardinality(chunk[d]) \in Nat
          BY <5>1, PreparedFinite, FS_Subset, FS_CardinalityType
        <5> QED BY <2>3, <4>1, <5>2, <1>t DEF GiveUp, UsageTypeOK
      <4>2. CASE phase[d] # "writing"
        BY <2>3, <4>2, <1>t DEF GiveUp, UsageTypeOK
      <4> QED BY <4>1, <4>2
    <3>3. UsageTypeOK'
      BY <2>1, <3>1, <3>2, <1>t DEF UsageTypeOK, Phases
    <3> QED BY <2>1, <3>1, <3>3, <1>t DEF GapIds, FailureRow, UsageTypeOK
  <2> QED BY <1>4, <2>2, <2>3 DEF AttemptFails
<1>5. ASSUME NEW d \in Deliveries, Finish(d)
      PROVE  UsageTypeOK' /\ GapIds'
  <2>1. FailureRow(d) \in GapRows
    BY FailureIsGap
  <2>2. CASE failed[d] = 0
    <3>1. UsageTypeOK'
      BY <1>5, <2>2, <1>t DEF Finish, UsageTypeOK, Phases
    <3> QED BY <1>5, <2>2, <3>1, <1>t DEF Finish, GapIds, FailureRow
  <2>3. CASE failed[d] # 0
    <3>1. chunk' = [chunk EXCEPT ![d] = {FailureRow(d)}] /\ rows' = rows
      BY <1>5, <2>3 DEF Finish
    <3>2. UsageTypeOK'
      BY <1>5, <2>1, <2>3, <1>t DEF Finish, UsageTypeOK, Phases
    <3> QED BY <3>1, <3>2, <1>t DEF GapIds, FailureRow, UsageTypeOK
  <2> QED BY <2>2, <2>3
<1>6. ASSUME NEW d \in Deliveries, Kill(d)
      PROVE  UsageTypeOK' /\ GapIds'
  <2>1. rows' \subseteq rows \cup chunk[d] /\ chunk[d] \subseteq TraceRows \cup GapRows
    BY <1>6, <1>t DEF Kill, UsageTypeOK
  <2>2. UsageTypeOK'
    BY <1>6, <2>1, <1>t DEF Kill, UsageTypeOK, Phases
  <2> QED BY <1>6, <2>1, <2>2, <1>t DEF Kill, GapIds, FailureRow
<1>7. CASE Cleanup
  <2>1. rows' \subseteq rows
    BY <1>7 DEF Cleanup
  <2>2. UsageTypeOK'
    BY <1>7, <2>1, <1>t DEF Cleanup, UsageTypeOK
  <2> QED BY <1>7, <2>1, <2>2, <1>t DEF Cleanup, GapIds, FailureRow
<1>8. CASE UNCHANGED usageVars
  BY <1>8, <1>t DEF usageVars, UsageTypeOK, GapIds, FailureRow
<1> QED BY <1>1, <1>2, <1>3, <1>4, <1>5, <1>6, <1>7, <1>8 DEF UsageNext

\* Every step keeps every delivery accounted for.
LEMMA StepAccounts ==
  ASSUME UsageIInv, [UsageNext]_usageVars, NEW e \in Deliveries
  PROVE  Accounted(e)'
<1>a. Accounted(e)
  BY DEF UsageIInv
<1> DEFINE Same == /\ phase'[e] = phase[e] /\ left'[e] = left[e] /\ chunk'[e] = chunk[e]
                   /\ failed'[e] = failed[e] /\ lost'[e] = lost[e]
                   /\ \A r \in rows : r \in rows' \/ Expired(r)
<1>s. ASSUME Same PROVE Accounted(e)'
  BY <1>s, <1>a, OthersAccounted
<1>1. ASSUME NEW d \in Deliveries, d # e,
             \/ Collect(d) \/ NextChunk(d) \/ Committed(d) \/ AttemptFails(d)
             \/ Finish(d) \/ Kill(d)
      PROVE  Same
  <2>t. UsageTypeOK
    BY DEF UsageIInv
  <2>1. CASE Collect(d)
    BY <1>1, <2>1, <2>t DEF Collect, UsageTypeOK
  <2>2. CASE NextChunk(d)
    BY <1>1, <2>2, <2>t DEF NextChunk, UsageTypeOK
  <2>3. CASE Committed(d)
    BY <1>1, <2>3, <2>t DEF Committed, EndChunk, UsageTypeOK
  <2>4. CASE AttemptFails(d) /\ Retry(d)
    BY <1>1, <2>4, <2>t DEF AttemptFails, Retry, UsageTypeOK
  <2>5. CASE AttemptFails(d) /\ GiveUp(d)
    <3>1. rows \subseteq rows'
      BY <2>5 DEF AttemptFails
    <3>2. phase'[e] = phase[e] /\ left'[e] = left[e] /\ chunk'[e] = chunk[e]
      BY <1>1, <2>5, <2>t DEF GiveUp, EndChunk, UsageTypeOK
    <3>3. failed'[e] = failed[e] /\ lost'[e] = lost[e]
      BY <1>1, <2>5, <2>t DEF GiveUp, UsageTypeOK
    <3> QED BY <3>1, <3>2, <3>3
  <2>6. CASE Finish(d)
    <3>1. phase'[e] = phase[e] /\ chunk'[e] = chunk[e]
      BY <1>1, <2>6, <2>t DEF Finish, UsageTypeOK
    <3> QED BY <3>1, <2>6 DEF Finish
  <2>7. CASE Kill(d)
    BY <1>1, <2>7, <2>t DEF Kill, UsageTypeOK
  <2> QED BY <1>1, <2>1, <2>2, <2>3, <2>4, <2>5, <2>6, <2>7 DEF AttemptFails
<1>2. CASE Cleanup
  <2>1. Same
    BY <1>2 DEF Cleanup
  <2> QED BY <2>1, <1>s
<1>3. CASE UNCHANGED usageVars
  <2>1. Same
    BY <1>3 DEF usageVars
  <2> QED BY <2>1, <1>s
<1>4. ASSUME NEW d \in Deliveries,
             \/ Collect(d) \/ NextChunk(d) \/ Committed(d) \/ AttemptFails(d)
             \/ Finish(d) \/ Kill(d)
      PROVE  Accounted(e)'
  <2>1. CASE d = e
    BY <1>4, <2>1, CollectAccounts, NextChunkAccounts, CommittedAccounts,
       AttemptFailsAccounts, FinishAccounts, KillAccounts
  <2>2. CASE d # e
    <3> HIDE DEF Same
    <3> QED BY <1>4, <2>2, <1>1, <1>s
  <2> QED BY <2>1, <2>2
<1> QED BY <1>2, <1>3, <1>4 DEF UsageNext

\* Every step preserves the invariant.
LEMMA UsageStepIInv == UsageIInv /\ [UsageNext]_usageVars => UsageIInv'
BY StepTyped, StepAccounts DEF UsageIInv

\* The accounting holds in every reachable state.
THEOREM UsageInductive == UsageSpec => []UsageIInv
BY UsageInitIInv, UsageStepIInv, PTL DEF UsageSpec

\* A collection that ends without an error has stored all it prepared
\* (collector.ts:130-144).
THEOREM UsageNothingLost == UsageSpec => []NothingLostQuietly
<1>1. UsageIInv => NothingLostQuietly
  <2> SUFFICES ASSUME UsageIInv, NEW d \in Deliveries, phase[d] = "done"
               PROVE  Missing(d) = {}
    BY DEF NothingLostQuietly
  <2>1. Accounted(d)
    BY DEF UsageIInv
  <2>2. IsFiniteSet(lost[d]) /\ Cardinality(lost[d]) = 0
    BY <2>1, PreparedFinite, FS_Subset DEF Accounted
  <2>3. lost[d] = {}
    BY <2>2, FS_EmptySet
  <2> QED BY <2>1, <2>3 DEF Accounted, Missing
<1> QED BY UsageInductive, <1>1, PTL

\* A collection that throws counts no fewer statements than are missing
\* (collector.ts:129-134).
THEOREM UsageLossIsCounted == UsageSpec => []LossIsCounted
<1>1. UsageIInv => LossIsCounted
  <2> SUFFICES ASSUME UsageIInv, NEW d \in Deliveries, phase[d] = "threw"
               PROVE  failed[d] > 0 /\ Cardinality(Missing(d)) <= failed[d]
    BY DEF LossIsCounted
  <2>1. Accounted(d)
    BY DEF UsageIInv
  <2>2. IsFiniteSet(lost[d]) /\ failed[d] = Cardinality(lost[d])
    BY <2>1, PreparedFinite, FS_Subset DEF Accounted
  <2>3. Missing(d) \subseteq lost[d]
    BY <2>1 DEF Accounted, Missing
  <2>4. Cardinality(Missing(d)) <= Cardinality(lost[d])
    BY <2>2, <2>3, FS_Subset
  <2> QED BY <2>1, <2>2, <2>4 DEF Accounted
<1> QED BY UsageInductive, <1>1, PTL

\* Retries of a failure receipt do not add up (collector.ts:141-143).
THEOREM UsageGapsCountedOnce == UsageSpec => []GapsCountedOnce
<1>1. UsageIInv => GapsCountedOnce
  BY DEF UsageIInv, GapIds, GapsCountedOnce, FailureRow, GapRows
<1> QED BY UsageInductive, <1>1, PTL

-----------------------------------------------------------------------------
(***************************************************************************)
(* The accounting of EvalCost for any number of calls, any costs, any      *)
(* budget and any number of reads.  The reported cost lags the spent cost  *)
(* by the last call at most (Settled or OneOut), because a dispatch passes *)
(* its checks only when nothing is out and there was no error.             *)
(***************************************************************************)
\* The initial state satisfies the invariant.
LEMMA CostInitIInv == CostInit => CostIInv
<1> SUFFICES ASSUME CostInit PROVE CostIInv
  OBVIOUS
<1> USE CostAssumption DEF CostInit
<1>1. CostTypeOK
  <2>1. report \in [final : BOOLEAN, known : BOOLEAN, usd : Nat]
    BY DEF Unreported
  <2>2. taking \in [Settlers -> 0..MaxCalls] /\ reads \in [Settlers -> Nat]
    OBVIOUS
  <2>3. cost \in [Ids -> 0..MaxCost]
    OBVIOUS
  <2>4. calls \in 0..MaxCalls /\ pending \in 0..MaxCalls /\ seen \subseteq Ids
    OBVIOUS
  <2>5. error \in BOOLEAN
    OBVIOUS
  <2>6. reportedCalls \in Nat /\ reportedCost \in Nat /\ spent \in Nat /\ before \in Nat
    OBVIOUS
  <2> QED BY <2>1, <2>2, <2>3, <2>4, <2>5, <2>6, Zenon DEF CostTypeOK
<1>2. Flow
  BY DEF Flow, Settling, Out, Settlers
<1>3. SpendBounded
  BY DEF SpendBounded
<1>4. Settled
  BY DEF Settled, Out, Settlers
<1> QED BY <1>1, <1>2, <1>3, <1>4 DEF CostIInv

\* Every action but Charge keeps the types for reasons of arithmetic only.
LEMMA TypeKept == CostTypeOK /\ Flow /\ [CostNext]_costVars => CostTypeOK'
<1> SUFFICES ASSUME CostTypeOK, Flow, [CostNext]_costVars PROVE CostTypeOK'
  OBVIOUS
<1> USE CostAssumption DEF CostTypeOK, Settlers, Ids
<1>1. CASE BeginDispatch
  BY <1>1 DEF BeginDispatch, Take, bill
<1>2. CASE Refuse
  BY <1>2 DEF Refuse, state, bill
<1>3. CASE Send
  <2>1. calls' \in 0..MaxCalls
    BY <1>3 DEF Send, Flow
  <2>2. PICK c \in 0..MaxCost : cost' = [cost EXCEPT ![calls + 1] = c] /\ spent' = spent + c
    BY <1>3 DEF Send, Charge
  <2> QED BY <1>3, <2>1, <2>2 DEF Send, Charge
<1>4. CASE Respond
  <2>1. PICK id \in seen \cup {calls, 0} :
          IF id = 0 \/ id \in seen THEN error' = TRUE /\ UNCHANGED <<seen, pending>>
          ELSE seen' = seen \cup {id} /\ pending' = id /\ UNCHANGED error
    BY <1>4 DEF Respond
  <2>2. CASE id = 0 \/ id \in seen
    BY <1>4, <2>1, <2>2 DEF Respond, bill
  <2>3. CASE ~ (id = 0 \/ id \in seen)
    <3>1. id = calls /\ id \in Ids /\ seen' = seen \cup {id} /\ pending' = id
      BY <2>1, <2>3
    <3> QED BY <1>4, <2>1, <2>3, <3>1 DEF Respond, bill
  <2> QED BY <2>2, <2>3
<1>5. CASE InvokeFails
  BY <1>5 DEF InvokeFails, bill
<1>6. CASE BeginFinish
  BY <1>6 DEF BeginFinish, Take, bill
<1>7. CASE Report
  <2>1. report' \in [final : BOOLEAN, known : BOOLEAN, usd : Nat]
    BY <1>7 DEF Report, Null, Usd
  <2> QED BY <1>7, <2>1 DEF Report, state, bill
<1>8. ASSUME NEW s \in Settlers, ReadCost(s) PROVE CostTypeOK'
  <2>1. taking[s] \in Ids
    BY <1>8 DEF ReadCost, Flow
  <2>2. reportedCost' \in Nat
    BY <1>8, <2>1 DEF ReadCost
  <2> QED BY <1>8, <2>2, SMTT(30) DEF ReadCost, EndSettle, bill
<1>9. ASSUME NEW s \in Settlers, ReadNothing(s) PROVE CostTypeOK'
  <2>1. CASE reads[s] + 1 < Reads
    BY <1>9, <2>1, SMTT(30) DEF ReadNothing, bill
  <2>2. CASE ~ (reads[s] + 1 < Reads)
    <3>1. error' = TRUE /\ EndSettle(s)
      BY <1>9, <2>2 DEF ReadNothing
    <3> QED BY <1>9, <3>1 DEF ReadNothing, EndSettle, bill
  <2> QED BY <2>1, <2>2
<1>10. CASE UNCHANGED costVars
  BY <1>10 DEF costVars, state, flow, bill
<1> QED BY <1>1, <1>2, <1>3, <1>4, <1>5, <1>6, <1>7, <1>8, <1>9, <1>10 DEF CostNext

\* The log that is out is the last call's, and only one place holds it.
LEMMA FlowKept == CostTypeOK /\ Flow /\ [CostNext]_costVars => Flow'
<1> SUFFICES ASSUME CostTypeOK, Flow, [CostNext]_costVars PROVE Flow'
  OBVIOUS
<1> USE CostAssumption DEF CostTypeOK, Flow, Settlers, Ids, Settling, Out
<1>1. CASE BeginDispatch
  BY <1>1 DEF BeginDispatch, Take
<1>2. CASE Refuse
  BY <1>2 DEF Refuse, state
<1>3. CASE Send
  BY <1>3 DEF Send
<1>4. CASE Respond
  <2>1. PICK id \in seen \cup {calls, 0} :
          IF id = 0 \/ id \in seen THEN error' = TRUE /\ UNCHANGED <<seen, pending>>
          ELSE seen' = seen \cup {id} /\ pending' = id /\ UNCHANGED error
    BY <1>4 DEF Respond
  <2>2. CASE id = 0 \/ id \in seen
    BY <1>4, <2>1, <2>2 DEF Respond
  <2>3. CASE ~ (id = 0 \/ id \in seen)
    <3>1. id = calls /\ seen' = seen \cup {id} /\ pending' = id
      BY <2>1, <2>3
    <3> QED BY <1>4, <2>3, <3>1 DEF Respond
  <2> QED BY <2>2, <2>3
<1>5. CASE InvokeFails
  BY <1>5 DEF InvokeFails
<1>6. CASE BeginFinish
  BY <1>6 DEF BeginFinish, Take
<1>7. CASE Report
  BY <1>7 DEF Report, state
<1>8. ASSUME NEW s \in Settlers, ReadCost(s) PROVE Flow'
  BY <1>8 DEF ReadCost, EndSettle
<1>9. ASSUME NEW s \in Settlers, ReadNothing(s) PROVE Flow'
  BY <1>9 DEF ReadNothing, EndSettle
<1>10. CASE UNCHANGED costVars
  BY <1>10 DEF costVars, state, flow
<1> QED BY <1>1, <1>2, <1>3, <1>4, <1>5, <1>6, <1>7, <1>8, <1>9, <1>10 DEF CostNext

\* A call is sent when everything before it is settled, and then it is the one
\* that is out.
LEMMA SendAccounts == CostIInv /\ Send => SpendBounded' /\ OneOut'
<1> SUFFICES ASSUME CostIInv, Send PROVE SpendBounded' /\ OneOut'
  OBVIOUS
<1>1. Settled
  BY DEF CostIInv, Send, Flow, OneOut
<1>2. PICK c \in 0..MaxCost : cost' = [cost EXCEPT ![calls + 1] = c] /\ spent' = spent + c
  BY DEF Send, Charge
<1>3. cost'[calls'] = c
  BY <1>2, CostAssumption DEF Send, CostIInv, CostTypeOK, Flow, Ids
<1> QED BY <1>1, <1>2, <1>3, CostAssumption
        DEF CostIInv, CostTypeOK, Send, Charge, Settled, OneOut, SpendBounded, Out

\* A settled log brings the reported cost up to what was spent.
LEMMA ReadCostSettles ==
  ASSUME CostIInv, Flow', NEW s \in Settlers, ReadCost(s)
  PROVE  Settled'
<1>1. taking[s] = calls /\ taking[s] # 0 /\ OneOut
  BY DEF CostIInv, Flow, ReadCost, Settled, Out
<1>2. reportedCalls' = calls' /\ reportedCost' = spent'
  BY <1>1, CostAssumption DEF ReadCost, CostIInv, CostTypeOK, OneOut, bill, Ids
<1>3. pending = 0 /\ dispatch # "sent" /\ \A t \in Settlers : t # s => taking[t] = 0
  BY <1>1, CostAssumption DEF CostIInv, Flow, CostTypeOK, Settlers, Settling
<1>4. ~ Out'
  BY <1>3 DEF Out, ReadCost, EndSettle, CostIInv, CostTypeOK, Settlers, Settling
<1> QED BY <1>2, <1>4 DEF Settled

\* The invariant is inductive.
LEMMA CostNextIInv == CostIInv /\ [CostNext]_costVars => CostIInv'
<1> SUFFICES ASSUME CostIInv, [CostNext]_costVars PROVE CostIInv'
  OBVIOUS
<1>1. CostTypeOK' /\ Flow'
  BY TypeKept, FlowKept DEF CostIInv
<1> SUFFICES SpendBounded' /\ (Settled' \/ OneOut')
  BY <1>1 DEF CostIInv
<1> USE CostAssumption DEF CostIInv, CostTypeOK, Settlers, SpendBounded
<1>2. CASE BeginDispatch
  BY <1>2 DEF BeginDispatch, Take, bill, Flow, Settled, OneOut, Out, Settling
<1>3. CASE Refuse
  BY <1>3 DEF Refuse, state, bill, Settled, OneOut, Out
<1>4. CASE Send
  BY <1>4, SendAccounts
<1>5. CASE Respond
  <2>1. OneOut
    BY <1>5 DEF Respond, Settled, Out
  <2>2. PICK id \in seen \cup {calls, 0} :
          IF id = 0 \/ id \in seen THEN error' = TRUE /\ UNCHANGED <<seen, pending>>
          ELSE seen' = seen \cup {id} /\ pending' = id /\ UNCHANGED error
    BY <1>5 DEF Respond
  <2>3. Out' \/ error'
    BY <2>2 DEF Out
  <2> QED BY <1>5, <2>1, <2>3 DEF Respond, bill, OneOut
<1>6. CASE InvokeFails
  <2>1. OneOut
    BY <1>6 DEF InvokeFails, Settled, Out
  <2> QED BY <1>6, <2>1 DEF InvokeFails, bill, OneOut
<1>7. CASE BeginFinish
  BY <1>7 DEF BeginFinish, Take, bill, Flow, Settled, OneOut, Out, Settling
<1>8. CASE Report
  BY <1>8 DEF Report, state, bill, Settled, OneOut, Out
<1>9. ASSUME NEW s \in Settlers, ReadCost(s) PROVE SpendBounded' /\ (Settled' \/ OneOut')
  BY <1>9, <1>1, ReadCostSettles DEF ReadCost, bill
<1>10. ASSUME NEW s \in Settlers, ReadNothing(s) PROVE SpendBounded' /\ (Settled' \/ OneOut')
  <2>1. OneOut
    BY <1>10 DEF ReadNothing, Settled, Out, Flow
  <2>2. Out' \/ error'
    BY <1>10 DEF ReadNothing, Out, Flow
  <2> QED BY <1>10, <2>1, <2>2 DEF ReadNothing, bill, OneOut
<1>11. CASE UNCHANGED costVars
  BY <1>11 DEF costVars, state, flow, bill, Settled, OneOut, Out
<1> QED BY <1>2, <1>3, <1>4, <1>5, <1>6, <1>7, <1>8, <1>9, <1>10, <1>11 DEF CostNext

\* In every reachable state at most the last call of the turn is unaccounted
\* for: settle, dispatch and finish (eval-cost.ts:57-100, 177-183) never lose
\* track of another one.
THEOREM CostInductive == CostSpec => []CostIInv
<1>1. CostInit => CostIInv
  BY CostInitIInv
<1>2. CostIInv /\ [CostNext]_costVars => CostIInv'
  BY CostNextIInv
<1> QED BY <1>1, <1>2, PTL DEF CostSpec

\* Dispatch sends a call only below the budget (eval-cost.ts:85-89): what the
\* turn spent before its last call is less than what was authorized.
THEOREM CostSpendBounded == CostSpec => []SpendBounded
<1>1. CostIInv => SpendBounded
  BY DEF CostIInv
<1> QED BY <1>1, CostInductive, PTL

\* finish() reports what the calls really cost, or null (eval-cost.ts:180).
THEOREM CostReportIsExact == CostSpec => ReportIsExact
<1>1. CostIInv /\ [CostNext]_costVars => [Report /\ report'.known => report'.usd = spent]_costVars
  <2> SUFFICES ASSUME CostIInv, Report, report'.known PROVE report'.usd = spent
    OBVIOUS
  <2>1. reportedCalls = calls /\ report' = Usd(reportedCost)
    BY DEF Report, Null
  <2>2. reportedCost = spent
    BY <2>1 DEF CostIInv, CostTypeOK, Settled, OneOut
  <2> QED BY <2>1, <2>2 DEF Usd
<1> QED BY <1>1, CostInductive, PTL DEF CostSpec, ReportIsExact
=============================================================================
