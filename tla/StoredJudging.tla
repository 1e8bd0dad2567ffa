---------------------------- MODULE StoredJudging ----------------------------
(***************************************************************************)
(* A paid method of the QA harness from its first call to its summary: the *)
(* collection of GuardedCollection and then judgeStoredResults of          *)
(* eval/qa/run-qa.mjs, which judges the rows of the saved file in place.   *)
(* A judging process may die at any time and be started again by the       *)
(* operator, with another judge or another panel size; the file is all     *)
(* that is left of it.  Each attempt at a row is one vote, or three where  *)
(* the first lies on a boundary and the cap on panels allows it, or the    *)
(* panel the operator asks for (eval/qa/judge.mjs).                        *)
(***************************************************************************)
EXTENDS GuardedCollection

CONSTANTS
  Models,       \* the judges an operator may ask for
  Panels,       \* the panel sizes an operator may ask for
  MaxPanels,    \* the cap on boundary panels
  MaxCrashes    \* bound: judging processes that die or throw

ASSUME JudgingAssumption ==
  /\ Panels \subseteq {1, 2, 3} /\ MaxPanels \in Nat /\ MaxCrashes \in Nat

VARIABLES
  disk,      \* the saved file
  mem,       \* the judging process's copy of it
  jpc,       \* where the judging process is
  todo,      \* the rows it still has to judge
  calls,     \* votes of the attempt it makes
  votes,     \* votes that this attempt takes
  kind,      \* the verdict of the votes so far
  boundary,  \* the attempt is a boundary panel
  used,      \* panelBudget.boundaryPanelCases
  lost,      \* history: spend that died with a process
  convened,  \* history: boundary panels whose attempt was saved
  crashes    \* history: judging processes that have died or thrown

process == <<mem, todo, calls, votes, kind, boundary, used>>
judgeVars == <<disk, jpc, process, lost, convened, crashes>>
vars == <<collectVars, judgeVars>>

\* The kinds of a vote: a grade, one on the boundary, a failure of the judge
\* that may be repeated ("cli", "parse"), and one that may not.
Votes == {"graded", "boundary", "retryable", "terminal"}
Verdicts == Votes \cup {"agent-error"}
Unjudged == "unjudged"

File == [verdict: [Rows -> Verdicts \cup {Unjudged}], attempts: [Rows -> 0..2],
         panelled: SUBSET Rows, model: Models \cup {Unjudged}, panel: 0..3,
         summary: BOOLEAN, ledger: [spent: Nat, missing: BOOLEAN]]

NewFile == [verdict |-> [r \in Rows |-> Unjudged], attempts |-> [r \in Rows |-> 0],
            panelled |-> {}, model |-> Unjudged, panel |-> 0, summary |-> FALSE,
            ledger |-> NewLedger]

Init ==
  /\ CollectInit
  /\ disk = NewFile /\ mem = NewFile
  /\ jpc = "idle" /\ todo = {} /\ calls = 0 /\ votes = 1 /\ kind = "terminal"
  /\ boundary = FALSE /\ used = 0
  /\ lost = 0 /\ convened = 0 /\ crashes = 0

-----------------------------------------------------------------------------
\* The collection, whose ledger goes into the file it writes.
Collect ==
  /\ CollectNext
  /\ disk' = IF cpc = "write" /\ cpc' = "done" THEN [disk EXCEPT !.ledger = ledger] ELSE disk
  /\ UNCHANGED <<jpc, process, lost, convened, crashes>>

OnlyJudge == UNCHANGED <<cpc, runner, verdicts, outcomes, environment, stale>>

Answered(r) == outcomes[r] = "answer"

\* Mutant: a row without an answer is not pending, as it needs no judge.
PendingAnswered(f) ==
  {r \in Rows : /\ Answered(r)
                /\ f.attempts[r] = 0 \/ (f.attempts[r] = 1 /\ f.verdict[r] = "retryable")}

Pending(f) ==
  {r \in Rows : IF ~ Answered(r) THEN f.verdict[r] = Unjudged
                ELSE f.attempts[r] = 0 \/ (f.attempts[r] = 1 /\ f.verdict[r] = "retryable")}

Complete(f) == \A r \in Rows : f.verdict[r] # Unjudged

\* writeState({withSummary: true}): temporary file and rename.
Summarised(f) == [f EXCEPT !.summary = Complete(f)]

\* A judging process reads the file.  It refuses one that is not comparable, or
\* that holds verdicts of another judge or panel, or a call of unknown cost.
Admits(f, m, p) ==
  /\ artifact = "comparable"
  /\ Resumable(f.ledger)
  /\ f.model \in {Unjudged, m}
  /\ (\E r \in Rows : f.verdict[r] # Unjudged) => f.panel = p

\* panelCaseCounts: the boundary panels that the file knows of.
KnownPanels(f) == Cardinality(f.panelled)

Start(m, p) ==
  /\ jpc = "idle" /\ Admits(disk, m, p)
  /\ LET f == [disk EXCEPT !.model = m, !.panel = p] IN
       IF Pending(disk) = {}
         THEN /\ ~ disk.summary
              /\ disk' = Summarised(f)
              /\ UNCHANGED <<jpc, process>>
         ELSE /\ disk' = f /\ mem' = f
              /\ todo' = Pending(disk)
              /\ used' = KnownPanels(disk)
              /\ jpc' = "row"
              /\ UNCHANGED <<calls, votes, kind, boundary>>
  /\ UNCHANGED <<collectVars, lost, convened, crashes>>

\* The process ends; what it keeps in memory is of no use any more.
EndProcess ==
  /\ jpc' = "idle"
  /\ mem' = NewFile /\ todo' = {} /\ calls' = 0 /\ votes' = 1 /\ kind' = "terminal"
  /\ boundary' = FALSE /\ used' = 0

Current == CHOOSE r \in todo : \A q \in todo : r <= q

\* The next row: one without an answer gets its verdict for nothing, and is not
\* written before the next row that is judged, or the end.
TakeRow ==
  /\ jpc = "row" /\ todo # {}
  /\ IF Answered(Current)
       THEN /\ jpc' = "vote" /\ calls' = 0 /\ votes' = 1 /\ boundary' = FALSE
            /\ UNCHANGED <<mem, todo, kind>>
       ELSE /\ mem' = [mem EXCEPT !.verdict[Current] = "agent-error"]
            /\ todo' = todo \ {Current}
            /\ UNCHANGED <<jpc, calls, votes, kind, boundary>>
  /\ UNCHANGED <<collectVars, disk, used, lost, convened, crashes>>

\* Mutant: the retry's verdict replaces that of the first attempt.
AttemptedAnew(f, v) ==
  [f EXCEPT !.attempts[Current] = @ + 1, !.verdict[Current] = v]

\* The attempt is over: the row's verdict is that of its first.
Attempted(f, v) ==
  [f EXCEPT !.attempts[Current] = @ + 1,
            !.verdict[Current] = IF @ = Unjudged THEN v ELSE @,
            !.panelled = IF boundary /\ f.verdict[Current] = Unjudged THEN @ \cup {Current} ELSE @]

\* An attempt that an error ends is recorded as an error that is not repeated.
Broken(f) == [Attempted(f, "terminal") EXCEPT !.panelled = f.panelled]

\* The loop ends before a vote; an attempt that has begun is recorded.
Abandon ==
  /\ jpc = "vote"
  /\ disk' = Summarised(IF calls = 0 THEN mem ELSE Broken(mem))
  /\ EndProcess
  /\ UNCHANGED <<collectVars, lost, convened>>

\* BudgetExhaustedError.
Exhausted == ~ CanAuthorize(mem.ledger, Cap) /\ Abandon /\ UNCHANGED crashes

\* An error of the judge itself, which reports its failures as verdicts.
JudgeThrows ==
  /\ CanAuthorize(mem.ledger, Cap) /\ Abandon
  /\ crashes < MaxCrashes /\ crashes' = crashes + 1

\* selectJudgeTier: how many votes the attempt takes after its first.
Escalates(v) == v = "boundary" /\ mem.panel = 1 /\ used < MaxPanels

\* judgeCasePanel: error votes abstain when there is a grade.
Combined(first, v) == IF v \in {"graded", "boundary"} THEN "graded" ELSE first

\* One vote is paid for and recorded.
Vote ==
  /\ jpc = "vote" /\ CanAuthorize(mem.ledger, Cap)
  /\ \E cost \in Costs, v \in Votes :
       /\ ~ Faulty(mem.ledger, Cap, cost)
       /\ paid' = paid + cost
       /\ mem' = [mem EXCEPT !.ledger = Record(@, cost)]
       /\ calls' = calls + 1
       /\ IF calls = 0
            THEN /\ kind' = v
                 /\ boundary' = Escalates(v)
                 /\ used' = IF Escalates(v) THEN used + 1 ELSE used
                 /\ votes' = IF Escalates(v) THEN 3 ELSE mem.panel
            ELSE /\ kind' = Combined(kind, v)
                 /\ UNCHANGED <<boundary, used, votes>>
       /\ jpc' = IF calls' < votes' THEN "vote" ELSE "attempted"
  /\ OnlyJudge
  /\ UNCHANGED <<ledger, disk, todo, lost, convened, crashes>>

\* The cost of a vote is missing or too high: the attempt is recorded as an
\* error, the file is written and the process ends.
FaultyVote ==
  /\ jpc = "vote" /\ CanAuthorize(mem.ledger, Cap)
  /\ \E cost \in Costs \cup {NoCost} :
       /\ Faulty(mem.ledger, Cap, cost)
       /\ paid' = IF cost = NoCost THEN paid ELSE paid + cost
       /\ disk' = Summarised([Broken(mem) EXCEPT !.ledger = Record(@, cost)])
  /\ EndProcess
  /\ OnlyJudge
  /\ UNCHANGED <<ledger, lost, convened, crashes>>

\* onAttempt: the attempt is in the file before it is repeated or the row ends.
SaveAttempt ==
  /\ jpc = "attempted"
  /\ mem' = Attempted(mem, kind)
  /\ disk' = mem'
  /\ IF mem'.attempts[Current] = 1 /\ kind = "retryable"
       THEN jpc' = "vote" /\ calls' = 0 /\ votes' = 1 /\ boundary' = FALSE
       ELSE jpc' = "judged" /\ UNCHANGED <<calls, votes, boundary>>
  /\ convened' = IF boundary THEN convened + 1 ELSE convened
  /\ UNCHANGED <<collectVars, todo, kind, used, lost, crashes>>

\* The row is done, and the file is written once more.
SaveRow ==
  /\ jpc = "judged"
  /\ mem' = Summarised(mem) /\ disk' = mem'
  /\ todo' = todo \ {Current}
  /\ jpc' = "row"
  /\ UNCHANGED <<collectVars, calls, votes, kind, boundary, used, lost, convened, crashes>>

Finish ==
  /\ jpc = "row" /\ todo = {}
  /\ disk' = Summarised(mem)
  /\ EndProcess
  /\ UNCHANGED <<collectVars, lost, convened, crashes>>

\* The process dies; what it spent and had not written is not in the file.
Crash ==
  /\ jpc # "idle" /\ crashes < MaxCrashes
  /\ crashes' = crashes + 1
  /\ lost' = lost + (mem.ledger.spent - disk.ledger.spent)
  /\ EndProcess
  /\ UNCHANGED <<collectVars, disk, convened>>

JudgeStep == TakeRow \/ Exhausted \/ Vote \/ FaultyVote \/ SaveAttempt \/ SaveRow \/ Finish

Next ==
  \/ Collect \/ JudgeStep \/ JudgeThrows \/ Crash
  \/ \E m \in Models, p \in Panels : Start(m, p)

Spec == Init /\ [][Next]_vars

\* A process that has something to do does it, and the operator starts another
\* one as long as the file is not finished.
FairSpec ==
  /\ Spec
  /\ WF_vars(Collect /\ CollectStep) /\ WF_vars(JudgeStep)
  /\ WF_vars(\E m \in Models, p \in Panels : Start(m, p))

-----------------------------------------------------------------------------
TypeOK ==
  /\ CollectTypeOK
  /\ disk \in File /\ mem \in File
  /\ jpc \in {"idle", "row", "vote", "attempted", "judged"}
  /\ todo \subseteq Rows
  /\ calls \in 0..3 /\ votes \in 1..3
  /\ kind \in Votes /\ boundary \in BOOLEAN
  /\ used \in Nat /\ lost \in Nat /\ convened \in Nat /\ crashes \in 0..MaxCrashes

\* What was really spent is within the cap, but for one call whose cost is known
\* too late, and for one attempt per process that died before it could save it.
SpendWithinCap == paid < Cap + MaxCost + crashes * 3 * MaxCost

\* Why: the ledger at hand holds all that was spent but for what died with a
\* process, and the file is behind it by the votes of one attempt at most.
Money ==
  /\ cpc # "done" => jpc = "idle" /\ lost = 0 /\ paid = ledger.spent
  /\ jpc # "idle" => artifact = "comparable"
  /\ cpc = "done" => paid = lost + (IF jpc = "idle" THEN disk ELSE mem).ledger.spent
  /\ cpc \in {"before", "call", "calling"} => CanAuthorize(ledger, Cap)
  /\ ledger.spent < Cap + MaxCost
  /\ disk.ledger.spent < Cap + MaxCost /\ mem.ledger.spent < Cap + MaxCost
  /\ jpc # "idle" => disk.ledger.spent <= mem.ledger.spent
  /\ jpc \in {"vote", "attempted"} => mem.ledger.spent <= disk.ledger.spent + calls * MaxCost
  /\ jpc \in {"row", "judged"} => mem.ledger.spent = disk.ledger.spent
  /\ lost <= crashes * 3 * MaxCost

\* No more boundary panels are convened than the cap allows.
PanelsWithinCap == convened <= MaxPanels

Book == INSTANCE VerdictBook WITH book <- disk.verdict, summary <- disk.summary

\* Verdicts that were paid for and saved are never lost or replaced, and a
\* summary stands for all of them.
ImplementsVerdictBook == Book!Spec

\* Why: the process's copy is the file with some more verdicts, and a row
\* without an answer is still unjudged when its turn comes.
Copy ==
  /\ disk.summary => Complete(disk)
  /\ mem.summary => Complete(mem)
  /\ jpc # "idle" =>
       /\ \A r \in Rows : disk.verdict[r] # Unjudged => mem.verdict[r] = disk.verdict[r]
       /\ disk.summary => mem.summary
  /\ jpc = "idle" => todo = {}
  /\ jpc \in {"vote", "attempted", "judged"} => todo # {} /\ Answered(Current)
  /\ jpc = "vote" => calls < votes
  /\ jpc # "idle" => mem.panel \in 1..3
  /\ \A r \in todo : ~ Answered(r) => mem.verdict[r] = Unjudged
  /\ jpc # "judged" => \A r \in todo : Answered(r) => mem.attempts[r] <= 1
  /\ jpc = "judged" => \A r \in todo \ {Current} : Answered(r) => mem.attempts[r] <= 1

IInv == TypeOK /\ Frozen /\ Money /\ Copy

\* Whatever dies on the way, the file gets its summary, unless the collection
\* was not comparable, the money is used up, or the cost of a vote is unknown.
Finishes ==
  <>(\/ cpc = "crashed" \/ artifact = "incomparable"
     \/ disk.summary
     \/ ~ Resumable(disk.ledger) \/ ~ CanAuthorize(disk.ledger, Cap))
=============================================================================
