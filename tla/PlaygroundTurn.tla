--------------------------- MODULE PlaygroundTurn ---------------------------
(***************************************************************************)
(* One chat turn of the Playground: the request handler that owns the      *)
(* event stream (src/demo/chat.ts), the model attempts it falls back       *)
(* through, the search and execute tools with the budget all attempts      *)
(* share (src/demo/tools.ts, budget.ts), and the advice the server adds    *)
(* before each model step (prepareDemoStep in src/demo/steps.ts).          *)
(*                                                                         *)
(* The model provider and the AI SDK are the environment: they decide      *)
(* which stream part comes next, start several tool calls in one step, and *)
(* may fail, stop or be aborted at any point.  Execute calls run           *)
(* concurrently and complete in any order, some of them after the turn.    *)
(***************************************************************************)
EXTENDS Naturals, Sequences, FiniteSets, SequencesExt

CONSTANTS
  NumModels,    \* the models to try, in order
  MaxSteps,     \* DEMO_CAPS.maxSteps
  MaxSearches,  \* DEMO_CAPS.maxSearchCallsPerTurn
  MaxExecutes,  \* DEMO_CAPS.maxExecuteCallsPerTurn
  Searches,     \* the search calls the models may make
  Executes,     \* the execute calls the models may make
  Outcomes,     \* what an execute run may come back with
  NoCall        \* an absent pending hint

Evidences == {"service-data", "service-inconclusive", "skill-content",
              "artifact-data", "none"}

(* ops: no service operation was called, none succeeded, or one did.       *)
ExecuteOutcome ==
  [ok: BOOLEAN, truncated: BOOLEAN, evidence: Evidences,
   ops: {"none", "bad", "good"}, hint: BOOLEAN]

ASSUME ConstantsAssumption ==
  /\ NumModels \in Nat \ {0} /\ MaxSteps \in Nat \ {0}
  /\ MaxSearches \in Nat /\ MaxExecutes \in Nat
  /\ IsFiniteSet(Searches) /\ IsFiniteSet(Executes)
  /\ Searches \cap Executes = {}
  /\ NoCall \notin Executes
  /\ Outcomes \subseteq ExecuteOutcome
  /\ \A o \in Outcomes :
       /\ o.hint => o.ok /\ o.ops = "good"
       /\ o.evidence = "service-inconclusive" => o.ops # "none"

VARIABLES
  turn,         \* where the handler is: attempt, closing, settling, closed
  model,        \* the current attempt
  useful,       \* emittedUsefulOutput of the current attempt
  stream,       \* the SDK's part stream: between steps, in a step, ended
  step,         \* steps the current attempt has started
  stepCalled,   \* the current step has made a tool call
  call,         \* where each tool call is
  results,      \* the tool results of the attempt's steps, oldest first
  budget,       \* DemoToolBudget, shared by all attempts
  shown,        \* the executes whose result showed an evidence checkpoint
  lastRun,      \* the execute that has completed last (history)
  note,         \* the recovery note of the latest step
  speaker,      \* the model whose output the browser got last, 0 if none
  emittedTerminal,  \* the handler's first-terminal-wins latch
  sent,         \* the terminal frames put into the stream
  gone,         \* the browser has cancelled the stream
  expired       \* the whole-turn timeout has fired

frames  == <<speaker, emittedTerminal, sent>>
signals == <<gone, expired>>
tooling == <<call, results, budget, shown, lastRun>>
steps   == <<stream, step, stepCalled, note>>
vars    == <<turn, model, useful, steps, tooling, frames, signals>>

Calls   == Searches \cup Executes
Open    == ~gone /\ turn # "closed"
Aborted == gone \/ expired
IsLast  == model = NumModels
Running == {c \in Executes : call[c] = "running"}

Init ==
  /\ turn = "attempt"
  /\ model = 1
  /\ useful = FALSE
  /\ stream = "boundary"
  /\ step = 0
  /\ stepCalled = FALSE
  /\ call = [c \in Calls |-> "idle"]
  /\ results = <<>>
  /\ budget = [searches |-> 0, executes |-> 0, delivered |-> FALSE,
               pending |-> NoCall, evidence |-> "unknown", ops |-> "none"]
  /\ shown = {}
  /\ lastRun = NoCall
  /\ note = [reason |-> "none", about |-> NoCall]
  /\ speaker = 0
  /\ emittedTerminal = FALSE
  /\ sent = <<>>
  /\ gone = FALSE
  /\ expired = FALSE
-----------------------------------------------------------------------------
(* Frames.                                                                 *)

(* A frame that counts as output: a token, or the trace of a tool call.    *)
EmitOutput ==
  /\ useful' = TRUE
  /\ speaker' = IF Open THEN model ELSE speaker

(* emit for a done or error frame: the first terminal frame wins.          *)
EmitTerminal(frame) ==
  IF Open /\ ~emittedTerminal
  THEN emittedTerminal' = TRUE /\ sent' = Append(sent, frame)
  ELSE UNCHANGED <<emittedTerminal, sent>>

(* fallbackToNextModel and the next round of the loop over demoModels.     *)
Fallback ==
  /\ model' = model + 1
  /\ useful' = FALSE
  /\ stream' = "boundary"
  /\ step' = 0
  /\ stepCalled' = FALSE
  /\ results' = <<>>
  /\ note' = [reason |-> "none", about |-> NoCall]
  /\ UNCHANGED <<turn, call, budget, shown, lastRun, frames>>

(* The attempt's catch: an error that output or an abort has made final,   *)
(* or that has no model left to fall back to, ends the turn.               *)
Throw ==
  IF useful \/ IsLast \/ Aborted
  THEN /\ EmitTerminal("error")
       /\ turn' = "closing"
       /\ UNCHANGED <<model, useful, steps, tooling, speaker>>
  ELSE Fallback
-----------------------------------------------------------------------------
(* The advice before a step: prepareDemoStep.                              *)

(* How prepareDemoStep classifies the text of an execute result.           *)
Signal(o) ==
  CASE ~o.ok                                             -> "failed"
    [] o.ok /\ o.truncated                               -> "truncated"
    [] o.ok /\ ~o.truncated
         /\ o.evidence \in {"none", "service-inconclusive"} -> "poor"
    [] OTHER                                             -> "grounded"

ExecuteResults == {i \in DOMAIN results : results[i].kind # "search"}
LatestKind     == results[Max(ExecuteResults)].kind

EvidenceState ==
  CASE results = <<>>              -> "none"
    [] results # <<>>
         /\ ExecuteResults = {}    -> "navigation-only"
    [] OTHER -> IF LatestKind = "grounded" THEN "grounded" ELSE "needs-recovery"

SomeFailed == \E i \in DOMAIN results : results[i].kind = "failed"

NoHostEvidence == budget.evidence = "none"
NoRowsEvidence == budget.evidence = "service-inconclusive" /\ budget.ops = "good"
HintPending    == budget.pending # NoCall
IsFinalStep    == step = MaxSteps - 1

NoteNeeded ==
  \/ NoHostEvidence
  \/ NoRowsEvidence
  \/ HintPending
  \/ budget.ops = "bad"
  \/ EvidenceState \in {"navigation-only", "needs-recovery"}

NoteReason ==
  IF IsFinalStep THEN "final"
  ELSE IF ~NoteNeeded THEN "none"
  ELSE IF NoHostEvidence THEN "no-evidence"
  ELSE IF NoRowsEvidence THEN "no-rows"
  ELSE IF HintPending THEN "hint"
  ELSE IF budget.ops = "bad" THEN "operations"
  ELSE IF EvidenceState = "navigation-only" THEN "navigation"
  ELSE IF SomeFailed THEN "failed"
  ELSE "truncated"

UsesHint == ~IsFinalStep /\ ~NoHostEvidence /\ HintPending

(* The SDK asks for the next step's settings and calls the model.          *)
BeginStep ==
  /\ turn = "attempt"
  /\ stream = "boundary"
  /\ stream' = "step"
  /\ step' = step + 1
  /\ stepCalled' = FALSE
  /\ note' = [reason |-> NoteReason, about |-> budget.pending]
  /\ budget' = IF UsesHint
               THEN [budget EXCEPT !.delivered = TRUE, !.pending = NoCall]
               ELSE budget
  /\ UNCHANGED <<turn, model, useful, call, results, shown, lastRun, frames, signals>>
-----------------------------------------------------------------------------
(* The tools.                                                              *)

Streaming == turn = "attempt" /\ stream = "step"

(* Tools are withdrawn from the last step (activeTools: []).               *)
CanCall(c) ==
  /\ Streaming
  /\ step < MaxSteps
  /\ call[c] = "idle"

(* The search tool: it never awaits, so cap, count and result are one step.*)
SearchCall(c) ==
  /\ CanCall(c)
  /\ EmitOutput
  /\ stepCalled' = TRUE
  /\ results' = Append(results, [call |-> c, kind |-> "search"])
  /\ IF budget.searches >= MaxSearches
     THEN /\ call' = [call EXCEPT ![c] = "refused"]
          /\ UNCHANGED budget
     ELSE /\ call' = [call EXCEPT ![c] = "ran"]
          /\ budget' = [budget EXCEPT !.searches = @ + 1]
  /\ UNCHANGED <<turn, model, stream, step, note, shown, lastRun, emittedTerminal, sent,
                 signals>>

(* The execute tool up to its await: a refusal is its result.  A script    *)
(* that is too long or fails the preflight is refused as well.             *)
RefuseExecute(c) ==
  /\ CanCall(c)
  /\ EmitOutput
  /\ stepCalled' = TRUE
  /\ call' = [call EXCEPT ![c] = "refused"]
  /\ results' = Append(results, [call |-> c, kind |-> "failed"])
  /\ UNCHANGED <<turn, model, stream, step, note, budget, shown, lastRun, emittedTerminal,
                 sent, signals>>

(* Mutant: the cap is tested with > instead of >=.                         *)
StartExecuteOffByOne(c) ==
  /\ CanCall(c)
  /\ budget.executes <= MaxExecutes
  /\ EmitOutput
  /\ stepCalled' = TRUE
  /\ call' = [call EXCEPT ![c] = "running"]
  /\ budget' = [budget EXCEPT !.executes = @ + 1]
  /\ UNCHANGED <<turn, model, stream, step, note, results, shown, lastRun, emittedTerminal,
                 sent, signals>>

StartExecute(c) ==
  /\ CanCall(c)
  /\ budget.executes < MaxExecutes
  /\ EmitOutput
  /\ stepCalled' = TRUE
  /\ call' = [call EXCEPT ![c] = "running"]
  /\ budget' = [budget EXCEPT !.executes = @ + 1]
  /\ UNCHANGED <<turn, model, stream, step, note, results, shown, lastRun, emittedTerminal,
                 sent, signals>>

(* Mutant: an execute without a hint leaves an earlier hint pending.       *)
LatchKeepsStale(c, o) ==
  [budget EXCEPT
     !.evidence  = o.evidence,
     !.ops       = o.ops,
     !.delivered = budget.delivered \/ o.hint,
     !.pending   = IF o.hint /\ ~budget.delivered THEN c ELSE budget.pending]

(* Mutant: an execute without service operations leaves the evidence kind. *)
LatchSkipsPoor(c, o) ==
  [budget EXCEPT
     !.evidence  = IF o.ops = "none" THEN budget.evidence ELSE o.evidence,
     !.ops       = o.ops,
     !.delivered = budget.delivered \/ (o.hint /\ budget.pending = NoCall),
     !.pending   = IF o.hint /\ ~budget.delivered /\ budget.pending = NoCall
                   THEN c ELSE NoCall]

(* The hint latch: the first hint of the turn becomes pending and uses up  *)
(* the turn's one cycle; whatever completes later clears a pending hint.   *)
Latch(c, o) ==
  [budget EXCEPT
     !.evidence  = o.evidence,
     !.ops       = o.ops,
     !.delivered = budget.delivered \/ (o.hint /\ budget.pending = NoCall),
     !.pending   = IF o.hint /\ ~budget.delivered /\ budget.pending = NoCall
                   THEN c ELSE NoCall]

(* Mutant: a hint shows its checkpoint whether or not the latch is taken.  *)
FinishExecuteUnlatched(c) ==
  /\ call[c] = "running"
  /\ \E o \in Outcomes :
       /\ budget' = Latch(c, o)
       /\ shown' = IF o.hint THEN shown \cup {c} ELSE shown
       /\ results' = Append(results, [call |-> c, kind |-> Signal(o)])
  /\ call' = [call EXCEPT ![c] = "ran"]
  /\ lastRun' = c
  /\ UNCHANGED <<turn, model, useful, steps, frames, signals>>

(* The execute tool after its await.  The emitted result is dropped by a   *)
(* closed stream; the model and the budget see it all the same.            *)
FinishExecute(c) ==
  /\ call[c] = "running"
  /\ \E o \in Outcomes :
       /\ budget' = Latch(c, o)
       /\ shown' = IF o.hint /\ ~budget.delivered /\ budget.pending = NoCall
                   THEN shown \cup {c} ELSE shown
       /\ results' = Append(results, [call |-> c, kind |-> Signal(o)])
  /\ call' = [call EXCEPT ![c] = "ran"]
  /\ lastRun' = c
  /\ UNCHANGED <<turn, model, useful, steps, frames, signals>>
-----------------------------------------------------------------------------
(* The loop over the parts of the stream.                                  *)

TextDelta ==
  /\ Streaming
  /\ EmitOutput
  /\ UNCHANGED <<turn, model, steps, tooling, emittedTerminal, sent, signals>>

(* tool-error: a call that never reached a tool's execute function.        *)
ToolErrorPart ==
  /\ Streaming
  /\ EmitOutput
  /\ stepCalled' = TRUE
  /\ UNCHANGED <<turn, model, stream, step, note, tooling, emittedTerminal, sent,
                 signals>>

(* The SDK goes on to the next step once every call of this one is settled.*)
EndStep ==
  /\ Streaming
  /\ Running = {}
  /\ stepCalled
  /\ step < MaxSteps
  /\ stream' = "boundary"
  /\ UNCHANGED <<turn, model, useful, step, stepCalled, note, tooling, frames,
                 signals>>

(* "tool-calls" is the reason of a last step that still called tools,      *)
(* "other" of one that ended without the model's own finish chunk.         *)
FinishFrame(reason) ==
  CASE reason = "tool-calls" -> "error"
    [] reason = "other"      -> "done-incomplete"
    [] OTHER                 -> "done"

FinishPart ==
  /\ Streaming
  /\ Running = {}
  /\ stepCalled => step = MaxSteps
  /\ IF ~useful /\ ~IsLast
     THEN /\ stream' = "ended"
          /\ UNCHANGED <<turn, frames>>
     ELSE /\ \E reason \in IF stepCalled THEN {"tool-calls"} ELSE {"stop", "other"} :
               EmitTerminal(FinishFrame(reason))
          /\ turn' = "closing"
          /\ UNCHANGED <<stream, speaker>>
  /\ UNCHANGED <<model, useful, step, stepCalled, note, tooling, signals>>

(* Mutant: an error part moves on to the next model whatever was shown.    *)
ErrorPartAlwaysFallsBack ==
  /\ Streaming
  /\ IF ~IsLast
     THEN Fallback
     ELSE /\ EmitTerminal("error")
          /\ UNCHANGED <<turn, model, useful, steps, tooling, speaker>>
  /\ UNCHANGED signals

(* An error part does not end the stream; without output it is thrown.     *)
ErrorPart ==
  /\ Streaming
  /\ IF ~useful /\ ~IsLast
     THEN Throw
     ELSE /\ EmitTerminal("error")
          /\ UNCHANGED <<turn, model, useful, steps, tooling, speaker>>
  /\ UNCHANGED signals

AbortPart ==
  /\ Streaming
  /\ IF ~useful /\ (Aborted \/ ~IsLast)
     THEN Throw
     ELSE /\ EmitTerminal("error")
          /\ stream' = "ended"
          /\ UNCHANGED <<turn, model, useful, step, stepCalled, note, tooling, speaker>>
  /\ UNCHANGED signals

(* The part stream is exhausted.                                           *)
StreamEnds ==
  /\ turn = "attempt"
  /\ stream \in {"step", "ended"}
  /\ IF useful \/ IsLast
     THEN /\ turn' = "closing"
          /\ UNCHANGED <<model, useful, steps, tooling, frames>>
     ELSE Fallback
  /\ UNCHANGED signals

(* The provider, the network or the abort signal throws into the loop.     *)
StreamThrows ==
  /\ turn = "attempt"
  /\ Throw
  /\ UNCHANGED signals
-----------------------------------------------------------------------------
(* The end of the turn.                                                    *)

(* runTurn's finally: the cost report of an evaluation run is awaited and  *)
(* framed; its frame is no verdict.                                        *)
ReportCost ==
  /\ turn = "closing"
  /\ turn' = "settling"
  /\ UNCHANGED <<model, useful, steps, tooling, frames, signals>>

(* Mutant: the stream is closed only by a turn that ended with a verdict.  *)
SettleOnVerdict ==
  /\ turn = "settling"
  /\ emittedTerminal
  /\ turn' = "closed"
  /\ UNCHANGED <<model, useful, steps, tooling, frames, signals>>

(* The handler's own finally: a turn without a verdict is incomplete.      *)
Settle ==
  /\ turn = "settling"
  /\ EmitTerminal("done-incomplete")
  /\ turn' = "closed"
  /\ UNCHANGED <<model, useful, steps, tooling, speaker, signals>>

ClientLeaves ==
  /\ Open
  /\ gone' = TRUE
  /\ UNCHANGED <<turn, model, useful, steps, tooling, frames, expired>>

TurnTimeout ==
  /\ turn # "closed"
  /\ ~expired
  /\ expired' = TRUE
  /\ UNCHANGED <<turn, model, useful, steps, tooling, frames, gone>>

Part ==
  \/ BeginStep \/ TextDelta \/ ToolErrorPart \/ EndStep
  \/ FinishPart \/ ErrorPart \/ AbortPart \/ StreamEnds \/ StreamThrows

Next ==
  \/ Part
  \/ \E c \in Searches : SearchCall(c)
  \/ \E c \in Executes : RefuseExecute(c) \/ StartExecute(c) \/ FinishExecute(c)
  \/ ReportCost
  \/ Settle
  \/ ClientLeaves
  \/ TurnTimeout

(***************************************************************************)
(* The timer fires, the handler's continuations run, an aborted stream     *)
(* stops with an abort part or an exception and an exhausted one is        *)
(* noticed.  Nothing is assumed of a provider that has not been aborted,   *)
(* nor of the executes.                                                    *)
(***************************************************************************)
StopsWhenAborted == Aborted /\ (AbortPart \/ StreamThrows)

Fairness ==
  /\ WF_vars(TurnTimeout)
  /\ WF_vars(StopsWhenAborted)
  /\ WF_vars(stream = "ended" /\ StreamEnds)
  /\ WF_vars(ReportCost)
  /\ WF_vars(Settle)

Spec     == Init /\ [][Next]_vars
FairSpec == Spec /\ Fairness
-----------------------------------------------------------------------------
(* Properties.                                                             *)

CallStates == {"idle", "running", "refused", "ran"}
Kinds      == {"search", "failed", "truncated", "poor", "grounded"}
Reasons    == {"none", "final", "no-evidence", "no-rows", "hint", "operations",
               "navigation", "failed", "truncated"}
Verdicts   == {"done", "done-incomplete", "error"}

(* The type invariant.                                                     *)
TypeOK ==
  /\ turn \in {"attempt", "closing", "settling", "closed"}
  /\ model \in 1..NumModels
  /\ useful \in BOOLEAN
  /\ stream \in {"boundary", "step", "ended"}
  /\ step \in 0..MaxSteps
  /\ stepCalled \in BOOLEAN
  /\ call \in [Calls -> CallStates]
  /\ results \in Seq([call : Calls, kind : Kinds])
  /\ budget \in [searches : 0..MaxSearches, executes : 0..MaxExecutes,
                 delivered : BOOLEAN, pending : Executes \cup {NoCall},
                 evidence : Evidences \cup {"unknown"},
                 ops : {"none", "bad", "good"}]
  /\ shown \subseteq Executes
  /\ lastRun \in Executes \cup {NoCall}
  /\ note \in [reason : Reasons, about : Executes \cup {NoCall}]
  /\ speaker \in 0..NumModels
  /\ emittedTerminal \in BOOLEAN
  /\ sent \in Seq(Verdicts)
  /\ gone \in BOOLEAN
  /\ expired \in BOOLEAN

(* However many tool calls a step starts at once and however many models   *)
(* the turn falls back through, no more searches and executes run in it    *)
(* than the caps allow (the closure counters of tools.ts).                 *)
CapsHold ==
  /\ Cardinality({c \in Searches : call[c] = "ran"}) <= MaxSearches
  /\ Cardinality({c \in Executes : call[c] \in {"running", "ran"}}) <= MaxExecutes

(* At most one execute result of a turn shows an evidence checkpoint, also *)
(* when hint-bearing executes of one step complete together (the latch     *)
(* recoveryAdviceDelivered of tools.ts).                                   *)
OneCheckpoint == \A c, d \in shown : c = d

(* A hint that waits for the next step is about the execute that completed *)
(* last, and its checkpoint was shown: the note never makes claims about   *)
(* an execute that a later one has superseded (latestRecoveryHint).        *)
PendingIsLatest ==
  HintPending => budget.pending \in shown /\ budget.pending = lastRun

(* The host's ledger and the text of the results agree in the note: a step *)
(* is told of a truncation only if the latest execute result it can see    *)
(* was truncated (the last reason of prepareDemoStep).                     *)
TruncationNoteIsTrue ==
  [][BeginStep /\ NoteReason = "truncated" => LatestKind = "truncated"]_vars

(* A step is told that the latest execute failed at the top level only if  *)
(* it did (the wording of steps.ts and the cases of demo-steps.test.ts).   *)
FailureNoteIsTrue ==
  [][BeginStep /\ NoteReason = "failed" => LatestKind = "failed"]_vars

(* Why CapsHold is inductive: the counters count.                          *)
CountersCount ==
  /\ Cardinality({c \in Searches : call[c] = "ran"}) = budget.searches
  /\ Cardinality({c \in Executes : call[c] \in {"running", "ran"}}) = budget.executes

(* Why OneCheckpoint is: whatever was shown or waits has used the cycle up.*)
LatchIsSet == shown # {} \/ HintPending => budget.delivered

(* Why TruncationNoteIsTrue is: a latest execute result without evidence   *)
(* is known to the budget, which the reasons before the last one go by.    *)
PoorIsKnown ==
  /\ budget.evidence = "service-inconclusive" => budget.ops # "none"
  /\ \A i \in ExecuteResults :
       results[i].kind = "poor" /\ (\A j \in ExecuteResults : j <= i) =>
         budget.evidence \in {"none", "service-inconclusive"}

(* Why there is one author: whoever has spoken is the current attempt, and *)
(* its output forbids a fallback.                                          *)
SpeakerIsCurrent == speaker # 0 => speaker = model /\ useful

(* Why there is one verdict.                                               *)
VerdictLatched ==
  /\ emittedTerminal <=> sent # <<>>
  /\ Len(sent) <= 1
  /\ turn = "closed" => gone \/ sent # <<>>

(* Why the steps are bounded: only an unfinished attempt begins another.   *)
StepsLeft == stream = "boundary" => step < MaxSteps

(* The inductive invariant of the turn, from which its promises follow.    *)
IInv ==
  /\ TypeOK
  /\ CountersCount
  /\ LatchIsSet
  /\ OneCheckpoint
  /\ PendingIsLatest
  /\ SpeakerIsCurrent
  /\ VerdictLatched
  /\ StepsLeft

(* The turn as the browser sees it: one author, one verdict, closed with   *)
(* the verdict in the stream (chat.ts, emit and the attempts' fallback).   *)
Answer == INSTANCE OneAnswer WITH
  Models   <- 1..NumModels,
  Nobody   <- 0,
  author   <- speaker,
  verdict  <- IF sent = <<>> THEN "none"
              ELSE IF Len(sent) = 1 THEN sent[1] ELSE "several",
  Verdicts <- Verdicts,
  left     <- gone,
  closed   <- turn = "closed"

ImplementsOneAnswer == Answer!Spec

(* Every turn closes its stream, whatever the provider and the executes do *)
(* (the whole-turn timeout, the two finally blocks of chat.ts).            *)
EveryTurnCloses == <>(turn = "closed")
=============================================================================
