------------------------ MODULE PlaygroundTurnProofs ------------------------
(***************************************************************************)
(* Proofs about a Playground turn, for every number of models, steps and   *)
(* calls and every way an execute may end.                                 *)
(***************************************************************************)
EXTENDS PlaygroundTurn, FiniteSetTheorems, WellFoundedInduction, TLAPS

(* The initial state satisfies the invariant.                              *)
LEMMA InitIInv == Init => IInv
<1> SUFFICES ASSUME Init PROVE IInv
  OBVIOUS
<1> USE ConstantsAssumption DEF Init
<1>1. TypeOK
  <2>1. call \in [Calls -> CallStates]
    BY DEF CallStates
  <2>2. results \in Seq([call : Calls, kind : Kinds]) /\ sent \in Seq(Verdicts)
    OBVIOUS
  <2>3. budget \in [searches : 0..MaxSearches, executes : 0..MaxExecutes,
                 delivered : BOOLEAN, pending : Executes \cup {NoCall},
                 evidence : Evidences \cup {"unknown"},
                 ops : {"none", "bad", "good"}]
    OBVIOUS
  <2>4. note \in [reason : Reasons, about : Executes \cup {NoCall}]
    BY DEF Reasons
  <2>5. model \in 1..NumModels /\ step \in 0..MaxSteps /\ speaker \in 0..NumModels
    OBVIOUS
  <2>6. shown \subseteq Executes /\ lastRun \in Executes \cup {NoCall}
    OBVIOUS
  <2>7. QED
    BY <2>1, <2>2, <2>3, <2>4, <2>5, <2>6 DEF TypeOK
<1>2. CountersCount
  <2>1. {c \in Searches : call[c] = "ran"} = {}
    BY DEF Calls
  <2>2. {c \in Executes : call[c] \in {"running", "ran"}} = {}
    BY DEF Calls
  <2>3. QED
    BY <2>1, <2>2, FS_EmptySet DEF CountersCount
<1>3. LatchIsSet /\ OneCheckpoint /\ PendingIsLatest /\ SpeakerIsCurrent /\ VerdictLatched
  BY DEF LatchIsSet, OneCheckpoint, PendingIsLatest, SpeakerIsCurrent,
         VerdictLatched, HintPending
<1>4. StepsLeft
  BY DEF StepsLeft
<1>5. QED
  BY <1>1, <1>2, <1>3, <1>4 DEF IInv
-----------------------------------------------------------------------------
(* A step that leaves the tools, the attempt and its output alone keeps    *)
(* the invariant if it keeps the verdict.                                  *)
LEMMA Quiet ==
  ASSUME IInv,
         UNCHANGED <<model, useful, tooling, speaker>>,
         turn' \in {"attempt", "closing", "settling", "closed"},
         stream' \in {"boundary", "step", "ended"},
         step' \in 0..MaxSteps, stepCalled' \in BOOLEAN,
         note' \in [reason : Reasons, about : Executes \cup {NoCall}],
         gone' \in BOOLEAN, expired' \in BOOLEAN,
         emittedTerminal' \in BOOLEAN, sent' \in Seq(Verdicts),
         VerdictLatched', StepsLeft'
  PROVE  IInv'
<1>1. TypeOK'
  BY DEF IInv, TypeOK, tooling
<1>2. CountersCount' /\ LatchIsSet' /\ OneCheckpoint' /\ PendingIsLatest'
  BY DEF IInv, tooling, CountersCount, LatchIsSet, OneCheckpoint,
         PendingIsLatest, HintPending
<1>3. SpeakerIsCurrent'
  BY DEF IInv, SpeakerIsCurrent
<1>4. QED
  BY <1>1, <1>2, <1>3 DEF IInv

(* What emit does with a terminal frame.                                   *)
LEMMA Emitted ==
  ASSUME IInv, NEW f \in Verdicts, EmitTerminal(f)
  PROVE  /\ emittedTerminal' \in BOOLEAN /\ sent' \in Seq(Verdicts)
         /\ emittedTerminal' <=> sent' # <<>>
         /\ Len(sent') <= 1
         /\ Open => sent' # <<>>
         /\ sent # <<>> => sent' = sent
<1>1. sent \in Seq(Verdicts) /\ emittedTerminal \in BOOLEAN /\ VerdictLatched
  BY DEF IInv, TypeOK
<1>2. CASE Open /\ ~emittedTerminal
  <2>1. sent = <<>>
    BY <1>1, <1>2 DEF VerdictLatched
  <2>2. emittedTerminal' = TRUE /\ sent' = <<f>>
    BY <1>2, <2>1 DEF EmitTerminal
  <2>3. QED
    BY <2>1, <2>2
<1>3. CASE ~(Open /\ ~emittedTerminal)
  BY <1>1, <1>3 DEF EmitTerminal, VerdictLatched
<1>4. QED
  BY <1>2, <1>3

(* A terminal frame, with a move of the handler, keeps the invariant.      *)
LEMMA Concluding ==
  ASSUME IInv, NEW f \in Verdicts, EmitTerminal(f),
         UNCHANGED <<model, useful, step, stepCalled, note, tooling, speaker, signals>>,
         turn' \in {"attempt", "closing", "settling", "closed"},
         stream' \in {stream, "ended"},
         turn # "closed"
  PROVE  IInv'
<1>1. /\ emittedTerminal' \in BOOLEAN /\ sent' \in Seq(Verdicts)
      /\ emittedTerminal' <=> sent' # <<>>
      /\ Len(sent') <= 1
      /\ Open => sent' # <<>>
  BY Emitted
<1>2. VerdictLatched'
  BY <1>1 DEF VerdictLatched, Open, signals
<1>3. QED
  BY <1>1, <1>2, Quiet DEF IInv, TypeOK, signals, StepsLeft

(* The fallback to the next model.                                         *)
LEMMA FallbackIInv ==
  ASSUME IInv, Fallback, ~useful, ~IsLast, UNCHANGED signals
  PROVE  IInv'
<1>1. model' \in 1..NumModels
  BY ConstantsAssumption DEF IInv, TypeOK, Fallback, IsLast
<1>2. step' \in 0..MaxSteps
  BY ConstantsAssumption DEF Fallback
<1>3. note' \in [reason : Reasons, about : Executes \cup {NoCall}]
  BY DEF Fallback, Reasons
<1>4. results' \in Seq([call : Calls, kind : Kinds])
  BY DEF Fallback
<1>5. TypeOK'
  BY <1>1, <1>2, <1>3, <1>4, ZenonT(30) DEF IInv, TypeOK, Fallback, frames, signals
<1>6. CountersCount' /\ LatchIsSet' /\ OneCheckpoint' /\ PendingIsLatest'
  BY DEF IInv, Fallback, CountersCount, LatchIsSet, OneCheckpoint,
         PendingIsLatest, HintPending
<1>7. SpeakerIsCurrent' /\ VerdictLatched' /\ StepsLeft'
  BY ConstantsAssumption
     DEF IInv, Fallback, SpeakerIsCurrent, VerdictLatched, StepsLeft, frames, signals
<1>8. QED
  BY <1>5, <1>6, <1>7 DEF IInv

(* An exception caught by the attempt: a verdict or a fallback.          *)
LEMMA ThrowIInv ==
  ASSUME IInv, Throw, UNCHANGED signals, turn # "closed"
  PROVE  IInv'
<1>1. CASE useful \/ IsLast \/ Aborted
  <2>1. /\ EmitTerminal("error") /\ turn' = "closing"
        /\ UNCHANGED <<model, useful, steps, tooling, speaker>>
    BY <1>1 DEF Throw
  <2>2. UNCHANGED <<step, stepCalled, note>> /\ stream' = stream
    BY <2>1 DEF steps
  <2>3. QED
    BY <2>1, <2>2, Concluding DEF Verdicts
<1>2. CASE ~(useful \/ IsLast \/ Aborted)
  BY <1>2, FallbackIInv DEF Throw
<1>3. QED
  BY <1>1, <1>2
-----------------------------------------------------------------------------
(* Every part of the stream, and every step of the turn's end.             *)

(* The model finishes.                                                   *)
LEMMA FinishPartIInv == IInv /\ FinishPart => IInv'
<1> SUFFICES ASSUME IInv, FinishPart PROVE IInv'
  OBVIOUS
<1>1. turn = "attempt" /\ UNCHANGED <<model, useful, step, stepCalled, note, tooling, signals>>
  BY DEF FinishPart, Streaming
<1>2. CASE ~useful /\ ~IsLast
  <2>1. stream' = "ended" /\ UNCHANGED <<turn, frames>>
    BY <1>2 DEF FinishPart
  <2>2. QED
    BY <1>1, <2>1, Quiet DEF frames, signals, IInv, TypeOK, VerdictLatched, StepsLeft
<1>3. CASE ~(~useful /\ ~IsLast)
  <2>1. PICK reason \in {"tool-calls", "stop", "other"} :
          /\ EmitTerminal(FinishFrame(reason))
          /\ turn' = "closing"
          /\ UNCHANGED <<stream, speaker>>
    BY <1>3 DEF FinishPart
  <2>2. FinishFrame(reason) \in Verdicts
    BY DEF FinishFrame, Verdicts
  <2>3. QED
    BY <1>1, <2>1, <2>2, Concluding
<1>4. QED
  BY <1>2, <1>3

(* The stream reports an error.                                          *)
LEMMA ErrorPartIInv == IInv /\ ErrorPart => IInv'
<1> SUFFICES ASSUME IInv, ErrorPart PROVE IInv'
  OBVIOUS
<1>1. turn = "attempt" /\ UNCHANGED signals
  BY DEF ErrorPart, Streaming
<1>2. CASE ~useful /\ ~IsLast
  BY <1>1, <1>2, ThrowIInv DEF ErrorPart
<1>3. CASE ~(~useful /\ ~IsLast)
  <2>1. EmitTerminal("error") /\ UNCHANGED <<turn, model, useful, steps, tooling, speaker>>
    BY <1>3 DEF ErrorPart
  <2>2. QED
    BY <1>1, <2>1, Concluding DEF steps, Verdicts, IInv, TypeOK
<1>4. QED
  BY <1>2, <1>3

(* The stream reports an abort.                                          *)
LEMMA AbortPartIInv == IInv /\ AbortPart => IInv'
<1> SUFFICES ASSUME IInv, AbortPart PROVE IInv'
  OBVIOUS
<1>1. turn = "attempt" /\ UNCHANGED signals
  BY DEF AbortPart, Streaming
<1>2. CASE ~useful /\ (Aborted \/ ~IsLast)
  BY <1>1, <1>2, ThrowIInv DEF AbortPart
<1>3. CASE ~(~useful /\ (Aborted \/ ~IsLast))
  <2>1. /\ EmitTerminal("error") /\ stream' = "ended"
        /\ UNCHANGED <<turn, model, useful, step, stepCalled, note, tooling, speaker>>
    BY <1>3 DEF AbortPart
  <2>2. QED
    BY <1>1, <2>1, Concluding DEF Verdicts
<1>4. QED
  BY <1>2, <1>3

(* The stream is exhausted.                                              *)
LEMMA StreamEndsIInv == IInv /\ StreamEnds => IInv'
<1> SUFFICES ASSUME IInv, StreamEnds PROVE IInv'
  OBVIOUS
<1>1. turn = "attempt" /\ UNCHANGED signals
  BY DEF StreamEnds
<1>2. CASE useful \/ IsLast
  <2>1. turn' = "closing" /\ UNCHANGED <<model, useful, steps, tooling, frames>>
    BY <1>2 DEF StreamEnds
  <2>2. QED
    BY <1>1, <2>1, Quiet DEF steps, frames, signals, IInv, TypeOK, VerdictLatched, StepsLeft
<1>3. CASE ~(useful \/ IsLast)
  BY <1>1, <1>3, FallbackIInv DEF StreamEnds
<1>4. QED
  BY <1>2, <1>3

(* Exceptions, the finally blocks and the two abort signals.             *)
LEMMA EndOfTurnIInv ==
  IInv /\ (StreamThrows \/ ReportCost \/ Settle \/ ClientLeaves \/ TurnTimeout) => IInv'
<1> SUFFICES ASSUME IInv,
                    StreamThrows \/ ReportCost \/ Settle \/ ClientLeaves \/ TurnTimeout
             PROVE  IInv'
  OBVIOUS
<1>1. CASE StreamThrows
  BY <1>1, ThrowIInv DEF StreamThrows
<1>2. CASE ReportCost
  BY <1>2, Quiet DEF ReportCost, steps, frames, signals, IInv, TypeOK, VerdictLatched, StepsLeft
<1>3. CASE Settle
  <2>1. /\ EmitTerminal("done-incomplete") /\ turn' = "closed" /\ turn = "settling"
        /\ UNCHANGED <<model, useful, steps, tooling, speaker, signals>>
    BY <1>3 DEF Settle
  <2>2. QED
    BY <2>1, Concluding DEF steps, Verdicts, IInv, TypeOK
<1>4. CASE ClientLeaves
  BY <1>4, Quiet DEF ClientLeaves, steps, frames, IInv, TypeOK, VerdictLatched, StepsLeft
<1>5. CASE TurnTimeout
  BY <1>5, Quiet DEF TurnTimeout, steps, frames, IInv, TypeOK, VerdictLatched, StepsLeft
<1>6. QED
  BY <1>1, <1>2, <1>3, <1>4, <1>5

(* A step is over and another will follow.                               *)
LEMMA EndStepIInv == IInv /\ EndStep => IInv'
<1> SUFFICES ASSUME IInv, EndStep PROVE IInv'
  OBVIOUS
<1>1. QED
  BY Quiet DEF EndStep, frames, signals, IInv, TypeOK, VerdictLatched, StepsLeft
-----------------------------------------------------------------------------
(* The step boundary and the tools.                                        *)

(* The advice of a step is one of its wordings.                            *)
LEMMA NoteTyped == NoteReason \in Reasons
BY DEF NoteReason, Reasons

(* The next step begins with its advice.                                 *)
LEMMA BeginStepIInv == IInv /\ BeginStep => IInv'
<1> SUFFICES ASSUME IInv, BeginStep PROVE IInv'
  OBVIOUS
<1>0. TypeOK
  BY DEF IInv
<1>1. /\ stream' = "step" /\ step' = step + 1 /\ stepCalled' = FALSE
      /\ note' = [reason |-> NoteReason, about |-> budget.pending]
      /\ budget' = IF UsesHint
                   THEN [budget EXCEPT !.delivered = TRUE, !.pending = NoCall]
                   ELSE budget
      /\ UNCHANGED <<turn, model, useful, call, results, shown, lastRun>>
      /\ UNCHANGED <<speaker, emittedTerminal, sent, gone, expired>>
  BY DEF BeginStep, frames, signals
<1>2. step' \in 0..MaxSteps
  BY <1>0, <1>1, ConstantsAssumption DEF BeginStep, IInv, StepsLeft, TypeOK
<1>3. note' \in [reason : Reasons, about : Executes \cup {NoCall}]
  BY <1>0, <1>1, NoteTyped DEF TypeOK
<1>4. /\ budget' \in [searches : 0..MaxSearches, executes : 0..MaxExecutes,
                      delivered : BOOLEAN, pending : Executes \cup {NoCall},
                      evidence : Evidences \cup {"unknown"},
                      ops : {"none", "bad", "good"}]
      /\ budget'.searches = budget.searches /\ budget'.executes = budget.executes
      /\ budget'.pending # NoCall => budget'.pending = budget.pending
      /\ budget.delivered => budget'.delivered
  BY <1>0, <1>1 DEF TypeOK
<1>5. TypeOK'
  BY <1>0, <1>1, <1>2, <1>3, <1>4 DEF TypeOK
<1>6. CountersCount' /\ LatchIsSet' /\ OneCheckpoint' /\ PendingIsLatest'
  BY <1>1, <1>4 DEF IInv, CountersCount, LatchIsSet, OneCheckpoint,
         PendingIsLatest, HintPending
<1>7. SpeakerIsCurrent' /\ VerdictLatched' /\ StepsLeft'
  BY <1>1 DEF IInv, SpeakerIsCurrent, VerdictLatched, StepsLeft
<1>8. QED
  BY <1>5, <1>6, <1>7 DEF IInv

(* Output of the current attempt: what every tool call and token has in    *)
(* common.  The tool state it may change is given by the caller.           *)
LEMMA Output ==
  ASSUME IInv, EmitOutput, Streaming,
         UNCHANGED <<turn, model, step, note, emittedTerminal, sent, signals>>,
         stream' = stream, stepCalled' \in BOOLEAN,
         call' \in [Calls -> CallStates],
         results' \in Seq([call : Calls, kind : Kinds]),
         budget' \in [searches : 0..MaxSearches, executes : 0..MaxExecutes,
                      delivered : BOOLEAN, pending : Executes \cup {NoCall},
                      evidence : Evidences \cup {"unknown"},
                      ops : {"none", "bad", "good"}],
         CountersCount',
         budget'.delivered = budget.delivered, budget'.pending = budget.pending,
         UNCHANGED <<shown, lastRun>>
  PROVE  IInv'
<1>1. speaker' \in {speaker, model} /\ useful' = TRUE
  BY DEF EmitOutput
<1>2. speaker' \in 0..NumModels
  BY <1>1 DEF IInv, TypeOK
<1>3. TypeOK'
  BY <1>1, <1>2 DEF IInv, TypeOK, signals
<1>4. LatchIsSet' /\ OneCheckpoint' /\ PendingIsLatest'
  BY DEF IInv, LatchIsSet, OneCheckpoint, PendingIsLatest, HintPending
<1>5. SpeakerIsCurrent' /\ VerdictLatched' /\ StepsLeft'
  BY <1>1 DEF IInv, SpeakerIsCurrent, VerdictLatched, StepsLeft, signals
<1>6. QED
  BY <1>3, <1>4, <1>5 DEF IInv

(* A token, or a call that failed before it ran.                         *)
LEMMA TextIInv == IInv /\ (TextDelta \/ ToolErrorPart) => IInv'
<1> SUFFICES ASSUME IInv, TextDelta \/ ToolErrorPart PROVE IInv'
  OBVIOUS
<1>1. /\ EmitOutput /\ Streaming
      /\ UNCHANGED <<turn, model, stream, step, note, tooling, emittedTerminal, sent, signals>>
      /\ stepCalled' \in BOOLEAN
  BY DEF TextDelta, ToolErrorPart, steps, IInv, TypeOK
<1>2. CountersCount'
  BY <1>1 DEF tooling, IInv, CountersCount
<1>3. QED
  BY <1>1, <1>2, Output DEF tooling, IInv, TypeOK

(* Counting calls: one call enters a set of calls in some state, or none.  *)
LEMMA CountOneMore ==
  ASSUME NEW S, IsFiniteSet(S), NEW c \in S, NEW P, P \subseteq S, c \notin P
  PROVE  Cardinality(P \cup {c}) = Cardinality(P) + 1
BY FS_Subset, FS_AddElement

(* A search runs or is refused.                                          *)
LEMMA SearchCallIInv ==
  ASSUME IInv, NEW c \in Searches, SearchCall(c)
  PROVE  IInv'
<1>0. TypeOK /\ CountersCount /\ c \in Calls /\ c \notin Executes
  BY ConstantsAssumption DEF IInv, Calls
<1>1. /\ EmitOutput /\ Streaming /\ call[c] = "idle"
      /\ UNCHANGED <<turn, model, stream, step, note, shown, lastRun,
                     emittedTerminal, sent, signals>>
      /\ stepCalled' \in BOOLEAN
      /\ results' = Append(results, [call |-> c, kind |-> "search"])
  BY DEF SearchCall, CanCall
<1>2. results' \in Seq([call : Calls, kind : Kinds])
  BY <1>0, <1>1 DEF TypeOK, Kinds
<1>3. {d \in Executes : call'[d] \in {"running", "ran"}}
        = {d \in Executes : call[d] \in {"running", "ran"}}
  BY <1>0 DEF SearchCall, TypeOK, Calls
<1>4. CASE budget.searches >= MaxSearches
  <2>1. call' = [call EXCEPT ![c] = "refused"] /\ budget' = budget
    BY <1>4 DEF SearchCall
  <2>2. call' \in [Calls -> CallStates]
    BY <1>0, <2>1 DEF TypeOK, CallStates
  <2>3. {d \in Searches : call'[d] = "ran"} = {d \in Searches : call[d] = "ran"}
    BY <1>0, <1>1, <2>1 DEF TypeOK, Calls
  <2>4. CountersCount'
    BY <1>0, <1>3, <2>1, <2>3 DEF CountersCount
  <2>5. QED
    BY <1>1, <1>2, <2>1, <2>2, <2>4, Output DEF IInv, TypeOK
<1>5. CASE ~(budget.searches >= MaxSearches)
  <2>1. /\ call' = [call EXCEPT ![c] = "ran"]
        /\ budget' = [budget EXCEPT !.searches = @ + 1]
    BY <1>5 DEF SearchCall
  <2>2. call' \in [Calls -> CallStates]
    BY <1>0, <2>1 DEF TypeOK, CallStates
  <2> DEFINE ran == {d \in Searches : call[d] = "ran"}
  <2>3. {d \in Searches : call'[d] = "ran"} = ran \cup {c}
    BY <1>0, <1>1, <2>1 DEF TypeOK, Calls
  <2>4. Cardinality(ran \cup {c}) = Cardinality(ran) + 1
    BY <1>1, CountOneMore, ConstantsAssumption
  <2>5. /\ budget' \in [searches : 0..MaxSearches, executes : 0..MaxExecutes,
                        delivered : BOOLEAN, pending : Executes \cup {NoCall},
                        evidence : Evidences \cup {"unknown"},
                        ops : {"none", "bad", "good"}]
        /\ budget'.searches = budget.searches + 1
        /\ budget'.executes = budget.executes
        /\ budget'.delivered = budget.delivered /\ budget'.pending = budget.pending
    <3>1. budget.searches \in 0..MaxSearches
      BY <1>0 DEF TypeOK
    <3>2. budget.searches + 1 \in 0..MaxSearches
      BY <1>5, <3>1, ConstantsAssumption
    <3>3. QED
      BY <1>0, <2>1, <3>2 DEF TypeOK
  <2>6. CountersCount'
    BY <1>0, <1>3, <2>3, <2>4, <2>5 DEF CountersCount
  <2>7. QED
    BY <1>1, <1>2, <2>2, <2>5, <2>6, Output
<1>6. QED
  BY <1>4, <1>5

(* An execute is refused.                                                *)
LEMMA RefuseExecuteIInv ==
  ASSUME IInv, NEW c \in Executes, RefuseExecute(c)
  PROVE  IInv'
<1>0. TypeOK /\ CountersCount /\ c \in Calls /\ c \notin Searches
  BY ConstantsAssumption DEF IInv, Calls
<1>1. /\ EmitOutput /\ Streaming /\ call[c] = "idle"
      /\ UNCHANGED <<turn, model, stream, step, note, budget, shown, lastRun,
                     emittedTerminal, sent, signals>>
      /\ stepCalled' \in BOOLEAN
      /\ results' = Append(results, [call |-> c, kind |-> "failed"])
      /\ call' = [call EXCEPT ![c] = "refused"]
  BY DEF RefuseExecute, CanCall
<1>2. results' \in Seq([call : Calls, kind : Kinds])
  BY <1>0, <1>1 DEF TypeOK, Kinds
<1>3. call' \in [Calls -> CallStates]
  BY <1>0, <1>1 DEF TypeOK, CallStates
<1>4. /\ {d \in Searches : call'[d] = "ran"} = {d \in Searches : call[d] = "ran"}
      /\ {d \in Executes : call'[d] \in {"running", "ran"}}
           = {d \in Executes : call[d] \in {"running", "ran"}}
  BY <1>0, <1>1 DEF TypeOK, Calls
<1>5. CountersCount'
  BY <1>0, <1>1, <1>4 DEF CountersCount
<1>6. QED
  BY <1>1, <1>2, <1>3, <1>5, Output DEF IInv, TypeOK

(* An execute starts within the cap.                                     *)
LEMMA StartExecuteIInv ==
  ASSUME IInv, NEW c \in Executes, StartExecute(c)
  PROVE  IInv'
<1>0. TypeOK /\ CountersCount /\ c \in Calls /\ c \notin Searches
  BY ConstantsAssumption DEF IInv, Calls
<1>1. /\ EmitOutput /\ Streaming /\ call[c] = "idle"
      /\ UNCHANGED <<turn, model, stream, step, note, results, shown, lastRun,
                     emittedTerminal, sent, signals>>
      /\ stepCalled' \in BOOLEAN
      /\ call' = [call EXCEPT ![c] = "running"]
      /\ budget' = [budget EXCEPT !.executes = @ + 1]
      /\ budget.executes < MaxExecutes
  BY DEF StartExecute, CanCall
<1>2. call' \in [Calls -> CallStates]
  BY <1>0, <1>1 DEF TypeOK, CallStates
<1> DEFINE ran == {d \in Executes : call[d] \in {"running", "ran"}}
<1>3. /\ {d \in Searches : call'[d] = "ran"} = {d \in Searches : call[d] = "ran"}
      /\ {d \in Executes : call'[d] \in {"running", "ran"}} = ran \cup {c}
  BY <1>0, <1>1 DEF TypeOK, Calls
<1>4. Cardinality(ran \cup {c}) = Cardinality(ran) + 1
  BY <1>1, CountOneMore, ConstantsAssumption
<1>5. /\ budget' \in [searches : 0..MaxSearches, executes : 0..MaxExecutes,
                      delivered : BOOLEAN, pending : Executes \cup {NoCall},
                      evidence : Evidences \cup {"unknown"},
                      ops : {"none", "bad", "good"}]
      /\ budget'.searches = budget.searches
      /\ budget'.executes = budget.executes + 1
      /\ budget'.delivered = budget.delivered /\ budget'.pending = budget.pending
  <2>1. budget.executes \in 0..MaxExecutes
    BY <1>0 DEF TypeOK
  <2>2. budget.executes + 1 \in 0..MaxExecutes
    BY <1>1, <2>1, ConstantsAssumption
  <2>3. QED
    BY <1>0, <1>1, <2>2 DEF TypeOK
<1>6. CountersCount'
  BY <1>0, <1>3, <1>4, <1>5 DEF CountersCount
<1>7. QED
  BY <1>0, <1>1, <1>2, <1>5, <1>6, Output DEF TypeOK

(* An execute completes: the latch moves.                                *)
LEMMA FinishExecuteIInv ==
  ASSUME IInv, NEW c \in Executes, FinishExecute(c)
  PROVE  IInv'
<1>0. TypeOK /\ CountersCount /\ LatchIsSet /\ OneCheckpoint /\ PendingIsLatest
      /\ c \in Calls /\ c \notin Searches /\ c # NoCall
  BY ConstantsAssumption DEF IInv, Calls
<1>1. PICK o \in Outcomes :
        /\ budget' = Latch(c, o)
        /\ shown' = IF o.hint /\ ~budget.delivered /\ budget.pending = NoCall
                    THEN shown \cup {c} ELSE shown
        /\ results' = Append(results, [call |-> c, kind |-> Signal(o)])
  BY DEF FinishExecute
<1>2. /\ call[c] = "running" /\ call' = [call EXCEPT ![c] = "ran"] /\ lastRun' = c
      /\ UNCHANGED <<turn, model, useful, stream, step, stepCalled, note>>
      /\ UNCHANGED <<speaker, emittedTerminal, sent, gone, expired>>
  BY DEF FinishExecute, steps, frames, signals
<1>3. o \in ExecuteOutcome
  BY ConstantsAssumption
<1>4. Signal(o) \in Kinds
  BY DEF Signal, Kinds
<1>5. results' \in Seq([call : Calls, kind : Kinds])
  BY <1>0, <1>1, <1>4 DEF TypeOK
<1>6. call' \in [Calls -> CallStates]
  BY <1>0, <1>2 DEF TypeOK, CallStates
<1>7. /\ budget' \in [searches : 0..MaxSearches, executes : 0..MaxExecutes,
                      delivered : BOOLEAN, pending : Executes \cup {NoCall},
                      evidence : Evidences \cup {"unknown"},
                      ops : {"none", "bad", "good"}]
      /\ budget'.searches = budget.searches /\ budget'.executes = budget.executes
      /\ budget'.delivered = (budget.delivered \/ (o.hint /\ budget.pending = NoCall))
      /\ budget'.pending = IF o.hint /\ ~budget.delivered /\ budget.pending = NoCall
                           THEN c ELSE NoCall
  BY <1>0, <1>1, <1>3 DEF TypeOK, Latch, ExecuteOutcome
<1>8. TypeOK'
  BY <1>0, <1>1, <1>2, <1>5, <1>6, <1>7 DEF TypeOK
<1>9. /\ {d \in Searches : call'[d] = "ran"} = {d \in Searches : call[d] = "ran"}
      /\ {d \in Executes : call'[d] \in {"running", "ran"}}
           = {d \in Executes : call[d] \in {"running", "ran"}}
  BY <1>0, <1>2 DEF TypeOK, Calls
<1>10. CountersCount'
  BY <1>0, <1>7, <1>9 DEF CountersCount
<1>11. LatchIsSet' /\ OneCheckpoint' /\ PendingIsLatest'
  <2>1. CASE o.hint /\ ~budget.delivered /\ budget.pending = NoCall
    <3>1. shown = {}
      BY <1>0, <2>1 DEF LatchIsSet
    <3>2. shown' = {c} /\ budget'.pending = c /\ budget'.delivered
      BY <1>1, <1>7, <2>1, <3>1
    <3>3. QED
      BY <1>2, <3>2 DEF LatchIsSet, OneCheckpoint, PendingIsLatest, HintPending
  <2>2. CASE ~(o.hint /\ ~budget.delivered /\ budget.pending = NoCall)
    <3>1. shown' = shown /\ budget'.pending = NoCall
          /\ (budget.delivered => budget'.delivered)
      BY <1>1, <1>7, <2>2
    <3>2. QED
      BY <1>0, <3>1 DEF LatchIsSet, OneCheckpoint, PendingIsLatest, HintPending
  <2>3. QED
    BY <2>1, <2>2
<1>12. SpeakerIsCurrent' /\ VerdictLatched' /\ StepsLeft'
  BY <1>2 DEF IInv, SpeakerIsCurrent, VerdictLatched, StepsLeft
<1>13. QED
  BY <1>8, <1>10, <1>11, <1>12 DEF IInv
-----------------------------------------------------------------------------
(* The invariant is inductive: every action preserves it.                  *)
LEMMA NextIInv == IInv /\ [Next]_vars => IInv'
<1> SUFFICES ASSUME IInv, [Next]_vars PROVE IInv'
  OBVIOUS
<1>1. CASE Part
  BY <1>1, BeginStepIInv, TextIInv, EndStepIInv, FinishPartIInv, ErrorPartIInv,
     AbortPartIInv, StreamEndsIInv, EndOfTurnIInv DEF Part
<1>2. ASSUME NEW c \in Searches, SearchCall(c) PROVE IInv'
  BY <1>2, SearchCallIInv
<1>3. ASSUME NEW c \in Executes,
             RefuseExecute(c) \/ StartExecute(c) \/ FinishExecute(c)
      PROVE  IInv'
  BY <1>3, RefuseExecuteIInv, StartExecuteIInv, FinishExecuteIInv
<1>4. CASE ReportCost \/ Settle \/ ClientLeaves \/ TurnTimeout
  BY <1>4, EndOfTurnIInv
<1>5. CASE UNCHANGED vars
  BY <1>5, Quiet DEF vars, steps, frames, signals, IInv, TypeOK, VerdictLatched, StepsLeft
<1>6. QED
  BY <1>1, <1>2, <1>3, <1>4, <1>5 DEF Next

(* The turn's bookkeeping is right in every reachable state.               *)
THEOREM TurnInductive == Spec => []IInv
BY InitIInv, NextIInv, PTL DEF Spec

(* However many calls a step starts and however many models are tried, a   *)
(* turn runs no more searches and executes than the caps of budget.ts.     *)
THEOREM TurnCaps == Spec => []CapsHold
<1>1. IInv => CapsHold
  BY ConstantsAssumption DEF IInv, TypeOK, CountersCount, CapsHold
<1>2. QED
  BY <1>1, TurnInductive, PTL

(* At most one execute result of a turn shows an evidence checkpoint, in   *)
(* whatever order the executes finish (the latch in tools.ts).             *)
THEOREM TurnCheckpoint == Spec => []OneCheckpoint
<1>1. IInv => OneCheckpoint
  BY DEF IInv
<1>2. QED
  BY <1>1, TurnInductive, PTL

(* A hint that waits for the next step is about the execute that finished  *)
(* last.                                                                   *)
THEOREM TurnHint == Spec => []PendingIsLatest
<1>1. IInv => PendingIsLatest
  BY DEF IInv
<1>2. QED
  BY <1>1, TurnInductive, PTL
-----------------------------------------------------------------------------
(* The turn implements OneAnswer: every step is one of its steps, seen     *)
(* through the mapping, or leaves the browser's view alone.                *)

Verdict == IF sent = <<>> THEN "none"
           ELSE IF Len(sent) = 1 THEN sent[1] ELSE "several"

(* A new turn shows nothing.                                             *)
LEMMA InitAnswer == Init => Answer!Init
BY DEF Init, Answer!Init

(* Nothing the browser sees has changed, except that it may have left.     *)
LEMMA Unseen ==
  ASSUME UNCHANGED <<speaker, sent, gone>>, turn # "closed", turn' # "closed"
  PROVE  UNCHANGED Answer!vars
BY DEF Answer!vars

(* Output of the current attempt is a Speak step.                        *)
LEMMA SpeakStep ==
  ASSUME IInv, EmitOutput, UNCHANGED <<turn, sent, gone>>, turn = "attempt"
  PROVE  [Answer!Next]_(Answer!vars)
<1>1. model \in 1..NumModels
  BY DEF IInv, TypeOK
<1>2. CASE Open
  <2>1. speaker' = model /\ speaker \in {model, 0} /\ ~gone
    BY <1>2 DEF EmitOutput, IInv, SpeakerIsCurrent, Open
  <2>2. Answer!Speak(model)
    BY <2>1 DEF Answer!Speak
  <2>3. QED
    BY <1>1, <2>2 DEF Answer!Next
<1>3. CASE ~Open
  BY <1>3, Unseen DEF EmitOutput
<1>4. QED
  BY <1>2, <1>3

(* A verdict is a Conclude step.                                         *)
LEMMA EmitStep ==
  ASSUME IInv, NEW f \in Verdicts, EmitTerminal(f), UNCHANGED <<speaker, gone>>,
         turn # "closed", turn' # "closed"
  PROVE  [Answer!Next]_(Answer!vars)
<1>1. sent \in Seq(Verdicts) /\ VerdictLatched
  BY DEF IInv, TypeOK
<1>2. CASE Open /\ ~emittedTerminal
  <2>1. sent = <<>>
    BY <1>1, <1>2 DEF VerdictLatched
  <2>2. sent' = <<f>>
    BY <1>2, <2>1 DEF EmitTerminal
  <2>3. Verdict = "none" /\ Verdict' = f
    BY <2>1, <2>2 DEF Verdict
  <2>4. Answer!Conclude(f)
    BY <1>2, <2>3 DEF Answer!Conclude, Verdict, Open
  <2>5. QED
    BY <2>4 DEF Answer!Next
<1>3. CASE ~(Open /\ ~emittedTerminal)
  BY <1>3, Unseen DEF EmitTerminal
<1>4. QED
  BY <1>2, <1>3

(* An exception is a Conclude step or is not seen.                       *)
LEMMA ThrowStep ==
  ASSUME IInv, Throw, UNCHANGED signals, turn # "closed"
  PROVE  [Answer!Next]_(Answer!vars)
<1>1. CASE useful \/ IsLast \/ Aborted
  BY <1>1, EmitStep DEF Throw, signals, Verdicts
<1>2. CASE ~(useful \/ IsLast \/ Aborted)
  BY <1>2, Unseen DEF Throw, Fallback, frames, signals
<1>3. QED
  BY <1>1, <1>2

(* The handler's finally is a Close step.                                *)
LEMMA SettleStep ==
  ASSUME IInv, Settle
  PROVE  [Answer!Next]_(Answer!vars)
<1>1. sent \in Seq(Verdicts) /\ VerdictLatched
  BY DEF IInv, TypeOK
<1>2. turn # "closed" /\ turn' = "closed" /\ UNCHANGED <<speaker, gone>>
  BY DEF Settle, signals
<1>3. EmitTerminal("done-incomplete")
  BY DEF Settle
<1>4. CASE Open /\ ~emittedTerminal
  <2>1. sent = <<>>
    BY <1>1, <1>4 DEF VerdictLatched
  <2>2. sent' = <<"done-incomplete">>
    BY <1>3, <1>4, <2>1 DEF EmitTerminal
  <2>3. Verdict = "none" /\ Verdict' \in Verdicts
    BY <2>1, <2>2 DEF Verdict, Verdicts
  <2>4. Answer!Close
    BY <1>2, <1>4, <2>3 DEF Answer!Close, Verdict, Open
  <2>5. QED
    BY <2>4 DEF Answer!Next
<1>5. CASE ~(Open /\ ~emittedTerminal)
  <2>1. sent' = sent /\ (gone \/ sent # <<>>)
    BY <1>1, <1>2, <1>3, <1>5 DEF EmitTerminal, Open, VerdictLatched
  <2>2. gone \/ Verdict # "none"
    <3>1. Len(sent) = 1 => sent[1] \in Verdicts
      BY <1>1
    <3>2. QED
      BY <2>1, <3>1 DEF Verdict, Verdicts
  <2>3. Answer!Close
    BY <1>2, <2>1, <2>2 DEF Answer!Close, Verdict
  <2>4. QED
    BY <2>3 DEF Answer!Next
<1>6. QED
  BY <1>4, <1>5

(* Every step is a step of OneAnswer or a stutter.                       *)
LEMMA AnswerStep == IInv /\ [Next]_vars => [Answer!Next]_(Answer!vars)
<1> SUFFICES ASSUME IInv, [Next]_vars PROVE [Answer!Next]_(Answer!vars)
  OBVIOUS
<1>1. CASE BeginStep \/ EndStep
  BY <1>1, Unseen DEF BeginStep, EndStep, Streaming, frames, signals
<1>2. CASE TextDelta \/ ToolErrorPart
  BY <1>2, SpeakStep DEF TextDelta, ToolErrorPart, Streaming, signals
<1>3. CASE FinishPart
  <2>1. turn = "attempt" /\ UNCHANGED signals
    BY <1>3 DEF FinishPart, Streaming
  <2>2. CASE ~useful /\ ~IsLast
    BY <1>3, <2>1, <2>2, Unseen DEF FinishPart, frames, signals
  <2>3. CASE ~(~useful /\ ~IsLast)
    <3>1. PICK reason \in {"tool-calls", "stop", "other"} :
            /\ EmitTerminal(FinishFrame(reason))
            /\ turn' = "closing"
            /\ UNCHANGED <<stream, speaker>>
      BY <1>3, <2>3 DEF FinishPart
    <3>2. FinishFrame(reason) \in Verdicts
      BY DEF FinishFrame, Verdicts
    <3>3. QED
      BY <2>1, <3>1, <3>2, EmitStep DEF signals
  <2>4. QED
    BY <2>2, <2>3
<1>4. CASE ErrorPart
  <2>1. turn = "attempt" /\ UNCHANGED signals
    BY <1>4 DEF ErrorPart, Streaming
  <2>2. CASE ~useful /\ ~IsLast
    BY <1>4, <2>1, <2>2, ThrowStep DEF ErrorPart
  <2>3. CASE ~(~useful /\ ~IsLast)
    BY <1>4, <2>1, <2>3, EmitStep DEF ErrorPart, signals, Verdicts
  <2>4. QED
    BY <2>2, <2>3
<1>5. CASE AbortPart
  <2>1. turn = "attempt" /\ UNCHANGED signals
    BY <1>5 DEF AbortPart, Streaming
  <2>2. CASE ~useful /\ (Aborted \/ ~IsLast)
    BY <1>5, <2>1, <2>2, ThrowStep DEF AbortPart
  <2>3. CASE ~(~useful /\ (Aborted \/ ~IsLast))
    BY <1>5, <2>1, <2>3, EmitStep DEF AbortPart, signals, Verdicts
  <2>4. QED
    BY <2>2, <2>3
<1>6. CASE StreamEnds
  BY <1>6, Unseen DEF StreamEnds, Fallback, frames, signals
<1>7. CASE StreamThrows
  BY <1>7, ThrowStep DEF StreamThrows
<1>8. ASSUME NEW c \in Searches, SearchCall(c) PROVE [Answer!Next]_(Answer!vars)
  BY <1>8, SpeakStep DEF SearchCall, CanCall, Streaming, signals
<1>9. ASSUME NEW c \in Executes, RefuseExecute(c) \/ StartExecute(c)
      PROVE  [Answer!Next]_(Answer!vars)
  BY <1>9, SpeakStep DEF RefuseExecute, StartExecute, CanCall, Streaming, signals
<1>10. ASSUME NEW c \in Executes, FinishExecute(c) PROVE UNCHANGED Answer!vars
  BY <1>10 DEF FinishExecute, frames, signals, Answer!vars
<1>11. CASE ReportCost \/ TurnTimeout
  BY <1>11 DEF ReportCost, TurnTimeout, frames, signals, Answer!vars
<1>12. CASE Settle
  BY <1>12, SettleStep
<1>13. CASE ClientLeaves
  BY <1>13 DEF ClientLeaves, Open, frames, Answer!Leave, Answer!Next
<1>14. CASE UNCHANGED vars
  BY <1>14 DEF vars, frames, signals, Answer!vars
<1>15. QED
  BY <1>1, <1>2, <1>3, <1>4, <1>5, <1>6, <1>7, <1>8, <1>9, <1>10, <1>11, <1>12,
     <1>13, <1>14 DEF Next, Part

(* A turn shows its browser one author and one verdict, and closes the     *)
(* stream only with the verdict in it (chat.ts).                           *)
THEOREM TurnImplementsOneAnswer == Spec => ImplementsOneAnswer
BY InitAnswer, AnswerStep, TurnInductive, PTL
   DEF Spec, ImplementsOneAnswer, Answer!Spec
-----------------------------------------------------------------------------
(* A set of positions has a least one.                                     *)
LEMMA LeastOf ==
  ASSUME NEW T, T \subseteq Nat, T # {}
  PROVE  \E x \in T : \A y \in T : x <= y
<1> DEFINE R == OpToRel(<, Nat)
<1>1. IsWellFoundedOn(R, Nat)
  BY NatLessThanWellFounded
<1>2. PICK x \in T : \A y \in T : ~ (<<y, x>> \in R)
  <2> HIDE DEF R
  <2> QED BY <1>1, WFMin, Zenon
<1>3. ASSUME NEW y \in T PROVE x <= y
  <2>1. x \in Nat /\ y \in Nat
    OBVIOUS
  <2>2. ~ (y < x)
    BY <1>2, <2>1 DEF OpToRel
  <2> QED BY <2>1, <2>2
<1> QED BY <1>3

(* The latest execute result is the one at the greatest position.          *)
LEMMA LatestResult ==
  ASSUME TypeOK, ExecuteResults # {}
  PROVE  \E i \in ExecuteResults :
           /\ \A j \in ExecuteResults : j <= i
           /\ LatestKind = results[i].kind
<1>1. results \in Seq([call : Calls, kind : Kinds])
  BY DEF TypeOK
<1>2. PICK n \in Nat : n = Len(results) /\ DOMAIN results = 1..n
  BY <1>1
<1> DEFINE T == {n - i : i \in ExecuteResults}
<1>3. \A i \in ExecuteResults : i \in 1..n
  BY <1>2 DEF ExecuteResults
<1>4. T \subseteq Nat /\ T # {}
  BY <1>3
<1>5. PICK x \in T : \A y \in T : x <= y
  <2> HIDE DEF T
  <2> QED BY <1>4, LeastOf
<1>6. PICK i \in ExecuteResults : x = n - i
  BY <1>5
<1>7. \A j \in ExecuteResults : j <= i
  <2> SUFFICES ASSUME NEW j \in ExecuteResults PROVE j <= i
    OBVIOUS
  <2>1. n - i <= n - j
    BY <1>5, <1>6
  <2> QED BY <1>3, <2>1
<1>8. Max(ExecuteResults) = i
  <2>1. \A k \in ExecuteResults : (\A j \in ExecuteResults : k >= j) => k = i
    BY <1>3, <1>7
  <2> QED BY <1>3, <1>7, <2>1 DEF Max
<1> QED BY <1>7, <1>8 DEF LatestKind

(* What the budget knows does not change with its counters and its latch.  *)
LEMMA PoorStays ==
  ASSUME PoorIsKnown, results' = results \/ results' = <<>>,
         budget'.evidence = budget.evidence, budget'.ops = budget.ops
  PROVE  PoorIsKnown'
<1>1. CASE results' = results
  BY <1>1 DEF PoorIsKnown, ExecuteResults
<1>2. CASE results' = <<>>
  BY <1>2 DEF PoorIsKnown, ExecuteResults
<1> QED BY <1>1, <1>2

(* A result is appended: by a search or a refusal, which leave the         *)
(* budget's evidence, or by an execute that settles, which brings its own. *)
LEMMA PoorAppended ==
  ASSUME TypeOK, PoorIsKnown, NEW r \in [call : Calls, kind : Kinds],
         results' = Append(results, r),
         \/ /\ r.kind \in {"search", "failed"}
            /\ budget'.evidence = budget.evidence /\ budget'.ops = budget.ops
         \/ /\ r.kind = "poor" => budget'.evidence \in {"none", "service-inconclusive"}
            /\ r.kind # "search"
            /\ budget'.evidence = "service-inconclusive" => budget'.ops # "none"
  PROVE  PoorIsKnown'
<1>1. results \in Seq([call : Calls, kind : Kinds])
  BY DEF TypeOK
<1>2. PICK n \in Nat : n = Len(results) /\ DOMAIN results = 1..n
  BY <1>1
<1>3. /\ DOMAIN results' = 1..(n + 1) /\ results'[n + 1] = r
      /\ \A i \in 1..n : results'[i] = results[i]
  BY <1>1, <1>2
<1>4. budget'.evidence = "service-inconclusive" => budget'.ops # "none"
  BY DEF PoorIsKnown
<1>5. ASSUME NEW i \in ExecuteResults', results'[i].kind = "poor",
             \A j \in ExecuteResults' : j <= i
      PROVE  budget'.evidence \in {"none", "service-inconclusive"}
  <2>1. i \in 1..(n + 1)
    BY <1>3, <1>5 DEF ExecuteResults
  <2>2. CASE i = n + 1
    BY <1>3, <1>5, <2>2
  <2>3. CASE i # n + 1
    <3>1. i \in 1..n /\ i \in ExecuteResults
      BY <1>2, <1>3, <1>5, <2>1, <2>3 DEF ExecuteResults
    <3>2. r.kind = "search"
      <4>1. n + 1 \notin ExecuteResults'
        BY <1>5, <3>1
      <4> QED BY <1>3, <4>1 DEF ExecuteResults
    <3>3. \A j \in ExecuteResults : j <= i
      BY <1>2, <1>3, <1>5 DEF ExecuteResults
    <3> QED BY <1>3, <1>5, <3>1, <3>2, <3>3 DEF PoorIsKnown
  <2> QED BY <2>2, <2>3
<1> QED BY <1>4, <1>5 DEF PoorIsKnown

(* The budget knows of a latest result without evidence.                   *)
THEOREM TurnPoorIsKnown == Spec => []PoorIsKnown
<1>1. Init => PoorIsKnown
  BY DEF Init, PoorIsKnown, ExecuteResults
<1>2. IInv /\ PoorIsKnown /\ [Next]_vars => PoorIsKnown'
  <2> SUFFICES ASSUME IInv, PoorIsKnown, [Next]_vars PROVE PoorIsKnown'
    OBVIOUS
  <2>0. TypeOK
    BY DEF IInv
  <2>1. CASE UNCHANGED tooling
    BY <2>1, PoorStays DEF tooling
  <2>2. CASE Fallback
    BY <2>2, PoorStays DEF Fallback
  <2>3. CASE BeginStep
    BY <2>0, <2>3, PoorStays DEF BeginStep, TypeOK
  <2>4. ASSUME NEW c \in Searches, SearchCall(c) PROVE PoorIsKnown'
    <3>1. [call |-> c, kind |-> "search"] \in [call : Calls, kind : Kinds]
      BY DEF Calls, Kinds
    <3>2. budget'.evidence = budget.evidence /\ budget'.ops = budget.ops
      BY <2>0, <2>4 DEF SearchCall, TypeOK
    <3> QED BY <2>0, <2>4, <3>1, <3>2, PoorAppended DEF SearchCall
  <2>5. ASSUME NEW c \in Executes, RefuseExecute(c) PROVE PoorIsKnown'
    <3>1. [call |-> c, kind |-> "failed"] \in [call : Calls, kind : Kinds]
      BY DEF Calls, Kinds
    <3> QED BY <2>0, <2>5, <3>1, PoorAppended DEF RefuseExecute
  <2>6. ASSUME NEW c \in Executes, StartExecute(c) PROVE PoorIsKnown'
    BY <2>0, <2>6, PoorStays DEF StartExecute, TypeOK
  <2>7. ASSUME NEW c \in Executes, FinishExecute(c) PROVE PoorIsKnown'
    <3>1. PICK o \in Outcomes :
            /\ budget' = Latch(c, o)
            /\ results' = Append(results, [call |-> c, kind |-> Signal(o)])
      BY <2>7 DEF FinishExecute
    <3>2. o \in ExecuteOutcome /\ (o.evidence = "service-inconclusive" => o.ops # "none")
      BY ConstantsAssumption
    <3>3. budget'.evidence = o.evidence /\ budget'.ops = o.ops
      BY <2>0, <3>1 DEF Latch, TypeOK
    <3>4. /\ Signal(o) \in Kinds /\ Signal(o) # "search"
          /\ Signal(o) = "poor" => o.evidence \in {"none", "service-inconclusive"}
      BY <3>2 DEF Signal, Kinds, ExecuteOutcome
    <3>5. [call |-> c, kind |-> Signal(o)] \in [call : Calls, kind : Kinds]
      BY <3>4 DEF Calls
    <3> QED BY <2>0, <3>1, <3>2, <3>3, <3>4, <3>5, PoorAppended
  <2>8. Throw => Fallback \/ UNCHANGED tooling
    BY DEF Throw, steps
  <2> QED
    BY <2>1, <2>2, <2>3, <2>4, <2>5, <2>6, <2>7, <2>8
       DEF Next, Part, vars, TextDelta, ToolErrorPart, EndStep, FinishPart, ErrorPart, AbortPart,
           StreamEnds, StreamThrows, ReportCost, Settle, ClientLeaves, TurnTimeout
<1> QED BY <1>1, <1>2, TurnInductive, PTL DEF Spec

(* A step is told of a truncation only if the latest execute result it can *)
(* see was truncated: the reasons that come first use up every other case  *)
(* (the last reason of prepareDemoStep).                                   *)
THEOREM TurnTruncationNote == Spec => TruncationNoteIsTrue
<1>1. IInv /\ PoorIsKnown => (NoteReason = "truncated" => LatestKind = "truncated")
  <2> SUFFICES ASSUME IInv, PoorIsKnown, NoteReason = "truncated"
               PROVE  LatestKind = "truncated"
    OBVIOUS
  <2>1. TypeOK
    BY DEF IInv
  <2>2. /\ NoteNeeded /\ ~ NoHostEvidence /\ ~ NoRowsEvidence /\ ~ HintPending
        /\ budget.ops # "bad" /\ EvidenceState # "navigation-only" /\ ~ SomeFailed
    BY DEF NoteReason
  <2>3. EvidenceState = "needs-recovery"
    BY <2>2 DEF NoteNeeded
  <2>4. ExecuteResults # {} /\ LatestKind # "grounded"
    BY <2>2, <2>3 DEF EvidenceState
  <2>5. PICK i \in ExecuteResults :
          /\ \A j \in ExecuteResults : j <= i
          /\ LatestKind = results[i].kind
    BY <2>1, <2>4, LatestResult
  <2>6. results[i].kind \in Kinds \ {"search", "failed"}
    <3>1. i \in DOMAIN results /\ results[i].kind # "search"
      BY <2>5 DEF ExecuteResults
    <3>2. results[i] \in [call : Calls, kind : Kinds]
      <4> DEFINE S == [call : Calls, kind : Kinds]
      <4>1. results \in Seq(S)
        BY <2>1 DEF TypeOK
      <4> HIDE DEF S
      <4>2. results[i] \in S
        BY <3>1, <4>1
      <4> QED BY <4>2 DEF S
    <3> QED BY <2>2, <3>1, <3>2 DEF SomeFailed
  <2>7. results[i].kind # "poor"
    <3>1. budget.ops \in {"none", "bad", "good"}
      BY <2>1 DEF TypeOK
    <3> QED BY <2>2, <2>5, <3>1 DEF PoorIsKnown, NoHostEvidence, NoRowsEvidence
  <2> QED BY <2>4, <2>5, <2>6, <2>7 DEF Kinds
<1> QED BY <1>1, TurnInductive, TurnPoorIsKnown, PTL DEF TruncationNoteIsTrue
=============================================================================
