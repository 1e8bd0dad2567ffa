-------------------------- MODULE SkillReadProofs --------------------------
(***************************************************************************)
(* The invariants of SkillRead for any body, catalog, request, companion   *)
(* files and deadline.  Timing carries the argument: it says which loads   *)
(* are in flight at each stage and that none of them is past its deadline, *)
(* from which the bound on the whole read follows, and that an answer is   *)
(* made only when every companion that is wanted has settled.  The slugs   *)
(* of a body are told apart by counting, one number more than there are    *)
(* slugs in use, and that a body has a numbering at all by its shortest    *)
(* beginning without one.                                                  *)
(***************************************************************************)
EXTENDS SkillRead, FiniteSetTheorems, WellFoundedInduction, TLAPS

\* First picks the least element of a set of positions.
LEMMA FirstIsLeast ==
  ASSUME NEW S \in SUBSET Nat, S # {}
  PROVE  First(S) \in S /\ \A j \in S : First(S) <= j
<1> DEFINE Less == {p \in Nat \X Nat : p[1] < p[2]}
<1>1. IsWellFoundedOn(Less, Nat)
  BY NatLessThanWellFounded, Zenon DEF OpToRel
<1>2. PICK i \in S : \A j \in S : ~ (<<j, i>> \in Less)
  <2> HIDE DEF Less
  <2> QED BY <1>1, WFMin
<1>3. ASSUME NEW j \in S PROVE i <= j
  <2>1. <<j, i>> \notin Less
    BY <1>2
  <2>2. ~ (j < i)
    BY <2>1
  <2> QED BY <2>2
<1> QED BY <1>3 DEF First

\* The initial states satisfy the invariant.
LEMMA InitIInv == Init => IInv
<1> SUFFICES ASSUME Init PROVE IInv
  OBVIOUS
<1> USE DEF Init
<1>1. TypeOK
  <2>1. PICK headings \in BoundedSeq(Headings, MaxHeadings) : body = Sectionize(headings)
    OBVIOUS
  <2>2. Len(headings) \in Nat
    BY ReadAssumption DEF BoundedSeq, SeqOf
  <2>3. DOMAIN body \subseteq Nat
    BY <2>1, <2>2 DEF Sectionize
  <2> QED BY <2>3 DEF TypeOK, NoAnswer
<1>2. Timing
  BY DEF Timing, Flying, NoAnswer, Loads
<1>3. WithinTwoDeadlines
  BY ReadAssumption DEF WithinTwoDeadlines
<1>4. AllOrNothing /\ FailClosed
  BY DEF AllOrNothing, FailClosed, NoAnswer
<1> QED BY <1>1, <1>2, <1>3, <1>4 DEF IInv

\* A step that refuses, with nothing left in flight, keeps the invariant.
LEMMA RefusalKeeps ==
  ASSUME IInv, Return(Refused), UNCHANGED <<input, now>>,
         load' \in [Loads -> {"idle", "flying", "text", "failed"}],
         due' \in [Loads -> Nat],
         \A f \in Loads : load'[f] # "flying"
  PROVE  IInv'
<1> USE DEF Return, Refused
<1>1. TypeOK'
  BY DEF IInv, TypeOK, input
<1>2. Timing'
  BY DEF Timing, Flying
<1>3. WithinTwoDeadlines'
  BY DEF IInv, WithinTwoDeadlines
<1>4. AllOrNothing' /\ FailClosed'
  BY DEF AllOrNothing, FailClosed
<1> QED BY <1>1, <1>2, <1>3, <1>4 DEF IInv

\* So does one that returns the loop over the request when every companion that
\* is wanted has its text and a catalog entry.
LEMMA AssembledKeeps ==
  ASSUME IInv, Return(Assembled), UNCHANGED <<input, now>>,
         request.kind = "sections",
         load' \in [Loads -> {"idle", "flying", "text", "failed"}],
         due' \in [Loads -> Nat],
         \A f \in Loads : load'[f] # "flying",
         \A f \in Wanted : load'[f] = "text",
         Wanted \subseteq catalog
  PROVE  IInv'
<1>1. CASE ~ \A i \in DOMAIN request.wants : Servable(request.wants[i])
  BY <1>1, RefusalKeeps DEF Assembled
<1>2. CASE \A i \in DOMAIN request.wants : Servable(request.wants[i])
  <2>1. /\ stage' = "done"
        /\ answer' = [kind |-> "sections",
                      found |-> [i \in DOMAIN request.wants |-> Piece(request.wants[i])],
                      keys |-> Available]
    BY <1>2 DEF Return, Assembled
  <2>2. TypeOK'
    BY <2>1 DEF IInv, TypeOK, input
  <2>3. Timing'
    BY <2>1 DEF Timing, Flying
  <2>4. WithinTwoDeadlines'
    BY DEF IInv, WithinTwoDeadlines
  <2>5. AllOrNothing'
    <3>1. \A i \in DOMAIN request.wants :
            request.wants[i] \in Files => load'[request.wants[i]] = "text"
      BY DEF Wanted
    <3> QED BY <2>1, <3>1 DEF AllOrNothing, Piece, input
  <2>6. FailClosed'
    <3> SUFFICES ASSUME NEW i \in DOMAIN request.wants
                 PROVE  LET piece == Piece(request.wants[i]) IN
                        IF piece.section \in Files THEN piece.from \in catalog
                        ELSE piece.from \in DOMAIN body /\ body[piece.from].slug \in catalog
      BY <2>1 DEF FailClosed, input
    <3>1. CASE request.wants[i] \in Files
      BY <3>1 DEF Piece, Wanted
    <3>2. CASE request.wants[i] \notin Files
      <4> DEFINE from == First(Meant(request.wants[i]))
      <4>1. Meant(request.wants[i]) # {} /\ body[from].slug \in catalog
        BY <1>2, <3>2 DEF Servable
      <4>0. Meant(request.wants[i]) \in SUBSET Nat
        BY DEF Meant, BySlug, ByHeading, IInv, TypeOK
      <4>2. from \in Meant(request.wants[i])
        BY <4>0, <4>1, FirstIsLeast
      <4>3. from \in DOMAIN body
        BY <4>2 DEF Meant, BySlug, ByHeading
      <4>4. Piece(request.wants[i]) = [section |-> request.wants[i], from |-> from]
        BY <3>2 DEF Piece
      <4> QED BY <3>2, <4>1, <4>3, <4>4
    <3> QED BY <3>1, <3>2
  <2> QED BY <2>2, <2>3, <2>4, <2>5, <2>6 DEF IInv
<1> QED BY <1>1, <1>2

\* What is said of answers says nothing before there is one.
LEMMA UnansweredKeeps ==
  ASSUME answer' = NoAnswer PROVE AllOrNothing' /\ FailClosed'
BY DEF AllOrNothing, FailClosed, NoAnswer

\* The read begins: refused at once, or waiting for the main file.
LEMMA BeginKeeps == ASSUME IInv, Begin PROVE IInv'
<1>1. stage = "start" /\ now = 0 /\ answer = NoAnswer
      /\ \A f \in Loads : load[f] = "idle"
  BY DEF IInv, Timing, Begin
<1>2. CASE request.kind = "invalid"
  BY <1>1, <1>2, RefusalKeeps DEF Begin, IInv, TypeOK, Flying
<1>3. CASE request.kind # "invalid"
  <2>1. /\ stage' = "main" /\ now' = now /\ answer' = answer /\ UNCHANGED input
        /\ load' = [f \in Loads |-> IF f = Main THEN "flying" ELSE load[f]]
        /\ due' = [f \in Loads |-> IF f = Main THEN now + ReadDeadline ELSE due[f]]
    BY <1>3 DEF Begin, Start
  <2>2. now \in Nat /\ load \in [Loads -> {"idle", "flying", "text", "failed"}] /\ due \in [Loads -> Nat]
    BY DEF IInv, TypeOK
  <2>3. load' \in [Loads -> {"idle", "flying", "text", "failed"}]
    BY <2>1, <2>2
  <2>4. due' \in [Loads -> Nat]
    BY <2>1, <2>2, ReadAssumption
  <2>5. TypeOK'
    BY <2>1, <2>3, <2>4 DEF IInv, TypeOK, input
  <2>6. Timing'
    <3>1. \A f \in Files : load'[f] = "idle"
      BY <1>1, <2>1, ReadAssumption DEF Loads
    <3>2. load'[Main] = "flying" /\ due'[Main] = ReadDeadline /\ now' <= due'[Main]
      BY <1>1, <2>1, ReadAssumption DEF Loads
    <3> QED BY <1>1, <2>1, <3>1, <3>2, ReadAssumption DEF Timing, Flying
  <2>7. WithinTwoDeadlines'
    BY <2>1 DEF IInv, WithinTwoDeadlines
  <2>8. AllOrNothing' /\ FailClosed'
    BY <1>1, <2>1, UnansweredKeeps
  <2> QED BY <2>5, <2>6, <2>7, <2>8 DEF IInv
<1> QED BY <1>2, <1>3

\* The main file is there.
LEMMA MainLoadedKeeps == ASSUME IInv, MainLoaded PROVE IInv'
<1> DEFINE loaded == [load EXCEPT ![Main] = "text"]
<1>1. /\ stage = "main" /\ answer = NoAnswer
      /\ now \in Nat /\ now <= due[Main] /\ due[Main] <= ReadDeadline
      /\ \A f \in Files : load[f] = "idle"
      /\ UNCHANGED <<input, now>>
  BY DEF IInv, Timing, TypeOK, MainLoaded
<1>2. load \in [Loads -> {"idle", "flying", "text", "failed"}] /\ due \in [Loads -> Nat]
  BY DEF IInv, TypeOK
<1>3. /\ loaded \in [Loads -> {"idle", "flying", "text", "failed"}]
      /\ loaded[Main] = "text" /\ \A f \in Files : loaded[f] = "idle"
  BY <1>1, <1>2, ReadAssumption DEF Loads
<1>4. \A f \in Loads : loaded[f] # "flying"
  BY <1>3 DEF Loads
<1> HIDE DEF loaded
<1>5. ASSUME Return(Refused), load' = loaded, UNCHANGED due PROVE IInv'
  BY <1>1, <1>2, <1>3, <1>4, <1>5, RefusalKeeps
<1>6. CASE /\ request.kind = "conflict"
           /\ Return(Refused)
           /\ load' = loaded /\ UNCHANGED due
  BY <1>5, <1>6
<1>7. CASE /\ request.kind = "whole"
           /\ Return(Whole)
           /\ load' = loaded /\ UNCHANGED due
  <2>1. CASE ~ Slugs \subseteq catalog
    BY <1>5, <1>7, <2>1 DEF Whole
  <2>2. CASE Slugs \subseteq catalog
    <3>1. stage' = "done" /\ answer' = [kind |-> "whole", keys |-> Available]
      BY <1>7, <2>2 DEF Return, Whole
    <3>2. TypeOK'
      BY <1>1, <1>2, <1>3, <1>7, <3>1 DEF IInv, TypeOK, input
    <3>3. Timing'
      BY <1>4, <1>7, <3>1 DEF Timing, Flying
    <3>4. WithinTwoDeadlines'
      BY <1>1 DEF IInv, WithinTwoDeadlines
    <3>5. AllOrNothing' /\ FailClosed'
      BY <1>1, <2>2, <3>1 DEF AllOrNothing, FailClosed, Slugs, input
    <3> QED BY <3>2, <3>3, <3>4, <3>5 DEF IInv
  <2> QED BY <2>1, <2>2
<1>8. CASE /\ request.kind = "sections"
           /\ Wanted = {} \/ ~ Wanted \subseteq catalog
           /\ Return(IF Wanted = {} THEN Assembled ELSE Refused)
           /\ load' = loaded /\ UNCHANGED due
  <2>1. CASE Wanted = {}
    BY <1>1, <1>2, <1>3, <1>4, <1>8, <2>1, AssembledKeeps
  <2>2. CASE Wanted # {}
    BY <1>5, <1>8, <2>2
  <2> QED BY <2>1, <2>2
<1>9. CASE /\ request.kind = "sections"
           /\ Wanted # {} /\ Wanted \subseteq catalog
           /\ stage' = "files" /\ Start(Wanted, loaded) /\ UNCHANGED answer
  <2>1. /\ load' = [f \in Loads |-> IF f \in Wanted THEN "flying" ELSE loaded[f]]
        /\ due' = [f \in Loads |-> IF f \in Wanted THEN now + ReadDeadline ELSE due[f]]
        /\ Wanted \subseteq Files
    BY <1>9 DEF Start, Wanted
  <2>2. TypeOK'
    <3>1. due' \in [Loads -> Nat]
      BY <1>1, <1>2, <2>1, ReadAssumption
    <3>2. load' \in [Loads -> {"idle", "flying", "text", "failed"}]
      BY <1>3, <2>1
    <3> QED BY <1>1, <1>9, <3>1, <3>2 DEF IInv, TypeOK, input
  <2>3. Timing'
    <3>1. Main \notin Wanted /\ Main \in Loads /\ Files \subseteq Loads
      BY <2>1, ReadAssumption DEF Loads
    <3>2. load'[Main] = "text"
      BY <1>3, <2>1, <3>1
    <3>3. /\ \A f \in Wanted : load'[f] = "flying"
          /\ \A f \in Files \ Wanted : load'[f] = "idle"
      BY <1>3, <2>1, <3>1
    <3>4. \A f \in Wanted : due'[f] <= 2 * ReadDeadline /\ now' <= due'[f]
      <4>1. now + ReadDeadline <= 2 * ReadDeadline /\ now <= now + ReadDeadline
        BY <1>1, <1>2, <3>1, ReadAssumption
      <4> QED BY <1>1, <2>1, <3>1, <4>1
    <3>5. Wanted' = Wanted /\ answer' = NoAnswer
      BY <1>1, <1>9 DEF Wanted, input
    <3>6. \E f \in Files : load'[f] = "flying"
      BY <1>9, <2>1, <3>3
    <3>7. request' = request /\ catalog' = catalog
      BY <1>1 DEF input
    <3> QED BY <1>9, <2>1, <3>2, <3>3, <3>4, <3>5, <3>6, <3>7 DEF Timing, Flying
  <2>4. WithinTwoDeadlines'
    BY <1>1 DEF IInv, WithinTwoDeadlines
  <2>5. AllOrNothing' /\ FailClosed'
    BY <1>1, <1>9, UnansweredKeeps
  <2> QED BY <2>2, <2>3, <2>4, <2>5 DEF IInv
<1> QED BY <1>6, <1>7, <1>8, <1>9 DEF MainLoaded, loaded

\* The main file fails, for the source or for its deadline.
LEMMA MainFailsKeeps == ASSUME IInv, MainFails PROVE IInv'
<1>1. /\ stage' = "done" /\ answer' = LoadError(Main)
      /\ load' = [load EXCEPT ![Main] = "failed"]
      /\ UNCHANGED <<input, due, now>>
      /\ \A f \in Files : load[f] = "idle"
  BY DEF IInv, Timing, MainFails, Return
<1>2. Main \in Loads /\ load \in [Loads -> {"idle", "flying", "text", "failed"}]
  BY DEF IInv, TypeOK, Loads
<1>3. TypeOK'
  BY <1>1, <1>2 DEF IInv, TypeOK, LoadError, input
<1>4. Timing'
  BY <1>1, <1>2 DEF Timing, Flying, Loads
<1>5. WithinTwoDeadlines'
  BY <1>1 DEF IInv, WithinTwoDeadlines
<1>6. AllOrNothing' /\ FailClosed'
  BY <1>1, <1>2 DEF AllOrNothing, FailClosed, LoadError
<1> QED BY <1>3, <1>4, <1>5, <1>6 DEF IInv

\* A companion settles, and the last one to settle ends the read.
LEMMA FileSettlesKeeps ==
  ASSUME IInv, NEW f \in Files, NEW outcome \in {"text", "failed"}, FileSettles(f, outcome)
  PROVE  IInv'
<1>1. /\ stage = "files" /\ answer = NoAnswer /\ request.kind = "sections"
      /\ load[Main] = "text" /\ Wanted \subseteq catalog
      /\ \A g \in Wanted : load[g] # "idle"
      /\ \A g \in Files \ Wanted : load[g] = "idle"
      /\ load[f] = "flying"
      /\ load' = [load EXCEPT ![f] = outcome]
      /\ UNCHANGED <<input, due, now>>
  BY DEF IInv, Timing, FileSettles, Flying
<1>2. /\ load \in [Loads -> {"idle", "flying", "text", "failed"}]
      /\ due \in [Loads -> Nat] /\ now \in Nat
      /\ Files \subseteq Loads /\ Main \in Loads /\ Main \notin Files
  BY ReadAssumption DEF IInv, TypeOK, Loads
<1>3. /\ load' \in [Loads -> {"idle", "flying", "text", "failed"}]
      /\ load'[f] = outcome /\ \A g \in Loads \ {f} : load'[g] = load[g]
  BY <1>1, <1>2
<1>4. f \in Wanted /\ load'[Main] = "text"
  BY <1>1, <1>2, <1>3
<1>5. WithinTwoDeadlines'
  BY <1>1 DEF IInv, WithinTwoDeadlines
<1>6. CASE \E g \in Files \ {f} : Flying(g)
  <2>1. stage' = stage /\ answer' = answer
    BY <1>6 DEF FileSettles
  <2>2. TypeOK'
    BY <1>1, <1>3, <2>1 DEF IInv, TypeOK, input
  <2>3. Timing'
    <3>1. /\ \A g \in Wanted : load'[g] # "idle"
          /\ \A g \in Files \ Wanted : load'[g] = "idle"
          /\ \E g \in Files : load'[g] = "flying"
      BY <1>1, <1>2, <1>3, <1>4, <1>6 DEF Flying
    <3>2. \A g \in Files : load'[g] = "flying" => due[g] <= 2 * ReadDeadline /\ now <= due[g]
      BY <1>1, <1>2, <1>3 DEF IInv, Timing, Flying
    <3>3. Wanted' = Wanted /\ request' = request /\ catalog' = catalog
      BY <1>1 DEF Wanted, input
    <3> QED BY <1>1, <1>4, <2>1, <3>1, <3>2, <3>3 DEF Timing, Flying
  <2>4. AllOrNothing' /\ FailClosed'
    BY <1>1, <2>1, UnansweredKeeps
  <2> QED BY <1>5, <2>2, <2>3, <2>4 DEF IInv
<1>7. CASE ~ \E g \in Files \ {f} : Flying(g)
  <2> DEFINE failed == {i \in DOMAIN request.wants :
                          request.wants[i] \in Files /\ load'[request.wants[i]] = "failed"}
  <2>1. Return(IF failed # {} THEN LoadError(request.wants[First(failed)]) ELSE Assembled)
    BY <1>7 DEF FileSettles, Collected
  <2>2. \A g \in Loads : load'[g] # "flying"
    BY <1>1, <1>2, <1>3, <1>4, <1>7 DEF Flying, Loads
  <2>3. \A g \in Wanted : load'[g] \in {"text", "failed"}
    <3>1. Wanted \subseteq Loads
      BY <1>2 DEF Wanted
    <3> QED BY <1>1, <1>3, <2>2, <3>1
  <2>4. CASE failed = {}
    <3>1. \A g \in Wanted : load'[g] = "text"
      BY <2>3, <2>4 DEF Wanted
    <3> QED BY <1>1, <1>2, <1>3, <2>1, <2>2, <2>4, <3>1, AssembledKeeps
  <2>5. CASE failed # {}
    <3> DEFINE first == First(failed)
    <3>1. PICK m \in Nat : DOMAIN request.wants = 1..m
      BY <1>1, ReadAssumption DEF IInv, TypeOK, Requests, BoundedSeq, SeqOf
    <3>2. first \in failed /\ \A j \in failed : first <= j
      <4>1. failed \in SUBSET Nat
        BY <3>1
      <4> HIDE DEF failed
      <4> QED BY <2>5, <4>1, FirstIsLeast
    <3>3. stage' = "done" /\ answer' = LoadError(request.wants[first])
      BY <2>1, <2>5 DEF Return
    <3>4. TypeOK'
      BY <1>1, <1>3, <3>3 DEF IInv, TypeOK, input, LoadError
    <3>5. Timing'
      BY <2>2, <3>3 DEF Timing, Flying
    <3>6. \A j \in 1..(first - 1) : j \in DOMAIN request.wants /\ j \notin failed
      <4>1. first \in 1..m
        BY <3>1, <3>2
      <4>2. failed \subseteq 1..m
        BY <3>1
      <4> HIDE DEF failed, first
      <4> QED BY <3>1, <3>2, <4>1, <4>2
    <3>7. \A j \in 1..(first - 1) :
            request.wants[j] \in Files => load'[request.wants[j]] = "text"
      BY <2>3, <3>6 DEF Wanted
    <3>8. AllOrNothing' /\ FailClosed'
      BY <1>1, <3>2, <3>3, <3>7 DEF AllOrNothing, FailClosed, LoadError, input
    <3> QED BY <1>5, <3>4, <3>5, <3>8 DEF IInv
  <2> QED BY <2>4, <2>5
<1> QED BY <1>6, <1>7

\* Time passes.
LEMMA TickKeeps == ASSUME IInv, Tick PROVE IInv'
<1>1. /\ stage \in {"main", "files"}
      /\ \A f \in Loads : load[f] = "flying" => now < due[f]
      /\ now' = now + 1
      /\ UNCHANGED <<body, catalog, request, stage, load, due, answer>>
  BY DEF Tick, Flying, input
<1>2. now \in Nat /\ due \in [Loads -> Nat] /\ Files \subseteq Loads /\ Main \in Loads
  BY DEF IInv, TypeOK, Loads
<1>3. \A f \in Loads : load[f] = "flying" => now' <= due[f]
  BY <1>1, <1>2
<1>4. TypeOK'
  BY <1>1, <1>2 DEF IInv, TypeOK
<1>5. Timing'
  <2>1. CASE stage = "main"
    BY <1>1, <1>2, <1>3, <2>1 DEF IInv, Timing, Flying
  <2>2. CASE stage = "files"
    BY <1>1, <1>2, <1>3, <2>2 DEF IInv, Timing, Flying, Wanted
  <2> QED BY <1>1, <2>1, <2>2
<1>6. WithinTwoDeadlines'
  <2>1. CASE stage = "main"
    <3>1. now' <= due[Main] /\ due[Main] <= ReadDeadline
      BY <1>2, <1>3, <2>1 DEF IInv, Timing, Flying
    <3> QED BY <1>1, <1>2, <3>1, ReadAssumption DEF WithinTwoDeadlines
  <2>2. CASE stage = "files"
    <3>1. PICK f \in Files : load[f] = "flying" /\ due[f] <= 2 * ReadDeadline
      BY <2>2 DEF IInv, Timing, Flying
    <3> QED BY <1>1, <1>2, <1>3, <3>1, ReadAssumption DEF WithinTwoDeadlines
  <2> QED BY <1>1, <2>1, <2>2
<1>7. AllOrNothing' /\ FailClosed'
  BY <1>1, UnansweredKeeps DEF IInv, Timing
<1> QED BY <1>4, <1>5, <1>6, <1>7 DEF IInv

\* Every step keeps the invariant.
LEMMA NextKeeps == IInv /\ [Next]_vars => IInv'
<1> SUFFICES ASSUME IInv, [Next]_vars PROVE IInv'
  OBVIOUS
<1>1. CASE Begin
  BY <1>1, BeginKeeps
<1>2. CASE SourceAnswers
  BY <1>2, MainLoadedKeeps, MainFailsKeeps, FileSettlesKeeps DEF SourceAnswers
<1>3. CASE Deadline
  BY <1>3, MainFailsKeeps, FileSettlesKeeps DEF Deadline
<1>4. CASE Tick
  BY <1>4, TickKeeps
<1>5. CASE UNCHANGED vars
  <2> USE <1>5 DEF vars
  <2>1. TypeOK' /\ WithinTwoDeadlines'
    BY DEF IInv, TypeOK, WithinTwoDeadlines
  <2>2. Timing'
    BY DEF IInv, Timing, Flying, Wanted
  <2>3. AllOrNothing' /\ FailClosed'
    BY DEF IInv, AllOrNothing, FailClosed, Slugs
  <2> QED BY <2>1, <2>2, <2>3 DEF IInv
<1> QED BY <1>1, <1>2, <1>3, <1>4, <1>5 DEF Next

\* The inductive invariant of a read holds for any body, catalog, companion
\* files and deadline.
THEOREM ReadInductive == Spec => []IInv
BY InitIInv, NextKeeps, PTL DEF Spec

\* A read with any number of companion files ends within two deadlines.
THEOREM ReadWithinTwoDeadlines == Spec => []WithinTwoDeadlines
<1>1. IInv => WithinTwoDeadlines
  BY DEF IInv
<1> QED BY <1>1, ReadInductive, PTL

\* A section read is all or nothing, and its error names the first file of the
\* request that failed.
THEOREM ReadAllOrNothing == Spec => []AllOrNothing
<1>1. IInv => AllOrNothing
  BY DEF IInv
<1> QED BY <1>1, ReadInductive, PTL

\* Nothing is served that the catalog does not list.
THEOREM ReadFailClosed == Spec => []FailClosed
<1>1. IInv => FailClosed
  BY DEF IInv
<1> QED BY <1>1, ReadInductive, PTL

-----------------------------------------------------------------------------
(* The sections of a body: sectionize gives no slug twice.                 *)

\* Two numbers appended to one slug give two slugs.
LEMMA NumbersDiffer ==
  ASSUME NEW s, s \in Seq(ToSet(s)), NEW m \in Nat, NEW n \in Nat, Append(s, m) = Append(s, n)
  PROVE  m = n
<1> DEFINE S == ToSet(s) \cup Nat
<1>1. s \in Seq(S)
  <2>1. \A k \in DOMAIN s : s[k] \in S
    BY DEF ToSet
  <2>2. Len(s) \in Nat /\ DOMAIN s = 1..Len(s)
    OBVIOUS
  <2>3. s = [k \in 1..Len(s) |-> s[k]]
    BY <2>2
  <2> HIDE DEF S
  <2> QED BY <2>1, <2>2, <2>3
<1>2. m \in S /\ n \in S
  OBVIOUS
<1> HIDE DEF S
<1>3. Append(s, m)[Len(s) + 1] = m /\ Append(s, n)[Len(s) + 1] = n
  BY <1>1, <1>2
<1> QED BY <1>3

\* Of one number more than slugs in use, one is free: the loop of sectionize ends,
\* with a slug that is not in use.
LEMMA FreshSlugIsFresh ==
  ASSUME NEW s, s \in Seq(ToSet(s)), NEW used, IsFiniteSet(used)
  PROVE  FreshSlug(s, used) \notin used
<1>1. CASE s \notin used
  BY <1>1 DEF FreshSlug
<1>2. CASE s \in used
  <2>1. PICK c \in Nat : c = Cardinality(used)
    BY FS_CardinalityType
  <2> DEFINE Free == {n \in 2..(c + 2) : Append(s, n) \notin used}
  <2>2. Free # {}
    <3> SUFFICES ASSUME \A n \in 2..(c + 2) : Append(s, n) \in used PROVE FALSE
      OBVIOUS
    <3> DEFINE f == [n \in 2..(c + 2) |-> Append(s, n)]
    <3>1. f \in [2..(c + 2) -> used]
      OBVIOUS
    <3>2. IsFiniteSet(2..(c + 2)) /\ Cardinality(2..(c + 2)) = c + 1
      BY FS_Interval
    <3>3. PICK m, n \in 2..(c + 2) : m # n /\ f[m] = f[n]
      <4> HIDE DEF f
      <4> QED BY <2>1, <3>1, <3>2, FS_PigeonHole
    <3>4. Append(s, m) = Append(s, n) /\ m \in Nat /\ n \in Nat
      BY <3>3
    <3> QED BY <3>3, <3>4, NumbersDiffer
  <2>3. First(Free) \in Free /\ \A m \in Free : First(Free) <= m
    <3>1. Free \in SUBSET Nat
      OBVIOUS
    <3> HIDE DEF Free
    <3> QED BY <2>2, <3>1, FirstIsLeast
  <2> DEFINE Least(n) == /\ Append(s, n) \notin used
                         /\ \A m \in 2..(n - 1) : Append(s, m) \in used
  <2>4. PICK n \in 2..(c + 2) : n = First(Free) /\ Least(n)
    <3>1. \A m \in 2..(First(Free) - 1) : m \in 2..(c + 2) /\ m \notin Free
      BY <2>3
    <3> QED BY <2>3, <3>1
  <2>5. Least(CHOOSE k \in 2..(c + 2) : Least(k))
    <3> HIDE DEF Least
    <3> QED BY <2>4, Zenon
  <2> QED BY <1>2, <2>1, <2>5 DEF FreshSlug
<1> QED BY <1>1, <1>2

\* The slugs of a body of n headings, each fresh among those before it.
IsNumbering(slug, headings, n) ==
  slug = [i \in 1..n |-> FreshSlug(headings[i].slug, {slug[j] : j \in 1..(i - 1)})]

\* One more heading extends a numbering.
LEMMA NumberingExtends ==
  ASSUME NEW headings, NEW n \in Nat, NEW g, IsNumbering(g, headings, n)
  PROVE  \E h : IsNumbering(h, headings, n + 1)
<1> DEFINE new == FreshSlug(headings[n + 1].slug, {g[j] : j \in 1..n})
           h == [i \in 1..(n + 1) |-> IF i = n + 1 THEN new ELSE g[i]]
<1>1. \A i \in 1..(n + 1) : {h[j] : j \in 1..(i - 1)} = {g[j] : j \in 1..(i - 1)}
  <2> SUFFICES ASSUME NEW i \in 1..(n + 1)
               PROVE  {h[j] : j \in 1..(i - 1)} = {g[j] : j \in 1..(i - 1)}
    OBVIOUS
  <2>1. \A j \in 1..(i - 1) : h[j] = g[j]
    OBVIOUS
  <2> HIDE DEF h
  <2> QED BY <2>1
<1>2. \A i \in 1..n : g[i] = FreshSlug(headings[i].slug, {g[j] : j \in 1..(i - 1)})
  BY DEF IsNumbering
<1>3. \A i \in 1..(n + 1) :
        h[i] = FreshSlug(headings[i].slug, {h[j] : j \in 1..(i - 1)})
  <2> SUFFICES ASSUME NEW i \in 1..(n + 1)
               PROVE  h[i] = FreshSlug(headings[i].slug, {h[j] : j \in 1..(i - 1)})
    OBVIOUS
  <2>1. h[i] = FreshSlug(headings[i].slug, {g[j] : j \in 1..(i - 1)})
    <3>1. CASE i = n + 1
      <4>1. i - 1 = n
        BY <3>1
      <4> QED BY <3>1, <4>1
    <3>2. CASE i # n + 1
      <4>1. i \in 1..n /\ h[i] = g[i]
        BY <3>2
      <4> HIDE DEF h
      <4> QED BY <1>2, <4>1
    <3> QED BY <3>1, <3>2
  <2> QED BY <1>1, <2>1
<1>4. h = [i \in 1..(n + 1) |-> h[i]]
  OBVIOUS
<1> HIDE DEF h
<1>5. IsNumbering(h, headings, n + 1)
  BY <1>3, <1>4 DEF IsNumbering
<1> QED BY <1>5

\* So every body has its slugs: what sectionize is defined by exists.
LEMMA NumberingExists ==
  ASSUME NEW headings, NEW n \in Nat
  PROVE  \E g : IsNumbering(g, headings, n)
<1> DEFINE Lacking == {k \in Nat : ~ \E g : IsNumbering(g, headings, k)}
<1> SUFFICES ASSUME Lacking # {} PROVE FALSE
  OBVIOUS
<1>1. First(Lacking) \in Lacking /\ \A k \in Lacking : First(Lacking) <= k
  <2>1. Lacking \in SUBSET Nat
    OBVIOUS
  <2> HIDE DEF Lacking
  <2> QED BY <2>1, FirstIsLeast
<1>2. PICK k \in Nat : k = First(Lacking)
  BY <1>1
<1>3. CASE k = 0
  <2>1. IsNumbering(<<>>, headings, 0)
    BY DEF IsNumbering
  <2> QED BY <1>1, <1>2, <1>3, <2>1
<1>4. CASE k # 0
  <2>1. k - 1 \in Nat /\ ~ (k <= k - 1) /\ (k - 1) + 1 = k
    BY <1>4
  <2>2. PICK g : IsNumbering(g, headings, k - 1)
    BY <1>1, <1>2, <2>1
  <2>3. \E h : IsNumbering(h, headings, k)
    BY <2>1, <2>2, NumberingExtends
  <2> QED BY <1>1, <1>2, <2>3
<1> QED BY <1>3, <1>4

\* No two sections of a body have one slug, for any headings.
LEMMA SlugsDiffer ==
  ASSUME NEW headings \in BoundedSeq(Headings, MaxHeadings), body = Sectionize(headings)
  PROVE  \A i, j \in DOMAIN body : body[i].slug = body[j].slug => i = j
<1>1. PICK n \in Nat : headings \in [1..n -> Headings] /\ Len(headings) = n
  BY ReadAssumption DEF BoundedSeq, SeqOf
<1>2. PICK slug : /\ IsNumbering(slug, headings, n)
                  /\ body = [i \in 1..n |-> [heading |-> headings[i], slug |-> slug[i]]]
  <2> DEFINE g == CHOOSE g : IsNumbering(g, headings, n)
  <2>1. IsNumbering(g, headings, n)
    BY <1>1, NumberingExists, Zenon
  <2>2. body = [i \in 1..n |-> [heading |-> headings[i], slug |-> g[i]]]
    BY <1>1 DEF Sectionize, IsNumbering
  <2> HIDE DEF g
  <2> QED BY <2>1, <2>2
<1>3. ASSUME NEW i \in 1..n, NEW j \in 1..n, i < j
      PROVE  slug[i] # slug[j]
  <2> DEFINE used == {slug[k] : k \in 1..(j - 1)}
  <2>1. slug[i] \in used
    BY <1>3
  <2>2. slug[j] = FreshSlug(headings[j].slug, used)
    BY <1>2 DEF IsNumbering
  <2>3. IsFiniteSet(used)
    <3> DEFINE f == [k \in 1..(j - 1) |-> slug[k]]
    <3>1. f \in Surjection(1..(j - 1), used)
      BY DEF Surjection
    <3>2. IsFiniteSet(1..(j - 1))
      BY FS_Interval
    <3> HIDE DEF f, used
    <3> QED BY <3>1, <3>2, FS_Surjection
  <2>4. headings[j].slug \in Seq(ToSet(headings[j].slug))
    BY <1>1, ReadAssumption
  <2> HIDE DEF used
  <2> QED BY <2>1, <2>2, <2>3, <2>4, FreshSlugIsFresh
<1>4. ASSUME NEW i \in 1..n, NEW j \in 1..n, i # j
      PROVE  slug[i] # slug[j]
  <2>1. i < j \/ j < i
    BY <1>4
  <2> QED BY <1>3, <2>1
<1> QED BY <1>2, <1>4

\* What the answer of a whole read rests on: slugs that differ, and keys that are
\* those the catalog has of the body.
Addressed ==
  /\ \A i, j \in DOMAIN body : body[i].slug = body[j].slug => i = j
  /\ answer.kind = "whole" => Slugs \subseteq catalog /\ answer.keys = Available

\* Only a whole read answers so, and what it answers with stays.
LEMMA AddressedKeeps ==
  ASSUME Addressed, [Next]_vars
  PROVE  Addressed'
<1>1. body' = body /\ catalog' = catalog
  BY DEF Next, vars, input, Begin, SourceAnswers, Deadline, Tick, MainLoaded, MainFails, FileSettles
<1>2. \/ answer' = answer
      \/ answer' = Whole
      \/ answer'.kind \in {"refused", "load", "sections"}
  <2>1. Refused.kind = "refused" /\ \A f : LoadError(f).kind = "load"
    BY DEF Refused, LoadError
  <2>2. Assembled.kind \in {"refused", "sections"}
    BY DEF Assembled, Refused
  <2>3. \A l : Collected(l).kind \in {"refused", "load", "sections"}
    BY <2>1, <2>2 DEF Collected
  <2>4. CASE Begin
    BY <2>1, <2>4 DEF Begin, Return
  <2>5. CASE MainLoaded
    BY <2>1, <2>2, <2>5 DEF MainLoaded, Return
  <2>6. CASE MainFails
    BY <2>1, <2>6 DEF MainFails, Return
  <2>7. ASSUME NEW f \in Files, NEW outcome \in {"text", "failed"}, FileSettles(f, outcome)
        PROVE  answer' = answer \/ answer'.kind \in {"refused", "load", "sections"}
    BY <2>3, <2>7 DEF FileSettles, Return
  <2>8. CASE Tick \/ UNCHANGED vars
    BY <2>8 DEF Tick, vars
  <2> QED BY <2>4, <2>5, <2>6, <2>7, <2>8 DEF Next, SourceAnswers, Deadline
<1>3. answer'.kind = "whole" => Slugs \subseteq catalog /\ answer'.keys = Available
  BY <1>2 DEF Addressed, Whole, Refused
<1> QED BY <1>1, <1>3 DEF Addressed, Slugs, Available

\* Every section of a body that is served whole can be read by its own key, for
\* any headings, however they repeat or look like numbered repetitions of others
\* (store.ts:155-181).
THEOREM ReadSectionsAddressable == Spec => []SectionsAddressable
<1>1. Init => Addressed
  BY SlugsDiffer DEF Init, Addressed, NoAnswer
<1>2. Addressed /\ [Next]_vars => Addressed'
  BY AddressedKeeps
<1>3. Addressed => SectionsAddressable
  <2> SUFFICES ASSUME Addressed, answer.kind = "whole", NEW i \in DOMAIN body
               PROVE  body[i].slug \in answer.keys /\ BySlug(body[i]) = {i}
    BY DEF SectionsAddressable
  <2>1. body[i].slug \in Slugs
    BY DEF Slugs
  <2> QED BY <2>1 DEF Addressed, Available, BySlug
<1> QED BY <1>1, <1>2, <1>3, PTL DEF Spec
=============================================================================
