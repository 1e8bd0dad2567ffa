-------------------------- MODULE ExecuteRunProofs --------------------------
(***************************************************************************)
(* Proofs about one run of the execute tool, for any number of host calls  *)
(* of each kind and any caps.                                              *)
(***************************************************************************)
EXTENDS ExecuteRun, FiniteSetTheorems, TLAPS

(* The initial state satisfies the invariant.                              *)
LEMMA InitIInv == Init => IInv
<1> SUFFICES ASSUME Init PROVE IInv
  OBVIOUS
<1> USE ExecuteAssumption, KindsAssumption DEF Init
<1>1. TypeOK
  BY DEF TypeOK, Stages, Answers, Kinds, States
<1>2. Seen = {}
  BY DEF Seen, Calls
<1>3. /\ Started(Reads) = {} /\ Started(Infos) = {}
      /\ Answered(Reads) = {} /\ Answered(SkillReads) = {}
      /\ AtBucket(Reads) = {} /\ AtBucket(Infos) = {}
  BY DEF Started, Answered, AtBucket, Calls
<1>4. ReadsCounted /\ BucketCaps
  BY <1>3, FS_EmptySet DEF ReadsCounted, BucketCaps
<1>5. AnswersInOrder /\ RecordedFirst /\ SnapshotOnce
  BY DEF AnswersInOrder, RecordedFirst, SnapshotOnce, Summarised, Calls
<1>6. SeenIsReported /\ EvidenceCoversSeen /\ FooterIsHonest
  BY DEF SeenIsReported, EvidenceCoversSeen, FooterIsHonest, Summarised
<1>7. QED
  BY <1>1, <1>4, <1>5, <1>6 DEF IInv

(* What the script was given is on record.                                 *)
LEMMA SeenRecorded == ASSUME IInv PROVE Seen \subseteq ledger
BY DEF IInv, RecordedFirst, Seen

(* An answer that is not handed over leaves what was seen alone.           *)
LEMMA NotSeen ==
  ASSUME TypeOK, NEW c \in Calls, NEW to \in Stages \ {"seen"},
         stage[c] # "seen", Goes(c, to),
         \A o \in Ops \ {c} : caller'[o] = caller[o],
         \A s \in SkillRuns \ {c} : audit'[s] = audit[s]
  PROVE  /\ Seen' = Seen
         /\ \A d \in Calls : stage'[d] = "seen" <=> stage[d] = "seen"
<1>1. \A d \in Calls : stage'[d] = "seen" <=> stage[d] = "seen"
  BY DEF TypeOK, Goes
<1>2. \A o \in Ops : (caller'[o] = Script /\ stage'[o] = "seen")
                        <=> (caller[o] = Script /\ stage[o] = "seen")
  BY <1>1 DEF Calls
<1>3. \A s \in SkillRuns : stage[s] = "seen" => s # c
  OBVIOUS
<1>4. Seen' = Seen
  BY <1>1, <1>2, <1>3 DEF Seen, Calls
<1>5. QED
  BY <1>1, <1>4

(* A host call keeps the invariant if it keeps the parts about calls, adds *)
(* only to the ledger, and leaves what was seen alone once the script is   *)
(* over.                                                                   *)
LEMMA HostStep ==
  ASSUME IInv, UNCHANGED <<ending, reply>>,
         TypeOK', AnswersInOrder', RecordedFirst', ReadsCounted', BucketCaps',
         ledger \subseteq ledger',
         \A o \in ledger : answer'[o] = answer[o],
         \A c \in Calls : stage[c] = "seen" => answer'[c] = answer[c],
         script # "running" =>
           /\ Seen' = Seen
           /\ \A d \in Reads \cup SkillReads :
                stage'[d] = "seen" <=> stage[d] = "seen"
  PROVE  IInv'
<1>1. SnapshotOnce'
  BY DEF IInv, SnapshotOnce, Summarised, ending, reply
<1>2. Summarised' <=> Summarised
  BY DEF Summarised, reply
<1>3. CASE ~Summarised
  BY <1>1, <1>2, <1>3 DEF IInv, SeenIsReported, EvidenceCoversSeen,
     FooterIsHonest, Summarised, reply
<1>4. CASE Summarised
  <2>1. script # "running"
    BY <1>4 DEF IInv, SnapshotOnce
  <2>2. Seen' = Seen /\ Seen \subseteq ledger
    BY <2>1, SeenRecorded
  <2>3. SeenIsReported'
    BY <1>4, <2>2 DEF IInv, SeenIsReported, reply
  <2>4. EvidenceCoversSeen'
    <3>1. {c \in Reads : stage'[c] = "seen"} = {c \in Reads : stage[c] = "seen"}
      BY <2>1 DEF Calls
    <3>2. \A c \in SkillReads : stage'[c] = "seen" /\ answer'[c] = "content"
            => stage[c] = "seen" /\ answer[c] = "content"
      BY <2>1 DEF Calls
    <3>3. QED
      BY <1>4, <2>1, <2>2, <3>1, <3>2 DEF IInv, EvidenceCoversSeen, reply, Calls
  <2>5. FooterIsHonest'
    BY <2>2 DEF IInv, FooterIsHonest, reply, ending
  <2>6. QED
    BY <1>1, <2>3, <2>4, <2>5 DEF IInv
<1>5. QED
  BY <1>3, <1>4

(* A move of a call that is no artifact call leaves the counts alone.      *)
LEMMA Elsewhere ==
  ASSUME IInv, NEW c \in Calls, c \notin Reads \cup Infos,
         NEW to \in Stages, Goes(c, to),
         \A d \in Calls \ {c} : answer'[d] = answer[d],
         reads' = reads, infos' = infos, stats' = stats,
         \A d \in Answered(SkillReads)' : answer'[d] = "content" => skillRead'
  PROVE  ReadsCounted' /\ BucketCaps'
<1>1. \A d \in Reads \cup Infos : stage'[d] = stage[d] /\ answer'[d] = answer[d]
  BY DEF IInv, TypeOK, Goes, Calls
<1>2. /\ Started(Reads)' = Started(Reads) /\ Started(Infos)' = Started(Infos)
      /\ Answered(Reads)' = Answered(Reads)
      /\ AtBucket(Reads)' = AtBucket(Reads) /\ AtBucket(Infos)' = AtBucket(Infos)
  BY <1>1 DEF Started, Answered, AtBucket
<1>3. QED
  BY <1>2 DEF IInv, ReadsCounted, BucketCaps

(* An operation the argument guard refuses.                                *)
LEMMA RefuseOpKeeps == ASSUME IInv, NEW o \in Ops, RefuseOp(o) PROVE IInv'
<1> USE KindsAssumption DEF RefuseOp
<1>1. /\ o \in Calls /\ o \notin Reads \cup Infos
      /\ o \notin SkillRuns /\ o \notin SkillReads
  BY DEF Calls
<1>2. TypeOK /\ TypeOK'
  <2>1. caller' \in [Ops -> SkillRuns \cup {Script}]
    BY DEF IInv, TypeOK, Callers
  <2>2. stage' \in [Calls -> Stages] /\ answer' \in [Calls -> Answers]
    BY <1>1 DEF IInv, TypeOK, Goes, Comes, Stages, Answers, Outcomes, Oks, WithRows
  <2>3. QED
    BY <2>1, <2>2 DEF IInv, TypeOK, ending, reply
<1>3. AnswersInOrder'
  BY <1>1, <1>2 DEF IInv, AnswersInOrder, TypeOK, Goes, Comes, Calls, Outcomes, Oks, WithRows
<1>4. RecordedFirst'
  BY <1>1, <1>2 DEF IInv, RecordedFirst, TypeOK, Goes, Calls
<1>5. ReadsCounted' /\ BucketCaps'
  <2>1. \A d \in Calls \ {o} : answer'[d] = answer[d]
    BY <1>2 DEF TypeOK, Comes
  <2>2. \A d \in Answered(SkillReads)' : answer'[d] = "content" => skillRead'
    BY <1>1, <1>2, <2>1 DEF IInv, ReadsCounted, Answered, TypeOK, Goes, Calls
  <2>3. QED
    BY <1>1, <1>2, <2>1, <2>2, Elsewhere DEF Stages
<1>6. Seen' = Seen /\ \A d \in Calls : stage'[d] = "seen" <=> stage[d] = "seen"
  <2>1. stage[o] # "seen" /\ \A d \in Ops \ {o} : caller'[d] = caller[d]
    BY <1>2 DEF TypeOK
  <2>2. \A s \in SkillRuns : audit'[s] = audit[s]
    OBVIOUS
  <2>3. QED
    BY <1>1, <1>2, <2>1, <2>2, NotSeen DEF Stages
<1>7. \A d \in ledger : answer'[d] = answer[d]
  BY <1>1, <1>2 DEF IInv, RecordedFirst, TypeOK, Comes
<1>8. \A d \in Calls : stage[d] = "seen" => answer'[d] = answer[d]
  BY <1>1, <1>2 DEF TypeOK, Comes
<1>9. QED
  BY <1>2, <1>3, <1>4, <1>5, <1>6, <1>7, <1>8, HostStep DEF ending, reply, Calls

(* An operation that is sent to its service.                               *)
LEMMA StartOpKeeps == ASSUME IInv, NEW o \in Ops, StartOp(o) PROVE IInv'
<1> USE KindsAssumption DEF StartOp
<1>1. /\ o \in Calls /\ o \notin Reads \cup Infos
      /\ o \notin SkillRuns /\ o \notin SkillReads
  BY DEF Calls
<1>2. TypeOK /\ TypeOK'
  <2>1. caller' \in [Ops -> SkillRuns \cup {Script}]
    BY DEF IInv, TypeOK, Callers
  <2>2. stage' \in [Calls -> Stages] /\ answer' \in [Calls -> Answers]
    BY <1>1 DEF IInv, TypeOK, Goes, Comes, Stages, Answers, Outcomes, Oks, WithRows
  <2>3. QED
    BY <2>1, <2>2 DEF IInv, TypeOK, ending, reply
<1>3. AnswersInOrder'
  BY <1>1, <1>2 DEF IInv, AnswersInOrder, TypeOK, Goes, Comes, Calls, Outcomes, Oks, WithRows
<1>4. RecordedFirst'
  BY <1>1, <1>2 DEF IInv, RecordedFirst, TypeOK, Goes, Calls
<1>5. ReadsCounted' /\ BucketCaps'
  <2>1. \A d \in Calls \ {o} : answer'[d] = answer[d]
    BY <1>2 DEF TypeOK, Comes
  <2>2. \A d \in Answered(SkillReads)' : answer'[d] = "content" => skillRead'
    BY <1>1, <1>2, <2>1 DEF IInv, ReadsCounted, Answered, TypeOK, Goes, Calls
  <2>3. QED
    BY <1>1, <1>2, <2>1, <2>2, Elsewhere DEF Stages
<1>6. Seen' = Seen /\ \A d \in Calls : stage'[d] = "seen" <=> stage[d] = "seen"
  <2>1. stage[o] # "seen" /\ \A d \in Ops \ {o} : caller'[d] = caller[d]
    BY <1>2 DEF TypeOK
  <2>2. \A s \in SkillRuns : audit'[s] = audit[s]
    OBVIOUS
  <2>3. QED
    BY <1>1, <1>2, <2>1, <2>2, NotSeen DEF Stages
<1>7. \A d \in ledger : answer'[d] = answer[d]
  BY <1>1, <1>2 DEF IInv, RecordedFirst, TypeOK, Comes
<1>8. \A d \in Calls : stage[d] = "seen" => answer'[d] = answer[d]
  BY <1>1, <1>2 DEF TypeOK, Comes
<1>9. QED
  BY <1>2, <1>3, <1>4, <1>5, <1>6, <1>7, <1>8, HostStep DEF ending, reply, Calls

(* An operation that comes back.                                           *)
LEMMA FinishOpKeeps == ASSUME IInv, NEW o \in Ops, FinishOp(o) PROVE IInv'
<1> USE KindsAssumption DEF FinishOp
<1>1. /\ o \in Calls /\ o \notin Reads \cup Infos
      /\ o \notin SkillRuns /\ o \notin SkillReads
  BY DEF Calls
<1>2. TypeOK /\ TypeOK'
  <2>1. caller' \in [Ops -> SkillRuns \cup {Script}]
    BY DEF IInv, TypeOK, Callers
  <2>2. stage' \in [Calls -> Stages] /\ answer' \in [Calls -> Answers]
    BY <1>1 DEF IInv, TypeOK, Goes, Comes, Stages, Answers, Outcomes, Oks, WithRows
  <2>3. QED
    BY <2>1, <2>2 DEF IInv, TypeOK, ending, reply
<1>3. AnswersInOrder'
  BY <1>1, <1>2 DEF IInv, AnswersInOrder, TypeOK, Goes, Comes, Calls, Outcomes, Oks, WithRows
<1>4. RecordedFirst'
  BY <1>1, <1>2 DEF IInv, RecordedFirst, TypeOK, Goes, Calls
<1>5. ReadsCounted' /\ BucketCaps'
  <2>1. \A d \in Calls \ {o} : answer'[d] = answer[d]
    BY <1>2 DEF TypeOK, Comes
  <2>2. \A d \in Answered(SkillReads)' : answer'[d] = "content" => skillRead'
    BY <1>1, <1>2, <2>1 DEF IInv, ReadsCounted, Answered, TypeOK, Goes, Calls
  <2>3. QED
    BY <1>1, <1>2, <2>1, <2>2, Elsewhere DEF Stages
<1>6. Seen' = Seen /\ \A d \in Calls : stage'[d] = "seen" <=> stage[d] = "seen"
  <2>1. stage[o] # "seen" /\ \A d \in Ops \ {o} : caller'[d] = caller[d]
    BY <1>2 DEF TypeOK
  <2>2. \A s \in SkillRuns : audit'[s] = audit[s]
    OBVIOUS
  <2>3. QED
    BY <1>1, <1>2, <2>1, <2>2, NotSeen DEF Stages
<1>7. \A d \in ledger : answer'[d] = answer[d]
  BY <1>1, <1>2 DEF IInv, RecordedFirst, TypeOK, Comes
<1>8. \A d \in Calls : stage[d] = "seen" => answer'[d] = answer[d]
  BY <1>1, <1>2 DEF TypeOK, Comes
<1>9. QED
  BY <1>2, <1>3, <1>4, <1>5, <1>6, <1>7, <1>8, HostStep DEF ending, reply, Calls

(* The wrapper of the sub-facade: what a runner sees the script does not.  *)
LEMMA RunnerSeesKeeps == ASSUME IInv, NEW o \in Ops, RunnerSees(o) PROVE IInv'
<1> USE KindsAssumption DEF RunnerSees
<1>1. /\ o \in Calls /\ o \notin Reads \cup Infos
      /\ o \notin SkillRuns /\ o \notin SkillReads
  BY DEF Calls
<1>2. TypeOK /\ TypeOK'
  <2>1. stage' \in [Calls -> Stages]
    BY <1>1 DEF IInv, TypeOK, Goes, Stages
  <2>2. QED
    BY <2>1 DEF IInv, TypeOK, ending, reply
<1>3. AnswersInOrder' /\ RecordedFirst'
  BY <1>1, <1>2 DEF IInv, AnswersInOrder, RecordedFirst, TypeOK, Goes, Calls
<1>4. ReadsCounted' /\ BucketCaps'
  <2>1. \A d \in Answered(SkillReads)' : answer'[d] = "content" => skillRead'
    BY <1>1, <1>2 DEF IInv, ReadsCounted, Answered, TypeOK, Goes, Calls
  <2>2. QED
    BY <1>1, <1>2, <2>1, Elsewhere DEF Stages
<1>5. \A d \in Calls \ {o} : stage'[d] = stage[d]
  BY <1>2 DEF TypeOK, Goes
<1>6. Seen' = Seen
  <2>1. \A d \in Ops : (caller'[d] = Script /\ stage'[d] = "seen")
                          <=> (caller[d] = Script /\ stage[d] = "seen")
    BY <1>5 DEF Calls
  <2>2. \A s \in SkillRuns : audit'[s] = audit[s] /\ stage'[s] = stage[s]
    BY <1>1, <1>5 DEF Calls
  <2>3. QED
    BY <2>1, <2>2 DEF Seen
<1>7. QED
  BY <1>1, <1>2, <1>3, <1>4, <1>5, <1>6, HostStep DEF ending, reply, Calls

(* A call of codemode.artifact that is not handed over keeps the invariant *)
(* if it keeps the counts.                                                 *)
LEMMA ArtifactCall ==
  ASSUME IInv, NEW c \in Reads \cup Infos, stage[c] # "seen",
         NEW to \in Stages \ {"seen"}, Goes(c, to),
         NEW what \in Answers, Comes(c, what),
         to \in {"unused", "flying"} => what = "none",
         reads' \in Nat, infos' \in Nat, bytes' \in Nat,
         stats' \in [count : Nat, bytes : Nat],
         UNCHANGED <<caller, ledger, audit, skillRead>>,
         UNCHANGED <<ending, reply>>,
         ReadsCounted', BucketCaps'
  PROVE  IInv'
<1> USE KindsAssumption
<1>1. c \in Calls /\ c \notin Ops /\ c \notin SkillRuns /\ c \notin SkillReads
  BY DEF Calls
<1>2. TypeOK /\ TypeOK'
  <2>1. stage' \in [Calls -> Stages] /\ answer' \in [Calls -> Answers]
    BY <1>1 DEF IInv, TypeOK, Goes, Comes
  <2>2. QED
    BY <2>1 DEF IInv, TypeOK, ending, reply
<1>3. AnswersInOrder' /\ RecordedFirst'
  <2>1. \A d \in Calls \ {c} : stage'[d] = stage[d] /\ answer'[d] = answer[d]
    BY <1>2 DEF TypeOK, Goes, Comes
  <2>2. stage'[c] \in {"unused", "flying"} => answer'[c] = "none"
    BY <1>1, <1>2 DEF TypeOK, Goes, Comes
  <2>3. AnswersInOrder'
    BY <1>1, <1>2, <2>1, <2>2 DEF IInv, AnswersInOrder, TypeOK, Calls
  <2>4. RecordedFirst'
    BY <1>1, <2>1 DEF IInv, RecordedFirst, Calls
  <2>5. QED
    BY <2>3, <2>4
<1>4. Seen' = Seen /\ \A d \in Calls : stage'[d] = "seen" <=> stage[d] = "seen"
  BY <1>1, <1>2, NotSeen
<1>5. \A d \in Calls : stage[d] = "seen" => answer'[d] = answer[d]
  BY <1>1, <1>2 DEF TypeOK, Comes
<1>6. \A d \in ledger : answer'[d] = answer[d]
  BY <1>1, <1>2 DEF TypeOK, Comes
<1>7. QED
  BY <1>2, <1>3, <1>4, <1>5, <1>6, HostStep DEF ending, reply, Calls

(* The counts of the calls of kind S when one of them moves.  Other is any *)
(* kind the call is not of.                                                *)
LEMMA Counting ==
  ASSUME TypeOK, AnswersInOrder, NEW S \in {Reads, Infos}, NEW c \in S,
         NEW to \in Stages, Goes(c, to),
         NEW what \in Answers, Comes(c, what)
  PROVE  /\ \A Other \in {Reads, Infos, SkillReads} \ {S} :
              /\ Started(Other)' = Started(Other) /\ Answered(Other)' = Answered(Other)
              /\ AtBucket(Other)' = AtBucket(Other)
              /\ \A d \in Answered(Other) : answer'[d] = answer[d]
         /\ Cardinality(AtBucket(S)) <= Cardinality(Started(S))
         /\ Cardinality(Answered(S)') <= Cardinality(Started(S)')
         /\ {Cardinality(Started(S)), Cardinality(Started(S)'),
             Cardinality(AtBucket(S)), Cardinality(Answered(S)')} \subseteq Nat
         /\ stage[c] = "unused" /\ to # "unused" =>
              Cardinality(Started(S)') = Cardinality(Started(S)) + 1
         /\ stage[c] # "unused" /\ to # "unused" => Started(S)' = Started(S)
         /\ stage[c] = "unused" /\ to # "unused" /\ what # "refused" =>
              Cardinality(AtBucket(S)') = Cardinality(AtBucket(S)) + 1
         /\ stage[c] = "unused" /\ what = "refused" => AtBucket(S)' = AtBucket(S)
         /\ stage[c] # "unused" /\ to # "unused"
              /\ (answer[c] = "refused" <=> what = "refused") =>
              AtBucket(S)' = AtBucket(S)
         /\ ~({stage[c], to} \cap {"answered", "seen"} # {}) =>
              Answered(S)' = Answered(S)
<1> USE KindsAssumption, ExecuteAssumption
<1>1. c \in Calls /\ \A Other \in {Reads, Infos, SkillReads} \ {S} : c \notin Other
  BY DEF Calls
<1>2. \A d \in Calls \ {c} : stage'[d] = stage[d] /\ answer'[d] = answer[d]
  BY DEF TypeOK, Goes, Comes
<1>3. stage'[c] = to /\ answer'[c] = what
  BY <1>1 DEF TypeOK, Goes, Comes
<1>4. \A d \in S : d \in Calls
  BY DEF Calls
<1>5. \A Other \in {Reads, Infos, SkillReads} \ {S} :
         /\ Started(Other)' = Started(Other) /\ Answered(Other)' = Answered(Other)
         /\ AtBucket(Other)' = AtBucket(Other)
         /\ \A d \in Answered(Other) : answer'[d] = answer[d]
  <2> SUFFICES ASSUME NEW Other \in {Reads, Infos, SkillReads} \ {S}
               PROVE  /\ Started(Other)' = Started(Other)
                      /\ Answered(Other)' = Answered(Other)
                      /\ AtBucket(Other)' = AtBucket(Other)
                      /\ \A d \in Answered(Other) : answer'[d] = answer[d]
    OBVIOUS
  <2>1. \A d \in Other : stage'[d] = stage[d] /\ answer'[d] = answer[d]
    BY <1>1, <1>2 DEF Calls
  <2>2. QED
    BY <2>1 DEF Started, Answered, AtBucket
<1>6. /\ IsFiniteSet(Started(S)) /\ IsFiniteSet(Started(S)')
      /\ AtBucket(S) \subseteq Started(S) /\ Answered(S)' \subseteq Started(S)'
  BY FS_Subset DEF Started, AtBucket, Answered
<1>7. IsFiniteSet(AtBucket(S)) /\ IsFiniteSet(Answered(S)')
  BY <1>6, FS_Subset
<1>8. /\ Cardinality(AtBucket(S)) <= Cardinality(Started(S))
      /\ Cardinality(Answered(S)') <= Cardinality(Started(S)')
      /\ {Cardinality(Started(S)), Cardinality(Started(S)'),
          Cardinality(AtBucket(S)), Cardinality(Answered(S)')} \subseteq Nat
  BY <1>6, <1>7, FS_Subset, FS_CardinalityType
<1>9. ASSUME stage[c] = "unused", to # "unused"
      PROVE  Cardinality(Started(S)') = Cardinality(Started(S)) + 1
  <2>1. Started(S)' = Started(S) \cup {c} /\ c \notin Started(S)
    BY <1>2, <1>3, <1>4, <1>9 DEF Started
  <2>2. QED
    BY <1>6, <2>1, FS_AddElement
<1>10. stage[c] # "unused" /\ to # "unused" => Started(S)' = Started(S)
  BY <1>2, <1>3, <1>4 DEF Started
<1>11. ASSUME stage[c] = "unused", to # "unused", what # "refused"
       PROVE  Cardinality(AtBucket(S)') = Cardinality(AtBucket(S)) + 1
  <2>1. AtBucket(S)' = AtBucket(S) \cup {c} /\ c \notin AtBucket(S)
    BY <1>2, <1>3, <1>4, <1>11 DEF AtBucket, Started
  <2>2. QED
    BY <1>7, <2>1, FS_AddElement
<1>12. /\ stage[c] = "unused" /\ what = "refused" => AtBucket(S)' = AtBucket(S)
       /\ stage[c] # "unused" /\ to # "unused"
            /\ (answer[c] = "refused" <=> what = "refused") =>
            AtBucket(S)' = AtBucket(S)
  BY <1>2, <1>3, <1>4 DEF AtBucket, Started
<1>13. ~({stage[c], to} \cap {"answered", "seen"} # {}) =>
         Answered(S)' = Answered(S)
  BY <1>2, <1>3, <1>4 DEF Answered
<1>14. QED
  BY <1>5, <1>8, <1>9, <1>10, <1>11, <1>12, <1>13

(* An artifact read without an owner or over the cap.                       *)
LEMMA RefuseReadKeeps == ASSUME IInv, NEW c \in Reads, RefuseRead(c) PROVE IInv'
<1> USE DEF RefuseRead
<1>1. PICK what \in Answers : what = "refused" /\ Comes(c, what)
  BY DEF Answers
<1>2. /\ stage[c] = "unused" /\ Goes(c, "answered") /\ "answered" \in Stages \ {"seen"}
      /\ stage[c] \in {"unused", "flying"} => answer[c] = "none"
  BY DEF Stages, IInv, AnswersInOrder, Calls
<1>3. /\ reads \in Nat /\ infos \in Nat /\ bytes \in Nat
      /\ stats \in [count : Nat, bytes : Nat]
      /\ reads' \in Nat /\ infos' \in Nat /\ bytes' \in Nat
      /\ stats' \in [count : Nat, bytes : Nat]
  BY DEF IInv, TypeOK
<1>4. ReadsCounted' /\ BucketCaps'
  <2>1. /\ TypeOK /\ AnswersInOrder /\ ReadsCounted /\ BucketCaps
        /\ Reads \in {Reads, Infos}
        /\ {Infos, SkillReads} \subseteq {Reads, Infos, SkillReads} \ {Reads}
    BY KindsAssumption DEF IInv
  <2>2. \A Other \in {Infos, SkillReads} :
             /\ Started(Other)' = Started(Other) /\ Answered(Other)' = Answered(Other)
             /\ AtBucket(Other)' = AtBucket(Other)
             /\ \A d \in Answered(Other) : answer'[d] = answer[d]
    BY <1>1, <1>2, <2>1, Counting
  <2>3. /\ Cardinality(Started(Reads)') = Cardinality(Started(Reads)) + 1
        /\ AtBucket(Reads)' = AtBucket(Reads)
        /\ Cardinality(Answered(Reads)') <= Cardinality(Started(Reads)')
        /\ {Cardinality(Started(Reads)), Cardinality(Started(Reads)'),
             Cardinality(AtBucket(Reads)), Cardinality(Answered(Reads)')} \subseteq Nat
    BY <1>1, <1>2, <2>1, Counting DEF ReadEnds
  <2>4. ReadsCounted'
    BY <1>3, <2>1, <2>2, <2>3 DEF ReadsCounted, TypeOK
  <2>5. BucketCaps'
    BY <2>1, <2>2, <2>3, ExecuteAssumption DEF BucketCaps, ReadsCounted, Reachable, TypeOK
  <2>6. QED
    BY <2>4, <2>5
<1>5. QED
  BY <1>1, <1>2, <1>3, <1>4, ArtifactCall DEF ReadEnds

(* An artifact read that goes to the bucket: it is within the cap.          *)
LEMMA StartReadKeeps == ASSUME IInv, NEW c \in Reads, StartRead(c) PROVE IInv'
<1> USE DEF StartRead
<1>1. PICK what \in Answers : what = "none" /\ Comes(c, what)
  BY DEF IInv, TypeOK, AnswersInOrder, Answers, Calls, Comes
<1>2. /\ stage[c] = "unused" /\ Goes(c, "flying") /\ "flying" \in Stages \ {"seen"}
      /\ stage[c] \in {"unused", "flying"} => answer[c] = "none"
  BY DEF Stages, IInv, AnswersInOrder, Calls
<1>3. /\ reads \in Nat /\ infos \in Nat /\ bytes \in Nat
      /\ stats \in [count : Nat, bytes : Nat]
      /\ reads' \in Nat /\ infos' \in Nat /\ bytes' \in Nat
      /\ stats' \in [count : Nat, bytes : Nat]
  BY DEF IInv, TypeOK
<1>4. ReadsCounted' /\ BucketCaps'
  <2>1. /\ TypeOK /\ AnswersInOrder /\ ReadsCounted /\ BucketCaps
        /\ Reads \in {Reads, Infos}
        /\ {Infos, SkillReads} \subseteq {Reads, Infos, SkillReads} \ {Reads}
    BY KindsAssumption DEF IInv
  <2>2. \A Other \in {Infos, SkillReads} :
             /\ Started(Other)' = Started(Other) /\ Answered(Other)' = Answered(Other)
             /\ AtBucket(Other)' = AtBucket(Other)
             /\ \A d \in Answered(Other) : answer'[d] = answer[d]
    BY <1>1, <1>2, <2>1, Counting
  <2>3. /\ Cardinality(Started(Reads)') = Cardinality(Started(Reads)) + 1
        /\ Cardinality(AtBucket(Reads)') = Cardinality(AtBucket(Reads)) + 1
        /\ Cardinality(AtBucket(Reads)) <= Cardinality(Started(Reads))
        /\ Answered(Reads)' = Answered(Reads)
        /\ {Cardinality(Started(Reads)), Cardinality(Started(Reads)'),
             Cardinality(AtBucket(Reads)), Cardinality(Answered(Reads)')} \subseteq Nat
    BY <1>1, <1>2, <2>1, Counting DEF ReadEnds
  <2>4. ReadsCounted'
    BY <1>3, <2>1, <2>2, <2>3 DEF ReadsCounted, TypeOK
  <2>5. BucketCaps'
    BY <2>1, <2>2, <2>3, ExecuteAssumption DEF BucketCaps, ReadsCounted, Reachable, TypeOK
  <2>6. QED
    BY <2>4, <2>5
<1>5. QED
  BY <1>1, <1>2, <1>3, <1>4, ArtifactCall DEF ReadEnds

(* The bucket answers an artifact read.                                     *)
LEMMA SettleReadKeeps == ASSUME IInv, NEW c \in Reads, SettleRead(c) PROVE IInv'
<1> USE DEF SettleRead
<1>1. PICK what \in Answers : what \in ReadEnds /\ Comes(c, what)
  BY DEF Answers, ReadEnds
<1>2. /\ stage[c] = "flying" /\ Goes(c, "logging") /\ "logging" \in Stages \ {"seen"}
      /\ stage[c] \in {"unused", "flying"} => answer[c] = "none"
  BY DEF Stages, IInv, AnswersInOrder, Calls
<1>3. /\ reads \in Nat /\ infos \in Nat /\ bytes \in Nat
      /\ stats \in [count : Nat, bytes : Nat]
      /\ reads' \in Nat /\ infos' \in Nat /\ bytes' \in Nat
      /\ stats' \in [count : Nat, bytes : Nat]
  BY DEF IInv, TypeOK
<1>4. ReadsCounted' /\ BucketCaps'
  <2>1. /\ TypeOK /\ AnswersInOrder /\ ReadsCounted /\ BucketCaps
        /\ Reads \in {Reads, Infos}
        /\ {Infos, SkillReads} \subseteq {Reads, Infos, SkillReads} \ {Reads}
    BY KindsAssumption DEF IInv
  <2>2. \A Other \in {Infos, SkillReads} :
             /\ Started(Other)' = Started(Other) /\ Answered(Other)' = Answered(Other)
             /\ AtBucket(Other)' = AtBucket(Other)
             /\ \A d \in Answered(Other) : answer'[d] = answer[d]
    BY <1>1, <1>2, <2>1, Counting
  <2>3. /\ Started(Reads)' = Started(Reads)
        /\ AtBucket(Reads)' = AtBucket(Reads)
        /\ Answered(Reads)' = Answered(Reads)
        /\ {Cardinality(Started(Reads)), Cardinality(Started(Reads)'),
             Cardinality(AtBucket(Reads)), Cardinality(Answered(Reads)')} \subseteq Nat
    BY <1>1, <1>2, <2>1, Counting DEF ReadEnds
  <2>4. ReadsCounted'
    BY <1>3, <2>1, <2>2, <2>3 DEF ReadsCounted, TypeOK
  <2>5. BucketCaps'
    BY <2>1, <2>2, <2>3, ExecuteAssumption DEF BucketCaps, ReadsCounted, Reachable, TypeOK
  <2>6. QED
    BY <2>4, <2>5
<1>5. QED
  BY <1>1, <1>2, <1>3, <1>4, ArtifactCall DEF ReadEnds

(* An artifact read reports and returns: the report covers what started.    *)
LEMMA ReturnReadKeeps == ASSUME IInv, NEW c \in Reads, ReturnRead(c) PROVE IInv'
<1> USE DEF ReturnRead
<1>1. PICK what \in Answers : what = answer[c] /\ Comes(c, what)
  BY DEF IInv, TypeOK, Calls, Comes
<1>2. /\ stage[c] = "logging" /\ Goes(c, "answered") /\ "answered" \in Stages \ {"seen"}
      /\ stage[c] \in {"unused", "flying"} => answer[c] = "none"
  BY DEF Stages, IInv, AnswersInOrder, Calls
<1>3. /\ reads \in Nat /\ infos \in Nat /\ bytes \in Nat
      /\ stats \in [count : Nat, bytes : Nat]
      /\ reads' \in Nat /\ infos' \in Nat /\ bytes' \in Nat
      /\ stats' \in [count : Nat, bytes : Nat]
  BY DEF IInv, TypeOK
<1>4. ReadsCounted' /\ BucketCaps'
  <2>1. /\ TypeOK /\ AnswersInOrder /\ ReadsCounted /\ BucketCaps
        /\ Reads \in {Reads, Infos}
        /\ {Infos, SkillReads} \subseteq {Reads, Infos, SkillReads} \ {Reads}
    BY KindsAssumption DEF IInv
  <2>2. \A Other \in {Infos, SkillReads} :
             /\ Started(Other)' = Started(Other) /\ Answered(Other)' = Answered(Other)
             /\ AtBucket(Other)' = AtBucket(Other)
             /\ \A d \in Answered(Other) : answer'[d] = answer[d]
    BY <1>1, <1>2, <2>1, Counting
  <2>3. /\ Started(Reads)' = Started(Reads)
        /\ AtBucket(Reads)' = AtBucket(Reads)
        /\ Cardinality(Answered(Reads)') <= Cardinality(Started(Reads)')
        /\ {Cardinality(Started(Reads)), Cardinality(Started(Reads)'),
             Cardinality(AtBucket(Reads)), Cardinality(Answered(Reads)')} \subseteq Nat
    BY <1>1, <1>2, <2>1, Counting DEF ReadEnds
  <2>4. ReadsCounted'
    BY <1>3, <2>1, <2>2, <2>3 DEF ReadsCounted, TypeOK
  <2>5. BucketCaps'
    BY <2>1, <2>2, <2>3, ExecuteAssumption DEF BucketCaps, ReadsCounted, Reachable, TypeOK
  <2>6. QED
    BY <2>4, <2>5
<1>5. QED
  BY <1>1, <1>2, <1>3, <1>4, ArtifactCall DEF ReadEnds

(* An artifact info without an owner or over the cap.                       *)
LEMMA RefuseInfoKeeps == ASSUME IInv, NEW c \in Infos, RefuseInfo(c) PROVE IInv'
<1> USE DEF RefuseInfo
<1>1. PICK what \in Answers : what = "refused" /\ Comes(c, what)
  BY DEF Answers
<1>2. /\ stage[c] = "unused" /\ Goes(c, "answered") /\ "answered" \in Stages \ {"seen"}
      /\ stage[c] \in {"unused", "flying"} => answer[c] = "none"
  BY DEF Stages, IInv, AnswersInOrder, Calls
<1>3. /\ reads \in Nat /\ infos \in Nat /\ bytes \in Nat
      /\ stats \in [count : Nat, bytes : Nat]
      /\ reads' \in Nat /\ infos' \in Nat /\ bytes' \in Nat
      /\ stats' \in [count : Nat, bytes : Nat]
  BY DEF IInv, TypeOK
<1>4. ReadsCounted' /\ BucketCaps'
  <2>1. /\ TypeOK /\ AnswersInOrder /\ ReadsCounted /\ BucketCaps
        /\ Infos \in {Reads, Infos}
        /\ {Reads, SkillReads} \subseteq {Reads, Infos, SkillReads} \ {Infos}
    BY KindsAssumption DEF IInv
  <2>2. \A Other \in {Reads, SkillReads} :
             /\ Started(Other)' = Started(Other) /\ Answered(Other)' = Answered(Other)
             /\ AtBucket(Other)' = AtBucket(Other)
             /\ \A d \in Answered(Other) : answer'[d] = answer[d]
    BY <1>1, <1>2, <2>1, Counting
  <2>3. /\ Cardinality(Started(Infos)') = Cardinality(Started(Infos)) + 1
        /\ AtBucket(Infos)' = AtBucket(Infos)
        /\ {Cardinality(Started(Infos)), Cardinality(Started(Infos)'),
             Cardinality(AtBucket(Infos)), Cardinality(Answered(Infos)')} \subseteq Nat
    BY <1>1, <1>2, <2>1, Counting DEF ReadEnds
  <2>4. ReadsCounted'
    BY <1>3, <2>1, <2>2, <2>3 DEF ReadsCounted, TypeOK
  <2>5. BucketCaps'
    BY <2>1, <2>2, <2>3, ExecuteAssumption DEF BucketCaps, ReadsCounted, Reachable, TypeOK
  <2>6. QED
    BY <2>4, <2>5
<1>5. QED
  BY <1>1, <1>2, <1>3, <1>4, ArtifactCall DEF ReadEnds

(* An artifact info that goes to the bucket.                                *)
LEMMA StartInfoKeeps == ASSUME IInv, NEW c \in Infos, StartInfo(c) PROVE IInv'
<1> USE DEF StartInfo
<1>1. PICK what \in Answers : what = "none" /\ Comes(c, what)
  BY DEF IInv, TypeOK, AnswersInOrder, Answers, Calls, Comes
<1>2. /\ stage[c] = "unused" /\ Goes(c, "flying") /\ "flying" \in Stages \ {"seen"}
      /\ stage[c] \in {"unused", "flying"} => answer[c] = "none"
  BY DEF Stages, IInv, AnswersInOrder, Calls
<1>3. /\ reads \in Nat /\ infos \in Nat /\ bytes \in Nat
      /\ stats \in [count : Nat, bytes : Nat]
      /\ reads' \in Nat /\ infos' \in Nat /\ bytes' \in Nat
      /\ stats' \in [count : Nat, bytes : Nat]
  BY DEF IInv, TypeOK
<1>4. ReadsCounted' /\ BucketCaps'
  <2>1. /\ TypeOK /\ AnswersInOrder /\ ReadsCounted /\ BucketCaps
        /\ Infos \in {Reads, Infos}
        /\ {Reads, SkillReads} \subseteq {Reads, Infos, SkillReads} \ {Infos}
    BY KindsAssumption DEF IInv
  <2>2. \A Other \in {Reads, SkillReads} :
             /\ Started(Other)' = Started(Other) /\ Answered(Other)' = Answered(Other)
             /\ AtBucket(Other)' = AtBucket(Other)
             /\ \A d \in Answered(Other) : answer'[d] = answer[d]
    BY <1>1, <1>2, <2>1, Counting
  <2>3. /\ Cardinality(Started(Infos)') = Cardinality(Started(Infos)) + 1
        /\ Cardinality(AtBucket(Infos)') = Cardinality(AtBucket(Infos)) + 1
        /\ Cardinality(AtBucket(Infos)) <= Cardinality(Started(Infos))
        /\ {Cardinality(Started(Infos)), Cardinality(Started(Infos)'),
             Cardinality(AtBucket(Infos)), Cardinality(Answered(Infos)')} \subseteq Nat
    BY <1>1, <1>2, <2>1, Counting DEF ReadEnds
  <2>4. ReadsCounted'
    BY <1>3, <2>1, <2>2, <2>3 DEF ReadsCounted, TypeOK
  <2>5. BucketCaps'
    BY <2>1, <2>2, <2>3, ExecuteAssumption DEF BucketCaps, ReadsCounted, Reachable, TypeOK
  <2>6. QED
    BY <2>4, <2>5
<1>5. QED
  BY <1>1, <1>2, <1>3, <1>4, ArtifactCall DEF ReadEnds

(* An artifact info returns.                                                *)
LEMMA ReturnInfoKeeps == ASSUME IInv, NEW c \in Infos, ReturnInfo(c) PROVE IInv'
<1> USE DEF ReturnInfo
<1>1. PICK what \in Answers : what \in ReadEnds /\ Comes(c, what)
  BY DEF Answers, ReadEnds
<1>2. /\ stage[c] = "flying" /\ Goes(c, "answered") /\ "answered" \in Stages \ {"seen"}
      /\ stage[c] \in {"unused", "flying"} => answer[c] = "none"
  BY DEF Stages, IInv, AnswersInOrder, Calls
<1>3. /\ reads \in Nat /\ infos \in Nat /\ bytes \in Nat
      /\ stats \in [count : Nat, bytes : Nat]
      /\ reads' \in Nat /\ infos' \in Nat /\ bytes' \in Nat
      /\ stats' \in [count : Nat, bytes : Nat]
  BY DEF IInv, TypeOK
<1>4. ReadsCounted' /\ BucketCaps'
  <2>1. /\ TypeOK /\ AnswersInOrder /\ ReadsCounted /\ BucketCaps
        /\ Infos \in {Reads, Infos}
        /\ {Reads, SkillReads} \subseteq {Reads, Infos, SkillReads} \ {Infos}
    BY KindsAssumption DEF IInv
  <2>2. \A Other \in {Reads, SkillReads} :
             /\ Started(Other)' = Started(Other) /\ Answered(Other)' = Answered(Other)
             /\ AtBucket(Other)' = AtBucket(Other)
             /\ \A d \in Answered(Other) : answer'[d] = answer[d]
    BY <1>1, <1>2, <2>1, Counting
  <2>3. /\ Started(Infos)' = Started(Infos)
        /\ AtBucket(Infos)' = AtBucket(Infos)
        /\ {Cardinality(Started(Infos)), Cardinality(Started(Infos)'),
             Cardinality(AtBucket(Infos)), Cardinality(Answered(Infos)')} \subseteq Nat
    BY <1>1, <1>2, <2>1, Counting DEF ReadEnds
  <2>4. ReadsCounted'
    BY <1>3, <2>1, <2>2, <2>3 DEF ReadsCounted, TypeOK
  <2>5. BucketCaps'
    BY <2>1, <2>2, <2>3, ExecuteAssumption DEF BucketCaps, ReadsCounted, Reachable, TypeOK
  <2>6. QED
    BY <2>4, <2>5
<1>5. QED
  BY <1>1, <1>2, <1>3, <1>4, ArtifactCall DEF ReadEnds

(* A call of codemode.skill that is not handed over keeps the invariant.   *)
LEMMA SkillCall ==
  ASSUME IInv, NEW c \in SkillReads \cup SkillRuns, stage[c] \in {"unused", "flying"},
         NEW to \in {"flying", "answered"}, Goes(c, to),
         NEW what \in Answers, Comes(c, what),
         to = "flying" => what = "none",
         skillRead' \in BOOLEAN, skillRead => skillRead',
         c \in SkillReads /\ what = "content" => skillRead',
         audit' \in [SkillRuns -> SUBSET ledger],
         \A s \in SkillRuns \ {c} : audit'[s] = audit[s],
         UNCHANGED <<caller, ledger, reads, infos, bytes, stats>>,
         UNCHANGED <<ending, reply>>
  PROVE  IInv'
<1> USE KindsAssumption
<1>1. c \in Calls /\ c \notin Ops /\ c \notin Reads \cup Infos
  BY DEF Calls
<1>2. TypeOK /\ TypeOK'
  <2>1. stage' \in [Calls -> Stages] /\ answer' \in [Calls -> Answers]
    BY <1>1 DEF IInv, TypeOK, Goes, Comes, Stages
  <2>2. audit' \in [SkillRuns -> SUBSET Ops]
    BY DEF IInv, TypeOK
  <2>3. QED
    BY <2>1, <2>2 DEF IInv, TypeOK, ending, reply
<1>3. \A d \in Calls \ {c} : stage'[d] = stage[d] /\ answer'[d] = answer[d]
  BY <1>2 DEF TypeOK, Goes, Comes
<1>4. stage'[c] = to /\ answer'[c] = what
  BY <1>1, <1>2 DEF TypeOK, Goes, Comes
<1>5. AnswersInOrder' /\ RecordedFirst'
  <2>1. AnswersInOrder'
    BY <1>1, <1>2, <1>3, <1>4 DEF IInv, AnswersInOrder, TypeOK, Calls
  <2>2. RecordedFirst'
    BY <1>1, <1>3 DEF IInv, RecordedFirst, Calls
  <2>3. QED
    BY <2>1, <2>2
<1>6. ReadsCounted' /\ BucketCaps'
  <2>1. \A d \in Answered(SkillReads)' : answer'[d] = "content" => skillRead'
    BY <1>3, <1>4 DEF IInv, ReadsCounted, Answered, Calls
  <2>2. QED
    BY <1>1, <1>3, <2>1, Elsewhere DEF Stages
<1>7. Seen' = Seen /\ \A d \in Calls : stage'[d] = "seen" <=> stage[d] = "seen"
  BY <1>1, <1>2, NotSeen DEF Stages
<1>8. /\ \A d \in ledger : answer'[d] = answer[d]
      /\ \A d \in Calls : stage[d] = "seen" => answer'[d] = answer[d]
  BY <1>1, <1>2, <1>3 DEF TypeOK, Calls
<1>9. QED
  BY <1>2, <1>5, <1>6, <1>7, <1>8, HostStep DEF ending, reply, Calls

(* A skill read or a skill run is called.                                  *)
LEMMA StartSkillKeeps ==
  ASSUME IInv, NEW c \in SkillReads \cup SkillRuns, StartSkill(c) PROVE IInv'
<1> USE DEF StartSkill
<1>1. answer[c] = "none" /\ Comes(c, "none") /\ "none" \in Answers
  BY DEF IInv, TypeOK, AnswersInOrder, Answers, Comes, Calls
<1>2. audit' \in [SkillRuns -> SUBSET ledger] /\ skillRead' \in BOOLEAN
  BY DEF IInv, TypeOK, RecordedFirst
<1>3. QED
  BY <1>1, <1>2, SkillCall

(* A skill read returns, with the flag set if it has content.              *)
LEMMA ReturnSkillReadKeeps ==
  ASSUME IInv, NEW c \in SkillReads, ReturnSkillRead(c) PROVE IInv'
<1> USE DEF ReturnSkillRead
<1>1. PICK what \in {"content", "error"} :
        Comes(c, what) /\ skillRead' = (skillRead \/ what = "content")
  OBVIOUS
<1>2. what \in Answers /\ skillRead \in BOOLEAN
  BY DEF Answers, ReadEnds, IInv, TypeOK
<1>3. audit' \in [SkillRuns -> SUBSET ledger]
  BY DEF IInv, TypeOK, RecordedFirst
<1>4. QED
  BY <1>1, <1>2, <1>3, SkillCall

(* A skill run returns with the operations its runner has seen, all of     *)
(* them on record.                                                         *)
LEMMA ReturnSkillRunKeeps ==
  ASSUME IInv, NEW c \in SkillRuns, ReturnSkillRun(c) PROVE IInv'
<1> USE KindsAssumption DEF ReturnSkillRun
<1>1. PICK what \in {"content", "error"} : Comes(c, what)
  OBVIOUS
<1>2. what \in Answers /\ skillRead \in BOOLEAN /\ c \notin SkillReads
  BY DEF Answers, ReadEnds, IInv, TypeOK
<1>3. {o \in Ops : caller[o] = c /\ stage[o] = "seen"} \subseteq ledger
  BY DEF IInv, RecordedFirst
<1>4. audit \in [SkillRuns -> SUBSET ledger]
  BY DEF IInv, TypeOK, RecordedFirst
<1>5. /\ audit' \in [SkillRuns -> SUBSET ledger]
      /\ \A s \in SkillRuns \ {c} : audit'[s] = audit[s]
  BY <1>3, <1>4
<1>6. QED
  BY <1>1, <1>2, <1>5, SkillCall

(* What the script is handed is on record already.                         *)
LEMMA ScriptSeesKeeps == ASSUME IInv, NEW c \in Calls, ScriptSees(c) PROVE IInv'
<1> USE KindsAssumption DEF ScriptSees
<1>1. TypeOK /\ TypeOK'
  <2>1. stage' \in [Calls -> Stages]
    BY DEF IInv, TypeOK, Goes, Stages
  <2>2. QED
    BY <2>1 DEF IInv, TypeOK, ending, reply
<1>2. /\ \A d \in Calls \ {c} : stage'[d] = stage[d]
      /\ stage[c] = "answered" /\ stage'[c] = "seen"
  BY <1>1 DEF TypeOK, Goes
<1>3. AnswersInOrder'
  BY <1>2 DEF IInv, AnswersInOrder, Calls
<1>4. RecordedFirst'
  BY <1>2 DEF IInv, RecordedFirst, Calls
<1>5. ReadsCounted' /\ BucketCaps'
  <2>1. \A S \in {Reads, Infos, SkillReads} :
          /\ Started(S)' = Started(S) /\ Answered(S)' = Answered(S)
          /\ AtBucket(S)' = AtBucket(S)
    BY <1>2 DEF Started, Answered, AtBucket, Calls
  <2>2. QED
    BY <2>1 DEF IInv, ReadsCounted, BucketCaps
<1>6. QED
  BY <1>1, <1>3, <1>4, <1>5, HostStep DEF ending, reply

(* Every step of the host functions keeps the invariant.                   *)
LEMMA HostCallKeeps == ASSUME IInv, HostCall PROVE IInv'
BY RefuseOpKeeps, StartOpKeeps, FinishOpKeeps, RunnerSeesKeeps, RefuseReadKeeps,
   StartReadKeeps, SettleReadKeeps, ReturnReadKeeps, RefuseInfoKeeps,
   StartInfoKeeps, ReturnInfoKeeps, StartSkillKeeps, ReturnSkillReadKeeps,
   ReturnSkillRunKeeps, ScriptSeesKeeps DEF HostCall

-----------------------------------------------------------------------------
(* The end of the script and the answer leave the calls alone.             *)
LEMMA CallsKept ==
  ASSUME IInv, UNCHANGED calling
  PROVE  /\ AnswersInOrder' /\ RecordedFirst' /\ ReadsCounted' /\ BucketCaps'
         /\ Seen' = Seen
BY DEF IInv, calling, AnswersInOrder, RecordedFirst, ReadsCounted, BucketCaps,
       Started, Answered, AtBucket, Seen

(* The script ends before anything is summarised.                          *)
LEMMA ScriptEndsKeeps == ASSUME IInv, ScriptReturns \/ ScriptFails PROVE IInv'
<1>1. UNCHANGED <<calling, reply>> /\ script = "running" /\ owner' = owner
  BY DEF ScriptReturns, ScriptFails
<1>2. TypeOK'
  <2>1. script' \in {"running", "returned", "failed"}
        /\ size' \in {"fits", "cut", "oversize"}
    BY DEF ScriptReturns, ScriptFails, IInv, TypeOK
  <2>2. QED
    BY <1>1, <2>1 DEF IInv, TypeOK, calling, reply
<1>3. run = "executing" /\ run' = "executing"
  BY <1>1 DEF IInv, SnapshotOnce, Summarised, reply
<1>4. SnapshotOnce' /\ SeenIsReported' /\ EvidenceCoversSeen' /\ FooterIsHonest'
  BY <1>1, <1>3 DEF IInv, SnapshotOnce, SeenIsReported, EvidenceCoversSeen,
     FooterIsHonest, Summarised, reply, calling
<1>5. QED
  BY <1>1, <1>2, <1>4, CallsKept DEF IInv

(* The snapshot covers what the script was given.                          *)
LEMMA SnapshotCovers ==
  ASSUME IInv, Summarise, UNCHANGED <<calling, ending>>, Summarised'
  PROVE  /\ SeenIsReported' /\ EvidenceCoversSeen'
         /\ reported' \in SUBSET Ops /\ evidence' \in [kind : Kinds, reads : Nat]
<1> DEFINE SeenReads == {c \in Reads : stage[c] = "seen"}
<1>1. Seen' = Seen /\ Seen \subseteq ledger /\ reported' = ledger
  BY CallsKept, SeenRecorded DEF Summarise
<1>2. /\ evidence'.kind = EvidenceKind(ledger) /\ evidence'.reads = stats.count
      /\ EvidenceKind(ledger) \in Kinds /\ stats.count \in Nat
      /\ evidence' = [kind |-> EvidenceKind(ledger), reads |-> stats.count]
  BY DEF Summarise, EvidenceKind, Kinds, IInv, TypeOK
<1>3. /\ IsFiniteSet(Answered(Reads)) /\ SeenReads \subseteq Answered(Reads)
      /\ Cardinality(Answered(Reads)) <= stats.count
  BY ExecuteAssumption, FS_Subset DEF Answered, IInv, ReadsCounted
<1>4. IsFiniteSet(SeenReads) /\ Cardinality(SeenReads) <= stats.count
  <2>1. IsFiniteSet(SeenReads)
        /\ Cardinality(SeenReads) <= Cardinality(Answered(Reads))
    BY <1>3, FS_Subset
  <2>2. Cardinality(SeenReads) \in Nat /\ Cardinality(Answered(Reads)) \in Nat
    BY <1>3, <2>1, FS_CardinalityType
  <2>3. QED
    BY <1>2, <1>3, <2>1, <2>2
<1>5. SeenReads # {} => stats.count > 0
  BY <1>2, <1>4, FS_EmptySet, FS_CardinalityType
<1>6. \A c \in SkillReads : stage[c] = "seen" /\ answer[c] = "content" => skillRead
  BY DEF IInv, ReadsCounted, Answered
<1>7. /\ (\E o \in Seen : answer[o] \in WithRows)
           => evidence'.kind = "service-data"
      /\ Seen # {} => evidence'.kind \in {"service-data", "service-inconclusive"}
      /\ SeenReads # {} => evidence'.kind \notin {"skill-content", "none"}
      /\ (\E c \in SkillReads : stage[c] = "seen" /\ answer[c] = "content") =>
           evidence'.kind # "none"
  BY <1>1, <1>2, <1>5, <1>6 DEF EvidenceKind
<1>8. EvidenceCoversSeen'
  BY <1>1, <1>2, <1>4, <1>7 DEF EvidenceCoversSeen, calling
<1>9. QED
  BY <1>1, <1>2, <1>8 DEF SeenIsReported, IInv, TypeOK

(* The three ways the snapshot is taken.                                   *)
LEMMA SnapshotKeeps ==
  ASSUME IInv, AnswerFailed \/ AnswerWhole \/ CutResult PROVE IInv'
<1> USE DEF AnswerFailed, AnswerWhole, CutResult
<1>1. /\ Summarise /\ UNCHANGED <<calling, ending>> /\ stored' = stored
      /\ run' \in {"putting", "logging", "answered"} /\ Summarised'
  BY DEF Summarised
<1>2. ~Summarised /\ reported = {} /\ ~footed /\ artifact = "none" /\ footer \subseteq ledger
  BY <1>1 DEF Summarise, Summarised, IInv, SnapshotOnce
<1>3. SeenIsReported' /\ EvidenceCoversSeen'
      /\ reported' \in SUBSET Ops /\ evidence' \in [kind : Kinds, reads : Nat]
  BY <1>1, SnapshotCovers
<1>4. footed' \in BOOLEAN /\ footer' \subseteq ledger
      /\ artifact' \in {"none", "not-truncated", "unavailable"}
  BY <1>2 DEF IInv, TypeOK
<1>5. TypeOK'
  <2>1. /\ stored' \in BOOLEAN /\ footer' \in SUBSET Ops /\ artifact' \in States
        /\ run' \in {"executing", "putting", "logging", "answered"}
    BY <1>1, <1>4 DEF IInv, TypeOK, States
  <2>2. QED
    BY <1>1, <1>3, <1>4, <2>1 DEF IInv, TypeOK, calling, ending
<1>6. SnapshotOnce'
  BY <1>1, <1>2, <1>4 DEF SnapshotOnce, Summarise, Summarised, calling, ending, IInv, TypeOK
<1>7. FooterIsHonest'
  <2>1. SUFFICES ASSUME run' = "answered", script' = "returned" PROVE FooterIsHonest'
    BY DEF FooterIsHonest
  <2>2. AnswerWhole
    BY <1>1, <2>1 DEF ending
  <2>3. Seen' = Seen /\ Seen \subseteq ledger /\ answer' = answer
    BY <1>1, CallsKept, SeenRecorded DEF calling
  <2>4. reported' = ledger /\ size' = "fits" /\ artifact' # "available"
    BY <1>1, <1>4, <2>2 DEF Summarise, ending
  <2>5. CASE FooterDue(ledger)
    BY <2>2, <2>4, <2>5 DEF FooterIsHonest
  <2>6. CASE ~FooterDue(ledger)
    BY <1>2, <2>2, <2>3, <2>4, <2>6 DEF FooterIsHonest, FooterDue
  <2>7. QED
    BY <2>5, <2>6
<1>8. QED
  BY <1>1, <1>3, <1>5, <1>6, <1>7, CallsKept DEF IInv

(* The artifact write, and the footer that follows it.                     *)
LEMMA TailKeeps == ASSUME IInv, Putting \/ AnswerCut PROVE IInv'
<1> USE DEF Putting, PutStores, PutSkips, PutThrows, PutReturns, AnswerCut
<1>1. /\ UNCHANGED <<calling, ending>> /\ UNCHANGED <<reported, evidence>>
      /\ run \in {"putting", "logging"} /\ run' \in {"logging", "answered"}
      /\ Summarised /\ Summarised'
  BY DEF Summarised
<1>2. /\ stored' \in BOOLEAN /\ footed' \in BOOLEAN /\ footer' \subseteq ledger
      /\ artifact' \in States /\ (artifact' = "available" => stored' /\ owner)
  BY DEF IInv, TypeOK, SnapshotOnce, States
<1>3. TypeOK'
  <2>1. footer' \in SUBSET Ops /\ run' \in {"executing", "putting", "logging", "answered"}
    BY <1>1, <1>2 DEF IInv, TypeOK
  <2>2. QED
    BY <1>1, <1>2, <2>1 DEF IInv, TypeOK, calling, ending
<1>4. SeenIsReported' /\ EvidenceCoversSeen'
  <2>1. Seen' = Seen
    BY <1>1, CallsKept
  <2>2. QED
    BY <1>1, <2>1 DEF IInv, SeenIsReported, EvidenceCoversSeen, calling
<1>5. SnapshotOnce'
  BY <1>1, <1>2 DEF IInv, SnapshotOnce, calling, ending
<1>6. FooterIsHonest'
  BY <1>1, <1>2 DEF IInv, SnapshotOnce, FooterIsHonest, calling, ending
<1>7. QED
  BY <1>1, <1>3, <1>4, <1>5, <1>6, CallsKept DEF IInv

(* Every step keeps the invariant.                                         *)
LEMMA NextIInv == IInv /\ [Next]_vars => IInv'
<1> SUFFICES ASSUME IInv, [Next]_vars PROVE IInv'
  OBVIOUS
<1>1. CASE HostCall
  BY <1>1, HostCallKeeps
<1>2. CASE ScriptReturns \/ ScriptFails
  BY <1>2, ScriptEndsKeeps
<1>3. CASE Answering
  BY <1>3, SnapshotKeeps, TailKeeps DEF Answering
<1>4. CASE Putting
  BY <1>4, TailKeeps
<1>5. CASE UNCHANGED vars
  BY <1>5, HostStep DEF IInv, vars, ending, reply, TypeOK, AnswersInOrder,
     RecordedFirst, ReadsCounted, BucketCaps, Started, Answered, AtBucket, Seen
<1>6. QED
  BY <1>1, <1>2, <1>3, <1>4, <1>5 DEF Next

-----------------------------------------------------------------------------
(* The invariant holds in every reachable state, for any number of calls   *)
(* and any caps.                                                           *)
THEOREM RunInductive == Spec => []IInv
BY InitIInv, NextIInv, PTL DEF Spec

(* Whatever the script was given, by an operation's own answer or in the   *)
(* audit list of a skill run, is in the summary the answer carries.        *)
THEOREM RunReportsSeen == Spec => []SeenIsReported
<1>1. IInv => SeenIsReported
  BY DEF IInv
<1>2. QED
  BY <1>1, RunInductive, PTL

(* The evidence kind and the read count never claim less than the script   *)
(* was given.                                                              *)
THEOREM RunEvidence == Spec => []EvidenceCoversSeen
<1>1. IInv => EvidenceCoversSeen
  BY DEF IInv
<1>2. QED
  BY <1>1, RunInductive, PTL

(* The artifact bucket is asked no more often than the caps allow.         *)
THEOREM RunCaps == Spec => []BucketCaps
<1>1. IInv => BucketCaps
  BY DEF IInv
<1>2. QED
  BY <1>1, RunInductive, PTL

(* The footer agrees with the summary and with the bucket.                 *)
THEOREM RunFooter == Spec => []FooterIsHonest
<1>1. IInv => FooterIsHonest
  BY DEF IInv
<1>2. QED
  BY <1>1, RunInductive, PTL

-----------------------------------------------------------------------------
(* The runner starts with nothing on the trail.                            *)
LEMMA InitTrail == Init => Trail!TrailInit
<1> SUFFICES ASSUME Init PROVE Trail!TrailInit
  OBVIOUS
<1>1. Seen = {}
  BY DEF Init, Seen, Calls
<1>2. QED
  BY <1>1 DEF Init, Trail!TrailInit, Summarised

(* A call that is not handed over records at most one operation.           *)
LEMMA RecordStep ==
  ASSUME TypeOK, NEW c \in Calls, NEW to \in Stages \ {"seen"},
         stage[c] # "seen", Goes(c, to),
         \A o \in Ops \ {c} : caller'[o] = caller[o],
         \A s \in SkillRuns \ {c} : audit'[s] = audit[s],
         ledger' = ledger \/ \E o \in Ops : ledger' = ledger \cup {o},
         UNCHANGED <<ending, reply>>
  PROVE  [Trail!TrailNext]_(Trail!trailVars)
<1>1. Seen' = Seen
  BY NotSeen
<1>2. UNCHANGED <<script, reported, Summarised>>
  BY DEF ending, reply, Summarised
<1>3. CASE ledger' = ledger
  BY <1>1, <1>2, <1>3 DEF Trail!trailVars
<1>4. CASE \E o \in Ops : ledger' = ledger \cup {o}
  BY <1>1, <1>2, <1>4 DEF Trail!Record, Trail!TrailNext
<1>5. QED
  BY <1>3, <1>4

(* The answer of an operation is handed to a runner, not to the script.    *)
LEMMA RunnerStep ==
  ASSUME IInv, NEW o \in Ops, RunnerSees(o)
  PROVE  UNCHANGED Trail!trailVars
<1> USE KindsAssumption DEF RunnerSees
<1>1. \A d \in Calls \ {o} : stage'[d] = stage[d]
  BY DEF IInv, TypeOK, Goes
<1>2. \A d \in Ops : (caller'[d] = Script /\ stage'[d] = "seen")
                          <=> (caller[d] = Script /\ stage[d] = "seen")
  BY <1>1 DEF Calls
<1>3. \A s \in SkillRuns : audit'[s] = audit[s] /\ stage'[s] = stage[s]
  BY <1>1 DEF Calls
<1>4. Seen' = Seen
  BY <1>2, <1>3 DEF Seen
<1>5. QED
  BY <1>4 DEF Trail!trailVars, ending, reply, Summarised

(* What the script is handed is shown, and it is on record.                *)
LEMMA ShowStep ==
  ASSUME IInv, NEW c \in Calls, ScriptSees(c)
  PROVE  Trail!TrailNext
<1> USE KindsAssumption DEF ScriptSees
<1> DEFINE S == Seen' \ Seen
<1>1. /\ \A d \in Calls \ {c} : stage'[d] = stage[d]
      /\ stage[c] = "answered" /\ stage'[c] = "seen"
  BY DEF IInv, TypeOK, Goes
<1>2. \A d \in Calls : stage[d] = "seen" => stage'[d] = "seen"
  BY <1>1
<1>3. Seen \subseteq Seen'
  BY <1>2 DEF Seen, Calls
<1>4. Seen' \subseteq ledger
  BY <1>1 DEF Seen, Calls, IInv, RecordedFirst
<1>5. Seen' = Seen \cup S /\ S \in SUBSET ledger
  BY <1>3, <1>4
<1>6. UNCHANGED <<ledger, script, reported, Summarised>> /\ script = "running"
  BY DEF ending, reply, Summarised
<1>7. Trail!Show
  BY <1>5, <1>6 DEF Trail!Show
<1>8. QED
  BY <1>7 DEF Trail!TrailNext

(* A host call records, shows or does nothing to the trail.                *)
LEMMA HostTrail ==
  ASSUME IInv, HostCall PROVE [Trail!TrailNext]_(Trail!trailVars)
<1> USE KindsAssumption
<1> USE DEF Stages
<1>1. TypeOK
  BY DEF IInv
<1>2. ASSUME NEW o \in Ops, RefuseOp(o) \/ StartOp(o)
      PROVE  [Trail!TrailNext]_(Trail!trailVars)
  <2>1. /\ stage[o] # "seen"
        /\ \E to \in Stages \ {"seen"} : Goes(o, to)
        /\ ledger' = ledger \/ ledger' = ledger \cup {o}
        /\ audit' = audit /\ UNCHANGED <<ending, reply>>
    BY <1>2 DEF RefuseOp, StartOp
  <2>2. \A d \in Ops \ {o} : caller'[d] = caller[d]
    BY <1>1, <1>2 DEF RefuseOp, StartOp, TypeOK
  <2>3. QED
    BY <1>1, <2>1, <2>2, RecordStep DEF Calls
<1>3. ASSUME NEW o \in Ops, FinishOp(o)
      PROVE  [Trail!TrailNext]_(Trail!trailVars)
  BY <1>1, <1>3, RecordStep DEF FinishOp, Calls
<1>4. ASSUME NEW o \in Ops, RunnerSees(o)
      PROVE  [Trail!TrailNext]_(Trail!trailVars)
  BY <1>4, RunnerStep
<1>5. ASSUME NEW c \in Reads,
             RefuseRead(c) \/ StartRead(c) \/ SettleRead(c) \/ ReturnRead(c)
      PROVE  [Trail!TrailNext]_(Trail!trailVars)
  <2>1. /\ stage[c] # "seen" /\ UNCHANGED <<caller, ledger, audit>>
        /\ UNCHANGED <<ending, reply>>
        /\ \E to \in Stages \ {"seen"} : Goes(c, to)
    BY <1>5 DEF RefuseRead, StartRead, SettleRead, ReturnRead
  <2>2. QED
    BY <1>1, <2>1, RecordStep DEF Calls
<1>6. ASSUME NEW c \in Infos, RefuseInfo(c) \/ StartInfo(c) \/ ReturnInfo(c)
      PROVE  [Trail!TrailNext]_(Trail!trailVars)
  <2>1. /\ stage[c] # "seen" /\ UNCHANGED <<caller, ledger, audit>>
        /\ UNCHANGED <<ending, reply>>
        /\ \E to \in Stages \ {"seen"} : Goes(c, to)
    BY <1>6 DEF RefuseInfo, StartInfo, ReturnInfo
  <2>2. QED
    BY <1>1, <2>1, RecordStep DEF Calls
<1>7. ASSUME NEW c \in SkillReads \cup SkillRuns, StartSkill(c)
      PROVE  [Trail!TrailNext]_(Trail!trailVars)
  BY <1>1, <1>7, RecordStep DEF StartSkill, Calls
<1>8. ASSUME NEW c \in SkillReads, ReturnSkillRead(c)
      PROVE  [Trail!TrailNext]_(Trail!trailVars)
  BY <1>1, <1>8, RecordStep DEF ReturnSkillRead, Calls
<1>9. ASSUME NEW c \in SkillRuns, ReturnSkillRun(c)
      PROVE  [Trail!TrailNext]_(Trail!trailVars)
  <2>1. \A s \in SkillRuns \ {c} : audit'[s] = audit[s]
    BY <1>1, <1>9 DEF ReturnSkillRun, TypeOK
  <2>2. QED
    BY <1>1, <1>9, <2>1, RecordStep DEF ReturnSkillRun, Calls
<1>10. ASSUME NEW c \in Calls, ScriptSees(c)
       PROVE  [Trail!TrailNext]_(Trail!trailVars)
  BY <1>10, ShowStep
<1>11. QED
  BY <1>2, <1>3, <1>4, <1>5, <1>6, <1>7, <1>8, <1>9, <1>10 DEF HostCall

(* Every step is a step of AuditTrail or a stutter.                        *)
LEMMA TrailStep == IInv /\ [Next]_vars => [Trail!TrailNext]_(Trail!trailVars)
<1> SUFFICES ASSUME IInv, [Next]_vars PROVE [Trail!TrailNext]_(Trail!trailVars)
  OBVIOUS
<1>1. CASE HostCall
  BY <1>1, HostTrail
<1>2. CASE ScriptReturns \/ ScriptFails
  <2>1. /\ UNCHANGED <<ledger, reported, Summarised>> /\ Seen' = Seen
        /\ script = "running" /\ script' # "running"
    BY <1>2, CallsKept DEF ScriptReturns, ScriptFails, calling, reply, Summarised
  <2>2. Trail!Conclude
    BY <2>1 DEF Trail!Conclude
  <2>3. QED
    BY <2>2 DEF Trail!TrailNext
<1>3. CASE AnswerFailed \/ AnswerWhole \/ CutResult
  <2>1. /\ Summarise /\ UNCHANGED <<calling, ending>> /\ Summarised'
    BY <1>3 DEF AnswerFailed, AnswerWhole, CutResult, Summarised
  <2>2. /\ ~Summarised /\ reported' = ledger /\ Seen' = Seen
        /\ UNCHANGED <<ledger, script>> /\ script # "running"
    BY <2>1, CallsKept DEF Summarise, Summarised, calling, ending
  <2>3. Trail!File
    BY <2>1, <2>2 DEF Trail!File
  <2>4. QED
    BY <2>3 DEF Trail!TrailNext
<1>4. CASE Putting \/ AnswerCut
  <2>1. /\ UNCHANGED <<calling, ending>> /\ reported' = reported
        /\ Summarised /\ Summarised'
    BY <1>4 DEF Putting, PutStores, PutSkips, PutThrows, PutReturns, AnswerCut,
       Summarised
  <2>2. UNCHANGED <<ledger, script, reported, Summarised>> /\ Seen' = Seen
    BY <2>1, CallsKept DEF calling, ending
  <2>3. QED
    BY <2>2 DEF Trail!trailVars
<1>5. CASE UNCHANGED vars
  BY <1>5 DEF vars, Trail!trailVars, Seen, Summarised
<1>6. QED
  BY <1>1, <1>2, <1>3, <1>4, <1>5 DEF Next, Answering

(* The runner keeps the audit trail: each call is on record before the     *)
(* script can see it, and the one report covers all that was shown.        *)
THEOREM RunImplementsAuditTrail == Spec => ImplementsAuditTrail
BY InitTrail, TrailStep, RunInductive, PTL
   DEF Spec, ImplementsAuditTrail, Trail!TrailSpec
=============================================================================
