---------------------------- MODULE ExecuteRun ----------------------------
(***************************************************************************)
(* One call of the execute runner (src/executor/run.ts) with the host      *)
(* functions the sandboxed script calls (src/executor/providers.ts) and    *)
(* the runnable skills that call service operations on its behalf          *)
(* (src/skills/run.ts).                                                    *)
(*                                                                         *)
(* The script runs in a Dynamic Worker and the host functions in the       *)
(* server's isolate: calls are concurrent, and nothing cancels a call that *)
(* the script does not await.  When the script is over the host takes its  *)
(* snapshot, may write a truncated result to the artifact bucket, and      *)
(* answers.  The steps are the stretches of host code between two awaits.  *)
(*                                                                         *)
(* The call ledger is the set of calls it lists: each call pushes one row, *)
(* and only the footer's layout depends on their order.                    *)
(***************************************************************************)
EXTENDS Naturals, FiniteSets

CONSTANTS
  Ops,         \* calls of service operations, by the script or a runner
  Reads,       \* calls of codemode.artifact.read
  Infos,       \* calls of codemode.artifact.info
  SkillReads,  \* calls of codemode.skill.read
  SkillRuns,   \* calls of codemode.skill.run
  Script,      \* the caller that is not a runnable skill
  ReadCap,     \* ARTIFACT_READ_CAP
  InfoCap      \* ARTIFACT_INFO_CAP

ASSUME ExecuteAssumption ==
  /\ ReadCap \in Nat
  /\ InfoCap \in Nat
  /\ IsFiniteSet(Ops)
  /\ IsFiniteSet(Reads)
  /\ IsFiniteSet(Infos)
  /\ Script \notin SkillRuns

Calls == Ops \cup Reads \cup Infos \cup SkillReads \cup SkillRuns

\* The five kinds of call are told apart.
ASSUME KindsAssumption ==
  /\ Ops \cap (Reads \cup Infos \cup SkillReads \cup SkillRuns) = {}
  /\ Reads \cap (Infos \cup SkillReads \cup SkillRuns) = {}
  /\ Infos \cap (SkillReads \cup SkillRuns) = {}
  /\ SkillReads \cap SkillRuns = {}

VARIABLES
  stage,      \* stage[c]: how far host call c is
  answer,     \* answer[c]: what host call c comes to
  caller,     \* caller[o]: who called operation o
  ledger,     \* opLedger
  audit,      \* audit[s]: the calls skill run s returned as its own
  reads,      \* artifactReads
  infos,      \* artifactInfos
  bytes,      \* artifactReadBytes, in units of one artifact
  stats,      \* artifactReadStats, as last reported
  skillRead,  \* skillRead
  owner,      \* the request has an artifact owner, the server a bucket
  script,     \* how the script stands
  size,       \* its result against the model boundary and the artifact cap
  run,        \* where the runner's code is
  reported,   \* the ledger as the snapshot summarised it
  evidence,   \* evidenceSummary: its kind and its artifactReads
  artifact,   \* the artifact's state for the footer
  stored,     \* the bucket holds the result
  footed,     \* the result has a footer
  footer      \* the calls the footer lists

calling == <<stage, answer, caller, ledger, audit, reads, infos, bytes, stats,
             skillRead>>
ending  == <<owner, script, size>>
reply   == <<run, reported, evidence, artifact, stored, footed, footer>>
vars    == <<stage, answer, caller, ledger, audit, reads, infos, bytes, stats,
             skillRead, owner, script, size, run, reported, evidence, artifact,
             stored, footed, footer>>

\* "logging": the result is known and its log line is awaited.
Stages == {"unused", "flying", "logging", "answered", "seen"}

\* An ok envelope has rows, rows with an unverified match, or no rows.
WithRows  == {"rows", "match"}
Oks       == WithRows \cup {"no-rows"}
Outcomes  == Oks \cup {"soft-empty", "error"}
ReadEnds  == {"content", "not-found", "error"}
Answers   == {"none", "refused"} \cup Outcomes \cup ReadEnds

Kinds  == {"service-data", "service-inconclusive", "artifact-data",
           "skill-content", "none"}
States == {"none", "not-truncated", "available", "skipped", "unavailable"}

TypeOK ==
  /\ stage \in [Calls -> Stages]
  /\ answer \in [Calls -> Answers]
  /\ caller \in [Ops -> SkillRuns \cup {Script}]
  /\ ledger \in SUBSET Ops
  /\ audit \in [SkillRuns -> SUBSET Ops]
  /\ reads \in Nat
  /\ infos \in Nat
  /\ bytes \in Nat
  /\ stats \in [count : Nat, bytes : Nat]
  /\ skillRead \in BOOLEAN
  /\ owner \in BOOLEAN
  /\ script \in {"running", "returned", "failed"}
  /\ size \in {"fits", "cut", "oversize"}
  /\ run \in {"executing", "putting", "logging", "answered"}
  /\ reported \in SUBSET Ops
  /\ evidence \in [kind : Kinds, reads : Nat]
  /\ artifact \in States
  /\ stored \in BOOLEAN
  /\ footed \in BOOLEAN
  /\ footer \in SUBSET Ops

Init ==
  /\ stage = [c \in Calls |-> "unused"]
  /\ answer = [c \in Calls |-> "none"]
  /\ caller = [o \in Ops |-> Script]
  /\ ledger = {}
  /\ audit = [s \in SkillRuns |-> {}]
  /\ reads = 0 /\ infos = 0 /\ bytes = 0
  /\ stats = [count |-> 0, bytes |-> 0]
  /\ skillRead = FALSE
  /\ owner \in BOOLEAN
  /\ script = "running"
  /\ size = "fits"
  /\ run = "executing"
  /\ reported = {}
  /\ evidence = [kind |-> "none", reads |-> 0]
  /\ artifact = "none"
  /\ stored = FALSE /\ footed = FALSE
  /\ footer = {}

Goes(c, to) == stage' = [stage EXCEPT ![c] = to]
Comes(c, what) == answer' = [answer EXCEPT ![c] = what]

-----------------------------------------------------------------------------
(* Service operations.                                                     *)

\* A runner may go on calling after its skill run has answered: the deadline
\* detaches it without cancelling it.
Callers == {Script} \cup {s \in SkillRuns : stage[s] # "unused"}

\* Mutant: a call the argument guard refuses leaves no row.
RefuseOpUnrecorded(o) ==
  /\ stage[o] = "unused"
  /\ \E who \in Callers : caller' = [caller EXCEPT ![o] = who]
  /\ Goes(o, "answered") /\ Comes(o, "error")
  /\ UNCHANGED <<ledger, audit, reads, infos, bytes, stats, skillRead>>
  /\ UNCHANGED <<ending, reply>>

\* The argument guard refuses the call: recorded and answered at once.
RefuseOp(o) ==
  /\ stage[o] = "unused"
  /\ \E who \in Callers : caller' = [caller EXCEPT ![o] = who]
  /\ Goes(o, "answered") /\ Comes(o, "error")
  /\ ledger' = ledger \cup {o}
  /\ UNCHANGED <<audit, reads, infos, bytes, stats, skillRead>>
  /\ UNCHANGED <<ending, reply>>

StartOp(o) ==
  /\ stage[o] = "unused"
  /\ \E who \in Callers : caller' = [caller EXCEPT ![o] = who]
  /\ Goes(o, "flying")
  /\ UNCHANGED <<answer, ledger, audit, reads, infos, bytes, stats, skillRead>>
  /\ UNCHANGED <<ending, reply>>

\* The adapter's envelope: onOpCall pushes the row before the call returns.
FinishOp(o) ==
  /\ stage[o] = "flying"
  /\ \E what \in Outcomes : Comes(o, what)
  /\ Goes(o, "answered")
  /\ ledger' = ledger \cup {o}
  /\ UNCHANGED <<caller, audit, reads, infos, bytes, stats, skillRead>>
  /\ UNCHANGED <<ending, reply>>

\* The sub-facade adds the envelope to the run's own ledger and hands it to
\* the runner; no one but the host knows whether the script is still there.
RunnerSees(o) ==
  /\ stage[o] = "answered" /\ caller[o] # Script
  /\ Goes(o, "seen")
  /\ UNCHANGED <<answer, caller, ledger, audit, reads, infos, bytes, stats,
                 skillRead>>
  /\ UNCHANGED <<ending, reply>>

-----------------------------------------------------------------------------
(* Artifact reads and artifact infos: counted before the first await.      *)

Reachable(cap, ordinal) == owner /\ ordinal <= cap

\* No owner, or over the cap: the statistics are reported at once.
RefuseRead(c) ==
  /\ stage[c] = "unused" /\ ~Reachable(ReadCap, reads + 1)
  /\ reads' = reads + 1
  /\ stats' = [count |-> reads + 1, bytes |-> bytes]
  /\ Goes(c, "answered") /\ Comes(c, "refused")
  /\ UNCHANGED <<caller, ledger, audit, infos, bytes, skillRead>>
  /\ UNCHANGED <<ending, reply>>

\* Mutant: the counter is raised when the bucket has answered.
StartReadUncounted(c) ==
  /\ stage[c] = "unused" /\ Reachable(ReadCap, reads + 1)
  /\ Goes(c, "flying")
  /\ UNCHANGED <<answer, caller, ledger, audit, reads, infos, bytes, stats,
                 skillRead>>
  /\ UNCHANGED <<ending, reply>>

StartRead(c) ==
  /\ stage[c] = "unused" /\ Reachable(ReadCap, reads + 1)
  /\ reads' = reads + 1
  /\ Goes(c, "flying")
  /\ UNCHANGED <<answer, caller, ledger, audit, infos, bytes, stats, skillRead>>
  /\ UNCHANGED <<ending, reply>>

\* The bucket has answered; the log line is awaited before the report.
SettleRead(c) ==
  /\ stage[c] = "flying"
  /\ \E what \in ReadEnds :
       /\ Comes(c, what)
       /\ bytes' = IF what = "content" THEN bytes + 1 ELSE bytes
  /\ Goes(c, "logging")
  /\ UNCHANGED <<caller, ledger, audit, reads, infos, stats, skillRead>>
  /\ UNCHANGED <<ending, reply>>

\* Mutant: the statistics are left to a later report.
ReturnReadUnreported(c) ==
  /\ stage[c] = "logging"
  /\ stats' = stats
  /\ Goes(c, "answered")
  /\ UNCHANGED <<answer, caller, ledger, audit, reads, infos, bytes, skillRead>>
  /\ UNCHANGED <<ending, reply>>

\* The report takes the counters as they stand, not this read's ordinal.
ReturnRead(c) ==
  /\ stage[c] = "logging"
  /\ stats' = [count |-> reads, bytes |-> bytes]
  /\ Goes(c, "answered")
  /\ UNCHANGED <<answer, caller, ledger, audit, reads, infos, bytes, skillRead>>
  /\ UNCHANGED <<ending, reply>>

RefuseInfo(c) ==
  /\ stage[c] = "unused" /\ ~Reachable(InfoCap, infos + 1)
  /\ infos' = infos + 1
  /\ Goes(c, "answered") /\ Comes(c, "refused")
  /\ UNCHANGED <<caller, ledger, audit, reads, bytes, stats, skillRead>>
  /\ UNCHANGED <<ending, reply>>

StartInfo(c) ==
  /\ stage[c] = "unused" /\ Reachable(InfoCap, infos + 1)
  /\ infos' = infos + 1
  /\ Goes(c, "flying")
  /\ UNCHANGED <<answer, caller, ledger, audit, reads, bytes, stats, skillRead>>
  /\ UNCHANGED <<ending, reply>>

ReturnInfo(c) ==
  /\ stage[c] = "flying"
  /\ \E what \in ReadEnds : Comes(c, what)
  /\ Goes(c, "answered")
  /\ UNCHANGED <<caller, ledger, audit, reads, infos, bytes, stats, skillRead>>
  /\ UNCHANGED <<ending, reply>>

-----------------------------------------------------------------------------
(* Skill reads and skill runs.                                             *)

StartSkill(c) ==
  /\ stage[c] = "unused"
  /\ Goes(c, "flying")
  /\ UNCHANGED <<answer, caller, ledger, audit, reads, infos, bytes, stats,
                 skillRead>>
  /\ UNCHANGED <<ending, reply>>

\* onSkillRead, for a read that succeeded, before it returns.
ReturnSkillRead(c) ==
  /\ stage[c] = "flying"
  /\ \E what \in {"content", "error"} :
       /\ Comes(c, what)
       /\ skillRead' = (skillRead \/ what = "content")
  /\ Goes(c, "answered")
  /\ UNCHANGED <<caller, ledger, audit, reads, infos, bytes, stats>>
  /\ UNCHANGED <<ending, reply>>

\* The run's ledger as it stands, under data.calls or error.details; its own
\* envelope is not a row of the execute ledger.
ReturnSkillRun(c) ==
  /\ stage[c] = "flying"
  /\ \E what \in {"content", "error"} : Comes(c, what)
  /\ audit' = [audit EXCEPT ![c] = {o \in Ops : caller[o] = c /\ stage[o] = "seen"}]
  /\ Goes(c, "answered")
  /\ UNCHANGED <<caller, ledger, reads, infos, bytes, stats, skillRead>>
  /\ UNCHANGED <<ending, reply>>

\* An answer reaches the script while it runs.
ScriptSees(c) ==
  /\ script = "running" /\ stage[c] = "answered"
  /\ c \in Ops => caller[c] = Script
  /\ Goes(c, "seen")
  /\ UNCHANGED <<answer, caller, ledger, audit, reads, infos, bytes, stats,
                 skillRead>>
  /\ UNCHANGED <<ending, reply>>

-----------------------------------------------------------------------------
(* The end of the script, and the answer of the runner.                    *)

\* The script returns a value of some size.
ScriptReturns ==
  /\ script = "running"
  /\ script' = "returned"
  /\ size' \in {"fits", "cut", "oversize"}
  /\ UNCHANGED owner
  /\ UNCHANGED <<calling, reply>>

\* The script throws, or the executor's timeout ends the wait for it.
ScriptFails ==
  /\ script = "running"
  /\ script' = "failed"
  /\ UNCHANGED <<owner, size>>
  /\ UNCHANGED <<calling, reply>>

Count(calls, what) == Cardinality({o \in calls : answer[o] \in what})

\* summarizeOperationLedger, as far as the answer's wording depends on it.
Summary(calls) ==
  [total |-> Cardinality(calls), ok |-> Count(calls, Oks),
   error |-> Count(calls, {"error"}), softEmpty |-> Count(calls, {"soft-empty"}),
   evidenceData |-> Count(calls, WithRows),
   candidateEvidence |-> Count(calls, {"match"})]

EvidenceKind(calls) ==
  IF \E o \in calls : answer[o] \in WithRows THEN "service-data"
  ELSE IF calls # {} THEN "service-inconclusive"
  ELSE IF stats.count > 0 THEN "artifact-data"
  ELSE IF skillRead THEN "skill-content" ELSE "none"

\* A soft-empty-only run has nothing to date or mark.
FooterDue(calls) == \E o \in calls : answer[o] # "soft-empty"

Summarise ==
  /\ script # "running" /\ run = "executing"
  /\ reported' = ledger
  /\ evidence' = [kind |-> EvidenceKind(ledger), reads |-> stats.count]

\* A failed script: the answer carries the summary and no footer.
AnswerFailed ==
  /\ script = "failed"
  /\ Summarise
  /\ run' = "answered"
  /\ UNCHANGED <<artifact, stored, footed, footer>>
  /\ UNCHANGED <<calling, ending>>

\* Mutant: the answer waits until no host call is in flight.
AnswerWholeWhenIdle ==
  /\ script = "returned" /\ size = "fits"
  /\ \A c \in Calls : stage[c] # "flying"
  /\ Summarise
  /\ run' = "answered"
  /\ UNCHANGED <<artifact, stored, footed, footer>>
  /\ UNCHANGED <<calling, ending>>

\* Mutant: the result that fits goes through the awaits of the others.
AnswerWholeLogged ==
  /\ script = "returned" /\ size = "fits"
  /\ Summarise
  /\ run' = "logging"
  /\ artifact' = "not-truncated"
  /\ UNCHANGED <<stored, footed, footer>>
  /\ UNCHANGED <<calling, ending>>

\* A result that fits: snapshot and footer in one stretch.
AnswerWhole ==
  /\ script = "returned" /\ size = "fits"
  /\ Summarise
  /\ run' = "answered"
  /\ IF FooterDue(ledger)
       THEN footed' = TRUE /\ footer' = ledger /\ artifact' = "not-truncated"
       ELSE UNCHANGED <<footed, footer, artifact>>
  /\ UNCHANGED stored
  /\ UNCHANGED <<calling, ending>>

\* A truncated result: the artifact's metadata gets the ledger of the snapshot.
CutResult ==
  /\ script = "returned" /\ size # "fits"
  /\ Summarise
  /\ run' = IF owner THEN "putting" ELSE "logging"
  /\ artifact' = IF owner THEN "none" ELSE "unavailable"
  /\ UNCHANGED <<stored, footed, footer>>
  /\ UNCHANGED <<calling, ending>>

PutReturns(state) ==
  /\ run = "putting"
  /\ run' = "logging"
  /\ artifact' = state
  /\ UNCHANGED <<reported, evidence, footed, footer>>
  /\ UNCHANGED <<calling, ending>>

PutStores == size = "cut" /\ stored' = TRUE /\ PutReturns("available")
PutSkips  == size = "oversize" /\ UNCHANGED stored /\ PutReturns("skipped")

\* Mutant: a put that threw is advertised like one that did not.
PutThrowsAdvertised ==
  /\ size = "cut" /\ stored' \in {stored, TRUE} /\ PutReturns("available")

\* bucket.put throws, having written the object or not.
PutThrows ==
  /\ size = "cut" /\ stored' \in {stored, TRUE} /\ PutReturns("unavailable")

\* The footer of a truncated result lists the ledger as it is by now.
AnswerCut ==
  /\ run = "logging"
  /\ run' = "answered"
  /\ footed' = TRUE /\ footer' = ledger
  /\ UNCHANGED <<reported, evidence, artifact, stored>>
  /\ UNCHANGED <<calling, ending>>

-----------------------------------------------------------------------------
HostCall ==
  \/ \E o \in Ops : RefuseOp(o) \/ StartOp(o) \/ FinishOp(o) \/ RunnerSees(o)
  \/ \E c \in Reads :
       RefuseRead(c) \/ StartRead(c) \/ SettleRead(c) \/ ReturnRead(c)
  \/ \E c \in Infos : RefuseInfo(c) \/ StartInfo(c) \/ ReturnInfo(c)
  \/ \E c \in SkillReads \cup SkillRuns : StartSkill(c)
  \/ \E c \in SkillReads : ReturnSkillRead(c)
  \/ \E c \in SkillRuns : ReturnSkillRun(c)
  \/ \E c \in Calls : ScriptSees(c)

Answering == AnswerFailed \/ AnswerWhole \/ CutResult \/ AnswerCut
Putting   == PutStores \/ PutSkips \/ PutThrows

Next == HostCall \/ ScriptReturns \/ ScriptFails \/ Answering \/ Putting

Spec == Init /\ [][Next]_vars

\* The executor's timeout ends every script, a put ends one way or another,
\* and the runner's own code is scheduled.  Of the host calls nothing is
\* assumed: an operation may never come back.
FairSpec ==
  Spec /\ WF_vars(ScriptFails) /\ WF_vars(Answering) /\ WF_vars(Putting)

-----------------------------------------------------------------------------
(* What the runner promises.                                               *)

\* The operations whose results the script was given: by their own answers,
\* or in the audit list of a skill run.
Seen ==
  {o \in Ops : caller[o] = Script /\ stage[o] = "seen"}
    \cup UNION {audit[s] : s \in {r \in SkillRuns : stage[r] = "seen"}}

Summarised == run # "executing"

Started(calls)  == {c \in calls : stage[c] # "unused"}
Answered(calls) == {c \in calls : stage[c] \in {"answered", "seen"}}

\* No evidence goes unreported: every operation whose result the script could
\* build on, one called by a runnable skill included, is in the summary the
\* answer carries, whichever calls were still in flight when the script ended.
SeenIsReported == Summarised => Seen \subseteq reported

\* The evidence kind never claims less than the script was given: rows it saw
\* make it service-data, an answer of an operation rules out the artifact and
\* skill kinds, an answered artifact read rules out the last two, and the
\* count of artifact reads covers every read that answered.
EvidenceCoversSeen ==
  Summarised =>
    /\ (\E o \in Seen : answer[o] \in WithRows) => evidence.kind = "service-data"
    /\ Seen # {} => evidence.kind \in {"service-data", "service-inconclusive"}
    /\ (\E c \in Reads : stage[c] = "seen") =>
         evidence.kind \notin {"skill-content", "none"}
    /\ (\E c \in SkillReads : stage[c] = "seen" /\ answer[c] = "content") =>
         evidence.kind # "none"
    /\ Cardinality({c \in Reads : stage[c] = "seen"}) <= evidence.reads

\* The bucket is asked at most ReadCap times for a body and InfoCap times for
\* metadata in one run, however many calls the script makes at once.
AtBucket(calls) == {c \in Started(calls) : answer[c] # "refused"}

BucketCaps ==
  /\ Cardinality(AtBucket(Reads)) <= ReadCap
  /\ Cardinality(AtBucket(Infos)) <= InfoCap

\* What the footer says agrees with the rest of the answer: it lists all the
\* calls of the summary, exactly those if the result was not truncated, it is
\* left out only if the script saw nothing but soft-empty calls, and it offers
\* an artifact only if the bucket holds it for this owner.
FooterIsHonest ==
  (run = "answered" /\ script = "returned") =>
    /\ footed => reported \subseteq footer
    /\ (footed /\ size = "fits") => footer = reported
    /\ ~footed => size = "fits" /\ \A o \in Seen : answer[o] = "soft-empty"
    /\ artifact = "available" => stored /\ owner

\* The inductive invariant.  An operation is on record once it has answered; a
\* read and its count become visible in the order the cap and the statistics
\* need; the snapshot was taken after the script, from the ledger and the
\* flags as they then were.
AnswersInOrder ==
  /\ \A c \in Calls : stage[c] \in {"unused", "flying"} => answer[c] = "none"
  /\ \A o \in Ops : stage[o] # "logging"
  /\ \A o \in ledger : answer[o] \in Outcomes

RecordedFirst ==
  /\ \A o \in Ops : stage[o] \in {"answered", "seen"} <=> o \in ledger
  /\ \A s \in SkillRuns : audit[s] \subseteq ledger

ReadsCounted ==
  /\ Cardinality(Started(Reads)) <= reads
  /\ Cardinality(Started(Infos)) <= infos
  /\ Cardinality(Answered(Reads)) <= stats.count
  /\ \A c \in Answered(SkillReads) : answer[c] = "content" => skillRead

SnapshotOnce ==
  /\ Summarised => script # "running"
  /\ ~Summarised => reported = {} /\ ~footed /\ artifact = "none"
  /\ reported \subseteq ledger
  /\ footer \subseteq ledger
  /\ run \in {"putting", "logging"} => script = "returned" /\ size # "fits" /\ ~footed
  /\ run = "putting" => owner
  /\ artifact = "available" => stored /\ owner

IInv ==
  /\ TypeOK
  /\ AnswersInOrder
  /\ RecordedFirst
  /\ ReadsCounted
  /\ BucketCaps
  /\ SnapshotOnce
  /\ SeenIsReported
  /\ EvidenceCoversSeen
  /\ FooterIsHonest

\* The block the execute tool appends when no operation gave data.
Block(calls, kind) ==
  LET s == Summary(calls) IN
    IF s.ok > 0 THEN IF kind = "service-inconclusive" THEN "all-empty" ELSE "none"
    ELSE IF s.total = 0 THEN "none"
    ELSE IF s.error > 0 /\ s.softEmpty = 0 THEN "all-failed"
    ELSE IF s.error = 0 THEN "all-soft-empty" ELSE "inconclusive"

\* "All N service calls failed." is said of the run (src/mcp/tools.ts), in the
\* same text as the footer: no call the footer lists succeeded.
BlockAgreesWithFooter ==
  (run = "answered" /\ footed /\ Block(reported, evidence.kind) = "all-failed")
    => \A o \in footer : answer[o] \notin Oks

\* The run answers, whatever becomes of the calls in flight.
RunAnswers == <>(run = "answered")

\* The runner implements the audit trail.
Trail == INSTANCE AuditTrail WITH
  trail <- ledger, shown <- Seen, over <- (script # "running"),
  filed <- Summarised, report <- reported

ImplementsAuditTrail == Trail!TrailSpec
=============================================================================
