# Raven in TLA+

Raven (stellar-raven) is a Cloudflare Worker that answers questions about the
Stellar ecosystem over MCP and over a chat playground. A model writes a script;
the Worker runs it in a sandbox whose host functions call service operations
(Scout, Lumenloop, the Stellar docs, GitHub-pinned skills), records what was
called, and says in the answer what the evidence is worth. This directory holds
TLA+ models of the parts of it that are hard to test: concurrent calls, shared
memos, deadlines that race late answers, retries, partial failures, processes
that crash and are restarted, and totals that must be exact or absent. The
repository's evaluation harness, which pays for answers and for judgements of
them, is modelled where money or the worth of a result depends on an order of
events. TLC checks the models on small instances, and
TLAPS proves the properties that matter most for every value of the constants.

Paths start at the repository's root; tables and lists leave out a leading
`src/`, so that `skills/source.ts` is `src/skills/source.ts`; `eval/` is a
directory of the root.

## Inventory

Each entry says what state a component keeps, what it does, and what can go
wrong. `PROJECT.json` has the list with every file, the hazards with their
lines, and the reason for every part that is not modelled.

**Skill source** (`src/skills/source.ts`, modelled). State: a memo of promises
per isolate, keyed by pin (URL and two digests), and the colo cache of the data
centre. A read joins a flight of its pin or starts one; the flight looks in the
cache, fetches with one retry, verifies, scrubs and settles. The canary has a
source that bypasses both stores. Hard: concurrent cold reads, a rejection while
others wait, a deadline that the flight outlives, a poisoned or mutable cache
entry, provenance that must describe the bytes that are served. Correct when a
text that is served is what its own pin names, the memo holds pending and
resolved flights only, and every read is answered.

**Playground turn** (`src/demo/chat.ts`, `tools.ts`, `steps.ts`, `output.ts`,
partly). State: the attempt (model), whether it produced output, the terminal
latch, the tool budget that all attempts share, the results of the steps. A turn
tries models in order, streams their parts, runs tool calls concurrently under
caps, gives advice before each step, and closes with one terminal frame. Hard:
an error after output, an abort or timeout beside anything, executes that finish
out of order or after their turn, a checkpoint that must be shown once. Correct
when the browser gets the output of one author and one verdict, the caps hold
for the whole turn, advice is about the latest result, and the stream closes.

**Execute run** (`src/executor/run.ts`, `providers.ts`, `src/skills/run.ts`,
partly). State: the ledger of operations, counters and statistics of artifact
reads, the skill log, the snapshot taken when the script ends, the artifact and
the footer. Hard: host calls that nobody awaits go on after the script, a
runner's deadline detaches its calls, caps with an await between test and count,
an artifact write between two reads of the ledger. Correct when the answer
never claims less, or more, than what the script was given.

**Stellar docs adapter** (`src/adapters/stellar-docs.ts`, partly). State: one
operation's deadline and where it is among up to four lookups and a redirect
probe. Hard: one budget over many requests, each with its own timeout and retry;
absence that may be claimed only when every lookup said so; a redirect that is
followed once. Correct when the operation ends within its budget, absence is
real, and a page that is returned is the one asked for or the one it moved to.

**Usage collector** (`src/usage/collector.ts`, partly). State: rows in D1.
Operations: a delivery of traces is projected to statements and written in
chunks with retries, a failure receipt counts what was lost, a cleanup removes
old rows. Hard: a commit whose answer is lost, one chunk of several that fails,
deliveries that repeat a trace, a time limit at any point. Correct when a loss is
never silent, and is counted once.

**Evaluation cost** (`src/demo/eval-cost.ts`, partly). State: counted and
reported calls, the reported cost, an error, the one pending log. Hard: a log
that lags or never comes, an answer that fails after it was charged, a repeated
log id, an abort while a log is read. Correct when a total is exact or null and
a turn stays within one call of its budget.

**Skill reads** (`src/skills/store.ts`, partly). State: one read's loads and
their deadlines. A read loads the main file, cuts it into sections with numbered
slugs, compares them with the catalog, loads the companion files it asks for at
once and answers with everything or with one error. Hard: several loads of which
one fails or hangs, two deadlines in a row, a catalog that disagrees with the
body, headings whose slugs collide. Correct when a read is all or nothing, serves
only what the catalog lists, names the right failure, and ends in time.

**Sign-in** (`src/auth/workos.ts`, partly). State: a parked login per flow in
KV, and per browser a consent cookie, a binding cookie and a session, each one
slot that all tabs share. A tab shows the consent page, posts it, is sent to
WorkOS and comes back by a callback that reads the parked login, deletes it,
exchanges the code and grants. Hard: two flows in one browser, a read and a
delete in two calls, a store that is eventually consistent, callbacks that are
repeated or opened elsewhere, answers that are lost. Correct when a grant goes
to the browser that began the flow, a parked login serves once, and a sign-in
is lost for a reason the user can see.

**Throttle** (`src/demo/budget.ts`, `src/demo/chat.ts`, partly). State: an hourly
count per subject in KV, read and then written without a compare. Hard: chats
that overlap, a store that lags. Correct when only chats that wrote on a stale
count cost more than the cap, and no more than the cap each.

**Paired collection** (`eval/qa/paired-collection-supervisor.mjs`,
`paired-collection-control.mjs`, partly). State: the supervisor's sets of what
each arm has reported, a failure flag, three kinds of timers, the marker file;
each arm's place in its rows. Two runner processes answer the same rows, one
row at a time in both, over two IPC channels. Hard: an arm hears nothing while
it is in a row, exit and disconnect are two events that come in either order and
may overtake what is still unread, anything may die, the marker may not be
writable. Correct when a receipt vouches for all rows of both arms, little is
paid after a failure, no arm is accused of what it did not do, the arms stay in
lockstep, and the supervisor settles.

**Answer collection** (`eval/qa/run-qa.mjs`, `remote-identity-guard.mjs`,
`spend-budget.mjs`, partly). State: the row and its attempt, the baseline
identity of the remote services, the pending call, a capture that may be reused,
the spend ledger. Each row is answered by at most two attempts, each a paid call
between two captures of the identity. Hard: a deployment during a call, probes
that are unavailable and retried, a reuse of a capture, a cost known only
afterwards. Correct when an artifact that is called comparable has seen one
identity only, and a changed one costs at most one call.

**Stored judging** (`judgeStoredResults` of `eval/qa/run-qa.mjs`, `judge.mjs`,
`spend-budget.mjs`, partly). State: the results file, which is rewritten in
place, and a process's copy of it. A row takes up to two attempts of one to three
votes. Hard: a process that dies between a paid vote and its write, resuming with
another judge or another panel size, a cap on spend that outlives processes.
Correct when a verdict that was saved is never lost or replaced, the spend is
bounded by the cap but for what died with a process, and the file is finished.

**Artifact store** (`src/artifacts/store.ts`): objects in R2 by hashed owner and
id, with expiry and metadata that must fit a limit. Only the outcomes of a put
are modelled (in ExecuteRun). **Skill canary** (`src/skills/canary.ts`):
a sweep of all pins from a cron, a verdict in KV, a health answer; only its
probes are modelled. **MCP tools, server, hosts**: request and response.
**Catalog** (`src/catalog/`): a read-only table with a ranking over text. **Call
policy, truncation, footer** (`src/policy/`): stateless checks and text fitting.
**Scout and Lumenloop adapters, digest runner, model configuration, site,
observability, build scripts, evaluation corpus, packs and reports**: not
modelled, each with its reason in `PROJECT.json`.

Interactions. The playground turn and the MCP tools call the execute run; the run
calls adapters, the artifact store, skill reads and skill runs; skill reads and
the canary call the skill source; a playground turn under evaluation calls its
model through the evaluation cost; the traces of them all reach the usage
collector. A chat begins with the session that a sign-in made and the throttle.
A paired collection runs two answer collections beside each other; stored judging
goes on with the file and the ledger that a collection left. The calls cross module boundaries through small contracts: a host
call has an outcome (ok, soft-empty, error), an execute has an outcome (the record
`ExecuteOutcome` of PlaygroundTurn), a cost report comes or does not. A module
takes the contracts of the components it calls as its environment, with every
outcome the callee's code can produce.

## Modules

Every model is one action per stretch of code between two awaits: the Worker is
single-threaded, so these stretches are atomic, and everything that may happen
in an await may happen between two actions. A runner of the evaluation harness
blocks in its calls, so that its actions are the stretches between two calls,
writes or messages. The variables keep the names of the
source where there are names. Definitions whose comment starts with "Mutant:"
are wrong variants, kept beside the definition they replace, that show what each
property would catch.

| Module | Models | Abstract specification | Proofs |
|---|---|---|---|
| SkillSource | `skills/source.ts`, `withDeadline` of `skills/store.ts` | PinnedReads | SkillSourceProofs |
| PlaygroundTurn | `demo/chat.ts`, `demo/tools.ts`, `demo/steps.ts` | OneAnswer | PlaygroundTurnProofs |
| ExecuteRun | `executor/run.ts`, `executor/providers.ts`, `skills/run.ts` | AuditTrail | ExecuteRunProofs |
| StellarDocs | `adapters/stellar-docs.ts` | | ServiceProofs |
| UsageCollector | `usage/collector.ts` | | ServiceProofs |
| EvalCost | `demo/eval-cost.ts` | | ServiceProofs |
| SkillRead | `skills/store.ts` | | SkillReadProofs |
| SignIn | `auth/workos.ts` | | PlaygroundAccessProofs |
| PlaygroundAccess (extends SignIn) | `demo/budget.ts`, the checks of `demo/chat.ts` | | PlaygroundAccessProofs |
| PairedCollection | `eval/qa/paired-collection-supervisor.mjs`, `paired-collection-control.mjs`, `run-qa.mjs` as an arm | Lockstep | PairedCollectionProofs |
| SpendLedger | `eval/qa/spend-budget.mjs` | | |
| GuardedCollection (extends SpendLedger) | collection in `eval/qa/run-qa.mjs`, `remote-identity-guard.mjs` | | StoredJudgingProofs |
| StoredJudging (extends GuardedCollection) | judging in `eval/qa/run-qa.mjs`, `judge.mjs` | VerdictBook | StoredJudgingProofs |

The MC modules give the constants of the instances their values.

### SkillSource

A call is one invocation `source(pin)`; a flight has the name of the call that
started it. `MemoHit` and `StartFlight` are the synchronous part of the call,
`CacheMiss`, `CacheHit`, `FetchRetryable`, `FetchFatal`, `FetchBody` and
`CachePut` the stretches of the flight, `ScrubAndSettle` with `Resolve` and
`Reject` its settlement together with the handler that removes a rejected entry.
`Deliver` and `Deadline` are the two sides of the race around a serving read.
Bodies are told apart by equality: `Sha256Body` and `BlobBodies` say which bodies
match the digests of a pin, and `DriftBodies` on which bodies the scrub throws.
`ColoChange` is the environment: other isolates share the colo cache, so that an
entry may appear, change or vanish between any two steps. PinnedReads promises
one shelf per pin, absent, loading or loaded, and callers that are served what is
on the shelf of their pin or refused.

### PlaygroundTurn

The provider and the AI SDK are the environment: they choose the next stream part
(`TextDelta`, `ToolErrorPart`, `ErrorPart`, `AbortPart`, `FinishPart`, `EndStep`),
end the stream or throw. `SearchCall`, `RefuseExecute` and `StartExecute` are the
synchronous parts of the tools, `FinishExecute` with `Latch` what happens when a
run returns: the budget's evidence, the checkpoint latch, the pending hint.
`BeginStep` is `prepareDemoStep` with the note of the last step. `Fallback`,
`EmitTerminal`, `ReportCost` and `Settle` are the end of an attempt and of the
turn; `ClientLeaves` and `TurnTimeout` abort it at any point. Of the outcomes of an
execute it is assumed that evidence which is inconclusive comes with operations
(`executor/run.ts:399`), which the note of a step relies on. OneAnswer promises
that the output the browser sees has one author, that there is one verdict, and
that nothing follows it.

### ExecuteRun

`StartOp`, `StartRead`, `StartInfo`, `StartSkill` and their `Refuse...`
counterparts are the host functions up to their first await, `FinishOp`,
`SettleRead`, `ReturnRead`, ... what follows it; `RunnerSees` and `ScriptSees`
hand an answer to the caller that awaits it. The sandbox may end the script while
calls are in flight (`ScriptReturns`, `ScriptFails`, the latter also its timeout),
and they go on: `Summarise`, `CutResult`, the put and `AnswerCut` are interleaved
with them. The ledger is the set of operations it lists. AuditTrail promises that
calls settle once, are recorded before they are seen, and that what is reported
extends the ledger of a single instant.

Left out: a rejecting executor (the tool then answers with an empty summary), the
recovery hint and source metadata, spans, and the order of lines in the footer.
An artifact put that fails ambiguously may have stored the object while the
footer says it is absent; `PutThrows` covers both.

### StellarDocs

One page read or search against a store and a redirect map that do not change
meanwhile. `AttemptRetryable`, `AttemptTerminal` and `RequestFails` are the
attempts of one request, each of which takes any time up to its clipped timeout;
`PageAbsent`, `PageFound`, `ProbeMoved` and `ProbeFails` are the steps of the
page lookup: the path, its index page, the probe, the same two lookups of the
target. A search sees its result window as one of four kinds. A probe that fails
counts as no redirect, as `docs/stellar-docs.md` says. Snippets, cleanup and
ranking of text are left out.

### UsageCollector

`Collect` projects a delivery to the statements it prepares, `NextChunk` takes a
slice of them, `Committed` and `AttemptFails` are the two outcomes of a
transaction as D1 and the collector see them (a failed attempt may have
committed), `Retry` and `GiveUp` the loop, `Finish` the failure receipt or the
end. `Kill` is the platform's time limit and `Cleanup` the cron. The order of the
statements is left open, so that every division into chunks is covered.

### EvalCost

`BeginDispatch`, `ReadCost`, `ReadNothing`, `Refuse`, `Send`, `Respond` and
`InvokeFails` are `dispatch` with the `settle` it starts with; `BeginFinish` and
`Report` are `finish`, which an abort starts beside a dispatch. Costs are integers
where the code rounds to twelve digits, and a log that states a cost states the
final one. The chat makes its calls one after the other and none after its turn
ended. The variables `cost`, `spent` and `before` are the truth the report is
compared with.

### SkillRead

One read against a main file, a catalog and a request chosen in Init. The source
is its environment: under PinnedReads a load that succeeds gives the text of its
pin, so that a piece of an answer is named by where it comes from. `Begin` is
everything before the first await, `MainLoaded` what follows the main load up to
the answer or to the companion loads, `FileSettles` the settlement of a companion,
the last of which is followed by the loop over the request (`Collected`,
`Assembled`). `MainFails` and `FileSettles` serve both a source that throws and a
deadline. `Sectionize` with `FreshSlug` is the numbering of slugs. A heading is
its slug and whether it is spelled as the slug, which is all `slugify` leaves to
tell apart. The suggestion of a nearest id, the size notice and the wording of
errors are left out.

### SignIn and PlaygroundAccess

A flow is one tab; its state value and its secret are fresh random values, so
that a cookie is the flow whose value it holds. `ShowConsent`, `RefuseRequest`,
`PostConsent`, `RetryConsent`, `Deny`, `Park` and `DemoLogin` are the handlers up to the
redirect, and `Redirected` is the arrival of their answer, which sets the
binding cookie then and not before. A callback is a request (`WorkosReturns`,
`Repeat`), a read of the parked login (`NoCode`, `Read`, `Miss`), its delete
(`Consume`), the exchange (`Exchange`), the grant (`Grant`), any of which may
`Throw`, and an answer that arrives or is lost (`Arrive`, `LoseAnswer`). KV is
eventually consistent: a put is seen everywhere at `Spread`, a delete is "fading"
until then. `AskChat` is the read of the throttle, of the last count or, when it
is late, of any earlier one of the hour; `PutCount` its write, after which the
chat goes on (`AllowChat`) or fails (`FailChat`, written or not). The history
variable `stale` counts the writes on a count that was no longer the last one. The tables of redirects, API keys, retention and the MACs are left out:
a MAC is a cookie that nobody else can make.

### PairedCollection

The actions of an arm are its stretches between two messages, calls or writes
(`Boot`, `Check`, `StartCall`, `EndCall`, `Postflight`, `Complete`, `Disconnect`,
`Exit`, ...); `Check` looks at the marker, which is the only news that reaches an
arm inside a row. `Receive` hears a message, only while it waits. The
supervisor's handlers are `OnReady`, `OnRowComplete`, `OnPostflight`,
`OnComplete`, `OnFailed`, `OnProtocolFailure`, `OnExit`, `OnDisconnect`,
`OnSendError`, and `Cancel` is what all of them do when the collection fails:
write the marker, send the message, arm the timers. A timer may fire at any time
after it is armed; there is no clock. Anything may die (`End`, `SupervisorDies`,
`LoseServer`), within `MaxFaults`. Lockstep promises that nobody begins a row
before both have finished the one before, and one verdict. Left out: the
validation of the launch plan and of the signed listener records, which happens
before any arm starts, and the contents of the artifacts.

### GuardedCollection, SpendLedger and StoredJudging

One paid method from its first call to its summary. `Authorize`, `Proceed`,
`Reuse`, `CaptureFails`, `CaptureBefore`, `StartCall`, `EndCall`, `CallThrows`,
`CaptureAfterUnlessRetry`, `CaptureAfter`, `Advance`, `Postflight` and
`WriteArtifact` are the collection; `Deploy`, `Interrupt`, `Age` and
`CollectCrash` are what happens to it. An identity is the number of deployments
so far: the services move forward, and a rollback that brings an old identity
back between two captures, which the guard cannot see, is left out. SpendLedger
holds the arithmetic: a call is authorised with all that remains and its cost is
known when it is over. `Start`, `TakeRow`, `Vote`, `FaultyVote`, `Exhausted`,
`JudgeThrows`, `SaveAttempt`, `SaveRow`, `Finish` are the judging process on its
copy `mem` of the file `disk`, and `Crash` kills it at any point. VerdictBook
promises that the verdict of a row is written once, whatever becomes of the
processes, and that a summary stands for all rows. Left out: judging inside a
collection, the history of the stability register, calls that a ledger cannot
attribute, two judging processes on one file, prompts and the parsing of
verdicts.

## Runs

| Run | Question | States |
|---|---|---|
| skill_source_reads | Is the right text served, with true provenance, to every reader, although the cache may hang or be wrong? | 36 000 |
| skill_read | All or nothing, and can every section be asked for? | 164 000 |
| playground_turn | Advice about the latest execute, caps, one checkpoint, one answer, an end | 1 430 000 |
| execute_ledger | Does the summary cover what the script saw, and the footer agree? | 2 040 000 |
| execute_evidence | Does the evidence kind ever claim too little, do the caps hold, does the run answer? | 1 320 000 |
| docs_operation | Time and absence over all stores and redirects of three pages, and an answer | 917 000 |
| usage_losses | Is a loss ever silent, counted too low or counted twice? | 222 000 |
| eval_cost | Is a total exact or null, and does the turn report? | 5 100 |
| playground_access | Who is granted what, how often, what may cost a sign-in, and how far does the throttle overrun? | 1 080 000 |
| paired_collection | What does a receipt vouch for, what is paid after a failure, do the arms keep in step, does it settle? | 453 000 |
| qa_method | Is spend within the cap, does a changed identity stop it, do paid verdicts survive crashes, is the file finished? | 1 330 000 |
| stored_panels | *violation*: boundary panels are within their cap | |

What the proofs establish is not all checked again by a run. The inductive
invariants, `PoorIsKnown`, `Addressed`, `AccessTypeOK`, `SeenIsReported`, `RightPage`, `SpendBounded`,
`WithinTwoDeadlines` and `FailClosed` are proved, were invariants of these
instances when they were written, and may be added to the configuration of their
module at any time. `FlightSettles` (SkillSource) and `ReadAnswers` (SkillRead)
are liveness properties that hold on the same instances and that no regular run
repeats.

Bounds, and why they suffice.

- SkillSource: two concurrent calls are an owner and a joiner, or a probe beside a
  read; the interplay of three is a chain of such pairs, and the proofs cover any
  number. Two bodies are the right one and a wrong one; the three pins share one
  URL and differ in single digests, the case in which a key that leaves a
  digest out mixes them up.
- SkillRead: two sections and one whose heading looks like a numbered repetition
  are the smallest body in which numbering can go wrong. Two wants are two
  companions in either order, or a companion beside a section. One missing key is
  a drift; the deadline of two units lets a load settle before, at and after.
- PlaygroundTurn: two models are one that falls back and a last one; three steps
  leave one for concurrent executes, one for their note and the final one; two
  allowed executes of three leave one to refuse. The outcomes are one that is cut
  and has a hint, told as cut once a hint was given, and one without evidence,
  whose note takes precedence.
- ExecuteRun: two operations are one that is settled and one that is in flight
  when the snapshot is taken, two runners one that returned and one that was
  detached. In execute_evidence two reads meet a cap of one.
- StellarDocs: three pages are a path, its redirect target and the target's own
  redirect; the timeouts are the authored ones in units of two seconds.
- UsageCollector: two chunks of two statements and a failure receipt, with two
  attempts, contain a chunk that is lost and one that is not.
- EvalCost: four calls of cost at most two pass a budget of three from below, at
  it and over it.
- SignIn: an MCP flow and a playground flow in two browsers, or in one, share a
  binding cookie; two MCP flows, which share a consent cookie as well, are
  covered by the proof only, since three flows are beyond TLC. Two callbacks per
  run are one and its repetition, or one of each flow; one trouble (an expiry, a
  failure, a lost answer, a read that is behind, of an entry or of the count) at
  any point.
- Throttle: two chats an hour and two at once, one of which is overtaken or reads
  an old count, with one more chat allowed than the bound
  `ChatsPerHour * (1 + stale)` for one stale write, so that the bound is seen to be
  reached and not passed.
- PairedCollection: two rows are one before and one after a barrier; two faults
  let one handler's consequence meet another failure.
- qa_method: two rows, a cap that the dearest calls of collection and judging
  pass, one deployment, captures of two tries, panels of one and two, and two
  processes that die. stored_panels: one death and a cap of one panel.

Symmetry is used in execute_ledger and playground_access, which have no liveness
property.

`CHECK_DEADLOCK FALSE` is set where the modelled component ends: a turn that
closed, a run that answered, deliveries that are over, a settled collection, a
finished file, flows that ended. The docs module has an
explicit final stutter instead.

Fairness. A step of the host's own code is taken once it is enabled (weak
fairness), since the isolate runs to the next await; so are timers (the read
deadline, the turn timeout, the sandbox timeout, the attempt timeouts, the
one-second timer of a log read). Nothing is assumed of a remote party: fetches,
operations, artifact reads and providers may be silent for ever, except where the
code bounds them. `FlightSettles` is stated under the condition that the cache
answers (`CacheAnswers`). `execute_evidence` takes R2's put to end (`Putting`),
and `playground_turn` the report of the cost, which `eval_cost` justifies:
`TurnReports` holds under the timer of the read alone. `skill_read` has no
liveness property. In `paired_collection` only the supervisor's timers fire
(Node's event loop runs them); the arms and the channels may be silent for ever.
In `qa_method` a process that has something to do does it, and the operator
starts another one after a crash; without an operator nothing would finish a file.
`playground_access` assumes nothing.

## Proofs

Each proof module shows for one component `Init => IInv`,
`IInv /\ [Next]_vars => IInv'`, and from `IInv` the properties, for every value of the
constants that satisfies the named assumptions. TLC has seen each `IInv` hold on the instance of
its module before it was proved.

- SkillSource: `Inductive`, `Integrity`, `MemoCoherence`, `Provenance`,
  `GoodEntriesStay`, `Refinement`. That a served text is right for the caller's
  own pin needs to know that a waiting call has the key of the flight it waits
  for (`WaitsForSameKey`), that a memo entry sits under its own key
  (`MemoKeyed`), and that what a flight has in hand after verification is
  verified (`FlightVerified`).
- PlaygroundTurn: `TurnInductive`, `TurnCaps`, `TurnCheckpoint`, `TurnHint`,
  `TurnImplementsOneAnswer`, `TurnTruncationNote`. The caps need the counters to count the calls that
  ran (`CountersCount`, a cardinality); the one checkpoint needs the latch
  (`LatchIsSet`); the one author needs that output latches the attempt
  (`SpeakerIsCurrent`) and the verdict that the latch agrees with the stream
  (`VerdictLatched`). A note of truncation has two sources, the budget and the
  texts of the results; that the second is asked about the right execute needs a
  latest result without evidence to be known to the first (`PoorIsKnown`), in
  whatever order the executes of a step ended.
- ExecuteRun: `RunInductive`, `RunReportsSeen`, `RunEvidence`, `RunCaps`,
  `RunFooter`, `RunImplementsAuditTrail`. The argument is an order: an answer is in
  the ledger before anybody sees it (`RecordedFirst`), the script sees nothing
  after its end, and the snapshot comes later still (`SnapshotOnce`).
- StellarDocs (in ServiceProofs): `DocsInductive`, `DocsWithinBudget`, `DocsAbsenceIsReal`,
  `DocsRightPage`. `Ladder` says which lookups have been answered with absence at
  each stage.
- UsageCollector (in ServiceProofs): `UsageInductive`, `UsageNothingLost`, `UsageLossIsCounted`,
  `UsageGapsCountedOnce`. `Accounted` divides the statements of a delivery into
  those left, those in the transaction, those stored or expired, and those given
  up; the chunks that were given up are disjoint, so their sizes add up to what
  is missing at most.
- EvalCost (in ServiceProofs): `CostInductive`, `CostSpendBounded`, `CostReportIsExact`. Either
  everything is reported (`Settled`) or only the last call is out (`OneOut`), and
  then it is on its way, pending, being read, or an error is set; `Flow` says
  that only one place holds it.
- SkillRead: `ReadInductive`, `ReadWithinTwoDeadlines`, `ReadAllOrNothing`,
  `ReadFailClosed`, `ReadSectionsAddressable`. `Timing` says which loads fly at each stage and that none is
  past its deadline; the last companion to settle then finds all the others
  settled. `FirstIsLeast` makes the file an error names the first one.
  That every section has a slug of its own is a fact about the numbering of a
  body, whatever its length: of one number more than there are slugs in use one
  is free, so that the search for a number ends with a fresh slug; and a body
  without a numbering would have a shortest beginning without one, which takes
  the numbering of what comes before it and one slug more.
- SignIn and PlaygroundAccess: `AccessInvariant`, `AccessTypeCorrect`,
  `GrantGoesHomeHolds`, `SingleUseHolds`, `OnlyThatInterferesHolds`,
  `ThrottleOverrunHolds`, for any number of flows, browsers, callbacks, codes and
  troubles. The invariant says where the cookie of a browser leads (`Cookies`),
  what is parked of a flow by how far its tab is (`Entries`), and what a callback
  owes for its phase and its answer (`Sound`): one that was refused was
  disturbed, astray or not the only one, and one that is past the check of the
  state holds its own flow's cookie, which only the browser that opened the flow
  has. No step takes back what another relies on (`Forward`), so that each is
  asked only for what it changes itself. The throttle's bound holds for any number
  of chats at once and any late reads: a put raises the counter or is a stale one,
  and a stale one takes back the cap at most, so that the chats allowed are paid
  for by the counter and the stale writes (`Paid`).
- PairedCollection: `Inductive`, `TypeCorrect`, `ReceiptSound`, `SpendStopsHolds`,
  `NeverAccusedHolds`, `CollectionImplementsLockstep`, for any number of rows and
  of faults. While the supervisor listens, what it has recorded of an arm, with
  the one message that may be unread, agrees with where the arm is (`Unread`,
  `Abreast`). What outlives a failure is less: the order of an arm's own places
  (`Course`), the release it may still have on its channel (`Told`) and the calls
  of the row it is in (`Spend`), and that is enough for the spend and for the
  barrier.
- GuardedCollection and StoredJudging: `InductiveInvariant`, `TypeCorrect`,
  `CapOnSpend`, `OneStaleCall`, `FrozenArtifact`, `JudgingImplementsBook`, for
  any number of rows, deployments, panels and crashes. The invariant has three
  parts that meet in no variable. `Frozen`: once a call ran under another
  identity, the capture after it, which identities that only grow cannot deceive,
  closes the guard, so that no second call starts and no comparable artifact is
  written. `Money`: all that was paid is in the ledger at hand or died with a
  process, and the file is behind a process by the votes of one attempt at most.
  `Copy`: a process's copy is the file with some more verdicts, and a row whose
  turn is still to come is not yet judged. That the row at hand is the least one
  left rests on the well-foundedness of the natural numbers.

Model-checked only: the liveness properties `EveryReadAnswered`,
`EveryTurnCloses`, `RunAnswers`, `OperationAnswers`, `TurnReports`, `Settles` and
`Finishes`, since the prover has neither fairness nor ENABLED. Every other
property that a run checks is a theorem, except, of course, the violated one.

## Findings

- A boundary panel that was convened by the retry of a judge error is counted
  while its process lives and is forgotten by the next one, so that a judging
  that is resumed may convene more panels than `--max-panel-cases`
  (`eval/qa/run-qa.mjs:1345` against `eval/qa/README.md:416`). The run
  `stored_panels` prints the scenario; `PROJECT.json` has the quotes.

Five further disagreements between the code and what is said of it are stated in
the modules, each with the comment it contradicts. No regular run repeats them;
to see one, check its definition with the instance given here.

- `VerifiedBytesAreServed` (SkillSource; the instance of skill_source_reads with
  one call, one pin): a cache write that never completes keeps verified bytes
  from being served, and the memo keeps the pending promise: later reads of the
  pin in the isolate end at their deadline as well (`skills/source.ts:201`,
  against the comment at 198).
- `FailureNoteIsTrue` (PlaygroundTurn; one model, four steps, two executes,
  `Outcomes <- MCOutcomes`, specification `Spec`): the note of the final step says
  that the latest execute failed when an earlier one did and the latest was
  truncated (`demo/steps.ts:178`).
- `BlockAgreesWithFooter` (ExecuteRun; the instance of execute_ledger without
  runners and symmetry): the block appended to an execute's answer can say that
  all calls failed below a footer that lists a successful one
  (`executor/run.ts:503`, `mcp/tools.ts:575`).
- `SmallMargin` (PlaygroundAccess; the instance of playground_access): the comment
  of the throttle says that concurrent requests overrun `chatsPerHour` "by a small
  margin" (`demo/budget.ts:149`). A chat that is held between its read and its
  write sets the counter back by all that was counted in between, so that one of
  them can cost the whole cap again, and a few of them several times the cap
  (`demo/budget.ts:167`). What does hold is `ThrottleOverrun`.
- `ExactHeadingReads` (SkillRead; the instance of skill_read): a section that is
  asked for by the exact text of its heading is answered with an earlier section
  whose heading has the same slug, since the comparison with heading texts comes
  after one that always succeeds (`skills/store.ts:395`, against the comment at
  392).

## Not modelled

- Pure text and tables: skill scrub, search ranking, call policy, the fitting of
  text into budgets, rendering of evidence packs, scoring and comparison of saved
  artifacts, site and build scripts. They are deterministic functions of strings,
  with tests of their own over the real text; a model over small alphabets would
  restate them. They are also most of the repository's lines, which is why the
  modules cover a small share of it.
- Single requests without state of their own: Scout, Lumenloop, the digest
  runner, server routing, API keys. Their outcomes are inputs of the models.
- The internals of the artifact store (owner, expiry, metadata), each one
  request; ExecuteRun has the outcomes of a put.
- The canary's sweep and stored verdict (`skills/canary.ts:151`).
- Two judging processes on one results file (`eval/qa/run-qa.mjs:1232`): the code
  does not exclude them and nothing is promised of them.
- In the harness: judging inside a collection, the history of the stability
  register, launch plans and listener records, rollbacks of the services.

## Plan

Done: what is served (SkillSource, SkillRead), what a turn shows and an execute
claims (PlaygroundTurn, ExecuteRun), the adapters with retries and deadlines
(StellarDocs, UsageCollector, EvalCost), who gets in (SignIn, PlaygroundAccess),
and the paid methods of the evaluation harness (PairedCollection,
GuardedCollection, StoredJudging).

Next, in this order:

1. SkillCanary (`skills/canary.ts`): overlapping sweeps, the stored verdict and
   its age, what health may claim.
2. Two judging processes on one file: what survives, and what a lock would add.
3. The loss detail of `policy/truncate.ts` against a reference definition over
   short key lists; clamping of history; selection of a page of search results.
4. ArtifactStore (`artifacts/store.ts`): expiry at the boundary, metadata that
   must stay readable; ExecuteRun's put and reads against it.
5. The recovery hint and the ladder of `skills/run.ts` in ExecuteRun.
