--------------------------- MODULE UsageCollector ---------------------------
(***************************************************************************)
(* The usage collector, src/usage/collector.ts: a tail worker that turns   *)
(* the traces it is delivered into rows of two D1 tables.  The statements  *)
(* of a delivery are written in chunks, each a transaction of its own that *)
(* is tried three times; a chunk that exhausts its attempts is counted,    *)
(* and the count is written as a receipt before the collector throws.      *)
(*                                                                         *)
(* D1 may reject a batch, or commit it and lose the answer: then the code  *)
(* retries what is already stored, and INSERT OR IGNORE must make that     *)
(* harmless.  Deliveries run concurrently, may carry the same trace, and   *)
(* may be cut off by the platform; the daily cleanup runs beside them.     *)
(*                                                                         *)
(* A row is its primary key.  Which statements share a chunk is left open: *)
(* the code takes them in the order of the traces.                         *)
(***************************************************************************)
EXTENDS Naturals, FiniteSets

CONSTANTS
  Deliveries,   \* calls of tail()
  Traces,       \* producer invocations
  Batch,        \* the traces of each delivery
  Responses,    \* how many tool responses each trace logged
  Identified,   \* traces with a request id, a ray or a canary time
  Flagged,      \* traces that leave a receipt anyway: truncated, canary, not ok
  Old,          \* traces older than the retention cutoff
  ChunkSize,    \* statements in one transaction
  Attempts,     \* attempts of one transaction
  Shared        \* the key part of a receipt that its trace identifies

ASSUME UsageAssumption ==
  /\ Batch \in [Deliveries -> SUBSET Traces]
  /\ Responses \in [Traces -> Nat]
  /\ IsFiniteSet(Traces)
  /\ Identified \subseteq Traces /\ Flagged \subseteq Traces /\ Old \subseteq Traces
  /\ ChunkSize \in Nat \ {0} /\ Attempts \in Nat \ {0}
  /\ Shared \notin Deliveries

VARIABLES
  rows,    \* primary keys stored in D1, both tables
  phase,   \* where each delivery is
  left,    \* its statements that no chunk has taken yet
  chunk,   \* its current transaction
  failures,   \* attempts of that transaction that have failed
  failed,  \* failedStatements
  lost     \* history: the statements of the chunks it gave up

usageVars == <<rows, phase, left, chunk, failures, failed, lost>>

Phases == {"idle", "writing", "reporting", "done", "threw", "killed"}

\* INSERT_RESPONSE: only an identified trace has responses that can be keyed.
ResponseRows(t) ==
  IF t \in Identified
    THEN {[kind |-> "response", trace |-> t, n |-> i] : i \in 1..Responses[t]}
    ELSE {}

\* INSERT_RECEIPT of a trace: a gap without identity gets an id of its own.
ReceiptRow(t, d) ==
  [kind |-> "receipt", trace |-> t, by |-> IF t \in Identified THEN Shared ELSE d]
ReceiptRows(t, d) == IF Responses[t] > 0 \/ t \in Flagged THEN {ReceiptRow(t, d)} ELSE {}

Prepared(d) == UNION {ResponseRows(t) \cup ReceiptRows(t, d) : t \in Batch[d]}

\* The receipt that survives a transient outage: its id is drawn once.
FailureRow(d) == [kind |-> "failure", by |-> d, draw |-> 0]

TraceRows == [kind : {"response"}, trace : Traces, n : Nat]
               \cup [kind : {"receipt"}, trace : Traces, by : Deliveries \cup {Shared}]
GapRows == [kind : {"failure"}, by : Deliveries, draw : Nat]

Expired(r) == r \in TraceRows /\ r.trace \in Old

UsageInit ==
  /\ rows = {}
  /\ phase = [d \in Deliveries |-> "idle"]
  /\ left = [d \in Deliveries |-> {}]
  /\ chunk = [d \in Deliveries |-> {}]
  /\ failures = [d \in Deliveries |-> 0]
  /\ failed = [d \in Deliveries |-> 0]
  /\ lost = [d \in Deliveries |-> {}]

\* collectUsage: all statements are prepared before the first write.
Collect(d) ==
  /\ phase[d] = "idle"
  /\ phase' = [phase EXCEPT ![d] = "writing"]
  /\ left' = [left EXCEPT ![d] = Prepared(d)]
  /\ UNCHANGED <<rows, chunk, failures, failed, lost>>

\* statements.slice(offset, offset + ChunkSize), in whatever order they are.
IsSlice(c, s) ==
  /\ c \subseteq s
  /\ \/ Cardinality(c) = ChunkSize
     \/ c = s /\ Cardinality(c) <= ChunkSize

\* Mutant: the slice is one short of what the offset advances by.
NextChunkShort(d) ==
  /\ phase[d] = "writing" /\ chunk[d] = {} /\ left[d] # {}
  /\ \E c \in SUBSET left[d] : \E s \in c :
       /\ IsSlice(c, left[d])
       /\ chunk' = [chunk EXCEPT ![d] = c \ {s}]
       /\ left' = [left EXCEPT ![d] = @ \ c]
  /\ failures' = [failures EXCEPT ![d] = 0]
  /\ UNCHANGED <<rows, phase, failed, lost>>

\* The next slice of the statements is one transaction.
NextChunk(d) ==
  /\ phase[d] = "writing" /\ chunk[d] = {} /\ left[d] # {}
  /\ \E c \in SUBSET left[d] :
       /\ IsSlice(c, left[d])
       /\ chunk' = [chunk EXCEPT ![d] = c]
       /\ left' = [left EXCEPT ![d] = @ \ c]
  /\ failures' = [failures EXCEPT ![d] = 0]
  /\ UNCHANGED <<rows, phase, failed, lost>>

\* The transaction is over, one way or the other.
EndChunk(d) ==
  /\ chunk' = [chunk EXCEPT ![d] = {}]
  /\ phase' = [phase EXCEPT ![d] = IF @ = "reporting" THEN "threw" ELSE @]
  /\ UNCHANGED <<left, failures>>

\* The transaction commits and its answer arrives.
Committed(d) ==
  /\ chunk[d] # {} /\ phase[d] \in {"writing", "reporting"}
  /\ rows' = rows \cup chunk[d]
  /\ EndChunk(d)
  /\ UNCHANGED <<failed, lost>>

\* Mutant: a failure receipt is prepared anew, with a new id, for each attempt.
RetryRedrawn(d) ==
  /\ failures[d] + 1 < Attempts
  /\ failures' = [failures EXCEPT ![d] = @ + 1]
  /\ chunk' = [chunk EXCEPT ![d] =
       IF phase[d] = "reporting" THEN {[FailureRow(d) EXCEPT !.draw = failures[d] + 1]} ELSE @]
  /\ UNCHANGED <<phase, left, failed, lost>>

\* writeBatch failures the same statements again.
Retry(d) ==
  /\ failures[d] + 1 < Attempts
  /\ failures' = [failures EXCEPT ![d] = @ + 1]
  /\ UNCHANGED <<phase, left, chunk, failed, lost>>

\* Mutant: only the last chunk that failed is counted.
GiveUpLastOnly(d) ==
  /\ failures[d] + 1 = Attempts
  /\ EndChunk(d)
  /\ IF phase[d] = "writing"
       THEN /\ failed' = [failed EXCEPT ![d] = Cardinality(chunk[d])]
            /\ lost' = [lost EXCEPT ![d] = @ \cup chunk[d]]
       ELSE UNCHANGED <<failed, lost>>

\* The attempts of a chunk are exhausted; later chunks are still written.
GiveUp(d) ==
  /\ failures[d] + 1 = Attempts
  /\ EndChunk(d)
  /\ IF phase[d] = "writing"
       THEN /\ failed' = [failed EXCEPT ![d] = @ + Cardinality(chunk[d])]
            /\ lost' = [lost EXCEPT ![d] = @ \cup chunk[d]]
       ELSE UNCHANGED <<failed, lost>>

\* D1 rejects the transaction, or commits it and the answer is lost.
AttemptFails(d) ==
  /\ chunk[d] # {} /\ phase[d] \in {"writing", "reporting"}
  /\ rows' \in {rows, rows \cup chunk[d]}
  /\ Retry(d) \/ GiveUp(d)

\* Mutant: a delivery that gave up a chunk ends as if it had not.
FinishQuietly(d) ==
  /\ phase[d] = "writing" /\ chunk[d] = {} /\ left[d] = {}
  /\ phase' = [phase EXCEPT ![d] = "done"]
  /\ UNCHANGED <<rows, left, chunk, failures, failed, lost>>

\* Every chunk was tried: done, or one more transaction for the failure receipt.
Finish(d) ==
  /\ phase[d] = "writing" /\ chunk[d] = {} /\ left[d] = {}
  /\ IF failed[d] = 0
       THEN phase' = [phase EXCEPT ![d] = "done"] /\ UNCHANGED chunk
       ELSE /\ phase' = [phase EXCEPT ![d] = "reporting"]
            /\ chunk' = [chunk EXCEPT ![d] = {FailureRow(d)}]
  /\ failures' = [failures EXCEPT ![d] = 0]
  /\ UNCHANGED <<rows, left, failed, lost>>

\* The platform ends the invocation, and a batch under way may still commit:
\* nothing after this is written or thrown.
Kill(d) ==
  /\ phase[d] \in {"writing", "reporting"}
  /\ phase' = [phase EXCEPT ![d] = "killed"]
  /\ rows' \in {rows, rows \cup chunk[d]}
  /\ UNCHANGED <<left, chunk, failures, failed, lost>>

\* scheduled(): both tables, one transaction.
Cleanup ==
  /\ rows' = {r \in rows : ~ Expired(r)}
  /\ UNCHANGED <<phase, left, chunk, failures, failed, lost>>

UsageNext ==
  \/ \E d \in Deliveries :
       \/ Collect(d) \/ NextChunk(d) \/ Committed(d) \/ AttemptFails(d)
       \/ Finish(d) \/ Kill(d)
  \/ Cleanup

UsageSpec == UsageInit /\ [][UsageNext]_usageVars

-----------------------------------------------------------------------------

UsageTypeOK ==
  /\ rows \subseteq TraceRows \cup GapRows
  /\ phase \in [Deliveries -> Phases]
  /\ left \in [Deliveries -> SUBSET TraceRows]
  /\ chunk \in [Deliveries -> SUBSET (TraceRows \cup GapRows)]
  /\ failures \in [Deliveries -> Nat]
  /\ failed \in [Deliveries -> Nat]
  /\ lost \in [Deliveries -> SUBSET TraceRows]

\* Every statement of a delivery is stored, expired, still to be written, or
\* part of a chunk that was given up and counted.
Accounted(d) ==
  /\ phase[d] = "idle" => left[d] = {} /\ chunk[d] = {} /\ lost[d] = {} /\ failed[d] = 0
  /\ phase[d] # "idle" =>
       \A s \in Prepared(d) : s \in rows \/ Expired(s) \/ s \in left[d] \cup chunk[d] \cup lost[d]
  /\ left[d] \cup lost[d] \subseteq Prepared(d)
  /\ left[d] \cap lost[d] = {}
  /\ phase[d] = "writing" =>
       chunk[d] \subseteq Prepared(d) /\ chunk[d] \cap (left[d] \cup lost[d]) = {}
  /\ phase[d] \in {"reporting", "threw"} => left[d] = {} /\ failed[d] > 0
  /\ phase[d] = "reporting" => chunk[d] = {FailureRow(d)}
  /\ phase[d] = "threw" => chunk[d] = {}
  /\ phase[d] = "done" => left[d] = {} /\ chunk[d] = {} /\ failed[d] = 0
  /\ failed[d] = Cardinality(lost[d])

Missing(d) == {s \in Prepared(d) : s \notin rows /\ ~ Expired(s)}

\* A collection that ends without an error has stored every statement it
\* prepared, but for what the retention has removed: however chunks, retries,
\* lost answers, other deliveries and the cleanup interleave.
NothingLostQuietly == \A d \in Deliveries : phase[d] = "done" => Missing(d) = {}

\* A collection that throws has counted at least the statements that are
\* missing: failed_statements may say too much, never too little.
LossIsCounted ==
  \A d \in Deliveries :
    phase[d] = "threw" => failed[d] > 0 /\ Cardinality(Missing(d)) <= failed[d]

\* A gap is reported once: retries of a receipt whose first write was committed
\* do not add up in the health report.
GapsCountedOnce ==
  \A r, q \in rows :
    (r \in GapRows /\ q \in GapRows /\ r.by = q.by) => r = q

\* The failure receipts are those of FailureRow.
GapIds ==
  /\ rows \cap GapRows \subseteq {FailureRow(d) : d \in Deliveries}
  /\ \A d \in Deliveries : chunk[d] \cap GapRows \subseteq {FailureRow(d)}

UsageIInv == UsageTypeOK /\ (\A d \in Deliveries : Accounted(d)) /\ GapIds

=============================================================================
