---------------------------- MODULE SkillSource ----------------------------
(***************************************************************************)
(* The live retrieval of pinned skill files by one Worker isolate          *)
(* (src/skills/source.ts), together with the per-file deadline its serving *)
(* caller puts around it (withDeadline in src/skills/store.ts) and the     *)
(* cache-bypassing source of the availability canary.                      *)
(*                                                                         *)
(* A call is one invocation source(pin).  A call that misses the memo      *)
(* starts a flight: it tries the colo cache, then upstream, verifies the   *)
(* bytes, scrubs them, and settles a promise that other calls may be       *)
(* waiting for.  A flight has the name of the call that started it.  The   *)
(* steps of this module are the stretches of code between two awaits.      *)
(***************************************************************************)
EXTENDS Naturals, FiniteSets

CONSTANTS
  Calls,        \* invocations of source(pin), serving and canary alike
  Pins,         \* the catalog's file transports
  Urls,         \* commit-pinned upstream URLs
  Bodies,       \* file contents, told apart by equality only
  UrlOf,        \* the URL of a pin
  Sha256Body,   \* the one body whose SHA-256 is the pin's sha256
  BlobBodies,   \* the bodies whose git blob hash is the pin's sha
  DriftBodies,  \* the bodies on which scrubNonExposedRefs throws
  NoCall,       \* an absent memo entry
  NoBody        \* an absent cache entry, an absent buffer

ASSUME ConstantsAssumption ==
  /\ UrlOf \in [Pins -> Urls]
  /\ Sha256Body \in [Pins -> Bodies]
  /\ BlobBodies \in [Pins -> SUBSET Bodies]
  /\ DriftBodies \subseteq Bodies
  /\ NoCall \notin Calls
  /\ NoBody \notin Bodies

VARIABLES
  pin,      \* pin[c]: the argument of call c
  probe,    \* probe[c]: c comes from a source made with bypassCaches
  memo,     \* memo[k]: the flight whose promise is stored under key k
  colo,     \* colo[u]: the bytes the colo cache holds for URL u
  phase,    \* phase[c]: where the code of call c is
  attempt,  \* attempt[c]: upstream requests made by flight c
  bytes,    \* bytes[c]: the verified bytes flight c has in hand
  from,     \* from[c]: the retrieval provenance c will report
  text,     \* text[c]: the text flight c resolved with
  waits,    \* waits[c]: the flight whose promise call c awaits
  answer,   \* answer[c]: how call c ended for its caller
  got       \* got[c]: the text call c returned

args  == <<pin, probe>>
local == <<attempt, bytes, from, text>>
vars  == <<pin, probe, memo, colo, phase, attempt, bytes, from, text,
           waits, answer, got>>

MaxAttempts == 2

Flying  == {"match", "fetch", "put"}
Phases  == {"idle", "joined", "resolved", "rejected"} \cup Flying
Answers == {"none", "text", "error", "deadline"}
Froms   == {"memo", "cache", "upstream"}

\* A forwarded text: the body it was decoded from, and whether it was scrubbed.
Texts   == [body : Bodies, scrubbed : BOOLEAN]
NoText  == [body |-> NoBody, scrubbed |-> FALSE]
Scrub(b) == [body |-> b, scrubbed |-> TRUE]

\* Mutant: the git blob hash is left out of the key.
MemoKeyWithoutBlob(p) == <<UrlOf[p], Sha256Body[p]>>

\* Both digests of the pin are in the key, next to the URL.
MemoKey(p) == <<UrlOf[p], Sha256Body[p], BlobBodies[p]>>
Keys       == {MemoKey(p) : p \in Pins}

\* SHA-256 first, then the git blob hash; either mismatch throws.
Verifies(b, p) == b = Sha256Body[p] /\ b \in BlobBodies[p]

TypeOK ==
  /\ pin \in [Calls -> Pins]
  /\ probe \in [Calls -> BOOLEAN]
  /\ memo \in [Keys -> Calls \cup {NoCall}]
  /\ colo \in [Urls -> Bodies \cup {NoBody}]
  /\ phase \in [Calls -> Phases]
  /\ attempt \in [Calls -> 0..MaxAttempts]
  /\ bytes \in [Calls -> Bodies \cup {NoBody}]
  /\ from \in [Calls -> Froms]
  /\ text \in [Calls -> Texts \cup {NoText}]
  /\ waits \in [Calls -> Calls]
  /\ answer \in [Calls -> Answers]
  /\ got \in [Calls -> Texts \cup {NoText}]

Init ==
  /\ pin \in [Calls -> Pins]
  /\ probe \in [Calls -> BOOLEAN]
  /\ memo = [k \in Keys |-> NoCall]
  /\ colo \in [Urls -> Bodies \cup {NoBody}]
  /\ phase = [c \in Calls |-> "idle"]
  /\ attempt = [c \in Calls |-> 0]
  /\ bytes = [c \in Calls |-> NoBody]
  /\ from = [c \in Calls |-> "upstream"]
  /\ text = [c \in Calls |-> NoText]
  /\ waits = [c \in Calls |-> c]
  /\ answer = [c \in Calls |-> "none"]
  /\ got = [c \in Calls |-> NoText]

-----------------------------------------------------------------------------
(* Settling a flight's promise.                                            *)

Resolve(c, t) ==
  /\ phase' = [phase EXCEPT ![c] = "resolved"]
  /\ text' = [text EXCEPT ![c] = t]
  /\ UNCHANGED memo

\* Mutant: the handler deletes whatever entry the key has, a probe's included.
RejectAnyEntry(c) ==
  /\ phase' = [phase EXCEPT ![c] = "rejected"]
  /\ memo' = [memo EXCEPT ![MemoKey(pin[c])] = NoCall]
  /\ UNCHANGED text

\* The rejection handler runs before anyone awaiting the promise: it removes
\* the memo entry this very flight owns, and only that one.
Reject(c) ==
  LET k == MemoKey(pin[c]) IN
  /\ phase' = [phase EXCEPT ![c] = "rejected"]
  /\ memo' = IF ~probe[c] /\ memo[k] = c THEN [memo EXCEPT ![k] = NoCall]
                                         ELSE memo
  /\ UNCHANGED text

\* The last statement of a flight: scrub what was verified, or throw.
ScrubAndSettle(c, b) ==
  \/ b \notin DriftBodies /\ Resolve(c, Scrub(b))
  \/ b \in DriftBodies /\ Reject(c)

-----------------------------------------------------------------------------
(* The call, up to its first await.                                        *)

MemoHit(c) ==
  LET k == MemoKey(pin[c]) IN
  /\ phase[c] = "idle"
  /\ ~probe[c]
  /\ memo[k] # NoCall
  /\ phase' = [phase EXCEPT ![c] = "joined"]
  /\ waits' = [waits EXCEPT ![c] = memo[k]]
  /\ from' = [from EXCEPT ![c] = "memo"]
  /\ UNCHANGED <<args, memo, colo, attempt, bytes, text, answer, got>>

\* Mutant: a read does not look for a flight already under way.
StartFlightAlways(c) ==
  /\ phase[c] = "idle"
  /\ phase' = [phase EXCEPT ![c] = IF probe[c] THEN "fetch" ELSE "match"]
  /\ memo' = IF probe[c] THEN memo ELSE [memo EXCEPT ![MemoKey(pin[c])] = c]
  /\ UNCHANGED <<args, colo, local, waits, answer, got>>

\* A probe has no cache object, so it goes straight to the network.
StartFlight(c) ==
  LET k == MemoKey(pin[c]) IN
  /\ phase[c] = "idle"
  /\ probe[c] \/ memo[k] = NoCall
  /\ phase' = [phase EXCEPT ![c] = IF probe[c] THEN "fetch" ELSE "match"]
  /\ memo' = IF probe[c] THEN memo ELSE [memo EXCEPT ![k] = c]
  /\ UNCHANGED <<args, colo, local, waits, answer, got>>

-----------------------------------------------------------------------------
(* The colo cache lookup.  Anything that throws here falls through.        *)

ToUpstream(c) == phase' = [phase EXCEPT ![c] = "fetch"] /\ UNCHANGED <<memo, text>>

CacheMiss(c) ==   \* no entry, or the cache backend threw
  /\ phase[c] = "match"
  /\ ToUpstream(c)
  /\ UNCHANGED <<args, colo, attempt, bytes, from, waits, answer, got>>

\* Mutant: the provenance is recorded before the bytes are verified.
CacheHitEarlyFrom(c) ==
  LET b == colo[UrlOf[pin[c]]] IN
  /\ phase[c] = "match"
  /\ b # NoBody
  /\ from' = [from EXCEPT ![c] = "cache"]
  /\ IF Verifies(b, pin[c]) /\ b \notin DriftBodies THEN Resolve(c, Scrub(b))
                                                    ELSE ToUpstream(c)
  /\ UNCHANGED <<args, colo, attempt, bytes, waits, answer, got>>

CacheHit(c) ==
  LET b == colo[UrlOf[pin[c]]] IN
  /\ phase[c] = "match"
  /\ b # NoBody
  /\ \/ /\ ~Verifies(b, pin[c])
        /\ ToUpstream(c)
        /\ UNCHANGED from
     \/ /\ Verifies(b, pin[c])
        /\ from' = [from EXCEPT ![c] = "cache"]
        /\ \/ b \notin DriftBodies /\ Resolve(c, Scrub(b))
           \/ b \in DriftBodies /\ ToUpstream(c)
  /\ UNCHANGED <<args, colo, attempt, bytes, waits, answer, got>>

-----------------------------------------------------------------------------
(* The upstream fetch: two attempts at most.                               *)

\* Mutant: the attempt counter starts over, so the loop never gives up.
FetchRetryableForever(c) ==
  /\ phase[c] = "fetch"
  /\ attempt' = [attempt EXCEPT ![c] = (@ + 1) % MaxAttempts]
  /\ UNCHANGED <<args, memo, colo, phase, bytes, from, text, waits, answer, got>>

\* The request threw (its 8s timeout included), or the status was 5xx.
FetchRetryable(c) ==
  /\ phase[c] = "fetch"
  /\ attempt' = [attempt EXCEPT ![c] = @ + 1]
  /\ IF attempt[c] + 1 < MaxAttempts THEN UNCHANGED <<phase, memo, text>>
                                     ELSE Reject(c)
  /\ UNCHANGED <<args, colo, bytes, from, waits, answer, got>>

\* The status was 4xx, or reading the body of a 2xx failed: no second attempt.
FetchFatal(c) ==
  /\ phase[c] = "fetch"
  /\ attempt' = [attempt EXCEPT ![c] = @ + 1]
  /\ Reject(c)
  /\ UNCHANGED <<args, colo, bytes, from, waits, answer, got>>

\* A body b arrived.  Bytes that do not verify are refused without a retry; a
\* probe has no cache to write and settles at once.
FetchBody(c, b) ==
  /\ phase[c] = "fetch"
  /\ attempt' = [attempt EXCEPT ![c] = @ + 1]
  /\ \/ /\ ~Verifies(b, pin[c])
        /\ Reject(c)
        /\ UNCHANGED bytes
     \/ /\ Verifies(b, pin[c])
        /\ bytes' = [bytes EXCEPT ![c] = b]
        /\ IF probe[c] THEN ScrubAndSettle(c, b)
                       ELSE /\ phase' = [phase EXCEPT ![c] = "put"]
                            /\ UNCHANGED <<memo, text>>
  /\ UNCHANGED <<args, colo, from, waits, answer, got>>

\* cache.put wrote, threw, or was refused; the flight settles either way.
CachePut(c) ==
  /\ phase[c] = "put"
  /\ \/ colo' = [colo EXCEPT ![UrlOf[pin[c]]] = bytes[c]]
     \/ UNCHANGED colo
  /\ ScrubAndSettle(c, bytes[c])
  /\ UNCHANGED <<args, attempt, bytes, from, waits, answer, got>>

-----------------------------------------------------------------------------
(* The caller.                                                             *)

Awaiting(c) == phase[c] # "idle" /\ answer[c] = "none"

\* The awaited promise settled and the continuation of call c runs.
Deliver(c) ==
  /\ Awaiting(c)
  /\ \/ /\ phase[waits[c]] = "resolved"
        /\ answer' = [answer EXCEPT ![c] = "text"]
        /\ got' = [got EXCEPT ![c] = text[waits[c]]]
     \/ /\ phase[waits[c]] = "rejected"
        /\ answer' = [answer EXCEPT ![c] = "error"]
        /\ UNCHANGED got
  /\ UNCHANGED <<args, memo, colo, phase, local, waits>>

\* Mutant: only the call that started the flight has a deadline.
DeadlineOwnerOnly(c) ==
  /\ Awaiting(c)
  /\ ~probe[c]
  /\ waits[c] = c
  /\ answer' = [answer EXCEPT ![c] = "deadline"]
  /\ UNCHANGED <<args, memo, colo, phase, local, waits, got>>

\* The serving caller's 20s race is lost; the flight is not cancelled.
Deadline(c) ==
  /\ Awaiting(c)
  /\ ~probe[c]
  /\ answer' = [answer EXCEPT ![c] = "deadline"]
  /\ UNCHANGED <<args, memo, colo, phase, local, waits, got>>

\* The colo cache is shared and untrusted: other isolates write it, entries
\* are evicted, and its content is never assumed good.
ColoChange(u, b) ==
  /\ b # colo[u]
  /\ colo' = [colo EXCEPT ![u] = b]
  /\ UNCHANGED <<args, memo, phase, local, waits, answer, got>>

-----------------------------------------------------------------------------
Fetch(c) == FetchRetryable(c) \/ FetchFatal(c) \/ \E b \in Bodies : FetchBody(c, b)
CacheLookup(c) == CacheMiss(c) \/ CacheHit(c)
Start(c) == MemoHit(c) \/ StartFlight(c)

Next ==
  \/ \E c \in Calls : \/ MemoHit(c)
                      \/ StartFlight(c)
                      \/ CacheMiss(c)
                      \/ CacheHit(c)
                      \/ FetchRetryable(c)
                      \/ FetchFatal(c)
                      \/ \E b \in Bodies : FetchBody(c, b)
                      \/ CachePut(c)
                      \/ Deliver(c)
                      \/ Deadline(c)
  \/ \E u \in Urls, b \in Bodies \cup {NoBody} : ColoChange(u, b)

Spec == Init /\ [][Next]_vars

\* The event loop runs what is ready, the timers fire, and an upstream request
\* ends because AbortSignal.timeout bounds it.  Nothing bounds a cache call.
FairSpec == /\ Spec
            /\ \A c \in Calls : /\ WF_vars(Fetch(c))
                                /\ WF_vars(Deliver(c))
                                /\ WF_vars(Deadline(c))

-----------------------------------------------------------------------------
(* A text handed to a caller was scrubbed and passes both digests of the   *)
(* pin that caller asked for, whoever fetched it: the memo key must        *)
(* separate pins that share a URL, and the URL-keyed colo cache must not   *)
(* leak one pin's bytes into the other's answer.                           *)
ServedIsPinned ==
  \A c \in Calls : answer[c] = "text" =>
    /\ got[c].scrubbed
    /\ Verifies(got[c].body, pin[c])
    /\ got[c].body \notin DriftBodies

(* The memo holds exactly the serving flights that are pending or          *)
(* resolved.  So a failed fetch leaves nothing behind for later readers,   *)
(* a pin has at most one flight at a time, a read that lost its deadline   *)
(* still leaves its late success for the next reader, and no probe is ever *)
(* served to a user.                                                       *)
MemoIsLiveFlight ==
  \A c \in Calls :
    (~probe[c] /\ phase[c] \in Flying \cup {"resolved"})
      <=> memo[MemoKey(pin[c])] = c

(* The provenance a successful read reports is where its bytes came from:  *)
(* "cache" means that this call never reached upstream, although the code  *)
(* sets it before the scrub that may still throw.                          *)
ProvenanceTruthful ==
  \A c \in Calls : answer[c] = "text" =>
    /\ from[c] = "cache" => attempt[c] = 0 /\ waits[c] = c
    /\ from[c] = "upstream" => attempt[c] > 0 /\ waits[c] = c
    /\ from[c] = "memo" => waits[c] # c

(* A verified body stays memoised for the life of the isolate: no later    *)
(* call, no failing canary and no cache change evicts it.                  *)
GoodEntryStays ==
  [][\A k \in Keys : memo[k] # NoCall /\ phase[memo[k]] = "resolved"
                       => memo'[k] = memo[k]]_vars

(* Every serving read is answered, even when the colo cache never answers: *)
(* the deadline covers an owner and a joiner alike.                        *)
EveryReadAnswered ==
  \A c \in Calls : (phase[c] # "idle" /\ ~probe[c]) ~> answer[c] # "none"

(* A flight to which the colo cache answers always settles, whatever       *)
(* upstream does and whoever gave up waiting for it, so that no memo entry *)
(* stays pending.                                                          *)
CacheAnswers(c) == WF_vars(CacheLookup(c)) /\ WF_vars(CachePut(c))
FlightSettles ==
  \A c \in Calls :
    CacheAnswers(c) => (phase[c] \in Flying ~> phase[c] \in {"resolved", "rejected"})

(* The comment on the cache write: bytes already fetched and verified are  *)
(* served whatever the cache does.                                         *)
VerifiedBytesAreServed ==
  \A c \in Calls : phase[c] = "put" ~> phase[c] \in {"resolved", "rejected"}
-----------------------------------------------------------------------------
(* What each part of the state remembers between two steps; with these the *)
(* invariants above become inductive.                                      *)

\* An entry is filed under the key of the flight it names.
MemoKeyed ==
  \A k \in Keys : memo[k] # NoCall =>
    memo[k] \in Calls /\ MemoKey(pin[memo[k]]) = k /\ ~probe[memo[k]]

\* Bytes kept across the cache write, and resolved texts, are verified.
FlightVerified ==
  \A c \in Calls :
    /\ phase[c] = "put" => Verifies(bytes[c], pin[c])
    /\ phase[c] = "resolved" => /\ text[c].scrubbed
                                /\ Verifies(text[c].body, pin[c])
                                /\ text[c].body \notin DriftBodies

\* Only a memo hit awaits another call's flight, and one with the same key.
WaitsForSameKey ==
  \A c \in Calls :
    /\ phase[c] = "joined" <=> waits[c] # c
    /\ phase[c] = "joined" <=> from[c] = "memo"
    /\ MemoKey(pin[waits[c]]) = MemoKey(pin[c])
    /\ phase[c] = "joined" => ~probe[waits[c]]
    /\ phase[c] = "idle" => answer[c] = "none"
    /\ answer[c] = "text" => phase[waits[c]] = "resolved"

\* A cache hit that did not settle the flight was a body the scrub refuses.
FromFollowsBytes ==
  \A c \in Calls :
    /\ phase[c] \in {"idle", "match"} => attempt[c] = 0 /\ from[c] = "upstream"
    /\ phase[c] = "fetch" => attempt[c] < MaxAttempts
    /\ phase[c] \in {"put", "resolved"} /\ from[c] = "upstream" => attempt[c] > 0
    /\ phase[c] = "resolved" /\ from[c] = "cache" => attempt[c] = 0
    /\ phase[c] \in {"fetch", "put"} /\ from[c] = "cache" =>
         Sha256Body[pin[c]] \in DriftBodies

(* The inductive invariant: the state of the memo, of every flight and of  *)
(* every caller agree at all times.                                        *)
IInv ==
  /\ TypeOK
  /\ MemoKeyed
  /\ MemoIsLiveFlight
  /\ FlightVerified
  /\ WaitsForSameKey
  /\ FromFollowsBytes
  /\ ServedIsPinned

-----------------------------------------------------------------------------
(* The abstract specification: the memo entry of a key is its shelf.       *)

ShelfOf(k) == CASE memo[k] = NoCall -> "absent"
                [] memo[k] # NoCall /\ phase[memo[k]] = "resolved" -> "ready"
                [] OTHER -> "loading"

Promise == INSTANCE PinnedReads WITH
             KeyOf  <- [p \in Pins |-> MemoKey(p)],
             TextOf <- [p \in Pins |-> Scrub(Sha256Body[p])],
             shelf  <- [k \in Keys |-> ShelfOf(k)]

(* Every behaviour of the source is one of the promise: a read ends with   *)
(* its own pinned text only when its identity was retrieved, retrievals of *)
(* one identity never overlap, and a ready identity is never given up.     *)
ImplementsPromise == Promise!Spec
=============================================================================
