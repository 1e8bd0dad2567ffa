------------------------- MODULE SkillSourceProofs -------------------------
(***************************************************************************)
(* Proofs about SkillSource: the inductive invariant, what follows from    *)
(* it, and the refinement of PinnedReads.                                  *)
(***************************************************************************)
EXTENDS SkillSource, TLAPS

(* The two digests in the memo key decide verification, so pins that share *)
(* a key accept the same bodies: what memoKey in source.ts relies on.      *)
LEMMA SameKeySameBytes ==
  ASSUME NEW p \in Pins, NEW q \in Pins, NEW b, MemoKey(p) = MemoKey(q)
  PROVE  Verifies(b, p) <=> Verifies(b, q)
BY DEF MemoKey, Verifies

LEMMA KeyInKeys ==
  ASSUME NEW p \in Pins
  PROVE  MemoKey(p) \in Keys
BY DEF Keys

LEMMA ScrubType ==
  ASSUME NEW b \in Bodies
  PROVE  /\ Scrub(b) \in Texts
         /\ Scrub(b).body = b
         /\ Scrub(b).scrubbed
BY DEF Scrub, Texts

LEMMA InitIInv == Init => IInv
<1> SUFFICES ASSUME Init PROVE IInv
  OBVIOUS
<1> USE ConstantsAssumption
<1>1. TypeOK
  BY DEF Init, TypeOK, Phases, Flying, Answers, Froms, MaxAttempts
<1>2. MemoKeyed
  BY DEF Init, MemoKeyed
<1>3. MemoIsLiveFlight
  BY KeyInKeys DEF Init, MemoIsLiveFlight, Flying
<1>4. FlightVerified
  BY DEF Init, FlightVerified
<1>5. WaitsForSameKey
  BY DEF Init, WaitsForSameKey
<1>6. FromFollowsBytes
  BY DEF Init, FromFollowsBytes
<1>7. ServedIsPinned
  BY DEF Init, ServedIsPinned
<1> QED
  BY <1>1, <1>2, <1>3, <1>4, <1>5, <1>6, <1>7 DEF IInv

-----------------------------------------------------------------------------
(* What the memo and the phases become when a flight advances, resolves or *)
(* rejects.  These three facts carry the argument of MemoIsLiveFlight.     *)

LEMMA AllKeysInKeys ==
  ASSUME TypeOK
  PROVE  \A c \in Calls : MemoKey(pin[c]) \in Keys
BY KeyInKeys DEF TypeOK

LEMMA AdvanceMemo ==
  ASSUME IInv, NEW c \in Calls, phase[c] \in Flying, UNCHANGED args,
         NEW q \in Flying \cup {"resolved"},
         phase' = [phase EXCEPT ![c] = q], UNCHANGED memo
  PROVE  /\ phase' \in [Calls -> Phases]
         /\ memo' \in [Keys -> Calls \cup {NoCall}]
         /\ MemoKeyed'
         /\ MemoIsLiveFlight'
<1> USE DEF IInv, args
<1>1. phase' \in [Calls -> Phases]
  BY DEF TypeOK, Phases, Flying
<1>2. memo' \in [Keys -> Calls \cup {NoCall}]
  BY DEF TypeOK
<1>3. MemoKeyed'
  BY DEF MemoKeyed
<1>4. MemoIsLiveFlight'
  BY DEF MemoIsLiveFlight, TypeOK, Flying
<1> QED
  BY <1>1, <1>2, <1>3, <1>4

LEMMA RejectMemo ==
  ASSUME IInv, NEW c \in Calls, phase[c] \in Flying, UNCHANGED args, Reject(c)
  PROVE  /\ phase' \in [Calls -> Phases]
         /\ memo' \in [Keys -> Calls \cup {NoCall}]
         /\ MemoKeyed'
         /\ MemoIsLiveFlight'
<1> USE ConstantsAssumption DEF IInv, args
<1>1. phase' \in [Calls -> Phases] /\ phase'[c] = "rejected"
  BY DEF TypeOK, Phases, Flying, Reject
<1>2. \A d \in Calls : d # c => phase'[d] = phase[d]
  BY DEF TypeOK, Reject
<1>3. MemoKey(pin[c]) \in Keys
  BY KeyInKeys DEF TypeOK
<1>4. memo' \in [Keys -> Calls \cup {NoCall}]
  BY <1>3 DEF TypeOK, Reject
<1>5. \A k \in Keys : memo'[k] = IF memo[k] = c THEN NoCall ELSE memo[k]
  <2>1. CASE ~probe[c]
    <3>1. memo[MemoKey(pin[c])] = c
      BY <2>1 DEF MemoIsLiveFlight
    <3>2. memo' = [memo EXCEPT ![MemoKey(pin[c])] = NoCall]
      BY <2>1, <3>1 DEF Reject
    <3>3. \A k \in Keys : memo[k] = c => k = MemoKey(pin[c])
      BY DEF MemoKeyed
    <3> QED
      BY <1>3, <3>1, <3>2, <3>3 DEF TypeOK
  <2>2. CASE probe[c]
    <3>1. memo' = memo
      BY <2>2 DEF Reject
    <3>2. \A k \in Keys : memo[k] # c
      BY <2>2 DEF MemoKeyed
    <3> QED
      BY <3>1, <3>2
  <2> QED
    BY <2>1, <2>2
<1>6. MemoKeyed'
  BY <1>5 DEF MemoKeyed
<1>7. MemoIsLiveFlight'
  <2> SUFFICES ASSUME NEW d \in Calls
               PROVE  (~probe[d] /\ phase'[d] \in Flying \cup {"resolved"})
                        <=> memo'[MemoKey(pin[d])] = d
    BY DEF MemoIsLiveFlight
  <2>1. MemoKey(pin[d]) \in Keys
    BY KeyInKeys DEF TypeOK
  <2>2. CASE d = c
    BY <1>1, <1>5, <2>1, <2>2 DEF Flying
  <2>3. CASE d # c
    BY <1>2, <1>5, <2>1, <2>3 DEF MemoIsLiveFlight
  <2> QED
    BY <2>2, <2>3
<1> QED
  BY <1>1, <1>4, <1>6, <1>7

-----------------------------------------------------------------------------
(* One lemma per action; the flight steps share the two ways of settling.  *)


LEMMA MemoHitStep ==
  ASSUME IInv, NEW c \in Calls, MemoHit(c)
  PROVE  IInv'
<1> USE ConstantsAssumption DEF IInv, args
<1>0. /\ MemoKey(pin[c]) \in Keys
      /\ memo[MemoKey(pin[c])] \in Calls
      /\ memo[MemoKey(pin[c])] # c
  BY KeyInKeys DEF MemoHit, TypeOK, MemoKeyed, MemoIsLiveFlight, Flying
<1>1. TypeOK'
  BY <1>0 DEF TypeOK, Phases, Flying, Froms, Answers, MemoHit
<1>2. MemoKeyed'
  BY <1>0 DEF MemoKeyed, TypeOK, MemoHit
<1>3. MemoIsLiveFlight'
  BY <1>0 DEF MemoIsLiveFlight, MemoKeyed, TypeOK, Flying, MemoHit
<1>4. FlightVerified'
  BY <1>0 DEF FlightVerified, TypeOK, MemoHit
<1>5. WaitsForSameKey'
  BY <1>0 DEF WaitsForSameKey, MemoKeyed, MemoHit, TypeOK
<1>6. FromFollowsBytes'
  BY <1>0 DEF FromFollowsBytes, TypeOK, MaxAttempts, MemoHit
<1>7. ServedIsPinned'
  BY <1>0 DEF ServedIsPinned, WaitsForSameKey, TypeOK, MemoHit
<1> QED
  BY <1>1, <1>2, <1>3, <1>4, <1>5, <1>6, <1>7

LEMMA StartFlightStep ==
  ASSUME IInv, NEW c \in Calls, StartFlight(c)
  PROVE  IInv'
<1> USE ConstantsAssumption DEF IInv, args
<1>0. \A d \in Calls : MemoKey(pin[d]) \in Keys
  BY AllKeysInKeys
<1>1. TypeOK'
  BY <1>0 DEF TypeOK, Phases, Flying, Froms, Answers, StartFlight, local
<1>2. MemoKeyed'
  BY <1>0 DEF MemoKeyed, TypeOK, StartFlight, local
<1>3. MemoIsLiveFlight'
  <2>1. \A d \in Calls : d # c => phase'[d] = phase[d]
    BY DEF StartFlight, TypeOK
  <2>2. phase'[c] = IF probe[c] THEN "fetch" ELSE "match"
    BY DEF StartFlight, TypeOK
  <2>3. CASE probe[c]
    BY <2>1, <2>2, <2>3 DEF StartFlight, MemoIsLiveFlight
  <2>4. CASE ~probe[c]
    <3>1. memo' = [memo EXCEPT ![MemoKey(pin[c])] = c] /\ memo[MemoKey(pin[c])] = NoCall
      BY <2>4 DEF StartFlight
    <3> SUFFICES ASSUME NEW d \in Calls
                 PROVE  (~probe[d] /\ phase'[d] \in Flying \cup {"resolved"})
                          <=> memo'[MemoKey(pin[d])] = d
      BY DEF MemoIsLiveFlight, StartFlight
    <3>2. CASE d = c
      BY <1>0, <2>2, <2>4, <3>1, <3>2 DEF TypeOK, Flying
    <3>3. CASE d # c
      BY <1>0, <2>1, <3>1, <3>3 DEF TypeOK, MemoIsLiveFlight
    <3> QED
      BY <3>2, <3>3
  <2> QED
    BY <2>3, <2>4
<1>4. FlightVerified'
  BY <1>0 DEF FlightVerified, TypeOK, StartFlight, local
<1>5. WaitsForSameKey'
  BY <1>0 DEF WaitsForSameKey, TypeOK, StartFlight, local
<1>6. FromFollowsBytes'
  BY <1>0 DEF FromFollowsBytes, TypeOK, MaxAttempts, StartFlight, local
<1>7. ServedIsPinned'
  BY <1>0 DEF ServedIsPinned, WaitsForSameKey, TypeOK, StartFlight, local
<1> QED
  BY <1>1, <1>2, <1>3, <1>4, <1>5, <1>6, <1>7

LEMMA CacheMissStep ==
  ASSUME IInv, NEW c \in Calls, CacheMiss(c)
  PROVE  IInv'
<1> USE ConstantsAssumption DEF IInv, args
<1>m. /\ phase' \in [Calls -> Phases]
      /\ memo' \in [Keys -> Calls \cup {NoCall}]
      /\ MemoKeyed'
      /\ MemoIsLiveFlight'
  BY AdvanceMemo DEF CacheMiss, ToUpstream, Flying
<1>1. TypeOK'
  BY <1>m DEF TypeOK, Phases, Flying, Froms, Answers, CacheMiss, ToUpstream
<1>2. MemoKeyed'
  BY <1>m
<1>3. MemoIsLiveFlight'
  BY <1>m
<1>4. FlightVerified'
  BY <1>m DEF FlightVerified, TypeOK, CacheMiss, ToUpstream
<1>5. WaitsForSameKey'
  BY <1>m DEF WaitsForSameKey, TypeOK, CacheMiss, ToUpstream
<1>6. FromFollowsBytes'
  BY <1>m DEF FromFollowsBytes, TypeOK, MaxAttempts, CacheMiss, ToUpstream
<1>7. ServedIsPinned'
  BY <1>m DEF ServedIsPinned, WaitsForSameKey, TypeOK, CacheMiss, ToUpstream
<1> QED
  BY <1>1, <1>2, <1>3, <1>4, <1>5, <1>6, <1>7

LEMMA CacheHitStep ==
  ASSUME IInv, NEW c \in Calls, CacheHit(c)
  PROVE  IInv'
<1> USE ConstantsAssumption DEF IInv, args
<1> DEFINE b == colo[UrlOf[pin[c]]]
<1>b. /\ b \in Bodies
      /\ Scrub(b) \in Texts /\ Scrub(b).body = b /\ Scrub(b).scrubbed
  BY ScrubType DEF TypeOK, CacheHit
<1>m. /\ phase' \in [Calls -> Phases]
      /\ memo' \in [Keys -> Calls \cup {NoCall}]
      /\ MemoKeyed'
      /\ MemoIsLiveFlight'
  BY AdvanceMemo DEF CacheHit, ToUpstream, Resolve, Flying
<1>1. TypeOK'
  <2>1. from' \in [Calls -> Froms]
    BY DEF CacheHit, TypeOK, Froms
  <2>2. text' \in [Calls -> Texts \cup {NoText}]
    BY <1>b DEF CacheHit, TypeOK, ToUpstream, Resolve
  <2> QED
    BY <1>m, <2>1, <2>2 DEF TypeOK, CacheHit
<1>2. MemoKeyed'
  BY <1>m
<1>3. MemoIsLiveFlight'
  BY <1>m
<1>4. FlightVerified'
  BY <1>b, <1>m DEF FlightVerified, TypeOK, CacheHit, ToUpstream, Resolve
<1>5. WaitsForSameKey'
  BY <1>b, <1>m DEF WaitsForSameKey, TypeOK, CacheHit, ToUpstream, Resolve
<1>6. FromFollowsBytes'
  BY <1>b DEF FromFollowsBytes, TypeOK, MaxAttempts, Verifies, CacheHit, ToUpstream, Resolve
<1>7. ServedIsPinned'
  BY <1>b, <1>m DEF ServedIsPinned, WaitsForSameKey, TypeOK, CacheHit, ToUpstream, Resolve
<1> QED
  BY <1>1, <1>2, <1>3, <1>4, <1>5, <1>6, <1>7

LEMMA FetchRetryableStep ==
  ASSUME IInv, NEW c \in Calls, FetchRetryable(c)
  PROVE  IInv'
<1> USE ConstantsAssumption DEF IInv, args
<1>a. attempt[c] \in Nat /\ attempt[c] < MaxAttempts
  BY SMTT(30) DEF FetchRetryable, FromFollowsBytes, TypeOK, MaxAttempts
<1>m. /\ phase' \in [Calls -> Phases]
      /\ memo' \in [Keys -> Calls \cup {NoCall}]
      /\ MemoKeyed'
      /\ MemoIsLiveFlight'
  <2>1. CASE Reject(c)
    BY <2>1, RejectMemo DEF FetchRetryable, Flying
  <2>2. CASE UNCHANGED <<phase, memo, text>>
    BY <2>2 DEF FetchRetryable, MemoKeyed, MemoIsLiveFlight, TypeOK
  <2> QED
    BY <2>1, <2>2 DEF FetchRetryable
<1>1. TypeOK'
  <2>1. attempt' \in [Calls -> 0..MaxAttempts]
    BY <1>a DEF FetchRetryable, TypeOK, MaxAttempts
  <2>2. UNCHANGED text
    BY DEF FetchRetryable, Reject
  <2> QED
    BY <1>m, <2>1, <2>2 DEF TypeOK, FetchRetryable
<1>2. MemoKeyed'
  BY <1>m
<1>3. MemoIsLiveFlight'
  BY <1>m
<1>4. FlightVerified'
  BY <1>a, <1>m, ZenonT(30) DEF FlightVerified, TypeOK, FetchRetryable, Reject, MaxAttempts
<1>5. WaitsForSameKey'
  <2>1. phase[c] = "fetch" /\ phase'[c] \in {"fetch", "rejected"}
    BY DEF FetchRetryable, Reject, TypeOK
  <2>2. \A d \in Calls : d # c => phase'[d] = phase[d]
    BY DEF FetchRetryable, Reject, TypeOK
  <2>3. UNCHANGED <<pin, probe, waits, from, answer>>
    BY DEF FetchRetryable
  <2> QED
    BY <2>1, <2>2, <2>3 DEF WaitsForSameKey, TypeOK
<1>6. FromFollowsBytes'
  BY <1>a, <1>m DEF FromFollowsBytes, TypeOK, MaxAttempts, FetchRetryable, Reject, MaxAttempts
<1>7. ServedIsPinned'
  BY <1>a, <1>m DEF ServedIsPinned, WaitsForSameKey, TypeOK, FetchRetryable, Reject, MaxAttempts
<1> QED
  BY <1>1, <1>2, <1>3, <1>4, <1>5, <1>6, <1>7

LEMMA FetchFatalStep ==
  ASSUME IInv, NEW c \in Calls, FetchFatal(c)
  PROVE  IInv'
<1> USE ConstantsAssumption DEF IInv, args
<1>a. attempt[c] \in Nat /\ attempt[c] < MaxAttempts
  BY SMTT(30) DEF FetchFatal, FromFollowsBytes, TypeOK, MaxAttempts
<1>m. /\ phase' \in [Calls -> Phases]
      /\ memo' \in [Keys -> Calls \cup {NoCall}]
      /\ MemoKeyed'
      /\ MemoIsLiveFlight'
  BY RejectMemo DEF FetchFatal, Flying
<1>1. TypeOK'
  BY <1>a, <1>m, SMTT(30) DEF TypeOK, Phases, Flying, Froms, Answers, FetchFatal, Reject, MaxAttempts
<1>2. MemoKeyed'
  BY <1>m
<1>3. MemoIsLiveFlight'
  BY <1>m
<1>4. FlightVerified'
  BY <1>a, <1>m DEF FlightVerified, TypeOK, FetchFatal, Reject, MaxAttempts
<1>5. WaitsForSameKey'
  BY <1>a, <1>m DEF WaitsForSameKey, TypeOK, FetchFatal, Reject, MaxAttempts
<1>6. FromFollowsBytes'
  BY <1>a, <1>m DEF FromFollowsBytes, TypeOK, MaxAttempts, FetchFatal, Reject, MaxAttempts
<1>7. ServedIsPinned'
  BY <1>a, <1>m DEF ServedIsPinned, WaitsForSameKey, TypeOK, FetchFatal, Reject, MaxAttempts
<1> QED
  BY <1>1, <1>2, <1>3, <1>4, <1>5, <1>6, <1>7

LEMMA FetchBodyStep ==
  ASSUME IInv, NEW c \in Calls, NEW b \in Bodies, FetchBody(c, b)
  PROVE  IInv'
<1> USE ConstantsAssumption DEF IInv, args
<1>a. attempt[c] \in Nat /\ attempt[c] < MaxAttempts
  BY DEF FetchBody, FromFollowsBytes, TypeOK, MaxAttempts
<1>b. Scrub(b) \in Texts /\ Scrub(b).body = b /\ Scrub(b).scrubbed
  BY ScrubType
<1>m. /\ phase' \in [Calls -> Phases]
      /\ memo' \in [Keys -> Calls \cup {NoCall}]
      /\ MemoKeyed'
      /\ MemoIsLiveFlight'
  <2>1. CASE Reject(c)
    BY <2>1, RejectMemo DEF FetchBody, Flying
  <2>2. CASE Resolve(c, Scrub(b))
    BY <2>2, AdvanceMemo DEF FetchBody, Resolve, Flying
  <2>3. CASE phase' = [phase EXCEPT ![c] = "put"] /\ UNCHANGED <<memo, text>>
    BY <2>3, AdvanceMemo DEF FetchBody, Flying
  <2> QED
    BY <2>1, <2>2, <2>3 DEF FetchBody, ScrubAndSettle
<1>1. TypeOK'
  BY <1>a, <1>b, <1>m DEF TypeOK, Phases, Flying, Froms, Answers, FetchBody, ScrubAndSettle, Resolve, Reject, MaxAttempts
<1>2. MemoKeyed'
  BY <1>m
<1>3. MemoIsLiveFlight'
  BY <1>m
<1>4. FlightVerified'
  BY <1>a, <1>b, <1>m DEF FlightVerified, TypeOK, FetchBody, ScrubAndSettle, Resolve, Reject, MaxAttempts
<1>5. WaitsForSameKey'
  BY <1>a, <1>b, <1>m DEF WaitsForSameKey, TypeOK, FetchBody, ScrubAndSettle, Resolve, Reject, MaxAttempts
<1>6. FromFollowsBytes'
  <2>1. /\ phase[c] = "fetch"
        /\ attempt'[c] = attempt[c] + 1
        /\ UNCHANGED <<pin, from>>
        /\ \/ phase'[c] = "rejected"
           \/ phase'[c] = "put" /\ Verifies(b, pin[c])
           \/ phase'[c] = "resolved" /\ Verifies(b, pin[c]) /\ b \notin DriftBodies
    BY DEF FetchBody, ScrubAndSettle, Resolve, Reject, TypeOK
  <2>2. \A d \in Calls : d # c => phase'[d] = phase[d] /\ attempt'[d] = attempt[d]
    BY DEF FetchBody, ScrubAndSettle, Resolve, Reject, TypeOK
  <2> QED
    BY <1>a, <2>1, <2>2 DEF FromFollowsBytes, TypeOK, MaxAttempts, Verifies
<1>7. ServedIsPinned'
  BY <1>a, <1>b, <1>m DEF ServedIsPinned, WaitsForSameKey, TypeOK, FetchBody, ScrubAndSettle, Resolve, Reject, MaxAttempts
<1> QED
  BY <1>1, <1>2, <1>3, <1>4, <1>5, <1>6, <1>7

LEMMA CachePutStep ==
  ASSUME IInv, NEW c \in Calls, CachePut(c)
  PROVE  IInv'
<1> USE ConstantsAssumption DEF IInv, args
<1>a. bytes[c] \in Bodies /\ Verifies(bytes[c], pin[c])
  BY DEF TypeOK, CachePut, FlightVerified, Verifies
<1>b. Scrub(bytes[c]) \in Texts /\ Scrub(bytes[c]).body = bytes[c] /\ Scrub(bytes[c]).scrubbed
  BY <1>a, ScrubType
<1>m. /\ phase' \in [Calls -> Phases]
      /\ memo' \in [Keys -> Calls \cup {NoCall}]
      /\ MemoKeyed'
      /\ MemoIsLiveFlight'
  <2>1. CASE Reject(c)
    BY <2>1, RejectMemo DEF CachePut, Flying
  <2>2. CASE Resolve(c, Scrub(bytes[c]))
    BY <2>2, AdvanceMemo DEF CachePut, Resolve, Flying
  <2> QED
    BY <2>1, <2>2 DEF CachePut, ScrubAndSettle
<1>1. TypeOK'
  BY <1>a, <1>b, <1>m, SMTT(30) DEF TypeOK, Phases, Flying, Froms, Answers, CachePut, ScrubAndSettle, Resolve, Reject
<1>2. MemoKeyed'
  BY <1>m
<1>3. MemoIsLiveFlight'
  BY <1>m
<1>4. FlightVerified'
  BY <1>a, <1>b, <1>m DEF FlightVerified, TypeOK, CachePut, ScrubAndSettle, Resolve, Reject
<1>5. WaitsForSameKey'
  BY <1>a, <1>b, <1>m DEF WaitsForSameKey, TypeOK, CachePut, ScrubAndSettle, Resolve, Reject
<1>6. FromFollowsBytes'
  BY <1>a DEF FromFollowsBytes, TypeOK, MaxAttempts, Verifies, CachePut, ScrubAndSettle, Resolve, Reject
<1>7. ServedIsPinned'
  BY <1>a, <1>b, <1>m DEF ServedIsPinned, WaitsForSameKey, TypeOK, CachePut, ScrubAndSettle, Resolve, Reject
<1> QED
  BY <1>1, <1>2, <1>3, <1>4, <1>5, <1>6, <1>7

LEMMA DeliverStep ==
  ASSUME IInv, NEW c \in Calls, Deliver(c)
  PROVE  IInv'
<1> USE ConstantsAssumption DEF IInv, args
<1>0. phase[waits[c]] = "resolved" =>
        /\ text[waits[c]] \in Texts
        /\ text[waits[c]].scrubbed
        /\ Verifies(text[waits[c]].body, pin[c])
        /\ text[waits[c]].body \notin DriftBodies
  <2> SUFFICES ASSUME phase[waits[c]] = "resolved"
               PROVE  /\ text[waits[c]] \in Texts
                      /\ text[waits[c]].scrubbed
                      /\ Verifies(text[waits[c]].body, pin[c])
                      /\ text[waits[c]].body \notin DriftBodies
    OBVIOUS
  <2>1. waits[c] \in Calls /\ pin[c] \in Pins /\ pin[waits[c]] \in Pins
    BY DEF TypeOK
  <2>2. /\ text[waits[c]].scrubbed
        /\ Verifies(text[waits[c]].body, pin[waits[c]])
        /\ text[waits[c]].body \notin DriftBodies
    BY <2>1 DEF FlightVerified
  <2>3. MemoKey(pin[waits[c]]) = MemoKey(pin[c])
    BY DEF WaitsForSameKey
  <2>4. Verifies(text[waits[c]].body, pin[c])
    BY <2>1, <2>2, <2>3, SameKeySameBytes
  <2>5. text[waits[c]] \in Texts
    BY <2>1, <2>2 DEF TypeOK, NoText
  <2> QED
    BY <2>2, <2>4, <2>5
<1>1. TypeOK'
  BY <1>0 DEF TypeOK, Phases, Flying, Froms, Answers, Deliver, Awaiting, local
<1>2. MemoKeyed'
  BY <1>0 DEF MemoKeyed, TypeOK, Deliver, Awaiting, local
<1>3. MemoIsLiveFlight'
  BY <1>0 DEF MemoIsLiveFlight, MemoKeyed, TypeOK, Flying, Deliver, Awaiting, local
<1>4. FlightVerified'
  BY <1>0 DEF FlightVerified, TypeOK, Deliver, Awaiting, local
<1>5. WaitsForSameKey'
  BY <1>0 DEF WaitsForSameKey, TypeOK, Deliver, Awaiting, local
<1>6. FromFollowsBytes'
  BY <1>0 DEF FromFollowsBytes, TypeOK, MaxAttempts, Deliver, Awaiting, local
<1>7. ServedIsPinned'
  <2>1. \A d \in Calls : d # c => answer'[d] = answer[d] /\ got'[d] = got[d]
    BY DEF Deliver, TypeOK
  <2>2. answer'[c] = "text" => phase[waits[c]] = "resolved" /\ got'[c] = text[waits[c]]
    BY DEF Deliver, TypeOK
  <2>3. pin' = pin
    BY DEF Deliver
  <2> QED
    BY <1>0, <2>1, <2>2, <2>3 DEF ServedIsPinned
<1> QED
  BY <1>1, <1>2, <1>3, <1>4, <1>5, <1>6, <1>7

LEMMA DeadlineStep ==
  ASSUME IInv, NEW c \in Calls, Deadline(c)
  PROVE  IInv'
<1> USE ConstantsAssumption DEF IInv, args
<1>1. TypeOK'
  BY DEF TypeOK, Phases, Flying, Froms, Answers, Deadline, Awaiting, local
<1>2. MemoKeyed'
  BY DEF MemoKeyed, TypeOK, Deadline, Awaiting, local
<1>3. MemoIsLiveFlight'
  BY DEF MemoIsLiveFlight, MemoKeyed, TypeOK, Flying, Deadline, Awaiting, local
<1>4. FlightVerified'
  BY DEF FlightVerified, TypeOK, Deadline, Awaiting, local
<1>5. WaitsForSameKey'
  BY DEF WaitsForSameKey, TypeOK, Deadline, Awaiting, local
<1>6. FromFollowsBytes'
  BY DEF FromFollowsBytes, TypeOK, MaxAttempts, Deadline, Awaiting, local
<1>7. ServedIsPinned'
  BY DEF ServedIsPinned, WaitsForSameKey, TypeOK, Deadline, Awaiting, local
<1> QED
  BY <1>1, <1>2, <1>3, <1>4, <1>5, <1>6, <1>7

LEMMA ColoChangeStep ==
  ASSUME IInv, NEW u \in Urls, NEW b \in Bodies \cup {NoBody}, ColoChange(u, b)
  PROVE  IInv'
<1> USE ConstantsAssumption DEF IInv, args
<1>1. TypeOK'
  BY DEF TypeOK, Phases, Flying, Froms, Answers, ColoChange, local
<1>2. MemoKeyed'
  BY DEF MemoKeyed, TypeOK, ColoChange, local
<1>3. MemoIsLiveFlight'
  BY DEF MemoIsLiveFlight, MemoKeyed, TypeOK, Flying, ColoChange, local
<1>4. FlightVerified'
  BY DEF FlightVerified, TypeOK, ColoChange, local
<1>5. WaitsForSameKey'
  BY DEF WaitsForSameKey, TypeOK, ColoChange, local
<1>6. FromFollowsBytes'
  BY DEF FromFollowsBytes, TypeOK, MaxAttempts, ColoChange, local
<1>7. ServedIsPinned'
  BY DEF ServedIsPinned, WaitsForSameKey, TypeOK, ColoChange, local
<1> QED
  BY <1>1, <1>2, <1>3, <1>4, <1>5, <1>6, <1>7

-----------------------------------------------------------------------------
LEMMA NextIInv == IInv /\ [Next]_vars => IInv'
<1> SUFFICES ASSUME IInv, [Next]_vars PROVE IInv'
  OBVIOUS
<1>1. CASE UNCHANGED vars
  <2>1. UNCHANGED args /\ UNCHANGED <<memo, colo, phase, attempt, bytes, from, text, waits, answer, got>>
    BY <1>1 DEF vars, args
  <2>2. TypeOK'
    BY <2>1 DEF IInv, TypeOK, args
  <2>3. (MemoKeyed /\ MemoIsLiveFlight)'
    BY <2>1 DEF IInv, MemoKeyed, MemoIsLiveFlight, args
  <2>4. (FlightVerified /\ WaitsForSameKey)'
    BY <2>1 DEF IInv, FlightVerified, WaitsForSameKey, args
  <2>5. (FromFollowsBytes /\ ServedIsPinned)'
    BY <2>1 DEF IInv, FromFollowsBytes, ServedIsPinned, args
  <2> QED
    BY <2>2, <2>3, <2>4, <2>5 DEF IInv
<1>2. ASSUME NEW c \in Calls, MemoHit(c) PROVE IInv'
  BY <1>2, MemoHitStep
<1>3. ASSUME NEW c \in Calls, StartFlight(c) PROVE IInv'
  BY <1>3, StartFlightStep
<1>4. ASSUME NEW c \in Calls, CacheMiss(c) PROVE IInv'
  BY <1>4, CacheMissStep
<1>5. ASSUME NEW c \in Calls, CacheHit(c) PROVE IInv'
  BY <1>5, CacheHitStep
<1>6. ASSUME NEW c \in Calls, FetchRetryable(c) PROVE IInv'
  BY <1>6, FetchRetryableStep
<1>7. ASSUME NEW c \in Calls, FetchFatal(c) PROVE IInv'
  BY <1>7, FetchFatalStep
<1>8. ASSUME NEW c \in Calls, NEW b \in Bodies, FetchBody(c, b) PROVE IInv'
  BY <1>8, FetchBodyStep
<1>9. ASSUME NEW c \in Calls, CachePut(c) PROVE IInv'
  BY <1>9, CachePutStep
<1>10. ASSUME NEW c \in Calls, Deliver(c) PROVE IInv'
  BY <1>10, DeliverStep
<1>11. ASSUME NEW c \in Calls, Deadline(c) PROVE IInv'
  BY <1>11, DeadlineStep
<1>12. ASSUME NEW u \in Urls, NEW b \in Bodies \cup {NoBody}, ColoChange(u, b) PROVE IInv'
  BY <1>12, ColoChangeStep
<1> QED
  BY <1>1, <1>2, <1>3, <1>4, <1>5, <1>6, <1>7, <1>8, <1>9, <1>10, <1>11, <1>12 DEF Next

(* IInv, and with it the type invariant, holds in every state of the       *)
(* source, for every number of calls, pins, URLs and bodies.               *)
THEOREM Inductive == Spec => []IInv
<1>1. Init => IInv
  BY InitIInv
<1>2. IInv /\ [Next]_vars => IInv'
  BY NextIInv
<1> QED
  BY <1>1, <1>2, PTL DEF Spec

(* No call is ever answered with bytes that its own pin does not name.     *)
THEOREM Integrity == Spec => []ServedIsPinned
<1>1. IInv => ServedIsPinned
  BY DEF IInv
<1> QED
  BY <1>1, Inductive, PTL

(* The memo is exactly the set of live serving flights: single flight, no  *)
(* poisoned entry, no entry written by a canary.                           *)
THEOREM MemoCoherence == Spec => []MemoIsLiveFlight
<1>1. IInv => MemoIsLiveFlight
  BY DEF IInv
<1> QED
  BY <1>1, Inductive, PTL

(* The reported provenance of a successful read is the true one.           *)
THEOREM Provenance == Spec => []ProvenanceTruthful
<1>1. IInv => ProvenanceTruthful
  <2> SUFFICES ASSUME IInv, NEW c \in Calls, answer[c] = "text"
               PROVE  /\ from[c] = "cache" => attempt[c] = 0 /\ waits[c] = c
                      /\ from[c] = "upstream" => attempt[c] > 0 /\ waits[c] = c
                      /\ from[c] = "memo" => waits[c] # c
    BY DEF ProvenanceTruthful
  <2>1. phase[waits[c]] = "resolved"
    BY DEF IInv, WaitsForSameKey
  <2>2. from[c] = "memo" <=> waits[c] # c
    BY DEF IInv, WaitsForSameKey
  <2> QED
    BY <2>1, <2>2 DEF IInv, FromFollowsBytes
<1> QED
  BY <1>1, Inductive, PTL

(* A resolved flight no longer changes phase, so nothing rejects it, and   *)
(* only a rejection removes an entry.                                      *)
LEMMA StepKeepsGood ==
  ASSUME IInv, [Next]_vars, NEW k \in Keys, memo[k] # NoCall,
         phase[memo[k]] = "resolved"
  PROVE  memo'[k] = memo[k] /\ phase'[memo[k]] = "resolved"
<1> DEFINE f == memo[k]
<1>0. f \in Calls
  BY DEF IInv, MemoKeyed
<1>1. ASSUME NEW c \in Calls, c # f, phase[c] # "idle",
             Reject(c)
      PROVE  memo'[k] = f /\ phase'[f] = "resolved"
  BY <1>0, <1>1 DEF Reject, IInv, TypeOK
<1>2. ASSUME NEW c \in Calls, MemoHit(c) \/ StartFlight(c)
      PROVE  memo'[k] = f /\ phase'[f] = "resolved"
  BY <1>0, <1>2 DEF MemoHit, StartFlight, IInv, TypeOK
<1>3. ASSUME NEW c \in Calls, CacheMiss(c) \/ CacheHit(c)
      PROVE  memo'[k] = f /\ phase'[f] = "resolved"
  BY <1>0, <1>3 DEF CacheMiss, CacheHit, ToUpstream, Resolve, IInv, TypeOK
<1>4. ASSUME NEW c \in Calls, FetchRetryable(c) \/ FetchFatal(c)
      PROVE  memo'[k] = f /\ phase'[f] = "resolved"
  <2>1. c # f /\ phase[c] # "idle"
    BY <1>4 DEF FetchRetryable, FetchFatal
  <2>2. CASE Reject(c)
    BY <1>1, <2>1, <2>2
  <2>3. CASE UNCHANGED <<phase, memo>>
    BY <2>3
  <2> QED
    BY <1>4, <2>2, <2>3 DEF FetchRetryable, FetchFatal
<1>5. ASSUME NEW c \in Calls, NEW b \in Bodies, FetchBody(c, b)
      PROVE  memo'[k] = f /\ phase'[f] = "resolved"
  <2>1. c # f /\ phase[c] # "idle"
    BY <1>5 DEF FetchBody
  <2>2. CASE Reject(c)
    BY <1>1, <2>1, <2>2
  <2>3. CASE ~Reject(c)
    <3>1. UNCHANGED memo
      BY <1>5, <2>3 DEF FetchBody, ScrubAndSettle, Resolve
    <3>2. phase'[f] = phase[f]
      BY <1>0, <1>5, <2>1, <2>3 DEF FetchBody, ScrubAndSettle, Resolve, IInv, TypeOK
    <3> QED
      BY <3>1, <3>2
  <2> QED
    BY <2>2, <2>3
<1>6. ASSUME NEW c \in Calls, CachePut(c)
      PROVE  memo'[k] = f /\ phase'[f] = "resolved"
  <2>1. c # f /\ phase[c] # "idle"
    BY <1>6 DEF CachePut
  <2>2. CASE Reject(c)
    BY <1>1, <2>1, <2>2
  <2>3. CASE Resolve(c, Scrub(bytes[c]))
    BY <1>0, <2>1, <2>3 DEF Resolve, IInv, TypeOK
  <2> QED
    BY <1>6, <2>2, <2>3 DEF CachePut, ScrubAndSettle
<1>7. ASSUME NEW c \in Calls, Deliver(c) \/ Deadline(c)
      PROVE  memo'[k] = f /\ phase'[f] = "resolved"
  BY <1>7 DEF Deliver, Deadline
<1>8. ASSUME NEW u \in Urls, NEW b \in Bodies \cup {NoBody}, ColoChange(u, b)
      PROVE  memo'[k] = f /\ phase'[f] = "resolved"
  BY <1>8 DEF ColoChange
<1>9. CASE UNCHANGED vars
  BY <1>9 DEF vars
<1> QED
  BY <1>2, <1>3, <1>4, <1>5, <1>6, <1>7, <1>8, <1>9 DEF Next

(* A verified body stays memoised for the life of the isolate.             *)
THEOREM GoodEntriesStay == Spec => GoodEntryStays
<1>1. IInv /\ [Next]_vars =>
        [\A k \in Keys : memo[k] # NoCall /\ phase[memo[k]] = "resolved"
                           => memo'[k] = memo[k]]_vars
  BY StepKeepsGood
<1> QED
  BY <1>1, Inductive, PTL DEF Spec, GoodEntryStays

-----------------------------------------------------------------------------
(* The refinement.  Each step of the source either leaves the shelves      *)
(* alone, or moves the one shelf of the flight that took it.               *)

Shelf == [k \in Keys |-> ShelfOf(k)]

LEMMA InitRefines == Init => Promise!Init
<1> SUFFICES ASSUME Init PROVE Promise!Init
  OBVIOUS
<1>1. Shelf = [k \in Keys |-> "absent"]
  BY DEF Shelf, ShelfOf, Init
<1> QED
  BY <1>1 DEF Promise!Init, Shelf, Init

\* A flight that goes on flying, or a step of no flight, moves no shelf.
LEMMA SameShelf ==
  ASSUME IInv, UNCHANGED memo,
         \A f \in Calls : (phase'[f] = "resolved") <=> (phase[f] = "resolved")
  PROVE  UNCHANGED Shelf
<1>1. \A k \in Keys : memo[k] # NoCall => memo[k] \in Calls
  BY DEF IInv, MemoKeyed
<1>2. \A k \in Keys : ShelfOf(k)' = ShelfOf(k)
  BY <1>1 DEF ShelfOf
<1> QED
  BY <1>2 DEF Shelf

LEMMA RejectRefines ==
  ASSUME IInv, NEW c \in Calls, phase[c] \in Flying, Reject(c),
         UNCHANGED <<args, answer, got>>
  PROVE  [Promise!Next]_(Promise!vars)
<1>0. PICK k0 \in Keys : k0 = MemoKey(pin[c])
  BY KeyInKeys DEF IInv, TypeOK
<1> USE ConstantsAssumption
<1>1. \A k \in Keys : memo[k] # NoCall => memo[k] \in Calls
  BY DEF IInv, MemoKeyed
<1>2. phase' = [phase EXCEPT ![c] = "rejected"] /\ phase[c] # "resolved"
  BY DEF Reject, Flying
<1>3. CASE memo[k0] = c
  <2>1. ~probe[c]
    BY <1>0, <1>3 DEF IInv, MemoIsLiveFlight
  <2>2. memo' = [memo EXCEPT ![k0] = NoCall]
    BY <1>0, <1>3, <2>1 DEF Reject
  <2>3. \A k \in Keys : k # k0 => memo[k] # c
    BY <1>0 DEF IInv, MemoKeyed
  <2>4. ShelfOf(k0) = "loading" /\ ShelfOf(k0)' = "absent"
    BY <1>0, <1>2, <1>3, <2>2 DEF ShelfOf, IInv, TypeOK
  <2>5. \A k \in Keys : k # k0 => ShelfOf(k)' = ShelfOf(k)
    BY <1>0, <1>1, <1>2, <2>2, <2>3 DEF ShelfOf, IInv, TypeOK
  <2>6. Shelf[k0] = "loading" /\ Shelf' = [Shelf EXCEPT ![k0] = "absent"]
    BY <1>0, <2>4, <2>5 DEF Shelf
  <2>7. Promise!Fail(k0)
    BY <2>6 DEF Promise!Fail, Promise!Move, Promise!args, args, Shelf
  <2> QED
    BY <1>0, <2>7 DEF Promise!Next
<1>4. CASE memo[k0] # c
  <2>1. UNCHANGED memo
    BY <1>0, <1>4 DEF Reject
  <2>2. \A f \in Calls : (phase'[f] = "resolved") <=> (phase[f] = "resolved")
    BY <1>2 DEF IInv, TypeOK
  <2>3. UNCHANGED Shelf
    BY <2>1, <2>2, SameShelf
  <2> QED
    BY <2>3 DEF Promise!vars, args, Shelf
<1> QED
  BY <1>3, <1>4

LEMMA ResolveRefines ==
  ASSUME IInv, NEW c \in Calls, phase[c] \in Flying, NEW t, Resolve(c, t),
         UNCHANGED <<args, answer, got>>
  PROVE  [Promise!Next]_(Promise!vars)
<1>0. PICK k0 \in Keys : k0 = MemoKey(pin[c])
  BY KeyInKeys DEF IInv, TypeOK
<1> USE ConstantsAssumption
<1>1. \A k \in Keys : memo[k] # NoCall => memo[k] \in Calls
  BY DEF IInv, MemoKeyed
<1>2. /\ phase' = [phase EXCEPT ![c] = "resolved"]
      /\ phase[c] # "resolved"
      /\ UNCHANGED memo
  BY DEF Resolve, Flying
<1>3. CASE memo[k0] = c
  <2>1. \A k \in Keys : k # k0 => memo[k] # c
    BY <1>0 DEF IInv, MemoKeyed
  <2>2. ShelfOf(k0) = "loading" /\ ShelfOf(k0)' = "ready"
    BY <1>0, <1>2, <1>3 DEF ShelfOf, IInv, TypeOK
  <2>3. \A k \in Keys : k # k0 => ShelfOf(k)' = ShelfOf(k)
    BY <1>1, <1>2, <2>1 DEF ShelfOf, IInv, TypeOK
  <2>4. Shelf[k0] = "loading" /\ Shelf' = [Shelf EXCEPT ![k0] = "ready"]
    BY <1>0, <2>2, <2>3 DEF Shelf
  <2>5. Promise!Fill(k0)
    BY <2>4 DEF Promise!Fill, Promise!Move, Promise!args, args, Shelf
  <2> QED
    BY <1>0, <2>5 DEF Promise!Next
<1>4. CASE memo[k0] # c
  <2>1. \A k \in Keys : memo[k] # c
    BY <1>0, <1>4 DEF IInv, MemoKeyed
  <2>2. \A k \in Keys : ShelfOf(k)' = ShelfOf(k)
    BY <1>1, <1>2, <2>1 DEF ShelfOf, IInv, TypeOK
  <2>3. UNCHANGED Shelf
    BY <2>2 DEF Shelf
  <2> QED
    BY <2>3 DEF Promise!vars, args, Shelf
<1> QED
  BY <1>3, <1>4

LEMMA StartRefines ==
  ASSUME IInv, NEW c \in Calls, StartFlight(c)
  PROVE  [Promise!Next]_(Promise!vars)
<1>0. PICK k0 \in Keys : k0 = MemoKey(pin[c])
  BY KeyInKeys DEF IInv, TypeOK
<1> USE ConstantsAssumption
<1>1. \A k \in Keys : memo[k] # NoCall => memo[k] \in Calls
  BY DEF IInv, MemoKeyed
<1>2. \A f \in Calls : (phase'[f] = "resolved") <=> (phase[f] = "resolved")
  BY DEF StartFlight, IInv, TypeOK
<1>3. CASE probe[c]
  <2>1. UNCHANGED Shelf
    BY <1>2, <1>3, SameShelf DEF StartFlight
  <2> QED
    BY <2>1 DEF Promise!vars, args, Shelf, StartFlight
<1>4. CASE ~probe[c]
  <2>1. memo[k0] = NoCall /\ memo' = [memo EXCEPT ![k0] = c]
    BY <1>0, <1>4 DEF StartFlight
  <2>2. phase'[c] # "resolved"
    BY DEF StartFlight, IInv, TypeOK
  <2>3. ShelfOf(k0) = "absent" /\ ShelfOf(k0)' = "loading"
    BY <1>0, <2>1, <2>2 DEF ShelfOf, IInv, TypeOK
  <2>4. \A k \in Keys : k # k0 => ShelfOf(k)' = ShelfOf(k)
    BY <1>0, <1>1, <1>2, <2>1 DEF ShelfOf, IInv, TypeOK
  <2>5. Shelf[k0] = "absent" /\ Shelf' = [Shelf EXCEPT ![k0] = "loading"]
    BY <1>0, <2>3, <2>4 DEF Shelf
  <2>6. Promise!Retrieve(k0)
    BY <2>5 DEF Promise!Retrieve, Promise!Move, Promise!args, args, Shelf, StartFlight
  <2> QED
    BY <1>0, <2>6 DEF Promise!Next
<1> QED
  BY <1>3, <1>4

\* A text is delivered only from a resolved flight; for a serving call that
\* flight is the one its key's shelf stands for.
LEMMA DeliverRefines ==
  ASSUME IInv, NEW c \in Calls, Deliver(c)
  PROVE  [Promise!Next]_(Promise!vars)
<1> USE ConstantsAssumption
<1>0. /\ waits[c] \in Calls /\ pin[c] \in Pins
      /\ MemoKey(pin[waits[c]]) = MemoKey(pin[c])
      /\ MemoKey(pin[c]) \in Keys
  BY KeyInKeys DEF IInv, TypeOK, WaitsForSameKey
<1>1. UNCHANGED Shelf
  BY SameShelf DEF Deliver
<1>2. CASE phase[waits[c]] = "resolved" /\ answer' = [answer EXCEPT ![c] = "text"]
            /\ got' = [got EXCEPT ![c] = text[waits[c]]]
  <2>1. text[waits[c]] = Scrub(Sha256Body[pin[c]])
    <3>1. /\ text[waits[c]].scrubbed
          /\ text[waits[c]].body = Sha256Body[pin[waits[c]]]
      BY <1>0, <1>2 DEF IInv, FlightVerified, Verifies
    <3>2. Sha256Body[pin[waits[c]]] = Sha256Body[pin[c]]
      BY <1>0 DEF MemoKey
    <3>3. text[waits[c]] \in Texts
      <4>1. Sha256Body[pin[c]] \in Bodies
        BY <1>0
      <4>2. text[waits[c]] # NoText
        BY <3>1 DEF NoText
      <4> QED
        BY <1>0, <4>2 DEF IInv, TypeOK
    <3>4. text[waits[c]] = [body |-> text[waits[c]].body, scrubbed |-> text[waits[c]].scrubbed]
      BY <3>3 DEF Texts
    <3>5. text[waits[c]].scrubbed = TRUE
      BY <3>1, <3>3 DEF Texts
    <3> QED
      BY <3>1, <3>2, <3>4, <3>5 DEF Scrub
  <2>2. probe[c] \/ Shelf[MemoKey(pin[c])] = "ready"
    <3>1. CASE probe[waits[c]]
      <4>1. waits[c] = c
        BY <1>0, <3>1, <1>2 DEF IInv, WaitsForSameKey
      <4> QED
        BY <3>1, <4>1
    <3>2. CASE ~probe[waits[c]]
      <4>1. memo[MemoKey(pin[c])] = waits[c]
        BY <1>0, <1>2, <3>2 DEF IInv, MemoIsLiveFlight
      <4>2. ShelfOf(MemoKey(pin[c])) = "ready"
        BY <1>0, <1>2, <4>1 DEF ShelfOf
      <4> QED
        BY <1>0, <4>2 DEF Shelf
    <3> QED
      BY <3>1, <3>2
  <2>3. Promise!Serve(c)
    BY <1>0, <1>1, <1>2, <2>1, <2>2
    DEF Promise!Serve, Promise!args, args, Shelf, Deliver, Awaiting
  <2> QED
    BY <2>3 DEF Promise!Next
<1>3. CASE answer' = [answer EXCEPT ![c] = "error"] /\ UNCHANGED got
  <2>1. Promise!Refuse(c, "error")
    BY <1>1, <1>3 DEF Promise!Refuse, Promise!args, args, Shelf, Deliver, Awaiting
  <2> QED
    BY <2>1 DEF Promise!Next
<1> QED
  BY <1>2, <1>3 DEF Deliver

LEMMA DeadlineRefines ==
  ASSUME IInv, NEW c \in Calls, Deadline(c)
  PROVE  [Promise!Next]_(Promise!vars)
<1>1. UNCHANGED Shelf
  BY SameShelf DEF Deadline
<1>2. Promise!Refuse(c, "deadline")
  BY <1>1 DEF Promise!Refuse, Promise!args, args, Shelf, Deadline, Awaiting
<1> QED
  BY <1>2 DEF Promise!Next

\* Steps that leave the callers and the shelves alone.
LEMMA QuietRefines ==
  ASSUME IInv, UNCHANGED <<args, memo, answer, got>>,
         \A f \in Calls : (phase'[f] = "resolved") <=> (phase[f] = "resolved")
  PROVE  UNCHANGED Promise!vars
<1>1. UNCHANGED Shelf
  BY SameShelf
<1> QED
  BY <1>1 DEF Promise!vars, args, Shelf

LEMMA NextRefines == IInv /\ [Next]_vars => [Promise!Next]_(Promise!vars)
<1> SUFFICES ASSUME IInv, [Next]_vars PROVE [Promise!Next]_(Promise!vars)
  OBVIOUS
<1>1. ASSUME NEW c \in Calls, MemoHit(c) PROVE [Promise!Next]_(Promise!vars)
  <2>1. \A f \in Calls : (phase'[f] = "resolved") <=> (phase[f] = "resolved")
    BY <1>1 DEF MemoHit, IInv, TypeOK
  <2> QED
    BY <1>1, <2>1, QuietRefines DEF MemoHit
<1>2. ASSUME NEW c \in Calls, StartFlight(c) PROVE [Promise!Next]_(Promise!vars)
  BY <1>2, StartRefines
<1>3. ASSUME NEW c \in Calls, CacheMiss(c) \/ CacheHit(c)
      PROVE  [Promise!Next]_(Promise!vars)
  <2>1. phase[c] \in Flying /\ UNCHANGED <<args, answer, got>>
    BY <1>3 DEF CacheMiss, CacheHit, Flying
  <2>2. CASE ToUpstream(c)
    <3>1. \A f \in Calls : (phase'[f] = "resolved") <=> (phase[f] = "resolved")
      BY <2>1, <2>2 DEF ToUpstream, IInv, TypeOK, Flying
    <3> QED
      BY <2>1, <2>2, <3>1, QuietRefines DEF ToUpstream
  <2>3. CASE Resolve(c, Scrub(colo[UrlOf[pin[c]]]))
    BY <2>1, <2>3, ResolveRefines
  <2> QED
    BY <1>3, <2>2, <2>3 DEF CacheMiss, CacheHit
<1>4. ASSUME NEW c \in Calls, FetchRetryable(c) \/ FetchFatal(c)
      PROVE  [Promise!Next]_(Promise!vars)
  <2>1. phase[c] \in Flying /\ UNCHANGED <<args, answer, got>>
    BY <1>4 DEF FetchRetryable, FetchFatal, Flying
  <2>2. CASE Reject(c)
    BY <2>1, <2>2, RejectRefines
  <2>3. CASE UNCHANGED <<phase, memo>>
    BY <2>1, <2>3, QuietRefines
  <2> QED
    BY <1>4, <2>2, <2>3 DEF FetchRetryable, FetchFatal
<1>5. ASSUME NEW c \in Calls, NEW b \in Bodies, FetchBody(c, b)
      PROVE  [Promise!Next]_(Promise!vars)
  <2>1. phase[c] \in Flying /\ UNCHANGED <<args, answer, got>>
    BY <1>5 DEF FetchBody, Flying
  <2>2. CASE Reject(c)
    BY <2>1, <2>2, RejectRefines
  <2>3. CASE Resolve(c, Scrub(b))
    BY <2>1, <2>3, ResolveRefines
  <2>4. CASE phase' = [phase EXCEPT ![c] = "put"] /\ UNCHANGED memo
    <3>1. \A f \in Calls : (phase'[f] = "resolved") <=> (phase[f] = "resolved")
      BY <2>1, <2>4 DEF IInv, TypeOK, Flying
    <3> QED
      BY <2>1, <2>4, <3>1, QuietRefines
  <2> QED
    BY <1>5, <2>2, <2>3, <2>4 DEF FetchBody, ScrubAndSettle
<1>6. ASSUME NEW c \in Calls, CachePut(c) PROVE [Promise!Next]_(Promise!vars)
  <2>1. phase[c] \in Flying /\ UNCHANGED <<args, answer, got>>
    BY <1>6 DEF CachePut, Flying
  <2>2. CASE Reject(c)
    BY <2>1, <2>2, RejectRefines
  <2>3. CASE Resolve(c, Scrub(bytes[c]))
    BY <2>1, <2>3, ResolveRefines
  <2> QED
    BY <1>6, <2>2, <2>3 DEF CachePut, ScrubAndSettle
<1>7. ASSUME NEW c \in Calls, Deliver(c) PROVE [Promise!Next]_(Promise!vars)
  BY <1>7, DeliverRefines
<1>8. ASSUME NEW c \in Calls, Deadline(c) PROVE [Promise!Next]_(Promise!vars)
  BY <1>8, DeadlineRefines
<1>9. ASSUME NEW u \in Urls, NEW b \in Bodies \cup {NoBody}, ColoChange(u, b)
      PROVE  [Promise!Next]_(Promise!vars)
  BY <1>9, QuietRefines DEF ColoChange
<1>10. CASE UNCHANGED vars
  BY <1>10, QuietRefines DEF vars, args
<1> QED
  BY <1>1, <1>2, <1>3, <1>4, <1>5, <1>6, <1>7, <1>8, <1>9, <1>10 DEF Next

(* The source implements what it promises its callers: pinned texts only,  *)
(* one retrieval per identity at a time, and no identity lost once ready.  *)
THEOREM Refinement == Spec => ImplementsPromise
<1>1. Init => Promise!Init
  BY InitRefines
<1>2. IInv /\ [Next]_vars => [Promise!Next]_(Promise!vars)
  BY NextRefines
<1> QED
  BY <1>1, <1>2, Inductive, PTL DEF Spec, ImplementsPromise, Promise!Spec
=============================================================================
