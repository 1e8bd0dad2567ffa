---------------------------- MODULE StellarDocs ----------------------------
(***************************************************************************)
(* One operation of the Stellar docs adapter, src/adapters/stellar-docs.ts *)
(* (callStellarDocs): a page read, which asks the page store for the path, *)
(* for <path>/index, and after a redirect of the live site for the new     *)
(* path and its index; or a search, which asks once and filters the        *)
(* candidate window.  Every request is an attempt ladder, and everything   *)
(* the operation does is clipped to one deadline.                          *)
(*                                                                         *)
(* The adapter keeps no state between operations, so one operation against *)
(* a page store and a site chosen in DocsInit is the whole of it.  Time    *)
(* is counted in units; an attempt or the probe takes any time up to its   *)
(* timeout, the code between two awaits takes none.                        *)
(***************************************************************************)
EXTENDS Naturals, Sequences, FiniteSets

CONSTANTS
  Pages,            \* normalized page paths
  IndexPages,       \* those that already end in /index
  None,             \* no redirect
  AttemptTimeouts,  \* transport.attemptTimeoutsMs, in units
  Budget,           \* OPERATION_BUDGET_MS, in units
  MinAttempt        \* MIN_ATTEMPT_MS, in units

ASSUME DocsAssumption ==
  /\ IndexPages \subseteq Pages
  /\ None \notin Pages
  /\ AttemptTimeouts \in Seq(Nat) /\ Len(AttemptTimeouts) > 0
  /\ Budget \in Nat /\ MinAttempt \in Nat

VARIABLES
  held,     \* the keys the page store holds
  site,     \* the redirect of the live site, by page
  op,       \* the operation: endpoint, and the path or whether the query has terms
  stage,    \* "ask" a request, "probe" the site, or "done"
  key,      \* the key being asked for (a page read)
  tries,    \* attempts of this request so far
  moved,    \* whether the redirect was followed
  now,      \* units since the operation began
  answer    \* what the operation returns

docsVars == <<held, site, op, stage, key, tries, moved, now, answer>>

Parts == {"page", "index"}
Keys == Pages \X Parts
Operations == [endpoint : {"page"}, path : Pages] \cup [endpoint : {"search"}, terms : BOOLEAN]

\* What a candidate window may hold: nothing, sections out of the operation's
\* scope only, sections in scope without a query term, or one with a term.
Windows == {"empty", "elsewhere", "unmatched", "matched"}

NoAnswer == [kind |-> "none"]
Failure == [kind |-> "error"]
SoftEmpty == [kind |-> "soft-empty"]
Page(k) == [kind |-> "page", key |-> k]
Hits == [kind |-> "hits"]
Answers == {NoAnswer, Failure, SoftEmpty, Hits} \cup {Page(k) : k \in Keys}

Lesser(a, b) == IF a < b THEN a ELSE b
Remaining == Budget - now

DocsInit ==
  /\ held \in SUBSET Keys
  /\ site \in [Pages -> Pages \cup {None}]
  /\ \A p \in Pages : site[p] # p
  /\ op \in Operations
  /\ stage = "ask"
  /\ key = IF op.endpoint = "page" THEN <<op.path, "page">> ELSE <<>>
  /\ tries = 0
  /\ moved = FALSE
  /\ now = 0
  /\ answer = NoAnswer

Return(a) == stage' = "done" /\ answer' = a
AskFor(k) == stage' = "ask" /\ key' = k /\ tries' = 0 /\ UNCHANGED answer

\* Waiting up to a timeout, which is never past the deadline.
Takes(timeout) == \E d \in 0..Lesser(timeout, Remaining) : now' = now + d

\* mintlifyRequest may start one more attempt.
MayTry ==
  /\ stage = "ask"
  /\ tries < Len(AttemptTimeouts)
  /\ Remaining >= MinAttempt

\* Mutant: the attempt timeout is not clipped to the operation deadline.
AttemptUnclipped ==
  MayTry /\ \E d \in 0..AttemptTimeouts[tries + 1] : now' = now + d

\* One attempt, whatever comes of it.
Attempt == MayTry /\ Takes(AttemptTimeouts[tries + 1])

\* Network failure, timeout, or HTTP 5xx: the next attempt, if there is one.
AttemptRetryable ==
  /\ Attempt
  /\ tries' = tries + 1
  /\ UNCHANGED <<held, site, op, stage, key, moved, answer>>

\* Any other 4xx, a 404 that does not mean absence, a body that does not parse.
AttemptTerminal ==
  /\ Attempt
  /\ Return(Failure)
  /\ UNCHANGED <<held, site, op, key, tries, moved>>

\* Mutant: a request that failed is taken for a page that is absent.
RequestFailsAsAbsent ==
  /\ stage = "ask"
  /\ ~ MayTry
  /\ Return(SoftEmpty)
  /\ UNCHANGED <<held, site, op, key, tries, moved, now>>

\* No attempt is left, or no time for one: the request failed.
RequestFails ==
  /\ stage = "ask"
  /\ ~ MayTry
  /\ Return(Failure)
  /\ UNCHANGED <<held, site, op, key, tries, moved, now>>

\* Mutant: the index retry is left out.
PageAbsentWithoutIndex ==
  /\ op.endpoint = "page"
  /\ Attempt
  /\ key \notin held
  /\ IF moved THEN Return(SoftEmpty) ELSE stage' = "probe" /\ UNCHANGED answer
  /\ UNCHANGED <<held, site, op, key, tries, moved>>

\* The page store has no such key: <path>/index next, then the live site, once.
PageAbsent ==
  /\ op.endpoint = "page"
  /\ Attempt
  /\ key \notin held
  /\ \/ key[2] = "page" /\ key[1] \notin IndexPages /\ AskFor(<<key[1], "index">>)
     \/ /\ key[2] = "index" \/ key[1] \in IndexPages
        /\ IF moved THEN Return(SoftEmpty) ELSE stage' = "probe" /\ UNCHANGED answer
        /\ UNCHANGED <<key, tries>>
  /\ UNCHANGED <<held, site, op, moved>>

\* The page store returns the page, with or without a content.
PageFound ==
  /\ op.endpoint = "page"
  /\ Attempt
  /\ key \in held
  /\ Return(Page(key)) \/ Return(Failure)
  /\ UNCHANGED <<held, site, op, key, tries, moved>>

\* Mutant: the path that is fetched next is not the one the site redirects to.
ProbeMovedAgain ==
  /\ stage = "probe"
  /\ Remaining >= MinAttempt
  /\ Takes(AttemptTimeouts[1])
  /\ \E p \in Pages : AskFor(<<p, "page">>)
  /\ moved' = TRUE
  /\ UNCHANGED <<held, site, op>>

\* Mutant: a redirect may be followed again when its target is absent too.
ProbeMovedUnmarked ==
  /\ stage = "probe"
  /\ Remaining >= MinAttempt
  /\ Takes(AttemptTimeouts[1])
  /\ site[op.path] # None
  /\ AskFor(<<site[op.path], "page">>)
  /\ UNCHANGED <<held, site, op, moved>>

\* siteRedirectPath names a new path: it is fetched as the first one was.
ProbeMoved ==
  /\ stage = "probe"
  /\ Remaining >= MinAttempt
  /\ Takes(AttemptTimeouts[1])
  /\ site[op.path] # None
  /\ moved' = TRUE
  /\ AskFor(<<site[op.path], "page">>)
  /\ UNCHANGED <<held, site, op>>

\* No redirect, a redirect elsewhere, a failed probe, or no time for one.
ProbeFails ==
  /\ stage = "probe"
  /\ IF Remaining >= MinAttempt THEN Takes(AttemptTimeouts[1]) ELSE UNCHANGED now
  /\ Return(SoftEmpty)
  /\ UNCHANGED <<held, site, op, key, tries, moved>>

\* What a search makes of the window it got: hits, or no evidence either way.
Scoped(w) ==
  IF w = "matched" \/ (w = "unmatched" /\ ~ op.terms) THEN Hits ELSE SoftEmpty

\* The search returns a window (an empty one is also its 404), or not an array.
SearchReturns ==
  /\ op.endpoint = "search"
  /\ Attempt
  /\ Return(Failure) \/ \E w \in Windows : Return(Scoped(w))
  /\ UNCHANGED <<held, site, op, key, tries, moved>>

Done == stage = "done" /\ UNCHANGED docsVars

Step ==
  \/ AttemptRetryable \/ AttemptTerminal \/ RequestFails
  \/ PageAbsent \/ PageFound
  \/ ProbeMoved \/ ProbeFails
  \/ SearchReturns

DocsNext == Step \/ Done

DocsSpec == DocsInit /\ [][DocsNext]_docsVars

\* fetch and the timers of AbortSignal.timeout answer in the end.
DocsFairSpec == DocsSpec /\ WF_docsVars(Step)

-----------------------------------------------------------------------------

DocsTypeOK ==
  /\ held \subseteq Keys
  /\ site \in [Pages -> Pages \cup {None}]
  /\ op \in Operations
  /\ stage \in {"ask", "probe", "done"}
  /\ op.endpoint = "page" => key \in Keys
  /\ tries \in 0..Len(AttemptTimeouts)
  /\ moved \in BOOLEAN
  /\ now \in Nat
  /\ answer \in Answers

\* The keys a page read tries before it looks for a redirect of p.
Lookups(p) == IF p \in IndexPages THEN {<<p, "page">>} ELSE {p} \X Parts

\* Where the operation is in its ladder of keys.
Ladder ==
  /\ stage # "done" => answer = NoAnswer
  /\ op.endpoint = "page" =>
       /\ key[1] = IF moved THEN site[op.path] ELSE op.path
       /\ key[2] = "index" => <<key[1], "page">> \notin held /\ key[1] \notin IndexPages
       /\ moved \/ stage = "probe" => Lookups(op.path) \cap held = {}
       /\ moved => site[op.path] # None /\ stage # "probe"

\* The operation ends within OPERATION_BUDGET_MS however its two ladders of
\* attempts, the index retries and the probe add up: every one of them is
\* clipped to what the ones before have left (stellar-docs.ts:158-169, 467).
WithinBudget == now <= Budget

\* "No docs page exists" is said only when the page store itself answered that
\* it has neither the path nor its index page, and the same for the path the
\* site redirects to when it was followed: a transport failure, a 5xx or a
\* budget that ran out is never taken for absence (stellar-docs.ts:449-463).
AbsenceIsReal ==
  (op.endpoint = "page" /\ answer = SoftEmpty) =>
    /\ Lookups(op.path) \cap held = {}
    /\ moved => Lookups(site[op.path]) \cap held = {}

\* A page that is returned is the one asked for: under the path itself, or
\* under the path one redirect away when the store has nothing under the path.
RightPage ==
  answer.kind = "page" =>
    /\ answer.key \in held
    /\ \/ answer.key \in Lookups(op.path)
       \/ /\ Lookups(op.path) \cap held = {}
          /\ answer.key \in Lookups(site[op.path])

DocsIInv == DocsTypeOK /\ Ladder /\ WithinBudget /\ AbsenceIsReal /\ RightPage

\* Every operation answers: no request, retry or redirect goes on for ever.
OperationAnswers == <>(stage = "done")

=============================================================================
