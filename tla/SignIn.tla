---------------------------- MODULE SignIn ----------------------------
(***************************************************************************)
(* The two sign-in flows of src/src/auth/workos.ts: the consent page of an *)
(* MCP client (/authorize, GET and POST) and the playground's              *)
(* /playground/login.  Both park an entry `login:<state>` in OAUTH_KV, set *)
(* ONE browser-binding cookie, send the browser to WorkOS and meet again   *)
(* in completeCallback.                                                    *)
(*                                                                         *)
(* A flow stands for one tab: its query, its state value and its binding   *)
(* secret, all of them fresh random values, so that a cookie is the flow   *)
(* whose value it holds.  An answer is a step of its own: the cookies of a *)
(* request are those at the time it is sent, those of an answer are set    *)
(* when it arrives, and between the two the other tabs go on.              *)
(*                                                                         *)
(* External: the browser, WorkOS (a code is good for one exchange), the    *)
(* key-value store (a write or a delete takes time to be seen everywhere)  *)
(* and the OAuth provider that stores a grant.  An entry this code parked  *)
(* parses, so that the answer to a malformed one is not reached.           *)
(***************************************************************************)
EXTENDS Naturals, Sequences, FiniteSets

CONSTANTS
    McpFlows,       \* tabs an MCP client opened on /authorize
    DemoFlows,      \* clicks on the playground's sign-in
    Browsers,       \* browsers, each with a cookie jar
    MaxCodes,       \* bound: sign-ins at WorkOS per flow
    MaxCallbacks,   \* bound: requests for /callback
    MaxTroubles,    \* bound: failed calls, lost answers, expiries, late reads
    MaxPages        \* bound: consent pages shown per flow

Flows == McpFlows \cup DemoFlows

ASSUME FlowsAssumption ==
    /\ McpFlows \cap DemoFlows = {}
    /\ "none" \notin Flows \cup Browsers
    /\ MaxCodes \in Nat /\ MaxCallbacks \in Nat
    /\ MaxTroubles \in Nat /\ MaxPages \in Nat

VARIABLES
    tab,        \* what the tab of a flow shows, or the request it waits on
    home,       \* the browser the flow was opened in
    sent,       \* the decision and the CSRF cookie of the POST under way
    pages,      \* consent pages shown so far
    csrf,       \* the consent cookie of a browser
    binding,    \* the browser-binding cookie of a browser
    kv,         \* login:<state> as the key-value store serves it
    codes,      \* codes WorkOS issued for the flow
    spent,      \* codes WorkOS has exchanged
    cb,         \* requests for /callback, in the order they were sent
    session,    \* browsers that hold the playground's session cookie
    grants,     \* per flow: the browsers its sign-ins were given to
    disturbed,  \* history: what crossed the flow since its page or its entry
    consumed,   \* history: a callback has deleted the entry
    troubles    \* failed calls, lost answers, expiries, late reads so far

vars == <<tab, home, sent, pages, csrf, binding, kv, codes, spent, cb,
          session, grants, disturbed, consumed, troubles>>

\* What the browser keeps; what the flows have done at WorkOS; the callbacks.
browser == <<tab, home, sent, pages, csrf, binding, session>>
upstream == <<codes, spent>>

Cookie == Flows \cup {"none"}

Callback ==
    [flow : Flows, code : 0..MaxCodes, browser : Browsers, cookie : Cookie,
     phase : {"sent", "read", "exchange", "grant", "answer", "over"},
     answer : {"none", "noCode", "expired", "mismatch", "failed", "threw",
               "granted"},
     late : BOOLEAN]

TypeOK ==
    /\ tab \in [Flows -> {"closed", "consent", "posting", "parking",
                          "redirect", "retry", "workos", "left"}]
    /\ home \in [Flows -> Browsers \cup {"none"}]
    /\ sent \in [Flows -> [decision : {"none", "approve", "deny", "invalid"},
                           cookie : Cookie]]
    /\ pages \in [Flows -> 0..MaxPages]
    /\ csrf \in [Browsers -> McpFlows \cup {"none"}]
    /\ binding \in [Browsers -> Cookie]
    /\ kv \in [Flows -> {"absent", "spreading", "parked", "fading", "gone"}]
    /\ codes \in [Flows -> 0..MaxCodes]
    /\ spent \in [Flows -> SUBSET (1..MaxCodes)]
    /\ cb \in Seq(Callback) /\ Len(cb) <= MaxCallbacks
    /\ session \in [Browsers -> BOOLEAN]
    /\ grants \in [Flows -> SUBSET Browsers]
    /\ disturbed \in [Flows -> BOOLEAN]
    /\ consumed \in [Flows -> BOOLEAN]
    /\ troubles \in 0..MaxTroubles

NothingSent == [decision |-> "none", cookie |-> "none"]

Init ==
    /\ tab = [f \in Flows |-> "closed"]
    /\ home = [f \in Flows |-> "none"]
    /\ sent = [f \in Flows |-> NothingSent]
    /\ pages = [f \in Flows |-> 0]
    /\ csrf = [b \in Browsers |-> "none"]
    /\ binding = [b \in Browsers |-> "none"]
    /\ kv = [f \in Flows |-> "absent"]
    /\ codes = [f \in Flows |-> 0]
    /\ spent = [f \in Flows |-> {}]
    /\ cb = <<>>
    /\ session = [b \in Browsers |-> FALSE]
    /\ grants = [f \in Flows |-> {}]
    /\ disturbed = [f \in Flows |-> FALSE]
    /\ consumed = [f \in Flows |-> FALSE]
    /\ troubles = 0

Trouble ==
    /\ troubles < MaxTroubles
    /\ troubles' = troubles + 1

\* The flows of browser b, other than f, whose tab is in one of the places.
Others(b, f, places) ==
    {g \in Flows \ {f} : home[g] = b /\ tab[g] \in places}

\* An answer has changed a cookie that the flows hit rely on.
Disturb(hit) == disturbed' = [g \in Flows |-> disturbed[g] \/ g \in hit]

-----------------------------------------------------------------------------
(* /authorize. *)

\* GET /authorize: a fresh token goes into the form and into the cookie.  The
\* same request follows a refused POST (retryConsent).
ShowConsent(f, b) ==
    /\ f \in McpFlows
    /\ \/ tab[f] = "closed" /\ home[f] = "none"
       \/ tab[f] = "retry" /\ home[f] = b
    /\ pages[f] < MaxPages
    /\ pages' = [pages EXCEPT ![f] = @ + 1]
    /\ home' = [home EXCEPT ![f] = b]
    /\ tab' = [tab EXCEPT ![f] = "consent"]
    /\ csrf' = [csrf EXCEPT ![b] = f]
    /\ disturbed' = [g \in Flows |->
                        g # f /\ (disturbed[g] \/ g \in Others(b, f, {"consent"}))]
    /\ UNCHANGED <<sent, binding, kv, upstream, cb, session, grants, consumed,
                   troubles>>

\* GET or POST /authorize when the request no longer validates, and a GET
\* whose answer is an error: resolveAuthRequest refuses it, and no cookie is
\* set or cleared.
RefuseRequest(f) ==
    /\ tab[f] \in {"posting", "retry"}
    /\ Trouble
    /\ tab' = [tab EXCEPT ![f] = "left"]
    /\ sent' = [sent EXCEPT ![f] = NothingSent]
    /\ UNCHANGED <<home, pages, csrf, binding, kv, upstream, cb, session,
                   grants, disturbed, consumed>>

\* The consent form is sent, with the cookie the browser has by then.
PostConsent(f, decision) ==
    /\ tab[f] = "consent"
    /\ tab' = [tab EXCEPT ![f] = "posting"]
    /\ sent' = [sent EXCEPT ![f] = [decision |-> decision,
                                    cookie |-> csrf[home[f]]]]
    /\ UNCHANGED <<home, pages, csrf, binding, kv, upstream, cb, session,
                   grants, disturbed, consumed, troubles>>

\* retryConsent: the token differs, the decision is none the form offers or
\* the terms are not acknowledged.
RetryConsent(f) ==
    /\ tab[f] = "posting"
    /\ \/ sent[f].cookie # f
       \/ sent[f].decision = "invalid"
    /\ tab' = [tab EXCEPT ![f] = "retry"]
    /\ sent' = [sent EXCEPT ![f] = NothingSent]
    /\ UNCHANGED <<home, pages, csrf, binding, kv, upstream, cb, session,
                   grants, disturbed, consumed, troubles>>

\* The user's refusal: back to the client, and the consent cookie is cleared.
Deny(f) ==
    /\ tab[f] = "posting"
    /\ sent[f].cookie = f /\ sent[f].decision = "deny"
    /\ tab' = [tab EXCEPT ![f] = "left"]
    /\ sent' = [sent EXCEPT ![f] = NothingSent]
    /\ csrf' = [csrf EXCEPT ![home[f]] = "none"]
    /\ Disturb(Others(home[f], f, {"consent"}))
    /\ UNCHANGED <<home, pages, binding, kv, upstream, cb, session, grants,
                   consumed, troubles>>

\* The approval parks the request; the put may fail, and then the tab is left
\* with an error and the cookies as they were.
Park(f) ==
    /\ \/ /\ tab[f] = "posting"
          /\ sent[f].cookie = f /\ sent[f].decision = "approve"
       \/ tab[f] = "parking"
    /\ \/ /\ kv' = [kv EXCEPT ![f] = "spreading"]
          /\ tab' = [tab EXCEPT ![f] = "redirect"]
          /\ UNCHANGED troubles
       \/ /\ Trouble
          /\ tab' = [tab EXCEPT ![f] = "left"]
          /\ UNCHANGED kv
    /\ sent' = [sent EXCEPT ![f] = NothingSent]
    /\ disturbed' = [disturbed EXCEPT ![f] = FALSE]
    /\ UNCHANGED <<home, pages, csrf, binding, upstream, cb, session, grants,
                   consumed>>

\* demoLoginRedirect: GET /playground/login parks at once.
DemoLogin(f, b) ==
    /\ f \in DemoFlows
    /\ tab[f] = "closed" /\ home[f] = "none"
    /\ home' = [home EXCEPT ![f] = b]
    /\ tab' = [tab EXCEPT ![f] = "parking"]
    /\ UNCHANGED <<sent, pages, csrf, binding, kv, upstream, cb, session,
                   grants, disturbed, consumed, troubles>>

\* Mutant: the second Set-Cookie of the approval replaces the first.
RedirectedOneCookie(f) ==
    /\ tab[f] = "redirect"
    /\ tab' = [tab EXCEPT ![f] = "workos"]
    /\ csrf' = [csrf EXCEPT ![home[f]] = "none"]
    /\ Disturb(Others(home[f], f, {"workos", "consent"}))
    /\ UNCHANGED <<home, sent, pages, binding, kv, upstream, cb, session,
                   grants, consumed, troubles>>

\* The redirect to WorkOS arrives: it sets the binding cookie, and that of an
\* approval clears the consent cookie of the browser, whichever tab set it.
Redirected(f) ==
    /\ tab[f] = "redirect"
    /\ tab' = [tab EXCEPT ![f] = "workos"]
    /\ binding' = [binding EXCEPT ![home[f]] = f]
    /\ csrf' = IF f \in McpFlows
               THEN [csrf EXCEPT ![home[f]] = "none"] ELSE csrf
    /\ Disturb(Others(home[f], f,
                      {"workos"} \cup IF f \in McpFlows
                                      THEN {"consent"} ELSE {}))
    /\ UNCHANGED <<home, sent, pages, kv, upstream, cb, session, grants,
                   consumed, troubles>>

-----------------------------------------------------------------------------
(* WorkOS, the key-value store and the clocks. *)

\* GET /callback of browser b, with the cookie it has now; code 0 stands for
\* an address without a code.
Request(f, c, b) ==
    [flow |-> f, code |-> c, browser |-> b, cookie |-> binding[b],
     phase |-> "sent", answer |-> "none",
     late |-> consumed[f] /\ kv[f] # "fading"]

\* The user signs in, and WorkOS sends the browser back with a code; or
\* WorkOS ends the sign-in without one.  A user who goes back to the WorkOS
\* page signs in again, with a second code for the same state.
WorkosReturns(f) ==
    /\ tab[f] = "workos"
    /\ Len(cb) < MaxCallbacks
    /\ \/ /\ codes[f] < MaxCodes
          /\ codes' = [codes EXCEPT ![f] = @ + 1]
          /\ cb' = Append(cb, Request(f, codes[f] + 1, home[f]))
          /\ UNCHANGED troubles
       \/ /\ Trouble
          /\ cb' = Append(cb, Request(f, 0, home[f]))
          /\ UNCHANGED codes
    /\ UNCHANGED <<browser, spent, kv, grants, disturbed, consumed>>

\* The address of a callback is loaded again, or opened in another browser.
Repeat(i, b) ==
    /\ Len(cb) < MaxCallbacks
    /\ cb' = Append(cb, Request(cb[i].flow, cb[i].code, b))
    /\ UNCHANGED <<browser, upstream, kv, grants, disturbed, consumed,
                   troubles>>

\* A write or a delete has reached every location.
Spread(f) ==
    /\ \/ kv[f] = "spreading" /\ kv' = [kv EXCEPT ![f] = "parked"]
       \/ kv[f] = "fading" /\ kv' = [kv EXCEPT ![f] = "gone"]
    /\ UNCHANGED <<browser, upstream, cb, grants, disturbed, consumed,
                   troubles>>

\* LOGIN_STATE_TTL_SECONDS and CONSENT_CSRF_TTL_SECONDS pass.  The binding
\* cookie rides the clock of the entry and was set after it.
ExpireEntry(f) ==
    /\ kv[f] = "parked"
    /\ Trouble
    /\ kv' = [kv EXCEPT ![f] = "gone"]
    /\ disturbed' = [disturbed EXCEPT ![f] = TRUE]
    /\ UNCHANGED <<browser, upstream, cb, grants, consumed>>

ExpireCookie(b) ==
    /\ Trouble
    /\ \/ /\ csrf[b] # "none"
          /\ csrf' = [csrf EXCEPT ![b] = "none"]
          /\ disturbed' = [disturbed EXCEPT ![csrf[b]] = TRUE]
          /\ UNCHANGED binding
       \/ /\ binding[b] # "none" /\ kv[binding[b]] = "gone"
          /\ binding' = [binding EXCEPT ![b] = "none"]
          /\ disturbed' = [disturbed EXCEPT ![binding[b]] = TRUE]
          /\ UNCHANGED csrf
    /\ UNCHANGED <<tab, home, sent, pages, session, upstream, kv, cb, grants,
                   consumed>>

-----------------------------------------------------------------------------
(* completeCallback. *)

At(i, phase) == cb[i].phase = phase

Answer(i, answer) ==
    cb' = [cb EXCEPT ![i].phase = "answer", ![i].answer = answer]

NoCode(i) ==
    /\ At(i, "sent") /\ cb[i].code = 0
    /\ Answer(i, "noCode")
    /\ UNCHANGED <<browser, upstream, kv, grants, disturbed, consumed,
                   troubles>>

\* env.OAUTH_KV.get finds the entry: at a location a delete has not reached,
\* it still finds one that is deleted.
Read(i) ==
    /\ At(i, "sent") /\ cb[i].code # 0
    /\ \/ kv[cb[i].flow] \in {"spreading", "parked"} /\ UNCHANGED troubles
       \/ kv[cb[i].flow] = "fading" /\ Trouble
    /\ cb' = [cb EXCEPT ![i].phase = "read"]
    /\ UNCHANGED <<browser, upstream, kv, grants, disturbed, consumed>>

\* ... or does not, at a location the put has not reached, or after the end
\* of the entry.
Miss(i) ==
    /\ At(i, "sent") /\ cb[i].code # 0
    /\ \/ /\ kv[cb[i].flow] \in {"fading", "gone"}
          /\ UNCHANGED <<troubles, disturbed>>
       \/ /\ kv[cb[i].flow] = "spreading" /\ Trouble
          /\ disturbed' = [disturbed EXCEPT ![cb[i].flow] = TRUE]
    /\ Answer(i, "expired")
    /\ UNCHANGED <<browser, upstream, kv, grants, consumed>>

\* Mutant: any binding cookie will do.
BindingPresent(i) == cb[i].cookie # "none"

\* The browser that started the sign-in is the one that comes back.
BindingMatches(i) == cb[i].cookie = cb[i].flow

\* Mutant: the entry is left to its time to live.
NotDeleted(f) == kv[f]

\* The entry after its delete.
Deleted(f) == IF kv[f] = "gone" THEN "gone" ELSE "fading"

\* The entry is deleted in every branch, and only then is the cookie
\* compared.
Consume(i) ==
    /\ At(i, "read")
    /\ kv' = [kv EXCEPT ![cb[i].flow] = Deleted(cb[i].flow)]
    /\ consumed' = [consumed EXCEPT ![cb[i].flow] = TRUE]
    /\ IF BindingMatches(i)
       THEN cb' = [cb EXCEPT ![i].phase = "exchange"]
       ELSE Answer(i, "mismatch")
    /\ UNCHANGED <<browser, upstream, grants, disturbed, troubles>>

\* POST /user_management/authenticate: a code is good once.  When the call
\* fails, WorkOS may have exchanged it all the same.
Exchange(i) ==
    /\ At(i, "exchange")
    /\ LET f == cb[i].flow
           c == cb[i].code
           Spend == spent' = [spent EXCEPT ![f] = @ \cup {c}]
       IN \/ /\ c \notin spent[f]
             /\ Spend
             /\ cb' = [cb EXCEPT ![i].phase = "grant"]
             /\ UNCHANGED troubles
          \/ /\ c \in spent[f]
             /\ Answer(i, "failed")
             /\ UNCHANGED <<spent, troubles>>
          \/ /\ c \notin spent[f]
             /\ Trouble
             /\ \/ Spend
                \/ UNCHANGED spent
             /\ \/ Answer(i, "failed")
                \/ Answer(i, "threw")
    /\ UNCHANGED <<browser, codes, kv, grants, disturbed, consumed>>

\* completeAuthorization stores the grant of an MCP client; the playground's
\* session is minted into the answer.
Grant(i) ==
    /\ At(i, "grant")
    /\ grants' = [grants EXCEPT ![cb[i].flow] = @ \cup {cb[i].browser}]
    /\ Answer(i, "granted")
    /\ UNCHANGED <<browser, upstream, kv, disturbed, consumed, troubles>>

\* A call before the answer throws: a key-value read or delete, or the
\* storing of the grant.  No cookie is set or cleared.
Throw(i) ==
    /\ \/ At(i, "sent") /\ cb[i].code # 0
       \/ At(i, "read")
       \/ At(i, "grant") /\ cb[i].flow \in McpFlows
    /\ Trouble
    /\ Answer(i, "threw")
    /\ UNCHANGED <<browser, upstream, kv, grants, disturbed, consumed>>

\* These answers clear the binding cookie of the browser, whichever flow of
\* it the cookie is for.
ClearsBinding(answer) ==
    answer \in {"expired", "mismatch", "failed", "granted"}

Arrive(i) ==
    LET f == cb[i].flow
        b == cb[i].browser
        clears == ClearsBinding(cb[i].answer)
    IN /\ At(i, "answer")
       /\ cb' = [cb EXCEPT ![i].phase = "over"]
       /\ binding' = IF clears THEN [binding EXCEPT ![b] = "none"] ELSE binding
       /\ session' = [session EXCEPT ![b] =
                         @ \/ (cb[i].answer = "granted" /\ f \in DemoFlows)]
       /\ tab' = IF b = home[f] /\ tab[f] = "workos"
                 THEN [tab EXCEPT ![f] = "left"] ELSE tab
       /\ disturbed' = [g \in Flows |->
                           \/ disturbed[g]
                           \/ clears /\ home[g] = b /\ tab[g] = "workos"]
       /\ UNCHANGED <<home, sent, pages, csrf, upstream, kv, grants, consumed,
                      troubles>>

\* The answer never reaches the browser.
LoseAnswer(i) ==
    /\ At(i, "answer")
    /\ Trouble
    /\ cb' = [cb EXCEPT ![i].phase = "over"]
    /\ UNCHANGED <<browser, upstream, kv, grants, disturbed, consumed>>

-----------------------------------------------------------------------------
AuthorizeNext ==
    \E f \in Flows :
       \/ \E b \in Browsers : ShowConsent(f, b) \/ DemoLogin(f, b)
       \/ \E d \in {"approve", "deny", "invalid"} : PostConsent(f, d)
       \/ RefuseRequest(f) \/ RetryConsent(f) \/ Deny(f) \/ Park(f)
       \/ Redirected(f)

WorldNext ==
    \/ \E f \in Flows : WorkosReturns(f) \/ Spread(f) \/ ExpireEntry(f)
    \/ \E b \in Browsers :
          \/ ExpireCookie(b)
          \/ \E i \in DOMAIN cb : Repeat(i, b)

CallbackNext ==
    \E i \in DOMAIN cb :
       \/ NoCode(i) \/ Read(i) \/ Miss(i) \/ Consume(i) \/ Exchange(i)
       \/ Grant(i) \/ Throw(i) \/ Arrive(i) \/ LoseAnswer(i)

SignInNext == AuthorizeNext \/ WorldNext \/ CallbackNext

Spec == Init /\ [][SignInNext]_vars

-----------------------------------------------------------------------------
(* Properties. *)

\* A grant or a session goes to the browser the sign-in was started in, and
\* an MCP grant only after a consent page of that browser was shown
\* (workos.ts:75-76, 267-270): a callback address that is loaded again or
\* opened in another browser gives nothing away.
GrantGoesHome ==
    /\ \A f \in Flows : grants[f] \subseteq {home[f]}
    /\ \A f \in McpFlows : grants[f] # {} => pages[f] > 0
    /\ \A b \in Browsers :
          session[b] => \E f \in DemoFlows : grants[f] = {b}

\* "Single-use" (workos.ts:260): once a callback has deleted the entry and
\* the delete is seen everywhere, no callback sent later is granted anything,
\* not even one with a fresh code and the right cookie.
SingleUse ==
    \A i \in DOMAIN cb : cb[i].late => cb[i].answer # "granted"

\* What may cost a user a sign-in.  A consent form is refused for its token
\* only when another consent page, or the end of another approval, reached
\* the same browser since the page was shown, or the half hour passed.  A
\* callback is refused for its state or its cookie only when another sign-in
\* of the same browser set or cleared the cookie in between, the ten minutes
\* passed, the address was loaded more than once or elsewhere, or the put was
\* not yet seen at its location.
OnlyThatInterferes ==
    /\ \A f \in McpFlows :
          tab[f] = "posting" /\ sent[f].cookie # f => disturbed[f]
    /\ \A i \in DOMAIN cb :
          cb[i].answer \in {"expired", "mismatch"} =>
             \/ disturbed[cb[i].flow]
             \/ cb[i].browser # home[cb[i].flow]
             \/ \E j \in DOMAIN cb \ {i} :
                   cb[j].flow = cb[i].flow /\ cb[j].code # 0

-----------------------------------------------------------------------------
(***************************************************************************)
(* Why the properties above hold: a cookie leads to the browser that its   *)
(* flow was opened in, an entry is parked once, and a request remembers    *)
(* the cookie that it was sent with.                                       *)
(***************************************************************************)
Early == {"closed", "consent", "posting", "parking", "retry"}

\* A flow is opened in one browser, an MCP client's with a consent page.
Homes ==
    \A f \in Flows :
       /\ home[f] = "none" <=> tab[f] = "closed"
       /\ f \in McpFlows /\ home[f] # "none" => pages[f] > 0
       /\ grants[f] \subseteq {home[f]}

\* The cookies of a browser, and what a form or a sign-in relies on.
Cookies ==
    /\ \A b \in Browsers : binding[b] # "none" => home[binding[b]] = b
    /\ \A f \in McpFlows :
          /\ tab[f] = "consent" => csrf[home[f]] = f \/ disturbed[f]
          /\ tab[f] = "posting" => sent[f].cookie = f \/ disturbed[f]
    /\ \A f \in Flows : tab[f] = "workos" => binding[home[f]] = f \/ disturbed[f]

\* A request other than i that carries a code of flow f, and has been read if
\* it must.
Another(f, i, phases) ==
    \E j \in DOMAIN cb \ {i} :
       cb[j].flow = f /\ cb[j].code # 0 /\ cb[j].phase \in phases

Phases == {"sent", "read", "exchange", "grant", "answer", "over"}

\* An entry is parked once, before any callback, and its end has a cause.
Entries ==
    \A f \in Flows :
       /\ tab[f] \in Early => kv[f] = "absent" /\ ~ consumed[f]
       /\ tab[f] \in Early \cup {"redirect"} => \A i \in DOMAIN cb : cb[i].flow # f
       /\ consumed[f] => kv[f] \in {"fading", "gone"}
       /\ kv[f] \in {"fading", "gone"} =>
             disturbed[f] \/ Another(f, 0, Phases \ {"sent"})

\* The cookie of a request is that of its browser; only the right one is
\* exchanged; one that is refused has a cause; one that is late finds nothing.
Sound(i) ==
    LET r == cb[i]
        astray == \/ disturbed[r.flow]
                  \/ r.browser # home[r.flow]
                  \/ Another(r.flow, i, Phases)
    IN /\ r.cookie # "none" => home[r.cookie] = r.browser
       /\ r.phase \in {"read", "exchange", "grant"} => r.code # 0
       /\ r.phase \in {"exchange", "grant"} => r.cookie = r.flow
       /\ r.answer = "granted" => r.browser \in grants[r.flow]
       /\ r.answer \in {"expired", "mismatch"} => astray
       /\ r.code # 0 /\ r.cookie # r.flow => astray
       /\ r.late => /\ kv[r.flow] = "gone" /\ r.answer # "granted"
                    /\ r.phase \notin {"read", "exchange", "grant"}

\* A session was given to its browser by the sign-in that was opened in it.
Sessions ==
    \A b \in Browsers : session[b] => \E f \in DemoFlows : grants[f] = {b}

SignInInv ==
    /\ TypeOK /\ Homes /\ Cookies /\ Entries /\ Sessions
    /\ \A i \in DOMAIN cb : Sound(i)
=============================================================================
