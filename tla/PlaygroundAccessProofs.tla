------------------------ MODULE PlaygroundAccessProofs ------------------------
(***************************************************************************)
(* Signing in and asking, for any number of tabs, browsers, callbacks and  *)
(* troubles, and any cap on the chats of an hour.  No step takes back what *)
(* the others rely on (Forward): a flow stays in its browser, what crossed *)
(* it is remembered, an entry that is gone stays gone, and a request keeps *)
(* its flow and its code.  So each step is asked only for what it changes. *)
(***************************************************************************)
EXTENDS PlaygroundAccess, SequenceTheorems, TLAPS

\* What every step of a sign-in leaves to the flows and the requests there are.
Forward ==
  /\ \A f \in Flows : home[f] # "none" => home'[f] = home[f]
  /\ \A f \in Flows : tab'[f] \in Early => tab[f] \in Early
  /\ \A f \in Flows : tab[f] \notin Early =>
       (disturbed[f] => disturbed'[f]) /\ (kv[f] = "gone" => kv'[f] = "gone")
  /\ \A f \in Flows : grants[f] \subseteq grants'[f]
  /\ DOMAIN cb \subseteq DOMAIN cb'
  /\ \A j \in DOMAIN cb :
       /\ cb'[j].flow = cb[j].flow /\ cb'[j].code = cb[j].code
       /\ cb'[j].phase = "sent" => cb[j].phase = "sent"

\* The requests are callbacks, and a flow that has one is past its consent.
LEMMA Requested ==
  ASSUME SignInInv, NEW i \in DOMAIN cb
  PROVE  /\ cb[i] \in Callback /\ cb[i].flow \in Flows
         /\ tab[cb[i].flow] \notin Early \cup {"redirect"} /\ home[cb[i].flow] # "none"
<1>1. cb[i] \in Callback
  BY DEF SignInInv, TypeOK
<1>2. cb[i].flow \in Flows
  BY <1>1 DEF Callback
<1>3. tab[cb[i].flow] \notin Early \cup {"redirect"}
  BY <1>2 DEF SignInInv, Entries
<1>4. home[cb[i].flow] # "none"
  BY <1>2, <1>3 DEF SignInInv, Homes, Early
<1> QED BY <1>1, <1>2, <1>3, <1>4

\* Another request stays another request.
LEMMA AnotherStays ==
  ASSUME SignInInv, TypeOK', Forward, NEW f, NEW i,
         NEW phases \in {Phases, Phases \ {"sent"}}, Another(f, i, phases)
  PROVE  Another(f, i, phases)'
<1>1. PICK j \in DOMAIN cb \ {i} : cb[j].flow = f /\ cb[j].code # 0 /\ cb[j].phase \in phases
  BY DEF Another
<1>2. j \in DOMAIN cb' /\ cb'[j] \in Callback
  BY <1>1 DEF Forward, TypeOK
<1>3. cb'[j].phase \in Phases
  BY <1>2 DEF Callback, Phases
<1>4. cb'[j].phase \in phases
  BY <1>1, <1>3 DEF Forward
<1> QED BY <1>1, <1>2, <1>4 DEF Another, Forward

\* A request that is not touched is as sound as before.
LEMMA SoundStays ==
  ASSUME SignInInv, TypeOK', Forward, NEW i \in DOMAIN cb, cb'[i] = cb[i]
  PROVE  Sound(i)'
<1> DEFINE f == cb[i].flow
<1>1. /\ cb[i] \in Callback /\ f \in Flows /\ tab[f] \notin Early /\ home[f] # "none"
      /\ Sound(i)
  BY Requested DEF SignInInv
<1>2. home'[f] = home[f] /\ (disturbed[f] => disturbed'[f]) /\ (kv[f] = "gone" => kv'[f] = "gone")
      /\ grants[f] \subseteq grants'[f]
  BY <1>1 DEF Forward
<1>3. Another(f, i, Phases) => Another(f, i, Phases)'
  BY AnotherStays
<1>4. cb[i].cookie # "none" => home'[cb[i].cookie] = cb[i].browser
  <2>1. cb[i].cookie # "none" => cb[i].cookie \in Flows /\ cb[i].browser \in Browsers
    BY <1>1 DEF Callback, Cookie
  <2> QED BY <1>1, <2>1, FlowsAssumption DEF Sound, Forward
<1> HIDE DEF f
<1> QED BY <1>1, <1>2, <1>3, <1>4 DEF Sound, f

\* The entries of the flows stay as they are.
LEMMA EntriesStay ==
  ASSUME SignInInv, TypeOK', Forward, UNCHANGED consumed,
         \A f \in Flows :
           /\ \/ kv'[f] = kv[f]
              \/ tab'[f] \notin Early /\ kv'[f] \notin {"fading", "gone"} /\ ~ consumed[f]
           /\ tab'[f] \in Early \cup {"redirect"} => \A i \in DOMAIN cb' : cb'[i].flow # f
  PROVE  Entries'
<1> SUFFICES ASSUME NEW f \in Flows
             PROVE  /\ tab'[f] \in Early => kv'[f] = "absent" /\ ~ consumed'[f]
                    /\ consumed'[f] => kv'[f] \in {"fading", "gone"}
                    /\ kv'[f] \in {"fading", "gone"} =>
                          disturbed'[f] \/ Another(f, 0, Phases \ {"sent"})'
  BY DEF Entries
<1>1. Another(f, 0, Phases \ {"sent"}) => Another(f, 0, Phases \ {"sent"})'
  BY AnotherStays
<1> QED BY <1>1 DEF Forward, SignInInv, Entries

\* What is left when a step changes no request.
LEMMA QuietKeeps ==
  ASSUME SignInInv, TypeOK', Forward, Homes', Cookies', Entries', Sessions', UNCHANGED cb
  PROVE  SignInInv'
BY SoundStays DEF SignInInv

\* A session stays where it was given.
LEMMA SessionsStay ==
  ASSUME SignInInv, UNCHANGED <<session, grants>>
  PROVE  Sessions'
BY DEF SignInInv, Sessions

\* And so do the entries, when only tabs move.
LEMMA EntriesRest ==
  ASSUME SignInInv, TypeOK', Forward, UNCHANGED <<kv, consumed, cb>>,
         \A f \in Flows : tab'[f] \in Early \cup {"redirect"} => tab[f] \in Early \cup {"redirect"}
  PROVE  Entries'
<1>1. \A f \in Flows : tab'[f] \in Early \cup {"redirect"} => \A i \in DOMAIN cb' : cb'[i].flow # f
  BY DEF SignInInv, Entries
<1> QED BY <1>1, EntriesStay

\* A grant is where it was, and so is the home it was given to.
LEMMA HomesStay ==
  ASSUME SignInInv, TypeOK', Forward, UNCHANGED grants,
         \A f \in Flows :
           /\ home'[f] = "none" <=> tab'[f] = "closed"
           /\ f \in McpFlows /\ home'[f] # "none" => pages'[f] > 0
  PROVE  Homes'
<1> SUFFICES ASSUME NEW f \in Flows PROVE grants[f] \subseteq {home'[f]}
  BY DEF Homes
<1>1. grants[f] \subseteq {home[f]} /\ grants[f] \subseteq Browsers
  BY DEF SignInInv, Homes, TypeOK
<1>2. CASE home[f] = "none"
  BY <1>1, <1>2, FlowsAssumption
<1>3. CASE home[f] # "none"
  BY <1>1, <1>3 DEF Forward
<1> QED BY <1>2, <1>3

\* A consent page is shown, in a new tab or after a refused form.
LEMMA ShowConsentKeeps ==
  ASSUME SignInInv, NEW f \in Flows, NEW b \in Browsers, ShowConsent(f, b)
  PROVE  SignInInv'
<1> USE FlowsAssumption
<1>0. TypeOK /\ Homes /\ Cookies /\ Entries
  BY DEF SignInInv
<1>1. /\ f \in McpFlows /\ tab[f] \in {"closed", "retry"} /\ (home[f] = "none" \/ home[f] = b)
      /\ home' = [home EXCEPT ![f] = b] /\ home'[f] = b
      /\ \A g \in Flows \ {f} : home'[g] = home[g]
      /\ tab' = [tab EXCEPT ![f] = "consent"] /\ tab'[f] = "consent"
      /\ \A g \in Flows \ {f} : tab'[g] = tab[g]
      /\ csrf' = [csrf EXCEPT ![b] = f] /\ csrf'[b] = f
      /\ \A c \in Browsers \ {b} : csrf'[c] = csrf[c]
      /\ UNCHANGED <<sent, binding, kv, codes, spent, cb, session, grants, consumed, troubles>>
  BY <1>0 DEF ShowConsent, TypeOK, upstream
<1>2. /\ disturbed' \in [Flows -> BOOLEAN]
      /\ \A g \in Flows : disturbed'[g] =
            (g # f /\ (disturbed[g] \/ (home[g] = b /\ tab[g] = "consent" /\ g # f)))
  BY <1>0 DEF ShowConsent, Others, TypeOK
<1>3. pages' \in [Flows -> 0..MaxPages] /\ pages'[f] > 0 /\ \A g \in Flows \ {f} : pages'[g] = pages[g]
  <2>1. pages[f] \in 0..MaxPages /\ pages[f] < MaxPages /\ pages' = [pages EXCEPT ![f] = pages[f] + 1]
    BY <1>0 DEF ShowConsent, TypeOK
  <2>2. pages[f] + 1 \in 0..MaxPages /\ pages[f] + 1 > 0
    BY <2>1
  <2> QED BY <1>0, <2>1, <2>2 DEF TypeOK
<1>4. TypeOK'
  BY <1>0, <1>1, <1>2, <1>3 DEF TypeOK, Flows
<1>5. Forward
  BY <1>0, <1>1, <1>2 DEF Forward, Early
<1>6. Homes'
  <2>1. \A g \in Flows : home'[g] = "none" <=> tab'[g] = "closed"
    BY <1>0, <1>1 DEF Homes
  <2>2. \A g \in Flows : g \in McpFlows /\ home'[g] # "none" => pages'[g] > 0
    BY <1>0, <1>1, <1>3 DEF Homes
  <2> QED BY <1>1, <1>4, <1>5, <2>1, <2>2, HomesStay
<1>7. Cookies'
  <2>1. \A c \in Browsers : binding'[c] # "none" => home'[binding'[c]] = c
    <3>1. \A c \in Browsers : binding[c] # "none" => binding[c] \in Flows
      BY <1>0 DEF TypeOK, Cookie
    <3> QED BY <1>0, <1>1, <3>1 DEF Cookies
  <2>2. \A g \in McpFlows : tab'[g] = "consent" => csrf'[home'[g]] = g \/ disturbed'[g]
    <3> SUFFICES ASSUME NEW g \in McpFlows, tab'[g] = "consent", g # f
                 PROVE  csrf'[home'[g]] = g \/ disturbed'[g]
      BY <1>1
    <3>1. g \in Flows /\ home[g] \in Browsers /\ tab[g] = "consent" /\ home'[g] = home[g]
      BY <1>0, <1>1 DEF Flows, Homes, TypeOK
    <3> QED BY <1>0, <1>1, <1>2, <3>1 DEF Cookies
  <2>3. \A g \in McpFlows : tab'[g] = "posting" => sent'[g].cookie = g \/ disturbed'[g]
    BY <1>0, <1>1, <1>2 DEF Cookies, Flows
  <2>4. \A g \in Flows : tab'[g] = "workos" => binding'[home'[g]] = g \/ disturbed'[g]
    BY <1>0, <1>1, <1>2 DEF Cookies
  <2> QED BY <2>1, <2>2, <2>3, <2>4 DEF Cookies
<1>8. Entries'
  <2>1. \A g \in Flows : tab'[g] \in Early \cup {"redirect"} => tab[g] \in Early \cup {"redirect"}
    BY <1>1 DEF Early
  <2> QED BY <1>1, <1>4, <1>5, <2>1, EntriesRest
<1> QED BY <1>1, <1>4, <1>5, <1>6, <1>7, <1>8, SessionsStay, QuietKeeps

\* Troubles are counted up to their bound.
LEMMA TroubleCounts ==
  ASSUME TypeOK, Trouble
  PROVE  troubles' \in 0..MaxTroubles
BY FlowsAssumption DEF TypeOK, Trouble

\* A tab moves to where no cookie is relied on.
LEMMA TabLeaves ==
  ASSUME SignInInv, NEW f \in Flows, NEW l \in {"left", "retry"},
         tab[f] \in {"posting", "retry"}, l = "retry" => tab[f] = "posting",
         tab' = [tab EXCEPT ![f] = l], sent' = [sent EXCEPT ![f] = NothingSent],
         UNCHANGED <<home, pages, csrf, binding, kv, upstream, cb, session, grants, disturbed,
                     consumed>>,
         troubles' \in 0..MaxTroubles
  PROVE  SignInInv'
<1> USE FlowsAssumption
<1>0. TypeOK /\ Homes /\ Cookies /\ Entries
  BY DEF SignInInv
<1>1. tab'[f] = l /\ \A g \in Flows \ {f} : tab'[g] = tab[g] /\ sent'[g] = sent[g]
  BY <1>0 DEF TypeOK
<1>2. TypeOK'
  BY <1>0 DEF TypeOK, upstream, NothingSent, Cookie
<1>3. Forward
  BY <1>0, <1>1 DEF Forward, Early
<1>4. Homes'
  <2>1. \A g \in Flows : home'[g] = "none" <=> tab'[g] = "closed"
    BY <1>0, <1>1 DEF Homes
  <2> QED BY <1>0, <1>1, <1>2, <1>3, <2>1, HomesStay DEF Homes
<1>5. Cookies'
  BY <1>0, <1>1 DEF Cookies, Flows
<1>6. Entries'
  <2>1. \A g \in Flows : tab'[g] \in Early \cup {"redirect"} => tab[g] \in Early \cup {"redirect"}
    BY <1>1 DEF Early
  <2> QED BY <1>2, <1>3, <2>1, EntriesRest
<1> QED BY <1>2, <1>3, <1>4, <1>5, <1>6, SessionsStay, QuietKeeps

\* A request that does not validate, and a form that is refused.
LEMMA RefuseKeeps ==
  ASSUME SignInInv, NEW f \in Flows, RefuseRequest(f) \/ RetryConsent(f)
  PROVE  SignInInv'
<1>1. TypeOK /\ troubles \in 0..MaxTroubles
  BY DEF SignInInv, TypeOK
<1>2. troubles' \in 0..MaxTroubles
  BY <1>1, TroubleCounts DEF RefuseRequest, RetryConsent
<1>3. CASE RefuseRequest(f)
  BY <1>2, <1>3, TabLeaves DEF RefuseRequest
<1>4. CASE RetryConsent(f)
  BY <1>2, <1>4, TabLeaves DEF RetryConsent
<1> QED BY <1>3, <1>4

\* The form is sent with the cookie of the moment.
LEMMA PostConsentKeeps ==
  ASSUME SignInInv, NEW f \in Flows, NEW d \in {"approve", "deny", "invalid"}, PostConsent(f, d)
  PROVE  SignInInv'
<1> USE FlowsAssumption
<1>0. TypeOK /\ Homes /\ Cookies /\ Entries
  BY DEF SignInInv
<1>1. /\ tab[f] = "consent" /\ tab' = [tab EXCEPT ![f] = "posting"] /\ tab'[f] = "posting"
      /\ \A g \in Flows \ {f} : tab'[g] = tab[g] /\ sent'[g] = sent[g]
      /\ home[f] \in Browsers
      /\ UNCHANGED <<home, pages, csrf, binding, kv, codes, spent, cb, session, grants, disturbed,
                     consumed, troubles>>
  BY <1>0 DEF PostConsent, TypeOK, Homes, upstream
<1>2. /\ csrf[home[f]] \in Cookie
      /\ sent' = [sent EXCEPT ![f] = [decision |-> d, cookie |-> csrf[home[f]]]]
      /\ sent'[f].cookie = csrf[home[f]]
  BY <1>0, <1>1 DEF PostConsent, TypeOK, Cookie, Flows
<1>3. TypeOK'
  BY <1>0, <1>1, <1>2 DEF TypeOK
<1>4. Forward
  BY <1>0, <1>1 DEF Forward, Early
<1>5. Homes'
  <2>1. \A g \in Flows : home'[g] = "none" <=> tab'[g] = "closed"
    BY <1>0, <1>1 DEF Homes
  <2> QED BY <1>0, <1>1, <1>3, <1>4, <2>1, HomesStay DEF Homes
<1>6. Cookies'
  BY <1>0, <1>1, <1>2 DEF Cookies, Flows
<1>7. Entries'
  <2>1. \A g \in Flows : tab'[g] \in Early \cup {"redirect"} => tab[g] \in Early \cup {"redirect"}
    BY <1>1 DEF Early
  <2> QED BY <1>1, <1>3, <1>4, <2>1, EntriesRest
<1> QED BY <1>1, <1>3, <1>4, <1>5, <1>6, <1>7, SessionsStay, QuietKeeps

\* The user refuses, and the consent cookie goes.
LEMMA DenyKeeps ==
  ASSUME SignInInv, NEW f \in Flows, Deny(f)
  PROVE  SignInInv'
<1> USE FlowsAssumption
<1>0. TypeOK /\ Homes /\ Cookies /\ Entries
  BY DEF SignInInv
<1>1. /\ tab[f] = "posting" /\ tab' = [tab EXCEPT ![f] = "left"] /\ tab'[f] = "left"
      /\ \A g \in Flows \ {f} : tab'[g] = tab[g] /\ sent'[g] = sent[g]
      /\ sent' = [sent EXCEPT ![f] = NothingSent]
      /\ home[f] \in Browsers
      /\ csrf' = [csrf EXCEPT ![home[f]] = "none"]
      /\ UNCHANGED <<home, pages, binding, kv, codes, spent, cb, session, grants, consumed,
                     troubles>>
  BY <1>0 DEF Deny, TypeOK, Homes, upstream
<1>2. /\ disturbed' \in [Flows -> BOOLEAN]
      /\ \A g \in Flows : disturbed'[g] =
            (disturbed[g] \/ (home[g] = home[f] /\ tab[g] = "consent" /\ g # f))
  BY <1>0 DEF Deny, Disturb, Others, TypeOK
<1>3. TypeOK'
  BY <1>0, <1>1, <1>2 DEF TypeOK, NothingSent, Cookie
<1>4. Forward
  BY <1>0, <1>1, <1>2 DEF Forward, Early
<1>5. Homes'
  <2>1. \A g \in Flows : home'[g] = "none" <=> tab'[g] = "closed"
    BY <1>0, <1>1 DEF Homes
  <2> QED BY <1>0, <1>1, <1>3, <1>4, <2>1, HomesStay DEF Homes
<1>6. Cookies'
  <2>1. \A g \in McpFlows : tab'[g] = "consent" => csrf'[home'[g]] = g \/ disturbed'[g]
    <3> SUFFICES ASSUME NEW g \in McpFlows, tab'[g] = "consent", ~ disturbed'[g]
                 PROVE  csrf'[home'[g]] = g
      OBVIOUS
    <3>1. g \in Flows /\ g # f /\ tab[g] = "consent" /\ home[g] \in Browsers
      BY <1>0, <1>1 DEF Flows, Homes, TypeOK
    <3> QED BY <1>0, <1>1, <1>2, <3>1, ZenonT(30) DEF Cookies, TypeOK
  <2>2. \A g \in McpFlows : tab'[g] = "posting" => sent'[g].cookie = g \/ disturbed'[g]
    BY <1>0, <1>1, <1>2 DEF Cookies, Flows
  <2>3. \A g \in Flows : tab'[g] = "workos" => binding'[home'[g]] = g \/ disturbed'[g]
    BY <1>0, <1>1, <1>2 DEF Cookies
  <2> QED BY <1>0, <1>1, <2>1, <2>2, <2>3 DEF Cookies
<1>7. Entries'
  <2>1. \A g \in Flows : tab'[g] \in Early \cup {"redirect"} => tab[g] \in Early \cup {"redirect"}
    BY <1>1 DEF Early
  <2> QED BY <1>1, <1>3, <1>4, <2>1, EntriesRest
<1> QED BY <1>1, <1>3, <1>4, <1>5, <1>6, <1>7, SessionsStay, QuietKeeps

\* The request is parked, or the put fails.
LEMMA ParkKeeps ==
  ASSUME SignInInv, NEW f \in Flows, Park(f)
  PROVE  SignInInv'
<1> USE FlowsAssumption
<1>0. TypeOK /\ Homes /\ Cookies /\ Entries
  BY DEF SignInInv
<1>1. /\ tab[f] \in {"posting", "parking"} /\ tab'[f] \in {"redirect", "left"}
      /\ tab' = [tab EXCEPT ![f] = tab'[f]]
      /\ \A g \in Flows \ {f} :
           tab'[g] = tab[g] /\ sent'[g] = sent[g] /\ disturbed'[g] = disturbed[g] /\ kv'[g] = kv[g]
      /\ sent' = [sent EXCEPT ![f] = NothingSent]
      /\ disturbed' = [disturbed EXCEPT ![f] = FALSE]
      /\ kv' \in [Flows -> {"absent", "spreading", "parked", "fading", "gone"}]
      /\ kv'[f] = kv[f] \/ kv'[f] = "spreading"
      /\ UNCHANGED <<home, pages, csrf, binding, codes, spent, cb, session, grants, consumed>>
  BY <1>0 DEF Park, TypeOK, upstream
<1>2. troubles' \in 0..MaxTroubles
  BY <1>0, TroubleCounts DEF Park, TypeOK
<1>3. TypeOK'
  <2>1. tab' \in [Flows -> {"closed", "consent", "posting", "parking", "redirect", "retry",
                           "workos", "left"}]
    <3>1. PICK l \in {"redirect", "left"} : tab' = [tab EXCEPT ![f] = l]
      BY <1>1
    <3> QED BY <1>0, <3>1 DEF TypeOK
  <2>2. /\ sent' \in [Flows -> [decision : {"none", "approve", "deny", "invalid"},
                                cookie : Cookie]]
        /\ disturbed' \in [Flows -> BOOLEAN]
    BY <1>0, <1>1 DEF TypeOK, NothingSent, Cookie
  <2> QED BY <1>0, <1>1, <1>2, <2>1, <2>2 DEF TypeOK
<1>4. Forward
  BY <1>0, <1>1 DEF Forward, Early
<1>5. Homes'
  <2>1. \A g \in Flows : home'[g] = "none" <=> tab'[g] = "closed"
    BY <1>0, <1>1 DEF Homes
  <2> QED BY <1>0, <1>1, <1>3, <1>4, <2>1, HomesStay DEF Homes
<1>6. Cookies'
  BY <1>0, <1>1 DEF Cookies, Flows
<1>7. Entries'
  <2>1. ASSUME NEW g \in Flows
        PROVE  /\ \/ kv'[g] = kv[g]
                  \/ tab'[g] \notin Early /\ kv'[g] \notin {"fading", "gone"} /\ ~ consumed[g]
               /\ tab'[g] \in Early \cup {"redirect"} => \A i \in DOMAIN cb' : cb'[i].flow # g
    <3>1. tab'[g] \in Early \cup {"redirect"} => tab[g] \in Early \cup {"redirect"}
      BY <1>1 DEF Early
    <3>2. g = f => ~ consumed[g] /\ tab'[g] \notin Early
      BY <1>0, <1>1 DEF Entries, Early
    <3> QED BY <1>0, <1>1, <3>1, <3>2 DEF Entries
  <2> QED BY <1>1, <1>3, <1>4, <2>1, EntriesStay
<1> QED BY <1>1, <1>3, <1>4, <1>5, <1>6, <1>7, SessionsStay, QuietKeeps

\* The playground's sign-in is opened.
LEMMA DemoLoginKeeps ==
  ASSUME SignInInv, NEW f \in Flows, NEW b \in Browsers, DemoLogin(f, b)
  PROVE  SignInInv'
<1> USE FlowsAssumption
<1>0. TypeOK /\ Homes /\ Cookies /\ Entries
  BY DEF SignInInv
<1>1. /\ f \in DemoFlows /\ f \notin McpFlows /\ tab[f] = "closed" /\ home[f] = "none"
      /\ tab' = [tab EXCEPT ![f] = "parking"] /\ tab'[f] = "parking"
      /\ home' = [home EXCEPT ![f] = b] /\ home'[f] = b
      /\ \A g \in Flows \ {f} : tab'[g] = tab[g] /\ home'[g] = home[g]
      /\ UNCHANGED <<sent, pages, csrf, binding, kv, codes, spent, cb, session, grants, disturbed,
                     consumed, troubles>>
  BY <1>0 DEF DemoLogin, TypeOK, upstream
<1>2. TypeOK'
  BY <1>0, <1>1 DEF TypeOK
<1>3. Forward
  BY <1>0, <1>1 DEF Forward, Early
<1>4. Homes'
  <2>1. \A g \in Flows : home'[g] = "none" <=> tab'[g] = "closed"
    BY <1>0, <1>1 DEF Homes
  <2> QED BY <1>0, <1>1, <1>2, <1>3, <2>1, HomesStay DEF Homes
<1>5. Cookies'
  <2>1. \A c \in Browsers : binding'[c] # "none" => home'[binding'[c]] = c
    <3>1. \A c \in Browsers : binding[c] # "none" => binding[c] \in Flows
      BY <1>0 DEF TypeOK, Cookie
    <3> QED BY <1>0, <1>1, <3>1 DEF Cookies
  <2>2. \A g \in McpFlows : g \in Flows \ {f}
    BY <1>1 DEF Flows
  <2> QED BY <1>0, <1>1, <2>1, <2>2 DEF Cookies
<1>6. Entries'
  <2>1. \A g \in Flows : tab'[g] \in Early \cup {"redirect"} => tab[g] \in Early \cup {"redirect"}
    BY <1>1 DEF Early
  <2> QED BY <1>1, <1>2, <1>3, <2>1, EntriesRest
<1> QED BY <1>1, <1>2, <1>3, <1>4, <1>5, <1>6, SessionsStay, QuietKeeps

\* The redirect to WorkOS arrives with its cookies.
LEMMA RedirectedKeeps ==
  ASSUME SignInInv, NEW f \in Flows, Redirected(f)
  PROVE  SignInInv'
<1> USE FlowsAssumption
<1>0. TypeOK /\ Homes /\ Cookies /\ Entries
  BY DEF SignInInv
<1>1. /\ tab[f] = "redirect" /\ tab' = [tab EXCEPT ![f] = "workos"] /\ tab'[f] = "workos"
      /\ home[f] \in Browsers
      /\ \A g \in Flows \ {f} : tab'[g] = tab[g]
      /\ binding' = [binding EXCEPT ![home[f]] = f]
      /\ csrf' = csrf \/ (f \in McpFlows /\ csrf' = [csrf EXCEPT ![home[f]] = "none"])
      /\ UNCHANGED <<home, sent, pages, kv, codes, spent, cb, session, grants, consumed, troubles>>
  BY <1>0 DEF Redirected, TypeOK, Homes, upstream
<1>2. /\ disturbed' \in [Flows -> BOOLEAN]
      /\ \A g \in Flows : disturbed[g] => disturbed'[g]
      /\ \A g \in Flows \ {f} : home[g] = home[f] /\ tab[g] = "workos" => disturbed'[g]
      /\ \A g \in Flows \ {f} : home[g] = home[f] /\ tab[g] = "consent" /\ f \in McpFlows =>
            disturbed'[g]
  BY <1>0 DEF Redirected, Disturb, Others, TypeOK
<1>3. TypeOK'
  BY <1>0, <1>1, <1>2 DEF TypeOK, Cookie
<1>4. Forward
  BY <1>0, <1>1, <1>2 DEF Forward, Early
<1>5. Homes'
  <2>1. \A g \in Flows : home'[g] = "none" <=> tab'[g] = "closed"
    BY <1>0, <1>1 DEF Homes
  <2> QED BY <1>0, <1>1, <1>3, <1>4, <2>1, HomesStay DEF Homes
<1>6. Cookies'
  <2>1. \A c \in Browsers : binding'[c] # "none" => home'[binding'[c]] = c
    BY <1>0, <1>1 DEF Cookies, TypeOK
  <2>2. \A g \in McpFlows : tab'[g] = "consent" => csrf'[home'[g]] = g \/ disturbed'[g]
    <3> SUFFICES ASSUME NEW g \in McpFlows, tab'[g] = "consent", ~ disturbed'[g]
                 PROVE  csrf'[home'[g]] = g
      OBVIOUS
    <3>1. g \in Flows /\ g # f /\ tab[g] = "consent" /\ home[g] \in Browsers
      BY <1>0, <1>1 DEF Flows, Homes, TypeOK
    <3> QED BY <1>0, <1>1, <1>2, <3>1 DEF Cookies, TypeOK
  <2>3. \A g \in McpFlows : tab'[g] = "posting" => sent'[g].cookie = g \/ disturbed'[g]
    BY <1>0, <1>1, <1>2 DEF Cookies, Flows
  <2>4. \A g \in Flows : tab'[g] = "workos" => binding'[home'[g]] = g \/ disturbed'[g]
    <3> SUFFICES ASSUME NEW g \in Flows, tab'[g] = "workos", ~ disturbed'[g]
                 PROVE  binding'[home'[g]] = g
      OBVIOUS
    <3>1. home[g] \in Browsers
      BY <1>0, <1>1 DEF Homes, TypeOK
    <3> QED BY <1>0, <1>1, <1>2, <3>1 DEF Cookies, TypeOK
  <2> QED BY <2>1, <2>2, <2>3, <2>4 DEF Cookies
<1>7. Entries'
  <2>1. \A g \in Flows : tab'[g] \in Early \cup {"redirect"} => tab[g] \in Early \cup {"redirect"}
    BY <1>1 DEF Early
  <2> QED BY <1>1, <1>3, <1>4, <2>1, EntriesRest
<1> QED BY <1>1, <1>3, <1>4, <1>5, <1>6, <1>7, SessionsStay, QuietKeeps

\* Everyone who opens a tab, fills in a form or is sent on.
LEMMA AuthorizeKeeps ==
  ASSUME SignInInv, AuthorizeNext
  PROVE  SignInInv'
BY ShowConsentKeeps, DemoLoginKeeps, PostConsentKeeps, RefuseKeeps, DenyKeeps, ParkKeeps,
   RedirectedKeeps
   DEF AuthorizeNext

\* A request is added to those there are.
LEMMA RequestIsAdded ==
  ASSUME TypeOK, NEW f \in Flows, NEW c \in 0..MaxCodes, NEW b \in Browsers,
         Len(cb) < MaxCallbacks, cb' = Append(cb, Request(f, c, b))
  PROVE  /\ cb' \in Seq(Callback) /\ Len(cb') <= MaxCallbacks
         /\ DOMAIN cb' = DOMAIN cb \cup {Len(cb) + 1} /\ Len(cb) + 1 \notin DOMAIN cb
         /\ \A i \in DOMAIN cb : cb'[i] = cb[i]
         /\ cb'[Len(cb) + 1] = Request(f, c, b)
<1> USE FlowsAssumption
<1>1. Request(f, c, b) \in Callback
  BY DEF Request, Callback, TypeOK
<1>2. cb \in Seq(Callback) /\ Len(cb) \in Nat
  BY LenProperties DEF TypeOK
<1>3. /\ cb' \in Seq(Callback) /\ Len(cb') = Len(cb) + 1
      /\ \A i \in 1..Len(cb) : cb'[i] = cb[i]
      /\ cb'[Len(cb) + 1] = Request(f, c, b)
  BY <1>1, <1>2, AppendProperties
<1>4. DOMAIN cb = 1..Len(cb) /\ DOMAIN cb' = 1..(Len(cb) + 1)
  BY <1>2, <1>3, LenProperties
<1> QED BY <1>2, <1>3, <1>4

\* The browser calls back, with its cookie of the moment.
LEMMA RequestKeeps ==
  ASSUME SignInInv, NEW f \in Flows, NEW c \in 0..MaxCodes, NEW b \in Browsers,
         Len(cb) < MaxCallbacks, cb' = Append(cb, Request(f, c, b)),
         tab[f] \notin Early \cup {"redirect"},
         UNCHANGED <<browser, spent, kv, grants, disturbed, consumed>>,
         codes' \in [Flows -> 0..MaxCodes], troubles' \in 0..MaxTroubles,
         c # 0 /\ binding[b] # f =>
           \/ disturbed[f] \/ b # home[f]
           \/ \E i \in DOMAIN cb : cb[i].flow = f /\ cb[i].code # 0
  PROVE  SignInInv'
<1> USE DEF browser
<1>0. TypeOK /\ Homes /\ Cookies /\ Entries
  BY DEF SignInInv
<1>1. PICK n :
        /\ cb' \in Seq(Callback) /\ Len(cb') <= MaxCallbacks
        /\ DOMAIN cb' = DOMAIN cb \cup {n} /\ n \notin DOMAIN cb
        /\ \A i \in DOMAIN cb : cb'[i] = cb[i]
        /\ cb'[n] = Request(f, c, b)
  BY <1>0, RequestIsAdded
<1>2. TypeOK'
  BY <1>0, <1>1 DEF TypeOK
<1>3. Forward
  BY <1>0, <1>1 DEF Forward
<1>4. Homes' /\ Cookies'
  BY <1>0 DEF Homes, Cookies
<1>5. Entries'
  <2>1. cb'[n].flow = f
    BY <1>1 DEF Request
  <2>2. ASSUME NEW g \in Flows, tab'[g] \in Early \cup {"redirect"}, NEW i \in DOMAIN cb'
        PROVE  cb'[i].flow # g
    <3>1. CASE i = n
      BY <2>1, <2>2, <3>1
    <3>2. CASE i # n
      BY <1>0, <1>1, <2>2, <3>2 DEF Entries
    <3> QED BY <3>1, <3>2
  <2> QED BY <1>2, <1>3, <2>2, EntriesStay
<1>6. Sound(n)'
  <2>1. /\ cb'[n].flow = f /\ cb'[n].code = c /\ cb'[n].browser = b /\ cb'[n].cookie = binding[b]
        /\ cb'[n].phase = "sent" /\ cb'[n].answer = "none"
        /\ cb'[n].late = (consumed[f] /\ kv[f] # "fading")
    BY <1>1 DEF Request
  <2>2. binding[b] # "none" => home[binding[b]] = b
    BY <1>0 DEF Cookies
  <2>3. consumed[f] /\ kv[f] # "fading" => kv[f] = "gone"
    BY <1>0 DEF Entries
  <2>4. ASSUME NEW i \in DOMAIN cb, cb[i].flow = f, cb[i].code # 0
        PROVE  Another(f, n, Phases)'
    <3>1. i \in DOMAIN cb' \ {n} /\ cb'[i] = cb[i] /\ cb[i] \in Callback
      BY <1>0, <1>1 DEF TypeOK
    <3>2. cb'[i].phase \in Phases
      BY <3>1 DEF Callback, Phases
    <3> QED BY <2>4, <3>1, <3>2 DEF Another
  <2>5. c # 0 /\ binding[b] # f =>
           disturbed'[f] \/ b # home'[f] \/ Another(f, n, Phases)'
    BY <2>4
  <2> QED BY <2>1, <2>2, <2>3, <2>5 DEF Sound
<1>7. \A i \in DOMAIN cb' : Sound(i)'
  BY <1>1, <1>2, <1>3, <1>6, SoundStays
<1> QED BY <1>2, <1>4, <1>5, <1>7, SessionsStay DEF SignInInv

\* WorkOS sends the browser back.
LEMMA WorkosReturnsKeeps ==
  ASSUME SignInInv, NEW f \in Flows, WorkosReturns(f)
  PROVE  SignInInv'
<1> USE FlowsAssumption
<1>0. /\ TypeOK /\ tab[f] = "workos" /\ Len(cb) < MaxCallbacks /\ home[f] \in Browsers
      /\ binding[home[f]] = f \/ disturbed[f]
      /\ UNCHANGED <<browser, spent, kv, grants, disturbed, consumed>>
      /\ codes[f] \in 0..MaxCodes /\ tab[f] \notin Early \cup {"redirect"}
  BY DEF SignInInv, WorkosReturns, Homes, Cookies, TypeOK, Early
<1>1. CASE /\ codes[f] < MaxCodes /\ codes' = [codes EXCEPT ![f] = @ + 1]
           /\ cb' = Append(cb, Request(f, codes[f] + 1, home[f])) /\ UNCHANGED troubles
  <2>1. codes[f] + 1 \in 0..MaxCodes
    BY <1>0, <1>1
  <2>2. codes' \in [Flows -> 0..MaxCodes] /\ troubles' \in 0..MaxTroubles
    BY <1>0, <1>1, <2>1 DEF TypeOK
  <2> QED BY <1>0, <1>1, <2>1, <2>2, RequestKeeps
<1>2. CASE Trouble /\ cb' = Append(cb, Request(f, 0, home[f])) /\ UNCHANGED codes
  <2>1. codes' \in [Flows -> 0..MaxCodes] /\ troubles' \in 0..MaxTroubles /\ 0 \in 0..MaxCodes
    BY <1>0, <1>2, TroubleCounts DEF TypeOK
  <2> QED BY <1>0, <1>2, <2>1, RequestKeeps
<1> QED BY <1>1, <1>2 DEF WorkosReturns

\* A callback is loaded again, or elsewhere.
LEMMA RepeatKeeps ==
  ASSUME SignInInv, NEW b \in Browsers, NEW i \in DOMAIN cb, Repeat(i, b)
  PROVE  SignInInv'
<1>1. /\ cb[i].flow \in Flows /\ cb[i].code \in 0..MaxCodes
      /\ tab[cb[i].flow] \notin Early \cup {"redirect"}
  BY Requested DEF Callback
<1>2. codes' \in [Flows -> 0..MaxCodes] /\ troubles' \in 0..MaxTroubles
      /\ UNCHANGED <<browser, spent, kv, grants, disturbed, consumed>>
  BY DEF Repeat, SignInInv, TypeOK, upstream
<1> QED BY <1>1, <1>2, RequestKeeps DEF Repeat

\* An entry changes by itself: a write arrives, or its time is over.
LEMMA EntryKeeps ==
  ASSUME SignInInv, NEW f \in Flows, UNCHANGED <<browser, upstream, cb, grants, consumed>>,
         troubles' \in 0..MaxTroubles,
         NEW k \in {"parked", "gone"}, kv' = [kv EXCEPT ![f] = k],
         disturbed' \in [Flows -> BOOLEAN], \A g \in Flows : disturbed[g] => disturbed'[g],
         \/ kv[f] = "spreading" /\ k = "parked"
         \/ kv[f] = "fading" /\ k = "gone"
         \/ kv[f] = "parked" /\ k = "gone" /\ disturbed'[f]
  PROVE  SignInInv'
<1> USE DEF browser, upstream
<1>0. TypeOK /\ Homes /\ Cookies /\ Entries
  BY DEF SignInInv
<1>1. kv'[f] = k /\ \A g \in Flows \ {f} : kv'[g] = kv[g]
  BY <1>0 DEF TypeOK
<1>2. TypeOK'
  BY <1>0 DEF TypeOK
<1>3. Forward
  BY <1>0, <1>1 DEF Forward
<1>4. Homes' /\ Cookies'
  BY <1>0 DEF Homes, Cookies, Flows
<1>5. Entries'
  <2> SUFFICES ASSUME NEW g \in Flows
               PROVE  /\ tab'[g] \in Early => kv'[g] = "absent" /\ ~ consumed'[g]
                      /\ tab'[g] \in Early \cup {"redirect"} =>
                            \A i \in DOMAIN cb' : cb'[i].flow # g
                      /\ consumed'[g] => kv'[g] \in {"fading", "gone"}
                      /\ kv'[g] \in {"fading", "gone"} =>
                            disturbed'[g] \/ Another(g, 0, Phases \ {"sent"})'
    BY DEF Entries
  <2>1. Another(g, 0, Phases \ {"sent"})' <=> Another(g, 0, Phases \ {"sent"})
    BY DEF Another
  <2> QED BY <1>0, <1>1, <2>1 DEF Entries
<1> QED BY <1>2, <1>3, <1>4, <1>5, SessionsStay, QuietKeeps

\* A write or a delete has reached every location.
LEMMA SpreadKeeps ==
  ASSUME SignInInv, NEW f \in Flows, Spread(f)
  PROVE  SignInInv'
BY EntryKeeps DEF Spread, SignInInv, TypeOK

\* The time of an entry is over.
LEMMA ExpireEntryKeeps ==
  ASSUME SignInInv, NEW f \in Flows, ExpireEntry(f)
  PROVE  SignInInv'
<1>0. TypeOK
  BY DEF SignInInv
<1>1. troubles' \in 0..MaxTroubles
  BY <1>0, TroubleCounts DEF ExpireEntry
<1>2. /\ disturbed' \in [Flows -> BOOLEAN] /\ disturbed'[f]
      /\ \A g \in Flows : disturbed[g] => disturbed'[g]
  BY <1>0 DEF ExpireEntry, TypeOK
<1> QED BY <1>1, <1>2, EntryKeeps DEF ExpireEntry

\* A cookie's time is over.
LEMMA ExpireCookieKeeps ==
  ASSUME SignInInv, NEW b \in Browsers, ExpireCookie(b)
  PROVE  SignInInv'
<1> USE FlowsAssumption DEF upstream
<1>0. TypeOK /\ Homes /\ Cookies /\ Entries /\ troubles' \in 0..MaxTroubles
      /\ UNCHANGED <<tab, home, sent, pages, session, upstream, kv, cb, grants, consumed>>
  BY TroubleCounts DEF SignInInv, ExpireCookie
<1>1. PICK f \in Flows :
        /\ disturbed' = [disturbed EXCEPT ![f] = TRUE]
        /\ \/ csrf[b] = f /\ csrf' = [csrf EXCEPT ![b] = "none"] /\ binding' = binding
           \/ binding[b] = f /\ binding' = [binding EXCEPT ![b] = "none"] /\ csrf' = csrf
  <2>1. csrf[b] # "none" => csrf[b] \in Flows
    BY <1>0 DEF TypeOK, Flows
  <2>2. binding[b] # "none" => binding[b] \in Flows
    BY <1>0 DEF TypeOK, Cookie
  <2> QED BY <2>1, <2>2 DEF ExpireCookie
<1>2. /\ disturbed' \in [Flows -> BOOLEAN] /\ disturbed'[f]
      /\ \A g \in Flows : disturbed[g] => disturbed'[g]
  BY <1>0, <1>1 DEF TypeOK
<1>3. TypeOK'
  BY <1>0, <1>1, <1>2 DEF TypeOK, Cookie
<1>4. Forward
  BY <1>0, <1>2 DEF Forward
<1>5. Homes'
  BY <1>0 DEF Homes
<1>6. Cookies'
  <2>1. \A c \in Browsers : binding'[c] # "none" => home'[binding'[c]] = c
    <3>1. \A c \in Browsers : binding'[c] = binding[c] \/ binding'[c] = "none"
      BY <1>0, <1>1 DEF TypeOK
    <3> QED BY <1>0, <3>1 DEF Cookies
  <2>2. \A g \in McpFlows : tab'[g] = "consent" => csrf'[home'[g]] = g \/ disturbed'[g]
    <3> SUFFICES ASSUME NEW g \in McpFlows, tab'[g] = "consent", ~ disturbed'[g]
                 PROVE  csrf'[home'[g]] = g
      OBVIOUS
    <3>1. g \in Flows /\ g # f /\ tab[g] = "consent" /\ home[g] \in Browsers
      BY <1>0, <1>2 DEF Flows, Homes, TypeOK
    <3> QED BY <1>0, <1>1, <1>2, <3>1 DEF Cookies, TypeOK
  <2>3. \A g \in McpFlows : tab'[g] = "posting" => sent'[g].cookie = g \/ disturbed'[g]
    BY <1>0, <1>2 DEF Cookies, Flows
  <2>4. \A g \in Flows : tab'[g] = "workos" => binding'[home'[g]] = g \/ disturbed'[g]
    <3> SUFFICES ASSUME NEW g \in Flows, tab'[g] = "workos", ~ disturbed'[g]
                 PROVE  binding'[home'[g]] = g
      OBVIOUS
    <3>1. home[g] \in Browsers /\ g # f
      BY <1>0, <1>2 DEF Homes, TypeOK
    <3> QED BY <1>0, <1>1, <1>2, <3>1 DEF Cookies, TypeOK
  <2> QED BY <2>1, <2>2, <2>3, <2>4 DEF Cookies
<1>7. Entries'
  <2>1. \A g \in Flows : tab'[g] \in Early \cup {"redirect"} => tab[g] \in Early \cup {"redirect"}
    BY <1>0
  <2> QED BY <1>0, <1>3, <1>4, <2>1, EntriesRest
<1> QED BY <1>0, <1>3, <1>4, <1>5, <1>6, <1>7, SessionsStay, QuietKeeps

\* WorkOS, the browser, the store and the clocks.
LEMMA WorldKeeps ==
  ASSUME SignInInv, WorldNext
  PROVE  SignInInv'
BY WorkosReturnsKeeps, SpreadKeeps, ExpireEntryKeeps, ExpireCookieKeeps, RepeatKeeps
   DEF WorldNext

\* Request i turns to phase p and answer x, and keeps all else.
Turns(i, p, x) ==
  /\ cb' \in Seq(Callback) /\ Len(cb') = Len(cb) /\ DOMAIN cb' = DOMAIN cb
  /\ \A j \in DOMAIN cb \ {i} : cb'[j] = cb[j]
  /\ cb'[i].flow = cb[i].flow /\ cb'[i].code = cb[i].code
  /\ cb'[i].browser = cb[i].browser /\ cb'[i].cookie = cb[i].cookie
  /\ cb'[i].late = cb[i].late /\ cb'[i].phase = p /\ cb'[i].answer = x

Answers == {"none", "noCode", "expired", "mismatch", "failed", "threw", "granted"}

\* A request is replaced by one that differs in its phase and its answer.
LEMMA Replaced ==
  ASSUME TypeOK, NEW i \in DOMAIN cb, NEW p \in Phases, NEW x \in Answers,
         cb' = [cb EXCEPT ![i] = [cb[i] EXCEPT !.phase = p, !.answer = x]]
  PROVE  Turns(i, p, x)
<1> DEFINE r == [cb[i] EXCEPT !.phase = p, !.answer = x]
<1>1. cb \in Seq(Callback) /\ DOMAIN cb = 1..Len(cb) /\ cb[i] \in Callback /\ i \in 1..Len(cb)
  BY LenProperties DEF TypeOK
<1>2. /\ r \in Callback
      /\ r.flow = cb[i].flow /\ r.code = cb[i].code /\ r.browser = cb[i].browser
      /\ r.cookie = cb[i].cookie /\ r.late = cb[i].late /\ r.phase = p /\ r.answer = x
  BY <1>1 DEF Callback, Phases, Answers
<1> HIDE DEF r
<1>3. cb' = [cb EXCEPT ![i] = r]
  BY DEF r
<1>4. /\ cb' \in Seq(Callback) /\ Len(cb') = Len(cb) /\ DOMAIN cb' = DOMAIN cb
      /\ cb'[i] = r /\ \A j \in 1..Len(cb) \ {i} : cb'[j] = cb[j]
  BY <1>1, <1>2, <1>3, ExceptSeq
<1> QED BY <1>1, <1>2, <1>4 DEF Turns

\* It takes its next step.
LEMMA TurnsOn ==
  ASSUME TypeOK, NEW i \in DOMAIN cb, NEW p \in Phases, cb' = [cb EXCEPT ![i].phase = p]
  PROVE  Turns(i, p, cb[i].answer)
<1>1. cb[i] \in Callback
  BY DEF TypeOK
<1>2. cb[i].answer \in Answers
  BY <1>1 DEF Callback, Answers
<1>3. [cb[i] EXCEPT !.phase = p] = [cb[i] EXCEPT !.phase = p, !.answer = cb[i].answer]
  BY <1>1 DEF Callback
<1> QED BY <1>1, <1>2, <1>3, Replaced

\* It is answered.
LEMMA IsAnswered ==
  ASSUME TypeOK, NEW i \in DOMAIN cb, NEW x \in Answers, Answer(i, x)
  PROVE  Turns(i, "answer", x)
BY Replaced DEF Answer, Phases

\* A callback takes nothing back.
LEMMA TurnForward ==
  ASSUME SignInInv, NEW i \in DOMAIN cb, NEW p \in Phases \ {"sent"}, NEW x, Turns(i, p, x),
         home' = home,
         \A f \in Flows : /\ tab'[f] = tab[f] \/ tab'[f] = "left"
                          /\ disturbed[f] => disturbed'[f]
                          /\ kv[f] = "gone" => kv'[f] = "gone"
                          /\ grants[f] \subseteq grants'[f]
  PROVE  Forward
BY DEF Forward, Turns, Early

\* What a request owes for the phase and the answer it turns to.
LEMMA SoundTurns ==
  ASSUME SignInInv, TypeOK', Forward, NEW i \in DOMAIN cb, NEW p \in Phases, NEW x \in Answers,
         Turns(i, p, x),
         p \in {"read", "exchange", "grant"} => cb[i].code # 0 /\ ~ cb[i].late,
         p \in {"exchange", "grant"} => cb[i].cookie = cb[i].flow,
         x = "granted" => \/ cb[i].answer = "granted"
                          \/ ~ cb[i].late /\ cb[i].browser \in grants'[cb[i].flow],
         x \in {"expired", "mismatch"} =>
           \/ cb[i].answer \in {"expired", "mismatch"}
           \/ disturbed'[cb[i].flow] \/ cb[i].browser # home[cb[i].flow]
           \/ Another(cb[i].flow, i, Phases)
  PROVE  Sound(i)'
<1>0. PICK f : f = cb[i].flow
  OBVIOUS
<1>1. /\ cb[i] \in Callback /\ f \in Flows /\ tab[f] \notin Early /\ home[f] # "none"
      /\ Sound(i)
  BY <1>0, Requested DEF SignInInv
<1>2. home'[f] = home[f] /\ (disturbed[f] => disturbed'[f]) /\ (kv[f] = "gone" => kv'[f] = "gone")
      /\ grants[f] \subseteq grants'[f]
  BY <1>1 DEF Forward
<1>3. Another(f, i, Phases) => Another(f, i, Phases)'
  BY AnotherStays
<1>4. cb[i].cookie # "none" => home'[cb[i].cookie] = cb[i].browser
  <2>1. cb[i].cookie # "none" => cb[i].cookie \in Flows /\ cb[i].browser \in Browsers
    BY <1>1 DEF Callback, Cookie
  <2> QED BY <1>1, <2>1, FlowsAssumption DEF Sound, Forward
<1>5. /\ cb'[i].flow = f /\ cb'[i].code = cb[i].code
      /\ cb'[i].browser = cb[i].browser /\ cb'[i].cookie = cb[i].cookie
      /\ cb'[i].late = cb[i].late /\ cb'[i].phase = p /\ cb'[i].answer = x
  BY <1>0 DEF Turns
<1>6. x = "granted" => ~ cb[i].late /\ cb[i].browser \in grants'[f]
  BY <1>0, <1>1, <1>2 DEF Sound
<1>7. x \in {"expired", "mismatch"} =>
         disturbed'[f] \/ cb[i].browser # home'[f] \/ Another(f, i, Phases)'
  BY <1>0, <1>1, <1>2, <1>3 DEF Sound
<1>8. cb[i].code # 0 /\ cb[i].cookie # f =>
         disturbed'[f] \/ cb[i].browser # home'[f] \/ Another(f, i, Phases)'
  BY <1>0, <1>1, <1>2, <1>3 DEF Sound
<1>9. cb[i].late => kv'[f] = "gone"
  BY <1>0, <1>1, <1>2 DEF Sound
<1> QED BY <1>0, <1>4, <1>5, <1>6, <1>7, <1>8, <1>9 DEF Sound, Another

\* A callback that keeps its hands off the entry, the cookies and the grants.
LEMMA TurnKeeps ==
  ASSUME SignInInv, NEW i \in DOMAIN cb, NEW p \in Phases \ {"sent"}, NEW x \in Answers,
         Turns(i, p, x),
         UNCHANGED <<browser, codes, kv, grants, consumed>>,
         spent' \in [Flows -> SUBSET (1..MaxCodes)], troubles' \in 0..MaxTroubles,
         disturbed' \in [Flows -> BOOLEAN], \A g \in Flows : disturbed[g] => disturbed'[g],
         p \in {"read", "exchange", "grant"} => cb[i].code # 0 /\ ~ cb[i].late,
         p \in {"exchange", "grant"} => cb[i].cookie = cb[i].flow,
         x = "granted" => cb[i].answer = "granted",
         x \in {"expired", "mismatch"} =>
           \/ cb[i].answer \in {"expired", "mismatch"}
           \/ disturbed'[cb[i].flow] \/ cb[i].browser # home[cb[i].flow]
           \/ Another(cb[i].flow, i, Phases)
  PROVE  SignInInv'
<1> USE DEF browser
<1>0. TypeOK /\ Homes /\ Cookies /\ Entries
  BY DEF SignInInv
<1>1. TypeOK'
  BY <1>0 DEF TypeOK, Turns
<1>2. Forward
  BY TurnForward
<1>3. Homes' /\ Cookies'
  BY <1>0 DEF Homes, Cookies, Flows
<1>4. Entries'
  <2>1. \A g \in Flows : tab'[g] \in Early \cup {"redirect"} => \A j \in DOMAIN cb' : cb'[j].flow # g
    BY <1>0 DEF Entries, Turns
  <2> QED BY <1>1, <1>2, <2>1, EntriesStay
<1>5. Sound(i)'
  BY <1>1, <1>2, SoundTurns
<1>6. \A j \in DOMAIN cb' : Sound(j)'
  BY <1>1, <1>2, <1>5, SoundStays DEF Turns
<1> QED BY <1>1, <1>3, <1>4, <1>6, SessionsStay DEF SignInInv

\* What the callbacks below start from.
LEMMA CallbackIs ==
  ASSUME SignInInv, NEW i \in DOMAIN cb
  PROVE  /\ TypeOK /\ Sound(i) /\ cb[i] \in Callback /\ cb[i].answer \in Answers
         /\ spent \in [Flows -> SUBSET (1..MaxCodes)] /\ troubles \in 0..MaxTroubles
         /\ disturbed \in [Flows -> BOOLEAN]
         /\ cb[i].flow \in Flows /\ cb[i].code \in 0..MaxCodes /\ cb[i].late \in BOOLEAN
         /\ cb[i].phase \in Phases
BY Requested DEF SignInInv, TypeOK, Callback, Answers, Phases

\* A callback without a code.
LEMMA NoCodeKeeps ==
  ASSUME SignInInv, NEW i \in DOMAIN cb, NoCode(i)
  PROVE  SignInInv'
<1>1. Turns(i, "answer", "noCode")
  BY CallbackIs, IsAnswered DEF NoCode, Answers
<1> QED BY <1>1, CallbackIs, TurnKeeps DEF NoCode, Answers, Phases, upstream

\* A request that is late finds no entry.
LEMMA ReadKeeps ==
  ASSUME SignInInv, NEW i \in DOMAIN cb, Read(i)
  PROVE  SignInInv'
<1>1. Turns(i, "read", cb[i].answer)
  BY CallbackIs, TurnsOn DEF Read, Phases
<1>2. cb[i].code # 0 /\ ~ cb[i].late
  BY CallbackIs DEF Read, Sound
<1>3. troubles' \in 0..MaxTroubles
  BY CallbackIs, TroubleCounts DEF Read
<1> QED BY <1>1, <1>2, <1>3, CallbackIs, TurnKeeps DEF Read, Phases, upstream

\* An entry that is not found has expired or was read by another request.
LEMMA MissKeeps ==
  ASSUME SignInInv, NEW i \in DOMAIN cb, Miss(i)
  PROVE  SignInInv'
<1>1. Turns(i, "answer", "expired")
  BY CallbackIs, IsAnswered DEF Miss, Answers
<1>2. troubles' \in 0..MaxTroubles
  BY CallbackIs, TroubleCounts DEF Miss
<1>3. disturbed' \in [Flows -> BOOLEAN] /\ \A g \in Flows : disturbed[g] => disturbed'[g]
  BY CallbackIs DEF Miss
<1>4. disturbed'[cb[i].flow] \/ Another(cb[i].flow, i, Phases)
  <2>1. CASE kv[cb[i].flow] \in {"fading", "gone"} /\ disturbed' = disturbed
    <3>1. disturbed[cb[i].flow] \/ Another(cb[i].flow, 0, Phases \ {"sent"})
      BY <2>1, CallbackIs DEF SignInInv, Entries
    <3>2. ASSUME NEW j \in DOMAIN cb, cb[j].flow = cb[i].flow, cb[j].code # 0,
                 cb[j].phase \in Phases \ {"sent"}
          PROVE  Another(cb[i].flow, i, Phases)
      BY <3>2 DEF Miss, At, Another
    <3> QED BY <2>1, <3>1, <3>2 DEF Another
  <2>2. CASE disturbed' = [disturbed EXCEPT ![cb[i].flow] = TRUE]
    BY <2>2, CallbackIs
  <2> QED BY <2>1, <2>2 DEF Miss
<1> QED BY <1>1, <1>2, <1>3, <1>4, CallbackIs, TurnKeeps DEF Miss, Answers, Phases, upstream

\* A code is exchanged, or it was, or the call fails.
LEMMA ExchangeKeeps ==
  ASSUME SignInInv, NEW i \in DOMAIN cb, Exchange(i)
  PROVE  SignInInv'
<1>1. /\ At(i, "exchange") /\ UNCHANGED <<browser, codes, kv, grants, disturbed, consumed>>
      /\ cb[i].code # 0 /\ ~ cb[i].late /\ cb[i].cookie = cb[i].flow
  BY CallbackIs DEF Exchange, Sound, At
<1>2. spent' \in [Flows -> SUBSET (1..MaxCodes)] /\ troubles' \in 0..MaxTroubles
  <2>1. cb[i].code \in 1..MaxCodes
    BY <1>1, CallbackIs, FlowsAssumption
  <2>2. \/ spent' = spent
        \/ spent' = [spent EXCEPT ![cb[i].flow] = spent[cb[i].flow] \cup {cb[i].code}]
    BY DEF Exchange
  <2>3. spent[cb[i].flow] \cup {cb[i].code} \in SUBSET (1..MaxCodes)
    BY <2>1, CallbackIs
  <2> QED BY <2>2, <2>3, CallbackIs, TroubleCounts DEF Exchange
<1>3. \/ Turns(i, "grant", cb[i].answer)
      \/ Turns(i, "answer", "failed")
      \/ Turns(i, "answer", "threw")
  <2>1. CASE cb' = [cb EXCEPT ![i].phase = "grant"]
    BY <2>1, CallbackIs, TurnsOn DEF Phases
  <2>2. CASE Answer(i, "failed") \/ Answer(i, "threw")
    BY <2>2, CallbackIs, IsAnswered DEF Answers
  <2> QED BY <2>1, <2>2 DEF Exchange
<1> QED BY <1>1, <1>2, <1>3, CallbackIs, TurnKeeps DEF Answers, Phases

\* A call that throws.
LEMMA ThrowKeeps ==
  ASSUME SignInInv, NEW i \in DOMAIN cb, Throw(i)
  PROVE  SignInInv'
<1>1. Turns(i, "answer", "threw")
  BY CallbackIs, IsAnswered DEF Throw, Answers
<1>2. troubles' \in 0..MaxTroubles
  BY CallbackIs, TroubleCounts DEF Throw
<1> QED BY <1>1, <1>2, CallbackIs, TurnKeeps DEF Throw, Answers, Phases, upstream

\* An answer that is lost.
LEMMA LoseAnswerKeeps ==
  ASSUME SignInInv, NEW i \in DOMAIN cb, LoseAnswer(i)
  PROVE  SignInInv'
<1>1. Turns(i, "over", cb[i].answer)
  BY CallbackIs, TurnsOn DEF LoseAnswer, Phases
<1>2. troubles' \in 0..MaxTroubles
  BY CallbackIs, TroubleCounts DEF LoseAnswer
<1> QED BY <1>1, <1>2, CallbackIs, TurnKeeps DEF LoseAnswer, Phases, upstream

\* The entry is deleted, by a request that others now follow.
LEMMA ConsumeKeeps ==
  ASSUME SignInInv, NEW i \in DOMAIN cb, Consume(i)
  PROVE  SignInInv'
<1> USE DEF browser, upstream
<1>0. TypeOK /\ Homes /\ Cookies /\ Entries
  BY DEF SignInInv
<1>1. PICK f \in Flows : f = cb[i].flow
  BY CallbackIs
<1>2. /\ At(i, "read") /\ cb[i].code # 0 /\ tab[f] \notin Early \cup {"redirect"}
      /\ kv' = [kv EXCEPT ![f] = Deleted(f)] /\ kv'[f] = Deleted(f)
      /\ consumed' = [consumed EXCEPT ![f] = TRUE]
      /\ \A g \in Flows \ {f} : kv'[g] = kv[g] /\ consumed'[g] = consumed[g]
      /\ UNCHANGED <<browser, upstream, grants, disturbed, troubles>>
  BY <1>0, <1>1, CallbackIs, Requested DEF Consume, Sound, At, TypeOK
<1>3. \/ cb[i].cookie = f /\ Turns(i, "exchange", cb[i].answer)
      \/ cb[i].cookie # f /\ Turns(i, "answer", "mismatch")
  <2>1. CASE cb[i].cookie = f
    BY <1>1, <2>1, CallbackIs, TurnsOn DEF Consume, BindingMatches, Phases
  <2>2. CASE cb[i].cookie # f
    BY <1>1, <2>2, CallbackIs, IsAnswered DEF Consume, BindingMatches, Answers
  <2> QED BY <2>1, <2>2
<1>4. PICK p \in {"exchange", "answer"} : \E x \in Answers : Turns(i, p, x)
  BY <1>3, CallbackIs DEF Answers
<1>5. TypeOK'
  <2>1. Deleted(f) \in {"gone", "fading"}
    BY DEF Deleted
  <2> QED BY <1>0, <1>2, <1>4, <2>1 DEF TypeOK, Turns
<1>6. Forward
  <2>1. \A g \in Flows : kv[g] = "gone" => kv'[g] = "gone"
    BY <1>2 DEF Deleted
  <2> QED BY <1>2, <1>4, <2>1, TurnForward DEF Phases
<1>7. Homes' /\ Cookies'
  BY <1>0, <1>2 DEF Homes, Cookies, Flows
<1>8. Entries'
  <2> SUFFICES ASSUME NEW g \in Flows
               PROVE  /\ tab'[g] \in Early => kv'[g] = "absent" /\ ~ consumed'[g]
                      /\ tab'[g] \in Early \cup {"redirect"} =>
                            \A j \in DOMAIN cb' : cb'[j].flow # g
                      /\ consumed'[g] => kv'[g] \in {"fading", "gone"}
                      /\ kv'[g] \in {"fading", "gone"} =>
                            disturbed'[g] \/ Another(g, 0, Phases \ {"sent"})'
    BY DEF Entries
  <2>1. Another(g, 0, Phases \ {"sent"}) => Another(g, 0, Phases \ {"sent"})'
    BY <1>5, <1>6, AnotherStays
  <2>2. \A j \in DOMAIN cb' : cb'[j].flow = cb[j].flow /\ j \in DOMAIN cb
    BY <1>4 DEF Turns
  <2>3. CASE g = f
    <3>1. i \in DOMAIN cb' \ {0} /\ cb'[i].flow = f /\ cb'[i].code # 0
          /\ cb'[i].phase \in Phases \ {"sent"}
      <4>1. i # 0
        BY <1>0, LenProperties DEF TypeOK
      <4> QED BY <1>1, <1>2, <1>4, <4>1 DEF Turns, Phases
    <3>2. Another(f, 0, Phases \ {"sent"})'
      BY <3>1 DEF Another
    <3> QED BY <1>2, <2>3, <3>2 DEF Deleted
  <2>4. CASE g # f
    BY <1>0, <1>2, <2>1, <2>2, <2>4 DEF Entries
  <2> QED BY <2>3, <2>4
<1>9. Sound(i)'
  <2>1. cb[i].code # 0 /\ ~ cb[i].late /\ (cb[i].answer = "granted" \/ cb[i].answer # "granted")
    BY <1>2, CallbackIs DEF Sound, At
  <2>2. cb[i].cookie # f => \/ disturbed'[cb[i].flow] \/ cb[i].browser # home[cb[i].flow]
                            \/ Another(cb[i].flow, i, Phases)
    BY <1>1, <1>2, CallbackIs DEF Sound
  <2>3. CASE cb[i].cookie = f /\ Turns(i, "exchange", cb[i].answer)
    BY <1>1, <1>5, <1>6, <2>1, <2>3, CallbackIs, SoundTurns DEF Phases
  <2>4. CASE cb[i].cookie # f /\ Turns(i, "answer", "mismatch")
    BY <1>1, <1>5, <1>6, <2>2, <2>4, CallbackIs, SoundTurns DEF Phases, Answers
  <2> QED BY <1>3, <2>3, <2>4
<1>10. \A j \in DOMAIN cb' : Sound(j)'
  BY <1>4, <1>5, <1>6, <1>9, SoundStays DEF Turns
<1> QED BY <1>2, <1>5, <1>7, <1>8, <1>10, SessionsStay DEF SignInInv

\* What is granted goes to the browser of the cookie, the flow's own.
LEMMA GrantKeeps ==
  ASSUME SignInInv, NEW i \in DOMAIN cb, Grant(i)
  PROVE  SignInInv'
<1> USE DEF browser, upstream
<1>0. TypeOK /\ Homes /\ Cookies /\ Entries /\ Sessions
  BY DEF SignInInv
<1>1. PICK f \in Flows, b \in Browsers : f = cb[i].flow /\ b = cb[i].browser
  BY CallbackIs DEF Callback
<1>2. /\ At(i, "grant") /\ Turns(i, "answer", "granted") /\ ~ cb[i].late
      /\ b = home[f] /\ grants[f] \subseteq {b}
      /\ grants' = [grants EXCEPT ![f] = grants[f] \cup {b}]
      /\ UNCHANGED <<browser, upstream, kv, disturbed, consumed, troubles>>
  <2>1. Turns(i, "answer", "granted")
    BY CallbackIs, IsAnswered DEF Grant, Answers
  <2>2. b = home[f]
    BY <1>1, CallbackIs, FlowsAssumption DEF Grant, At, Sound
  <2> QED BY <1>0, <1>1, <2>1, <2>2, CallbackIs DEF Grant, At, Sound, Homes
<1>3. /\ grants' \in [Flows -> SUBSET Browsers] /\ grants'[f] = {b}
      /\ \A g \in Flows \ {f} : grants'[g] = grants[g]
  BY <1>0, <1>2 DEF TypeOK
<1>4. TypeOK'
  BY <1>0, <1>2, <1>3 DEF TypeOK, Turns
<1>5. Forward
  BY <1>2, <1>3, TurnForward DEF Phases
<1>6. Homes' /\ Cookies'
  BY <1>0, <1>2, <1>3 DEF Homes, Cookies, Flows
<1>7. Entries'
  <2>1. \A g \in Flows : tab'[g] \in Early \cup {"redirect"} => \A j \in DOMAIN cb' : cb'[j].flow # g
    BY <1>0, <1>2 DEF Entries, Turns
  <2> QED BY <1>2, <1>4, <1>5, <2>1, EntriesStay
<1>8. Sessions'
  <2>1. \A g \in Flows, c \in Browsers : grants[g] = {c} => grants'[g] = {c}
    BY <1>2, <1>3
  <2> QED BY <1>0, <1>2, <2>1 DEF Sessions, Flows
<1>9. Sound(i)'
  BY <1>1, <1>2, <1>3, <1>4, <1>5, SoundTurns DEF Phases, Answers
<1>10. \A j \in DOMAIN cb' : Sound(j)'
  BY <1>2, <1>4, <1>5, <1>9, SoundStays DEF Turns
<1> QED BY <1>4, <1>6, <1>7, <1>8, <1>10 DEF SignInInv

\* The answer arrives with its cookies.
LEMMA ArriveKeeps ==
  ASSUME SignInInv, NEW i \in DOMAIN cb, Arrive(i)
  PROVE  SignInInv'
<1> USE FlowsAssumption DEF upstream
<1>0. TypeOK /\ Homes /\ Cookies /\ Entries /\ Sessions
  BY DEF SignInInv
<1>1. PICK f \in Flows, b \in Browsers : f = cb[i].flow /\ b = cb[i].browser
  BY CallbackIs DEF Callback
<1>2. /\ Turns(i, "over", cb[i].answer)
      /\ UNCHANGED <<home, sent, pages, csrf, upstream, kv, grants, consumed, troubles>>
  BY CallbackIs, TurnsOn DEF Arrive, Phases
<1>3. /\ tab' \in [Flows -> {"closed", "consent", "posting", "parking", "redirect", "retry", "workos",
                            "left"}]
      /\ \A g \in Flows : tab'[g] = tab[g] \/ (tab[g] = "workos" /\ tab'[g] = "left")
  BY <1>0, <1>1 DEF Arrive, TypeOK
<1>4. /\ disturbed' \in [Flows -> BOOLEAN] /\ \A g \in Flows : disturbed[g] => disturbed'[g]
      /\ binding' \in [Browsers -> Cookie] /\ \A c \in Browsers \ {b} : binding'[c] = binding[c]
      /\ \/ binding'[b] = binding[b]
         \/ /\ binding'[b] = "none"
            /\ \A g \in Flows : home[g] = b /\ tab[g] = "workos" => disturbed'[g]
  <2>1. CASE ClearsBinding(cb[i].answer)
    <3>1. binding' = [binding EXCEPT ![b] = "none"]
      BY <1>1, <2>1 DEF Arrive
    <3>2. \A g \in Flows :
            disturbed'[g] = (disturbed[g] \/ (home[g] = b /\ tab[g] = "workos"))
      BY <1>1, <2>1 DEF Arrive
    <3> QED BY <1>0, <3>1, <3>2, <2>1, <1>1 DEF Arrive, TypeOK, Cookie
  <2>2. CASE ~ ClearsBinding(cb[i].answer)
    BY <1>0, <1>1, <2>2 DEF Arrive, TypeOK
  <2> QED BY <2>1, <2>2
<1>5. /\ session' \in [Browsers -> BOOLEAN] /\ \A c \in Browsers \ {b} : session'[c] = session[c]
      /\ session'[b] => session[b] \/ (cb[i].answer = "granted" /\ f \in DemoFlows)
  BY <1>0, <1>1 DEF Arrive, TypeOK
<1>6. TypeOK'
  BY <1>0, <1>2, <1>3, <1>4, <1>5 DEF TypeOK, Turns
<1>7. Forward
  BY <1>2, <1>3, <1>4, TurnForward DEF Phases
<1>8. Homes'
  BY <1>0, <1>2, <1>3 DEF Homes
<1>9. Cookies'
  <2>1. \A c \in Browsers : binding'[c] # "none" => home'[binding'[c]] = c
    BY <1>0, <1>2, <1>4 DEF Cookies
  <2>2. \A g \in McpFlows : tab'[g] = "consent" => csrf'[home'[g]] = g \/ disturbed'[g]
    BY <1>0, <1>2, <1>3, <1>4 DEF Cookies, Flows
  <2>3. \A g \in McpFlows : tab'[g] = "posting" => sent'[g].cookie = g \/ disturbed'[g]
    BY <1>0, <1>2, <1>3, <1>4 DEF Cookies, Flows
  <2>4. \A g \in Flows : tab'[g] = "workos" => binding'[home'[g]] = g \/ disturbed'[g]
    <3> SUFFICES ASSUME NEW g \in Flows, tab'[g] = "workos", ~ disturbed'[g]
                 PROVE  binding'[home'[g]] = g
      OBVIOUS
    <3>1. tab[g] = "workos" /\ home[g] \in Browsers
      BY <1>0, <1>3 DEF Homes, TypeOK
    <3> QED BY <1>0, <1>2, <1>4, <3>1 DEF Cookies
  <2> QED BY <2>1, <2>2, <2>3, <2>4 DEF Cookies
<1>10. Entries'
  <2>1. \A g \in Flows : tab'[g] \in Early \cup {"redirect"} => \A j \in DOMAIN cb' : cb'[j].flow # g
    BY <1>0, <1>2, <1>3 DEF Entries, Turns, Early
  <2> QED BY <1>2, <1>6, <1>7, <2>1, EntriesStay
<1>11. Sessions'
  <2>1. cb[i].answer = "granted" => grants[f] = {b}
    BY <1>0, <1>1, CallbackIs DEF Sound, Homes
  <2> QED BY <1>0, <1>2, <1>5, <2>1 DEF Sessions
<1>12. Sound(i)'
  BY <1>2, <1>6, <1>7, CallbackIs, SoundTurns DEF Phases
<1>13. \A j \in DOMAIN cb' : Sound(j)'
  BY <1>2, <1>6, <1>7, <1>12, SoundStays DEF Turns
<1> QED BY <1>6, <1>8, <1>9, <1>10, <1>11, <1>13 DEF SignInInv

\* Every step of completeCallback.
LEMMA CallbackKeeps ==
  ASSUME SignInInv, CallbackNext
  PROVE  SignInInv'
BY NoCodeKeeps, ReadKeeps, MissKeeps, ConsumeKeeps, ExchangeKeeps, GrantKeeps, ThrowKeeps,
   ArriveKeeps, LoseAnswerKeeps
   DEF CallbackNext

\* Every step of the sign-in keeps its invariant.
LEMMA SignInKeeps ==
  ASSUME SignInInv, SignInNext
  PROVE  SignInInv'
BY AuthorizeKeeps, WorldKeeps, CallbackKeeps DEF SignInNext

\* Sessions may end and troubles be met at any time.
LEMMA SessionsMayEnd ==
  ASSUME SignInInv,
         UNCHANGED <<tab, home, sent, pages, csrf, binding, kv, codes, spent, cb, grants,
                     disturbed, consumed>>,
         session' \in [Browsers -> BOOLEAN], \A b \in Browsers : session'[b] => session[b],
         troubles' \in 0..MaxTroubles
  PROVE  SignInInv'
<1>0. TypeOK /\ Homes /\ Cookies /\ Entries /\ Sessions
  BY DEF SignInInv
<1>1. TypeOK'
  BY <1>0 DEF TypeOK
<1>2. Forward
  BY <1>0 DEF Forward
<1>3. Homes' /\ Cookies' /\ Sessions'
  BY <1>0 DEF Homes, Cookies, Sessions
<1>4. Entries'
  BY <1>0, <1>1, <1>2, EntriesRest
<1> QED BY <1>1, <1>2, <1>3, <1>4, QuietKeeps

\* So an hour's chats disturb no sign-in.
LEMMA ChatsDisturbNothing ==
  ASSUME SignInInv,
         \/ \E b \in Browsers : ExpireSession(b) \/ \E c \in Chats : AskChat(c, b)
         \/ \E c \in Chats : AllowChat(c) \/ FailChat(c)
         \/ UNCHANGED vars
  PROVE  SignInInv'
<1>0. TypeOK /\ session \in [Browsers -> BOOLEAN] /\ troubles \in 0..MaxTroubles
  BY DEF SignInInv, TypeOK
<1>1. CASE UNCHANGED vars
  BY <1>0, <1>1, SessionsMayEnd DEF vars
<1>2. ASSUME NEW b \in Browsers, ExpireSession(b)
      PROVE  SignInInv'
  <2>1. session' \in [Browsers -> BOOLEAN] /\ \A c \in Browsers : session'[c] => session[c]
    BY <1>0, <1>2 DEF ExpireSession
  <2> QED BY <1>0, <1>2, <2>1, TroubleCounts, SessionsMayEnd DEF ExpireSession, upstream
<1>3. CASE Trouble /\ UNCHANGED <<browser, upstream, kv, cb, grants, disturbed, consumed>>
  BY <1>0, <1>3, TroubleCounts, SessionsMayEnd DEF upstream, browser
<1>4. ASSUME NEW c \in Chats, NEW b \in Browsers, AskChat(c, b)
      PROVE  SignInInv'
  BY <1>1, <1>3, <1>4 DEF AskChat
<1>5. ASSUME NEW c \in Chats, FailChat(c)
      PROVE  SignInInv'
  BY <1>3, <1>5 DEF FailChat
<1>6. ASSUME NEW c \in Chats, AllowChat(c)
      PROVE  SignInInv'
  BY <1>1, <1>6 DEF AllowChat
<1> QED BY <1>1, <1>2, <1>4, <1>5, <1>6

\* What the throttle remembers.
Throttle ==
  /\ chat \in [Chats -> Counts] /\ count \in Counts /\ earlier \subseteq Counts
  /\ allowed \in 0..MaxAllowed /\ stale \in Nat

\* A put raises the counter, or it is on a stale count and takes back the cap at
\* most: either way it pays for one chat.
LEMMA PutCountPays ==
  ASSUME Throttle, Paid, NEW c \in Chats, chat[c] # Idle, PutCount(c)
  PROVE  /\ count' \in Counts /\ earlier' \subseteq Counts /\ stale' \in Nat
         /\ allowed + 1 <= count' + ChatsPerHour * stale'
         /\ allowed <= count' + ChatsPerHour * stale'
<1> USE ChatsAssumption
<1>1. /\ ChatsPerHour \in Nat /\ count \in 0..ChatsPerHour /\ allowed \in Nat /\ stale \in Nat
      /\ chat[c] \in Nat /\ chat[c] + 1 \in 0..ChatsPerHour /\ count' = chat[c] + 1
  BY DEF Throttle, Counts, Idle, PutCount
<1>2. earlier' \subseteq Counts
  BY DEF Throttle, PutCount
<1>3. allowed <= count + ChatsPerHour * stale
  BY DEF Paid
<1>4. ChatsPerHour * stale \in Nat /\ ChatsPerHour * (stale + 1) = ChatsPerHour * stale + ChatsPerHour
  BY <1>1
<1>5. CASE chat[c] < count
  <2>1. stale' = stale + 1
    BY <1>5 DEF PutCount
  <2>2. /\ allowed + 1 <= count' + (ChatsPerHour * stale + ChatsPerHour)
        /\ allowed <= count' + (ChatsPerHour * stale + ChatsPerHour)
    <3> HIDE ChatsAssumption
    <3> DEFINE k == ChatsPerHour * stale
    <3> HIDE DEF k
    <3>1. k \in Nat /\ allowed <= count + k
      BY <1>3, <1>4 DEF k
    <3>2. allowed + 1 <= count' + (k + ChatsPerHour)
      BY <1>1, <3>1
    <3>3. allowed <= count' + (k + ChatsPerHour)
      BY <1>1, <3>1, <3>2
    <3> QED BY <3>2, <3>3 DEF k
  <2> QED BY <1>1, <1>2, <1>4, <2>1, <2>2 DEF Counts
<1>6. CASE ~ (chat[c] < count)
  <2>1. stale' = stale
    BY <1>6 DEF PutCount
  <2>2. allowed + 1 <= count' + ChatsPerHour * stale /\ allowed <= count' + ChatsPerHour * stale
    BY <1>1, <1>3, <1>4, <1>6
  <2> QED BY <1>1, <1>2, <2>1, <2>2 DEF Counts
<1> QED BY <1>5, <1>6

\* Every step keeps the throttle's types and what pays for its chats.
LEMMA ThrottleKeeps ==
  ASSUME AccessInv, [AccessNext]_accessVars
  PROVE  Throttle' /\ Paid'
<1> USE ChatsAssumption
<1>0. Throttle /\ Paid
  BY DEF AccessInv, AccessTypeOK, Throttle
<1>1. CASE UNCHANGED chatVars
  BY <1>0, <1>1 DEF chatVars, Throttle, Paid
<1>2. ASSUME NEW c \in Chats, NEW b \in Browsers, AskChat(c, b)
      PROVE  Throttle' /\ Paid'
  <2>1. PICK n \in earlier \cup {count} : chat' = [chat EXCEPT ![c] = n]
    BY <1>2 DEF AskChat
  <2>2. n \in Counts
    BY <1>0 DEF Throttle
  <2>3. chat' \in [Chats -> Counts]
    BY <1>0, <2>1, <2>2 DEF Throttle
  <2> QED BY <1>0, <1>2, <2>3 DEF AskChat, Throttle, Paid, Counts
<1>3. ASSUME NEW c \in Chats, AllowChat(c)
      PROVE  Throttle' /\ Paid'
  <2>1. /\ count' \in Counts /\ earlier' \subseteq Counts /\ stale' \in Nat
        /\ allowed + 1 <= count' + ChatsPerHour * stale'
    BY <1>0, <1>3, PutCountPays DEF AllowChat
  <2>2. chat' \in [Chats -> Counts]
    BY <1>0, <1>3 DEF AllowChat, Throttle, Idle, Counts
  <2>3. allowed' = allowed + 1 /\ allowed' \in 0..MaxAllowed
    BY <1>0, <1>3 DEF AllowChat, Throttle
  <2> QED BY <2>1, <2>2, <2>3 DEF Throttle, Paid, Counts
<1>4. ASSUME NEW c \in Chats, FailChat(c)
      PROVE  Throttle' /\ Paid'
  <2>1. chat' \in [Chats -> Counts] /\ allowed' = allowed /\ allowed \in 0..MaxAllowed
    BY <1>0, <1>4 DEF FailChat, Throttle, Idle, Counts
  <2>2. CASE UNCHANGED <<count, earlier, stale>>
    BY <1>0, <2>1, <2>2 DEF Throttle, Paid, Counts
  <2>3. CASE PutCount(c)
    <3>1. /\ count' \in Counts /\ earlier' \subseteq Counts /\ stale' \in Nat
          /\ allowed <= count' + ChatsPerHour * stale'
      BY <1>0, <1>4, <2>3, PutCountPays DEF FailChat
    <3> QED BY <2>1, <3>1 DEF Throttle, Paid, Counts
  <2> QED BY <1>4, <2>2, <2>3 DEF FailChat
<1> QED BY <1>1, <1>2, <1>3, <1>4 DEF AccessNext, accessVars, ExpireSession, chatVars

\* Who reaches a chat and how many: the invariant of the sign-in and of the
\* throttle, for every reachable state.
THEOREM AccessInvariant == AccessSpec => []AccessInv
<1>1. AccessInit => AccessInv
  <2> SUFFICES ASSUME AccessInit PROVE AccessInv
    OBVIOUS
  <2> USE FlowsAssumption, ChatsAssumption DEF AccessInit, Init
  <2>1. cb \in Seq(Callback) /\ Len(cb) = 0 /\ DOMAIN cb = {}
    BY EmptySeq DEF Callback
  <2>2. TypeOK
    BY <2>1 DEF TypeOK, NothingSent, Cookie
  <2>3. SignInInv
    BY <2>1, <2>2 DEF SignInInv, Homes, Cookies, Entries, Sessions, Early, Flows
  <2>4. AccessTypeOK
    BY <2>2 DEF AccessTypeOK, Idle, Counts
  <2>5. Paid
    BY DEF Paid
  <2> QED BY <2>3, <2>4, <2>5 DEF AccessInv
<1>2. AccessInv /\ [AccessNext]_accessVars => AccessInv'
  <2> SUFFICES ASSUME AccessInv, [AccessNext]_accessVars PROVE AccessInv'
    OBVIOUS
  <2>1. SignInInv'
    BY SignInKeeps, ChatsDisturbNothing DEF AccessInv, AccessNext, accessVars
  <2> QED BY <2>1, ThrottleKeeps DEF AccessInv, AccessTypeOK, SignInInv, Throttle, Counts
<1> QED BY <1>1, <1>2, PTL DEF AccessSpec

\* The types of the sign-in and of the throttle.
THEOREM AccessTypeCorrect == AccessSpec => []AccessTypeOK
<1>1. AccessInv => AccessTypeOK
  BY DEF AccessInv
<1> QED BY <1>1, AccessInvariant, PTL

\* A grant or a session goes only to the browser that the sign-in was started
\* in (workos.ts:267-270), whoever loads the callback's address.
THEOREM GrantGoesHomeHolds == AccessSpec => []GrantGoesHome
<1>1. AccessInv => GrantGoesHome
  <2> SUFFICES ASSUME AccessInv PROVE GrantGoesHome
    OBVIOUS
  <2>1. TypeOK /\ Homes /\ Sessions
    BY DEF AccessInv, SignInInv
  <2>2. \A f \in McpFlows : grants[f] # {} => pages[f] > 0
    BY <2>1, FlowsAssumption DEF Homes, TypeOK, Flows
  <2> QED BY <2>1, <2>2 DEF GrantGoesHome, Homes, Sessions
<1> QED BY <1>1, AccessInvariant, PTL

\* A callback that is sent after the entry's delete is seen everywhere is
\* never granted anything (workos.ts:260).
THEOREM SingleUseHolds == AccessSpec => []SingleUse
<1>1. AccessInv => SingleUse
  BY DEF AccessInv, SignInInv, SingleUse, Sound
<1> QED BY <1>1, AccessInvariant, PTL

\* A consent form or a callback is refused for its cookie or its state only
\* when another sign-in, a repeat, a clock or the store interfered.
THEOREM OnlyThatInterferesHolds == AccessSpec => []OnlyThatInterferes
<1>1. AccessInv => OnlyThatInterferes
  BY DEF AccessInv, SignInInv, Cookies, OnlyThatInterferes, Sound, Another
<1> QED BY <1>1, AccessInvariant, PTL

\* The throttle (budget.ts:146-152) lets the cap through in an hour, and the
\* cap once more at most for every chat that wrote on a stale count.
THEOREM ThrottleOverrunHolds == AccessSpec => []ThrottleOverrun
<1>1. AccessInv => ThrottleOverrun
  <2> SUFFICES ASSUME AccessInv PROVE ThrottleOverrun
    OBVIOUS
  <2>1. /\ ChatsPerHour \in Nat /\ count \in 0..ChatsPerHour /\ allowed \in Nat /\ stale \in Nat
        /\ allowed <= count + ChatsPerHour * stale
    BY ChatsAssumption DEF AccessInv, AccessTypeOK, Counts, Paid
  <2>2. ChatsPerHour * (1 + stale) = ChatsPerHour + ChatsPerHour * stale
        /\ ChatsPerHour * stale \in Nat
    BY <2>1
  <2> QED BY <2>1, <2>2 DEF ThrottleOverrun
<1> QED BY <1>1, AccessInvariant, PTL
=============================================================================
