---------------------- MODULE PlaygroundAccess ----------------------
(***************************************************************************)
(* Who reaches a chat of the playground: the sign-in of SignIn.tla, the    *)
(* session check of handleDemoChat (src/src/demo/chat.ts) and the hourly   *)
(* throttle of demoThrottle (src/src/demo/budget.ts), a counter in the     *)
(* same key-value store that is read and then written, without a compare.  *)
(*                                                                         *)
(* One subject and one hour; both browsers are signed in as that subject.  *)
(* The store is that of SignIn, eventually consistent: a read that is late *)
(* returns any count of the hour that was written before the last one.     *)
(***************************************************************************)
EXTENDS SignIn

CONSTANTS
    Chats,          \* the chats of one subject that may be under way at once
    ChatsPerHour,   \* DEMO_CAPS.chatsPerHour
    MaxAllowed      \* bound: chats allowed before the model stops

ASSUME ChatsAssumption ==
    /\ ChatsPerHour \in Nat \ {0}
    /\ MaxAllowed \in Nat

VARIABLES
    chat,       \* per chat: idle, or the count it read and has to write on
    count,      \* demo-throttle:<subject>:<hour> as it was last written, or 0
    earlier,    \* the counts before it, which a late read may still return
    allowed,    \* history: chats the throttle let through
    stale       \* history: writes on a count that was no longer the last one

chatVars == <<chat, count, earlier, allowed, stale>>
accessVars == <<vars, chatVars>>

Idle == ChatsPerHour
Counts == 0..ChatsPerHour

AccessTypeOK ==
    /\ TypeOK
    /\ chat \in [Chats -> Counts]
    /\ count \in Counts
    /\ earlier \subseteq Counts
    /\ allowed \in 0..MaxAllowed
    /\ stale \in Nat

AccessInit ==
    /\ Init
    /\ chat = [c \in Chats |-> Idle]
    /\ count = 0
    /\ earlier = {}
    /\ allowed = 0
    /\ stale = 0

\* handleDemoChat up to the throttle's read: the session cookie is valid and
\* the body parses; a count at the cap is refused with 429.
AskChat(c, b) ==
    /\ session[b]
    /\ chat[c] = Idle
    /\ \/ chat' = [chat EXCEPT ![c] = count] /\ UNCHANGED vars
       \/ /\ \E n \in earlier : chat' = [chat EXCEPT ![c] = n]
          /\ Trouble
          /\ UNCHANGED <<browser, upstream, kv, cb, grants, disturbed, consumed>>
    /\ chat'[c] < ChatsPerHour
    /\ UNCHANGED <<count, earlier, allowed, stale>>

\* Mutant: the throttle writes back what it read.
PutCountUnchanged(c) ==
    /\ count' = chat[c]
    /\ earlier' = earlier \cup {count}
    /\ stale' = IF chat[c] < count THEN stale + 1 ELSE stale

\* The throttle's put: one more than what was READ, whatever the count is now.
PutCount(c) ==
    /\ count' = chat[c] + 1
    /\ earlier' = earlier \cup {count}
    /\ stale' = IF chat[c] < count THEN stale + 1 ELSE stale

\* The put is done and the chat goes on.
AllowChat(c) ==
    /\ chat[c] # Idle
    /\ allowed < MaxAllowed
    /\ PutCount(c)
    /\ allowed' = allowed + 1
    /\ chat' = [chat EXCEPT ![c] = Idle]
    /\ UNCHANGED vars

\* The put throws, written or not: the request ends with an error.
FailChat(c) ==
    /\ chat[c] # Idle
    /\ Trouble
    /\ PutCount(c) \/ UNCHANGED <<count, earlier, stale>>
    /\ chat' = [chat EXCEPT ![c] = Idle]
    /\ UNCHANGED <<browser, upstream, kv, cb, grants, disturbed, consumed, allowed>>

\* The session ends, two hours after it began.
ExpireSession(b) ==
    /\ session[b]
    /\ Trouble
    /\ session' = [session EXCEPT ![b] = FALSE]
    /\ UNCHANGED <<tab, home, sent, pages, csrf, binding, kv, upstream, cb,
                   grants, disturbed, consumed, chatVars>>

AccessNext ==
    \/ SignInNext /\ UNCHANGED chatVars
    \/ \E b \in Browsers : ExpireSession(b) \/ \E c \in Chats : AskChat(c, b)
    \/ \E c \in Chats : AllowChat(c) \/ FailChat(c)

AccessSpec == AccessInit /\ [][AccessNext]_accessVars

-----------------------------------------------------------------------------
(* Properties. *)

\* "Racy by design (read-then-write, no CAS)" (budget.ts:146-152): the cap is
\* passed only through chats that wrote on a stale count, because another one
\* wrote between their read and their write or because the store lagged, and
\* each of them costs at most the cap once more, since it takes back what was
\* counted meanwhile.  However many chats overlap.
ThrottleOverrun == allowed <= ChatsPerHour * (1 + stale)

\* "concurrent requests in the same hour can both read the same count and
\* both be allowed, overrunning `chatsPerHour` by a small margin"
\* (budget.ts:149-151): a stale chat would cost itself and no more.  It does
\* not hold: one that is held between its read and its write sets the counter
\* back by all that others counted in between.
SmallMargin == allowed <= ChatsPerHour + stale

-----------------------------------------------------------------------------
(* Why the throttle overruns by no more: a chat that is allowed raises the *)
(* counter, unless its count was stale, and the counter is at most the cap. *)
Paid == allowed <= count + ChatsPerHour * stale

AccessInv == AccessTypeOK /\ SignInInv /\ Paid
=============================================================================
