---------------------------- MODULE PinnedReads ----------------------------
(***************************************************************************)
(* What the skill source promises its callers (src/skills/README.md and    *)
(* the header of src/skills/source.ts), with the memo, the colo cache, the *)
(* network and the deadline left out.  Per pinned identity there is one    *)
(* shelf: it is being filled by at most one retrieval, a failed retrieval  *)
(* leaves it absent, and once ready it stays ready.  A serving read is     *)
(* answered with the pinned body from a ready shelf or with an error; a    *)
(* canary read does not touch the shelf.                                   *)
(***************************************************************************)
CONSTANTS
  Calls,     \* reads
  Keys,      \* pinned identities
  KeyOf,     \* KeyOf[p]: the identity of pin p
  TextOf,    \* TextOf[p]: the scrubbed text of the body pin p names
  NoText     \* nothing returned yet

VARIABLES
  pin,     \* pin[c]: the pin read c asks for
  probe,   \* probe[c]: c is a canary read
  shelf,   \* shelf[k]: "absent", "loading" or "ready"
  answer,  \* answer[c]: how read c ended
  got      \* got[c]: the text read c returned

args == <<pin, probe>>
vars == <<pin, probe, shelf, answer, got>>

Init ==
  /\ shelf = [k \in Keys |-> "absent"]
  /\ answer = [c \in Calls |-> "none"]
  /\ got = [c \in Calls |-> NoText]

Move(k, before, after) ==
  /\ shelf[k] = before
  /\ shelf' = [shelf EXCEPT ![k] = after]
  /\ UNCHANGED <<args, answer, got>>

Retrieve(k) == Move(k, "absent", "loading")
Fail(k)     == Move(k, "loading", "absent")
Fill(k)     == Move(k, "loading", "ready")

Serve(c) ==
  /\ answer[c] = "none"
  /\ probe[c] \/ shelf[KeyOf[pin[c]]] = "ready"
  /\ answer' = [answer EXCEPT ![c] = "text"]
  /\ got' = [got EXCEPT ![c] = TextOf[pin[c]]]
  /\ UNCHANGED <<args, shelf>>

Refuse(c, how) ==
  /\ answer[c] = "none"
  /\ how = "deadline" => ~probe[c]
  /\ answer' = [answer EXCEPT ![c] = how]
  /\ UNCHANGED <<args, shelf, got>>

Next ==
  \/ \E k \in Keys : Retrieve(k) \/ Fail(k) \/ Fill(k)
  \/ \E c \in Calls : Serve(c) \/ \E how \in {"error", "deadline"} : Refuse(c, how)

Spec == Init /\ [][Next]_vars
=============================================================================
