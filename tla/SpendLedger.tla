----------------------------- MODULE SpendLedger -----------------------------
(***************************************************************************)
(* The ledger of a paid method (eval/qa/spend-budget.mjs) under a claimed  *)
(* cap: what the calls reported, and whether one of them reported nothing. *)
(* A call is authorised with all that remains; its cost is known only when *)
(* it is over.                                                             *)
(***************************************************************************)
EXTENDS Naturals

\* What a call without a cost reports; the cost of every other is positive.
NoCost == 0

NewLedger == [spent |-> 0, missing |-> FALSE]

Remaining(l, cap) == IF l.spent >= cap THEN 0 ELSE cap - l.spent

\* Mutant: a call is still authorised when nothing remains.
CanAlwaysAuthorize(l, cap) == Remaining(l, cap) >= 0

\* authorizeSpend throws BudgetExhaustedError otherwise.
CanAuthorize(l, cap) == Remaining(l, cap) > 0

\* recordSpend takes the call into the ledger whatever it reports ...
Record(l, cost) ==
  IF cost = NoCost THEN [l EXCEPT !.missing = TRUE] ELSE [l EXCEPT !.spent = @ + cost]

\* ... and throws when the cost is missing or above the authorisation.
Faulty(l, cap, cost) == cost = NoCost \/ cost > Remaining(l, cap)

\* resumeSpendLedger refuses a ledger with a call of unknown cost.
Resumable(l) == ~ l.missing
=============================================================================
