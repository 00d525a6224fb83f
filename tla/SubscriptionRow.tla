--------------------------- MODULE SubscriptionRow ---------------------------
(***************************************************************************)
(* The row of table subscription (src/src/entities/Subscription.ts) and    *)
(* the UPDATE statements that SubscriptionService, PaymentService and      *)
(* WebhookService issue against it.  A user has at most one row: user_id   *)
(* is the key of a one-to-one relation.                                    *)
(*                                                                         *)
(* Every operator is one statement of the database, so it is atomic; a     *)
(* predicate is the WHERE clause of the statement of the same name.        *)
(*                                                                         *)
(* Columns left out: current_period_start, pan, created_at and             *)
(* payment_method_deleted_at, which no handler reads back to decide        *)
(* anything, and payment_method_link_request_key (module MethodLink).      *)
(* rebill_id and account_token are kept as "is one stored".                *)
(***************************************************************************)
EXTENDS Integers

SubscriptionPlan == {"plus", "pro"}

SubscriptionStatus ==
  {"absent", "pending", "active", "canceled", "renewing", "expired"}

\* The value of a timestamptz column that is null.  Dates are positive.
NoDate == 0

SubscriptionRow ==
  [status : SubscriptionStatus, plan : SubscriptionPlan, end : Nat,
   six : BOOLEAN, trial : BOOLEAN, rebill : BOOLEAN, token : BOOLEAN]

\* The user has no subscription row yet.
NoRow ==
  [status |-> "absent", plan |-> "plus", end |-> NoDate,
   six |-> FALSE, trial |-> FALSE, rebill |-> FALSE, token |-> FALSE]

Exists(row) == row.status # "absent"

\* SQL: end <= now is not true of a null.
Reached(date, now) == date # NoDate /\ date <= now

HasMethod(row) == row.rebill \/ row.token

-----------------------------------------------------------------------------
\* Mutant of Checkout: the plan is given before it is paid for.
CheckoutActive(row, plan, six, tariff) ==
  [row EXCEPT !.status = "active", !.plan = plan, !.six = six,
              !.end = tariff.end, !.trial = tariff.trial]

(* createSubscription's save: it rewrites whatever row the user had.       *)
Checkout(row, plan, six, tariff) ==
  [row EXCEPT !.status = "pending", !.plan = plan, !.six = six,
              !.end = tariff.end, !.trial = tariff.trial]

\* The WHERE of getExpiredSubscriptions and of claimExpiredSubscription.
Expired(row, status, now) == row.status = status /\ Reached(row.end, now)

\* Mutant of Claim: the claim is checked but not recorded.
ClaimNothing(row) == row

Claim(row) == [row EXCEPT !.status = "renewing"]

\* WebhookService, on a CONFIRMED payment.  An absent RebillId is undefined
\* in JavaScript, and the ORM leaves an undefined column alone.
Activate(row, tariff, hasRebill) ==
  [row EXCEPT !.status = "active", !.end = tariff.end, !.trial = tariff.trial,
              !.rebill = @ \/ hasRebill]

Expire(row) ==
  [row EXCEPT !.status = "expired", !.end = NoDate, !.trial = FALSE]

\* Mutant of Cancel: the update does not look for ACTIVE.
CancelAny(row) == [row EXCEPT !.status = "canceled"]

\* No error when nothing matches: the caller is told the same either way.
Cancel(row) ==
  IF row.status = "active" THEN [row EXCEPT !.status = "canceled"] ELSE row

Resumable(row, now) ==
  /\ row.status = "canceled"
  /\ row.end > now
  /\ HasMethod(row)

Resume(row) == [row EXCEPT !.status = "active"]

UpdateAccountToken(row) == [row EXCEPT !.token = TRUE]

\* completePaymentMethodLink: the new SBP account replaces the T-Pay one.
ChangeMethod(row) == [row EXCEPT !.token = TRUE, !.rebill = FALSE]

RemoveMethod(row) == [row EXCEPT !.token = FALSE, !.rebill = FALSE]

=============================================================================
