------------------------------- MODULE Billing -------------------------------
(***************************************************************************)
(* The billing of one user: the subscription row, the user's access        *)
(* status, the payment rows and the use of the trial promotion, under the  *)
(* handlers that run concurrently on them: checkouts, bank notifications,  *)
(* the two scheduled checks and the user's own requests.  Rows of distinct *)
(* users share nothing, so one user is the general case.                   *)
(*                                                                         *)
(* A handler occupies a slot from its first read to its last write.  It    *)
(* takes a step at every database statement or bank call it awaits; the    *)
(* slot's record keeps what it has read so far, which may be stale when it *)
(* is used.  A crash (or one failing statement) ends a handler between any *)
(* two of its steps.                                                       *)
(***************************************************************************)
EXTENDS SubscriptionRow, Tariff, FiniteSets

CONSTANTS
  Requests,     \* slots of the user's checkouts
  Hooks,        \* slots of CONFIRMED notifications being handled
  Crons,        \* slots of the scheduled checks, of one process or several
  Purchases,    \* ids of payments made by checkouts
  Renewals,     \* ids of payments made by the renewal check
  NoPayment,    \* no payment
  Plans,        \* the plans on sale in this instance
  Terms,        \* the values of sixMonths in this instance
  SbpChoices,   \* is a checkout made through SBP account linking?
  RebillChoices,\* does a CONFIRMED notification carry a RebillId?
  MaxTime,      \* bound on the clock
  Stall,        \* how many units of the clock a handler may last
  MaxCrashes    \* bound on crashes

Slots == Requests \cup Hooks \cup Crons
Payments == Purchases \cup Renewals

ASSUME BillingAssumption ==
  /\ Plans \subseteq SubscriptionPlan
  /\ Terms \subseteq BOOLEAN
  /\ SbpChoices \subseteq BOOLEAN /\ RebillChoices \subseteq BOOLEAN
  /\ NoPayment \notin Payments
  /\ Purchases \cap Renewals = {}
  /\ Requests \cap Hooks = {} /\ Requests \cap Crons = {} /\ Hooks \cap Crons = {}
  /\ MaxTime \in Nat /\ Stall \in Nat /\ MaxCrashes \in Nat
  \* A handler does not outlive the period whose end it has computed.
  /\ Stall < FreeDays /\ Stall < MonthLength /\ Stall < SixMonthsLength

VARIABLES
  now,        \* the clock that new Date() reads
  sub,        \* the user's subscription row
  access,     \* the user's status: free (active or verified), plus or pro
  promotion,  \* TRUE while the user has no consumed first-subscription row
  pay,        \* pay[p]: the row of payment p
  bank,       \* bank[p]: what the bank has done with the order of payment p
  jobs,       \* jobs[s]: the handler in slot s
  crashes     \* crashes so far

vars == <<now, sub, access, promotion, pay, bank, jobs, crashes>>

-----------------------------------------------------------------------------
(* Payment rows.  renews is not a column: it records the period end that a *)
(* renewal charge was claimed for, NoDate for a purchase.                  *)
PaymentStatus == {"absent", "new", "confirmed", "rejected", "refunded"}
PaymentRow == [status : PaymentStatus, trial : BOOLEAN, renews : Nat]
NoPaymentRow == [status |-> "absent", trial |-> FALSE, renews |-> NoDate]
NewPayment(trial, renews) ==
  [status |-> "new", trial |-> trial, renews |-> renews]

\* What the bank has done: no order to pay, an order that may be paid, the
\* final outcomes.
BankState == {"none", "open", "confirmed", "rejected", "refunded"}
Access == {"free"} \cup SubscriptionPlan

-----------------------------------------------------------------------------
(* Handlers.  at is the next step, born when the handler started, pid the  *)
(* payment it is about, plan and six the tariff bought or read, end and    *)
(* trial what getTariff answered (in a renewal: the claimed period end),   *)
(* flag one fact read earlier, left the parallel calls not yet made.       *)
Calls == {"promotion", "payment", "subscription", "user",
          "token", "charge", "expire", "reset"}

At == {"idle", "find", "save", "price", "pay", "init", "link",
       "tariff", "write", "claim", "quote", "insert", "request", "fail", "free"}

Job == [at : At, born : Nat, pid : Payments \cup {NoPayment},
        plan : SubscriptionPlan, six : BOOLEAN, end : Nat, trial : BOOLEAN,
        sbp : BOOLEAN, flag : BOOLEAN, left : SUBSET Calls]

Idle == [at |-> "idle", born |-> 0, pid |-> NoPayment, plan |-> "plus",
         six |-> FALSE, end |-> NoDate, trial |-> FALSE, sbp |-> FALSE,
         flag |-> FALSE, left |-> {}]

Start(s, job) == /\ jobs[s] = Idle
                 /\ jobs' = [jobs EXCEPT ![s] = job]
Continue(s, job) == jobs' = [jobs EXCEPT ![s] = job]
Finish(s) == jobs' = [jobs EXCEPT ![s] = Idle]

\* Mutant of Done: Promise.race instead of Promise.all.
DoneWithFirst(s, call) == Finish(s)

\* One of the calls of a Promise.all is done; the handler ends with the last.
Done(s, call) ==
  LET left == jobs[s].left \ {call} IN
  IF left = {} THEN Finish(s) ELSE Continue(s, [jobs[s] EXCEPT !.left = left])

\* An id that no row has and no handler in flight will give to its row.
Fresh(p) == /\ pay[p].status = "absent"
            /\ \A s \in Slots : jobs[s].pid # p

TariffNow(plan, six) == GetTariff(plan, six, promotion, now)

-----------------------------------------------------------------------------
(* Checkout: getTPayLink and getTBankLink on a request, onAccountLinked on *)
(* an ACTIVE notification (sbp).  createSubscription, createPayment, Init; *)
(* a payment form then waits for the user, SBP charges at once.            *)

BeginCheckout(s, p, plan, six, sbp) ==
  LET tariff == TariffNow(plan, six) IN
  /\ Fresh(p)
  /\ Start(s, [Idle EXCEPT !.at = "find", !.born = now, !.pid = p,
                           !.plan = plan, !.six = six, !.sbp = sbp,
                           !.end = tariff.end, !.trial = tariff.trial])
  /\ UNCHANGED <<now, sub, access, promotion, pay, bank, crashes>>

FindSubscription(s) ==
  /\ jobs[s].at = "find"
  /\ Continue(s, [jobs[s] EXCEPT !.at = "save", !.flag = Exists(sub)])
  /\ UNCHANGED <<now, sub, access, promotion, pay, bank, crashes>>

\* An insert that meets a row created since findOne breaks the unique key.
SaveSubscription(s) ==
  LET job == jobs[s]
      tariff == [end |-> job.end, trial |-> job.trial] IN
  /\ job.at = "save"
  /\ IF Exists(sub) /\ ~job.flag
     THEN Finish(s) /\ UNCHANGED sub
     ELSE /\ sub' = Checkout(sub, job.plan, job.six, tariff)
          /\ Continue(s, [job EXCEPT !.at = "price", !.flag = FALSE,
                                     !.end = NoDate, !.trial = FALSE])
  /\ UNCHANGED <<now, access, promotion, pay, bank, crashes>>

\* The getTariff of createPayment: the price is that of the promotion now.
PricePayment(s) ==
  LET job == jobs[s] IN
  /\ job.at = "price"
  /\ Continue(s, [job EXCEPT !.at = "pay",
                             !.trial = TariffNow(job.plan, job.six).trial])
  /\ UNCHANGED <<now, sub, access, promotion, pay, bank, crashes>>

InsertPayment(s) ==
  LET job == jobs[s] IN
  /\ job.at = "pay"
  /\ pay' = [pay EXCEPT ![job.pid] = NewPayment(job.trial, NoDate)]
  /\ Continue(s, [job EXCEPT !.at = "init", !.trial = FALSE])
  /\ UNCHANGED <<now, sub, access, promotion, bank, crashes>>

\* Init is refused, its answer is lost, or it gives no order that can be paid.
InitFails(s) == Finish(s) /\ UNCHANGED bank

InitPayment(s) ==
  LET job == jobs[s] IN
  /\ job.at = "init"
  /\ \/ /\ ~job.sbp
        /\ bank' = [bank EXCEPT ![job.pid] = "open"]
        /\ Finish(s)
     \/ /\ job.sbp
        /\ Continue(s, [job EXCEPT !.at = "link", !.left = {"token", "charge"}])
        /\ UNCHANGED bank
     \/ InitFails(s)
  /\ UNCHANGED <<now, sub, access, promotion, pay, crashes>>

LinkAccount(s) ==
  /\ jobs[s].at = "link" /\ "token" \in jobs[s].left
  /\ sub' = UpdateAccountToken(sub)
  /\ Done(s, "token")
  /\ UNCHANGED <<now, access, promotion, pay, bank, crashes>>

\* What a charge may leave of its order at the bank when it fails.
ChargeOutcomes == {"none", "open", "rejected"}

\* Whatever chargeQr answers, nothing else is done about it here.
ChargeAccount(s) ==
  /\ jobs[s].at = "link" /\ "charge" \in jobs[s].left
  /\ \E outcome \in ChargeOutcomes :
       bank' = [bank EXCEPT ![jobs[s].pid] = outcome]
  /\ Done(s, "charge")
  /\ UNCHANGED <<now, sub, access, promotion, pay, crashes>>

-----------------------------------------------------------------------------
(* The bank.  It may confirm or reject an open order at any time, refund a *)
(* confirmed one, and notify of each outcome it has reached at any later   *)
(* time, in any order and more than once.                                  *)

BankStep(p, from, to) ==
  /\ bank[p] = from
  /\ bank' = [bank EXCEPT ![p] = to]
  /\ UNCHANGED <<now, sub, access, promotion, pay, jobs, crashes>>

BankConfirms(p) == BankStep(p, "open", "confirmed")
BankRejects(p) == BankStep(p, "open", "rejected")
BankRefunds(p) == BankStep(p, "confirmed", "refunded")

Paid(p) == bank[p] \in {"confirmed", "refunded"}

-----------------------------------------------------------------------------
(* Notifications.  CONFIRMED: the payment and its subscription are read,   *)
(* the tariff computed, and four updates made in parallel from what was    *)
(* read.  REJECTED and REFUNDED are one update each.                       *)

\* Mutant of BeginConfirmation: a repeated notification of a payment that is
\* recorded already is taken as handled.
BeginFirstConfirmation(s, p, hasRebill) ==
  /\ Paid(p)
  /\ pay[p].status \notin {"confirmed", "refunded"}
  /\ Start(s, [Idle EXCEPT !.at = "tariff", !.born = now, !.pid = p,
                           !.plan = sub.plan, !.six = sub.six,
                           !.flag = hasRebill])
  /\ UNCHANGED <<now, sub, access, promotion, pay, bank, crashes>>

\* flag: does the notification carry a RebillId?
BeginConfirmation(s, p, hasRebill) ==
  /\ Paid(p)
  /\ pay[p].status # "refunded"
  /\ Start(s, [Idle EXCEPT !.at = "tariff", !.born = now, !.pid = p,
                           !.plan = sub.plan, !.six = sub.six,
                           !.flag = hasRebill])
  /\ UNCHANGED <<now, sub, access, promotion, pay, bank, crashes>>

ComputeTariff(s) ==
  LET tariff == TariffNow(jobs[s].plan, jobs[s].six) IN
  /\ jobs[s].at = "tariff"
  /\ Continue(s, [jobs[s] EXCEPT
       !.at = "write", !.end = tariff.end, !.trial = tariff.trial,
       !.left = {"promotion", "payment", "subscription", "user"}])
  /\ UNCHANGED <<now, sub, access, promotion, pay, bank, crashes>>

Writing(s, call) == jobs[s].at = "write" /\ call \in jobs[s].left

\* Mutant of MarkPromotionAsUsed: the row is saved as ACTIVE.
MarkPromotionAsActive(s) ==
  /\ Writing(s, "promotion")
  /\ promotion' = TRUE
  /\ Done(s, "promotion")
  /\ UNCHANGED <<now, sub, access, pay, bank, crashes>>

MarkPromotionAsUsed(s) ==
  /\ Writing(s, "promotion")
  /\ promotion' = FALSE
  /\ Done(s, "promotion")
  /\ UNCHANGED <<now, sub, access, pay, bank, crashes>>

ConfirmPayment(s) ==
  /\ Writing(s, "payment")
  /\ pay' = [pay EXCEPT ![jobs[s].pid].status = "confirmed"]
  /\ Done(s, "payment")
  /\ UNCHANGED <<now, sub, access, promotion, bank, crashes>>

ActivateSubscription(s) ==
  LET job == jobs[s] IN
  /\ Writing(s, "subscription")
  /\ sub' = Activate(sub, [end |-> job.end, trial |-> job.trial], job.flag)
  /\ Done(s, "subscription")
  /\ UNCHANGED <<now, access, promotion, pay, bank, crashes>>

GrantAccess(s) ==
  /\ Writing(s, "user")
  /\ access' = jobs[s].plan
  /\ Done(s, "user")
  /\ UNCHANGED <<now, sub, promotion, pay, bank, crashes>>

\* An attempt to pay the order has failed; another one may have succeeded since.
RejectPayment(p) ==
  /\ bank[p] # "none"
  /\ pay[p].status = "new"
  /\ pay' = [pay EXCEPT ![p].status = "rejected"]
  /\ UNCHANGED <<now, sub, access, promotion, bank, jobs, crashes>>

RefundPayment(p) ==
  /\ bank[p] = "refunded"
  /\ pay' = [pay EXCEPT ![p].status = "refunded"]
  /\ UNCHANGED <<now, sub, access, promotion, bank, jobs, crashes>>

-----------------------------------------------------------------------------
(* The renewal check: it reads the expired active subscriptions, claims    *)
(* each, and charges the method it has read; any failure of the charge     *)
(* expires the subscription and resets the user.                           *)

\* flag: was a payment method stored when the row was read?
BeginRenewal(s, p) ==
  /\ Expired(sub, "active", now)
  /\ Fresh(p)
  /\ Start(s, [Idle EXCEPT !.at = "claim", !.born = now, !.pid = p,
                           !.plan = sub.plan, !.six = sub.six,
                           !.flag = HasMethod(sub)])
  /\ UNCHANGED <<now, sub, access, promotion, pay, bank, crashes>>

\* failUserSubscription and resetUserSubscription do the same.
Failing(job) ==
  [job EXCEPT !.at = "fail", !.pid = NoPayment, !.end = NoDate, !.trial = FALSE,
              !.flag = FALSE, !.left = {"expire", "reset"}]

\* Mutant of ClaimSubscription: the update claims whatever the row has become.
ClaimUnconditionally(s) ==
  LET job == jobs[s] IN
  /\ job.at = "claim"
  /\ sub' = Claim(sub)
  /\ Continue(s, IF job.flag THEN [job EXCEPT !.at = "quote", !.end = sub.end]
                             ELSE Failing(job))
  /\ UNCHANGED <<now, access, promotion, pay, bank, crashes>>

ClaimSubscription(s) ==
  LET job == jobs[s] IN
  /\ job.at = "claim"
  /\ IF Expired(sub, "active", now)
     THEN /\ sub' = Claim(sub)
          /\ Continue(s, IF job.flag
                         THEN [job EXCEPT !.at = "quote", !.end = sub.end]
                         ELSE Failing(job))
     ELSE Finish(s) /\ UNCHANGED sub
  /\ UNCHANGED <<now, access, promotion, pay, bank, crashes>>

\* The getTariff of createPayment; a statement that fails here, or in the next
\* step, rejects the charge, which is caught.
PriceRenewal(s) ==
  LET job == jobs[s] IN
  /\ job.at = "quote"
  /\ \/ Continue(s, [job EXCEPT !.at = "insert",
                                !.trial = TariffNow(job.plan, job.six).trial])
     \/ Continue(s, Failing(job))
  /\ UNCHANGED <<now, sub, access, promotion, pay, bank, crashes>>

\* A failing insert may be committed all the same, its answer lost.
InsertRenewalPayment(s) ==
  LET job == jobs[s]
      inserted == [pay EXCEPT ![job.pid] = NewPayment(job.trial, job.end)] IN
  /\ job.at = "insert"
  /\ \/ pay' = inserted /\ Continue(s, [job EXCEPT !.at = "request"])
     \/ pay' \in {pay, inserted} /\ Continue(s, Failing(job))
  /\ UNCHANGED <<now, sub, access, promotion, bank, crashes>>

\* Mutant of RequestCharge: the failure of one subscription is logged and dropped.
RequestChargeOrForget(s) ==
  LET job == jobs[s] IN
  /\ job.at = "request"
  /\ \E outcome \in ChargeOutcomes :
       bank' = [bank EXCEPT ![job.pid] = outcome]
  /\ Finish(s)
  /\ UNCHANGED <<now, sub, access, promotion, pay, crashes>>

\* Init and Charge (or ChargeQr).  An error reaches the handler when the bank
\* refuses, but also when its answer is lost after it has accepted.
RequestCharge(s) ==
  LET job == jobs[s] IN
  /\ job.at = "request"
  /\ \/ bank' = [bank EXCEPT ![job.pid] = "open"] /\ Finish(s)
     \/ \E outcome \in ChargeOutcomes :
          /\ bank' = [bank EXCEPT ![job.pid] = outcome]
          /\ Continue(s, Failing(job))
  /\ UNCHANGED <<now, sub, access, promotion, pay, crashes>>

ExpireSubscription(s) ==
  /\ jobs[s].at = "fail" /\ "expire" \in jobs[s].left
  /\ sub' = Expire(sub)
  /\ Done(s, "expire")
  /\ UNCHANGED <<now, access, promotion, pay, bank, crashes>>

ResetUser(s) ==
  /\ jobs[s].at = "fail" /\ "reset" \in jobs[s].left
  /\ access' = "free"
  /\ Done(s, "reset")
  /\ UNCHANGED <<now, sub, promotion, pay, bank, crashes>>

-----------------------------------------------------------------------------
(* The hourly check of canceled subscriptions: read, then reset the user.  *)

\* Mutant of BeginCanceledCheck: the check looks for the wrong status.
BeginExpiredCheck(s) ==
  /\ Expired(sub, "expired", now)
  /\ Start(s, [Idle EXCEPT !.at = "free", !.born = now])
  /\ UNCHANGED <<now, sub, access, promotion, pay, bank, crashes>>

BeginCanceledCheck(s) ==
  /\ Expired(sub, "canceled", now)
  /\ Start(s, [Idle EXCEPT !.at = "free", !.born = now])
  /\ UNCHANGED <<now, sub, access, promotion, pay, bank, crashes>>

ResetCanceledUser(s) ==
  /\ jobs[s].at = "free"
  /\ access' = "free"
  /\ Finish(s)
  /\ UNCHANGED <<now, sub, promotion, pay, bank, crashes>>

-----------------------------------------------------------------------------
(* The user's own requests, one update each.                               *)

UserUpdates(row) ==
  /\ Exists(sub)
  /\ sub' = row
  /\ UNCHANGED <<now, access, promotion, pay, bank, jobs, crashes>>

CancelSubscription == UserUpdates(Cancel(sub))
ResumeSubscription == Resumable(sub, now) /\ UserUpdates(Resume(sub))
ChangePaymentMethod == UserUpdates(ChangeMethod(sub))
RemovePaymentMethod == UserUpdates(RemoveMethod(sub))

-----------------------------------------------------------------------------
Crash(s) ==
  /\ jobs[s] # Idle
  /\ crashes < MaxCrashes
  /\ crashes' = crashes + 1
  /\ Finish(s)
  /\ UNCHANGED <<now, sub, access, promotion, pay, bank>>

\* No handler lasts more than Stall units.
Tick ==
  /\ now < MaxTime
  /\ \A s \in Slots : jobs[s] = Idle \/ now - jobs[s].born < Stall
  /\ now' = now + 1
  /\ UNCHANGED <<sub, access, promotion, pay, bank, jobs, crashes>>

-----------------------------------------------------------------------------
Init ==
  /\ now = 1
  /\ sub = NoRow
  /\ access = "free"
  /\ promotion = TRUE
  /\ pay = [p \in Payments |-> NoPaymentRow]
  /\ bank = [p \in Payments |-> "none"]
  /\ jobs = [s \in Slots |-> Idle]
  /\ crashes = 0

CheckoutStep(s) ==
  \/ FindSubscription(s) \/ SaveSubscription(s) \/ PricePayment(s)
  \/ InsertPayment(s) \/ InitPayment(s) \/ LinkAccount(s) \/ ChargeAccount(s)

ConfirmationStep(s) ==
  \/ ComputeTariff(s) \/ MarkPromotionAsUsed(s) \/ ConfirmPayment(s)
  \/ ActivateSubscription(s) \/ GrantAccess(s)

CronStep(s) ==
  \/ ClaimSubscription(s) \/ PriceRenewal(s)
  \/ InsertRenewalPayment(s) \/ RequestCharge(s)
  \/ ExpireSubscription(s) \/ ResetUser(s) \/ ResetCanceledUser(s)

RequestNext ==
  \E s \in Requests :
    \/ \E p \in Purchases, plan \in Plans, six \in Terms, sbp \in SbpChoices :
         BeginCheckout(s, p, plan, six, sbp)
    \/ CheckoutStep(s)

HookNext ==
  \/ \E s \in Hooks :
       \/ \E p \in Payments, r \in RebillChoices : BeginConfirmation(s, p, r)
       \/ ConfirmationStep(s)
  \/ \E p \in Payments : RejectPayment(p) \/ RefundPayment(p)

CronNext ==
  \E s \in Crons :
    \/ \E p \in Renewals : BeginRenewal(s, p)
    \/ BeginCanceledCheck(s)
    \/ CronStep(s)

BankNext == \E p \in Payments : BankConfirms(p) \/ BankRejects(p) \/ BankRefunds(p)

UserNext ==
  \/ CancelSubscription \/ ResumeSubscription
  \/ ChangePaymentMethod \/ RemovePaymentMethod

Next ==
  \/ RequestNext \/ HookNext \/ CronNext \/ BankNext \/ UserNext
  \/ \E s \in Slots : Crash(s)
  \/ Tick

Spec == Init /\ [][Next]_vars

-----------------------------------------------------------------------------
(* Properties.                                                             *)

TypeOK ==
  /\ now \in Nat
  /\ sub \in SubscriptionRow
  /\ access \in Access
  /\ promotion \in BOOLEAN
  /\ pay \in [Payments -> PaymentRow]
  /\ bank \in [Payments -> BankState]
  /\ jobs \in [Slots -> Job]
  /\ crashes \in Nat

\* Access and a running period are only ever given for money: while the user
\* has a paid status, or the row is active, canceled, renewing or expired, the
\* bank has confirmed one of the user's payments (WebhookService is the only
\* writer of ACTIVE and of a paid user status).
AccessIsPaidFor ==
  (\/ access \in SubscriptionPlan
   \/ sub.status \in {"active", "canceled", "renewing", "expired"})
  => \E p \in Payments : Paid(p)

\* However many renewal checks overlap, crash or work from stale rows, no
\* period end is charged for twice (claimExpiredSubscription).
PeriodChargedOnce ==
  \A p, q \in Payments :
    (pay[p].renews # NoDate /\ pay[p].renews = pay[q].renews) => p = q

\* A renewal payment is never created for a period that the user has, at that
\* moment, canceled: the row may have changed since the check read it.
CanceledPeriodNotCharged ==
  [][\A p \in Payments :
       (pay[p].renews = NoDate /\ pay'[p].renews # NoDate) =>
         ~(sub.status = "canceled" /\ sub.end = pay'[p].renews)]_vars

\* A payment recorded as confirmed or refunded is one that the bank has confirmed
\* or refunded, whatever the order of the notifications and the checks.
RecordedAsDecided ==
  \A p \in Payments :
    /\ pay[p].status = "confirmed" => Paid(p)
    /\ pay[p].status = "refunded" => bank[p] = "refunded"

\* A period that has been claimed is not forgotten: as long as no handler has died
\* halfway, a row that is RENEWING has a check at work on it, which will ask the
\* bank for this very period or expire the row, or the bank has been asked
\* (handleRenewSubscriptionCheck, whose failures all lead to failUserSubscription).
ClaimIsPursued ==
  (crashes = 0 /\ sub.status = "renewing") =>
    \/ \E s \in Slots :
         \/ jobs[s].at \in {"quote", "insert"} /\ jobs[s].end = sub.end
         \/ jobs[s].at = "request" /\ pay[jobs[s].pid].renews = sub.end
         \/ jobs[s].at = "fail" /\ "expire" \in jobs[s].left
    \/ \E p \in Payments : pay[p].renews = sub.end /\ bank[p] # "none"

\* The trial price is for a first purchase: as long as no handler has died
\* halfway, a renewal is charged the full price, because the confirmation that
\* started the period also consumed the promotion before the period could end.
RenewalAtFullPrice ==
  crashes = 0 => \A p \in Payments : pay[p].renews # NoDate => ~pay[p].trial

\* The renewal check keeps the promise of module RenewalPromise: every renewal
\* payment is a charge of its own, so a second one for a period is none of its steps.
Promise == INSTANCE RenewalPromise WITH
  Ids <- Payments,
  charges <- {<<p, pay[p].renews>> : p \in {q \in Payments : pay[q].renews # NoDate}},
  canceled <- IF sub.status = "canceled" THEN sub.end ELSE NoDate

ImplementsRenewalPromise == Promise!Spec

-----------------------------------------------------------------------------
(* The inductive invariant behind the properties above.                    *)

\* Payment ids that a handler has reserved, and those it has not inserted yet.
Reserving == {"find", "save", "price", "pay", "claim", "quote", "insert"}
Owning == Reserving \cup {"init", "link", "request"}

\* The handler has claimed a period and made no payment for it yet.
Claiming == {"quote", "insert"}

\* The handler is yet to ask the bank for its payment.
WillCharge(s) ==
  \/ jobs[s].at \in {"init", "request"}
  \/ jobs[s].at = "link" /\ "charge" \in jobs[s].left

\* No handler outlives its time.
Timely ==
  \A s \in Slots :
    jobs[s] # Idle => jobs[s].born <= now /\ now <= jobs[s].born + Stall

\* A period end that is about to be written is still to come when it is.
EndsToCome ==
  \A s \in Slots :
    jobs[s].at \in {"find", "save", "write"} => jobs[s].end > jobs[s].born + Stall

\* The end of a period that somebody may claim.
Claimable(end) == sub.status \in {"active", "canceled"} /\ sub.end = end

\* A claimed period is over and out of reach of the row; one handler has it,
\* and no payment has been made for it.
ClaimsAreExclusive ==
  \A s \in Slots : jobs[s].at \in Claiming =>
    /\ jobs[s].end \in 1..now
    /\ ~Claimable(jobs[s].end)
    /\ \A p \in Payments : pay[p].renews # jobs[s].end
    /\ \A t \in Slots :
         (jobs[t].at \in Claiming /\ jobs[t].end = jobs[s].end) => s = t

\* So is a period that has been charged for.
ChargedPeriodsAreOver ==
  \A p \in Payments : pay[p].renews # NoDate =>
    /\ pay[p].renews <= now
    /\ ~Claimable(pay[p].renews)

\* Handlers own their payment ids; the bank knows of none that is not inserted.
OwnersAreDistinct ==
  /\ \A s \in Slots : jobs[s].at \in Owning => jobs[s].pid \in Payments
  /\ \A s, t \in Slots :
       (jobs[s].at \in Owning /\ jobs[t].at \in Owning /\ jobs[s].pid = jobs[t].pid)
         => s = t

ReservedAreFresh ==
  /\ \A p \in Payments : pay[p].status = "absent" =>
       bank[p] = "none" /\ pay[p].renews = NoDate
  /\ \A s \in Slots :
       jobs[s].at \in Reserving => pay[jobs[s].pid].status = "absent"
  /\ \A s \in Slots :
       WillCharge(s) => bank[jobs[s].pid] = "none" /\ pay[jobs[s].pid].status = "new"

\* A notification being handled is of a payment that the bank has taken.
HooksActOnPayment ==
  \A s \in Slots : jobs[s].at \in {"tariff", "write"} =>
    jobs[s].pid \in Payments /\ Paid(jobs[s].pid)

\* Only somebody who has paid is renewed, or expired by the renewal check.
ChargesSubscribers ==
  \A s \in Slots : jobs[s].at \in Claiming \cup {"request", "fail"} =>
    \E p \in Payments : Paid(p)

PaymentInv ==
  OwnersAreDistinct /\ ReservedAreFresh /\ HooksActOnPayment /\ RecordedAsDecided

AccessInv == ChargesSubscribers /\ AccessIsPaidFor

PeriodInv == ClaimsAreExclusive /\ ChargedPeriodsAreOver /\ PeriodChargedOnce

BillingInv ==
  TypeOK /\ Timely /\ EndsToCome /\ PaymentInv /\ AccessInv /\ PeriodInv

-----------------------------------------------------------------------------
(* Liveness.  A handler that has started goes on, the checks are run again *)
(* and again, and the bank repeats a notification until it is answered:    *)
(* however often the slots of the model are taken, it gets one.            *)
Fairness ==
  /\ \A s \in Slots :
       WF_vars(CheckoutStep(s) \/ ConfirmationStep(s) \/ CronStep(s))
  /\ WF_vars(\E s \in Crons, p \in Renewals : BeginRenewal(s, p))
  /\ WF_vars(\E s \in Crons : BeginCanceledCheck(s))
  /\ \A p \in Payments :
       /\ SF_vars(\E s \in Hooks, r \in RebillChoices : BeginConfirmation(s, p, r))
       /\ WF_vars(RefundPayment(p))
  /\ WF_vars(Tick)

FairSpec == Spec /\ Fairness

\* A payment the bank has confirmed is eventually recorded, in spite of crashes
\* in the middle of the four updates (the bank repeats the notification).
ConfirmedPaymentIsRecorded ==
  \A p \in Payments :
    bank[p] = "confirmed" ~> pay[p].status \in {"confirmed", "refunded"}

\* A payment that the bank confirms takes effect once, whichever of the four
\* updates a crash has cut off: the promotion is consumed, the period is started
\* and the access given, each by a statement of its own, unless the bank refunds the
\* payment first (updateSubscriptionAndUserStatus, which the repetition runs again).
ConfirmedPaymentTakesEffect ==
  \A p \in Payments :
    <>(bank[p] = "confirmed") =>
      /\ <>(bank[p] = "refunded" \/ ~promotion)
      /\ <>(bank[p] = "refunded" \/ sub.status = "active")
      /\ <>(bank[p] = "refunded" \/ access \in SubscriptionPlan)

\* Somebody whose canceled subscription has run out loses the paid status, or
\* has bought again (handleCanceledSubscriptionCheck).
ExpiredCancellationEndsAccess ==
  Expired(sub, "canceled", now) ~> (access = "free" \/ sub.status # "canceled")

=============================================================================
