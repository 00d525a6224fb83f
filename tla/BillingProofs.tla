---------------------------- MODULE BillingProofs ----------------------------
(***************************************************************************)
(* Proofs about module Billing: its type correctness, its inductive        *)
(* invariant, and what follows from it for every number of slots, payments *)
(* and crashes, every length of the periods and every MaxTime.             *)
(***************************************************************************)
EXTENDS Billing, TLAPS

(* A tariff ends a period later than any handler computing it now can run. *)
LEMMA TariffFacts ==
  ASSUME NEW plan, NEW six, NEW first \in BOOLEAN, NEW t \in Nat
  PROVE  /\ GetTariff(plan, six, first, t).end \in Nat
         /\ GetTariff(plan, six, first, t).end > t + Stall
         /\ GetTariff(plan, six, first, t).trial = Trial(plan, six, first)
<1>1. NextChargeAt(plan, six, first, t) \in {t + FreeDays, t + SixMonthsLength, t + MonthLength}
  BY DEF NextChargeAt
<1>2. QED
  BY <1>1, BillingAssumption, TariffAssumption DEF GetTariff

LEMMA TrialIsBoolean ==
  ASSUME NEW plan \in SubscriptionPlan, NEW six \in BOOLEAN, NEW first \in BOOLEAN
  PROVE  Trial(plan, six, first) \in BOOLEAN
BY DEF Trial

LEMMA TariffNowFacts ==
  ASSUME TypeOK, NEW plan \in SubscriptionPlan, NEW six \in BOOLEAN
  PROVE  /\ TariffNow(plan, six).end \in Nat
         /\ TariffNow(plan, six).end > now + Stall
         /\ TariffNow(plan, six).trial \in BOOLEAN
BY TariffFacts, TrialIsBoolean DEF TariffNow, TypeOK

LEMMA IdleIsJob == Idle \in Job
BY DEF Idle, Job, At, SubscriptionPlan, NoDate

(* What Start, Continue, Finish and Done do to the slots' type. *)
LEMMA SlotTypes ==
  ASSUME TypeOK, NEW s \in Slots, NEW call
  PROVE  /\ \A j \in Job : Continue(s, j) => jobs' \in [Slots -> Job]
         /\ \A j \in Job : Start(s, j) => jobs' \in [Slots -> Job]
         /\ Finish(s) => jobs' \in [Slots -> Job]
         /\ Done(s, call) => jobs' \in [Slots -> Job]
<1>1. [jobs[s] EXCEPT !.left = jobs[s].left \ {call}] \in Job
  BY DEF TypeOK, Job
<1>2. QED
  BY <1>1, IdleIsJob DEF TypeOK, Start, Continue, Finish, Done

(* A handler that has computed the price of its payment is still a handler. *)
LEMMA PricedType ==
  ASSUME NEW job \in Job, NEW at \in At, NEW trial \in BOOLEAN
  PROVE  [job EXCEPT !.at = at, !.trial = trial] \in Job
BY DEF Job

-----------------------------------------------------------------------------
LEMMA CheckoutType ==
  ASSUME TypeOK, NEW s \in Slots,
         \/ \E p \in Purchases, plan \in Plans, six \in Terms, sbp \in SbpChoices :
              BeginCheckout(s, p, plan, six, sbp)
         \/ CheckoutStep(s)
  PROVE  TypeOK'
<1>1. CASE \E p \in Purchases, plan \in Plans, six \in Terms, sbp \in SbpChoices :
             BeginCheckout(s, p, plan, six, sbp)
  <2>1. PICK p \in Purchases, plan \in Plans, six \in Terms, sbp \in SbpChoices :
          BeginCheckout(s, p, plan, six, sbp)
    BY <1>1
  <2> DEFINE tariff == TariffNow(plan, six)
             job == [Idle EXCEPT !.at = "find", !.born = now, !.pid = p,
                                 !.plan = plan, !.six = six, !.sbp = sbp,
                                 !.end = tariff.end, !.trial = tariff.trial]
  <2>2. plan \in SubscriptionPlan /\ six \in BOOLEAN /\ sbp \in BOOLEAN
    BY BillingAssumption
  <2>3. tariff.end \in Nat /\ tariff.trial \in BOOLEAN
    BY <2>2, TariffNowFacts
  <2>4. job \in Job
    <3> HIDE DEF tariff
    <3> QED  BY <2>2, <2>3, IdleIsJob DEF Job, TypeOK, At, Payments
  <2>5. Start(s, job)
    BY <2>1 DEF BeginCheckout
  <2>6. QED
    BY <2>1, <2>4, <2>5, SlotTypes DEF BeginCheckout, TypeOK
<1>2. CASE FindSubscription(s)
  <2>1. [jobs[s] EXCEPT !.at = "save", !.flag = Exists(sub)] \in Job
    BY DEF TypeOK, Job, At, Exists
  <2>2. QED
    BY <1>2, <2>1, SlotTypes DEF FindSubscription, TypeOK
<1>3. CASE SaveSubscription(s)
  <2>1. [jobs[s] EXCEPT !.at = "price", !.flag = FALSE, !.end = NoDate, !.trial = FALSE] \in Job
    BY DEF TypeOK, Job, At, NoDate
  <2>2. sub' \in SubscriptionRow
    BY <1>3 DEF SaveSubscription, TypeOK, Job, Checkout, SubscriptionRow, SubscriptionStatus
  <2>3. QED
    BY <1>3, <2>1, <2>2, SlotTypes DEF SaveSubscription, TypeOK
<1>9. CASE PricePayment(s)
  <2>1. TariffNow(jobs[s].plan, jobs[s].six).trial \in BOOLEAN
    BY TariffNowFacts DEF TypeOK, Job
  <2>2. QED
    BY <1>9, <2>1, PricedType, SlotTypes DEF PricePayment, TypeOK, At
<1>4. CASE InsertPayment(s)
  <2>1. [jobs[s] EXCEPT !.at = "init", !.trial = FALSE] \in Job
    BY DEF TypeOK, Job, At
  <2>2. NewPayment(jobs[s].trial, NoDate) \in PaymentRow
    BY DEF TypeOK, Job, NewPayment, PaymentRow, PaymentStatus, NoDate
  <2>3. QED
    BY <1>4, <2>1, <2>2, SlotTypes DEF InsertPayment, TypeOK
<1>5. CASE InitPayment(s)
  <2>1. [jobs[s] EXCEPT !.at = "link", !.left = {"token", "charge"}] \in Job
    <3>1. [jobs[s] EXCEPT !.at = "link"] \in Job
      BY DEF TypeOK, Job, At
    <3>2. {"token", "charge"} \subseteq Calls
      BY DEF Calls
    <3>3. [[jobs[s] EXCEPT !.at = "link"] EXCEPT !.left = {"token", "charge"}] \in Job
      BY <3>1, <3>2 DEF Job
    <3> QED
      BY <3>3
  <2>2. bank' \in [Payments -> BankState]
    BY <1>5 DEF InitPayment, InitFails, TypeOK, BankState
  <2>3. jobs' \in [Slots -> Job]
    BY <1>5, <2>1, SlotTypes DEF InitPayment, InitFails
  <2>4. QED
    BY <1>5, <2>2, <2>3 DEF InitPayment, InitFails, TypeOK
<1>6. CASE LinkAccount(s)
  BY <1>6, SlotTypes DEF LinkAccount, TypeOK, UpdateAccountToken, SubscriptionRow
<1>7. CASE ChargeAccount(s)
  BY <1>7, SlotTypes DEF ChargeAccount, ChargeOutcomes, TypeOK, BankState
<1>8. QED
  BY <1>1, <1>2, <1>3, <1>4, <1>5, <1>6, <1>7, <1>9 DEF CheckoutStep

-----------------------------------------------------------------------------
LEMMA HookType ==
  ASSUME TypeOK, HookNext
  PROVE  TypeOK'
<1>1. CASE \E s \in Hooks, p \in Payments, r \in RebillChoices : BeginConfirmation(s, p, r)
  <2>1. PICK s \in Hooks, p \in Payments, r \in RebillChoices : BeginConfirmation(s, p, r)
    BY <1>1
  <2> DEFINE job == [Idle EXCEPT !.at = "tariff", !.born = now, !.pid = p,
                                 !.plan = sub.plan, !.six = sub.six, !.flag = r]
  <2>2. job \in Job
    BY IdleIsJob, BillingAssumption DEF Job, TypeOK, At, SubscriptionRow
  <2>3. Start(s, job)
    BY <2>1 DEF BeginConfirmation
  <2>4. QED
    BY <2>1, <2>2, <2>3, SlotTypes DEF BeginConfirmation, TypeOK, Slots
<1>2. ASSUME NEW s \in Hooks, ComputeTariff(s)
      PROVE  TypeOK'
  <2> DEFINE tariff == TariffNow(jobs[s].plan, jobs[s].six)
             job == [jobs[s] EXCEPT
                       !.at = "write", !.end = tariff.end, !.trial = tariff.trial,
                       !.left = {"promotion", "payment", "subscription", "user"}]
  <2>1. jobs[s] \in Job
    BY DEF TypeOK, Slots
  <2>2. tariff.end \in Nat /\ tariff.trial \in BOOLEAN
    BY <2>1, TariffNowFacts DEF Job
  <2>3. job \in Job
    <3> HIDE DEF tariff
    <3> QED  BY <2>1, <2>2 DEF Job, At, Calls
  <2>4. Continue(s, job)
    BY <1>2 DEF ComputeTariff
  <2>5. QED
    BY <1>2, <2>3, <2>4, SlotTypes DEF ComputeTariff, TypeOK, Slots
<1>3. ASSUME NEW s \in Hooks, MarkPromotionAsUsed(s)
      PROVE  TypeOK'
  BY <1>3, SlotTypes DEF MarkPromotionAsUsed, TypeOK, Slots
<1>4. ASSUME NEW s \in Hooks, ConfirmPayment(s)
      PROVE  TypeOK'
  <2>1. pay' \in [Payments -> PaymentRow]
    BY <1>4 DEF ConfirmPayment, TypeOK, PaymentRow, PaymentStatus
  <2>2. QED
    BY <1>4, <2>1, SlotTypes DEF ConfirmPayment, TypeOK, Slots
<1>5. ASSUME NEW s \in Hooks, ActivateSubscription(s)
      PROVE  TypeOK'
  <2>1. jobs[s] \in Job
    BY DEF TypeOK, Slots
  <2>2. sub' \in SubscriptionRow
    BY <1>5, <2>1
    DEF ActivateSubscription, TypeOK, Job, Activate, SubscriptionRow, SubscriptionStatus
  <2>3. QED
    BY <1>5, <2>2, SlotTypes DEF ActivateSubscription, TypeOK, Slots
<1>6. ASSUME NEW s \in Hooks, GrantAccess(s)
      PROVE  TypeOK'
  <2>1. jobs[s] \in Job
    BY DEF TypeOK, Slots
  <2>2. QED
    BY <1>6, <2>1, SlotTypes DEF GrantAccess, TypeOK, Job, Access, Slots
<1>7. ASSUME NEW p \in Payments, RejectPayment(p) \/ RefundPayment(p)
      PROVE  TypeOK'
  BY <1>7 DEF RejectPayment, RefundPayment, TypeOK, PaymentRow, PaymentStatus
<1>8. QED
  BY <1>1, <1>2, <1>3, <1>4, <1>5, <1>6, <1>7 DEF HookNext, ConfirmationStep

LEMMA FailingType ==
  ASSUME NEW job \in Job
  PROVE  Failing(job) \in Job
BY DEF Failing, Job, At, Calls, NoDate

LEMMA CronType ==
  ASSUME TypeOK, CronNext
  PROVE  TypeOK'
<1>0. Crons \subseteq Slots /\ \A s \in Crons : jobs[s] \in Job
  BY DEF TypeOK, Slots
<1>1. ASSUME NEW s \in Crons, NEW p \in Renewals, BeginRenewal(s, p)
      PROVE  TypeOK'
  <2> DEFINE job == [Idle EXCEPT !.at = "claim", !.born = now, !.pid = p,
                           !.plan = sub.plan, !.six = sub.six,
                           !.flag = HasMethod(sub)]
  <2>1. job \in Job
    BY IdleIsJob DEF Job, TypeOK, At, Payments, SubscriptionRow, HasMethod
  <2>2. Start(s, job)
    BY <1>1 DEF BeginRenewal
  <2>3. QED
    BY <1>0, <1>1, <2>1, <2>2, SlotTypes DEF BeginRenewal, TypeOK
<1>2. ASSUME NEW s \in Crons, BeginCanceledCheck(s)
      PROVE  TypeOK'
  <2> DEFINE job == [Idle EXCEPT !.at = "free", !.born = now]
  <2>1. job \in Job
    BY IdleIsJob DEF Job, TypeOK, At
  <2>2. Start(s, job)
    BY <1>2 DEF BeginCanceledCheck
  <2>3. QED
    BY <1>0, <1>2, <2>1, <2>2, SlotTypes DEF BeginCanceledCheck, TypeOK
<1>3. ASSUME NEW s \in Crons, ClaimSubscription(s)
      PROVE  TypeOK'
  <2>1. sub' \in SubscriptionRow
    BY <1>3 DEF ClaimSubscription, TypeOK, Claim, SubscriptionRow, SubscriptionStatus
  <2>2. sub.end \in Nat
    BY DEF TypeOK, SubscriptionRow
  <2>3. [jobs[s] EXCEPT !.at = "quote", !.end = sub.end] \in Job
    BY <1>0, <2>2 DEF Job, At
  <2>4. jobs' \in [Slots -> Job]
    BY <1>0, <1>3, <2>3, FailingType, SlotTypes DEF ClaimSubscription
  <2>5. QED
    BY <1>3, <2>1, <2>4 DEF ClaimSubscription, TypeOK
<1>4. ASSUME NEW s \in Crons, InsertRenewalPayment(s)
      PROVE  TypeOK'
  <2>1. [jobs[s] EXCEPT !.at = "request"] \in Job
    BY <1>0 DEF Job, At
  <2>2. NewPayment(jobs[s].trial, jobs[s].end) \in PaymentRow
    BY <1>0 DEF Job, NewPayment, PaymentRow, PaymentStatus
  <2>3. pay' \in [Payments -> PaymentRow]
    BY <1>4, <2>2 DEF InsertRenewalPayment, TypeOK
  <2>4. jobs' \in [Slots -> Job]
    BY <1>0, <1>4, <2>1, FailingType, SlotTypes DEF InsertRenewalPayment
  <2>5. QED
    BY <1>4, <2>3, <2>4 DEF InsertRenewalPayment, TypeOK
<1>9. ASSUME NEW s \in Crons, PriceRenewal(s)
      PROVE  TypeOK'
  <2>1. TariffNow(jobs[s].plan, jobs[s].six).trial \in BOOLEAN
    BY <1>0, TariffNowFacts DEF Job
  <2>2. [jobs[s] EXCEPT !.at = "insert",
           !.trial = TariffNow(jobs[s].plan, jobs[s].six).trial] \in Job
    BY <1>0, <2>1, PricedType DEF At
  <2>3. jobs' \in [Slots -> Job]
    BY <1>0, <1>9, <2>2, FailingType, SlotTypes DEF PriceRenewal
  <2>4. QED
    BY <1>9, <2>3 DEF PriceRenewal, TypeOK
<1>5. ASSUME NEW s \in Crons, RequestCharge(s)
      PROVE  TypeOK'
  <2>1. bank' \in [Payments -> BankState]
    BY <1>5 DEF RequestCharge, ChargeOutcomes, TypeOK, BankState
  <2>2. jobs' \in [Slots -> Job]
    BY <1>0, <1>5, FailingType, SlotTypes DEF RequestCharge
  <2>3. QED
    BY <1>5, <2>1, <2>2 DEF RequestCharge, TypeOK
<1>6. ASSUME NEW s \in Crons, ExpireSubscription(s)
      PROVE  TypeOK'
  <2>1. sub' \in SubscriptionRow
    BY <1>6 DEF ExpireSubscription, TypeOK, Expire, SubscriptionRow, SubscriptionStatus, NoDate
  <2>2. QED
    BY <1>0, <1>6, <2>1, SlotTypes DEF ExpireSubscription, TypeOK
<1>7. ASSUME NEW s \in Crons, ResetUser(s) \/ ResetCanceledUser(s)
      PROVE  TypeOK'
  BY <1>0, <1>7, SlotTypes DEF ResetUser, ResetCanceledUser, TypeOK, Access
<1>8. QED
  BY <1>1, <1>2, <1>3, <1>4, <1>5, <1>6, <1>7, <1>9 DEF CronNext, CronStep

LEMMA OthersType ==
  ASSUME TypeOK, BankNext \/ UserNext \/ (\E s \in Slots : Crash(s)) \/ Tick
  PROVE  TypeOK'
<1>1. CASE BankNext
  BY <1>1 DEF BankNext, BankConfirms, BankRejects, BankRefunds, BankStep, TypeOK, BankState
<1>2. CASE UserNext
  <2>1. sub' \in SubscriptionRow
    BY <1>2 DEF UserNext, UserUpdates, CancelSubscription, ResumeSubscription,
      ChangePaymentMethod, RemovePaymentMethod, Cancel, Resume, ChangeMethod,
      RemoveMethod, TypeOK, SubscriptionRow, SubscriptionStatus
  <2>2. QED
    BY <1>2, <2>1 DEF UserNext, UserUpdates, CancelSubscription, ResumeSubscription,
      ChangePaymentMethod, RemovePaymentMethod, TypeOK
<1>3. CASE \E s \in Slots : Crash(s)
  BY <1>3, SlotTypes DEF Crash, TypeOK
<1>4. CASE Tick
  BY <1>4 DEF Tick, TypeOK
<1>5. QED
  BY <1>1, <1>2, <1>3, <1>4

LEMMA InitType == Init => TypeOK
BY IdleIsJob DEF Init, TypeOK, Access, PaymentRow, PaymentStatus, NoPaymentRow,
  BankState, NoRow, SubscriptionRow, SubscriptionPlan, SubscriptionStatus, NoDate

LEMMA NextType == TypeOK /\ [Next]_vars => TypeOK'
<1> SUFFICES ASSUME TypeOK, [Next]_vars PROVE TypeOK'
  OBVIOUS
<1>1. CASE RequestNext
  BY <1>1, CheckoutType DEF RequestNext, Slots
<1>2. CASE UNCHANGED vars
  BY <1>2 DEF vars, TypeOK
<1>3. QED
  BY <1>1, <1>2, HookType, CronType, OthersType DEF Next

(* Every variable keeps the type the code gives it. *)
THEOREM TypeCorrect == Spec => []TypeOK
<1>1. QED
  BY InitType, NextType, PTL DEF Spec

-----------------------------------------------------------------------------
(* What the steps of a handler do to its slot s.                           *)

LEMMA IdleFields ==
  Idle.at = "idle" /\ Idle.pid = NoPayment /\ Idle.born = 0 /\ Idle.end = 0
BY DEF Idle, NoDate

Ends(s) == jobs'[s] = Idle
Others(s) == \A t \in Slots : t # s => jobs'[t] = jobs[t]

\* The handler goes on, with the payment and the period end it had.
Same(s) == jobs'[s].born = jobs[s].born /\ jobs'[s].pid = jobs[s].pid
Becomes(s, at) == jobs'[s].at = at /\ Same(s)
Fails(s) == jobs'[s].at = "fail" /\ jobs'[s].born = jobs[s].born

LEMMA DoneEffect ==
  ASSUME TypeOK, NEW s \in Slots, NEW call, Done(s, call)
  PROVE  /\ Others(s)
         /\ \/ Ends(s)
            \/ /\ Becomes(s, jobs[s].at)
               /\ jobs'[s].end = jobs[s].end
               /\ jobs'[s].left = jobs[s].left \ {call}
<1>1. jobs[s] \in Job
  BY DEF TypeOK
<1>2. CASE jobs[s].left \ {call} = {}
  BY <1>2 DEF Done, Finish, Others, Ends, TypeOK
<1>3. CASE jobs[s].left \ {call} # {}
  BY <1>1, <1>3 DEF Done, Continue, Others, Becomes, Same, TypeOK, Job
<1>4. QED
  BY <1>2, <1>3

LEMMA CheckoutEffects ==
  ASSUME TypeOK, NEW s \in Slots
  PROVE  /\ FindSubscription(s) =>
              Others(s) /\ Becomes(s, "save") /\ jobs'[s].end = jobs[s].end
         /\ SaveSubscription(s) => Others(s) /\ (Ends(s) \/ Becomes(s, "price"))
         /\ PricePayment(s) => Others(s) /\ Becomes(s, "pay")
         /\ InsertPayment(s) => Others(s) /\ Becomes(s, "init")
         /\ InitPayment(s) => Others(s) /\ (Ends(s) \/ Becomes(s, "link"))
<1>1. jobs[s] \in Job
  BY DEF TypeOK
<1>2. ASSUME FindSubscription(s)
      PROVE  Others(s) /\ Becomes(s, "save") /\ jobs'[s].end = jobs[s].end
  BY <1>1, <1>2 DEF FindSubscription, Continue, Others, Becomes, Same, TypeOK, Job
<1>3. ASSUME SaveSubscription(s)
      PROVE  Others(s) /\ (Ends(s) \/ Becomes(s, "price"))
  <2>1. CASE Exists(sub) /\ ~jobs[s].flag
    BY <1>3, <2>1 DEF SaveSubscription, Finish, Others, Ends, TypeOK
  <2>2. CASE ~(Exists(sub) /\ ~jobs[s].flag)
    <3>1. Continue(s, [jobs[s] EXCEPT !.at = "price", !.flag = FALSE,
                                      !.end = NoDate, !.trial = FALSE])
      BY <1>3, <2>2 DEF SaveSubscription
    <3>2. QED
      BY <1>1, <3>1 DEF Continue, Others, Becomes, Same, TypeOK, Job
  <2>3. QED
    BY <2>1, <2>2
<1>4. ASSUME InsertPayment(s)
      PROVE  Others(s) /\ Becomes(s, "init")
  BY <1>1, <1>4 DEF InsertPayment, Continue, Others, Becomes, Same, TypeOK, Job
<1>5. ASSUME InitPayment(s)
      PROVE  Others(s) /\ (Ends(s) \/ Becomes(s, "link"))
  <2>1. CASE Finish(s)
    BY <2>1 DEF Finish, Others, Ends, TypeOK
  <2>2. CASE Continue(s, [jobs[s] EXCEPT !.at = "link", !.left = {"token", "charge"}])
    BY <1>1, <2>2 DEF Continue, Others, Becomes, Same, TypeOK, Job
  <2>3. QED
    BY <1>5, <2>1, <2>2 DEF InitPayment, InitFails
<1>6. ASSUME PricePayment(s)
      PROVE  Others(s) /\ Becomes(s, "pay")
  BY <1>1, <1>6 DEF PricePayment, Continue, Others, Becomes, Same, TypeOK, Job
<1>7. QED
  BY <1>2, <1>3, <1>4, <1>5, <1>6

LEMMA ConfirmationEffects ==
  ASSUME TypeOK, NEW s \in Slots
  PROVE  /\ ComputeTariff(s) =>
              Others(s) /\ Becomes(s, "write") /\ jobs'[s].end > now + Stall
         /\ (\/ MarkPromotionAsUsed(s) \/ ConfirmPayment(s)
             \/ ActivateSubscription(s) \/ GrantAccess(s)) =>
              /\ Others(s)
              /\ Ends(s) \/ (Becomes(s, "write") /\ jobs'[s].end = jobs[s].end)
<1>1. jobs[s] \in Job
  BY DEF TypeOK
<1>2. ASSUME ComputeTariff(s)
      PROVE  Others(s) /\ Becomes(s, "write") /\ jobs'[s].end > now + Stall
  <2> DEFINE tariff == TariffNow(jobs[s].plan, jobs[s].six)
  <2>1. tariff.end > now + Stall
    BY <1>1, TariffNowFacts DEF Job
  <2>2. Continue(s, [jobs[s] EXCEPT
          !.at = "write", !.end = tariff.end, !.trial = tariff.trial,
          !.left = {"promotion", "payment", "subscription", "user"}])
    BY <1>2 DEF ComputeTariff
  <2> HIDE DEF tariff
  <2>3. QED
    BY <1>1, <2>1, <2>2 DEF Continue, Others, Becomes, Same, TypeOK, Job
<1>3. QED
  BY <1>2, DoneEffect
  DEF MarkPromotionAsUsed, ConfirmPayment, ActivateSubscription, GrantAccess, Writing

LEMMA FailingEffect ==
  ASSUME TypeOK, NEW s \in Slots, Continue(s, Failing(jobs[s]))
  PROVE  Others(s) /\ Fails(s)
<1>1. jobs[s] \in Job
  BY DEF TypeOK
<1>2. QED
  BY <1>1 DEF Continue, Failing, Others, Fails, TypeOK, Job

LEMMA CronEffects ==
  ASSUME TypeOK, NEW s \in Slots
  PROVE  /\ ClaimSubscription(s) =>
              /\ Others(s)
              /\ \/ Ends(s) /\ sub' = sub
                 \/ /\ Fails(s) \/ (Becomes(s, "quote") /\ jobs'[s].end = sub.end)
                    /\ Expired(sub, "active", now)
                    /\ sub' = Claim(sub)
         /\ PriceRenewal(s) =>
              /\ Others(s)
              /\ Fails(s) \/ (Becomes(s, "insert") /\ jobs'[s].end = jobs[s].end)
         /\ InsertRenewalPayment(s) => Others(s) /\ (Fails(s) \/ Becomes(s, "request"))
         /\ RequestCharge(s) => Others(s) /\ (Ends(s) \/ Fails(s))
         /\ (ExpireSubscription(s) \/ ResetUser(s)) =>
              Others(s) /\ (Ends(s) \/ Fails(s))
         /\ ResetCanceledUser(s) => Others(s) /\ Ends(s)
         /\ Crash(s) => Others(s) /\ Ends(s)
<1>1. jobs[s] \in Job
  BY DEF TypeOK
<1>2. ASSUME ClaimSubscription(s)
      PROVE  /\ Others(s)
             /\ \/ Ends(s) /\ sub' = sub
                \/ /\ Fails(s) \/ (Becomes(s, "quote") /\ jobs'[s].end = sub.end)
                   /\ Expired(sub, "active", now)
                   /\ sub' = Claim(sub)
  <2>1. CASE ~Expired(sub, "active", now)
    BY <1>2, <2>1 DEF ClaimSubscription, Finish, Others, Ends, TypeOK
  <2>2. CASE Expired(sub, "active", now) /\ ~jobs[s].flag
    BY <1>2, <2>2, FailingEffect DEF ClaimSubscription
  <2>3. CASE Expired(sub, "active", now) /\ jobs[s].flag
    <3>1. /\ sub' = Claim(sub)
          /\ Continue(s, [jobs[s] EXCEPT !.at = "quote", !.end = sub.end])
      BY <1>2, <2>3 DEF ClaimSubscription
    <3>2. QED
      BY <1>1, <2>3, <3>1 DEF Continue, Others, Becomes, Same, TypeOK, Job
  <2>4. QED
    BY <2>1, <2>2, <2>3
<1>3. ASSUME InsertRenewalPayment(s)
      PROVE  Others(s) /\ (Fails(s) \/ Becomes(s, "request"))
  <2>1. CASE Continue(s, [jobs[s] EXCEPT !.at = "request"])
    BY <1>1, <2>1 DEF Continue, Others, Becomes, Same, TypeOK, Job
  <2>2. QED
    BY <1>3, <2>1, FailingEffect DEF InsertRenewalPayment
<1>4. ASSUME Finish(s)
      PROVE  Others(s) /\ Ends(s)
  BY <1>4 DEF Finish, Others, Ends, TypeOK
<1>5. ASSUME RequestCharge(s)
      PROVE  Others(s) /\ (Ends(s) \/ Fails(s))
  BY <1>4, <1>5, FailingEffect DEF RequestCharge
<1>6. ASSUME ExpireSubscription(s) \/ ResetUser(s)
      PROVE  Others(s) /\ (Ends(s) \/ Fails(s))
  BY <1>6, DoneEffect DEF ExpireSubscription, ResetUser, Becomes, Same, Fails
<1>7. ASSUME PriceRenewal(s)
      PROVE  /\ Others(s)
             /\ Fails(s) \/ (Becomes(s, "insert") /\ jobs'[s].end = jobs[s].end)
  <2> DEFINE trial == TariffNow(jobs[s].plan, jobs[s].six).trial
  <2>1. CASE Continue(s, [jobs[s] EXCEPT !.at = "insert", !.trial = trial])
    <3> HIDE DEF trial
    <3> QED
      BY <1>1, <2>1 DEF Continue, Others, Becomes, Same, TypeOK, Job
  <2>2. QED
    BY <1>7, <2>1, FailingEffect DEF PriceRenewal
<1>8. QED
  BY <1>2, <1>3, <1>4, <1>5, <1>6, <1>7 DEF ResetCanceledUser, Crash

LEMMA BeginEffects ==
  ASSUME TypeOK, NEW s \in Slots, NEW p
  PROVE  /\ \A plan \in SubscriptionPlan, six \in BOOLEAN : \A sbp :
              BeginCheckout(s, p, plan, six, sbp) =>
                /\ Others(s)
                /\ jobs'[s].at = "find" /\ jobs'[s].pid = p
                /\ jobs'[s].born = now /\ jobs'[s].end > now + Stall
         /\ \A r : BeginConfirmation(s, p, r) =>
              /\ Others(s)
              /\ jobs'[s].at = "tariff" /\ jobs'[s].pid = p /\ jobs'[s].born = now
         /\ BeginRenewal(s, p) =>
              /\ Others(s)
              /\ jobs'[s].at = "claim" /\ jobs'[s].pid = p /\ jobs'[s].born = now
         /\ BeginCanceledCheck(s) =>
              Others(s) /\ jobs'[s].at = "free" /\ jobs'[s].born = now
<1>1. ASSUME NEW plan \in SubscriptionPlan, NEW six \in BOOLEAN, NEW sbp,
             BeginCheckout(s, p, plan, six, sbp)
      PROVE  /\ Others(s)
             /\ jobs'[s].at = "find" /\ jobs'[s].pid = p
             /\ jobs'[s].born = now /\ jobs'[s].end > now + Stall
  <2> DEFINE tariff == TariffNow(plan, six)
  <2>1. tariff.end > now + Stall
    BY TariffNowFacts
  <2>2. Start(s, [Idle EXCEPT !.at = "find", !.born = now, !.pid = p,
                              !.plan = plan, !.six = six, !.sbp = sbp,
                              !.end = tariff.end, !.trial = tariff.trial])
    BY <1>1 DEF BeginCheckout
  <2> HIDE DEF tariff
  <2>3. QED
    BY <2>1, <2>2 DEF Start, Others, TypeOK, Idle
<1>2. ASSUME NEW r, BeginConfirmation(s, p, r)
      PROVE  /\ Others(s)
             /\ jobs'[s].at = "tariff" /\ jobs'[s].pid = p /\ jobs'[s].born = now
  BY <1>2 DEF BeginConfirmation, Start, Others, TypeOK, Idle
<1>3. ASSUME BeginRenewal(s, p)
      PROVE  /\ Others(s)
             /\ jobs'[s].at = "claim" /\ jobs'[s].pid = p /\ jobs'[s].born = now
  BY <1>3 DEF BeginRenewal, Start, Others, TypeOK, Idle
<1>4. ASSUME BeginCanceledCheck(s)
      PROVE  Others(s) /\ jobs'[s].at = "free" /\ jobs'[s].born = now
  BY <1>4 DEF BeginCanceledCheck, Start, Others, TypeOK, Idle
<1>5. QED
  BY <1>1, <1>2, <1>3, <1>4

LEMMA CheckoutSlots ==
  ASSUME TypeOK, NEW s \in Slots,
         \/ \E p \in Purchases, plan \in Plans, six \in Terms, sbp \in SbpChoices :
              BeginCheckout(s, p, plan, six, sbp)
         \/ CheckoutStep(s)
  PROVE  Others(s) /\ jobs'[s].at \in {"idle", "find", "save", "price", "pay", "init", "link"}
<1>1. CASE \E p \in Purchases, plan \in Plans, six \in Terms, sbp \in SbpChoices :
             BeginCheckout(s, p, plan, six, sbp)
  <2>1. PICK p \in Purchases, plan \in Plans, six \in Terms, sbp \in SbpChoices :
          BeginCheckout(s, p, plan, six, sbp)
    BY <1>1
  <2>2. plan \in SubscriptionPlan /\ six \in BOOLEAN
    BY BillingAssumption
  <2>3. QED
    BY <2>1, <2>2, BeginEffects
<1>2. CASE \/ FindSubscription(s) \/ SaveSubscription(s) \/ PricePayment(s)
           \/ InsertPayment(s) \/ InitPayment(s)
  BY <1>2, CheckoutEffects, IdleFields DEF Becomes, Ends
<1>3. CASE LinkAccount(s) \/ ChargeAccount(s)
  BY <1>3, DoneEffect, IdleFields DEF LinkAccount, ChargeAccount, Becomes, Ends
<1>4. QED
  BY <1>1, <1>2, <1>3 DEF CheckoutStep

-----------------------------------------------------------------------------
(* Handlers stay within their time, so the period end that one of them is  *)
(* about to write is still to come.                                        *)
LEMMA TimelyStep ==
  ASSUME TypeOK, Timely, EndsToCome, [Next]_vars
  PROVE  Timely' /\ EndsToCome'
<1> DEFINE Lasts(t) == jobs[t].at # "idle" /\ jobs'[t].born = jobs[t].born
           Grows(t) == jobs'[t].at \in {"find", "save", "write"} =>
                         jobs'[t].end > jobs'[t].born + Stall
<1>0. Slots = Requests \cup Hooks \cup Crons /\ now \in Nat /\ Stall \in Nat
  BY BillingAssumption DEF Slots, TypeOK
<1>1. ASSUME NEW s \in Slots, now' = now, Others(s), Grows(s),
             Ends(s) \/ jobs'[s].born = now \/ Lasts(s)
      PROVE  Timely' /\ EndsToCome'
  <2>1. Timely'
    BY <1>0, <1>1, IdleFields DEF Timely, Others, Ends
  <2>2. EndsToCome'
    BY <1>1 DEF EndsToCome, Others
  <2>3. QED
    BY <2>1, <2>2
<1>2. ASSUME NEW s \in Requests, NEW p \in Purchases, NEW plan \in Plans,
             NEW six \in Terms, NEW sbp \in SbpChoices, BeginCheckout(s, p, plan, six, sbp)
      PROVE  Timely' /\ EndsToCome'
  <2>1. plan \in SubscriptionPlan /\ six \in BOOLEAN
    BY BillingAssumption
  <2>2. QED
    BY <1>0, <1>1, <1>2, <2>1, BeginEffects DEF BeginCheckout
<1>3. ASSUME NEW s \in Requests, CheckoutStep(s)
      PROVE  Timely' /\ EndsToCome'
  <2>1. CASE FindSubscription(s)
    BY <1>0, <1>1, <2>1, CheckoutEffects DEF FindSubscription, Becomes, Same, EndsToCome
  <2>2. CASE SaveSubscription(s) \/ PricePayment(s) \/ InsertPayment(s) \/ InitPayment(s)
    BY <1>0, <1>1, <2>2, CheckoutEffects, IdleFields
    DEF SaveSubscription, PricePayment, InsertPayment, InitPayment, InitFails, Becomes, Same, Ends
  <2>3. CASE LinkAccount(s) \/ ChargeAccount(s)
    BY <1>0, <1>1, <2>3, DoneEffect, IdleFields
    DEF LinkAccount, ChargeAccount, Becomes, Same, Ends
  <2>4. QED
    BY <1>3, <2>1, <2>2, <2>3 DEF CheckoutStep
<1>4. ASSUME NEW s \in Hooks, NEW p \in Payments, NEW r, BeginConfirmation(s, p, r)
      PROVE  Timely' /\ EndsToCome'
  BY <1>0, <1>1, <1>4, BeginEffects DEF BeginConfirmation
<1>5. ASSUME NEW s \in Hooks, ConfirmationStep(s)
      PROVE  Timely' /\ EndsToCome'
  <2>1. CASE ComputeTariff(s)
    <3>1. jobs[s].born <= now
      BY <1>0, <2>1, IdleFields DEF Timely, ComputeTariff
    <3>2. Others(s) /\ Becomes(s, "write") /\ jobs'[s].end > now + Stall
      BY <1>0, <2>1, ConfirmationEffects
    <3>3. jobs'[s].born \in Nat /\ jobs'[s].end \in Nat
      BY <1>0, <1>5, HookType, NextType DEF TypeOK, Job
    <3>4. QED
      BY <1>0, <1>1, <2>1, <3>1, <3>2, <3>3 DEF ComputeTariff, Becomes, Same
  <2>2. CASE \/ MarkPromotionAsUsed(s) \/ ConfirmPayment(s)
             \/ ActivateSubscription(s) \/ GrantAccess(s)
    BY <1>0, <1>1, <2>2, ConfirmationEffects, IdleFields
    DEF MarkPromotionAsUsed, ConfirmPayment, ActivateSubscription, GrantAccess,
        Writing, Becomes, Same, Ends, EndsToCome
  <2>3. QED
    BY <1>5, <2>1, <2>2 DEF ConfirmationStep
<1>6. ASSUME NEW s \in Crons, BeginCanceledCheck(s) \/ \E p \in Renewals : BeginRenewal(s, p)
      PROVE  Timely' /\ EndsToCome'
  BY <1>0, <1>1, <1>6, BeginEffects DEF BeginRenewal, BeginCanceledCheck
<1>7. ASSUME NEW s \in Crons, CronStep(s)
      PROVE  Timely' /\ EndsToCome'
  BY <1>0, <1>1, <1>7, CronEffects, IdleFields
  DEF CronStep, ClaimSubscription, PriceRenewal, InsertRenewalPayment, RequestCharge,
      ExpireSubscription, ResetUser, ResetCanceledUser, Becomes, Same, Fails, Ends
<1>8. ASSUME NEW s \in Slots, Crash(s)
      PROVE  Timely' /\ EndsToCome'
  BY <1>1, <1>8, CronEffects, IdleFields DEF Crash, Ends
<1>9. CASE Tick
  BY <1>0, <1>9 DEF Tick, Timely, EndsToCome, TypeOK, Job
<1>10. CASE UNCHANGED <<now, jobs>>
  BY <1>10 DEF Timely, EndsToCome
<1>11. CASE CronNext
  BY <1>6, <1>7, <1>11 DEF CronNext
<1>12. CASE BankNext \/ UserNext
  BY <1>10, <1>12 DEF BankNext, BankConfirms, BankRejects, BankRefunds, BankStep, UserNext,
    CancelSubscription, ResumeSubscription, ChangePaymentMethod, RemovePaymentMethod, UserUpdates
<1>13. CASE HookNext
  BY <1>4, <1>5, <1>10, <1>13 DEF HookNext, RejectPayment, RefundPayment
<1>14. CASE RequestNext
  BY <1>2, <1>3, <1>14 DEF RequestNext
<1>15. CASE UNCHANGED vars
  BY <1>10, <1>15 DEF vars
<1>16. QED
  BY <1>8, <1>9, <1>11, <1>12, <1>13, <1>14, <1>15 DEF Next

-----------------------------------------------------------------------------
(* Payments are created once, asked for once, and recorded as the bank has *)
(* decided.                                                                *)
LEMMA PaymentStep ==
  ASSUME TypeOK, PaymentInv, [Next]_vars
  PROVE  PaymentInv'
<1> DEFINE Advances(s) ==
             /\ Same(s)
             /\ jobs[s].at \in Owning /\ jobs'[s].at \in Owning
             /\ jobs'[s].at \in Reserving => jobs[s].at \in Reserving
             /\ WillCharge(s)' => WillCharge(s)
           Leaves(s) == jobs'[s].at \notin Owning \cup {"tariff", "write"}
<1>0. /\ Slots = Requests \cup Hooks \cup Crons
      /\ Payments = Purchases \cup Renewals
      /\ pay \in [Payments -> PaymentRow] /\ bank \in [Payments -> BankState]
  BY DEF Slots, Payments, TypeOK
<1>1. ASSUME NEW s \in Slots, Others(s), UNCHANGED <<pay, bank>>,
             Leaves(s) \/ Advances(s)
      PROVE  PaymentInv'
  BY <1>1 DEF PaymentInv, OwnersAreDistinct, ReservedAreFresh, WillCharge, Same,
    HooksActOnPayment, RecordedAsDecided, Paid, Others, Owning, Reserving
<1>2. ASSUME NEW s \in Slots, NEW p \in Payments, Others(s), UNCHANGED <<pay, bank>>,
             Fresh(p), jobs'[s].pid = p, jobs'[s].at \in {"find", "claim"}
      PROVE  PaymentInv'
  BY <1>2 DEF PaymentInv, OwnersAreDistinct, ReservedAreFresh, WillCharge,
    HooksActOnPayment, RecordedAsDecided, Paid, Others, Owning, Reserving, Fresh
<1>3. ASSUME NEW s \in Slots, NEW row \in PaymentRow, row.status = "new", Others(s),
             jobs[s].at \in {"pay", "insert"},
             \/ Same(s) /\ jobs'[s].at \in {"init", "request"}
             \/ jobs'[s].at = "fail",
             pay' = [pay EXCEPT ![jobs[s].pid] = row], UNCHANGED bank
      PROVE  PaymentInv'
  <2>1. jobs[s].pid \in Payments /\ bank[jobs[s].pid] = "none"
    BY <1>3 DEF PaymentInv, OwnersAreDistinct, ReservedAreFresh, Owning, Reserving
  <2>2. OwnersAreDistinct'
    BY <1>3 DEF PaymentInv, OwnersAreDistinct, Others, Owning, Reserving, Same
  <2>3. ReservedAreFresh'
    BY <1>0, <1>3, <2>1 DEF PaymentInv, OwnersAreDistinct, ReservedAreFresh, WillCharge,
      Others, Owning, Reserving, Same
  <2>4. HooksActOnPayment' /\ RecordedAsDecided'
    BY <1>0, <1>3, <2>1 DEF PaymentInv, HooksActOnPayment, RecordedAsDecided, Paid, Others
  <2>5. QED
    BY <2>2, <2>3, <2>4 DEF PaymentInv
<1>4. ASSUME NEW s \in Slots, NEW outcome \in {"none", "open", "rejected"}, Others(s),
             WillCharge(s), bank' = [bank EXCEPT ![jobs[s].pid] = outcome], UNCHANGED pay,
             \/ Leaves(s)
             \/ Same(s) /\ jobs[s].at = "link" /\ jobs'[s].at = "link" /\ ~WillCharge(s)'
      PROVE  PaymentInv'
  <2>1. jobs[s].pid \in Payments /\ bank[jobs[s].pid] = "none" /\ pay[jobs[s].pid].status = "new"
    BY <1>4 DEF PaymentInv, OwnersAreDistinct, ReservedAreFresh, WillCharge, Owning
  <2>2. OwnersAreDistinct'
    BY <1>4 DEF PaymentInv, OwnersAreDistinct, WillCharge, Others, Owning, Reserving, Same
  <2>3. ReservedAreFresh'
    BY <1>0, <1>4, <2>1 DEF PaymentInv, OwnersAreDistinct, ReservedAreFresh, WillCharge,
      Others, Owning, Reserving, Same
  <2>4. HooksActOnPayment' /\ RecordedAsDecided'
    BY <1>0, <1>4, <2>1
    DEF PaymentInv, HooksActOnPayment, RecordedAsDecided, Paid, Others, Owning, Reserving
  <2>5. QED
    BY <2>2, <2>3, <2>4 DEF PaymentInv
<1>5. ASSUME NEW p \in Payments, NEW status \in {"confirmed", "rejected", "refunded"},
             pay' = [pay EXCEPT ![p].status = status], UNCHANGED <<bank, jobs>>,
             bank[p] # "none",
             status = "confirmed" => Paid(p),
             status = "refunded" => bank[p] = status
      PROVE  PaymentInv'
  BY <1>0, <1>5 DEF PaymentInv, OwnersAreDistinct, ReservedAreFresh, WillCharge, PaymentRow,
    HooksActOnPayment, RecordedAsDecided, Paid
<1>6. ASSUME NEW s \in Slots, Others(s), jobs[s].at \in {"tariff", "write"},
             Ends(s) \/ Becomes(s, "write"), UNCHANGED bank,
             \/ UNCHANGED pay
             \/ pay' = [pay EXCEPT ![jobs[s].pid].status = "confirmed"]
      PROVE  PaymentInv'
  <2>1. jobs[s].pid \in Payments /\ Paid(jobs[s].pid)
    BY <1>6 DEF PaymentInv, HooksActOnPayment
  <2>2. OwnersAreDistinct'
    BY <1>6, IdleFields DEF PaymentInv, OwnersAreDistinct, Others, Owning, Reserving, Becomes, Ends
  <2>3. ReservedAreFresh'
    BY <1>0, <1>6, <2>1, IdleFields DEF PaymentInv, OwnersAreDistinct, ReservedAreFresh, WillCharge,
      Others, Owning, Reserving, Becomes, Ends, Paid, PaymentRow
  <2>4. HooksActOnPayment'
    BY <1>6, <2>1, IdleFields DEF PaymentInv, HooksActOnPayment, Paid, Others, Becomes, Same, Ends
  <2>5. RecordedAsDecided'
    BY <1>0, <1>6, <2>1 DEF PaymentInv, RecordedAsDecided, Paid, PaymentRow
  <2>6. QED
    BY <2>2, <2>3, <2>4, <2>5 DEF PaymentInv
<1>7. ASSUME NEW p \in Payments, NEW from \in BankState \ {"none"},
             NEW to, from = "open" => to \in {"confirmed", "rejected"},
             from # "open" => from = "confirmed" /\ to = "refunded", BankStep(p, from, to)
      PROVE  PaymentInv'
  BY <1>0, <1>7 DEF BankStep, PaymentInv, OwnersAreDistinct, ReservedAreFresh, WillCharge,
    HooksActOnPayment, RecordedAsDecided, Paid
<1>8. CASE UNCHANGED <<pay, bank, jobs>>
  BY <1>8 DEF PaymentInv, OwnersAreDistinct, ReservedAreFresh, WillCharge,
    HooksActOnPayment, RecordedAsDecided, Paid
<1>9. ASSUME NEW s \in Slots, Others(s), Ends(s), UNCHANGED <<pay, bank>>
      PROVE  PaymentInv'
  BY <1>1, <1>9, IdleFields DEF Ends, Owning, Reserving
<1>10. ASSUME NEW s \in Requests, NEW p \in Purchases, NEW plan \in Plans,
              NEW six \in Terms, NEW sbp \in SbpChoices, BeginCheckout(s, p, plan, six, sbp)
       PROVE  PaymentInv'
  <2>1. plan \in SubscriptionPlan /\ six \in BOOLEAN
    BY BillingAssumption
  <2>2. QED
    BY <1>0, <1>2, <1>10, <2>1, BeginEffects DEF BeginCheckout
<1>11. ASSUME NEW s \in Requests, CheckoutStep(s)
       PROVE  PaymentInv'
  <2>1. CASE FindSubscription(s)
    BY <1>0, <1>1, <2>1, CheckoutEffects
    DEF FindSubscription, Becomes, Owning, Reserving, WillCharge
  <2>2. CASE SaveSubscription(s)
    BY <1>0, <1>1, <1>9, <2>2, CheckoutEffects
    DEF SaveSubscription, Becomes, Owning, Reserving, WillCharge
  <2>8. CASE PricePayment(s)
    BY <1>0, <1>1, <2>8, CheckoutEffects
    DEF PricePayment, Becomes, Owning, Reserving, WillCharge
  <2>3. CASE InsertPayment(s)
    <3>1. jobs[s] \in Job
      BY <1>0 DEF TypeOK
    <3>2. NewPayment(jobs[s].trial, NoDate) \in PaymentRow
      BY <3>1 DEF Job, NewPayment, PaymentRow, PaymentStatus, NoDate
    <3>3. NewPayment(jobs[s].trial, NoDate).status = "new"
      BY DEF NewPayment
    <3>4. QED
      BY <1>0, <1>3, <2>3, <3>2, <3>3, CheckoutEffects DEF InsertPayment, Becomes
  <2>4. CASE InitPayment(s)
    <3>1. Others(s) /\ (Ends(s) \/ Becomes(s, "link"))
      BY <1>0, <2>4, CheckoutEffects
    <3>2. CASE UNCHANGED bank
      BY <1>0, <1>1, <1>9, <2>4, <3>1, <3>2
      DEF InitPayment, InitFails, Becomes, Owning, Reserving, WillCharge
    <3>3. CASE bank' = [bank EXCEPT ![jobs[s].pid] = "open"] /\ Finish(s)
      <4>1. Leaves(s)
        BY <1>0, <3>3, IdleFields DEF Finish, TypeOK, Owning, Reserving
      <4>2. QED
        BY <1>0, <1>4, <2>4, <3>1, <3>3, <4>1 DEF InitPayment, InitFails, WillCharge
    <3>4. QED
      BY <2>4, <3>2, <3>3 DEF InitPayment, InitFails
  <2>5. CASE LinkAccount(s)
    BY <1>0, <1>1, <1>9, <2>5, DoneEffect
    DEF LinkAccount, Becomes, Owning, Reserving, WillCharge
  <2>6. CASE ChargeAccount(s)
    <3>1. /\ Others(s)
          /\ Leaves(s) \/ (Same(s) /\ jobs'[s].at = "link" /\ ~WillCharge(s)')
      BY <1>0, <2>6, DoneEffect, IdleFields
      DEF ChargeAccount, Becomes, WillCharge, Ends, Owning, Reserving
    <3>2. QED
      BY <1>0, <1>4, <2>6, <3>1 DEF ChargeAccount, ChargeOutcomes, WillCharge
  <2>7. QED
    BY <1>11, <2>1, <2>2, <2>3, <2>4, <2>5, <2>6, <2>8 DEF CheckoutStep
<1>12. ASSUME NEW s \in Hooks, NEW p \in Payments, NEW r, BeginConfirmation(s, p, r)
       PROVE  PaymentInv'
  <2>1. /\ Others(s) /\ UNCHANGED <<pay, bank>>
        /\ jobs'[s].at = "tariff" /\ jobs'[s].pid = p /\ Paid(p)
    BY <1>0, <1>12, BeginEffects DEF BeginConfirmation
  <2>2. QED
    BY <1>0, <2>1 DEF PaymentInv, OwnersAreDistinct, ReservedAreFresh, WillCharge,
      HooksActOnPayment, RecordedAsDecided, Paid, Others, Owning, Reserving
<1>13. ASSUME NEW s \in Hooks, ConfirmationStep(s)
       PROVE  PaymentInv'
  BY <1>0, <1>6, <1>13, ConfirmationEffects
  DEF ConfirmationStep, ComputeTariff, MarkPromotionAsUsed, ConfirmPayment,
      ActivateSubscription, GrantAccess, Writing
<1>14. ASSUME NEW p \in Payments, RejectPayment(p) \/ RefundPayment(p)
       PROVE  PaymentInv'
  BY <1>5, <1>14 DEF RejectPayment, RefundPayment
<1>15. ASSUME NEW s \in Crons, NEW p \in Renewals, BeginRenewal(s, p)
       PROVE  PaymentInv'
  BY <1>0, <1>2, <1>15, BeginEffects DEF BeginRenewal
<1>16. ASSUME NEW s \in Crons, BeginCanceledCheck(s)
       PROVE  PaymentInv'
  BY <1>0, <1>1, <1>16, BeginEffects DEF BeginCanceledCheck, Owning, Reserving
<1>17. ASSUME NEW s \in Crons, CronStep(s)
       PROVE  PaymentInv'
  <2>1. CASE ClaimSubscription(s)
    BY <1>0, <1>1, <1>9, <2>1, CronEffects
    DEF ClaimSubscription, Becomes, Fails, Owning, Reserving, WillCharge
  <2>6. CASE PriceRenewal(s)
    BY <1>0, <1>1, <2>6, CronEffects
    DEF PriceRenewal, Becomes, Fails, Owning, Reserving, WillCharge
  <2>2. CASE InsertRenewalPayment(s)
    <3>1. jobs[s] \in Job
      BY <1>0 DEF TypeOK
    <3>2. NewPayment(jobs[s].trial, jobs[s].end) \in PaymentRow
      BY <3>1 DEF Job, NewPayment, PaymentRow, PaymentStatus
    <3>3. NewPayment(jobs[s].trial, jobs[s].end).status = "new"
      BY DEF NewPayment
    <3>4. Others(s) /\ (Fails(s) \/ Becomes(s, "request")) /\ UNCHANGED bank
      BY <1>0, <2>2, CronEffects DEF InsertRenewalPayment
    <3>5. CASE pay' = [pay EXCEPT ![jobs[s].pid] = NewPayment(jobs[s].trial, jobs[s].end)]
      BY <1>0, <1>3, <2>2, <3>2, <3>3, <3>4, <3>5 DEF InsertRenewalPayment, Becomes, Fails
    <3>6. CASE UNCHANGED pay /\ Continue(s, Failing(jobs[s]))
      BY <1>0, <1>1, <3>4, <3>6, FailingEffect DEF Fails, Owning, Reserving
    <3>7. QED
      BY <2>2, <3>5, <3>6 DEF InsertRenewalPayment
  <2>3. CASE RequestCharge(s)
    <3>1. Others(s) /\ Leaves(s)
      BY <1>0, <2>3, CronEffects, IdleFields DEF Fails, Ends, Owning, Reserving
    <3>2. PICK outcome \in ChargeOutcomes :
            bank' = [bank EXCEPT ![jobs[s].pid] = outcome]
      BY <2>3 DEF RequestCharge, ChargeOutcomes
    <3>3. QED
      BY <1>0, <1>4, <2>3, <3>1, <3>2 DEF RequestCharge, ChargeOutcomes, WillCharge
  <2>4. CASE ExpireSubscription(s) \/ ResetUser(s) \/ ResetCanceledUser(s)
    BY <1>0, <1>1, <2>4, CronEffects, IdleFields
    DEF ExpireSubscription, ResetUser, ResetCanceledUser, Fails, Ends, Owning, Reserving
  <2>5. QED
    BY <1>17, <2>1, <2>2, <2>3, <2>4, <2>6 DEF CronStep
<1>18. ASSUME NEW s \in Slots, Crash(s)
       PROVE  PaymentInv'
  BY <1>9, <1>18, CronEffects DEF Crash
<1>19. CASE BankNext
  BY <1>7, <1>19 DEF BankNext, BankConfirms, BankRejects, BankRefunds, BankState
<1>20. CASE UserNext \/ Tick \/ UNCHANGED vars
  BY <1>8, <1>20 DEF UserNext, CancelSubscription, ResumeSubscription,
    ChangePaymentMethod, RemovePaymentMethod, UserUpdates, Tick, vars
<1>21. CASE RequestNext
  BY <1>10, <1>11, <1>21 DEF RequestNext
<1>22. CASE HookNext
  BY <1>12, <1>13, <1>14, <1>22 DEF HookNext
<1>23. CASE CronNext
  BY <1>15, <1>16, <1>17, <1>23 DEF CronNext
<1>24. QED
  BY <1>18, <1>19, <1>20, <1>21, <1>22, <1>23 DEF Next

-----------------------------------------------------------------------------
(* What the bank has taken it has taken.                                   *)
LEMMA PaidStays ==
  ASSUME TypeOK, PaymentInv, [Next]_vars
  PROVE  \A p \in Payments : Paid(p) => Paid(p)'
<1>0. /\ Slots = Requests \cup Hooks \cup Crons
      /\ bank \in [Payments -> BankState]
  BY DEF Slots, TypeOK
<1>1. ASSUME NEW s \in Slots, WillCharge(s), NEW outcome,
             bank' = [bank EXCEPT ![jobs[s].pid] = outcome]
      PROVE  \A p \in Payments : Paid(p) => Paid(p)'
  BY <1>0, <1>1 DEF PaymentInv, ReservedAreFresh, Paid
<1>2. ASSUME NEW p \in Payments, BankConfirms(p) \/ BankRejects(p) \/ BankRefunds(p)
      PROVE  \A q \in Payments : Paid(q) => Paid(q)'
  BY <1>0, <1>2 DEF BankConfirms, BankRejects, BankRefunds, BankStep, Paid
<1>3. CASE UNCHANGED bank
  BY <1>3 DEF Paid
<1>4. CASE RequestNext
  BY <1>0, <1>1, <1>3, <1>4 DEF RequestNext, BeginCheckout, CheckoutStep, FindSubscription,
    SaveSubscription, PricePayment, InsertPayment, InitPayment, InitFails, LinkAccount, ChargeAccount, WillCharge
<1>5. CASE HookNext
  BY <1>3, <1>5 DEF HookNext, BeginConfirmation, ConfirmationStep, ComputeTariff,
    MarkPromotionAsUsed, ConfirmPayment, ActivateSubscription, GrantAccess,
    RejectPayment, RefundPayment
<1>6. CASE CronNext
  BY <1>0, <1>1, <1>3, <1>6 DEF CronNext, BeginRenewal, BeginCanceledCheck, CronStep,
    ClaimSubscription, PriceRenewal, InsertRenewalPayment, RequestCharge, ExpireSubscription,
    ResetUser, ResetCanceledUser, WillCharge
<1>7. CASE UserNext \/ (\E s \in Slots : Crash(s)) \/ Tick \/ UNCHANGED vars
  BY <1>3, <1>7 DEF UserNext, CancelSubscription, ResumeSubscription,
    ChangePaymentMethod, RemovePaymentMethod, UserUpdates, Crash, Tick, vars
<1>8. QED
  BY <1>2, <1>4, <1>5, <1>6, <1>7 DEF Next, BankNext

(* Until the bank has taken something, nothing gives access or a period.   *)
LEMMA AccessStep ==
  ASSUME TypeOK, PaymentInv, AccessInv, [Next]_vars
  PROVE  AccessInv'
<1>1. CASE \E p \in Payments : Paid(p)
  BY <1>1, PaidStays DEF AccessInv, ChargesSubscribers, AccessIsPaidFor
<1>2. CASE ~\E p \in Payments : Paid(p)
  <2> DEFINE Free == /\ access' \notin SubscriptionPlan
                     /\ sub'.status \notin {"active", "canceled", "renewing", "expired"}
             Charging == Claiming \cup {"request", "fail"}
  <2>0. /\ Slots = Requests \cup Hooks \cup Crons
        /\ access \notin SubscriptionPlan
        /\ sub.status \notin {"active", "canceled", "renewing", "expired"}
        /\ sub \in SubscriptionRow
        /\ \A s \in Slots : jobs[s].at \notin Charging \cup {"tariff", "write"}
    BY <1>2 DEF TypeOK, Slots, AccessInv, AccessIsPaidFor, ChargesSubscribers, Claiming,
      PaymentInv, HooksActOnPayment
  <2>1. ASSUME Free, \/ UNCHANGED jobs
                     \/ \E s \in Slots : Others(s) /\ jobs'[s].at \notin Charging
        PROVE  AccessInv'
    BY <2>0, <2>1 DEF AccessInv, AccessIsPaidFor, ChargesSubscribers, Others, Claiming
  <2>2. CASE RequestNext
    <3>1. PICK s \in Requests :
            \/ \E p \in Purchases, plan \in Plans, six \in Terms, sbp \in SbpChoices :
                 BeginCheckout(s, p, plan, six, sbp)
            \/ CheckoutStep(s)
      BY <2>2 DEF RequestNext
    <3>2. Others(s) /\ jobs'[s].at \notin Charging
      BY <2>0, <3>1, CheckoutSlots DEF Claiming
    <3>3. Free
      BY <2>0, <3>1 DEF BeginCheckout, CheckoutStep, FindSubscription, SaveSubscription, PricePayment,
        Checkout, InsertPayment, InitPayment, InitFails, LinkAccount, UpdateAccountToken,
        ChargeAccount, SubscriptionRow
    <3>4. QED
      BY <2>0, <2>1, <3>2, <3>3
  <2>3. CASE HookNext
    BY <1>2, <2>0, <2>1, <2>3 DEF HookNext, BeginConfirmation, ConfirmationStep,
      ComputeTariff, MarkPromotionAsUsed, ConfirmPayment, ActivateSubscription,
      GrantAccess, Writing, Claiming, RejectPayment, RefundPayment
  <2>4. CASE CronNext
    <3>1. PICK s \in Crons : BeginCanceledCheck(s) \/ CronStep(s)
                               \/ \E p \in Renewals : BeginRenewal(s, p)
      BY <2>4 DEF CronNext
    <3>2. CASE ClaimSubscription(s)
      <4>1. Others(s) /\ Ends(s) /\ sub' = sub
        BY <2>0, <3>2, CronEffects DEF Expired
      <4>2. QED
        BY <2>0, <2>1, <3>2, <4>1, IdleFields DEF ClaimSubscription, Ends, Claiming
    <3>3. CASE ResetCanceledUser(s)
      <4>1. Others(s) /\ Ends(s)
        BY <2>0, <3>3, CronEffects
      <4>2. Free
        BY <2>0, <3>3 DEF ResetCanceledUser, SubscriptionPlan
      <4>3. QED
        BY <2>0, <2>1, <4>1, <4>2, IdleFields DEF Ends, Claiming
    <3>4. QED
      BY <2>0, <3>1, <3>2, <3>3 DEF BeginCanceledCheck, BeginRenewal, CronStep, Expired, Claiming,
        PriceRenewal, InsertRenewalPayment, RequestCharge, ExpireSubscription, ResetUser
  <2>5. CASE BankNext \/ Tick \/ UNCHANGED vars
    BY <2>0, <2>1, <2>5 DEF BankNext, BankConfirms, BankRejects, BankRefunds, BankStep, Tick, vars
  <2>6. CASE UserNext
    BY <2>0, <2>1, <2>6 DEF UserNext, CancelSubscription, ResumeSubscription,
      ChangePaymentMethod, RemovePaymentMethod, UserUpdates, Cancel, Resumable,
      ChangeMethod, RemoveMethod, SubscriptionRow
  <2>7. CASE \E s \in Slots : Crash(s)
    BY <2>0, <2>1, <2>7, CronEffects, IdleFields DEF Crash, Ends, Claiming
  <2>8. QED
    BY <2>2, <2>3, <2>4, <2>5, <2>6, <2>7 DEF Next
<1>3. QED
  BY <1>1, <1>2

-----------------------------------------------------------------------------
(* No period is charged for twice.                                         *)
LEMMA PeriodStep ==
  ASSUME TypeOK, Timely, EndsToCome, PaymentInv, PeriodInv, [Next]_vars
  PROVE  PeriodInv'
<1> DEFINE OnlyLater == \A end \in Nat : Claimable(end)' => Claimable(end) \/ end > now
           NoNewClaim == \A s \in Slots : jobs'[s].at \in Claiming =>
                           jobs[s].at \in Claiming /\ jobs'[s].end = jobs[s].end
           SameCharges == \A p \in Payments : pay'[p].renews = pay[p].renews
<1>0. /\ Slots = Requests \cup Hooks \cup Crons
      /\ now \in Nat /\ Stall \in Nat /\ sub \in SubscriptionRow
      /\ pay \in [Payments -> PaymentRow]
      /\ \A s \in Slots : jobs[s] \in Job
      /\ \A p \in Payments : pay[p].renews \in Nat
  BY BillingAssumption DEF Slots, TypeOK, PaymentRow
<1>1. ASSUME OnlyLater, NoNewClaim, SameCharges, now' \in Nat, now' >= now
      PROVE  PeriodInv'
  <2>1. ClaimsAreExclusive'
    BY <1>0, <1>1 DEF PeriodInv, ClaimsAreExclusive
  <2>2. ChargedPeriodsAreOver'
    BY <1>0, <1>1 DEF PeriodInv, ChargedPeriodsAreOver
  <2>3. PeriodChargedOnce'
    BY <1>1 DEF PeriodInv, PeriodChargedOnce
  <2>4. QED
    BY <2>1, <2>2, <2>3 DEF PeriodInv
<1>2. ASSUME NEW s \in Slots, Others(s), jobs'[s].at \notin Claiming
      PROVE  NoNewClaim
  BY <1>2 DEF Others
<1>3. ASSUME sub'.status \notin {"active", "canceled"} \/ UNCHANGED sub
      PROVE  OnlyLater
  BY <1>3 DEF Claimable
<1>4. CASE RequestNext
  <2>1. PICK s \in Requests :
          \/ \E p \in Purchases, plan \in Plans, six \in Terms, sbp \in SbpChoices :
               BeginCheckout(s, p, plan, six, sbp)
          \/ CheckoutStep(s)
    BY <1>4 DEF RequestNext
  <2>2. NoNewClaim
    <3>1. Others(s) /\ jobs'[s].at \notin Claiming
      BY <1>0, <2>1, CheckoutSlots DEF Claiming
    <3>2. QED
      BY <1>0, <1>2, <3>1
  <2>3. OnlyLater
    BY <1>0, <1>3, <2>1 DEF BeginCheckout, CheckoutStep, FindSubscription, SaveSubscription, PricePayment,
      Checkout, InsertPayment, InitPayment, InitFails, LinkAccount, UpdateAccountToken,
      ChargeAccount, SubscriptionRow, Claimable
  <2>4. SameCharges /\ now' = now
    <3>1. CASE InsertPayment(s)
      <4>1. jobs[s].pid \in Payments /\ pay[jobs[s].pid].renews = NoDate
        BY <1>0, <3>1 DEF InsertPayment, PaymentInv, OwnersAreDistinct, ReservedAreFresh,
          Owning, Reserving
      <4>2. QED
        BY <1>0, <3>1, <4>1 DEF InsertPayment, NewPayment
    <3>2. QED
      BY <2>1, <3>1 DEF BeginCheckout, CheckoutStep, FindSubscription, SaveSubscription, PricePayment,
        InitPayment, InitFails, LinkAccount, ChargeAccount
  <2>5. QED
    BY <1>0, <1>1, <2>2, <2>3, <2>4
<1>5. CASE HookNext
  <2>1. NoNewClaim
    BY <1>0, <1>2, <1>5, BeginEffects, ConfirmationEffects, IdleFields
    DEF HookNext, ConfirmationStep, RejectPayment, RefundPayment, Becomes, Ends, Claiming
  <2>2. OnlyLater
    <3>1. ASSUME NEW s \in Hooks, ActivateSubscription(s)
          PROVE  OnlyLater
      <4>1. jobs[s].end > now
        BY <1>0, <3>1, IdleFields DEF ActivateSubscription, Writing, Timely, EndsToCome, Job
      <4>2. sub'.end = jobs[s].end
        BY <1>0, <3>1 DEF ActivateSubscription, Activate, SubscriptionRow
      <4>3. QED
        BY <4>1, <4>2 DEF Claimable
    <3>2. QED
      BY <1>3, <1>5, <3>1 DEF HookNext, BeginConfirmation, ConfirmationStep, ComputeTariff,
        MarkPromotionAsUsed, ConfirmPayment, GrantAccess, RejectPayment, RefundPayment
  <2>3. SameCharges /\ now' = now
    <3>1. ASSUME NEW p, NEW status, pay' = [pay EXCEPT ![p].status = status]
          PROVE  SameCharges
      BY <1>0, <3>1 DEF PaymentRow
    <3>2. CASE now' = now /\ UNCHANGED pay
      BY <3>2
    <3>3. QED
      BY <1>5, <3>1, <3>2 DEF HookNext, BeginConfirmation, ConfirmationStep, ComputeTariff,
        MarkPromotionAsUsed, ConfirmPayment, ActivateSubscription, GrantAccess,
        RejectPayment, RefundPayment
  <2>4. QED
    BY <1>0, <1>1, <2>1, <2>2, <2>3
<1>6. ASSUME NEW s \in Crons, ClaimSubscription(s)
      PROVE  PeriodInv'
  <2>1. UNCHANGED <<now, pay>>
    BY <1>6 DEF ClaimSubscription
  <2>2. CASE jobs'[s].at \notin Claiming
    <3>1. Others(s) /\ (sub' = sub \/ sub' = Claim(sub))
      BY <1>0, <1>6, CronEffects
    <3>2. OnlyLater
      BY <1>0, <1>3, <3>1 DEF Claim, SubscriptionRow
    <3>3. QED
      BY <1>0, <1>1, <1>2, <2>1, <2>2, <3>1, <3>2
  <2>3. CASE jobs'[s].at \in Claiming
    <3>1. /\ Others(s) /\ jobs'[s].end = sub.end /\ sub' = Claim(sub)
          /\ Expired(sub, "active", now)
      BY <1>0, <1>6, <2>3, CronEffects, IdleFields DEF Fails, Ends, Claiming
    <3>2. sub'.status = "renewing"
      BY <1>0, <3>1 DEF Claim, SubscriptionRow
    <3>3. sub.end \in 1..now /\ Claimable(sub.end)
      BY <1>0, <3>1 DEF Expired, Reached, Claimable, SubscriptionRow, NoDate
    <3>4. /\ \A p \in Payments : pay[p].renews # sub.end
          /\ \A t \in Slots : jobs[t].at \in Claiming => jobs[t].end # sub.end
      BY <3>3 DEF PeriodInv, ClaimsAreExclusive, ChargedPeriodsAreOver, NoDate
    <3>5. ClaimsAreExclusive'
      BY <1>0, <2>1, <3>1, <3>2, <3>3, <3>4
      DEF PeriodInv, ClaimsAreExclusive, Claimable, Others
    <3>6. ChargedPeriodsAreOver' /\ PeriodChargedOnce'
      BY <2>1, <3>2 DEF PeriodInv, ChargedPeriodsAreOver, PeriodChargedOnce, Claimable
    <3>7. QED
      BY <3>5, <3>6 DEF PeriodInv
  <2>4. QED
    BY <2>2, <2>3
<1>7. ASSUME NEW s \in Crons, InsertRenewalPayment(s)
      PROVE  PeriodInv'
  <2>1. Others(s) /\ jobs'[s].at \notin Claiming /\ UNCHANGED <<now, sub>>
    BY <1>0, <1>7, CronEffects DEF Becomes, Fails, InsertRenewalPayment, Claiming
  <2>2. CASE UNCHANGED pay
    <3>1. NoNewClaim
      BY <1>0, <1>2, <2>1
    <3>2. QED
      BY <1>0, <1>1, <1>3, <2>1, <2>2, <3>1
  <2>3. CASE pay' = [pay EXCEPT ![jobs[s].pid] = NewPayment(jobs[s].trial, jobs[s].end)]
    <3>1. jobs[s].at \in Claiming /\ jobs[s].pid \in Payments
      BY <1>0, <1>7 DEF InsertRenewalPayment, PaymentInv, OwnersAreDistinct,
        Owning, Reserving, Claiming
    <3>2. \A p \in Payments :
            pay'[p].renews = IF p = jobs[s].pid THEN jobs[s].end ELSE pay[p].renews
      BY <1>0, <2>3 DEF NewPayment
    <3>3. ClaimsAreExclusive'
      BY <1>0, <2>1, <3>1, <3>2 DEF PeriodInv, ClaimsAreExclusive, Claimable, Others
    <3>4. ChargedPeriodsAreOver'
      BY <1>0, <2>1, <3>1, <3>2
      DEF PeriodInv, ClaimsAreExclusive, ChargedPeriodsAreOver, Claimable
    <3>5. PeriodChargedOnce'
      BY <1>0, <2>1, <3>1, <3>2 DEF PeriodInv, ClaimsAreExclusive, PeriodChargedOnce
    <3>6. QED
      BY <3>3, <3>4, <3>5 DEF PeriodInv
  <2>4. QED
    BY <1>7, <2>2, <2>3 DEF InsertRenewalPayment
<1>14. ASSUME NEW s \in Crons, PriceRenewal(s)
       PROVE  PeriodInv'
  <2>1. /\ Others(s) /\ jobs[s].at \in Claiming /\ UNCHANGED <<now, sub, pay>>
        /\ jobs'[s].at \in Claiming => jobs'[s].end = jobs[s].end
    BY <1>0, <1>14, CronEffects DEF Becomes, Fails, PriceRenewal, Claiming
  <2>2. NoNewClaim
    BY <2>1 DEF Others
  <2>3. QED
    BY <1>0, <1>1, <1>3, <2>1, <2>2
<1>8. ASSUME NEW s \in Crons,
             \/ BeginCanceledCheck(s) \/ \E p \in Renewals : BeginRenewal(s, p)
             \/ RequestCharge(s) \/ ExpireSubscription(s)
             \/ ResetUser(s) \/ ResetCanceledUser(s)
      PROVE  PeriodInv'
  <2>1. Others(s) /\ jobs'[s].at \notin Claiming
    BY <1>0, <1>8, BeginEffects, CronEffects, IdleFields DEF Ends, Fails, Claiming
  <2>2. OnlyLater
    BY <1>0, <1>3, <1>8 DEF BeginCanceledCheck, BeginRenewal, RequestCharge,
      ExpireSubscription, ResetUser, ResetCanceledUser, Expire, SubscriptionRow
  <2>3. UNCHANGED <<now, pay>>
    BY <1>8 DEF BeginCanceledCheck, BeginRenewal, RequestCharge,
      ExpireSubscription, ResetUser, ResetCanceledUser
  <2>4. QED
    BY <1>0, <1>1, <1>2, <2>1, <2>2, <2>3
<1>9. CASE UserNext
  <2>1. OnlyLater
    BY <1>0, <1>9 DEF UserNext, CancelSubscription, ResumeSubscription,
      ChangePaymentMethod, RemovePaymentMethod, UserUpdates, Cancel, Resumable, Resume,
      ChangeMethod, RemoveMethod, SubscriptionRow, Claimable
  <2>2. UNCHANGED <<now, pay, jobs>>
    BY <1>9 DEF UserNext, CancelSubscription, ResumeSubscription,
      ChangePaymentMethod, RemovePaymentMethod, UserUpdates
  <2>3. QED
    BY <1>0, <1>1, <2>1, <2>2
<1>10. CASE BankNext \/ Tick \/ UNCHANGED vars
  BY <1>0, <1>1, <1>3, <1>10
  DEF BankNext, BankConfirms, BankRejects, BankRefunds, BankStep, Tick, vars
<1>11. ASSUME NEW s \in Slots, Crash(s)
       PROVE  PeriodInv'
  BY <1>0, <1>1, <1>2, <1>3, <1>11, CronEffects, IdleFields DEF Crash, Ends, Claiming
<1>12. CASE CronNext
  BY <1>6, <1>7, <1>8, <1>12, <1>14 DEF CronNext, CronStep
<1>13. QED
  BY <1>4, <1>5, <1>9, <1>10, <1>11, <1>12 DEF Next

-----------------------------------------------------------------------------
LEMMA InitInvariant == Init => BillingInv
<1> SUFFICES ASSUME Init PROVE BillingInv
  OBVIOUS
<1>1. /\ \A s \in Slots : jobs[s] = Idle
      /\ \A p \in Payments : /\ pay[p].status = "absent" /\ pay[p].renews = NoDate
                             /\ bank[p] = "none"
      /\ sub.status = "absent" /\ access = "free"
  BY DEF Init, NoPaymentRow, NoRow
<1>2. TypeOK
  BY InitType
<1>3. Timely /\ EndsToCome
  BY <1>1, IdleFields DEF Timely, EndsToCome
<1>4. PaymentInv
  BY <1>1, IdleFields DEF PaymentInv, OwnersAreDistinct, ReservedAreFresh, WillCharge,
    HooksActOnPayment, RecordedAsDecided, Owning, Reserving
<1>5. AccessInv
  BY <1>1, IdleFields DEF AccessInv, ChargesSubscribers, Claiming, AccessIsPaidFor, SubscriptionPlan
<1>6. PeriodInv
  BY <1>1, IdleFields
  DEF PeriodInv, ClaimsAreExclusive, Claiming, ChargedPeriodsAreOver, PeriodChargedOnce
<1>7. QED
  BY <1>2, <1>3, <1>4, <1>5, <1>6 DEF BillingInv

LEMMA NextInvariant == BillingInv /\ [Next]_vars => BillingInv'
BY NextType, TimelyStep, PaymentStep, AccessStep, PeriodStep DEF BillingInv

(* The invariant that the theorems below need, of every reachable state.   *)
THEOREM Invariance == Spec => []BillingInv
<1>1. QED
  BY InitInvariant, NextInvariant, PTL DEF Spec

(* Whatever the number of renewal checks, however they overlap and crash,  *)
(* no period end is charged for twice.                                     *)
THEOREM NoDoubleCharge == Spec => []PeriodChargedOnce
<1>1. BillingInv => PeriodChargedOnce
  BY DEF BillingInv, PeriodInv
<1>2. QED
  BY <1>1, Invariance, PTL

(* Paid access, and a period that runs or ran, rest on a confirmed payment. *)
THEOREM NoFreeAccess == Spec => []AccessIsPaidFor
<1>1. BillingInv => AccessIsPaidFor
  BY DEF BillingInv, AccessInv
<1>2. QED
  BY <1>1, Invariance, PTL

(* A payment row says confirmed or refunded only when the bank has.        *)
THEOREM PaymentsAsDecided == Spec => []RecordedAsDecided
<1>1. BillingInv => RecordedAsDecided
  BY DEF BillingInv, PaymentInv
<1>2. QED
  BY <1>1, Invariance, PTL

-----------------------------------------------------------------------------
(* A step creates a renewal payment only as InsertRenewalPayment does: for *)
(* a period end that a claim has taken away from the row.                  *)
LEMMA RenewalPayments ==
  ASSUME BillingInv, [Next]_vars
  PROVE  \/ \A p \in Payments : pay'[p].renews = pay[p].renews
         \/ /\ UNCHANGED <<now, sub>>
            /\ \E end \in 1..now, q \in Payments :
                 /\ ~Claimable(end)
                 /\ \A p \in Payments : pay[p].renews # end
                 /\ pay[q].renews = NoDate
                 /\ \A p \in Payments :
                      pay'[p].renews = IF p = q THEN end ELSE pay[p].renews
<1>0. /\ Slots = Requests \cup Hooks \cup Crons
      /\ pay \in [Payments -> PaymentRow]
  BY DEF Slots, BillingInv, TypeOK
<1>1. ASSUME NEW p, NEW status, pay' = [pay EXCEPT ![p].status = status]
      PROVE  \A q \in Payments : pay'[q].renews = pay[q].renews
  BY <1>0, <1>1 DEF PaymentRow
<1>2. ASSUME NEW s \in Requests, InsertPayment(s)
      PROVE  \A p \in Payments : pay'[p].renews = pay[p].renews
  <2>1. jobs[s].pid \in Payments /\ pay[jobs[s].pid].renews = NoDate
    BY <1>0, <1>2 DEF InsertPayment, BillingInv, PaymentInv, OwnersAreDistinct,
      ReservedAreFresh, Owning, Reserving
  <2>2. QED
    BY <1>0, <1>2, <2>1 DEF InsertPayment, NewPayment
<1>3. ASSUME NEW s \in Crons, InsertRenewalPayment(s), pay' # pay
      PROVE  /\ UNCHANGED <<now, sub>>
             /\ \E end \in 1..now, q \in Payments :
                  /\ ~Claimable(end)
                  /\ \A p \in Payments : pay[p].renews # end
                  /\ pay[q].renews = NoDate
                  /\ \A p \in Payments :
                       pay'[p].renews = IF p = q THEN end ELSE pay[p].renews
  <2>1. jobs[s].at = "insert" /\ s \in Slots
    BY <1>0, <1>3 DEF InsertRenewalPayment
  <2>2. jobs[s].pid \in Payments /\ pay[jobs[s].pid].renews = NoDate
    BY <2>1 DEF BillingInv, PaymentInv, OwnersAreDistinct, ReservedAreFresh, Owning, Reserving
  <2>3. /\ jobs[s].end \in 1..now /\ ~Claimable(jobs[s].end)
        /\ \A p \in Payments : pay[p].renews # jobs[s].end
    BY <2>1 DEF BillingInv, PeriodInv, ClaimsAreExclusive, Claiming
  <2>4. \A p \in Payments :
          pay'[p].renews = IF p = jobs[s].pid THEN jobs[s].end ELSE pay[p].renews
    BY <1>0, <1>3 DEF InsertRenewalPayment, NewPayment
  <2>5. QED
    BY <1>3, <2>2, <2>3, <2>4 DEF InsertRenewalPayment
<1>4. CASE UNCHANGED pay
  BY <1>4
<1>5. CASE RequestNext
  BY <1>2, <1>4, <1>5 DEF RequestNext, BeginCheckout, CheckoutStep, FindSubscription,
    SaveSubscription, PricePayment, InitPayment, InitFails, LinkAccount, ChargeAccount
<1>6. CASE HookNext
  BY <1>1, <1>4, <1>6 DEF HookNext, BeginConfirmation, ConfirmationStep, ComputeTariff,
    MarkPromotionAsUsed, ConfirmPayment, ActivateSubscription, GrantAccess,
    RejectPayment, RefundPayment
<1>7. CASE CronNext
  BY <1>3, <1>4, <1>7 DEF CronNext, BeginRenewal, BeginCanceledCheck, CronStep,
    ClaimSubscription, PriceRenewal, RequestCharge, ExpireSubscription, ResetUser, ResetCanceledUser
<1>8. CASE BankNext \/ UserNext \/ (\E s \in Slots : Crash(s)) \/ Tick \/ UNCHANGED vars
  BY <1>4, <1>8 DEF BankNext, BankConfirms, BankRejects, BankRefunds, BankStep, UserNext,
    CancelSubscription, ResumeSubscription, ChangePaymentMethod, RemovePaymentMethod,
    UserUpdates, Crash, Tick, vars
<1>9. QED
  BY <1>5, <1>6, <1>7, <1>8 DEF Next

(* A period that is canceled at that moment is never charged for.          *)
THEOREM CancellationHolds == Spec => CanceledPeriodNotCharged
<1>1. BillingInv /\ [Next]_vars =>
        [\A p \in Payments :
           (pay[p].renews = NoDate /\ pay'[p].renews # NoDate) =>
             ~(sub.status = "canceled" /\ sub.end = pay'[p].renews)]_vars
  BY RenewalPayments DEF Claimable
<1>2. QED
  BY <1>1, Invariance, PTL DEF Spec, CanceledPeriodNotCharged

LEMMA ClockAdvances ==
  ASSUME TypeOK, [Next]_vars
  PROVE  now' >= now
<1>1. now \in Nat
  BY DEF TypeOK
<1>2. CASE Tick
  BY <1>1, <1>2 DEF Tick
<1>3. CASE now' = now
  BY <1>1, <1>3
<1>4. CASE RequestNext
  BY <1>3, <1>4 DEF RequestNext, BeginCheckout, CheckoutStep, FindSubscription,
    SaveSubscription, PricePayment, InsertPayment, InitPayment, InitFails, LinkAccount, ChargeAccount
<1>5. CASE HookNext
  BY <1>3, <1>5 DEF HookNext, BeginConfirmation, ConfirmationStep, ComputeTariff,
    MarkPromotionAsUsed, ConfirmPayment, ActivateSubscription, GrantAccess,
    RejectPayment, RefundPayment
<1>6. CASE CronNext
  BY <1>3, <1>6 DEF CronNext, BeginRenewal, BeginCanceledCheck, CronStep,
    ClaimSubscription, PriceRenewal, InsertRenewalPayment, RequestCharge, ExpireSubscription,
    ResetUser, ResetCanceledUser
<1>7. CASE BankNext \/ UserNext \/ (\E s \in Slots : Crash(s)) \/ UNCHANGED vars
  BY <1>3, <1>7 DEF BankNext, BankConfirms, BankRejects, BankRefunds, BankStep, UserNext,
    CancelSubscription, ResumeSubscription, ChangePaymentMethod, RemovePaymentMethod,
    UserUpdates, Crash, vars
<1>8. QED
  BY <1>2, <1>4, <1>5, <1>6, <1>7 DEF Next

(* Billing implements RenewalPromise: each of its steps makes one charge,  *)
(* for a period that is over, without another charge and not canceled, or  *)
(* none.                                                                   *)
THEOREM Refinement == Spec => ImplementsRenewalPromise
<1> DEFINE Charges == {<<p, pay[p].renews>> : p \in {q \in Payments : pay[q].renews # NoDate}}
           Canceled == IF sub.status = "canceled" THEN sub.end ELSE NoDate
<1>1. Init => Promise!Init
  BY DEF Init, Promise!Init, NoPaymentRow, NoRow, NoDate
<1>2. BillingInv /\ [Next]_vars => [Promise!Next]_<<now, Charges, Canceled>>
  <2> SUFFICES ASSUME BillingInv, [Next]_vars
               PROVE  Promise!Next
    OBVIOUS
  <2>1. CASE \A p \in Payments : pay'[p].renews = pay[p].renews
    <3>1. Charges' = Charges
      BY <2>1
    <3>2. now' >= now
      BY ClockAdvances DEF BillingInv
    <3>3. QED
      BY <3>1, <3>2 DEF Promise!Next, Promise!Other
  <2>2. CASE ~\A p \in Payments : pay'[p].renews = pay[p].renews
    <3>0. UNCHANGED <<now, sub>>
      BY <2>2, RenewalPayments
    <3>1. PICK end \in 1..now, q \in Payments :
            /\ ~Claimable(end)
            /\ \A p \in Payments : pay[p].renews # end
            /\ pay[q].renews = NoDate
            /\ \A p \in Payments :
                 pay'[p].renews = IF p = q THEN end ELSE pay[p].renews
      BY <2>2, RenewalPayments
    <3>2. end # NoDate
      BY DEF NoDate
    <3>3. Charges' = Charges \cup {<<q, end>>}
      <4>1. Charges' \subseteq Charges \cup {<<q, end>>}
        BY <3>1
      <4>2. Charges \subseteq Charges'
        BY <3>1
      <4>3. <<q, end>> \in Charges'
        BY <3>1, <3>2
      <4>4. QED
        BY <4>1, <4>2, <4>3
    <3>4. \A charge \in Charges : charge[1] # q /\ charge[2] # end
      BY <3>1
    <3>5. Canceled # end /\ Canceled' = Canceled
      BY <3>0, <3>1, <3>2 DEF Claimable
    <3>6. QED
      BY <3>0, <3>3, <3>4, <3>5 DEF Promise!Next, Promise!ChargeForPeriod
  <2>3. QED
    BY <2>1, <2>2
<1>3. QED
  BY <1>1, <1>2, Invariance, PTL DEF Spec, ImplementsRenewalPromise, Promise!Spec

-----------------------------------------------------------------------------
(* The price of a renewal, until a handler dies halfway.                   *)

\* The confirmation in slot s is yet to consume the promotion.
WillConsume(s) == jobs[s].at = "write" /\ "promotion" \in jobs[s].left

\* A period runs only after its confirmation has consumed the promotion, or while
\* that confirmation, which ends before the period does, is about to.
PromotionIsConsumed ==
  /\ \A s \in Slots : jobs[s].at = "write" => WillConsume(s) \/ ~promotion
  /\ sub.status \in {"active", "canceled"} =>
       \/ ~promotion
       \/ \E s \in Slots : WillConsume(s) /\ sub.end > jobs[s].born + Stall
  /\ \A s \in Slots : jobs[s].at \in Claiming => ~promotion
  /\ \A s \in Slots : jobs[s].at = "insert" => ~jobs[s].trial

FullPrices == \A p \in Payments : pay[p].renews # NoDate => ~pay[p].trial

PriceInv == PromotionIsConsumed /\ FullPrices

\* What most steps leave alone: the promotion, the prices of the renewals made so
\* far, and the period that runs.
PricesStay ==
  /\ promotion' = promotion
  /\ \A p \in Payments : pay'[p].renews # NoDate =>
       pay[p].renews # NoDate /\ pay'[p].trial = pay[p].trial
PeriodStays ==
  sub'.status \in {"active", "canceled"} =>
    sub.status \in {"active", "canceled"} /\ sub'.end = sub.end

(* The steps of handlers that neither confirm nor claim.                   *)
LEMMA OtherHandlersPrice ==
  ASSUME PriceInv, PricesStay, PeriodStays,
         NEW s \in Slots, Others(s),
         jobs[s].at # "write", jobs'[s].at \notin Claiming \cup {"write"}
  PROVE  PriceInv'
<1>1. \A t \in Slots : WillConsume(t) =>
        WillConsume(t)' /\ jobs'[t] = jobs[t]
  BY DEF WillConsume, Others
<1>2. PromotionIsConsumed'
  <2>1. \A t \in Slots : jobs'[t].at \in Claiming \cup {"write"} => jobs'[t] = jobs[t]
    BY DEF Others
  <2> QED
    BY <1>1, <2>1 DEF PriceInv, PromotionIsConsumed, PricesStay, PeriodStays, WillConsume,
      Claiming
<1> QED
  BY <1>2 DEF PriceInv, FullPrices, PricesStay

(* The steps of nobody's handler. *)
LEMMA NoHandlerPrice ==
  ASSUME PriceInv, PricesStay, PeriodStays, UNCHANGED jobs
  PROVE  PriceInv'
<1>1. PromotionIsConsumed'
  BY DEF PriceInv, PromotionIsConsumed, PricesStay, PeriodStays, WillConsume
<1> QED
  BY <1>1 DEF PriceInv, FullPrices, PricesStay

(* The four writes of a confirmation: only the one that consumes the       *)
(* promotion may leave it consumed.                                        *)
LEMMA WritePrice ==
  ASSUME TypeOK, Timely, EndsToCome, PriceInv, NEW s \in Slots,
         MarkPromotionAsUsed(s) \/ ConfirmPayment(s) \/ ActivateSubscription(s) \/ GrantAccess(s)
  PROVE  PriceInv'
<1> DEFINE job == jobs[s]
<1>0. job \in Job /\ job.at = "write" /\ pay \in [Payments -> PaymentRow]
  BY DEF TypeOK, MarkPromotionAsUsed, ConfirmPayment, ActivateSubscription, GrantAccess,
    Writing
<1>1. job.end > job.born + Stall
  BY <1>0 DEF EndsToCome
<1>2. ASSUME NEW call \in Calls, Done(s, call)
      PROVE  /\ Others(s)
             /\ Ends(s) \/ Becomes(s, "write")
             /\ call # "promotion" /\ WillConsume(s) => WillConsume(s)' /\ Same(s)
             /\ WillConsume(s)' => WillConsume(s)
             /\ jobs'[s].at # "insert"
  <2>1. CASE job.left \ {call} = {}
    <3>1. Ends(s) /\ Others(s)
      BY <1>2, <2>1 DEF Done, Finish, Others, Ends, TypeOK
    <3>2. jobs'[s].at \notin {"write", "insert"}
      BY <3>1, IdleFields DEF Ends
    <3> QED
      BY <2>1, <3>1, <3>2 DEF WillConsume
  <2>2. CASE job.left \ {call} # {}
    <3>1. /\ Others(s) /\ Becomes(s, "write")
          /\ jobs'[s].left = job.left \ {call}
      BY <1>0, <1>2, <2>2 DEF Done, Continue, Others, Becomes, Same, TypeOK, Job
    <3> QED
      BY <1>0, <3>1 DEF WillConsume, Becomes, Same
  <2> QED
    BY <2>1, <2>2
<1>3. CASE MarkPromotionAsUsed(s)
  <2>1. promotion' = FALSE /\ Others(s) /\ (Ends(s) \/ Becomes(s, "write"))
    BY <1>2, <1>3 DEF MarkPromotionAsUsed, Calls
  <2>2. UNCHANGED <<sub, pay>>
    BY <1>3 DEF MarkPromotionAsUsed
  <2>3. \A t \in Slots : jobs'[t].at = "insert" => jobs'[t] = jobs[t]
    BY <1>2, <1>3, <2>1 DEF MarkPromotionAsUsed, Calls, Others
  <2> QED
    BY <2>1, <2>2, <2>3 DEF PriceInv, PromotionIsConsumed, FullPrices
<1>4. ASSUME NEW call \in Calls \ {"promotion"}, Done(s, call), PricesStay,
             PeriodStays \/ sub'.end = job.end
      PROVE  PriceInv'
  <2>1. \A t \in Slots : WillConsume(t) =>
          WillConsume(t)' /\ jobs'[t].born = jobs[t].born
    BY <1>2, <1>4 DEF WillConsume, Others, Same
  <2>2. /\ \A t \in Slots : jobs'[t].at \in Claiming \cup {"write"} => jobs'[t].at = jobs[t].at
        /\ \A t \in Slots : jobs'[t].at = "insert" => jobs'[t] = jobs[t]
    BY <1>0, <1>2, <1>4, IdleFields DEF Others, Ends, Becomes, Claiming
  <2>3. \A t \in Slots : jobs'[t].at = "write" => WillConsume(t)' \/ ~promotion'
    BY <1>4, <2>1, <2>2 DEF PriceInv, PromotionIsConsumed, PricesStay
  <2>4. sub'.status \in {"active", "canceled"} =>
          \/ ~promotion'
          \/ \E t \in Slots : WillConsume(t)' /\ sub'.end > jobs'[t].born + Stall
    <3>1. CASE PeriodStays
      BY <1>4, <2>1, <3>1 DEF PriceInv, PromotionIsConsumed, PricesStay, PeriodStays
    <3>2. CASE sub'.end = job.end
      BY <1>0, <1>1, <1>4, <2>1, <3>2 DEF PriceInv, PromotionIsConsumed, PricesStay
    <3> QED
      BY <1>4, <3>1, <3>2
  <2>5. /\ \A t \in Slots : jobs'[t].at \in Claiming => ~promotion'
        /\ \A t \in Slots : jobs'[t].at = "insert" => ~jobs'[t].trial
    BY <1>4, <2>2 DEF PriceInv, PromotionIsConsumed, PricesStay
  <2> QED
    BY <1>4, <2>3, <2>4, <2>5
    DEF PriceInv, PromotionIsConsumed, FullPrices, PricesStay
<1>5. CASE ConfirmPayment(s)
  <2>1. PricesStay
    BY <1>0, <1>5 DEF ConfirmPayment, PricesStay, PaymentRow
  <2> QED
    BY <1>4, <1>5, <2>1 DEF ConfirmPayment, PeriodStays, Calls
<1>6. CASE ActivateSubscription(s)
  <2>1. sub'.end = job.end
    BY <1>6 DEF ActivateSubscription, Activate, TypeOK, SubscriptionRow
  <2> QED
    BY <1>4, <1>6, <2>1 DEF ActivateSubscription, PricesStay, Calls
<1>7. CASE GrantAccess(s)
  BY <1>4, <1>7 DEF GrantAccess, PricesStay, PeriodStays, Calls
<1> QED
  BY <1>3, <1>5, <1>6, <1>7

(* A claim: the period that has run out was confirmed by a handler that is *)
(* over, so the promotion is consumed.                                     *)
LEMMA ClaimPrice ==
  ASSUME TypeOK, Timely, PriceInv, NEW s \in Slots, ClaimSubscription(s)
  PROVE  PriceInv'
<1>0. /\ now \in Nat /\ sub \in SubscriptionRow
      /\ \A t \in Slots : jobs[t] \in Job
      /\ jobs[s].at = "claim" /\ UNCHANGED <<promotion, pay>>
  BY DEF TypeOK, ClaimSubscription
<1>1. PricesStay
  BY <1>0 DEF PricesStay
<1>2. CASE Ends(s) /\ sub' = sub /\ Others(s)
  BY <1>0, <1>1, <1>2, OtherHandlersPrice, IdleFields DEF PeriodStays, Ends, Claiming
<1>3. CASE /\ Others(s)
           /\ Fails(s) \/ (Becomes(s, "quote") /\ jobs'[s].end = sub.end)
           /\ Expired(sub, "active", now)
           /\ sub' = Claim(sub)
  <2>1. sub.status = "active" /\ sub.end <= now
    BY <1>3 DEF Expired, Reached
  <2>2. \A t \in Slots : WillConsume(t) => now <= jobs[t].born + Stall
    BY IdleFields DEF WillConsume, Timely
  <2>3. ~promotion
    BY <1>0, <2>1, <2>2, BillingAssumption DEF PriceInv, PromotionIsConsumed, SubscriptionRow, Job
  <2>4. sub'.status = "renewing"
    BY <1>0, <1>3 DEF Claim, SubscriptionRow
  <2>5. /\ \A t \in Slots : jobs'[t].at = "insert" => jobs'[t] = jobs[t]
        /\ \A t \in Slots : jobs'[t].at = "write" => jobs'[t] = jobs[t]
    BY <1>3 DEF Others, Fails, Becomes
  <2> QED
    BY <1>0, <2>3, <2>4, <2>5 DEF PriceInv, PromotionIsConsumed, FullPrices
<1> QED
  BY <1>2, <1>3, CronEffects

(* A renewal's tariff is computed without the promotion.                   *)
LEMMA QuotePrice ==
  ASSUME TypeOK, PriceInv, NEW s \in Slots, PriceRenewal(s)
  PROVE  PriceInv'
<1> DEFINE job == jobs[s]
           trial == TariffNow(jobs[s].plan, jobs[s].six).trial
<1>0. /\ job \in Job /\ job.at = "quote"
      /\ UNCHANGED <<promotion, sub, pay>>
      /\ Others(s) /\ (Fails(s) \/ Becomes(s, "insert"))
  BY CronEffects DEF TypeOK, PriceRenewal
<1>1. ~promotion
  BY <1>0 DEF PriceInv, PromotionIsConsumed, Claiming
<1>2. trial = FALSE
  BY <1>1 DEF TariffNow, GetTariff, Trial
<1>3. jobs'[s].at = "insert" => ~jobs'[s].trial
  <2>1. CASE Continue(s, [job EXCEPT !.at = "insert", !.trial = trial])
    <3> HIDE DEF trial
    <3> QED
      BY <1>0, <1>2, <2>1 DEF Continue, TypeOK, Job
  <2>2. CASE Fails(s)
    BY <2>2 DEF Fails
  <2> QED
    BY <2>1, <2>2, FailingEffect DEF PriceRenewal
<1>4. \A t \in Slots : jobs'[t].at = "write" => jobs'[t] = jobs[t]
  BY <1>0 DEF Others, Fails, Becomes
<1>5. \A t \in Slots : jobs'[t].at = "insert" => ~jobs'[t].trial
  BY <1>0, <1>3 DEF Others, PriceInv, PromotionIsConsumed
<1> QED
  BY <1>0, <1>1, <1>4, <1>5 DEF PriceInv, PromotionIsConsumed, FullPrices

(* A renewal payment: its price is the one computed in the step before.    *)
LEMMA InsertPrice ==
  ASSUME TypeOK, PriceInv, NEW s \in Slots, InsertRenewalPayment(s)
  PROVE  PriceInv'
<1>0. /\ jobs[s] \in Job /\ jobs[s].at = "insert"
      /\ UNCHANGED <<promotion, sub>>
      /\ Others(s) /\ (Fails(s) \/ Becomes(s, "request"))
  BY CronEffects DEF TypeOK, InsertRenewalPayment
<1>1. ~promotion /\ ~jobs[s].trial
  BY <1>0 DEF PriceInv, PromotionIsConsumed, Claiming
<1>2. \A p \in Payments : ~pay'[p].trial \/ pay'[p] = pay[p]
  BY <1>1 DEF InsertRenewalPayment, NewPayment, TypeOK
<1>3. FullPrices'
  BY <1>2 DEF PriceInv, FullPrices
<1>4. \A t \in Slots : jobs'[t].at \in {"write", "insert"} => jobs'[t] = jobs[t]
  BY <1>0 DEF Others, Fails, Becomes
<1> QED
  BY <1>0, <1>1, <1>3, <1>4 DEF PriceInv, PromotionIsConsumed

LEMMA ComputePrice ==
  ASSUME TypeOK, PriceInv, NEW s \in Slots, ComputeTariff(s)
  PROVE  PriceInv'
<1>1. jobs[s].at = "tariff" /\ Others(s) /\ WillConsume(s)'
  <2> DEFINE tariff == TariffNow(jobs[s].plan, jobs[s].six)
             job == [jobs[s] EXCEPT
                       !.at = "write", !.end = tariff.end, !.trial = tariff.trial,
                       !.left = {"promotion", "payment", "subscription", "user"}]
  <2>1. Continue(s, job) /\ jobs[s] \in Job
    BY DEF ComputeTariff, TypeOK
  <2>2. job.at = "write" /\ "promotion" \in job.left
    BY <2>1 DEF Job
  <2> HIDE DEF job
  <2> QED
    BY <2>1, <2>2 DEF ComputeTariff, Continue, Others, WillConsume, TypeOK
<1>2. UNCHANGED <<promotion, sub, pay>>
  BY DEF ComputeTariff
<1>3. \A t \in Slots : t # s => (WillConsume(t)' <=> WillConsume(t))
  BY <1>1 DEF WillConsume, Others
<1>4. ~WillConsume(s) /\ jobs'[s].at \notin Claiming
  BY <1>1 DEF WillConsume, Claiming
<1>5. jobs'[s].at # "insert"
  BY <1>4 DEF Claiming
<1> QED
  BY <1>1, <1>2, <1>3, <1>4, <1>5
  DEF PriceInv, PromotionIsConsumed, FullPrices, Others

LEMMA CheckoutPrice ==
  ASSUME TypeOK, PriceInv, NEW s \in Slots, jobs[s].at # "write",
         \/ \E p \in Purchases, plan \in Plans, six \in Terms, sbp \in SbpChoices :
              BeginCheckout(s, p, plan, six, sbp)
         \/ CheckoutStep(s)
  PROVE  PriceInv'
<1>1. Others(s) /\ jobs'[s].at \notin Claiming \cup {"write"}
  BY CheckoutSlots DEF Claiming
<1>2. PricesStay
  <2>1. CASE InsertPayment(s)
    <3>1. /\ pay' = [pay EXCEPT ![jobs[s].pid] =
                       NewPayment(jobs[s].trial, NoDate)]
          /\ promotion' = promotion
      BY <2>1 DEF InsertPayment
    <3>2. NewPayment(jobs[s].trial, NoDate).renews = NoDate
      BY DEF NewPayment
    <3> QED
      BY <3>1, <3>2 DEF PricesStay, TypeOK
  <2>2. CASE ~InsertPayment(s)
    BY <2>2 DEF BeginCheckout, CheckoutStep, FindSubscription, SaveSubscription, PricePayment,
      InitPayment, InitFails, LinkAccount, ChargeAccount, PricesStay
  <2> QED
    BY <2>1, <2>2
<1>3. PeriodStays
  <2>1. sub \in SubscriptionRow
    BY DEF TypeOK
  <2> QED
    BY <2>1 DEF BeginCheckout, CheckoutStep, FindSubscription, SaveSubscription, PricePayment,
      InsertPayment, InitPayment, InitFails, LinkAccount, ChargeAccount, PeriodStays,
      Checkout, UpdateAccountToken, SubscriptionRow
<1> QED
  BY <1>1, <1>2, <1>3, OtherHandlersPrice

(* A crash is counted, and the count does not go back.                     *)
LEMMA CrashesCount ==
  ASSUME TypeOK, [Next]_vars, crashes' = 0
  PROVE  crashes = 0 /\ ~\E s \in Slots : Crash(s)
<1>1. ~\E s \in Slots : Crash(s)
  BY DEF Crash, TypeOK
<1>2. CASE RequestNext
  BY <1>1, <1>2 DEF RequestNext, BeginCheckout, CheckoutStep, FindSubscription,
    SaveSubscription, PricePayment, InsertPayment, InitPayment, InitFails, LinkAccount, ChargeAccount
<1>3. CASE HookNext
  BY <1>1, <1>3 DEF HookNext, BeginConfirmation, ConfirmationStep, ComputeTariff,
    MarkPromotionAsUsed, ConfirmPayment, ActivateSubscription, GrantAccess,
    RejectPayment, RefundPayment
<1>4. CASE CronNext
  BY <1>1, <1>4 DEF CronNext, BeginRenewal, BeginCanceledCheck, CronStep,
    ClaimSubscription, PriceRenewal, InsertRenewalPayment, RequestCharge, ExpireSubscription,
    ResetUser, ResetCanceledUser
<1>5. CASE BankNext \/ UserNext \/ Tick \/ UNCHANGED vars
  BY <1>1, <1>5 DEF BankNext, BankConfirms, BankRejects, BankRefunds, BankStep, UserNext,
    CancelSubscription, ResumeSubscription, ChangePaymentMethod, RemovePaymentMethod,
    UserUpdates, Tick, vars
<1> QED
  BY <1>1, <1>2, <1>3, <1>4, <1>5 DEF Next

LEMMA NextPrice ==
  ASSUME BillingInv, PriceInv, [Next]_vars, crashes' = 0
  PROVE  PriceInv'
<1> USE DEF BillingInv
<1>0. Slots = Requests \cup Hooks \cup Crons /\ sub \in SubscriptionRow
  BY DEF Slots, TypeOK
<1>1. CASE RequestNext
  <2>1. PICK s \in Requests :
          \/ \E p \in Purchases, plan \in Plans, six \in Terms, sbp \in SbpChoices :
               BeginCheckout(s, p, plan, six, sbp)
          \/ CheckoutStep(s)
    BY <1>1 DEF RequestNext
  <2>2. jobs[s].at # "write"
    BY <2>1, IdleFields DEF BeginCheckout, Start, CheckoutStep, FindSubscription,
      SaveSubscription, PricePayment, InsertPayment, InitPayment, LinkAccount, ChargeAccount
  <2> QED
    BY <1>0, <2>1, <2>2, CheckoutPrice
<1>2. CASE HookNext
  <2>1. ASSUME NEW s \in Hooks, NEW p \in Payments, NEW r, BeginConfirmation(s, p, r)
        PROVE  PriceInv'
    <3>1. PricesStay /\ PeriodStays /\ jobs[s].at = "idle"
      BY <2>1, IdleFields DEF BeginConfirmation, Start, PricesStay, PeriodStays
    <3> QED
      BY <1>0, <2>1, <3>1, BeginEffects, OtherHandlersPrice DEF Claiming
  <2>2. ASSUME NEW s \in Hooks, ConfirmationStep(s)
        PROVE  PriceInv'
    BY <1>0, <2>2, ComputePrice, WritePrice DEF ConfirmationStep
  <2>3. ASSUME NEW p \in Payments, RejectPayment(p) \/ RefundPayment(p)
        PROVE  PriceInv'
    <3>1. PricesStay /\ PeriodStays /\ UNCHANGED jobs
      BY <2>3 DEF RejectPayment, RefundPayment, PricesStay, PeriodStays, TypeOK, PaymentRow
    <3> QED
      BY <3>1, NoHandlerPrice
  <2> QED
    BY <1>2, <2>1, <2>2, <2>3 DEF HookNext
<1>3. CASE CronNext
  <2>1. PICK s \in Crons :
          (\E p \in Renewals : BeginRenewal(s, p)) \/ BeginCanceledCheck(s) \/ CronStep(s)
    BY <1>3 DEF CronNext
  <2>2. CASE BeginCanceledCheck(s) \/ \E p \in Renewals : BeginRenewal(s, p)
    <3>1. PricesStay /\ PeriodStays /\ jobs[s].at = "idle"
      BY <2>2, IdleFields DEF BeginRenewal, BeginCanceledCheck, Start, PricesStay, PeriodStays
    <3> QED
      BY <1>0, <2>2, <3>1, BeginEffects, OtherHandlersPrice DEF Claiming
  <2>3. CASE RequestCharge(s) \/ ExpireSubscription(s) \/ ResetUser(s) \/ ResetCanceledUser(s)
    <3>1. PricesStay /\ jobs[s].at # "write"
      BY <2>3 DEF RequestCharge, ExpireSubscription, ResetUser, ResetCanceledUser, PricesStay
    <3>2. PeriodStays
      BY <1>0, <2>3 DEF RequestCharge, ExpireSubscription, ResetUser, ResetCanceledUser,
        PeriodStays, Expire, SubscriptionRow
    <3>3. Others(s) /\ jobs'[s].at \notin Claiming \cup {"write"}
      BY <1>0, <2>3, CronEffects, IdleFields DEF Ends, Fails, Claiming
    <3> QED
      BY <1>0, <3>1, <3>2, <3>3, OtherHandlersPrice
  <2> QED
    BY <1>0, <2>1, <2>2, <2>3, ClaimPrice, QuotePrice, InsertPrice DEF CronStep
<1>4. CASE BankNext \/ UserNext \/ Tick \/ UNCHANGED vars
  <2>1. PricesStay /\ UNCHANGED jobs
    BY <1>4 DEF BankNext, BankConfirms, BankRejects, BankRefunds, BankStep, UserNext,
      CancelSubscription, ResumeSubscription, ChangePaymentMethod, RemovePaymentMethod,
      UserUpdates, Tick, vars, PricesStay
  <2>2. PeriodStays
    BY <1>0, <1>4 DEF BankNext, BankConfirms, BankRejects, BankRefunds, BankStep, UserNext,
      CancelSubscription, ResumeSubscription, ChangePaymentMethod, RemovePaymentMethod,
      UserUpdates, Tick, vars, PeriodStays, Cancel, Resumable, Resume, ChangeMethod,
      RemoveMethod, SubscriptionRow
  <2> QED
    BY <2>1, <2>2, NoHandlerPrice
<1>5. ~\E s \in Slots : Crash(s)
  BY CrashesCount
<1> QED
  BY <1>1, <1>2, <1>3, <1>4, <1>5 DEF Next

(* As long as no handler has died halfway, every renewal is charged the     *)
(* full price: the confirmation that started the period consumed the        *)
(* promotion before the period could end (updateSubscriptionAndUserStatus). *)
THEOREM FullPriceRenewals == Spec => []RenewalAtFullPrice
<1> DEFINE Inv == crashes = 0 => PriceInv
<1>1. Init => Inv
  BY IdleFields DEF Init, PriceInv, PromotionIsConsumed, FullPrices, Claiming,
    NoRow, NoPaymentRow
<1>2. BillingInv /\ Inv /\ [Next]_vars => Inv'
  BY NextPrice, CrashesCount DEF BillingInv
<1>3. Inv => RenewalAtFullPrice
  BY DEF PriceInv, FullPrices, RenewalAtFullPrice
<1> HIDE DEF Inv
<1> QED
  BY <1>1, <1>2, <1>3, Invariance, PTL DEF Spec

-----------------------------------------------------------------------------
(* What becomes of a period that has been claimed.                         *)

\* The check in slot s will ask the bank for the claimed period, or expire the row.
Pursues(s) ==
  \/ jobs[s].at \in Claiming /\ jobs[s].end = sub.end
  \/ jobs[s].at = "request" /\ pay[jobs[s].pid].renews = sub.end
  \/ jobs[s].at = "fail" /\ "expire" \in jobs[s].left

\* The bank has been asked for it.
Asked(p) == pay[p].renews = sub.end /\ bank[p] # "none"

Pursued == (\E s \in Slots : Pursues(s)) \/ (\E p \in Payments : Asked(p))

ClaimInv == sub.status = "renewing" => Pursued

\* No step but a claim makes the row RENEWING, and none moves a claimed end.
NothingIsClaimed ==
  sub'.status = "renewing" => sub.status = "renewing" /\ sub'.end = sub.end

(* A payment row that is there keeps the period it was made for, and the   *)
(* bank does not forget an order.                                          *)
LEMMA OrdersStay ==
  ASSUME BillingInv, [Next]_vars
  PROVE  /\ \A p \in Payments : pay[p].status # "absent" => pay'[p].renews = pay[p].renews
         /\ \A p \in Payments : bank[p] # "none" => bank'[p] # "none"
<1>0. /\ Slots = Requests \cup Hooks \cup Crons
      /\ pay \in [Payments -> PaymentRow] /\ bank \in [Payments -> BankState]
  BY DEF Slots, BillingInv, TypeOK
<1>1. \A p \in Payments : pay[p].status # "absent" => pay'[p].renews = pay[p].renews
  <2>1. ASSUME NEW p, NEW status, pay' = [pay EXCEPT ![p].status = status]
        PROVE  \A q \in Payments : pay'[q].renews = pay[q].renews
    BY <1>0, <2>1 DEF PaymentRow
  <2>2. ASSUME NEW s \in Slots, InsertPayment(s) \/ InsertRenewalPayment(s)
        PROVE  \A p \in Payments : pay[p].status # "absent" => pay'[p] = pay[p]
    <3>1. pay[jobs[s].pid].status = "absent"
      BY <2>2 DEF InsertPayment, InsertRenewalPayment, BillingInv, PaymentInv,
        ReservedAreFresh, Reserving
    <3> QED
      BY <1>0, <2>2, <3>1 DEF InsertPayment, InsertRenewalPayment
  <2>3. CASE RequestNext
    BY <1>0, <2>2, <2>3 DEF RequestNext, BeginCheckout, CheckoutStep, FindSubscription,
      SaveSubscription, PricePayment, InitPayment, InitFails, LinkAccount, ChargeAccount
  <2>4. CASE HookNext
    BY <2>1, <2>4 DEF HookNext, BeginConfirmation, ConfirmationStep, ComputeTariff,
      MarkPromotionAsUsed, ConfirmPayment, ActivateSubscription, GrantAccess,
      RejectPayment, RefundPayment
  <2>5. CASE CronNext
    BY <1>0, <2>2, <2>5 DEF CronNext, BeginRenewal, BeginCanceledCheck, CronStep,
      ClaimSubscription, PriceRenewal, RequestCharge, ExpireSubscription, ResetUser, ResetCanceledUser
  <2>6. CASE BankNext \/ UserNext \/ (\E s \in Slots : Crash(s)) \/ Tick \/ UNCHANGED vars
    BY <2>6 DEF BankNext, BankConfirms, BankRejects, BankRefunds, BankStep, UserNext,
      CancelSubscription, ResumeSubscription, ChangePaymentMethod, RemovePaymentMethod,
      UserUpdates, Crash, Tick, vars
  <2> QED
    BY <2>3, <2>4, <2>5, <2>6 DEF Next
<1>2. \A p \in Payments : bank[p] # "none" => bank'[p] # "none"
  <2>1. ASSUME NEW s \in Slots, InitPayment(s) \/ ChargeAccount(s) \/ RequestCharge(s)
        PROVE  \A p \in Payments : bank[p] # "none" => bank'[p] = bank[p]
    <3>1. bank[jobs[s].pid] = "none"
      BY <2>1 DEF InitPayment, ChargeAccount, RequestCharge, BillingInv, PaymentInv,
        ReservedAreFresh, WillCharge
    <3> QED
      BY <1>0, <2>1, <3>1 DEF InitPayment, InitFails, ChargeAccount, RequestCharge
  <2>2. CASE RequestNext
    BY <1>0, <2>1, <2>2 DEF RequestNext, BeginCheckout, CheckoutStep, FindSubscription,
      SaveSubscription, PricePayment, InsertPayment, LinkAccount
  <2>3. CASE HookNext
    BY <2>3 DEF HookNext, BeginConfirmation, ConfirmationStep, ComputeTariff,
      MarkPromotionAsUsed, ConfirmPayment, ActivateSubscription, GrantAccess,
      RejectPayment, RefundPayment
  <2>4. CASE CronNext
    BY <1>0, <2>1, <2>4 DEF CronNext, BeginRenewal, BeginCanceledCheck, CronStep,
      ClaimSubscription, PriceRenewal, InsertRenewalPayment, ExpireSubscription, ResetUser,
      ResetCanceledUser
  <2>5. CASE BankNext
    BY <1>0, <2>5 DEF BankNext, BankConfirms, BankRejects, BankRefunds, BankStep
  <2>6. CASE UserNext \/ (\E s \in Slots : Crash(s)) \/ Tick \/ UNCHANGED vars
    BY <2>6 DEF UserNext, CancelSubscription, ResumeSubscription, ChangePaymentMethod,
      RemovePaymentMethod, UserUpdates, Crash, Tick, vars
  <2> QED
    BY <2>2, <2>3, <2>4, <2>5, <2>6 DEF Next
<1> QED
  BY <1>1, <1>2

(* In a step that claims nothing and leaves the row claimed, what pursues  *)
(* the claim goes on unless its own handler takes the step.                *)
LEMMA OthersPursue ==
  ASSUME BillingInv, [Next]_vars, sub'.end = sub.end
  PROVE  /\ \A p \in Payments : Asked(p) => Asked(p)'
         /\ \A t \in Slots : Pursues(t) /\ jobs'[t] = jobs[t] => Pursues(t)'
<1>1. \A p \in Payments : bank[p] # "none" => pay[p].status # "absent"
  BY DEF BillingInv, PaymentInv, ReservedAreFresh
<1>2. \A p \in Payments : Asked(p) => Asked(p)'
  BY <1>1, OrdersStay DEF Asked
<1>3. ASSUME NEW t \in Slots, jobs[t].at = "request"
      PROVE  pay'[jobs[t].pid].renews = pay[jobs[t].pid].renews
  <2>1. jobs[t].pid \in Payments /\ pay[jobs[t].pid].status = "new"
    BY <1>3 DEF BillingInv, PaymentInv, OwnersAreDistinct, ReservedAreFresh, Owning, WillCharge
  <2> QED
    BY <2>1, OrdersStay
<1>4. \A t \in Slots : Pursues(t) /\ jobs'[t] = jobs[t] => Pursues(t)'
  BY <1>3 DEF Pursues
<1> QED
  BY <1>2, <1>4

(* The steps that neither claim nor work on a claim.                       *)
LEMMA NobodysClaim ==
  ASSUME BillingInv, ClaimInv, [Next]_vars, NothingIsClaimed,
         \A t \in Slots :
           jobs'[t] = jobs[t] \/ jobs[t].at \notin Claiming \cup {"request", "fail"}
  PROVE  ClaimInv'
<1> SUFFICES ASSUME sub'.status = "renewing"
             PROVE  Pursued'
  BY DEF ClaimInv
<1>1. Pursued /\ sub'.end = sub.end
  BY DEF ClaimInv, NothingIsClaimed
<1>2. \A t \in Slots : Pursues(t) => jobs'[t] = jobs[t]
  BY DEF Pursues, Claiming
<1> QED
  BY <1>1, <1>2, OthersPursue DEF Pursued

(* A handler that fails is to expire the row. *)
LEMMA FailingPursues ==
  ASSUME TypeOK, NEW s \in Slots, Continue(s, Failing(jobs[s]))
  PROVE  Pursues(s)'
<1>1. jobs'[s].left = {"expire", "reset"} /\ jobs'[s].at = "fail"
  BY DEF Continue, Failing, TypeOK, Job
<1> QED
  BY <1>1 DEF Pursues

(* The steps of a handler on its claim.                                    *)
LEMMA ClaimersPursue ==
  ASSUME BillingInv, ClaimInv, [Next]_vars, NEW s \in Slots,
         \/ ClaimSubscription(s) \/ PriceRenewal(s) \/ InsertRenewalPayment(s)
         \/ RequestCharge(s) \/ ExpireSubscription(s) \/ ResetUser(s)
  PROVE  ClaimInv'
<1> DEFINE job == jobs[s]
<1>0. /\ TypeOK /\ job \in Job /\ sub \in SubscriptionRow
      /\ jobs \in [Slots -> Job]
      /\ pay \in [Payments -> PaymentRow] /\ bank \in [Payments -> BankState]
  BY DEF BillingInv, TypeOK
<1>1. CASE ClaimSubscription(s)
  <2>1. CASE ~Expired(sub, "active", now)
    <3>1. sub' = sub /\ Others(s) /\ job.at = "claim"
      BY <1>0, <1>1, <2>1 DEF ClaimSubscription, PriceRenewal, Finish, Others
    <3> QED
      BY <3>1, NobodysClaim DEF NothingIsClaimed, Others, Claiming
  <2>2. CASE Expired(sub, "active", now) /\ ~job.flag
    <3>1. Continue(s, Failing(job))
      BY <1>1, <2>2 DEF ClaimSubscription
    <3> QED
      BY <1>0, <3>1, FailingPursues DEF ClaimInv, Pursued
  <2>3. CASE Expired(sub, "active", now) /\ job.flag
    <3>1. /\ sub' = Claim(sub)
          /\ Continue(s, [job EXCEPT !.at = "quote", !.end = sub.end])
      BY <1>1, <2>3 DEF ClaimSubscription
    <3>2. jobs'[s].at = "quote" /\ jobs'[s].end = sub.end
      BY <1>0, <3>1 DEF Continue, Job
    <3>3. sub'.end = sub.end
      BY <1>0, <3>1 DEF Claim, SubscriptionRow
    <3> QED
      BY <3>2, <3>3 DEF ClaimInv, Pursued, Pursues, Claiming
  <2> QED
    BY <2>1, <2>2, <2>3
<1>2. CASE ExpireSubscription(s)
  BY <1>0, <1>2 DEF ExpireSubscription, Expire, SubscriptionRow, ClaimInv
<1>3. ASSUME UNCHANGED sub, Others(s),
             Pursues(s) => Pursues(s)' \/ \E p \in Payments : Asked(p)'
      PROVE  ClaimInv'
  <2>1. \A t \in Slots : Pursues(t) =>
          Pursues(t)' \/ \E p \in Payments : Asked(p)'
    BY <1>3, OthersPursue DEF Others
  <2> QED
    BY <1>3, <2>1, OthersPursue DEF ClaimInv, Pursued
<1>7. CASE PriceRenewal(s)
  <2>1. /\ Others(s) /\ UNCHANGED sub /\ job.at = "quote"
        /\ Fails(s) \/ (Becomes(s, "insert") /\ jobs'[s].end = job.end)
    BY <1>0, <1>7, CronEffects DEF PriceRenewal
  <2>2. Pursues(s) => Pursues(s)'
    <3>1. CASE Continue(s, Failing(job))
      BY <1>0, <3>1, FailingPursues
    <3>2. CASE jobs'[s].at = "insert" /\ jobs'[s].end = job.end
      BY <2>1, <3>2 DEF Pursues, Claiming
    <3>3. ~Continue(s, Failing(job)) => jobs'[s].at = "insert"
      <4> DEFINE trial == TariffNow(job.plan, job.six).trial
                 priced == [job EXCEPT !.at = "insert", !.trial = trial]
      <4>1. ~Continue(s, Failing(job)) => Continue(s, priced)
        BY <1>7 DEF PriceRenewal
      <4>2. priced.at = "insert"
        BY <1>0 DEF Job
      <4> HIDE DEF priced
      <4> QED
        BY <1>0, <4>1, <4>2 DEF Continue
    <3> QED
      BY <2>1, <3>1, <3>2, <3>3 DEF Fails
  <2> QED
    BY <1>3, <2>1, <2>2
<1>4. CASE InsertRenewalPayment(s)
  <2>1. /\ Others(s) /\ UNCHANGED sub
        /\ job.at = "insert" /\ job.pid \in Payments
    BY <1>0, <1>4, CronEffects DEF InsertRenewalPayment, BillingInv, PaymentInv,
      OwnersAreDistinct, Owning, Reserving
  <2>2. CASE Continue(s, Failing(job))
    BY <1>0, <1>3, <2>1, <2>2, FailingPursues
  <2>3. CASE /\ Continue(s, [job EXCEPT !.at = "request"])
             /\ pay' = [pay EXCEPT ![job.pid] = NewPayment(job.trial, job.end)]
    <3>1. jobs'[s].at = "request" /\ jobs'[s].pid = job.pid
      BY <1>0, <2>3 DEF Continue, Job
    <3>2. pay'[job.pid].renews = job.end
      BY <1>0, <2>1, <2>3 DEF NewPayment
    <3>3. Pursues(s) => Pursues(s)'
      BY <2>1, <3>1, <3>2 DEF Pursues
    <3> QED
      BY <1>3, <2>1, <3>3
  <2> QED
    BY <1>4, <2>2, <2>3 DEF InsertRenewalPayment
<1>5. CASE RequestCharge(s)
  <2>1. Others(s) /\ UNCHANGED <<sub, pay>> /\ job.at = "request" /\ job.pid \in Payments
    BY <1>0, <1>5, CronEffects DEF RequestCharge, BillingInv, PaymentInv,
      OwnersAreDistinct, Owning
  <2>2. CASE Continue(s, Failing(job))
    BY <1>0, <1>3, <2>1, <2>2, FailingPursues
  <2>3. CASE bank' = [bank EXCEPT ![job.pid] = "open"]
    <3>1. bank'[job.pid] # "none"
      BY <1>0, <2>1, <2>3
    <3>2. \A p \in Payments : p = job.pid /\ Pursues(s) => Asked(p)'
      BY <2>1, <3>1 DEF Pursues, Asked, Claiming
    <3> QED
      BY <1>3, <2>1, <3>2
  <2> QED
    BY <1>5, <2>2, <2>3 DEF RequestCharge
<1>6. CASE ResetUser(s)
  <2>1. UNCHANGED sub /\ job.at = "fail" /\ Done(s, "reset")
    BY <1>6 DEF ResetUser
  <2>2. Others(s)
    BY <1>0, <2>1, DoneEffect
  <2>3. ASSUME "expire" \in job.left
        PROVE  jobs'[s].at = "fail" /\ "expire" \in jobs'[s].left
    BY <1>0, <2>1, <2>3 DEF Done, Continue, Job
  <2>4. Pursues(s) => Pursues(s)'
    BY <2>1, <2>3 DEF Pursues, Claiming
  <2> QED
    BY <1>3, <2>1, <2>2, <2>4
<1> QED
  BY <1>1, <1>2, <1>4, <1>5, <1>6, <1>7

LEMMA NextClaim ==
  ASSUME BillingInv, ClaimInv, [Next]_vars, crashes' = 0
  PROVE  ClaimInv'
<1>0. Slots = Requests \cup Hooks \cup Crons /\ TypeOK /\ sub \in SubscriptionRow
  BY DEF Slots, BillingInv, TypeOK
<1>1. ASSUME NEW s \in Slots, Others(s), NothingIsClaimed,
             jobs[s].at \notin Claiming \cup {"request", "fail"}
      PROVE  ClaimInv'
  BY <1>1, NobodysClaim DEF Others
<1>2. CASE RequestNext
  <2>1. PICK s \in Requests :
          \/ \E p \in Purchases, plan \in Plans, six \in Terms, sbp \in SbpChoices :
               BeginCheckout(s, p, plan, six, sbp)
          \/ CheckoutStep(s)
    BY <1>2 DEF RequestNext
  <2>2. Others(s)
    BY <1>0, <2>1, CheckoutSlots
  <2>3. jobs[s].at \notin Claiming \cup {"request", "fail"}
    BY <2>1, IdleFields DEF Claiming, BeginCheckout, Start, CheckoutStep, FindSubscription,
      SaveSubscription, PricePayment, InsertPayment, InitPayment, LinkAccount, ChargeAccount
  <2>4. NothingIsClaimed
    BY <1>0, <2>1 DEF BeginCheckout, CheckoutStep, FindSubscription, SaveSubscription, PricePayment,
      InsertPayment, InitPayment, InitFails, LinkAccount, ChargeAccount, NothingIsClaimed,
      Checkout, UpdateAccountToken, SubscriptionRow
  <2> QED
    BY <1>0, <1>1, <2>2, <2>3, <2>4
<1>3. CASE HookNext
  <2>1. ASSUME NEW s \in Hooks, NEW p \in Payments, NEW r, BeginConfirmation(s, p, r)
        PROVE  ClaimInv'
    <3>1. jobs[s].at = "idle" /\ NothingIsClaimed
      BY <2>1, IdleFields DEF BeginConfirmation, Start, NothingIsClaimed, Claiming
    <3>2. Others(s)
      BY <1>0, <2>1, BeginEffects
    <3> QED
      BY <1>0, <1>1, <3>1, <3>2 DEF Claiming
  <2>2. ASSUME NEW s \in Hooks, ConfirmationStep(s)
        PROVE  ClaimInv'
    <3>1. jobs[s].at \in {"tariff", "write"}
      BY <2>2 DEF ConfirmationStep, ComputeTariff, MarkPromotionAsUsed, ConfirmPayment,
        ActivateSubscription, GrantAccess, Writing
    <3>2. NothingIsClaimed
      BY <1>0, <2>2 DEF ConfirmationStep, ComputeTariff, MarkPromotionAsUsed,
        ConfirmPayment, ActivateSubscription, GrantAccess, NothingIsClaimed, Activate,
        SubscriptionRow
    <3>3. Others(s)
      BY <1>0, <2>2, ConfirmationEffects DEF ConfirmationStep
    <3> QED
      BY <1>0, <1>1, <3>1, <3>2, <3>3 DEF Claiming
  <2>3. ASSUME NEW p \in Payments, RejectPayment(p) \/ RefundPayment(p)
        PROVE  ClaimInv'
    BY <2>3, NobodysClaim DEF RejectPayment, RefundPayment, NothingIsClaimed
  <2> QED
    BY <1>3, <2>1, <2>2, <2>3 DEF HookNext
<1>4. CASE CronNext
  <2>1. PICK s \in Crons :
          (\E p \in Renewals : BeginRenewal(s, p)) \/ BeginCanceledCheck(s) \/ CronStep(s)
    BY <1>4 DEF CronNext
  <2>2. CASE BeginCanceledCheck(s) \/ \E p \in Renewals : BeginRenewal(s, p)
    <3>1. jobs[s].at = "idle" /\ NothingIsClaimed
      BY <2>2, IdleFields DEF BeginRenewal, BeginCanceledCheck, Start, NothingIsClaimed
    <3>2. Others(s)
      BY <1>0, <2>2, BeginEffects
    <3> QED
      BY <1>0, <1>1, <3>1, <3>2 DEF Claiming
  <2>3. CASE ResetCanceledUser(s)
    <3>1. jobs[s].at = "free" /\ NothingIsClaimed
      BY <2>3 DEF ResetCanceledUser, NothingIsClaimed
    <3>2. Others(s)
      BY <1>0, <2>3, CronEffects
    <3> QED
      BY <1>0, <1>1, <3>1, <3>2 DEF Claiming
  <2> QED
    BY <1>0, <2>1, <2>2, <2>3, ClaimersPursue DEF CronStep
<1>5. CASE BankNext \/ UserNext \/ Tick \/ UNCHANGED vars
  <2>1. UNCHANGED jobs
    BY <1>5 DEF BankNext, BankConfirms, BankRejects, BankRefunds, BankStep, UserNext,
      CancelSubscription, ResumeSubscription, ChangePaymentMethod, RemovePaymentMethod,
      UserUpdates, Tick, vars
  <2>2. NothingIsClaimed
    BY <1>0, <1>5 DEF BankNext, BankConfirms, BankRejects, BankRefunds, BankStep, UserNext,
      CancelSubscription, ResumeSubscription, ChangePaymentMethod, RemovePaymentMethod,
      UserUpdates, Tick, vars, NothingIsClaimed, Cancel, Resume, ChangeMethod,
      RemoveMethod, SubscriptionRow
  <2> QED
    BY <2>1, <2>2, NobodysClaim
<1>6. ~\E s \in Slots : Crash(s)
  BY <1>0, CrashesCount
<1> QED
  BY <1>2, <1>3, <1>4, <1>5, <1>6 DEF Next

(* As long as no handler has died halfway, a claimed period is not          *)
(* forgotten: its check goes on, or the bank has been asked for it          *)
(* (handleRenewSubscriptionCheck).                                          *)
THEOREM ClaimsArePursued == Spec => []ClaimIsPursued
<1> DEFINE Inv == crashes = 0 => ClaimInv
<1>1. Init => Inv
  BY DEF Init, ClaimInv, NoRow
<1>2. BillingInv /\ Inv /\ [Next]_vars => Inv'
  BY NextClaim, CrashesCount DEF BillingInv
<1>3. Inv => ClaimIsPursued
  BY DEF ClaimInv, Pursued, Pursues, Claiming, Asked, ClaimIsPursued
<1> HIDE DEF Inv
<1> QED
  BY <1>1, <1>2, <1>3, Invariance, PTL DEF Spec
=============================================================================
