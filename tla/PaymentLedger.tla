---------------------------- MODULE PaymentLedger ----------------------------
(***************************************************************************)
(* One row of table payment under the notifications of WebhookService      *)
(* (src/src/payment/webhook).  Module Billing shows what a notification    *)
(* does to the subscription and the user; this one keeps what Billing      *)
(* abstracts: the payment date, the receipt, an attempt that the bank      *)
(* rejects before another one succeeds, and the three steps of a           *)
(* confirmation: read the row, choose the date, write the row.             *)
(*                                                                         *)
(* Rows of distinct payments share nothing, so one row is the general case.*)
(***************************************************************************)
EXTENDS Integers

CONSTANTS
  Hooks,    \* slots of CONFIRMED notifications being handled
  Urls,     \* valid receipt URLs
  NoUrl,    \* no receipt
  Overlap,  \* may a notification arrive while another is being handled?
  MaxTime   \* bound on the clock

ASSUME LedgerAssumption ==
  NoUrl \notin Urls /\ Overlap \in BOOLEAN /\ MaxTime \in Nat

VARIABLES
  clock,  \* the time that new Date() reads
  row,    \* the payment's row
  bank,   \* what the bank has done with the order
  hooks   \* hooks[h]: the confirmation in slot h, with what it has read

vars == <<clock, row, bank, hooks>>

NoDate == 0
PaymentStatus == {"new", "confirmed", "rejected", "refunded"}
PaymentRow == [status : PaymentStatus, date : Nat, url : Urls \cup {NoUrl}]

\* paid: the fate of the order; failed: has an attempt to pay it failed?
BankOrder == [paid : {"open", "confirmed", "refunded"}, failed : BOOLEAN]

Hook == [at : {"idle", "tariff", "write"}, status : PaymentStatus, date : Nat]
Idle == [at |-> "idle", status |-> "new", date |-> NoDate]

Turn == Overlap \/ \A h \in Hooks : hooks[h] = Idle

Init ==
  /\ clock = 1
  /\ row = [status |-> "new", date |-> NoDate, url |-> NoUrl]
  /\ bank = [paid |-> "open", failed |-> FALSE]
  /\ hooks = [h \in Hooks |-> Idle]

-----------------------------------------------------------------------------
(* CONFIRMED.  A payment read as refunded is left alone: no step at all.   *)

ReadPayment(h) ==
  /\ Turn
  /\ hooks[h] = Idle
  /\ bank.paid # "open"
  /\ row.status # "refunded"
  /\ hooks' = [hooks EXCEPT ![h] =
                 [at |-> "tariff", status |-> row.status, date |-> row.date]]
  /\ UNCHANGED <<clock, row, bank>>

\* Mutants of PaymentDate: always the date read, always today.
DateRead(hook) == hook.date
DateToday(hook) == clock

PaymentDate(hook) == IF hook.status = "confirmed" THEN hook.date ELSE clock

ChooseDate(h) ==
  /\ hooks[h].at = "tariff"
  /\ hooks' = [hooks EXCEPT ![h].at = "write", ![h].date = PaymentDate(hooks[h])]
  /\ UNCHANGED <<clock, row, bank>>

WriteConfirmation(h) ==
  /\ hooks[h].at = "write"
  /\ row' = [row EXCEPT !.status = "confirmed", !.date = hooks[h].date]
  /\ hooks' = [hooks EXCEPT ![h] = Idle]
  /\ UNCHANGED <<clock, bank>>

\* A crash, or a failure of getTariff: the bank will notify again.
Abandon(h) ==
  /\ hooks[h] # Idle
  /\ hooks' = [hooks EXCEPT ![h] = Idle]
  /\ UNCHANGED <<clock, row, bank>>

-----------------------------------------------------------------------------
(* The notifications that are one statement each.                          *)

\* Mutant of RejectPayment: the update does not look for a new payment.
RejectAnyPayment ==
  /\ Turn
  /\ bank.failed
  /\ row' = [row EXCEPT !.status = "rejected", !.date = clock]
  /\ UNCHANGED <<clock, bank, hooks>>

\* REJECTED, or any notification without Success.
RejectPayment ==
  /\ Turn
  /\ bank.failed
  /\ row.status = "new"
  /\ row' = [row EXCEPT !.status = "rejected", !.date = clock]
  /\ UNCHANGED <<clock, bank, hooks>>

RefundPayment ==
  /\ Turn
  /\ bank.paid = "refunded"
  /\ row' = [row EXCEPT !.status = "refunded"]
  /\ UNCHANGED <<clock, bank, hooks>>

\* RECEIPT, when the fiscalization succeeded.
SaveReceipt(url) ==
  /\ Turn
  /\ bank.paid # "open"
  /\ row' = [row EXCEPT !.url = url]
  /\ UNCHANGED <<clock, bank, hooks>>

-----------------------------------------------------------------------------
(* The bank, and time.                                                     *)

AttemptFails ==
  /\ bank.paid = "open"
  /\ bank' = [bank EXCEPT !.failed = TRUE]
  /\ UNCHANGED <<clock, row, hooks>>

BankConfirms ==
  /\ bank.paid = "open"
  /\ bank' = [bank EXCEPT !.paid = "confirmed"]
  /\ UNCHANGED <<clock, row, hooks>>

BankRefunds ==
  /\ bank.paid = "confirmed"
  /\ bank' = [bank EXCEPT !.paid = "refunded"]
  /\ UNCHANGED <<clock, row, hooks>>

Tick ==
  /\ clock < MaxTime
  /\ clock' = clock + 1
  /\ UNCHANGED <<row, bank, hooks>>

Next ==
  \/ \E h \in Hooks :
       ReadPayment(h) \/ ChooseDate(h) \/ WriteConfirmation(h) \/ Abandon(h)
  \/ RejectPayment \/ RefundPayment
  \/ \E url \in Urls : SaveReceipt(url)
  \/ AttemptFails \/ BankConfirms \/ BankRefunds
  \/ Tick

Spec == Init /\ [][Next]_vars

-----------------------------------------------------------------------------
(* Properties.                                                             *)

TypeOK ==
  /\ clock \in Nat \ {0}
  /\ row \in PaymentRow
  /\ bank \in BankOrder
  /\ hooks \in [Hooks -> Hook]

\* However notifications overlap, a late rejection of an earlier attempt never
\* hides a payment that has been recorded as paid (rejectPayment writes only what
\* is still new, whatever the handlers in flight have read).
PaidStaysPaid ==
  [][row.status \in {"confirmed", "refunded"} =>
       row'.status \in {"confirmed", "refunded"}]_row

\* getHistory shows every payment but a new one.
InHistory == row.status \in {"confirmed", "rejected", "refunded"}

\* A payment recorded as paid or rejected has a date in the history, also when a
\* confirmation writes a date that it has read from the row some time ago.
RecordedIsDated ==
  /\ InHistory /\ row.status # "refunded" => row.date # NoDate
  /\ \A h \in Hooks :
       /\ hooks[h].at # "idle" /\ hooks[h].status = "confirmed" => hooks[h].date # NoDate
       /\ hooks[h].at = "write" => hooks[h].date # NoDate

\* Notifications handled one at a time give the payment the life that its
\* history promises (README.md, lines 259 to 262).
Lifecycle == INSTANCE PaymentLifecycle WITH
  status <- row.status, date <- row.date

ImplementsLifecycle == Lifecycle!Spec

-----------------------------------------------------------------------------
(* The inductive invariant: what a confirmation has read is still so.      *)

OneAtATime ==
  \A g, h \in Hooks : (hooks[g].at # "idle" /\ hooks[h].at # "idle") => g = h

ReadIsCurrent ==
  \A h \in Hooks :
    /\ hooks[h].at # "idle" =>
         hooks[h].status = row.status /\ row.status # "refunded"
    /\ hooks[h].at = "tariff" => hooks[h].date = row.date
    /\ hooks[h].at = "write" =>
         /\ row.status = "confirmed" => hooks[h].date = row.date
         /\ row.status # "confirmed" => hooks[h].date \in 1..clock

SerialInv == TypeOK /\ OneAtATime /\ ReadIsCurrent

-----------------------------------------------------------------------------
(* Statements of the repository that overlapping notifications break.      *)

\* README.md, line 262: a refunded payment cannot be confirmed again.
RefundIsFinal ==
  [][row.status = "refunded" => row'.status = "refunded"]_row

=============================================================================
