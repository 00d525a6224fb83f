------------------------- MODULE PaymentLedgerProofs -------------------------
(***************************************************************************)
(* Proofs about module PaymentLedger, for any number of confirmations in   *)
(* flight and any length of time.                                          *)
(***************************************************************************)
EXTENDS PaymentLedger, TLAPS

LEMMA IdleIsHook == Idle \in Hook /\ Idle.at = "idle" /\ Idle.status = "new"
BY DEF Idle, Hook, PaymentStatus, NoDate

LEMMA InitType == Init => TypeOK
BY IdleIsHook DEF Init, TypeOK, PaymentRow, PaymentStatus, BankOrder, NoDate

LEMMA NextType ==
  ASSUME TypeOK, [Next]_vars
  PROVE  TypeOK'
<1>1. ASSUME NEW h \in Hooks, ReadPayment(h)
      PROVE  TypeOK'
  BY <1>1 DEF ReadPayment, TypeOK, Hook, PaymentRow
<1>2. ASSUME NEW h \in Hooks, ChooseDate(h)
      PROVE  TypeOK'
  <2>1. PaymentDate(hooks[h]) \in Nat
    BY DEF PaymentDate, TypeOK, Hook
  <2>2. QED
    BY <1>2, <2>1 DEF ChooseDate, TypeOK, Hook
<1>3. ASSUME NEW h \in Hooks, WriteConfirmation(h)
      PROVE  TypeOK'
  <2>1. hooks[h].date \in Nat
    BY DEF TypeOK, Hook
  <2>2. QED
    BY <1>3, <2>1, IdleIsHook DEF WriteConfirmation, TypeOK, PaymentRow, PaymentStatus
<1>4. ASSUME NEW h \in Hooks, Abandon(h)
      PROVE  TypeOK'
  BY <1>4, IdleIsHook DEF Abandon, TypeOK
<1>5. CASE RejectPayment \/ RefundPayment \/ \E url \in Urls : SaveReceipt(url)
  BY <1>5 DEF RejectPayment, RefundPayment, SaveReceipt, TypeOK, PaymentRow, PaymentStatus
<1>6. CASE AttemptFails \/ BankConfirms \/ BankRefunds
  BY <1>6 DEF AttemptFails, BankConfirms, BankRefunds, TypeOK, BankOrder
<1>7. CASE Tick
  BY <1>7 DEF Tick, TypeOK
<1>8. CASE UNCHANGED vars
  BY <1>8 DEF vars, TypeOK
<1>9. QED
  BY <1>1, <1>2, <1>3, <1>4, <1>5, <1>6, <1>7, <1>8 DEF Next

(* The row and the handlers keep their types.                              *)
THEOREM TypeCorrect == Spec => []TypeOK
<1>1. QED
  BY InitType, NextType, PTL DEF Spec

-----------------------------------------------------------------------------
(* No overlap of notifications makes a recorded payment look unpaid.       *)
THEOREM PaidIsNotHidden == Spec => PaidStaysPaid
<1>1. TypeOK /\ [Next]_vars =>
        [row.status \in {"confirmed", "refunded"} =>
           row'.status \in {"confirmed", "refunded"}]_row
  <2> SUFFICES ASSUME TypeOK, Next, row.status \in {"confirmed", "refunded"}
               PROVE  row'.status \in {"confirmed", "refunded"} \/ row' = row
    BY DEF vars
  <2>1. ASSUME NEW h \in Hooks, WriteConfirmation(h)
        PROVE  row'.status = "confirmed"
    BY <2>1 DEF WriteConfirmation, TypeOK, PaymentRow
  <2>2. ASSUME RefundPayment
        PROVE  row'.status = "refunded"
    BY <2>2 DEF RefundPayment, TypeOK, PaymentRow
  <2>3. ASSUME NEW url \in Urls, SaveReceipt(url)
        PROVE  row'.status = row.status
    BY <2>3 DEF SaveReceipt, TypeOK, PaymentRow
  <2>4. QED
    BY <2>1, <2>2, <2>3 DEF Next, ReadPayment, ChooseDate, Abandon, RejectPayment,
      AttemptFails, BankConfirms, BankRefunds, Tick
<1>2. QED
  BY <1>1, TypeCorrect, PTL DEF Spec, PaidStaysPaid

-----------------------------------------------------------------------------
LEMMA InitDated == Init => RecordedIsDated
BY IdleIsHook DEF Init, RecordedIsDated, InHistory

LEMMA NextDated ==
  ASSUME TypeOK, RecordedIsDated, [Next]_vars
  PROVE  RecordedIsDated'
<1>1. ASSUME NEW h \in Hooks, ReadPayment(h)
      PROVE  RecordedIsDated'
  BY <1>1 DEF ReadPayment, RecordedIsDated, InHistory, TypeOK
<1>2. ASSUME NEW h \in Hooks, ChooseDate(h)
      PROVE  RecordedIsDated'
  <2>1. PaymentDate(hooks[h]) # NoDate
    BY <1>2 DEF ChooseDate, PaymentDate, RecordedIsDated, InHistory, TypeOK, NoDate
  <2>2. QED
    BY <1>2, <2>1 DEF ChooseDate, RecordedIsDated, InHistory, TypeOK, Hook
<1>3. ASSUME NEW h \in Hooks, WriteConfirmation(h)
      PROVE  RecordedIsDated'
  <2>1. row'.date # NoDate
    BY <1>3 DEF WriteConfirmation, RecordedIsDated, InHistory, TypeOK, PaymentRow
  <2>2. QED
    BY <1>3, <2>1, IdleIsHook DEF WriteConfirmation, RecordedIsDated, InHistory, TypeOK
<1>4. ASSUME NEW h \in Hooks, Abandon(h)
      PROVE  RecordedIsDated'
  BY <1>4, IdleIsHook DEF Abandon, RecordedIsDated, InHistory, TypeOK
<1>5. CASE RejectPayment
  BY <1>5 DEF RejectPayment, RecordedIsDated, InHistory, TypeOK, PaymentRow, NoDate
<1>6. CASE RefundPayment \/ \E url \in Urls : SaveReceipt(url)
  BY <1>6 DEF RefundPayment, SaveReceipt, RecordedIsDated, InHistory, TypeOK, PaymentRow
<1>7. CASE UNCHANGED <<row, hooks>>
  BY <1>7 DEF RecordedIsDated, InHistory
<1>8. QED
  BY <1>1, <1>2, <1>3, <1>4, <1>5, <1>6, <1>7
  DEF Next, AttemptFails, BankConfirms, BankRefunds, Tick, vars

(* Paid and rejected payments are dated, whatever overlaps.                *)
THEOREM HistoryIsDated == Spec => []RecordedIsDated
<1>1. TypeOK /\ RecordedIsDated /\ [Next]_vars => RecordedIsDated'
  BY NextDated
<1>2. QED
  BY <1>1, InitDated, TypeCorrect, PTL DEF Spec

-----------------------------------------------------------------------------
(* Notifications one at a time.                                            *)
LEMMA InitSerial == Init => SerialInv
BY InitType, IdleIsHook DEF Init, SerialInv, OneAtATime, ReadIsCurrent

LEMMA NextSerial ==
  ASSUME Overlap = FALSE, SerialInv, [Next]_vars
  PROVE  SerialInv'
<1>0. TypeOK /\ OneAtATime /\ ReadIsCurrent /\ TypeOK'
  BY NextType DEF SerialInv
<1>1. ASSUME NEW h \in Hooks, ReadPayment(h)
      PROVE  OneAtATime' /\ ReadIsCurrent'
  <2>1. \A g \in Hooks : hooks[g].at = "idle"
    BY <1>1, IdleIsHook DEF ReadPayment, Turn
  <2>2. QED
    BY <1>0, <1>1, <2>1 DEF ReadPayment, OneAtATime, ReadIsCurrent, TypeOK
<1>2. ASSUME NEW h \in Hooks, ChooseDate(h)
      PROVE  OneAtATime' /\ ReadIsCurrent'
  <2>1. /\ hooks'[h].at = "write" /\ hooks'[h].status = hooks[h].status
        /\ hooks'[h].date = PaymentDate(hooks[h])
        /\ \A g \in Hooks : g # h => hooks'[g] = hooks[g]
    BY <1>0, <1>2 DEF ChooseDate, TypeOK, Hook
  <2>2. /\ hooks[h].status = row.status /\ row.status # "refunded"
        /\ hooks[h].date = row.date
    BY <1>0, <1>2 DEF ChooseDate, ReadIsCurrent
  <2>3. UNCHANGED <<row, clock>> /\ clock \in 1..clock /\ hooks[h].at = "tariff"
    BY <1>0, <1>2 DEF ChooseDate, TypeOK
  <2>4. OneAtATime'
    BY <1>0, <2>1, <2>3 DEF OneAtATime
  <2>5. ReadIsCurrent'
    BY <1>0, <2>1, <2>2, <2>3 DEF ReadIsCurrent, PaymentDate
  <2>6. QED
    BY <2>4, <2>5
<1>3. ASSUME NEW h \in Hooks, WriteConfirmation(h)
      PROVE  OneAtATime' /\ ReadIsCurrent'
  <2>1. \A g \in Hooks : hooks'[g].at = "idle"
    BY <1>0, <1>3, IdleIsHook DEF WriteConfirmation, OneAtATime, TypeOK
  <2>2. QED
    BY <2>1 DEF OneAtATime, ReadIsCurrent
<1>4. ASSUME NEW h \in Hooks, Abandon(h)
      PROVE  OneAtATime' /\ ReadIsCurrent'
  BY <1>0, <1>4, IdleIsHook DEF Abandon, OneAtATime, ReadIsCurrent, TypeOK
<1>5. CASE RejectPayment \/ RefundPayment \/ \E url \in Urls : SaveReceipt(url)
  <2>1. (\A g \in Hooks : hooks[g].at = "idle") /\ UNCHANGED hooks
    BY <1>5, IdleIsHook DEF RejectPayment, RefundPayment, SaveReceipt, Turn
  <2>2. QED
    BY <1>0, <2>1 DEF SerialInv, OneAtATime, ReadIsCurrent
<1>6. CASE Tick
  BY <1>0, <1>6 DEF Tick, SerialInv, OneAtATime, ReadIsCurrent, TypeOK
<1>7. CASE UNCHANGED <<clock, row, hooks>>
  BY <1>0, <1>7 DEF SerialInv, OneAtATime, ReadIsCurrent
<1>8. QED
  BY <1>0, <1>1, <1>2, <1>3, <1>4, <1>5, <1>6, <1>7
  DEF SerialInv, Next, AttemptFails, BankConfirms, BankRefunds, vars

(* As long as the bank sends the notifications of a payment one at a time, *)
(* the row lives the life that the README describes: refunds are final and *)
(* dates are set once.                                                     *)
THEOREM Refinement == Overlap = FALSE /\ Spec => ImplementsLifecycle
<1> SUFFICES ASSUME Overlap = FALSE PROVE Spec => ImplementsLifecycle
  OBVIOUS
<1>1. Init => Lifecycle!Init
  BY DEF Init, Lifecycle!Init, NoDate
<1>2. SerialInv /\ [Next]_vars => [Lifecycle!Next]_<<clock, row.status, row.date>>
  <2> SUFFICES ASSUME SerialInv, [Next]_vars
               PROVE  Lifecycle!Next \/ UNCHANGED <<clock, row.status, row.date>>
    OBVIOUS
  <2>0. row \in PaymentRow /\ clock \in Nat
    BY DEF SerialInv, TypeOK
  <2>1. ASSUME NEW h \in Hooks, WriteConfirmation(h)
        PROVE  Lifecycle!Confirm \/ UNCHANGED <<clock, row.status, row.date>>
    <3>1. /\ row'.status = "confirmed" /\ row'.date = hooks[h].date /\ clock' = clock
          /\ hooks[h].at = "write"
      BY <2>0, <2>1 DEF WriteConfirmation, PaymentRow
    <3>2. /\ row.status \in {"new", "rejected", "confirmed"}
          /\ row.status = "confirmed" => hooks[h].date = row.date
          /\ row.status # "confirmed" => hooks[h].date \in 1..clock
      BY <2>0, <3>1 DEF SerialInv, ReadIsCurrent, PaymentRow, PaymentStatus
    <3>3. QED
      BY <3>1, <3>2 DEF Lifecycle!Confirm
  <2>2. CASE RejectPayment
    BY <2>0, <2>2 DEF RejectPayment, Lifecycle!Reject, Lifecycle!Next, PaymentRow
  <2>3. CASE RefundPayment
    BY <2>0, <2>3 DEF RefundPayment, Lifecycle!Refund, Lifecycle!Next, PaymentRow
  <2>4. CASE \E url \in Urls : SaveReceipt(url)
    BY <2>0, <2>4 DEF SaveReceipt, PaymentRow
  <2>5. CASE Tick
    BY <2>0, <2>5 DEF Tick, Lifecycle!TimePasses, Lifecycle!Next
  <2>6. QED
    BY <2>1, <2>2, <2>3, <2>4, <2>5 DEF Next, Lifecycle!Next, ReadPayment, ChooseDate,
      Abandon, AttemptFails, BankConfirms, BankRefunds, vars
<1>3. SerialInv /\ [Next]_vars => SerialInv'
  BY NextSerial
<1>4. QED
  BY <1>1, <1>2, <1>3, InitSerial, PTL DEF Spec, ImplementsLifecycle, Lifecycle!Spec

=============================================================================
