-------------------------- MODULE PaymentLifecycle --------------------------
(***************************************************************************)
(* The life of a payment as its history shows it: a rejected attempt may   *)
(* still be paid, a paid payment may be refunded, a refund is the end, and *)
(* the date is set when the payment is rejected or paid and never changes  *)
(* otherwise.                                                              *)
(***************************************************************************)
EXTENDS Integers

VARIABLES
  clock,   \* the time
  status,  \* new, rejected, confirmed or refunded
  date     \* the payment date, 0 while unknown

Init == clock = 1 /\ status = "new" /\ date = 0

Reject ==
  /\ status = "new"
  /\ status' = "rejected" /\ date' = clock
  /\ UNCHANGED clock

Confirm ==
  /\ status \in {"new", "rejected"}
  /\ status' = "confirmed" /\ date' \in 1..clock
  /\ UNCHANGED clock

Refund ==
  /\ status # "refunded"
  /\ status' = "refunded"
  /\ UNCHANGED <<clock, date>>

TimePasses == clock' > clock /\ UNCHANGED <<status, date>>

Next == Reject \/ Confirm \/ Refund \/ TimePasses

Spec == Init /\ [][Next]_<<clock, status, date>>

=============================================================================
