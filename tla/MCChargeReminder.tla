-------------------------- MODULE MCChargeReminder --------------------------
(* ChargeReminder with its constants given values by the configurations.   *)
EXTENDS ChargeReminder, TLC

\* Slots are interchangeable.
Symmetry == Permutations(Crons)

=============================================================================
