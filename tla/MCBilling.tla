------------------------------ MODULE MCBilling ------------------------------
(* Billing with its constants given values by the configurations.          *)
EXTENDS Billing, TLC

\* Payment ids and slots of one role are interchangeable: no definition
\* chooses or orders them.
Symmetry ==
  Permutations(Requests) \cup Permutations(Hooks) \cup Permutations(Crons)
    \cup Permutations(Purchases) \cup Permutations(Renewals)

=============================================================================
