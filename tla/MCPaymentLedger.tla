--------------------------- MODULE MCPaymentLedger ---------------------------
(* PaymentLedger with its constants given values by the configurations.    *)
EXTENDS PaymentLedger, TLC

\* Slots and receipt URLs are interchangeable.
Symmetry == Permutations(Hooks) \cup Permutations(Urls)

=============================================================================
