---------------------------- MODULE MCMethodLink ----------------------------
(* MethodLink with its constants given values by the configurations.       *)
EXTENDS MethodLink, TLC

\* Slots and keys are interchangeable.
Symmetry == Permutations(Requests) \cup Permutations(Hooks) \cup Permutations(Keys)

=============================================================================
