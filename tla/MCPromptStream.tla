--------------------------- MODULE MCPromptStream ---------------------------
(* PromptStream with its constants given values by the configuration.      *)
EXTENDS PromptStream

\* Asks are interchangeable: a file is attached to none of them or to all.
Symmetry == Permutations(Asks)

=============================================================================
