---------------------------- MODULE AnswerStream ----------------------------
(***************************************************************************)
(* What the consumer of an answer may rely on, whichever provider writes   *)
(* it (UnifiedAIStreamChunk, src/src/model-provider): pieces of text, and  *)
(* then one end.  The chunk that completes an answer holds the whole text. *)
(***************************************************************************)
EXTENDS Naturals

VARIABLES
  text,  \* pieces of text given to the consumer
  size,  \* pieces of text in the chunk that completes the answer
  end    \* "open", "complete", "error", or "gone": the consumer has left

Init == text = 0 /\ size = 0 /\ end = "open"

Piece ==
  /\ end = "open"
  /\ text' = text + 1
  /\ UNCHANGED <<size, end>>

Complete ==
  /\ end = "open"
  /\ end' = "complete" /\ size' = text
  /\ UNCHANGED text

Stop ==
  /\ end = "open"
  /\ end' \in {"error", "gone"}
  /\ UNCHANGED <<text, size>>

Next == Piece \/ Complete \/ Stop

Step == Next \/ UNCHANGED <<text, size, end>>

Spec == Init /\ [][Next]_<<text, size, end>>

=============================================================================
