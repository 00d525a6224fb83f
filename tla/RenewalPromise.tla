--------------------------- MODULE RenewalPromise ---------------------------
(***************************************************************************)
(* What the renewal job promises a subscriber, with nothing of how it is   *)
(* done: a period is charged for at most once, not before it has ended,    *)
(* and not while the subscriber has it canceled.  Every charge has an id   *)
(* of its own, so that a second charge of a period is a change that no     *)
(* step below makes.                                                       *)
(***************************************************************************)
EXTENDS Integers

CONSTANT Ids   \* what identifies a charge

VARIABLES
  now,       \* the clock
  charges,   \* the charges made, each an id and the end of its period
  canceled   \* the end of the period that is canceled, 0 if none is

Init ==
  /\ now \in Nat
  /\ charges = {}
  /\ canceled = 0

ChargeForPeriod(id, end) ==
  /\ \A charge \in charges : charge[1] # id /\ charge[2] # end
  /\ canceled # end
  /\ charges' = charges \cup {<<id, end>>}
  /\ UNCHANGED <<now, canceled>>

\* Anything else: time passes, the subscriber cancels, resumes or buys.
Other ==
  /\ now' >= now
  /\ UNCHANGED charges

Next == Other \/ \E id \in Ids, end \in 1..now : ChargeForPeriod(id, end)

Spec == Init /\ [][Next]_<<now, charges, canceled>>

=============================================================================
