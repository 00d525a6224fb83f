---------------------------- MODULE OneTimeLink ----------------------------
(***************************************************************************)
(* What a user may rely on about QR codes that change the payment method:  *)
(* at most one is good for it at any moment, it is good for one change,    *)
(* and a code that has been replaced, used or withdrawn does not return.   *)
(***************************************************************************)
CONSTANTS Keys, NoKey, Bought

VARIABLES
  pending,  \* the code that may change the method, if any
  method,   \* the code that has given the method, if one has
  dead      \* the codes that have been good once

Init == pending = NoKey /\ method \in {NoKey, Bought} /\ dead = {}

\* A new code takes the place of the pending one.
Offer(k) ==
  /\ k \in Keys \ (dead \cup {pending})
  /\ pending' = k
  /\ dead' = dead \cup ({pending} \ {NoKey})
  /\ UNCHANGED method

Retire == pending' = NoKey /\ dead' = dead \cup ({pending} \ {NoKey})

Link == pending # NoKey /\ method' = pending /\ Retire

Remove == method' = NoKey /\ Retire

Purchase == method' = Bought /\ UNCHANGED <<pending, dead>>

Next == (\E k \in Keys : Offer(k)) \/ Link \/ Remove \/ Purchase

Spec == Init /\ [][Next]_<<pending, method, dead>>

=============================================================================
