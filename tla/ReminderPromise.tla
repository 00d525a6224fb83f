--------------------------- MODULE ReminderPromise ---------------------------
(***************************************************************************)
(* What the charge reminders promise about each period: one attempt to     *)
(* mail at a time, and none after an attempt that is known to have         *)
(* succeeded.  Nothing here says who makes the attempt, or how it may die. *)
(***************************************************************************)
EXTENDS Naturals

CONSTANT Ends  \* period ends

VARIABLES
  state,    \* state[e]: due, processing, failed or sent
  mailing   \* the period ends for which somebody may be mailing right now

Init == state = [e \in Ends |-> "due"] /\ mailing = {}

\* Somebody takes the attempt.
Take(e) ==
  /\ state[e] \in {"due", "failed"}
  /\ state' = [state EXCEPT ![e] = "processing"]
  /\ mailing' = mailing \cup {e}

\* The one who has taken it reports.
Report(e, result) ==
  /\ e \in mailing
  /\ state[e] = "processing"
  /\ state' = [state EXCEPT ![e] = result]
  /\ mailing' = mailing \ {e}

\* Or is never heard of again.
Vanish(e) == e \in mailing /\ mailing' = mailing \ {e} /\ UNCHANGED state

Next ==
  \E e \in Ends :
    Take(e) \/ Vanish(e) \/ \E result \in {"sent", "failed"} : Report(e, result)

Spec == Init /\ [][Next]_<<state, mailing>>

=============================================================================
