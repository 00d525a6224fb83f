------------------------- MODULE ChargeReminderProofs -------------------------
(***************************************************************************)
(* Proofs about module ChargeReminder, for any number of overlapping       *)
(* checks, any window and any number of periods.                           *)
(***************************************************************************)
EXTENDS ChargeReminder, TLAPS

(* What the steps of a reminder do to its slot: the others are left alone. *)
Others(c) == \A d \in Crons : d # c => jobs'[d] = jobs[d]

LEMMA IdleIsJob == Idle \in Job /\ Idle.at = "idle"
BY DEF Idle, Job

LEMMA BecomeEffect ==
  ASSUME TypeOK, NEW c \in Crons, NEW at \in {"update", "mail", "mark", "fail"},
         jobs[c].at # "idle", Become(c, at)
  PROVE  /\ Others(c) /\ jobs' \in [Crons -> Job]
         /\ jobs'[c].at = at /\ jobs'[c].end = jobs[c].end /\ jobs[c].end \in Ends
BY DEF TypeOK, Job, Become, Others

LEMMA FinishEffect ==
  ASSUME TypeOK, NEW c \in Crons, Finish(c)
  PROVE  /\ Others(c) /\ jobs' \in [Crons -> Job]
         /\ jobs'[c].at = "idle" /\ ~Holds(c)'
BY IdleIsJob DEF TypeOK, Finish, Others, Holds

\* Who holds a period keeps it when the slot c leaves the row of its own period
\* alone, takes it over, or reports about it.
LEMMA HoldersKept ==
  ASSUME TypeOK, OneHolder, NEW c \in Crons, Others(c), NEW status \in Status,
         \/ UNCHANGED notification
         \/ /\ notification' = [notification EXCEPT ![jobs[c].end] = status]
            /\ notification[jobs[c].end] # "sent"
            /\ Holds(c) \/ notification[jobs[c].end] # "processing"
  PROVE  \A d \in Crons : d # c => (Holds(d)' <=> Holds(d))
<1> SUFFICES ASSUME NEW d \in Crons, d # c
             PROVE  Holds(d)' <=> Holds(d)
  OBVIOUS
<1>1. jobs'[d] = jobs[d]
  BY DEF Others
<1>2. CASE jobs[d].at # "fail"
  BY <1>1, <1>2 DEF Holds
<1>3. CASE jobs[d].at = "fail"
  <2>1. jobs[d].end \in Ends
    BY <1>3 DEF TypeOK
  <2>2. CASE notification'[jobs[d].end] = notification[jobs[d].end]
    BY <1>1, <1>3, <2>2 DEF Holds
  <2>3. CASE /\ jobs[d].end = jobs[c].end /\ notification[jobs[c].end] # "sent"
             /\ Holds(c) \/ notification[jobs[c].end] # "processing"
    BY <1>3, <2>3 DEF Holds, OneHolder
  <2> QED
    BY <2>1, <2>2, <2>3 DEF TypeOK
<1> QED
  BY <1>2, <1>3

-----------------------------------------------------------------------------
LEMMA InitInvariant == Init => ReminderInv
<1>1. Month \in Ends
  BY ReminderAssumption DEF Ends
<1>2. QED
  BY <1>1, IdleIsJob, ReminderAssumption
  DEF Init, ReminderInv, TypeOK, Status, OneHolder, Holds, SentIsDelivered

\* A check takes over the row of its period, or leaves it to somebody else.
LEMMA ClaimStep ==
  ASSUME ReminderInv, NEW c \in Crons, InsertClaim(c) \/ UpdateClaim(c)
  PROVE  ReminderInv'
<1> DEFINE e == jobs[c].end
<1>0. /\ jobs[c].at \in {"insert", "update"} /\ e \in Ends
      /\ UNCHANGED <<now, subscription, mails>>
  BY DEF InsertClaim, UpdateClaim, ReminderInv, TypeOK
<1>1. CASE /\ notification[e] \in {"absent", "failed"}
           /\ notification' = [notification EXCEPT ![e] = "processing"]
           /\ Become(c, "mail")
  <2>1. /\ Others(c) /\ jobs' \in [Crons -> Job]
        /\ jobs'[c].at = "mail" /\ jobs'[c].end = e
    BY <1>0, <1>1, BecomeEffect DEF ReminderInv
  <2>2. \A d \in Crons : Holds(d) => jobs[d].end # e
    BY <1>1 DEF ReminderInv, OneHolder
  <2>3. TypeOK'
    BY <1>0, <1>1, <2>1 DEF ReminderInv, TypeOK, Status, Others
  <2>4. \A d \in Crons : d # c => (Holds(d)' <=> Holds(d)) /\ jobs'[d] = jobs[d]
    BY <1>1, <2>1, HoldersKept DEF ReminderInv, Status, Others
  <2>5. OneHolder'
    <3>1. \A d \in Crons : d # c /\ Holds(d) =>
            jobs[d].end # e /\ notification'[jobs[d].end] = "processing"
      BY <1>0, <1>1, <2>2 DEF ReminderInv, TypeOK, OneHolder
    <3>2. notification'[e] = "processing"
      BY <1>0, <1>1 DEF ReminderInv, TypeOK
    <3> QED
      BY <2>1, <2>4, <3>1, <3>2 DEF ReminderInv, OneHolder
  <2>6. SentIsDelivered'
    BY <1>0, <1>1, <2>1 DEF ReminderInv, TypeOK, SentIsDelivered, Others
  <2>7. QED
    BY <2>3, <2>5, <2>6 DEF ReminderInv
<1>2. CASE UNCHANGED notification /\ (Become(c, "update") \/ Finish(c))
  <2>1. /\ Others(c) /\ jobs' \in [Crons -> Job] /\ jobs'[c].at \in {"update", "idle"}
        /\ jobs'[c].at # "idle" => jobs'[c].end \in Ends
    BY <1>0, <1>2, BecomeEffect, FinishEffect DEF ReminderInv
  <2>2. TypeOK'
    BY <1>0, <1>2, <2>1 DEF ReminderInv, TypeOK, Others
  <2>3. OneHolder' /\ SentIsDelivered'
    BY <1>0, <1>2, <2>1 DEF ReminderInv, OneHolder, SentIsDelivered, Holds, Others
  <2>4. QED
    BY <2>2, <2>3 DEF ReminderInv
<1>3. QED
  BY <1>1, <1>2 DEF InsertClaim, UpdateClaim

LEMMA MailStep ==
  ASSUME ReminderInv, NEW c \in Crons, SendMail(c)
  PROVE  ReminderInv'
<1> DEFINE e == jobs[c].end
<1>1. jobs[c].at = "mail" /\ e \in Ends /\ UNCHANGED <<now, subscription, notification>>
  BY DEF SendMail, ReminderInv, TypeOK
<1>2. PICK delivered \in BOOLEAN :
        /\ mails' = IF delivered /\ mails[e] < MaxMails
                    THEN [mails EXCEPT ![e] = @ + 1] ELSE mails
        /\ (delivered /\ Become(c, "mark")) \/ Become(c, "fail")
  BY DEF SendMail
<1>3. /\ Others(c) /\ jobs' \in [Crons -> Job] /\ jobs'[c].at \in {"mark", "fail"}
      /\ jobs'[c].end = e /\ (jobs'[c].at = "mark" => delivered)
  BY <1>1, <1>2, BecomeEffect DEF ReminderInv
<1>4. /\ mails' \in [Ends -> 0..MaxMails]
      /\ \A d \in Ends : mails'[d] >= mails[d]
      /\ delivered => mails'[e] > 0
  BY <1>1, <1>2, ReminderAssumption DEF ReminderInv, TypeOK
<1>5. TypeOK'
  BY <1>1, <1>3, <1>4 DEF ReminderInv, TypeOK, Others
<1>6. OneHolder'
  BY <1>1, <1>3 DEF ReminderInv, OneHolder, Holds, Others
<1>7. SentIsDelivered'
  <2>1. mails \in [Ends -> 0..MaxMails]
    BY DEF ReminderInv, TypeOK
  <2>2. ASSUME NEW d \in Ends, mails[d] > 0
        PROVE  mails'[d] > 0
    BY <1>4, <2>1, <2>2, ReminderAssumption
  <2>3. \A d \in Crons : jobs[d].at = "mark" => jobs[d].end \in Ends
    BY DEF ReminderInv, TypeOK
  <2>4. QED
    BY <1>1, <1>3, <1>4, <2>2, <2>3 DEF ReminderInv, SentIsDelivered, Others
<1>8. QED
  BY <1>5, <1>6, <1>7 DEF ReminderInv

LEMMA MarkStep ==
  ASSUME ReminderInv, NEW c \in Crons,
         MarkSent(c) \/ MarkSentFails(c) \/ MarkFailed(c) \/ Crash(c)
  PROVE  ReminderInv'
<1> DEFINE e == jobs[c].end
<1>0. UNCHANGED <<now, subscription, mails>> /\ TypeOK
  BY DEF MarkSent, MarkSentFails, MarkFailed, Crash, ReminderInv
<1>1. ASSUME NEW status \in {"sent", "failed"}, Holds(c), Mark(e, status),
             Finish(c) \/ (status = "sent" /\ Become(c, "fail")),
             status = "sent" => jobs[c].at = "mark"
      PROVE  ReminderInv'
  <2>1. jobs[c].at # "idle" /\ e \in Ends /\ notification[e] = "processing"
    BY <1>0, <1>1 DEF ReminderInv, TypeOK, OneHolder, Holds
  <2>2. notification' = [notification EXCEPT ![e] = status]
    BY <1>1, <2>1 DEF Mark
  <2>3. /\ Others(c) /\ jobs' \in [Crons -> Job] /\ jobs'[c].at \in {"idle", "fail"}
        /\ jobs'[c].at # "idle" => jobs'[c].end = e
        /\ ~Holds(c)'
    <3>1. CASE Finish(c)
      BY <1>0, <3>1, FinishEffect
    <3>2. CASE status = "sent" /\ Become(c, "fail")
      <4>1. Others(c) /\ jobs' \in [Crons -> Job] /\ jobs'[c].at = "fail" /\ jobs'[c].end = e
        BY <1>0, <2>1, <3>2, BecomeEffect
      <4>2. notification'[e] = "sent"
        BY <1>0, <2>1, <2>2, <3>2 DEF TypeOK
      <4> QED
        BY <4>1, <4>2 DEF Holds
    <3> QED
      BY <1>1, <3>1, <3>2
  <2>4. TypeOK'
    <3>1. notification' \in [Ends -> Status]
      BY <1>0, <2>2 DEF TypeOK, Status
    <3>2. \A d \in Crons : jobs'[d].at # "idle" => jobs'[d].end \in Ends
      BY <1>0, <2>1, <2>3 DEF TypeOK, Others
    <3> QED
      BY <1>0, <2>3, <3>1, <3>2 DEF TypeOK
  <2>5. \A d \in Crons : d # c => (Holds(d)' <=> Holds(d)) /\ jobs'[d] = jobs[d]
    BY <1>0, <1>1, <2>3, <2>1, <2>2, HoldersKept DEF ReminderInv, Status, Others
  <2>6. OneHolder'
    <3>1. \A d \in Crons : d # c /\ Holds(d) =>
            jobs[d].end # e /\ notification'[jobs[d].end] = "processing"
      BY <1>1, <2>1, <2>2 DEF ReminderInv, OneHolder
    <3> QED
      BY <2>3, <2>5, <3>1 DEF ReminderInv, OneHolder
  <2>7. SentIsDelivered'
    BY <1>0, <1>1, <2>3, <2>1, <2>2 DEF ReminderInv, TypeOK, SentIsDelivered, Others
  <2>8. QED
    BY <2>4, <2>6, <2>7 DEF ReminderInv
<1>2. CASE MarkSent(c) \/ (MarkFailed(c) /\ Holds(c))
  BY <1>1, <1>2 DEF MarkSent, MarkFailed, Holds
<1>3. CASE MarkSentFails(c) /\ Mark(e, "sent")
  BY <1>1, <1>3 DEF MarkSentFails, Holds
<1>4. CASE MarkFailed(c) /\ ~Holds(c)
  <2>1. Finish(c) /\ UNCHANGED notification
    BY <1>4 DEF MarkFailed, Mark, Holds
  <2>2. /\ Others(c) /\ jobs' \in [Crons -> Job]
        /\ jobs'[c].at = "idle" /\ ~Holds(c)'
    BY <1>0, <2>1, FinishEffect
  <2> QED
    BY <1>0, <2>1, <2>2 DEF ReminderInv, TypeOK, OneHolder, SentIsDelivered, Holds, Others
<1>5. CASE MarkSentFails(c) /\ UNCHANGED notification
  <2>1. /\ Others(c) /\ jobs' \in [Crons -> Job] /\ jobs'[c].at = "fail"
        /\ jobs'[c].end = e /\ e \in Ends /\ jobs[c].at = "mark" /\ UNCHANGED notification
    BY <1>0, <1>5, BecomeEffect DEF MarkSentFails
  <2>2. QED
    BY <1>0, <2>1 DEF ReminderInv, TypeOK, OneHolder, SentIsDelivered, Holds, Others
<1>6. CASE Crash(c)
  <2>1. /\ Others(c) /\ jobs' \in [Crons -> Job] /\ UNCHANGED notification
        /\ jobs'[c].at = "idle" /\ ~Holds(c)'
    BY <1>0, <1>6, FinishEffect DEF Crash
  <2>2. QED
    BY <1>0, <2>1 DEF ReminderInv, TypeOK, OneHolder, SentIsDelivered, Holds, Others
<1>7. QED
  BY <1>2, <1>5, <1>6, <1>3, <1>4 DEF MarkSentFails

LEMMA NextInvariant ==
  ASSUME ReminderInv, [Next]_vars
  PROVE  ReminderInv'
<1>0. TypeOK
  BY DEF ReminderInv
<1>1. ASSUME NEW c \in Crons, ReadDue(c)
      PROVE  ReminderInv'
  <2>1. /\ Others(c) /\ jobs' \in [Crons -> Job]
        /\ jobs'[c] = [at |-> "insert", end |-> subscription.end]
        /\ subscription.end \in Ends
    BY <1>0, <1>1 DEF ReadDue, TypeOK, Job, Others, Ends
  <2>2. QED
    BY <1>0, <1>1, <2>1
    DEF ReadDue, ReminderInv, TypeOK, OneHolder, SentIsDelivered, Holds, Others
<1>2. CASE ToggleSubscription \/ StartPeriod \/ Tick
  <2>1. UNCHANGED <<notification, mails, jobs>>
    BY <1>2 DEF ToggleSubscription, StartPeriod, Tick
  <2>2. now' \in 0..MaxTime /\ subscription' \in [active : BOOLEAN, end : Ends]
    <3>1. /\ now \in 0..MaxTime /\ subscription \in [active : BOOLEAN, end : Ends]
          /\ now + Month \in Ends
      BY <1>0, ReminderAssumption DEF TypeOK, Ends
    <3>2. CASE ToggleSubscription
      BY <3>1, <3>2 DEF ToggleSubscription
    <3>3. CASE StartPeriod
      BY <3>1, <3>3 DEF StartPeriod
    <3>4. CASE Tick
      BY <3>1, <3>4, ReminderAssumption DEF Tick
    <3>5. QED
      BY <1>2, <3>2, <3>3, <3>4
  <2>3. QED
    BY <2>1, <2>2 DEF ReminderInv, TypeOK, OneHolder, SentIsDelivered, Holds
<1>3. CASE UNCHANGED vars
  BY <1>3 DEF vars, ReminderInv, TypeOK, OneHolder, SentIsDelivered, Holds
<1>4. QED
  BY <1>1, <1>2, <1>3, ClaimStep, MailStep, MarkStep DEF Next

(* One sender per period, and only what was delivered is recorded as sent. *)
THEOREM Invariance == Spec => []ReminderInv
<1>1. ReminderInv /\ [Next]_vars => ReminderInv'
  BY NextInvariant
<1>2. QED
  BY <1>1, InitInvariant, PTL DEF Spec

-----------------------------------------------------------------------------
(* A reminder recorded as sent stays so, and is not mailed again.          *)
THEOREM NoSecondMail == Spec => NoMailAfterSent
<1>1. ASSUME ReminderInv, [Next]_vars, NEW e \in Ends, notification[e] = "sent"
      PROVE  notification'[e] = "sent" /\ mails'[e] = mails[e]
  <2>1. TypeOK
    BY <1>1 DEF ReminderInv
  <2>2. ASSUME NEW c \in Crons, Holds(c)
        PROVE  jobs[c].end # e
    BY <1>1, <2>2 DEF ReminderInv, OneHolder
  <2>3. ASSUME NEW c \in Crons, InsertClaim(c) \/ UpdateClaim(c)
        PROVE  notification'[e] = "sent" /\ mails'[e] = mails[e]
    BY <1>1, <2>1, <2>3 DEF InsertClaim, UpdateClaim, TypeOK
  <2>4. ASSUME NEW c \in Crons, SendMail(c)
        PROVE  notification'[e] = "sent" /\ mails'[e] = mails[e]
    BY <1>1, <2>1, <2>2, <2>4 DEF SendMail, TypeOK, Holds
  <2>5. ASSUME NEW c \in Crons, MarkSent(c) \/ MarkSentFails(c) \/ MarkFailed(c)
        PROVE  notification'[e] = "sent" /\ mails'[e] = mails[e]
    BY <1>1, <2>1, <2>5 DEF MarkSent, MarkSentFails, MarkFailed, Mark, TypeOK
  <2>6. CASE UNCHANGED <<notification, mails>>
    BY <1>1, <2>6
  <2>7. QED
    BY <1>1, <2>3, <2>4, <2>5, <2>6 DEF Next, ReadDue, Crash,
      ToggleSubscription, StartPeriod, Tick, vars
<1>2. ReminderInv /\ [Next]_vars =>
        [\A e \in Ends : notification[e] = "sent" =>
           notification'[e] = "sent" /\ mails'[e] = mails[e]]_vars
  BY <1>1
<1>3. QED
  BY <1>2, Invariance, PTL DEF Spec, NoMailAfterSent

-----------------------------------------------------------------------------
(* The reminders implement ReminderPromise: taking an attempt is a claim,  *)
(* and only the one holder of the period reports or vanishes.              *)
State == [e \in Ends |-> IF notification[e] = "absent" THEN "due" ELSE notification[e]]
Mailing == {jobs[c].end : c \in {d \in Crons : Holds(d)}}

\* One slot changes, and goes on holding its period or goes on without one.
LEMMA MailingKept ==
  ASSUME NEW c \in Crons, Others(c), UNCHANGED notification,
         \/ ~Holds(c) /\ ~Holds(c)'
         \/ Holds(c) /\ Holds(c)' /\ jobs'[c].end = jobs[c].end
  PROVE  Mailing' = Mailing
<1>1. \A d \in Crons : Holds(d)' <=> Holds(d)
  BY DEF Others, Holds
<1>2. \A d \in Crons : Holds(d) => jobs'[d].end = jobs[d].end
  BY DEF Others
<1>3. QED
  BY <1>1, <1>2 DEF Mailing

\* The holder lets go: nobody else holds the period.
LEMMA MailingEnds ==
  ASSUME TypeOK, OneHolder, NEW c \in Crons, Others(c), Holds(c), ~Holds(c)',
         NEW status \in Status,
         \/ UNCHANGED notification
         \/ notification' = [notification EXCEPT ![jobs[c].end] = status]
  PROVE  jobs[c].end \in Mailing /\ Mailing' = Mailing \ {jobs[c].end}
<1>0. notification[jobs[c].end] # "sent"
  BY DEF OneHolder
<1>1. \A d \in Crons : d # c => (Holds(d)' <=> Holds(d)) /\ jobs'[d].end = jobs[d].end
  BY <1>0, HoldersKept DEF Others
<1>2. \A d \in Crons : d # c /\ Holds(d) => jobs[d].end # jobs[c].end
  BY DEF OneHolder
<1>3. QED
  BY <1>1, <1>2 DEF Mailing

\* Somebody takes hold.
LEMMA MailingGrows ==
  ASSUME TypeOK, OneHolder, NEW c \in Crons, Others(c),
         ~Holds(c), Holds(c)', jobs'[c].end = jobs[c].end,
         notification[jobs[c].end] \in {"absent", "failed"},
         notification' = [notification EXCEPT ![jobs[c].end] = "processing"]
  PROVE  Mailing' = Mailing \cup {jobs[c].end}
<1>1. \A d \in Crons : d # c => (Holds(d)' <=> Holds(d)) /\ jobs'[d].end = jobs[d].end
  BY HoldersKept DEF Others, Status
<1>2. QED
  BY <1>1 DEF Mailing

LEMMA RefinementStep ==
  ASSUME ReminderInv, Next
  PROVE  \/ UNCHANGED <<State, Mailing>>
         \/ \E e \in Ends :
              \/ /\ State[e] \in {"due", "failed"}
                 /\ State' = [State EXCEPT ![e] = "processing"]
                 /\ Mailing' = Mailing \cup {e}
              \/ /\ e \in Mailing /\ Mailing' = Mailing \ {e}
                 /\ \/ UNCHANGED State
                    \/ \E result \in {"sent", "failed"} :
                         /\ State[e] = "processing"
                         /\ State' = [State EXCEPT ![e] = result]
<1>0. TypeOK /\ OneHolder
  BY DEF ReminderInv
<1>1. ASSUME UNCHANGED notification
      PROVE  UNCHANGED State
  BY <1>1 DEF State
<1>2. ASSUME NEW e \in Ends, NEW status \in Status \ {"absent"},
             notification' = [notification EXCEPT ![e] = status]
      PROVE  State' = [State EXCEPT ![e] = status]
  BY <1>0, <1>2 DEF State, TypeOK
<1>3. ASSUME NEW c \in Crons, InsertClaim(c) \/ UpdateClaim(c),
             notification[jobs[c].end] \in {"absent", "failed"},
             notification' = [notification EXCEPT ![jobs[c].end] = "processing"],
             Become(c, "mail")
      PROVE  \E e \in Ends :
               /\ State[e] \in {"due", "failed"}
               /\ State' = [State EXCEPT ![e] = "processing"]
               /\ Mailing' = Mailing \cup {e}
  <2>1. jobs[c].at \in {"insert", "update"} /\ jobs[c].end \in Ends
    BY <1>0, <1>3 DEF InsertClaim, UpdateClaim, TypeOK
  <2>2. Others(c) /\ ~Holds(c) /\ Holds(c)' /\ jobs'[c].end = jobs[c].end
    BY <1>0, <1>3, <2>1, BecomeEffect DEF Holds
  <2>3. Mailing' = Mailing \cup {jobs[c].end}
    BY <1>0, <1>3, <2>2, MailingGrows
  <2>4. State[jobs[c].end] \in {"due", "failed"}
    BY <1>3, <2>1 DEF State
  <2>5. QED
    BY <1>2, <1>3, <2>1, <2>3, <2>4 DEF Status
<1>4. ASSUME NEW c \in Crons, InsertClaim(c) \/ UpdateClaim(c),
             UNCHANGED notification, Become(c, "update") \/ Finish(c)
      PROVE  UNCHANGED <<State, Mailing>>
  <2>1. jobs[c].at \in {"insert", "update"}
    BY <1>4 DEF InsertClaim, UpdateClaim
  <2>2. Others(c) /\ ~Holds(c) /\ ~Holds(c)'
    BY <1>0, <1>4, <2>1, BecomeEffect, FinishEffect DEF Holds
  <2>3. QED
    BY <1>0, <1>1, <1>4, <2>2, MailingKept
<1>5. ASSUME NEW c \in Crons, Holds(c),
             \/ MarkSent(c) \/ MarkFailed(c)
             \/ MarkSentFails(c) /\ Mark(jobs[c].end, "sent")
      PROVE  \E e \in Ends, result \in {"sent", "failed"} :
               /\ e \in Mailing /\ Mailing' = Mailing \ {e}
               /\ State[e] = "processing" /\ State' = [State EXCEPT ![e] = result]
  <2>1. jobs[c].at # "idle" /\ jobs[c].end \in Ends
    BY <1>0, <1>5 DEF Holds, TypeOK
  <2>2. notification[jobs[c].end] = "processing"
    BY <1>0, <1>5 DEF OneHolder
  <2>3. PICK result \in {"sent", "failed"} :
          /\ notification' = [notification EXCEPT ![jobs[c].end] = result]
          /\ Finish(c) \/ (result = "sent" /\ Become(c, "fail"))
    BY <1>5, <2>2 DEF Mark, MarkSent, MarkFailed, MarkSentFails
  <2>4. Others(c) /\ ~Holds(c)'
    <3>1. CASE Finish(c)
      BY <1>0, <3>1, FinishEffect
    <3>2. CASE result = "sent" /\ Become(c, "fail")
      <4>1. Others(c) /\ jobs'[c].at = "fail" /\ jobs'[c].end = jobs[c].end
        BY <1>0, <2>1, <3>2, BecomeEffect
      <4>2. notification'[jobs[c].end] = "sent"
        BY <1>0, <2>1, <2>3, <3>2 DEF TypeOK
      <4> QED
        BY <4>1, <4>2 DEF Holds
    <3> QED
      BY <2>3, <3>1, <3>2
  <2>5. Mailing' = Mailing \ {jobs[c].end} /\ jobs[c].end \in Mailing
    BY <1>0, <1>5, <2>3, <2>4, MailingEnds DEF Status
  <2>6. State[jobs[c].end] = "processing"
    BY <2>1, <2>2 DEF State
  <2>7. State' = [State EXCEPT ![jobs[c].end] = result]
    BY <1>2, <2>1, <2>3 DEF Status
  <2>8. QED
    BY <2>1, <2>5, <2>6, <2>7
<1>6. ASSUME NEW c \in Crons, MarkFailed(c), ~Holds(c)
      PROVE  UNCHANGED <<State, Mailing>>
  <2>1. Finish(c) /\ UNCHANGED notification
    BY <1>6 DEF MarkFailed, Mark, Holds
  <2>2. Others(c) /\ ~Holds(c)'
    BY <1>0, <2>1, FinishEffect
  <2> QED
    BY <1>0, <1>1, <1>6, <2>1, <2>2, MailingKept
<1>7. ASSUME NEW c \in Crons,
             SendMail(c) \/ (MarkSentFails(c) /\ UNCHANGED notification)
      PROVE  UNCHANGED <<State, Mailing>>
  <2>1. /\ jobs[c].at \in {"mail", "mark"} /\ UNCHANGED notification
        /\ Become(c, "mark") \/ Become(c, "fail")
    BY <1>7 DEF SendMail, MarkSentFails
  <2>2. notification[jobs[c].end] = "processing"
    BY <1>0, <2>1 DEF OneHolder, Holds
  <2>3. Others(c) /\ Holds(c) /\ Holds(c)' /\ jobs'[c].end = jobs[c].end
    BY <1>0, <2>1, <2>2, BecomeEffect DEF Holds
  <2>4. QED
    BY <1>0, <1>1, <2>1, <2>3, MailingKept
<1>8. ASSUME NEW c \in Crons, Crash(c)
      PROVE  \/ UNCHANGED <<State, Mailing>>
             \/ \E e \in Ends :
                  e \in Mailing /\ Mailing' = Mailing \ {e} /\ UNCHANGED State
  <2>1. Others(c) /\ ~Holds(c)' /\ UNCHANGED <<State, notification>>
    BY <1>0, <1>1, <1>8, FinishEffect DEF Crash
  <2>2. CASE Holds(c)
    <3>1. jobs[c].end \in Ends
      BY <1>0, <2>2 DEF TypeOK, Holds
    <3>2. QED
      BY <1>0, <2>1, <2>2, <3>1, MailingEnds DEF Status
  <2>3. CASE ~Holds(c)
    BY <1>0, <2>1, <2>3, MailingKept
  <2>4. QED
    BY <2>2, <2>3
<1>9. ASSUME NEW c \in Crons, ReadDue(c)
      PROVE  UNCHANGED <<State, Mailing>>
  <2>1. Others(c) /\ ~Holds(c) /\ ~Holds(c)' /\ UNCHANGED notification
    BY <1>0, <1>9, IdleIsJob DEF ReadDue, TypeOK, Others, Holds
  <2>2. QED
    BY <1>0, <1>1, <2>1, MailingKept
<1>10. CASE ToggleSubscription \/ StartPeriod \/ Tick
  BY <1>1, <1>10 DEF ToggleSubscription, StartPeriod, Tick, Mailing, Holds
<1>11. ASSUME NEW c \in Crons, InsertClaim(c) \/ UpdateClaim(c)
       PROVE  \/ UNCHANGED <<State, Mailing>>
              \/ \E e \in Ends :
                   /\ State[e] \in {"due", "failed"}
                   /\ State' = [State EXCEPT ![e] = "processing"]
                   /\ Mailing' = Mailing \cup {e}
  BY <1>3, <1>4, <1>11 DEF InsertClaim, UpdateClaim
<1>12. ASSUME NEW c \in Crons, MarkSent(c) \/ MarkSentFails(c) \/ MarkFailed(c)
       PROVE  \/ UNCHANGED <<State, Mailing>>
              \/ \E e \in Ends, result \in {"sent", "failed"} :
                   /\ e \in Mailing /\ Mailing' = Mailing \ {e}
                   /\ State[e] = "processing" /\ State' = [State EXCEPT ![e] = result]
  <2>1. MarkSent(c) \/ MarkSentFails(c) => Holds(c)
    BY DEF MarkSent, MarkSentFails, Holds
  <2>2. MarkSentFails(c) => Mark(jobs[c].end, "sent") \/ UNCHANGED notification
    BY DEF MarkSentFails
  <2> QED
    BY <1>5, <1>7, <1>6, <1>12, <2>1, <2>2
<1>13. QED
  BY <1>7, <1>8, <1>9, <1>10, <1>11, <1>12 DEF Next

THEOREM Refinement == Spec => ImplementsReminderPromise
<1>1. Init => Promise!Init
  BY IdleIsJob DEF Init, Promise!Init, Holds
<1>2. ReminderInv /\ [Next]_vars => [Promise!Next]_<<State, Mailing>>
  <2>1. ASSUME UNCHANGED vars
        PROVE  UNCHANGED <<State, Mailing>>
    BY <2>1 DEF vars, State, Mailing, Holds
  <2>2. QED
    BY <2>1, RefinementStep
    DEF Promise!Next, Promise!Take, Promise!Report, Promise!Vanish, State, Mailing
<1>3. QED
  BY <1>1, <1>2, Invariance, PTL
  DEF Spec, ImplementsReminderPromise, Promise!Spec, State, Mailing

=============================================================================
