--------------------------- MODULE ChargeReminder ---------------------------
(***************************************************************************)
(* The hourly mail that warns of a coming charge:                          *)
(* SubscriptionNotificationCheckService and the rows of table              *)
(* subscription_notification kept by SubscriptionNotificationService       *)
(* (src/src/subscription), for one subscription over several periods.      *)
(*                                                                         *)
(* The check of one hour may still be running when the next one starts,    *)
(* and several processes may run it: a slot is one sendChargeReminder.     *)
(***************************************************************************)
EXTENDS Integers

CONSTANTS
  Crons,     \* slots of reminders being sent
  Window,    \* how long before the charge a reminder is due (three days)
  Month,     \* length of a period
  MaxTime,   \* bound on the clock
  MaxMails   \* bound on the mails counted per period

ASSUME ReminderAssumption ==
  /\ Window \in Nat \ {0} /\ Month \in Nat \ {0}
  /\ MaxTime \in Nat /\ MaxMails \in Nat \ {0}

VARIABLES
  now,           \* the clock
  subscription,  \* its status and the end of its current period
  notification,  \* notification[e]: the row's status for period end e
  mails,         \* mails[e]: mails delivered about period end e
  jobs           \* jobs[c]: the reminder in slot c

vars == <<now, subscription, notification, mails, jobs>>

\* The period ends that can come up.
Ends == 1..(MaxTime + Month)

Status == {"absent", "processing", "sent", "failed"}
Job == [at : {"idle", "insert", "update", "mail", "mark", "fail"}, end : Nat]
Idle == [at |-> "idle", end |-> 0]

Init ==
  /\ now = 0
  /\ subscription = [active |-> TRUE, end |-> Month]
  /\ notification = [e \in Ends |-> "absent"]
  /\ mails = [e \in Ends |-> 0]
  /\ jobs = [c \in Crons |-> Idle]

Become(c, at) == jobs' = [jobs EXCEPT ![c].at = at]
Finish(c) == jobs' = [jobs EXCEPT ![c] = Idle]

-----------------------------------------------------------------------------
(* getWillBeChargedSubscriptions: what is read here is used until the end, *)
(* whatever becomes of the subscription meanwhile.                         *)
ReadDue(c) ==
  /\ jobs[c] = Idle
  /\ subscription.active
  /\ now < subscription.end /\ subscription.end <= now + Window
  /\ jobs' = [jobs EXCEPT ![c] = [at |-> "insert", end |-> subscription.end]]
  /\ UNCHANGED <<now, subscription, notification, mails>>

-----------------------------------------------------------------------------
(* claimChargeReminder: insert the row, or take over a failed one.         *)
\* Mutant of InsertClaim: an upsert, for which no row is a conflict.
UpsertClaim(c) ==
  /\ jobs[c].at = "insert"
  /\ notification' = [notification EXCEPT ![jobs[c].end] = "processing"]
  /\ Become(c, "mail")
  /\ UNCHANGED <<now, subscription, mails>>

InsertClaim(c) ==
  LET e == jobs[c].end IN
  /\ jobs[c].at = "insert"
  /\ IF notification[e] = "absent"
     THEN notification' = [notification EXCEPT ![e] = "processing"] /\ Become(c, "mail")
     ELSE Become(c, "update") /\ UNCHANGED notification
  /\ UNCHANGED <<now, subscription, mails>>

\* Mutants of UpdateClaim: every row is taken over that is finished, or that is
\* not sent.
TakeFinished(c) ==
  LET e == jobs[c].end IN
  /\ jobs[c].at = "update" /\ notification[e] # "processing"
  /\ notification' = [notification EXCEPT ![e] = "processing"]
  /\ Become(c, "mail")
  /\ UNCHANGED <<now, subscription, mails>>

TakeUnsent(c) ==
  LET e == jobs[c].end IN
  /\ jobs[c].at = "update" /\ notification[e] # "sent"
  /\ notification' = [notification EXCEPT ![e] = "processing"]
  /\ Become(c, "mail")
  /\ UNCHANGED <<now, subscription, mails>>

UpdateClaim(c) ==
  LET e == jobs[c].end IN
  /\ jobs[c].at = "update"
  /\ IF notification[e] = "failed"
     THEN notification' = [notification EXCEPT ![e] = "processing"] /\ Become(c, "mail")
     ELSE Finish(c) /\ UNCHANGED notification
  /\ UNCHANGED <<now, subscription, mails>>

-----------------------------------------------------------------------------
\* The mail is delivered or not, and the mail server's answer arrives or not.
SendMail(c) ==
  /\ jobs[c].at = "mail"
  /\ \E delivered \in BOOLEAN :
       /\ mails' = IF delivered /\ mails[jobs[c].end] < MaxMails
                   THEN [mails EXCEPT ![jobs[c].end] = @ + 1] ELSE mails
       /\ \/ delivered /\ Become(c, "mark")
          \/ Become(c, "fail")
  /\ UNCHANGED <<now, subscription, notification>>

\* The UPDATE looks for a row that is being processed.
Mark(e, status) ==
  notification' = IF notification[e] = "processing"
                  THEN [notification EXCEPT ![e] = status] ELSE notification

MarkSent(c) ==
  /\ jobs[c].at = "mark"
  /\ Mark(jobs[c].end, "sent")
  /\ Finish(c)
  /\ UNCHANGED <<now, subscription, mails>>

\* Its error is caught like one of the mail server, also when the UPDATE has been
\* committed and only the answer is lost.
MarkSentFails(c) ==
  /\ jobs[c].at = "mark"
  /\ Mark(jobs[c].end, "sent") \/ UNCHANGED notification
  /\ Become(c, "fail")
  /\ UNCHANGED <<now, subscription, mails>>

MarkFailed(c) ==
  /\ jobs[c].at = "fail"
  /\ Mark(jobs[c].end, "failed")
  /\ Finish(c)
  /\ UNCHANGED <<now, subscription, mails>>

Crash(c) ==
  /\ jobs[c] # Idle
  /\ Finish(c)
  /\ UNCHANGED <<now, subscription, notification, mails>>

-----------------------------------------------------------------------------
(* The subscription as other handlers change it (module Billing).          *)
ToggleSubscription ==
  /\ subscription' = [subscription EXCEPT !.active = ~@]
  /\ UNCHANGED <<now, notification, mails, jobs>>

\* A confirmed payment, a renewal or a repeated notification of one.
StartPeriod ==
  /\ subscription' = [active |-> TRUE, end |-> now + Month]
  /\ UNCHANGED <<now, notification, mails, jobs>>

Tick ==
  /\ now < MaxTime
  /\ now' = now + 1
  /\ UNCHANGED <<subscription, notification, mails, jobs>>

Next ==
  \/ \E c \in Crons :
       \/ ReadDue(c) \/ InsertClaim(c) \/ UpdateClaim(c) \/ SendMail(c)
       \/ MarkSent(c) \/ MarkSentFails(c) \/ MarkFailed(c) \/ Crash(c)
  \/ ToggleSubscription \/ StartPeriod \/ Tick

Spec == Init /\ [][Next]_vars

-----------------------------------------------------------------------------
(* Properties.                                                             *)

TypeOK ==
  /\ now \in 0..MaxTime
  /\ subscription \in [active : BOOLEAN, end : Ends]
  /\ notification \in [Ends -> Status]
  /\ mails \in [Ends -> 0..MaxMails]
  /\ jobs \in [Crons -> Job]
  /\ \A c \in Crons : jobs[c].at # "idle" => jobs[c].end \in Ends

\* Has the slot taken the attempt to mail about its period, and not reported?
Holds(c) ==
  \/ jobs[c].at \in {"mail", "mark"}
  \/ jobs[c].at = "fail" /\ notification[jobs[c].end] # "sent"

\* Of all the checks that overlap, one at a time may mail about a period, and
\* the row says so as long as it does (claimChargeReminder).
OneHolder ==
  /\ \A c \in Crons : Holds(c) => notification[jobs[c].end] = "processing"
  /\ \A c, d \in Crons :
       (Holds(c) /\ Holds(d) /\ jobs[c].end = jobs[d].end) => c = d

\* Once a period's reminder is recorded as sent, no check that has read the
\* subscription earlier, or reads it later, mails about that period again.
NoMailAfterSent ==
  [][\A e \in Ends : notification[e] = "sent" =>
       notification'[e] = "sent" /\ mails'[e] = mails[e]]_vars

\* What is recorded as sent has been delivered: the row is never marked by a
\* check whose own mail was not.
SentIsDelivered ==
  /\ \A e \in Ends : notification[e] = "sent" => mails[e] > 0
  /\ \A c \in Crons : jobs[c].at = "mark" => mails[jobs[c].end] > 0

Promise == INSTANCE ReminderPromise WITH
  state <- [e \in Ends |-> IF notification[e] = "absent" THEN "due"
                                                         ELSE notification[e]],
  mailing <- {jobs[c].end : c \in {d \in Crons : Holds(d)}}

\* The reminders keep the promise of module ReminderPromise.
ImplementsReminderPromise == Promise!Spec

ReminderInv == TypeOK /\ OneHolder /\ SentIsDelivered

=============================================================================
