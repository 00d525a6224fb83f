------------------------------ MODULE ImageTask ------------------------------
(***************************************************************************)
(* One image made by Alibaba (AlibabaImageClient.generate, and observe of  *)
(* AlibabaProviderService, src/src/model-provider/providers): a task is    *)
(* submitted, asked about every ten seconds until it is over, and its      *)
(* result downloaded, while the client may leave and a timer runs.         *)
(*                                                                         *)
(* The unit of time is the delay between two polls.  What is due happens   *)
(* before time goes on: the timer, the end of a delay, and the rejection   *)
(* that an abort causes.  Requests take as long as they like.              *)
(***************************************************************************)
EXTENDS Naturals

CONSTANTS
  Deadline,  \* the timeout of ten minutes, in polls
  Slack      \* bound: how long after the deadline time goes on

ASSUME DeadlineAssumption == Deadline \in Nat \ {0} /\ Slack \in Nat

VARIABLES
  job,       \* what is asked for
  at,        \* the await at which the call stands, or "done"
  clock,     \* the time since the timer was set
  timer,     \* is the timeout set?
  listener,  \* does the abort of the caller reach the call?
  signal,    \* the controller of the call: "live", or who has aborted it
  reader,    \* the subscriber: "open", "complete", "error", "gone"
  task,      \* the task at the provider: its status, "none" before there is one
  tasks      \* history: how often the provider has accepted a task

imageVars == <<job, at, clock, timer, listener, signal, reader, task, tasks>>

\* refused: do the attachments break the rules of the model?  sync: does the
\* model answer at once (api "multimodal")?
Job == [refused : BOOLEAN, sync : BOOLEAN]

Requests == {"submit", "ask", "download"}

\* "due": the delay is over.
Active == Requests \cup {"wait", "due"}

ImageInit ==
  /\ job \in Job
  /\ at = "check" /\ clock = 0
  /\ timer = FALSE /\ listener = FALSE
  /\ signal = "live" /\ reader = "open"
  /\ task = "none" /\ tasks = 0

-----------------------------------------------------------------------------
\* The finally clause.
CleanUp == timer' = FALSE /\ listener' = FALSE

\* The call is over, and observe passes its outcome on to who still listens.
Settle(outcome) ==
  /\ at' = "done"
  /\ CleanUp
  /\ reader' = IF reader = "open" THEN outcome ELSE reader
  /\ UNCHANGED <<job, clock, signal>>

\* A fetch, or a delay, whose signal is aborted rejects at once.
Await(next) ==
  IF signal = "live"
  THEN at' = next /\ UNCHANGED <<job, clock, timer, listener, signal, reader>>
  ELSE Settle("error")

-----------------------------------------------------------------------------
\* The rules on attachments; then the images are read.
CheckAttachments ==
  /\ at = "check"
  /\ \/ job.refused /\ Settle("error")
     \/ ~job.refused /\ at' = "read"
        /\ UNCHANGED <<job, clock, timer, listener, signal, reader>>
  /\ UNCHANGED <<task, tasks>>

\* Mutant of Arm: that the client has left meanwhile goes unnoticed.
ArmBlindly ==
  /\ timer' = TRUE /\ listener' = TRUE
  /\ signal' = signal

\* The controller and its timer; the caller may have aborted meanwhile.
Arm ==
  /\ timer' = TRUE /\ listener' = TRUE
  /\ signal' = IF reader = "gone" THEN "caller" ELSE signal

\* With an aborted signal nothing is sent, and AbortNoticed follows.
Submit ==
  /\ at = "read"
  /\ Arm
  /\ at' = "submit" /\ task' = "none"
  /\ UNCHANGED <<job, clock, reader, tasks>>

\* What a reply leads to: the result, the next poll, or an error.
FollowStatus ==
  \/ task = "succeeded" /\ Await("download")
  \/ task \in {"pending", "running"} /\ Await("wait")
  \/ task = "failed" /\ Settle("error")

TaskReply ==
  /\ at \in {"submit", "ask"}
  /\ task # "none"
  /\ FollowStatus
  /\ UNCHANGED <<task, tasks>>

\* Mutant of Poll: a task that is not ready is submitted again.
PollAnew ==
  /\ at = "due"
  /\ Await("submit")
  /\ task' = "none"
  /\ UNCHANGED tasks

\* The delay is over, and the task is asked about.
Poll ==
  /\ at = "due"
  /\ Await("ask")
  /\ UNCHANGED <<task, tasks>>

ImageArrives ==
  /\ at = "download"
  /\ Settle("complete")
  /\ UNCHANGED <<task, tasks>>

\* A request fails, or its reply is refused: no JSON, an error code, no task id, an
\* unknown status, no image, no https address, not an image, empty.
RequestFails ==
  /\ at \in Requests
  /\ Settle("error")
  /\ UNCHANGED <<task, tasks>>

-----------------------------------------------------------------------------
(* The provider.                                                           *)

\* An accepted task may be over before the reply has arrived.
AcceptTask ==
  /\ at = "submit" /\ signal = "live" /\ task = "none"
  /\ task' \in IF job.sync THEN {"succeeded"} ELSE {"pending"}
  /\ tasks' = tasks + 1
  /\ UNCHANGED <<job, at, clock, timer, listener, signal, reader>>

TaskGoesOn ==
  /\ \/ task = "pending" /\ task' = "running"
     \/ task \in {"pending", "running"} /\ task' \in {"succeeded", "failed"}
  /\ UNCHANGED <<job, at, clock, timer, listener, signal, reader, tasks>>

-----------------------------------------------------------------------------
(* Time, and the client.                                                   *)

\* Mutant of Rejects: the delay is not given the signal.
RejectsRequest == at \in Requests /\ signal # "live"

\* Requests and the delay reject when the signal is aborted.
Rejects == at \in Requests \cup {"wait"} /\ signal # "live"

AbortNoticed ==
  /\ Rejects
  /\ Settle("error")
  /\ UNCHANGED <<task, tasks>>

\* Mutant of TimerDue: no timeout.
NeverDue == FALSE

TimerDue == timer /\ clock >= Deadline /\ signal = "live"

TimerFires ==
  /\ TimerDue
  /\ signal' = "timeout"
  /\ UNCHANGED <<job, at, clock, timer, listener, reader, task, tasks>>

\* Time goes on when nothing is due.
Tick ==
  /\ at \in Requests \cup {"wait"}
  /\ ~TimerDue /\ ~Rejects
  /\ clock < Deadline + Slack
  /\ clock' = clock + 1
  /\ at' = IF at = "wait" THEN "due" ELSE at
  /\ UNCHANGED <<job, timer, listener, signal, reader, task, tasks>>

Leave ==
  /\ reader = "open"
  /\ reader' = "gone"
  /\ signal' = IF listener /\ signal = "live" THEN "caller" ELSE signal
  /\ UNCHANGED <<job, at, clock, timer, listener, task, tasks>>

-----------------------------------------------------------------------------
Client == CheckAttachments \/ Submit \/ Poll \/ AbortNoticed \/ TimerFires

ImageNext ==
  \/ Client \/ TaskReply \/ ImageArrives \/ RequestFails
  \/ AcceptTask \/ TaskGoesOn
  \/ Tick \/ Leave

\* The event loop runs what is due, and time goes on; nothing is asked of the
\* provider.
ImageSpec == ImageInit /\ [][ImageNext]_imageVars /\ WF_imageVars(Client) /\ WF_imageVars(Tick)

-----------------------------------------------------------------------------
(* Properties.                                                             *)

ImageTypeOK ==
  /\ job \in Job
  /\ at \in Active \cup {"check", "read", "done"}
  /\ clock \in Nat
  /\ timer \in BOOLEAN /\ listener \in BOOLEAN
  /\ signal \in {"live", "caller", "timeout"}
  /\ reader \in {"open", "complete", "error", "gone"}
  /\ task \in {"none", "pending", "running", "succeeded", "failed"}
  /\ tasks \in Nat

\* The timer and the listener live exactly as long as the call waits for something,
\* whichever way it is left (the finally clause of generate).
NothingLeftBehind == (at \in Active <=> timer) /\ (timer <=> listener)

\* A client that has left has aborted the call, also when it left before the call
\* could listen (signal.aborted in generate).
LeavingAborts == (reader = "gone" /\ at \in Active) => signal # "live"

\* A subscriber is answered when, and only when, the call is over.
AnsweredAtTheEnd ==
  /\ at = "done" => reader # "open"
  /\ reader \in {"complete", "error"} => at = "done"

ImageInv == ImageTypeOK /\ NothingLeftBehind /\ LeavingAborts /\ AnsweredAtTheEnd

\* However often it is polled, a prompt is one task, and an image that is shown is
\* the result of that task, which has succeeded (README.md, "created once").
OneTaskForAnImage ==
  /\ tasks <= 1
  /\ reader = "complete" => tasks = 1 /\ task = "succeeded"

\* No request and no delay outlives the deadline (README.md, "bounded by a 10-minute
\* deadline").
DeadlineHolds == at \in Active => clock <= Deadline

\* Every image that is begun ends, whatever the provider does or does not do (the
\* timeout).
GenerationEnds == at # "check" ~> at = "done"

=============================================================================
