----------------------------- MODULE SlackDelivery -----------------------------
(***************************************************************************)
(* The Slack notifications of one link of a project to a channel           *)
(* (packages/integration-slack: Events, Runtime, Delivery).                *)
(*                                                                         *)
(* The outbox (ActivityOutbox) hands over project events.  A dispatch loop *)
(* turns the events into jobs, starts one durable workflow per job and     *)
(* marks the job dispatched.  A workflow makes attempts: look at the job   *)
(* and what it depends on, send, finish the job; or sleep and try again.   *)
(* A crash loses the loop and the attempts that are running: the workflow  *)
(* engine starts such an attempt over, under the same number, unless its   *)
(* outcome was recorded.                                                   *)
(***************************************************************************)
EXTENDS Naturals, FiniteSets

CONSTANTS
  Ids,          \* ids of events, of their jobs and of their workflows
  MaxTime,      \* bound: the last tick of the clock
  MaxAttempt,   \* the last attempt of a workflow: 12 in the code
  MaxCrashes,   \* bound: crashes of the process
  MaxChanges    \* bound: changes of the sprint and of the connection

ASSUME SlackAssumption ==
  /\ MaxTime \in Nat
  /\ MaxAttempt \in Nat
  /\ MaxCrashes \in Nat
  /\ MaxChanges \in Nat

VARIABLES
  now,      \* the clock
  sprint,   \* the sprint file: its start (0: no start) and whether it is completed
  link,     \* project_integration_link: is it active, are the kinds subscribed
  event,    \* project_integration_event: "none", "pending" or "consumed"
  note,     \* what the event or job is about: kind and start of the sprint
  job,      \* slack_notification: is there a row, available at, dispatched, finished
  loop,     \* jobs whose workflow the dispatch loop has started and not marked
  flow,     \* the workflow of each job: its attempt and where that is
  posted,   \* jobs whose message reached the channel (client_msg_id: the job)
  spent     \* crashes and changes so far

vars == <<now, sprint, link, event, note, job, loop, flow, posted, spent>>

-------------------------------------------------------------------------------
Times == 0..MaxTime
Kinds == {"sprint_started", "ticket_created", "test"}
Outcomes == {"delivered", "connection_changed", "event_disabled", "sprint_changed",
             "refused", "database_unavailable"}
\* "died": the workflow has failed; "over": it has returned.
Places == {"none", "looking", "sending", "finishing", "finished", "sleeping", "over", "died"}

NoJob == [row |-> FALSE, availableAt |-> 0, dispatched |-> FALSE, finished |-> "no"]
NewJob(t) == [row |-> TRUE, availableAt |-> t, dispatched |-> FALSE, finished |-> "no"]
NoFlow == [at |-> "none", attempt |-> 0, outcome |-> "delivered"]

InAttempt == {"looking", "sending", "finishing", "finished"}

Init ==
  /\ now = 0
  /\ sprint \in [start : Times, completed : BOOLEAN]
  /\ link = [active |-> TRUE, subscribed |-> TRUE]
  /\ event = [n \in Ids |-> "none"]
  /\ note = [n \in Ids |-> [kind |-> "test", start |-> 0]]
  /\ job = [n \in Ids |-> NoJob]
  /\ loop = {}
  /\ flow = [n \in Ids |-> NoFlow]
  /\ posted = {}
  /\ spent = [crashes |-> 0, changes |-> 0]

-------------------------------------------------------------------------------
(* The project around the jobs.                                              *)

Tick ==
  /\ now < MaxTime
  /\ now' = now + 1
  /\ UNCHANGED <<sprint, link, event, note, job, loop, flow, posted, spent>>

Change ==
  /\ spent.changes < MaxChanges
  /\ spent' = [spent EXCEPT !.changes = @ + 1]

Fresh(n) == event[n] = "none" /\ ~job[n].row

\* The outbox records an event if the link is active and has its kind.
Records(n, kind, start) ==
  IF link.active /\ link.subscribed
  THEN /\ event' = [event EXCEPT ![n] = "pending"]
       /\ note' = [note EXCEPT ![n] = [kind |-> kind, start |-> start]]
  ELSE UNCHANGED <<event, note>>

TicketEvent(n) ==
  /\ Fresh(n)
  /\ Records(n, "ticket_created", 0)
  /\ UNCHANGED <<now, sprint, link, job, loop, flow, posted, spent>>

\* A write of the sprint: a new start of an open sprint is an event.
WriteSprint(n, s) ==
  /\ Fresh(n)
  /\ Change
  /\ s # sprint
  /\ sprint' = s
  /\ IF ~s.completed /\ s.start # 0 /\ s.start # sprint.start
     THEN Records(n, "sprint_started", s.start)
     ELSE UNCHANGED <<event, note>>
  /\ UNCHANGED <<now, link, job, loop, flow, posted>>

\* saveProject changes the subscription, disconnectProject and disconnectOrg end
\* the link for good: a later connection is another link, with its own jobs.
SetLink(l) ==
  /\ link.active
  /\ Change
  /\ l # link
  /\ link' = l
  /\ UNCHANGED <<now, sprint, event, note, job, loop, flow, posted>>

\* testProject queues its job at once.
TestProject(n) ==
  /\ Fresh(n)
  /\ link.active
  /\ note' = [note EXCEPT ![n] = [kind |-> "test", start |-> 0]]
  /\ job' = [job EXCEPT ![n] = NewJob(now)]
  /\ UNCHANGED <<now, sprint, link, event, loop, flow, posted, spent>>

-------------------------------------------------------------------------------
(* The dispatch loop.                                                        *)

Pending == {n \in Ids : event[n] = "pending"}
AtOnce(n) == now
AvailableAt(n) == IF note[n].kind = "sprint_started" THEN note[n].start ELSE now

\* enqueue: the jobs are inserted and their events consumed in one transaction.
Queue(ns) ==
  job' = [n \in Ids |->
            IF n \in ns /\ ~job[n].row THEN NewJob(AvailableAt(n)) ELSE job[n]]
Consume(ns) == event' = [n \in Ids |-> IF n \in ns THEN "consumed" ELSE event[n]]
Enqueue ==
  /\ Pending # {}
  /\ Queue(Pending)
  /\ Consume(Pending)
  /\ UNCHANGED <<now, sprint, link, note, loop, flow, posted, spent>>

Due(n) ==
  /\ job[n].row
  /\ ~job[n].dispatched
  /\ job[n].finished = "no"
  /\ job[n].availableAt <= now

\* The workflow is started, once for an id ...
Execute(n) ==
  /\ Due(n)
  /\ n \notin loop
  /\ loop' = loop \cup {n}
  /\ flow' = IF flow[n].at = "none" THEN [flow EXCEPT ![n].at = "looking"] ELSE flow
  /\ UNCHANGED <<now, sprint, link, event, note, job, posted, spent>>

\* ... and the job marked.
MarkDispatched(n) ==
  /\ n \in loop
  /\ loop' = loop \ {n}
  /\ job' = [job EXCEPT ![n].dispatched = TRUE]
  /\ UNCHANGED <<now, sprint, link, event, note, flow, posted, spent>>

\* An update fails: the loop logs it and comes back.
DispatchFails ==
  /\ loop # {}
  /\ loop' = {}
  /\ UNCHANGED <<now, sprint, link, event, note, job, flow, posted, spent>>

-------------------------------------------------------------------------------
(* The attempts of a workflow.                                               *)

Step(n, place) ==
  /\ flow' = [flow EXCEPT ![n].at = place]
  /\ UNCHANGED <<now, sprint, link, event, note, loop, spent>>

Finishing(n, outcome) ==
  /\ flow' = [flow EXCEPT ![n].at = "finishing", ![n].outcome = outcome]
  /\ UNCHANGED <<now, sprint, link, event, note, job, loop, spent>>

\* A failure that may pass is retried, the last time recorded.
RetryAlways(n, outcome) == Step(n, "sleeping") /\ UNCHANGED job
RetryOr(n, outcome) ==
  IF flow[n].attempt < MaxAttempt
  THEN Step(n, "sleeping") /\ UNCHANGED job
  ELSE Finishing(n, outcome)

SprintStarts(n) == ~sprint.completed /\ sprint.start = note[n].start

\* The job is read with what it depends on; sprint starts are looked up again.
Connected(n) == job[n].finished = "no" /\ link.active
Look(n) ==
  /\ flow[n].at = "looking"
  /\ UNCHANGED posted
  /\ \/ /\ ~Connected(n)
        /\ Finishing(n, "connection_changed")
     \/ /\ Connected(n)
        /\ note[n].kind # "test" /\ ~link.subscribed
        /\ Finishing(n, "event_disabled")
     \/ /\ Connected(n)
        /\ note[n].kind # "test" => link.subscribed
        /\ IF note[n].kind = "sprint_started" /\ ~SprintStarts(n)
           THEN Finishing(n, "sprint_changed")
           ELSE Step(n, "sending") /\ UNCHANGED job

\* chat.postMessage: posted and acknowledged; posted or not, and failed in a way
\* that may pass (a lost connection, a rate limit) or not (a refusal, a response
\* that cannot be read).
SendUnheard(n) ==
  /\ flow[n].at = "sending"
  /\ posted' \in {posted, posted \cup {n}}
  /\ Finishing(n, "delivered")
Send(n) ==
  /\ flow[n].at = "sending"
  /\ \/ posted' = posted \cup {n} /\ Finishing(n, "delivered")
     \/ posted' \in {posted, posted \cup {n}} /\ RetryOr(n, "refused")
     \/ posted' \in {posted, posted \cup {n}} /\ Finishing(n, "refused")

\* finish writes only what is not finished.
Overwrite(n, outcome) ==
  job' = [job EXCEPT ![n].finished = outcome]
WriteOutcome(n, outcome) ==
  job' = IF job[n].finished = "no" THEN [job EXCEPT ![n].finished = outcome] ELSE job
Finish(n) ==
  /\ flow[n].at = "finishing"
  /\ WriteOutcome(n, flow[n].outcome)
  /\ Step(n, "finished")
  /\ UNCHANGED posted

\* The engine records the outcome of the attempt and the workflow returns.
Return(n) ==
  /\ flow[n].at = "finished"
  /\ Step(n, "over")
  /\ UNCHANGED <<job, posted>>

\* A statement fails in a way that may pass: a retry, or a last record of the
\* failure; when that fails too the workflow does.
DatabaseFails(n) ==
  /\ flow[n].at \in {"looking", "finishing"}
  /\ IF flow[n].at = "finishing" /\ flow[n].outcome = "database_unavailable"
     THEN Step(n, "died") /\ UNCHANGED job
     ELSE RetryOr(n, "database_unavailable")
  /\ UNCHANGED posted

\* DurableClock.sleep ends, and with it the workflow or another attempt starts.
Wake(n) ==
  /\ flow[n].at = "sleeping"
  /\ flow' = IF flow[n].attempt = MaxAttempt
             THEN [flow EXCEPT ![n].at = "over"]
             ELSE [flow EXCEPT ![n].at = "looking", ![n].attempt = @ + 1]
  /\ UNCHANGED <<now, sprint, link, event, note, job, loop, posted, spent>>

CrashForgets ==
  /\ spent.crashes < MaxCrashes
  /\ spent' = [spent EXCEPT !.crashes = @ + 1]
  /\ loop' = {}
  /\ flow' = [n \in Ids |-> IF flow[n].at \in InAttempt THEN NoFlow ELSE flow[n]]
  /\ UNCHANGED <<now, sprint, link, event, note, job, posted>>
Crash ==
  /\ spent.crashes < MaxCrashes
  /\ spent' = [spent EXCEPT !.crashes = @ + 1]
  /\ loop' = {}
  /\ flow' = [n \in Ids |-> IF flow[n].at \in InAttempt
                            THEN [flow[n] EXCEPT !.at = "looking"] ELSE flow[n]]
  /\ UNCHANGED <<now, sprint, link, event, note, job, posted>>

-------------------------------------------------------------------------------
Attempt(n) ==
  Look(n) \/ Send(n) \/ Finish(n) \/ Return(n) \/ DatabaseFails(n) \/ Wake(n)

Next ==
  \/ Tick
  \/ \E n \in Ids : TicketEvent(n) \/ TestProject(n)
  \/ \E n \in Ids, s \in [start : Times, completed : BOOLEAN] : WriteSprint(n, s)
  \/ \E l \in [active : BOOLEAN, subscribed : BOOLEAN] : SetLink(l)
  \/ Enqueue
  \/ \E n \in Ids : Execute(n) \/ MarkDispatched(n) \/ Attempt(n)
  \/ DispatchFails
  \/ Crash

Spec == Init /\ [][Next]_vars

\* The loop comes back every two seconds, the clock runs, and the engine resumes
\* what it has not seen the end of.
Fairness ==
  /\ WF_vars(Tick)
  /\ WF_vars(Enqueue)
  /\ \A n \in Ids : WF_vars(Execute(n)) /\ WF_vars(Attempt(n))
FairSpec == Spec /\ Fairness

-------------------------------------------------------------------------------
\* Every variable has its type.
TypeOK ==
  /\ now \in Times
  /\ sprint \in [start : Times, completed : BOOLEAN]
  /\ link \in [active : BOOLEAN, subscribed : BOOLEAN]
  /\ event \in [Ids -> {"none", "pending", "consumed"}]
  /\ note \in [Ids -> [kind : Kinds, start : Times]]
  /\ job \in [Ids -> [row : BOOLEAN, availableAt : Times, dispatched : BOOLEAN,
                      finished : Outcomes \cup {"no"}]]
  /\ loop \in SUBSET Ids
  /\ flow \in [Ids -> [at : Places, attempt : 0..MaxAttempt, outcome : Outcomes]]
  /\ posted \in SUBSET Ids
  /\ spent \in [crashes : 0..MaxCrashes, changes : 0..MaxChanges]

\* An event that is consumed has its job, wherever the process crashes: "SlackEvents
\* atomically creates Slack jobs and marks its integration events consumed"
\* (packages/integration-slack/README.md).
ConsumedIsQueued == \A n \in Ids : event[n] = "consumed" => job[n].row

\* A job recorded as delivered was posted, however the answers of Slack and the
\* failures of the database fell.
DeliveredWasPosted == \A n \in Ids : job[n].finished = "delivered" => n \in posted

\* A job that is finished is not sent again by an attempt the engine repeats.
SendsOnlyUnfinished ==
  \A n \in Ids : flow[n].at = "sending" => job[n].finished = "no"

\* The start of a sprint is not announced before its time.
NotBeforeStart ==
  \A n \in posted : note[n].kind = "sprint_started" => note[n].start <= now

\* A workflow that returns leaves a recorded outcome: the attempts never run out
\* silently.
EndIsRecorded == \A n \in Ids : flow[n].at = "over" => job[n].finished # "no"

\* What is recorded of a job stands: an attempt that runs again after a crash, or
\* finds the connection gone, does not replace it.
OutcomeStands ==
  [][\A n \in Ids : job[n].finished # "no" => job'[n].finished = job[n].finished]_vars

\* Every event the outbox hands over is carried to the end of its workflow,
\* through crashes between any two steps and failures of the database.
EveryEventEnds ==
  \A n \in Ids : event[n] = "pending" ~> flow[n].at \in {"over", "died"}
===============================================================================
