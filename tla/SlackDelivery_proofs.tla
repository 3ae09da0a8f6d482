------------------------- MODULE SlackDelivery_proofs -------------------------
(***************************************************************************)
(* Proofs about SlackDelivery, for any number of jobs and any bounds.  The *)
(* argument: what an attempt means to record is true before it records it  *)
(* (Grounded), and an attempt only comes to its end past a record (Ended); *)
(* a job waits for its time and its workflow for the job (Waited).         *)
(***************************************************************************)
EXTENDS SlackDelivery, TLAPS

\* An attempt about to record a delivery has posted.
Grounded ==
  \A n \in Ids :
    /\ flow[n].at = "finishing" /\ flow[n].outcome = "delivered" => n \in posted
    /\ job[n].finished = "delivered" => n \in posted

\* Past its record a job is finished, and no attempt sleeps after the last one.
Ended ==
  \A n \in Ids :
    /\ flow[n].at \in {"finished", "over"} => job[n].finished # "no"
    /\ flow[n].at = "sleeping" => flow[n].attempt < MaxAttempt

\* A workflow has a job that was due; a job was made for what is noted.
Waited ==
  \A n \in Ids :
    /\ event[n] = "consumed" => job[n].row
    /\ event[n] = "pending" => ~job[n].row
    /\ ~job[n].row => flow[n].at = "none" /\ n \notin posted
    /\ job[n].finished # "no" => job[n].row
    /\ flow[n].at # "none" => job[n].availableAt <= now
    /\ job[n].row /\ note[n].kind = "sprint_started" => note[n].start <= job[n].availableAt
    /\ n \in posted => flow[n].at # "none"

SlackInv == TypeOK /\ Grounded /\ Ended /\ Waited /\ SendsOnlyUnfinished

-------------------------------------------------------------------------------
(* What every step of an attempt does: it moves one workflow, within bounds,  *)
(* and records at most one outcome.                                          *)

Flow == [at : Places, attempt : 0..MaxAttempt, outcome : Outcomes]
Job == [row : BOOLEAN, availableAt : Times, dispatched : BOOLEAN,
        finished : Outcomes \cup {"no"}]

Grounds(n, f) ==
  /\ f.at # "none"
  /\ f.at = "finishing" /\ f.outcome = "delivered" => n \in posted'
  /\ f.at = "sending" => job'[n].finished = "no"
  /\ f.at \in {"finished", "over"} => job'[n].finished # "no"
  /\ f.at = "sleeping" => f.attempt < MaxAttempt

Recorded(n, j) ==
  /\ job[n].finished = "no"
  /\ j.row = job[n].row /\ j.availableAt = job[n].availableAt
  /\ j.finished = "delivered" => n \in posted

Moves(n) ==
  /\ flow[n].at # "none"
  /\ \E f \in Flow : flow' = [flow EXCEPT ![n] = f] /\ Grounds(n, f)
  /\ job' = job \/ \E j \in Job : job' = [job EXCEPT ![n] = j] /\ Recorded(n, j)
  /\ posted' = posted \/ posted' = posted \cup {n}
  /\ UNCHANGED <<now, sprint, link, event, note, loop, spent>>

LEMMA MovesKeeps ==
  ASSUME SlackInv, NEW n \in Ids, Moves(n)
  PROVE  SlackInv'
<1>1. TypeOK'
  BY DEF SlackInv, TypeOK, Moves, Flow, Job
<1>2. Grounded'
  BY DEF SlackInv, TypeOK, Grounded, Moves, Grounds, Recorded
<1>3. Ended'
  BY DEF SlackInv, TypeOK, Ended, Moves, Grounds, Recorded, Flow, Job
<1>4. Waited'
  BY DEF SlackInv, TypeOK, Waited, Moves, Grounds, Recorded
<1>5. SendsOnlyUnfinished'
  BY DEF SlackInv, TypeOK, SendsOnlyUnfinished, Moves, Grounds, Recorded
<1>6. QED
  BY <1>1, <1>2, <1>3, <1>4, <1>5 DEF SlackInv

LEMMA StepMoves ==
  ASSUME SlackInv, NEW n \in Ids, NEW place \in Places, Step(n, place)
  PROVE  \E f \in Flow :
           /\ flow' = [flow EXCEPT ![n] = f]
           /\ f.at = place /\ f.attempt = flow[n].attempt /\ f.outcome = flow[n].outcome
<1> DEFINE f == [flow[n] EXCEPT !.at = place]
<1>1. f \in Flow
  BY DEF SlackInv, TypeOK, Flow
<1>2. flow' = [flow EXCEPT ![n] = f]
  BY DEF Step
<1>3. f.at = place /\ f.attempt = flow[n].attempt /\ f.outcome = flow[n].outcome
  BY DEF SlackInv, TypeOK
<1>4. QED
  BY <1>1, <1>2, <1>3

LEMMA FinishingMoves ==
  ASSUME SlackInv, NEW n \in Ids, NEW outcome \in Outcomes, Finishing(n, outcome)
  PROVE  \E f \in Flow :
           flow' = [flow EXCEPT ![n] = f] /\ f.at = "finishing" /\ f.outcome = outcome
<1> DEFINE f == [flow[n] EXCEPT !.at = "finishing", !.outcome = outcome]
<1>1. f \in Flow /\ flow' = [flow EXCEPT ![n] = f]
  BY DEF SlackInv, TypeOK, Finishing, Flow, Places
<1>2. f.at = "finishing" /\ f.outcome = outcome
  BY DEF SlackInv, TypeOK
<1>3. QED
  BY <1>1, <1>2

LEMMA RetryMoves ==
  ASSUME SlackInv, NEW n \in Ids, NEW outcome \in Outcomes \ {"delivered"},
         RetryOr(n, outcome)
  PROVE  /\ \E f \in Flow : flow' = [flow EXCEPT ![n] = f] /\ Grounds(n, f)
         /\ UNCHANGED <<now, sprint, link, event, note, job, loop, spent>>
<1>1. CASE flow[n].attempt < MaxAttempt
  <2>1. Step(n, "sleeping") /\ UNCHANGED job
    BY <1>1 DEF RetryOr
  <2>2. PICK f \in Flow : /\ flow' = [flow EXCEPT ![n] = f]
                         /\ f.at = "sleeping" /\ f.attempt = flow[n].attempt
    BY <2>1, StepMoves DEF Places
  <2>3. Grounds(n, f)
    BY <1>1, <2>2 DEF Grounds
  <2>4. QED
    BY <2>1, <2>2, <2>3 DEF Step
<1>2. CASE ~(flow[n].attempt < MaxAttempt)
  <2>1. Finishing(n, outcome)
    BY <1>2 DEF RetryOr
  <2>2. PICK f \in Flow : /\ flow' = [flow EXCEPT ![n] = f]
                         /\ f.at = "finishing" /\ f.outcome = outcome
    BY <2>1, FinishingMoves
  <2>3. Grounds(n, f)
    BY <2>2 DEF Grounds
  <2>4. QED
    BY <2>1, <2>2, <2>3 DEF Finishing
<1>3. QED
  BY <1>1, <1>2

LEMMA LookMoves ==
  ASSUME SlackInv, NEW n \in Ids, Look(n)
  PROVE  Moves(n)
<1>1. ASSUME NEW outcome \in Outcomes \ {"delivered"}, Finishing(n, outcome)
      PROVE  Moves(n)
  <2>1. PICK f \in Flow : /\ flow' = [flow EXCEPT ![n] = f]
                         /\ f.at = "finishing" /\ f.outcome = outcome
    BY <1>1, FinishingMoves
  <2>2. Grounds(n, f)
    BY <2>1 DEF Grounds
  <2>3. QED
    BY <1>1, <2>1, <2>2 DEF Look, Finishing, Moves
<1>2. ASSUME Connected(n), Step(n, "sending"), UNCHANGED job
      PROVE  Moves(n)
  BY <1>2, StepMoves DEF Look, Connected, Step, Moves, Grounds, Places
<1>3. QED
  BY <1>1, <1>2 DEF Look, Outcomes

LEMMA SendMoves ==
  ASSUME SlackInv, NEW n \in Ids, Send(n)
  PROVE  Moves(n)
<1>1. CASE posted' = posted \cup {n} /\ Finishing(n, "delivered")
  BY <1>1, FinishingMoves DEF Send, Finishing, Moves, Grounds, Outcomes
<1>2. CASE posted' \in {posted, posted \cup {n}} /\ RetryOr(n, "refused")
  BY <1>2, RetryMoves DEF Send, Moves, Outcomes
<1>3. CASE posted' \in {posted, posted \cup {n}} /\ Finishing(n, "refused")
  BY <1>3, FinishingMoves DEF Send, Finishing, Moves, Grounds, Outcomes
<1>4. QED
  BY <1>1, <1>2, <1>3 DEF Send

LEMMA FinishMoves ==
  ASSUME SlackInv, NEW n \in Ids, Finish(n)
  PROVE  Moves(n)
<1> DEFINE j == [job[n] EXCEPT !.finished = flow[n].outcome]
<1>1. \E f \in Flow : flow' = [flow EXCEPT ![n] = f] /\ f.at = "finished"
  BY StepMoves DEF Finish, Places
<1>2. CASE job[n].finished = "no"
  <2>1. j \in Job /\ job' = [job EXCEPT ![n] = j]
    BY <1>2 DEF SlackInv, TypeOK, Job, Finish, WriteOutcome
  <2>2. Recorded(n, j)
    BY <1>2 DEF SlackInv, TypeOK, Grounded, Finish, Recorded
  <2>3. job'[n].finished # "no"
    <3>1. job'[n].finished = flow[n].outcome /\ flow[n].outcome \in Outcomes
      BY <2>1 DEF SlackInv, TypeOK
    <3>2. QED
      BY <3>1 DEF Outcomes
  <2>4. QED
    BY <1>1, <2>1, <2>2, <2>3 DEF Finish, Step, Moves, Grounds
<1>3. CASE job[n].finished # "no"
  BY <1>1, <1>3 DEF Finish, WriteOutcome, Step, Moves, Grounds
<1>4. QED
  BY <1>2, <1>3

LEMMA ReturnMoves ==
  ASSUME SlackInv, NEW n \in Ids, Return(n)
  PROVE  Moves(n)
BY StepMoves DEF SlackInv, Ended, Return, Step, Moves, Grounds, Places

LEMMA DatabaseFailsMoves ==
  ASSUME SlackInv, NEW n \in Ids, DatabaseFails(n)
  PROVE  Moves(n)
<1>1. CASE Step(n, "died") /\ UNCHANGED job
  BY <1>1, StepMoves DEF DatabaseFails, Step, Moves, Grounds, Places
<1>2. CASE RetryOr(n, "database_unavailable")
  BY <1>2, RetryMoves DEF DatabaseFails, Moves, Outcomes
<1>3. QED
  BY <1>1, <1>2 DEF DatabaseFails

LEMMA WakeMoves ==
  ASSUME SlackInv, NEW n \in Ids, Wake(n)
  PROVE  Moves(n)
<1> DEFINE f == [flow[n] EXCEPT !.at = "looking", !.attempt = @ + 1]
<1>1. flow[n].attempt \in 0..MaxAttempt /\ flow[n].attempt < MaxAttempt
  BY DEF SlackInv, TypeOK, Ended, Wake
<1>2. flow[n].attempt + 1 \in 0..MaxAttempt
  BY <1>1, SlackAssumption
<1>3. f \in Flow /\ flow' = [flow EXCEPT ![n] = f] /\ f.at = "looking"
  BY <1>1, <1>2, SlackAssumption DEF SlackInv, TypeOK, Flow, Places, Wake
<1>4. QED
  BY <1>3 DEF Wake, Moves, Grounds

-------------------------------------------------------------------------------
LEMMA RecordsKeeps ==
  ASSUME SlackInv, NEW n \in Ids, NEW kind \in Kinds, NEW start \in Times,
         Records(n, kind, start)
  PROVE  /\ event' \in [Ids -> {"none", "pending", "consumed"}]
         /\ note' \in [Ids -> [kind : Kinds, start : Times]]
<1>1. [kind |-> kind, start |-> start] \in [kind : Kinds, start : Times]
  OBVIOUS
<1>2. CASE link.active /\ link.subscribed
  BY <1>1, <1>2 DEF SlackInv, TypeOK, Records
<1>3. CASE ~(link.active /\ link.subscribed)
  BY <1>3 DEF SlackInv, TypeOK, Records
<1>4. QED
  BY <1>2, <1>3

LEMMA NothingIsATime == 0 \in Times
BY SlackAssumption DEF Times

(* One lemma per action around the attempts.                                 *)

LEMMA TickKeeps ==
  ASSUME SlackInv, Tick
  PROVE  SlackInv'
<1>1. TypeOK'
  BY SlackAssumption DEF SlackInv, TypeOK, Times, Tick
<1>2. Grounded'
  BY DEF SlackInv, Grounded, TypeOK, Tick
<1>3. Ended'
  BY DEF SlackInv, Ended, TypeOK, Tick
<1>4. Waited'
  BY SlackAssumption DEF SlackInv, Waited, TypeOK, Times, Tick
<1>5. SendsOnlyUnfinished'
  BY DEF SlackInv, SendsOnlyUnfinished, TypeOK, Tick
<1>6. QED
  BY <1>1, <1>2, <1>3, <1>4, <1>5 DEF SlackInv

LEMMA TicketEventKeeps ==
  ASSUME SlackInv, NEW n \in Ids, TicketEvent(n)
  PROVE  SlackInv'
<1>1. TypeOK'
  BY RecordsKeeps, NothingIsATime DEF SlackInv, TypeOK, Kinds, TicketEvent
<1>2. Grounded'
  BY DEF SlackInv, Grounded, TypeOK, TicketEvent, Fresh, Records
<1>3. Ended'
  BY DEF SlackInv, Ended, TypeOK, TicketEvent, Fresh, Records
<1>4. Waited'
  BY DEF SlackInv, Waited, TypeOK, Times, TicketEvent, Fresh, Records
<1>5. SendsOnlyUnfinished'
  BY DEF SlackInv, SendsOnlyUnfinished, TypeOK, TicketEvent, Fresh, Records
<1>6. QED
  BY <1>1, <1>2, <1>3, <1>4, <1>5 DEF SlackInv

LEMMA WriteSprintKeeps ==
  ASSUME SlackInv, NEW n \in Ids, NEW s \in [start : Times, completed : BOOLEAN], WriteSprint(n, s)
  PROVE  SlackInv'
<1>1. TypeOK'
  <2>1. /\ event' \in [Ids -> {"none", "pending", "consumed"}]
        /\ note' \in [Ids -> [kind : Kinds, start : Times]]
    BY RecordsKeeps DEF SlackInv, TypeOK, Kinds, WriteSprint
  <2>2. spent' \in [crashes : 0..MaxCrashes, changes : 0..MaxChanges]
    BY SlackAssumption DEF SlackInv, TypeOK, WriteSprint, Change
  <2>3. QED
    BY <2>1, <2>2 DEF SlackInv, TypeOK, WriteSprint
<1>2. Grounded'
  BY DEF SlackInv, Grounded, TypeOK, WriteSprint, Change, Fresh, Records
<1>3. Ended'
  BY DEF SlackInv, Ended, TypeOK, WriteSprint, Change, Fresh, Records
<1>4. Waited'
  BY DEF SlackInv, Waited, TypeOK, Times, WriteSprint, Change, Fresh, Records
<1>5. SendsOnlyUnfinished'
  BY DEF SlackInv, SendsOnlyUnfinished, TypeOK, WriteSprint, Change, Fresh, Records
<1>6. QED
  BY <1>1, <1>2, <1>3, <1>4, <1>5 DEF SlackInv

LEMMA SetLinkKeeps ==
  ASSUME SlackInv, NEW l \in [active : BOOLEAN, subscribed : BOOLEAN], SetLink(l)
  PROVE  SlackInv'
<1>1. TypeOK'
  BY SlackAssumption DEF SlackInv, TypeOK, SetLink, Change
<1>2. Grounded'
  BY DEF SlackInv, Grounded, TypeOK, SetLink, Change
<1>3. Ended'
  BY DEF SlackInv, Ended, TypeOK, SetLink, Change
<1>4. Waited'
  BY DEF SlackInv, Waited, TypeOK, Times, SetLink, Change
<1>5. SendsOnlyUnfinished'
  BY DEF SlackInv, SendsOnlyUnfinished, TypeOK, SetLink, Change
<1>6. QED
  BY <1>1, <1>2, <1>3, <1>4, <1>5 DEF SlackInv

LEMMA TestProjectKeeps ==
  ASSUME SlackInv, NEW n \in Ids, TestProject(n)
  PROVE  SlackInv'
<1>1. TypeOK'
  <2>1. [kind |-> "test", start |-> 0] \in [kind : Kinds, start : Times]
    BY NothingIsATime DEF Kinds
  <2>2. NewJob(now) \in Job
    BY DEF SlackInv, TypeOK, Job, NewJob
  <2>3. QED
    BY <2>1, <2>2 DEF SlackInv, TypeOK, Job, TestProject
<1>2. Grounded'
  BY DEF SlackInv, Grounded, TypeOK, TestProject, Fresh, NewJob, Waited
<1>3. Ended'
  BY DEF SlackInv, Ended, TypeOK, TestProject, Fresh, NewJob, Waited
<1>4. Waited'
  BY DEF SlackInv, Waited, TypeOK, Times, TestProject, Fresh, NewJob
<1>5. SendsOnlyUnfinished'
  BY DEF SlackInv, SendsOnlyUnfinished, TypeOK, TestProject, Fresh, NewJob
<1>6. QED
  BY <1>1, <1>2, <1>3, <1>4, <1>5 DEF SlackInv

LEMMA EnqueueKeeps ==
  ASSUME SlackInv, Enqueue
  PROVE  SlackInv'
<1>1. TypeOK'
  BY DEF SlackInv, TypeOK, Times, Kinds, Outcomes, NewJob, Enqueue, Queue, Consume, Pending, AvailableAt
<1>2. Grounded'
  BY DEF SlackInv, Grounded, TypeOK, Enqueue, Queue, Consume, Pending, AvailableAt, NewJob, Waited
<1>3. Ended'
  BY DEF SlackInv, Ended, TypeOK, Enqueue, Queue, Consume, Pending, AvailableAt, NewJob, Waited
<1>4. Waited'
  BY DEF SlackInv, Waited, TypeOK, Times, Enqueue, Queue, Consume, Pending, AvailableAt, NewJob
<1>5. SendsOnlyUnfinished'
  BY DEF SlackInv, SendsOnlyUnfinished, TypeOK, Enqueue, Queue, Consume, Pending, AvailableAt, NewJob
<1>6. QED
  BY <1>1, <1>2, <1>3, <1>4, <1>5 DEF SlackInv

LEMMA ExecuteKeeps ==
  ASSUME SlackInv, NEW n \in Ids, Execute(n)
  PROVE  SlackInv'
<1>1. TypeOK'
  BY DEF SlackInv, TypeOK, Places, Execute, Due
<1>2. Grounded'
  BY DEF SlackInv, Grounded, TypeOK, Execute, Due
<1>3. Ended'
  BY DEF SlackInv, Ended, TypeOK, Execute, Due
<1>4. Waited'
  BY DEF SlackInv, Waited, TypeOK, Times, Execute, Due
<1>5. SendsOnlyUnfinished'
  BY DEF SlackInv, SendsOnlyUnfinished, TypeOK, Execute, Due
<1>6. QED
  BY <1>1, <1>2, <1>3, <1>4, <1>5 DEF SlackInv

LEMMA MarkDispatchedKeeps ==
  ASSUME SlackInv, NEW n \in Ids, MarkDispatched(n)
  PROVE  SlackInv'
<1>1. TypeOK'
  BY DEF SlackInv, TypeOK, MarkDispatched
<1>2. Grounded'
  BY DEF SlackInv, Grounded, TypeOK, MarkDispatched
<1>3. Ended'
  BY DEF SlackInv, Ended, TypeOK, MarkDispatched
<1>4. Waited'
  BY DEF SlackInv, Waited, TypeOK, Times, MarkDispatched
<1>5. SendsOnlyUnfinished'
  BY DEF SlackInv, SendsOnlyUnfinished, TypeOK, MarkDispatched
<1>6. QED
  BY <1>1, <1>2, <1>3, <1>4, <1>5 DEF SlackInv

LEMMA DispatchFailsKeeps ==
  ASSUME SlackInv, DispatchFails
  PROVE  SlackInv'
<1>1. TypeOK'
  BY DEF SlackInv, TypeOK, DispatchFails
<1>2. Grounded'
  BY DEF SlackInv, Grounded, TypeOK, DispatchFails
<1>3. Ended'
  BY DEF SlackInv, Ended, TypeOK, DispatchFails
<1>4. Waited'
  BY DEF SlackInv, Waited, TypeOK, Times, DispatchFails
<1>5. SendsOnlyUnfinished'
  BY DEF SlackInv, SendsOnlyUnfinished, TypeOK, DispatchFails
<1>6. QED
  BY <1>1, <1>2, <1>3, <1>4, <1>5 DEF SlackInv

LEMMA CrashKeeps ==
  ASSUME SlackInv, Crash
  PROVE  SlackInv'
<1>1. TypeOK'
  <2>1. \A n \in Ids : [flow[n] EXCEPT !.at = "looking"] \in Flow
    BY DEF SlackInv, TypeOK, Flow, Places
  <2>2. spent' \in [crashes : 0..MaxCrashes, changes : 0..MaxChanges]
    BY SlackAssumption DEF SlackInv, TypeOK, Crash
  <2>3. QED
    BY <2>1, <2>2 DEF SlackInv, TypeOK, Flow, Crash
<1>2. Grounded'
  BY DEF SlackInv, Grounded, TypeOK, Crash, InAttempt
<1>3. Ended'
  BY DEF SlackInv, Ended, TypeOK, Crash, InAttempt
<1>4. Waited'
  BY DEF SlackInv, Waited, TypeOK, Times, Crash, InAttempt
<1>5. SendsOnlyUnfinished'
  BY DEF SlackInv, SendsOnlyUnfinished, TypeOK, Crash, InAttempt
<1>6. QED
  BY <1>1, <1>2, <1>3, <1>4, <1>5 DEF SlackInv

-------------------------------------------------------------------------------
(* The invariant and what follows from it.                                   *)

LEMMA InitSlackInv == Init => SlackInv
BY SlackAssumption
DEF Init, SlackInv, TypeOK, Grounded, Ended, Waited, SendsOnlyUnfinished, Times, Kinds,
    Outcomes, Places, NoJob, NoFlow

LEMMA NextSlackInv == SlackInv /\ [Next]_vars => SlackInv'
<1> SUFFICES ASSUME SlackInv, [Next]_vars
             PROVE  SlackInv'
  OBVIOUS
<1>1. CASE UNCHANGED vars
  BY <1>1 DEF vars, SlackInv, TypeOK, Grounded, Ended, Waited, SendsOnlyUnfinished
<1>2. ASSUME NEW n \in Ids, Attempt(n)
      PROVE  SlackInv'
  BY <1>2, LookMoves, SendMoves, FinishMoves, ReturnMoves, DatabaseFailsMoves, WakeMoves,
     MovesKeeps
  DEF Attempt
<1>3. QED
  BY <1>1, <1>2, TickKeeps, TicketEventKeeps, TestProjectKeeps, WriteSprintKeeps, SetLinkKeeps,
     EnqueueKeeps, ExecuteKeeps, MarkDispatchedKeeps, DispatchFailsKeeps, CrashKeeps
  DEF Next

LEMMA AlwaysSlackInv == Spec => []SlackInv
BY InitSlackInv, NextSlackInv, PTL DEF Spec

\* Every variable has its type, for any jobs, times and numbers of attempts.
THEOREM SlackTypeCorrect == Spec => []TypeOK
BY AlwaysSlackInv, PTL DEF SlackInv

\* An event marked consumed has its job, whatever crashes.
THEOREM NoEventIsLost == Spec => []ConsumedIsQueued
<1>1. SlackInv => ConsumedIsQueued
  BY DEF SlackInv, Waited, ConsumedIsQueued
<1>2. QED
  BY <1>1, AlwaysSlackInv, PTL

\* What is recorded as delivered has reached the channel.
THEOREM DeliveryIsReal == Spec => []DeliveredWasPosted
<1>1. SlackInv => DeliveredWasPosted
  BY DEF SlackInv, Grounded, DeliveredWasPosted
<1>2. QED
  BY <1>1, AlwaysSlackInv, PTL

\* An attempt that runs again does not send what is finished.
THEOREM FinishedIsNotSent == Spec => []SendsOnlyUnfinished
BY AlwaysSlackInv, PTL DEF SlackInv

\* No sprint start reaches the channel before its time.
THEOREM StartsWait == Spec => []NotBeforeStart
<1>1. SlackInv => NotBeforeStart
  BY SlackAssumption DEF SlackInv, TypeOK, Times, Waited, NotBeforeStart
<1>2. QED
  BY <1>1, AlwaysSlackInv, PTL

\* The attempts never run out without a recorded outcome.
THEOREM NoSilentEnd == Spec => []EndIsRecorded
<1>1. SlackInv => EndIsRecorded
  BY DEF SlackInv, Ended, EndIsRecorded
<1>2. QED
  BY <1>1, AlwaysSlackInv, PTL

\* A recorded outcome is final.
THEOREM OutcomesStand == Spec => OutcomeStands
<1> DEFINE Stands == \A n \in Ids : job[n].finished # "no" => job'[n].finished = job[n].finished
<1>1. ASSUME SlackInv, Next, NEW n \in Ids, job[n].finished # "no"
      PROVE  job'[n].finished = job[n].finished
  <2>1. CASE job' = job
    BY <1>1, <2>1
  <2>2. CASE Enqueue
    BY <1>1, <2>2 DEF SlackInv, TypeOK, Waited, Enqueue, Queue, Pending
  <2>3. ASSUME NEW m \in Ids, TestProject(m)
        PROVE  job'[n].finished = job[n].finished
    BY <1>1, <2>3 DEF SlackInv, TypeOK, Waited, TestProject, Fresh
  <2>4. ASSUME NEW m \in Ids, MarkDispatched(m)
        PROVE  job'[n].finished = job[n].finished
    BY <1>1, <2>4 DEF SlackInv, TypeOK, MarkDispatched
  <2>5. ASSUME NEW m \in Ids, Finish(m)
        PROVE  job'[n].finished = job[n].finished
    BY <1>1, <2>5 DEF SlackInv, TypeOK, Finish, WriteOutcome
  <2>6. QED
    BY <1>1, <2>1, <2>2, <2>3, <2>4, <2>5
    DEF Next, Tick, TicketEvent, WriteSprint, SetLink, Execute, DispatchFails, Crash,
        Attempt, Look, Send, Return, DatabaseFails, Wake, Step, Finishing, RetryOr
<1>2. SlackInv /\ [Next]_vars => [Stands]_vars
  BY <1>1
<1>3. QED
  BY <1>2, AlwaysSlackInv, PTL DEF Spec, OutcomeStands
===============================================================================
