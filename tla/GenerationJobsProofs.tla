------------------------- MODULE GenerationJobsProofs -------------------------
(***************************************************************************)
(* Proofs about GenerationJobs, for any number of jobs, request threads,   *)
(* courses and monitor threads.  What the queue guarantees is taken from   *)
(* GenerationQueueProofs, instantiated with the composition's tickets.     *)
(***************************************************************************)
EXTENDS GenerationJobs, SequenceTheorems, TLAPS

QP == INSTANCE GenerationQueueProofs WITH Tickets <- Jobs \cup Requests

(***************************************************************************)
(* The executor's work queue holds exactly jobs that wait to be picked up, *)
(* each once; so a monitor thread never starts a job a second time.        *)
(***************************************************************************)
FutureInv ==
    /\ step \in [Jobs -> Steps]
    /\ futures \in Seq(Jobs)
    /\ \A a, b \in 1..Len(futures) : futures[a] = futures[b] => a = b
    /\ \A a \in 1..Len(futures) : step[futures[a]] = "futured"

LEMMA InitFutureInv == Init => FutureInv
  BY DEF Init, FutureInv, Steps

\* A step of a job that is not in the work queue and does not enter it.
LEMMA OutsideFutures ==
    ASSUME FutureInv, NEW j \in Jobs, NEW s \in Steps, step[j] # "futured",
           GoTo(j, s), futures' = futures
    PROVE  FutureInv'
<1>1. \A a \in 1..Len(futures) : futures[a] \in Jobs /\ futures[a] # j
  BY ElementOfSeq DEF FutureInv
<1> QED
  BY <1>1 DEF FutureInv, GoTo

LEMMA NoFutures == <<>> \in Seq(Jobs) /\ Len(<<>>) = 0
  OBVIOUS

LEMMA NextFutureInv == FutureInv /\ [Next]_vars => FutureInv'
<1> SUFFICES ASSUME FutureInv, [Next]_vars PROVE FutureInv'
  OBVIOUS
<1>0. \A a \in 1..Len(futures) : futures[a] \in Jobs
  BY ElementOfSeq DEF FutureInv
<1>1. ASSUME NEW j \in Jobs, BeginSubmit(j) \/ RowCreated(j) \/ RowRefused(j)
      PROVE  FutureInv'
  BY <1>1, OutsideFutures DEF BeginSubmit, RowCreated, RowRefused, Steps
<1>2. ASSUME NEW j \in Jobs, HandOver(j)
      PROVE  FutureInv'
  <2>1. /\ futures' \in Seq(Jobs)
        /\ Len(futures') = Len(futures) + 1
        /\ \A a \in 1..Len(futures) : futures'[a] = futures[a]
        /\ futures'[Len(futures) + 1] = j
    BY <1>2 DEF HandOver, FutureInv
  <2>2. step' \in [Jobs -> Steps] /\ step'[j] = "futured"
        /\ \A i \in Jobs : i # j => step'[i] = step[i]
    BY <1>2 DEF HandOver, GoTo, FutureInv, Steps
  <2>3. \A a \in 1..Len(futures) : futures[a] # j
    BY <1>2 DEF HandOver, FutureInv
  <2> QED
    BY SMTT(30), <1>0, <2>1, <2>2, <2>3 DEF FutureInv
<1>3. ASSUME NEW j \in Jobs, PickUp(j)
      PROVE  FutureInv'
  <2>1. /\ futures' \in Seq(Jobs)
        /\ Len(futures') = Len(futures) - 1
        /\ \A a \in 1..(Len(futures) - 1) : futures'[a] = futures[a + 1]
        /\ j = futures[1] /\ Len(futures) \in Nat \ {0}
    BY <1>3, HeadTailProperties DEF PickUp, FutureInv
  <2>2. step' \in [Jobs -> Steps]
        /\ \A i \in Jobs : i # j => step'[i] = step[i]
    BY <1>3 DEF PickUp, GoTo, FutureInv, Steps
  <2>3. \A a \in 1..(Len(futures) - 1) : futures[a + 1] # j /\ futures[a + 1] \in Jobs
    BY <1>0, <2>1 DEF FutureInv
  <2>4. \A a \in 1..Len(futures') : step'[futures'[a]] = "futured"
    BY SMTT(30), <2>1, <2>2, <2>3 DEF FutureInv
  <2>5. ASSUME NEW a \in 1..Len(futures'), NEW b \in 1..Len(futures'),
               futures'[a] = futures'[b]
        PROVE  a = b
    <3>1. a + 1 \in 1..Len(futures) /\ b + 1 \in 1..Len(futures)
      BY <2>1
    <3>2. futures[a + 1] = futures[b + 1]
      BY <2>1, <2>5
    <3>3. a + 1 = b + 1
      BY <3>1, <3>2 DEF FutureInv
    <3> QED
      BY <3>3
  <2> QED
    BY <2>1, <2>2, <2>4, <2>5 DEF FutureInv
<1>4. ASSUME NEW j \in Jobs,
             \/ SaveRunning(j) \/ Spawn(j) \/ Reap(j) \/ ReleaseTurn(j)
             \/ SaveOutcome(j) \/ Forget(j)
      PROVE  FutureInv'
  <2>1. PICK s \in Steps : GoTo(j, s) /\ step[j] # "futured" /\ futures' = futures
    BY <1>4 DEF SaveRunning, Spawn, Reap, ReleaseTurn, SaveOutcome, Forget, memoryVars, Steps
  <2> QED
    BY <2>1, OutsideFutures
<1>5. ASSUME NEW j \in Jobs, AwaitTurn(j)
      PROVE  FutureInv'
  <2>1. CASE UNCHANGED step
    BY <1>5, <2>1 DEF AwaitTurn, memoryVars, FutureInv
  <2>2. CASE GoTo(j, "saving") \/ GoTo(j, "closing")
    BY <1>5, <2>2, OutsideFutures DEF AwaitTurn, memoryVars, Steps
  <2> QED
    BY <1>5, <2>1, <2>2 DEF AwaitTurn
<1>6. ASSUME UNCHANGED <<step, futures>>
      PROVE  FutureInv'
  BY <1>6 DEF FutureInv
<1>7. ASSUME NEW j \in Jobs, Pipeline(j)
      PROVE  FutureInv'
  BY <1>6, <1>7 DEF Pipeline, PipelineRuns, PipelineFinishes, PipelineFails, PipelineExits,
                    PipelineWrites, memoryVars
<1>8. ASSUME NEW r \in Requests, RequestEnters(r) \/ RequestLeaves(r)
      PROVE  FutureInv'
  BY <1>6, <1>8 DEF RequestEnters, RequestLeaves, memoryVars
<1>9. ASSUME NEW c \in Courses, BlueprintEdit(c)
      PROVE  FutureInv'
  BY <1>6, <1>9 DEF BlueprintEdit, memoryVars
<1>10. ASSUME ShutdownBegins \/ TerminateProcesses \/ StopQueue \/ MonitorsJoined \/ Crash
       PROVE  FutureInv'
  BY <1>6, <1>10 DEF ShutdownBegins, TerminateProcesses, StopQueue, MonitorsJoined, Crash, memoryVars
<1>11. ASSUME CancelFutures \/ Restart
       PROVE  FutureInv'
  <2>1. step' \in [Jobs -> Steps]
    BY <1>11 DEF CancelFutures, Restart, FutureInv, Steps, Final
  <2>2. futures' = <<>>
    BY <1>11 DEF CancelFutures, Restart
  <2> QED
    BY <2>1, <2>2, NoFutures DEF FutureInv
<1>12. CASE UNCHANGED vars
  BY <1>6, <1>12 DEF vars, memoryVars
<1> QED
  BY <1>1, <1>2, <1>3, <1>4, <1>5, <1>7, <1>8, <1>9, <1>10, <1>11, <1>12
     DEF Next, Submits, Monitor, Shutdown
-----------------------------------------------------------------------------
Working == {"created", "futured", "monitor", "saving", "spawning", "piping",
            "reaped", "closing", "leaving"}

(***************************************************************************)
(* The inductive invariant of OneJobPerCourse: _active_course_jobs covers  *)
(* every job between _create_job and the end of _run, and while _lock is   *)
(* held by a submission its course stays free.                             *)
(***************************************************************************)
CourseInv ==
    /\ lock \in Jobs \cup {None}
    /\ \A j \in Jobs : step[j] = "inserting" <=> lock = j
    /\ lock # None => CourseOf[lock] \notin busy
    /\ \A j \in Jobs : step[j] \in Working => CourseOf[j] \in busy
    /\ \A i, j \in Jobs : i # j /\ step[i] \in Working /\ step[j] \in Working =>
            CourseOf[i] # CourseOf[j]

\* Steps of a job that keeps its course, or has none to lose.
LEMMA WorkingStep ==
    ASSUME CourseInv, step \in [Jobs -> Steps],
           NEW j \in Jobs, NEW s \in Steps \ {"inserting"},
           step[j] \in Working, GoTo(j, s), lock' = lock, busy' = busy
    PROVE  CourseInv'
  BY DEF CourseInv, GoTo, Working, Steps

LEMMA InitCourseInv == Init => CourseInv
  BY JobsAssumption DEF Init, CourseInv, Working

LEMMA NextCourseInv == FutureInv /\ CourseInv /\ [Next]_vars => CourseInv'
<1> SUFFICES ASSUME FutureInv, CourseInv, [Next]_vars PROVE CourseInv'
  OBVIOUS
<1>0. step \in [Jobs -> Steps]
  BY DEF FutureInv
<1> USE JobsAssumption
<1>1. ASSUME NEW j \in Jobs, BeginSubmit(j)
      PROVE  CourseInv'
  BY <1>0, <1>1 DEF CourseInv, BeginSubmit, GoTo, Working
<1>2. ASSUME NEW j \in Jobs, RowCreated(j)
      PROVE  CourseInv'
  BY <1>0, <1>2 DEF CourseInv, RowCreated, GoTo, Working
<1>3. ASSUME NEW j \in Jobs, RowRefused(j)
      PROVE  CourseInv'
  BY <1>0, <1>3 DEF CourseInv, RowRefused, GoTo, Working
<1>4. ASSUME NEW j \in Jobs, HandOver(j)
      PROVE  CourseInv'
  BY <1>0, <1>4, WorkingStep DEF HandOver, Working, Steps
<1>5. ASSUME NEW j \in Jobs, PickUp(j)
      PROVE  CourseInv'
  <2>1. step[j] = "futured"
    BY <1>5, HeadTailProperties DEF PickUp, FutureInv
  <2> QED
    BY <1>0, <1>5, <2>1, WorkingStep DEF PickUp, Working, Steps
<1>6. ASSUME NEW j \in Jobs, AwaitTurn(j)
      PROVE  CourseInv'
  <2>1. CASE UNCHANGED step
    BY <1>6, <2>1 DEF AwaitTurn, memoryVars, CourseInv
  <2>2. CASE GoTo(j, "saving") \/ GoTo(j, "closing")
    BY <1>0, <1>6, <2>2, WorkingStep DEF AwaitTurn, memoryVars, Working, Steps
  <2> QED
    BY <1>6, <2>1, <2>2 DEF AwaitTurn
<1>7. ASSUME NEW j \in Jobs,
             SaveRunning(j) \/ Spawn(j) \/ Reap(j) \/ ReleaseTurn(j) \/ SaveOutcome(j)
      PROVE  CourseInv'
  <2>1. PICK s \in Steps \ {"inserting"} :
            GoTo(j, s) /\ step[j] \in Working /\ lock' = lock /\ busy' = busy
    BY <1>7 DEF SaveRunning, Spawn, Reap, ReleaseTurn, SaveOutcome, memoryVars, Steps, Working
  <2> QED
    BY <1>0, <2>1, WorkingStep
<1>8. ASSUME NEW j \in Jobs, Forget(j)
      PROVE  CourseInv'
  BY <1>0, <1>8 DEF CourseInv, Forget, GoTo, Working
<1>9. ASSUME UNCHANGED <<step, lock, busy>>
      PROVE  CourseInv'
  BY <1>9 DEF CourseInv
<1>10. ASSUME NEW j \in Jobs, Pipeline(j)
       PROVE  CourseInv'
  BY <1>9, <1>10 DEF Pipeline, PipelineRuns, PipelineFinishes, PipelineFails, PipelineExits,
                     PipelineWrites, memoryVars
<1>11. ASSUME NEW r \in Requests, RequestEnters(r) \/ RequestLeaves(r)
       PROVE  CourseInv'
  BY <1>9, <1>11 DEF RequestEnters, RequestLeaves, memoryVars
<1>12. ASSUME NEW c \in Courses, BlueprintEdit(c)
       PROVE  CourseInv'
  BY <1>9, <1>12 DEF BlueprintEdit, memoryVars
<1>13. ASSUME ShutdownBegins \/ TerminateProcesses \/ StopQueue \/ MonitorsJoined \/ Crash
       PROVE  CourseInv'
  BY <1>9, <1>13 DEF ShutdownBegins, TerminateProcesses, StopQueue, MonitorsJoined, Crash, memoryVars
<1>14. CASE CancelFutures
  BY <1>0, <1>14 DEF CancelFutures, CourseInv, Working
<1>15. CASE Restart
  BY <1>0, <1>15 DEF Restart, CourseInv, Working, Final
<1>16. CASE UNCHANGED vars
  BY <1>9, <1>16 DEF vars, memoryVars
<1> QED
  BY <1>1, <1>2, <1>3, <1>4, <1>5, <1>6, <1>7, <1>8, <1>10, <1>11, <1>12, <1>13, <1>14, <1>15,
     <1>16 DEF Next, Submits, Monitor, Shutdown

(***************************************************************************)
(* A course never has two unfinished background jobs (services/jobs.py,    *)
(* _active_course_jobs under _lock), whatever the pipelines write to the   *)
(* course's row and however often the process is stopped or dies.          *)
(***************************************************************************)
THEOREM JobsOfACourseExclude == Spec => []OneJobPerCourse
<1>1. Init => FutureInv /\ CourseInv
  BY InitFutureInv, InitCourseInv
<1>2. FutureInv /\ CourseInv /\ [Next]_vars => (FutureInv /\ CourseInv)'
  BY NextFutureInv, NextCourseInv
<1>3. FutureInv /\ CourseInv => OneJobPerCourse
  <2> SUFFICES ASSUME FutureInv, CourseInv, NEW i \in Jobs, NEW j \in Jobs,
                      i # j, InProgress(i), InProgress(j)
               PROVE  CourseOf[i] # CourseOf[j]
    BY DEF OneJobPerCourse
  <2>1. /\ step[i] \in Working \cup {"inserting"}
        /\ step[j] \in Working \cup {"inserting"}
    BY DEF FutureInv, InProgress, Final, Steps, Working
  <2> QED
    BY <2>1, JobsAssumption DEF CourseInv
<1> QED
  BY <1>1, <1>2, <1>3, PTL DEF Spec
-----------------------------------------------------------------------------
(***************************************************************************)
(* The manager uses the queue as its interface allows: every step of the   *)
(* composition is a step of the queue or leaves the queue alone.           *)
(***************************************************************************)
LEMMA StepUsesQueue == [Next]_vars => [Queue!Next]_queueVars
<1> SUFFICES ASSUME [Next]_vars PROVE [Queue!Next]_queueVars
  OBVIOUS
<1>1. ASSUME NEW j \in Jobs, BeginSubmit(j) \/ RowRefused(j) \/ AwaitTurn(j) \/ ReleaseTurn(j)
      PROVE  Queue!Next
  BY <1>1 DEF BeginSubmit, RowRefused, AwaitTurn, ReleaseTurn, Queue!WaitForTurn, Queue!Next
<1>2. ASSUME NEW j \in Jobs,
             \/ RowCreated(j) \/ HandOver(j) \/ PickUp(j) \/ SaveRunning(j) \/ Spawn(j)
             \/ Reap(j) \/ SaveOutcome(j) \/ Forget(j) \/ Pipeline(j)
      PROVE  UNCHANGED queueVars
  BY <1>2 DEF RowCreated, HandOver, PickUp, SaveRunning, Spawn, Reap, SaveOutcome, Forget, Pipeline,
              PipelineRuns, PipelineFinishes, PipelineFails, PipelineExits, PipelineWrites
<1>3. ASSUME NEW r \in Requests, RequestEnters(r) \/ RequestLeaves(r)
      PROVE  Queue!Next
  BY <1>3 DEF RequestEnters, RequestLeaves, Queue!WaitForTurn, Queue!Next
<1>4. ASSUME NEW c \in Courses, BlueprintEdit(c)
      PROVE  UNCHANGED queueVars
  BY <1>4 DEF BlueprintEdit
<1>5. ASSUME ShutdownBegins \/ TerminateProcesses \/ CancelFutures \/ MonitorsJoined \/ Crash
      PROVE  UNCHANGED queueVars
  BY <1>5 DEF ShutdownBegins, TerminateProcesses, CancelFutures, MonitorsJoined, Crash
<1>6. ASSUME StopQueue \/ Restart
      PROVE  Queue!Next
  BY <1>6 DEF StopQueue, Restart, Queue!Next
<1>7. CASE UNCHANGED vars
  BY <1>7 DEF vars
<1> QED
  BY <1>1, <1>2, <1>3, <1>4, <1>5, <1>6, <1>7 DEF Next, Submits, Monitor, Shutdown

THEOREM QueueUsedLegally == Spec => UsesQueue
<1>1. Init => Queue!Init
  BY DEF Init
<1> QED
  BY <1>1, StepUsesQueue, PTL DEF Spec, UsesQueue

\* What GenerationQueueProofs says of the queue holds of the queue in here.
LEMMA QueueFacts ==
    /\ Init => QP!IInv
    /\ QP!IInv /\ [Next]_vars => QP!IInv'
    /\ QP!IInv => /\ phase \in [Jobs \cup Requests -> Queue!Phases]
                  /\ \A t, u \in Jobs \cup Requests :
                        phase[t] = "running" /\ phase[u] = "running" => t = u
<1>1. Init => QP!IInv
  BY QP!InitIInv, JobsAssumption DEF Init, Queue!Init, QP!Init
<1>2. [Queue!Next]_queueVars => [QP!Next]_(QP!vars)
  <2>1. ASSUME NEW t \in Jobs \cup Requests
        PROVE  /\ Queue!Enqueue(t) => QP!Enqueue(t)
               /\ Queue!Refuse(t) => QP!Refuse(t)
               /\ Queue!WaitForTurn(t) => QP!WaitForTurn(t)
               /\ Queue!Complete(t) => QP!Complete(t)
    BY DEF Queue!Enqueue, QP!Enqueue, Queue!Refuse, QP!Refuse, Queue!Complete, QP!Complete,
           Queue!WaitForTurn, QP!WaitForTurn, Queue!Sleep, QP!Sleep, Queue!TakeTurn, QP!TakeTurn,
           Queue!TurnedAway, QP!TurnedAway, Queue!Notified, QP!Notified, Queue!Without, QP!Without,
           Queue!InLine, QP!InLine, Queue!RemoveAt, QP!RemoveAt, Queue!IsTurnOf, QP!IsTurnOf,
           Queue!AtPredicate, QP!AtPredicate
  <2>2. /\ Queue!Stop => QP!Stop
        /\ Queue!Restart => QP!Restart
    BY DEF Queue!Stop, QP!Stop, Queue!Restart, QP!Restart, Queue!Notified, QP!Notified,
           Queue!Live, QP!Live
  <2> QED
    BY <2>1, <2>2 DEF queueVars, QP!vars, Queue!Next, QP!Next
<1>3. QP!IInv /\ [Next]_vars => QP!IInv'
  BY <1>2, QP!NextIInv, StepUsesQueue, JobsAssumption
<1>4. QP!IInv => /\ phase \in [Jobs \cup Requests -> Queue!Phases]
                 /\ \A t, u \in Jobs \cup Requests :
                        phase[t] = "running" /\ phase[u] = "running" => t = u
  BY DEF QP!IInv, QP!TypeOK, QP!OneAtATime, QP!Running, QP!Phases, Queue!Phases
<1> QED
  BY <1>1, <1>3, <1>4
-----------------------------------------------------------------------------
Holding == {"saving", "spawning", "piping", "reaped"}

(***************************************************************************)
(* The inductive invariant of OnePipeline: in a container a pipeline lives *)
(* only while its monitor waits for it, and from the moment its turn comes *)
(* until `finally` a monitor's ticket counts as running, even when stop()  *)
(* has taken it out of the queue's `_active`.                              *)
(***************************************************************************)
PipeInv ==
    /\ step \in [Jobs -> Steps]
    /\ proc \in [Jobs -> Living \cup {"none", "ok", "bad"}]
    /\ \A j \in Jobs : step[j] \in Holding => phase[j] = "running"
    /\ Contained => \A j \in Alive : step[j] = "piping" /\ server # "down"

LEMMA InitPipeInv == Init => PipeInv
  BY DEF Init, PipeInv, Alive, Living, Steps, Holding

\* A step of the queue for one ticket leaves the turn of every other alone.
LEMMA OthersKeepTurn ==
    ASSUME QP!IInv, NEW t \in Jobs \cup Requests,
           Queue!Enqueue(t) \/ Queue!WaitForTurn(t) \/ Queue!Complete(t),
           NEW u \in Jobs \cup Requests, u # t, phase[u] = "running"
    PROVE  phase'[u] = "running"
<1>1. phase \in [Jobs \cup Requests -> Queue!Phases]
  BY QueueFacts
<1> QED
  BY <1>1 DEF Queue!Enqueue, Queue!WaitForTurn, Queue!Sleep, Queue!TakeTurn, Queue!TurnedAway,
              Queue!Complete, Queue!Notified

LEMMA NextPipeInv == QP!IInv /\ FutureInv /\ PipeInv /\ [Next]_vars => PipeInv'
<1> SUFFICES ASSUME QP!IInv, FutureInv, PipeInv, [Next]_vars PROVE PipeInv'
  OBVIOUS
<1>0. /\ phase \in [Jobs \cup Requests -> Queue!Phases]
      /\ step \in [Jobs -> Steps]
      /\ proc \in [Jobs -> Living \cup {"none", "ok", "bad"}]
      /\ Jobs \cap Requests = {}
  BY QueueFacts, JobsAssumption DEF PipeInv
\* The acting job neither had a living process nor takes the turn here.
<1>a. ASSUME NEW j \in Jobs, NEW s \in Steps, GoTo(j, s), s \notin Holding,
             step[j] \notin {"piping"}, proc' = proc, server' = server,
             \A i \in Jobs : i # j /\ phase[i] = "running" => phase'[i] = "running"
      PROVE  PipeInv'
  BY <1>0, <1>a DEF PipeInv, GoTo, Alive, Holding
<1>1. ASSUME NEW j \in Jobs, BeginSubmit(j) \/ RowRefused(j)
      PROVE  PipeInv'
  <2>1. \A i \in Jobs : i # j /\ phase[i] = "running" => phase'[i] = "running"
    BY <1>1, OthersKeepTurn DEF BeginSubmit, RowRefused
  <2> QED
    BY <1>1, <1>a, <2>1 DEF BeginSubmit, RowRefused, Steps, Holding
<1>2. ASSUME NEW j \in Jobs, RowCreated(j) \/ HandOver(j) \/ SaveOutcome(j) \/ Forget(j)
      PROVE  PipeInv'
  <2>1. phase' = phase
    BY <1>2 DEF RowCreated, HandOver, SaveOutcome, Forget, queueVars
  <2>2. PICK s \in Steps : /\ GoTo(j, s) /\ s \notin Holding /\ step[j] # "piping"
                           /\ proc' = proc /\ server' = server
    BY <1>2 DEF RowCreated, HandOver, SaveOutcome, Forget, Steps, Holding
  <2> QED
    BY <1>a, <2>1, <2>2
<1>3. ASSUME NEW j \in Jobs, PickUp(j)
      PROVE  PipeInv'
  <2>1. step[j] = "futured" /\ phase' = phase
    BY <1>3, HeadTailProperties DEF PickUp, FutureInv, queueVars
  <2> QED
    BY <1>3, <1>a, <2>1 DEF PickUp, Steps, Holding
<1>4. ASSUME NEW j \in Jobs, AwaitTurn(j)
      PROVE  PipeInv'
  <2>1. \A i \in Jobs : i # j /\ phase[i] = "running" => phase'[i] = "running"
    BY <1>4, OthersKeepTurn DEF AwaitTurn, Queue!WaitForTurn
  <2>2. CASE UNCHANGED step
    BY <1>0, <1>4, <2>1, <2>2 DEF AwaitTurn, PipeInv, Alive, Holding
  <2>3. CASE GoTo(j, "closing")
    BY <1>4, <1>a, <2>1, <2>3 DEF AwaitTurn, Steps, Holding
  <2>4. CASE Queue!TakeTurn(j) /\ GoTo(j, "saving")
    <3>1. phase'[j] = "running"
      BY <1>0, <2>4 DEF Queue!TakeTurn, Queue!Notified
    <3>2. step' \in [Jobs -> Steps] /\ step'[j] = "saving" /\ step[j] = "monitor"
          /\ \A i \in Jobs : i # j => step'[i] = step[i]
      BY <1>0, <1>4, <2>4 DEF AwaitTurn, GoTo, Steps
    <3> QED
      BY <1>0, <1>4, <2>1, <3>1, <3>2 DEF AwaitTurn, PipeInv, Alive
  <2> QED
    BY <1>4, <2>2, <2>3, <2>4 DEF AwaitTurn
<1>5. ASSUME NEW j \in Jobs, SaveRunning(j)
      PROVE  PipeInv'
  <2>1. phase' = phase /\ proc' = proc /\ server' = server /\ step[j] = "saving"
    BY <1>5 DEF SaveRunning, queueVars
  <2>2. PICK s \in {"spawning", "reaped"} : GoTo(j, s)
    BY <1>5 DEF SaveRunning
  <2> QED
    BY <1>0, <2>1, <2>2 DEF PipeInv, GoTo, Alive, Holding, Steps
<1>6. ASSUME NEW j \in Jobs, Spawn(j)
      PROVE  PipeInv'
  <2>1. phase' = phase /\ server' = server /\ step[j] = "spawning" /\ server # "down"
    BY <1>6 DEF Spawn, queueVars
  <2>2. CASE proc' = [proc EXCEPT ![j] = "alive"] /\ GoTo(j, "piping")
    BY <1>0, <2>1, <2>2 DEF PipeInv, GoTo, Alive, Holding, Steps, Living
  <2>3. CASE proc' = proc /\ GoTo(j, "reaped")
    BY <1>0, <2>1, <2>3 DEF PipeInv, GoTo, Alive, Holding, Steps
  <2> QED
    BY <1>6, <2>2, <2>3 DEF Spawn
<1>7. ASSUME NEW j \in Jobs, Reap(j)
      PROVE  PipeInv'
  <2>1. phase' = phase /\ proc' = proc /\ server' = server /\ step[j] = "piping"
        /\ proc[j] \notin Living /\ GoTo(j, "reaped")
    BY <1>7 DEF Reap, queueVars
  <2> QED
    BY <1>0, <2>1 DEF PipeInv, GoTo, Alive, Holding, Steps
<1>8. ASSUME NEW j \in Jobs, ReleaseTurn(j)
      PROVE  PipeInv'
  <2>1. \A i \in Jobs : i # j /\ phase[i] = "running" => phase'[i] = "running"
    BY <1>8, OthersKeepTurn DEF ReleaseTurn
  <2> QED
    BY <1>8, <1>a, <2>1 DEF ReleaseTurn, Steps, Holding
<1>9. ASSUME NEW j \in Jobs, Pipeline(j)
      PROVE  PipeInv'
  <2>1. UNCHANGED <<step, phase, server>>
    BY <1>9 DEF Pipeline, PipelineRuns, PipelineFinishes, PipelineFails, PipelineExits,
                PipelineWrites, queueVars
  <2>2. PICK s \in Living \cup {"ok", "bad"} : proc[j] \in Living /\ proc' = [proc EXCEPT ![j] = s]
    BY <1>9 DEF Pipeline, PipelineRuns, PipelineFinishes, PipelineFails, PipelineExits,
                PipelineWrites, Living
  <2> QED
    BY <1>0, <2>1, <2>2 DEF PipeInv, Alive
<1>10. ASSUME NEW r \in Requests, RequestEnters(r) \/ RequestLeaves(r)
       PROVE  PipeInv'
  <2>1. Queue!Enqueue(r) \/ Queue!WaitForTurn(r) \/ Queue!Complete(r)
    BY <1>10 DEF RequestEnters, RequestLeaves
  <2>2. \A i \in Jobs : phase[i] = "running" => phase'[i] = "running"
    BY <1>0, <2>1, OthersKeepTurn
  <2>3. UNCHANGED <<step, proc, server>>
    BY <1>10 DEF RequestEnters, RequestLeaves
  <2> QED
    BY <2>2, <2>3 DEF PipeInv, Alive
<1>11. ASSUME NEW c \in Courses, BlueprintEdit(c)
       PROVE  PipeInv'
  BY <1>11 DEF BlueprintEdit, queueVars, PipeInv, Alive
<1>12. ASSUME ShutdownBegins \/ StopQueue
       PROVE  PipeInv'
  <2>1. \A i \in Jobs : phase[i] = "running" => phase'[i] = "running"
    BY <1>0, <1>12 DEF ShutdownBegins, StopQueue, queueVars, Queue!Stop, Queue!Notified
  <2> QED
    BY <1>12, <2>1 DEF ShutdownBegins, StopQueue, PipeInv, Alive
<1>13. ASSUME TerminateProcesses
       PROVE  PipeInv'
  BY <1>0, <1>13 DEF TerminateProcesses, queueVars, PipeInv, Alive, Living
<1>14. ASSUME CancelFutures
       PROVE  PipeInv'
  BY <1>0, <1>14 DEF CancelFutures, queueVars, PipeInv, Alive, Holding, Steps
<1>15. ASSUME MonitorsJoined
       PROVE  PipeInv'
  <2>1. \A j \in Jobs : step[j] # "piping"
    BY <1>15 DEF MonitorsJoined, Monitors
  <2> QED
    BY <1>15, <2>1 DEF MonitorsJoined, queueVars, PipeInv, Alive
<1>16. ASSUME Crash
       PROVE  PipeInv'
  BY <1>0, <1>16 DEF Crash, queueVars, PipeInv, Alive, Living
<1>17. ASSUME Restart
       PROVE  PipeInv'
  <2>1. Contained => Alive = {}
    BY <1>17 DEF Restart, PipeInv
  <2>2. step' \in [Jobs -> Steps] /\ \A j \in Jobs : step'[j] \notin Holding
    BY <1>0, <1>17 DEF Restart, Steps, Final, Holding
  <2> QED
    BY <1>17, <2>1, <2>2 DEF Restart, PipeInv, Alive
<1>18. CASE UNCHANGED vars
  BY <1>18 DEF vars, queueVars, PipeInv, Alive
<1> QED
  BY <1>1, <1>2, <1>3, <1>4, <1>5, <1>6, <1>7, <1>8, <1>9, <1>10, <1>11, <1>12, <1>13, <1>14,
     <1>15, <1>16, <1>17, <1>18 DEF Next, Submits, Monitor, Shutdown

(***************************************************************************)
(* Where a pipeline cannot outlive the API process, no two pipelines are   *)
(* alive at once, and none while a request thread generates: the promise   *)
(* of the shared queue (services/jobs.py, services/generation.py), for any *)
(* number of jobs, requests and monitor threads, through shutdown, crash   *)
(* and restart.                                                            *)
(***************************************************************************)
THEOREM PipelinesExclude == Spec => []OnePipeline
<1> DEFINE Inv == QP!IInv /\ FutureInv /\ PipeInv
<1>1. Init => Inv
  BY QueueFacts, InitFutureInv, InitPipeInv
<1>2. Inv /\ [Next]_vars => Inv'
  BY QueueFacts, NextFutureInv, NextPipeInv
<1>3. Inv => OnePipeline
  <2> SUFFICES ASSUME Inv, Contained PROVE OnePipeline
    BY DEF OnePipeline
  <2>1. \A j \in Alive : j \in Jobs /\ phase[j] = "running"
    BY DEF PipeInv, Alive, Holding
  <2> QED
    BY <2>1, QueueFacts, JobsAssumption DEF OnePipeline
<1> QED
  BY <1>1, <1>2, <1>3, PTL DEF Spec
-----------------------------------------------------------------------------
\* Only a restart brings the API process back.
LEMMA OnlyRestartBringsUp ==
    ASSUME [Next]_vars, server = "down", server' = "up"
    PROVE  Restart
<1>1. ASSUME NEW j \in Jobs, Submits(j) \/ Monitor(j) \/ Pipeline(j)
      PROVE  FALSE
  <2>1. ~Submits(j)
    BY DEF Submits, BeginSubmit, RowCreated, RowRefused, HandOver
  <2>2. ~Monitor(j)
    BY DEF Monitor, PickUp, AwaitTurn, SaveRunning, Spawn, Reap, ReleaseTurn, SaveOutcome, Forget
  <2>3. ~Pipeline(j)
    BY DEF Pipeline, PipelineRuns, PipelineFinishes, PipelineFails, PipelineExits, PipelineWrites
  <2> QED
    BY <1>1, <2>1, <2>2, <2>3
<1>2. ASSUME NEW r \in Requests, RequestEnters(r) \/ RequestLeaves(r)
      PROVE  FALSE
  BY <1>2 DEF RequestEnters, RequestLeaves
<1>3. ASSUME NEW c \in Courses, BlueprintEdit(c)
      PROVE  FALSE
  BY <1>3 DEF BlueprintEdit
<1>4. ~(ShutdownBegins \/ Shutdown \/ Crash)
  BY DEF ShutdownBegins, Shutdown, TerminateProcesses, StopQueue, CancelFutures, MonitorsJoined, Crash
<1>5. ~UNCHANGED vars
  BY DEF vars
<1> QED
  BY <1>1, <1>2, <1>3, <1>4, <1>5 DEF Next

(***************************************************************************)
(* However the API process ended (a crash at any step of any job, or a     *)
(* shutdown), recover_interrupted_generations leaves no course claimed by  *)
(* a job of the earlier process, also where its pipeline still runs.       *)
(***************************************************************************)
THEOREM RestartsRecover == Spec => RestartRecovers
<1>1. [Next]_vars =>
        (server = "down" /\ server' = "up" =>
            \A c \in Courses : rows'[c].status \notin {"pending", "running"})
  <2> SUFFICES ASSUME [Next]_vars, server = "down", server' = "up", NEW c \in Courses
               PROVE  rows'[c].status \notin {"pending", "running"}
    OBVIOUS
  <2>1. PICK stale \in SUBSET {d \in Courses : rows[d].status = "failed"} :
            rows'[c] = IF Interrupted(c) \/ c \in stale
                       THEN [status |-> "failed", worker |-> None] ELSE rows[c]
    BY OnlyRestartBringsUp DEF Restart
  <2> QED
    BY <2>1 DEF Interrupted
<1> QED
  BY <1>1, PTL DEF Spec, RestartRecovers
=============================================================================
