--------------------------- MODULE GenerationJobs ---------------------------
(***************************************************************************)
(* Background generation jobs (services/jobs.py) over the generation queue *)
(* (GenerationQueue), the executor's pool of monitor threads, the pipeline *)
(* subprocesses and the job columns of course_generation_status            *)
(* (repositories/jobs.py), with the shutdown, the death and the restart of *)
(* the API process.                                                        *)
(*                                                                         *)
(* A job holds the queue ticket of the same name.  step[j] is where the    *)
(* code that handles job j stands:                                         *)
(*   new -> inserting   _create_job holds _lock, its row is being created  *)
(*       -> created     _lock is released, executor.submit not yet called  *)
(*       -> futured     in the executor's own FIFO of futures              *)
(*       -> monitor     a pool thread runs _run and waits for its turn     *)
(*       -> saving -> spawning -> piping    status saved, Popen, wait()    *)
(*       -> reaped -> closing -> leaving -> done                           *)
(*   rejected (create refused), cancelled (by shutdown), lost (process)    *)
(* A section under _lock is one step; only _create_job's is longer, for it *)
(* spans a queue operation and a transaction, and `lock` says who is in it.*)
(***************************************************************************)
EXTENDS Naturals, Sequences, FiniteSets

CONSTANTS
    Jobs,          \* job ids (uuid4)
    Requests,      \* tickets of generation operations run by request threads
    Courses,
    CourseOf,      \* the course a job is submitted for
    MaxWorkers,    \* settings.generation_max_concurrency
    None,
    Contained,     \* TRUE: pipeline processes die with the API (container)
    DbFaults       \* TRUE: saving a job's status may fail

ASSUME JobsAssumption ==
    /\ CourseOf \in [Jobs -> Courses]
    /\ MaxWorkers \in Nat \ {0}
    /\ Jobs \cap Requests = {}
    /\ None \notin Jobs \cup Requests
    /\ Contained \in BOOLEAN /\ DbFaults \in BOOLEAN

VARIABLES
    pending, active, stopped, phase,   \* the queue (GenerationQueue)
    lock,       \* the job in _create_job's section of _lock
    step,
    jobStatus,  \* job.status of the record in _jobs
    busy,       \* _active_course_jobs
    futures,    \* the executor's work queue
    registered, \* _processes
    proc,       \* the pipeline process of a job
    rows,       \* course_generation_status: status and worker_id
    server,     \* the API process and how far its shutdown got
    snapshot    \* shutdown's list of processes

queueVars == <<pending, active, stopped, phase>>
memoryVars == <<lock, jobStatus, busy, futures, registered>>
vars == <<queueVars, memoryVars, step, proc, rows, server, snapshot>>

Queue == INSTANCE GenerationQueue WITH Tickets <- Jobs \cup Requests

Steps == {"new", "inserting", "created", "futured", "monitor", "saving", "spawning",
          "piping", "reaped", "closing", "leaving", "done", "rejected", "cancelled", "lost"}
Final == {"done", "rejected", "cancelled", "lost"}
Statuses == {"none", "pending", "running", "completed", "failed"}
Living == {"alive", "finishing", "failing"}
RowType == [status : Statuses, worker : Jobs \cup {None}]

Monitors == {j \in Jobs : step[j] \in
                {"monitor", "saving", "spawning", "piping", "reaped", "closing", "leaving"}}
Alive == {j \in Jobs : proc[j] \in Living}

\* generation_job_active: a worker has claimed the course.
Claimed(c) == rows[c].status \in {"pending", "running"} /\ rows[c].worker # None

\* UPDATE ... WHERE worker_id = job.id
SaveRow(j, status) ==
    rows' = [c \in Courses |->
        IF rows[c].worker = j THEN [rows[c] EXCEPT !.status = status] ELSE rows[c]]

GoTo(j, s) == step' = [step EXCEPT ![j] = s]

Init ==
    /\ Queue!Init
    /\ lock = None
    /\ step = [j \in Jobs |-> "new"]
    /\ jobStatus = [j \in Jobs |-> "none"]
    /\ busy = {}
    /\ futures = <<>>
    /\ registered = {}
    /\ proc = [j \in Jobs |-> "none"]
    /\ rows = [c \in Courses |-> [status |-> "none", worker |-> None]]
    /\ server = "up"
    /\ snapshot = {}
-----------------------------------------------------------------------------
(* Submitting.  A submission that is refused because the course is busy     *)
(* changes nothing and is left out.                                         *)

BeginSubmit(j) ==
    /\ server = "up"
    /\ step[j] = "new"
    /\ lock = None
    /\ CourseOf[j] \notin busy
    /\ Queue!Enqueue(j)
    /\ lock' = j
    /\ GoTo(j, "inserting")
    /\ UNCHANGED <<jobStatus, busy, futures, registered, proc, rows, server, snapshot>>

\* repository.create: the claim of the course, under its advisory lock.
RowCreated(j) ==
    /\ server = "up"
    /\ step[j] = "inserting"
    /\ ~Claimed(CourseOf[j])
    /\ rows' = [rows EXCEPT ![CourseOf[j]] = [status |-> "pending", worker |-> j]]
    /\ jobStatus' = [jobStatus EXCEPT ![j] = "pending"]
    /\ busy' = busy \cup {CourseOf[j]}
    /\ lock' = None
    /\ GoTo(j, "created")
    /\ UNCHANGED <<queueVars, futures, registered, proc, server, snapshot>>

\* Mutant of RowRefused: the ticket is not given back.
RowRefusedKeepingTicket(j) ==
    /\ server = "up"
    /\ step[j] = "inserting"
    /\ lock' = None
    /\ GoTo(j, "rejected")
    /\ UNCHANGED <<queueVars, jobStatus, busy, futures, registered, proc, rows, server, snapshot>>

\* repository.create raises: the course is claimed, archived or gone, or the
\* database failed.
RowRefused(j) ==
    /\ server = "up"
    /\ step[j] = "inserting"
    /\ Queue!Complete(j)
    /\ lock' = None
    /\ GoTo(j, "rejected")
    /\ UNCHANGED <<jobStatus, busy, futures, registered, proc, rows, server, snapshot>>

\* executor.submit, after _lock was released.
HandOver(j) ==
    /\ server = "up"
    /\ step[j] = "created"
    /\ futures' = Append(futures, j)
    /\ GoTo(j, "futured")
    /\ UNCHANGED <<queueVars, lock, jobStatus, busy, registered, proc, rows, server, snapshot>>
-----------------------------------------------------------------------------
(* The monitor thread: _run and the operation of submit_process.            *)

PickUp(j) ==
    /\ server # "down"
    /\ futures # <<>>
    /\ j = Head(futures)
    /\ Cardinality(Monitors) < MaxWorkers
    /\ futures' = Tail(futures)
    /\ GoTo(j, "monitor")
    /\ UNCHANGED <<queueVars, lock, jobStatus, busy, registered, proc, rows, server, snapshot>>

AwaitTurn(j) ==
    /\ server # "down"
    /\ step[j] = "monitor"
    /\ \/ Queue!Sleep(j) /\ UNCHANGED step
       \/ Queue!TakeTurn(j) /\ GoTo(j, "saving")
       \/ Queue!TurnedAway(j) /\ GoTo(j, "closing")
    /\ UNCHANGED <<memoryVars, proc, rows, server, snapshot>>

SaveRunning(j) ==
    /\ server # "down"
    /\ step[j] = "saving"
    /\ lock = None
    /\ jobStatus' = [jobStatus EXCEPT ![j] = "running"]
    /\ \/ SaveRow(j, "running") /\ GoTo(j, "spawning")
       \/ DbFaults /\ UNCHANGED rows /\ GoTo(j, "reaped")
    /\ UNCHANGED <<queueVars, lock, busy, futures, registered, proc, server, snapshot>>

\* Popen and its registration in _processes, or Popen raises.
Spawn(j) ==
    /\ server # "down"
    /\ step[j] = "spawning"
    /\ lock = None
    /\ \/ /\ proc' = [proc EXCEPT ![j] = "alive"]
          /\ registered' = registered \cup {j}
          /\ GoTo(j, "piping")
       \/ GoTo(j, "reaped") /\ UNCHANGED <<proc, registered>>
    /\ UNCHANGED <<queueVars, lock, jobStatus, busy, futures, rows, server, snapshot>>

\* Mutant of Reap: process.wait() is missing.
ReapEarly(j) ==
    /\ server # "down"
    /\ step[j] = "piping"
    /\ lock = None
    /\ registered' = registered \ {j}
    /\ GoTo(j, "reaped")
    /\ UNCHANGED <<queueVars, lock, jobStatus, busy, futures, proc, rows, server, snapshot>>
Reap(j) ==
    /\ server # "down"
    /\ step[j] = "piping"
    /\ proc[j] \notin Living
    /\ lock = None
    /\ registered' = registered \ {j}
    /\ GoTo(j, "reaped")
    /\ UNCHANGED <<queueVars, lock, jobStatus, busy, futures, proc, rows, server, snapshot>>

\* The `finally` of run_ticket.
ReleaseTurn(j) ==
    /\ server # "down"
    /\ step[j] = "reaped"
    /\ Queue!Complete(j)
    /\ GoTo(j, "closing")
    /\ UNCHANGED <<memoryVars, proc, rows, server, snapshot>>

Outcome(j) == IF proc[j] = "ok" THEN "completed" ELSE "failed"

\* The except and else branches: job.status and the row (fail_worker or save).
SaveOutcome(j) ==
    /\ server # "down"
    /\ step[j] = "closing"
    /\ lock = None
    /\ jobStatus' = [jobStatus EXCEPT ![j] = Outcome(j)]
    /\ SaveRow(j, Outcome(j)) \/ (DbFaults /\ UNCHANGED rows)
    /\ GoTo(j, "leaving")
    /\ UNCHANGED <<queueVars, lock, busy, futures, registered, proc, server, snapshot>>

\* The `finally` of _run.
Forget(j) ==
    /\ server # "down"
    /\ step[j] = "leaving"
    /\ lock = None
    /\ busy' = busy \ {CourseOf[j]}
    /\ GoTo(j, "done")
    /\ UNCHANGED <<queueVars, lock, jobStatus, futures, registered, proc, rows, server, snapshot>>
-----------------------------------------------------------------------------
(* The pipeline process (scripts/run_pipeline.py): its stages write the     *)
(* generation status and leave worker_id alone; its last write before it    *)
(* exits is the completed or the failed status.  A module-video job writes  *)
(* no status.  It is not tied to the API process.                           *)

PipelineWrites(j, status, next) ==
    /\ proc[j] = "alive"
    /\ rows' = [rows EXCEPT ![CourseOf[j]].status = status]
    /\ proc' = [proc EXCEPT ![j] = next]
    /\ UNCHANGED <<queueVars, memoryVars, step, server, snapshot>>

\* A restart from the blueprint saves "pending", a stage that starts "running".
PipelineRuns(j) == \E status \in {"pending", "running"} :
    rows[CourseOf[j]].status # status /\ PipelineWrites(j, status, "alive")
PipelineFinishes(j) == PipelineWrites(j, "completed", "finishing")
PipelineFails(j) == PipelineWrites(j, "failed", "failing")

\* "alive" may exit either way: a module-video job ends without a status
\* write, and any process may die.
PipelineExits(j) ==
    /\ \/ proc[j] \in {"alive", "finishing"} /\ proc' = [proc EXCEPT ![j] = "ok"]
       \/ proc[j] \in {"alive", "failing"} /\ proc' = [proc EXCEPT ![j] = "bad"]
    /\ UNCHANGED <<queueVars, memoryVars, step, rows, server, snapshot>>
-----------------------------------------------------------------------------
(* Generation operations that a request thread runs in `with                *)
(* generation_queue.run(...)`, and blueprint edits.                         *)

RequestEnters(r) ==
    /\ server = "up"
    /\ Queue!Enqueue(r) \/ Queue!WaitForTurn(r)
    /\ UNCHANGED <<memoryVars, step, proc, rows, server, snapshot>>

RequestLeaves(r) ==
    /\ server = "up"
    /\ phase[r] = "running"
    /\ Queue!Complete(r)
    /\ UNCHANGED <<memoryVars, step, proc, rows, server, snapshot>>

\* save_course(..., release_generation_worker=True): refused while a worker
\* holds the course; otherwise generation starts over without a worker.
BlueprintEdit(c) ==
    /\ server = "up"
    /\ ~Claimed(c)
    /\ rows[c].status # "none"
    /\ rows' = [rows EXCEPT ![c] = [status |-> "pending", worker |-> None]]
    /\ UNCHANGED <<queueVars, memoryVars, step, proc, server, snapshot>>
-----------------------------------------------------------------------------
(* The API process.  uvicorn ends the lifespan only when no request is in   *)
(* progress any more.                                                       *)

NoRequestInProgress ==
    /\ \A j \in Jobs : step[j] \notin {"inserting", "created"}
    /\ \A r \in Requests : phase[r] \notin {"queued", "asleep", "awake", "running"}

ShutdownBegins ==
    /\ server = "up"
    /\ NoRequestInProgress
    /\ lock = None
    /\ snapshot' = registered
    /\ server' = "terminating"
    /\ UNCHANGED <<queueVars, memoryVars, step, proc, rows>>

\* _terminate_process for every process of the snapshot: SIGTERM, then SIGKILL.
TerminateProcesses ==
    /\ server = "terminating"
    /\ proc' = [j \in Jobs |-> IF j \in snapshot /\ proc[j] \in Living THEN "bad" ELSE proc[j]]
    /\ server' = "stopping"
    /\ UNCHANGED <<queueVars, memoryVars, step, rows, snapshot>>

\* Mutant of StopQueue: clear() instead of stop().
StopQueueByClear ==
    /\ server = "stopping"
    /\ pending' = <<>>
    /\ active' = None
    /\ phase' = Queue!Notified
    /\ server' = "cancelling"
    /\ UNCHANGED <<stopped, memoryVars, step, proc, rows, snapshot>>

StopQueue ==
    /\ server = "stopping"
    /\ Queue!Stop
    /\ server' = "cancelling"
    /\ UNCHANGED <<memoryVars, step, proc, rows, snapshot>>

\* executor.shutdown(wait=True, cancel_futures=True): cancels, then waits.
CancelFutures ==
    /\ server = "cancelling"
    /\ futures' = <<>>
    /\ step' = [j \in Jobs |-> IF step[j] = "futured" THEN "cancelled" ELSE step[j]]
    /\ server' = "joining"
    /\ UNCHANGED <<queueVars, lock, jobStatus, busy, registered, proc, rows, snapshot>>

MonitorsJoined ==
    /\ server = "joining"
    /\ Monitors = {}
    /\ server' = "down"
    /\ UNCHANGED <<queueVars, memoryVars, step, proc, rows, snapshot>>

Crash ==
    /\ server # "down"
    /\ server' = "down"
    /\ proc' = [j \in Jobs |-> IF Contained /\ proc[j] \in Living THEN "bad" ELSE proc[j]]
    /\ UNCHANGED <<queueVars, memoryVars, step, rows, snapshot>>

\* Mutant of Interrupted: a job that never left the queue is forgotten.
InterruptedRunning(c) == rows[c].status = "running"

\* The rows fail_interrupted selects whatever their stages say: pending or
\* running, with or without a worker.
Interrupted(c) == rows[c].status \in {"pending", "running"}

\* The next process: empty memory, generation_queue.start(), and
\* recover_interrupted_generations() before the first request.  fail_interrupted
\* also fails the failed rows (stale) that still have a running nested stage.
Restart ==
    /\ server = "down"
    /\ Queue!Restart
    /\ \E stale \in SUBSET {c \in Courses : rows[c].status = "failed"} :
        rows' = [c \in Courses |->
            IF Interrupted(c) \/ c \in stale
            THEN [status |-> "failed", worker |-> None]
            ELSE rows[c]]
    /\ lock' = None
    /\ step' = [j \in Jobs |-> IF step[j] \in Final \cup {"new"} THEN step[j] ELSE "lost"]
    /\ jobStatus' = [j \in Jobs |-> "none"]
    /\ busy' = {}
    /\ futures' = <<>>
    /\ registered' = {}
    /\ server' = "up"
    /\ snapshot' = {}
    /\ UNCHANGED proc
-----------------------------------------------------------------------------
Submits(j) == BeginSubmit(j) \/ RowCreated(j) \/ RowRefused(j) \/ HandOver(j)
Monitor(j) ==
    \/ PickUp(j) \/ AwaitTurn(j) \/ SaveRunning(j) \/ Spawn(j)
    \/ Reap(j) \/ ReleaseTurn(j) \/ SaveOutcome(j) \/ Forget(j)
Pipeline(j) == PipelineRuns(j) \/ PipelineFinishes(j) \/ PipelineFails(j) \/ PipelineExits(j)
Shutdown == TerminateProcesses \/ StopQueue \/ CancelFutures \/ MonitorsJoined

Next ==
    \/ \E j \in Jobs : Submits(j) \/ Monitor(j) \/ Pipeline(j)
    \/ \E r \in Requests : RequestEnters(r) \/ RequestLeaves(r)
    \/ \E c \in Courses : BlueprintEdit(c)
    \/ ShutdownBegins \/ Shutdown \/ Crash \/ Restart

\* Threads run, processes end, and a request that was let in goes on; nobody
\* has to submit, edit, shut down, crash or restart.
Fairness ==
    /\ \A j \in Jobs :
        /\ WF_vars(RowCreated(j) \/ RowRefused(j) \/ HandOver(j) \/ Monitor(j))
        /\ WF_vars(PipelineExits(j))
    /\ \A r \in Requests :
        WF_vars((phase[r] # "new" /\ RequestEnters(r)) \/ RequestLeaves(r))
    /\ WF_vars(Shutdown)

Spec == Init /\ [][Next]_vars /\ Fairness
-----------------------------------------------------------------------------
\* _processes holds exactly the processes that a monitor waits for.
TypeOK ==
    /\ Queue!TypeOK
    /\ lock \in Jobs \cup {None}
    /\ step \in [Jobs -> Steps]
    /\ jobStatus \in [Jobs -> Statuses]
    /\ busy \subseteq Courses
    /\ futures \in Seq(Jobs)
    /\ registered = {j \in Jobs : step[j] = "piping"}
    /\ proc \in [Jobs -> Living \cup {"none", "ok", "bad"}]
    /\ rows \in [Courses -> RowType]
    /\ server \in {"up", "terminating", "stopping", "cancelling", "joining", "down"}
    /\ snapshot \subseteq Jobs

InProgress(j) == step[j] \notin Final \cup {"new"}

\* A course never has two unfinished jobs, although the row alone would admit
\* a second one as soon as the pipeline has written its final status.
OneJobPerCourse == \A i, j \in Jobs :
    i # j /\ InProgress(i) /\ InProgress(j) => CourseOf[i] # CourseOf[j]

\* One thing is generated at a time, whoever asked for it: a live pipeline
\* process excludes every other one and every operation of a request thread,
\* also while shutdown takes the queue's turn away from a running job.  It
\* holds where a pipeline cannot outlive the API process that started it.
OnePipeline == Contained =>
    /\ \A i, j \in Alive : i = j
    /\ Alive = {} \/ \A r \in Requests : phase[r] # "running"

\* The manager uses the queue as its interface allows.
UsesQueue == Queue!Init /\ [][Queue!Next]_queueVars

\* After a restart no course is left claimed by a job of an earlier process.
RestartRecovers == [][server = "down" /\ server' = "up" =>
    \A c \in Courses : rows'[c].status \notin {"pending", "running"}]_vars

\* Every job that was accepted comes to an end, unless the process dies first:
\* monitors, request threads and pipelines never all wait for one another.
EveryJobEnds == \A j \in Jobs : step[j] = "created" ~> (step[j] \in Final \/ server = "down")

\* "Cancel queued monitors and terminate active pipeline subprocesses.": when
\* shutdown starts to wait for its threads no pipeline process is alive.
ShutdownTerminates == server = "joining" => Alive = {}
=============================================================================
