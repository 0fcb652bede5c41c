---------------------------- MODULE VideoService ----------------------------
(***************************************************************************)
(* The video stage of a course that uses the Video Generator service       *)
(* (generation/video_service.py): a thread per module submits its request, *)
(* polls the run, downloads the video and deletes the remote copy, and     *)
(* keeps in the module's video_service record what a later attempt needs.  *)
(* The pipeline process may die at any point, answers get lost, the        *)
(* service is busy, its runs fail or are purged; the trainer continues,    *)
(* regenerates a module's video or edits the course in between.            *)
(*                                                                         *)
(* This is the inside of the actions MakeFile and SaveServiceVideo of      *)
(* GenerationPipeline.  The service itself is external: a run is known by  *)
(* the request it was made for, a request id sent again with the same body *)
(* returns its run.                                                        *)
(***************************************************************************)
EXTENDS Naturals, Sequences, FiniteSets

CONSTANTS
    Modules,
    Workers,        \* video_service_max_concurrency
    Slots,          \* runs the service works on at a time
    MaxRetries,     \* video_service_max_remote_retries
    MaxRejections,
    Retention,      \* whether the service purges runs that have ended
    MaxRounds,      \* bound: edits and regenerations
    MaxFaults       \* bound: failures, lost answers, timeouts, purges, crashes

ASSUME VideoAssumption ==
    /\ IsFiniteSet(Modules) /\ Modules # {}
    /\ Workers \in Nat \ {0} /\ Slots \in Nat \ {0}
    /\ Retention \in BOOLEAN
    /\ {MaxRetries, MaxRejections, MaxRounds, MaxFaults} \subseteq Nat

VARIABLES
    edition,    \* of the course's text
    round,      \* how often a module's video was asked for anew
    runs,       \* the service: for each module the runs of its request ids 1, 2, ...
    record,     \* the module's video_service record in the database
    local,      \* ModuleVideoJob.record, the copy the thread works with
    rejections, \* a local of _submit
    videoPath,  \* modules with a video_path
    videoFile,  \* edition of the module's video file (0: no file)
    videoStage, \* the pipeline process: idle, or in its video stage
    pc,         \* where each module's thread stands
    faults

serviceVars == <<edition, round, runs>>
savedVars == <<record, videoPath, videoFile>>
vars == <<serviceVars, savedVars, local, rejections, videoStage, pc, faults>>

NoRecord == [request |-> 0, run |-> 0, status |-> "none", retries |-> 0]

Init ==
    /\ edition = 1
    /\ round = [m \in Modules |-> 1]
    /\ runs = [m \in Modules |-> <<>>]
    /\ record = [m \in Modules |-> NoRecord]
    /\ local = record
    /\ rejections = [m \in Modules |-> 0]
    /\ videoPath = {}
    /\ videoFile = [m \in Modules |-> 0]
    /\ videoStage = "idle"
    /\ pc = [m \in Modules |-> "idle"]
    /\ faults = MaxFaults
-----------------------------------------------------------------------------
GoTo(m, label) == pc' = [pc EXCEPT ![m] = label]
Fault == faults > 0 /\ faults' = faults - 1

\* _persist: the copy of the thread, changed, becomes the saved record.
Persist(m, rec) ==
    /\ local' = [local EXCEPT ![m] = rec]
    /\ record' = [record EXCEPT ![m] = rec]

Terminal == {"succeeded", "failed", "broken", "needs_attention"}
Known(m, r) == r \in DOMAIN runs[m] /\ ~runs[m][r].deleted
Active(m) == {r \in DOMAIN runs[m] : runs[m][r].status = "processing"}
Busy == Cardinality(UNION {{m} \X Active(m) : m \in Modules}) >= Slots

\* A call of the service that fails, times out or passes the deadline, or the
\* HLS packaging of the downloaded file.
CallFails(m) ==
    /\ pc[m] \in {"start", "submit", "poll", "retry", "download", "delete"}
    /\ Fault
    /\ GoTo(m, "failed")
    /\ UNCHANGED <<serviceVars, savedVars, local, rejections, videoStage>>
-----------------------------------------------------------------------------
(* _current_status and _submit.                                             *)

Resumes(m) ==
    /\ local[m].run # 0 /\ local[m].request # 0
    /\ local[m].status \notin {"none", "submitting"}

CurrentStatus(m) ==
    LET rec == local[m] IN
    /\ pc[m] = "start"
    /\ \/ /\ Resumes(m) /\ Known(m, rec.run)
          /\ Persist(m, [rec EXCEPT !.status = runs[m][rec.run].status])
          /\ GoTo(m, "poll")
       \/ /\ Resumes(m) /\ ~Known(m, rec.run)
          /\ local' = [local EXCEPT ![m].request = 0]
          /\ GoTo(m, "submit")
          /\ UNCHANGED record
       \/ /\ ~Resumes(m)
          /\ GoTo(m, "submit")
          /\ UNCHANGED <<local, record>>
    /\ UNCHANGED <<serviceVars, videoPath, videoFile, rejections, videoStage, faults>>

\* Mutant of NewRequest: the id is saved with the answer only.
NewRequestUnsaved(m) ==
    /\ pc[m] = "submit" /\ local[m].request = 0
    /\ local' = [local EXCEPT ![m].request = Len(runs[m]) + 1, ![m].run = 0,
                              ![m].status = "submitting"]
    /\ UNCHANGED <<serviceVars, savedVars, rejections, videoStage, pc, faults>>

\* "Persist the id before sending so a crash replays instead of duplicating."
NewRequest(m) ==
    /\ pc[m] = "submit" /\ local[m].request = 0
    /\ Persist(m, [local[m] EXCEPT !.request = Len(runs[m]) + 1, !.run = 0,
                                   !.status = "submitting"])
    /\ UNCHANGED <<serviceVars, videoPath, videoFile, rejections, videoStage, pc, faults>>

\* What the service does with the request: a new run, or the one it has.
Accepts(m) ==
    LET r == local[m].request IN
    /\ r # 0
    /\ \/ /\ r \notin DOMAIN runs[m] /\ ~Busy
          /\ runs' = [runs EXCEPT ![m] = Append(@,
                [status |-> "processing", deleted |-> FALSE, edition |-> edition,
                 round |-> round[m], retries |-> 0])]
       \/ /\ Known(m, r) /\ runs[m][r].edition = edition
          /\ UNCHANGED runs

Submit(m) ==
    LET r == local[m].request IN
    /\ pc[m] = "submit"
    /\ Accepts(m)
    /\ local' = [local EXCEPT ![m].run = r, ![m].status = runs'[m][r].status, ![m].retries = 0]
    /\ GoTo(m, "answered")
    /\ UNCHANGED <<edition, round, savedVars, rejections, videoStage, faults>>

SubmitUnanswered(m) ==
    /\ pc[m] = "submit"
    /\ Accepts(m)
    /\ Fault
    /\ GoTo(m, "failed")
    /\ UNCHANGED <<edition, round, savedVars, local, rejections, videoStage>>

\* 409: the id has another body; 410: its run was deleted (or the service
\* refuses for a reason of its own).
Rejected(m) ==
    LET r == local[m].request IN
    /\ pc[m] = "submit" /\ r # 0
    /\ \/ /\ r \in DOMAIN runs[m] /\ (runs[m][r].deleted \/ runs[m][r].edition # edition)
          /\ UNCHANGED faults
       \/ r \notin DOMAIN runs[m] /\ Fault
    /\ rejections' = [rejections EXCEPT ![m] = @ + 1]
    /\ IF rejections[m] >= MaxRejections
       THEN GoTo(m, "failed") /\ UNCHANGED local
       ELSE local' = [local EXCEPT ![m].request = 0] /\ UNCHANGED pc
    /\ UNCHANGED <<serviceVars, savedVars, videoStage>>

\* _remember_status
Answered(m) ==
    /\ pc[m] = "answered"
    /\ Persist(m, local[m])
    /\ GoTo(m, "poll")
    /\ UNCHANGED <<serviceVars, videoPath, videoFile, rejections, videoStage, faults>>
-----------------------------------------------------------------------------
(* run: poll, and act on what the run came to.                              *)

\* Mutant of Poll: a run that is gone is asked for again and again.
PollForever(m) ==
    LET r == local[m].run IN
    /\ pc[m] = "poll" /\ local[m].status \notin Terminal
    /\ IF Known(m, r)
       THEN Persist(m, [local[m] EXCEPT !.status = runs[m][r].status])
       ELSE UNCHANGED <<local, record>>
    /\ UNCHANGED <<serviceVars, videoPath, videoFile, rejections, videoStage, pc, faults>>

\* A purged run answers 404, which no waiting can repair.
Poll(m) ==
    LET r == local[m].run IN
    /\ pc[m] = "poll" /\ local[m].status \notin Terminal
    /\ IF Known(m, r)
       THEN Persist(m, [local[m] EXCEPT !.status = runs[m][r].status]) /\ UNCHANGED pc
       ELSE GoTo(m, "failed") /\ UNCHANGED <<local, record>>
    /\ UNCHANGED <<serviceVars, videoPath, videoFile, rejections, videoStage, faults>>

CountRetry(m) == Persist(m, [local[m] EXCEPT !.retries = @ + 1])

\* Mutant of Forgotten: the request of a failed run is kept.
ForgottenNot(rec) == rec

Forgotten(rec) == [rec EXCEPT !.request = 0]

MayRetry(rec) == rec.status = "failed" /\ rec.retries < MaxRetries

Decide(m) ==
    LET rec == local[m] IN
    /\ pc[m] = "poll"
    /\ rec.status \in Terminal
    /\ \/ rec.status = "succeeded" /\ GoTo(m, "download") /\ UNCHANGED <<local, record>>
       \/ MayRetry(rec) /\ CountRetry(m) /\ GoTo(m, "retry")
       \/ /\ ~MayRetry(rec) /\ rec.status # "succeeded"
          /\ Persist(m, Forgotten(rec))
          /\ GoTo(m, IF rec.status = "needs_attention" THEN "failed" ELSE "discard")
    /\ UNCHANGED <<serviceVars, videoPath, videoFile, rejections, videoStage, faults>>

Restarts(m) ==
    LET r == local[m].run IN
    /\ Known(m, r) /\ runs[m][r].status = "failed" /\ ~Busy
    /\ runs' = [runs EXCEPT ![m][r].status = "processing", ![m][r].retries = @ + 1]

RetryRun(m) ==
    /\ pc[m] = "retry"
    /\ \/ Restarts(m) /\ local' = [local EXCEPT ![m].status = "processing"] /\ GoTo(m, "answered")
             /\ UNCHANGED faults
       \/ Restarts(m) /\ Fault /\ GoTo(m, "failed") /\ UNCHANGED local
       \/ ~Known(m, local[m].run) /\ GoTo(m, "failed") /\ UNCHANGED <<runs, local, faults>>
       \* Only a busy submission waits; a busy retry ends the attempt.
       \/ Busy /\ GoTo(m, "failed") /\ UNCHANGED <<runs, local, faults>>
    /\ UNCHANGED <<edition, round, savedVars, rejections, videoStage>>

\* The verified file replaces the module's video in one step.
Download(m) ==
    LET r == local[m].run IN
    /\ pc[m] = "download"
    /\ IF Known(m, r)
       THEN videoFile' = [videoFile EXCEPT ![m] = runs[m][r].edition] /\ GoTo(m, "delete")
       ELSE GoTo(m, "failed") /\ UNCHANGED videoFile
    /\ UNCHANGED <<serviceVars, record, videoPath, local, rejections, videoStage, faults>>

\* _delete_remote, after a download or after the run failed for good; an error
\* is only logged.
DeleteRemote(m) ==
    LET r == local[m].run IN
    /\ pc[m] \in {"delete", "discard"}
    /\ \/ /\ Known(m, r)
          /\ runs' = [runs EXCEPT ![m][r].deleted = TRUE]
          /\ UNCHANGED faults
       \/ Known(m, r) /\ Fault /\ UNCHANGED runs
       \/ ~Known(m, r) /\ UNCHANGED <<runs, faults>>
    /\ GoTo(m, IF pc[m] = "delete" THEN "stored" ELSE "failed")
    /\ UNCHANGED <<edition, round, savedVars, local, rejections, videoStage>>

Stored(m) ==
    /\ pc[m] = "stored"
    /\ Persist(m, [local[m] EXCEPT !.status = "stored"])
    /\ GoTo(m, "save")
    /\ UNCHANGED <<serviceVars, videoPath, videoFile, rejections, videoStage, faults>>

SavePath(m) ==
    /\ pc[m] = "save"
    /\ videoPath' = videoPath \cup {m}
    /\ GoTo(m, "done")
    /\ UNCHANGED <<serviceVars, record, videoFile, local, rejections, videoStage, faults>>
-----------------------------------------------------------------------------
(* The stage: generate_videos_via_service and run_parallel_stage_items.     *)

HasVideo(m) == m \in videoPath /\ videoFile[m] # 0

StageStarts ==
    /\ videoStage = "idle"
    /\ videoStage' = "running"
    /\ pc' = [m \in Modules |-> IF HasVideo(m) THEN "idle" ELSE "waiting"]
    /\ local' = record
    /\ rejections' = [m \in Modules |-> 0]
    /\ UNCHANGED <<serviceVars, savedVars, faults>>

PickUp(m) ==
    /\ pc[m] = "waiting"
    /\ Cardinality({n \in Modules : pc[n] \notin {"idle", "waiting", "done", "failed"}}) < Workers
    /\ GoTo(m, "start")
    /\ UNCHANGED <<serviceVars, savedVars, local, rejections, videoStage, faults>>

\* The executor is left when all threads have ended, also after a failure.
StageEnds ==
    /\ videoStage = "running"
    /\ \A m \in Modules : pc[m] \in {"idle", "done", "failed"}
    /\ videoStage' = "idle"
    /\ pc' = [m \in Modules |-> "idle"]
    /\ local' = record
    /\ UNCHANGED <<serviceVars, savedVars, rejections, faults>>

ProcessDies ==
    /\ videoStage = "running"
    /\ Fault
    /\ videoStage' = "idle"
    /\ pc' = [m \in Modules |-> "idle"]
    /\ local' = record
    /\ UNCHANGED <<serviceVars, savedVars, rejections>>

\* A regeneration of one module forgets its record first (force=True).
Regenerate(m) ==
    /\ videoStage = "idle"
    /\ round[m] < MaxRounds
    /\ round' = [round EXCEPT ![m] = @ + 1]
    /\ record' = [record EXCEPT ![m] = NoRecord]
    /\ local' = record'
    /\ rejections' = [rejections EXCEPT ![m] = 0]
    /\ videoStage' = "running"
    /\ pc' = [pc EXCEPT ![m] = "waiting"]
    /\ UNCHANGED <<edition, runs, videoPath, videoFile, faults>>

\* Mutant of StartsOver: the records stay.
StartsOverKeepingRecords ==
    /\ videoStage = "idle"
    /\ \A m \in Modules : round[m] < MaxRounds
    /\ round' = [m \in Modules |-> round[m] + 1]
    /\ edition' \in {edition, edition + 1}
    /\ videoPath' = {}
    /\ UNCHANGED <<record, local, runs, videoFile, rejections, videoStage, pc, faults>>

\* _invalidate_generated_content: an edit changes the text, a new generation
\* from the blueprint does not.
StartsOver ==
    /\ videoStage = "idle"
    /\ \A m \in Modules : round[m] < MaxRounds
    /\ round' = [m \in Modules |-> round[m] + 1]
    /\ edition' \in {edition, edition + 1}
    /\ record' = [m \in Modules |-> NoRecord]
    /\ local' = record'
    /\ videoPath' = {}
    /\ UNCHANGED <<runs, videoFile, rejections, videoStage, pc, faults>>
-----------------------------------------------------------------------------
(* The service.                                                             *)

RunSucceeds(m, r) ==
    /\ r \in Active(m)
    /\ runs' = [runs EXCEPT ![m][r].status = "succeeded"]
    /\ UNCHANGED <<edition, round, savedVars, local, rejections, videoStage, pc, faults>>

RunFails(m, r) ==
    /\ r \in Active(m)
    /\ Fault
    /\ \E status \in Terminal \ {"succeeded"} : runs' = [runs EXCEPT ![m][r].status = status]
    /\ UNCHANGED <<edition, round, savedVars, local, rejections, videoStage, pc>>

\* The retention policy.
Purge(m, r) ==
    /\ Retention /\ Fault
    /\ Known(m, r) /\ runs[m][r].status \in Terminal
    /\ runs' = [runs EXCEPT ![m][r].deleted = TRUE]
    /\ UNCHANGED <<edition, round, savedVars, local, rejections, videoStage, pc>>
-----------------------------------------------------------------------------
Thread(m) ==
    \/ PickUp(m) \/ CurrentStatus(m) \/ NewRequest(m) \/ Submit(m) \/ Rejected(m) \/ Answered(m)
    \/ Poll(m) \/ Decide(m) \/ RetryRun(m) \/ Download(m) \/ DeleteRemote(m) \/ Stored(m)
    \/ SavePath(m)
Trainer == StageStarts \/ StartsOver \/ \E m \in Modules : Regenerate(m)

Next ==
    \/ Trainer \/ StageEnds \/ ProcessDies
    \/ \E m \in Modules :
        \/ Thread(m) \/ CallFails(m) \/ SubmitUnanswered(m)
        \/ \E r \in DOMAIN runs[m] : RunSucceeds(m, r) \/ RunFails(m, r) \/ Purge(m, r)

\* The threads go on, and the service works on the runs it has accepted.
Fairness ==
    /\ WF_vars(StageEnds)
    /\ \A m \in Modules :
        /\ WF_vars(Thread(m))
        /\ WF_vars(\E r \in DOMAIN runs[m] : RunSucceeds(m, r))

Spec == Init /\ [][Next]_vars /\ Fairness
-----------------------------------------------------------------------------
Run == [status : Terminal \cup {"processing"}, deleted : BOOLEAN, edition : Nat, round : Nat,
        retries : Nat]
ServiceRecord == [request : Nat, run : Nat, retries : 0..MaxRetries,
                  status : Terminal \cup {"none", "submitting", "processing", "stored"}]
ThreadSteps == {"idle", "waiting", "start", "submit", "answered", "poll", "retry", "download",
           "delete", "discard", "stored", "save", "done", "failed"}

TypeOK ==
    /\ edition \in Nat
    /\ round \in [Modules -> Nat]
    /\ runs \in [Modules -> Seq(Run)]
    /\ record \in [Modules -> ServiceRecord] /\ local \in [Modules -> ServiceRecord]
    /\ rejections \in [Modules -> Nat]
    /\ videoPath \subseteq Modules
    /\ videoFile \in [Modules -> Nat]
    /\ videoStage \in {"idle", "running"}
    /\ pc \in [Modules -> ThreadSteps]
    /\ faults \in 0..MaxFaults

\* Crashes, lost answers and timeouts never make the service work twice at the
\* same time on the video that was asked for.
NoDuplicateRun == \A m \in Modules :
    Cardinality({r \in Active(m) : runs[m][r].round = round[m]}) <= 1

\* A module that has a video_path has a video of the text the course has now.
ShowsCurrentText == \A m \in videoPath : videoFile[m] = edition

\* The stage ends, whatever the service and the other threads do.
StageTerminates == videoStage = "running" ~> videoStage = "idle"

\* A trainer who keeps pressing Continue gets every video once the failures
\* stop, whatever runs, requests and records they left behind.
ContinueStores == []<><<StageStarts>>_vars => <>[](videoPath = Modules)
=============================================================================
