---------------------------- MODULE CourseEditing ----------------------------
(***************************************************************************)
(* The row of one course, which trainers' requests and its generation job  *)
(* both write as a whole, each from what it read before.                   *)
(*                                                                         *)
(* A request (services/courses.py: update_course, update_module_quiz)      *)
(* reads the course, changes the copy and saves it in a transaction of its *)
(* own (repositories/courses.py: save_course).  Only a save that releases  *)
(* the generation worker is refused while a job holds the course.  A job   *)
(* (generation/runtime.py) saves the whole course when it begins, when it  *)
(* makes it ready and when it ends; in between it patches single fields.   *)
(* Publish, Disable and Delete are one transaction each.                   *)
(*                                                                         *)
(* `text` stands for everything a generated output is made from (metadata, *)
(* modules, source text).  Of the outputs the model has the video and the  *)
(* quiz.  The stages of a job and its failures: GenerationPipeline.        *)
(***************************************************************************)
EXTENDS Naturals

CONSTANTS
    Requests,    \* requests that may be under way at once
    None, ByHand,
    MaxEdits,    \* bound: requests that begin
    MaxJobs,     \* bound: generation jobs
    MaxFaults    \* bound: stages that fail

ASSUME EditingAssumption ==
    /\ {MaxEdits, MaxJobs, MaxFaults} \subseteq Nat
    /\ None \notin Nat /\ None \notin [text : Nat, service : BOOLEAN]

VARIABLES
    row,       \* courses, course_modules and course_generation_status of the course
    learners,  \* course_assignments has rows for it
    active,    \* its assignment rule is published and not disabled
    req,       \* requests between their read and their save
    job,       \* the background job
    count,     \* what was begun so far
    crossed    \* ghost: a request has saved over changes it had not seen

vars == <<row, learners, active, req, job, count, crossed>>

Kinds == {"text", "engine", "quiz", "same"}
Texts == 0..MaxEdits
Video == [text : Texts, service : BOOLEAN]
Row == [there : BOOLEAN, status : {"draft", "ready", "published"}, text : Texts,
        service : BOOLEAN,                        \* video_engine
        quiz : {None, ByHand} \cup Texts,         \* made from which text, or by hand
        video : {None} \cup Video,
        gen : {"pending", "running", "completed", "failed"},
        worker : BOOLEAN]                         \* worker_id is set
Steps == {"none", "queued", "start", "load", "invalidate", "quiz", "write_quiz", "video",
          "write_video", "publish", "ready", "finish", "end", "done", "failed"}

Gone == [there |-> FALSE, status |-> "draft", text |-> 0, service |-> FALSE, quiz |-> None,
         video |-> None, gen |-> "pending", worker |-> FALSE]
NoJob == [pc |-> "none", full |-> FALSE, service |-> FALSE, seen |-> Gone]

TypeOK ==
    /\ row \in Row
    /\ learners \in BOOLEAN /\ active \in BOOLEAN
    /\ req \in [Requests -> {None} \cup [kind : Kinds, seen : Row]]
    /\ job \in [pc : Steps, full : BOOLEAN, service : BOOLEAN, seen : Row]
    /\ count \in [edits : 0..MaxEdits, jobs : 0..MaxJobs, faults : 0..MaxFaults]
    /\ crossed \in BOOLEAN

\* An outline has just been extracted from a document.
Init ==
    /\ row = [Gone EXCEPT !.there = TRUE]
    /\ learners = FALSE /\ active = FALSE
    /\ req = [r \in Requests |-> None]
    /\ job = NoJob
    /\ count = [edits |-> 0, jobs |-> 0, faults |-> 0]
    /\ crossed = FALSE

-----------------------------------------------------------------------------
(* Requests of the trainer.                                                *)

GenerationJobActive(c) == c.gen \in {"pending", "running"} /\ c.worker
HasGeneratedContent(c) == c.quiz # None \/ c.video # None \/ c.gen \in {"running", "failed"}

\* Mutant: the video is kept.
InvalidatedQuiz(c) == [c EXCEPT !.quiz = None, !.gen = "pending"]
Invalidated(c) == [c EXCEPT !.quiz = None, !.video = None, !.gen = "pending"]

\* The copy as the request changes it.
Edited(kind, c) ==
    CASE kind = "text" -> Invalidated([c EXCEPT !.text = count.edits])
      [] kind = "engine" -> LET switched == [c EXCEPT !.service = ~@]
                            IN IF HasGeneratedContent(c) THEN Invalidated(switched) ELSE switched
      [] kind = "quiz" -> [c EXCEPT !.quiz = ByHand]
      [] OTHER -> c
\* Mutant: only an edit of the blueprint does.
ReleasesForText(kind) == kind = "text"
ReleasesWorker(kind) == kind \in {"text", "engine"}

\* The columns a save writes: the worker is no part of the course, and a course
\* that was deleted in between is inserted again.
Saved(c, status, release) ==
    [c EXCEPT !.there = TRUE, !.status = status, !.worker = row.worker /\ ~release]

Read(r, kind) ==
    /\ req[r] = None /\ row.there
    /\ count.edits < MaxEdits
    /\ count' = [count EXCEPT !.edits = @ + 1]
    /\ req' = [req EXCEPT ![r] = [kind |-> kind, seen |-> row]]
    /\ UNCHANGED <<row, learners, active, job, crossed>>

Save(r) ==
    /\ req[r] # None
    /\ LET kind == req[r].kind
           release == ReleasesWorker(kind)
       IN IF release /\ GenerationJobActive(row)
          THEN UNCHANGED <<row, crossed>>                       \* ConflictError
          ELSE /\ row' = Saved(Edited(kind, req[r].seen), "draft", release)
               /\ crossed' = (crossed \/ ~row.there \/ (~release /\ row # req[r].seen))
    /\ req' = [req EXCEPT ![r] = None]
    /\ UNCHANGED <<learners, active, job, count>>

\* course_is_publishable, missing_generation_outputs
Complete(c) == c.quiz # None /\ c.video # None

Publish ==
    /\ row.there /\ row.status \in {"ready", "published"} /\ Complete(row)
    /\ row' = [row EXCEPT !.status = "published"]
    /\ active' = TRUE
    /\ learners' \in {learners, TRUE}      \* the rule may match nobody
    /\ UNCHANGED <<req, job, count, crossed>>

Disable ==
    /\ row.there /\ row.status = "published" /\ active
    /\ row.gen \notin {"pending", "running"}
    /\ active' = FALSE
    /\ UNCHANGED <<row, learners, req, job, count, crossed>>

\* Mutant: without the look for a job.
MayDeleteUnheld == row.status \in {"draft", "ready"} /\ ~learners
MayDelete == ~GenerationJobActive(row) /\ row.status \in {"draft", "ready"} /\ ~learners

Delete ==
    /\ row.there /\ MayDelete
    /\ row' = Gone
    /\ active' = FALSE
    /\ UNCHANGED <<learners, req, job, count, crossed>>

-----------------------------------------------------------------------------
(* The job.                                                                *)

JobAt(pc) == job.pc = pc
Goto(pc) == job' = [job EXCEPT !.pc = pc, !.seen = Gone]
Took(pc) == job' = [job EXCEPT !.pc = pc, !.seen = row]
jobOnly == <<learners, active, req, crossed>>

\* create: Generate, or Continue after a failure
Submit(full) ==
    /\ job.pc = "none" /\ count.jobs < MaxJobs
    /\ row.there /\ ~GenerationJobActive(row)
    /\ full \/ row.gen = "failed"
    /\ row' = [row EXCEPT !.gen = "pending", !.worker = TRUE]
    /\ job' = [NoJob EXCEPT !.pc = "queued", !.full = full]
    /\ count' = [count EXCEPT !.jobs = @ + 1]
    /\ UNCHANGED jobOnly

\* Its turn: the monitor writes "running" where the row still has its id.
Begin ==
    /\ JobAt("queued")
    /\ row' = IF row.worker THEN [row EXCEPT !.gen = "running"] ELSE row
    /\ Goto("start")
    /\ UNCHANGED <<jobOnly, count>>

Start ==
    /\ JobAt("start")
    /\ job' = [job EXCEPT !.pc = IF ~row.there THEN "failed" ELSE IF job.full THEN "load" ELSE "quiz",
                          !.service = row.service]
    /\ UNCHANGED <<row, jobOnly, count>>

\* The reads of a job that end it when the course is gone.
Load(from, to) ==
    /\ JobAt(from)
    /\ IF row.there THEN Took(to) ELSE Goto("failed")
    /\ UNCHANGED <<row, jobOnly, count>>

Invalidate ==
    /\ JobAt("invalidate")
    /\ row' = Saved(Invalidated(job.seen), "draft", FALSE)
    /\ Goto("quiz")
    /\ UNCHANGED <<jobOnly, count>>

\* A stage makes what its snapshot lacks and patches its own field.
WriteQuiz ==
    /\ JobAt("write_quiz")
    /\ IF row.there
       THEN /\ row' = [row EXCEPT !.gen = "running",
                                  !.quiz = IF job.seen.quiz = None THEN job.seen.text ELSE @]
            /\ Goto("video")
       ELSE row' = row /\ Goto("failed")
    /\ UNCHANGED <<jobOnly, count>>

WriteVideo ==
    /\ JobAt("write_video")
    /\ IF row.there
       THEN /\ row' = [row EXCEPT !.gen = "running",
                 !.video = IF job.seen.video = None
                           THEN [text |-> job.seen.text, service |-> job.service] ELSE @]
            /\ Goto("publish")
       ELSE row' = row /\ Goto("failed")
    /\ UNCHANGED <<jobOnly, count>>

\* sync_clean_database: skips a course that is not complete
Ready ==
    /\ JobAt("ready")
    /\ IF Complete(job.seen)
       THEN row' = Saved(job.seen, "ready", FALSE) /\ Goto("finish")
       ELSE row' = row /\ Goto("failed")
    /\ UNCHANGED <<jobOnly, count>>

\* complete_generation on the course as read after "ready"
Finish ==
    /\ JobAt("end")
    /\ row' = Saved([job.seen EXCEPT !.gen = "completed"], job.seen.status, FALSE)
    /\ Goto("done")
    /\ UNCHANGED <<jobOnly, count>>

Fault ==
    /\ job.pc \in {"write_quiz", "write_video"}
    /\ count.faults < MaxFaults
    /\ count' = [count EXCEPT !.faults = @ + 1]
    /\ row' = IF row.there THEN [row EXCEPT !.gen = "failed"] ELSE row
    /\ Goto("failed")
    /\ UNCHANGED jobOnly

\* The monitor's last word, again only where the row has the job's id.
Monitor ==
    /\ job.pc \in {"done", "failed"}
    /\ row' = IF ~row.worker THEN row
              ELSE [row EXCEPT !.gen = IF job.pc = "done" THEN "completed" ELSE "failed"]
    /\ job' = NoJob
    /\ UNCHANGED <<jobOnly, count>>

Job == \/ \E full \in BOOLEAN : Submit(full)
       \/ Begin \/ Start \/ Invalidate \/ WriteQuiz \/ WriteVideo \/ Ready \/ Finish \/ Fault \/ Monitor
       \/ Load("load", "invalidate") \/ Load("quiz", "write_quiz") \/ Load("video", "write_video")
       \/ Load("publish", "ready") \/ Load("finish", "end")

Next ==
    \/ \E r \in Requests : Save(r) \/ \E kind \in Kinds : Read(r, kind)
    \/ Publish \/ Disable \/ Delete
    \/ Job

Spec == Init /\ [][Next]_vars

-----------------------------------------------------------------------------
(* Properties.  Requests that save without a guard over changes they have  *)
(* not seen are exempt: what they break is listed in the README.           *)

\* What learners are or can be given was made from the course's own text, by
\* its own engine, however edits, switches, jobs, failures and Continues
\* follow each other (save_course's refusal, _invalidate_generated_content).
OffersItsText ==
    row.there /\ row.status \in {"ready", "published"} /\ ~crossed =>
        /\ row.video = [text |-> row.text, service |-> row.service]
        /\ row.quiz \in {ByHand, row.text}

\* While a job holds the course nobody changes its text or engine under the
\* job (save_course, "Course generation is already running").
HeldIsLeftAlone ==
    [][GenerationJobActive(row) /\ GenerationJobActive(row') /\ ~crossed' =>
          row'.text = row.text /\ row'.service = row.service]_vars

\* A course that was deleted does not come back by what a job saves later
\* (delete_course_for_trainer takes the generation lock and looks for a job).
DeletedStaysDeleted == [][~row.there /\ row'.there => crossed']_vars

\* What update_course says of its guard: a save "refused while a generation job
\* runs, which also stops an engine switch in the middle of a run".
EngineStaysDuringRun ==
    [][job.pc \notin {"none", "queued", "start", "done", "failed"}
          => row'.service = row.service \/ ~row'.there]_vars
=============================================================================
