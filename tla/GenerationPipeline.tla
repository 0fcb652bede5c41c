------------------------- MODULE GenerationPipeline -------------------------
(***************************************************************************)
(* The course pipeline of one course (generation/runtime.py), run by one   *)
(* background job at a time (GenerationJobs shows that there is one), with *)
(* its checkpoints in course_generation_status, its outputs in the course  *)
(* tables and its files on disk; the trainer's Generate, Continue, module  *)
(* video and blueprint edit or engine switch; failures and crashes at any  *)
(* point, and the recovery of the next start.                              *)
(*                                                                         *)
(* What a stage produces is not modelled as text but as its agreement with *)
(* what it was made from.  A file is "fresh" when it was made from the     *)
(* slides and scripts that are in the database now, and "stale" otherwise. *)
(* Every step below is one transaction or one file replacement.            *)
(***************************************************************************)
EXTENDS Naturals, FiniteSets

CONSTANTS
    Modules,
    None,
    MaxFaults,      \* how many operations may fail or processes may die
    EarlyVideos     \* TRUE: a module's video is also asked for while outputs are missing

ASSUME PipelineAssumption ==
    /\ None \notin Modules
    /\ Modules # {} /\ IsFiniteSet(Modules)
    /\ MaxFaults \in Nat
    /\ EarlyVideos \in BOOLEAN

VARIABLES
    external,   \* the course's engine is the Video Generator service
    course,     \* courses.status
    outputs,    \* stages whose output the course's rows hold
    audioPath,  \* modules whose slides all have an audio_path
    videoPath,  \* modules whose video_path is set
    html, wav, mp4,     \* files of a module: none, stale, fresh
    row,        \* course_generation_status without its stages
    stages,     \* status of each stage ("none": absent or reset to pending)
    pc, mode, module,   \* where the job stands, and what it was asked for
    wave,       \* locals of wave 1
    run,        \* locals of run_stage
    faults      \* failures left

rowVars == <<row, stages>>
fileVars == <<html, wav, mp4>>
courseVars == <<course, outputs, audioPath, videoPath>>
vars == <<external, courseVars, fileVars, rowVars, pc, mode, module, wave, run, faults>>

WaveStages == {"thumbnail", "quiz", "notes", "slides"}
LaterStages == {"html", "scripts", "tts", "video", "publish"}
\* "pipeline" is the checkpoint of a job that ended between two stages.
Checkpoints == LaterStages \cup {"wave_1", "pipeline", "none"}
Outputs == WaveStages \cup {"scripts"}
File == {"none", "stale", "fresh"}

NoWave == [stages |-> {}, clear |-> {}, working |-> {}, produced |-> {},
           failures |-> {}, recover |-> {}, retrying |-> "none", attempt |-> 0]
NoRun == [phase |-> "before", todo |-> {}, rendered |-> {}]

Spoil(file) == [m \in Modules |-> IF file[m] = "none" THEN "none" ELSE "stale"]
\* Mutant of HasVideo: the file alone counts.
HasVideoByFile(m) == mp4[m] # "none"

HasVideo(m) == m \in videoPath /\ mp4[m] # "none"

Init ==
    /\ external \in BOOLEAN
    /\ course = "draft"
    /\ outputs = {}
    /\ audioPath = {} /\ videoPath = {}
    /\ html = [m \in Modules |-> "none"]
    /\ wav = html /\ mp4 = html
    /\ row = [status |-> "pending", claimed |-> FALSE, checkpoint |-> "none",
              failed |-> "none", failedStages |-> {}]
    /\ stages = [s \in WaveStages \cup LaterStages \cup {"pipeline"} |-> "none"]
    /\ pc = "idle" /\ mode = "none" /\ module = None
    /\ wave = NoWave /\ run = NoRun
    /\ faults = MaxFaults
-----------------------------------------------------------------------------
(* What is there, and what a Continue has to run.                           *)

WaveOrder == IF external THEN WaveStages \ {"slides"} ELSE WaveStages

Complete(stage) ==
    CASE stage = "html" -> \A m \in Modules : html[m] # "none"
      [] stage = "scripts" -> {"slides", "scripts"} \subseteq outputs
      [] stage = "tts" -> audioPath = Modules /\ \A m \in Modules : wav[m] # "none"
      [] stage = "video" -> \A m \in Modules : HasVideo(m)
      [] OTHER -> stage \in outputs

Missing ==
    {s \in WaveOrder \cup (IF external THEN {"video"} ELSE LaterStages \ {"publish"}) :
        ~Complete(s)}

\* Mutants of ToResume: only the recorded failures; every stage of the wave.
ToResumeFailed == WaveOrder \cap (IF row.failed = "wave_1" THEN row.failedStages ELSE {})
ToResumeAll == WaveOrder

ToResume ==
    WaveOrder \cap (Missing \cup (IF row.failed = "wave_1" THEN row.failedStages ELSE {}))

FailedCheckpoint == IF row.checkpoint = "none" THEN "pipeline" ELSE row.checkpoint

FailedStagesOf(cp) ==
    IF cp = "wave_1" THEN {s \in DOMAIN stages : stages[s] = "running"} ELSE {cp}

\* _failed_payload: how a job that failed or was interrupted leaves its row.
FailedStages == [s \in DOMAIN stages |->
    IF s \in FailedStagesOf(FailedCheckpoint) THEN "failed" ELSE stages[s]]
FailedRow == [row EXCEPT
    !.status = "failed", !.checkpoint = FailedCheckpoint, !.failed = FailedCheckpoint,
    !.failedStages = IF FailedCheckpoint = "wave_1" THEN FailedStagesOf("wave_1") ELSE {}]

Claimed == row.claimed /\ row.status \in {"pending", "running"}

\* _invalidate_generated_content and save_draft; the files stay where they are.
Invalidate(claimed) ==
    /\ course' = "draft"
    /\ outputs' = {} /\ audioPath' = {} /\ videoPath' = {}
    /\ html' = Spoil(html) /\ wav' = Spoil(wav) /\ mp4' = Spoil(mp4)
    /\ row' = [row EXCEPT !.status = "pending", !.claimed = claimed, !.checkpoint = "none",
                          !.failed = "none", !.failedStages = {}]
    /\ stages' = [s \in DOMAIN stages |-> "none"]
-----------------------------------------------------------------------------
(* The trainer.                                                             *)

Start(m, target) ==
    /\ pc = "idle"
    /\ ~Claimed
    /\ row' = [row EXCEPT !.status = "pending", !.claimed = TRUE]
    /\ pc' = "queued" /\ mode' = m /\ module' = target
    /\ UNCHANGED <<external, courseVars, fileVars, stages, wave, run, faults>>

Generate == Start("full", None)
Continue == row.checkpoint # "none" /\ Start("continue", None)
RegenerateVideo(m) == (EarlyVideos \/ Missing = {}) /\ Start("module", m)

EditBlueprint ==
    /\ ~Claimed
    /\ Invalidate(FALSE)
    /\ external' \in BOOLEAN    \* the payload may also switch the engine
    /\ UNCHANGED <<pc, mode, module, wave, run, faults>>

\* The manager's turn has come: it saves "running" and starts the process.
Launch ==
    /\ pc = "queued"
    /\ row' = [row EXCEPT !.status = "running"]
    /\ pc' = CASE mode = "full" -> "invalidate"
               [] mode = "continue" -> "resume"
               [] mode = "module" -> IF external THEN "render" ELSE "narrate"
    /\ UNCHANGED <<external, courseVars, fileVars, stages, mode, module, wave, run, faults>>
-----------------------------------------------------------------------------
(* Wave 1.                                                                  *)

AfterWave == IF external THEN "video" ELSE "html"
AfterClear == IF "slides" \in wave.stages THEN "reset"
              ELSE IF wave.stages # {} THEN "start" ELSE AfterWave

RestartFromBlueprint ==
    /\ pc = "invalidate"
    /\ Invalidate(row.claimed)
    /\ wave' = [NoWave EXCEPT !.stages = WaveOrder]
    /\ pc' = "clear"
    /\ UNCHANGED <<external, mode, module, run, faults>>

ChooseWave ==
    /\ pc = "resume"
    /\ wave' = [NoWave EXCEPT !.stages = ToResume, !.clear = ToResume]
    /\ pc' = "clear"
    /\ UNCHANGED <<external, courseVars, fileVars, rowVars, mode, module, run, faults>>

\* clear_wave_stage_output: the slides go with their scripts and audio.
ClearOutput(s) ==
    /\ outputs' = outputs \ (IF s = "slides" THEN {"slides", "scripts"} ELSE {s})
    /\ IF s = "slides"
       THEN /\ audioPath' = {} /\ videoPath' = {}
            /\ html' = Spoil(html) /\ wav' = Spoil(wav) /\ mp4' = Spoil(mp4)
       ELSE UNCHANGED <<audioPath, videoPath, fileVars>>
    /\ UNCHANGED course

Clear(s) ==
    /\ pc = "clear"
    /\ s \in wave.clear
    /\ ClearOutput(s)
    /\ wave' = [wave EXCEPT !.clear = @ \ {s}]
    /\ UNCHANGED <<external, rowVars, pc, mode, module, run, faults>>

Cleared ==
    /\ pc = "clear"
    /\ wave.clear = {}
    /\ pc' = AfterClear
    /\ UNCHANGED <<external, courseVars, fileVars, rowVars, mode, module, wave, run, faults>>

ResetCheckpoints(which) ==
    stages' = [s \in DOMAIN stages |-> IF s \in which THEN "none" ELSE stages[s]]

ResetLaterStages ==
    /\ pc = "reset"
    /\ ResetCheckpoints({"html", "scripts", "tts", "video"})
    /\ pc' = "start"
    /\ UNCHANGED <<external, courseVars, fileVars, row, mode, module, wave, run, faults>>

StartWave ==
    /\ pc = "start"
    /\ row' = [row EXCEPT !.status = "running", !.checkpoint = "wave_1", !.failed = "none",
                          !.failedStages = {}]
    /\ stages' = [s \in DOMAIN stages |-> IF s \in wave.stages THEN "running" ELSE stages[s]]
    /\ wave' = [wave EXCEPT !.working = wave.stages]
    /\ pc' = "wave"
    /\ UNCHANGED <<external, courseVars, fileVars, mode, module, run, faults>>

\* A stage saves its own fields; new slides have no scripts and no audio.
SaveOutput(s) ==
    /\ outputs' = IF s = "slides" THEN (outputs \ {"scripts"}) \cup {s} ELSE outputs \cup {s}
    /\ IF s = "slides"
       THEN /\ audioPath' = {}
            /\ html' = Spoil(html) /\ wav' = Spoil(wav) /\ mp4' = Spoil(mp4)
       ELSE UNCHANGED <<audioPath, fileVars>>
    /\ UNCHANGED <<course, videoPath>>

Produce(s) ==
    /\ pc = "wave"
    /\ s \in wave.working
    /\ SaveOutput(s)
    /\ wave' = [wave EXCEPT !.working = @ \ {s}, !.produced = @ \cup {s}]
    /\ UNCHANGED <<external, rowVars, pc, mode, module, run, faults>>

Mark(s, status) == stages' = [stages EXCEPT ![s] = status]

Record(s) ==
    /\ pc = "wave"
    /\ \/ /\ s \in wave.produced
          /\ Mark(s, "completed")
          /\ wave' = [wave EXCEPT !.produced = @ \ {s}]
          /\ UNCHANGED faults
       \/ /\ s \in wave.working /\ faults > 0
          /\ faults' = faults - 1
          /\ Mark(s, "failed")
          /\ wave' = [wave EXCEPT !.working = @ \ {s}, !.failures = @ \cup {s}]
    /\ UNCHANGED <<external, courseVars, fileVars, row, pc, mode, module, run>>

EndWave ==
    /\ pc = "wave"
    /\ wave.working \cup wave.produced = {}
    /\ IF wave.failures = {}
       THEN pc' = AfterWave /\ wave' = NoWave
       ELSE pc' = "recover" /\ wave' = [wave EXCEPT !.recover = wave.failures]
    /\ UNCHANGED <<external, courseVars, fileVars, rowVars, mode, module, run, faults>>

\* Recovery: two more attempts, each clears the output and runs the stage.
RetryClears(s) ==
    /\ pc = "recover"
    /\ \/ wave.retrying = "none" /\ s \in wave.recover
          /\ wave' = [wave EXCEPT !.retrying = s, !.recover = @ \ {s}, !.attempt = 2]
       \/ wave.retrying = s /\ stages[s] = "failed" /\ wave.attempt = 2
          /\ wave' = [wave EXCEPT !.attempt = 3]
    /\ ClearOutput(s)
    /\ pc' = "retry"
    /\ UNCHANGED <<external, rowVars, mode, module, run, faults>>

RetryRuns ==
    /\ pc = "retry"
    /\ stages[wave.retrying] = "failed"
    /\ Mark(wave.retrying, "running")
    /\ UNCHANGED <<external, courseVars, fileVars, row, pc, mode, module, wave, run, faults>>

RetryProduces ==
    /\ pc = "retry"
    /\ stages[wave.retrying] = "running"
    /\ wave.retrying \notin wave.produced
    /\ SaveOutput(wave.retrying)
    /\ wave' = [wave EXCEPT !.produced = {wave.retrying}]
    /\ UNCHANGED <<external, rowVars, pc, mode, module, run, faults>>

RetryRecords ==
    LET s == wave.retrying IN
    /\ pc = "retry"
    /\ stages[s] = "running"
    /\ pc' = "recover"
    /\ \/ /\ s \in wave.produced
          /\ Mark(s, "completed")
          /\ wave' = [wave EXCEPT !.produced = {}, !.failures = @ \ {s}, !.retrying = "none"]
          /\ UNCHANGED faults
       \/ /\ s \notin wave.produced /\ faults > 0
          /\ faults' = faults - 1
          /\ Mark(s, "failed")
          /\ wave' = [wave EXCEPT !.retrying = IF wave.attempt = 3 THEN "none" ELSE s]
    /\ UNCHANGED <<external, courseVars, fileVars, row, mode, module, run>>

EndRecovery ==
    /\ pc = "recover"
    /\ wave.retrying = "none" /\ wave.recover = {}
    /\ wave' = NoWave
    /\ IF wave.failures = {}
       THEN pc' = AfterWave /\ UNCHANGED row
       ELSE /\ pc' = "raised"
            /\ row' = [row EXCEPT !.status = "failed", !.checkpoint = "wave_1",
                                  !.failed = "wave_1", !.failedStages = wave.failures]
    /\ UNCHANGED <<external, courseVars, fileVars, stages, mode, module, run, faults>>
-----------------------------------------------------------------------------
(* The stages after the wave: run_stage.                                    *)

AfterStage(s) ==
    CASE s = "html" -> "check scripts"
      [] s = "scripts" -> "check tts"
      [] s = "tts" -> "video"
      [] s = "video" -> "publish"
      [] s = "publish" -> "finish"

InStage == pc \in LaterStages

Skips == stages[pc] = "completed" /\ (pc = "publish" \/ Complete(pc))

SkipStage ==
    /\ InStage /\ run.phase = "before"
    /\ Skips
    /\ pc' = AfterStage(pc)
    /\ UNCHANGED <<external, courseVars, fileVars, rowVars, mode, module, wave, run, faults>>

Worklist == CASE pc \in {"html", "tts"} -> Modules
              [] pc = "video" -> {m \in Modules : ~HasVideo(m)}
              [] OTHER -> {}

EnterStage ==
    /\ InStage /\ run.phase = "before"
    /\ ~Skips
    /\ Mark(pc, "running")
    /\ row' = [row EXCEPT !.status = "running", !.checkpoint = pc,
                          !.failed = IF @ = pc THEN "none" ELSE @]
    /\ run' = [phase |-> "inside", todo |-> Worklist, rendered |-> {}]
    /\ UNCHANGED <<external, courseVars, fileVars, pc, mode, module, wave, faults>>

\* A video shows the html deck and speaks the audio it was rendered from.
Render(m) == mp4' = [mp4 EXCEPT ![m] =
    IF external \/ (html[m] = "fresh" /\ wav[m] = "fresh") THEN "fresh" ELSE "stale"]
Compile(m) == html' = [html EXCEPT ![m] = "fresh"]
\* Audio whose recorded narration matches the script is kept.
Narrate(m) == wav' = [wav EXCEPT ![m] = "fresh"]

\* compile_slides_for_course finds the course among the drafts only.
CanCompile == course = "draft" /\ "slides" \in outputs
CanNarrate == {"slides", "scripts"} \subseteq outputs
CanRender(m) == external \/ (m \in audioPath /\ html[m] # "none" /\ wav[m] # "none")

\* One module's file of the stage.
MakeFile(m) ==
    /\ InStage /\ run.phase = "inside"
    /\ m \in run.todo \ run.rendered
    /\ \/ pc = "html" /\ CanCompile /\ Compile(m) /\ UNCHANGED <<wav, mp4>>
       \/ pc = "tts" /\ CanNarrate /\ Narrate(m) /\ UNCHANGED <<html, mp4>>
       \/ pc = "video" /\ CanRender(m) /\ Render(m) /\ UNCHANGED <<html, wav>>
    /\ run' = [run EXCEPT !.rendered = @ \cup {m}]
    /\ UNCHANGED <<external, courseVars, rowVars, pc, mode, module, wave, faults>>

\* The Video Generator's modules are saved one by one.
SaveServiceVideo(m) ==
    /\ pc = "video" /\ run.phase = "inside" /\ external
    /\ m \in run.rendered \ videoPath
    /\ videoPath' = videoPath \cup {m}
    /\ UNCHANGED <<external, course, outputs, audioPath, fileVars, rowVars, pc, mode, module, wave, run, faults>>

\* What the stage saves when all its files are made.
SaveStage ==
    /\ InStage /\ run.phase = "inside"
    /\ run.rendered = run.todo
    /\ \/ /\ pc = "html" /\ UNCHANGED <<courseVars, fileVars>>
       \/ /\ pc = "scripts" /\ "slides" \in outputs
          /\ outputs' = outputs \cup {"scripts"}
          /\ wav' = Spoil(wav) /\ mp4' = Spoil(mp4)
          /\ UNCHANGED <<course, audioPath, videoPath, html>>
       \/ /\ pc = "tts" /\ audioPath' = Modules
          /\ UNCHANGED <<course, outputs, videoPath, fileVars>>
       \/ /\ pc = "video" /\ IF external THEN run.todo \subseteq videoPath /\ UNCHANGED videoPath
                             ELSE videoPath' = videoPath \cup run.todo
          /\ UNCHANGED <<course, outputs, audioPath, fileVars>>
       \/ /\ pc = "publish" /\ Missing = {}
          /\ course' = "ready"
          /\ UNCHANGED <<outputs, audioPath, videoPath, fileVars>>
    /\ run' = [NoRun EXCEPT !.phase = "done"]
    /\ UNCHANGED <<external, rowVars, pc, mode, module, wave, faults>>

LeaveStage ==
    /\ InStage /\ run.phase = "done"
    /\ Mark(pc, "completed")
    /\ row' = [row EXCEPT !.checkpoint = row.failed]
    /\ pc' = AfterStage(pc)
    /\ run' = NoRun
    /\ UNCHANGED <<external, courseVars, fileVars, mode, module, wave, faults>>

\* The operation cannot succeed on what it finds.
Impossible ==
    CASE pc = "html" -> ~CanCompile
      [] pc = "scripts" -> "slides" \notin outputs
      [] pc = "tts" -> ~CanNarrate
      [] pc = "video" -> \E m \in run.todo \ run.rendered : ~CanRender(m)
      [] pc = "publish" -> Missing # {}

FailStage ==
    /\ InStage /\ run.phase = "inside"
    /\ \/ Impossible /\ UNCHANGED faults
       \/ faults > 0 /\ faults' = faults - 1
    /\ Mark(pc, "failed")
    /\ row' = [row EXCEPT !.status = "failed", !.checkpoint = pc, !.failed = pc]
    /\ pc' = "raised"
    /\ run' = NoRun
    /\ UNCHANGED <<external, courseVars, fileVars, mode, module, wave>>

\* Incomplete scripts drop the audio and the videos.  The outputs and the
\* checkpoints are two transactions: a crash may come between them.
CheckScripts ==
    /\ pc = "check scripts"
    /\ IF Complete("scripts")
       THEN pc' = "scripts" /\ UNCHANGED <<audioPath, videoPath>>
       ELSE pc' = "reset tts" /\ audioPath' = {} /\ videoPath' = {}
    /\ UNCHANGED <<external, course, outputs, fileVars, rowVars, mode, module, wave, run, faults>>

CheckTts ==
    /\ pc = "check tts"
    /\ IF Complete("tts")
       THEN pc' = "tts" /\ UNCHANGED videoPath
       ELSE pc' = "reset video" /\ videoPath' = {}
    /\ UNCHANGED <<external, course, outputs, audioPath, fileVars, rowVars, mode, module, wave, run, faults>>

ResetStale ==
    /\ \/ pc = "reset tts" /\ ResetCheckpoints({"tts", "video"}) /\ pc' = "scripts"
       \/ pc = "reset video" /\ ResetCheckpoints({"video"}) /\ pc' = "tts"
    /\ UNCHANGED <<external, courseVars, fileVars, row, mode, module, wave, run, faults>>

\* complete_generation and the whole-course save with the status just read.
Finish ==
    /\ pc = "finish"
    /\ row' = [row EXCEPT !.status = "completed", !.checkpoint = "none", !.failed = "none",
                          !.failedStages = {}]
    /\ pc' = "exited"
    /\ UNCHANGED <<external, courseVars, fileVars, stages, mode, module, wave, run, faults>>
-----------------------------------------------------------------------------
(* A single module's video: generate_video_for_module, or the service.      *)

NarrateModule ==
    /\ pc = "narrate"
    /\ CanNarrate
    /\ Narrate(module)
    /\ pc' = "save audio"
    /\ UNCHANGED <<external, courseVars, html, mp4, rowVars, mode, module, wave, run, faults>>

SaveModuleAudio ==
    /\ pc = "save audio"
    /\ audioPath' = audioPath \cup {module}
    /\ pc' = "compile"
    /\ UNCHANGED <<external, course, outputs, videoPath, fileVars, rowVars, mode, module, wave, run, faults>>

\* The decks of all modules are compiled, one file after the other.
CompileDecks ==
    /\ pc = "compile"
    /\ CanCompile
    /\ \/ \E m \in Modules : html[m] # "fresh" /\ Compile(m) /\ UNCHANGED pc
       \/ (\A m \in Modules : html[m] = "fresh") /\ pc' = "render" /\ UNCHANGED html
    /\ UNCHANGED <<external, courseVars, wav, mp4, rowVars, mode, module, wave, run, faults>>

RenderModule ==
    /\ pc = "render"
    /\ CanRender(module)
    /\ Render(module)
    /\ pc' = "save video"
    /\ UNCHANGED <<external, courseVars, html, wav, rowVars, mode, module, wave, run, faults>>

SaveModuleVideo ==
    /\ pc = "save video"
    /\ videoPath' = videoPath \cup {module}
    /\ pc' = "exited"
    /\ UNCHANGED <<external, course, outputs, audioPath, fileVars, rowVars, mode, module, wave, run, faults>>

FailModuleVideo ==
    /\ \/ pc = "narrate" /\ ~CanNarrate /\ UNCHANGED faults
       \/ pc = "compile" /\ ~CanCompile /\ UNCHANGED faults
       \/ pc = "render" /\ ~CanRender(module) /\ UNCHANGED faults
       \/ pc \in {"narrate", "compile", "render"} /\ faults > 0 /\ faults' = faults - 1
    /\ pc' = "raised"
    /\ UNCHANGED <<external, courseVars, fileVars, rowVars, mode, module, wave, run>>
-----------------------------------------------------------------------------
(* The end of a job.                                                        *)

\* The process exited: the monitor saves the outcome of its job, if the row is
\* still its own (an edit after the last write of the pipeline releases it).
JobEnds ==
    /\ pc \in {"exited", "raised"}
    /\ IF ~row.claimed THEN UNCHANGED rowVars
       ELSE IF pc = "raised" THEN row' = FailedRow /\ stages' = FailedStages
       ELSE row' = [row EXCEPT !.status = "completed"] /\ UNCHANGED stages
    /\ pc' = "idle" /\ mode' = "none" /\ module' = None
    /\ wave' = NoWave /\ run' = NoRun
    /\ UNCHANGED <<external, courseVars, fileVars, faults>>

\* The pipeline process dies wherever it stands.
ProcessDies ==
    /\ pc \notin {"idle", "queued", "exited", "raised"}
    /\ faults > 0
    /\ faults' = faults - 1
    /\ pc' = "raised"
    /\ UNCHANGED <<external, courseVars, fileVars, rowVars, mode, module, wave, run>>

\* The API process dies, and its pipeline with it; the next one calls
\* recover_interrupted_generations before anything else.
ApiRestarts ==
    /\ faults > 0
    /\ faults' = faults - 1
    /\ IF row.status \in {"pending", "running"} \/ (row.status = "failed" /\ \E s \in DOMAIN stages : stages[s] = "running")
       THEN /\ stages' = FailedStages
            /\ row' = [FailedRow EXCEPT !.claimed = FALSE]
       ELSE UNCHANGED rowVars
    /\ pc' = "idle" /\ mode' = "none" /\ module' = None
    /\ wave' = NoWave /\ run' = NoRun
    /\ UNCHANGED <<external, courseVars, fileVars>>
-----------------------------------------------------------------------------
Wave ==
    \/ RestartFromBlueprint \/ ChooseWave \/ Cleared \/ ResetLaterStages \/ StartWave
    \/ EndWave \/ RetryRuns \/ RetryProduces \/ RetryRecords \/ EndRecovery
    \/ \E s \in WaveStages : Clear(s) \/ Produce(s) \/ Record(s) \/ RetryClears(s)
Stage ==
    \/ SkipStage \/ EnterStage \/ SaveStage \/ LeaveStage \/ FailStage
    \/ CheckScripts \/ CheckTts \/ ResetStale \/ Finish
    \/ \E m \in Modules : MakeFile(m) \/ SaveServiceVideo(m)
ModuleVideo ==
    \/ NarrateModule \/ SaveModuleAudio \/ CompileDecks \/ RenderModule \/ SaveModuleVideo
    \/ FailModuleVideo
Pipeline == Launch \/ Wave \/ Stage \/ ModuleVideo \/ JobEnds
Trainer == Generate \/ Continue \/ EditBlueprint \/ \E m \in Modules : RegenerateVideo(m)

Next == Trainer \/ Pipeline \/ ProcessDies \/ ApiRestarts

\* A job that was accepted runs; nobody has to ask for one.
Spec == Init /\ [][Next]_vars /\ WF_vars(Pipeline)
-----------------------------------------------------------------------------
TypeOK ==
    /\ external \in BOOLEAN
    /\ course \in {"draft", "ready"}
    /\ outputs \subseteq Outputs
    /\ audioPath \subseteq Modules /\ videoPath \subseteq Modules
    /\ {html, wav, mp4} \subseteq [Modules -> File]
    /\ row \in [status : {"pending", "running", "completed", "failed"}, claimed : BOOLEAN,
               checkpoint : Checkpoints, failed : Checkpoints, failedStages : SUBSET WaveStages]
    /\ stages \in [WaveStages \cup LaterStages \cup {"pipeline"} ->
                    {"none", "running", "completed", "failed"}]
    /\ module \in Modules \cup {None}
    /\ faults \in 0..MaxFaults

\* A course that is ready shows, for every module, a video of the slides and
\* the narration that it has now, whatever failed, was resumed, edited or
\* switched on the way there.
NoStaleVideo == course = "ready" =>
    \A m \in Modules : m \in videoPath /\ mp4[m] = "fresh"

\* A Continue keeps what was finished: it neither clears nor makes again the
\* output of a wave stage that was completed, and it drops no finished video
\* while the slides, scripts and audio it was made of stay.
ContinueKeepsWork == [][mode = "continue" /\ pc \notin {"exited", "raised"} =>
    /\ \A s \in WaveStages : stages[s] = "completed" /\ s \in outputs => s \in outputs'
    /\ \A m \in Modules : HasVideo(m) /\ mp4[m] = "fresh" /\ Complete("tts") => m \in videoPath']_vars

\* A Continue that meets no further failure completes the course, whatever
\* earlier failures and crashes left behind.
ContinueCompletes ==
    (pc = "queued" /\ mode = "continue" /\ faults = 0) ~> (pc = "exited" /\ course = "ready")

\* "A new video for Module {n} replaces the current one when it is ready.":
\* regenerating a module's video of a complete course, without any failure,
\* makes one.
RegenerationMakesVideo ==
    (pc = "queued" /\ mode = "module" /\ Missing = {} /\ faults = 0) ~> pc = "exited"
=============================================================================
