----------------------- MODULE GenerationPipelineProofs -----------------------
(***************************************************************************)
(* A published course shows current videos, and a Continue keeps what was  *)
(* finished: proved for any number of modules and failures.                *)
(*                                                                         *)
(* That a video in the course is fresh (FilesOK) rests on what a job may   *)
(* conclude from checkpoints that earlier jobs left: audio and videos      *)
(* exist only while the scripts' checkpoint is completed, and a completed  *)
(* html checkpoint means fresh decks as long as there are slides.  Slides  *)
(* are replaced only by a wave that has cleared them and has taken these   *)
(* checkpoints back (WaveOK), and no wave has the slides of a published    *)
(* course to run again (RowOK).                                            *)
(***************************************************************************)
EXTENDS GenerationPipeline, TLAPS

AllStages == WaveStages \cup LaterStages \cup {"pipeline"}
StartPcs == {"queued", "invalidate", "resume"}
WavePcs == {"clear", "reset", "start", "wave", "recover", "retry"}
CheckPcs == {"check scripts", "reset tts", "check tts", "reset video", "finish"}
VideoPcs == {"narrate", "save audio", "compile", "render", "save video"}
EndPcs == {"idle", "exited", "raised"}

RowRecord == [status : {"pending", "running", "completed", "failed"}, claimed : BOOLEAN,
              checkpoint : Checkpoints, failed : Checkpoints, failedStages : SUBSET AllStages]
WaveRecord == [stages : SUBSET WaveStages, clear : SUBSET WaveStages, working : SUBSET WaveStages,
               produced : SUBSET WaveStages, failures : SUBSET WaveStages, recover : SUBSET WaveStages,
               retrying : WaveStages \cup {"none"}, attempt : Nat]
RunRecord == [phase : {"before", "inside", "done"}, todo : SUBSET Modules, rendered : SUBSET Modules]

PipelineTypeOK ==
    /\ external \in BOOLEAN /\ course \in {"draft", "ready"}
    /\ outputs \subseteq Outputs /\ audioPath \subseteq Modules /\ videoPath \subseteq Modules
    /\ html \in [Modules -> File] /\ wav \in [Modules -> File] /\ mp4 \in [Modules -> File]
    /\ row \in RowRecord
    /\ stages \in [AllStages -> {"none", "running", "completed", "failed"}]
    /\ pc \in StartPcs \cup WavePcs \cup LaterStages \cup CheckPcs \cup VideoPcs \cup EndPcs
    /\ wave \in WaveRecord
    /\ run \in RunRecord
    /\ pc = "queued" => mode \in {"full", "continue", "module"}
    /\ pc \in VideoPcs \/ (pc = "queued" /\ mode = "module") => module \in Modules

Scripted == {"slides", "scripts"} \subseteq outputs /\ stages["scripts"] = "completed"
SlidesFailed == row.failed = "wave_1" /\ "slides" \in row.failedStages

\* What is shown is current as long as checkpoints and outputs are.
FilesOK ==
    /\ \A m \in audioPath : wav[m] = "fresh"
    /\ \A m \in videoPath : mp4[m] = "fresh"
    /\ ~external /\ audioPath \cup videoPath # {} => Scripted
    /\ ~external /\ stages["html"] = "completed" /\ "slides" \in outputs =>
          \A m \in Modules : html[m] = "fresh"

ReadyOK == course = "ready" =>
    /\ videoPath = Modules
    /\ ~external => audioPath = Modules
    /\ stages["slides"] # "running"
    /\ ~external => ~SlidesFailed

\* The checkpoints that a job finds, and those it is working at.
RowOK ==
    /\ pc \notin EndPcs => Claimed
    /\ row.checkpoint = "scripts" \/ row.failed = "scripts" => stages["scripts"] # "completed"
    /\ stages["slides"] = "running" =>
          /\ row.checkpoint = "wave_1" /\ row.claimed /\ row.status # "completed"
          /\ pc \in {"wave", "retry", "raised"}
          /\ pc = "wave" => "slides" \in wave.working \cup wave.produced
          /\ pc = "retry" => wave.retrying = "slides"
    /\ pc \in {"wave", "recover", "retry"} => row.checkpoint = "wave_1"
    /\ ~external /\ pc \in {"wave", "recover", "retry"} \cup LaterStages \cup CheckPcs => ~SlidesFailed

SlidesGone ==
    \/ pc = "clear" /\ "slides" \notin wave.clear
    \/ pc \in {"reset", "start"}
    \/ pc = "wave" /\ "slides" \in wave.working
    \/ pc = "retry" /\ wave.retrying = "slides" /\ "slides" \notin wave.produced

WaveOK == pc \in WavePcs =>
    /\ wave.stages \subseteq WaveOrder
    /\ wave.clear \cup wave.working \cup wave.produced \cup wave.failures \cup wave.recover
          \subseteq wave.stages
    /\ wave.retrying \in wave.stages \cup {"none"}
    /\ pc = "retry" => wave.retrying # "none"
    /\ pc = "reset" => "slides" \in wave.stages
    /\ ~external /\ pc = "clear" /\ "slides" \notin wave.stages => ~SlidesFailed
    /\ "slides" \in wave.stages =>
          /\ course = "draft"
          /\ SlidesGone => "slides" \notin outputs
          /\ pc \in {"start", "wave", "recover", "retry"} =>
                stages["html"] # "completed" /\ stages["scripts"] # "completed"

\* The stages after the wave, in their order.
StageOK ==
    /\ pc \notin LaterStages \cup {"raised"} => run.phase = "before"
    /\ external => pc \notin {"html", "scripts", "tts"} \cup (CheckPcs \ {"finish"})
    /\ ~external /\ pc \in CheckPcs \cup {"scripts", "tts", "video", "publish"} =>
          stages["html"] = "completed"
    /\ ~external /\ pc \in {"check tts", "reset video", "tts", "video", "publish"} => Scripted
    /\ pc \in LaterStages /\ run.phase # "before" => stages[pc] = "running" /\ row.failed # pc
    /\ pc \in {"html", "tts"} /\ run.phase = "inside" => run.todo = Modules
    /\ pc = "html" /\ run.phase = "inside" => \A m \in run.rendered : html[m] = "fresh"
    /\ pc = "html" /\ run.phase = "done" => \A m \in Modules : html[m] = "fresh"
    /\ pc = "tts" /\ run.phase = "inside" => \A m \in run.rendered : wav[m] = "fresh"
    /\ pc = "video" /\ run.phase = "inside" => \A m \in run.rendered : mp4[m] = "fresh"
    /\ pc = "scripts" /\ run.phase = "done" => {"slides", "scripts"} \subseteq outputs

\* The video of one module, asked for when nothing was missing.
VideoOK ==
    /\ ~external /\ (pc \in VideoPcs \/ (pc = "queued" /\ mode = "module")) => Scripted
    /\ pc \in {"narrate", "save audio", "compile"} => ~external
    /\ pc = "save audio" => wav[module] = "fresh"
    /\ pc = "render" /\ ~external => \A m \in Modules : html[m] = "fresh"
    /\ pc = "save video" => mp4[module] = "fresh"

PipelineInv ==
    PipelineTypeOK /\ FilesOK /\ ReadyOK /\ RowOK /\ WaveOK /\ StageOK /\ VideoOK

-----------------------------------------------------------------------------
(* What the parts of the invariant say of single variables.                *)

USE DEF RowRecord, WaveRecord, RunRecord

LEMMA Constants == None \notin Modules /\ Modules # {} /\ MaxFaults \in Nat
  BY PipelineAssumption DEF PipelineAssumption

LEMMA CompleteIs ==
    /\ Complete("scripts") <=> {"slides", "scripts"} \subseteq outputs
    /\ Complete("html") <=> \A m \in Modules : html[m] # "none"
    /\ Complete("tts") <=> audioPath = Modules /\ \A m \in Modules : wav[m] # "none"
    /\ Complete("video") <=> \A m \in Modules : HasVideo(m)
    /\ Complete("slides") <=> "slides" \in outputs
  BY DEF Complete

\* When nothing is missing the outputs that later stages use are there.
LEMMA NothingMissing ==
    ASSUME Missing = {}, external \in BOOLEAN
    PROVE  /\ \A m \in Modules : external => m \in videoPath
           /\ ~external => /\ {"slides", "scripts"} \subseteq outputs /\ audioPath = Modules
                           /\ \A m \in Modules : m \in videoPath
<1>1. CASE external
  <2>1. Complete("video")
    BY <1>1 DEF Missing
  <2> QED
    BY <1>1, <2>1, CompleteIs DEF HasVideo
<1>2. CASE ~external
  <2>1. Complete("video") /\ Complete("tts") /\ Complete("scripts")
    BY <1>2 DEF Missing, LaterStages
  <2> QED
    BY <1>2, <2>1, CompleteIs DEF HasVideo
<1> QED
  BY <1>1, <1>2

LEMMA Parts ==
    ASSUME PipelineInv
    PROVE  PipelineTypeOK /\ FilesOK /\ ReadyOK /\ RowOK /\ WaveOK /\ StageOK /\ VideoOK
  BY DEF PipelineInv

LEMMA Whole ==
    ASSUME PipelineTypeOK', FilesOK', ReadyOK', RowOK', WaveOK', StageOK', VideoOK'
    PROVE  PipelineInv'
  BY DEF PipelineInv

\* A file that is spoilt is never fresh, and keeps being there.
LEMMA SpoilType ==
    ASSUME NEW file \in [Modules -> File]
    PROVE  Spoil(file) \in [Modules -> File]
  BY DEF Spoil, File

\* Steps that leave outputs, files and stages alone.
LEMMA FilesStand ==
    ASSUME FilesOK, UNCHANGED <<external, courseVars, fileVars, stages>>
    PROVE  FilesOK'
  BY DEF FilesOK, Scripted, courseVars, fileVars

-----------------------------------------------------------------------------
(* The trainer, and the beginning of a job.                                *)

LEMMA StartStep ==
    ASSUME PipelineInv, NEW m \in {"full", "continue", "module"}, NEW target,
           Start(m, target), m = "module" => target \in Modules /\ Missing = {}
    PROVE  PipelineInv'
<1>1. /\ pc = "idle" /\ row' = [row EXCEPT !.status = "pending", !.claimed = TRUE]
      /\ pc' = "queued" /\ mode' = m /\ module' = target
      /\ UNCHANGED <<external, courseVars, fileVars, stages, wave, run, faults>>
  BY DEF Start
<1>2. /\ row' \in RowRecord
      /\ row'.status = "pending" /\ row'.claimed /\ row'.checkpoint = row.checkpoint
      /\ row'.failed = row.failed /\ row'.failedStages = row.failedStages
  BY <1>1, Parts DEF PipelineTypeOK
<1>3. PipelineTypeOK'
  BY <1>1, <1>2, Parts DEF PipelineTypeOK, StartPcs, VideoPcs, courseVars, fileVars
<1>4. FilesOK'
  BY <1>1, Parts, FilesStand
<1>5. ReadyOK'
  BY <1>1, <1>2, Parts DEF ReadyOK, SlidesFailed, courseVars
<1>6. RowOK'
  BY <1>1, <1>2, Parts DEF RowOK, Claimed, LaterStages, CheckPcs
<1>7. WaveOK'
  BY <1>1 DEF WaveOK, WavePcs
<1>8. StageOK'
  BY <1>1, Parts DEF StageOK, LaterStages, CheckPcs
<1>9. VideoOK'
  <2>1. m = "module" /\ ~external => Scripted
    <3>1. m = "module" /\ ~external => audioPath # {}
      BY NothingMissing, Constants, Parts DEF PipelineTypeOK
    <3> QED
      BY <3>1, Parts DEF FilesOK
  <2> QED
    BY <1>1, <2>1 DEF VideoOK, VideoPcs, Scripted, courseVars
<1> QED
  BY <1>3, <1>4, <1>5, <1>6, <1>7, <1>8, <1>9, Whole

\* Everything is taken back that was made of the blueprint.
LEMMA InvalidateFacts ==
    ASSUME PipelineInv, NEW claimed \in BOOLEAN, Invalidate(claimed)
    PROVE  /\ course' = "draft" /\ outputs' = {} /\ audioPath' = {} /\ videoPath' = {}
           /\ html' \in [Modules -> File] /\ wav' \in [Modules -> File] /\ mp4' \in [Modules -> File]
           /\ row' \in RowRecord
           /\ row'.status = "pending" /\ row'.claimed = claimed /\ row'.checkpoint = "none"
           /\ row'.failed = "none" /\ row'.failedStages = {}
           /\ stages' \in [AllStages -> {"none", "running", "completed", "failed"}]
           /\ \A s \in AllStages : stages'[s] = "none"
           /\ FilesOK' /\ ReadyOK'
<1>1. /\ course' = "draft" /\ outputs' = {} /\ audioPath' = {} /\ videoPath' = {}
      /\ html' \in [Modules -> File] /\ wav' \in [Modules -> File] /\ mp4' \in [Modules -> File]
  BY Parts, SpoilType DEF Invalidate, PipelineTypeOK
<1>2. /\ row' \in RowRecord
      /\ row'.status = "pending" /\ row'.claimed = claimed /\ row'.checkpoint = "none"
      /\ row'.failed = "none" /\ row'.failedStages = {}
  BY Parts DEF Invalidate, PipelineTypeOK, Checkpoints
<1>3. DOMAIN stages = AllStages
  BY Parts DEF PipelineTypeOK
<1>4. stages' = [s \in AllStages |-> "none"]
  BY <1>3 DEF Invalidate
<1>5. FilesOK' /\ ReadyOK'
  BY <1>1 DEF FilesOK, ReadyOK
<1> QED
  BY <1>1, <1>2, <1>4, <1>5

LEMMA EditStep ==
    ASSUME PipelineInv, EditBlueprint
    PROVE  PipelineInv'
<1>1. ~Claimed /\ Invalidate(FALSE) /\ external' \in BOOLEAN /\ UNCHANGED <<pc, mode, module, wave, run, faults>>
  BY DEF EditBlueprint
<1>2. pc \in EndPcs
  BY <1>1, Parts DEF RowOK
<1>3. PipelineTypeOK'
  BY <1>1, <1>2, InvalidateFacts, Parts DEF PipelineTypeOK
<1>4. RowOK'
  BY <1>1, <1>2, InvalidateFacts
  DEF RowOK, EndPcs, SlidesFailed, AllStages, WaveStages, LaterStages, CheckPcs
<1>5. WaveOK'
  BY <1>1, <1>2 DEF WaveOK, WavePcs, EndPcs
<1>6. StageOK'
  BY <1>1, <1>2, Parts DEF StageOK, EndPcs, LaterStages, CheckPcs
<1>7. VideoOK'
  BY <1>1, <1>2 DEF VideoOK, EndPcs, VideoPcs
<1> QED
  BY <1>1, <1>3, <1>4, <1>5, <1>6, <1>7, InvalidateFacts, Whole

LEMMA LaunchStep ==
    ASSUME PipelineInv, Launch
    PROVE  PipelineInv'
<1>1. /\ pc = "queued" /\ row' = [row EXCEPT !.status = "running"]
      /\ UNCHANGED <<external, courseVars, fileVars, stages, mode, module, wave, run, faults>>
  BY DEF Launch
<1>2. \/ pc' \in {"invalidate", "resume"}
      \/ mode = "module" /\ pc' = IF external THEN "render" ELSE "narrate"
  BY <1>1, Parts DEF Launch, PipelineTypeOK
<1>3. /\ row' \in RowRecord
      /\ row'.status = "running" /\ row'.claimed = row.claimed /\ row'.checkpoint = row.checkpoint
      /\ row'.failed = row.failed /\ row'.failedStages = row.failedStages
  BY <1>1, Parts DEF PipelineTypeOK
<1>4. PipelineTypeOK'
  BY <1>1, <1>2, <1>3, Parts DEF PipelineTypeOK, StartPcs, VideoPcs, courseVars, fileVars
<1>5. FilesOK'
  BY <1>1, Parts, FilesStand
<1>6. ReadyOK'
  BY <1>1, <1>3, Parts DEF ReadyOK, SlidesFailed, courseVars
<1>7. RowOK'
  BY <1>1, <1>2, <1>3, Parts DEF RowOK, Claimed, LaterStages, CheckPcs, EndPcs
<1>8. WaveOK'
  BY <1>2 DEF WaveOK, WavePcs
<1>9. StageOK'
  BY <1>1, <1>2, Parts DEF StageOK, LaterStages, CheckPcs
<1>10. VideoOK'
  BY <1>1, <1>2, Parts DEF VideoOK, VideoPcs, Scripted, courseVars
<1> QED
  BY <1>4, <1>5, <1>6, <1>7, <1>8, <1>9, <1>10, Whole

-----------------------------------------------------------------------------
(* Wave 1.                                                                 *)

LEMMA WaveFrame ==
    ASSUME PipelineInv, pc \in WavePcs \cup StartPcs, pc' \in WavePcs, UNCHANGED run
    PROVE  StageOK' /\ VideoOK'
<1>1. run'.phase = "before"
  BY Parts DEF StageOK, WavePcs, StartPcs, LaterStages
<1>2. StageOK'
  BY <1>1 DEF StageOK, WavePcs, LaterStages, CheckPcs
<1>3. VideoOK'
  BY DEF VideoOK, WavePcs, VideoPcs
<1> QED
  BY <1>2, <1>3

\* Stages are marked; html does not become completed, and scripts stay so.
LEMMA FilesMarked ==
    ASSUME PipelineInv, UNCHANGED <<external, courseVars, fileVars>>,
           stages'["html"] = "completed" => stages["html"] = "completed",
           stages["scripts"] = "completed" => stages'["scripts"] = "completed"
    PROVE  FilesOK'
  BY Parts DEF FilesOK, Scripted, courseVars, fileVars

\* Slides that are gone take what was made of them.
LEMMA NothingOfSlides ==
    ASSUME PipelineInv, ~external, "slides" \notin outputs
    PROVE  audioPath = {} /\ videoPath = {}
  BY Parts DEF FilesOK, Scripted

LEMMA SlidesAreHtml ==
    ASSUME PipelineInv, pc \in WavePcs, "slides" \in wave.stages
    PROVE  ~external /\ course = "draft"
  BY Parts DEF WaveOK, WaveOrder, PipelineTypeOK, WaveStages

LEMMA ClearFacts ==
    ASSUME PipelineInv, pc \in WavePcs, NEW s \in wave.stages, ClearOutput(s),
           UNCHANGED <<external, stages, row>>
    PROVE  /\ course' = course /\ outputs' \subseteq outputs
           /\ outputs' \subseteq Outputs /\ audioPath' \subseteq Modules /\ videoPath' \subseteq Modules
           /\ html' \in [Modules -> File] /\ wav' \in [Modules -> File] /\ mp4' \in [Modules -> File]
           /\ s = "slides" => "slides" \notin outputs'
           /\ FilesOK' /\ ReadyOK'
<1>1. course' = course /\ outputs' \subseteq outputs /\ outputs' \subseteq Outputs
      /\ (s = "slides" => "slides" \notin outputs')
  BY Parts DEF ClearOutput, PipelineTypeOK
<1>2. CASE s = "slides"
  <2>1. /\ audioPath' = {} /\ videoPath' = {}
        /\ html' \in [Modules -> File] /\ wav' \in [Modules -> File] /\ mp4' \in [Modules -> File]
    BY <1>2, Parts, SpoilType DEF ClearOutput, PipelineTypeOK
  <2>2. FilesOK'
    BY <1>1, <1>2, <2>1 DEF FilesOK
  <2>3. ReadyOK'
    BY <1>1, <1>2, SlidesAreHtml DEF ReadyOK
  <2> QED
    BY <1>1, <2>1, <2>2, <2>3
<1>3. CASE s # "slides"
  <2>1. UNCHANGED <<audioPath, videoPath, fileVars>> /\ outputs' = outputs \ {s}
    BY <1>3 DEF ClearOutput
  <2>2. s # "scripts"
    BY Parts DEF PipelineTypeOK, WaveStages
  <2>3. FilesOK'
    BY <1>3, <2>1, <2>2, Parts DEF FilesOK, Scripted, fileVars
  <2>4. ReadyOK'
    BY <1>1, <2>1, Parts DEF ReadyOK, SlidesFailed
  <2> QED
    BY <1>1, <2>1, <2>3, <2>4, Parts DEF PipelineTypeOK, fileVars
<1> QED
  BY <1>2, <1>3

LEMMA SaveFacts ==
    ASSUME PipelineInv, pc \in WavePcs, NEW s \in wave.stages, SaveOutput(s),
           s = "slides" => "slides" \notin outputs /\ stages["html"] # "completed",
           UNCHANGED <<external, stages, row>>
    PROVE  /\ course' = course /\ ("slides" \in outputs' => "slides" \in outputs \/ s = "slides")
           /\ outputs' \subseteq Outputs /\ audioPath' \subseteq Modules /\ videoPath' \subseteq Modules
           /\ html' \in [Modules -> File] /\ wav' \in [Modules -> File] /\ mp4' \in [Modules -> File]
           /\ FilesOK' /\ ReadyOK'
<1>1. s \in WaveStages
  BY Parts DEF PipelineTypeOK
<1>2. course' = course /\ outputs' \subseteq Outputs /\ videoPath' = videoPath
      /\ ("slides" \in outputs' => "slides" \in outputs \/ s = "slides")
  BY <1>1, Parts DEF SaveOutput, PipelineTypeOK, Outputs
<1>3. CASE s = "slides"
  <2>1. /\ audioPath' = {}
        /\ html' \in [Modules -> File] /\ wav' \in [Modules -> File] /\ mp4' \in [Modules -> File]
    BY <1>3, Parts, SpoilType DEF SaveOutput, PipelineTypeOK
  <2>2. videoPath' = {}
    BY <1>2, <1>3, SlidesAreHtml, NothingOfSlides
  <2>3. FilesOK'
    BY <1>3, <2>1, <2>2 DEF FilesOK
  <2>4. ReadyOK'
    BY <1>2, <1>3, SlidesAreHtml DEF ReadyOK
  <2> QED
    BY <1>2, <2>1, <2>2, <2>3, <2>4
<1>4. CASE s # "slides"
  <2>1. UNCHANGED <<audioPath, videoPath, fileVars>> /\ outputs' = outputs \cup {s}
    BY <1>4 DEF SaveOutput
  <2>2. FilesOK'
    BY <1>4, <2>1, Parts DEF FilesOK, Scripted, fileVars
  <2>3. ReadyOK'
    BY <1>2, <2>1, Parts DEF ReadyOK, SlidesFailed
  <2> QED
    BY <1>2, <2>1, <2>2, <2>3, Parts DEF PipelineTypeOK, fileVars
<1> QED
  BY <1>3, <1>4

LEMMA NoWaveType ==
    NoWave \in WaveRecord
  BY DEF NoWave

LEMMA RestartStep ==
    ASSUME PipelineInv, RestartFromBlueprint
    PROVE  PipelineInv'
<1>1. /\ pc = "invalidate" /\ pc' = "clear" /\ Invalidate(row.claimed)
      /\ wave' = [NoWave EXCEPT !.stages = WaveOrder]
      /\ UNCHANGED <<external, mode, module, run, faults>>
  BY DEF RestartFromBlueprint
<1>2. row.claimed /\ row.claimed \in BOOLEAN /\ WaveOrder \subseteq WaveStages
  BY <1>1, Parts DEF RowOK, Claimed, EndPcs, PipelineTypeOK, WaveOrder
<1>3. /\ wave' \in WaveRecord
      /\ wave'.stages = WaveOrder /\ wave'.clear = {} /\ wave'.working = {} /\ wave'.produced = {}
      /\ wave'.failures = {} /\ wave'.recover = {} /\ wave'.retrying = "none"
  BY <1>1, <1>2 DEF NoWave
<1>4. PipelineTypeOK'
  BY <1>1, <1>2, <1>3, InvalidateFacts, Parts DEF PipelineTypeOK, WavePcs, VideoPcs
<1>5. RowOK'
  BY <1>1, <1>2, InvalidateFacts
  DEF RowOK, Claimed, SlidesFailed, AllStages, WaveStages, LaterStages, CheckPcs
<1>6. WaveOK'
  <2>1. "slides" \notin outputs' /\ course' = "draft" /\ ~SlidesFailed'
    BY <1>1, <1>2, InvalidateFacts DEF SlidesFailed
  <2>2. WaveOrder' = WaveOrder
    BY <1>1 DEF WaveOrder
  <2> QED
    BY <1>1, <1>3, <2>1, <2>2 DEF WaveOK
<1>7. StageOK' /\ VideoOK'
  BY <1>1, WaveFrame DEF StartPcs, WavePcs
<1> QED
  BY <1>1, <1>2, <1>4, <1>5, <1>6, <1>7, InvalidateFacts, Whole

LEMMA ChooseStep ==
    ASSUME PipelineInv, ChooseWave
    PROVE  PipelineInv'
<1>1. /\ pc = "resume" /\ pc' = "clear" /\ wave' = [NoWave EXCEPT !.stages = ToResume, !.clear = ToResume]
      /\ UNCHANGED <<external, courseVars, fileVars, rowVars, mode, module, run, faults>>
  BY DEF ChooseWave
<1>2. ToResume \subseteq WaveOrder /\ WaveOrder \subseteq WaveStages
  BY DEF ToResume, WaveOrder
<1>3. /\ wave' \in WaveRecord
      /\ wave'.stages = ToResume /\ wave'.clear = ToResume /\ wave'.working = {} /\ wave'.produced = {}
      /\ wave'.failures = {} /\ wave'.recover = {} /\ wave'.retrying = "none"
  BY <1>1, <1>2 DEF NoWave
<1>4. PipelineTypeOK'
  BY <1>1, <1>3, Parts DEF PipelineTypeOK, WavePcs, VideoPcs, courseVars, fileVars, rowVars
<1>5. FilesOK'
  BY <1>1, Parts, FilesStand DEF rowVars
<1>6. ReadyOK' /\ RowOK'
  BY <1>1, Parts DEF ReadyOK, RowOK, Claimed, SlidesFailed, EndPcs, LaterStages, CheckPcs, courseVars, rowVars
<1>7. WaveOK'
  <2>1. ~external /\ SlidesFailed => "slides" \in ToResume
    BY DEF SlidesFailed, ToResume, WaveOrder, WaveStages
  <2>2. "slides" \in ToResume => course = "draft"
    <3>1. SUFFICES ASSUME "slides" \in ToResume, course = "ready" PROVE FALSE
      BY Parts DEF PipelineTypeOK
    <3>2. ~external
      BY <3>1, Parts DEF ToResume, WaveOrder, PipelineTypeOK
    <3>3. "slides" \in outputs
      <4>1. videoPath # {}
        BY <3>1, Parts, Constants DEF ReadyOK
      <4> QED
        BY <3>2, <4>1, NothingOfSlides
    <3>4. "slides" \notin Missing
      BY <3>3, CompleteIs DEF Missing
    <3> QED
      BY <3>1, <3>2, <3>4, Parts DEF ToResume, ReadyOK, SlidesFailed
  <2>3. WaveOrder' = WaveOrder /\ (SlidesFailed' <=> SlidesFailed) /\ course' = course
    BY <1>1 DEF WaveOrder, SlidesFailed, courseVars, rowVars
  <2>4. "slides" \in ToResume => ~SlidesGone'
    BY <1>1, <1>3 DEF SlidesGone
  <2> QED
    BY <1>1, <1>2, <1>3, <2>1, <2>2, <2>3, <2>4 DEF WaveOK
<1>8. StageOK' /\ VideoOK'
  BY <1>1, WaveFrame DEF StartPcs, WavePcs
<1> QED
  BY <1>4, <1>5, <1>6, <1>7, <1>8, Whole

LEMMA ClearStep ==
    ASSUME PipelineInv, NEW s, Clear(s)
    PROVE  PipelineInv'
<1>1. /\ pc = "clear" /\ s \in wave.clear /\ ClearOutput(s)
      /\ wave' = [wave EXCEPT !.clear = @ \ {s}]
      /\ UNCHANGED <<external, rowVars, pc, mode, module, run, faults>>
  BY DEF Clear
<1>2. s \in wave.stages /\ pc \in WavePcs /\ pc' \in WavePcs
  BY <1>1, Parts DEF WaveOK, WavePcs
<1>3. /\ course' = course /\ outputs' \subseteq outputs
      /\ outputs' \subseteq Outputs /\ audioPath' \subseteq Modules /\ videoPath' \subseteq Modules
      /\ html' \in [Modules -> File] /\ wav' \in [Modules -> File] /\ mp4' \in [Modules -> File]
      /\ s = "slides" => "slides" \notin outputs'
      /\ FilesOK' /\ ReadyOK'
  BY <1>1, <1>2, ClearFacts DEF rowVars
<1>4. /\ wave' \in WaveRecord
      /\ wave'.stages = wave.stages /\ wave'.clear = wave.clear \ {s} /\ wave'.working = wave.working
      /\ wave'.produced = wave.produced /\ wave'.failures = wave.failures
      /\ wave'.recover = wave.recover /\ wave'.retrying = wave.retrying
  BY <1>1, Parts DEF PipelineTypeOK
<1>5. PipelineTypeOK'
  BY <1>1, <1>3, <1>4, Parts DEF PipelineTypeOK, rowVars, VideoPcs
<1>6. RowOK'
  BY <1>1, Parts DEF RowOK, Claimed, SlidesFailed, EndPcs, LaterStages, CheckPcs, rowVars
<1>7. WaveOK'
  <2>1. SlidesGone' /\ "slides" \in wave.stages => "slides" \notin outputs'
    BY <1>1, <1>3, <1>4, <1>2, Parts DEF SlidesGone, WaveOK
  <2>2. WaveOrder' = WaveOrder /\ (SlidesFailed' <=> SlidesFailed)
    BY <1>1 DEF WaveOrder, SlidesFailed, rowVars
  <2> QED
    BY <1>1, <1>2, <1>3, <1>4, <2>1, <2>2, Parts DEF WaveOK
<1>8. StageOK' /\ VideoOK'
  BY <1>1, <1>2, WaveFrame
<1> QED
  BY <1>3, <1>5, <1>6, <1>7, <1>8, Whole

\* The wave is over, or there is none.
LEMMA WaveOver ==
    ASSUME PipelineInv, pc \in WavePcs, pc' = AfterWave, UNCHANGED <<external, run>>
    PROVE  /\ pc' \in {"html", "video"} /\ (external' => pc' = "video")
           /\ (~external' => pc' = "html") /\ WaveOK' /\ StageOK' /\ VideoOK'
<1>1. pc' \in {"html", "video"} /\ (external' => pc' = "video") /\ (~external' => pc' = "html")
  BY Parts DEF AfterWave, PipelineTypeOK
<1>2. run'.phase = "before"
  BY Parts DEF StageOK, WavePcs, LaterStages
<1>3. StageOK'
  BY <1>1, <1>2 DEF StageOK, LaterStages, CheckPcs
<1>4. WaveOK' /\ VideoOK'
  BY <1>1 DEF WaveOK, VideoOK, WavePcs, VideoPcs
<1> QED
  BY <1>1, <1>3, <1>4

LEMMA ClearedStep ==
    ASSUME PipelineInv, Cleared
    PROVE  PipelineInv'
<1>1. /\ pc = "clear" /\ wave.clear = {} /\ pc' = AfterClear
      /\ UNCHANGED <<external, courseVars, fileVars, rowVars, mode, module, wave, run, faults>>
  BY DEF Cleared
<1>2. \/ "slides" \in wave.stages /\ pc' = "reset"
      \/ "slides" \notin wave.stages /\ pc' = "start"
      \/ "slides" \notin wave.stages /\ pc' = AfterWave /\ pc' \in {"html", "video"}
  BY <1>1 DEF AfterClear, AfterWave
<1>3. PipelineTypeOK'
  BY ZenonT(60), <1>1, <1>2, Parts
  DEF PipelineTypeOK, WavePcs, VideoPcs, LaterStages, courseVars, fileVars, rowVars
<1>4. FilesOK'
  BY <1>1, Parts, FilesStand DEF rowVars
<1>5. ReadyOK'
  BY <1>1, Parts DEF ReadyOK, SlidesFailed, courseVars, rowVars
<1>6. RowOK'
  <2>1. stages["slides"] # "running" /\ Claimed
    BY <1>1, Parts DEF RowOK, EndPcs
  <2>2. pc' \in LaterStages /\ ~external => ~SlidesFailed
    BY <1>1, <1>2, Parts DEF WaveOK, WavePcs, LaterStages
  <2>3. pc' \notin CheckPcs /\ pc' \notin {"wave", "recover", "retry"}
    BY <1>2 DEF CheckPcs
  <2> QED
    BY <1>1, <2>1, <2>2, <2>3, Parts DEF RowOK, Claimed, SlidesFailed, rowVars
<1>7. WaveOK' /\ StageOK' /\ VideoOK'
  <2>1. CASE ("slides" \in wave.stages /\ pc' = "reset") \/ (pc' = "start" /\ "slides" \notin wave.stages)
    <3>1. WaveOrder' = WaveOrder /\ wave' = wave /\ outputs' = outputs /\ course' = course
      BY <1>1 DEF WaveOrder, courseVars
    <3>2. "slides" \in wave.stages => course = "draft" /\ "slides" \notin outputs
      BY <1>1, Parts DEF WaveOK, WavePcs, SlidesGone
    <3>3. WaveOK'
      BY <1>1, <2>1, <3>1, <3>2, Parts DEF WaveOK, WavePcs
    <3> QED
      BY <1>1, <2>1, <3>3, WaveFrame DEF WavePcs
  <2>2. CASE pc' = AfterWave
    BY <1>1, <2>2, WaveOver DEF WavePcs
  <2> QED
    BY <1>2, <2>1, <2>2
<1> QED
  BY <1>3, <1>4, <1>5, <1>6, <1>7, Whole

LEMMA ResetStep ==
    ASSUME PipelineInv, ResetLaterStages
    PROVE  PipelineInv'
<1>1. /\ pc = "reset" /\ pc' = "start" /\ ResetCheckpoints({"html", "scripts", "tts", "video"})
      /\ UNCHANGED <<external, courseVars, fileVars, row, mode, module, wave, run, faults>>
  BY DEF ResetLaterStages
<1>2. /\ stages' \in [AllStages -> {"none", "running", "completed", "failed"}]
      /\ stages'["html"] = "none" /\ stages'["scripts"] = "none" /\ stages'["slides"] = stages["slides"]
  BY <1>1, Parts DEF ResetCheckpoints, PipelineTypeOK, AllStages, WaveStages, LaterStages
<1>3. PipelineTypeOK'
  BY <1>1, <1>2, Parts DEF PipelineTypeOK, WavePcs, VideoPcs, courseVars, fileVars
<1>4. WaveOK'
  <2>1. WaveOrder' = WaveOrder /\ wave' = wave /\ outputs' = outputs /\ course' = course
    BY <1>1 DEF WaveOrder, courseVars
  <2>2. "slides" \in wave.stages => course = "draft" /\ "slides" \notin outputs
    BY <1>1, Parts DEF WaveOK, WavePcs, SlidesGone
  <2> QED
    BY <1>1, <1>2, <2>1, <2>2, Parts DEF WaveOK, WavePcs
<1>5. RowOK'
  BY <1>1, <1>2, Parts DEF RowOK, Claimed, SlidesFailed, EndPcs, LaterStages, CheckPcs
<1>6. FilesOK'
  <2>1. ~external => audioPath = {} /\ videoPath = {}
    <3>1. "slides" \notin outputs
      BY <1>1, Parts DEF WaveOK, WavePcs, SlidesGone
    <3> QED
      BY <3>1, NothingOfSlides
  <2> QED
    BY <1>1, <1>2, <2>1, Parts DEF FilesOK, courseVars, fileVars
<1>7. ReadyOK'
  BY <1>1, <1>2, Parts DEF ReadyOK, SlidesFailed, courseVars
<1>8. StageOK' /\ VideoOK'
  BY <1>1, WaveFrame DEF WavePcs
<1> QED
  BY <1>3, <1>4, <1>5, <1>6, <1>7, <1>8, Whole

LEMMA MarkFacts ==
    ASSUME PipelineInv, NEW s \in AllStages, NEW status \in {"none", "running", "completed", "failed"},
           Mark(s, status)
    PROVE  /\ stages' \in [AllStages -> {"none", "running", "completed", "failed"}]
           /\ stages'[s] = status /\ \A t \in AllStages \ {s} : stages'[t] = stages[t]
  BY Parts DEF Mark, PipelineTypeOK

LEMMA StageNames ==
    /\ WaveStages \subseteq AllStages /\ LaterStages \subseteq AllStages
    /\ {"html", "scripts", "tts", "video", "publish"} \cap WaveStages = {}
    /\ "slides" \in WaveStages /\ "slides" \notin LaterStages /\ "html" \in AllStages
    /\ "scripts" \in AllStages
  BY DEF AllStages, WaveStages, LaterStages

LEMMA StartWaveStep ==
    ASSUME PipelineInv, StartWave
    PROVE  PipelineInv'
<1>1. /\ pc = "start" /\ pc' = "wave"
      /\ row' = [row EXCEPT !.status = "running", !.checkpoint = "wave_1", !.failed = "none",
                            !.failedStages = {}]
      /\ stages' = [s \in DOMAIN stages |-> IF s \in wave.stages THEN "running" ELSE stages[s]]
      /\ wave' = [wave EXCEPT !.working = wave.stages]
      /\ UNCHANGED <<external, courseVars, fileVars, mode, module, run, faults>>
  BY DEF StartWave
<1>2. /\ row' \in RowRecord /\ row'.status = "running" /\ row'.claimed = row.claimed
      /\ row'.checkpoint = "wave_1" /\ row'.failed = "none"
  BY <1>1, Parts DEF PipelineTypeOK, Checkpoints
<1>3. /\ wave' \in WaveRecord /\ wave'.stages = wave.stages /\ wave'.working = wave.stages
      /\ wave'.clear = wave.clear /\ wave'.produced = wave.produced /\ wave'.failures = wave.failures
      /\ wave'.recover = wave.recover /\ wave'.retrying = wave.retrying
  BY <1>1, Parts DEF PipelineTypeOK
<1>4. wave.stages \subseteq WaveStages
  BY Parts DEF PipelineTypeOK
<1>5. /\ stages' \in [AllStages -> {"none", "running", "completed", "failed"}]
      /\ stages'["html"] = stages["html"] /\ stages'["scripts"] = stages["scripts"]
      /\ stages'["slides"] = "running" => "slides" \in wave.stages
  <2>1. DOMAIN stages = AllStages
    BY Parts DEF PipelineTypeOK
  <2>2. stages["slides"] # "running"
    BY <1>1, Parts DEF RowOK
  <2> QED
    BY <1>1, <1>4, <2>1, <2>2, StageNames, Parts DEF PipelineTypeOK
<1>6. PipelineTypeOK'
  BY <1>1, <1>2, <1>3, <1>5, Parts DEF PipelineTypeOK, WavePcs, VideoPcs, courseVars, fileVars
<1>7. FilesOK'
  BY <1>1, <1>5, FilesMarked
<1>8. ReadyOK'
  BY <1>1, <1>2, <1>5, SlidesAreHtml, Parts DEF ReadyOK, SlidesFailed, courseVars, WavePcs
<1>9. RowOK'
  BY <1>1, <1>2, <1>3, <1>5, Parts DEF RowOK, Claimed, SlidesFailed, EndPcs
<1>10. WaveOK'
  <2>1. WaveOrder' = WaveOrder /\ outputs' = outputs /\ course' = course
    BY <1>1 DEF WaveOrder, courseVars
  <2>2. "slides" \in wave.stages => course = "draft" /\ "slides" \notin outputs
    BY <1>1, Parts DEF WaveOK, WavePcs, SlidesGone
  <2> QED
    BY <1>1, <1>3, <1>5, <2>1, <2>2, Parts DEF WaveOK, WavePcs
<1>11. StageOK' /\ VideoOK'
  BY <1>1, WaveFrame DEF WavePcs
<1> QED
  BY <1>6, <1>7, <1>8, <1>9, <1>10, <1>11, Whole

LEMMA ProduceStep ==
    ASSUME PipelineInv, NEW s, Produce(s)
    PROVE  PipelineInv'
<1>1. /\ pc = "wave" /\ s \in wave.working /\ SaveOutput(s)
      /\ wave' = [wave EXCEPT !.working = @ \ {s}, !.produced = @ \cup {s}]
      /\ UNCHANGED <<external, rowVars, pc, mode, module, run, faults>>
  BY DEF Produce
<1>2. /\ s \in wave.stages /\ pc \in WavePcs /\ pc' \in WavePcs
      /\ s = "slides" => "slides" \notin outputs /\ stages["html"] # "completed"
  BY <1>1, Parts DEF WaveOK, WavePcs, SlidesGone
<1>3. /\ course' = course /\ ("slides" \in outputs' => "slides" \in outputs \/ s = "slides")
      /\ outputs' \subseteq Outputs /\ audioPath' \subseteq Modules /\ videoPath' \subseteq Modules
      /\ html' \in [Modules -> File] /\ wav' \in [Modules -> File] /\ mp4' \in [Modules -> File]
      /\ FilesOK' /\ ReadyOK'
  BY <1>1, <1>2, SaveFacts DEF rowVars
<1>4. /\ wave' \in WaveRecord /\ wave'.stages = wave.stages /\ wave'.working = wave.working \ {s}
      /\ wave'.produced = wave.produced \cup {s} /\ wave'.clear = wave.clear
      /\ wave'.failures = wave.failures /\ wave'.recover = wave.recover /\ wave'.retrying = wave.retrying
  BY <1>1, Parts DEF PipelineTypeOK
<1>5. PipelineTypeOK'
  BY <1>1, <1>3, <1>4, Parts DEF PipelineTypeOK, rowVars, VideoPcs
<1>6. RowOK'
  BY <1>1, <1>4, Parts DEF RowOK, Claimed, SlidesFailed, EndPcs, rowVars
<1>7. WaveOK'
  <2>1. SlidesGone' /\ "slides" \in wave.stages => "slides" \notin outputs'
    BY <1>1, <1>2, <1>3, <1>4, Parts DEF SlidesGone, WaveOK
  <2>2. WaveOrder' = WaveOrder
    BY <1>1 DEF WaveOrder
  <2> QED
    BY <1>1, <1>2, <1>3, <1>4, <2>1, <2>2, Parts DEF WaveOK, rowVars
<1>8. StageOK' /\ VideoOK'
  BY <1>1, <1>2, WaveFrame
<1> QED
  BY <1>3, <1>5, <1>6, <1>7, <1>8, Whole

LEMMA RecordStep ==
    ASSUME PipelineInv, NEW s, Record(s)
    PROVE  PipelineInv'
<1>1. /\ pc = "wave" /\ UNCHANGED <<external, courseVars, fileVars, row, pc, mode, module, run>>
      /\ \/ /\ s \in wave.produced /\ Mark(s, "completed")
            /\ wave' = [wave EXCEPT !.produced = @ \ {s}]
         \/ /\ s \in wave.working /\ Mark(s, "failed")
            /\ wave' = [wave EXCEPT !.working = @ \ {s}, !.failures = @ \cup {s}]
  BY DEF Record
<1>2. s \in wave.stages /\ s \in WaveStages /\ pc \in WavePcs
  BY <1>1, Parts DEF WaveOK, WavePcs, PipelineTypeOK
<1>3. /\ stages' \in [AllStages -> {"none", "running", "completed", "failed"}]
      /\ stages'[s] # "running" /\ \A t \in AllStages \ {s} : stages'[t] = stages[t]
  BY <1>1, <1>2, StageNames, MarkFacts
<1>4. stages'["html"] = stages["html"] /\ stages'["scripts"] = stages["scripts"]
      /\ (stages'["slides"] = "running" => stages["slides"] = "running" /\ s # "slides")
  BY <1>2, <1>3, StageNames
<1>5. /\ wave' \in WaveRecord /\ wave'.stages = wave.stages /\ wave'.clear = wave.clear
      /\ wave'.recover = wave.recover /\ wave'.retrying = wave.retrying
      /\ wave'.working \subseteq wave.working /\ wave'.produced \subseteq wave.produced
      /\ wave'.failures \subseteq wave.failures \cup {s}
      /\ wave.working \cup wave.produced \subseteq wave'.working \cup wave'.produced \cup {s}
  <2>1. CASE wave' = [wave EXCEPT !.produced = @ \ {s}]
    BY <2>1, Parts DEF PipelineTypeOK
  <2>2. CASE wave' = [wave EXCEPT !.working = @ \ {s}, !.failures = @ \cup {s}]
    <3>1. wave' \in WaveRecord /\ wave'.stages = wave.stages /\ wave'.clear = wave.clear
          /\ wave'.recover = wave.recover /\ wave'.retrying = wave.retrying
          /\ wave'.working = wave.working \ {s} /\ wave'.failures = wave.failures \cup {s}
          /\ wave'.produced = wave.produced
      BY <1>2, <2>2, Parts DEF PipelineTypeOK
    <3> QED
      BY <3>1
  <2> QED
    BY <1>1, <2>1, <2>2
<1>6. PipelineTypeOK'
  BY <1>1, <1>3, <1>5, Parts DEF PipelineTypeOK, VideoPcs, courseVars, fileVars
<1>7. FilesOK'
  BY <1>1, <1>4, FilesMarked
<1>8. ReadyOK'
  BY <1>1, <1>4, Parts DEF ReadyOK, SlidesFailed, courseVars
<1>9. RowOK'
  BY <1>1, <1>4, <1>5, Parts DEF RowOK, Claimed, SlidesFailed, EndPcs
<1>10. WaveOK'
  <2>1. WaveOrder' = WaveOrder /\ outputs' = outputs /\ course' = course
    BY <1>1 DEF WaveOrder, courseVars
  <2>2. SlidesGone' => SlidesGone
    BY <1>1, <1>5 DEF SlidesGone
  <2> QED
    BY <1>1, <1>2, <1>4, <1>5, <2>1, <2>2, Parts DEF WaveOK
<1>11. StageOK' /\ VideoOK'
  BY <1>1, <1>2, WaveFrame
<1> QED
  BY <1>6, <1>7, <1>8, <1>9, <1>10, <1>11, Whole

LEMMA EndWaveStep ==
    ASSUME PipelineInv, EndWave
    PROVE  PipelineInv'
<1>1. /\ pc = "wave" /\ wave.working = {} /\ wave.produced = {}
      /\ UNCHANGED <<external, courseVars, fileVars, rowVars, mode, module, run, faults>>
      /\ \/ pc' = AfterWave /\ wave' = NoWave
         \/ pc' = "recover" /\ wave' = [wave EXCEPT !.recover = wave.failures]
  BY DEF EndWave
<1>2. FilesOK' /\ ReadyOK'
  <2>1. FilesOK'
    BY <1>1, Parts, FilesStand DEF rowVars
  <2>2. ReadyOK'
    BY <1>1, Parts DEF ReadyOK, SlidesFailed, courseVars, rowVars
  <2> QED
    BY <2>1, <2>2
<1>3. stages["slides"] # "running" /\ Claimed /\ (~external => ~SlidesFailed) /\ row.checkpoint = "wave_1"
  BY <1>1, Parts DEF RowOK, EndPcs
<1>4. pc' \notin EndPcs /\ (pc' = "recover" \/ pc' \in {"html", "video"})
  BY <1>1 DEF EndPcs, AfterWave
<1>5. RowOK'
  BY <1>1, <1>3, <1>4, Parts DEF RowOK, Claimed, SlidesFailed, rowVars
<1>6. CASE pc' = AfterWave /\ wave' = NoWave
  <2>1. pc' \in {"html", "video"} /\ WaveOK' /\ StageOK' /\ VideoOK'
    BY <1>1, <1>6, WaveOver DEF WavePcs
  <2>2. PipelineTypeOK'
    BY ZenonT(60), <1>1, <1>6, <2>1, NoWaveType, Parts
    DEF PipelineTypeOK, LaterStages, VideoPcs, courseVars, fileVars, rowVars
  <2> QED
    BY <1>2, <1>5, <2>1, <2>2, Whole
<1>7. CASE pc' = "recover" /\ wave' = [wave EXCEPT !.recover = wave.failures]
  <2>1. /\ wave' \in WaveRecord /\ wave'.stages = wave.stages /\ wave'.clear = wave.clear
        /\ wave'.working = wave.working /\ wave'.produced = wave.produced
        /\ wave'.failures = wave.failures /\ wave'.recover = wave.failures
        /\ wave'.retrying = wave.retrying
    BY <1>7, Parts DEF PipelineTypeOK
  <2>2. PipelineTypeOK'
    BY <1>1, <1>7, <2>1, Parts DEF PipelineTypeOK, WavePcs, VideoPcs, courseVars, fileVars, rowVars
  <2>3. WaveOrder' = WaveOrder /\ outputs' = outputs /\ course' = course /\ stages' = stages
    BY <1>1 DEF WaveOrder, courseVars, rowVars
  <2>4. ~SlidesGone'
    BY <1>7 DEF SlidesGone
  <2>5. WaveOK'
    BY <1>1, <1>7, <2>1, <2>3, <2>4, Parts DEF WaveOK, WavePcs
  <2>6. StageOK' /\ VideoOK'
    BY <1>1, <1>7, WaveFrame DEF WavePcs
  <2> QED
    BY <1>2, <1>5, <2>2, <2>5, <2>6, Whole
<1> QED
  BY <1>1, <1>6, <1>7

LEMMA RetryClearsStep ==
    ASSUME PipelineInv, NEW s \in WaveStages, RetryClears(s)
    PROVE  PipelineInv'
<1>1. /\ pc = "recover" /\ pc' = "retry" /\ ClearOutput(s)
      /\ UNCHANGED <<external, rowVars, mode, module, run, faults>>
      /\ \/ /\ s \in wave.recover
            /\ wave' = [wave EXCEPT !.retrying = s, !.recover = @ \ {s}, !.attempt = 2]
         \/ wave.retrying = s /\ wave' = [wave EXCEPT !.attempt = 3]
  BY DEF RetryClears
<1>2. s \in wave.stages /\ s # "none" /\ pc \in WavePcs /\ pc' \in WavePcs
  BY <1>1, Parts DEF WaveOK, WavePcs, WaveStages
<1>3. /\ course' = course /\ outputs' \subseteq outputs
      /\ outputs' \subseteq Outputs /\ audioPath' \subseteq Modules /\ videoPath' \subseteq Modules
      /\ html' \in [Modules -> File] /\ wav' \in [Modules -> File] /\ mp4' \in [Modules -> File]
      /\ s = "slides" => "slides" \notin outputs'
      /\ FilesOK' /\ ReadyOK'
  BY <1>1, <1>2, ClearFacts DEF rowVars
<1>4. /\ wave' \in WaveRecord /\ wave'.stages = wave.stages /\ wave'.clear = wave.clear
      /\ wave'.working = wave.working /\ wave'.produced = wave.produced
      /\ wave'.failures = wave.failures /\ wave'.recover \subseteq wave.recover
      /\ wave'.retrying = s
  <2>1. CASE wave' = [wave EXCEPT !.retrying = s, !.recover = @ \ {s}, !.attempt = 2]
    BY <2>1, Parts DEF PipelineTypeOK
  <2>2. CASE wave.retrying = s /\ wave' = [wave EXCEPT !.attempt = 3]
    BY <2>2, Parts DEF PipelineTypeOK
  <2> QED
    BY <1>1, <2>1, <2>2
<1>5. PipelineTypeOK'
  BY <1>1, <1>3, <1>4, Parts DEF PipelineTypeOK, rowVars, WavePcs, VideoPcs
<1>6. RowOK'
  BY <1>1, Parts DEF RowOK, Claimed, SlidesFailed, EndPcs, LaterStages, CheckPcs, rowVars
<1>7. WaveOK'
  <2>1. SlidesGone' => "slides" \notin outputs'
    BY <1>1, <1>3, <1>4 DEF SlidesGone
  <2>2. WaveOrder' = WaveOrder
    BY <1>1 DEF WaveOrder
  <2> QED
    BY <1>1, <1>2, <1>3, <1>4, <2>1, <2>2, Parts DEF WaveOK, rowVars
<1>8. StageOK' /\ VideoOK'
  BY <1>1, <1>2, WaveFrame
<1> QED
  BY <1>3, <1>5, <1>6, <1>7, <1>8, Whole

LEMMA RetryRunsStep ==
    ASSUME PipelineInv, RetryRuns
    PROVE  PipelineInv'
<1>1. /\ pc = "retry" /\ Mark(wave.retrying, "running")
      /\ UNCHANGED <<external, courseVars, fileVars, row, pc, mode, module, wave, run, faults>>
  BY DEF RetryRuns
<1>2. /\ wave.retrying \in wave.stages /\ wave.retrying \in WaveStages
      /\ pc \in WavePcs /\ pc' \in WavePcs
  BY <1>1, Parts DEF WaveOK, WavePcs, PipelineTypeOK
<1>3. /\ stages' \in [AllStages -> {"none", "running", "completed", "failed"}]
      /\ \A t \in AllStages \ {wave.retrying} : stages'[t] = stages[t]
  BY <1>1, <1>2, StageNames, MarkFacts
<1>4. stages'["html"] = stages["html"] /\ stages'["scripts"] = stages["scripts"]
      /\ (stages'["slides"] = "running" => stages["slides"] = "running" \/ wave.retrying = "slides")
  BY <1>2, <1>3, StageNames
<1>5. PipelineTypeOK'
  BY <1>1, <1>3, Parts DEF PipelineTypeOK, VideoPcs, courseVars, fileVars
<1>6. FilesOK'
  BY <1>1, <1>4, FilesMarked
<1>7. wave.retrying = "slides" => course = "draft"
  BY <1>2, SlidesAreHtml
<1>8. ReadyOK'
  BY <1>1, <1>4, <1>7, Parts DEF ReadyOK, SlidesFailed, courseVars
<1>9. RowOK'
  BY <1>1, <1>4, Parts DEF RowOK, Claimed, SlidesFailed, EndPcs
<1>10. WaveOK'
  <2>1. WaveOrder' = WaveOrder /\ outputs' = outputs /\ course' = course /\ (SlidesGone' <=> SlidesGone)
    BY <1>1 DEF WaveOrder, courseVars, SlidesGone
  <2> QED
    BY <1>1, <1>2, <1>4, <2>1, Parts DEF WaveOK
<1>11. StageOK' /\ VideoOK'
  BY <1>1, <1>2, WaveFrame
<1> QED
  BY <1>5, <1>6, <1>8, <1>9, <1>10, <1>11, Whole

LEMMA RetryProducesStep ==
    ASSUME PipelineInv, RetryProduces
    PROVE  PipelineInv'
<1>1. /\ pc = "retry" /\ wave.retrying \notin wave.produced /\ SaveOutput(wave.retrying)
      /\ wave' = [wave EXCEPT !.produced = {wave.retrying}]
      /\ UNCHANGED <<external, rowVars, pc, mode, module, run, faults>>
  BY DEF RetryProduces
<1>2. /\ wave.retrying \in wave.stages /\ wave.retrying \in WaveStages
      /\ pc \in WavePcs /\ pc' \in WavePcs
      /\ wave.retrying = "slides" => "slides" \notin outputs /\ stages["html"] # "completed"
  BY <1>1, Parts DEF WaveOK, WavePcs, PipelineTypeOK, SlidesGone
<1>3. /\ course' = course /\ ("slides" \in outputs' => "slides" \in outputs \/ wave.retrying = "slides")
      /\ outputs' \subseteq Outputs /\ audioPath' \subseteq Modules /\ videoPath' \subseteq Modules
      /\ html' \in [Modules -> File] /\ wav' \in [Modules -> File] /\ mp4' \in [Modules -> File]
      /\ FilesOK' /\ ReadyOK'
  BY <1>1, <1>2, SaveFacts DEF rowVars
<1>4. /\ wave' \in WaveRecord /\ wave'.stages = wave.stages /\ wave'.working = wave.working
      /\ wave'.produced = {wave.retrying} /\ wave'.clear = wave.clear
      /\ wave'.failures = wave.failures /\ wave'.recover = wave.recover /\ wave'.retrying = wave.retrying
  BY <1>1, <1>2, Parts DEF PipelineTypeOK
<1>5. PipelineTypeOK'
  BY <1>1, <1>3, <1>4, Parts DEF PipelineTypeOK, rowVars, VideoPcs
<1>6. RowOK'
  BY <1>1, <1>4, Parts DEF RowOK, Claimed, SlidesFailed, EndPcs, rowVars
<1>7. WaveOK'
  <2>1. ~SlidesGone'
    BY <1>1, <1>4 DEF SlidesGone
  <2>2. WaveOrder' = WaveOrder
    BY <1>1 DEF WaveOrder
  <2> QED
    BY <1>1, <1>2, <1>3, <1>4, <2>1, <2>2, Parts DEF WaveOK, rowVars
<1>8. StageOK' /\ VideoOK'
  BY <1>1, <1>2, WaveFrame
<1> QED
  BY <1>3, <1>5, <1>6, <1>7, <1>8, Whole

LEMMA RetryRecordsStep ==
    ASSUME PipelineInv, RetryRecords
    PROVE  PipelineInv'
<1> DEFINE s == wave.retrying
<1>1. /\ pc = "retry" /\ pc' = "recover"
      /\ UNCHANGED <<external, courseVars, fileVars, row, mode, module, run>>
      /\ \/ /\ Mark(s, "completed")
            /\ wave' = [wave EXCEPT !.produced = {}, !.failures = @ \ {s}, !.retrying = "none"]
         \/ /\ Mark(s, "failed")
            /\ wave' = [wave EXCEPT !.retrying = IF wave.attempt = 3 THEN "none" ELSE s]
  BY DEF RetryRecords
<1>2. s \in wave.stages /\ s \in WaveStages /\ pc \in WavePcs /\ pc' \in WavePcs
  BY <1>1, Parts DEF WaveOK, WavePcs, PipelineTypeOK
<1>3. /\ stages' \in [AllStages -> {"none", "running", "completed", "failed"}]
      /\ stages'[s] # "running" /\ \A t \in AllStages \ {s} : stages'[t] = stages[t]
  BY <1>1, <1>2, StageNames, MarkFacts
<1>4. stages'["html"] = stages["html"] /\ stages'["scripts"] = stages["scripts"]
      /\ (stages'["slides"] = "running" => stages["slides"] = "running" /\ s # "slides")
  BY <1>2, <1>3, StageNames
<1>5. /\ wave' \in WaveRecord /\ wave'.stages = wave.stages /\ wave'.clear = wave.clear
      /\ wave'.working = wave.working /\ wave'.recover = wave.recover
      /\ wave'.produced \subseteq wave.produced /\ wave'.failures \subseteq wave.failures
      /\ wave'.retrying \in {s, "none"}
  <2>1. CASE wave' = [wave EXCEPT !.produced = {}, !.failures = @ \ {s}, !.retrying = "none"]
    BY <2>1, Parts DEF PipelineTypeOK
  <2>2. CASE wave' = [wave EXCEPT !.retrying = IF wave.attempt = 3 THEN "none" ELSE s]
    BY <2>2, Parts DEF PipelineTypeOK
  <2> QED
    BY <1>1, <2>1, <2>2
<1>6. PipelineTypeOK'
  BY <1>1, <1>3, <1>5, Parts DEF PipelineTypeOK, WavePcs, VideoPcs, courseVars, fileVars
<1>7. FilesOK'
  BY <1>1, <1>4, FilesMarked
<1>8. ReadyOK'
  BY <1>1, <1>4, Parts DEF ReadyOK, SlidesFailed, courseVars
<1>9. RowOK'
  BY <1>1, <1>4, Parts DEF RowOK, Claimed, SlidesFailed, EndPcs, LaterStages, CheckPcs
<1>10. WaveOK'
  <2>1. WaveOrder' = WaveOrder /\ outputs' = outputs /\ course' = course
    BY <1>1 DEF WaveOrder, courseVars
  <2>2. ~SlidesGone'
    BY <1>1 DEF SlidesGone
  <2> QED
    BY <1>1, <1>2, <1>4, <1>5, <2>1, <2>2, Parts DEF WaveOK
<1>11. StageOK' /\ VideoOK'
  BY <1>1, <1>2, WaveFrame
<1> QED
  BY <1>6, <1>7, <1>8, <1>9, <1>10, <1>11, Whole

LEMMA EndRecoveryStep ==
    ASSUME PipelineInv, EndRecovery
    PROVE  PipelineInv'
<1>1. /\ pc = "recover" /\ wave' = NoWave
      /\ UNCHANGED <<external, courseVars, fileVars, stages, mode, module, run, faults>>
      /\ \/ pc' = AfterWave /\ row' = row
         \/ /\ pc' = "raised"
            /\ row' = [row EXCEPT !.status = "failed", !.checkpoint = "wave_1",
                                  !.failed = "wave_1", !.failedStages = wave.failures]
  BY DEF EndRecovery
<1>2. FilesOK'
  BY <1>1, Parts, FilesStand
<1>3. stages["slides"] # "running" /\ Claimed /\ (~external => ~SlidesFailed)
  BY <1>1, Parts DEF RowOK, EndPcs
<1>4. CASE pc' = AfterWave /\ row' = row
  <2>1. pc' \in {"html", "video"} /\ WaveOK' /\ StageOK' /\ VideoOK'
    BY <1>1, <1>4, WaveOver DEF WavePcs
  <2>2. PipelineTypeOK'
    BY ZenonT(60), <1>1, <1>4, <2>1, NoWaveType, Parts DEF PipelineTypeOK, LaterStages, VideoPcs, courseVars, fileVars
  <2>3. ReadyOK'
    BY <1>1, <1>4, Parts DEF ReadyOK, SlidesFailed, courseVars
  <2>4. RowOK'
    BY <1>1, <1>3, <1>4, <2>1, Parts DEF RowOK, Claimed, SlidesFailed
  <2> QED
    BY <1>2, <2>1, <2>2, <2>3, <2>4, Whole
<1>5. CASE /\ pc' = "raised"
           /\ row' = [row EXCEPT !.status = "failed", !.checkpoint = "wave_1",
                                 !.failed = "wave_1", !.failedStages = wave.failures]
  <2>1. /\ row' \in RowRecord /\ row'.claimed = row.claimed /\ row'.status = "failed"
        /\ row'.checkpoint = "wave_1" /\ row'.failed = "wave_1" /\ row'.failedStages = wave.failures
    BY <1>5, StageNames, Parts DEF PipelineTypeOK, Checkpoints
  <2>2. PipelineTypeOK'
    BY <1>1, <1>5, <2>1, NoWaveType, Parts DEF PipelineTypeOK, EndPcs, VideoPcs, courseVars, fileVars
  <2>3. "slides" \in wave.failures => course = "draft"
    BY <1>1, SlidesAreHtml, Parts DEF WaveOK, WavePcs
  <2>4. ReadyOK'
    BY <1>1, <2>1, <2>3, Parts DEF ReadyOK, SlidesFailed, courseVars
  <2>5. RowOK'
    BY <1>1, <1>3, <1>5, <2>1 DEF RowOK, EndPcs, LaterStages, CheckPcs
  <2>6. WaveOK' /\ StageOK' /\ VideoOK'
    BY <1>5 DEF WaveOK, StageOK, VideoOK, WavePcs, VideoPcs, LaterStages, CheckPcs
  <2> QED
    BY <1>2, <2>2, <2>4, <2>5, <2>6, Whole
<1> QED
  BY <1>1, <1>4, <1>5

-----------------------------------------------------------------------------
(* The stages after the wave.                                              *)

LEMMA StageFrame ==
    ASSUME pc' \in LaterStages \cup CheckPcs \cup EndPcs
    PROVE  WaveOK' /\ VideoOK'
  BY DEF WaveOK, VideoOK, LaterStages, CheckPcs, EndPcs, WavePcs, VideoPcs

\* The order of the stages; a job of the service runs the last two only.
LEMMA StageOrder ==
    ASSUME PipelineInv, pc \in LaterStages
    PROVE  /\ pc \in {"html", "scripts", "tts"} => ~external
           /\ pc = "html" => AfterStage(pc) = "check scripts"
           /\ pc = "scripts" => AfterStage(pc) = "check tts"
           /\ pc = "tts" => AfterStage(pc) = "video"
           /\ pc = "video" => AfterStage(pc) = "publish"
           /\ pc = "publish" => AfterStage(pc) = "finish"
           /\ AfterStage(pc) \in LaterStages \cup CheckPcs
<1>1. pc \in {"html", "scripts", "tts"} => ~external
  BY Parts DEF StageOK
<1>2. /\ pc = "html" => AfterStage(pc) = "check scripts"
      /\ pc = "scripts" => AfterStage(pc) = "check tts"
      /\ pc = "tts" => AfterStage(pc) = "video"
      /\ pc = "video" => AfterStage(pc) = "publish"
      /\ pc = "publish" => AfterStage(pc) = "finish"
  BY DEF AfterStage
<1> QED
  BY <1>1, <1>2 DEF LaterStages, CheckPcs

\* A job at a later stage has neither slides running nor slides failed.
LEMMA StageRow ==
    ASSUME PipelineInv, pc \in LaterStages \cup CheckPcs
    PROVE  Claimed /\ stages["slides"] # "running" /\ (~external => ~SlidesFailed)
  BY Parts DEF RowOK, LaterStages, CheckPcs, EndPcs

LEMMA NoRunType ==
    NoRun \in RunRecord /\ NoRun.phase = "before"
  BY DEF NoRun

LEMMA SkipStep ==
    ASSUME PipelineInv, SkipStage
    PROVE  PipelineInv'
<1>1. /\ pc \in LaterStages /\ run.phase = "before" /\ stages[pc] = "completed"
      /\ (pc = "publish" \/ Complete(pc)) /\ pc' = AfterStage(pc)
      /\ UNCHANGED <<external, courseVars, fileVars, rowVars, mode, module, wave, run, faults>>
  BY DEF SkipStage, InStage, Skips
<1>2. pc' \in LaterStages \cup CheckPcs
  BY <1>1, StageOrder
<1>3. PipelineTypeOK'
  BY ZenonT(60), <1>1, <1>2, Parts DEF PipelineTypeOK, LaterStages, CheckPcs, VideoPcs, courseVars, fileVars, rowVars
<1>4. FilesOK'
  BY <1>1, Parts, FilesStand DEF rowVars
<1>5. ReadyOK'
  BY <1>1, Parts DEF ReadyOK, SlidesFailed, courseVars, rowVars
<1>6. RowOK'
  BY <1>1, <1>2, StageRow, Parts DEF RowOK, Claimed, SlidesFailed, rowVars, LaterStages, CheckPcs
<1>7. StageOK'
  <2>1. pc = "scripts" => Scripted
    BY <1>1, CompleteIs DEF Scripted
  <2>2. (Scripted' <=> Scripted) /\ stages' = stages /\ external' = external /\ run' = run
    BY <1>1 DEF Scripted, courseVars, rowVars
  <2>3. /\ ~external => stages["html"] = "completed"
        /\ ~external /\ pc # "html" => Scripted
    BY <1>1, <2>1, Parts DEF StageOK, LaterStages
  <2>4. external => pc' \in {"publish", "finish"}
    BY <1>1, StageOrder DEF LaterStages
  <2>5. pc' \in {"check tts", "reset video", "tts", "video", "publish"} => pc # "html"
    BY <1>1, StageOrder
  <2>6. run'.phase = "before"
    BY <1>1
  <2>7. external' => pc' \notin {"html", "scripts", "tts"} \cup (CheckPcs \ {"finish"})
    BY <1>1, <2>4 DEF CheckPcs
  <2>8. /\ ~external' => stages'["html"] = "completed"
        /\ ~external' /\ pc' \in {"check tts", "reset video", "tts", "video", "publish"} => Scripted'
    BY <2>2, <2>3, <2>5
  <2> HIDE <1>1
  <2> QED
    BY <2>6, <2>7, <2>8 DEF StageOK
<1>8. WaveOK' /\ VideoOK'
  BY <1>2, StageFrame
<1> QED
  BY <1>3, <1>4, <1>5, <1>6, <1>7, <1>8, Whole

\* Scripts that are about to be written have neither audio nor videos yet.
LEMMA NothingNarrated ==
    ASSUME PipelineInv, ~external, ~Scripted
    PROVE  audioPath = {} /\ videoPath = {} /\ course = "draft"
<1>1. audioPath = {} /\ videoPath = {}
  BY Parts DEF FilesOK
<1> QED
  BY <1>1, Constants, Parts DEF ReadyOK, PipelineTypeOK

LEMMA EnterStep ==
    ASSUME PipelineInv, EnterStage
    PROVE  PipelineInv'
<1>1. /\ pc \in LaterStages /\ run.phase = "before" /\ ~Skips /\ Mark(pc, "running")
      /\ row' = [row EXCEPT !.status = "running", !.checkpoint = pc,
                            !.failed = IF @ = pc THEN "none" ELSE @]
      /\ run' = [phase |-> "inside", todo |-> Worklist, rendered |-> {}]
      /\ UNCHANGED <<external, courseVars, fileVars, pc, mode, module, wave, faults>>
  BY DEF EnterStage, InStage
<1>2. /\ row' \in RowRecord /\ row'.status = "running" /\ row'.claimed = row.claimed
      /\ row'.checkpoint = pc /\ row'.failed = (IF row.failed = pc THEN "none" ELSE row.failed)
      /\ row'.failedStages = row.failedStages
  BY <1>1, Parts DEF PipelineTypeOK, Checkpoints
<1>3. /\ stages' \in [AllStages -> {"none", "running", "completed", "failed"}]
      /\ stages'[pc] = "running" /\ \A t \in AllStages \ {pc} : stages'[t] = stages[t]
  BY <1>1, StageNames, MarkFacts
<1>4. /\ run' \in RunRecord /\ run'.phase = "inside" /\ run'.rendered = {}
      /\ (pc \in {"html", "tts"} => run'.todo = Modules)
  BY <1>1 DEF Worklist
<1>5. /\ stages'["slides"] = stages["slides"]
      /\ (pc # "html" => stages'["html"] = stages["html"])
      /\ (pc # "scripts" => stages'["scripts"] = stages["scripts"])
  BY <1>1, <1>3, StageNames
<1>6. pc = "scripts" => ~external /\ ~Scripted
  BY <1>1, StageOrder, CompleteIs DEF Scripted, Skips
<1>7. PipelineTypeOK'
  BY <1>1, <1>2, <1>3, <1>4, Parts DEF PipelineTypeOK, LaterStages, VideoPcs, courseVars, fileVars
<1>8. FilesOK'
  <2>1. CASE pc = "scripts"
    BY <1>1, <1>3, <1>5, <1>6, <2>1, NothingNarrated, Parts DEF FilesOK, courseVars, fileVars
  <2>2. CASE pc # "scripts"
    BY <1>1, <1>3, <1>5, <2>2, FilesMarked
  <2> QED
    BY <2>1, <2>2
<1>9. ReadyOK'
  BY <1>1, <1>2, <1>5, Parts DEF ReadyOK, SlidesFailed, courseVars
<1>10. RowOK'
  BY <1>1, <1>2, <1>3, <1>5, StageRow, Parts DEF RowOK, Claimed, SlidesFailed, EndPcs, LaterStages
<1>11. StageOK'
  <2>1. pc # "scripts" => (Scripted' <=> Scripted)
    BY <1>1, <1>5 DEF Scripted, courseVars
  <2> QED
    BY ZenonT(60), <1>1, <1>2, <1>3, <1>4, <1>5, <2>1, Parts DEF StageOK, LaterStages, CheckPcs
<1>12. WaveOK' /\ VideoOK'
  BY <1>1, StageFrame
<1> QED
  BY <1>7, <1>8, <1>9, <1>10, <1>11, <1>12, Whole

\* A video is rendered from decks and audio that are current.
LEMMA RenderFresh ==
    ASSUME PipelineInv, NEW m \in Modules, Render(m), CanRender(m),
           ~external => html[m] = "fresh"
    PROVE  mp4' \in [Modules -> File] /\ mp4'[m] = "fresh"
           /\ \A n \in Modules \ {m} : mp4'[n] = mp4[n]
<1>1. external \/ (html[m] = "fresh" /\ wav[m] = "fresh")
  BY Parts DEF FilesOK, CanRender
<1>2. mp4' = [mp4 EXCEPT ![m] = "fresh"]
  BY <1>1 DEF Render
<1> QED
  BY <1>2, Parts DEF PipelineTypeOK, File

LEMMA MakeFileStep ==
    ASSUME PipelineInv, NEW m \in Modules, MakeFile(m)
    PROVE  PipelineInv'
<1>1. /\ pc \in LaterStages /\ run.phase = "inside"
      /\ run' = [run EXCEPT !.rendered = @ \cup {m}]
      /\ UNCHANGED <<external, courseVars, rowVars, pc, mode, module, wave, faults>>
      /\ \/ pc = "html" /\ Compile(m) /\ UNCHANGED <<wav, mp4>>
         \/ pc = "tts" /\ Narrate(m) /\ UNCHANGED <<html, mp4>>
         \/ pc = "video" /\ CanRender(m) /\ Render(m) /\ UNCHANGED <<html, wav>>
  BY DEF MakeFile, InStage
<1>2. /\ run' \in RunRecord /\ run'.phase = "inside" /\ run'.todo = run.todo
      /\ run'.rendered = run.rendered \cup {m}
  BY <1>1, Parts DEF PipelineTypeOK
<1>3. pc = "video" /\ ~external => html[m] = "fresh"
  BY Parts DEF StageOK, Scripted, FilesOK
<1>4. /\ html' \in [Modules -> File] /\ wav' \in [Modules -> File] /\ mp4' \in [Modules -> File]
      /\ \A n \in Modules : /\ html'[n] = html[n] \/ html'[n] = "fresh"
                            /\ wav'[n] = wav[n] \/ wav'[n] = "fresh"
                            /\ mp4'[n] = mp4[n] \/ mp4'[n] = "fresh"
      /\ (pc = "html" => html'[m] = "fresh") /\ (pc = "tts" => wav'[m] = "fresh")
      /\ (pc = "video" => mp4'[m] = "fresh")
  <2>1. CASE pc = "html" /\ Compile(m) /\ UNCHANGED <<wav, mp4>>
    BY <2>1, Parts DEF Compile, PipelineTypeOK, File
  <2>2. CASE pc = "tts" /\ Narrate(m) /\ UNCHANGED <<html, mp4>>
    BY <2>2, Parts DEF Narrate, PipelineTypeOK, File
  <2>3. CASE pc = "video" /\ CanRender(m) /\ Render(m) /\ UNCHANGED <<html, wav>>
    BY <1>3, <2>3, RenderFresh, Parts DEF PipelineTypeOK
  <2> QED
    BY <1>1, <2>1, <2>2, <2>3
<1>5. PipelineTypeOK'
  BY <1>1, <1>2, <1>4, Parts DEF PipelineTypeOK, LaterStages, VideoPcs, courseVars, rowVars
<1>6. FilesOK'
  BY <1>1, <1>4, Parts DEF FilesOK, Scripted, PipelineTypeOK, courseVars, rowVars
<1>7. ReadyOK'
  BY <1>1, Parts DEF ReadyOK, SlidesFailed, courseVars, rowVars
<1>8. RowOK'
  BY <1>1, Parts DEF RowOK, Claimed, SlidesFailed, rowVars, LaterStages
<1>9. StageOK'
  <2>1. (Scripted' <=> Scripted) /\ stages' = stages /\ row' = row /\ external' = external /\ pc' = pc
    BY <1>1 DEF Scripted, courseVars, rowVars
  <2>2. run.rendered \subseteq Modules
    BY Parts DEF PipelineTypeOK
  <2>3. /\ (pc = "html" => \A n \in run'.rendered : html'[n] = "fresh")
        /\ (pc = "tts" => \A n \in run'.rendered : wav'[n] = "fresh")
        /\ (pc = "video" => \A n \in run'.rendered : mp4'[n] = "fresh")
    <3>1. /\ (pc = "html" => \A n \in run.rendered : html[n] = "fresh")
          /\ (pc = "tts" => \A n \in run.rendered : wav[n] = "fresh")
          /\ (pc = "video" => \A n \in run.rendered : mp4[n] = "fresh")
      BY <1>1, Parts DEF StageOK
    <3> QED
      BY <1>2, <1>4, <2>2, <3>1
  <2>4. run'.todo = run.todo /\ run'.phase = "inside" /\ run.phase = "inside"
    BY <1>1, <1>2
  <2> HIDE <1>1, <1>2
  <2> QED
    BY <2>1, <2>3, <2>4, Parts DEF StageOK
<1>10. WaveOK' /\ VideoOK'
  BY <1>1, StageFrame
<1> QED
  BY <1>5, <1>6, <1>7, <1>8, <1>9, <1>10, Whole

LEMMA SaveServiceStep ==
    ASSUME PipelineInv, NEW m \in Modules, SaveServiceVideo(m)
    PROVE  PipelineInv'
<1>1. /\ pc = "video" /\ run.phase = "inside" /\ external /\ m \in run.rendered
      /\ videoPath' = videoPath \cup {m}
      /\ UNCHANGED <<external, course, outputs, audioPath, fileVars, rowVars, pc, mode, module, wave, run, faults>>
  BY DEF SaveServiceVideo
<1>2. PipelineTypeOK'
  BY <1>1, Parts DEF PipelineTypeOK, fileVars, rowVars
<1>3. FilesOK'
  <2>1. mp4[m] = "fresh"
    BY <1>1, Parts DEF StageOK
  <2> QED
    BY <1>1, <2>1, Parts DEF FilesOK, fileVars
<1>4. ReadyOK'
  BY <1>1, Parts DEF ReadyOK, SlidesFailed, rowVars
<1>5. RowOK'
  BY <1>1, Parts DEF RowOK, Claimed, SlidesFailed, rowVars
<1>6. StageOK'
  BY <1>1, Parts DEF StageOK, Scripted, fileVars, rowVars
<1>7. WaveOK' /\ VideoOK'
  BY <1>1, StageFrame DEF LaterStages
<1> QED
  BY <1>2, <1>3, <1>4, <1>5, <1>6, <1>7, Whole

LEMMA SaveStageStep ==
    ASSUME PipelineInv, SaveStage
    PROVE  PipelineInv'
<1>1. /\ pc \in LaterStages /\ run.phase = "inside" /\ run.rendered = run.todo
      /\ run' = [NoRun EXCEPT !.phase = "done"]
      /\ UNCHANGED <<external, rowVars, pc, mode, module, wave, faults>>
      /\ \/ pc = "html" /\ UNCHANGED <<courseVars, fileVars>>
         \/ /\ pc = "scripts" /\ "slides" \in outputs
            /\ outputs' = outputs \cup {"scripts"}
            /\ wav' = Spoil(wav) /\ mp4' = Spoil(mp4)
            /\ UNCHANGED <<course, audioPath, videoPath, html>>
         \/ /\ pc = "tts" /\ audioPath' = Modules
            /\ UNCHANGED <<course, outputs, videoPath, fileVars>>
         \/ /\ pc = "video"
            /\ videoPath' = videoPath \/ (~external /\ videoPath' = videoPath \cup run.todo)
            /\ UNCHANGED <<course, outputs, audioPath, fileVars>>
         \/ /\ pc = "publish" /\ Missing = {} /\ course' = "ready"
            /\ UNCHANGED <<outputs, audioPath, videoPath, fileVars>>
  BY DEF SaveStage, InStage
<1>2. run' \in RunRecord /\ run'.phase = "done"
  BY <1>1 DEF NoRun
<1>3. run.todo \subseteq Modules
  BY Parts DEF PipelineTypeOK
<1>4. stages[pc] = "running" /\ row.failed # pc
  BY <1>1, Parts DEF StageOK
<1>5. /\ FilesOK' /\ ReadyOK' /\ outputs \subseteq outputs' /\ outputs' \subseteq Outputs
      /\ course' \in {"draft", "ready"} /\ audioPath' \subseteq Modules /\ videoPath' \subseteq Modules
      /\ html' = html /\ wav' \in [Modules -> File] /\ mp4' \in [Modules -> File]
      /\ pc = "scripts" => {"slides", "scripts"} \subseteq outputs'
  <2>1. CASE pc = "html" /\ UNCHANGED <<courseVars, fileVars>>
    <3>1. FilesOK'
      BY <1>1, <2>1, Parts, FilesStand DEF rowVars
    <3>2. ReadyOK'
      BY <1>1, <2>1, Parts DEF ReadyOK, SlidesFailed, courseVars, rowVars
    <3> QED
      BY <2>1, <3>1, <3>2, Parts DEF PipelineTypeOK, courseVars, fileVars
  <2>2. CASE /\ pc = "scripts" /\ "slides" \in outputs
             /\ outputs' = outputs \cup {"scripts"}
             /\ wav' = Spoil(wav) /\ mp4' = Spoil(mp4)
             /\ UNCHANGED <<course, audioPath, videoPath, html>>
    <3>1. ~external /\ ~Scripted
      BY <1>1, <1>4, <2>2, StageOrder DEF Scripted
    <3>2. audioPath = {} /\ videoPath = {} /\ course = "draft"
      BY <3>1, NothingNarrated
    <3>3. FilesOK'
      BY <1>1, <2>2, <3>2, Parts DEF FilesOK, rowVars
    <3>4. ReadyOK'
      BY <2>2, <3>2 DEF ReadyOK
    <3> QED
      BY <2>2, <3>3, <3>4, SpoilType, Parts DEF PipelineTypeOK, Outputs
  <2>3. CASE pc = "tts" /\ audioPath' = Modules /\ UNCHANGED <<course, outputs, videoPath, fileVars>>
    <3>1. \A m \in Modules : wav[m] = "fresh"
      BY <1>1, <2>3, Parts DEF StageOK
    <3>2. ~external /\ Scripted
      BY <1>1, <2>3, StageOrder, Parts DEF StageOK
    <3>3. FilesOK'
      BY <1>1, <2>3, <3>1, <3>2, Parts DEF FilesOK, Scripted, rowVars, fileVars
    <3>4. ReadyOK'
      BY <1>1, <2>3, Parts DEF ReadyOK, SlidesFailed, rowVars
    <3> QED
      BY <2>3, <3>3, <3>4, Parts DEF PipelineTypeOK, fileVars
  <2>4. CASE /\ pc = "video"
             /\ videoPath' = videoPath \/ (~external /\ videoPath' = videoPath \cup run.todo)
             /\ UNCHANGED <<course, outputs, audioPath, fileVars>>
    <3>1. \A m \in run.todo : mp4[m] = "fresh"
      BY <1>1, <2>4, Parts DEF StageOK
    <3>2. ~external => Scripted
      BY <2>4, Parts DEF StageOK
    <3>3. FilesOK'
      BY <1>1, <2>4, <3>1, <3>2, Parts DEF FilesOK, Scripted, rowVars, fileVars
    <3>4. ReadyOK'
      BY <1>1, <1>3, <2>4, Parts DEF ReadyOK, SlidesFailed, rowVars
    <3> QED
      BY <1>3, <2>4, <3>3, <3>4, Parts DEF PipelineTypeOK, fileVars
  <2>5. CASE /\ pc = "publish" /\ Missing = {} /\ course' = "ready"
             /\ UNCHANGED <<outputs, audioPath, videoPath, fileVars>>
    <3>1. videoPath = Modules /\ (~external => audioPath = Modules)
      BY <2>5, NothingMissing, Parts DEF PipelineTypeOK
    <3>2. FilesOK'
      BY <1>1, <2>5, Parts DEF FilesOK, Scripted, rowVars, fileVars
    <3>3. ReadyOK'
      BY <1>1, <2>5, <3>1, StageRow DEF ReadyOK, SlidesFailed, rowVars
    <3> QED
      BY <2>5, <3>2, <3>3, Parts DEF PipelineTypeOK, fileVars
  <2> QED
    BY <1>1, <2>1, <2>2, <2>3, <2>4, <2>5
<1>6. PipelineTypeOK'
  BY <1>1, <1>2, <1>5, Parts DEF PipelineTypeOK, LaterStages, VideoPcs, rowVars
<1>7. RowOK'
  BY <1>1, Parts DEF RowOK, Claimed, SlidesFailed, rowVars, LaterStages
<1>8. StageOK'
  <2>1. Scripted => Scripted'
    BY <1>1, <1>5 DEF Scripted, rowVars
  <2>2. stages' = stages /\ row' = row /\ external' = external /\ pc' = pc
    BY <1>1 DEF rowVars
  <2>3. pc = "html" => \A m \in Modules : html'[m] = "fresh"
    BY <1>1, <1>5, Parts DEF StageOK
  <2>4. /\ pc \in LaterStages \cup {"raised"} /\ run'.phase = "done"
        /\ pc \in LaterStages => stages[pc] = "running" /\ row.failed # pc
        /\ pc = "scripts" => {"slides", "scripts"} \subseteq outputs'
    BY <1>1, <1>2, <1>4, <1>5
  <2> HIDE <1>1, <1>2, <1>4, <1>5
  <2> QED
    BY <2>1, <2>2, <2>3, <2>4, Parts DEF StageOK
<1>9. WaveOK' /\ VideoOK'
  BY <1>1, StageFrame
<1> QED
  BY <1>5, <1>6, <1>7, <1>8, <1>9, Whole

LEMMA LeaveStep ==
    ASSUME PipelineInv, LeaveStage
    PROVE  PipelineInv'
<1>1. /\ pc \in LaterStages /\ run.phase = "done" /\ Mark(pc, "completed")
      /\ row' = [row EXCEPT !.checkpoint = row.failed] /\ pc' = AfterStage(pc) /\ run' = NoRun
      /\ UNCHANGED <<external, courseVars, fileVars, mode, module, wave, faults>>
  BY DEF LeaveStage, InStage
<1>2. /\ row' \in RowRecord /\ row'.status = row.status /\ row'.claimed = row.claimed
      /\ row'.checkpoint = row.failed /\ row'.failed = row.failed
      /\ row'.failedStages = row.failedStages
  BY <1>1, Parts DEF PipelineTypeOK
<1>3. /\ stages' \in [AllStages -> {"none", "running", "completed", "failed"}]
      /\ stages'[pc] = "completed" /\ \A t \in AllStages \ {pc} : stages'[t] = stages[t]
  BY <1>1, StageNames, MarkFacts
<1>4. /\ stages'["slides"] = stages["slides"]
      /\ (pc # "html" => stages'["html"] = stages["html"])
      /\ (pc # "scripts" => stages'["scripts"] = stages["scripts"])
  BY <1>1, <1>3, StageNames
<1>5. pc' \in LaterStages \cup CheckPcs
  BY <1>1, StageOrder
<1>6. row.failed # pc
  BY <1>1, Parts DEF StageOK
<1>7. PipelineTypeOK'
  BY <1>1, <1>2, <1>3, <1>5, NoRunType, Parts
  DEF PipelineTypeOK, LaterStages, CheckPcs, VideoPcs, courseVars, fileVars
<1>8. FilesOK'
  <2>1. pc = "html" => \A m \in Modules : html[m] = "fresh"
    BY <1>1, Parts DEF StageOK
  <2> QED
    BY <1>1, <1>3, <1>4, <2>1, Parts DEF FilesOK, Scripted, courseVars, fileVars
<1>9. ReadyOK'
  BY <1>1, <1>2, <1>4, Parts DEF ReadyOK, SlidesFailed, courseVars
<1>10. RowOK'
  BY <1>1, <1>2, <1>4, <1>5, <1>6, StageRow, Parts DEF RowOK, Claimed, SlidesFailed, LaterStages, CheckPcs
<1>11. StageOK'
  <2>1. ~external => stages'["html"] = "completed"
    BY <1>1, <1>3, <1>4, Parts DEF StageOK, LaterStages
  <2>2. ~external /\ pc # "html" => Scripted'
    BY <1>1, <1>3, <1>4, Parts DEF StageOK, LaterStages, Scripted, courseVars
  <2>3. external => pc' \notin {"html", "scripts", "tts"} \cup (CheckPcs \ {"finish"})
    BY <1>1, StageOrder DEF LaterStages, CheckPcs
  <2>4. pc' \in {"check tts", "reset video", "tts", "video", "publish"} => pc # "html"
    BY <1>1, StageOrder
  <2>5. run'.phase = "before" /\ external' = external
    BY <1>1, NoRunType
  <2> HIDE <1>1
  <2> QED
    BY <2>1, <2>2, <2>3, <2>4, <2>5 DEF StageOK
<1>12. WaveOK' /\ VideoOK'
  BY <1>5, StageFrame
<1> QED
  BY <1>7, <1>8, <1>9, <1>10, <1>11, <1>12, Whole

\* A job that has ended leaves nothing to say of where it stands.
LEMMA EndFrame ==
    ASSUME PipelineInv, pc' \in EndPcs, run'.phase = "before" \/ pc' = "raised"
    PROVE  WaveOK' /\ StageOK' /\ VideoOK'
<1>1. StageOK'
  BY DEF StageOK, EndPcs, LaterStages, CheckPcs
<1> QED
  BY <1>1, StageFrame

LEMMA FailStep ==
    ASSUME PipelineInv, FailStage
    PROVE  PipelineInv'
<1>1. /\ pc \in LaterStages /\ run.phase = "inside" /\ Mark(pc, "failed")
      /\ row' = [row EXCEPT !.status = "failed", !.checkpoint = pc, !.failed = pc]
      /\ pc' = "raised" /\ run' = NoRun
      /\ UNCHANGED <<external, courseVars, fileVars, mode, module, wave>>
  BY DEF FailStage, InStage
<1>2. /\ row' \in RowRecord /\ row'.checkpoint = pc /\ row'.failed = pc
  BY <1>1, Parts DEF PipelineTypeOK, Checkpoints
<1>3. /\ stages' \in [AllStages -> {"none", "running", "completed", "failed"}]
      /\ stages'[pc] = "failed" /\ \A t \in AllStages \ {pc} : stages'[t] = stages[t]
  BY <1>1, StageNames, MarkFacts
<1>4. stages[pc] = "running" /\ stages'["slides"] = stages["slides"]
  BY <1>1, <1>3, StageNames, Parts DEF StageOK
<1>5. PipelineTypeOK'
  BY <1>1, <1>2, <1>3, NoRunType, Parts DEF PipelineTypeOK, EndPcs, VideoPcs, courseVars, fileVars
<1>6. FilesOK'
  <2>1. /\ stages'["html"] = "completed" => stages["html"] = "completed"
        /\ stages["scripts"] = "completed" => stages'["scripts"] = "completed"
    BY <1>3, <1>4, StageNames
  <2> QED
    BY <1>1, <2>1, FilesMarked
<1>7. ReadyOK'
  BY <1>1, <1>2, <1>4, Parts DEF ReadyOK, SlidesFailed, courseVars, LaterStages
<1>8. RowOK'
  BY <1>1, <1>2, <1>3, <1>4, StageRow DEF RowOK, EndPcs, LaterStages, CheckPcs
<1>9. WaveOK' /\ StageOK' /\ VideoOK'
  BY <1>1, EndFrame DEF EndPcs
<1> QED
  BY <1>5, <1>6, <1>7, <1>8, <1>9, Whole

LEMMA CheckScriptsStep ==
    ASSUME PipelineInv, CheckScripts
    PROVE  PipelineInv'
<1>1. /\ pc = "check scripts"
      /\ UNCHANGED <<external, course, outputs, fileVars, rowVars, mode, module, wave, run, faults>>
      /\ \/ pc' = "scripts" /\ UNCHANGED <<audioPath, videoPath>>
         \/ ~Complete("scripts") /\ pc' = "reset tts" /\ audioPath' = {} /\ videoPath' = {}
  BY DEF CheckScripts
<1>2. ~external /\ stages["html"] = "completed" /\ run.phase = "before"
  BY <1>1, Parts DEF StageOK, CheckPcs, LaterStages, PipelineTypeOK
<1>3. UNCHANGED <<audioPath, videoPath>>
  <2>1. ~Complete("scripts") => audioPath = {} /\ videoPath = {}
    BY <1>2, CompleteIs, NothingNarrated DEF Scripted
  <2> QED
    BY <1>1, <2>1
<1>4. PipelineTypeOK'
  BY ZenonT(60), <1>1, <1>3, Parts DEF PipelineTypeOK, LaterStages, CheckPcs, VideoPcs, fileVars, rowVars
<1>5. FilesOK'
  BY <1>1, <1>3, Parts, FilesStand DEF courseVars, rowVars
<1>6. ReadyOK'
  BY <1>1, <1>3, Parts DEF ReadyOK, SlidesFailed, rowVars
<1>7. RowOK'
  BY <1>1, Parts DEF RowOK, Claimed, SlidesFailed, rowVars, LaterStages, CheckPcs, EndPcs
<1>8. StageOK'
  BY <1>1, <1>2 DEF StageOK, rowVars, LaterStages, CheckPcs
<1>9. WaveOK' /\ VideoOK'
  BY <1>1, StageFrame DEF LaterStages, CheckPcs
<1> QED
  BY <1>4, <1>5, <1>6, <1>7, <1>8, <1>9, Whole

LEMMA CheckTtsStep ==
    ASSUME PipelineInv, CheckTts
    PROVE  PipelineInv'
<1>1. /\ pc = "check tts"
      /\ UNCHANGED <<external, course, outputs, audioPath, fileVars, rowVars, mode, module, wave, run, faults>>
      /\ \/ pc' = "tts" /\ UNCHANGED videoPath
         \/ ~Complete("tts") /\ pc' = "reset video" /\ videoPath' = {}
  BY DEF CheckTts
<1>2. ~external /\ stages["html"] = "completed" /\ Scripted /\ run.phase = "before"
  BY <1>1, Parts DEF StageOK, CheckPcs, LaterStages, PipelineTypeOK
<1>3. ~Complete("tts") => course = "draft"
  <2>1. ~Complete("tts") => audioPath # Modules
    BY CompleteIs, Parts DEF FilesOK
  <2> QED
    BY <1>2, <2>1, Parts DEF ReadyOK, PipelineTypeOK
<1>4. PipelineTypeOK'
  BY ZenonT(60), <1>1, Parts DEF PipelineTypeOK, LaterStages, CheckPcs, VideoPcs, fileVars, rowVars
<1>5. FilesOK'
  BY <1>1, Parts DEF FilesOK, Scripted, fileVars, rowVars
<1>6. ReadyOK'
  BY <1>1, <1>3, Parts DEF ReadyOK, SlidesFailed, rowVars
<1>7. RowOK'
  BY <1>1, Parts DEF RowOK, Claimed, SlidesFailed, rowVars, LaterStages, CheckPcs, EndPcs
<1>8. StageOK'
  BY <1>1, <1>2 DEF StageOK, Scripted, rowVars, LaterStages, CheckPcs
<1>9. WaveOK' /\ VideoOK'
  BY <1>1, StageFrame DEF LaterStages, CheckPcs
<1> QED
  BY <1>4, <1>5, <1>6, <1>7, <1>8, <1>9, Whole

LEMMA ResetStaleStep ==
    ASSUME PipelineInv, ResetStale
    PROVE  PipelineInv'
<1>1. /\ UNCHANGED <<external, courseVars, fileVars, row, mode, module, wave, run, faults>>
      /\ \/ pc = "reset tts" /\ ResetCheckpoints({"tts", "video"}) /\ pc' = "scripts"
         \/ pc = "reset video" /\ ResetCheckpoints({"video"}) /\ pc' = "tts"
  BY DEF ResetStale
<1>2. /\ stages' \in [AllStages -> {"none", "running", "completed", "failed"}]
      /\ stages'["html"] = stages["html"] /\ stages'["scripts"] = stages["scripts"]
      /\ stages'["slides"] = stages["slides"]
  <2>1. DOMAIN stages = AllStages /\ {"html", "scripts", "slides"} \subseteq AllStages
    BY StageNames, Parts DEF PipelineTypeOK
  <2>2. PICK which \in {{"tts", "video"}, {"video"}} :
           stages' = [s \in AllStages |-> IF s \in which THEN "none" ELSE stages[s]]
    BY <1>1, <2>1 DEF ResetCheckpoints
  <2>3. \A s \in AllStages : stages'[s] \in {"none", stages[s]}
    BY <2>2
  <2>4. stages' \in [AllStages -> {"none", "running", "completed", "failed"}]
    BY <2>2, <2>3, Parts DEF PipelineTypeOK
  <2> QED
    BY <2>1, <2>2, <2>4
<1>3. /\ pc \in CheckPcs \ {"finish"} /\ ~external /\ stages["html"] = "completed"
      /\ run.phase = "before" /\ (pc = "reset video" => Scripted)
  BY <1>1, Parts DEF StageOK, CheckPcs, LaterStages, PipelineTypeOK
<1>4. PipelineTypeOK'
  BY ZenonT(60), <1>1, <1>2, Parts DEF PipelineTypeOK, LaterStages, VideoPcs, courseVars, fileVars
<1>5. FilesOK'
  BY <1>1, <1>2, FilesMarked
<1>6. ReadyOK'
  BY <1>1, <1>2, Parts DEF ReadyOK, SlidesFailed, courseVars
<1>7. RowOK'
  BY <1>1, <1>2, <1>3, StageRow, Parts DEF RowOK, Claimed, SlidesFailed, LaterStages, CheckPcs
<1>8. StageOK'
  BY <1>1, <1>2, <1>3 DEF StageOK, Scripted, courseVars, LaterStages, CheckPcs
<1>9. WaveOK' /\ VideoOK'
  BY <1>1, StageFrame DEF LaterStages
<1> QED
  BY <1>4, <1>5, <1>6, <1>7, <1>8, <1>9, Whole

LEMMA FinishStep ==
    ASSUME PipelineInv, Finish
    PROVE  PipelineInv'
<1>1. /\ pc = "finish" /\ pc' = "exited"
      /\ row' = [row EXCEPT !.status = "completed", !.checkpoint = "none", !.failed = "none",
                            !.failedStages = {}]
      /\ UNCHANGED <<external, courseVars, fileVars, stages, mode, module, wave, run, faults>>
  BY DEF Finish
<1>2. row' \in RowRecord /\ row'.checkpoint = "none" /\ row'.failed = "none"
  BY <1>1, Parts DEF PipelineTypeOK, Checkpoints
<1>3. PipelineTypeOK'
  BY <1>1, <1>2, Parts DEF PipelineTypeOK, EndPcs, VideoPcs, courseVars, fileVars
<1>4. FilesOK'
  BY <1>1, Parts, FilesStand
<1>5. ReadyOK'
  BY <1>1, <1>2, Parts DEF ReadyOK, SlidesFailed, courseVars
<1>6. RowOK'
  BY <1>1, <1>2, StageRow DEF RowOK, EndPcs, LaterStages, CheckPcs
<1>7. WaveOK' /\ StageOK' /\ VideoOK'
  <2>1. run'.phase = "before"
    BY <1>1, Parts DEF StageOK, LaterStages
  <2> QED
    BY <1>1, <2>1, EndFrame DEF EndPcs
<1> QED
  BY <1>3, <1>4, <1>5, <1>6, <1>7, Whole

-----------------------------------------------------------------------------
(* A single module's video.                                                *)

\* What the steps of such a job have in common.
LEMMA VideoFrame ==
    ASSUME PipelineInv, pc \in VideoPcs, pc' \in VideoPcs \cup EndPcs, UNCHANGED <<external, rowVars, run>>
    PROVE  /\ module \in Modules /\ (~external => Scripted)
           /\ WaveOK' /\ RowOK' /\ StageOK'
<1>1. module \in Modules /\ (~external => Scripted)
  BY Parts DEF PipelineTypeOK, VideoOK
<1>2. WaveOK'
  BY DEF WaveOK, VideoPcs, EndPcs, WavePcs
<1>3. stages["slides"] # "running" /\ Claimed
  BY Parts DEF RowOK, VideoPcs, EndPcs
<1>4. RowOK'
  BY <1>3, Parts DEF RowOK, Claimed, SlidesFailed, rowVars, VideoPcs, EndPcs, LaterStages, CheckPcs
<1>5. run.phase = "before"
  BY Parts DEF StageOK, VideoPcs, LaterStages
<1>6. StageOK'
  BY <1>5 DEF StageOK, VideoPcs, EndPcs, LaterStages, CheckPcs
<1> QED
  BY <1>1, <1>2, <1>4, <1>6

LEMMA NarrateStep ==
    ASSUME PipelineInv, NarrateModule
    PROVE  PipelineInv'
<1>1. /\ pc = "narrate" /\ pc' = "save audio" /\ wav' = [wav EXCEPT ![module] = "fresh"]
      /\ UNCHANGED <<external, courseVars, html, mp4, rowVars, mode, module, wave, run, faults>>
  BY DEF NarrateModule, Narrate
<1>2. module \in Modules /\ (~external => Scripted) /\ WaveOK' /\ RowOK' /\ StageOK'
  BY <1>1, VideoFrame DEF VideoPcs
<1>3. /\ wav' \in [Modules -> File] /\ wav'[module] = "fresh"
      /\ \A m \in Modules : wav'[m] \in {wav[m], "fresh"}
  BY ZenonT(60), <1>1, <1>2, Parts DEF PipelineTypeOK, File
<1>4. PipelineTypeOK'
  BY <1>1, <1>2, <1>3, Parts DEF PipelineTypeOK, VideoPcs, courseVars, rowVars
<1>5. FilesOK'
  BY ZenonT(60), <1>1, <1>3, Parts DEF FilesOK, Scripted, PipelineTypeOK, courseVars, rowVars
<1>6. ReadyOK'
  BY <1>1, Parts DEF ReadyOK, SlidesFailed, courseVars, rowVars
<1>7. VideoOK'
  <2>1. ~external
    BY <1>1, Parts DEF VideoOK
  <2> QED
    BY <1>1, <1>2, <1>3, <2>1 DEF VideoOK, Scripted, courseVars, rowVars
<1> QED
  BY <1>2, <1>4, <1>5, <1>6, <1>7, Whole

LEMMA SaveAudioStep ==
    ASSUME PipelineInv, SaveModuleAudio
    PROVE  PipelineInv'
<1>1. /\ pc = "save audio" /\ pc' = "compile" /\ audioPath' = audioPath \cup {module}
      /\ UNCHANGED <<external, course, outputs, videoPath, fileVars, rowVars, mode, module, wave, run, faults>>
  BY DEF SaveModuleAudio
<1>2. module \in Modules /\ (~external => Scripted) /\ WaveOK' /\ RowOK' /\ StageOK'
  BY <1>1, VideoFrame DEF VideoPcs
<1>3. ~external /\ wav[module] = "fresh"
  BY <1>1, Parts DEF VideoOK
<1>4. PipelineTypeOK'
  BY <1>1, <1>2, Parts DEF PipelineTypeOK, VideoPcs, fileVars, rowVars
<1>5. FilesOK'
  BY <1>1, <1>2, <1>3, Parts DEF FilesOK, Scripted, fileVars, rowVars
<1>6. ReadyOK'
  BY <1>1, <1>2, Parts DEF ReadyOK, SlidesFailed, rowVars
<1>7. VideoOK'
  BY <1>1, <1>2, <1>3 DEF VideoOK, Scripted, rowVars
<1> QED
  BY <1>2, <1>4, <1>5, <1>6, <1>7, Whole

LEMMA CompileStep ==
    ASSUME PipelineInv, CompileDecks
    PROVE  PipelineInv'
<1>1. /\ pc = "compile"
      /\ UNCHANGED <<external, courseVars, wav, mp4, rowVars, mode, module, wave, run, faults>>
      /\ \/ pc' = "compile" /\ \E m \in Modules : html' = [html EXCEPT ![m] = "fresh"]
         \/ (\A m \in Modules : html[m] = "fresh") /\ pc' = "render" /\ html' = html
  BY DEF CompileDecks, Compile
<1>2. module \in Modules /\ (~external => Scripted) /\ WaveOK' /\ RowOK' /\ StageOK'
  BY <1>1, VideoFrame DEF VideoPcs
<1>3. /\ html' \in [Modules -> File] /\ \A m \in Modules : html'[m] \in {html[m], "fresh"}
  BY <1>1, Parts DEF PipelineTypeOK, File
<1>4. PipelineTypeOK'
  BY ZenonT(60), <1>1, <1>2, <1>3, Parts DEF PipelineTypeOK, VideoPcs, courseVars, rowVars
<1>5. FilesOK'
  BY <1>1, <1>3, Parts DEF FilesOK, Scripted, courseVars, rowVars
<1>6. ReadyOK'
  BY <1>1, Parts DEF ReadyOK, SlidesFailed, courseVars, rowVars
<1>7. VideoOK'
  <2>1. ~external
    BY <1>1, Parts DEF VideoOK
  <2> QED
    BY <1>1, <1>2, <2>1 DEF VideoOK, Scripted, courseVars, rowVars
<1> QED
  BY <1>2, <1>4, <1>5, <1>6, <1>7, Whole

LEMMA RenderStep ==
    ASSUME PipelineInv, RenderModule
    PROVE  PipelineInv'
<1>1. /\ pc = "render" /\ pc' = "save video" /\ CanRender(module) /\ Render(module)
      /\ UNCHANGED <<external, courseVars, html, wav, rowVars, mode, module, wave, run, faults>>
  BY DEF RenderModule
<1>2. module \in Modules /\ (~external => Scripted) /\ WaveOK' /\ RowOK' /\ StageOK'
  BY <1>1, VideoFrame DEF VideoPcs
<1>3. ~external => html[module] = "fresh"
  BY <1>1, <1>2, Parts DEF VideoOK
<1>4. /\ mp4' \in [Modules -> File] /\ mp4'[module] = "fresh"
      /\ \A m \in Modules : mp4'[m] \in {mp4[m], "fresh"}
  BY <1>1, <1>2, <1>3, RenderFresh
<1>5. PipelineTypeOK'
  BY <1>1, <1>2, <1>4, Parts DEF PipelineTypeOK, VideoPcs, courseVars, rowVars
<1>6. FilesOK'
  <2>1. \A m \in videoPath : mp4'[m] = "fresh"
    BY <1>4, Parts DEF FilesOK, PipelineTypeOK
  <2>2. /\ UNCHANGED <<external, outputs, audioPath, videoPath, html, wav, stages>>
        /\ (Scripted' <=> Scripted)
    BY <1>1 DEF Scripted, courseVars, rowVars
  <2> QED
    BY <2>1, <2>2, Parts DEF FilesOK
<1>7. ReadyOK'
  BY <1>1, Parts DEF ReadyOK, SlidesFailed, courseVars, rowVars
<1>8. VideoOK'
  BY <1>1, <1>2, <1>4 DEF VideoOK, Scripted, courseVars, rowVars
<1> QED
  BY <1>2, <1>5, <1>6, <1>7, <1>8, Whole

LEMMA SaveVideoStep ==
    ASSUME PipelineInv, SaveModuleVideo
    PROVE  PipelineInv'
<1>1. /\ pc = "save video" /\ pc' = "exited" /\ videoPath' = videoPath \cup {module}
      /\ UNCHANGED <<external, course, outputs, audioPath, fileVars, rowVars, mode, module, wave, run, faults>>
  BY DEF SaveModuleVideo
<1>2. module \in Modules /\ (~external => Scripted) /\ WaveOK' /\ RowOK' /\ StageOK'
  BY <1>1, VideoFrame DEF VideoPcs, EndPcs
<1>3. mp4[module] = "fresh"
  BY <1>1, Parts DEF VideoOK
<1>4. PipelineTypeOK'
  BY <1>1, <1>2, Parts DEF PipelineTypeOK, EndPcs, VideoPcs, fileVars, rowVars
<1>5. FilesOK'
  BY <1>1, <1>2, <1>3, Parts DEF FilesOK, Scripted, fileVars, rowVars
<1>6. ReadyOK'
  BY <1>1, <1>2, Parts DEF ReadyOK, SlidesFailed, rowVars
<1>7. VideoOK'
  BY <1>1, StageFrame DEF EndPcs
<1> QED
  BY <1>2, <1>4, <1>5, <1>6, <1>7, Whole

LEMMA FailVideoStep ==
    ASSUME PipelineInv, FailModuleVideo
    PROVE  PipelineInv'
<1>1. /\ pc \in VideoPcs /\ pc' = "raised"
      /\ UNCHANGED <<external, courseVars, fileVars, rowVars, mode, module, wave, run>>
  BY DEF FailModuleVideo, VideoPcs
<1>2. WaveOK' /\ RowOK' /\ StageOK'
  BY <1>1, VideoFrame DEF EndPcs
<1>3. PipelineTypeOK'
  BY <1>1, Parts DEF PipelineTypeOK, EndPcs, VideoPcs, courseVars, fileVars, rowVars
<1>4. FilesOK'
  BY <1>1, Parts, FilesStand DEF rowVars
<1>5. ReadyOK'
  BY <1>1, Parts DEF ReadyOK, SlidesFailed, courseVars, rowVars
<1>6. VideoOK'
  BY <1>1, StageFrame DEF EndPcs
<1> QED
  BY <1>2, <1>3, <1>4, <1>5, <1>6, Whole

-----------------------------------------------------------------------------
(* The end of a job.                                                       *)

\* The row and the stages that a failure leaves, claimed or not.
LEMMA FailedFacts ==
    ASSUME PipelineInv, stages' = FailedStages, NEW claimed \in BOOLEAN,
           row' = [FailedRow EXCEPT !.claimed = claimed],
           UNCHANGED <<external, courseVars, fileVars>>
    PROVE  /\ row' \in RowRecord
           /\ stages' \in [AllStages -> {"none", "running", "completed", "failed"}]
           /\ FilesOK' /\ ReadyOK'
           /\ row'.checkpoint = "scripts" \/ row'.failed = "scripts" => stages'["scripts"] # "completed"
           /\ stages'["slides"] # "running"
<1>1. FailedCheckpoint \in Checkpoints /\ DOMAIN stages = AllStages
  BY Parts DEF FailedCheckpoint, Checkpoints, PipelineTypeOK
<1>2. /\ row' \in RowRecord /\ row'.checkpoint = FailedCheckpoint /\ row'.failed = FailedCheckpoint
      /\ row'.failedStages = IF FailedCheckpoint = "wave_1" THEN FailedStagesOf("wave_1") ELSE {}
  BY <1>1, Parts DEF FailedRow, FailedStagesOf, PipelineTypeOK
<1>3. /\ stages' \in [AllStages -> {"none", "running", "completed", "failed"}]
      /\ \A s \in AllStages : stages'[s] = IF s \in FailedStagesOf(FailedCheckpoint) THEN "failed" ELSE stages[s]
  BY <1>1, Parts DEF FailedStages, PipelineTypeOK
<1>4. /\ row.checkpoint = "wave_1" => FailedStagesOf(FailedCheckpoint) = {s \in AllStages : stages[s] = "running"}
      /\ row.checkpoint # "wave_1" => FailedStagesOf(FailedCheckpoint) = {FailedCheckpoint}
  BY <1>1 DEF FailedStagesOf, FailedCheckpoint
<1>5. stages'["slides"] # "running"
  <2>1. stages["slides"] = "running" => row.checkpoint = "wave_1"
    BY Parts DEF RowOK
  <2> QED
    BY <1>3, <1>4, <2>1, StageNames
<1>6. stages["scripts"] = "completed" => stages'["scripts"] = "completed"
  <2>1. SUFFICES ASSUME stages["scripts"] = "completed"
                 PROVE  "scripts" \notin FailedStagesOf(FailedCheckpoint)
    BY <1>3, StageNames
  <2>2. row.checkpoint # "scripts" /\ FailedCheckpoint # "scripts"
    BY <2>1, Parts DEF RowOK, FailedCheckpoint
  <2> QED
    BY <1>4, <2>1, <2>2
<1>7. FilesOK'
  BY <1>3, <1>6, StageNames, FilesMarked
<1>8. ReadyOK'
  <2>1. SlidesFailed' => stages["slides"] = "running"
    BY <1>1, <1>2 DEF SlidesFailed, FailedStagesOf
  <2> QED
    BY <1>5, <2>1, Parts DEF ReadyOK, courseVars
<1>9. FailedCheckpoint = "scripts" => stages'["scripts"] # "completed"
  BY <1>3, <1>4, StageNames DEF FailedCheckpoint
<1> QED
  BY <1>2, <1>3, <1>5, <1>7, <1>8, <1>9

\* Nobody works at a row that no job holds.
LEMMA EndRow ==
    ASSUME pc' \in EndPcs, stages'["slides"] # "running",
           row'.checkpoint = "scripts" \/ row'.failed = "scripts" => stages'["scripts"] # "completed"
    PROVE  RowOK'
  BY DEF RowOK, EndPcs, LaterStages, CheckPcs

LEMMA JobEndsStep ==
    ASSUME PipelineInv, JobEnds
    PROVE  PipelineInv'
<1>1. /\ pc \in {"exited", "raised"} /\ pc' = "idle" /\ wave' = NoWave /\ run' = NoRun
      /\ mode' = "none" /\ UNCHANGED <<external, courseVars, fileVars, faults>>
      /\ \/ ~row.claimed /\ UNCHANGED rowVars
         \/ row.claimed /\ row' = FailedRow /\ stages' = FailedStages
         \/ pc = "exited" /\ row' = [row EXCEPT !.status = "completed"] /\ UNCHANGED stages
  BY DEF JobEnds
<1>2. /\ row' \in RowRecord
      /\ stages' \in [AllStages -> {"none", "running", "completed", "failed"}]
      /\ FilesOK' /\ ReadyOK'
      /\ row'.checkpoint = "scripts" \/ row'.failed = "scripts" => stages'["scripts"] # "completed"
      /\ stages'["slides"] # "running"
  <2>1. CASE ~row.claimed /\ UNCHANGED rowVars
    <3>1. FilesOK'
      BY <1>1, <2>1, Parts, FilesStand DEF rowVars
    <3>2. ReadyOK'
      BY <1>1, <2>1, Parts DEF ReadyOK, SlidesFailed, courseVars, rowVars
    <3> QED
      BY <2>1, <3>1, <3>2, Parts DEF PipelineTypeOK, RowOK, rowVars
  <2>2. CASE row.claimed /\ row' = FailedRow /\ stages' = FailedStages
    <3>1. FailedRow = [FailedRow EXCEPT !.claimed = TRUE]
      BY <2>2, Parts DEF FailedRow, PipelineTypeOK
    <3> QED
      BY <1>1, <2>2, <3>1, FailedFacts
  <2>3. CASE pc = "exited" /\ row' = [row EXCEPT !.status = "completed"] /\ UNCHANGED stages
    <3>1. /\ row' \in RowRecord /\ row'.checkpoint = row.checkpoint /\ row'.failed = row.failed
          /\ row'.failedStages = row.failedStages
      BY <2>3, Parts DEF PipelineTypeOK
    <3>2. FilesOK'
      BY <1>1, <2>3, Parts, FilesStand
    <3>3. ReadyOK'
      BY <1>1, <2>3, <3>1, Parts DEF ReadyOK, SlidesFailed, courseVars
    <3> QED
      BY <2>3, <3>1, <3>2, <3>3, Parts DEF PipelineTypeOK, RowOK
  <2> QED
    BY <1>1, <2>1, <2>2, <2>3
<1>3. PipelineTypeOK'
  BY <1>1, <1>2, NoWaveType, NoRunType, Parts DEF PipelineTypeOK, EndPcs, VideoPcs, courseVars, fileVars
<1>4. RowOK'
  BY <1>1, <1>2, EndRow DEF EndPcs
<1>5. WaveOK' /\ StageOK' /\ VideoOK'
  BY <1>1, NoRunType, EndFrame DEF EndPcs
<1> QED
  BY <1>2, <1>3, <1>4, <1>5, Whole

LEMMA DiesStep ==
    ASSUME PipelineInv, ProcessDies
    PROVE  PipelineInv'
<1>1. /\ pc \notin {"idle", "queued", "exited", "raised"} /\ pc' = "raised"
      /\ UNCHANGED <<external, courseVars, fileVars, rowVars, mode, module, wave, run>>
  BY DEF ProcessDies
<1>2. PipelineTypeOK'
  BY <1>1, Parts DEF PipelineTypeOK, EndPcs, VideoPcs, courseVars, fileVars, rowVars
<1>3. FilesOK'
  BY <1>1, Parts, FilesStand DEF rowVars
<1>4. ReadyOK'
  BY <1>1, Parts DEF ReadyOK, SlidesFailed, courseVars, rowVars
<1>5. RowOK'
  BY <1>1, Parts DEF RowOK, EndPcs, LaterStages, CheckPcs, rowVars
<1>6. WaveOK' /\ StageOK' /\ VideoOK'
  BY <1>1, EndFrame DEF EndPcs
<1> QED
  BY <1>2, <1>3, <1>4, <1>5, <1>6, Whole

LEMMA RestartsStep ==
    ASSUME PipelineInv, ApiRestarts
    PROVE  PipelineInv'
<1> DEFINE unfinished == \/ row.status \in {"pending", "running"}
                         \/ row.status = "failed" /\ \E s \in DOMAIN stages : stages[s] = "running"
<1>1. /\ pc' = "idle" /\ wave' = NoWave /\ run' = NoRun /\ mode' = "none"
      /\ UNCHANGED <<external, courseVars, fileVars>>
      /\ \/ stages' = FailedStages /\ row' = [FailedRow EXCEPT !.claimed = FALSE]
         \/ ~unfinished /\ UNCHANGED rowVars
  BY DEF ApiRestarts
<1>2. /\ row' \in RowRecord
      /\ stages' \in [AllStages -> {"none", "running", "completed", "failed"}]
      /\ FilesOK' /\ ReadyOK'
      /\ row'.checkpoint = "scripts" \/ row'.failed = "scripts" => stages'["scripts"] # "completed"
      /\ stages'["slides"] # "running"
  <2>1. CASE stages' = FailedStages /\ row' = [FailedRow EXCEPT !.claimed = FALSE]
    BY <1>1, <2>1, FailedFacts
  <2>2. CASE ~unfinished /\ UNCHANGED rowVars
    <3>1. FilesOK'
      BY <1>1, <2>2, Parts, FilesStand DEF rowVars
    <3>2. ReadyOK'
      BY <1>1, <2>2, Parts DEF ReadyOK, SlidesFailed, courseVars, rowVars
    <3>3. stages["slides"] # "running"
      <4>1. "slides" \in DOMAIN stages /\ row.status \in {"pending", "running", "completed", "failed"}
        BY StageNames, Parts DEF PipelineTypeOK
      <4>2. stages["slides"] = "running" => row.status # "completed"
        BY Parts DEF RowOK
      <4> QED
        BY <2>2, <4>1, <4>2
    <3> QED
      BY <2>2, <3>1, <3>2, <3>3, Parts DEF PipelineTypeOK, RowOK, rowVars
  <2> QED
    BY <1>1, <2>1, <2>2
<1>3. PipelineTypeOK'
  BY <1>1, <1>2, NoWaveType, NoRunType, Parts DEF PipelineTypeOK, EndPcs, VideoPcs, courseVars, fileVars
<1>4. RowOK'
  BY <1>1, <1>2, EndRow DEF EndPcs
<1>5. WaveOK' /\ StageOK' /\ VideoOK'
  BY <1>1, NoRunType, EndFrame DEF EndPcs
<1> QED
  BY <1>2, <1>3, <1>4, <1>5, Whole

-----------------------------------------------------------------------------
LEMMA InvInit ==
    Init => PipelineInv
<1> SUFFICES ASSUME Init PROVE PipelineInv
  OBVIOUS
<1>1. /\ external \in BOOLEAN /\ course = "draft" /\ outputs = {} /\ audioPath = {} /\ videoPath = {}
      /\ html = [m \in Modules |-> "none"] /\ wav = html /\ mp4 = html
      /\ row = [status |-> "pending", claimed |-> FALSE, checkpoint |-> "none",
                failed |-> "none", failedStages |-> {}]
      /\ stages = [s \in AllStages |-> "none"]
      /\ pc = "idle" /\ wave = NoWave /\ run = NoRun
  BY DEF Init, AllStages
<1>2. row \in RowRecord /\ row.checkpoint = "none" /\ row.failed = "none"
  BY <1>1 DEF Checkpoints
<1>3. PipelineTypeOK
  BY <1>1, <1>2, NoWaveType, NoRunType DEF PipelineTypeOK, EndPcs, VideoPcs, File
<1>4. FilesOK /\ ReadyOK
  BY <1>1 DEF FilesOK, ReadyOK
<1>5. RowOK
  <2>1. stages["slides"] # "running"
    BY <1>1, StageNames
  <2> QED
    BY <1>1, <1>2, <2>1 DEF RowOK, EndPcs, LaterStages, CheckPcs
<1>6. WaveOK /\ VideoOK
  BY <1>1 DEF WaveOK, VideoOK, WavePcs, VideoPcs
<1>7. StageOK
  BY <1>1, NoRunType DEF StageOK, LaterStages, CheckPcs
<1> QED
  BY <1>3, <1>4, <1>5, <1>6, <1>7 DEF PipelineInv

LEMMA InvStutter ==
    ASSUME PipelineInv, UNCHANGED vars
    PROVE  PipelineInv'
<1>1. UNCHANGED <<external, courseVars, fileVars, rowVars, pc, mode, module, wave, run>>
  BY DEF vars
<1>2. UNCHANGED <<external, course, outputs, audioPath, videoPath, html, wav, mp4, row, stages,
                  pc, mode, module, wave, run>>
  BY <1>1 DEF courseVars, fileVars, rowVars
<1>3. PipelineTypeOK'
  BY <1>2, Parts DEF PipelineTypeOK
<1>4. FilesOK' /\ ReadyOK'
  BY <1>2, Parts DEF FilesOK, ReadyOK, Scripted, SlidesFailed
<1>5. RowOK'
  BY <1>2, Parts DEF RowOK, Claimed, SlidesFailed
<1>6. WaveOK'
  BY <1>2, Parts DEF WaveOK, WaveOrder, SlidesGone, SlidesFailed
<1>7. StageOK' /\ VideoOK'
  BY ZenonT(60), <1>2, Parts DEF StageOK, VideoOK, Scripted
<1> QED
  BY <1>3, <1>4, <1>5, <1>6, <1>7, Whole

LEMMA InvNext ==
    ASSUME ~EarlyVideos, PipelineInv, [Next]_vars
    PROVE  PipelineInv'
<1>1. CASE Trainer
  <2>1. CASE Generate
    BY <2>1, StartStep DEF Generate
  <2>2. CASE Continue
    BY <2>2, StartStep DEF Continue
  <2>3. CASE EditBlueprint
    BY <2>3, EditStep
  <2>4. ASSUME NEW m \in Modules, RegenerateVideo(m) PROVE PipelineInv'
    BY <2>4, StartStep DEF RegenerateVideo
  <2> QED
    BY <1>1, <2>1, <2>2, <2>3, <2>4 DEF Trainer
<1>2. CASE Wave
  <2>1. ASSUME NEW s \in WaveStages, Clear(s) \/ Produce(s) \/ Record(s) \/ RetryClears(s)
        PROVE  PipelineInv'
    BY <2>1, ClearStep, ProduceStep, RecordStep, RetryClearsStep
  <2> QED
    BY <1>2, <2>1, RestartStep, ChooseStep, ClearedStep, ResetStep, StartWaveStep, EndWaveStep,
       RetryRunsStep, RetryProducesStep, RetryRecordsStep, EndRecoveryStep DEF Wave
<1>3. CASE Stage
  <2>1. ASSUME NEW m \in Modules, MakeFile(m) \/ SaveServiceVideo(m) PROVE PipelineInv'
    BY <2>1, MakeFileStep, SaveServiceStep
  <2> QED
    BY <1>3, <2>1, SkipStep, EnterStep, SaveStageStep, LeaveStep, FailStep, CheckScriptsStep,
       CheckTtsStep, ResetStaleStep, FinishStep DEF Stage
<1>4. CASE ModuleVideo
  BY <1>4, NarrateStep, SaveAudioStep, CompileStep, RenderStep, SaveVideoStep, FailVideoStep
  DEF ModuleVideo
<1>5. CASE Launch \/ JobEnds \/ ProcessDies \/ ApiRestarts
  BY <1>5, LaunchStep, JobEndsStep, DiesStep, RestartsStep
<1>6. CASE UNCHANGED vars
  BY <1>6, InvStutter
<1> QED
  BY <1>1, <1>2, <1>3, <1>4, <1>5, <1>6 DEF Next, Pipeline

\* Whatever failed, crashed, was resumed, edited or switched: as long as no
\* module's video is asked for while outputs are missing, the checkpoints, the
\* outputs and the files fit together as PipelineInv says.
THEOREM CheckpointsFit ==
    ASSUME ~EarlyVideos
    PROVE  Spec => []PipelineInv
<1>1. PipelineInv /\ [Next]_vars => PipelineInv'
  BY InvNext
<1> QED
  BY <1>1, InvInit, PTL DEF Spec

\* A course that is ready shows, for every module, a video that was made of
\* the slides and the narration that it has now (generation/runtime.py), for
\* any number of modules, failures and crashes.
THEOREM VideosAreCurrent ==
    ASSUME ~EarlyVideos
    PROVE  Spec => []NoStaleVideo
<1>1. PipelineInv => NoStaleVideo
  BY DEF PipelineInv, ReadyOK, FilesOK, NoStaleVideo
<1> QED
  BY <1>1, CheckpointsFit, PTL

-----------------------------------------------------------------------------
(***************************************************************************)
(* A Continue keeps what was finished.  What it clears it has found        *)
(* missing or failed (ResumedInv, FailedInv), what it clears again has     *)
(* just failed (FailuresInv), and slides are cleared only once their       *)
(* scripts are not there or not completed, so that no audio or video       *)
(* stands on them.                                                         *)
(***************************************************************************)
KeepPcs == {"wave", "recover", "retry"}

ModeInv == (pc = "idle" => mode = "none") /\ (pc = "invalidate" => mode # "continue")

FailedInv ==
    /\ row.failed = "wave_1" =>
          pc \notin KeepPcs /\ \A s \in WaveStages \cap row.failedStages : stages[s] # "completed"
    /\ ~external /\ (SlidesFailed \/ stages["slides"] = "running") => stages["scripts"] # "completed"

FailuresInv ==
    /\ pc \in {"clear", "reset", "start"} =>
          wave.working \cup wave.produced \cup wave.failures \cup wave.recover = {}
    /\ pc \in {"clear", "reset", "start", "wave"} => wave.retrying = "none"
    /\ pc = "wave" => /\ wave.working \cap wave.produced = {}
                      /\ wave.failures \cap (wave.working \cup wave.produced) = {}
                      /\ \A s \in wave.failures : stages[s] = "failed"
    /\ pc \in {"recover", "retry"} =>
          /\ \A s \in wave.failures : stages[s] # "completed"
          /\ \A s \in wave.recover : stages[s] = "failed" /\ s # wave.retrying

ResumedInv == mode = "continue" /\ pc = "clear" =>
    /\ \A s \in wave.clear : ~(stages[s] = "completed" /\ s \in outputs)
    /\ ~external /\ "slides" \in wave.clear => ~Scripted

KeepInv == ModeInv /\ FailedInv /\ FailuresInv /\ ResumedInv

\* Away from the wave, FailedInv is all there is to show.
LEMMA AwayFromWave ==
    ASSUME pc' \notin {"clear", "reset", "start"} \cup KeepPcs,
           pc' = "idle" => mode' = "none", pc' = "invalidate" => mode' # "continue", FailedInv'
    PROVE  KeepInv'
  BY DEF KeepInv, ModeInv, FailuresInv, ResumedInv, KeepPcs

\* A step that adds no failure and completes no stage of the wave.
LEMMA FailedKept ==
    ASSUME PipelineInv, KeepInv, pc' \notin KeepPcs, external' = external,
           row'.failed \in {row.failed, "none"} \cup LaterStages, row'.failedStages = row.failedStages,
           \A s \in WaveStages : stages'[s] = stages[s],
           stages'["scripts"] = "completed" /\ ~external =>
              stages["scripts"] = "completed" \/ (~SlidesFailed /\ stages["slides"] # "running")
    PROVE  FailedInv'
<1>1. row'.failed = "wave_1" => row.failed = "wave_1"
  BY DEF LaterStages
<1>2. row'.failed = "wave_1" => \A s \in WaveStages \cap row'.failedStages : stages'[s] # "completed"
  BY <1>1 DEF KeepInv, FailedInv
<1>3. (SlidesFailed' => SlidesFailed) /\ stages'["slides"] = stages["slides"]
  BY <1>1, StageNames DEF SlidesFailed
<1> QED
  BY <1>2, <1>3 DEF KeepInv, FailedInv

LEMMA FailedStands ==
    ASSUME PipelineInv, KeepInv, pc' \notin KeepPcs, UNCHANGED <<external, stages>>,
           row'.failed = row.failed, row'.failedStages = row.failedStages
    PROVE  FailedInv'
  BY FailedKept

-----------------------------------------------------------------------------
(* The trainer, and the ends of a job.                                     *)

LEMMA KeepStart ==
    ASSUME PipelineInv, KeepInv, NEW m, NEW target, Start(m, target)
    PROVE  KeepInv'
<1>1. /\ row' = [row EXCEPT !.status = "pending", !.claimed = TRUE] /\ pc' = "queued"
      /\ UNCHANGED <<external, stages>>
  BY DEF Start
<1>2. row'.failed = row.failed /\ row'.failedStages = row.failedStages
  BY <1>1, Parts DEF PipelineTypeOK
<1>3. FailedInv'
  BY <1>1, <1>2, FailedStands DEF KeepPcs
<1> QED
  BY <1>1, <1>3, AwayFromWave DEF KeepPcs

LEMMA KeepLaunch ==
    ASSUME PipelineInv, KeepInv, Launch
    PROVE  KeepInv'
<1>1. /\ row' = [row EXCEPT !.status = "running"] /\ UNCHANGED <<external, stages, mode>>
      /\ \/ pc' = "invalidate" /\ mode = "full"
         \/ pc' \in {"resume", "render", "narrate"}
  BY Parts DEF Launch, PipelineTypeOK
<1>2. row'.failed = row.failed /\ row'.failedStages = row.failedStages
  BY <1>1, Parts DEF PipelineTypeOK
<1>3. FailedInv'
  BY <1>1, <1>2, FailedStands DEF KeepPcs
<1> QED
  BY <1>1, <1>3, AwayFromWave DEF KeepPcs

\* Everything is taken back, and nothing has failed.
LEMMA InvalidatedFails ==
    ASSUME PipelineInv, NEW claimed \in BOOLEAN, Invalidate(claimed)
    PROVE  FailedInv'
  BY InvalidateFacts, StageNames DEF FailedInv, SlidesFailed

LEMMA KeepEdit ==
    ASSUME PipelineInv, KeepInv, EditBlueprint
    PROVE  KeepInv'
<1>1. ~Claimed /\ Invalidate(FALSE) /\ UNCHANGED <<pc, mode>>
  BY DEF EditBlueprint
<1>2. pc \in EndPcs
  BY <1>1, Parts DEF RowOK
<1>3. FailedInv'
  BY <1>1, InvalidatedFails
<1> QED
  BY <1>1, <1>2, <1>3, AwayFromWave DEF EndPcs, KeepPcs, KeepInv, ModeInv

\* What is recorded as failed was running.
LEMMA RecordedFailed ==
    ASSUME PipelineInv, KeepInv, pc' = "idle", external' = external, stages' = FailedStages,
           NEW claimed, row' = [FailedRow EXCEPT !.claimed = claimed]
    PROVE  FailedInv'
<1>1. DOMAIN stages = AllStages
  BY Parts DEF PipelineTypeOK
<1>2. /\ row'.failed = FailedCheckpoint
      /\ row'.failedStages = IF FailedCheckpoint = "wave_1" THEN FailedStagesOf("wave_1") ELSE {}
  BY <1>1, Parts DEF FailedRow, FailedStagesOf, PipelineTypeOK
<1>3. \A s \in AllStages : stages'[s] = IF s \in FailedStagesOf(FailedCheckpoint) THEN "failed" ELSE stages[s]
  BY <1>1, Parts DEF FailedStages, PipelineTypeOK
<1>4. /\ row.checkpoint = "wave_1" => FailedStagesOf(FailedCheckpoint) = {s \in AllStages : stages[s] = "running"}
      /\ row.checkpoint # "wave_1" => FailedStagesOf(FailedCheckpoint) = {FailedCheckpoint}
      /\ FailedCheckpoint = "wave_1" <=> row.checkpoint = "wave_1"
  BY <1>1 DEF FailedStagesOf, FailedCheckpoint
<1>5. row'.failed = "wave_1" => \A s \in WaveStages \cap row'.failedStages : stages'[s] # "completed"
  BY <1>2, <1>3, StageNames
<1>6. stages["slides"] = "running" => row.checkpoint = "wave_1"
  BY Parts DEF RowOK
<1>7. stages'["slides"] # "running"
  BY <1>3, <1>4, <1>6, StageNames
<1>8. SlidesFailed' => stages["slides"] = "running"
  BY <1>2, <1>4 DEF SlidesFailed
<1>9. stages'["scripts"] = "completed" => stages["scripts"] = "completed"
  BY <1>3, StageNames
<1> QED
  BY <1>5, <1>7, <1>8, <1>9 DEF KeepInv, FailedInv, KeepPcs

LEMMA KeepJobEnds ==
    ASSUME PipelineInv, KeepInv, JobEnds
    PROVE  KeepInv'
<1>1. /\ pc' = "idle" /\ mode' = "none" /\ external' = external
      /\ \/ row' = row /\ stages' = stages
         \/ row' = FailedRow /\ stages' = FailedStages
         \/ row' = [row EXCEPT !.status = "completed"] /\ stages' = stages
  BY DEF JobEnds, rowVars
<1>2. FailedInv'
  <2>1. CASE row' = row /\ stages' = stages
    BY <1>1, <2>1, FailedStands DEF KeepPcs
  <2>2. CASE row' = FailedRow /\ stages' = FailedStages
    <3>1. FailedRow = [FailedRow EXCEPT !.claimed = row.claimed]
      BY <2>2, Parts DEF FailedRow, PipelineTypeOK
    <3> QED
      BY <1>1, <2>2, <3>1, RecordedFailed
  <2>3. CASE row' = [row EXCEPT !.status = "completed"] /\ stages' = stages
    <3>1. row'.failed = row.failed /\ row'.failedStages = row.failedStages
      BY <2>3, Parts DEF PipelineTypeOK
    <3> QED
      BY <1>1, <2>3, <3>1, FailedStands DEF KeepPcs
  <2> QED
    BY <1>1, <2>1, <2>2, <2>3
<1> QED
  BY <1>1, <1>2, AwayFromWave DEF KeepPcs

LEMMA KeepDies ==
    ASSUME PipelineInv, KeepInv, ProcessDies
    PROVE  KeepInv'
<1>1. pc' = "raised" /\ UNCHANGED <<external, row, stages>>
  BY DEF ProcessDies, rowVars
<1>2. FailedInv'
  BY <1>1, FailedStands DEF KeepPcs
<1> QED
  BY <1>1, <1>2, AwayFromWave DEF KeepPcs

LEMMA KeepRestarts ==
    ASSUME PipelineInv, KeepInv, ApiRestarts
    PROVE  KeepInv'
<1>1. /\ pc' = "idle" /\ mode' = "none" /\ external' = external
      /\ \/ row' = row /\ stages' = stages
         \/ row' = [FailedRow EXCEPT !.claimed = FALSE] /\ stages' = FailedStages
  BY DEF ApiRestarts, rowVars
<1>2. FailedInv'
  BY <1>1, FailedStands, RecordedFailed DEF KeepPcs
<1> QED
  BY <1>1, <1>2, AwayFromWave DEF KeepPcs

-----------------------------------------------------------------------------
(* The stages after the wave, and a module's video.                        *)

\* Steps that leave the row and its checkpoints alone.
LEMMA KeepQuiet ==
    ASSUME PipelineInv, KeepInv, UNCHANGED <<external, row, stages>>,
           pc' \in LaterStages \cup CheckPcs \cup VideoPcs \cup {"exited", "raised"}
    PROVE  KeepInv'
<1>1. FailedInv'
  BY FailedStands DEF KeepPcs, LaterStages, CheckPcs, VideoPcs
<1> QED
  BY <1>1, AwayFromWave DEF KeepPcs, LaterStages, CheckPcs, VideoPcs

LEMMA KeepMarked ==
    ASSUME PipelineInv, KeepInv, pc \in LaterStages, external' = external,
           NEW status \in {"running", "completed", "failed"}, Mark(pc, status),
           row'.failed \in {row.failed, "none", pc}, row'.failedStages = row.failedStages,
           pc' \in LaterStages \cup CheckPcs \cup {"raised"}
    PROVE  KeepInv'
<1>1. \A s \in WaveStages : stages'[s] = stages[s]
  BY MarkFacts, StageNames DEF LaterStages
<1>2. stages["slides"] # "running" /\ (~external => ~SlidesFailed)
  BY StageRow
<1>3. FailedInv'
  BY <1>1, <1>2, FailedKept DEF KeepPcs, LaterStages, CheckPcs
<1> QED
  BY <1>3, AwayFromWave DEF KeepPcs, LaterStages, CheckPcs

LEMMA KeepSkip ==
    ASSUME PipelineInv, KeepInv, SkipStage
    PROVE  KeepInv'
<1>1. pc \in LaterStages /\ pc' = AfterStage(pc) /\ UNCHANGED <<external, row, stages>>
  BY DEF SkipStage, InStage, rowVars
<1> QED
  BY <1>1, StageOrder, KeepQuiet

LEMMA KeepEnter ==
    ASSUME PipelineInv, KeepInv, EnterStage
    PROVE  KeepInv'
<1>1. /\ pc \in LaterStages /\ Mark(pc, "running") /\ UNCHANGED <<external, pc>>
      /\ row' = [row EXCEPT !.status = "running", !.checkpoint = pc,
                            !.failed = IF @ = pc THEN "none" ELSE @]
  BY DEF EnterStage, InStage
<1>2. row'.failed \in {row.failed, "none"} /\ row'.failedStages = row.failedStages
  BY <1>1, Parts DEF PipelineTypeOK
<1> QED
  BY <1>1, <1>2, KeepMarked

LEMMA KeepLeave ==
    ASSUME PipelineInv, KeepInv, LeaveStage
    PROVE  KeepInv'
<1>1. /\ pc \in LaterStages /\ Mark(pc, "completed") /\ pc' = AfterStage(pc) /\ external' = external
      /\ row' = [row EXCEPT !.checkpoint = row.failed]
  BY DEF LeaveStage, InStage
<1>2. row'.failed = row.failed /\ row'.failedStages = row.failedStages
  BY <1>1, Parts DEF PipelineTypeOK
<1>3. pc' \in LaterStages \cup CheckPcs
  BY <1>1, StageOrder
<1> QED
  BY <1>1, <1>2, <1>3, KeepMarked

LEMMA KeepFail ==
    ASSUME PipelineInv, KeepInv, FailStage
    PROVE  KeepInv'
<1>1. /\ pc \in LaterStages /\ Mark(pc, "failed") /\ pc' = "raised" /\ external' = external
      /\ row' = [row EXCEPT !.status = "failed", !.checkpoint = pc, !.failed = pc]
  BY DEF FailStage, InStage
<1>2. row'.failed = pc /\ row'.failedStages = row.failedStages
  BY <1>1, Parts DEF PipelineTypeOK
<1> QED
  BY <1>1, <1>2, KeepMarked

LEMMA KeepFiles ==
    ASSUME PipelineInv, KeepInv,
           \/ SaveStage \/ CheckScripts \/ CheckTts
           \/ \E m \in Modules : MakeFile(m) \/ SaveServiceVideo(m)
    PROVE  KeepInv'
<1>1. UNCHANGED <<external, row, stages>>
  BY DEF SaveStage, CheckScripts, CheckTts, MakeFile, SaveServiceVideo, rowVars
<1>2. pc' \in LaterStages \cup CheckPcs
  BY DEF SaveStage, CheckScripts, CheckTts, MakeFile, SaveServiceVideo, InStage, LaterStages, CheckPcs
<1> QED
  BY <1>1, <1>2, KeepQuiet

LEMMA KeepResetStale ==
    ASSUME PipelineInv, KeepInv, ResetStale
    PROVE  KeepInv'
<1>1. /\ UNCHANGED <<external, row>> /\ pc' \in {"scripts", "tts"}
      /\ \/ ResetCheckpoints({"tts", "video"}) \/ ResetCheckpoints({"video"})
  BY DEF ResetStale
<1>2. DOMAIN stages = AllStages
  BY Parts DEF PipelineTypeOK
<1>3. (\A s \in WaveStages : stages'[s] = stages[s]) /\ stages'["scripts"] = stages["scripts"]
  BY <1>1, <1>2, StageNames DEF ResetCheckpoints
<1>4. FailedInv'
  BY <1>1, <1>3, FailedKept DEF KeepPcs
<1> QED
  BY <1>1, <1>4, AwayFromWave DEF KeepPcs

LEMMA KeepFinish ==
    ASSUME PipelineInv, KeepInv, Finish
    PROVE  KeepInv'
<1>1. /\ pc = "finish" /\ pc' = "exited" /\ UNCHANGED <<external, stages>>
      /\ row' = [row EXCEPT !.status = "completed", !.checkpoint = "none", !.failed = "none",
                            !.failedStages = {}]
  BY DEF Finish
<1>2. row'.failed = "none" /\ row'.failedStages = {}
  BY <1>1, Parts DEF PipelineTypeOK
<1>3. stages'["slides"] # "running"
  BY <1>1, StageRow DEF CheckPcs
<1>4. FailedInv'
  BY <1>2, <1>3 DEF FailedInv, SlidesFailed
<1> QED
  BY <1>1, <1>4, AwayFromWave DEF KeepPcs

LEMMA KeepModuleVideo ==
    ASSUME PipelineInv, KeepInv, ModuleVideo
    PROVE  KeepInv'
<1>1. UNCHANGED <<external, row, stages>>
  BY DEF ModuleVideo, NarrateModule, SaveModuleAudio, CompileDecks, RenderModule, SaveModuleVideo,
         FailModuleVideo, rowVars
<1>2. pc' \in VideoPcs \cup {"exited", "raised"}
  BY DEF ModuleVideo, NarrateModule, SaveModuleAudio, CompileDecks, RenderModule, SaveModuleVideo,
         FailModuleVideo, VideoPcs
<1> QED
  BY <1>1, <1>2, KeepQuiet

-----------------------------------------------------------------------------
(* The wave.                                                               *)

\* The wave goes on, and no checkpoint of its stages has failed before.
LEMMA KeepGoing ==
    ASSUME FailuresInv', ResumedInv', FailedInv', pc' \in WavePcs
    PROVE  KeepInv'
  BY DEF KeepInv, ModeInv, WavePcs

LEMMA KeepRestart ==
    ASSUME PipelineInv, KeepInv, RestartFromBlueprint
    PROVE  KeepInv'
<1>1. /\ pc = "invalidate" /\ pc' = "clear" /\ mode' = mode
      /\ Invalidate(row.claimed) /\ wave' = [NoWave EXCEPT !.stages = WaveOrder]
  BY DEF RestartFromBlueprint
<1>2. FailedInv'
  BY <1>1, InvalidatedFails, Parts DEF PipelineTypeOK
<1>3. /\ wave'.working = {} /\ wave'.produced = {} /\ wave'.failures = {} /\ wave'.recover = {}
      /\ wave'.retrying = "none"
  BY <1>1 DEF NoWave
<1>4. FailuresInv'
  BY <1>1, <1>3 DEF FailuresInv
<1>5. ResumedInv'
  BY <1>1 DEF ResumedInv, KeepInv, ModeInv
<1> QED
  BY <1>1, <1>2, <1>4, <1>5, KeepGoing DEF WavePcs

\* What a Continue runs is missing or has failed.
LEMMA KeepChoose ==
    ASSUME PipelineInv, KeepInv, ChooseWave
    PROVE  KeepInv'
<1>1. /\ pc = "resume" /\ pc' = "clear" /\ UNCHANGED <<external, outputs, row, stages>>
      /\ wave' = [NoWave EXCEPT !.stages = ToResume, !.clear = ToResume]
  BY DEF ChooseWave, courseVars, rowVars
<1>2. /\ wave'.working = {} /\ wave'.produced = {} /\ wave'.failures = {} /\ wave'.recover = {}
      /\ wave'.retrying = "none" /\ wave'.clear = ToResume
  BY <1>1 DEF NoWave
<1>3. FailedInv'
  BY <1>1, FailedStands DEF KeepPcs
<1>4. FailuresInv'
  BY <1>1, <1>2 DEF FailuresInv
<1>5. ASSUME NEW s \in ToResume
      PROVE  \/ s \notin outputs
             \/ row.failed = "wave_1" /\ s \in WaveStages \cap row.failedStages
  <2>1. s \in WaveStages /\ (s \in Missing \/ (row.failed = "wave_1" /\ s \in row.failedStages))
    BY DEF ToResume, WaveOrder
  <2>2. s \in WaveStages => (Complete(s) <=> s \in outputs)
    BY DEF Complete, WaveStages
  <2> QED
    BY <2>1, <2>2 DEF Missing
<1>6. ResumedInv'
  <2>1. \A s \in wave'.clear : ~(stages'[s] = "completed" /\ s \in outputs')
    BY <1>1, <1>2, <1>5 DEF KeepInv, FailedInv
  <2>2. ~external' /\ "slides" \in wave'.clear => ~Scripted'
    BY <1>1, <1>2, <1>5 DEF KeepInv, FailedInv, Scripted, SlidesFailed
  <2> QED
    BY <2>1, <2>2 DEF ResumedInv
<1> QED
  BY <1>1, <1>3, <1>4, <1>6, KeepGoing DEF WavePcs

LEMMA KeepClear ==
    ASSUME PipelineInv, KeepInv, NEW s, Clear(s)
    PROVE  KeepInv'
<1>1. /\ pc = "clear" /\ s \in wave.clear /\ ClearOutput(s)
      /\ wave' = [wave EXCEPT !.clear = @ \ {s}]
      /\ UNCHANGED <<external, row, stages, pc, mode>>
  BY DEF Clear, rowVars
<1>2. outputs' \subseteq outputs
  BY <1>1 DEF ClearOutput
<1>3. /\ wave'.clear = wave.clear \ {s} /\ wave'.working = wave.working /\ wave'.produced = wave.produced
      /\ wave'.failures = wave.failures /\ wave'.recover = wave.recover /\ wave'.retrying = wave.retrying
  BY <1>1, Parts DEF PipelineTypeOK
<1>4. FailedInv'
  BY <1>1, FailedStands DEF KeepPcs
<1>5. FailuresInv'
  BY <1>1, <1>3 DEF KeepInv, FailuresInv
<1>6. ResumedInv'
  BY <1>1, <1>2, <1>3 DEF KeepInv, ResumedInv, Scripted
<1> QED
  BY <1>1, <1>4, <1>5, <1>6, KeepGoing DEF WavePcs

LEMMA KeepCleared ==
    ASSUME PipelineInv, KeepInv, Cleared
    PROVE  KeepInv'
<1>1. pc = "clear" /\ pc' = AfterClear /\ UNCHANGED <<external, row, stages, wave>>
  BY DEF Cleared, rowVars
<1>2. pc' \in {"reset", "start", "html", "video"}
  BY <1>1 DEF AfterClear, AfterWave
<1>3. FailedInv'
  BY <1>1, <1>2, FailedStands DEF KeepPcs
<1>4. FailuresInv' /\ ResumedInv' /\ ModeInv'
  BY <1>1, <1>2 DEF KeepInv, FailuresInv, ResumedInv, ModeInv
<1> QED
  BY <1>3, <1>4 DEF KeepInv

LEMMA KeepReset ==
    ASSUME PipelineInv, KeepInv, ResetLaterStages
    PROVE  KeepInv'
<1>1. /\ pc = "reset" /\ pc' = "start" /\ UNCHANGED <<external, row, wave>>
      /\ ResetCheckpoints({"html", "scripts", "tts", "video"})
  BY DEF ResetLaterStages
<1>2. DOMAIN stages = AllStages
  BY Parts DEF PipelineTypeOK
<1>3. (\A s \in WaveStages : stages'[s] = stages[s]) /\ stages'["scripts"] # "completed"
  BY <1>1, <1>2, StageNames DEF ResetCheckpoints
<1>4. FailedInv'
  BY <1>1, <1>3, FailedKept DEF KeepPcs
<1>5. FailuresInv' /\ ResumedInv'
  BY <1>1 DEF KeepInv, FailuresInv, ResumedInv
<1> QED
  BY <1>1, <1>4, <1>5, KeepGoing DEF WavePcs

LEMMA KeepStartWave ==
    ASSUME PipelineInv, KeepInv, StartWave
    PROVE  KeepInv'
<1>1. /\ pc = "start" /\ pc' = "wave" /\ external' = external
      /\ row' = [row EXCEPT !.status = "running", !.checkpoint = "wave_1", !.failed = "none",
                            !.failedStages = {}]
      /\ stages' = [s \in DOMAIN stages |-> IF s \in wave.stages THEN "running" ELSE stages[s]]
      /\ wave' = [wave EXCEPT !.working = wave.stages]
  BY DEF StartWave
<1>2. row'.failed = "none"
  BY <1>1, Parts DEF PipelineTypeOK
<1>3. DOMAIN stages = AllStages /\ wave.stages \subseteq WaveStages
  BY Parts DEF PipelineTypeOK
<1>4. stages'["scripts"] = stages["scripts"]
  BY <1>1, <1>3, StageNames
<1>5. stages'["slides"] = "running" => stages["scripts"] # "completed"
  <2>1. stages["slides"] # "running"
    BY <1>1, Parts DEF RowOK
  <2>2. stages'["slides"] = "running" => "slides" \in wave.stages
    BY <1>1, <1>3, <2>1, StageNames
  <2> QED
    BY <1>1, <2>2, Parts DEF WaveOK, WavePcs
<1>6. FailedInv'
  BY <1>2, <1>4, <1>5 DEF FailedInv, SlidesFailed
<1>7. /\ wave'.working = wave.stages /\ wave'.produced = {} /\ wave'.failures = {}
      /\ wave'.retrying = "none"
  BY <1>1, Parts DEF PipelineTypeOK, KeepInv, FailuresInv
<1>8. FailuresInv' /\ ResumedInv'
  BY <1>1, <1>7 DEF FailuresInv, ResumedInv
<1> QED
  BY <1>1, <1>6, <1>8, KeepGoing DEF WavePcs

\* In the wave: no checkpoint of a wave's stages counts as failed before.
LEMMA KeepWorking ==
    ASSUME PipelineInv, KeepInv, pc \in KeepPcs, pc' \in KeepPcs, UNCHANGED <<external, row>>,
           stages'["scripts"] = stages["scripts"],
           stages'["slides"] = "running" =>
              stages["slides"] = "running" \/ external \/ stages["scripts"] # "completed",
           FailuresInv'
    PROVE  KeepInv'
<1>1. row'.failed # "wave_1"
  BY DEF KeepInv, FailedInv
<1>2. FailedInv'
  BY <1>1 DEF KeepInv, FailedInv, SlidesFailed
<1> QED
  BY <1>2 DEF KeepInv, KeepPcs, ModeInv, ResumedInv

LEMMA KeepProduce ==
    ASSUME PipelineInv, KeepInv, NEW s, Produce(s)
    PROVE  KeepInv'
<1>1. /\ pc = "wave" /\ s \in wave.working /\ UNCHANGED <<external, row, stages, pc>>
      /\ wave' = [wave EXCEPT !.working = @ \ {s}, !.produced = @ \cup {s}]
  BY DEF Produce, rowVars
<1>2. /\ wave'.working = wave.working \ {s} /\ wave'.produced = wave.produced \cup {s}
      /\ wave'.failures = wave.failures /\ wave'.retrying = wave.retrying
  BY <1>1, Parts DEF PipelineTypeOK
<1>3. FailuresInv'
  BY <1>1, <1>2 DEF KeepInv, FailuresInv
<1> QED
  BY <1>1, <1>3, KeepWorking DEF KeepPcs

LEMMA KeepRecord ==
    ASSUME PipelineInv, KeepInv, NEW s \in WaveStages, Record(s)
    PROVE  KeepInv'
<1>1. pc = "wave" /\ UNCHANGED <<external, row, pc>>
  BY DEF Record
<1>2. CASE /\ s \in wave.produced /\ Mark(s, "completed")
           /\ wave' = [wave EXCEPT !.produced = @ \ {s}]
  <2>1. /\ wave'.working = wave.working /\ wave'.produced = wave.produced \ {s}
        /\ wave'.failures = wave.failures /\ wave'.retrying = wave.retrying
    BY <1>2, Parts DEF PipelineTypeOK
  <2>2. stages'[s] = "completed" /\ \A t \in AllStages \ {s} : stages'[t] = stages[t]
    BY <1>2, MarkFacts, StageNames
  <2>3. wave.failures \subseteq WaveStages
    BY Parts DEF PipelineTypeOK
  <2>4. FailuresInv'
    BY <1>1, <1>2, <2>1, <2>2, <2>3, StageNames DEF KeepInv, FailuresInv
  <2>5. stages'["scripts"] = stages["scripts"] /\ (stages'["slides"] = "running" => stages["slides"] = "running")
    BY <2>2, StageNames
  <2> QED
    BY <1>1, <2>4, <2>5, KeepWorking DEF KeepPcs
<1>3. CASE /\ s \in wave.working /\ Mark(s, "failed")
           /\ wave' = [wave EXCEPT !.working = @ \ {s}, !.failures = @ \cup {s}]
  <2>1. /\ wave'.working = wave.working \ {s} /\ wave'.produced = wave.produced
        /\ wave'.failures = wave.failures \cup {s} /\ wave'.retrying = wave.retrying
    BY <1>3, Parts DEF PipelineTypeOK
  <2>2. stages'[s] = "failed" /\ \A t \in AllStages \ {s} : stages'[t] = stages[t]
    BY <1>3, MarkFacts, StageNames
  <2>3. wave.failures \subseteq WaveStages
    BY Parts DEF PipelineTypeOK
  <2>4. FailuresInv'
    BY <1>1, <1>3, <2>1, <2>2, <2>3, StageNames DEF KeepInv, FailuresInv
  <2>5. stages'["scripts"] = stages["scripts"] /\ (stages'["slides"] = "running" => stages["slides"] = "running")
    BY <2>2, StageNames
  <2> QED
    BY <1>1, <2>4, <2>5, KeepWorking DEF KeepPcs
<1> QED
  BY <1>2, <1>3 DEF Record

LEMMA KeepEndWave ==
    ASSUME PipelineInv, KeepInv, EndWave
    PROVE  KeepInv'
<1>1. pc = "wave" /\ UNCHANGED <<external, row, stages>>
  BY DEF EndWave, rowVars
<1>2. CASE pc' = AfterWave
  <2>1. pc' \in {"html", "video"}
    BY <1>2 DEF AfterWave
  <2>2. FailedInv'
    BY <1>1, <2>1, FailedStands DEF KeepPcs
  <2> QED
    BY <2>1, <2>2, AwayFromWave DEF KeepPcs
<1>3. CASE pc' = "recover" /\ wave' = [wave EXCEPT !.recover = wave.failures]
  <2>1. wave'.failures = wave.failures /\ wave'.recover = wave.failures /\ wave'.retrying = wave.retrying
    BY <1>3, Parts DEF PipelineTypeOK
  <2>2. \A s \in wave.failures : stages[s] = "failed"
    BY <1>1 DEF KeepInv, FailuresInv
  <2>3. \A s \in wave.failures : s # wave.retrying
    BY <1>1, Parts DEF KeepInv, FailuresInv, PipelineTypeOK, WaveStages
  <2>4. FailuresInv'
    BY <1>1, <1>3, <2>1, <2>2, <2>3 DEF FailuresInv
  <2> QED
    BY <1>1, <1>3, <2>4, KeepWorking DEF KeepPcs
<1> QED
  BY <1>2, <1>3 DEF EndWave

-----------------------------------------------------------------------------
(* Recovery.                                                               *)

\* Marking one stage: failures and what waits for recovery are left alone.
LEMMA RecoveryMarks ==
    ASSUME PipelineInv, KeepInv, pc = "retry", pc' \in {"retry", "recover"},
           NEW status \in {"running", "completed", "failed"}, Mark(wave.retrying, status),
           wave'.recover = wave.recover, wave'.retrying \in {"none", wave.retrying},
           wave'.failures = IF status = "completed" THEN wave.failures \ {wave.retrying} ELSE wave.failures
    PROVE  FailuresInv' /\ stages'["scripts"] = stages["scripts"]
           /\ (stages'["slides"] = "running" =>
                 stages["slides"] = "running" \/ external \/ stages["scripts"] # "completed")
<1> DEFINE r == wave.retrying
<1>1. r \in WaveStages /\ r \in wave.stages
  BY Parts DEF PipelineTypeOK, WaveOK, WavePcs
<1>2. stages'[r] = status /\ \A t \in AllStages \ {r} : stages'[t] = stages[t]
  BY <1>1, MarkFacts, StageNames
<1>3. wave.failures \subseteq WaveStages /\ wave.recover \subseteq WaveStages /\ "none" \notin WaveStages
  BY Parts DEF PipelineTypeOK, WaveStages
<1>4. /\ \A s \in wave.failures : stages[s] # "completed"
      /\ \A s \in wave.recover : stages[s] = "failed" /\ s # r
  BY DEF KeepInv, FailuresInv
<1> HIDE DEF r
<1>5. \A s \in wave'.failures : stages'[s] # "completed"
  BY <1>2, <1>3, <1>4, StageNames DEF r
<1>6. \A s \in wave'.recover : stages'[s] = "failed" /\ s # wave'.retrying
  BY <1>2, <1>3, <1>4, StageNames DEF r
<1>7. FailuresInv'
  BY <1>5, <1>6 DEF FailuresInv
<1>8. stages'["scripts"] = stages["scripts"]
  BY <1>1, <1>2, StageNames
<1>9. stages'["slides"] = "running" => stages["slides"] = "running" \/ stages["scripts"] # "completed"
  <2>1. r # "slides" => stages'["slides"] = stages["slides"]
    BY <1>2, StageNames
  <2>2. r = "slides" => stages["scripts"] # "completed"
    BY <1>1, Parts DEF WaveOK, WavePcs
  <2> QED
    BY <2>1, <2>2
<1> QED
  BY <1>7, <1>8, <1>9

LEMMA KeepRetryClears ==
    ASSUME PipelineInv, KeepInv, NEW s, RetryClears(s)
    PROVE  KeepInv'
<1>1. pc = "recover" /\ pc' = "retry" /\ UNCHANGED <<external, row, stages>>
  BY DEF RetryClears, rowVars
<1>2. /\ wave'.failures = wave.failures
      /\ \/ wave'.retrying = s /\ wave'.recover = wave.recover \ {s}
         \/ wave'.retrying = wave.retrying /\ wave'.recover = wave.recover
  BY Parts DEF RetryClears, PipelineTypeOK
<1>3. FailuresInv'
  BY <1>1, <1>2 DEF KeepInv, FailuresInv
<1> QED
  BY <1>1, <1>3, KeepWorking DEF KeepPcs

LEMMA KeepRetryRuns ==
    ASSUME PipelineInv, KeepInv, RetryRuns
    PROVE  KeepInv'
<1>1. pc = "retry" /\ Mark(wave.retrying, "running") /\ UNCHANGED <<external, row, pc, wave>>
  BY DEF RetryRuns
<1> QED
  BY <1>1, RecoveryMarks, KeepWorking DEF KeepPcs

LEMMA KeepRetryProduces ==
    ASSUME PipelineInv, KeepInv, RetryProduces
    PROVE  KeepInv'
<1>1. /\ pc = "retry" /\ UNCHANGED <<external, row, stages, pc>>
      /\ wave' = [wave EXCEPT !.produced = {wave.retrying}]
  BY DEF RetryProduces, rowVars
<1>2. wave'.failures = wave.failures /\ wave'.recover = wave.recover /\ wave'.retrying = wave.retrying
  BY <1>1, Parts DEF PipelineTypeOK
<1>3. FailuresInv'
  BY <1>1, <1>2 DEF KeepInv, FailuresInv
<1> QED
  BY <1>1, <1>3, KeepWorking DEF KeepPcs

LEMMA KeepRetryRecords ==
    ASSUME PipelineInv, KeepInv, RetryRecords
    PROVE  KeepInv'
<1>1. pc = "retry" /\ pc' = "recover" /\ UNCHANGED <<external, row>>
  BY DEF RetryRecords
<1>2. \/ /\ Mark(wave.retrying, "completed")
         /\ wave'.failures = wave.failures \ {wave.retrying} /\ wave'.recover = wave.recover
         /\ wave'.retrying = "none"
      \/ /\ Mark(wave.retrying, "failed")
         /\ wave'.failures = wave.failures /\ wave'.recover = wave.recover
         /\ wave'.retrying \in {"none", wave.retrying}
  BY Parts DEF RetryRecords, PipelineTypeOK
<1>3. CASE /\ Mark(wave.retrying, "completed")
           /\ wave'.failures = wave.failures \ {wave.retrying} /\ wave'.recover = wave.recover
           /\ wave'.retrying = "none"
  BY <1>1, <1>3, RecoveryMarks, KeepWorking DEF KeepPcs
<1>4. CASE /\ Mark(wave.retrying, "failed")
           /\ wave'.failures = wave.failures /\ wave'.recover = wave.recover
           /\ wave'.retrying \in {"none", wave.retrying}
  BY <1>1, <1>4, RecoveryMarks, KeepWorking DEF KeepPcs
<1> QED
  BY <1>2, <1>3, <1>4

LEMMA KeepEndRecovery ==
    ASSUME PipelineInv, KeepInv, EndRecovery
    PROVE  KeepInv'
<1>1. /\ pc = "recover" /\ UNCHANGED <<external, stages>>
      /\ \/ pc' = AfterWave /\ row' = row
         \/ /\ pc' = "raised"
            /\ row' = [row EXCEPT !.status = "failed", !.checkpoint = "wave_1",
                                  !.failed = "wave_1", !.failedStages = wave.failures]
  BY DEF EndRecovery
<1>2. CASE pc' = AfterWave /\ row' = row
  <2>1. pc' \in {"html", "video"}
    BY <1>2 DEF AfterWave
  <2>2. FailedInv'
    BY <1>1, <1>2, <2>1, FailedStands DEF KeepPcs
  <2> QED
    BY <2>1, <2>2, AwayFromWave DEF KeepPcs
<1>3. CASE /\ pc' = "raised"
           /\ row' = [row EXCEPT !.status = "failed", !.checkpoint = "wave_1",
                                 !.failed = "wave_1", !.failedStages = wave.failures]
  <2>1. row'.failed = "wave_1" /\ row'.failedStages = wave.failures
    BY <1>3, Parts DEF PipelineTypeOK
  <2>2. \A s \in wave.failures : stages[s] # "completed"
    BY <1>1 DEF KeepInv, FailuresInv
  <2>3. stages["slides"] = "running" \/ "slides" \in wave.failures => external \/ stages["scripts"] # "completed"
    BY <1>1, Parts DEF WaveOK, WavePcs, KeepInv, FailedInv
  <2>4. FailedInv'
    BY <1>1, <1>3, <2>1, <2>2, <2>3 DEF FailedInv, SlidesFailed, KeepPcs
  <2> QED
    BY <1>3, <2>4, AwayFromWave DEF KeepPcs
<1> QED
  BY <1>1, <1>2, <1>3

-----------------------------------------------------------------------------
LEMMA KeepInit == Init => KeepInv
<1> SUFFICES ASSUME Init PROVE KeepInv
  OBVIOUS
<1>1. pc = "idle" /\ mode = "none" /\ row.failed = "none"
  BY DEF Init
<1>2. stages["slides"] # "running"
  BY StageNames DEF Init, AllStages
<1> QED
  BY <1>1, <1>2 DEF KeepInv, ModeInv, FailedInv, SlidesFailed, FailuresInv, ResumedInv

LEMMA KeepStutter ==
    ASSUME PipelineInv, KeepInv, UNCHANGED vars
    PROVE  KeepInv'
<1>1. UNCHANGED <<external, outputs, row, stages, pc, mode, wave>>
  BY DEF vars, courseVars, rowVars
<1> QED
  BY <1>1 DEF KeepInv, ModeInv, FailedInv, SlidesFailed, FailuresInv, ResumedInv, Scripted

LEMMA KeepNext ==
    ASSUME PipelineInv, KeepInv, [Next]_vars
    PROVE  KeepInv'
<1>1. CASE Trainer
  BY <1>1, KeepStart, KeepEdit DEF Trainer, Generate, Continue, RegenerateVideo
<1>2. CASE Wave
  <2>1. ASSUME NEW s \in WaveStages, Clear(s) \/ Produce(s) \/ Record(s) \/ RetryClears(s)
        PROVE  KeepInv'
    BY <2>1, KeepClear, KeepProduce, KeepRecord, KeepRetryClears
  <2> QED
    BY <1>2, <2>1, KeepRestart, KeepChoose, KeepCleared, KeepReset, KeepStartWave, KeepEndWave,
       KeepRetryRuns, KeepRetryProduces, KeepRetryRecords, KeepEndRecovery DEF Wave
<1>3. CASE Stage
  BY <1>3, KeepSkip, KeepEnter, KeepLeave, KeepFail, KeepFiles, KeepResetStale, KeepFinish DEF Stage
<1>4. CASE ModuleVideo
  BY <1>4, KeepModuleVideo
<1>5. CASE Launch \/ JobEnds \/ ProcessDies \/ ApiRestarts
  BY <1>5, KeepLaunch, KeepJobEnds, KeepDies, KeepRestarts
<1>6. CASE UNCHANGED vars
  BY <1>6, KeepStutter
<1> QED
  BY <1>1, <1>2, <1>3, <1>4, <1>5, <1>6 DEF Next, Pipeline

-----------------------------------------------------------------------------
(* Then no step of a Continue drops what was finished.                     *)

KeepsFinished ==
    /\ \A s \in WaveStages : stages[s] = "completed" /\ s \in outputs => s \in outputs'
    /\ \A m \in Modules : HasVideo(m) /\ mp4[m] = "fresh" /\ Complete("tts") => m \in videoPath'

LEMMA NothingDropped ==
    ASSUME outputs \subseteq outputs', videoPath \subseteq videoPath'
    PROVE  KeepsFinished
  BY DEF KeepsFinished, HasVideo

\* What is cleared is not finished, and no video stands on slides that are.
LEMMA ClearKeeps ==
    ASSUME PipelineInv, NEW s \in WaveStages, ClearOutput(s), ~(stages[s] = "completed" /\ s \in outputs),
           s = "slides" => ~external /\ ~Scripted
    PROVE  KeepsFinished
<1>1. \A t \in WaveStages : t \in outputs /\ t # s => t \in outputs'
  BY DEF ClearOutput, WaveStages
<1>2. s # "slides" => videoPath' = videoPath
  BY DEF ClearOutput
<1>3. s = "slides" => videoPath = {}
  BY Parts DEF FilesOK
<1> QED
  BY <1>1, <1>2, <1>3 DEF KeepsFinished, HasVideo

LEMMA SavingAdds ==
    ASSUME PipelineInv, NEW s, SaveOutput(s)
    PROVE  KeepsFinished
<1>1. \A t \in WaveStages : t \in outputs => t \in outputs'
  BY DEF SaveOutput, WaveStages
<1>2. videoPath' = videoPath
  BY DEF SaveOutput
<1> QED
  BY <1>1, <1>2 DEF KeepsFinished, HasVideo

LEMMA StepKeeps ==
    ASSUME PipelineInv, KeepInv, [Next]_vars, mode = "continue", pc \notin {"exited", "raised"}
    PROVE  KeepsFinished
<1>1. CASE Trainer
  <2>1. pc \notin EndPcs
    BY DEF KeepInv, ModeInv, EndPcs
  <2>2. Claimed /\ pc # "idle"
    BY <2>1, Parts DEF RowOK, EndPcs
  <2> QED
    BY <1>1, <2>2 DEF Trainer, Generate, Continue, RegenerateVideo, EditBlueprint, Start
<1>2. CASE Wave
  <2>1. ASSUME NEW s \in WaveStages, Clear(s) PROVE KeepsFinished
    <3>1. pc = "clear" /\ s \in wave.clear /\ ClearOutput(s)
      BY <2>1 DEF Clear
    <3>2. ~(stages[s] = "completed" /\ s \in outputs)
      BY <3>1 DEF KeepInv, ResumedInv
    <3>3. s = "slides" => ~external /\ ~Scripted
      BY <3>1, SlidesAreHtml, Parts DEF KeepInv, ResumedInv, WaveOK, WavePcs
    <3> QED
      BY <3>1, <3>2, <3>3, ClearKeeps
  <2>2. ASSUME NEW s \in WaveStages, RetryClears(s) PROVE KeepsFinished
    <3>1. pc = "recover" /\ ClearOutput(s) /\ (s \in wave.recover \/ (s = wave.retrying /\ stages[s] = "failed"))
      BY <2>2 DEF RetryClears
    <3>2. stages[s] # "completed" /\ s \in wave.stages
      BY <3>1, Parts DEF KeepInv, FailuresInv, WaveOK, WavePcs, WaveStages
    <3>3. s = "slides" => ~external /\ ~Scripted
      BY <3>1, <3>2, SlidesAreHtml, Parts DEF WaveOK, WavePcs, Scripted
    <3> QED
      BY <3>1, <3>2, <3>3, ClearKeeps
  <2>3. ASSUME NEW s \in WaveStages, Produce(s) \/ Record(s) PROVE KeepsFinished
    BY <2>3, SavingAdds, NothingDropped DEF Produce, Record, courseVars
  <2>4. CASE RestartFromBlueprint
    BY <2>4 DEF RestartFromBlueprint, KeepInv, ModeInv
  <2>5. CASE RetryProduces
    BY <2>5, SavingAdds DEF RetryProduces
  <2>6. CASE ChooseWave \/ Cleared \/ ResetLaterStages \/ StartWave \/ EndWave \/ RetryRuns
             \/ RetryRecords \/ EndRecovery
    <3>1. outputs' = outputs /\ videoPath' = videoPath
      BY <2>6 DEF ChooseWave, Cleared, ResetLaterStages, StartWave, EndWave, RetryRuns, RetryRecords,
                  EndRecovery, courseVars
    <3> QED
      BY <3>1, NothingDropped
  <2> QED
    BY <1>2, <2>1, <2>2, <2>3, <2>4, <2>5, <2>6 DEF Wave
<1>3. CASE Stage
  <2>1. CASE CheckScripts
    <3>1. pc = "check scripts" /\ outputs' = outputs
      BY <2>1 DEF CheckScripts
    <3>2. ~external
      BY <3>1, Parts DEF StageOK, CheckPcs
    <3>3. ~Complete("scripts") => videoPath = {}
      BY <3>2, CompleteIs, Parts DEF FilesOK, Scripted
    <3>4. videoPath \subseteq videoPath'
      BY <2>1, <3>3 DEF CheckScripts
    <3> QED
      BY <3>1, <3>4, NothingDropped
  <2>2. CASE CheckTts
    BY <2>2 DEF CheckTts, KeepsFinished, HasVideo
  <2>3. CASE SkipStage \/ EnterStage \/ SaveStage \/ LeaveStage \/ FailStage \/ ResetStale \/ Finish
             \/ \E m \in Modules : MakeFile(m) \/ SaveServiceVideo(m)
    <3>1. outputs \subseteq outputs' /\ videoPath \subseteq videoPath'
      BY <2>3 DEF SkipStage, EnterStage, SaveStage, LeaveStage, FailStage, ResetStale, Finish, MakeFile,
                  SaveServiceVideo, courseVars
    <3> QED
      BY <3>1, NothingDropped
  <2> QED
    BY <1>3, <2>1, <2>2, <2>3 DEF Stage
<1>4. CASE ModuleVideo \/ Launch \/ JobEnds \/ ProcessDies \/ ApiRestarts \/ UNCHANGED vars
  <2>1. outputs \subseteq outputs' /\ videoPath \subseteq videoPath'
    BY <1>4 DEF ModuleVideo, NarrateModule, SaveModuleAudio, CompileDecks, RenderModule, SaveModuleVideo,
                FailModuleVideo, Launch, JobEnds, ProcessDies, ApiRestarts, vars, courseVars
  <2> QED
    BY <2>1, NothingDropped
<1> QED
  BY <1>1, <1>2, <1>3, <1>4 DEF Next, Pipeline

\* run_full_course_generation of a Continue (generation/runtime.py): it neither
\* clears nor makes again what a finished stage of the wave has saved, and drops
\* no finished video while the audio it speaks stays.
THEOREM ContinueKeeps ==
    ASSUME ~EarlyVideos
    PROVE  Spec => ContinueKeepsWork
<1>1. PipelineInv /\ KeepInv /\ [Next]_vars => KeepInv'
  BY KeepNext
<1>2. PipelineInv /\ KeepInv /\ [Next]_vars =>
         (mode = "continue" /\ pc \notin {"exited", "raised"} =>
            /\ \A s \in WaveStages : stages[s] = "completed" /\ s \in outputs => s \in outputs'
            /\ \A m \in Modules : HasVideo(m) /\ mp4[m] = "fresh" /\ Complete("tts") => m \in videoPath')
  BY StepKeeps DEF KeepsFinished
<1>3. Spec => [](PipelineInv /\ KeepInv)
  <2>1. PipelineInv /\ [Next]_vars => PipelineInv'
    BY InvNext
  <2> QED
    BY <1>1, <2>1, KeepInit, InvInit, PTL DEF Spec
<1> QED
  BY <1>2, <1>3, PTL DEF Spec, ContinueKeepsWork
=============================================================================
