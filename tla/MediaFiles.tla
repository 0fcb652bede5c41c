------------------------------ MODULE MediaFiles ------------------------------
(***************************************************************************)
(* The files of one module's locally rendered video: its narration         *)
(* (generation/tts.py), the video and its HLS copy (generation/video.py),  *)
(* the captions with what they were made from (generation/captions.py),    *)
(* and a player that loads captions (captionPlayer.js).  All lie at fixed  *)
(* paths.  Processes that make them, a pipeline, a request thread or the   *)
(* backfill script, exclude each other only by a lock file beside the      *)
(* narration and one beside the video; a process that is stopped leaves    *)
(* its lock files behind, until an operator removes them.                  *)
(*                                                                         *)
(* One slide stands for all: `row` is the version of its script in the     *)
(* course's row.  A narration is known by the script it speaks and a       *)
(* number; script 0 is that of a file cut short.                           *)
(***************************************************************************)
EXTENDS Naturals, FiniteSets

CONSTANTS
    Procs,
    Tasks,          \* what each of them may be asked to do
    WithAligner,    \* processes whose environment names an aligner
    None,
    MaxScripts,     \* bound: versions of the script
    MaxFiles        \* bound: narrations and videos that are made

\* What the files say.
WavFile == [script : Nat, n : Nat]
ProofFile == [script : Nat, wav : WavFile]
VideoFile == [n : Nat, wav : WavFile]
SourceFile == [video : Nat, script : Nat, wav : WavFile]
CaptionFile == [video : Nat, script : Nat, wav : WavFile, aligned : BOOLEAN, legacy : BOOLEAN]

ASSUME MediaAssumption ==
    /\ Tasks \in [Procs -> SUBSET {"speak", "video", "videos", "backfill"}]
    /\ WithAligner \subseteq Procs
    /\ {MaxScripts, MaxFiles} \subseteq Nat /\ MaxScripts > 0
    /\ None \notin Nat \cup WavFile \cup ProofFile \cup VideoFile \cup SourceFile \cup CaptionFile

VARIABLES
    row,
    wav, proof,     \* the narration; slide_1.narration.json
    mp4, hls,       \* the video and its HLS copy, by the narration they contain
    source,         \* module_1.source.json: what the video was rendered from
    vtt, meta,      \* the captions; module_1.captions.json
    audioLock, videoLock,
    proc, player,
    files           \* narrations and videos so far

mediaVars == <<row, wav, proof, mp4, hls, source, vtt, meta, audioLock, videoLock, proc, player, files>>

Idle == [pc |-> "idle", kind |-> "speak", script |-> 0, wav |-> None, video |-> None,
         legacy |-> FALSE, alone |-> FALSE]
Closed == [pc |-> "closed", meta |-> None, heard |-> None]

MediaInit ==
    /\ row = 1 /\ files = 0
    /\ wav = None /\ proof = None /\ mp4 = None /\ hls = None
    /\ source = None /\ vtt = None /\ meta = None
    /\ audioLock = FALSE /\ videoLock = FALSE
    /\ proc = [p \in Procs |-> Idle]
    /\ player = Closed

narration == <<wav, proof>>
video == <<mp4, hls, source>>
captions == <<vtt, meta>>
locks == <<audioLock, videoLock>>

\* What p does next; the others are not alone any more.
Does(p, r) ==
    proc' = [q \in Procs |-> IF q = p THEN r ELSE [proc[q] EXCEPT !.alone = FALSE]]
Goes(p, pc) == Does(p, [proc[p] EXCEPT !.pc = pc])
Ends(p) == Does(p, [proc[p] EXCEPT !.pc = "finish", !.wav = None, !.video = None])

\* generate_videos_for_course: a video that exists is only captioned.
FirstStep(kind) ==
    IF kind \in {"speak", "video"} THEN "tts" ELSE IF mp4 = None THEN "render" ELSE "caption"

\* The course is loaded and generation begins: narration alone, a module's
\* video, the videos that a course still lacks, or the backfill script, which
\* decides before it has the lock whether the video is an old one.
Start(p) ==
    /\ proc[p].pc = "idle"
    /\ \E kind \in Tasks[p] :
         /\ kind = "backfill" => mp4 # None
         /\ Does(p, [Idle EXCEPT !.kind = kind, !.script = row,
                        !.legacy = (kind = "backfill" /\ source = None),
                        !.alone = kind = "video" /\ \A q \in Procs \ {p} : proc[q].pc = "idle",
                        !.pc = FirstStep(kind)])
    /\ UNCHANGED <<row, narration, video, captions, locks, player, files>>

\* module_lock: a process that finds the lock file gives up.
Refused(p) ==
    /\ \/ proc[p].pc = "tts" /\ audioLock
       \/ proc[p].pc \in {"render", "caption"} /\ videoLock
    /\ Does(p, Idle)
    /\ UNCHANGED <<row, narration, video, captions, locks, player, files>>
-----------------------------------------------------------------------------
\* Mutant: narration that exists is taken for any script.
AnyNarration(script) == wav # None

\* narration_matches.
Matches(script) == wav # None /\ proof = [script |-> script, wav |-> wav]

\* After narration: a module's video loads the course again.
AfterSpeech(p) ==
    IF proc[p].kind = "speak" THEN Idle
    ELSE [proc[p] EXCEPT !.pc = "render", !.script = row]

\* synthesize_slide_locked: what is there already is kept.
SkipSpeech(p) ==
    /\ proc[p].pc = "tts" /\ ~audioLock /\ Matches(proc[p].script)
    /\ Does(p, AfterSpeech(p))
    /\ UNCHANGED <<row, narration, video, captions, locks, player, files>>

\* The file is opened and written.
BeginSpeech(p) ==
    /\ proc[p].pc = "tts" /\ ~audioLock /\ ~Matches(proc[p].script) /\ files < MaxFiles
    /\ audioLock' = TRUE
    /\ files' = files + 1
    /\ wav' = [script |-> 0, n |-> files']
    /\ Goes(p, "speak")
    /\ UNCHANGED <<row, proof, video, captions, videoLock, player>>

EndSpeech(p) ==
    /\ proc[p].pc = "speak"
    /\ wav' = [wav EXCEPT !.script = proc[p].script]
    /\ Goes(p, "spoken")
    /\ UNCHANGED <<row, proof, video, captions, locks, player, files>>

\* The endpoint failed twice.
SpeechFails(p) ==
    /\ proc[p].pc = "speak"
    /\ audioLock' = FALSE
    /\ Does(p, Idle)
    /\ UNCHANGED <<row, narration, video, captions, videoLock, player, files>>

\* record_narration_source; the lock is released.
ProveSpeech(p) ==
    /\ proc[p].pc = "spoken"
    /\ proof' = [script |-> proc[p].script, wav |-> wav]
    /\ audioLock' = FALSE
    /\ Does(p, AfterSpeech(p))
    /\ UNCHANGED <<row, wav, video, captions, videoLock, player, files>>
-----------------------------------------------------------------------------
\* _render_video_for_module: the inputs are read first; missing narration fails.
BeginRender(p) ==
    /\ proc[p].pc = "render" /\ ~videoLock
    /\ IF wav = None
       THEN Does(p, Idle) /\ UNCHANGED videoLock
       ELSE videoLock' = TRUE /\ Does(p, [proc[p] EXCEPT !.pc = "encode", !.wav = wav])
    /\ UNCHANGED <<row, narration, video, captions, audioLock, player, files>>

\* The clips are encoded and the video replaces the old one.
PublishVideo(p) ==
    /\ proc[p].pc = "encode" /\ files < MaxFiles
    /\ files' = files + 1
    /\ mp4' = [n |-> files', wav |-> wav]
    /\ Goes(p, "package")
    /\ UNCHANGED <<row, narration, hls, source, captions, locks, player>>

\* generate_hls_playlist: the new copy takes the place of the old one.
Package(p) ==
    /\ proc[p].pc = "package"
    /\ hls' = mp4
    /\ Goes(p, "record")
    /\ UNCHANGED <<row, narration, mp4, source, captions, locks, player, files>>

\* Encoding or packaging fails: the old copy stays, the lock goes.
RenderFails(p) ==
    /\ proc[p].pc \in {"encode", "package"}
    /\ videoLock' = FALSE
    /\ Does(p, Idle)
    /\ UNCHANGED <<row, narration, video, captions, audioLock, player, files>>

\* Mutant: the inputs are not compared with those that were read first.
AnyInputs(p) == Matches(proc[p].script)

Unchanged(p) == Matches(proc[p].script) /\ wav = proc[p].wav

\* record_video_source: when it refuses, the video stays without captions.
RecordSource(p) ==
    /\ proc[p].pc = "record"
    /\ IF Unchanged(p)
       THEN /\ source' = [video |-> mp4.n, script |-> proc[p].script, wav |-> wav]
            /\ Goes(p, "rendered")
       ELSE source' = source /\ Ends(p)
    /\ UNCHANGED <<row, narration, mp4, hls, captions, locks, player, files>>
-----------------------------------------------------------------------------
\* _existing_captions.
ValidCaptions == meta # None /\ meta = vtt /\ meta.video = mp4.n

\* Mutant: estimated captions are made although others are there.
KeepNothing(p) == FALSE

\* caption_timing: the process's environment names an aligner.
HasAligner(p) == p \in WithAligner

\* _keep_existing.
KeepExisting(p) == ~HasAligner(p) \/ meta.aligned

SameInputs(p) == source # None /\ source.video = mp4.n /\ source.script = proc[p].script /\ source.wav = wav

\* An old video is captioned when the narration on disk is its soundtrack.
\* Whether the script was spoken is then judged by its length or by how it
\* aligns, which a changed script may pass.
Possible(p) == IF proc[p].legacy THEN mp4.wav = wav ELSE SameInputs(p)

\* Existing captions of the video are kept, or better ones are wanted.  (For a
\* video with a source they are its inputs' captions, as its source is.)
Upgrading(p) == ValidCaptions /\ (proc[p].legacy \/ (~meta.legacy /\ meta.script = proc[p].script /\ meta.wav = wav))

\* generate_module_captions and generate_legacy_module_captions take the lock,
\* unless the render has it.
CheckCaptions(p) ==
    /\ proc[p].pc = "rendered" \/ (proc[p].pc = "caption" /\ ~videoLock)
    /\ videoLock' = TRUE
    /\ IF Possible(p) /\ ~(Upgrading(p) /\ KeepExisting(p))
       THEN Does(p, [proc[p] EXCEPT !.pc = "time", !.wav = wav, !.video = mp4.n])
       ELSE Ends(p)
    /\ UNCHANGED <<row, narration, video, captions, audioLock, player, files>>

\* The script and the narration do not fit, or an alignment fails: captions
\* that are there are kept, else estimated ones are made.
TimingFails(p) ==
    /\ proc[p].pc = "time"
    /\ Ends(p)
    /\ UNCHANGED <<row, narration, video, captions, locks, player, files>>

\* serialize_vtt after a last look at video and narration.
WriteCaptions(p) ==
    /\ proc[p].pc = "time"
    /\ mp4.n = proc[p].video /\ (proc[p].legacy \/ wav = proc[p].wav)
    /\ \E aligned \in BOOLEAN :
         /\ aligned => HasAligner(p)
         /\ ~aligned => ~HasAligner(p) \/ ~Upgrading(p)
         /\ vtt' = [video |-> mp4.n, script |-> proc[p].script, wav |-> proc[p].wav,
                    aligned |-> aligned, legacy |-> proc[p].legacy]
    /\ Goes(p, "meta")
    /\ UNCHANGED <<row, narration, video, meta, locks, player, files>>

WriteMeta(p) ==
    /\ proc[p].pc = "meta"
    /\ meta' = vtt
    /\ Ends(p)
    /\ UNCHANGED <<row, narration, video, vtt, locks, player, files>>

Finish(p) ==
    /\ proc[p].pc = "finish"
    /\ videoLock' = FALSE
    /\ Does(p, Idle)
    /\ UNCHANGED <<row, narration, video, captions, audioLock, player, files>>
-----------------------------------------------------------------------------
\* A pipeline is terminated or a machine stops: no `finally` runs.
Dies(p) ==
    /\ proc[p].pc # "idle"
    /\ Does(p, Idle)
    /\ UNCHANGED <<row, narration, video, captions, locks, player, files>>

\* docs/video-captions-operations.md: when nothing is active.
RemoveLocks ==
    /\ audioLock \/ videoLock
    /\ \A p \in Procs : proc[p].pc = "idle"
    /\ audioLock' = FALSE /\ videoLock' = FALSE
    /\ UNCHANGED <<row, narration, video, captions, proc, player, files>>

\* Other stages or an editor write the script.
Rewrite ==
    /\ row < MaxScripts
    /\ row' = row + 1
    /\ proc' = [p \in Procs |-> [proc[p] EXCEPT !.alone = FALSE]]
    /\ UNCHANGED <<narration, video, captions, locks, player, files>>

\* loadCaptions: metadata, the video's size and date, then the captions.
LoadMeta ==
    /\ player.pc = "closed" /\ meta # None
    /\ player' = [Closed EXCEPT !.pc = "meta", !.meta = meta]
    /\ UNCHANGED <<row, narration, video, captions, locks, proc, files>>

LookAtVideo ==
    /\ player.pc = "meta"
    /\ player' = IF player.meta.video = mp4.n THEN [player EXCEPT !.pc = "head", !.heard = mp4] ELSE Closed
    /\ UNCHANGED <<row, narration, video, captions, locks, proc, files>>

LoadCaptions ==
    /\ player.pc = "head"
    /\ player' = IF vtt = player.meta THEN [player EXCEPT !.pc = "shown"] ELSE Closed
    /\ UNCHANGED <<row, narration, video, captions, locks, proc, files>>

Leave ==
    /\ player.pc = "shown"
    /\ player' = Closed
    /\ UNCHANGED <<row, narration, video, captions, locks, proc, files>>

MediaStep(p) ==
    \/ Start(p) \/ Refused(p)
    \/ SkipSpeech(p) \/ BeginSpeech(p) \/ EndSpeech(p) \/ SpeechFails(p) \/ ProveSpeech(p)
    \/ BeginRender(p) \/ PublishVideo(p) \/ Package(p) \/ RenderFails(p) \/ RecordSource(p)
    \/ CheckCaptions(p) \/ TimingFails(p) \/ WriteCaptions(p) \/ WriteMeta(p)
    \/ Finish(p) \/ Dies(p)

MediaNext ==
    \/ \E p \in Procs : MediaStep(p)
    \/ RemoveLocks \/ Rewrite
    \/ LoadMeta \/ LookAtVideo \/ LoadCaptions \/ Leave

MediaSpec == MediaInit /\ [][MediaNext]_mediaVars
-----------------------------------------------------------------------------
Process ==
    [pc : {"idle", "tts", "speak", "spoken", "render", "encode", "package", "record",
           "rendered", "caption", "time", "meta", "finish"},
     kind : {"speak", "video", "videos", "backfill"}, script : 0..MaxScripts,
     wav : {None} \cup WavFile, video : {None} \cup Nat, legacy : BOOLEAN, alone : BOOLEAN]

MediaTypeOK ==
    /\ row \in 1..MaxScripts /\ files \in 0..MaxFiles
    /\ wav \in {None} \cup WavFile /\ proof \in {None} \cup ProofFile
    /\ {mp4, hls} \subseteq {None} \cup VideoFile
    /\ source \in {None} \cup SourceFile
    /\ {vtt, meta} \subseteq {None} \cup CaptionFile
    /\ {audioLock, videoLock} \subseteq BOOLEAN
    /\ proc \in [Procs -> Process]
    /\ player \in [pc : {"closed", "meta", "head", "shown"}, meta : {None} \cup CaptionFile,
                   heard : {None} \cup VideoFile]

\* Captions that a player accepts say what the video it asked about speaks, at
\* its times: whatever was rendered, spoken, rewritten, captioned or stopped
\* between its three requests and before.  (Captions of old videos, which have
\* no source, are not meant: their script is only judged.)
AcceptedFits ==
    player.pc = "shown" /\ ~player.meta.legacy =>
        /\ player.meta.video = player.heard.n
        /\ player.meta.wav = player.heard.wav /\ player.meta.script = player.heard.wav.script

\* Aligned captions of a video are replaced by estimated ones only after the
\* video itself was: not by a second run, a backfill, or a lost aligner.  (It
\* does happen to captions that a backfill made as an old video's while its
\* source was being recorded.)
NeverDowngraded ==
    [][meta # None /\ meta = vtt /\ meta.aligned /\ ~meta.legacy /\ meta.video = mp4.n /\ mp4' = mp4
         => vtt'.aligned]_<<vtt, meta>>

\* A module's video that was made undisturbed speaks the script it was made
\* for, and so does its HLS copy: whatever narration, copies and locks earlier
\* runs left, which were cut short, failed, or spoke another script.
SpokenIsWritten ==
    \A p \in Procs : proc[p].pc = "finish" /\ proc[p].kind = "video" /\ proc[p].alone =>
        hls = mp4 /\ mp4.wav.script = proc[p].script
=============================================================================
