------------------------- MODULE CourseEditingProofs -------------------------
(***************************************************************************)
(* Proofs about CourseEditing, for any number of requests, edits, jobs and *)
(* failures.                                                               *)
(***************************************************************************)
EXTENDS CourseEditing, TLAPS

LEMMA Bounds == 0 \in Texts /\ MaxEdits \in Nat /\ MaxJobs \in Nat /\ MaxFaults \in Nat
  BY EditingAssumption DEF EditingAssumption, Texts

LEMMA Constants == Gone \in Row /\ NoJob \in [pc : Steps, full : BOOLEAN, service : BOOLEAN, seen : Row]
<1>1. Gone \in Row
  BY Bounds DEF Gone, Row
<1> QED
  BY <1>1 DEF NoJob, Steps

LEMMA InitTypeOK == Init => TypeOK
<1> SUFFICES ASSUME Init PROVE TypeOK
  OBVIOUS
<1>1. row \in Row
  BY Constants DEF Init, Row
<1>2. count \in [edits : 0..MaxEdits, jobs : 0..MaxJobs, faults : 0..MaxFaults]
  BY Bounds DEF Init
<1> QED
  BY <1>1, <1>2, Constants DEF Init, TypeOK

LEMMA EditedType ==
    ASSUME TypeOK, NEW kind \in Kinds, NEW c \in Row
    PROVE  Edited(kind, c) \in Row
<1>1. count.edits \in Texts
  BY DEF TypeOK, Texts
<1>2. ASSUME NEW d \in Row PROVE Invalidated(d) \in Row
  BY DEF Invalidated, Row
<1>3. [c EXCEPT !.text = count.edits] \in Row
  BY <1>1 DEF Row
<1>4. [c EXCEPT !.service = ~@] \in Row
  BY DEF Row
<1>5. [c EXCEPT !.quiz = ByHand] \in Row
  BY DEF Row
<1> QED
  BY <1>2, <1>3, <1>4, <1>5 DEF Edited, Kinds

LEMMA SavedType ==
    ASSUME TypeOK, NEW c \in Row, NEW status \in {"draft", "ready", "published"},
           NEW release \in BOOLEAN
    PROVE  Saved(c, status, release) \in Row
<1> DEFINE w == row.worker /\ ~release
<1>1. w \in BOOLEAN
  OBVIOUS
<1> HIDE DEF w
<1>2. [c EXCEPT !.there = TRUE, !.status = status, !.worker = w] \in Row
  BY <1>1 DEF Row
<1> QED
  BY <1>2 DEF Saved, w

LEMMA NextTypeOK == TypeOK /\ [Next]_vars => TypeOK'
<1> SUFFICES ASSUME TypeOK, [Next]_vars PROVE TypeOK'
  OBVIOUS
<1>b. ASSUME NEW pc \in Steps, Goto(pc) \/ Took(pc)
      PROVE  job' \in [pc : Steps, full : BOOLEAN, service : BOOLEAN, seen : Row]
  BY <1>b, Constants DEF Goto, Took, TypeOK
<1>1. ASSUME NEW r \in Requests, NEW kind \in Kinds, Read(r, kind)
      PROVE  TypeOK'
  BY <1>1, Bounds DEF Read, TypeOK
<1>2. ASSUME NEW r \in Requests, Save(r)
      PROVE  TypeOK'
  <2>1. req[r].kind \in Kinds /\ req[r].seen \in Row
    BY <1>2 DEF Save, TypeOK
  <2>2. ReleasesWorker(req[r].kind) \in BOOLEAN
    BY DEF ReleasesWorker
  <2>3. Edited(req[r].kind, req[r].seen) \in Row
    BY <2>1, EditedType
  <2>4. Saved(Edited(req[r].kind, req[r].seen), "draft", ReleasesWorker(req[r].kind)) \in Row
    BY <2>2, <2>3, SavedType
  <2>5. row' \in Row
    BY <1>2, <2>4 DEF Save, TypeOK
  <2>6. crossed' \in BOOLEAN
    BY <1>2 DEF Save, TypeOK
  <2> QED
    BY <1>2, <2>5, <2>6 DEF Save, TypeOK
<1>3. CASE Publish \/ Disable \/ Delete
  BY ZenonT(60), <1>3, Constants DEF Publish, Disable, Delete, TypeOK, Row
<1>4. ASSUME NEW full \in BOOLEAN, Submit(full)
      PROVE  TypeOK'
  <2>1. row' \in Row
    BY <1>4 DEF Submit, TypeOK, Row
  <2>2. job' \in [pc : Steps, full : BOOLEAN, service : BOOLEAN, seen : Row]
    BY <1>4, Constants DEF Submit, Steps
  <2>3. count' \in [edits : 0..MaxEdits, jobs : 0..MaxJobs, faults : 0..MaxFaults]
    BY <1>4, Bounds DEF Submit, TypeOK
  <2> QED
    BY <1>4, <2>1, <2>2, <2>3 DEF Submit, jobOnly, TypeOK
<1>5. CASE Begin \/ Start \/ Monitor
  <2>1. row' \in Row
    BY <1>5 DEF Begin, Start, Monitor, TypeOK, Row
  <2>2. job' \in [pc : Steps, full : BOOLEAN, service : BOOLEAN, seen : Row]
    BY ZenonT(60), <1>5, Constants, <1>b DEF Begin, Start, Monitor, TypeOK, Row, Steps
  <2> QED
    BY <1>5, <2>1, <2>2 DEF Begin, Start, Monitor, jobOnly, TypeOK
<1>6. ASSUME NEW from \in Steps, NEW to \in Steps, Load(from, to)
      PROVE  TypeOK'
  <2>1. job' \in [pc : Steps, full : BOOLEAN, service : BOOLEAN, seen : Row]
    BY <1>6, <1>b DEF Load, Steps
  <2> QED
    BY <1>6, <2>1 DEF Load, jobOnly, TypeOK
<1>7. CASE Invalidate \/ Ready \/ Finish
  <2>1. job.seen \in Row /\ job.seen.status \in {"draft", "ready", "published"}
    BY DEF TypeOK, Row
  <2>2. Invalidated(job.seen) \in Row /\ [job.seen EXCEPT !.gen = "completed"] \in Row
    BY <2>1 DEF Invalidated, Row
  <2>3. row' \in Row
    BY ZenonT(60), <1>7, <2>1, <2>2, SavedType DEF Invalidate, Ready, Finish, TypeOK
  <2>4. job' \in [pc : Steps, full : BOOLEAN, service : BOOLEAN, seen : Row]
    BY <1>7, <1>b DEF Invalidate, Ready, Finish, Steps
  <2> QED
    BY <1>7, <2>3, <2>4 DEF Invalidate, Ready, Finish, jobOnly, TypeOK
<1>8. CASE WriteQuiz \/ WriteVideo
  <2>1. job.seen.text \in Texts /\ job.service \in BOOLEAN
    BY DEF TypeOK, Row
  <2>2. row \in Row
    BY DEF TypeOK
  <2>3. ASSUME WriteQuiz PROVE row' \in Row
    BY <2>1, <2>2, <2>3 DEF WriteQuiz, Row
  <2>4. ASSUME WriteVideo PROVE row' \in Row
    <3> DEFINE video == IF job.seen.video = None
                        THEN [text |-> job.seen.text, service |-> job.service] ELSE row.video
    <3>1. video \in {None} \cup Video
      BY <2>1, <2>2 DEF Video, Row
    <3> HIDE DEF video
    <3>2. [row EXCEPT !.gen = "running", !.video = video] \in Row
      BY <2>2, <3>1 DEF Row
    <3> QED
      BY <2>2, <2>4, <3>2 DEF WriteVideo, video
  <2>5. row' \in Row
    BY <1>8, <2>3, <2>4
  <2>6. job' \in [pc : Steps, full : BOOLEAN, service : BOOLEAN, seen : Row]
    BY <1>8, <1>b DEF WriteQuiz, WriteVideo, Steps
  <2> QED
    BY <1>8, <2>5, <2>6 DEF WriteQuiz, WriteVideo, jobOnly, TypeOK
<1>9. CASE Fault
  <2>1. row' \in Row
    BY <1>9 DEF Fault, TypeOK, Row
  <2>2. job' \in [pc : Steps, full : BOOLEAN, service : BOOLEAN, seen : Row]
    BY <1>9, <1>b DEF Fault, Steps
  <2>3. count' \in [edits : 0..MaxEdits, jobs : 0..MaxJobs, faults : 0..MaxFaults]
    BY <1>9, Bounds DEF Fault, TypeOK
  <2> QED
    BY <1>9, <2>1, <2>2, <2>3 DEF Fault, jobOnly, TypeOK
<1>10. CASE UNCHANGED vars
  BY <1>10 DEF vars, TypeOK
<1> QED
  BY <1>1, <1>2, <1>3, <1>4, <1>5, <1>6, <1>7, <1>8, <1>9, <1>10 DEF Next, Job, Steps

\* The row always has its type.
THEOREM TypeCorrect == Spec => []TypeOK
<1> QED
  BY InitTypeOK, NextTypeOK, PTL DEF Spec

-----------------------------------------------------------------------------
(* The inductive invariant.  As long as no request has saved over changes  *)
(* it had not seen: what any copy of the course holds was made from that   *)
(* copy's text by its engine, a job that works holds the course, and the   *)
(* text and engine a job has read are still the course's.                  *)

FromItsText(c) ==
    /\ c.video # None => c.video = [text |-> c.text, service |-> c.service]
    /\ c.quiz # None => c.quiz \in {ByHand, c.text}
Sound(c) == FromItsText(c) /\ (c.status # "draft" => Complete(c))

Started == {"load", "invalidate", "quiz", "write_quiz", "video", "write_video", "publish",
            "ready", "finish", "end"}
Holding == {"invalidate", "write_quiz", "write_video", "ready", "end"}

JobHolds == job.pc \in {"queued", "start"} \cup Started =>
                row.there /\ row.worker /\ row.gen \in {"pending", "running"}
JobKnows ==
    /\ job.pc \in Started => job.service = row.service
    /\ job.pc \in Holding =>
          /\ job.seen.text = row.text /\ job.seen.service = row.service
          /\ job.seen.gen \in {"pending", "running"}
CopiesSound ==
    /\ Sound(row) /\ Sound(job.seen)
    /\ \A r \in Requests : req[r] # None => Sound(req[r].seen)

EditingInv == TypeOK /\ (~crossed => JobHolds /\ JobKnows /\ CopiesSound)

\* What a save of c leaves in the row.
Keeps(new, c, status) ==
    /\ new.there = TRUE /\ new.status = status /\ new.text = c.text /\ new.service = c.service
    /\ new.quiz = c.quiz /\ new.video = c.video /\ new.gen = c.gen

LEMMA SavedFields ==
    ASSUME TypeOK, NEW c \in Row, NEW status, NEW release \in BOOLEAN
    PROVE  /\ Keeps(Saved(c, status, release), c, status)
           /\ ~release => Saved(c, status, release).worker = row.worker
<1> DEFINE w == row.worker /\ ~release
<1>1. ~release => w = row.worker
  BY DEF TypeOK, Row
<1> HIDE DEF w
<1>2. LET s == [c EXCEPT !.there = TRUE, !.status = status, !.worker = w]
      IN Keeps(s, c, status) /\ s.worker = w
  BY DEF Row, Keeps
<1> QED
  BY <1>1, <1>2 DEF Saved, w

\* What an edit of a copy leaves of the outputs was made from the edited copy.
LEMMA EditedFromItsText ==
    ASSUME TypeOK, NEW kind \in Kinds, NEW c \in Row, FromItsText(c)
    PROVE  FromItsText(Edited(kind, c))
<1>1. ASSUME NEW d \in Row PROVE FromItsText(Invalidated(d))
  BY DEF Invalidated, FromItsText, Row
<1>2. CASE kind = "text"
  <2>1. count.edits \in Texts
    BY DEF TypeOK, Texts
  <2>2. [c EXCEPT !.text = count.edits] \in Row
    BY <2>1 DEF Row
  <2> QED
    BY <1>1, <1>2, <2>2 DEF Edited
<1>3. CASE kind = "engine"
  <2>1. [c EXCEPT !.service = ~@] \in Row
    BY DEF Row
  <2>2. CASE HasGeneratedContent(c)
    BY <1>1, <1>3, <2>1, <2>2 DEF Edited
  <2>3. CASE ~HasGeneratedContent(c)
    <3>1. Edited(kind, c) = [c EXCEPT !.service = ~@]
      BY <1>3, <2>3 DEF Edited
    <3>2. c.quiz = None /\ c.video = None
      BY <2>3 DEF HasGeneratedContent
    <3>3. Edited(kind, c).quiz = None /\ Edited(kind, c).video = None
      BY <3>1, <3>2 DEF Row
    <3> QED
      BY <3>3 DEF FromItsText
  <2> QED
    BY <2>2, <2>3
<1>4. CASE kind = "quiz"
  BY <1>4 DEF Edited, FromItsText, Row
<1>5. CASE kind = "same"
  BY <1>5 DEF Edited
<1> QED
  BY <1>2, <1>3, <1>4, <1>5 DEF Kinds

\* An edit that does not release the worker leaves text, engine and status of
\* the generation as they are.
LEMMA SmallEdit ==
    ASSUME NEW kind \in Kinds, NEW c \in Row, ~ReleasesWorker(kind)
    PROVE  /\ Edited(kind, c).text = c.text /\ Edited(kind, c).service = c.service
           /\ Edited(kind, c).gen = c.gen
<1>1. kind \in {"quiz", "same"}
  BY DEF Kinds, ReleasesWorker
<1> QED
  BY <1>1 DEF Edited, Row

LEMMA InitInv == Init => EditingInv
  BY InitTypeOK DEF Init, EditingInv, JobHolds, JobKnows, CopiesSound, Sound, FromItsText,
     NoJob, Gone, Started, Holding

LEMMA GoneSound == Sound(Gone)
  BY DEF Gone, Sound, FromItsText

\* A save by a request keeps the invariant.
LEMMA SaveInv ==
    ASSUME EditingInv, NEW r \in Requests, Save(r), ~crossed'
    PROVE  JobHolds' /\ JobKnows' /\ CopiesSound'
<1> DEFINE kind == req[r].kind
           seen == req[r].seen
           release == ReleasesWorker(kind)
           new == Saved(Edited(kind, seen), "draft", release)
<1>1. TypeOK /\ JobHolds /\ JobKnows /\ CopiesSound /\ ~crossed
  BY DEF EditingInv, Save
<1>2. req[r] # None /\ kind \in Kinds /\ seen \in Row
  BY <1>1 DEF Save, TypeOK
<1>3. job' = job /\ \A q \in Requests : req'[q] # None => req'[q] = req[q]
  BY <1>1 DEF Save, TypeOK
<1>4. CASE release /\ GenerationJobActive(row)
  <2>1. row' = row
    BY <1>4 DEF Save
  <2> QED
    BY <1>1, <1>3, <2>1 DEF JobHolds, JobKnows, CopiesSound, Sound, FromItsText, Complete
<1>5. CASE ~(release /\ GenerationJobActive(row))
  <2>1. row' = new /\ row.there /\ (release \/ row = seen)
    BY <1>1, <1>5 DEF Save
  <2>2. Edited(kind, seen) \in Row
    BY <1>1, <1>2, EditedType
  <2>r. release \in BOOLEAN
    BY DEF ReleasesWorker
  <2>3. Keeps(new, Edited(kind, seen), "draft") /\ (~release => new.worker = row.worker)
    BY <1>1, <2>r, <2>2, SavedFields
  <2>4. FromItsText(seen)
    BY <1>1, <1>2 DEF CopiesSound, Sound
  <2>5. FromItsText(Edited(kind, seen))
    BY <1>1, <1>2, <2>4, EditedFromItsText
  <2>6. Sound(new)
    BY <2>3, <2>5 DEF Sound, FromItsText, Keeps
  <2>7. CopiesSound'
    BY <1>1, <1>3, <2>1, <2>6 DEF CopiesSound
  <2>8. CASE job.pc \in {"queued", "start"} \cup Started
    <3>1. GenerationJobActive(row)
      BY <1>1, <2>8 DEF JobHolds, GenerationJobActive
    <3>2. ~release /\ row = seen
      BY <1>5, <2>1, <3>1
    <3>3. /\ new.text = row.text /\ new.service = row.service /\ new.gen = row.gen
          /\ new.worker = row.worker
      BY <1>1, <1>2, <2>3, <3>2, SmallEdit DEF Keeps
    <3> QED
      BY <1>1, <1>3, <2>1, <2>3, <2>7, <3>3 DEF Keeps, JobHolds, JobKnows, Started, Holding
  <2>9. CASE job.pc \notin {"queued", "start"} \cup Started
    BY <1>3, <2>7, <2>9 DEF JobHolds, JobKnows, Started, Holding
  <2> QED
    BY <2>8, <2>9
<1> QED
  BY <1>4, <1>5

\* So does what the job writes.
LEMMA JobSaveInv ==
    ASSUME EditingInv, Invalidate \/ Ready \/ Finish, ~crossed'
    PROVE  JobHolds' /\ JobKnows' /\ CopiesSound'
<1>0. ~crossed /\ req' = req
  <2>1. UNCHANGED jobOnly
    BY DEF Invalidate, Ready, Finish
  <2> QED
    BY <2>1 DEF jobOnly
<1>1. TypeOK /\ JobHolds /\ JobKnows /\ CopiesSound
  BY <1>0 DEF EditingInv
<1>2. job.seen \in Row /\ Sound(job.seen)
  BY <1>1 DEF TypeOK, CopiesSound
<1>3. job'.service = job.service /\ job'.seen = Gone /\ Sound(Gone)
  <2>1. \E pc : Goto(pc)
    BY DEF Invalidate, Ready, Finish
  <2> QED
    BY <1>1, <2>1, GoneSound DEF Goto, TypeOK
<1>4. /\ job.pc \in Holding \cap Started
      /\ row.there /\ row.worker /\ job.service = row.service
      /\ job.seen.text = row.text /\ job.seen.service = row.service
      /\ job.seen.gen \in {"pending", "running"}
  BY <1>1 DEF Invalidate, Ready, Finish, JobAt, JobHolds, JobKnows, Holding, Started
<1>c. ASSUME Sound(row') PROVE CopiesSound'
  BY <1>c, <1>0, <1>1, <1>3 DEF CopiesSound, Sound, FromItsText, Complete
<1>5. CASE Invalidate
  <2> DEFINE c == Invalidated(job.seen)
  <2>1. c \in Row /\ c.text = job.seen.text /\ c.service = job.seen.service
        /\ c.quiz = None /\ c.video = None /\ c.gen = "pending"
    BY <1>2 DEF Invalidated, Row
  <2>2. /\ Keeps(Saved(c, "draft", FALSE), c, "draft")
        /\ Saved(c, "draft", FALSE).worker = row.worker
    BY <1>1, <2>1, SavedFields
  <2>3. row' = Saved(c, "draft", FALSE) /\ job'.pc = "quiz"
    BY <1>1, <1>5 DEF Invalidate, Goto, TypeOK
  <2>4. Sound(row')
    BY <2>1, <2>2, <2>3 DEF Sound, FromItsText, Keeps
  <2>5. JobHolds' /\ JobKnows'
    BY <1>3, <1>4, <2>1, <2>2, <2>3 DEF JobHolds, JobKnows, Keeps, Started, Holding
  <2> QED
    BY <1>c, <2>4, <2>5
<1>6. CASE Ready
  <2>1. CASE Complete(job.seen)
    <3>1. /\ Keeps(Saved(job.seen, "ready", FALSE), job.seen, "ready")
          /\ Saved(job.seen, "ready", FALSE).worker = row.worker
      BY <1>1, <1>2, SavedFields
    <3>2. row' = Saved(job.seen, "ready", FALSE) /\ job'.pc = "finish"
      BY <1>1, <1>6, <2>1 DEF Ready, Goto, TypeOK
    <3>3. Sound(row')
      BY <1>2, <2>1, <3>1, <3>2 DEF Sound, FromItsText, Complete, Keeps
    <3>4. JobHolds' /\ JobKnows'
      BY <1>3, <1>4, <3>1, <3>2 DEF JobHolds, JobKnows, Keeps, Started, Holding
    <3> QED
      BY <1>c, <3>3, <3>4
  <2>2. CASE ~Complete(job.seen)
    <3>1. row' = row /\ job'.pc = "failed"
      BY <1>1, <1>6, <2>2 DEF Ready, Goto, TypeOK
    <3>2. JobHolds' /\ JobKnows'
      BY <3>1 DEF JobHolds, JobKnows, Started, Holding
    <3>3. Sound(row')
      BY <1>1, <3>1 DEF CopiesSound
    <3> QED
      BY <1>c, <3>2, <3>3
  <2> QED
    BY <2>1, <2>2
<1>7. CASE Finish
  <2> DEFINE c == [job.seen EXCEPT !.gen = "completed"]
  <2>1. c \in Row /\ c.text = job.seen.text /\ c.service = job.seen.service
        /\ c.quiz = job.seen.quiz /\ c.video = job.seen.video
    BY <1>2 DEF Row
  <2>2. /\ Keeps(Saved(c, job.seen.status, FALSE), c, job.seen.status)
        /\ Saved(c, job.seen.status, FALSE).worker = row.worker
    BY <1>1, <2>1, SavedFields
  <2>3. row' = Saved(c, job.seen.status, FALSE) /\ job'.pc = "done"
    BY <1>1, <1>7 DEF Finish, Goto, TypeOK
  <2>4. Sound(row')
    BY <1>2, <2>1, <2>2, <2>3 DEF Sound, FromItsText, Complete, Keeps
  <2>5. JobHolds' /\ JobKnows'
    BY <2>3 DEF JobHolds, JobKnows, Started, Holding
  <2> QED
    BY <1>c, <2>4, <2>5
<1> QED
  BY <1>5, <1>6, <1>7

\* So does every other step.
LEMMA NextInv == EditingInv /\ [Next]_vars => EditingInv'
<1> SUFFICES ASSUME EditingInv, [Next]_vars, ~crossed'
             PROVE  JobHolds' /\ JobKnows' /\ CopiesSound'
  BY NextTypeOK DEF EditingInv
<1>0. TypeOK
  BY DEF EditingInv
<1>u. ASSUME ~crossed, req' = req, Sound(row'), Sound(job'.seen)
      PROVE  CopiesSound'
  BY <1>u DEF EditingInv, CopiesSound, Sound, FromItsText, Complete
<1>1. ASSUME NEW r \in Requests, Save(r)
      PROVE  JobHolds' /\ JobKnows' /\ CopiesSound'
  BY <1>1, SaveInv
<1>2. ASSUME NEW r \in Requests, NEW kind \in Kinds, Read(r, kind)
      PROVE  JobHolds' /\ JobKnows' /\ CopiesSound'
  <2>1. ~crossed /\ row' = row /\ job' = job
    BY <1>2 DEF Read
  <2>2. ASSUME NEW q \in Requests, req'[q] # None
        PROVE  req'[q].seen = row \/ req'[q] = req[q]
    BY <1>0, <1>2, <2>2 DEF Read, TypeOK
  <2> QED
    BY <2>1, <2>2 DEF EditingInv, JobHolds, JobKnows, CopiesSound, Sound, FromItsText, Complete
<1>3. CASE Invalidate \/ Ready \/ Finish
  BY <1>3, JobSaveInv
<1>4. CASE Publish
  <2>1. ~crossed /\ req' = req /\ job' = job
    BY <1>4 DEF Publish
  <2>2. /\ row'.there = row.there /\ row'.worker = row.worker /\ row'.gen = row.gen
        /\ row'.text = row.text /\ row'.service = row.service /\ row'.quiz = row.quiz
        /\ row'.video = row.video
    BY <1>0, <1>4 DEF Publish, TypeOK, Row
  <2>3. Sound(row') /\ Sound(job.seen)
    BY <1>4, <2>1, <2>2 DEF Publish, EditingInv, CopiesSound, Sound, FromItsText, Complete
  <2>4. JobHolds' /\ JobKnows'
    BY <2>1, <2>2 DEF EditingInv, JobHolds, JobKnows
  <2> QED
    BY <1>u, <2>1, <2>3, <2>4
<1>5. CASE Disable \/ UNCHANGED vars
  <2>1. UNCHANGED <<row, req, job, crossed>>
    BY <1>5 DEF Disable, vars
  <2> QED
    BY <2>1 DEF EditingInv, JobHolds, JobKnows, CopiesSound
<1>6. CASE Delete
  <2>1. ~crossed /\ req' = req /\ job' = job /\ row' = Gone
    BY <1>6 DEF Delete
  <2>2. job.pc \notin {"queued", "start"} \cup Started
    BY <1>6, <2>1 DEF Delete, MayDelete, GenerationJobActive, EditingInv, JobHolds
  <2>3. JobHolds' /\ JobKnows'
    BY <2>1, <2>2 DEF JobHolds, JobKnows, Started, Holding
  <2> QED
    BY <1>u, <2>1, <2>3, GoneSound DEF EditingInv, CopiesSound
<1>7. ASSUME NEW full \in BOOLEAN, Submit(full)
      PROVE  JobHolds' /\ JobKnows' /\ CopiesSound'
  <2>1. ~crossed /\ req' = req /\ job'.pc = "queued" /\ job'.seen = Gone
    BY <1>7 DEF Submit, NoJob, jobOnly
  <2>2. /\ row'.there = TRUE /\ row'.worker = TRUE /\ row'.gen = "pending"
        /\ row'.text = row.text /\ row'.service = row.service /\ row'.quiz = row.quiz
        /\ row'.video = row.video /\ row'.status = row.status
    BY <1>0, <1>7 DEF Submit, TypeOK, Row
  <2>3. Sound(row')
    BY <2>1, <2>2 DEF EditingInv, CopiesSound, Sound, FromItsText, Complete
  <2>4. JobHolds' /\ JobKnows'
    BY <2>1, <2>2 DEF JobHolds, JobKnows, Started, Holding
  <2> QED
    BY <1>u, <2>1, <2>3, <2>4, GoneSound
<1>8. CASE Begin \/ Fault \/ Monitor
  <2>1. ~crossed /\ req' = req
    BY <1>8 DEF Begin, Fault, Monitor, jobOnly
  <2>2. /\ job'.pc \in {"start", "none", "failed"} /\ job'.seen = Gone
        /\ job'.pc = "start" => Begin
    <3>1. ASSUME Begin PROVE job'.pc = "start" /\ job'.seen = Gone
      BY <1>0, <3>1 DEF Begin, Goto, TypeOK
    <3>2. ASSUME Fault PROVE job'.pc = "failed" /\ job'.seen = Gone
      BY <1>0, <3>2 DEF Fault, Goto, TypeOK
    <3>3. ASSUME Monitor PROVE job'.pc = "none" /\ job'.seen = Gone
      BY <3>3 DEF Monitor, NoJob
    <3> QED
      BY <1>8, <3>1, <3>2, <3>3
  <2>3. /\ row'.there = row.there /\ row'.worker = row.worker
        /\ row'.text = row.text /\ row'.service = row.service /\ row'.quiz = row.quiz
        /\ row'.video = row.video /\ row'.status = row.status
    BY <1>0, <1>8 DEF Begin, Fault, Monitor, TypeOK, Row
  <2>4. Sound(row')
    BY <2>1, <2>3 DEF EditingInv, CopiesSound, Sound, FromItsText, Complete
  <2>5. ASSUME job'.pc = "start"
        PROVE  row'.there /\ row'.worker /\ row'.gen \in {"pending", "running"}
    <3>1. Begin
      BY <2>2, <2>5
    <3>2. row.there /\ row.worker
      BY <2>1, <3>1 DEF EditingInv, JobHolds, Begin, JobAt
    <3> QED
      BY <1>0, <2>3, <3>1, <3>2 DEF Begin, TypeOK, Row
  <2>6. JobHolds' /\ JobKnows'
    BY <2>2, <2>5 DEF JobHolds, JobKnows, Started, Holding
  <2> QED
    BY <1>u, <2>1, <2>2, <2>4, <2>6, GoneSound
<1>9. CASE Start
  <2>1. ~crossed /\ req' = req /\ row' = row
    BY <1>9 DEF Start, jobOnly
  <2>2. /\ job.pc = "start" /\ job'.seen = job.seen /\ job'.service = row.service
        /\ job'.pc \in {"failed", "load", "quiz"}
    BY <1>0, <1>9 DEF Start, JobAt, TypeOK
  <2>3. JobHolds' /\ JobKnows'
    BY <2>1, <2>2 DEF EditingInv, JobHolds, JobKnows, Started, Holding
  <2> QED
    BY <1>u, <2>1, <2>2, <2>3 DEF EditingInv, CopiesSound
<1>10. ASSUME NEW from \in Started \ Holding, NEW to \in Holding, Load(from, to)
       PROVE  JobHolds' /\ JobKnows' /\ CopiesSound'
  <2>1. ~crossed /\ req' = req /\ row' = row /\ job.pc = from
    BY <1>10 DEF Load, jobOnly, JobAt
  <2>2. JobHolds /\ JobKnows /\ CopiesSound
    BY <2>1 DEF EditingInv
  <2>3. row.there /\ row.worker /\ row.gen \in {"pending", "running"} /\ job.service = row.service
    BY <2>1, <2>2 DEF JobHolds, JobKnows
  <2>4. job'.pc = to /\ job'.seen = row /\ job'.service = job.service
    BY <1>0, <1>10, <2>3 DEF Load, Took, TypeOK
  <2>5. JobHolds' /\ JobKnows'
    BY <2>1, <2>3, <2>4 DEF JobHolds, JobKnows
  <2> QED
    BY <1>u, <2>1, <2>2, <2>4, <2>5 DEF CopiesSound
<1>11. CASE WriteQuiz \/ WriteVideo
  <2>1. ~crossed /\ req' = req
    BY <1>11 DEF WriteQuiz, WriteVideo, jobOnly
  <2>2. JobHolds /\ JobKnows /\ CopiesSound
    BY <2>1 DEF EditingInv
  <2>3. job.pc \in Started \cap Holding
    BY <1>11 DEF WriteQuiz, WriteVideo, JobAt, Started, Holding
  <2>4. row.there /\ row.worker /\ job.service = row.service /\ job.seen.text = row.text
    BY <2>2, <2>3 DEF JobHolds, JobKnows
  <2>5. job'.pc \in {"video", "publish"} /\ job'.seen = Gone /\ job'.service = job.service
    BY <1>0, <1>11, <2>4 DEF WriteQuiz, WriteVideo, Goto, TypeOK
  <2>6. /\ row'.there = row.there /\ row'.worker = row.worker /\ row'.gen = "running"
        /\ row'.text = row.text /\ row'.service = row.service /\ row'.status = row.status
        /\ row'.quiz \in {row.quiz, row.text}
        /\ row'.video \in {row.video, [text |-> row.text, service |-> row.service]}
    <3>1. ASSUME NEW quiz, NEW video
          PROVE  LET new == [row EXCEPT !.gen = "running", !.quiz = quiz]
                     shown == [row EXCEPT !.gen = "running", !.video = video]
                 IN /\ new.there = row.there /\ new.worker = row.worker /\ new.gen = "running"
                    /\ new.text = row.text /\ new.service = row.service
                    /\ new.status = row.status /\ new.quiz = quiz /\ new.video = row.video
                    /\ shown.there = row.there /\ shown.worker = row.worker
                    /\ shown.gen = "running" /\ shown.text = row.text
                    /\ shown.service = row.service /\ shown.status = row.status
                    /\ shown.quiz = row.quiz /\ shown.video = video
      BY <1>0 DEF TypeOK, Row
    <3>2. ASSUME WriteQuiz
          PROVE  \E quiz \in {row.quiz, row.text} : row' = [row EXCEPT !.gen = "running", !.quiz = quiz]
      <4> DEFINE quiz == IF job.seen.quiz = None THEN job.seen.text ELSE row.quiz
      <4>1. row' = [row EXCEPT !.gen = "running", !.quiz = quiz]
        BY <2>4, <3>2 DEF WriteQuiz
      <4>2. quiz \in {row.quiz, row.text}
        BY <2>4
      <4> QED
        BY <4>1, <4>2
    <3>3. ASSUME WriteVideo
          PROVE  \E video \in {row.video, [text |-> row.text, service |-> row.service]} :
                     row' = [row EXCEPT !.gen = "running", !.video = video]
      <4> DEFINE video == IF job.seen.video = None
                          THEN [text |-> job.seen.text, service |-> job.service] ELSE row.video
      <4>1. row' = [row EXCEPT !.gen = "running", !.video = video]
        BY <2>4, <3>3 DEF WriteVideo
      <4>2. video \in {row.video, [text |-> row.text, service |-> row.service]}
        BY <2>4
      <4> QED
        BY <4>1, <4>2
    <3>4. CASE WriteQuiz
      <4>1. PICK quiz \in {row.quiz, row.text} : row' = [row EXCEPT !.gen = "running", !.quiz = quiz]
        BY <3>2, <3>4
      <4> QED
        BY <3>1, <4>1
    <3>5. CASE WriteVideo
      <4>1. PICK video \in {row.video, [text |-> row.text, service |-> row.service]} :
                row' = [row EXCEPT !.gen = "running", !.video = video]
        BY <3>3, <3>5
      <4> QED
        BY <3>1, <4>1
    <3> QED
      BY <1>11, <3>4, <3>5
  <2>7. Sound(row')
    <3>1. Sound(row)
      BY <2>2 DEF CopiesSound
    <3>t. row.text # None /\ [text |-> row.text, service |-> row.service] # None
      BY <1>0, EditingAssumption DEF EditingAssumption, TypeOK, Row, Texts
    <3>2. row'.video # None => row'.video = [text |-> row'.text, service |-> row'.service]
      BY <2>6, <3>1 DEF Sound, FromItsText
    <3>3. row'.quiz # None => row'.quiz \in {ByHand, row'.text}
      BY <2>6, <3>1 DEF Sound, FromItsText
    <3> QED
      BY <2>6, <3>1, <3>t, <3>2, <3>3 DEF Sound, FromItsText, Complete
  <2>8. JobHolds' /\ JobKnows'
    BY <2>4, <2>5, <2>6 DEF JobHolds, JobKnows, Started, Holding
  <2> QED
    BY <1>u, <2>1, <2>5, <2>7, <2>8, GoneSound
<1> QED
  BY <1>1, <1>2, <1>3, <1>4, <1>5, <1>6, <1>7, <1>8, <1>9, <1>10, <1>11
     DEF Next, Job, Started, Holding

LEMMA AlwaysInv == Spec => []EditingInv
  BY InitInv, NextInv, PTL DEF Spec

\* However edits, engine switches, jobs, failures and Continues follow each
\* other, what learners are offered was made from the course's own text by its
\* own engine.
THEOREM OffersOwnText == Spec => []OffersItsText
<1>1. EditingInv => OffersItsText
  BY DEF EditingInv, CopiesSound, Sound, FromItsText, Complete, OffersItsText
<1> QED
  BY <1>1, AlwaysInv, PTL

\* What a step may do to the text and the engine of a course that stays, and
\* to a course that is not there, before a request has saved over changes.
LEMMA StepsOfRow ==
    ASSUME EditingInv, [Next]_vars, ~crossed'
    PROVE  /\ row'.there => row.there
           /\ GenerationJobActive(row) /\ GenerationJobActive(row') =>
                 row'.text = row.text /\ row'.service = row.service
<1>0. TypeOK
  BY DEF EditingInv
<1> DEFINE Same(c) == c.there = row.there /\ c.text = row.text /\ c.service = row.service
<1>1. ASSUME NEW r \in Requests, Save(r), row' # row
      PROVE  /\ row.there
             /\ GenerationJobActive(row) => row'.text = row.text /\ row'.service = row.service
  <2> DEFINE kind == req[r].kind
             release == ReleasesWorker(kind)
             new == Saved(Edited(kind, row), "draft", release)
  <2>1. row.there /\ kind \in Kinds
    BY <1>0, <1>1 DEF Save, TypeOK
  <2>2. ASSUME GenerationJobActive(row)
        PROVE  row'.text = row.text /\ row'.service = row.service
    <3>1. ~release /\ row' = new
      BY <1>1, <2>2 DEF Save
    <3>2. row \in Row /\ Edited(kind, row) \in Row
      BY <1>0, <2>1, EditedType DEF TypeOK
    <3>r. release \in BOOLEAN
      BY DEF ReleasesWorker
    <3>3. Keeps(new, Edited(kind, row), "draft")
      BY <1>0, <3>r, <3>2, SavedFields
    <3>4. Edited(kind, row).text = row.text /\ Edited(kind, row).service = row.service
      BY <2>1, <3>1, <3>2, SmallEdit
    <3> QED
      BY <3>1, <3>3, <3>4 DEF Keeps
  <2> QED
    BY <2>1, <2>2
<1>2. ASSUME Invalidate \/ Ready \/ Finish
      PROVE  row.there /\ Same(row')
  <2>1. ~crossed
    <3>1. UNCHANGED jobOnly
      BY <1>2 DEF Invalidate, Ready, Finish
    <3> QED
      BY <3>1 DEF jobOnly
  <2>2. /\ row.there /\ job.seen \in Row
        /\ job.seen.text = row.text /\ job.seen.service = row.service
    BY <1>0, <1>2, <2>1 DEF EditingInv, JobHolds, JobKnows, Invalidate, Ready, Finish, JobAt,
       Holding, Started, TypeOK
  <2>3. ASSUME NEW c \in Row, NEW status, row' = Saved(c, status, FALSE),
               c.text = job.seen.text, c.service = job.seen.service
        PROVE  Same(row')
    <3>1. Keeps(Saved(c, status, FALSE), c, status)
      BY <1>0, SavedFields
    <3> QED
      BY <2>2, <2>3, <3>1 DEF Keeps
  <2>4. CASE Invalidate
    <3> DEFINE c == Invalidated(job.seen)
    <3>1. c \in Row /\ c.text = job.seen.text /\ c.service = job.seen.service
      BY <2>2 DEF Invalidated, Row
    <3>2. row' = Saved(c, "draft", FALSE)
      BY <2>4 DEF Invalidate
    <3> HIDE DEF c
    <3> QED
      BY <2>2, <2>3, <3>1, <3>2
  <2>5. CASE Ready
    <3>1. row' = row \/ row' = Saved(job.seen, "ready", FALSE)
      BY <2>5 DEF Ready
    <3> QED
      BY <2>2, <2>3, <3>1
  <2>6. CASE Finish
    <3> DEFINE c == [job.seen EXCEPT !.gen = "completed"]
    <3>1. c \in Row /\ c.text = job.seen.text /\ c.service = job.seen.service
      BY <2>2 DEF Row
    <3>2. row' = Saved(c, job.seen.status, FALSE)
      BY <2>6 DEF Finish
    <3> HIDE DEF c
    <3> QED
      BY <2>2, <2>3, <3>1, <3>2
  <2> QED
    BY <1>2, <2>2, <2>4, <2>5, <2>6
<1>3. ASSUME Publish \/ Begin \/ Fault \/ Monitor \/ \E full \in BOOLEAN : Submit(full)
      PROVE  Same(row')
  BY ZenonT(60), <1>0, <1>3 DEF Publish, Begin, Fault, Monitor, Submit, TypeOK, Row
<1>4. ASSUME WriteQuiz \/ WriteVideo
      PROVE  Same(row')
  <2>1. \/ row' = row
        \/ \E quiz : row' = [row EXCEPT !.gen = "running", !.quiz = quiz]
        \/ \E video : row' = [row EXCEPT !.gen = "running", !.video = video]
    BY <1>4 DEF WriteQuiz, WriteVideo
  <2>2. ASSUME NEW quiz PROVE Same([row EXCEPT !.gen = "running", !.quiz = quiz])
    BY <1>0 DEF TypeOK, Row
  <2>3. ASSUME NEW video PROVE Same([row EXCEPT !.gen = "running", !.video = video])
    BY <1>0 DEF TypeOK, Row
  <2> QED
    BY ZenonT(60), <2>1, <2>2, <2>3
<1>5. ASSUME Delete
      PROVE  ~row'.there /\ ~GenerationJobActive(row')
  BY <1>5 DEF Delete, Gone, GenerationJobActive
<1>6. ASSUME \/ Disable \/ Start \/ UNCHANGED vars
             \/ \E r \in Requests, kind \in Kinds : Read(r, kind)
             \/ \E from \in Steps, to \in Steps : Load(from, to)
      PROVE  row' = row
  BY <1>6 DEF Disable, Start, vars, Read, Load
<1> HIDE DEF Same
<1>7. ASSUME Same(row') \/ row' = row
      PROVE  /\ row'.there => row.there
             /\ row'.text = row.text /\ row'.service = row.service
  BY <1>7 DEF Same
<1> QED
  BY <1>1, <1>2, <1>3, <1>4, <1>5, <1>6, <1>7 DEF Next, Job, Steps

\* While a job holds the course, nobody changes the text or engine under it.
THEOREM HeldCourseLeftAlone == Spec => HeldIsLeftAlone
<1>1. EditingInv /\ [Next]_vars =>
        [GenerationJobActive(row) /\ GenerationJobActive(row') /\ ~crossed' =>
            row'.text = row.text /\ row'.service = row.service]_vars
  BY StepsOfRow
<1> QED
  BY <1>1, AlwaysInv, PTL DEF Spec, HeldIsLeftAlone

\* What a job saves later never brings a deleted course back.
THEOREM DeletedCourseStaysDeleted == Spec => DeletedStaysDeleted
<1>1. EditingInv /\ [Next]_vars => [~row.there /\ row'.there => crossed']_vars
  BY StepsOfRow
<1> QED
  BY <1>1, AlwaysInv, PTL DEF Spec, DeletedStaysDeleted
=============================================================================
