--------------------------- MODULE LearningProofs ---------------------------
(***************************************************************************)
(* Proofs about the learner's side: LearningProgress, for any modules,     *)
(* quizzes, dashboards, deadlines and changes, Journeys, for any journeys, *)
(* courses, plans and reconciliations, and EmailOutbox, for any            *)
(* assignments, managers, windows, delays, limits and faults.              *)
(*                                                                         *)
(* LearningProgress.  The record an open transaction will save was         *)
(* computed from the row when the transaction began.  It may complete the  *)
(* course only if the row was complete then, or if the record has every    *)
(* module; and no step that runs while it is open (the overdue scheduler,  *)
(* a dashboard) completes or uncompletes the row.                          *)
(*                                                                         *)
(* Journeys.  JourneyInv types the rows that are stored and the copies of  *)
(* them that requests and reconciliations hold, and says that every copy   *)
(* is sound: who completed a journey was given it, and who was given it    *)
(* was given it while it was live.  A stale copy that is written back is   *)
(* therefore sound too.  SettledInv adds, for each reconciliation that     *)
(* nobody else has disturbed since it began, what it has established up    *)
(* to its phase: what it wants is backed and is all that the journeys      *)
(* give, what it has looked at on the way is justified, and what it has    *)
(* still to give it has still to visit.  The steps of others that overlap  *)
(* with it end the claim (they leave it out of calm), so nothing is said   *)
(* of a reconciliation that mixes two states of the world.  No fact about  *)
(* the shape of the prerequisites is needed, not even that they have no    *)
(* cycle.                                                                  *)
(*                                                                         *)
(* EmailOutbox.  OutboxInv says that no news is in two digests that are    *)
(* not cancelled, so that what is being sent is recorded nowhere, and      *)
(* counts what was told without a record of it: that, and what was told    *)
(* again, is paid for by the faults, each with at most one notice for      *)
(* every assignment, which is as much as a message tells.  What queues     *)
(* messages is a fold over roles, assignments or old rows; Folds states    *)
(* all three as one function, of which a step is enough to know.           *)
(***************************************************************************)
EXTENDS LearningProgress, Journeys, EmailOutbox, SequenceTheorems, FiniteSetTheorems,
        WellFoundedInduction, TLAPS

HasAll(rec) == Modules \subseteq rec.watched /\ QuizModules \subseteq rec.passed

\* What a transaction that begins now may be about to save.
Proper(rec) ==
    /\ rec \in Record /\ Dated(rec)
    /\ rec.status = "completed" /\ row.status # "completed" => HasAll(rec)

Earned == txn.open /\ txn.row.status = "completed" /\ row.status # "completed" => HasAll(txn.row)
LatePages == \A p \in Pages : page[p].phase = "late" => page[p].row.status # "completed"
LearningInv == TypeOK /\ Earned /\ LatePages

LEMMA Numbers == /\ Days \in Nat /\ Days > 0 /\ MaxTime \in Nat /\ MaxTime > 0 /\ MaxChanges \in Nat
                 /\ QuizModules \subseteq Modules
  BY LearningAssumption DEF LearningAssumption

LEMMA MaxOfTwo ==
    ASSUME NEW a \in Nat, NEW b \in Nat
    PROVE  Max({a, b}) \in Nat /\ Max({a, b}) >= a /\ Max({a, b}) >= b
<1>1. \E x \in {a, b} : \A y \in {a, b} : x >= y
  OBVIOUS
<1>2. Max({a, b}) \in {a, b} /\ \A y \in {a, b} : Max({a, b}) >= y
  BY <1>1 DEF Max
<1> QED
  BY <1>2

LEMMA Constants == NoRow \in Record /\ Dated(NoRow)
  BY DEF NoRow, Record, Dated

LEMMA InitInv == Init => LearningInv
  BY Constants, Numbers DEF Init, LearningInv, TypeOK, Earned, LatePages, NoTxn, NoPage

-----------------------------------------------------------------------------
(* What the requests and the reconciliation make of a record.              *)

LEMMA NewRowProper ==
    ASSUME NEW deadline \in Nat
    PROVE  Proper(NewRow(deadline))
  BY DEF NewRow, NoRow, Proper, Record, Dated

LEMMA RevokedProper ==
    ASSUME TypeOK
    PROVE  Proper(Revoked(row))
<1>1. now \in Nat /\ row \in Record /\ Dated(row)
  BY Numbers DEF TypeOK
<1>2. Revoked(row) \in Record /\ Revoked(row).status = row.status
      /\ Revoked(row).completedAt = row.completedAt
  BY <1>1 DEF Revoked, Record
<1> QED
  BY <1>1, <1>2 DEF Proper, Dated

LEMMA ReactivatedProper ==
    ASSUME TypeOK, NEW fixed \in Nat
    PROVE  Proper(Reactivated(row, fixed))
<1> DEFINE left == Max({row.deadline, row.revokedAt}) - row.revokedAt
           deadline == IF row.status = "completed" THEN row.deadline
                       ELSE IF fixed # 0 THEN fixed ELSE now + left
           next == [row EXCEPT !.deadline = deadline, !.revokedAt = 0]
           status == StatusForReactivation(next)
<1>1. now \in Nat /\ row \in Record /\ Dated(row)
  BY Numbers DEF TypeOK
<1>2. left \in Nat
  BY <1>1, MaxOfTwo DEF Record
<1>3. deadline \in Nat
  BY <1>1, <1>2 DEF Record
<1> HIDE DEF deadline
<1>4. next \in Record /\ next.status = row.status /\ next.completedAt = row.completedAt
  BY <1>1, <1>3 DEF Record
<1> HIDE DEF next
<1>5. status \in {"completed", "overdue", "started", "pending"}
      /\ (status = "completed" <=> row.status = "completed")
  BY <1>1, <1>4 DEF StatusForReactivation, Dated
<1> HIDE DEF status
<1>6. [next EXCEPT !.status = status] \in Record
      /\ [next EXCEPT !.status = status].status = status
      /\ [next EXCEPT !.status = status].completedAt = row.completedAt
  BY <1>4, <1>5 DEF Record
<1>7. Reactivated(row, fixed) = [next EXCEPT !.status = status]
  BY DEF Reactivated, next, status, deadline
<1> QED
  BY <1>1, <1>5, <1>6, <1>7 DEF Proper, Dated

LEMMA AllCompleteHasAll == ASSUME NEW rec, AllComplete(rec) PROVE HasAll(rec)
  BY Numbers DEF AllComplete, IsComplete, HasAll

\* Completing a record that has every module.
LEMMA CompletedProper ==
    ASSUME TypeOK, NEW rec \in Record, HasAll(rec)
    PROVE  Proper(Completed(rec))
<1>1. now \in Nat \ {0}
  BY Numbers DEF TypeOK
<1>2. Completed(rec) \in Record /\ Completed(rec).status = "completed"
      /\ Completed(rec).completedAt = now /\ HasAll(Completed(rec))
  BY <1>1 DEF Completed, Record, HasAll
<1> QED
  BY <1>1, <1>2 DEF Proper, Dated

LEMMA GradedProper ==
    ASSUME TypeOK, NEW m \in Modules, NEW video \in {"yes", "no", "absent"},
           NEW quiz \in {"pass", "fail", "absent"}
    PROVE  LET began == [row EXCEPT !.status = IF @ = "pending" THEN "started" ELSE @,
                                    !.started = @ \/ row.status = "pending",
                                    !.tracked = @ \cup {m}]
               graded == Graded(Watched(began, m, video), m, quiz)
           IN  Proper(graded) /\ (AllComplete(graded) => Proper(Completed(graded)))
<1> DEFINE status == IF row.status = "pending" THEN "started" ELSE row.status
           started == row.started \/ row.status = "pending"
           began == [row EXCEPT !.status = status, !.started = started, !.tracked = @ \cup {m}]
           watched == Watched(began, m, video)
           graded == Graded(watched, m, quiz)
           As(rec) == rec \in Record /\ rec.status = status /\ rec.completedAt = row.completedAt
<1>1. row \in Record /\ Dated(row)
  BY DEF TypeOK
<1>2. /\ status \in {"pending", "started", "completed", "overdue"} /\ started \in BOOLEAN
      /\ status = "completed" <=> row.status = "completed"
  BY <1>1 DEF Record
<1> HIDE DEF status, started
<1>3. As(began)
  BY <1>1, <1>2 DEF Record
<1> HIDE DEF began
<1>4. ASSUME NEW rec \in Record, NEW set \in SUBSET Modules, As(rec)
      PROVE  As([rec EXCEPT !.watched = set]) /\ As([rec EXCEPT !.passed = set])
  BY <1>4 DEF Record
<1>5. As(watched)
  <2>1. began.watched \cup {m} \in SUBSET Modules /\ began.watched \ {m} \in SUBSET Modules
        /\ began.watched \in SUBSET Modules
    BY <1>3 DEF Record
  <2>2. CASE video = "yes"
    BY <1>3, <1>4, <2>1, <2>2 DEF Watched
  <2>3. CASE video = "no"
    BY <1>3, <1>4, <2>1, <2>3 DEF Watched
  <2>4. CASE video = "absent"
    BY <1>3, <1>4, <2>1, <2>4 DEF Watched
  <2> QED
    BY <2>2, <2>3, <2>4
<1> HIDE DEF watched
<1>6. As(graded)
  <2>1. /\ watched.passed \cup {m} \in SUBSET Modules /\ watched.passed \ {m} \in SUBSET Modules
        /\ watched.watched \ {m} \in SUBSET Modules
    BY <1>5 DEF Record
  <2>2. CASE quiz = "pass"
    BY <1>4, <1>5, <2>1, <2>2 DEF Graded
  <2>3. CASE quiz = "fail"
    <3> DEFINE failed == [watched EXCEPT !.passed = @ \ {m}, !.watched = @ \ {m}]
    <3>1. As(failed)
      BY <1>5, <2>1 DEF Record
    <3> QED
      BY <2>3, <3>1 DEF Graded
  <2>4. CASE quiz = "absent"
    BY <1>5, <2>4 DEF Graded
  <2> QED
    BY <2>2, <2>3, <2>4
<1>7. Proper(graded)
  BY <1>1, <1>2, <1>6 DEF Proper, Dated
<1>8. AllComplete(graded) => Proper(Completed(graded))
  BY <1>6, AllCompleteHasAll, CompletedProper
<1> QED
  BY <1>7, <1>8 DEF graded, watched, began, status, started

LEMMA AskedProper ==
    ASSUME TypeOK, NEW status \in {"pending", "started", "completed", "overdue"},
           row.status = "completed" => status = "completed",
           status = "completed" => AllComplete(row)
    PROVE  LET asked == [row EXCEPT !.status = status, !.started = @ \/ status = "started"]
           IN  Proper(IF status = "completed" THEN Completed(asked) ELSE asked)
<1> DEFINE started == row.started \/ status = "started"
           asked == [row EXCEPT !.status = status, !.started = started]
<1>1. row \in Record /\ Dated(row)
  BY DEF TypeOK
<1>2. started \in BOOLEAN
  BY <1>1 DEF Record
<1> HIDE DEF started
<1>3. /\ asked \in Record /\ asked.status = status /\ asked.completedAt = row.completedAt
      /\ asked.watched = row.watched /\ asked.passed = row.passed
  BY <1>1, <1>2 DEF Record
<1> HIDE DEF asked
<1>4. CASE status = "completed"
  <2>1. HasAll(asked)
    BY <1>3, <1>4, AllCompleteHasAll DEF HasAll
  <2> QED
    BY <1>3, <1>4, <2>1, CompletedProper DEF asked, started
<1>5. CASE status # "completed"
  <2>1. Proper(asked)
    BY <1>1, <1>3, <1>5 DEF Proper, Dated
  <2> QED
    BY <1>5, <2>1 DEF asked, started
<1> QED
  BY <1>4, <1>5

-----------------------------------------------------------------------------
(* The steps.                                                              *)

\* A transaction begins with a proper record.
LEMMA BeginInv ==
    ASSUME LearningInv, NEW rec, Proper(rec), NEW on \in BOOLEAN, Begin(rec, on),
           UNCHANGED <<now, ruleActive, matches, row, page>>, changes' \in 0..MaxChanges
    PROVE  LearningInv' /\ row' = row
<1>1. txn' = [open |-> TRUE, row |-> rec, active |-> on]
  BY DEF Begin
<1>2. TypeOK'
  BY <1>1 DEF LearningInv, TypeOK, Proper, Dated
<1>3. Earned'
  BY <1>1 DEF Earned, Proper, HasAll
<1> QED
  BY <1>2, <1>3 DEF LearningInv, LatePages

\* A save keeps the type and the status of the record.
LEMMA SavedProper ==
    ASSUME TypeOK, NEW rec \in Record
    PROVE  /\ Saved(rec) \in Record
           /\ Saved(rec).status = rec.status /\ Saved(rec).completedAt = rec.completedAt
           /\ HasAll(rec) => HasAll(Saved(rec))
  BY DEF TypeOK, Saved, Record, HasAll

\* A step completes the course only with every video watched and quiz passed.
Step == row.status # "completed" /\ row'.status = "completed" => HasAll(row')

LEMMA CommitInv == LearningInv /\ Commit => LearningInv' /\ Step
<1> SUFFICES ASSUME LearningInv, Commit PROVE LearningInv' /\ Step
  OBVIOUS
<1>1. TypeOK /\ Earned /\ txn.row \in Record /\ txn.active \in BOOLEAN /\ Dated(txn.row)
  BY DEF LearningInv, TypeOK
<1>2. /\ row' = Saved(txn.row) /\ ruleActive' = txn.active /\ txn' = NoTxn /\ txn.open
      /\ UNCHANGED <<now, matches, page, changes>>
  BY DEF Commit
<1>3. /\ row' \in Record /\ row'.status = txn.row.status
      /\ row'.completedAt = txn.row.completedAt /\ (HasAll(txn.row) => HasAll(row'))
  BY <1>1, <1>2, SavedProper
<1>4. TypeOK'
  BY <1>1, <1>2, <1>3, Constants DEF TypeOK, NoTxn, Dated
<1>5. Earned' /\ Step
  BY <1>1, <1>2, <1>3 DEF Earned, NoTxn, Step
<1> QED
  BY <1>2, <1>4, <1>5 DEF LearningInv, LatePages

\* Marking the row overdue completes nothing and takes no completion away.
LEMMA OverdueInv ==
    ASSUME LearningInv, NEW rec \in Record, row' = rec, rec.status = "overdue", rec.completedAt = 0,
           row.status # "completed" \/ ~txn.open,
           UNCHANGED <<now, ruleActive, matches, txn, changes>>,
           page' = page \/ \E p \in Pages : page' = [page EXCEPT ![p] = NoPage]
    PROVE  LearningInv' /\ Step
<1>1. page' \in [Pages -> [phase : {"closed", "assignment", "read", "late"}, row : Record]]
      /\ \A p \in Pages : Dated(page'[p].row)
  BY Constants DEF LearningInv, TypeOK, NoPage
<1>p. LatePages'
  BY DEF LearningInv, TypeOK, LatePages, NoPage
<1>2. TypeOK'
  BY <1>1 DEF LearningInv, TypeOK, Dated
<1>3. Earned'
  BY DEF LearningInv, Earned, HasAll
<1> QED
  BY <1>p, <1>2, <1>3 DEF LearningInv, Step

LEMMA NextInv == LearningInv /\ [Next]_vars => LearningInv' /\ (Step \/ UNCHANGED vars)
<1> SUFFICES ASSUME LearningInv, [Next]_vars PROVE LearningInv' /\ (Step \/ UNCHANGED vars)
  OBVIOUS
<1>0. /\ TypeOK /\ now \in Nat /\ row \in Record /\ Dated(row) /\ changes \in 0..MaxChanges
      /\ \A p \in Pages : page[p].row \in Record /\ Dated(page[p].row)
  BY Numbers DEF LearningInv, TypeOK
<1>b. ASSUME NEW rec, Proper(rec), NEW on \in BOOLEAN, Begin(rec, on),
             UNCHANGED <<now, ruleActive, matches, row, page>>, changes' \in 0..MaxChanges
      PROVE  LearningInv' /\ Step
  BY <1>b, BeginInv DEF Step
<1>f. ASSUME NEW date \in FixedDates \cup {0} PROVE date \in Nat
  BY <1>0, Numbers DEF FixedDates
<1>1. ASSUME NEW m \in Modules, NEW video \in {"yes", "no", "absent"},
             NEW quiz \in {"pass", "fail", "absent"}, UpdateModule(m, video, quiz)
      PROVE  LearningInv' /\ Step
  <2> DEFINE began == [row EXCEPT !.status = IF @ = "pending" THEN "started" ELSE @,
                                  !.started = @ \/ row.status = "pending",
                                  !.tracked = @ \cup {m}]
             graded == Graded(Watched(began, m, video), m, quiz)
             rec == IF AllComplete(graded) THEN Completed(graded) ELSE graded
  <2>1. Proper(rec)
    BY ZenonT(60), <1>0, GradedProper
  <2>2. Begin(rec, ruleActive) /\ UNCHANGED <<now, ruleActive, matches, row, page, changes>>
    BY <1>1 DEF UpdateModule
  <2>3. ruleActive \in BOOLEAN
    BY <1>0 DEF TypeOK
  <2> HIDE DEF rec
  <2> QED
    BY <1>0, <1>b, <2>1, <2>2, <2>3
<1>2. ASSUME NEW status \in StatusRequests, UpdateStatus(status)
      PROVE  LearningInv' /\ Step
  <2> DEFINE asked == [row EXCEPT !.status = status, !.started = @ \/ status = "started"]
             rec == IF status = "completed" THEN Completed(asked) ELSE asked
  <2>1. status \in {"pending", "started", "completed", "overdue"}
    BY LearningAssumption DEF LearningAssumption
  <2>2. Proper(rec)
    BY <1>0, <1>2, <2>1, AskedProper DEF UpdateStatus
  <2>3. Begin(rec, ruleActive) /\ UNCHANGED <<now, ruleActive, matches, row, page, changes>>
    BY <1>2 DEF UpdateStatus
  <2>4. ruleActive \in BOOLEAN
    BY <1>0 DEF TypeOK
  <2> HIDE DEF rec
  <2> QED
    BY <1>0, <1>b, <2>2, <2>3, <2>4
<1>3. CASE Reconcile
  <2>1. UNCHANGED <<now, ruleActive, matches, row, page, changes>> /\ ruleActive \in BOOLEAN
    BY <1>0, <1>3 DEF Reconcile, TypeOK
  <2>2. \E rec : Proper(rec) /\ Begin(rec, ruleActive)
    BY <1>0, <1>3, <1>f, RevokedProper, ReactivatedProper, NewRowProper DEF Reconcile
  <2> QED
    BY <1>0, <1>b, <2>1, <2>2
<1>4. ASSUME NEW date \in FixedDates \cup {0}, Publish(date)
      PROVE  LearningInv' /\ Step
  <2>1. UNCHANGED <<now, ruleActive, matches, row, page>> /\ changes' \in 0..MaxChanges
    BY <1>0, <1>4, Numbers DEF Publish
  <2>2. date \in Nat /\ now + Days \in Nat
    BY <1>0, <1>f, Numbers
  <2>3. Proper([row EXCEPT !.deadline = date])
    BY <1>0, <2>2 DEF Proper, Record, Dated
  <2>4. \E rec : Proper(rec) /\ Begin(rec, TRUE)
    BY <1>0, <1>4, <2>2, <2>3, RevokedProper, ReactivatedProper, NewRowProper DEF Publish
  <2> QED
    BY <1>b, <2>1, <2>4
<1>5. CASE Disable
  <2>1. UNCHANGED <<now, ruleActive, matches, row, page>> /\ changes' \in 0..MaxChanges
    BY <1>0, <1>5, Numbers DEF Disable
  <2> QED
    BY <1>0, <1>5, <1>b, <2>1, RevokedProper DEF Disable
<1>6. CASE Commit
  BY <1>6, CommitInv
<1>7. CASE MarkOverdue
  <2> DEFINE rec == [row EXCEPT !.status = "overdue"]
  <2>1. rec \in Record /\ rec.status = "overdue" /\ rec.completedAt = 0 /\ row.status # "completed"
    BY <1>0, <1>7 DEF MarkOverdue, Record, Dated
  <2>2. row' = rec /\ UNCHANGED <<now, ruleActive, matches, txn, page, changes>>
    BY <1>7 DEF MarkOverdue
  <2> HIDE DEF rec
  <2> QED
    BY <2>1, <2>2, OverdueInv
<1>8. CASE Tick \/ MatchChanges
  <2>1. /\ UNCHANGED <<ruleActive, row, txn, page>> /\ now' \in 1..MaxTime
        /\ matches' \in BOOLEAN /\ changes' \in 0..MaxChanges
    <3>1. now \in 1..MaxTime /\ matches \in BOOLEAN /\ MaxTime \in Nat /\ MaxChanges \in Nat
      BY <1>0, Numbers DEF TypeOK
    <3>2. CASE Tick
      BY <1>0, <3>1, <3>2 DEF Tick
    <3>3. CASE MatchChanges
      BY <1>0, <3>1, <3>3 DEF MatchChanges
    <3> QED
      BY <1>8, <3>2, <3>3
  <2>2. TypeOK'
    BY <1>0, <2>1 DEF TypeOK, Dated
  <2>3. Earned' /\ LatePages' /\ Step
    BY <2>1 DEF LearningInv, Earned, LatePages, Step, HasAll
  <2> QED
    BY <2>2, <2>3 DEF LearningInv
<1>9. ASSUME NEW p \in Pages, SaveOverdue(p)
      PROVE  LearningInv' /\ Step
  <2> DEFINE late == [page[p].row EXCEPT !.status = "overdue"]
             rec == Saved(late)
  <2>0. page[p].row.status # "completed"
    BY <1>9 DEF SaveOverdue, LearningInv, LatePages
  <2>1. late \in Record /\ late.status = "overdue" /\ late.completedAt = 0
    BY <1>0, <2>0 DEF Record, Dated
  <2>2. rec \in Record /\ rec.status = "overdue" /\ rec.completedAt = 0
    BY <1>0, <2>1, SavedProper
  <2>3. /\ row' = rec /\ ~txn.open /\ page' = [page EXCEPT ![p] = NoPage]
        /\ UNCHANGED <<now, ruleActive, matches, txn, changes>>
    BY <1>9 DEF SaveOverdue
  <2> HIDE DEF rec
  <2> QED
    BY <2>2, <2>3, OverdueInv
<1>10. ASSUME NEW p \in Pages,
              ReadAssignment(p) \/ ReadModules(p) \/ PageLate(p) \/ ShowPage(p)
       PROVE  LearningInv' /\ Step
  <2>1. UNCHANGED <<now, ruleActive, matches, row, txn, changes>>
    BY <1>10 DEF ReadAssignment, ReadModules, PageLate, ShowPage
  <2>2. page' \in [Pages -> [phase : {"closed", "assignment", "read", "late"}, row : Record]]
        /\ LatePages' /\ \A q \in Pages : Dated(page'[q].row)
    <3>1. \A q \in Pages : q # p => page'[q] = page[q]
      BY <1>0, <1>10 DEF ReadAssignment, ReadModules, PageLate, ShowPage, TypeOK
    <3>2. \E x : page' = [page EXCEPT ![p] = x]
      BY <1>10 DEF ReadAssignment, ReadModules, PageLate, ShowPage
    <3>3. /\ page'[p] \in [phase : {"closed", "assignment", "read", "late"}, row : Record]
          /\ Dated(page'[p].row)
          /\ page'[p].phase = "late" => page'[p].row.status # "completed"
      <4>1. CASE ReadAssignment(p)
        BY ZenonT(60), <1>0, <4>1 DEF ReadAssignment, TypeOK, Record, Dated
      <4>2. CASE ReadModules(p)
        BY ZenonT(60), <1>0, <4>2 DEF ReadModules, TypeOK, Record, Dated
      <4>3. CASE PageLate(p)
        BY <1>0, <4>3 DEF PageLate, PageIsLate, TypeOK
      <4>4. CASE ShowPage(p)
        BY <1>0, <4>4, Constants DEF ShowPage, NoPage, TypeOK
      <4> QED
        BY <1>10, <4>1, <4>2, <4>3, <4>4
    <3> QED
      BY <1>0, <3>1, <3>2, <3>3 DEF LearningInv, LatePages, TypeOK
  <2>3. TypeOK'
    BY <1>0, <2>1, <2>2 DEF TypeOK, Dated
  <2>4. Earned' /\ Step
    BY <2>1 DEF LearningInv, Earned, Step, HasAll
  <2> QED
    BY <2>2, <2>3, <2>4 DEF LearningInv
<1>11. CASE UNCHANGED vars
  BY <1>11 DEF vars, LearningInv, TypeOK, Earned, LatePages, Dated, HasAll
<1> QED
  BY <1>1, <1>2, <1>3, <1>4, <1>5, <1>6, <1>7, <1>8, <1>9, <1>10, <1>11
     DEF Next, Learner, Trainer, Dashboard

LEMMA AlwaysInv == Spec => []LearningInv
  BY InitInv, NextInv, PTL DEF Spec

\* Assignment records keep their type, and a completion date goes with the
\* status "completed" in the table, in open transactions and on open pages.
THEOREM TypeCorrect == Spec => []TypeOK
  BY AlwaysInv, PTL DEF LearningInv

\* A course becomes completed only with every video watched and every quiz
\* passed, whatever runs between the reading and the saving.
THEOREM CompletedMeansLearned == Spec => CompletionEarned
<1>1. LearningInv /\ [Next]_vars =>
        [row.status # "completed" /\ row'.status = "completed" =>
            Modules \subseteq row'.watched /\ QuizModules \subseteq row'.passed]_vars
  BY NextInv DEF Step, HasAll
<1> QED
  BY <1>1, AlwaysInv, PTL DEF Spec, CompletionEarned

-----------------------------------------------------------------------------
(* Journeys: types, and what the helpers return.                           *)

StepSet == [course : Courses, open : BOOLEAN, required : BOOLEAN]
PlanSet == Seq(StepSet)
JourneySet == [status : {"none", "draft", "published", "disabled"}, plan : PlanSet,
               after : J \cup {None}, live : BOOLEAN, was : BOOLEAN]
CourseSet == [published : {TRUE}, rule : Rules, on : BOOLEAN]
ProgressSet == [st : {"none", "pending", "started", "passed"}, on : BOOLEAN]
Coming == [enrolment : Enrolments, names : (SUBSET Courses) \cup {None}]
RowsSet == UNION {[D -> Coming] : D \in SUBSET J}
SyncSet == [phase : {"idle", "look", "store", "revoke", "rules", "journeys"}, active : BOOLEAN,
            seen : [Courses -> ProgressSet \cup {"none"}], rows : RowsSet,
            wanted : SUBSET Courses, todo : SUBSET Courses]

JourneyTypes ==
  /\ journey \in [J -> JourneySet] /\ observes \subseteq J
  /\ course \in [Courses -> CourseSet] /\ employed \in BOOLEAN
  /\ progress \in [Courses -> ProgressSet]
  /\ \A c \in Courses : progress[c].on => progress[c].st # "none"
  /\ enrolment \in [J -> Enrolments] /\ pending \in [J -> Enrolments]
  /\ certs \in [J -> (SUBSET Courses) \cup {None}]
  /\ calm \subseteq Syncs

SyncTypes ==
  /\ sync \in [Syncs -> SyncSet]
  /\ \A s \in Syncs :
       /\ sync[s].phase \in {"look", "store", "revoke"} => sync[s].seen \in [Courses -> ProgressSet]
       /\ sync[s].phase \in {"revoke", "rules", "journeys"} => sync[s].todo # {}

\* A row's facts build on one another, and a journey that somebody was ever given has been live.
Sound(j, r) == (r.done => r.held) /\ (r.held => journey[j].was)
RowsSound ==
  \A j \in J : /\ Sound(j, enrolment[j]) /\ Sound(j, pending[j])
               /\ \A s \in Syncs : j \in DOMAIN sync[s].rows => Sound(j, sync[s].rows[j].enrolment)
EverLive ==
  \A j \in J : /\ journey[j].was => journey[j].status # "none"
               /\ journey[j].status \in {"published", "disabled"} => journey[j].was

LEMMA NoRows == <<>> \in RowsSet /\ DOMAIN <<>> = {}
<1>1. DOMAIN <<>> = {}
  OBVIOUS
<1>2. <<>> \in [{} -> Coming]
  OBVIOUS
<1> QED
  BY <1>1, <1>2 DEF RowsSet

LEMMA Facts ==
  /\ Courses # {} /\ None \notin J
  /\ \A plan \in Plans : plan \in PlanSet
  /\ \A j \in J : FirstPlan[j] \in PlanSet
  /\ FirstAfter \in [J -> J \cup {None}] /\ FirstRule \in [Courses -> Rules]
  /\ NotEnrolled \in Enrolments /\ NoJourney \in JourneySet
<1>1. NotEnrolled \in Enrolments
  BY DEF NotEnrolled, Enrolments
<1>2. NoJourney \in JourneySet
  BY DEF NoJourney, JourneySet, PlanSet
<1> QED
  BY <1>1, <1>2, JourneysAssumption DEF JourneysAssumption, PlanSet, StepSet

LEMMA PlanCourses ==
  ASSUME NEW plan \in PlanSet
  PROVE  /\ CoursesOf(plan) \subseteq Courses
         /\ {plan[i].course : i \in {i \in DOMAIN plan : plan[i].required}} \subseteq Courses
<1>1. \A i \in DOMAIN plan : plan[i] \in StepSet
  BY DEF PlanSet
<1>2. \A step \in StepSet : step.course \in Courses
  BY DEF StepSet
<1> QED
  BY <1>1, <1>2 DEF CoursesOf

LEMMA UnlockedSubset ==
  ASSUME NEW plan, NEW passed, NEW open, NEW before
  PROVE  /\ Unlocked(plan, passed, open, before) \subseteq CoursesOf(plan)
         /\ \A c \in Unlocked(plan, passed, open, before) : Offered(c)
  BY DEF Unlocked, CoursesOf

LEMMA EvaluationType ==
  ASSUME NEW j \in J, journey[j] \in JourneySet, NEW r \in Enrolments, NEW open, NEW passed
  PROVE  /\ Evaluation(j, r, open, passed) \in Enrolments
         /\ Evaluation(j, r, open, passed).held = r.held
         /\ Evaluation(j, r, open, passed).revoked = r.revoked
<1> DEFINE new == Unlocked(journey[j].plan, passed, r.open \/ open, r.unlocked)
           opens == r.open \/ open
           ends == r.done \/ ((r.open \/ open) /\ Complete(journey[j].plan, passed))
<1>1. new \subseteq Courses
  BY PlanCourses, UnlockedSubset DEF JourneySet
<1>2. opens \in BOOLEAN /\ ends \in BOOLEAN
  OBVIOUS
<1>3. Evaluation(j, r, open, passed) =
        [r EXCEPT !.open = opens, !.unlocked = r.unlocked \cup new, !.done = ends]
  BY DEF Evaluation, Enrolments
<1> HIDE DEF new, opens, ends
<1> QED
  BY <1>1, <1>2, <1>3 DEF Enrolments

LEMMA MembershipType ==
  ASSUME JourneyTypes, RowsSound, EverLive, NEW j \in J
  PROVE  Membership[j] \in Enrolments /\ Sound(j, Membership[j])
<1>1. enrolment[j] \in Enrolments /\ Sound(j, enrolment[j]) /\ journey[j] \in JourneySet
  BY DEF JourneyTypes, RowsSound
<1>2. CASE j \in LiveJourneys
  <2>1. journey[j].was
    BY <1>2 DEF LiveJourneys, EverLive
  <2> QED
    BY <1>1, <1>2, <2>1 DEF Membership, Enrolments, Sound, Active
<1>3. CASE j \notin LiveJourneys
  BY <1>1, <1>3 DEF Membership, Enrolments, Sound, Active
<1> QED
  BY <1>2, <1>3

LEMMA EvaluatedType ==
  ASSUME JourneyTypes, NEW member, NEW passed, NEW j \in J, member[j] \in Enrolments, Sound(j, member[j])
  PROVE  Evaluated(member, passed)[j] \in Enrolments /\ Sound(j, Evaluated(member, passed)[j])
<1>1. journey[j] \in JourneySet
  BY DEF JourneyTypes
<1>2. \/ Evaluated(member, passed)[j] = member[j]
      \/ Active(member[j]) /\ \E open : Evaluated(member, passed)[j] = Evaluation(j, member[j], open, passed)
  BY DEF Evaluated
<1>3. ASSUME NEW open, Active(member[j])
      PROVE  Evaluation(j, member[j], open, passed) \in Enrolments /\ Sound(j, Evaluation(j, member[j], open, passed))
  BY <1>1, <1>3, EvaluationType DEF Sound, Active
<1> QED
  BY <1>2, <1>3

JourneyInv == JourneyTypes /\ SyncTypes /\ EverLive /\ RowsSound

InPass(me) == me.phase \in {"revoke", "rules", "journeys"}
Fit(me) == /\ me \in SyncSet
           /\ me.phase \in {"look", "store", "revoke"} => me.seen \in [Courses -> ProgressSet]
           /\ InPass(me) => me.todo # {}
RowsOf(me) == \A j \in DOMAIN me.rows : Sound(j, me.rows[j].enrolment)

LEMMA FirstIsOne ==
  ASSUME NEW todo \in SUBSET Courses, todo # {}
  PROVE  First(todo) \in todo /\ First(todo) \in Courses
  BY DEF First

LEMMA RestingFit == Resting \in SyncSet /\ Fit(Resting) /\ RowsOf(Resting) /\ Resting.phase = "idle"
<1>1. Resting \in SyncSet
  BY NoRows DEF Resting, SyncSet
<1> QED
  BY <1>1, NoRows DEF Resting, Fit, InPass, RowsOf

-----------------------------------------------------------------------------
(* Journeys: what the steps of a reconciliation hold.                      *)

LEMMA PassingFit ==
  ASSUME JourneyTypes, NEW me \in SyncSet, InPass(me), RowsOf(me),
         me.phase = "revoke" => me.seen \in [Courses -> ProgressSet]
  PROVE  Fit(Passing(me)) /\ RowsOf(Passing(me)) /\ Passing(me).phase \notin {"look", "store"}
<1>1. CASE me.todo # {}
  <2>1. Passing(me) = me
    BY <1>1 DEF Passing
  <2> QED
    BY <1>1, <2>1 DEF Fit, InPass
<1>2. CASE me.todo = {} /\ me.phase = "revoke" /\ me.active
  <2> DEFINE next == [me EXCEPT !.phase = "rules", !.seen = Resting.seen,
                                !.todo = {c \in Courses : course[c].published}]
  <2>1. Passing(me) = next
    BY <1>2 DEF Passing
  <2>2. {c \in Courses : course[c].published} = Courses
    BY DEF JourneyTypes, CourseSet
  <2>3. Resting.seen \in [Courses -> ProgressSet \cup {"none"}]
    BY DEF Resting
  <2>4. next \in SyncSet /\ next.phase = "rules" /\ next.todo # {} /\ next.rows = me.rows
    BY <2>2, <2>3, Facts DEF SyncSet
  <2> QED
    BY <2>1, <2>4 DEF Fit, InPass, RowsOf
<1>3. CASE me.todo = {} /\ me.phase = "rules" /\ me.wanted # {}
  <2> DEFINE next == [me EXCEPT !.phase = "journeys", !.wanted = {}, !.todo = me.wanted]
  <2>1. Passing(me) = next
    BY <1>3 DEF Passing
  <2>4. next \in SyncSet /\ next.phase = "journeys" /\ next.todo # {} /\ next.rows = me.rows
    BY <1>3 DEF SyncSet
  <2> QED
    BY <2>1, <2>4 DEF Fit, InPass, RowsOf
<1>4. CASE /\ me.todo = {} /\ ~(me.phase = "revoke" /\ me.active)
           /\ ~(me.phase = "rules" /\ me.wanted # {})
  <2>1. Passing(me) = Resting
    BY <1>4 DEF Passing
  <2> QED
    BY <2>1, RestingFit
<1> QED
  BY <1>1, <1>2, <1>3, <1>4

LEMMA StoredFit ==
  ASSUME JourneyTypes, NEW me \in SyncSet, me.phase = "store", me.seen \in [Courses -> ProgressSet],
         RowsOf(me)
  PROVE  Fit(Stored(me)) /\ RowsOf(Stored(me))
<1>1. CASE DOMAIN me.rows # {}
  <2>1. Stored(me) = me
    BY <1>1 DEF Stored
  <2> QED
    BY <2>1 DEF Fit, InPass
<1>2. CASE DOMAIN me.rows = {}
  <2> DEFINE next == [me EXCEPT !.phase = "revoke", !.rows = <<>>,
                                !.todo = {c \in Courses : me.seen[c].st # "none"}]
  <2>1. Stored(me) = Passing(next)
    BY <1>2 DEF Stored
  <2>2. next \in SyncSet /\ next.phase = "revoke" /\ next.seen = me.seen /\ next.rows = <<>>
    BY NoRows DEF SyncSet
  <2>3. RowsOf(next)
    BY <2>2, NoRows DEF RowsOf
  <2> HIDE DEF next
  <2> QED
    BY <2>1, <2>2, <2>3, PassingFit DEF InPass
<1> QED
  BY <1>1, <1>2

\* What is left to visit after a visit.
LEMMA VisitedFit ==
  ASSUME JourneyInv, NEW s \in Syncs, InPass(sync[s])
  PROVE  LET rest == [sync[s] EXCEPT !.todo = sync[s].todo \ {First(sync[s].todo)}] IN
         /\ Visited(s) <=> sync' = [sync EXCEPT ![s] = Passing(rest)]
         /\ rest \in SyncSet /\ rest.phase = sync[s].phase /\ rest.active = sync[s].active
         /\ rest.seen = sync[s].seen /\ rest.rows = sync[s].rows /\ rest.wanted = sync[s].wanted
         /\ rest.todo = sync[s].todo \ {First(sync[s].todo)}
         /\ Fit(Passing(rest)) /\ RowsOf(Passing(rest)) /\ Passing(rest).phase \notin {"look", "store"}
<1> DEFINE rest == [sync[s] EXCEPT !.todo = sync[s].todo \ {First(sync[s].todo)}]
<1>1. /\ sync[s] \in SyncSet
      /\ sync[s].phase \in {"look", "store", "revoke"} => sync[s].seen \in [Courses -> ProgressSet]
  BY DEF JourneyInv, SyncTypes
<1>2. /\ rest \in SyncSet /\ rest.phase = sync[s].phase /\ rest.active = sync[s].active
      /\ rest.seen = sync[s].seen /\ rest.rows = sync[s].rows /\ rest.wanted = sync[s].wanted
      /\ rest.todo = sync[s].todo \ {First(sync[s].todo)}
  BY <1>1 DEF SyncSet
<1>3. Visited(s) <=> sync' = [sync EXCEPT ![s] = Passing(rest)]
  BY DEF Visited
<1>4. sync \in [Syncs -> SyncSet]
  BY DEF JourneyInv, SyncTypes
<1>5. RowsOf(rest)
  <2>1. sync[s].rows \in RowsSet
    BY <1>1 DEF SyncSet
  <2>2. \A j \in DOMAIN sync[s].rows : j \in J
    BY <2>1 DEF RowsSet
  <2> HIDE DEF rest
  <2> QED
    BY <1>2, <2>2 DEF RowsOf, JourneyInv, RowsSound
<1>6. InPass(rest) /\ (rest.phase = "revoke" => rest.seen \in [Courses -> ProgressSet])
  BY <1>1, <1>2 DEF InPass
<1> HIDE DEF rest
<1>7. Fit(Passing(rest)) /\ RowsOf(Passing(rest)) /\ Passing(rest).phase \notin {"look", "store"}
  BY <1>2, <1>5, <1>6, PassingFit DEF JourneyInv
<1> QED
  BY <1>2, <1>3, <1>7 DEF rest

\* A step of one reconciliation keeps the types and the rows of all.
LEMMA SyncKeepsTypes ==
  ASSUME JourneyInv, NEW s \in Syncs, NEW me, sync' = [sync EXCEPT ![s] = me], Fit(me), RowsOf(me),
         UNCHANGED journey, UNCHANGED pending,
         \A j \in J : Sound(j, enrolment'[j])
  PROVE  SyncTypes' /\ RowsSound' /\ EverLive'
<1>1. sync' \in [Syncs -> SyncSet]
  BY DEF JourneyInv, SyncTypes, Fit
<1>2. sync'[s] = me /\ \A r \in Syncs : r # s => sync'[r] = sync[r]
  BY DEF JourneyInv, SyncTypes
<1>3. SyncTypes'
  BY <1>1, <1>2 DEF JourneyInv, SyncTypes, Fit, InPass
<1>4. \A j, r : Sound(j, r)' <=> Sound(j, r)
  BY DEF Sound
<1>5. ASSUME NEW j \in J
      PROVE  /\ Sound(j, enrolment[j])' /\ Sound(j, pending[j])'
             /\ \A r \in Syncs : j \in DOMAIN sync'[r].rows => Sound(j, sync[r].rows[j].enrolment)'
  <2>1. Sound(j, enrolment[j])' /\ Sound(j, pending[j])'
    BY DEF JourneyInv, RowsSound, Sound
  <2>2. ASSUME NEW r \in Syncs, j \in DOMAIN sync'[r].rows
        PROVE  Sound(j, sync[r].rows[j].enrolment)'
    BY <1>2, <2>2 DEF JourneyInv, RowsSound, RowsOf, Sound
  <2> QED
    BY <2>1, <2>2
<1>6. RowsSound'
  BY <1>5 DEF RowsSound
<1>7. EverLive'
  BY DEF JourneyInv, EverLive
<1> QED
  BY <1>3, <1>6, <1>7

-----------------------------------------------------------------------------
(* Journeys: every step keeps JourneyInv.                                  *)

LEMMA JourneyInitInv == JourneysInit => JourneyInv
<1> SUFFICES ASSUME JourneysInit PROVE JourneyInv
  OBVIOUS
<1>1. PICK drafts \in SUBSET J :
        journey = [j \in J |-> [status |-> IF j \in drafts THEN "draft" ELSE "published", plan |-> FirstPlan[j],
                                after |-> FirstAfter[j], live |-> j \notin drafts, was |-> j \notin drafts]]
  BY DEF JourneysInit
<1>2. journey \in [J -> JourneySet]
  BY <1>1, Facts DEF JourneySet
<1>3. EverLive
  BY <1>1 DEF EverLive
<1>4. course \in [Courses -> CourseSet] /\ progress \in [Courses -> ProgressSet] /\ \A c \in Courses : ~progress[c].on
  BY Facts DEF JourneysInit, CourseSet, ProgressSet
<1>5. enrolment \in [J -> Enrolments] /\ pending \in [J -> Enrolments]
  BY Facts DEF JourneysInit
<1>6. JourneyTypes
  <2>1. observes = {} /\ employed = TRUE /\ calm = {} /\ certs = [j \in J |-> None]
    BY DEF JourneysInit
  <2> QED
    BY <1>2, <1>4, <1>5, <2>1 DEF JourneyTypes
<1>7. sync = [s \in Syncs |-> Resting]
  BY DEF JourneysInit
<1>8. SyncTypes
  BY <1>7, RestingFit DEF SyncTypes, Fit, InPass
<1>9. \A j \in J : Sound(j, NotEnrolled)
  BY DEF Sound, NotEnrolled
<1>10. \A s \in Syncs : DOMAIN sync[s].rows = {}
  BY <1>7, NoRows DEF Resting
<1>11. RowsSound
  BY <1>9, <1>10 DEF RowsSound, JourneysInit
<1> QED
  BY <1>3, <1>6, <1>8, <1>11 DEF JourneyInv

\* What a step that is no reconciliation's has to leave true.
LEMMA OthersKeep ==
  ASSUME JourneyInv, UNCHANGED sync, JourneyTypes', EverLive',
         \A j \in J : journey[j].was => journey'[j].was,
         \A j \in J : Sound(j, enrolment'[j]) /\ Sound(j, pending'[j])
  PROVE  JourneyInv'
<1>1. SyncTypes'
  BY DEF JourneyInv, SyncTypes
<1>2. ASSUME NEW j \in J
      PROVE  /\ Sound(j, enrolment[j])' /\ Sound(j, pending[j])'
             /\ \A s \in Syncs : j \in DOMAIN sync'[s].rows => Sound(j, sync[s].rows[j].enrolment)'
  BY DEF JourneyInv, RowsSound, Sound
<1>3. RowsSound'
  BY <1>2 DEF RowsSound
<1> QED
  BY <1>1, <1>3 DEF JourneyInv

\* Of the actions that change no row.
LEMMA OthersKeepRows ==
  ASSUME JourneyInv, UNCHANGED <<sync, enrolment, certs, pending>>, calm' \subseteq Syncs,
         journey' \in [J -> JourneySet], observes' \subseteq J, course' \in [Courses -> CourseSet],
         employed' \in BOOLEAN, progress' \in [Courses -> ProgressSet],
         \A c \in Courses : progress'[c].on => progress'[c].st # "none",
         EverLive', \A j \in J : journey[j].was => journey'[j].was
  PROVE  JourneyInv'
<1>1. JourneyTypes'
  BY DEF JourneyInv, JourneyTypes
<1>2. \A j \in J : Sound(j, enrolment'[j]) /\ Sound(j, pending'[j])
  BY DEF JourneyInv, RowsSound
<1> QED
  BY <1>1, <1>2, OthersKeep

LEMMA CreateKeeps ==
  ASSUME JourneyInv, NEW j \in J, Create(j)
  PROVE  JourneyInv'
<1>1. [NoJourney EXCEPT !.status = "draft"] \in JourneySet /\ [NoJourney EXCEPT !.status = "draft"].status = "draft"
      /\ ~[NoJourney EXCEPT !.status = "draft"].was
  BY Facts DEF NoJourney, JourneySet
<1>2. ~journey[j].was /\ journey \in [J -> JourneySet]
  BY DEF Create, JourneyInv, EverLive, JourneyTypes
<1>3. journey' \in [J -> JourneySet] /\ EverLive' /\ \A k \in J : journey[k].was => journey'[k].was
  BY <1>1, <1>2 DEF Create, JourneyInv, EverLive
<1> QED
  BY <1>3, OthersKeepRows DEF Create, Act, JourneyInv, JourneyTypes

LEMMA DuplicateKeeps ==
  ASSUME JourneyInv, NEW j \in J, NEW k \in J, Duplicate(j, k)
  PROVE  JourneyInv'
<1> DEFINE plan == journey[k].plan
           eligible == {i \in DOMAIN plan : Eligible(plan[i].course)}
<1>1. journey[k] \in JourneySet /\ plan \in PlanSet /\ journey \in [J -> JourneySet]
  BY DEF JourneyInv, JourneyTypes, JourneySet
<1>2. DOMAIN plan = 1..Len(plan) /\ Len(plan) \in Nat /\ \A i \in DOMAIN plan : plan[i] \in StepSet
  BY <1>1 DEF PlanSet
<1>3. Cardinality(eligible) \in Nat
  <2>1. IsFiniteSet(1..Len(plan))
    BY <1>2, FS_Interval
  <2>2. eligible \subseteq 1..Len(plan)
    BY <1>2
  <2> QED
    BY <2>1, <2>2, FS_Subset, FS_CardinalityType
<1>4. PICK pick \in [1..Cardinality(eligible) -> eligible] :
        journey' = [journey EXCEPT ![j] =
               [NoJourney EXCEPT !.status = "draft", !.after = journey[k].after,
                                 !.plan = [n \in DOMAIN pick |-> plan[pick[n]]]]]
  BY DEF Duplicate
<1> DEFINE copied == [n \in DOMAIN pick |-> plan[pick[n]]]
           copy == [NoJourney EXCEPT !.status = "draft", !.after = journey[k].after, !.plan = copied]
<1>5. copied \in PlanSet
  <2>1. copied \in [1..Cardinality(eligible) -> StepSet]
    BY <1>2
  <2> HIDE DEF copied, eligible
  <2> QED
    BY <1>3, <2>1, SeqDef DEF PlanSet
<1> HIDE DEF copied
<1>6. copy \in JourneySet /\ copy.status = "draft" /\ ~copy.was
  BY <1>1, <1>5 DEF NoJourney, JourneySet
<1>7. journey' = [journey EXCEPT ![j] = copy]
  BY <1>4 DEF copied
<1> HIDE DEF copy, eligible, plan
<1>8. ~journey[j].was
  BY DEF Duplicate, JourneyInv, EverLive
<1>9. journey' \in [J -> JourneySet] /\ EverLive' /\ \A m \in J : journey[m].was => journey'[m].was
  BY <1>1, <1>6, <1>7, <1>8 DEF JourneyInv, EverLive
<1> QED
  BY <1>9, OthersKeepRows DEF Duplicate, Act, JourneyInv, JourneyTypes

LEMMA MadeLiveType ==
  ASSUME JourneyInv, NEW cs
  PROVE  MadeLive(cs) \in [Courses -> CourseSet]
<1> SUFFICES ASSUME NEW c \in Courses
             PROVE  (IF c \notin cs THEN course[c]
                     ELSE [published |-> TRUE, rule |-> IF course[c].rule = "none" THEN "nobody" ELSE course[c].rule,
                           on |-> course[c].rule = "none" \/ course[c].on]) \in CourseSet
  BY DEF MadeLive
<1>1. course[c] \in CourseSet
  BY DEF JourneyInv, JourneyTypes
<1> QED
  BY <1>1 DEF CourseSet, Rules

LEMMA SaveKeeps ==
  ASSUME JourneyInv, NEW j \in J, NEW plan \in Plans, NEW after \in Before[j] \cup {None},
         NEW live \in BOOLEAN, NEW deadline \in BOOLEAN, Save(j, plan, after, live, deadline)
  PROVE  JourneyInv'
<1>1. journey' = Replaced(j, plan, after, live) /\ journey \in [J -> JourneySet]
  BY DEF Save, JourneyInv, JourneyTypes
<1>2. plan \in PlanSet /\ after \in J \cup {None}
  BY Facts, JourneysAssumption DEF JourneysAssumption
<1> DEFINE new == [journey[j] EXCEPT !.plan = plan, !.after = after,
                     !.live = IF journey[j].status = "published" THEN live ELSE journey[j].live]
<1>3. /\ new \in JourneySet /\ new.status = journey[j].status /\ new.was = journey[j].was
      /\ journey' = [journey EXCEPT ![j] = new]
  BY <1>1, <1>2 DEF Replaced, JourneySet
<1> HIDE DEF new
<1>4. journey' \in [J -> JourneySet] /\ EverLive' /\ \A m \in J : journey[m].was => journey'[m].was
  BY <1>1, <1>3 DEF JourneyInv, EverLive
<1>5. course' \in [Courses -> CourseSet]
  BY MadeLiveType DEF Save, JourneyInv, JourneyTypes
<1>6. pending' \in [J -> Enrolments] /\ \A m \in J : Sound(m, pending'[m])
  BY DEF Save, JourneyInv, JourneyTypes, RowsSound
<1>7. JourneyTypes' /\ UNCHANGED <<sync, enrolment>>
  BY <1>4, <1>5, <1>6 DEF Save, Act, JourneyInv, JourneyTypes
<1> QED
  BY <1>4, <1>6, <1>7, OthersKeep DEF JourneyInv, RowsSound

LEMMA PublishKeeps ==
  ASSUME JourneyInv, NEW j \in J, NEW live \in BOOLEAN, PublishJourney(j, live)
  PROVE  JourneyInv'
<1>1. journey \in [J -> JourneySet]
  BY DEF JourneyInv, JourneyTypes
<1> DEFINE new == [journey[j] EXCEPT !.status = "published", !.live = live, !.was = TRUE]
<1>2. /\ new \in JourneySet /\ new.status = "published" /\ new.was
      /\ journey' = [journey EXCEPT ![j] = new]
  <2>1. journey[j] \in JourneySet
    BY <1>1
  <2>2. new \in JourneySet /\ new.status = "published" /\ new.was
    BY <2>1 DEF JourneySet
  <2>3. journey' = [journey EXCEPT ![j] = new]
    BY <1>1 DEF PublishJourney
  <2> QED
    BY <2>2, <2>3
<1> HIDE DEF new
<1>3. journey' \in [J -> JourneySet] /\ EverLive' /\ \A m \in J : journey[m].was => journey'[m].was
  BY <1>1, <1>2 DEF JourneyInv, EverLive
<1>4. course' \in [Courses -> CourseSet]
  BY MadeLiveType DEF PublishJourney
<1> QED
  BY <1>3, <1>4, OthersKeepRows DEF PublishJourney, Act, JourneyInv, JourneyTypes

LEMMA DisableKeeps ==
  ASSUME JourneyInv, NEW j \in J, DisableJourney(j)
  PROVE  JourneyInv'
<1>1. journey \in [J -> JourneySet] /\ enrolment[j] \in Enrolments /\ pending \in [J -> Enrolments]
  BY DEF JourneyInv, JourneyTypes
<1> DEFINE new == [journey[j] EXCEPT !.status = "disabled"]
           lost == [enrolment[j] EXCEPT !.revoked = TRUE]
<1>2. /\ new \in JourneySet /\ new.status = "disabled" /\ new.was = journey[j].was
      /\ journey' = [journey EXCEPT ![j] = new] /\ journey[j].was
  BY <1>1 DEF DisableJourney, JourneySet, JourneyInv, EverLive
<1>3. lost \in Enrolments /\ Sound(j, lost)
  BY <1>1 DEF Enrolments, Sound, JourneyInv, RowsSound
<1>4. pending' = IF Active(enrolment[j]) THEN [pending EXCEPT ![j] = lost] ELSE pending
  BY DEF DisableJourney
<1> HIDE DEF new, lost
<1>5. journey' \in [J -> JourneySet] /\ EverLive' /\ \A m \in J : journey[m].was => journey'[m].was
  BY <1>1, <1>2 DEF JourneyInv, EverLive
<1>6. pending' \in [J -> Enrolments] /\ \A m \in J : Sound(m, pending'[m])
  BY <1>1, <1>3, <1>4 DEF JourneyInv, RowsSound
<1>7. JourneyTypes' /\ UNCHANGED <<sync, enrolment>>
  BY <1>5, <1>6 DEF DisableJourney, Act, JourneyInv, JourneyTypes
<1> QED
  BY <1>5, <1>6, <1>7, OthersKeep DEF JourneyInv, RowsSound

LEMMA WriteBackKeeps ==
  ASSUME JourneyInv, NEW j \in J, WriteBack(j)
  PROVE  JourneyInv'
<1>1. /\ enrolment \in [J -> Enrolments] /\ pending \in [J -> Enrolments] /\ Sound(j, pending[j])
      /\ Sound(j, NotEnrolled) /\ NotEnrolled \in Enrolments
  BY Facts DEF JourneyInv, JourneyTypes, RowsSound, Sound, NotEnrolled
<1>2. /\ enrolment' \in [J -> Enrolments] /\ pending' \in [J -> Enrolments]
      /\ \A m \in J : Sound(m, enrolment'[m]) /\ Sound(m, pending'[m])
  BY <1>1 DEF WriteBack, JourneyInv, RowsSound
<1>3. JourneyTypes' /\ EverLive' /\ UNCHANGED <<sync, journey>>
  BY <1>2 DEF WriteBack, JourneyInv, JourneyTypes, EverLive
<1> QED
  BY <1>2, <1>3, OthersKeep

LEMMA DeleteKeeps ==
  ASSUME JourneyInv, NEW j \in J, Delete(j)
  PROVE  JourneyInv'
<1>1. journey \in [J -> JourneySet] /\ ~journey[j].was /\ NoJourney \in JourneySet
      /\ NoJourney.status = "none" /\ ~NoJourney.was
  BY Facts DEF Delete, JourneyInv, JourneyTypes, NoJourney
<1> DEFINE left(k) == [journey[k] EXCEPT !.after = IF journey[k].after = j THEN None ELSE journey[k].after]
<1>2. ASSUME NEW k \in J
      PROVE  left(k) \in JourneySet /\ left(k).status = journey[k].status /\ left(k).was = journey[k].was
  <2>1. journey[k] \in JourneySet
    BY <1>1
  <2> QED
    BY <2>1 DEF JourneySet
<1>3. journey' = [k \in J |-> IF k = j THEN NoJourney ELSE left(k)]
  BY DEF Delete
<1> HIDE DEF left
<1>4. journey' \in [J -> JourneySet] /\ EverLive' /\ \A m \in J : journey[m].was => journey'[m].was
  BY <1>1, <1>2, <1>3 DEF JourneyInv, EverLive
<1> QED
  BY <1>4, OthersKeepRows DEF Delete, Act, JourneyInv, JourneyTypes

LEMMA ObserversKeep ==
  ASSUME JourneyInv, NEW j \in J, SaveObservers(j)
  PROVE  JourneyInv'
<1>1. observes' \subseteq J /\ EverLive'
  BY DEF SaveObservers, JourneyInv, JourneyTypes, EverLive
<1> QED
  BY <1>1, OthersKeepRows DEF SaveObservers, Act, JourneyInv, JourneyTypes

LEMMA GivenType ==
  ASSUME NEW p \in ProgressSet
  PROVE  Given(p) \in ProgressSet /\ Given(p).on /\ Given(p).st # "none"
         /\ (p.st # "none" => Given(p).st = p.st) /\ (p.st = "none" => Given(p).st = "pending")
  BY DEF Given, ProgressSet

LEMMA DisableCourseKeeps ==
  ASSUME JourneyInv, NEW c \in Courses, DisableCourse(c)
  PROVE  JourneyInv'
<1>1. course \in [Courses -> CourseSet] /\ progress \in [Courses -> ProgressSet]
      /\ \A d \in Courses : progress[d].on => progress[d].st # "none"
  BY DEF JourneyInv, JourneyTypes
<1>2. course' \in [Courses -> CourseSet]
  BY <1>1 DEF DisableCourse, CourseSet
<1>3. progress' \in [Courses -> ProgressSet] /\ \A d \in Courses : progress'[d].on => progress'[d].st # "none"
  BY <1>1 DEF DisableCourse, ProgressSet
<1>4. EverLive' /\ journey' = journey
  BY DEF DisableCourse, JourneyInv, EverLive
<1> QED
  BY <1>2, <1>3, <1>4, OthersKeepRows DEF DisableCourse, Act, JourneyInv, JourneyTypes

LEMMA PublishCourseKeeps ==
  ASSUME JourneyInv, NEW c \in Courses, NEW rule \in {"nobody", "mine"}, PublishCourse(c, rule)
  PROVE  JourneyInv'
<1>1. course \in [Courses -> CourseSet] /\ progress \in [Courses -> ProgressSet]
      /\ \A d \in Courses : progress[d].on => progress[d].st # "none"
  BY DEF JourneyInv, JourneyTypes
<1>2. course' \in [Courses -> CourseSet]
  BY <1>1 DEF PublishCourse, CourseSet, Rules
<1> DEFINE kept == [st |-> progress[c].st, on |-> progress[c].on /\ HeldByJourney(c)]
           new == IF rule = "mine" /\ employed THEN Given(progress[c]) ELSE kept
<1>3. new \in ProgressSet /\ (new.on => new.st # "none")
  <2>1. kept \in ProgressSet /\ (kept.on => kept.st # "none")
    BY <1>1 DEF ProgressSet
  <2> HIDE DEF kept
  <2> QED
    BY <1>1, <2>1, GivenType
<1>4. progress' = [progress EXCEPT ![c] = new]
  BY DEF PublishCourse
<1> HIDE DEF new
<1>5. progress' \in [Courses -> ProgressSet] /\ \A d \in Courses : progress'[d].on => progress'[d].st # "none"
  BY <1>1, <1>3, <1>4
<1>6. EverLive' /\ journey' = journey
  BY DEF PublishCourse, JourneyInv, EverLive
<1> QED
  BY <1>2, <1>5, <1>6, OthersKeepRows DEF PublishCourse, Act, JourneyInv, JourneyTypes

LEMMA EmploymentKeeps ==
  ASSUME JourneyInv, Employment
  PROVE  JourneyInv'
<1>1. EverLive' /\ journey' = journey /\ employed' \in BOOLEAN
  BY DEF Employment, JourneyInv, EverLive, JourneyTypes
<1> QED
  BY <1>1, OthersKeepRows DEF Employment, Act, JourneyInv, JourneyTypes

LEMMA LearnKeeps ==
  ASSUME JourneyInv, NEW c \in Courses, Learn(c)
  PROVE  JourneyInv'
<1>1. progress \in [Courses -> ProgressSet] /\ \A d \in Courses : progress[d].on => progress[d].st # "none"
  BY DEF JourneyInv, JourneyTypes
<1>2. progress' \in [Courses -> ProgressSet] /\ \A d \in Courses : progress'[d].on => progress'[d].st # "none"
  BY <1>1 DEF Learn, ProgressSet
<1>3. EverLive' /\ journey' = journey
  BY DEF Learn, trainer, JourneyInv, EverLive
<1> QED
  BY <1>2, <1>3, OthersKeepRows DEF Learn, trainer, JourneyInv, JourneyTypes

LEMMA NamingType ==
  ASSUME JourneyTypes, NEW j \in J, NEW before, NEW after
  PROVE  Naming(j, before, after) \in (SUBSET Courses) \cup {None}
<1>1. journey[j].plan \in PlanSet
  BY DEF JourneyTypes, JourneySet
<1> DEFINE plan == journey[j].plan
           required == {plan[i].course : i \in {i \in DOMAIN plan : plan[i].required}}
<1>2. required \in SUBSET Courses
  BY <1>1, PlanCourses
<1>3. Naming(j, before, after) = required \/ Naming(j, before, after) = None
  BY DEF Naming
<1> HIDE DEF required
<1> QED
  BY <1>2, <1>3

LEMMA IssuedType ==
  ASSUME JourneyTypes, NEW j \in J, NEW names \in (SUBSET Courses) \cup {None}
  PROVE  Issued(j, names) \in [J -> (SUBSET Courses) \cup {None}]
  BY DEF Issued, JourneyTypes

LEMMA DownloadKeeps ==
  ASSUME JourneyInv, NEW j \in J, Download(j)
  PROVE  JourneyInv'
<1>1. certs' \in [J -> (SUBSET Courses) \cup {None}]
  BY NamingType, IssuedType DEF Download, JourneyInv
<1>2. JourneyTypes' /\ EverLive'
  BY <1>1 DEF Download, trainer, JourneyInv, JourneyTypes, EverLive
<1> QED
  BY <1>2, OthersKeep DEF Download, trainer, JourneyInv, RowsSound

LEMMA BeginKeeps ==
  ASSUME JourneyInv, NEW s \in Syncs, BeginSync(s)
  PROVE  JourneyInv'
<1> DEFINE me == [Resting EXCEPT !.phase = "look", !.active = employed, !.seen = progress]
<1>1. /\ me \in SyncSet /\ me.phase = "look" /\ me.seen = progress /\ me.rows = <<>>
      /\ progress \in [Courses -> ProgressSet]
  BY RestingFit DEF SyncSet, Resting, JourneyInv, JourneyTypes
<1>2. sync' = [sync EXCEPT ![s] = me]
  BY DEF BeginSync
<1> HIDE DEF me
<1>3. Fit(me) /\ RowsOf(me)
  BY <1>1, NoRows DEF Fit, InPass, RowsOf
<1>4. SyncTypes' /\ RowsSound' /\ EverLive'
  BY <1>2, <1>3, SyncKeepsTypes DEF BeginSync, trainer, JourneyInv, RowsSound
<1>5. JourneyTypes'
  BY DEF BeginSync, trainer, JourneyInv, JourneyTypes
<1> QED
  BY <1>4, <1>5 DEF JourneyInv

\* The rows that a look makes of those it found.
LookedRows(me) ==
  IF me.active THEN Evaluated(Membership, Passed(me.seen))
  ELSE [j \in J |-> [enrolment[j] EXCEPT !.revoked = @ \/ Active(enrolment[j])]]

LEMMA LookedType ==
  ASSUME JourneyInv, NEW me, NEW j \in J
  PROVE  LookedRows(me)[j] \in Enrolments /\ Sound(j, LookedRows(me)[j])
<1>1. CASE me.active
  <2>1. Membership[j] \in Enrolments /\ Sound(j, Membership[j])
    BY MembershipType DEF JourneyInv
  <2> QED
    BY <1>1, <2>1, EvaluatedType DEF LookedRows, JourneyInv
<1>2. CASE ~me.active
  <2>1. enrolment[j] \in Enrolments /\ Sound(j, enrolment[j])
    BY DEF JourneyInv, JourneyTypes, RowsSound
  <2>2. LookedRows(me)[j] = [enrolment[j] EXCEPT !.revoked = enrolment[j].revoked \/ Active(enrolment[j])]
    BY <1>2 DEF LookedRows
  <2>3. (enrolment[j].revoked \/ Active(enrolment[j])) \in BOOLEAN
    OBVIOUS
  <2> QED
    BY <2>1, <2>2, <2>3 DEF Enrolments, Sound
<1> QED
  BY <1>1, <1>2

\* The part of Look that has changed rows to write: what the reconciliation holds then.
LookedAt(me) ==
  LET table == LookedRows(me)
      changed == {j \in J : table[j] # enrolment[j]}
  IN [me EXCEPT !.phase = "store",
        !.rows = [j \in changed |-> [enrolment |-> table[j], names |-> Naming(j, enrolment[j], table[j])]],
        !.wanted = IF me.active THEN WantedOf(table, me.seen) ELSE {}]

LEMMA LookIs ==
  ASSUME NEW s, Look(s)
  PROVE  sync' = [sync EXCEPT ![s] = Stored(LookedAt(sync[s]))] /\ sync[s].phase = "look"
  BY DEF Look, LookedAt, LookedRows

LEMMA WantedSubset ==
  ASSUME JourneyTypes, NEW table, \A j \in J : table[j] \in Enrolments, NEW seen
  PROVE  WantedOf(table, seen) \subseteq Courses
<1> SUFFICES ASSUME NEW c \in WantedOf(table, seen) PROVE c \in Courses
  OBVIOUS
<1>1. PICK j \in J : c \in Unlocked(journey[j].plan, Passed(seen), TRUE, table[j].unlocked) \cup KeptOf(j, table[j], seen)
  BY DEF WantedOf, LiveJourneys
<1>2. journey[j].plan \in PlanSet
  BY DEF JourneyTypes, JourneySet
<1>3. c \in Unlocked(journey[j].plan, Passed(seen), TRUE, table[j].unlocked) => c \in Courses
  BY <1>2, UnlockedSubset, PlanCourses
<1>4. c \in KeptOf(j, table[j], seen) => c \in Courses
  BY DEF KeptOf, Enrolments
<1> QED
  BY <1>1, <1>3, <1>4

LEMMA LookedAtFit ==
  ASSUME JourneyInv, NEW s \in Syncs, sync[s].phase = "look"
  PROVE  LET me == sync[s]  new == LookedAt(me) IN
         /\ new \in SyncSet /\ new.phase = "store" /\ new.seen = me.seen /\ new.active = me.active
         /\ new.seen \in [Courses -> ProgressSet] /\ RowsOf(new)
         /\ DOMAIN new.rows = {j \in J : LookedRows(me)[j] # enrolment[j]}
         /\ \A j \in DOMAIN new.rows : new.rows[j].enrolment = LookedRows(me)[j]
         /\ new.wanted = IF me.active THEN WantedOf(LookedRows(me), me.seen) ELSE {}
<1> DEFINE me == sync[s]
           table == LookedRows(me)
           changed == {j \in J : table[j] # enrolment[j]}
           coming == [j \in changed |-> [enrolment |-> table[j], names |-> Naming(j, enrolment[j], table[j])]]
           wanted == IF me.active THEN WantedOf(table, me.seen) ELSE {}
<1>1. me \in SyncSet /\ me.seen \in [Courses -> ProgressSet]
  BY DEF JourneyInv, SyncTypes
<1>2. \A j \in J : table[j] \in Enrolments /\ Sound(j, table[j])
  BY LookedType
<1>3. wanted \in SUBSET Courses
  BY <1>2, WantedSubset DEF JourneyInv
<1>4. LookedAt(me) = [me EXCEPT !.phase = "store", !.rows = coming, !.wanted = wanted]
  BY DEF LookedAt
<1> HIDE DEF table, wanted
<1>5. coming \in [changed -> Coming]
  <2> SUFFICES ASSUME NEW j \in changed
               PROVE  [enrolment |-> table[j], names |-> Naming(j, enrolment[j], table[j])] \in Coming
    OBVIOUS
  <2>1. Naming(j, enrolment[j], table[j]) \in (SUBSET Courses) \cup {None}
    BY NamingType DEF JourneyInv
  <2> QED
    BY <1>2, <2>1 DEF Coming
<1>6. coming \in RowsSet /\ DOMAIN coming = changed /\ \A j \in changed : coming[j].enrolment = table[j]
  <2>1. changed \in SUBSET J
    OBVIOUS
  <2> HIDE DEF changed
  <2>2. DOMAIN coming = changed /\ \A j \in changed : coming[j].enrolment = table[j]
    OBVIOUS
  <2> HIDE DEF coming
  <2> QED
    BY <1>5, <2>1, <2>2 DEF RowsSet
<1>7. \A j \in changed : j \in J
  OBVIOUS
<1> DEFINE new == LookedAt(me)
<1> HIDE DEF coming, changed
<1>8. /\ new \in SyncSet /\ new.phase = "store" /\ new.seen = me.seen /\ new.active = me.active
      /\ new.rows = coming /\ new.wanted = wanted
  BY <1>1, <1>3, <1>4, <1>6 DEF SyncSet
<1>9. RowsOf(new)
  BY <1>2, <1>6, <1>7, <1>8 DEF RowsOf
<1> QED
  BY <1>1, <1>6, <1>8, <1>9 DEF table, wanted, changed

LEMMA LookKeeps ==
  ASSUME JourneyInv, NEW s \in Syncs, Look(s)
  PROVE  JourneyInv'
<1> DEFINE me == Stored(LookedAt(sync[s]))
<1>1. sync' = [sync EXCEPT ![s] = me] /\ sync[s].phase = "look"
  BY LookIs
<1>2. Fit(me) /\ RowsOf(me)
  BY <1>1, LookedAtFit, StoredFit DEF JourneyInv
<1> HIDE DEF me
<1>3. SyncTypes' /\ RowsSound' /\ EverLive'
  BY <1>1, <1>2, SyncKeepsTypes DEF Look, trainer, JourneyInv, RowsSound
<1>4. JourneyTypes'
  BY DEF Look, trainer, JourneyInv, JourneyTypes
<1> QED
  BY <1>3, <1>4 DEF JourneyInv

\* A reconciliation that has written one of its rows.
Wrote(me, j) == [me EXCEPT !.rows = [k \in DOMAIN me.rows \ {j} |-> me.rows[k]]]

LEMMA WroteFit ==
  ASSUME JourneyInv, NEW s \in Syncs, sync[s].phase = "store", NEW j \in DOMAIN sync[s].rows
  PROVE  LET me == sync[s]  new == Wrote(me, j) IN
         /\ new \in SyncSet /\ new.phase = "store" /\ new.seen = me.seen /\ new.active = me.active
         /\ new.wanted = me.wanted /\ new.seen \in [Courses -> ProgressSet] /\ RowsOf(new)
         /\ DOMAIN new.rows = DOMAIN me.rows \ {j} /\ \A k \in DOMAIN new.rows : new.rows[k] = me.rows[k]
         /\ j \in J /\ me.rows[j] \in Coming /\ Sound(j, me.rows[j].enrolment)
<1> DEFINE me == sync[s]
           left == [k \in DOMAIN me.rows \ {j} |-> me.rows[k]]
           new == Wrote(me, j)
<1>1. me \in SyncSet /\ me.seen \in [Courses -> ProgressSet]
  BY DEF JourneyInv, SyncTypes
<1>2. PICK D \in SUBSET J : me.rows \in [D -> Coming]
  BY <1>1 DEF SyncSet, RowsSet
<1>3. left \in [D \ {j} -> Coming] /\ DOMAIN me.rows = D
  BY <1>2
<1>4. left \in RowsSet /\ DOMAIN left = DOMAIN me.rows \ {j} /\ \A k \in DOMAIN left : left[k] = me.rows[k]
  BY <1>3 DEF RowsSet
<1> HIDE DEF left
<1>5. /\ new \in SyncSet /\ new.phase = "store" /\ new.seen = me.seen /\ new.active = me.active
      /\ new.wanted = me.wanted /\ new.rows = left
  BY <1>1, <1>4 DEF SyncSet, Wrote, left
<1>6. \A k \in D : Sound(k, me.rows[k].enrolment)
  BY <1>3 DEF JourneyInv, RowsSound
<1>7. RowsOf(new)
  BY <1>3, <1>4, <1>5, <1>6 DEF RowsOf
<1> QED
  BY <1>1, <1>2, <1>3, <1>4, <1>5, <1>6, <1>7

LEMMA StoreIs ==
  ASSUME NEW s, Store(s)
  PROVE  \E j \in DOMAIN sync[s].rows :
           /\ enrolment' = [enrolment EXCEPT ![j] = sync[s].rows[j].enrolment]
           /\ \/ certs' = certs
              \/ certs' = Issued(j, sync[s].rows[j].names)
           /\ sync' = [sync EXCEPT ![s] = Stored(Wrote(sync[s], j))]
  BY DEF Store, Wrote

LEMMA StoreKeeps ==
  ASSUME JourneyInv, NEW s \in Syncs, Store(s)
  PROVE  JourneyInv'
<1>1. PICK j \in DOMAIN sync[s].rows :
           /\ enrolment' = [enrolment EXCEPT ![j] = sync[s].rows[j].enrolment]
           /\ \/ certs' = certs
              \/ certs' = Issued(j, sync[s].rows[j].names)
           /\ sync' = [sync EXCEPT ![s] = Stored(Wrote(sync[s], j))]
  BY StoreIs
<1>2. sync[s].phase = "store"
  BY DEF Store
<1> DEFINE me == Wrote(sync[s], j)
<1>3. /\ me \in SyncSet /\ me.phase = "store" /\ me.seen \in [Courses -> ProgressSet] /\ RowsOf(me)
      /\ j \in J /\ sync[s].rows[j] \in Coming /\ Sound(j, sync[s].rows[j].enrolment)
  BY <1>2, WroteFit
<1> HIDE DEF me
<1>4. Fit(Stored(me)) /\ RowsOf(Stored(me))
  BY <1>3, StoredFit DEF JourneyInv
<1>5. sync[s].rows[j].enrolment \in Enrolments /\ sync[s].rows[j].names \in (SUBSET Courses) \cup {None}
  BY <1>3 DEF Coming
<1>6. enrolment' \in [J -> Enrolments] /\ \A k \in J : Sound(k, enrolment'[k])
  BY <1>1, <1>3, <1>5 DEF JourneyInv, JourneyTypes, RowsSound
<1>7. SyncTypes' /\ RowsSound' /\ EverLive'
  BY <1>1, <1>4, <1>6, SyncKeepsTypes DEF Store, trainer, me
<1>8. certs' \in [J -> (SUBSET Courses) \cup {None}]
  BY <1>1, <1>3, <1>5, IssuedType DEF JourneyInv, JourneyTypes
<1>9. JourneyTypes'
  BY <1>6, <1>8 DEF Store, trainer, JourneyInv, JourneyTypes
<1> QED
  BY <1>7, <1>9 DEF JourneyInv

\* A visit leaves a learner's course in order.
LEMMA VisitKeeps ==
  ASSUME JourneyInv, NEW s \in Syncs, InPass(sync[s]), Visited(s),
         progress' \in [Courses -> ProgressSet], \A c \in Courses : progress'[c].on => progress'[c].st # "none",
         calm' = calm \cap {s}, UNCHANGED <<trainer, employed, enrolment, certs>>
  PROVE  JourneyInv'
<1> DEFINE rest == [sync[s] EXCEPT !.todo = sync[s].todo \ {First(sync[s].todo)}]
           me == Passing(rest)
<1>1. sync' = [sync EXCEPT ![s] = me] /\ Fit(me) /\ RowsOf(me)
  BY VisitedFit
<1> HIDE DEF me
<1>2. SyncTypes' /\ RowsSound' /\ EverLive'
  BY <1>1, SyncKeepsTypes DEF trainer, JourneyInv, RowsSound
<1>3. JourneyTypes'
  BY DEF trainer, JourneyInv, JourneyTypes
<1> QED
  BY <1>2, <1>3 DEF JourneyInv

\* What each pass does to the course that it visits.
LEMMA RevokeIs ==
  ASSUME JourneyInv, NEW s \in Syncs, RevokePass(s)
  PROVE  \E c \in sync[s].todo :
           /\ c = First(sync[s].todo) /\ c \in Courses /\ InPass(sync[s])
           /\ progress' \in [Courses -> ProgressSet]
           /\ \A d \in Courses : /\ progress'[d].st = progress[d].st
                                 /\ d # c => progress'[d] = progress[d]
                                 /\ progress'[d].on => progress[d].on
           /\ progress'[c].on => ~Withdrawn(sync[s], c)
<1>1. InPass(sync[s]) /\ sync[s] \in SyncSet /\ sync[s].todo # {} /\ sync[s].todo \in SUBSET Courses
  BY DEF RevokePass, InPass, JourneyInv, SyncTypes, SyncSet
<1> DEFINE c == First(sync[s].todo)
           on == progress[c].on /\ ~Withdrawn(sync[s], c)
<1>2. c \in sync[s].todo /\ c \in Courses
  BY <1>1, FirstIsOne
<1>3. progress' = [progress EXCEPT ![c].on = on] /\ on \in BOOLEAN
  BY DEF RevokePass
<1>4. progress \in [Courses -> ProgressSet]
  BY DEF JourneyInv, JourneyTypes
<1>5. on => progress[c].on /\ ~Withdrawn(sync[s], c)
  OBVIOUS
<1> HIDE DEF on, c
<1>6. progress' \in [Courses -> ProgressSet]
  BY <1>2, <1>3, <1>4 DEF ProgressSet
<1>7. progress'[c].on = on /\ progress'[c].st = progress[c].st /\ \A d \in Courses : d # c => progress'[d] = progress[d]
  BY <1>2, <1>3, <1>4 DEF ProgressSet
<1> QED
  BY <1>1, <1>2, <1>5, <1>6, <1>7 DEF c

LEMMA GivingIs ==
  ASSUME JourneyInv, NEW c \in Courses, progress' = [progress EXCEPT ![c] = Given(progress[c])]
  PROVE  /\ progress' \in [Courses -> ProgressSet] /\ progress'[c].on
         /\ \A d \in Courses : /\ progress[d].st # "none" => progress'[d].st = progress[d].st
                               /\ progress[d].st = "none" => progress'[d].st \in {"none", "pending"}
                               /\ progress'[d].on => progress'[d].st # "none"
                               /\ d # c => progress'[d] = progress[d]
                               /\ progress[d].on => progress'[d].on
<1>1. /\ progress \in [Courses -> ProgressSet]
      /\ \A d \in Courses : progress[d].on => progress[d].st # "none"
  BY DEF JourneyInv, JourneyTypes
<1>2. /\ Given(progress[c]) \in ProgressSet /\ Given(progress[c]).on /\ Given(progress[c]).st # "none"
      /\ progress[c].st # "none" => Given(progress[c]).st = progress[c].st
      /\ progress[c].st = "none" => Given(progress[c]).st = "pending"
  BY <1>1, GivenType
<1> QED
  BY <1>1, <1>2

\* The course that a pass visits, and that the course is left as it was or given.
LEMMA GiveIs ==
  ASSUME JourneyInv, NEW s \in Syncs, RulePass(s) \/ JourneyPass(s)
  PROVE  \E c \in sync[s].todo :
           /\ c = First(sync[s].todo) /\ c \in Courses /\ InPass(sync[s])
           /\ RulePass(s) => progress' = IF ByRule(c) THEN [progress EXCEPT ![c] = Given(progress[c])] ELSE progress
           /\ JourneyPass(s) => progress' = [progress EXCEPT ![c] = Given(progress[c])]
           /\ progress' \in [Courses -> ProgressSet]
           /\ \A d \in Courses : /\ progress[d].st # "none" => progress'[d].st = progress[d].st
                                 /\ progress[d].st = "none" => progress'[d].st \in {"none", "pending"}
                                 /\ progress'[d].on => progress'[d].st # "none"
                                 /\ d # c => progress'[d] = progress[d]
                                 /\ progress[d].on => progress'[d].on
<1>1. InPass(sync[s]) /\ sync[s] \in SyncSet /\ sync[s].todo # {} /\ sync[s].todo \in SUBSET Courses
  BY DEF RulePass, JourneyPass, InPass, JourneyInv, SyncTypes, SyncSet
<1> DEFINE c == First(sync[s].todo)
<1>2. c \in sync[s].todo /\ c \in Courses
  BY <1>1, FirstIsOne
<1>3. course[c].published
  BY <1>2 DEF JourneyInv, JourneyTypes, CourseSet
<1>4. RulePass(s) => progress' = IF ByRule(c) THEN [progress EXCEPT ![c] = Given(progress[c])] ELSE progress
  BY <1>3 DEF RulePass
<1>5. JourneyPass(s) => progress' = [progress EXCEPT ![c] = Given(progress[c])]
  BY <1>3 DEF JourneyPass, JourneyGrant
<1> HIDE DEF c
<1>6. /\ progress \in [Courses -> ProgressSet]
      /\ \A d \in Courses : progress[d].on => progress[d].st # "none"
  BY DEF JourneyInv, JourneyTypes
<1>7. CASE progress' = progress
  BY <1>1, <1>2, <1>4, <1>5, <1>6, <1>7 DEF c
<1>8. CASE progress' = [progress EXCEPT ![c] = Given(progress[c])]
  <2>1. /\ progress' \in [Courses -> ProgressSet] /\ progress'[c].on
        /\ \A d \in Courses : /\ progress[d].st # "none" => progress'[d].st = progress[d].st
                              /\ progress[d].st = "none" => progress'[d].st \in {"none", "pending"}
                              /\ progress'[d].on => progress'[d].st # "none"
                              /\ d # c => progress'[d] = progress[d]
                              /\ progress[d].on => progress'[d].on
    BY <1>2, <1>8, GivingIs
  <2> QED
    BY <1>1, <1>2, <1>4, <1>5, <1>8, <2>1 DEF c
<1> QED
  BY <1>4, <1>5, <1>7, <1>8

LEMMA PassKeeps ==
  ASSUME JourneyInv, NEW s \in Syncs, RevokePass(s) \/ RulePass(s) \/ JourneyPass(s)
  PROVE  JourneyInv'
<1>1. \A c \in Courses : progress[c].on => progress[c].st # "none"
  BY DEF JourneyInv, JourneyTypes
<1>2. CASE RevokePass(s)
  <2>1. /\ InPass(sync[s]) /\ progress' \in [Courses -> ProgressSet]
        /\ \A c \in Courses : progress'[c].on => progress'[c].st # "none"
    BY <1>1, <1>2, RevokeIs
  <2> QED
    BY <1>2, <2>1, VisitKeeps DEF RevokePass
<1>3. CASE RulePass(s) \/ JourneyPass(s)
  <2>1. /\ InPass(sync[s]) /\ progress' \in [Courses -> ProgressSet]
        /\ \A c \in Courses : progress'[c].on => progress'[c].st # "none"
    BY <1>3, GiveIs
  <2> QED
    BY <1>3, <2>1, VisitKeeps DEF RulePass, JourneyPass
<1> QED
  BY <1>2, <1>3

LEMMA StutterKeeps ==
  ASSUME JourneyInv, UNCHANGED journeyVars
  PROVE  JourneyInv'
<1>1. JourneyTypes' /\ EverLive' /\ UNCHANGED <<sync, journey>>
  BY DEF journeyVars, JourneyInv, JourneyTypes, EverLive
<1> QED
  BY <1>1, OthersKeep DEF journeyVars, JourneyInv, RowsSound

LEMMA JourneyNextInv == JourneyInv /\ [JourneysNext]_journeyVars => JourneyInv'
<1> SUFFICES ASSUME JourneyInv, [JourneysNext]_journeyVars PROVE JourneyInv'
  OBVIOUS
<1>1. CASE TrainerActs
  BY <1>1, CreateKeeps, DisableKeeps, WriteBackKeeps, DeleteKeeps, ObserversKeep, DuplicateKeeps,
     PublishKeeps, SaveKeeps, DisableCourseKeeps, PublishCourseKeeps DEF TrainerActs
<1>2. CASE \E s \in Syncs : Sync(s)
  BY <1>2, BeginKeeps, LookKeeps, StoreKeeps, PassKeeps DEF Sync
<1>3. CASE Employment \/ (\E c \in Courses : Learn(c)) \/ (\E j \in J : Download(j))
  BY <1>3, EmploymentKeeps, LearnKeeps, DownloadKeeps
<1> QED
  BY <1>1, <1>2, <1>3, StutterKeeps DEF JourneysNext

LEMMA JourneyAlways == JourneysSpec => []JourneyInv
  BY JourneyInitInv, JourneyNextInv, PTL DEF JourneysSpec

\* The stored rows of journeys, courses, progress and journey assignments, and
\* the reconciliations that are on their way, keep their types.
THEOREM JourneyTypeCorrect == JourneysSpec => []JourneysTypeOK
<1>1. JourneyInv => JourneysTypeOK
  BY DEF JourneyInv, JourneyTypes, JourneysTypeOK, JourneySet, CourseSet, ProgressSet
<1> QED
  BY <1>1, JourneyAlways, PTL

LEMMA AgreeInv == JourneyInv => ReportsAgree
<1> SUFFICES ASSUME JourneyInv, NEW j \in J
             PROVE  /\ (LearnerView(j).status = "completed") = (ReportView(j).status = "completed")
                    /\ LearnerView(j).certificate = ReportView(j).certificate
  BY DEF ReportsAgree
<1>1. enrolment[j] \in Enrolments /\ Sound(j, enrolment[j])
      /\ (journey[j].was => journey[j].status # "none")
  BY DEF JourneyInv, JourneyTypes, RowsSound, EverLive
<1>2. CASE j \in LiveJourneys /\ Active(enrolment[j])
  BY <1>1, <1>2 DEF LearnerView, ReportView, Active
<1>3. CASE ~(j \in LiveJourneys /\ Active(enrolment[j])) /\ enrolment[j].done
  <2>1. enrolment[j].held /\ journey[j].status # "none"
    BY <1>1, <1>3 DEF Sound
  <2> QED
    BY <1>1, <1>3, <2>1 DEF LearnerView, ReportView, ReportSnapshot, Active, Enrolments
<1>4. CASE ~(j \in LiveJourneys /\ Active(enrolment[j])) /\ ~enrolment[j].done
  <2>1. LearnerView(j).status # "completed" /\ LearnerView(j).certificate = FALSE
    BY <1>4 DEF LearnerView, Hidden
  <2>2. ReportView(j).status # "completed" /\ ReportView(j).certificate = FALSE
    BY <1>1, <1>4 DEF ReportView, ReportSnapshot, Active, Hidden, Enrolments
  <2> QED
    BY <2>1, <2>2
<1> QED
  BY <1>2, <1>3, <1>4

\* The learner's page and the trainer's report agree on whether a journey is
\* completed and on its certificate, though the report reads the snapshot of a
\* journey that is no longer live.
THEOREM ReportsAlwaysAgree == JourneysSpec => []ReportsAgree
  BY AgreeInv, JourneyAlways, PTL

-----------------------------------------------------------------------------
(* Journeys: what an undisturbed reconciliation has established.           *)

\* What the journeys give and keep, of given rows and courses.
MineBy(table, j) == employed /\ j \in LiveJourneys /\ Active(table[j])
GivenBy(table, p, j) ==
  IF MineBy(table, j) /\ table[j].open
    THEN Unlocked(journey[j].plan, Passed(p), TRUE, table[j].unlocked) ELSE {}
KeptBy(table, p, j, c) ==
  /\ MineBy(table, j) /\ c \in table[j].unlocked \ CoursesOf(journey[j].plan)
  /\ p[c].st \in {"started", "passed"}
Backed(table, p, c) == \E j \in J : c \in GivenBy(table, p, j) \/ KeptBy(table, p, j, c)
Justified(table, p, c) == employed /\ (ByRule(c) \/ Backed(table, p, c))
AllJustified(table, p) == \A c \in Courses : p[c].on => Justified(table, p, c)

\* What is wanted is backed, and it is all that the journeys give.
Wanting(wanted, table, p) ==
  /\ \A c \in wanted : Backed(table, p, c)
  /\ \A j \in J : GivenBy(table, p, j) \subseteq wanted

\* The rows as they will be when those still to be written are.
FinalRows(me, table) == [j \in J |-> IF j \in DOMAIN me.rows THEN me.rows[j].enrolment ELSE table[j]]

\* What an undisturbed reconciliation knows in each of its phases.
Undisturbed(me, table, p) ==
  /\ me.phase = "look" => me.seen = p /\ me.active = employed
  /\ me.phase = "store" =>
       /\ me.seen = p /\ me.active = employed
       /\ me.wanted = IF me.active THEN WantedOf(FinalRows(me, table), p) ELSE {}
  /\ me.phase = "revoke" =>
       /\ me.active = employed /\ Wanting(me.wanted, table, p)
       /\ \A c \in Courses \ me.todo : p[c].on => Justified(table, p, c)
  /\ me.phase = "rules" => /\ me.active /\ employed /\ Wanting(me.wanted, table, p) /\ AllJustified(table, p)
  /\ me.phase = "journeys" =>
       /\ employed /\ AllJustified(table, p)
       /\ \A c \in me.todo : Backed(table, p, c)
       /\ \A j \in J : \A c \in GivenBy(table, p, j) : c \in me.todo \/ p[c].on
  /\ me.phase = "idle" =>
       /\ AllJustified(table, p)
       /\ \A j \in J : \A c \in GivenBy(table, p, j) : p[c].on

CalmInv == \A s \in calm : Undisturbed(sync[s], enrolment, progress)
SettledInv == JourneyInv /\ CalmInv

LEMMA GivenAreCourses ==
  ASSUME JourneyTypes, NEW table, NEW p, NEW j \in J
  PROVE  GivenBy(table, p, j) \subseteq Courses
<1>1. journey[j].plan \in PlanSet
  BY DEF JourneyTypes, JourneySet
<1> QED
  BY <1>1, UnlockedSubset, PlanCourses DEF GivenBy

LEMMA WantedIsWanting ==
  ASSUME JourneyTypes, employed, NEW table, NEW p
  PROVE  Wanting(WantedOf(table, p), table, p)
<1>1. ASSUME NEW c \in WantedOf(table, p)
      PROVE  Backed(table, p, c)
  <2>1. PICK j \in LiveJourneys :
          /\ Active(table[j]) /\ table[j].open
          /\ \/ c \in Unlocked(journey[j].plan, Passed(p), TRUE, table[j].unlocked)
             \/ c \in KeptOf(j, table[j], p)
    BY DEF WantedOf
  <2>2. j \in J /\ MineBy(table, j)
    BY <2>1 DEF LiveJourneys, MineBy
  <2>3. CASE c \in Unlocked(journey[j].plan, Passed(p), TRUE, table[j].unlocked)
    BY <2>1, <2>2, <2>3 DEF Backed, GivenBy
  <2>4. CASE c \in KeptOf(j, table[j], p)
    <3>1. c \in table[j].unlocked \ CoursesOf(journey[j].plan) /\ p[c].st \in {"started", "passed"}
      BY <2>4 DEF KeptOf, Begun
    <3> QED
      BY <2>2, <3>1 DEF Backed, KeptBy
  <2> QED
    BY <2>1, <2>3, <2>4
<1>2. ASSUME NEW j \in J, NEW c \in GivenBy(table, p, j)
      PROVE  c \in WantedOf(table, p)
  <2>1. /\ j \in LiveJourneys /\ Active(table[j]) /\ table[j].open
        /\ c \in Unlocked(journey[j].plan, Passed(p), TRUE, table[j].unlocked)
    BY <1>2 DEF GivenBy, MineBy
  <2> DEFINE part(i) == Unlocked(journey[i].plan, Passed(p), TRUE, table[i].unlocked) \cup KeptOf(i, table[i], p)
  <2>2. WantedOf(table, p) = UNION {part(i) : i \in {i \in LiveJourneys : Active(table[i]) /\ table[i].open}}
    BY DEF WantedOf
  <2>3. c \in part(j)
    BY <2>1
  <2> HIDE DEF part
  <2> QED
    BY ZenonT(60), <2>1, <2>2, <2>3
<1> QED
  BY <1>1, <1>2 DEF Wanting

LEMMA NothingGiven ==
  ASSUME ~employed, NEW table, NEW p
  PROVE  \A j \in J : GivenBy(table, p, j) = {}
  BY DEF GivenBy, MineBy

LEMMA PassingUndisturbed ==
  ASSUME JourneyTypes, NEW me \in SyncSet, InPass(me), NEW table, NEW p, Undisturbed(me, table, p)
  PROVE  Undisturbed(Passing(me), table, p)
<1>1. CASE me.todo # {}
  BY <1>1 DEF Passing
<1>2. CASE me.todo = {} /\ me.phase = "revoke" /\ me.active
  <2> DEFINE next == [me EXCEPT !.phase = "rules", !.seen = Resting.seen,
                                !.todo = {c \in Courses : course[c].published}]
  <2>1. Passing(me) = next
    BY <1>2 DEF Passing
  <2>2. next.phase = "rules" /\ next.active = me.active /\ next.wanted = me.wanted
    BY DEF SyncSet
  <2> HIDE DEF next
  <2>3. employed /\ Wanting(me.wanted, table, p) /\ AllJustified(table, p)
    BY <1>2 DEF Undisturbed, AllJustified
  <2> QED
    BY <1>2, <2>1, <2>2, <2>3 DEF Undisturbed
<1>3. CASE me.todo = {} /\ me.phase = "rules" /\ me.wanted # {}
  <2> DEFINE next == [me EXCEPT !.phase = "journeys", !.wanted = {}, !.todo = me.wanted]
  <2>1. Passing(me) = next
    BY <1>3 DEF Passing
  <2>2. next.phase = "journeys" /\ next.todo = me.wanted
    BY DEF SyncSet
  <2> HIDE DEF next
  <2>3. employed /\ Wanting(me.wanted, table, p) /\ AllJustified(table, p)
    BY <1>3 DEF Undisturbed
  <2> QED
    BY <2>1, <2>2, <2>3 DEF Undisturbed, Wanting
<1>4. CASE /\ me.todo = {} /\ ~(me.phase = "revoke" /\ me.active)
           /\ ~(me.phase = "rules" /\ me.wanted # {})
  <2>1. Passing(me) = Resting /\ Resting.phase = "idle"
    BY <1>4, RestingFit DEF Passing
  <2>2. AllJustified(table, p) /\ \A j \in J : \A c \in GivenBy(table, p, j) : p[c].on
    <3>1. CASE me.phase = "revoke"
      <4>1. ~employed /\ \A c \in Courses : p[c].on => Justified(table, p, c)
        BY <1>4, <3>1 DEF Undisturbed, SyncSet
      <4> QED
        BY <4>1, NothingGiven DEF AllJustified
    <3>2. CASE me.phase = "rules"
      <4>1. Wanting({}, table, p) /\ AllJustified(table, p)
        BY <1>4, <3>2 DEF Undisturbed
      <4> QED
        BY <4>1 DEF Wanting
    <3>3. CASE me.phase = "journeys"
      BY <1>4, <3>3 DEF Undisturbed
    <3> QED
      BY <3>1, <3>2, <3>3 DEF InPass
  <2> QED
    BY <2>1, <2>2 DEF Undisturbed
<1> QED
  BY <1>1, <1>2, <1>3, <1>4

LEMMA StoredUndisturbed ==
  ASSUME JourneyTypes, NEW me \in SyncSet, me.phase = "store", NEW table \in [J -> Enrolments],
         NEW p \in [Courses -> ProgressSet], \A c \in Courses : p[c].on => p[c].st # "none",
         Undisturbed(me, table, p)
  PROVE  Undisturbed(Stored(me), table, p)
<1>1. CASE DOMAIN me.rows # {}
  BY <1>1 DEF Stored
<1>2. CASE DOMAIN me.rows = {}
  <2> DEFINE next == [me EXCEPT !.phase = "revoke", !.rows = <<>>,
                                !.todo = {c \in Courses : me.seen[c].st # "none"}]
  <2>1. Stored(me) = Passing(next)
    BY <1>2 DEF Stored
  <2>2. /\ next \in SyncSet /\ next.phase = "revoke" /\ next.active = me.active /\ next.wanted = me.wanted
        /\ next.todo = {c \in Courses : me.seen[c].st # "none"}
    BY NoRows DEF SyncSet
  <2> HIDE DEF next
  <2>3. /\ me.seen = p /\ me.active = employed
        /\ me.wanted = IF me.active THEN WantedOf(FinalRows(me, table), p) ELSE {}
    BY DEF Undisturbed
  <2>4. FinalRows(me, table) = table
    BY <1>2 DEF FinalRows
  <2>5. Wanting(me.wanted, table, p)
    <3>1. CASE employed
      BY <2>3, <2>4, <3>1, WantedIsWanting
    <3>2. CASE ~employed
      BY <2>3, <3>2, NothingGiven DEF Wanting
    <3> QED
      BY <3>1, <3>2
  <2>6. \A c \in Courses \ next.todo : ~p[c].on
    BY <2>2, <2>3
  <2>7. Undisturbed(next, table, p)
    BY <2>2, <2>3, <2>5, <2>6 DEF Undisturbed
  <2> QED
    BY <2>1, <2>2, <2>7, PassingUndisturbed DEF InPass
<1> QED
  BY <1>1, <1>2

\* What was learned stays as it is when access is given and withdrawn.
LEMMA SameLearned ==
  ASSUME NEW table, NEW p, NEW q,
         \A c \in Courses : /\ p[c].st # "none" => q[c].st = p[c].st
                            /\ p[c].st = "none" => q[c].st \in {"none", "pending"},
         JourneyTypes, table \in [J -> Enrolments]
  PROVE  /\ \A j \in J : GivenBy(table, q, j) = GivenBy(table, p, j)
         /\ \A c : Backed(table, p, c) => Backed(table, q, c)
         /\ \A c : Justified(table, p, c) => Justified(table, q, c)
         /\ \A wanted : Wanting(wanted, table, p) => Wanting(wanted, table, q)
<1>1. Passed(q) = Passed(p)
  BY DEF Passed
<1>2. \A j \in J : GivenBy(table, q, j) = GivenBy(table, p, j)
  BY <1>1 DEF GivenBy
<1>3. ASSUME NEW c, NEW j \in J, KeptBy(table, p, j, c)
      PROVE  KeptBy(table, q, j, c)
  <2>1. c \in table[j].unlocked
    BY <1>3 DEF KeptBy
  <2>2. table[j] \in Enrolments
    OBVIOUS
  <2>3. c \in Courses
    BY <2>1, <2>2 DEF Enrolments
  <2>4. p[c].st # "none" => q[c].st = p[c].st
    BY <2>3
  <2> QED
    BY <1>3, <2>4 DEF KeptBy
<1>4. \A c : Backed(table, p, c) => Backed(table, q, c)
  BY <1>2, <1>3 DEF Backed
<1>5. \A c : Justified(table, p, c) => Justified(table, q, c)
  BY <1>4 DEF Justified
<1>6. \A wanted : Wanting(wanted, table, p) => Wanting(wanted, table, q)
  BY <1>2, <1>4 DEF Wanting
<1> QED
  BY <1>2, <1>4, <1>5, <1>6

\* Where journeys, courses and employment stay, the same rows and courses mean the same.
LEMMA SameWorld ==
  ASSUME UNCHANGED <<journey, course, employed>>, NEW s
  PROVE  Undisturbed(sync'[s], enrolment', progress') <=> Undisturbed(sync[s], enrolment, progress)'
<1>1. LiveJourneys' = LiveJourneys
  BY DEF LiveJourneys
<1>2. \A c : Offered(c)' <=> Offered(c)
  BY DEF Offered
<1>3. ASSUME NEW plan, NEW i
      PROVE  Gate(plan, i)' = Gate(plan, i)
  <2> DEFINE earlier == {k \in 1..(i - 1) : plan[k].required /\ Offered(plan[k].course)}
             last(ks) == IF ks = {} THEN 0 ELSE CHOOSE k \in ks : \A m \in ks : m <= k
  <2>1. earlier' = earlier
    BY <1>2
  <2>2. Gate(plan, i) = last(earlier) /\ Gate(plan, i)' = last(earlier')
    BY DEF Gate
  <2> HIDE DEF earlier, last
  <2> QED
    BY <2>1, <2>2
<1>4. \A plan, passed, open, before : Unlocked(plan, passed, open, before)' = Unlocked(plan, passed, open, before)
  BY <1>2, <1>3 DEF Unlocked
<1>5. \A j, r, seen : KeptOf(j, r, seen)' = KeptOf(j, r, seen)
  BY <1>2 DEF KeptOf
<1>6. \A table, seen : WantedOf(table, seen)' = WantedOf(table, seen)
  BY <1>1, <1>4, <1>5 DEF WantedOf
<1>7. \A table, j : MineBy(table, j)' <=> MineBy(table, j)
  BY <1>1 DEF MineBy
<1>8. \A table, p, j : GivenBy(table, p, j)' = GivenBy(table, p, j)
  BY <1>4, <1>7 DEF GivenBy
<1>9. \A table, p, j, c : KeptBy(table, p, j, c)' <=> KeptBy(table, p, j, c)
  BY <1>7 DEF KeptBy
<1>10. \A table, p, c : Backed(table, p, c)' <=> Backed(table, p, c)
  BY <1>8, <1>9 DEF Backed
<1>11. \A c : ByRule(c)' <=> ByRule(c)
  BY DEF ByRule
<1>12. \A table, p, c : Justified(table, p, c)' <=> Justified(table, p, c)
  BY <1>10, <1>11 DEF Justified
<1>13. \A table, p : AllJustified(table, p)' <=> AllJustified(table, p)
  BY <1>12 DEF AllJustified
<1>14. \A wanted, table, p : Wanting(wanted, table, p)' <=> Wanting(wanted, table, p)
  BY <1>8, <1>10 DEF Wanting
<1>15. \A me, table : FinalRows(me, table)' = FinalRows(me, table)
  BY DEF FinalRows
<1>16. \A me, table, p : Undisturbed(me, table, p)' <=> Undisturbed(me, table, p)
  BY <1>6, <1>8, <1>10, <1>12, <1>13, <1>14, <1>15 DEF Undisturbed
<1> QED
  BY <1>16

-----------------------------------------------------------------------------
(* Journeys: every step keeps SettledInv.                                  *)

\* A step of one reconciliation: the others that are still undisturbed have seen nothing of it.
LEMMA CalmStep ==
  ASSUME SettledInv, UNCHANGED <<journey, course, employed>>, NEW s \in Syncs, NEW me,
         sync' = [sync EXCEPT ![s] = me],
         \/ calm' = calm \cap {s}
         \/ /\ calm' = calm \cup {s} \/ calm' = calm
            /\ UNCHANGED <<enrolment, progress>>,
         s \in calm' => Undisturbed(me, enrolment', progress')
  PROVE  CalmInv'
<1>1. calm' \subseteq Syncs
  BY DEF SettledInv, JourneyInv, JourneyTypes
<1>2. sync'[s] = me /\ \A r \in Syncs : r # s => sync'[r] = sync[r]
  BY DEF SettledInv, JourneyInv, SyncTypes
<1>3. ASSUME NEW r \in calm'
      PROVE  Undisturbed(sync'[r], enrolment', progress')
  <2>1. CASE r = s
    BY <1>2, <1>3, <2>1
  <2>2. CASE r # s
    <3>1. r \in calm /\ UNCHANGED <<enrolment, progress>> /\ sync'[r] = sync[r]
      BY <1>1, <1>2, <1>3, <2>2
    <3> QED
      BY <3>1 DEF SettledInv, CalmInv
  <2> QED
    BY <2>1, <2>2
<1>4. ASSUME NEW r \in calm'
      PROVE  Undisturbed(sync[r], enrolment, progress)'
  BY <1>3, <1>4, SameWorld
<1> QED
  BY <1>4 DEF CalmInv

LEMMA BeginCalm ==
  ASSUME SettledInv, NEW s \in Syncs, BeginSync(s)
  PROVE  CalmInv'
<1> DEFINE me == [Resting EXCEPT !.phase = "look", !.active = employed, !.seen = progress]
<1>1. me.phase = "look" /\ me.seen = progress /\ me.active = employed
  BY DEF Resting
<1>2. sync' = [sync EXCEPT ![s] = me] /\ calm' = calm \cup {s}
      /\ UNCHANGED <<journey, course, employed, enrolment, progress>>
  BY DEF BeginSync, trainer
<1> HIDE DEF me
<1>3. Undisturbed(me, enrolment, progress)
  BY <1>1 DEF Undisturbed
<1> QED
  BY <1>2, <1>3, CalmStep

LEMMA LookCalm ==
  ASSUME SettledInv, NEW s \in Syncs, Look(s)
  PROVE  CalmInv'
<1> DEFINE me == sync[s]
           new == LookedAt(me)
<1>1. sync' = [sync EXCEPT ![s] = Stored(new)] /\ me.phase = "look"
      /\ UNCHANGED <<journey, course, employed, enrolment, progress, calm>>
  BY LookIs DEF Look, trainer
<1>2. /\ new \in SyncSet /\ new.phase = "store" /\ new.seen = me.seen /\ new.active = me.active
      /\ DOMAIN new.rows = {j \in J : LookedRows(me)[j] # enrolment[j]}
      /\ \A j \in DOMAIN new.rows : new.rows[j].enrolment = LookedRows(me)[j]
      /\ new.wanted = IF me.active THEN WantedOf(LookedRows(me), me.seen) ELSE {}
  BY <1>1, LookedAtFit DEF SettledInv
<1>3. FinalRows(new, enrolment) = LookedRows(me)
  <2>1. LookedRows(me) = [j \in J |-> LookedRows(me)[j]]
    <3>1. CASE me.active
      BY <3>1 DEF LookedRows, Evaluated
    <3>2. CASE ~me.active
      BY <3>2 DEF LookedRows
    <3> QED
      BY <3>1, <3>2
  <2>2. FinalRows(new, enrolment) = [j \in J |-> LookedRows(me)[j]]
    BY <1>2 DEF FinalRows
  <2> QED
    BY <2>1, <2>2
<1> HIDE DEF new
<1>4. ASSUME s \in calm
      PROVE  Undisturbed(Stored(new), enrolment, progress)
  <2>1. me.seen = progress /\ me.active = employed
    BY <1>1, <1>4 DEF SettledInv, CalmInv, Undisturbed
  <2>2. Undisturbed(new, enrolment, progress)
    BY <1>2, <1>3, <2>1 DEF Undisturbed
  <2> QED
    BY <1>2, <2>2, StoredUndisturbed DEF SettledInv, JourneyInv, JourneyTypes
<1> QED
  BY <1>1, <1>4, CalmStep

LEMMA StoreCalm ==
  ASSUME SettledInv, NEW s \in Syncs, Store(s)
  PROVE  CalmInv'
<1>1. PICK j \in DOMAIN sync[s].rows :
           /\ enrolment' = [enrolment EXCEPT ![j] = sync[s].rows[j].enrolment]
           /\ sync' = [sync EXCEPT ![s] = Stored(Wrote(sync[s], j))]
  BY StoreIs
<1> DEFINE me == sync[s]
           new == Wrote(me, j)
<1>2. me.phase = "store" /\ calm' = calm \cap {s} /\ UNCHANGED <<journey, course, employed, progress>>
  BY DEF Store, trainer
<1>3. /\ new \in SyncSet /\ new.phase = "store" /\ new.seen = me.seen /\ new.active = me.active
      /\ new.wanted = me.wanted
      /\ DOMAIN new.rows = DOMAIN me.rows \ {j} /\ \A k \in DOMAIN new.rows : new.rows[k] = me.rows[k]
      /\ j \in J /\ me.rows[j] \in Coming
  BY <1>2, WroteFit DEF SettledInv
<1> HIDE DEF new
<1>4. enrolment' \in [J -> Enrolments]
  BY <1>1, <1>3 DEF SettledInv, JourneyInv, JourneyTypes, Coming
<1>5. FinalRows(new, enrolment') = FinalRows(me, enrolment)
  <2>1. \A k \in J : k # j => enrolment'[k] = enrolment[k]
    BY <1>1 DEF SettledInv, JourneyInv, JourneyTypes
  <2>2. enrolment'[j] = me.rows[j].enrolment
    BY <1>1, <1>3 DEF SettledInv, JourneyInv, JourneyTypes
  <2>3. ASSUME NEW k \in J
        PROVE  (IF k \in DOMAIN new.rows THEN new.rows[k].enrolment ELSE enrolment'[k])
               = (IF k \in DOMAIN me.rows THEN me.rows[k].enrolment ELSE enrolment[k])
    BY <1>1, <1>3, <2>1, <2>2
  <2> QED
    BY <2>3 DEF FinalRows
<1>6. ASSUME s \in calm
      PROVE  Undisturbed(Stored(new), enrolment', progress)
  <2>1. /\ me.seen = progress /\ me.active = employed
        /\ me.wanted = IF me.active THEN WantedOf(FinalRows(me, enrolment), progress) ELSE {}
    BY <1>2, <1>6 DEF SettledInv, CalmInv, Undisturbed
  <2>2. Undisturbed(new, enrolment', progress)
    BY <1>3, <1>5, <2>1 DEF Undisturbed
  <2> QED
    BY <1>3, <1>4, <2>2, StoredUndisturbed DEF SettledInv, JourneyInv, JourneyTypes
<1>7. s \in calm' => Undisturbed(Stored(new), enrolment', progress')
  BY <1>2, <1>6
<1> QED
  BY <1>1, <1>2, <1>7, CalmStep DEF new

\* A visit: what holds of the rest of the pass holds when the next one begins.
LEMMA VisitCalm ==
  ASSUME SettledInv, NEW s \in Syncs, InPass(sync[s]), Visited(s),
         calm' = calm \cap {s}, UNCHANGED <<journey, course, employed, enrolment>>,
         NEW c, c = First(sync[s].todo),
         \A rest \in SyncSet :
           /\ s \in calm /\ rest.phase = sync[s].phase /\ rest.active = sync[s].active
           /\ rest.wanted = sync[s].wanted /\ rest.todo = sync[s].todo \ {c}
           => Undisturbed(rest, enrolment, progress')
  PROVE  CalmInv'
<1> DEFINE rest == [sync[s] EXCEPT !.todo = sync[s].todo \ {First(sync[s].todo)}]
<1>1. /\ sync' = [sync EXCEPT ![s] = Passing(rest)]
      /\ rest \in SyncSet /\ rest.phase = sync[s].phase /\ rest.active = sync[s].active
      /\ rest.wanted = sync[s].wanted /\ rest.todo = sync[s].todo \ {c}
  BY VisitedFit DEF SettledInv
<1> HIDE DEF rest
<1>2. s \in calm => Undisturbed(rest, enrolment, progress')
  BY <1>1
<1>3. s \in calm' => Undisturbed(Passing(rest), enrolment', progress')
  BY <1>1, <1>2, PassingUndisturbed DEF SettledInv, JourneyInv, InPass
<1> QED
  BY <1>1, <1>3, CalmStep

LEMMA RevokeCalm ==
  ASSUME SettledInv, NEW s \in Syncs, RevokePass(s)
  PROVE  CalmInv'
<1> DEFINE me == sync[s]
<1>1. PICK c \in me.todo :
           /\ c = First(me.todo) /\ c \in Courses /\ InPass(me)
           /\ progress' \in [Courses -> ProgressSet]
           /\ \A d \in Courses : /\ progress'[d].st = progress[d].st
                                 /\ d # c => progress'[d] = progress[d]
                                 /\ progress'[d].on => progress[d].on
           /\ progress'[c].on => ~Withdrawn(me, c)
  BY RevokeIs DEF SettledInv
<1>2. me.phase = "revoke" /\ Visited(s) /\ calm' = calm \cap {s}
      /\ UNCHANGED <<journey, course, employed, enrolment>>
  BY DEF RevokePass, trainer
<1>3. /\ \A d : Justified(enrolment, progress, d) => Justified(enrolment, progress', d)
      /\ \A wanted : Wanting(wanted, enrolment, progress) => Wanting(wanted, enrolment, progress')
  <2>1. enrolment \in [J -> Enrolments] /\ progress \in [Courses -> ProgressSet] /\ JourneyTypes
    BY DEF SettledInv, JourneyInv, JourneyTypes
  <2>2. \A d \in Courses : /\ progress[d].st # "none" => progress'[d].st = progress[d].st
                           /\ progress[d].st = "none" => progress'[d].st \in {"none", "pending"}
    BY <1>1
  <2> QED
    BY <2>1, <2>2, SameLearned
<1>4. ASSUME NEW rest \in SyncSet, s \in calm, rest.phase = me.phase, rest.active = me.active,
             rest.wanted = me.wanted, rest.todo = me.todo \ {c}
      PROVE  Undisturbed(rest, enrolment, progress')
  <2>1. /\ me.active = employed /\ Wanting(me.wanted, enrolment, progress)
        /\ \A d \in Courses \ me.todo : progress[d].on => Justified(enrolment, progress, d)
    BY <1>2, <1>4 DEF SettledInv, CalmInv, Undisturbed
  <2>2. progress'[c].on => Justified(enrolment, progress, c)
    <3> SUFFICES ASSUME progress'[c].on PROVE Justified(enrolment, progress, c)
      OBVIOUS
    <3>1. progress[c].on /\ ~Withdrawn(me, c)
      BY <1>1
    <3>2. me.active /\ (ByRule(c) \/ c \in me.wanted)
      BY <3>1 DEF Withdrawn
    <3> QED
      BY <2>1, <3>2 DEF Justified, Wanting
  <2>3. \A d \in Courses \ rest.todo : progress'[d].on => Justified(enrolment, progress', d)
    BY <1>1, <1>3, <1>4, <2>1, <2>2
  <2>4. Wanting(rest.wanted, enrolment, progress')
    BY <1>3, <1>4, <2>1
  <2> QED
    BY <1>2, <1>4, <2>1, <2>3, <2>4 DEF Undisturbed
<1> QED
  BY <1>1, <1>2, <1>4, VisitCalm

LEMMA GiveCalm ==
  ASSUME SettledInv, NEW s \in Syncs, RulePass(s) \/ JourneyPass(s)
  PROVE  CalmInv'
<1> DEFINE me == sync[s]
<1>1. PICK c \in me.todo :
           /\ c = First(me.todo) /\ c \in Courses /\ InPass(me)
           /\ RulePass(s) => progress' = IF ByRule(c) THEN [progress EXCEPT ![c] = Given(progress[c])] ELSE progress
           /\ JourneyPass(s) => progress' = [progress EXCEPT ![c] = Given(progress[c])]
           /\ \A d \in Courses : /\ progress[d].st # "none" => progress'[d].st = progress[d].st
                                 /\ progress[d].st = "none" => progress'[d].st \in {"none", "pending"}
                                 /\ d # c => progress'[d] = progress[d]
                                 /\ progress[d].on => progress'[d].on
  BY GiveIs DEF SettledInv
<1>2. Visited(s) /\ calm' = calm \cap {s} /\ UNCHANGED <<journey, course, employed, enrolment>>
      /\ me.phase = IF RulePass(s) THEN "rules" ELSE "journeys"
  BY DEF RulePass, JourneyPass, trainer
<1>3. /\ \A j \in J : GivenBy(enrolment, progress', j) = GivenBy(enrolment, progress, j)
      /\ \A d : Backed(enrolment, progress, d) => Backed(enrolment, progress', d)
      /\ \A d : Justified(enrolment, progress, d) => Justified(enrolment, progress', d)
      /\ \A wanted : Wanting(wanted, enrolment, progress) => Wanting(wanted, enrolment, progress')
  <2>1. enrolment \in [J -> Enrolments] /\ JourneyTypes
    BY DEF SettledInv, JourneyInv, JourneyTypes
  <2> QED
    BY <1>1, <2>1, SameLearned
<1>4. ASSUME NEW rest \in SyncSet, s \in calm, rest.phase = me.phase, rest.active = me.active,
             rest.wanted = me.wanted, rest.todo = me.todo \ {c}
      PROVE  Undisturbed(rest, enrolment, progress')
  <2>1. AllJustified(enrolment, progress) /\ employed
    BY <1>2, <1>4 DEF SettledInv, CalmInv, Undisturbed
  <2>2. \A d \in Courses : d # c /\ progress'[d].on => Justified(enrolment, progress', d)
    BY <1>1, <1>3, <2>1 DEF AllJustified
  <2>3. CASE RulePass(s)
    <3>1. me.phase = "rules" /\ me.active /\ Wanting(me.wanted, enrolment, progress)
      BY <1>2, <1>4, <2>3 DEF SettledInv, CalmInv, Undisturbed
    <3>2. progress'[c].on => Justified(enrolment, progress', c)
      <4>1. CASE ByRule(c)
        BY <2>1, <4>1 DEF Justified
      <4>2. CASE ~ByRule(c)
        BY <1>1, <2>1, <2>3, <4>2 DEF AllJustified
      <4> QED
        BY <4>1, <4>2
    <3>3. AllJustified(enrolment, progress')
      BY <2>2, <3>2 DEF AllJustified
    <3>4. Wanting(rest.wanted, enrolment, progress')
      BY <1>3, <1>4, <3>1
    <3> QED
      BY <1>4, <2>1, <3>1, <3>3, <3>4 DEF Undisturbed
  <2>4. CASE ~RulePass(s)
    <3>1. /\ me.phase = "journeys"
          /\ \A d \in me.todo : Backed(enrolment, progress, d)
          /\ \A j \in J : \A d \in GivenBy(enrolment, progress, j) : d \in me.todo \/ progress[d].on
      BY <1>2, <1>4, <2>4 DEF SettledInv, CalmInv, Undisturbed
    <3>2. Justified(enrolment, progress', c)
      BY <1>3, <2>1, <3>1 DEF Justified
    <3>3. AllJustified(enrolment, progress')
      BY <2>2, <3>2 DEF AllJustified
    <3>4. progress'[c].on
      BY <1>1, <2>4, GivingIs DEF SettledInv
    <3>5. \A j \in J : \A d \in GivenBy(enrolment, progress', j) : d \in rest.todo \/ progress'[d].on
      <4> SUFFICES ASSUME NEW j \in J, NEW d \in GivenBy(enrolment, progress, j)
                   PROVE  d \in rest.todo \/ progress'[d].on
        BY <1>3
      <4>1. d \in Courses
        BY GivenAreCourses DEF SettledInv, JourneyInv
      <4>2. d \in me.todo \/ progress[d].on
        BY <3>1
      <4> QED
        BY <1>1, <1>4, <3>4, <4>1, <4>2
    <3>6. \A d \in rest.todo : Backed(enrolment, progress', d)
      BY <1>3, <1>4, <3>1
    <3> QED
      BY <1>4, <2>1, <3>1, <3>3, <3>5, <3>6 DEF Undisturbed
  <2> QED
    BY <2>3, <2>4
<1> QED
  BY <1>1, <1>2, <1>4, VisitCalm

LEMMA DownloadCalm ==
  ASSUME SettledInv, UNCHANGED <<journey, course, employed, enrolment, progress, sync, calm>>
  PROVE  CalmInv'
<1>1. \A r \in calm' : Undisturbed(sync'[r], enrolment', progress')
  BY DEF SettledInv, CalmInv
<1>2. ASSUME NEW r \in calm'
      PROVE  Undisturbed(sync[r], enrolment, progress)'
  BY <1>1, <1>2, SameWorld
<1> QED
  BY <1>2 DEF CalmInv

LEMMA SettledNextInv == SettledInv /\ [JourneysNext]_journeyVars => SettledInv'
<1> SUFFICES ASSUME SettledInv, [JourneysNext]_journeyVars PROVE SettledInv'
  OBVIOUS
<1>1. JourneyInv'
  BY JourneyNextInv DEF SettledInv
<1>2. CalmInv'
  <2>1. CASE calm' = {}
    BY <2>1 DEF CalmInv
  <2>2. CASE \E s \in Syncs : Sync(s)
    BY <2>2, BeginCalm, LookCalm, StoreCalm, RevokeCalm, GiveCalm DEF Sync
  <2>3. CASE (\E j \in J : Download(j)) \/ UNCHANGED journeyVars
    BY <2>3, DownloadCalm DEF Download, trainer, journeyVars
  <2>4. ASSUME NEW j \in J
        PROVE  Create(j) \/ DisableJourney(j) \/ WriteBack(j) \/ Delete(j) \/ SaveObservers(j) => calm' = {}
    BY DEF Create, DisableJourney, WriteBack, Delete, SaveObservers, Act
  <2>5. ASSUME NEW j \in J, NEW k \in J, Duplicate(j, k)
        PROVE  calm' = {}
    BY <2>5 DEF Duplicate, Act
  <2>6. ASSUME NEW j \in J, NEW live \in BOOLEAN, PublishJourney(j, live)
        PROVE  calm' = {}
    BY <2>6 DEF PublishJourney, Act
  <2>7. ASSUME NEW j \in J, NEW plan \in Plans, NEW after \in Before[j] \cup {None},
               NEW live \in BOOLEAN, NEW deadline \in BOOLEAN, Save(j, plan, after, live, deadline)
        PROVE  calm' = {}
    BY <2>7 DEF Save, Act
  <2>8. ASSUME NEW c \in Courses
        PROVE  DisableCourse(c) \/ (\E rule \in {"nobody", "mine"} : PublishCourse(c, rule)) => calm' = {}
    BY DEF DisableCourse, PublishCourse, Act
  <2>9. TrainerActs => calm' = {}
    BY <2>4, <2>5, <2>6, <2>7, <2>8 DEF TrainerActs
  <2>10. Employment \/ (\E c \in Courses : Learn(c)) => calm' = {}
    BY DEF Employment, Learn, Act
  <2> QED
    BY <2>1, <2>2, <2>3, <2>9, <2>10 DEF JourneysNext
<1> QED
  BY <1>1, <1>2 DEF SettledInv

LEMMA SettledAlways == JourneysSpec => []SettledInv
<1>1. JourneysInit => SettledInv
  BY JourneyInitInv DEF JourneysInit, SettledInv, CalmInv
<1> QED
  BY <1>1, SettledNextInv, PTL DEF JourneysSpec

LEMMA RestingIsSettled ==
  ASSUME SettledInv, Settled
  PROVE  /\ AllJustified(enrolment, progress)
         /\ \A j \in J : \A c \in GivenBy(enrolment, progress, j) : progress[c].on
         /\ \A j \in J : Gives(j) = GivenBy(enrolment, progress, j)
<1>1. PICK s \in calm : sync[s].phase = "idle"
  BY DEF Settled
<1>2. Undisturbed(sync[s], enrolment, progress)
  BY DEF SettledInv, CalmInv
<1>3. \A j \in J : Gives(j) = GivenBy(enrolment, progress, j)
  BY DEF Gives, GivenBy, Mine, MineBy
<1> QED
  BY <1>1, <1>2, <1>3 DEF Undisturbed

\* When a reconciliation has ended that nobody disturbed, the employee has
\* every course that a live journey of theirs has unlocked.
THEOREM UnlockedIsAlwaysGiven == JourneysSpec => []UnlockedIsGiven
<1>1. SettledInv => UnlockedIsGiven
  BY RestingIsSettled DEF UnlockedIsGiven
<1> QED
  BY <1>1, SettledAlways, PTL

\* When a reconciliation has ended that nobody disturbed, a course that the
\* employee has is backed: by the course's own rule, by a journey that gives
\* it, or by one that gave it before it was edited, and they began it.
THEOREM UnbackedIsAlwaysWithdrawn == JourneysSpec => []UnbackedIsWithdrawn
<1>1. SettledInv => UnbackedIsWithdrawn
  <2> SUFFICES ASSUME SettledInv, Settled, NEW c \in Courses, progress[c].on
               PROVE  /\ employed
                      /\ \/ ByRule(c)
                         \/ \E j \in J : c \in Gives(j)
                         \/ \E j \in J : Mine(j) /\ c \in enrolment[j].unlocked \ CoursesOf(journey[j].plan)
                                         /\ progress[c].st # "pending"
    BY DEF UnbackedIsWithdrawn
  <2>1. employed /\ (ByRule(c) \/ Backed(enrolment, progress, c))
    BY RestingIsSettled DEF AllJustified, Justified
  <2>2. ASSUME NEW j \in J, KeptBy(enrolment, progress, j, c)
        PROVE  Mine(j) /\ c \in enrolment[j].unlocked \ CoursesOf(journey[j].plan) /\ progress[c].st # "pending"
    BY <2>2 DEF KeptBy, Mine, MineBy
  <2> QED
    BY <2>1, <2>2, RestingIsSettled DEF Backed
<1> QED
  BY <1>1, SettledAlways, PTL

-----------------------------------------------------------------------------
(* EmailOutbox: finite sets and folds.                                     *)

\* What holds of the empty set, and of a set when it holds of the set without any one element,
\* holds of every finite set.  T is the set of those of which it holds.
LEMMA OneByOne ==
  ASSUME NEW S, IsFiniteSet(S), NEW T,
         {} \in T,
         \A s \in SUBSET S : s # {} /\ (\A x \in s : s \ {x} \in T) => s \in T
  PROVE  S \in T
<1> SUFFICES ASSUME S \notin T PROVE FALSE
  OBVIOUS
<1> DEFINE Bad == {s \in SUBSET S : s \notin T}
<1>1. Bad # {} /\ Bad \subseteq FiniteSubsetsOf(S)
  BY FS_Subset DEF FiniteSubsetsOf
<1>2. PICK s \in Bad : \A r \in Bad : <<r, s>> \notin StrictSubsetOrdering(S)
  <2> HIDE DEF Bad
  <2>1. IsWellFoundedOn(StrictSubsetOrdering(S), FiniteSubsetsOf(S))
    BY FS_StrictSubsetOrderingWellFounded
  <2> QED
    BY <1>1, <2>1, WFMin
<1>3. s # {}
  BY <1>2
<1>4. ASSUME NEW x \in s, s \ {x} \notin T
      PROVE  FALSE
  <2>1. s \ {x} \in Bad
    BY <1>2, <1>4
  <2>2. <<s \ {x}, s>> \in StrictSubsetOrdering(S)
    BY <1>2, <1>4 DEF StrictSubsetOrdering
  <2> QED
    BY <1>2, <2>1, <2>2
<1> QED
  BY <1>2, <1>3, <1>4

\* A finite set of numbers has a greatest and a least.
LEMMA GreatestAndLeast ==
  ASSUME NEW S \in SUBSET Int, IsFiniteSet(S), S # {}
  PROVE  /\ Max(S) \in S /\ \A y \in S : y <= Max(S)
         /\ Min(S) \in S /\ \A y \in S : Min(S) <= y
<1> DEFINE Ends(s) == (\E x \in s : \A y \in s : x >= y) /\ (\E x \in s : \A y \in s : x <= y)
           T == {s \in SUBSET S : s = {} \/ Ends(s)}
<1>1. ASSUME NEW s \in SUBSET S, s # {}, \A x \in s : s \ {x} \in T
      PROVE  s \in T
  <2> SUFFICES Ends(s)
    OBVIOUS
  <2>1. PICK x \in s : TRUE
    BY <1>1
  <2>2. CASE s \ {x} = {}
    <3>1. x \in Int /\ \A y \in s : y = x
      BY <2>1, <2>2
    <3> QED
      BY <2>1, <3>1
  <2>3. CASE s \ {x} # {}
    <3>1. PICK u \in s \ {x}, v \in s \ {x} : \A y \in s \ {x} : u >= y /\ v <= y
      <4>1. Ends(s \ {x})
        BY <1>1, <2>1, <2>3
      <4> QED
        BY <4>1
    <3>2. \E z \in s : \A y \in s : z >= y
      <4>1. CASE x >= u
        BY <3>1, <4>1
      <4>2. CASE ~(x >= u)
        BY <3>1, <4>2
      <4> QED
        BY <4>1, <4>2
    <3>3. \E z \in s : \A y \in s : z <= y
      <4>1. CASE x <= v
        BY <3>1, <4>1
      <4>2. CASE ~(x <= v)
        BY <3>1, <4>2
      <4> QED
        BY <4>1, <4>2
    <3> QED
      BY <3>2, <3>3
  <2> QED
    BY <1>1, <2>2, <2>3
<1>2. {} \in T
  OBVIOUS
<1> HIDE DEF T
<1>3. S \in T
  BY <1>1, <1>2, OneByOne
<1>4. Ends(S)
  BY <1>3 DEF T
<1> QED
  BY <1>4 DEF Max, Min

\* What is done for one element: how.kind says which of the folds it is.
Done(how, x, b) ==
  CASE how.kind = "role" -> DigestItem(b, how.a, how.r, how.event, x, how.occ)
    [] how.kind = "all" -> Enqueued(b, x, how.table[x], how.event)
    [] OTHER -> Digested(b, x.a, asg[x.a], x.event, x.occ)

\* f gives for every set in D the fold over it.
One(s) == CHOOSE x \in s : TRUE
Folds(how, base, D, f) ==
  f = [s \in D |-> IF s = {} THEN base ELSE Done(how, One(s), f[s \ {One(s)}])]

\* There is such a function, by the size of the sets.
LEMMA FoldExists ==
  ASSUME NEW how, NEW base, NEW S, IsFiniteSet(S)
  PROVE  \E f : Folds(how, base, SUBSET S, f)
<1> DEFINE Upto(n) == {s \in SUBSET S : Cardinality(s) <= n}
           Bad == {n \in Nat : ~\E f : Folds(how, base, Upto(n), f)}
<1>1. \A s \in SUBSET S : IsFiniteSet(s) /\ Cardinality(s) \in Nat /\ Cardinality(s) <= Cardinality(S)
  BY FS_Subset, FS_CardinalityType
<1>2. Cardinality(S) \in Nat
  BY FS_CardinalityType
<1>3. ASSUME Bad # {}
      PROVE  FALSE
  <2>1. PICK n \in Bad : \A m \in Bad : ~(m < n)
    <3>1. PICK n \in Bad : \A m \in Bad : <<m, n>> \notin OpToRel(<, Nat)
      BY <1>3, NatLessThanWellFounded, WFMin
    <3> QED
      BY <3>1 DEF OpToRel
  <2>2. CASE n = 0
    <3> DEFINE f == [s \in Upto(0) |-> base]
    <3>1. \A s \in Upto(0) : s = {}
      BY <1>1, FS_EmptySet
    <3>2. Folds(how, base, Upto(0), f)
      BY <3>1 DEF Folds
    <3> QED
      BY <2>1, <2>2, <3>2
  <2>3. CASE n # 0
    <3>1. n - 1 \in Nat /\ n - 1 \notin Bad
      <4>1. n \in Nat
        OBVIOUS
      <4> HIDE DEF Bad
      <4>2. n - 1 \in Nat /\ n - 1 < n
        BY <2>3, <4>1
      <4> QED
        BY <2>1, <4>2
    <3>2. PICK g : Folds(how, base, Upto(n - 1), g)
      BY <3>1
    <3> DEFINE f == [s \in Upto(n) |-> IF s = {} THEN base ELSE Done(how, One(s), g[s \ {One(s)}])]
    <3>3. ASSUME NEW s \in Upto(n), s # {}
          PROVE  s \ {One(s)} \in Upto(n - 1)
      <4>1. One(s) \in s
        BY <3>3 DEF One
      <4>2. Cardinality(s \ {One(s)}) = Cardinality(s) - 1
        BY <1>1, <4>1, FS_RemoveElement
      <4> QED
        BY <1>1, <2>1, <4>2
    <3>4. ASSUME NEW s \in Upto(n - 1)
          PROVE  s \in Upto(n) /\ f[s] = g[s]
      <4>1. s \in Upto(n)
        BY <1>1, <2>1
      <4>2. g[s] = IF s = {} THEN base ELSE Done(how, One(s), g[s \ {One(s)}])
        BY <3>2, <3>4 DEF Folds
      <4> QED
        BY <4>1, <4>2
    <3>5. Folds(how, base, Upto(n), f)
      <4>1. \A s \in Upto(n) : s # {} => g[s \ {One(s)}] = f[s \ {One(s)}]
        BY <3>3, <3>4
      <4> HIDE DEF Upto
      <4>2. \A s \in Upto(n) : f[s] = IF s = {} THEN base ELSE Done(how, One(s), f[s \ {One(s)}])
        BY <4>1
      <4>3. f = [s \in Upto(n) |-> f[s]]
        OBVIOUS
      <4> HIDE DEF f
      <4>4. [s \in Upto(n) |-> f[s]] = [s \in Upto(n) |-> IF s = {} THEN base ELSE Done(how, One(s), f[s \ {One(s)}])]
        BY <4>2
      <4> QED
        BY <4>3, <4>4 DEF Folds
    <3> QED
      BY <2>1, <3>5
  <2> QED
    BY <2>2, <2>3
<1>4. Upto(Cardinality(S)) = SUBSET S
  BY <1>1
<1> QED
  BY <1>2, <1>3, <1>4

Stepwise(how, S, f) == \A s \in SUBSET S : s # {} => \E x \in s : f[s] = Done(how, x, f[s \ {x}])

\* What it gives for a set it makes, for some element, of what it gives for the others.
LEMMA FoldStep ==
  ASSUME NEW how, NEW base, NEW S, NEW f, Folds(how, base, SUBSET S, f)
  PROVE  f[{}] = base /\ Stepwise(how, S, f)
<1>2. f[{}] = base
  BY DEF Folds
<1>3. ASSUME NEW s \in SUBSET S, s # {}
      PROVE  \E x \in s : f[s] = Done(how, x, f[s \ {x}])
  <2>1. f[s] = Done(how, One(s), f[s \ {One(s)}])
    BY <1>3 DEF Folds
  <2>2. One(s) \in s
    BY <1>3 DEF One
  <2> QED
    BY <2>1, <2>2
<1> QED
  BY <1>2, <1>3 DEF Stepwise

Queues(b, a, r, event, occ) ==
  EventIsCurrent(a, r, event, r.life, occ) /\ (event = "overdue" => WithinCap(b, a, r.life, occ))
RoleHow(a, r, event, occ) == [kind |-> "role", a |-> a, r |-> r, event |-> event, occ |-> occ]
FoldsRoles(b, a, r, event, occ, f) ==
  /\ Folds(RoleHow(a, r, event, occ), b, SUBSET RolesOf(event), f)
  /\ Digested(b, a, r, event, occ) = f[RolesOf(event)]

\* The three folds of the model: over roles, assignments, and the rows of before the upgrade.
LEMMA RolesFold ==
  ASSUME NEW b, NEW a, NEW r, NEW event, NEW occ, IsFiniteSet(RolesOf(event)), Queues(b, a, r, event, occ)
  PROVE  \E f : FoldsRoles(b, a, r, event, occ, f)
<1> DEFINE how == RoleHow(a, r, event, occ)
           S == RolesOf(event)
           Is(f) == f = [s \in SUBSET S |-> IF s = {} THEN b ELSE DigestItem(f[s \ {One(s)}], a, r, event, One(s), occ)]
<1>1. Digested(b, a, r, event, occ) = (CHOOSE f : Is(f))[S]
  BY DEF Digested, Queues, FoldSet, MapThenFoldSet, One
<1>2. \A x, c : Done(how, x, c) = DigestItem(c, a, r, event, x, occ)
  BY DEF Done, RoleHow
<1>3. \A f : Is(f) <=> Folds(how, b, SUBSET S, f)
  BY <1>2 DEF Folds
<1>4. \E f : Is(f)
  BY <1>3, FoldExists
<1>5. Is(CHOOSE f : Is(f))
  BY <1>4
<1> QED
  BY <1>1, <1>3, <1>5 DEF FoldsRoles

LEMMA AssignmentsFold ==
  ASSUME NEW box, NEW as, NEW table, NEW event, IsFiniteSet(as)
  PROVE  \E f : /\ Folds([kind |-> "all", table |-> table, event |-> event], box, SUBSET as, f)
                /\ EnqueuedAll(box, as, table, event) = f[as]
<1> DEFINE how == [kind |-> "all", table |-> table, event |-> event]
           Is(f) == f = [s \in SUBSET as |-> IF s = {} THEN box
                                             ELSE Enqueued(f[s \ {One(s)}], One(s), table[One(s)], event)]
<1>1. EnqueuedAll(box, as, table, event) = (CHOOSE f : Is(f))[as]
  BY DEF EnqueuedAll, FoldSet, MapThenFoldSet, One
<1>2. \A x, c : Done(how, x, c) = Enqueued(c, x, table[x], event)
  BY DEF Done
<1>3. \A f : Is(f) <=> Folds(how, box, SUBSET as, f)
  BY <1>2 DEF Folds
<1>4. \E f : Is(f)
  BY <1>3, FoldExists
<1>5. Is(CHOOSE f : Is(f))
  BY <1>4
<1> QED
  BY <1>1, <1>3, <1>5

LEMMA LegacyFold ==
  ASSUME NEW box, NEW keys, IsFiniteSet(keys)
  PROVE  \E f : /\ Folds([kind |-> "legacy"], box, SUBSET keys, f)
                /\ FoldSet(LAMBDA k, b : Digested(b, k.a, asg[k.a], k.event, k.occ), box, keys) = f[keys]
<1> DEFINE how == [kind |-> "legacy"]
           Is(f) == f = [s \in SUBSET keys |-> IF s = {} THEN box
                           ELSE Digested(f[s \ {One(s)}], One(s).a, asg[One(s).a], One(s).event, One(s).occ)]
<1>1. FoldSet(LAMBDA k, b : Digested(b, k.a, asg[k.a], k.event, k.occ), box, keys) = (CHOOSE f : Is(f))[keys]
  BY DEF FoldSet, MapThenFoldSet, One
<1>2. \A x, c : Done(how, x, c) = Digested(c, x.a, asg[x.a], x.event, x.occ)
  BY DEF Done
<1>3. \A f : Is(f) <=> Folds(how, box, SUBSET keys, f)
  BY <1>2 DEF Folds
<1>4. \E f : Is(f)
  BY <1>3, FoldExists
<1>5. Is(CHOOSE f : Is(f))
  BY <1>4
<1> QED
  BY <1>1, <1>3, <1>5

-----------------------------------------------------------------------------
(* EmailOutbox: what the tables hold; that queueing keeps it and adds.     *)

Events == {"assigned", "assignment_reminder", "due_soon", "overdue", "completed"}
Message == [status : {"pending", "sending", "sent", "failed", "cancelled"}, attempts : 0..MaxAttempts,
            next : Int, locked : Int, sentAt : Int]
Period(event, occ) == event = "overdue" \/ occ = 0

OwnKey(k) == /\ k = Individual(k.a, k.life, k.event, k.occ, k.role)
             /\ k.a \in Assignments /\ k.event \in Events /\ Period(k.event, k.occ)
DigestKey(k) == /\ k = Digest(k.event, k.role, k.scope, k.at)
                /\ k.event \in Events /\ k.at \in Int
                /\ \/ k.role = "hod" /\ k.scope \in Managers
                   \/ k.role = "trainer" /\ k.scope = TheTrainer
Item(key, a, life, occ) == [key |-> key, a |-> a, life |-> life, occ |-> occ]
ProperItem(i) == /\ i = Item(i.key, i.a, i.life, i.occ)
                 /\ DigestKey(i.key) /\ i.a \in Assignments /\ Period(i.key.event, i.occ)

\* Two items of the same news.
Same(i, j) == /\ i.a = j.a /\ i.life = j.life /\ i.occ = j.occ
              /\ i.key.event = j.key.event /\ i.key.role = j.key.role /\ i.key.scope = j.key.scope
\* No news is in two digests, but for those that were cancelled.
Single(b) == \A i, j \in b.items : /\ Same(i, j)
                                   /\ b.rows[i.key].status # "cancelled" /\ b.rows[j.key].status # "cancelled"
                                   => i = j

IsBox(b) == b = [rows |-> b.rows, items |-> b.items]
ProperRows(b) ==
  /\ IsFiniteSet(DOMAIN b.rows)
  /\ \A k \in DOMAIN b.rows : /\ OwnKey(k) \/ DigestKey(k)
                              /\ b.rows[k] \in Message
                              /\ b.rows[k].status = "failed" => b.rows[k].attempts = MaxAttempts
ProperItems(b) == /\ IsFiniteSet(b.items)
                  /\ \A i \in b.items : ProperItem(i) /\ i.key \in DOMAIN b.rows
ProperBox(b) == IsBox(b) /\ ProperRows(b) /\ ProperItems(b) /\ Single(b)

\* c has what b has, and more.
Extends(b, c) == /\ DOMAIN b.rows \subseteq DOMAIN c.rows /\ b.items \subseteq c.items
                 /\ \A k \in DOMAIN b.rows : c.rows[k] = b.rows[k]
Grown(b, c) == ProperBox(c) /\ Extends(b, c)

LEMMA OutboxConstants ==
  /\ IsFiniteSet(Assignments) /\ RepeatInterval \in Nat /\ RepeatInterval > 0
  /\ MaxAttempts \in Nat /\ MaxAttempts > 0 /\ MaxDays \in Nat /\ MaxFaults \in Nat
  /\ RetryDelay \in Nat
  /\ Nobody \notin Managers /\ TheTrainer \notin Managers /\ "employee" \notin Managers
  BY OutboxAssumption DEF OutboxAssumption, Nobody, TheTrainer

LEMMA RolesAre == \A event : /\ RolesOf(event) \subseteq {"hod", "trainer"} /\ IsFiniteSet(RolesOf(event))
<1>1. IsFiniteSet({"hod", "trainer"})
  <2>1. IsFiniteSet({"hod"}) /\ {"hod", "trainer"} = {"hod"} \cup {"trainer"}
    BY FS_Singleton
  <2> QED
    BY <2>1, FS_AddElement
<1>2. \A event : RolesOf(event) \subseteq {"hod", "trainer"}
  BY OutboxAssumption DEF RolesOf, OutboxAssumption
<1> QED
  BY <1>1, <1>2, FS_Subset

LEMMA NewMessageType == ASSUME NEW n \in Int PROVE NewMessage(n) \in Message /\ NewMessage(n).status = "pending"
  BY OutboxConstants DEF NewMessage, Message

With(b, key, n) == [b EXCEPT !.rows = Inserted(b.rows, key, n)]

LEMMA InsertedGrown ==
  ASSUME NEW b, ProperBox(b), NEW key, OwnKey(key) \/ DigestKey(key), NEW n \in Int
  PROVE  /\ Grown(b, With(b, key, n)) /\ key \in DOMAIN With(b, key, n).rows
         /\ With(b, key, n).items = b.items /\ With(b, key, n).rows = Inserted(b.rows, key, n)
<1> DEFINE t == Inserted(b.rows, key, n)
           c == With(b, key, n)
<1>1. /\ DOMAIN t = DOMAIN b.rows \cup {key} /\ \A k \in DOMAIN b.rows : t[k] = b.rows[k]
      /\ \A k \in DOMAIN t : k \in DOMAIN b.rows \/ (k = key /\ t[k] = NewMessage(n))
  BY DEF Inserted
<1>2. IsBox(c) /\ c.rows = t /\ c.items = b.items
  <2>1. b = [rows |-> b.rows, items |-> b.items]
    BY DEF ProperBox, IsBox
  <2>2. c = [b EXCEPT !.rows = t]
    BY DEF With
  <2> HIDE DEF t, c
  <2> QED
    BY <2>1, <2>2 DEF IsBox
<1> HIDE DEF c, t
<1>3. Extends(b, c)
  BY <1>1, <1>2 DEF Extends
<1>4. ProperRows(c)
  <2>1. IsFiniteSet(DOMAIN c.rows)
    BY <1>1, <1>2, FS_AddElement DEF ProperBox, ProperRows
  <2> QED
    BY <1>1, <1>2, <2>1, NewMessageType DEF ProperBox, ProperRows
<1>5. ProperItems(c)
  BY <1>1, <1>2 DEF ProperBox, ProperItems
<1>6. Single(c)
  <2>1. \A i \in b.items : i.key \in DOMAIN b.rows
    BY DEF ProperBox, ProperItems
  <2> QED
    BY <1>1, <1>2, <2>1 DEF ProperBox, Single
<1>7. ProperBox(c)
  BY <1>2, <1>4, <1>5, <1>6 DEF ProperBox
<1> QED
  <2>1. key \in DOMAIN c.rows
    BY <1>1, <1>2
  <2>2. Grown(b, c)
    BY <1>3, <1>7 DEF Grown
  <2> QED
    BY <1>2, <2>1, <2>2 DEF c, t

LEMMA SendAtType ==
  ASSUME NEW b, ProperBox(b), today \in Nat, NEW event, NEW role, NEW scope
  PROVE  SendAt(b, event, role, scope) \in Int
<1> DEFINE K == {k \in DOMAIN b.rows : /\ k.kind = "digest" /\ k.event = event /\ k.role = role /\ k.scope = scope
                                       /\ b.rows[k].status = "sent"}
           at == [k \in K |-> b.rows[k].sentAt]
           sentAts == {b.rows[k].sentAt : k \in K}
           later == [s \in sentAts |-> s + Interval(event)]
           laters == {s + Interval(event) : s \in sentAts}
<1>1. IsFiniteSet(K)
  BY FS_Subset DEF ProperBox, ProperRows
<1>2. at \in Surjection(K, sentAts)
  BY DEF Surjection
<1>3. IsFiniteSet(sentAts)
  <2> HIDE DEF K, at, sentAts
  <2> QED
    BY <1>1, <1>2, FS_Surjection
<1>4. later \in Surjection(sentAts, laters)
  <2> HIDE DEF sentAts
  <2> QED
    BY DEF Surjection
<1>5. IsFiniteSet(laters)
  <2> HIDE DEF later, laters, sentAts
  <2> QED
    BY <1>3, <1>4, FS_Surjection
<1>6. sentAts \subseteq Int
  BY DEF ProperBox, ProperRows, Message
<1>7. laters \subseteq Int
  <2>1. Interval(event) \in Int
    BY OutboxConstants DEF Interval
  <2> SUFFICES ASSUME NEW x \in laters PROVE x \in Int
    OBVIOUS
  <2>2. PICK s \in sentAts : x = s + Interval(event)
    OBVIOUS
  <2>3. s \in Int
    BY <1>6
  <2> QED
    BY <2>1, <2>2, <2>3
<1>8. SendAt(b, event, role, scope) = Max({today + 1} \cup laters)
  BY DEF SendAt
<1> HIDE DEF laters
<1>9. IsFiniteSet({today + 1} \cup laters) /\ {today + 1} \cup laters \in SUBSET Int
  BY <1>5, <1>7, FS_AddElement, FS_Union, FS_Singleton
<1> QED
  BY <1>8, <1>9, GreatestAndLeast

World == /\ today \in Nat /\ manager \in [Assignments -> Managers \cup {Nobody}]

LEMMA DigestItemGrown ==
  ASSUME World, NEW b, ProperBox(b), NEW a \in Assignments, NEW r, NEW event \in Events,
         NEW role \in RolesOf(event), NEW occ, Period(event, occ)
  PROVE  Grown(b, DigestItem(b, a, r, event, role, occ))
<1> DEFINE scope == Scope(a, role)
           batches == Batches(b, event, role, scope)
           ats == {k.at : k \in batches}
           at == IF batches # {} THEN Min(ats) ELSE SendAt(b, event, role, scope)
           keys == {k \in {Digest(event, role, scope, t) : t \in {at, at + Interval(event)}} :
                      k \in DOMAIN b.rows => b.rows[k].status \in Open}
           key == CHOOSE k \in keys : \A l \in keys : k.at <= l.at
           item == Item(key, a, r.life, occ)
           stays == scope = Nobody \/ AlreadyReported(b, a, r, event, role, occ) \/ keys = {}
           c == [rows |-> Inserted(b.rows, key, key.at), items |-> b.items \cup {item}]
<1>1. DigestItem(b, a, r, event, role, occ) = IF stays THEN b ELSE c
  BY DEF DigestItem, Item
<1>2. Interval(event) \in Nat
  BY OutboxConstants DEF Interval
<1>3. role \in {"hod", "trainer"}
  BY RolesAre
<1>4. at \in Int
  <2>1. CASE batches = {}
    BY <2>1, SendAtType DEF World
  <2>2. CASE batches # {}
    <3> DEFINE f == [k \in batches |-> k.at]
    <3>1. batches \subseteq DOMAIN b.rows /\ \A k \in batches : k.kind = "digest"
      BY DEF Batches
    <3>2. IsFiniteSet(batches) /\ \A k \in batches : DigestKey(k)
      BY <3>1, FS_Subset DEF ProperBox, ProperRows, OwnKey, Individual
    <3> HIDE DEF batches
    <3>3. f \in Surjection(batches, ats)
      BY DEF Surjection
    <3>4. IsFiniteSet(ats)
      BY <3>2, <3>3, FS_Surjection
    <3>5. ats \in SUBSET Int /\ ats # {}
      BY <2>2, <3>2 DEF DigestKey
    <3>6. Min(ats) \in ats
      BY <3>4, <3>5, GreatestAndLeast
    <3> QED
      BY <2>2, <3>5, <3>6
  <2> QED
    BY <2>1, <2>2
<1> HIDE DEF at
<1>5. ASSUME ~stays
      PROVE  /\ key = Digest(event, role, scope, key.at) /\ key.at \in Int
             /\ key \in DOMAIN b.rows => b.rows[key].status \in Open
  <2>1. \A k \in keys : k = Digest(event, role, scope, k.at) /\ k.at \in {at, at + Interval(event)}
    BY DEF Digest
  <2>2. keys # {}
    BY <1>5
  <2>3. \E k \in keys : \A l \in keys : k.at <= l.at
    <3>1. CASE Digest(event, role, scope, at) \in keys
      BY <1>2, <1>4, <2>1, <3>1 DEF Digest
    <3>2. CASE Digest(event, role, scope, at) \notin keys
      <4>1. \A k \in keys : k = Digest(event, role, scope, at + Interval(event))
        BY <2>1, <3>2
      <4>2. \A k \in keys : k.at \in Int
        BY <1>2, <1>4, <2>1
      <4> QED
        BY <2>2, <4>1, <4>2
    <3> QED
      BY <3>1, <3>2
  <2>4. key \in keys
    BY <2>3
  <2>5. key \in DOMAIN b.rows => b.rows[key].status \in Open
    BY <2>4
  <2> HIDE DEF key, keys
  <2> QED
    BY <1>2, <1>4, <2>1, <2>4, <2>5
<1> HIDE DEF key, keys
<1>6. CASE stays
  BY <1>1, <1>6 DEF Grown, Extends
<1>7. CASE ~stays
  <2>1. DigestKey(key) /\ key.event = event /\ key.role = role /\ key.scope = scope /\ key.kind = "digest"
    <3>1. scope \in Managers \/ (role = "trainer" /\ scope = TheTrainer)
      BY <1>3, <1>7 DEF Scope, World
    <3>2. role = "hod" => scope \in Managers
      BY <1>7 DEF Scope, World
    <3>3. /\ key.event = event /\ key.role = role /\ key.scope = scope /\ key.kind = "digest"
      BY <1>5, <1>7 DEF Digest
    <3>4. role = "trainer" => scope = TheTrainer
      BY DEF Scope
    <3> QED
      BY <1>3, <1>5, <1>7, <3>2, <3>3, <3>4 DEF DigestKey
  <2> DEFINE d == With(b, key, key.at)
  <2>2. Grown(b, d) /\ key \in DOMAIN d.rows /\ d.items = b.items /\ d.rows = Inserted(b.rows, key, key.at)
    BY <1>5, <1>7, <2>1, InsertedGrown
  <2>3. c.rows = d.rows /\ c.items = d.items \cup {item} /\ IsBox(c)
    <3>1. IsBox(c) /\ c.rows = Inserted(b.rows, key, key.at) /\ c.items = b.items \cup {item}
      BY DEF IsBox
    <3> HIDE DEF c, d
    <3> QED
      BY <2>2, <3>1
  <2>4. ProperItem(item) /\ item.key = key /\ item.a = a /\ item.life = r.life /\ item.occ = occ
    BY <2>1 DEF ProperItem, Item
  <2> HIDE DEF item, c, d
  <2>5. ASSUME NEW i \in b.items, Same(i, item), b.rows[i.key].status # "cancelled"
        PROVE  FALSE
    BY <1>7, <2>1, <2>4, <2>5 DEF AlreadyReported, Same
  <2>6. \A i \in b.items : i.key \in DOMAIN b.rows /\ d.rows[i.key] = b.rows[i.key]
    BY <2>2 DEF ProperBox, ProperItems, Grown, Extends
  <2>7. Single(c)
    <3> SUFFICES ASSUME NEW i \in c.items, NEW j \in c.items, Same(i, j),
                        c.rows[i.key].status # "cancelled", c.rows[j.key].status # "cancelled"
                 PROVE  i = j
      BY DEF Single
    <3>1. CASE i \in b.items /\ j \in b.items
      BY <2>3, <2>6, <3>1 DEF ProperBox, Single
    <3>2. CASE i \in b.items /\ j = item
      BY <2>3, <2>5, <2>6, <3>2
    <3>3. CASE i = item /\ j \in b.items
      <4>1. Same(j, item)
        BY <3>3 DEF Same
      <4> QED
        BY <2>3, <2>5, <2>6, <3>3, <4>1
    <3> QED
      BY <2>2, <2>3, <3>1, <3>2, <3>3
  <2>8. IsFiniteSet(c.items)
    BY <2>2, <2>3, FS_AddElement DEF Grown, ProperBox, ProperItems
  <2>9. ProperBox(c)
    <3>1. ProperRows(c)
      BY <2>2, <2>3 DEF Grown, ProperBox, ProperRows
    <3>2. ProperItems(c)
      BY <2>2, <2>3, <2>4, <2>8 DEF Grown, ProperBox, ProperItems
    <3> QED
      BY <2>3, <2>7, <3>1, <3>2 DEF ProperBox
  <2>10. Extends(b, c)
    BY <2>2, <2>3 DEF Grown, Extends
  <2> QED
    BY <1>1, <1>7, <2>9, <2>10 DEF Grown
<1> QED
  BY <1>6, <1>7

LEMMA GrownTrans ==
  ASSUME NEW b, NEW c, NEW d, Extends(b, c), Grown(c, d)
  PROVE  Grown(b, d)
  BY DEF Grown, Extends

\* A fold whose every step leaves a proper box and adds to it does so too.
LEMMA FoldGrown ==
  ASSUME NEW how, NEW b, ProperBox(b), NEW S, IsFiniteSet(S), NEW f, Folds(how, b, SUBSET S, f),
         \A x \in S : \A c : ProperBox(c) => Grown(c, Done(how, x, c))
  PROVE  Grown(b, f[S])
<1>0. f[{}] = b /\ Stepwise(how, S, f)
  BY FoldStep
<1> DEFINE T == {s \in SUBSET S : Grown(b, f[s])}
<1>1. {} \in T
  <2>1. Grown(b, f[{}])
    BY <1>0 DEF Grown, Extends
  <2> QED
    BY <2>1
<1>2. ASSUME NEW s \in SUBSET S, s # {}, \A x \in s : s \ {x} \in T
      PROVE  s \in T
  <2>1. PICK x \in s : f[s] = Done(how, x, f[s \ {x}])
    BY <1>0, <1>2 DEF Stepwise
  <2>2. Grown(b, f[s \ {x}])
    BY <1>2
  <2>3. ProperBox(f[s \ {x}]) /\ Extends(b, f[s \ {x}]) /\ x \in S
    BY <2>2 DEF Grown
  <2>4. Grown(f[s \ {x}], f[s])
    BY <2>1, <2>3
  <2> QED
    BY <2>3, <2>4, GrownTrans
<1> HIDE DEF T
<1>3. S \in T
  BY <1>1, <1>2, OneByOne
<1> QED
  BY <1>3 DEF T

LEMMA DigestedGrown ==
  ASSUME World, NEW b, ProperBox(b), NEW a \in Assignments, NEW r, NEW event \in Events,
         NEW occ, Period(event, occ)
  PROVE  Grown(b, Digested(b, a, r, event, occ))
<1> DEFINE how == RoleHow(a, r, event, occ)
<1>1. CASE ~Queues(b, a, r, event, occ)
  BY <1>1 DEF Digested, Queues, Grown, Extends
<1>2. CASE Queues(b, a, r, event, occ)
  <2>1. IsFiniteSet(RolesOf(event))
    BY RolesAre
  <2>2. PICK f : FoldsRoles(b, a, r, event, occ, f)
    BY <1>2, <2>1, RolesFold
  <2>3. \A x, c : Done(how, x, c) = DigestItem(c, a, r, event, x, occ)
    BY DEF Done, RoleHow
  <2> HIDE DEF how
  <2>4. ASSUME NEW x \in RolesOf(event), NEW c, ProperBox(c)
        PROVE  Grown(c, Done(how, x, c))
    <3>1. Grown(c, DigestItem(c, a, r, event, x, occ))
      BY <2>4, DigestItemGrown
    <3> QED
      BY <2>3, <3>1
  <2> QED
    BY <2>1, <2>2, <2>4, FoldGrown DEF FoldsRoles, how
<1> QED
  BY <1>1, <1>2

LEMMA EnqueuedGrown ==
  ASSUME World, NEW b, ProperBox(b), NEW a \in Assignments, NEW r, NEW event \in Events
  PROVE  Grown(b, Enqueued(b, a, r, event))
<1> DEFINE occ == IF event = "overdue" THEN Occurrence(r.deadline) ELSE 0
           own == Individual(a, r.life, event, occ, "employee")
           c == With(b, own, today)
<1>1. Period(event, occ) /\ OwnKey(own)
  BY DEF Period, OwnKey, Individual
<1>2. Enqueued(b, a, r, event) = b \/ Enqueued(b, a, r, event) = Digested(c, a, r, event, occ)
  BY DEF Enqueued, With
<1> HIDE DEF own, occ
<1>3. Grown(b, c)
  BY <1>1, InsertedGrown DEF World
<1> HIDE DEF c
<1>4. Grown(c, Digested(c, a, r, event, occ))
  BY <1>1, <1>3, DigestedGrown DEF Grown
<1> QED
  BY <1>2, <1>3, <1>4, GrownTrans DEF Grown, Extends

LEMMA EnqueuedAllGrown ==
  ASSUME World, NEW b, ProperBox(b), NEW as \in SUBSET Assignments, NEW table, NEW event \in Events
  PROVE  Grown(b, EnqueuedAll(b, as, table, event))
<1> DEFINE how == [kind |-> "all", table |-> table, event |-> event]
<1>1. IsFiniteSet(as)
  BY OutboxConstants, FS_Subset
<1>2. PICK f : Folds(how, b, SUBSET as, f) /\ EnqueuedAll(b, as, table, event) = f[as]
  BY <1>1, AssignmentsFold
<1>3. \A x, c : Done(how, x, c) = Enqueued(c, x, table[x], event)
  BY DEF Done
<1> HIDE DEF how
<1>4. \A x \in as : \A c : ProperBox(c) => Grown(c, Done(how, x, c))
  BY <1>3, EnqueuedGrown
<1> QED
  BY <1>1, <1>2, <1>4, FoldGrown

\* What is sent, or being sent, is left as it is; what was collected stays so.
Kept(b, c) == /\ DOMAIN b.rows \subseteq DOMAIN c.rows /\ b.items \subseteq c.items
              /\ \A k \in DOMAIN b.rows : b.rows[k].status \in {"sent", "sending"} => c.rows[k] = b.rows[k]
Keeps(b, c) == ProperBox(c) /\ Kept(b, c)

\* The box b, of which the rows of S are cancelled.
Without(b, S) == [rows |-> [k \in DOMAIN b.rows |-> IF k \in S THEN Final("cancelled", 0) ELSE b.rows[k]],
                  items |-> b.items]

LEMMA FinalType ==
  ASSUME NEW s \in {"pending", "sending", "sent", "failed", "cancelled"}, NEW at \in Int
  PROVE  Final(s, at) \in Message /\ Final(s, at).status = s
<1>1. Final(s, at) = [status |-> s, attempts |-> 0, next |-> 0, locked |-> 0, sentAt |-> at]
  <2> DEFINE m == [status |-> "pending", attempts |-> 0, next |-> 0, locked |-> 0, sentAt |-> 0]
             n == [m EXCEPT !.status = s]
  <2>1. Final(s, at) = [n EXCEPT !.sentAt = at]
    BY DEF Final, NewMessage
  <2>2. n = [status |-> s, attempts |-> 0, next |-> 0, locked |-> 0, sentAt |-> 0]
    OBVIOUS
  <2> HIDE DEF n
  <2> QED
    BY <2>1, <2>2
<1>2. 0 \in 0..MaxAttempts
  BY OutboxConstants
<1> QED
  BY <1>1, <1>2 DEF Message

LEMMA WithoutKeeps ==
  ASSUME NEW b, ProperBox(b), NEW S, \A k \in S \cap DOMAIN b.rows : b.rows[k].status \in Open
  PROVE  Keeps(b, Without(b, S))
<1> DEFINE c == Without(b, S)
<1>1. /\ IsBox(c) /\ DOMAIN c.rows = DOMAIN b.rows /\ c.items = b.items
      /\ \A k \in DOMAIN b.rows : c.rows[k] = IF k \in S THEN Final("cancelled", 0) ELSE b.rows[k]
  BY DEF Without, IsBox
<1> HIDE DEF c
<1>2. Final("cancelled", 0) \in Message /\ Final("cancelled", 0).status = "cancelled"
  BY FinalType
<1>3. ProperRows(c)
  BY <1>1, <1>2 DEF ProperBox, ProperRows
<1>4. ProperItems(c)
  BY <1>1 DEF ProperBox, ProperItems
<1>5. Single(c)
  <2>1. \A i \in b.items : /\ i.key \in DOMAIN b.rows
                           /\ c.rows[i.key].status # "cancelled" => c.rows[i.key] = b.rows[i.key]
    BY <1>1, <1>2 DEF ProperBox, ProperItems
  <2> QED
    BY <1>1, <2>1 DEF ProperBox, Single
<1>6. Kept(b, c)
  BY <1>1 DEF Kept, Open
<1> QED
  BY <1>1, <1>3, <1>4, <1>5, <1>6 DEF Keeps, ProperBox, c

LEMMA KeptTrans ==
  ASSUME NEW b, NEW c, NEW d, Kept(b, c), Keeps(c, d)
  PROVE  Keeps(b, d)
  BY DEF Kept, Keeps

LEMMA GrownKeeps ==
  ASSUME NEW b, NEW c, Grown(b, c)
  PROVE  Keeps(b, c)
  BY DEF Grown, Extends, Kept, Keeps

LEMMA CancelledKeeps ==
  ASSUME NEW b, ProperBox(b), NEW a
  PROVE  Keeps(b, Cancelled(b, a))
<1> DEFINE S == {k \in DOMAIN b.rows : k.kind = "individual" /\ k.a = a /\ k.event \in Cancellable
                                        /\ b.rows[k].status \in Open}
<1>1. Cancelled(b, a) = Without(b, S)
  <2>1. b = [rows |-> b.rows, items |-> b.items]
    BY DEF ProperBox, IsBox
  <2> DEFINE t == [k \in DOMAIN b.rows |->
      IF k.kind = "individual" /\ k.a = a /\ k.event \in Cancellable /\ b.rows[k].status \in Open
      THEN Final("cancelled", 0) ELSE b.rows[k]]
  <2>2. Cancelled(b, a) = [b EXCEPT !.rows = t]
    BY DEF Cancelled
  <2>3. t = [k \in DOMAIN b.rows |-> IF k \in S THEN Final("cancelled", 0) ELSE b.rows[k]]
    OBVIOUS
  <2> HIDE DEF t
  <2>4. [b EXCEPT !.rows = t] = [rows |-> t, items |-> b.items]
    BY <2>1
  <2> QED
    BY <2>2, <2>3, <2>4 DEF Without
<1> QED
  BY <1>1, WithoutKeeps

LEMMA BoxIs == Box = [rows |-> rows, items |-> items] /\ Box.rows = rows /\ Box.items = items /\ IsBox(Box)
  BY DEF Box, IsBox

LEMMA MigrateKeeps ==
  ASSUME World, ProperBox(Box), Migrate
  PROVE  Keeps(Box, Box')
<1> DEFINE legacy == {k \in DOMAIN rows : k.kind = "individual" /\ k.role # "employee"
                                          /\ rows[k].status \in Open}
           digested == FoldSet(LAMBDA k, b : Digested(b, k.a, asg[k.a], k.event, k.occ), Box, legacy)
<1>1. IsFiniteSet(legacy)
  BY BoxIs, FS_Subset DEF ProperBox, ProperRows
<1>2. \A k \in legacy : k \in DOMAIN rows /\ OwnKey(k) /\ rows[k].status \in Open
  BY BoxIs DEF ProperBox, ProperRows, DigestKey, Digest
<1>3. /\ rows' = [digested EXCEPT !.rows = [k \in DOMAIN @ |-> IF k \in legacy THEN Final("cancelled", 0) ELSE @[k]]].rows
      /\ items' = [digested EXCEPT !.rows = [k \in DOMAIN @ |-> IF k \in legacy THEN Final("cancelled", 0) ELSE @[k]]].items
  BY DEF Migrate, SetBox
<1>4. PICK f : Folds([kind |-> "legacy"], Box, SUBSET legacy, f) /\ digested = f[legacy]
  <2> HIDE DEF legacy
  <2> QED
    BY <1>1, LegacyFold
<1> HIDE DEF legacy, digested
<1> DEFINE how == [kind |-> "legacy"]
<1>5. \A x, c : Done(how, x, c) = Digested(c, x.a, asg[x.a], x.event, x.occ)
  BY DEF Done
<1>6. ASSUME NEW x \in legacy, NEW c, ProperBox(c)
      PROVE  Grown(c, Done(how, x, c))
  <2>1. x.a \in Assignments /\ x.event \in Events /\ Period(x.event, x.occ)
    BY <1>2 DEF OwnKey
  <2> QED
    BY <1>5, <1>6, <2>1, DigestedGrown
<1> HIDE DEF how
<1>7. Grown(Box, digested)
  BY <1>1, <1>4, <1>6, FoldGrown DEF how
<1>8. IsBox(digested) /\ Box' = Without(digested, legacy)
  <2>1. digested = [rows |-> digested.rows, items |-> digested.items]
    BY <1>7 DEF Grown, ProperBox, IsBox
  <2> DEFINE t == [k \in DOMAIN digested.rows |-> IF k \in legacy THEN Final("cancelled", 0) ELSE digested.rows[k]]
  <2>2. rows' = [digested EXCEPT !.rows = t].rows /\ items' = [digested EXCEPT !.rows = t].items
    BY <1>3
  <2> HIDE DEF t
  <2>3. rows' = t /\ items' = digested.items
    BY <2>1, <2>2
  <2> QED
    BY <2>1, <2>3 DEF Box, Without, t, IsBox
<1>9. Keeps(digested, Without(digested, legacy))
  <2>1. \A k \in legacy : digested.rows[k].status \in Open
    BY <1>2, <1>7, BoxIs DEF Grown, Extends
  <2> QED
    BY <1>7, <2>1, WithoutKeeps DEF Grown
<1> QED
  BY <1>7, <1>8, <1>9, GrownKeeps, KeptTrans DEF Keeps

LEMMA MarkLateKeeps ==
  ASSUME World, ProperBox(Box), MarkLate
  PROVE  Keeps(Box, Box')
<1> DEFINE late == {a \in Assignments : asg[a].exists /\ reach[a] # "none"
                    /\ asg[a].status \in {"pending", "started"} /\ asg[a].deadline < today}
           marked == [a \in Assignments |-> IF a \in late THEN [asg[a] EXCEPT !.status = "overdue"]
                                         ELSE asg[a]]
           c == EnqueuedAll(Box, late, marked, "overdue")
<1>1. rows' = c.rows /\ items' = c.items
  BY DEF MarkLate, SetBox
<1>2. late \in SUBSET Assignments /\ "overdue" \in Events
  BY DEF Events
<1> HIDE DEF late, marked
<1>3. Grown(Box, c)
  BY <1>2, EnqueuedAllGrown
<1> HIDE DEF c
<1>4. Box' = c
  BY <1>1, <1>3 DEF Grown, ProperBox, IsBox, Box
<1> QED
  BY <1>3, <1>4, GrownKeeps

LEMMA QueueByCalendarKeeps ==
  ASSUME World, ProperBox(Box), QueueByCalendar
  PROVE  Keeps(Box, Box')
<1> DEFINE b == Requeued(Box)
           c == Reminded(b)
           d == DueSoonQueued(c)
<1>1. rows' = d.rows /\ items' = d.items
  BY DEF QueueByCalendar, SetBox
<1>2. Grown(Box, b)
  <2> DEFINE as == {a \in Assignments : asg[a].exists /\ asg[a].status = "overdue"}
  <2>1. as \in SUBSET Assignments /\ "overdue" \in Events
    BY DEF Events
  <2>2. b = EnqueuedAll(Box, as, asg, "overdue")
    BY DEF Requeued
  <2> HIDE DEF as, b
  <2> QED
    BY <2>1, <2>2, EnqueuedAllGrown
<1>3. Grown(b, c)
  <2> DEFINE as == {a \in Assignments : asg[a].exists
            /\ ~\E k \in DOMAIN rows : /\ k.kind = "individual" /\ k.a = a
                                       /\ k.event = "assignment_reminder" /\ rows[k].status = "sent"}
  <2>1. as \in SUBSET Assignments /\ "assignment_reminder" \in Events
    BY DEF Events
  <2>2. c = EnqueuedAll(b, as, asg, "assignment_reminder")
    BY DEF Reminded
  <2> HIDE DEF as, b, c
  <2> QED
    BY <1>2, <2>1, <2>2, EnqueuedAllGrown DEF Grown
<1>4. Grown(c, d)
  <2> DEFINE as == {a \in Assignments : asg[a].exists}
  <2>1. as \in SUBSET Assignments /\ "due_soon" \in Events
    BY DEF Events
  <2>2. d = EnqueuedAll(c, as, asg, "due_soon")
    BY DEF DueSoonQueued
  <2> HIDE DEF as, b, c, d
  <2> QED
    BY <1>3, <2>1, <2>2, EnqueuedAllGrown DEF Grown
<1> HIDE DEF b, c, d
<1>5. Grown(Box, d)
  BY <1>2, <1>3, <1>4, GrownTrans DEF Grown
<1>6. Box' = d
  BY <1>1, <1>5 DEF Grown, ProperBox, IsBox, Box
<1> QED
  BY <1>5, <1>6, GrownKeeps

\* What a write of an assignment does to the tables.
LEMMA WriteKeeps ==
  ASSUME World, ProperBox(Box), NEW a \in Assignments, NEW new, Write(a, new)
  PROVE  Keeps(Box, Box')
<1> DEFINE old == asg[a]
           r == [new EXCEPT !.life = LifeAfter(old, new)]
           kept == IF old.exists /\ (old.deadline # r.deadline \/ old.status # r.status)
                THEN Cancelled(Box, a) ELSE Box
           event == EventAfter(old, new)
           c == IF event = "none" THEN kept ELSE Enqueued(kept, a, r, event)
<1>1. rows' = c.rows /\ items' = c.items
  BY DEF Write, SetBox
<1>2. Keeps(Box, kept)
  <2>1. kept = Box \/ kept = Cancelled(Box, a)
    OBVIOUS
  <2>2. Keeps(Box, Box)
    BY DEF Keeps, Kept
  <2> QED
    BY <2>1, <2>2, CancelledKeeps
<1>3. event = "none" \/ event \in Events
  <2>1. event \in {"none", "assigned", "completed", "overdue"}
    BY DEF EventAfter
  <2> QED
    BY <2>1 DEF Events
<1> HIDE DEF kept, event, r
<1>4. Keeps(Box, c)
  <2>1. CASE event = "none"
    BY <1>2, <2>1
  <2>2. CASE event # "none"
    <3>1. Grown(kept, Enqueued(kept, a, r, event))
      BY <1>2, <1>3, <2>2, EnqueuedGrown DEF Keeps
    <3> QED
      BY <1>2, <2>2, <3>1, GrownKeeps, KeptTrans DEF Keeps
  <2> QED
    BY <2>1, <2>2
<1> HIDE DEF c
<1>5. Box' = c
  BY <1>1, <1>4 DEF Keeps, ProperBox, IsBox, Box
<1> QED
  BY <1>4, <1>5

-----------------------------------------------------------------------------
(* EmailOutbox: the invariant, and how told and again stay within it.      *)

\* The message k tells n.
Names(k, n) ==
  \/ k = Individual(n.a, n.life, n.event, n.occ, "employee") /\ n.to = "employee"
  \/ /\ k.kind = "digest" /\ n.to = k.scope /\ n.event = k.event
     /\ \E i \in items : i.key = k /\ i.a = n.a /\ i.life = n.life /\ i.occ = n.occ

Recorded(n) == \E k \in DOMAIN rows : rows[k].status = "sent" /\ Names(k, n)
\* What was told, and is neither recorded as sent nor about to be.
Doubt == {n \in told : ~Recorded(n) /\ ~(work.step = "record" /\ n \in work.notices)}

\* A message is being sent, or was sent and is not yet recorded.
InHand == work.step \in {"send", "record"}
IsAssignment(r) == /\ r = [exists |-> r.exists, status |-> r.status, life |-> r.life,
                           assignedAt |-> r.assignedAt, deadline |-> r.deadline, revoked |-> r.revoked]
                   /\ r.status \in {"pending", "started", "completed", "overdue"}
AreAssignments(t) == t = [a \in Assignments |-> t[a]] /\ \A a \in Assignments : IsAssignment(t[a])
Clock == today \in 0..MaxDays /\ manager \in [Assignments -> Managers \cup {Nobody}]
Known == Clock /\ AreAssignments(asg)
IsWork == work = [step |-> work.step, batch |-> work.batch, key |-> work.key,
                  notices |-> work.notices, moved |-> work.moved]
\* The batch is being sent; the message in hand is of the batch and tells what it names,
\* which is so unless something changed since it was checked.
Claimed == IsWork /\ \A k \in work.batch : k \in DOMAIN rows /\ rows[k].status = "sending" /\ rows[k].attempts > 0
Holding == InHand => /\ work.key \in work.batch
                     /\ IsFiniteSet(work.notices) /\ Cardinality(work.notices) <= Cardinality(Assignments)
                     /\ \A n \in work.notices : Names(work.key, n)
Holds(n) == /\ asg[n.a].life = n.life /\ ~asg[n.a].revoked /\ reach[n.a] = "rule"
            /\ n.event = "completed" <=> asg[n.a].status = "completed"
Current == work.step = "send" /\ ~work.moved => \A n \in work.notices : Holds(n)
\* What was told again and what may be told again, the faults account for.
Credit == /\ IsFiniteSet(told) /\ faults \in Nat /\ again \in Nat
          /\ again + Cardinality(Doubt) <= faults * Cardinality(Assignments)
OutboxInv == Known /\ ProperBox(Box) /\ Claimed /\ Holding /\ Current /\ Credit

LEMMA KnownWorld == ASSUME Known PROVE World
  BY DEF Known, Clock, World

\* What is in hand is not recorded: no other message tells it.
LEMMA HandIsUnrecorded ==
  ASSUME OutboxInv, InHand, NEW n \in work.notices
  PROVE  ~Recorded(n)
<1> SUFFICES ASSUME NEW k \in DOMAIN rows, rows[k].status = "sent", Names(k, n)
             PROVE  FALSE
  BY DEF Recorded
<1> DEFINE l == work.key
<1>1. l \in DOMAIN rows /\ rows[l].status = "sending" /\ Names(l, n)
  BY DEF OutboxInv, Claimed, Holding
<1>2. k # l
  BY <1>1
<1> HIDE DEF l
<1>3. (OwnKey(k) \/ DigestKey(k)) /\ (OwnKey(l) \/ DigestKey(l))
  BY <1>1, BoxIs DEF OutboxInv, ProperBox, ProperRows
<1>4. CASE n.to = "employee"
  <2>1. \A m \in {k, l} : m.kind = "digest" => m.scope # "employee"
    <3>1. \A m : m.kind = "digest" => ~OwnKey(m)
      BY DEF OwnKey, Individual
    <3>2. \A m : DigestKey(m) => m.scope # "employee"
      BY OutboxConstants DEF DigestKey, TheTrainer
    <3> QED
      BY <1>3, <3>1, <3>2
  <2> QED
    BY <1>1, <1>2, <1>4, <2>1 DEF Names
<1>5. CASE n.to # "employee"
  <2>1. PICK i \in items : i.key = k /\ i.a = n.a /\ i.life = n.life /\ i.occ = n.occ
    BY <1>5 DEF Names
  <2>2. PICK j \in items : j.key = l /\ j.a = n.a /\ j.life = n.life /\ j.occ = n.occ
    BY <1>1, <1>5 DEF Names
  <2>3. k.scope = l.scope /\ k.event = l.event
    BY <1>1, <1>5 DEF Names
  <2>4. DigestKey(k) /\ DigestKey(l)
    BY <2>1, <2>2, BoxIs DEF OutboxInv, ProperBox, ProperItems, ProperItem
  <2>5. k.role = l.role
    BY <2>3, <2>4, OutboxConstants DEF DigestKey
  <2>6. Same(i, j)
    BY <2>1, <2>2, <2>3, <2>5 DEF Same
  <2>7. i = j
    BY <1>1, <2>1, <2>2, <2>6, BoxIs DEF OutboxInv, ProperBox, Single
  <2> QED
    BY <1>2, <2>1, <2>2, <2>7
<1> QED
  BY <1>4, <1>5

\* A step loses no item and no row, and what was sent stays so.
SentStays == /\ DOMAIN rows \subseteq DOMAIN rows' /\ items \subseteq items'
             /\ \A k \in DOMAIN rows : rows[k].status = "sent" => rows'[k].status = "sent"

LEMMA RecordedStays ==
  ASSUME SentStays, NEW n, Recorded(n)
  PROVE  Recorded(n)'
<1>1. PICK k \in DOMAIN rows : rows[k].status = "sent" /\ Names(k, n)
  BY DEF Recorded
<1>2. Names(k, n)'
  BY <1>1 DEF Names, SentStays, Individual
<1> QED
  BY <1>1, <1>2 DEF Recorded, SentStays

LEMMA DoubtType == ASSUME Credit PROVE IsFiniteSet(Doubt) /\ Cardinality(Doubt) \in Nat
<1>1. Doubt \in SUBSET told
  BY DEF Doubt
<1> QED
  BY <1>1, FS_Subset, FS_CardinalityType DEF Credit

\* A step that tells nothing and records what was in hand, if it was told, or holds it still.
LEMMA CreditStays ==
  ASSUME OutboxInv, SentStays, UNCHANGED <<told, again, faults>>,
         work.step = "record" =>
            \A n \in work.notices : Recorded(n)' \/ (work'.step = "record" /\ n \in work'.notices)
  PROVE  Credit'
<1>1. Doubt' \in SUBSET Doubt
  BY RecordedStays DEF Doubt
<1>2. IsFiniteSet(Doubt) /\ Cardinality(Doubt) \in Nat
  BY DoubtType DEF OutboxInv
<1>3. Cardinality(Doubt') \in Nat /\ Cardinality(Doubt') <= Cardinality(Doubt)
  BY <1>1, <1>2, FS_Subset, FS_CardinalityType
<1>4. faults * Cardinality(Assignments) \in Nat
  BY OutboxConstants, FS_CardinalityType DEF OutboxInv, Credit
<1>5. again + Cardinality(Doubt') <= faults * Cardinality(Assignments)
  BY <1>2, <1>3, <1>4 DEF OutboxInv, Credit
<1> QED
  BY <1>5 DEF OutboxInv, Credit

OneMore == faults' = faults + 1
LEMMA Charged ==
  ASSUME OutboxInv, OneMore
  PROVE  /\ faults' \in Nat /\ Cardinality(Assignments) \in Nat /\ faults * Cardinality(Assignments) \in Nat
         /\ faults' * Cardinality(Assignments) = faults * Cardinality(Assignments) + Cardinality(Assignments)
<1>1. Cardinality(Assignments) \in Nat /\ faults \in Nat
  BY OutboxConstants, FS_CardinalityType DEF OutboxInv, Credit
<1> DEFINE c == Cardinality(Assignments)
<1>2. c \in Nat
  BY <1>1
<1> HIDE DEF c
<1>3. (faults + 1) * c = faults * c + c /\ faults * c \in Nat
  BY <1>1, <1>2
<1> QED
  BY <1>1, <1>3 DEF OneMore, c

\* A fault pays for what was in hand: it may be told again.
LEMMA CreditSpent ==
  ASSUME OutboxInv, SentStays, UNCHANGED <<told, again>>, OneMore
  PROVE  Credit'
<1> DEFINE N == IF InHand THEN work.notices ELSE {}
<1>1. IsFiniteSet(N) /\ Cardinality(N) \in Nat /\ Cardinality(N) <= Cardinality(Assignments)
  BY FS_EmptySet, FS_CardinalityType, Charged DEF OutboxInv, Holding
<1>2. Doubt' \in SUBSET (Doubt \cup N)
  BY RecordedStays DEF Doubt, InHand
<1> HIDE DEF N
<1>3. IsFiniteSet(Doubt) /\ Cardinality(Doubt) \in Nat
  BY DoubtType DEF OutboxInv
<1>4. IsFiniteSet(Doubt \cup N) /\ Cardinality(Doubt \cup N) <= Cardinality(Doubt) + Cardinality(N)
  <2>1. Cardinality(Doubt \cap N) \in Nat
    BY <1>3, FS_Intersection, FS_CardinalityType
  <2> QED
    BY <1>1, <1>3, <2>1, FS_Union
<1>5. Cardinality(Doubt') \in Nat /\ Cardinality(Doubt') <= Cardinality(Doubt \cup N)
  BY <1>2, <1>4, FS_Subset, FS_CardinalityType
<1>6. Cardinality(Doubt \cup N) \in Nat
  BY <1>4, FS_CardinalityType
<1>7. again + Cardinality(Doubt') <= faults' * Cardinality(Assignments)
  BY <1>1, <1>3, <1>4, <1>5, <1>6, Charged DEF OutboxInv, Credit
<1> QED
  BY <1>7, Charged DEF OutboxInv, Credit

\* What is told again was in doubt.
LEMMA AgainWasInDoubt ==
  ASSUME OutboxInv, work.step = "send"
  PROVE  /\ told \cap work.notices \subseteq Doubt
         /\ IsFiniteSet(work.notices) /\ Cardinality(work.notices) \in Nat
         /\ Cardinality(work.notices) <= Cardinality(Assignments)
         /\ IsFiniteSet(told \cup work.notices)
         /\ Cardinality(told \cap work.notices) \in Nat
         /\ IsFiniteSet(Doubt \ work.notices) /\ Cardinality(Doubt \ work.notices) \in Nat
         /\ Cardinality(told \cap work.notices) + Cardinality(Doubt \ work.notices) <= Cardinality(Doubt)
<1> DEFINE N == work.notices
<1>1. told \cap N \subseteq Doubt
  BY HandIsUnrecorded DEF Doubt, InHand
<1>2. IsFiniteSet(N) /\ Cardinality(N) <= Cardinality(Assignments)
  BY DEF OutboxInv, Holding, InHand
<1> HIDE DEF N
<1>3. IsFiniteSet(Doubt) /\ Cardinality(Doubt) \in Nat
  BY DoubtType DEF OutboxInv
<1>4. /\ IsFiniteSet(Doubt \ N) /\ Cardinality(Doubt \ N) = Cardinality(Doubt) - Cardinality(Doubt \cap N)
      /\ Cardinality(Doubt \ N) \in Nat
  BY <1>3, FS_Difference, FS_CardinalityType
<1>5. IsFiniteSet(Doubt \cap N) /\ Cardinality(Doubt \cap N) \in Nat
  BY <1>3, FS_Intersection, FS_CardinalityType
<1>6. Cardinality(told \cap N) \in Nat /\ Cardinality(told \cap N) <= Cardinality(Doubt \cap N)
  <2>1. told \cap N \in SUBSET (Doubt \cap N)
    BY <1>1
  <2> QED
    BY <1>5, <2>1, FS_Subset, FS_CardinalityType
<1>7. Cardinality(told \cap N) + Cardinality(Doubt \ N) <= Cardinality(Doubt)
  BY <1>3, <1>4, <1>5, <1>6
<1>8. IsFiniteSet(told \cup N) /\ Cardinality(N) \in Nat
  BY <1>2, FS_Union, FS_CardinalityType DEF OutboxInv, Credit
<1> QED
  BY <1>1, <1>2, <1>4, <1>6, <1>7, <1>8 DEF N

\* A message that is told and recorded needs no credit.
LEMMA CreditAccepted ==
  ASSUME OutboxInv, SentStays, work.step = "send", Deliver, faults' = faults,
         work'.step = "record", work'.notices = work.notices
  PROVE  Credit'
<1> DEFINE N == work.notices
<1>1. Doubt' \in SUBSET (Doubt \ N)
  BY RecordedStays DEF Doubt, Deliver
<1>2. IsFiniteSet(told') /\ again' = again + Cardinality(told \cap N)
  BY AgainWasInDoubt DEF Deliver
<1>3. /\ IsFiniteSet(Doubt \ N) /\ Cardinality(Doubt \ N) \in Nat /\ Cardinality(told \cap N) \in Nat
      /\ Cardinality(told \cap N) + Cardinality(Doubt \ N) <= Cardinality(Doubt)
  BY AgainWasInDoubt
<1> HIDE DEF N
<1>4. Cardinality(Doubt') \in Nat /\ Cardinality(Doubt') <= Cardinality(Doubt \ N)
  BY <1>1, <1>3, FS_Subset, FS_CardinalityType
<1>5. faults * Cardinality(Assignments) \in Nat /\ Cardinality(Doubt) \in Nat
  BY OutboxConstants, FS_CardinalityType, DoubtType DEF OutboxInv, Credit
<1>6. again' \in Nat /\ again' + Cardinality(Doubt') <= faults * Cardinality(Assignments)
  BY <1>2, <1>3, <1>4, <1>5 DEF OutboxInv, Credit
<1> QED
  BY <1>2, <1>6 DEF OutboxInv, Credit

\* One that is told without a record is in doubt.
LEMMA CreditDoubtful ==
  ASSUME OutboxInv, SentStays, work.step = "send", Deliver, OneMore
  PROVE  Credit'
<1> DEFINE N == work.notices
<1>1. Doubt' \in SUBSET ((Doubt \ N) \cup N)
  BY RecordedStays DEF Doubt, Deliver
<1>2. IsFiniteSet(told') /\ again' = again + Cardinality(told \cap N)
  BY AgainWasInDoubt DEF Deliver
<1>3. /\ IsFiniteSet(Doubt \ N) /\ Cardinality(Doubt \ N) \in Nat /\ Cardinality(told \cap N) \in Nat
      /\ IsFiniteSet(N) /\ Cardinality(N) \in Nat /\ Cardinality(N) <= Cardinality(Assignments)
      /\ Cardinality(told \cap N) + Cardinality(Doubt \ N) <= Cardinality(Doubt)
  BY AgainWasInDoubt
<1> HIDE DEF N
<1>4. /\ IsFiniteSet((Doubt \ N) \cup N)
      /\ Cardinality((Doubt \ N) \cup N) = Cardinality(Doubt \ N) + Cardinality(N)
  <2>1. (Doubt \ N) \cap N = {}
    OBVIOUS
  <2>2. Cardinality((Doubt \ N) \cap N) = 0
    BY <2>1, FS_EmptySet
  <2> QED
    BY <1>3, <2>2, FS_Union
<1>5. Cardinality(Doubt') \in Nat /\ Cardinality(Doubt') <= Cardinality(Doubt \ N) + Cardinality(N)
  BY <1>1, <1>4, FS_Subset, FS_CardinalityType
<1>6. Cardinality(Doubt) \in Nat
  BY DoubtType DEF OutboxInv
<1>7. again' \in Nat /\ again' + Cardinality(Doubt') <= faults' * Cardinality(Assignments)
  BY <1>2, <1>3, <1>5, <1>6, Charged DEF OutboxInv, Credit
<1> QED
  BY <1>2, <1>7, Charged DEF OutboxInv, Credit

-----------------------------------------------------------------------------
(* EmailOutbox: what a message tells, and the cycle's record.              *)

LEMMA ValidHolds ==
  ASSUME NEW a, NEW event \in Events, NEW life, NEW occ, NEW to, Valid(a, event, life, occ), Period(event, occ)
  PROVE  /\ Holds(Notice(a, life, event, occ, to))
         /\ life = asg[a].life /\ occ = IF event = "overdue" THEN Occurrence(asg[a].deadline) ELSE 0
  BY DEF Valid, EventIsCurrent, Holds, Notice, Events, Period

\* What a message tells: so few, of as many assignments, all of it so.
LEMMA NoticesAre ==
  ASSUME OutboxInv, NEW k \in work.batch
  PROVE  /\ IsFiniteSet(NoticesOf(k)) /\ Cardinality(NoticesOf(k)) <= Cardinality(Assignments)
         /\ \A n \in NoticesOf(k) : Names(k, n) /\ Holds(n)
<1>1. OwnKey(k) \/ DigestKey(k)
  BY BoxIs DEF OutboxInv, Claimed, ProperBox, ProperRows
<1> DEFINE Told(n) == /\ Names(k, n) /\ Holds(n) /\ n.a \in Assignments
                      /\ n = Notice(n.a, asg[n.a].life, k.event,
                                    IF k.event = "overdue" THEN Occurrence(asg[n.a].deadline) ELSE 0, n.to)
                      /\ n.to = IF k.kind = "individual" THEN "employee" ELSE k.scope
<1>2. ASSUME NEW n \in NoticesOf(k)
      PROVE  Told(n)
  <2>1. CASE k.kind = "individual"
    <3>1. OwnKey(k)
      BY <1>1, <2>1 DEF DigestKey, Digest
    <3>2. /\ n = Notice(k.a, k.life, k.event, k.occ, "employee") /\ k.role = "employee"
          /\ Valid(k.a, k.event, k.life, k.occ)
      BY <2>1 DEF NoticesOf
    <3>3. k.a \in Assignments /\ k.event \in Events /\ Period(k.event, k.occ)
          /\ k = Individual(k.a, k.life, k.event, k.occ, "employee")
      BY <3>1, <3>2 DEF OwnKey
    <3>4. /\ Holds(n) /\ k.life = asg[k.a].life
          /\ k.occ = IF k.event = "overdue" THEN Occurrence(asg[k.a].deadline) ELSE 0
      BY <3>2, <3>3, ValidHolds
    <3>5. n.a = k.a /\ n.life = k.life /\ n.event = k.event /\ n.occ = k.occ /\ n.to = "employee"
      BY <3>2 DEF Notice
    <3>6. Names(k, n)
      BY <3>3, <3>5 DEF Names
    <3> QED
      BY <2>1, <3>2, <3>3, <3>4, <3>5, <3>6
  <2>2. CASE k.kind # "individual"
    <3>1. DigestKey(k) /\ k.kind = "digest"
      BY <1>1, <2>2 DEF OwnKey, Individual, DigestKey, Digest
    <3>2. PICK i \in items : /\ i.key = k /\ Valid(i.a, k.event, i.life, i.occ)
                             /\ n = Notice(i.a, i.life, k.event, i.occ, k.scope)
      BY <2>2 DEF NoticesOf
    <3>3. i.a \in Assignments /\ k.event \in Events /\ Period(k.event, i.occ)
      BY <3>2, BoxIs DEF OutboxInv, ProperBox, ProperItems, ProperItem, DigestKey
    <3>4. /\ Holds(n) /\ i.life = asg[i.a].life
          /\ i.occ = IF k.event = "overdue" THEN Occurrence(asg[i.a].deadline) ELSE 0
      BY <3>2, <3>3, ValidHolds
    <3>5. n.a = i.a /\ n.life = i.life /\ n.event = k.event /\ n.occ = i.occ /\ n.to = k.scope
      BY <3>2 DEF Notice
    <3>6. Names(k, n)
      BY <3>1, <3>2, <3>5 DEF Names
    <3> QED
      BY <2>2, <3>2, <3>3, <3>4, <3>5, <3>6
  <2> QED
    BY <2>1, <2>2
<1>3. \A n, m \in NoticesOf(k) : n.a = m.a => n = m
  <2> SUFFICES ASSUME NEW n \in NoticesOf(k), NEW m \in NoticesOf(k), n.a = m.a
               PROVE  n = m
    OBVIOUS
  <2>1. Told(n) /\ Told(m)
    BY <1>2
  <2> QED
    BY <2>1
<1>4. \A n \in NoticesOf(k) : n.a \in Assignments /\ Names(k, n) /\ Holds(n)
  BY <1>2
<1> DEFINE N == NoticesOf(k)
           f == [n \in N |-> n.a]
<1> HIDE DEF N
<1>5. \A n, m \in N : n.a = m.a => n = m
  BY <1>3 DEF N
<1>6. \A n \in N : n.a \in Assignments
  BY <1>4 DEF N
<1>7. f \in Injection(N, Assignments)
  BY <1>5, <1>6 DEF Injection, IsInjective
<1>8. IsFiniteSet(N) /\ Cardinality(N) <= Cardinality(Assignments)
  <2> HIDE DEF f
  <2> QED
    BY <1>7, OutboxConstants, FS_Injection
<1> QED
  BY <1>4, <1>8 DEF N

\* The fields of the cycle's record.
IsCycle(w) == w = [step |-> w.step, batch |-> w.batch, key |-> w.key, notices |-> w.notices, moved |-> w.moved]

\* A field of the cycle's record.
LEMMA CycleExcept ==
  ASSUME NEW w, IsCycle(w), NEW v
  PROVE  /\ [w EXCEPT !.step = v] = [step |-> v, batch |-> w.batch, key |-> w.key, notices |-> w.notices, moved |-> w.moved]
         /\ [w EXCEPT !.batch = v] = [step |-> w.step, batch |-> v, key |-> w.key, notices |-> w.notices, moved |-> w.moved]
         /\ [w EXCEPT !.key = v] = [step |-> w.step, batch |-> w.batch, key |-> v, notices |-> w.notices, moved |-> w.moved]
         /\ [w EXCEPT !.notices = v] = [step |-> w.step, batch |-> w.batch, key |-> w.key, notices |-> v, moved |-> w.moved]
         /\ [w EXCEPT !.moved = v] = [step |-> w.step, batch |-> w.batch, key |-> w.key, notices |-> w.notices, moved |-> v]
  BY DEF IsCycle

LEMMA IdleIs == /\ IsCycle(Idle)
                /\ Idle.step = "idle" /\ Idle.batch = {}
  BY DEF Idle, IsCycle

LEMMA RestIs ==
  ASSUME NEW k
  PROVE  IsCycle(Rest(k)) /\ Rest(k).step \in {"idle", "check"} /\ Rest(k).batch \subseteq work.batch \ {k}
<1> DEFINE i == [Idle EXCEPT !.step = "check"]
           R == [step |-> "check", batch |-> work.batch \ {k}, key |-> Idle.key,
                 notices |-> Idle.notices, moved |-> Idle.moved]
<1>1. [Idle EXCEPT !.step = "check", !.batch = work.batch \ {k}] = R
  <2>1. i = [step |-> "check", batch |-> Idle.batch, key |-> Idle.key, notices |-> Idle.notices, moved |-> Idle.moved]
    BY IdleIs, CycleExcept
  <2>2. [Idle EXCEPT !.step = "check", !.batch = work.batch \ {k}] = [i EXCEPT !.batch = work.batch \ {k}]
    OBVIOUS
  <2> HIDE DEF i
  <2>3. IsCycle(i) /\ i.step = "check" /\ i.key = Idle.key /\ i.notices = Idle.notices /\ i.moved = Idle.moved
    BY <2>1 DEF IsCycle
  <2>4. [i EXCEPT !.batch = work.batch \ {k}] = R
    <3> DEFINE B == work.batch \ {k}
    <3> HIDE DEF B
    <3>1. [i EXCEPT !.batch = B] = [step |-> i.step, batch |-> B, key |-> i.key, notices |-> i.notices, moved |-> i.moved]
      BY <2>3, CycleExcept
    <3> QED
      BY <2>3, <3>1 DEF B
  <2> QED
    BY <2>2, <2>4
<1>2. Rest(k) = Idle \/ Rest(k) = R
  BY <1>1 DEF Rest
<1>3. CASE Rest(k) = Idle
  BY <1>3, IdleIs
<1>4. CASE Rest(k) = R
  BY <1>4 DEF IsCycle
<1> QED
  BY <1>2, <1>3, <1>4

LEMMA ClaimedRow ==
  ASSUME NEW r \in Message, r.attempts < MaxAttempts, today \in Int
  PROVE  LET s == [r EXCEPT !.status = "sending", !.attempts = @ + 1, !.locked = today]
         IN  s \in Message /\ s.status = "sending" /\ s.attempts > 0
<1> DEFINE s == [r EXCEPT !.status = "sending", !.attempts = @ + 1, !.locked = today]
           t == [r EXCEPT !.status = "sending"]
           u == [t EXCEPT !.attempts = t.attempts + 1]
<1>1. /\ r = [status |-> r.status, attempts |-> r.attempts, next |-> r.next, locked |-> r.locked, sentAt |-> r.sentAt]
      /\ r.attempts \in 0..MaxAttempts /\ r.next \in Int /\ r.sentAt \in Int
  BY DEF Message
<1>2. t = [status |-> "sending", attempts |-> r.attempts, next |-> r.next, locked |-> r.locked, sentAt |-> r.sentAt]
  BY <1>1
<1>3. s = [u EXCEPT !.locked = today]
  OBVIOUS
<1> HIDE DEF t
<1>4. u = [status |-> "sending", attempts |-> r.attempts + 1, next |-> r.next, locked |-> r.locked, sentAt |-> r.sentAt]
  BY <1>2
<1> HIDE DEF u, s
<1>5. s = [status |-> "sending", attempts |-> r.attempts + 1, next |-> r.next, locked |-> today, sentAt |-> r.sentAt]
  BY <1>3, <1>4
<1>6. r.attempts + 1 \in 0..MaxAttempts /\ r.attempts + 1 > 0
  BY <1>1, OutboxConstants
<1>7. s \in Message /\ s.status = "sending" /\ s.attempts > 0
  BY <1>1, <1>5, <1>6 DEF Message
<1> QED
  BY <1>7 DEF s

LEMMA FailedType ==
  ASSUME NEW r \in Message, today \in Int
  PROVE  /\ Failed(r) \in Message /\ Failed(r).status \in Open
         /\ Failed(r).status = "failed" => Failed(r).attempts = MaxAttempts
<1>1. /\ r = [status |-> r.status, attempts |-> r.attempts, next |-> r.next, locked |-> r.locked, sentAt |-> r.sentAt]
      /\ r.attempts \in 0..MaxAttempts /\ r.sentAt \in Int
  BY DEF Message
<1>2. CASE r.attempts >= MaxAttempts
  <2> DEFINE m == Final("failed", 0)
  <2>1. m = [status |-> "failed", attempts |-> m.attempts, next |-> m.next, locked |-> m.locked, sentAt |-> m.sentAt]
        /\ m.next \in Int /\ m.locked \in Int /\ m.sentAt \in Int
    <3>1. m \in Message /\ m.status = "failed"
      BY FinalType
    <3> HIDE DEF m
    <3> QED
      BY <3>1 DEF Message
  <2>2. Failed(r) = [m EXCEPT !.attempts = r.attempts]
    BY <1>2 DEF Failed
  <2> HIDE DEF m
  <2>3. Failed(r) = [status |-> "failed", attempts |-> r.attempts, next |-> m.next, locked |-> m.locked, sentAt |-> m.sentAt]
    BY <2>1, <2>2
  <2>4. r.attempts = MaxAttempts
    BY <1>1, <1>2, OutboxConstants
  <2> QED
    BY <1>1, <2>1, <2>3, <2>4 DEF Message, Open
<1>3. CASE ~(r.attempts >= MaxAttempts)
  <2> DEFINE t == [r EXCEPT !.status = "pending"]
             u == [t EXCEPT !.next = today + RetryDelay]
  <2>1. Failed(r) = [u EXCEPT !.locked = 0]
    BY <1>3 DEF Failed
  <2>2. t = [status |-> "pending", attempts |-> r.attempts, next |-> r.next, locked |-> r.locked, sentAt |-> r.sentAt]
    BY <1>1
  <2> HIDE DEF t
  <2>3. u = [status |-> "pending", attempts |-> r.attempts, next |-> today + RetryDelay, locked |-> r.locked, sentAt |-> r.sentAt]
    BY <2>2
  <2> HIDE DEF u
  <2>4. Failed(r) = [status |-> "pending", attempts |-> r.attempts, next |-> today + RetryDelay,
                     locked |-> 0, sentAt |-> r.sentAt]
    BY <2>1, <2>3
  <2>5. today + RetryDelay \in Int
    BY OutboxConstants
  <2> QED
    BY <1>1, <2>4, <2>5 DEF Message, Open
<1> QED
  BY <1>2, <1>3

\* A step that leaves what is in hand as it is.
SameHand == /\ IsWork' /\ work'.batch = work.batch
            /\ \/ ~InHand /\ ~InHand'
               \/ work'.step = work.step /\ work'.key = work.key /\ work'.notices = work.notices

LEMMA HandUndisturbed ==
  ASSUME OutboxInv, Keeps(Box, Box'), SameHand, UNCHANGED <<told, again, faults>>
  PROVE  ProperBox(Box)' /\ Claimed' /\ Holding' /\ Credit'
<1>1. ProperBox(Box')
  BY DEF Keeps
<1>2. /\ DOMAIN rows \subseteq DOMAIN rows' /\ items \subseteq items'
      /\ \A k \in DOMAIN rows : rows[k].status \in {"sent", "sending"} => rows'[k] = rows[k]
  BY BoxIs DEF Keeps, Kept, Box
<1>3. SentStays
  BY <1>2 DEF SentStays
<1>4. Claimed'
  BY <1>2 DEF OutboxInv, Claimed, SameHand
<1>5. Holding'
  <2>1. CASE ~InHand'
    BY <2>1 DEF Holding
  <2>2. CASE InHand'
    <3>1. InHand /\ work'.key = work.key /\ work'.notices = work.notices /\ work'.batch = work.batch
      BY <2>2 DEF SameHand, InHand
    <3>2. /\ work'.key \in work'.batch /\ IsFiniteSet(work'.notices)
          /\ Cardinality(work'.notices) <= Cardinality(Assignments)
      BY <3>1 DEF OutboxInv, Holding
    <3>3. \A n \in work'.notices : Names(work.key, n)'
      <4>1. \A n \in work.notices : Names(work.key, n)
        BY <3>1 DEF OutboxInv, Holding
      <4> TAKE n \in work'.notices
      <4>2. Names(work.key, n)
        BY <3>1, <4>1
      <4>3. items \subseteq items' /\ work'.key = work.key
        BY <1>2, <3>1
      <4> QED
        BY <4>2, <4>3 DEF Names
    <3> QED
      BY <3>2, <3>3 DEF Holding
  <2> QED
    BY <2>1, <2>2
<1>6. Credit'
  <2>1. work.step = "record" =>
            \A n \in work.notices : Recorded(n)' \/ (work'.step = "record" /\ n \in work'.notices)
    BY DEF SameHand, InHand
  <2> QED
    BY <1>3, <2>1, CreditStays
<1> QED
  BY <1>1, <1>4, <1>5, <1>6

\* What settling a row of the batch does to the tables.
LEMMA RowSettled ==
  ASSUME OutboxInv, NEW k \in work.batch, NEW message \in Message, Settle(k, message), work' = Rest(k), items' = items,
         message.status = "failed" => message.attempts = MaxAttempts
  PROVE  /\ ProperBox(Box)' /\ Claimed' /\ Holding' /\ Current' /\ SentStays
         /\ k \in DOMAIN rows' /\ rows'[k] = message
<1>1. k \in DOMAIN rows /\ rows[k].status = "sending"
  BY DEF OutboxInv, Claimed
<1>2. DOMAIN rows' = DOMAIN rows /\ rows'[k] = message /\ \A l \in DOMAIN rows : l # k => rows'[l] = rows[l]
  BY <1>1 DEF Settle
<1>3. SentStays
  BY <1>1, <1>2 DEF SentStays
<1>4. /\ IsBox(Box') /\ Box'.rows = rows' /\ Box'.items = items
      /\ IsBox(Box) /\ Box.rows = rows /\ Box.items = items
  BY DEF Box, IsBox
<1>5. ProperRows(Box)'
  <2>1. ProperRows(Box)
    BY DEF OutboxInv, ProperBox
  <2> QED
    BY <1>1, <1>2, <1>4, <2>1 DEF ProperRows
<1>6. ProperItems(Box)'
  <2>1. ProperItems(Box)
    BY DEF OutboxInv, ProperBox
  <2> QED
    BY <1>2, <1>4, <2>1 DEF ProperItems
<1>7. Single(Box)'
  <2>1. Single(Box) /\ ProperItems(Box)
    BY DEF OutboxInv, ProperBox
  <2>2. \A i \in items : i.key \in DOMAIN rows /\ (rows'[i.key].status # "cancelled" => rows[i.key].status # "cancelled")
    BY <1>1, <1>2, <1>4, <2>1 DEF ProperItems
  <2> QED
    BY <1>4, <2>1, <2>2 DEF Single
<1>8. ProperBox(Box)'
  BY <1>4, <1>5, <1>6, <1>7 DEF ProperBox
<1>9. Claimed'
  <2>1. IsWork' /\ work'.batch \subseteq work.batch \ {k}
    BY RestIs DEF IsWork, IsCycle
  <2> QED
    BY <1>2, <2>1 DEF OutboxInv, Claimed
<1>10. Holding' /\ Current'
  <2>1. work'.step \in {"idle", "check"}
    BY RestIs
  <2> QED
    BY <2>1 DEF Holding, Current, InHand
<1> QED
  BY <1>1, <1>2, <1>3, <1>8, <1>9, <1>10

-----------------------------------------------------------------------------
(* EmailOutbox: every step keeps OutboxInv.                                *)

\* A field of an assignment.
LEMMA AssignmentExcept ==
  ASSUME NEW r, IsAssignment(r), NEW v
  PROVE  /\ IsAssignment([r EXCEPT !.exists = v]) /\ IsAssignment([r EXCEPT !.life = v])
         /\ IsAssignment([r EXCEPT !.assignedAt = v]) /\ IsAssignment([r EXCEPT !.deadline = v])
         /\ IsAssignment([r EXCEPT !.revoked = v])
         /\ v \in {"pending", "started", "completed", "overdue"} => IsAssignment([r EXCEPT !.status = v])
<1> DEFINE Full(e, s, l, t, d, w) == [exists |-> e, status |-> s, life |-> l, assignedAt |-> t,
                                      deadline |-> d, revoked |-> w]
<1>1. r = Full(r.exists, r.status, r.life, r.assignedAt, r.deadline, r.revoked)
      /\ r.status \in {"pending", "started", "completed", "overdue"}
  BY DEF IsAssignment
<1>2. /\ [r EXCEPT !.exists = v] = Full(v, r.status, r.life, r.assignedAt, r.deadline, r.revoked)
      /\ [r EXCEPT !.status = v] = Full(r.exists, v, r.life, r.assignedAt, r.deadline, r.revoked)
      /\ [r EXCEPT !.life = v] = Full(r.exists, r.status, v, r.assignedAt, r.deadline, r.revoked)
  BY <1>1
<1>3. /\ [r EXCEPT !.assignedAt = v] = Full(r.exists, r.status, r.life, v, r.deadline, r.revoked)
      /\ [r EXCEPT !.deadline = v] = Full(r.exists, r.status, r.life, r.assignedAt, v, r.revoked)
      /\ [r EXCEPT !.revoked = v] = Full(r.exists, r.status, r.life, r.assignedAt, r.deadline, v)
  BY <1>1
<1>4. ASSUME NEW e, NEW s \in {"pending", "started", "completed", "overdue"}, NEW l, NEW t, NEW d, NEW w
      PROVE  IsAssignment(Full(e, s, l, t, d, w))
  BY DEF IsAssignment
<1> HIDE DEF Full
<1> QED
  BY <1>1, <1>2, <1>3, <1>4

LEMMA NoAssignmentIs == IsAssignment(NoAssignment)
  BY DEF IsAssignment, NoAssignment

\* A write of an assignment: what is in hand may be so no longer.
LEMMA WriteStep ==
  ASSUME OutboxInv, NEW a \in Assignments, NEW new, IsAssignment(new), Write(a, new)
  PROVE  OutboxInv'
<1>1. Keeps(Box, Box')
  BY KnownWorld, WriteKeeps DEF OutboxInv
<1> DEFINE m == work.step = "send"
           r == [new EXCEPT !.life = LifeAfter(asg[a], new)]
<1>2. /\ work' = [work EXCEPT !.moved = m] /\ asg' = [asg EXCEPT ![a] = r]
      /\ UNCHANGED <<today, manager, told, again, faults>>
  BY DEF Write, outcome
<1>3. /\ IsCycle(work') /\ work'.step = work.step /\ work'.batch = work.batch /\ work'.key = work.key
      /\ work'.notices = work.notices /\ work'.moved = m
  <2> HIDE DEF m
  <2>1. IsCycle(work)
    BY DEF OutboxInv, Claimed, IsWork, IsCycle
  <2> QED
    BY <1>2, <2>1, CycleExcept DEF IsCycle
<1>4. IsAssignment(r)
  BY AssignmentExcept
<1> HIDE DEF r
<1>5. SameHand
  BY <1>3 DEF SameHand, IsWork, IsCycle
<1>6. ProperBox(Box)' /\ Claimed' /\ Holding' /\ Credit'
  BY <1>1, <1>2, <1>5, HandUndisturbed
<1>7. Known'
  <2>1. AreAssignments(asg)
    BY DEF OutboxInv, Known
  <2>2. AreAssignments(asg')
    BY <1>2, <1>4, <2>1 DEF AreAssignments
  <2> QED
    BY <1>2, <2>2 DEF OutboxInv, Known, Clock, AreAssignments
<1>8. Current'
  BY <1>3 DEF Current
<1> QED
  BY <1>6, <1>7, <1>8 DEF OutboxInv

Writes(a) == Assign(a) \/ Start(a) \/ CompleteCourse(a) \/ FoundLate(a) \/ MoveDeadline(a) \/ Revoke(a) \/ Reactivate(a)

LEMMA AssignmentStep ==
  ASSUME OutboxInv, NEW a \in Assignments, Writes(a)
  PROVE  OutboxInv'
<1>1. IsAssignment(asg[a])
  BY DEF OutboxInv, Known, AreAssignments
<1>2. CASE Assign(a)
  <2>1. PICK d \in Deadlines : Write(a, [NoAssignment EXCEPT !.exists = TRUE, !.assignedAt = today, !.deadline = d])
    BY <1>2 DEF Assign
  <2> DEFINE yes == TRUE
             s == [NoAssignment EXCEPT !.exists = yes]
             t == [s EXCEPT !.assignedAt = today]
             u == [t EXCEPT !.deadline = d]
  <2>2. Write(a, u)
    BY <2>1
  <2>3. IsAssignment(s)
    <3> HIDE DEF yes
    <3> QED
      BY NoAssignmentIs, AssignmentExcept
  <2> HIDE DEF s
  <2>4. IsAssignment(t)
    BY <2>3, AssignmentExcept
  <2> HIDE DEF t
  <2>5. IsAssignment(u)
    BY <2>4, AssignmentExcept
  <2> HIDE DEF u
  <2> QED
    BY <2>2, <2>5, WriteStep
<1>3. CASE Start(a) \/ CompleteCourse(a) \/ FoundLate(a)
  <2>1. PICK s \in {"started", "completed", "overdue"} : Write(a, [asg[a] EXCEPT !.status = s])
    BY <1>3 DEF Start, CompleteCourse, FoundLate
  <2> DEFINE new == [asg[a] EXCEPT !.status = s]
  <2>2. Write(a, new)
    BY <2>1
  <2>3. IsAssignment(new)
    <3>1. s \in {"pending", "started", "completed", "overdue"}
      OBVIOUS
    <3> QED
      BY <1>1, <3>1, AssignmentExcept
  <2> HIDE DEF new
  <2> QED
    BY <2>2, <2>3, WriteStep
<1>4. CASE MoveDeadline(a)
  <2>1. PICK d \in Deadlines : Write(a, [asg[a] EXCEPT !.deadline = d])
    BY <1>4 DEF MoveDeadline
  <2> DEFINE new == [asg[a] EXCEPT !.deadline = d]
  <2>2. Write(a, new)
    BY <2>1
  <2>3. IsAssignment(new)
    BY <1>1, AssignmentExcept
  <2> HIDE DEF new
  <2> QED
    BY <2>2, <2>3, WriteStep
<1>5. CASE Revoke(a)
  <2> DEFINE yes == TRUE
             new == [asg[a] EXCEPT !.revoked = yes]
  <2>1. Write(a, new)
    BY <1>5 DEF Revoke
  <2>2. IsAssignment(new)
    <3> HIDE DEF yes
    <3> QED
      BY <1>1, AssignmentExcept
  <2> HIDE DEF new
  <2> QED
    BY <2>1, <2>2, WriteStep
<1>6. CASE Reactivate(a)
  <2>1. PICK d \in Deadlines : Write(a, [asg[a] EXCEPT
        !.revoked = FALSE,
        !.deadline = IF asg[a].status = "completed" THEN @ ELSE d,
        !.status = IF @ = "overdue" THEN "started" ELSE @])
    BY <1>6 DEF Reactivate
  <2> DEFINE no == FALSE
             s == [asg[a] EXCEPT !.revoked = no]
             t == [s EXCEPT !.deadline = IF asg[a].status = "completed" THEN s.deadline ELSE d]
             u == [t EXCEPT !.status = IF t.status = "overdue" THEN "started" ELSE t.status]
  <2>2. Write(a, u)
    BY <2>1
  <2>3. IsAssignment(s)
    <3> HIDE DEF no
    <3> QED
      BY <1>1, AssignmentExcept
  <2> HIDE DEF s
  <2>4. IsAssignment(t)
    BY <2>3, AssignmentExcept
  <2> HIDE DEF t
  <2>5. IsAssignment(u)
    <3> DEFINE v == IF t.status = "overdue" THEN "started" ELSE t.status
    <3>1. v \in {"pending", "started", "completed", "overdue"}
      BY <2>4 DEF IsAssignment
    <3> HIDE DEF v
    <3>2. IsAssignment([t EXCEPT !.status = v])
      BY <2>4, <3>1, AssignmentExcept
    <3> QED
      BY <3>2 DEF v
  <2> HIDE DEF u
  <2> QED
    BY <2>2, <2>5, WriteStep
<1> QED
  BY <1>2, <1>3, <1>4, <1>5, <1>6 DEF Writes

\* A step that queues nothing.
LEMMA BoxSame ==
  ASSUME OutboxInv, UNCHANGED <<rows, items>>
  PROVE  Keeps(Box, Box')
<1>1. Box' = Box
  BY DEF Box
<1> QED
  BY <1>1 DEF OutboxInv, Keeps, Kept

LEMMA WorldStep ==
  ASSUME OutboxInv, NEW a \in Assignments, ReachChanges(a) \/ ManagerChanges(a)
  PROVE  OutboxInv'
<1> DEFINE m == work.step = "send"
<1>1. /\ work' = [work EXCEPT !.moved = m]
      /\ UNCHANGED <<today, asg, rows, items, told, again, faults>>
      /\ manager' \in [Assignments -> Managers \cup {Nobody}]
  <2>1. CASE ReachChanges(a)
    BY <2>1 DEF ReachChanges, outcome, OutboxInv, Known, Clock
  <2>2. CASE ManagerChanges(a)
    BY <2>2 DEF ManagerChanges, outcome, OutboxInv, Known, Clock
  <2> QED
    BY <2>1, <2>2
<1>2. /\ IsCycle(work') /\ work'.step = work.step /\ work'.batch = work.batch /\ work'.key = work.key
      /\ work'.notices = work.notices /\ work'.moved = m
  <2> HIDE DEF m
  <2>1. IsCycle(work)
    BY DEF OutboxInv, Claimed, IsWork, IsCycle
  <2> QED
    BY <1>1, <2>1, CycleExcept DEF IsCycle
<1>3. SameHand
  BY <1>2 DEF SameHand, IsWork, IsCycle
<1>4. ProperBox(Box)' /\ Claimed' /\ Holding' /\ Credit'
  BY <1>1, <1>3, BoxSame, HandUndisturbed
<1>5. Known'
  BY <1>1 DEF OutboxInv, Known, Clock, AreAssignments
<1>6. Current'
  BY <1>2 DEF Current
<1> QED
  BY <1>4, <1>5, <1>6 DEF OutboxInv

LEMMA DayStep ==
  ASSUME OutboxInv, DayPasses \/ UNCHANGED outboxVars
  PROVE  OutboxInv'
<1>1. UNCHANGED <<asg, manager, reach, rows, items, work, told, again, faults>> /\ today' \in 0..MaxDays
  <2>1. CASE DayPasses
    BY <2>1, OutboxConstants DEF DayPasses, world, outcome, OutboxInv, Known, Clock
  <2>2. CASE UNCHANGED outboxVars
    BY <2>2 DEF outboxVars, OutboxInv, Known, Clock
  <2> QED
    BY <2>1, <2>2
<1>2. SameHand
  BY <1>1 DEF SameHand, OutboxInv, Claimed, IsWork
<1>3. ProperBox(Box)' /\ Claimed' /\ Holding' /\ Credit'
  BY <1>1, <1>2, BoxSame, HandUndisturbed
<1>4. Known'
  BY <1>1 DEF OutboxInv, Known, Clock, AreAssignments
<1>5. Current'
  BY <1>1 DEF OutboxInv, Current, Holds
<1> QED
  BY <1>3, <1>4, <1>5 DEF OutboxInv

\* The parts of a cycle that queue.
LEMMA QueueStep ==
  ASSUME OutboxInv, Migrate \/ MarkLate \/ QueueByCalendar
  PROVE  OutboxInv'
<1>1. PICK from \in {"idle", "overdue", "calendar"}, to \in {"overdue", "calendar", "claim"} : Advance(from, to)
  BY DEF Migrate, MarkLate, QueueByCalendar
<1>2. IsCycle(work') /\ work'.step = to /\ work'.batch = work.batch
  <2>1. IsCycle(work)
    BY DEF OutboxInv, Claimed, IsWork, IsCycle
  <2> QED
    BY <1>1, <2>1, CycleExcept DEF IsCycle, Advance
<1>3. SameHand /\ work'.step # "send"
  BY <1>1, <1>2 DEF SameHand, IsWork, IsCycle, InHand, Advance
<1>4. Keeps(Box, Box')
  BY KnownWorld, MigrateKeeps, MarkLateKeeps, QueueByCalendarKeeps DEF OutboxInv
<1>5. UNCHANGED <<told, again, faults, today, manager>>
  BY DEF Migrate, MarkLate, QueueByCalendar, world, outcome
<1>6. ProperBox(Box)' /\ Claimed' /\ Holding' /\ Credit'
  BY <1>3, <1>4, <1>5, HandUndisturbed
<1>7. AreAssignments(asg)'
  <2>1. AreAssignments(asg)
    BY DEF OutboxInv, Known
  <2>2. CASE Migrate \/ QueueByCalendar
    BY <2>1, <2>2 DEF Migrate, QueueByCalendar, world, AreAssignments
  <2>3. CASE MarkLate
    <3> DEFINE late == {a \in Assignments : asg[a].exists /\ reach[a] # "none"
                    /\ asg[a].status \in {"pending", "started"} /\ asg[a].deadline < today}
               marked == [a \in Assignments |-> IF a \in late THEN [asg[a] EXCEPT !.status = "overdue"]
                                         ELSE asg[a]]
    <3>1. asg' = marked
      BY <2>3 DEF MarkLate
    <3>2. \A a \in Assignments : IsAssignment(asg[a])
      BY <2>1 DEF AreAssignments
    <3>3. ASSUME NEW a \in Assignments PROVE IsAssignment([asg[a] EXCEPT !.status = "overdue"])
      <4>1. "overdue" \in {"pending", "started", "completed", "overdue"}
        OBVIOUS
      <4> QED
        BY <3>2, <4>1, AssignmentExcept
    <3>4. \A a \in Assignments : marked[a] = asg[a] \/ marked[a] = [asg[a] EXCEPT !.status = "overdue"]
      OBVIOUS
    <3>5. \A a \in Assignments : IsAssignment(marked[a])
      <4> HIDE DEF marked
      <4> TAKE a \in Assignments
      <4>1. CASE marked[a] = asg[a]
        BY <3>2, <4>1
      <4>2. CASE marked[a] = [asg[a] EXCEPT !.status = "overdue"]
        BY <3>3, <4>2
      <4> QED
        BY <3>4, <4>1, <4>2
    <3>6. marked = [a \in Assignments |-> marked[a]]
      OBVIOUS
    <3> HIDE DEF marked
    <3> QED
      BY <3>1, <3>5, <3>6 DEF AreAssignments
  <2> QED
    BY <2>2, <2>3
<1>8. Known'
  BY <1>5, <1>7 DEF OutboxInv, Known, Clock
<1>9. Current'
  BY <1>3 DEF Current
<1> QED
  BY <1>6, <1>8, <1>9 DEF OutboxInv

\* A batch is claimed, of open rows and of those that a dead cycle had claimed.
LEMMA ClaimStep ==
  ASSUME OutboxInv, Claim
  PROVE  OutboxInv'
<1> DEFINE due == {k \in DOMAIN rows : Due(k)}
           Taken(r) == [r EXCEPT !.status = "sending", !.attempts = @ + 1, !.locked = today]
<1>1. PICK batch \in SUBSET due :
        /\ rows' = [k \in DOMAIN rows |-> IF k \in batch THEN Taken(rows[k]) ELSE rows[k]]
        /\ work' = IF batch = {} THEN Idle ELSE [Idle EXCEPT !.step = "check", !.batch = batch]
  BY DEF Claim, kSubset
<1>2. work.step = "claim" /\ UNCHANGED <<today, asg, manager, reach, items, told, again, faults>>
  BY DEF Claim, world, outcome
<1>3. \A k \in batch : k \in DOMAIN rows /\ rows[k].status \in Open \cup {"sending"} /\ rows[k].attempts < MaxAttempts
  BY DEF Due
<1>4. today \in Int
  BY DEF OutboxInv, Known, Clock
<1>5. ASSUME NEW r \in Message, r.attempts < MaxAttempts
      PROVE  Taken(r) \in Message /\ Taken(r).status = "sending" /\ Taken(r).attempts > 0
  BY <1>4, <1>5, ClaimedRow
<1>6. \A k \in DOMAIN rows : rows[k] \in Message /\ (OwnKey(k) \/ DigestKey(k))
  BY BoxIs DEF OutboxInv, ProperBox, ProperRows
<1> HIDE DEF Taken, due
<1>7. /\ DOMAIN rows' = DOMAIN rows
      /\ \A k \in DOMAIN rows : \/ k \notin batch /\ rows'[k] = rows[k]
                                \/ /\ k \in batch /\ rows'[k] \in Message
                                   /\ rows'[k].status = "sending" /\ rows'[k].attempts > 0
                                   /\ rows[k].status \in Open \cup {"sending"}
  BY <1>1, <1>3, <1>5, <1>6
<1>8. SentStays
  BY <1>2, <1>7 DEF SentStays, Open
<1>9. /\ IsBox(Box') /\ Box'.rows = rows' /\ Box'.items = items
      /\ IsBox(Box) /\ Box.rows = rows /\ Box.items = items
  BY <1>2 DEF Box, IsBox
<1>10. ProperRows(Box)'
  <2>1. ProperRows(Box)
    BY DEF OutboxInv, ProperBox
  <2> QED
    BY <1>7, <1>9, <2>1 DEF ProperRows
<1>11. ProperItems(Box)'
  <2>1. ProperItems(Box)
    BY DEF OutboxInv, ProperBox
  <2> QED
    BY <1>7, <1>9, <2>1 DEF ProperItems
<1>12. Single(Box)'
  <2>1. Single(Box) /\ ProperItems(Box)
    BY DEF OutboxInv, ProperBox
  <2>2. \A i \in items : i.key \in DOMAIN rows /\ (rows'[i.key].status # "cancelled" => rows[i.key].status # "cancelled")
    BY <1>7, <1>9, <2>1 DEF ProperItems, Open
  <2> QED
    BY <1>9, <2>1, <2>2 DEF Single
<1>13. ProperBox(Box)'
  BY <1>9, <1>10, <1>11, <1>12 DEF ProperBox
<1>14. IsCycle(work') /\ work'.step \in {"idle", "check"} /\ work'.batch = batch
  <2>1. CASE batch = {}
    BY <1>1, <2>1, IdleIs
  <2>2. CASE batch # {}
    <3> DEFINE i == [Idle EXCEPT !.step = "check"]
    <3>1. work' = [i EXCEPT !.batch = batch]
      BY <1>1, <2>2
    <3>2. IsCycle(i) /\ i.step = "check"
      BY IdleIs, CycleExcept DEF IsCycle
    <3> HIDE DEF i
    <3>3. IsCycle(work') /\ work'.step = i.step /\ work'.batch = batch
      BY <3>1, <3>2, CycleExcept DEF IsCycle
    <3> QED
      BY <3>2, <3>3
  <2> QED
    BY <2>1, <2>2
<1>15. Claimed'
  BY <1>3, <1>7, <1>14 DEF Claimed, IsWork, IsCycle
<1>16. Holding' /\ Current'
  BY <1>14 DEF Holding, Current, InHand
<1>17. Credit'
  BY <1>2, <1>8, CreditStays
<1>18. Known'
  BY <1>2 DEF OutboxInv, Known, Clock, AreAssignments
<1> QED
  BY <1>13, <1>15, <1>16, <1>17, <1>18 DEF OutboxInv

\* A message is checked: it tells what is so.
LEMMA CheckStep ==
  ASSUME OutboxInv, NEW k \in work.batch, Check(k)
  PROVE  OutboxInv'
<1>1. UNCHANGED <<today, asg, manager, reach, rows, items, told, again, faults>> /\ work.step = "check"
  BY DEF Check, world, outcome
<1> DEFINE no == FALSE
           N == NoticesOf(k)
           s == [work EXCEPT !.step = "send"]
           t == [s EXCEPT !.key = k]
           u == [t EXCEPT !.notices = N]
           v == [u EXCEPT !.moved = no]
<1>2. work' = v
  BY DEF Check
<1>3. IsCycle(work)
  BY DEF OutboxInv, Claimed, IsWork, IsCycle
<1>4. IsFiniteSet(N) /\ Cardinality(N) <= Cardinality(Assignments) /\ \A n \in N : Names(k, n) /\ Holds(n)
  BY NoticesAre
<1> HIDE DEF N, no
<1>5. IsCycle(s) /\ s.step = "send" /\ s.batch = work.batch
  <2>1. s = [step |-> "send", batch |-> work.batch, key |-> work.key, notices |-> work.notices, moved |-> work.moved]
    BY <1>3, CycleExcept
  <2> HIDE DEF s
  <2> QED
    BY <1>3, <2>1 DEF IsCycle
<1> HIDE DEF s
<1>6. IsCycle(t) /\ t.step = "send" /\ t.batch = work.batch /\ t.key = k
  <2>1. t = [step |-> s.step, batch |-> s.batch, key |-> k, notices |-> s.notices, moved |-> s.moved]
    BY <1>5, CycleExcept
  <2> HIDE DEF t
  <2> QED
    BY <1>5, <2>1 DEF IsCycle
<1> HIDE DEF t
<1>7. IsCycle(u) /\ u.step = "send" /\ u.batch = work.batch /\ u.key = k /\ u.notices = N
  <2>1. u = [step |-> t.step, batch |-> t.batch, key |-> t.key, notices |-> N, moved |-> t.moved]
    BY <1>6, CycleExcept
  <2> HIDE DEF u
  <2> QED
    BY <1>6, <2>1 DEF IsCycle
<1> HIDE DEF u
<1>8. IsCycle(v) /\ v.step = "send" /\ v.batch = work.batch /\ v.key = k /\ v.notices = N
  <2>1. v = [step |-> u.step, batch |-> u.batch, key |-> u.key, notices |-> u.notices, moved |-> no]
    BY <1>7, CycleExcept
  <2> HIDE DEF v
  <2> QED
    BY <1>7, <2>1 DEF IsCycle
<1> HIDE DEF v
<1>9. Claimed'
  BY <1>1, <1>2, <1>8 DEF OutboxInv, Claimed, IsWork, IsCycle
<1>10. Holding'
  <2>1. \A n \in N : Names(k, n)'
    BY <1>1, <1>4 DEF Names
  <2>2. work'.key = k /\ work'.notices = N /\ work'.batch = work.batch
    BY <1>2, <1>8
  <2> QED
    BY <1>4, <2>1, <2>2 DEF Holding
<1>11. Current'
  BY <1>1, <1>2, <1>4, <1>8 DEF Current, Holds
<1>12. SentStays
  BY <1>1 DEF SentStays
<1>13. Credit'
  BY <1>1, <1>12, CreditStays
<1>14. ProperBox(Box)'
  BY <1>1, BoxSame DEF Keeps
<1>15. Known'
  BY <1>1 DEF OutboxInv, Known, Clock, AreAssignments
<1> QED
  BY <1>9, <1>10, <1>11, <1>13, <1>14, <1>15 DEF OutboxInv

\* It is sent.
LEMMA AcceptStep ==
  ASSUME OutboxInv, Accept
  PROVE  OutboxInv'
<1>1. UNCHANGED <<today, asg, manager, reach, rows, items, faults>> /\ Deliver
      /\ work.step = "send" /\ work' = [work EXCEPT !.step = "record"]
  BY DEF Accept, world, Advance
<1>2. /\ IsCycle(work') /\ work'.step = "record" /\ work'.batch = work.batch /\ work'.key = work.key
      /\ work'.notices = work.notices
  <2>1. IsCycle(work)
    BY DEF OutboxInv, Claimed, IsWork, IsCycle
  <2> QED
    BY <1>1, <2>1, CycleExcept DEF IsCycle
<1>3. Claimed'
  BY <1>1, <1>2 DEF OutboxInv, Claimed, IsWork, IsCycle
<1>4. Holding'
  <2>1. Holding /\ InHand
    BY <1>1 DEF OutboxInv, InHand
  <2>2. \A n \in work.notices : Names(work.key, n)'
    <3> TAKE n \in work.notices
    <3>1. Names(work.key, n)
      BY <2>1 DEF Holding
    <3> QED
      BY <1>1, <1>2, <3>1 DEF Names
  <2> QED
    BY <1>2, <2>1, <2>2 DEF Holding
<1>5. Current'
  BY <1>2 DEF Current
<1>6. SentStays
  BY <1>1 DEF SentStays
<1>7. Credit'
  BY <1>1, <1>2, <1>6, CreditAccepted
<1>8. ProperBox(Box)'
  BY <1>1, BoxSame DEF Keeps
<1>9. Known'
  BY <1>1 DEF OutboxInv, Known, Clock, AreAssignments
<1> QED
  BY <1>3, <1>4, <1>5, <1>7, <1>8, <1>9 DEF OutboxInv

\* Its row is settled: cancelled, sent, or put off.
LEMMA SettleStep ==
  ASSUME OutboxInv, (\E k \in work.batch : CancelStale(k)) \/ MarkSent \/ Refuse \/ AcceptSilently
  PROVE  OutboxInv'
<1>1. today \in Int
  BY DEF OutboxInv, Known, Clock
<1>2. UNCHANGED <<today, asg, manager, reach, items>>
  BY DEF CancelStale, MarkSent, Refuse, AcceptSilently, world
<1>3. Known'
  BY <1>2 DEF OutboxInv, Known, Clock, AreAssignments
<1>4. work.step \in {"send", "record"} => work.key \in work.batch
  BY DEF OutboxInv, Holding, InHand
<1>5. \A k \in work.batch : k \in DOMAIN rows /\ rows[k] \in Message
  BY BoxIs DEF OutboxInv, Claimed, ProperBox, ProperRows
<1>6. CASE \E k \in work.batch : CancelStale(k)
  <2>1. PICK k \in work.batch : CancelStale(k)
    BY <1>6
  <2> DEFINE message == Final("cancelled", 0)
  <2>2. message \in Message /\ message.status = "cancelled"
    BY FinalType
  <2>3. Settle(k, message) /\ work' = Rest(k) /\ work.step = "check" /\ UNCHANGED <<told, again, faults>>
    BY <2>1 DEF CancelStale, outcome
  <2> HIDE DEF message
  <2>4. ProperBox(Box)' /\ Claimed' /\ Holding' /\ Current' /\ SentStays
    BY <1>2, <2>2, <2>3, RowSettled
  <2>5. Credit'
    BY <2>3, <2>4, CreditStays
  <2> QED
    BY <1>3, <2>4, <2>5 DEF OutboxInv
<1>7. CASE MarkSent
  <2> DEFINE k == work.key
             message == Final("sent", IF k.kind = "digest" THEN today ELSE 0)
  <2>1. message \in Message /\ message.status = "sent"
    BY <1>1, FinalType
  <2>2. Settle(k, message) /\ work' = Rest(k) /\ work.step = "record" /\ UNCHANGED <<told, again, faults>>
    BY <1>7 DEF MarkSent, outcome
  <2>3. \A n \in work.notices : Names(k, n)
    BY <2>2 DEF OutboxInv, Holding, InHand
  <2>4. k \in work.batch
    BY <1>4, <2>2
  <2> HIDE DEF message
  <2>5. ProperBox(Box)' /\ Claimed' /\ Holding' /\ Current' /\ SentStays /\ k \in DOMAIN rows' /\ rows'[k] = message
    <3> HIDE DEF k
    <3> QED
      BY <1>2, <2>1, <2>2, <2>4, RowSettled
  <2>6. \A n \in work.notices : Recorded(n)'
    <3> TAKE n \in work.notices
    <3>1. PICK l : l = k
      OBVIOUS
    <3>2. l \in DOMAIN rows' /\ rows'[l].status = "sent" /\ Names(l, n)
      BY <2>1, <2>3, <2>5, <3>1
    <3>3. Names(l, n)'
      BY <1>2, <3>2 DEF Names
    <3> QED
      BY <3>2, <3>3 DEF Recorded
  <2>7. Credit'
    BY <2>2, <2>5, <2>6, CreditStays
  <2> QED
    BY <1>3, <2>5, <2>7 DEF OutboxInv
<1>8. CASE Refuse \/ AcceptSilently
  <2> DEFINE k == work.key
             message == Failed(rows[k])
  <2>1. Settle(k, message) /\ work' = Rest(k) /\ work.step = "send" /\ OneMore
    BY <1>8 DEF Refuse, AcceptSilently, OneMore
  <2>2. k \in work.batch
    BY <1>4, <2>1
  <2>3. message \in Message /\ (message.status = "failed" => message.attempts = MaxAttempts)
    BY <1>1, <1>5, <2>2, FailedType
  <2> HIDE DEF message, k
  <2>4. ProperBox(Box)' /\ Claimed' /\ Holding' /\ Current' /\ SentStays
    BY <1>2, <2>1, <2>2, <2>3, RowSettled
  <2>5. Credit'
    <3>1. CASE Refuse
      <4>1. UNCHANGED <<told, again>>
        BY <3>1 DEF Refuse, outcome
      <4> QED
        BY <2>1, <2>4, <4>1, CreditSpent
    <3>2. CASE AcceptSilently
      <4>1. Deliver
        BY <3>2 DEF AcceptSilently
      <4> QED
        BY <2>1, <2>4, <4>1, CreditDoubtful
    <3> QED
      BY <1>8, <3>1, <3>2
  <2> QED
    BY <1>3, <2>4, <2>5 DEF OutboxInv
<1> QED
  BY <1>6, <1>7, <1>8

LEMMA CrashStep ==
  ASSUME OutboxInv, CycleDies
  PROVE  OutboxInv'
<1>1. UNCHANGED <<today, asg, manager, reach, rows, items, told, again>> /\ OneMore /\ work' = Idle
  BY DEF CycleDies, world, outcome, OneMore
<1>2. Claimed' /\ Holding' /\ Current'
  BY <1>1, IdleIs DEF Claimed, Holding, Current, InHand, IsWork, IsCycle
<1>3. SentStays
  BY <1>1 DEF SentStays
<1>4. Credit'
  BY <1>1, <1>3, CreditSpent
<1>5. ProperBox(Box)'
  BY <1>1, BoxSame DEF Keeps
<1>6. Known'
  BY <1>1 DEF OutboxInv, Known, Clock, AreAssignments
<1> QED
  BY <1>2, <1>4, <1>5, <1>6 DEF OutboxInv

LEMMA OutboxStarts == OutboxInit => OutboxInv
<1> SUFFICES ASSUME OutboxInit PROVE OutboxInv
  OBVIOUS
<1>1. today = 0 /\ manager \in [Assignments -> Managers] /\ items = {} /\ work = Idle
      /\ told = {} /\ again = 0 /\ faults = 0
  BY DEF OutboxInit
<1> DEFINE yes == TRUE
           d == Min(Deadlines)
           r == [NoAssignment EXCEPT !.exists = yes]
           s == [r EXCEPT !.deadline = d]
           t == [s EXCEPT !.revoked = yes]
           none == [a \in Assignments |-> NoAssignment]
<1>2. \/ asg = none /\ rows = <<>>
      \/ \E a \in Assignments : /\ asg = [none EXCEPT ![a] = s]
                                /\ \E message \in {Final("sent", 0), NewMessage(0)} : rows = [k \in {Legacy(a)} |-> message]
      \/ \E a \in Assignments : asg = [none EXCEPT ![a] = t] /\ rows = <<>>
  <2>1. s = [NoAssignment EXCEPT !.exists = TRUE, !.deadline = Min(Deadlines)]
        /\ t = [NoAssignment EXCEPT !.exists = TRUE, !.deadline = Min(Deadlines), !.revoked = TRUE]
    OBVIOUS
  <2> HIDE DEF s, t
  <2> QED
    BY <2>1 DEF OutboxInit
<1>3. AreAssignments(asg)
  <2>1. IsAssignment(r)
    <3> HIDE DEF yes
    <3> QED
      BY NoAssignmentIs, AssignmentExcept
  <2> HIDE DEF r
  <2>2. IsAssignment(s)
    <3> HIDE DEF d
    <3> QED
      BY <2>1, AssignmentExcept
  <2> HIDE DEF s
  <2>3. IsAssignment(t)
    <3> HIDE DEF yes
    <3> QED
      BY <2>2, AssignmentExcept
  <2> HIDE DEF t
  <2> QED
    BY <1>2, <2>2, <2>3, NoAssignmentIs DEF AreAssignments
<1> HIDE DEF s, t, none, r
<1>4. Known
  BY <1>1, <1>3, OutboxConstants DEF Known, Clock
<1>5. ProperRows(Box)
  <2>1. CASE rows = <<>>
    <3>1. DOMAIN rows = {}
      BY <2>1
    <3> QED
      BY <3>1, BoxIs, FS_EmptySet DEF ProperRows
  <2>2. CASE \E a \in Assignments : \E message \in {Final("sent", 0), NewMessage(0)} : rows = [k \in {Legacy(a)} |-> message]
    <3>1. PICK a \in Assignments, message \in {Final("sent", 0), NewMessage(0)} : rows = [k \in {Legacy(a)} |-> message]
      BY <2>2
    <3>2. DOMAIN rows = {Legacy(a)} /\ rows[Legacy(a)] = message
      BY <3>1
    <3>3. message \in Message /\ message.status # "failed"
      BY FinalType, NewMessageType
    <3>4. OwnKey(Legacy(a))
      BY DEF OwnKey, Legacy, Individual, Events, Period
    <3>5. IsFiniteSet(DOMAIN rows)
      BY <3>2, FS_Singleton
    <3> QED
      BY <3>2, <3>3, <3>4, <3>5, BoxIs DEF ProperRows
  <2> QED
    BY <1>2, <2>1, <2>2
<1>6. ProperBox(Box)
  BY <1>1, <1>5, BoxIs, FS_EmptySet DEF ProperBox, ProperItems, Single
<1>7. Claimed /\ Holding /\ Current
  BY <1>1, IdleIs DEF Claimed, Holding, Current, InHand, IsWork, IsCycle
<1>8. Credit
  <2>1. Doubt = {}
    BY <1>1 DEF Doubt
  <2>2. Cardinality(Doubt) = 0 /\ IsFiniteSet(told) /\ Cardinality(Assignments) \in Nat
    BY <1>1, <2>1, OutboxConstants, FS_EmptySet, FS_CardinalityType
  <2> QED
    BY <1>1, <2>2 DEF Credit
<1> QED
  BY <1>4, <1>6, <1>7, <1>8 DEF OutboxInv

LEMMA OutboxStep == OutboxInv /\ [OutboxNext]_outboxVars => OutboxInv'
<1> SUFFICES ASSUME OutboxInv, [OutboxNext]_outboxVars PROVE OutboxInv'
  OBVIOUS
<1>1. CASE \E a \in Assignments : Writes(a)
  BY <1>1, AssignmentStep
<1>2. CASE \E a \in Assignments : ReachChanges(a) \/ ManagerChanges(a)
  BY <1>2, WorldStep
<1>3. CASE DayPasses \/ UNCHANGED outboxVars
  BY <1>3, DayStep
<1>4. CASE Cycle
  BY <1>4, QueueStep, ClaimStep, CheckStep, AcceptStep, SettleStep DEF Cycle
<1>5. CASE Refuse \/ AcceptSilently
  BY <1>5, SettleStep
<1>6. CASE CycleDies
  BY <1>6, CrashStep
<1> QED
  BY <1>1, <1>2, <1>3, <1>4, <1>5, <1>6 DEF OutboxNext, Writes

LEMMA OutboxAlways == OutboxSpec => []OutboxInv
  BY OutboxStarts, OutboxStep, PTL DEF OutboxSpec

\* The states of rows and attempts are as the type invariant says, an item is of a digest
\* that exists, and what the cycle has in its batch is being sent.
THEOREM OutboxTypeCorrect == OutboxSpec => []OutboxTypeOK
<1>1. OutboxInv => OutboxTypeOK
  <2> SUFFICES ASSUME OutboxInv PROVE OutboxTypeOK
    OBVIOUS
  <2>1. today \in 0..MaxDays /\ \A a \in Assignments : asg[a].status \in {"pending", "started", "completed", "overdue"}
    BY DEF OutboxInv, Known, Clock, AreAssignments, IsAssignment
  <2>2. \A k \in DOMAIN rows : rows[k] \in Message /\ (rows[k].status = "failed" => rows[k].attempts = MaxAttempts)
    BY BoxIs DEF OutboxInv, ProperBox, ProperRows
  <2>3. \A i \in items : i.key \in DOMAIN rows
    BY BoxIs DEF OutboxInv, ProperBox, ProperItems
  <2>4. \A k \in work.batch : rows[k].status = "sending" /\ rows[k].attempts > 0
    BY DEF OutboxInv, Claimed
  <2> QED
    BY <2>1, <2>2, <2>3, <2>4 DEF OutboxTypeOK, Message
<1> QED
  BY <1>1, OutboxAlways, PTL

\* Nobody is told the same thing twice, unless a fault came between the sending and its
\* record (services/email_notifications.py, process_pending_notifications); then once more for each.
THEOREM ToldOnceAlways == OutboxSpec => []ToldOnce
<1>1. OutboxInv => ToldOnce
  <2> SUFFICES ASSUME OutboxInv PROVE ToldOnce
    OBVIOUS
  <2>1. Cardinality(Doubt) \in Nat /\ Cardinality(Assignments) \in Nat
    BY DoubtType, OutboxConstants, FS_CardinalityType DEF OutboxInv
  <2>2. faults * Cardinality(Assignments) \in Nat
    BY <2>1 DEF OutboxInv, Credit
  <2>3. again \in Nat /\ again + Cardinality(Doubt) <= faults * Cardinality(Assignments)
    BY DEF OutboxInv, Credit
  <2>4. again <= faults * Cardinality(Assignments)
    BY <2>1, <2>2, <2>3
  <2> QED
    BY <2>4 DEF ToldOnce
<1> QED
  BY <1>1, OutboxAlways, PTL

\* What recipients are told is so: the lifecycle is the assignment's, it is not withdrawn,
\* the course still reaches the employee, unless an assignment changed while it was sent.
THEOREM ToldIsAlwaysCurrent == OutboxSpec => ToldIsCurrent
<1> DEFINE Said == \A n \in told' \ told : work.moved \/
              /\ asg[n.a].life = n.life /\ ~asg[n.a].revoked /\ reach[n.a] = "rule"
              /\ n.event = "completed" <=> asg[n.a].status = "completed"
<1>1. OutboxInv /\ [OutboxNext]_outboxVars => [Said]_outboxVars
  <2> SUFFICES ASSUME OutboxInv, OutboxNext PROVE Said
    OBVIOUS
  <2>1. CASE Accept \/ AcceptSilently
    <3>1. told' = told \cup work.notices /\ work.step = "send"
      BY <2>1 DEF Accept, AcceptSilently, Deliver, Advance
    <3>2. work.moved \/ \A n \in work.notices : Holds(n)
      BY <3>1 DEF OutboxInv, Current
    <3> QED
      BY <3>1, <3>2 DEF Holds
  <2>2. CASE ~(Accept \/ AcceptSilently)
    <3>1. told' = told
      <4>1. CASE \E a \in Assignments : Writes(a) \/ ReachChanges(a) \/ ManagerChanges(a)
        <5>1. PICK a \in Assignments : Writes(a) \/ ReachChanges(a) \/ ManagerChanges(a)
          BY <4>1
        <5>2. CASE Writes(a)
          <6>1. \E new : Write(a, new)
            BY <5>2 DEF Writes, Assign, Start, CompleteCourse, FoundLate, MoveDeadline, Revoke, Reactivate
          <6> QED
            BY <6>1 DEF Write, outcome
        <5>3. CASE ReachChanges(a) \/ ManagerChanges(a)
          BY <5>3 DEF ReachChanges, ManagerChanges, outcome
        <5> QED
          BY <5>1, <5>2, <5>3
      <4>2. CASE Cycle
        <5>1. CASE Migrate \/ MarkLate \/ QueueByCalendar
          BY <5>1 DEF Migrate, MarkLate, QueueByCalendar, outcome
        <5>2. CASE Claim
          BY <5>2 DEF Claim, outcome
        <5>3. CASE \E k \in work.batch : CancelStale(k) \/ Check(k)
          BY <5>3 DEF CancelStale, Check, outcome
        <5>4. CASE MarkSent
          BY <5>4 DEF MarkSent, outcome
        <5> QED
          BY <2>2, <4>2, <5>1, <5>2, <5>3, <5>4 DEF Cycle
      <4>3. CASE DayPasses \/ Refuse \/ CycleDies
        BY <4>3 DEF DayPasses, Refuse, CycleDies, outcome
      <4> QED
        BY <2>2, <4>1, <4>2, <4>3 DEF OutboxNext, Writes
    <3> QED
      BY <3>1
  <2> QED
    BY <2>1, <2>2
<1> QED
  BY <1>1, OutboxAlways, PTL DEF OutboxSpec, ToldIsCurrent
=============================================================================
