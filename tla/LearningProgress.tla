-------------------------- MODULE LearningProgress --------------------------
(***************************************************************************)
(* One employee's assignment of one course: its course_assignments row and *)
(* its module_progress rows (repositories/progress.py), written by the     *)
(* learner's requests and the dashboard (services/learning.py), by the     *)
(* reconciliation of assignments and the trainer's Publish and Disable     *)
(* (services/assignments.py) and by the scheduler that marks assignments   *)
(* overdue (services/email_notifications.py).                              *)
(*                                                                         *)
(* Learner requests, reconciliation and the trainer read and write inside  *)
(* course_transaction, which locks the course's row: `txn` is the record   *)
(* that the open transaction will save.  The scheduler takes no such lock. *)
(* The dashboard reads without it and locks only while it saves.           *)
(***************************************************************************)
EXTENDS Naturals, FiniteSets, FiniteSetsExt

CONSTANTS
    Modules,
    QuizModules,    \* those that have a quiz
    Pages,          \* dashboards that are loaded concurrently
    StatusRequests, \* what the learner's client may ask of PUT .../status
    Days,           \* the longest deadline
    MaxTime,        \* bound: the clock
    MaxChanges      \* bound: acts of the trainer and the directory

ASSUME LearningAssumption ==
    /\ IsFiniteSet(Modules) /\ Modules # {} /\ QuizModules \subseteq Modules
    /\ StatusRequests \subseteq {"pending", "started", "completed", "overdue"}
    /\ {Days, MaxTime} \subseteq Nat \ {0} /\ MaxChanges \in Nat

VARIABLES
    now,
    ruleActive,     \* the course is published and its rule is active
    matches,        \* the rule, or a journey, covers the employee
    row,            \* the assignment with its module_progress
    txn,            \* the transaction that holds the course's row
    page,           \* a dashboard's snapshot
    changes

vars == <<now, ruleActive, matches, row, txn, page, changes>>

Access == ruleActive /\ matches

\* tracked: modules that have a module_progress row.
NoRow == [exists |-> FALSE, status |-> "pending", deadline |-> 0, started |-> FALSE,
          completedAt |-> 0, revokedAt |-> 0, tracked |-> {}, watched |-> {}, passed |-> {}]
NewRow(deadline) == [NoRow EXCEPT !.exists = TRUE, !.deadline = deadline]

NoTxn == [open |-> FALSE, row |-> NoRow, active |-> FALSE]
NoPage == [phase |-> "closed", row |-> NoRow]

Init ==
    /\ now = 1
    /\ ruleActive \in BOOLEAN /\ matches \in BOOLEAN
    /\ row = NoRow
    /\ txn = NoTxn
    /\ page = [p \in Pages |-> NoPage]
    /\ changes = 0
-----------------------------------------------------------------------------
\* save_employee_course_progress: all columns of the assignment, and the
\* module rows that the record has.
Saved(rec) == [rec EXCEPT
    !.exists = TRUE,
    !.tracked = row.tracked \cup rec.tracked,
    !.watched = (row.watched \ rec.tracked) \cup rec.watched,
    !.passed = (row.passed \ rec.tracked) \cup rec.passed]

Begin(rec, active) ==
    /\ ~txn.open
    /\ txn' = [open |-> TRUE, row |-> rec, active |-> active]

Commit ==
    /\ txn.open
    /\ row' = Saved(txn.row)
    /\ ruleActive' = txn.active
    /\ txn' = NoTxn
    /\ UNCHANGED <<now, matches, page, changes>>

\* Mutant of IsComplete: the quiz alone counts.
IsCompleteByQuiz(rec, m) == m \in rec.passed \/ (m \notin QuizModules /\ m \in rec.watched)

\* _module_is_complete
IsComplete(rec, m) == m \in rec.watched /\ (m \in QuizModules => m \in rec.passed)
AllComplete(rec) == \A m \in Modules : IsComplete(rec, m)
-----------------------------------------------------------------------------
(* The learner.  _assigned_progress_for_employee admits whoever has access. *)

Admitted == row.exists /\ row.revokedAt = 0 /\ Access

Watched(rec, m, video) ==
    [rec EXCEPT !.watched = CASE video = "yes" -> @ \cup {m}
                              [] video = "no" -> @ \ {m}
                              [] video = "absent" -> @]

\* A failed quiz has the video watched again.
Graded(rec, m, quiz) ==
    CASE quiz = "pass" -> [rec EXCEPT !.passed = @ \cup {m}]
      [] quiz = "fail" -> [rec EXCEPT !.passed = @ \ {m}, !.watched = @ \ {m}]
      [] quiz = "absent" -> rec

Completed(rec) == [rec EXCEPT !.status = "completed", !.completedAt = now]

UpdateModule(m, video, quiz) ==
    LET began == [row EXCEPT !.status = IF @ = "pending" THEN "started" ELSE @,
                             !.started = @ \/ row.status = "pending",
                             !.tracked = @ \cup {m}]
        watched == Watched(began, m, video)
        graded == Graded(watched, m, quiz)
    IN  /\ Admitted
        /\ ~(video = "absent" /\ quiz = "absent")
        /\ quiz # "absent" => m \in QuizModules /\ m \in watched.watched
        /\ Begin(IF AllComplete(graded) THEN Completed(graded) ELSE graded, ruleActive)
        /\ UNCHANGED <<now, ruleActive, matches, row, page, changes>>

UpdateStatus(status) ==
    LET asked == [row EXCEPT !.status = status, !.started = @ \/ status = "started"] IN
    /\ Admitted
    /\ row.status = "completed" => status = "completed"
    /\ status = "completed" => AllComplete(row)
    /\ Begin(IF status = "completed" THEN Completed(asked) ELSE asked, ruleActive)
    /\ UNCHANGED <<now, ruleActive, matches, row, page, changes>>
-----------------------------------------------------------------------------
(* The dashboard: get_enriched_employee_courses.                            *)

\* get_employee_progress: the assignments first, their modules next.
ReadAssignment(p) ==
    /\ page[p].phase = "closed" /\ row.exists
    /\ page' = [page EXCEPT ![p] = [phase |-> "assignment",
            row |-> [row EXCEPT !.tracked = {}, !.watched = {}, !.passed = {}]]]
    /\ UNCHANGED <<now, ruleActive, matches, row, txn, changes>>

ReadModules(p) ==
    /\ page[p].phase = "assignment"
    /\ page' = [page EXCEPT ![p] = [phase |-> "read",
            row |-> [@.row EXCEPT !.tracked = row.tracked, !.watched = row.watched,
                                  !.passed = row.passed]]]
    /\ UNCHANGED <<now, ruleActive, matches, row, txn, changes>>

PageIsLate(p) ==
    /\ Access /\ page[p].row.revokedAt = 0
    /\ page[p].row.status \in {"pending", "started"}
    /\ now > page[p].row.deadline

PageLate(p) ==
    /\ page[p].phase = "read"
    /\ PageIsLate(p)
    /\ page' = [page EXCEPT ![p].phase = "late"]
    /\ UNCHANGED <<now, ruleActive, matches, row, txn, changes>>

\* An assignment that the snapshot shows past its deadline is saved as overdue.
SaveOverdue(p) ==
    /\ page[p].phase = "late"
    /\ ~txn.open
    /\ row' = Saved([page[p].row EXCEPT !.status = "overdue"])
    /\ page' = [page EXCEPT ![p] = NoPage]
    /\ UNCHANGED <<now, ruleActive, matches, txn, changes>>

ShowPage(p) ==
    /\ page[p].phase = "read"
    /\ ~PageIsLate(p)
    /\ page' = [page EXCEPT ![p] = NoPage]
    /\ UNCHANGED <<now, ruleActive, matches, row, txn, changes>>
-----------------------------------------------------------------------------
(* Assignment.                                                              *)

\* _revoked_progress: "Learning status is independent of access; keep
\* completed results intact."
Revoked(rec) == [rec EXCEPT !.revokedAt = now]

\* _status_for_reactivation
StatusForReactivation(rec) ==
    IF rec.completedAt # 0 \/ rec.status = "completed" THEN "completed"
    ELSE IF rec.started \/ rec.tracked # {}
    THEN IF now > rec.deadline THEN "overdue" ELSE "started"
    ELSE "pending"

\* _reactivated_progress: the time that was left, or the rule's fixed date.
Reactivated(rec, fixed) ==
    LET left == Max({rec.deadline, rec.revokedAt}) - rec.revokedAt
        deadline == IF rec.status = "completed" THEN rec.deadline
                    ELSE IF fixed # 0 THEN fixed ELSE now + left
        next == [rec EXCEPT !.deadline = deadline, !.revokedAt = 0]
    IN  [next EXCEPT !.status = StatusForReactivation(next)]

FixedDates == (now + 1)..(now + Days)

\* Mutant of Reconcile: access is given and never withdrawn.
ReconcileGrantsOnly ==
    /\ Access /\ (~row.exists \/ row.revokedAt # 0)
    /\ \E fixed \in FixedDates \cup {0} :
        Begin(IF row.exists THEN Reactivated(row, fixed) ELSE NewRow(now + Days), ruleActive)
    /\ UNCHANGED <<now, ruleActive, matches, row, page, changes>>

\* reconcile_assignments_for_employee, one of its transactions.
Reconcile ==
    /\ \/ /\ ~Access /\ row.exists /\ row.revokedAt = 0
          /\ Begin(Revoked(row), ruleActive)
       \/ /\ Access /\ ~row.exists
          /\ \E deadline \in FixedDates : Begin(NewRow(deadline), ruleActive)
       \/ /\ Access /\ row.exists /\ row.revokedAt # 0
          /\ \E fixed \in FixedDates \cup {0} : Begin(Reactivated(row, fixed), ruleActive)
    /\ UNCHANGED <<now, ruleActive, matches, row, page, changes>>

\* api_publish_course_assignment for this employee; deadline = 0: unchanged.
Publish(deadline) ==
    /\ changes < MaxChanges /\ changes' = changes + 1
    /\ \/ ~matches /\ row.exists /\ row.revokedAt = 0 /\ Begin(Revoked(row), TRUE)
       \/ matches /\ row.exists /\ row.revokedAt # 0 /\ Begin(Reactivated(row, deadline), TRUE)
       \/ /\ matches /\ row.exists /\ row.revokedAt = 0
          /\ deadline # 0 /\ row.status # "completed"
          /\ Begin([row EXCEPT !.deadline = deadline], TRUE)
       \/ /\ matches /\ ~row.exists
          /\ Begin(NewRow(IF deadline # 0 THEN deadline ELSE now + Days), TRUE)
    /\ UNCHANGED <<now, ruleActive, matches, row, page>>

\* api_disable_course_assignment
Disable ==
    /\ changes < MaxChanges /\ changes' = changes + 1
    /\ ruleActive /\ row.exists /\ row.revokedAt = 0
    /\ Begin(Revoked(row), FALSE)
    /\ UNCHANGED <<now, ruleActive, matches, row, page>>

\* The directory, the rule's groups or a journey change whom they cover.
MatchChanges ==
    /\ changes < MaxChanges /\ changes' = changes + 1
    /\ matches' = ~matches
    /\ UNCHANGED <<now, ruleActive, row, txn, page>>
-----------------------------------------------------------------------------
\* Mutant of MarkOverdue: an assignment nobody has opened is left alone.
MarkStartedOverdue ==
    /\ row.exists /\ ruleActive
    /\ row.status = "started" /\ row.deadline < now
    /\ row' = [row EXCEPT !.status = "overdue"]
    /\ UNCHANGED <<now, ruleActive, matches, txn, page, changes>>

\* enqueue_overdue_notifications: one UPDATE, also of revoked assignments.
MarkOverdue ==
    /\ row.exists /\ ruleActive
    /\ row.status \in {"pending", "started"} /\ row.deadline < now
    /\ row' = [row EXCEPT !.status = "overdue"]
    /\ UNCHANGED <<now, ruleActive, matches, txn, page, changes>>

Tick ==
    /\ now < MaxTime
    /\ now' = now + 1
    /\ UNCHANGED <<ruleActive, matches, row, txn, page, changes>>

Learner ==
    \/ \E m \in Modules, video \in {"yes", "no", "absent"}, quiz \in {"pass", "fail", "absent"} :
        UpdateModule(m, video, quiz)
    \/ \E status \in StatusRequests : UpdateStatus(status)
Dashboard(p) == ReadAssignment(p) \/ ReadModules(p) \/ PageLate(p) \/ SaveOverdue(p) \/ ShowPage(p)
Trainer == Disable \/ \E deadline \in FixedDates \cup {0} : Publish(deadline)

Next ==
    \/ Learner \/ Trainer \/ MatchChanges \/ Reconcile \/ Commit \/ MarkOverdue \/ Tick
    \/ \E p \in Pages : Dashboard(p)

\* Transactions end, and the two schedulers run: the directory scheduler
\* reconciles every day, the e-mail scheduler marks every few minutes.
Fairness == WF_vars(Commit) /\ SF_vars(Reconcile) /\ WF_vars(MarkOverdue)

Spec == Init /\ [][Next]_vars /\ Fairness
-----------------------------------------------------------------------------
Record == [exists : BOOLEAN, status : {"pending", "started", "completed", "overdue"},
           deadline : Nat, started : BOOLEAN, completedAt : Nat, revokedAt : Nat,
           tracked : SUBSET Modules, watched : SUBSET Modules, passed : SUBSET Modules]

\* A completed assignment has a completion date, and only a completed one.
Dated(rec) == rec.completedAt # 0 <=> rec.status = "completed"

TypeOK ==
    /\ now \in 1..MaxTime
    /\ ruleActive \in BOOLEAN /\ matches \in BOOLEAN
    /\ row \in Record
    /\ txn \in [open : BOOLEAN, row : Record, active : BOOLEAN]
    /\ page \in [Pages -> [phase : {"closed", "assignment", "read", "late"}, row : Record]]
    /\ changes \in 0..MaxChanges
    /\ \A rec \in {row, txn.row} \cup {page[p].row : p \in Pages} : Dated(rec)

\* A course becomes completed only with every video watched and every quiz
\* passed, whatever ran between the reading and the saving.
CompletionEarned == [][row.status # "completed" /\ row'.status = "completed" =>
    Modules \subseteq row'.watched /\ QuizModules \subseteq row'.passed]_vars

\* An assignment that no rule and no journey backs any more is revoked, also
\* when a dashboard wrote it back meanwhile.
AccessFollowsRule == ~Access ~> (Access \/ ~row.exists \/ row.revokedAt # 0)

\* An assignment past its deadline is marked overdue, unless it is completed
\* or given more time first.
LateIsMarked ==
    (row.exists /\ ruleActive /\ row.status \in {"pending", "started"} /\ row.deadline < now)
        ~> (row.status \in {"overdue", "completed"} \/ row.deadline >= now \/ ~ruleActive)

\* "Completed remains completed even when course access is withdrawn".
CompletedStays == [][row.status = "completed" => row'.status = "completed"]_vars
=============================================================================
