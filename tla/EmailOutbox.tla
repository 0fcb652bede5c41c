---------------------------- MODULE EmailOutbox ----------------------------
(***************************************************************************)
(* The e-mail outbox (services/email_notifications.py): the tables         *)
(* email_notifications and email_notification_items, the writes of         *)
(* assignments that queue and cancel messages (repositories/progress.py),  *)
(* and the scheduler's cycle that queues what the calendar calls for,      *)
(* claims a batch of due messages and delivers them one by one.            *)
(*                                                                         *)
(* The employee's messages are rows of their own; what managers and        *)
(* trainers are told is collected as items of a digest.  A message's text  *)
(* is left out: `told` is the set of notices that recipients have been     *)
(* given, `again` counts those they were given a second time.              *)
(***************************************************************************)
EXTENDS Integers, FiniteSets, FiniteSetsExt

CONSTANTS
    Assignments,
    Managers,
    DigestRoles,    \* of {"hod", "trainer"}: the roles that get digests
    Deadlines,      \* deadlines that trainers and rules give
    ReminderDelay, DueSoonWindow, RepeatInterval,
    MaxNotices,     \* email_overdue_max_notices
    MaxAttempts, RetryDelay, LockTimeout, BatchSize,
    MaxDays,        \* bound: the clock, in days
    MaxWrites,      \* bound: writes of assignments
    MaxFaults       \* bound: crashes, failed cycles, refusals and lost replies of SMTP

ASSUME OutboxAssumption ==
    /\ IsFiniteSet(Assignments) /\ IsFiniteSet(Managers)
    /\ Managers \cap {"nobody", "trainer", "employee"} = {}
    /\ DigestRoles \subseteq {"hod", "trainer"}
    /\ Deadlines \subseteq Nat
    /\ {RepeatInterval, MaxAttempts, BatchSize} \subseteq Nat \ {0}
    /\ {ReminderDelay, DueSoonWindow, MaxNotices, RetryDelay, LockTimeout} \subseteq Nat
    /\ {MaxDays, MaxWrites, MaxFaults} \subseteq Nat

VARIABLES
    today,
    asg,        \* course_assignments
    manager,    \* the head of department of each assignment's employee
    reach,      \* how the course reaches the employee: the rule, a journey, not at all
    rows,       \* email_notifications
    items,      \* email_notification_items
    work,       \* the scheduler's cycle
    told, again,
    writes, faults

outboxVars == <<today, asg, manager, reach, rows, items, work, told, again, writes, faults>>
world == <<asg, manager, reach>>
outcome == <<told, again>>

Cancellable == {"assignment_reminder", "due_soon", "overdue"}
Open == {"pending", "failed"}
RolesOf(event) == DigestRoles \cap
    CASE event = "assigned" -> {"hod"}
      [] event = "assignment_reminder" -> {}
      [] OTHER -> {"hod", "trainer"}

Nobody == "nobody"
TheTrainer == "trainer"

NoAssignment == [exists |-> FALSE, status |-> "pending", life |-> 1, assignedAt |-> 0,
                 deadline |-> 0, revoked |-> FALSE]
Individual(a, life, event, occ, role) ==
    [kind |-> "individual", a |-> a, life |-> life, event |-> event, occ |-> occ, role |-> role]
Digest(event, role, scope, at) ==
    [kind |-> "digest", event |-> event, role |-> role, scope |-> scope, at |-> at]
NewMessage(next) == [status |-> "pending", attempts |-> 0, next |-> next, locked |-> 0, sentAt |-> 0]
\* Of a row that is settled only what is still read.
Final(status, at) == [NewMessage(0) EXCEPT !.status = status, !.sentAt = at]

\* moved: an assignment was written since the message in hand was checked.
Idle == [step |-> "idle", batch |-> {}, key |-> Nobody, notices |-> {}, moved |-> FALSE]

\* Before the upgrade to digests a manager was written to directly.
Legacy(a) == Individual(a, 1, "assigned", 0, "hod")

OutboxInit ==
    /\ today = 0
    /\ manager \in [Assignments -> Managers]
    /\ reach = [a \in Assignments |-> "rule"]
    /\ \/ asg = [a \in Assignments |-> NoAssignment] /\ rows = <<>> /\ writes = 0
       \/ \E a \in Assignments, s \in {"pending", "sent"} :
            /\ asg = [[b \in Assignments |-> NoAssignment] EXCEPT
                        ![a] = [NoAssignment EXCEPT !.exists = TRUE, !.deadline = Min(Deadlines)]]
            /\ writes = 1
            /\ rows = [k \in {Legacy(a)} |-> IF s = "sent" THEN Final("sent", 0) ELSE NewMessage(0)]
       \/ \E a \in Assignments :  \* withdrawn before there were e-mails
            /\ asg = [[b \in Assignments |-> NoAssignment] EXCEPT
                        ![a] = [NoAssignment EXCEPT !.exists = TRUE, !.deadline = Min(Deadlines),
                                                    !.revoked = TRUE]]
            /\ writes = 1
            /\ rows = <<>>
    /\ items = {}
    /\ work = Idle
    /\ told = {} /\ again = 0 /\ faults = 0
-----------------------------------------------------------------------------
(* What an event must still look like.                                      *)

\* _overdue_occurrence_key
Occurrence(deadline) == (today - deadline) \div RepeatInterval + 1

\* Mutant of EventIsCurrent: a message belongs to its assignment, whatever happened since.
EventIsCurrentInAnyLife(a, r, event, life, occ) ==
    /\ reach[a] = "rule" /\ ~r.revoked
    /\ event = "overdue" => r.status = "overdue" /\ occ = Occurrence(r.deadline)

\* _event_is_current
EventIsCurrent(a, r, event, life, occ) ==
    /\ r.life = life /\ reach[a] = "rule" /\ ~r.revoked
    /\ event = "completed" => r.status = "completed"
    /\ event \in {"assigned", "assignment_reminder", "due_soon"} =>
            r.status \in {"pending", "started"}
    /\ event = "assignment_reminder" =>
            today >= r.assignedAt + ReminderDelay /\ r.deadline > today + DueSoonWindow
    /\ event = "due_soon" => today < r.deadline /\ r.deadline <= today + DueSoonWindow
    /\ event = "overdue" =>
            r.status = "overdue" /\ r.deadline < today /\ occ = Occurrence(r.deadline)

\* A box is a pair of tables, [rows, items].
Box == [rows |-> rows, items |-> items]

IssuedPeriods(b, a, life) ==
    {k.occ : k \in {k \in DOMAIN b.rows : /\ k.kind = "individual" /\ k.event = "overdue"
                                          /\ k.a = a /\ k.life = life
                                          /\ b.rows[k].status # "cancelled"}}
    \cup {i.occ : i \in {i \in b.items : /\ i.key.event = "overdue" /\ i.a = a /\ i.life = life
                                         /\ b.rows[i.key].status # "cancelled"}}

\* _with_overdue_notice.  Within a lifecycle periods are issued in their order.
WithinCap(b, a, life, occ) ==
    LET issued == IssuedPeriods(b, a, life)
        notice == IF occ \in issued THEN Cardinality({o \in issued : o <= occ})
                  ELSE Cardinality(issued) + 1
    IN  notice <= MaxNotices
-----------------------------------------------------------------------------
(* Queueing.                                                                *)

\* Mutant of Inserted: a row that exists is queued afresh.
InsertedAfresh(table, key, next) ==
    [k \in DOMAIN table \cup {key} |-> IF k = key THEN NewMessage(next) ELSE table[k]]

\* INSERT ... ON CONFLICT DO NOTHING; a digest's columns that change are left out.
Inserted(table, key, next) ==
    [k \in DOMAIN table \cup {key} |-> IF k \in DOMAIN table THEN table[k] ELSE NewMessage(next)]

Scope(a, role) == IF role = "hod" THEN manager[a] ELSE TheTrainer

Interval(event) == IF event = "overdue" THEN RepeatInterval ELSE 1

\* _digest_send_at: tomorrow's digest, an interval after the last one at least.
SendAt(b, event, role, scope) ==
    LET sentAts == {b.rows[k].sentAt : k \in {k \in DOMAIN b.rows :
            /\ k.kind = "digest" /\ k.event = event /\ k.role = role /\ k.scope = scope
            /\ b.rows[k].status = "sent"}}
    IN  Max({today + 1} \cup {s + Interval(event) : s \in sentAts})

\* The item is in a digest already, or the manager was written to directly.
AlreadyReported(b, a, r, event, role, occ) ==
    \/ \E i \in b.items :
        /\ i.a = a /\ i.life = r.life /\ i.occ = occ
        /\ i.key.event = event /\ i.key.role = role /\ i.key.scope = Scope(a, role)
        /\ b.rows[i.key].status # "cancelled"
    \/ /\ event = "assigned"
       /\ LET k == Individual(a, r.life, "assigned", 0, "hod")
          IN  k \in DOMAIN b.rows /\ b.rows[k].status \in {"sent", "sending"}

\* Assignments join the batch that is still open.
Batches(b, event, role, scope) ==
    {k \in DOMAIN b.rows : /\ event = "assigned" /\ k.kind = "digest" /\ k.event = event
                           /\ k.role = role /\ k.scope = scope /\ b.rows[k].status \in Open}

\* _enqueue_digest_item: today's key, or the one an interval later.
DigestItem(b, a, r, event, role, occ) ==
    LET scope == Scope(a, role)
        batches == Batches(b, event, role, scope)
        at == IF batches # {} THEN Min({k.at : k \in batches}) ELSE SendAt(b, event, role, scope)
        keys == {k \in {Digest(event, role, scope, t) : t \in {at, at + Interval(event)}} :
                    k \in DOMAIN b.rows => b.rows[k].status \in Open}
        key == CHOOSE k \in keys : \A l \in keys : k.at <= l.at
    IN  IF scope = Nobody \/ AlreadyReported(b, a, r, event, role, occ) \/ keys = {} THEN b
        ELSE [rows |-> Inserted(b.rows, key, key.at),
              items |-> b.items \cup {[key |-> key, a |-> a, life |-> r.life, occ |-> occ]}]

\* enqueue_digest_notifications
Digested(b, a, r, event, occ) ==
    IF EventIsCurrent(a, r, event, r.life, occ)
       /\ (event = "overdue" => WithinCap(b, a, r.life, occ))
    THEN FoldSet(LAMBDA role, c : DigestItem(c, a, r, event, role, occ), b, RolesOf(event))
    ELSE b

\* enqueue_assignment_notifications
Enqueued(b, a, r, event) ==
    LET occ == IF event = "overdue" THEN Occurrence(r.deadline) ELSE 0
        own == Individual(a, r.life, event, occ, "employee")
    IN  IF EventIsCurrent(a, r, event, r.life, occ)
           /\ (event = "overdue" => WithinCap(b, a, r.life, occ))
        THEN Digested([b EXCEPT !.rows = Inserted(@, own, today)], a, r, event, occ)
        ELSE b

\* cancel_assignment_notifications: not what is being sent, and no digests.
Cancelled(b, a) == [b EXCEPT !.rows = [k \in DOMAIN @ |->
    IF k.kind = "individual" /\ k.a = a /\ k.event \in Cancellable /\ @[k].status \in Open
    THEN Final("cancelled", 0) ELSE @[k]]]

SetBox(b) == rows' = b.rows /\ items' = b.items
-----------------------------------------------------------------------------
(* The writes of assignments: save_employee_course_progress.                *)

\* _notification_transition, the version.
LifeAfter(old, new) ==
    IF old.exists /\ (\/ old.deadline # new.deadline
                      \/ old.status # new.status /\ new.status = "completed"
                      \/ old.revoked # new.revoked)
    THEN old.life + 1 ELSE old.life

\* _notification_transition, the event.
EventAfter(old, new) ==
    CASE new.revoked -> "none"
      [] ~new.revoked /\ ~old.exists -> "assigned"
      [] ~new.revoked /\ old.exists /\ old.status # new.status
            /\ new.status \in {"completed", "overdue"} -> new.status
      [] OTHER -> "none"

Write(a, new) ==
    LET old == asg[a]
        r == [new EXCEPT !.life = LifeAfter(old, new)]
        kept == IF old.exists /\ (old.deadline # r.deadline \/ old.status # r.status)
                THEN Cancelled(Box, a) ELSE Box
        event == EventAfter(old, new)
    IN  /\ writes < MaxWrites /\ writes' = writes + 1
        /\ asg' = [asg EXCEPT ![a] = r]
        /\ SetBox(IF event = "none" THEN kept ELSE Enqueued(kept, a, r, event))
        /\ work' = [work EXCEPT !.moved = work.step = "send"]
        /\ UNCHANGED <<today, manager, reach, outcome, faults>>

Live(a) == asg[a].exists /\ ~asg[a].revoked /\ reach[a] # "none"

Assign(a) == \E d \in Deadlines :
    /\ ~asg[a].exists /\ reach[a] # "none" /\ d > today
    /\ Write(a, [NoAssignment EXCEPT !.exists = TRUE, !.assignedAt = today, !.deadline = d])

Start(a) == /\ Live(a) /\ asg[a].status = "pending"
            /\ Write(a, [asg[a] EXCEPT !.status = "started"])

CompleteCourse(a) == /\ Live(a) /\ asg[a].status # "completed"
               /\ Write(a, [asg[a] EXCEPT !.status = "completed"])

\* The dashboard finds the assignment late before the scheduler does.
FoundLate(a) == /\ Live(a) /\ asg[a].status \in {"pending", "started"} /\ asg[a].deadline < today
                /\ Write(a, [asg[a] EXCEPT !.status = "overdue"])

MoveDeadline(a) == \E d \in Deadlines :
    /\ Live(a) /\ asg[a].status # "completed" /\ d > today /\ d # asg[a].deadline
    /\ Write(a, [asg[a] EXCEPT !.deadline = d])

Revoke(a) == /\ asg[a].exists /\ ~asg[a].revoked
             /\ Write(a, [asg[a] EXCEPT !.revoked = TRUE])

Reactivate(a) == \E d \in Deadlines :
    /\ asg[a].revoked /\ reach[a] # "none"
    /\ d > today \/ asg[a].status = "completed"
    /\ Write(a, [asg[a] EXCEPT
        !.revoked = FALSE,
        !.deadline = IF asg[a].status = "completed" THEN @ ELSE d,
        !.status = IF @ = "overdue" THEN "started" ELSE @])

\* The course is unpublished or its rule switched; a journey covers it instead.
ReachChanges(a) == \E r \in {"rule", "journey", "none"} :
    /\ writes < MaxWrites /\ writes' = writes + 1
    /\ r # reach[a]
    /\ reach' = [reach EXCEPT ![a] = r]
    /\ work' = [work EXCEPT !.moved = work.step = "send"]
    /\ UNCHANGED <<today, asg, manager, rows, items, outcome, faults>>

ManagerChanges(a) == \E m \in Managers \cup {Nobody} :
    /\ writes < MaxWrites /\ writes' = writes + 1
    /\ m # manager[a]
    /\ manager' = [manager EXCEPT ![a] = m]
    /\ work' = [work EXCEPT !.moved = work.step = "send"]
    /\ UNCHANGED <<today, asg, reach, rows, items, outcome, faults>>

\* Days pass between cycles, and while a message waits for the SMTP server.
DayPasses ==
    /\ today < MaxDays /\ today' = today + 1
    /\ work.step \in {"idle", "send"}
    /\ UNCHANGED <<world, rows, items, work, outcome, writes, faults>>
-----------------------------------------------------------------------------
(* The scheduler's cycle, under its advisory lock.                          *)

Advance(from, to) == work.step = from /\ work' = [work EXCEPT !.step = to]
EnqueuedAll(box, as, table, event) == FoldSet(LAMBDA a, b : Enqueued(b, a, table[a], event), box, as)

\* migrate_pending_digest_notifications
Migrate ==
    LET legacy == {k \in DOMAIN rows : k.kind = "individual" /\ k.role # "employee"
                                       /\ rows[k].status \in Open}
        digested == FoldSet(LAMBDA k, b : Digested(b, k.a, asg[k.a], k.event, k.occ), Box, legacy)
    IN  /\ Advance("idle", "overdue")
        /\ SetBox([digested EXCEPT !.rows = [k \in DOMAIN @ |->
                IF k \in legacy THEN Final("cancelled", 0) ELSE @[k]]])
        /\ UNCHANGED <<today, world, outcome, writes, faults>>

\* enqueue_overdue_notifications, its first transaction: no new lifecycle.
MarkLate ==
    LET late == {a \in Assignments : asg[a].exists /\ reach[a] # "none"
                    /\ asg[a].status \in {"pending", "started"} /\ asg[a].deadline < today}
        marked == [a \in Assignments |-> IF a \in late THEN [asg[a] EXCEPT !.status = "overdue"]
                                         ELSE asg[a]]
    IN  /\ Advance("overdue", "calendar")
        /\ asg' = marked
        /\ SetBox(EnqueuedAll(Box, late, marked, "overdue"))
        /\ UNCHANGED <<today, manager, reach, outcome, writes, faults>>

\* Its second part: the next period's notice of what is overdue.
Requeued(b) ==
    EnqueuedAll(b, {a \in Assignments : asg[a].exists /\ asg[a].status = "overdue"}, asg, "overdue")

\* enqueue_assignment_reminders: none after one was sent, in any lifecycle.
Reminded(b) ==
    EnqueuedAll(b, {a \in Assignments : asg[a].exists
            /\ ~\E k \in DOMAIN rows : /\ k.kind = "individual" /\ k.a = a
                                       /\ k.event = "assignment_reminder" /\ rows[k].status = "sent"},
        asg, "assignment_reminder")

\* enqueue_due_soon_notifications
DueSoonQueued(b) == EnqueuedAll(b, {a \in Assignments : asg[a].exists}, asg, "due_soon")

\* The three in a row: they queue different events, so that a write between
\* two of them is as one before or after.
QueueByCalendar ==
    /\ Advance("calendar", "claim")
    /\ SetBox(DueSoonQueued(Reminded(Requeued(Box))))
    /\ UNCHANGED <<today, world, outcome, writes, faults>>

\* Mutant of Due: what a crashed cycle had claimed stays claimed.
DueUnclaimed(k) ==
    rows[k].status \in Open /\ rows[k].next <= today /\ rows[k].attempts < MaxAttempts

Due(k) ==
    /\ \/ rows[k].status \in Open
       \/ rows[k].status = "sending" /\ rows[k].locked + LockTimeout <= today
    /\ rows[k].next <= today /\ rows[k].attempts < MaxAttempts

\* _claim_pending_notifications
Claim ==
    LET due == {k \in DOMAIN rows : Due(k)} IN
    /\ work.step = "claim"
    /\ \E batch \in kSubset(Min({BatchSize, Cardinality(due)}), due) :
        /\ \A k \in batch, l \in due \ batch : rows[k].next <= rows[l].next
        /\ rows' = [k \in DOMAIN rows |-> IF k \in batch
                THEN [rows[k] EXCEPT !.status = "sending", !.attempts = @ + 1, !.locked = today]
                ELSE rows[k]]
        /\ work' = IF batch = {} THEN Idle ELSE [Idle EXCEPT !.step = "check", !.batch = batch]
    /\ UNCHANGED <<today, world, items, outcome, writes, faults>>

\* What a recipient learns from a row.
Notice(a, life, event, occ, to) == [a |-> a, life |-> life, event |-> event, occ |-> occ, to |-> to]

Valid(a, event, life, occ) ==
    /\ EventIsCurrent(a, asg[a], event, life, occ)
    /\ event = "overdue" => WithinCap(Box, a, life, occ)

\* The employee's message if it still applies; the digest's items that do.
NoticesOf(k) ==
    IF k.kind = "individual"
    THEN {n \in {Notice(k.a, k.life, k.event, k.occ, "employee")} :
            k.role = "employee" /\ Valid(k.a, k.event, k.life, k.occ)}
    ELSE {Notice(i.a, i.life, k.event, i.occ, k.scope) : i \in {i \in items :
            /\ i.key = k /\ Valid(i.a, k.event, i.life, i.occ)
            /\ Scope(i.a, k.role) = k.scope}}

Rest(k) == IF work.batch = {k} THEN Idle ELSE [Idle EXCEPT !.step = "check", !.batch = work.batch \ {k}]
Settle(k, row) == rows' = [rows EXCEPT ![k] = row]

\* The message no longer applies: _cancel_stale.
CancelStale(k) ==
    /\ work.step = "check" /\ k \in work.batch
    /\ NoticesOf(k) = {}
    /\ Settle(k, Final("cancelled", 0))
    /\ work' = Rest(k)
    /\ UNCHANGED <<today, world, items, outcome, writes, faults>>

Check(k) ==
    /\ work.step = "check" /\ k \in work.batch
    /\ NoticesOf(k) # {}
    /\ work' = [work EXCEPT !.step = "send", !.key = k, !.notices = NoticesOf(k), !.moved = FALSE]
    /\ UNCHANGED <<today, world, rows, items, outcome, writes, faults>>

Deliver ==
    /\ told' = told \cup work.notices
    /\ again' = again + Cardinality(told \cap work.notices)

\* The SMTP server takes the message; that it did is recorded afterwards.
Accept ==
    /\ Advance("send", "record")
    /\ Deliver
    /\ UNCHANGED <<today, world, rows, items, writes, faults>>

\* _mark_failed
Failed(row) ==
    IF row.attempts >= MaxAttempts
    THEN [Final("failed", 0) EXCEPT !.attempts = row.attempts]
    ELSE [row EXCEPT !.status = "pending", !.next = today + RetryDelay, !.locked = 0]

Refuse ==
    /\ work.step = "send"
    /\ faults < MaxFaults /\ faults' = faults + 1
    /\ Settle(work.key, Failed(rows[work.key]))
    /\ work' = Rest(work.key)
    /\ UNCHANGED <<today, world, items, outcome, writes>>

\* The server takes the message, its reply is lost.
AcceptSilently ==
    /\ work.step = "send"
    /\ faults < MaxFaults /\ faults' = faults + 1
    /\ Deliver
    /\ Settle(work.key, Failed(rows[work.key]))
    /\ work' = Rest(work.key)
    /\ UNCHANGED <<today, world, items, writes>>

\* _mark_sent
MarkSent ==
    /\ work.step = "record"
    /\ Settle(work.key, Final("sent", IF work.key.kind = "digest" THEN today ELSE 0))
    /\ work' = Rest(work.key)
    /\ UNCHANGED <<today, world, items, outcome, writes, faults>>

\* The process dies, or an exception ends the cycle: the rest of the batch
\* stays claimed.  One that has claimed nothing yet has left nothing undone
\* that the next one does not do.
CycleDies ==
    /\ work.batch # {}
    /\ faults < MaxFaults /\ faults' = faults + 1
    /\ work' = Idle
    /\ UNCHANGED <<today, world, rows, items, outcome, writes>>

Cycle ==
    \/ Migrate \/ MarkLate \/ QueueByCalendar \/ Claim
    \/ \E k \in work.batch : CancelStale(k) \/ Check(k)
    \/ Accept \/ MarkSent

OutboxNext ==
    \/ \E a \in Assignments : \/ Assign(a) \/ Start(a) \/ CompleteCourse(a) \/ FoundLate(a)
                              \/ MoveDeadline(a) \/ Revoke(a) \/ Reactivate(a)
                              \/ ReachChanges(a) \/ ManagerChanges(a)
    \/ DayPasses \/ Cycle \/ Refuse \/ AcceptSilently \/ CycleDies

\* The loop runs the next cycle after every sleep.
OutboxFairness == WF_outboxVars(Cycle)

OutboxSpec == OutboxInit /\ [][OutboxNext]_outboxVars /\ OutboxFairness
-----------------------------------------------------------------------------
\* A row is being sent only with an attempt counted, and a batch is what a
\* cycle claimed.
OutboxTypeOK ==
    /\ today \in 0..MaxDays
    /\ \A k \in DOMAIN rows : /\ rows[k].status \in {"pending", "sending", "sent", "failed", "cancelled"}
                              /\ rows[k].attempts \in 0..MaxAttempts
                              /\ rows[k].status = "failed" => rows[k].attempts = MaxAttempts
    /\ \A i \in items : i.key \in DOMAIN rows
    /\ \A k \in work.batch : rows[k].status = "sending" /\ rows[k].attempts > 0
    /\ \A a \in Assignments : asg[a].status \in {"pending", "started", "completed", "overdue"}

\* Nobody is told the same thing twice, unless a crash or a lost reply came
\* between the sending and its record; then once more for each.
ToldOnce == again <= faults * Cardinality(Assignments)

\* "The outbox revalidates every assignment immediately before delivery": what
\* recipients are told is so, unless it changed while it was being sent.
ToldIsCurrent == [][\A n \in told' \ told : work.moved \/
    /\ asg[n.a].life = n.life /\ ~asg[n.a].revoked /\ reach[n.a] = "rule"
    /\ n.event = "completed" <=> asg[n.a].status = "completed"]_outboxVars

\* A message that is due does not stay so: it is sent, cancelled or put off,
\* also when the cycle that had claimed it died.
DueIsServed == \A a \in Assignments :
    LET Waits == \E k \in DOMAIN rows :
            /\ k.kind = "individual" /\ k.a = a
            /\ rows[k].status \in Open \cup {"sending"} /\ rows[k].attempts < MaxAttempts
            /\ rows[k].next <= today /\ rows[k].locked + LockTimeout <= today
    IN  Waits ~> ~Waits

\* "Reuse the open batch": what joins a digest can still be sent with it.
JoinsOpenBatch == [][\A i \in items' \ items : rows'[i.key].attempts < MaxAttempts]_outboxVars
=============================================================================
