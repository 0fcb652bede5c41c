--------------------------- MODULE DirectorySync ---------------------------
(***************************************************************************)
(* The import of employees from the Hub's directory.                       *)
(*                                                                         *)
(* services/directory_scheduler.py reads, once a day, what changed since   *)
(* the cursor (sync_directory_changes), and then reconciles the courses of *)
(* everyone who is active.  An operator may ask for the same, from an      *)
(* event of his choice, and for an import of the whole directory           *)
(* (bootstrap_full_directory).  Each of the two has an advisory lock of    *)
(* its own, so they may overlap.                                           *)
(*                                                                         *)
(* The Hub is external: a log of changes, each naming some facts of an     *)
(* employee.  Of these the model has the status, the team that the rule of *)
(* one course asks for, and the manager.                                   *)
(***************************************************************************)
EXTENDS Integers, Sequences, FiniteSets

CONSTANTS
    Employees,
    FirstFacts,   \* what the Hub says of them at first, <<>> of one not yet hired
    Listing,      \* the order in which the full export lists them
    PageSize,     \* directory_sync_page_limit, of change logs
    None,
    MaxChanges,   \* bound: changes at the Hub
    MaxDays,      \* bound: scheduled times
    MaxAsked,     \* bound: operator's requests
    MaxFaults     \* bound: failures and crashes

ASSUME DirectoryAssumption ==
    /\ IsFiniteSet(Employees) /\ None \notin Employees \cup {"active", "inactive", "ours", "other"}
    /\ FirstFacts \in [Employees -> {<<>>} \cup
                        [status : {"active", "inactive"}, team : {"ours", "other"},
                         boss : Employees \cup {None}]]
    /\ Listing \in Seq(Employees) /\ Listing # <<>>
    /\ PageSize \in Nat \ {0}
    /\ {MaxChanges, MaxDays, MaxAsked, MaxFaults} \subseteq Nat

VARIABLES
    log,      \* the Hub's change log
    row,      \* employees
    course,   \* who holds the course
    state,    \* directory_sync_state of employee_change_logs
    run,      \* the runs under way
    sched,    \* the scheduler's task
    clock,    \* how many scheduled times have passed
    asked, faults,
    \* Written only to state properties:
    outdated,   \* overwritten with something older than they were
    unsettled,  \* reconciled with a row that changed meanwhile, or left out by a run that broke off
    calm        \* is the day's work, undisturbed, the last thing that happened

vars == <<log, row, course, state, run, sched, clock, asked, faults, outdated, unsettled, calm>>

Runs == {"changes", "full", "daily"}
Fields == {"status", "team", "boss"}
Values == [status |-> {"active", "inactive"}, team |-> {"ours", "other"}, boss |-> Employees \cup {None}]

-----------------------------------------------------------------------------
(* The Hub *)

\* Facts that the set does not name are kept.
Updated(facts, set) ==
    [f \in DOMAIN set \cup DOMAIN facts |-> IF f \in DOMAIN set THEN set[f] ELSE facts[f]]
\* What the Hub says of e after its first k changes.
HubAt(e, k) ==
    LET hub[n \in 0..k] == IF n = 0 THEN FirstFacts[e]
                           ELSE IF log[n].who = e THEN Updated(hub[n - 1], log[n].set) ELSE hub[n - 1]
    IN hub[k]
Hub(e) == HubAt(e, Len(log))
ChangedAt(e, k) == LET own == {i \in 1..k : log[i].who = e} IN
                   IF own = {} THEN 0 ELSE CHOOSE i \in own : \A j \in own : j <= i
\* The first k changes have nothing of e that is newer than `at`.
Covers(e, at, k) == \A i \in 1..k : log[i].who = e => i <= at

\* Someone is hired, with all facts, or one fact of someone changes.
Change(e) ==
    /\ Len(log) < MaxChanges
    /\ \E set \in IF Hub(e) = <<>>
                  THEN {[status |-> "active", team |-> "ours", boss |-> None]}
                  ELSE UNION {[{f} -> Values[f] \ {Hub(e)[f], e}] : f \in Fields} :
         log' = Append(log, [who |-> e, set |-> set])
    /\ UNCHANGED <<row, course, state, run, sched, clock, asked, faults, outdated, unsettled, calm>>

-----------------------------------------------------------------------------
(* Rows *)

NoRow == [facts |-> <<>>, mgr |-> None, at |-> 0]
Existing(e) == row[e] # NoRow
Active(r) == r.facts # <<>> /\ r.facts["status"] = "active"

Item(e, set, at) == [who |-> e, set |-> set, at |-> at]
Stale(existing, item) == item.at < existing.at
Merged(existing, item) ==
    [facts |-> Updated(existing.facts, item.set), mgr |-> existing.mgr, at |-> item.at]
Wants(r) == Active(r) /\ r.facts["team"] = "ours"

Resolved == [e \in Employees |->
    IF Existing(e) /\ row[e].facts["boss"] # None /\ Existing(row[e].facts["boss"])
    THEN [row[e] EXCEPT !.mgr = row[e].facts["boss"]] ELSE row[e]]
Missing(present) ==
    IF present = {} THEN {} ELSE {e \in Employees \ present : Active(row[e])}

-----------------------------------------------------------------------------
(* Runs *)

\* next, more: next_after_id or next_cursor, and has_more, of the page in hand.
IdleRun == [step |-> "idle", scheduled |-> FALSE, pos |-> 0, items |-> <<>>, next |-> 0, more |-> FALSE,
            read |-> NoRow, changed |-> {}, todo |-> {}, who |-> None]
Idle(r) == run[r].step = "idle"
Of(r, local) == [run EXCEPT ![r] = local]
Up == sched # "down"

Start(r, pos, scheduled) ==
    /\ Idle(r)
    /\ run' = Of(r, [IdleRun EXCEPT !.step = "fetch", !.pos = pos, !.scheduled = scheduled])
    /\ calm' = IF scheduled /\ \A other \in Runs : Idle(other) THEN "maybe" ELSE "no"

Cursor == IF state = <<>> THEN 0 ELSE state.cursor

AskChanges ==
    /\ Up /\ asked < MaxAsked /\ asked' = asked + 1
    /\ \E after \in {0, Cursor} : Start("changes", after, FALSE)
    /\ UNCHANGED <<log, row, course, state, sched, clock, faults, outdated, unsettled>>
AskFull ==
    /\ Up /\ asked < MaxAsked /\ asked' = asked + 1
    /\ Start("full", 0, FALSE)
    /\ UNCHANGED <<log, row, course, state, sched, clock, faults, outdated, unsettled>>

EndOfPage == LET next == run["changes"].pos + PageSize IN IF next < Len(log) THEN next ELSE Len(log)
FetchChanges ==
    /\ run["changes"].step = "fetch"
    /\ LET pos == run["changes"].pos IN
       run' = Of("changes", [run["changes"] EXCEPT
                !.step = "apply", !.next = EndOfPage, !.more = EndOfPage < Len(log),
                !.items = [i \in 1..(EndOfPage - pos) |-> Item(log[pos + i].who, log[pos + i].set, pos + i)]])
    /\ UNCHANGED <<log, row, course, state, sched, clock, asked, faults, outdated, unsettled, calm>>

\* The full export lists one employee a page, and none that has left.
Listed(e) == IF Hub(e) # <<>> /\ Hub(e)["status"] = "active"
             THEN <<Item(e, Hub(e), ChangedAt(e, Len(log)))>> ELSE <<>>
FetchListed ==
    /\ run["full"].step = "fetch"
    /\ LET next == run["full"].pos + 1 IN
       run' = Of("full", [run["full"] EXCEPT !.step = "apply", !.next = next,
                            !.more = next < Len(Listing), !.items = Listed(Listing[next])])
    /\ UNCHANGED <<log, row, course, state, sched, clock, asked, faults, outdated, unsettled, calm>>

\* _apply_employee reads the row ...
Read(r) ==
    /\ run[r].step = "apply" /\ run[r].items # <<>>
    /\ LET item == Head(run[r].items) IN
       run' = Of(r, IF r = "changes" /\ Stale(row[item.who], item)
                    THEN [run[r] EXCEPT !.items = Tail(@)]
                    ELSE [run[r] EXCEPT !.step = "save", !.read = row[item.who]])
    /\ UNCHANGED <<log, row, course, state, sched, clock, asked, faults, outdated, unsettled, calm>>

\* ... and writes all of it, whatever it has become.
Save(r) ==
    /\ run[r].step = "save"
    /\ LET item == Head(run[r].items)
           e    == item.who
           new  == Merged(run[r].read, item)
       IN
       /\ row' = [row EXCEPT ![e] = new]
       /\ run' = Of(r, [run[r] EXCEPT !.step = "apply", !.items = Tail(@), !.read = NoRow,
                                      !.changed = @ \cup {e}])
       /\ outdated' = IF \/ row[e].at > new.at
                         \/ row[e] # run[r].read /\ new.facts # HubAt(e, new.at)
                      THEN outdated \cup {e}
                      ELSE IF new.facts = HubAt(e, new.at) /\ Covers(e, new.at, Cursor)
                      THEN outdated \ {e} ELSE outdated
    /\ UNCHANGED <<log, course, state, sched, clock, asked, faults, unsettled, calm>>

EndPage(r) ==
    /\ run[r].step = "apply" /\ run[r].items = <<>>
    /\ run' = Of(r, [run[r] EXCEPT !.pos = run[r].next, !.next = 0, !.more = FALSE,
                                   !.step = IF run[r].more THEN "fetch" ELSE "managers"])
    /\ UNCHANGED <<log, row, course, state, sched, clock, asked, faults, outdated, unsettled, calm>>

Managers(r) ==
    /\ run[r].step = "managers"
    /\ row' = Resolved
    /\ run' = Of(r, IF r = "full" THEN [run[r] EXCEPT !.step = "missing"]
                    ELSE [run[r] EXCEPT !.step = "reconcile", !.todo = run[r].changed])
    /\ UNCHANGED <<log, course, state, sched, clock, asked, faults, outdated, unsettled, calm>>

\* mark_missing_hub_employees_inactive
MarkMissing ==
    /\ run["full"].step = "missing"
    /\ LET missing == Missing(run["full"].changed) IN
       /\ row' = [e \in Employees |-> IF e \in missing
                    THEN [row[e] EXCEPT !.facts["status"] = "inactive"] ELSE row[e]]
       /\ run' = Of("full", [run["full"] EXCEPT !.step = "reconcile",
                               !.changed = @ \cup missing, !.todo = run["full"].changed \cup missing])
       /\ outdated' = outdated \cup {e \in missing : Hub(e)["status"] = "active"}
    /\ UNCHANGED <<log, course, state, sched, clock, asked, faults, unsettled, calm>>

-----------------------------------------------------------------------------
(* reconcile_assignments_for_employee reads the employee, then writes the  *)
(* course.                                                                 *)

Reconcile(r, e) ==
    /\ run[r].step = "reconcile" /\ e \in run[r].todo
    /\ run' = Of(r, [run[r] EXCEPT !.step = "give", !.who = e, !.read = row[e], !.todo = @ \ {e}])
    /\ UNCHANGED <<log, row, course, state, sched, clock, asked, faults, outdated, unsettled, calm>>
Give(r) ==
    /\ run[r].step = "give"
    /\ LET e == run[r].who IN
       /\ course' = IF Wants(run[r].read) THEN course \cup {e} ELSE course \ {e}
       /\ unsettled' = IF run[r].read = row[e] THEN unsettled \ {e} ELSE unsettled \cup {e}
    /\ run' = Of(r, [run[r] EXCEPT !.step = "reconcile", !.who = None, !.read = NoRow])
    /\ UNCHANGED <<log, row, state, sched, clock, asked, faults, outdated, calm>>

\* Mutant: a run that breaks off saves the cursor behind the page in hand.
RecordedAhead(pos, status) ==
    [cursor |-> IF run["changes"].step \in {"apply", "save"} THEN run["changes"].next ELSE pos,
     last_status |-> status,
     last_success_at |-> IF status = "success" THEN clock
                         ELSE IF state = <<>> THEN None ELSE state.last_success_at]
\* update_sync_state
Recorded(pos, status) ==
    [cursor |-> pos, last_status |-> status,
     last_success_at |-> IF status = "success" THEN clock
                         ELSE IF state = <<>> THEN None ELSE state.last_success_at]
\* Those whom a run has changed and not reconciled.
Left(r) == (IF run[r].step \in {"reconcile", "give"} THEN run[r].todo ELSE run[r].changed)
             \cup ({run[r].who} \ {None})
\* Mutant: the daily reconciliation looks at those whom the run has changed.
EndedWithChanged(r, mood) ==
    LET daily == r = "changes" /\ run[r].scheduled IN
    /\ sched' = IF daily THEN "reconciling" ELSE IF r = "daily" THEN "asleep" ELSE sched
    /\ run' = [run EXCEPT ![r] = IdleRun,
                 !["daily"] = IF daily THEN [IdleRun EXCEPT !.step = "reconcile", !.todo = run[r].changed]
                              ELSE IF r = "daily" THEN IdleRun ELSE @]
    /\ calm' = mood
\* _run_scheduled_sync goes on to the daily reconciliation either way.
Ended(r, mood) ==
    LET daily == r = "changes" /\ run[r].scheduled IN
    /\ sched' = IF daily THEN "reconciling" ELSE IF r = "daily" THEN "asleep" ELSE sched
    /\ run' = [run EXCEPT ![r] = IdleRun,
                 !["daily"] = IF daily THEN [IdleRun EXCEPT !.step = "reconcile",
                                               !.todo = {e \in Employees : Active(row[e])}]
                              ELSE IF r = "daily" THEN IdleRun ELSE @]
    /\ calm' = mood

Succeed(r) ==
    /\ run[r].step = "reconcile" /\ run[r].todo = {}
    /\ state' = IF r = "changes" THEN Recorded(run[r].pos, "success") ELSE state
    /\ Ended(r, IF r = "daily" /\ calm = "maybe" THEN "yes" ELSE calm)
    /\ UNCHANGED <<log, row, course, clock, asked, faults, outdated, unsettled>>

\* Any request, any write may fail; what was applied stays applied.
Fail(r) ==
    /\ ~Idle(r) /\ faults < MaxFaults /\ faults' = faults + 1
    /\ state' = IF r = "changes" THEN Recorded(run[r].pos, "failed") ELSE state
    /\ unsettled' = unsettled \cup Left(r)
    /\ Ended(r, "no")
    /\ UNCHANGED <<log, row, course, clock, asked, outdated>>

-----------------------------------------------------------------------------
(* The scheduler and the process *)

\* A scheduled time passes: the task wakes, if there is one.
Tick ==
    /\ clock < MaxDays /\ clock' = clock + 1
    /\ \/ sched = "asleep" /\ sched' = "due"
       \/ sched = "down" /\ sched' = sched
    /\ UNCHANGED <<log, row, course, state, run, asked, faults, outdated, unsettled, calm>>
\* sync_directory_changes waits for the lock.
Due ==
    /\ sched = "due" /\ sched' = "syncing"
    /\ Start("changes", Cursor, TRUE)
    /\ UNCHANGED <<log, row, course, state, clock, asked, faults, outdated, unsettled>>

Get(record, key) == IF key \in DOMAIN record THEN record[key] ELSE None
LastSuccess ==
    IF Get(state, "status") # "success" THEN None ELSE Get(state, "last_success_at")
CatchUpDue == LastSuccess # None /\ LastSuccess < clock

Boot ==
    /\ sched = "down" /\ sched' = IF CatchUpDue THEN "due" ELSE "asleep"
    /\ UNCHANGED <<log, row, course, state, run, clock, asked, faults, outdated, unsettled, calm>>
\* What the changes run had applied is read again from the old cursor, unless
\* it had begun before it.
Crash ==
    /\ Up /\ faults < MaxFaults /\ faults' = faults + 1
    /\ sched' = "down" /\ run' = [r \in Runs |-> IdleRun] /\ calm' = "no"
    /\ unsettled' = unsettled \cup Left("full") \cup Left("daily")
                              \cup {e \in Left("changes") : row[e].at <= Cursor}
    /\ UNCHANGED <<log, row, course, state, clock, asked, outdated>>

Synced(e) == IF FirstFacts[e] = <<>> THEN NoRow
             ELSE [facts |-> FirstFacts[e], mgr |-> FirstFacts[e]["boss"], at |-> 0]
Init ==
    /\ log = <<>> /\ row = [e \in Employees |-> Synced(e)]
    /\ course = {e \in Employees : Wants(Synced(e))}
    /\ state = <<>> /\ run = [r \in Runs |-> IdleRun] /\ sched = "asleep" /\ clock = 0
    /\ asked = 0 /\ faults = 0 /\ outdated = {} /\ unsettled = {} /\ calm = "no"

Next ==
    \/ \E e \in Employees : Change(e)
    \/ AskChanges \/ AskFull \/ FetchChanges \/ FetchListed \/ MarkMissing
    \/ \E r \in {"changes", "full"} : Read(r) \/ Save(r) \/ EndPage(r) \/ Managers(r)
    \/ \E r \in Runs : Give(r) \/ Succeed(r) \/ Fail(r) \/ \E e \in Employees : Reconcile(r, e)
    \/ Tick \/ Due \/ Boot \/ Crash

Spec == Init /\ [][Next]_vars

-----------------------------------------------------------------------------
(* Properties *)

\* Types.
TypeOK ==
    /\ \A e \in Employees : DOMAIN row[e].facts \in {{}, Fields} /\ row[e].at \in 0..Len(log)
                            /\ row[e].mgr \in Employees \cup {None}
    /\ course \subseteq Employees
    /\ state = <<>> \/ /\ state.cursor \in 0..Len(log)
                       /\ state.last_status \in {"success", "failed"}
                       /\ state.last_success_at \in 0..clock \cup {None}
    /\ \A r \in Runs : run[r].step \in {"idle", "fetch", "apply", "save", "managers", "missing", "reconcile", "give"}
    /\ sched \in {"down", "asleep", "due", "syncing", "reconciling"}
    /\ outdated \cup unsettled \subseteq Employees

\* At any time, every fact of a row is one that the Hub gave at the cursor or
\* later: nothing up to the cursor was skipped, whatever was applied twice, out
\* of turn or by a full import, and wherever a run broke off.  The exception is
\* a row that a full import, overlapping, has overwritten with what it had
\* fetched before, until a change or an import brings it up to the cursor.
SyncedIsCurrent ==
    \A e \in Employees \ outdated : \A f \in Fields :
        \E k \in Cursor..Len(log) : Get(row[e].facts, f) = Get(HubAt(e, k), f)

\* After an undisturbed day's work everyone who is active holds the course
\* exactly if the rule names him, however earlier runs ended.  Someone inactive
\* may still hold it only if the run that was to take it back broke off, or
\* read his row before another changed it: the daily reconciliation does not
\* look at him.
CourseFollowsDirectory ==
    calm = "yes" => \A e \in Employees :
        (e \in course) # Wants(row[e]) => ~Active(row[e]) /\ e \in unsettled

\* A scheduled run that was missed after a success is made up for when the
\* process starts.
MissedIsCaughtUp ==
    [][sched = "down" /\ sched' # "down" /\ state # <<>>
         /\ state.last_status = "success" /\ state.last_success_at < clock => sched' = "due"]_vars
=============================================================================
