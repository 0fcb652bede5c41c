------------------------------ MODULE Journeys ------------------------------
(***************************************************************************)
(* Learning journeys, as one employee meets them: the trainer's authoring  *)
(* (services/journeys.py), the lock rules (services/journey_state.py), the *)
(* certificates, and reconcile_assignments_for_employee, which turns what  *)
(* the journeys unlock into course assignments.                            *)
(*                                                                         *)
(* A reconciliation is no transaction.  It reads the learner's progress,   *)
(* then journeys and journey assignments, writes whole journey rows back,  *)
(* and then visits the courses one by one, each in a transaction of its    *)
(* own, with the courses it decided on before.  The trainer's Disable and  *)
(* a new deadline write whole rows they read earlier, too.                 *)
(*                                                                         *)
(* Deadlines, stages, titles and e-mails are left out: nothing here reads  *)
(* them.  A plan is the sequence of a journey's steps.                     *)
(***************************************************************************)
EXTENDS Integers, Sequences, FiniteSets

CONSTANTS
  J,              \* journeys
  Courses,        \* courses of the journeys' trainer
  Plans,          \* plans the trainer saves
  Syncs,          \* reconciliations of the employee that may overlap
  FirstPlan, FirstAfter, FirstRule,   \* plans, prerequisites and course rules that the model starts with
  Before,         \* Before[j]: journeys that j may be saved to start after
  MaxActs,        \* bound on what trainers and the directory do
  None            \* no journey, no certificate

NotEnrolled == [held |-> FALSE, revoked |-> FALSE, open |-> FALSE, done |-> FALSE, unlocked |-> {}]
Enrolments == [held : BOOLEAN, revoked : BOOLEAN, open : BOOLEAN, done : BOOLEAN, unlocked : SUBSET Courses]
NoJourney == [status |-> "none", plan |-> <<>>, after |-> None, live |-> FALSE, was |-> FALSE]

Rules == {"none", "nobody", "mine"}   \* a course's live rule, as to the employee

ASSUME JourneysAssumption ==
  /\ Courses # {} /\ None \notin J /\ MaxActs \in Nat
  /\ \A plan \in Plans \cup {FirstPlan[j] : j \in J} :
       plan \in Seq([course : Courses, open : BOOLEAN, required : BOOLEAN])
  /\ FirstAfter \in [J -> J \cup {None}] /\ FirstRule \in [Courses -> Rules]
  /\ Before \in [J -> SUBSET J]

VARIABLES
  journey,    \* per journey: status, plan, prerequisite, whether its live rule matches the employee, ever published
  observes,   \* journeys the employee observes
  course,     \* per course: published, live rule, rule switched on
  employed,   \* the employee is active in the directory
  progress,   \* the employee's assignment of each course: learning status, access
  enrolment,  \* the employee's assignment of each journey
  certs,      \* the courses an issued certificate names
  pending,    \* journey rows a trainer's request has read and will write
  sync,       \* the reconciliations
  calm,       \* history: the reconciliations since whose beginning nobody else has written
  acts

journeyVars == <<journey, observes, course, employed, progress, enrolment, certs, pending, sync, calm, acts>>
trainer == <<journey, observes, course, pending, acts>>

Resting == [phase |-> "idle", active |-> FALSE, seen |-> [c \in Courses |-> "none"], rows |-> <<>>,
            wanted |-> {}, todo |-> {}]

CoursesOf(plan) == {plan[i].course : i \in DOMAIN plan}

JourneysInit ==
  /\ \E drafts \in SUBSET J :
       /\ \A j \in J : Before[j] \cap drafts # {} => j \in drafts
       /\ journey = [j \in J |-> [status |-> IF j \in drafts THEN "draft" ELSE "published", plan |-> FirstPlan[j],
                                  after |-> FirstAfter[j], live |-> j \notin drafts, was |-> j \notin drafts]]
  /\ course = [c \in Courses |-> [published |-> TRUE, rule |-> FirstRule[c], on |-> TRUE]]
  /\ observes = {} /\ employed = TRUE
  /\ progress = [c \in Courses |-> [st |-> "none", on |-> FALSE]]
  /\ enrolment = [j \in J |-> NotEnrolled]
  /\ certs = [j \in J |-> None]
  /\ pending = [j \in J |-> NotEnrolled]
  /\ sync = [s \in Syncs |-> Resting]
  /\ calm = {}
  /\ acts = 0

----------------------------------------------------------------------------
(* The lock rules: pure functions of a plan and the learner's courses.     *)

\* step.available: published, not Disabled, for a learner (course Observers are another matter)
Offered(c) == course[c].published /\ ~(course[c].rule # "none" /\ ~course[c].on)

\* The nearest earlier required, available step; 0 if there is none.
Gate(plan, i) ==
  LET earlier == {k \in 1..(i - 1) : plan[k].required /\ Offered(plan[k].course)}
  IN IF earlier = {} THEN 0 ELSE CHOOSE k \in earlier : \A m \in earlier : m <= k

Unlocked(plan, passed, open, before) ==
  {plan[i].course : i \in {i \in DOMAIN plan :
     /\ Offered(plan[i].course)
     /\ \/ open /\ (plan[i].open \/ Gate(plan, i) = 0 \/ plan[Gate(plan, i)].course \in passed)
        \/ plan[i].course \in before}}

\* Every required step is passed; a step that is neither available nor passed does not count.
Complete(plan, passed) ==
  LET required == {plan[i].course : i \in {i \in DOMAIN plan :
                     plan[i].required /\ (Offered(plan[i].course) \/ plan[i].course \in passed)}}
  IN required # {} /\ required \subseteq passed

Active(r) == r.held /\ ~r.revoked

\* prerequisite_met: it binds only employees who are assigned that journey.
PrerequisiteMet(r) == ~Active(r) \/ r.done

----------------------------------------------------------------------------
(* reconcile_assignments_for_employee                                       *)

Passed(seen) == {c \in Courses : seen[c].st = "passed"}
Begun(seen) == {c \in Courses : seen[c].st \in {"started", "passed"}}
Held(seen) == {c \in Courses : seen[c].on}

LiveJourneys == {j \in J : journey[j].status = "published"}

\* _sync_membership: sticky, except that journeys no longer published are withdrawn.
Membership ==
  [j \in J |->
     IF j \in LiveJourneys
       THEN IF ~Active(enrolment[j]) /\ journey[j].live /\ j \notin observes
              THEN [enrolment[j] EXCEPT !.held = TRUE, !.revoked = FALSE] ELSE enrolment[j]
       ELSE [enrolment[j] EXCEPT !.revoked = @ \/ Active(enrolment[j])]]

\* What is true of a row stays true.
Evaluation(j, r, open, passed) ==
  [r EXCEPT !.open = @ \/ open,
            !.unlocked = @ \cup Unlocked(journey[j].plan, passed, r.open \/ open, @),
            !.done = @ \/ ((r.open \/ open) /\ Complete(journey[j].plan, passed))]

\* _evaluate: prerequisites first.
Evaluated(member, passed) ==
  LET active == {j \in LiveJourneys : Active(member[j])}
      opens[j \in J] ==
        LET k == journey[j].after
        IN k \notin active \/ PrerequisiteMet(Evaluation(k, member[k], opens[k], passed))
  IN [j \in J |-> IF j \in active THEN Evaluation(j, member[j], opens[j], passed) ELSE member[j]]

KeptUnbegun(j, r, seen) == {c \in r.unlocked \ CoursesOf(journey[j].plan) : Offered(c) /\ c \in Held(seen)}

\* Courses that a trainer removed from a journey stay with those who began them.
KeptOf(j, r, seen) ==
  {c \in r.unlocked \ CoursesOf(journey[j].plan) : Offered(c) /\ c \in Held(seen) \cap Begun(seen)}

WantedOf(rows, seen) ==
  UNION {Unlocked(journey[j].plan, Passed(seen), TRUE, rows[j].unlocked) \cup KeptOf(j, rows[j], seen)
         : j \in {j \in LiveJourneys : Active(rows[j]) /\ rows[j].open}}

First(todo) == CHOOSE c \in todo : TRUE

\* A pass visits its courses one by one; when none is left the next one begins, over the
\* published courses and then over the courses the journeys give.
Passing(me) ==
  IF me.todo # {} THEN me
  ELSE IF me.phase = "revoke" /\ me.active
    THEN [me EXCEPT !.phase = "rules", !.seen = Resting.seen, !.todo = {c \in Courses : course[c].published}]
  ELSE IF me.phase = "rules" /\ me.wanted # {}
    THEN [me EXCEPT !.phase = "journeys", !.wanted = {}, !.todo = me.wanted]
  ELSE Resting

\* When every row is written the passes begin with the courses the learner had.
Stored(me) ==
  IF DOMAIN me.rows # {} THEN me
  ELSE Passing([me EXCEPT !.phase = "revoke", !.rows = <<>>, !.todo = {c \in Courses : me.seen[c].st # "none"}])

BeginSync(s) ==
  /\ sync[s].phase = "idle"
  /\ sync' = [sync EXCEPT ![s] = [Resting EXCEPT !.phase = "look", !.active = employed, !.seen = progress]]
  /\ calm' = calm \cup {s}
  /\ UNCHANGED <<trainer, employed, progress, enrolment, certs>>

\* What a row to be written carries: the courses of the certificate to issue, or None.
Naming(j, before, after) ==
  IF after.done /\ ~before.done
    THEN {journey[j].plan[i].course : i \in {i \in DOMAIN journey[j].plan : journey[j].plan[i].required}}
    ELSE None

\* journey_wanted_courses reads; an employee who is not active only loses journeys.
Look(s) ==
  LET me == sync[s]
      rows == IF me.active THEN Evaluated(Membership, Passed(me.seen))
              ELSE [j \in J |-> [enrolment[j] EXCEPT !.revoked = @ \/ Active(enrolment[j])]]
      changed == {j \in J : rows[j] # enrolment[j]}
  IN /\ me.phase = "look"
     /\ sync' = [sync EXCEPT ![s] = Stored([me EXCEPT !.phase = "store",
          !.rows = [j \in changed |-> [enrolment |-> rows[j], names |-> Naming(j, enrolment[j], rows[j])]],
          !.wanted = IF me.active THEN WantedOf(rows, me.seen) ELSE {}])]
     /\ UNCHANGED <<trainer, employed, progress, enrolment, certs, calm>>

\* issue_certificate: an issued certificate never changes.
Issued(j, names) == IF certs[j] = None THEN [certs EXCEPT ![j] = names] ELSE certs

\* save_assignment replaces the whole row; the certificate follows, unless that fails.
Store(s) ==
  /\ sync[s].phase = "store"
  /\ \E j \in DOMAIN sync[s].rows :
       LET me == sync[s]
           new == me.rows[j]
       IN
       /\ enrolment' = [enrolment EXCEPT ![j] = new.enrolment]
       /\ certs' \in {certs, IF new.names = None THEN certs ELSE Issued(j, new.names)}
       /\ sync' = [sync EXCEPT ![s] = Stored([me EXCEPT !.rows = [k \in DOMAIN me.rows \ {j} |-> me.rows[k]]])]
  /\ calm' = calm \cap {s}
  /\ UNCHANGED <<trainer, employed, progress>>

Visited(s) ==
  LET me == sync[s] IN sync' = [sync EXCEPT ![s] = Passing([me EXCEPT !.todo = me.todo \ {First(me.todo)}])]

ByRule(c) == course[c].rule = "mine" /\ course[c].on

\* The first pass, over the courses the learner had: why this one is withdrawn now.
Withdrawn(me, c) ==
  /\ progress[c].on
  /\ \/ ~me.active
     \/ ~course[c].published
     \/ ~ByRule(c) /\ (c \notin me.wanted \/ (course[c].rule # "none" /\ ~course[c].on))

RevokePass(s) ==
  /\ sync[s].phase = "revoke"
  /\ LET c == First(sync[s].todo)
     IN progress' = [progress EXCEPT ![c].on = @ /\ ~Withdrawn(sync[s], c)]
  /\ Visited(s)
  /\ calm' = calm \cap {s}
  /\ UNCHANGED <<trainer, employed, enrolment, certs>>

\* A new assignment is pending; one that comes back keeps what was learned.
Given(p) == [st |-> IF p.st = "none" THEN "pending" ELSE p.st, on |-> TRUE]

RulePass(s) ==
  /\ sync[s].phase = "rules"
  /\ LET c == First(sync[s].todo)
     IN progress' = IF course[c].published /\ ByRule(c) THEN [progress EXCEPT ![c] = Given(@)] ELSE progress
  /\ Visited(s)
  /\ calm' = calm \cap {s}
  /\ UNCHANGED <<trainer, employed, enrolment, certs>>

GrantNew(c) == IF course[c].published /\ progress[c].st = "none" THEN [progress EXCEPT ![c] = Given(@)] ELSE progress

JourneyGrant(c) == IF course[c].published THEN [progress EXCEPT ![c] = Given(@)] ELSE progress

JourneyPass(s) ==
  /\ sync[s].phase = "journeys"
  /\ progress' = JourneyGrant(First(sync[s].todo))
  /\ Visited(s)
  /\ calm' = calm \cap {s}
  /\ UNCHANGED <<trainer, employed, enrolment, certs>>

Sync(s) == BeginSync(s) \/ Look(s) \/ Store(s) \/ RevokePass(s) \/ RulePass(s) \/ JourneyPass(s)

----------------------------------------------------------------------------
(* The trainer, the learner and the directory.                             *)

Act == acts < MaxActs /\ acts' = acts + 1 /\ calm' = {}

\* The advisory lock of a journey: one request works on it at a time.
Free(j) == ~pending[j].held

\* _course_option: generated, and not Disabled.  Every course of the model is generated.
Eligible(c) == ~(course[c].rule # "none" /\ ~course[c].on)

\* k, the journey it starts after, and so on.
ChainFrom(k) ==
  {m \in J : \A chain \in SUBSET J :
     k \in chain /\ (\A n \in chain : journey[n].after \in chain \cup {None}) => m \in chain}

\* _validate_prerequisite walks the chain from k and refuses to come back to j.
MayStartAfter(j, k) == k = None \/ (k \in Before[j] /\ journey[k].status # "none" /\ j \notin ChainFrom(k))

\* _publish_ready_courses: a journey's course becomes a live course whose rule matches nobody.
MadeLive(cs) ==
  [c \in Courses |-> IF c \notin cs THEN course[c]
                     ELSE [published |-> TRUE, rule |-> IF course[c].rule = "none" THEN "nobody" ELSE course[c].rule,
                           on |-> course[c].rule = "none" \/ course[c].on]]

Create(j) ==
  /\ Act /\ journey[j].status = "none"
  /\ journey' = [journey EXCEPT ![j] = [NoJourney EXCEPT !.status = "draft"]]
  /\ UNCHANGED <<observes, course, employed, progress, enrolment, certs, pending, sync>>

\* A copy leaves out what could not be added today; rule and prerequisite are copied.
Duplicate(j, k) ==
  /\ Act /\ journey[j].status = "none" /\ journey[k].status # "none"
  /\ LET plan == journey[k].plan
         eligible == {i \in DOMAIN plan : Eligible(plan[i].course)}
     IN \E pick \in [1..Cardinality(eligible) -> eligible] :
          /\ \A m, n \in DOMAIN pick : m < n => pick[m] < pick[n]
          /\ journey' = [journey EXCEPT ![j] =
               [NoJourney EXCEPT !.status = "draft", !.after = journey[k].after,
                                 !.plan = [n \in DOMAIN pick |-> plan[pick[n]]]]]
  /\ UNCHANGED <<observes, course, employed, progress, enrolment, certs, pending, sync>>

\* _apply_new_deadline: learners who are under way get the new deadline on the row it has read.
UnderWay(r) == Active(r) /\ r.open /\ ~r.done

\* save_journey replaces details, steps and rule; apply_journey_rule makes the rule the live one.
Replaced(j, plan, after, live) ==
  [journey EXCEPT ![j].plan = plan, ![j].after = after, ![j].live = IF journey[j].status = "published" THEN live ELSE @]

\* Save replaces the plan; on a live journey it takes effect at once.
Save(j, plan, after, live, deadline) ==
  /\ Act /\ Free(j) /\ journey[j].status # "none"
  /\ \A c \in CoursesOf(plan) \ CoursesOf(journey[j].plan) : Eligible(c)
  /\ MayStartAfter(j, after)
  /\ LET published == journey[j].status = "published" IN
     /\ published /\ after \notin {None, journey[j].after} => journey[after].status = "published"
     /\ published \/ (~live /\ ~deadline)
     /\ journey' = Replaced(j, plan, after, live)
     /\ course' = IF published THEN MadeLive(CoursesOf(plan)) ELSE course
     /\ pending' = IF deadline /\ UnderWay(enrolment[j]) THEN [pending EXCEPT ![j] = enrolment[j]] ELSE pending
  /\ UNCHANGED <<observes, employed, progress, enrolment, certs, sync>>

PublishJourney(j, live) ==
  /\ Act /\ Free(j) /\ journey[j].status # "none"
  /\ journey[j].plan # <<>> /\ \A c \in CoursesOf(journey[j].plan) : Eligible(c)
  /\ journey[j].after # None => journey[journey[j].after].status = "published"
  /\ course' = MadeLive(CoursesOf(journey[j].plan))
  /\ journey' = [journey EXCEPT ![j].status = "published", ![j].live = live, ![j].was = TRUE]
  /\ UNCHANGED <<observes, employed, progress, enrolment, certs, pending, sync>>

\* Disable withdraws the journey from whoever holds it, on the rows it has read.
DisableJourney(j) ==
  /\ Act /\ Free(j) /\ journey[j].status = "published"
  /\ journey' = [journey EXCEPT ![j].status = "disabled"]
  /\ pending' = IF Active(enrolment[j]) THEN [pending EXCEPT ![j] = [enrolment[j] EXCEPT !.revoked = TRUE]] ELSE pending
  /\ UNCHANGED <<observes, course, employed, progress, enrolment, certs, sync>>

\* save_assignment of a row that Disable or a new deadline has read.
WriteBack(j) ==
  /\ ~Free(j)
  /\ enrolment' = [enrolment EXCEPT ![j] = pending[j]]
  /\ pending' = [pending EXCEPT ![j] = NotEnrolled]
  /\ calm' = {}
  /\ UNCHANGED <<journey, observes, course, employed, progress, certs, sync, acts>>

\* Only a journey that was never published and that nobody ever had.
Delete(j) ==
  /\ Act /\ Free(j) /\ journey[j].status # "none" /\ ~journey[j].was /\ ~enrolment[j].held
  /\ journey' = [k \in J |-> IF k = j THEN NoJourney
                             ELSE [journey[k] EXCEPT !.after = IF @ = j THEN None ELSE @]]
  /\ observes' = observes \ {j}
  /\ UNCHANGED <<course, employed, progress, enrolment, certs, pending, sync>>

\* The employee becomes an Observer of j unless the journey is theirs to learn, or ceases to be one.
SaveObservers(j) ==
  /\ Act /\ Free(j) /\ journey[j].status # "none"
  /\ observes' = IF j \in observes THEN observes \ {j} ELSE observes \cup {j}
  /\ j \notin observes => ~Active(enrolment[j])
  /\ UNCHANGED <<journey, course, employed, progress, enrolment, certs, pending, sync>>

\* api_disable_course_assignment, and Publish of a course's own rule (which also enables it).
DisableCourse(c) ==
  /\ Act /\ course[c].published /\ course[c].rule # "none" /\ course[c].on
  /\ course' = [course EXCEPT ![c].on = FALSE]
  /\ progress' = [progress EXCEPT ![c].on = FALSE]
  /\ UNCHANGED <<journey, observes, employed, enrolment, certs, pending, sync>>

\* journeys_hold_course
HeldByJourney(c) == \E j \in LiveJourneys : Active(enrolment[j]) /\ c \in enrolment[j].unlocked

PublishCourse(c, rule) ==
  /\ Act
  /\ course' = [course EXCEPT ![c] = [published |-> TRUE, rule |-> rule, on |-> TRUE]]
  /\ progress' = [progress EXCEPT ![c] =
       IF rule = "mine" /\ employed THEN Given(@) ELSE [st |-> @.st, on |-> @.on /\ HeldByJourney(c)]]
  /\ UNCHANGED <<journey, observes, employed, enrolment, certs, pending, sync>>

\* The directory takes the employee out, or back in.
Employment ==
  /\ Act /\ employed' = ~employed
  /\ UNCHANGED <<journey, observes, course, progress, enrolment, certs, pending, sync>>

Learn(c) ==
  /\ progress[c].on /\ progress[c].st \in {"pending", "started"}
  /\ progress' = [progress EXCEPT ![c].st = IF @ = "pending" THEN "started" ELSE "passed"]
  /\ calm' = {}
  /\ UNCHANGED <<trainer, employed, enrolment, certs, sync>>

\* A download or a check of the number issues what was not stored at completion.
Download(j) ==
  /\ enrolment[j].done /\ journey[j].status # "none"
  /\ certs' = Issued(j, Naming(j, NotEnrolled, enrolment[j]))
  /\ UNCHANGED <<trainer, employed, progress, enrolment, sync, calm>>

TrainerActs ==
  \/ \E j \in J :
       \/ Create(j) \/ DisableJourney(j) \/ WriteBack(j) \/ Delete(j) \/ SaveObservers(j)
       \/ \E k \in J : Duplicate(j, k)
       \/ \E live \in BOOLEAN : PublishJourney(j, live)
       \/ \E plan \in Plans, after \in Before[j] \cup {None}, live \in BOOLEAN, deadline \in BOOLEAN :
            Save(j, plan, after, live, deadline)
  \/ \E c \in Courses : DisableCourse(c) \/ \E rule \in {"nobody", "mine"} : PublishCourse(c, rule)

JourneysNext ==
  \/ TrainerActs \/ Employment
  \/ \E c \in Courses : Learn(c)
  \/ \E j \in J : Download(j)
  \/ \E s \in Syncs : Sync(s)

JourneysSpec == JourneysInit /\ [][JourneysNext]_journeyVars

----------------------------------------------------------------------------
(* What the learner's page and the trainer's report show of the same rows.  Both evaluate *)
(* without storing; what a removed learner or a disabled journey would reach does not count. *)

StatusOf(r) == IF r.done THEN "completed" ELSE IF r.open THEN "open" ELSE "waiting"

Hidden == [status |-> "hidden", certificate |-> FALSE]

\* learner_journeys: a completed journey stays, closed, after it was disabled or withdrawn.
LearnerView(j) ==
  IF j \in LiveJourneys /\ Active(enrolment[j])
    THEN [status |-> StatusOf(Evaluated(enrolment, Passed(progress))[j]), certificate |-> enrolment[j].done]
  ELSE IF enrolment[j].done /\ journey[j].status # "none" THEN [status |-> "completed", certificate |-> TRUE]
  ELSE Hidden

\* _report_rows evaluates a removed learner as if still enrolled, to show how far they got.
AsIfEnrolled(j) ==
  LET enrolled == [enrolment EXCEPT ![j].revoked = FALSE]
      passed == Passed(progress)
  IN [enrolled[j] EXCEPT !.done = @ \/ (enrolled[j].open /\ Complete(journey[j].plan, passed))]

ReportSnapshotLate(j) == [status |-> StatusOf(AsIfEnrolled(j)), certificate |-> enrolment[j].done]

\* _learner_row of a snapshot: completion comes from the stored row alone.
ReportSnapshot(j) ==
  [status |-> IF enrolment[j].done THEN "completed" ELSE IF enrolment[j].revoked THEN "removed"
              ELSE IF AsIfEnrolled(j).open THEN "open" ELSE "waiting",
   certificate |-> enrolment[j].done]

ReportView(j) ==
  IF ~enrolment[j].held THEN Hidden
  ELSE IF enrolment[j].revoked \/ j \notin LiveJourneys THEN ReportSnapshot(j)
  ELSE [status |-> StatusOf(Evaluated(enrolment, Passed(progress))[j]), certificate |-> enrolment[j].done]

----------------------------------------------------------------------------
\* The rows of journeys, courses, progress and journey assignments keep their types.
JourneysTypeOK ==
  /\ \A j \in J : /\ journey[j].status \in {"none", "draft", "published", "disabled"}
                  /\ journey[j].after \in J \cup {None} /\ journey[j].live \in BOOLEAN
                  /\ certs[j] = None \/ certs[j] \subseteq Courses
  /\ course \in [Courses -> [published : BOOLEAN, rule : Rules, on : BOOLEAN]]
  /\ progress \in [Courses -> [st : {"none", "pending", "started", "passed"}, on : BOOLEAN]]
  /\ \A c \in Courses : progress[c].on => progress[c].st # "none"
  /\ enrolment \in [J -> Enrolments] /\ pending \in [J -> Enrolments]

Mine(j) == employed /\ j \in LiveJourneys /\ Active(enrolment[j])

\* What the learner's journeys give now.
Gives(j) == IF Mine(j) /\ enrolment[j].open
              THEN Unlocked(journey[j].plan, Passed(progress), TRUE, enrolment[j].unlocked) ELSE {}

\* A reconciliation that nobody disturbed has ended, and nobody has written since.
Settled == \E s \in calm : sync[s].phase = "idle"

\* Whatever requests, reconciliations and stale rows crossed before, one undisturbed
\* reconciliation repairs it: the learner has every course that a journey has unlocked and
\* that is offered.
UnlockedIsGiven == Settled => \A j \in J : \A c \in Gives(j) : progress[c].on

\* And after it he has no course that neither the course's own rule nor a journey gives, except one that a
\* trainer has removed from a journey and the learner had begun.
UnbackedIsWithdrawn ==
  Settled => \A c \in Courses : progress[c].on =>
    /\ employed
    /\ \/ ByRule(c)
       \/ \E j \in J : c \in Gives(j)
       \/ \E j \in J : Mine(j) /\ c \in enrolment[j].unlocked \ CoursesOf(journey[j].plan) /\ progress[c].st # "pending"

\* The trainer's report calls a journey completed exactly when the learner's page does, in every
\* state of a withdrawal, and both offer a certificate exactly when one can be downloaded.
ReportsAgree ==
  \A j \in J : /\ (LearnerView(j).status = "completed") = (ReportView(j).status = "completed")
               /\ LearnerView(j).certificate = ReportView(j).certificate

\* "A completed journey stays completed, so its certificate is never withdrawn."
JourneyStaysCompleted == [][\A j \in J : enrolment[j].done => enrolment'[j].done]_journeyVars

=============================================================================
