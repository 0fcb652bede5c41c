---------------------------- MODULE DocumentDrafts ----------------------------
(***************************************************************************)
(* One training document of the document builder: its revisions, the       *)
(* browser tabs that edit it (draftPersistence.ts) and the operations a    *)
(* single background thread runs for it (workflow_jobs.py).                *)
(*                                                                         *)
(* A text is the set of edits it contains and the edit that last changed   *)
(* its outline (outline_fingerprint); an edit is <<who made it, number>>.  *)
(* A request of a tab, from its transaction to the answer, is one step,    *)
(* except for the saves, during which the trainer types on.                *)
(***************************************************************************)
EXTENDS Integers, Sequences, FiniteSets, SequencesExt

CONSTANTS Tabs,         \* browser tabs
          Typists,      \* those in which the trainer types
          Ops,          \* operations that may be asked for
          None,
          MaxRevision,  \* bound: revisions of the draft
          MaxTyped      \* bound: edits typed in one tab

ASSUME DraftsAssumption ==
    /\ Tabs \cap Ops = {} /\ Typists \subseteq Tabs /\ IsFiniteSet(Ops)
    /\ None \notin (Tabs \cup Ops \cup {None}) \X Nat
    /\ {MaxRevision, MaxTyped} \subseteq Nat \ {0}

VARIABLES
    hist,     \* document_builder_revisions; the last one is the draft
    approved, \* approved_outline
    removed,  \* a row in document_builder_removed_drafts
    issues,   \* extraction issues of the sources: "none", "open", "acknowledged"
    op,       \* document_builder_operations
    queue,    \* what the executor has not begun
    job,      \* the run of the executor's thread
    tab       \* state of DraftPersistence

drafts == <<hist, approved, removed, issues>>
work == <<op, queue, job>>
vars == <<drafts, work, tab>>

Tasks == {"draft", "suggest", "import"}
Pending == {"queued", "running"}
Settled == {"cancelled", "accepted", "rejected"}

Revision == Len(hist)
Text == Last(hist)
NoOp == [status |-> "none", task |-> "none", expected |-> 0, old |-> FALSE]
Idle == [op |-> None, pc |-> "idle", rev |-> 0]
Empty == [edits |-> {}, outline |-> <<None, 0>>]
Nothing == [rev |-> 0, text |-> Empty]

Init ==
    /\ hist = <<Empty>>
    /\ approved = None
    /\ removed = FALSE
    /\ issues = "none"
    /\ op = [o \in Ops |-> NoOp]
    /\ queue = <<>>
    /\ job = Idle
    /\ tab = [t \in Tabs |-> [rev |-> 1, text |-> Empty, typed |-> 0, dirty |-> FALSE,
                              sent |-> Nothing, newer |-> FALSE, answer |-> 0, checked |-> FALSE]]

-----------------------------------------------------------------------------
(* The repository.                                                         *)

\* Mutant: the revision is not compared.
LockedAtAnyRevision(expected) == ~removed
\* _locked: the draft is there and nobody has written it since.
Locked(expected) == ~removed /\ Revision = expected

\* _write: a new revision, with its snapshot.
Write(text, approval) ==
    /\ Revision < MaxRevision
    /\ hist' = Append(hist, text)
    /\ approved' = approval

Added(text, edit, restructures) ==
    [edits |-> text.edits \cup {edit}, outline |-> IF restructures THEN edit ELSE text.outline]

\* Approval survives what leaves the outline alone.
Approval(text) == IF text.outline = Text.outline THEN approved ELSE None

\* update_operation: a settled operation stays, and only a pending one is cancelled.
Updated(o, status) ==
    IF \/ op[o].status \in Settled
       \/ status = "cancelled" /\ op[o].status \notin Pending
    THEN op ELSE [op EXCEPT ![o].status = status, ![o].old = FALSE]

-----------------------------------------------------------------------------
(* A browser tab.                                                          *)

Clean(t) == ~tab[t].dirty /\ tab[t].sent = Nothing /\ ~tab[t].checked

\* load: what the server answered replaces what the tab shows.
Loaded(t, rev, text) ==
    [tab[t] EXCEPT !.rev = rev, !.text = text, !.dirty = FALSE, !.checked = FALSE]

\* The tab's view of operations: while one is pending, and while a request of
\* its own is under way, the editor is disabled.
Working(t) == tab[t].checked \/ \E o \in Ops : op[o].status \in Pending

Type(t, restructures) ==
    /\ t \in Typists /\ ~Working(t)
    /\ tab[t].typed < MaxTyped
    /\ tab' = [tab EXCEPT ![t].typed = @ + 1, ![t].dirty = TRUE, ![t].newer = TRUE,
                          ![t].text = Added(@, <<t, tab[t].typed + 1>>, restructures)]
    /\ UNCHANGED <<drafts, work>>

\* save, up to the request.
SendSave(t) ==
    /\ tab[t].dirty /\ tab[t].sent = Nothing
    /\ tab' = [tab EXCEPT ![t].sent = [rev |-> tab[t].rev, text |-> tab[t].text],
                          ![t].newer = FALSE, ![t].answer = 0]
    /\ UNCHANGED <<drafts, work>>

\* DocumentDraftRepository.save.
Save(t) ==
    /\ tab[t].sent # Nothing /\ tab[t].answer = 0
    /\ Locked(tab[t].sent.rev)
    /\ Write(tab[t].sent.text, Approval(tab[t].sent.text))
    /\ tab' = [tab EXCEPT ![t].answer = Revision + 1]
    /\ UNCHANGED <<removed, issues, work>>

\* Mutant: the server's echo is shown whatever was typed meanwhile.
EchoedAlways(t) ==
    [tab[t] EXCEPT !.rev = tab[t].answer, !.text = tab[t].sent.text, !.dirty = FALSE, !.sent = Nothing]
\* The answer to a save.  Edits typed since stay, over the new revision.
Answered(t) ==
    IF tab[t].newer THEN [tab[t] EXCEPT !.rev = tab[t].answer, !.dirty = TRUE, !.sent = Nothing]
    ELSE [tab[t] EXCEPT !.rev = tab[t].answer, !.text = tab[t].sent.text, !.dirty = FALSE, !.sent = Nothing]

SaveAnswered(t) ==
    /\ tab[t].sent # Nothing /\ tab[t].answer # 0
    /\ tab' = [tab EXCEPT ![t] = Answered(t)]
    /\ UNCHANGED <<drafts, work>>

\* The save is refused, or its answer is lost: the edits stay unsaved over the
\* revision they had.
SaveFails(t) ==
    /\ tab[t].sent # Nothing
    /\ tab[t].answer = 0 => ~Locked(tab[t].sent.rev)
    /\ tab' = [tab EXCEPT ![t].sent = Nothing, ![t].dirty = TRUE]
    /\ UNCHANGED <<drafts, work>>

\* The page is opened again, or reads the draft an operation has completed.
Reload(t) ==
    /\ ~removed /\ tab[t].sent = Nothing
    /\ tab[t].dirty => tab[t].rev # Revision
    /\ tab' = [tab EXCEPT ![t] = Loaded(t, Revision, Text)]
    /\ UNCHANGED <<drafts, work>>

\* approve: the sources are read before the draft is locked.
CheckSources(t) ==
    /\ Clean(t) /\ ~Working(t)
    /\ ~removed /\ issues # "open"
    /\ tab' = [tab EXCEPT ![t].checked = TRUE]
    /\ UNCHANGED <<drafts, work>>

Approve(t) ==
    /\ tab[t].checked
    /\ IF Locked(tab[t].rev) /\ approved # Text.outline
       THEN /\ Write(Text, Text.outline)
            /\ tab' = [tab EXCEPT ![t] = Loaded(t, Revision + 1, Text)]
       ELSE tab' = [tab EXCEPT ![t].checked = FALSE] /\ UNCHANGED <<hist, approved>>
    /\ UNCHANGED <<removed, issues, work>>

Restore(t, revision) ==
    /\ Clean(t) /\ ~Working(t)
    /\ Locked(tab[t].rev) /\ revision < Revision
    /\ Write(hist[revision], None)
    /\ tab' = [tab EXCEPT ![t] = Loaded(t, Revision + 1, hist[revision])]
    /\ UNCHANGED <<removed, issues, work>>

\* Mutant: taking an acknowledgement back leaves the approval.
KeptApproval == approved
\* What is left of the approval when the sources change.
Unapproved == None

Acknowledge(t, yes) ==
    /\ Clean(t) /\ ~Working(t)
    /\ Locked(tab[t].rev) /\ issues # "none"
    /\ issues' = IF yes THEN "acknowledged" ELSE "open"
    /\ Write(Text, Unapproved)
    /\ tab' = [tab EXCEPT ![t] = Loaded(t, Revision + 1, Text)]
    /\ UNCHANGED <<removed, work>>

RemoveDraft(t) ==
    /\ Locked(tab[t].rev)
    /\ \A o \in Ops : op[o].status \notin Pending
    /\ removed' = TRUE
    /\ UNCHANGED <<hist, approved, issues, work, tab>>

UndoRemove(t) ==
    /\ removed /\ tab[t].rev = Revision
    /\ removed' = FALSE
    /\ UNCHANGED <<hist, approved, issues, work, tab>>

\* WorkflowJobs.start and start_operation.
StartOperation(t, o, task) ==
    /\ Clean(t) /\ ~Working(t)
    /\ Locked(tab[t].rev)
    /\ op[o].status = "none"
    /\ \A p \in Ops : op[p].status \notin Pending
    /\ task = "draft" => approved = Text.outline
    /\ op' = [op EXCEPT ![o] = [status |-> "queued", task |-> task, expected |-> Revision, old |-> FALSE]]
    /\ queue' = Append(queue, o)
    /\ UNCHANGED <<drafts, job, tab>>

\* cancel_operation, reject_proposal.
Decide(o, status) ==
    /\ ~removed /\ op[o].status # "none"
    /\ (status = "cancelled") = (op[o].status \in Pending)
    /\ op' = Updated(o, status)
    /\ UNCHANGED <<drafts, queue, job, tab>>

\* accept_operation and what apply does to the text.
Accept(t, o, restructures) ==
    /\ Clean(t) /\ ~Working(t)
    /\ Locked(tab[t].rev)
    /\ op[o].status = "proposed" /\ op[o].expected = tab[t].rev
    /\ LET text == Added(Text, <<o, Revision + 1>>, restructures)
       IN /\ Write(text, Approval(text))
          /\ tab' = [tab EXCEPT ![t] = Loaded(t, Revision + 1, text)]
    /\ op' = [op EXCEPT ![o].status = "accepted"]
    /\ UNCHANGED <<removed, issues, queue, job>>

\* operation: what has run for ten minutes without a word is given up.
Expired(o) == op[o].status = "running" /\ op[o].old
Poll(o) ==
    /\ ~removed /\ Expired(o)
    /\ op' = Updated(o, "failed")
    /\ UNCHANGED <<drafts, queue, job, tab>>

Tab(t) ==
    \/ SendSave(t) \/ Save(t) \/ SaveAnswered(t) \/ SaveFails(t) \/ Reload(t)
    \/ CheckSources(t) \/ Approve(t) \/ RemoveDraft(t) \/ UndoRemove(t)
    \/ \E yes \in BOOLEAN : Type(t, yes) \/ Acknowledge(t, yes) \/ \E o \in Ops : Accept(t, o, yes)
    \/ \E r \in 1..MaxRevision : Restore(t, r)
    \/ \E o \in Ops, task \in Tasks : StartOperation(t, o, task)

-----------------------------------------------------------------------------
(* The executor's thread: WorkflowJobs.run.                                *)

Goes(pc) == job' = [job EXCEPT !.pc = pc]

\* The thread leaves run; what it had to say of the operation is `result`.
Leaves(result) == job' = Idle /\ op' = result

\* claim_operation; an operation that is no longer queued is left alone.
Claim ==
    /\ job = Idle /\ queue # <<>>
    /\ queue' = Tail(queue)
    /\ LET o == Head(queue)
       IN IF removed \/ op[o].status # "queued" THEN UNCHANGED <<op, job>>
          ELSE /\ op' = [op EXCEPT ![o].status = "running", ![o].old = FALSE]
               /\ job' = [op |-> o, pc |-> "begin", rev |-> 0]
    /\ UNCHANGED <<drafts, tab>>

\* Whatever the thread asks of a removed draft raises, in the handler too.
Abandons ==
    /\ job # Idle /\ removed
    /\ Leaves(op)
    /\ UNCHANGED <<drafts, queue, tab>>

BeginRun ==
    /\ job.pc = "begin" /\ ~removed
    /\ IF Revision # op[job.op].expected THEN Leaves(Updated(job.op, "failed"))
       ELSE /\ op' = Updated(job.op, "running")
            /\ job' = [job EXCEPT !.pc = "model", !.rev = Revision]
    /\ UNCHANGED <<drafts, queue, tab>>

\* The model's answer, and the look whether the operation still stands; the look
\* itself gives up an operation that took too long.
ModelAnswers ==
    /\ job.pc = "model" /\ ~removed
    /\ IF Expired(job.op) THEN Leaves(Updated(job.op, "failed"))
       ELSE IF op[job.op].status \notin Pending THEN Leaves(op)
       ELSE Goes("store") /\ UNCHANGED op
    /\ UNCHANGED <<drafts, queue, tab>>

\* The model, or the source's extraction, fails.
ModelFails ==
    /\ job.pc = "model" /\ ~removed
    /\ Leaves(Updated(job.op, "failed"))
    /\ UNCHANGED <<drafts, queue, tab>>

\* Mutant: whether the operation was cancelled is not looked at again.
StillRunningAsked(o) == op[o].status # "none"
\* What save_generated and import_content ask of the operation.
StillRunning(o) == op[o].status = "running"

\* save_generated: a module's text; the approval is handed on as it is.
StoreModule(restructures) ==
    /\ job.pc = "store" /\ ~removed /\ op[job.op].task = "draft"
    /\ IF Locked(job.rev) /\ StillRunning(job.op)
       THEN LET base == hist[job.rev]
                text == Added(base, <<job.op, Revision + 1>>, restructures)
            IN /\ Write(text, approved)
               /\ job' = [job EXCEPT !.pc = "stored", !.rev = Revision + 1]
               /\ op' = op
       ELSE Leaves(Updated(job.op, "failed")) /\ UNCHANGED <<hist, approved>>
    /\ UNCHANGED <<removed, issues, queue, tab>>

\* The next module, or the end.
NextModule ==
    /\ job.pc = "stored" /\ ~removed
    /\ \/ Goes("model") /\ op' = [op EXCEPT ![job.op].old = FALSE]
       \/ Leaves(Updated(job.op, "completed"))
    /\ UNCHANGED <<drafts, queue, tab>>

\* import_content, by the thread.
StoreImport(whole, problems) ==
    /\ job.pc = "store" /\ ~removed /\ op[job.op].task = "import"
    /\ whole => hist[job.rev].edits = {}
    /\ IF Locked(op[job.op].expected) /\ StillRunning(job.op)
       THEN /\ Write(IF whole THEN Added(Text, <<job.op, Revision + 1>>, TRUE) ELSE Text, Unapproved)
            /\ issues' = IF problems THEN "open" ELSE issues
            /\ Leaves([op EXCEPT ![job.op].status = "completed", ![job.op].old = FALSE])
       ELSE Leaves(Updated(job.op, "failed")) /\ UNCHANGED <<hist, approved, issues>>
    /\ UNCHANGED <<removed, queue, tab>>

\* A suggestion is offered if the draft is still what it was made for.
Propose ==
    /\ job.pc = "store" /\ ~removed /\ op[job.op].task = "suggest"
    /\ IF Revision # op[job.op].expected THEN Leaves(Updated(job.op, "failed"))
       ELSE Goes("offer") /\ UNCHANGED op
    /\ UNCHANGED <<drafts, queue, tab>>

Offer ==
    /\ job.pc = "offer" /\ ~removed
    /\ Leaves(Updated(job.op, "proposed"))
    /\ UNCHANGED <<drafts, queue, tab>>

Work ==
    \/ Claim \/ Abandons \/ BeginRun \/ ModelAnswers \/ ModelFails \/ NextModule \/ Propose \/ Offer
    \/ \E restructures \in BOOLEAN : StoreModule(restructures)
    \/ \E whole, problems \in BOOLEAN : StoreImport(whole, problems)

\* Ten minutes pass without an update of the operation.
Ages(o) ==
    /\ op[o].status = "running" /\ ~op[o].old
    /\ op' = [op EXCEPT ![o].old = TRUE]
    /\ UNCHANGED <<drafts, queue, job, tab>>

\* Mutant: only what was running is looked at.
NothingRecovered == {}
\* recover_operations: what a new process finds queued it runs again.
Recovered == {o \in Ops : op[o].status = "queued"}

Restart ==
    /\ queue' \in SetToSeqs(Recovered)
    /\ op' = [o \in Ops |-> IF Expired(o) THEN [op[o] EXCEPT !.status = "failed", !.old = FALSE] ELSE op[o]]
    /\ job' = Idle
    /\ UNCHANGED <<drafts, tab>>

-----------------------------------------------------------------------------
Next ==
    \/ \E t \in Tabs : Tab(t)
    \/ \E o \in Ops : Poll(o) \/ Ages(o) \/ Decide(o, "cancelled") \/ Decide(o, "rejected")
    \/ Work \/ Restart

Fairness == WF_vars(Work) /\ \A o \in Ops : WF_vars(Poll(o)) /\ WF_vars(Ages(o))
Spec == Init /\ [][Next]_vars /\ Fairness

-----------------------------------------------------------------------------
(* Properties.                                                             *)

Edits == (Tabs \cup Ops) \X Nat
Texts == [edits : SUBSET Edits, outline : (Tabs \cup Ops \cup {None}) \X Nat]
TabState == [rev : Nat, text : Texts, typed : 0..MaxTyped, dirty : BOOLEAN,
             sent : [rev : Nat, text : Texts], newer : BOOLEAN, answer : Nat, checked : BOOLEAN]
Operation == [status : Pending \cup Settled \cup {"none", "proposed", "completed", "failed"},
              task : Tasks \cup {"none"}, expected : Nat, old : BOOLEAN]
Job == [op : Ops \cup {None}, rev : Nat,
        pc : {"idle", "begin", "model", "store", "stored", "offer"}]

TypeOK ==
    /\ hist \in Seq(Texts) /\ Len(hist) \in 1..MaxRevision
    /\ approved \in {None} \cup ((Tabs \cup Ops \cup {None}) \X Nat)
    /\ removed \in BOOLEAN
    /\ issues \in {"none", "open", "acknowledged"}
    /\ op \in [Ops -> Operation]
    /\ queue \in Seq(Ops)
    /\ job \in Job
    /\ tab \in [Tabs -> TabState]

\* Whatever tabs, suggestions, drafting and imports write, what the draft
\* contained stays in it, unless the trainer goes back to a revision
\* (the revision checks of _locked).
NoEditLost ==
    [][hist' # hist => \/ Text.edits \subseteq Text'.edits
                       \/ \E i \in DOMAIN hist : Text' = hist[i]]_vars

\* What was typed in a tab and not saved yet is overwritten by no answer
\* (DraftPersistence); only a tab whose revision is out of date drops it, by
\* being loaded again.
TypingIsKept ==
    [][\A t \in Tabs :
          \/ tab[t].text.edits \subseteq tab'[t].text.edits \cup UNION {hist'[i].edits : i \in DOMAIN hist'}
          \/ tab[t].rev # Revision /\ tab'[t].rev = Revision]_vars

\* An operation that was cancelled or rejected adds nothing to the draft any
\* more, however far its run had come (save_generated, import_content).
CancelledIsQuiet ==
    [][\A o \in Ops : op[o].status \in {"cancelled", "rejected"} =>
          {e \in Text'.edits : e[1] = o} \subseteq UNION {hist[i].edits : i \in DOMAIN hist}]_vars

\* The approved outline never rests on sources whose problems nobody has
\* acknowledged, although approve reads them before it locks the draft.
ApprovalIsReviewed == approved = Text.outline => issues # "open"

\* Every operation ends and lets the next one start, through restarts at any
\* point, as long as somebody looks after it.
OperationsEnd == \A o \in Ops : op[o].status \in Pending ~> op[o].status \notin Pending
=============================================================================
