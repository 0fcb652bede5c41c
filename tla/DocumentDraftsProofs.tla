------------------------- MODULE DocumentDraftsProofs -------------------------
(***************************************************************************)
(* Proofs about DocumentDrafts, for any tabs, operations and bounds.       *)
(*                                                                         *)
(* The invariant relates what every tab holds to the history h: a tab's    *)
(* text contains the revision it says it is over, what it has sent         *)
(* contains the revision it was sent over, edits of operations are in the  *)
(* history before any tab has them, what was not typed is in the history,  *)
(* and a look at the sources that was made over the newest revision is     *)
(* still right.                                                            *)
(***************************************************************************)
EXTENDS DocumentDrafts, SequenceTheorems, FiniteSetTheorems, TLAPS

Outlines == (Tabs \cup Ops \cup {None}) \X Nat

Known(h, text) == \A e \in text.edits : e[1] \in Tabs \/ \E i \in 1..Len(h) : e \in h[i].edits
Numbered(h, outline) == outline[1] \in Ops => outline[2] <= Len(h)
Over(h, rev, text) ==
    /\ rev \in 1..Len(h) /\ h[rev].edits \subseteq text.edits
    /\ Known(h, text) /\ Numbered(h, text.outline)

SentOK(h, s) ==
    /\ Over(h, s.sent.rev, s.sent.text)
    /\ s.sent.text.edits \subseteq s.text.edits
    /\ ~s.newer => s.text = s.sent.text
    /\ s.answer # 0 => s.answer \in 1..Len(h) /\ h[s.answer] = s.sent.text

TabOK(h, problems, s) ==
    /\ Over(h, s.rev, s.text)
    /\ s.sent # Nothing => SentOK(h, s)
    /\ ~s.dirty => s.sent = Nothing /\ s.text.edits \subseteq h[s.rev].edits
    /\ s.checked => ~s.dirty
    /\ s.checked /\ s.rev = Len(h) => problems # "open"

HistoryOK(h, approval, problems) ==
    /\ h \in Seq(Texts) /\ Len(h) \in 1..MaxRevision
    /\ \A i \in 1..Len(h) : Numbered(h, h[i].outline)
    /\ approval \in {None} \cup Outlines
    /\ approval # None => Numbered(h, approval)
    /\ problems \in {"none", "open", "acknowledged"}
    /\ approval = h[Len(h)].outline => problems # "open"

DraftInv ==
    /\ HistoryOK(hist, approved, issues) /\ removed \in BOOLEAN
    /\ tab \in [Tabs -> TabState] /\ \A t \in Tabs : TabOK(hist, issues, tab[t])

WorkInv ==
    /\ op \in [Ops -> Operation] /\ queue \in Seq(Ops) /\ job \in Job
    /\ job # Idle => job.op \in Ops

DraftsInv == DraftInv /\ WorkInv

-----------------------------------------------------------------------------
(* Texts, and a history that grows.                                        *)

LEMMA Numbers == MaxRevision \in Nat /\ MaxRevision > 0 /\ MaxTyped \in Nat /\ MaxTyped > 0
  BY DraftsAssumption DEF DraftsAssumption

LEMMA NoneIsNoOutline == None \notin Outlines
  BY DraftsAssumption DEF DraftsAssumption, Outlines

LEMMA EmptyIsText == Empty \in Texts
  BY DEF Empty, Texts

LEMMA AddedType ==
    ASSUME NEW text \in Texts, NEW edit \in Edits, NEW restructures \in BOOLEAN
    PROVE  /\ Added(text, edit, restructures) \in Texts
           /\ Added(text, edit, restructures).edits = text.edits \cup {edit}
           /\ Added(text, edit, restructures).outline = IF restructures THEN edit ELSE text.outline
<1> DEFINE outline == IF restructures THEN edit ELSE text.outline
<1>1. outline \in Outlines
  BY DEF Edits, Texts, Outlines
<1>2. text.edits \cup {edit} \in SUBSET Edits
  BY DEF Texts
<1>3. Added(text, edit, restructures) = [edits |-> text.edits \cup {edit}, outline |-> outline]
  BY DEF Added
<1> HIDE DEF outline
<1>4. Added(text, edit, restructures) \in Texts
  BY <1>1, <1>2, <1>3 DEF Texts, Outlines
<1>5. Added(text, edit, restructures).edits = text.edits \cup {edit}
      /\ Added(text, edit, restructures).outline = outline
  BY <1>3
<1> QED
  BY <1>4, <1>5 DEF outline

LEMMA Newest ==
    ASSUME DraftInv
    PROVE  /\ Len(hist) \in Nat /\ Len(hist) >= 1 /\ Revision = Len(hist)
           /\ Text = hist[Len(hist)] /\ Text \in Texts /\ Text.outline \in Outlines
<1>1. hist \in Seq(Texts) /\ Len(hist) \in 1..MaxRevision
  BY DEF DraftInv, HistoryOK
<1>2. Text = hist[Len(hist)]
  BY DEF Text, Last
<1>3. Text \in Texts
  BY <1>1, <1>2
<1> QED
  BY <1>1, <1>2, <1>3, Numbers DEF Revision, Texts, Outlines

\* What holds over a history holds over a longer one.
LEMMA OverGrown ==
    ASSUME NEW h \in Seq(Texts), NEW new \in Texts, NEW rev, NEW text \in Texts, Over(h, rev, text)
    PROVE  Over(Append(h, new), rev, text) /\ Append(h, new)[rev] = h[rev]
<1>1. /\ Len(Append(h, new)) = Len(h) + 1 /\ Len(h) \in Nat
      /\ \A i \in 1..Len(h) : Append(h, new)[i] = h[i]
  BY AppendProperties
<1>2. rev \in 1..Len(Append(h, new)) /\ Append(h, new)[rev] = h[rev]
  BY <1>1 DEF Over
<1>3. Known(Append(h, new), text)
  BY <1>1 DEF Over, Known
<1>4. Numbered(Append(h, new), text.outline)
  BY <1>1 DEF Over, Numbered, Texts
<1> QED
  BY <1>2, <1>3, <1>4 DEF Over

LEMMA TabGrown ==
    ASSUME NEW h \in Seq(Texts), NEW new \in Texts, NEW s \in TabState, NEW before, NEW after,
           TabOK(h, before, s)
    PROVE  TabOK(Append(h, new), after, s)
<1>1. /\ Len(Append(h, new)) = Len(h) + 1 /\ Len(h) \in Nat
      /\ \A i \in 1..Len(h) : Append(h, new)[i] = h[i]
  BY AppendProperties
<1>2. s.text \in Texts /\ s.sent.text \in Texts /\ s.answer \in Nat /\ s.rev \in Nat
  BY DEF TabState
<1>3. Over(Append(h, new), s.rev, s.text) /\ Append(h, new)[s.rev] = h[s.rev]
  BY ZenonT(60), <1>2, OverGrown DEF TabOK
<1>4. ASSUME s.sent # Nothing PROVE SentOK(Append(h, new), s)
  <2>1. SentOK(h, s)
    BY <1>4 DEF TabOK
  <2>2. Over(Append(h, new), s.sent.rev, s.sent.text)
    BY <2>1, <1>2, OverGrown DEF SentOK
  <2> QED
    BY <2>1, <2>2, <1>1 DEF SentOK
<1>5. s.rev # Len(Append(h, new))
  BY <1>1, <1>2 DEF TabOK, Over
<1> QED
  BY <1>3, <1>4, <1>5 DEF TabOK

\* A write: the new text and the new approval have to be right.
LEMMA WriteKeeps ==
    ASSUME DraftInv, NEW text \in Texts, NEW approval \in {None} \cup Outlines,
           Write(text, approval),
           text.outline[1] \in Ops => text.outline[2] <= Len(hist) + 1,
           approval # None /\ approval[1] \in Ops => approval[2] <= Len(hist) + 1,
           issues' \in {"none", "open", "acknowledged"},
           approval = text.outline => issues' # "open"
    PROVE  /\ HistoryOK(hist, approved, issues)' /\ hist' = Append(hist, text)
           /\ Len(hist') = Len(hist) + 1 /\ hist'[Len(hist')] = text /\ Text' = text
           /\ \A i \in 1..Len(hist) : hist'[i] = hist[i]
           /\ \A u \in Tabs : TabOK(hist', issues', tab[u])
<1> USE DEF Write
<1>1. hist \in Seq(Texts) /\ Len(hist) \in Nat /\ Len(hist) < MaxRevision
  BY Newest DEF DraftInv, HistoryOK
<1>2. /\ Append(hist, text) \in Seq(Texts) /\ Len(hist') = Len(hist) + 1
      /\ \A i \in 1..Len(hist) : hist'[i] = hist[i]
      /\ hist'[Len(hist) + 1] = text
  BY <1>1, AppendProperties
<1>3. ASSUME NEW i \in 1..Len(hist') PROVE Numbered(hist', hist'[i].outline)
  <2>1. CASE i = Len(hist) + 1
    BY <2>1, <1>2 DEF Numbered
  <2>2. CASE i # Len(hist) + 1
    <3>1. i \in 1..Len(hist) /\ hist[i] \in Texts
      BY <2>2, <1>1, <1>2
    <3>2. Numbered(hist, hist[i].outline) /\ hist[i].outline \in Outlines
      BY <3>1 DEF DraftInv, HistoryOK, Texts, Outlines
    <3> QED
      BY <3>1, <3>2, <1>1, <1>2 DEF Numbered, Outlines
  <2> QED
    BY <2>1, <2>2
<1>4. HistoryOK(hist', approved', issues')
  BY <1>1, <1>2, <1>3, Numbers DEF HistoryOK, Numbered
<1>5. ASSUME NEW u \in Tabs PROVE TabOK(hist', issues', tab[u])
  <2>1. tab[u] \in TabState /\ TabOK(hist, issues, tab[u])
    BY DEF DraftInv
  <2> QED
    BY <2>1, <1>1, TabGrown
<1>6. Text' = text
  BY <1>2 DEF Text, Last
<1> QED
  BY <1>2, <1>4, <1>5, <1>6

\* One tab changes, and with it perhaps the history.
LEMMA TabStep ==
    ASSUME DraftInv, NEW t \in Tabs, NEW new \in TabState, tab' = [tab EXCEPT ![t] = new],
           TabOK(hist', issues', new), removed' \in BOOLEAN, HistoryOK(hist, approved, issues)',
           \A u \in Tabs : TabOK(hist', issues', tab[u])
    PROVE  DraftInv'
<1>1. tab \in [Tabs -> TabState]
  BY DEF DraftInv
<1>2. tab' \in [Tabs -> TabState]
  BY <1>1
<1>3. ASSUME NEW u \in Tabs PROVE TabOK(hist', issues', tab'[u])
  BY <1>1
<1> QED
  BY <1>2, <1>3 DEF DraftInv

\* Nothing is written: the history stands.
LEMMA DraftsStand ==
    ASSUME DraftInv, UNCHANGED drafts
    PROVE  /\ HistoryOK(hist, approved, issues)' /\ removed' \in BOOLEAN
           /\ hist' = hist /\ issues' = issues
           /\ \A u \in Tabs : TabOK(hist', issues', tab[u])
  BY DEF DraftInv, drafts, HistoryOK

LEMMA InitInv == Init => DraftsInv
<1> SUFFICES ASSUME Init PROVE DraftsInv
  OBVIOUS
<1> USE DEF Init
<1>1. hist \in Seq(Texts) /\ Len(hist) = 1 /\ hist[1] = Empty
  BY EmptyIsText
<1>2. HistoryOK(hist, approved, issues)
  BY <1>1, Numbers, NoneIsNoOutline, DraftsAssumption DEF HistoryOK, Numbered, Empty, DraftsAssumption, Outlines
<1>3. ASSUME NEW t \in Tabs PROVE tab[t] \in TabState /\ TabOK(hist, issues, tab[t])
  <2>1. Over(hist, 1, Empty)
    BY <1>1 DEF Over, Known, Numbered, Empty
  <2>2. tab[t] \in TabState
    BY EmptyIsText, Numbers DEF TabState, Nothing
  <2>3. TabOK(hist, issues, tab[t])
    BY <1>1, <2>1 DEF TabOK
  <2> QED
    BY <2>2, <2>3
<1>4. tab \in [Tabs -> TabState]
  BY <1>3
<1>5. WorkInv
  BY DEF WorkInv, NoOp, Operation, Job, Idle
<1> QED
  BY <1>2, <1>3, <1>4, <1>5 DEF DraftsInv, DraftInv

-----------------------------------------------------------------------------
(* The steps of a tab.                                                     *)

LEMMA TabFacts ==
    ASSUME DraftInv, NEW t \in Tabs
    PROVE  /\ tab[t] \in TabState /\ TabOK(hist, issues, tab[t])
           /\ tab[t].text \in Texts /\ tab[t].sent.text \in Texts
           /\ tab[t].rev \in Nat /\ tab[t].answer \in Nat /\ tab[t].typed \in 0..MaxTyped
           /\ tab[t].sent.rev \in Nat
  BY DEF DraftInv, TabState

LEMMA TypeInv ==
    ASSUME DraftInv, NEW t \in Tabs, NEW restructures \in BOOLEAN, Type(t, restructures)
    PROVE  DraftInv'
<1> DEFINE edit == <<t, tab[t].typed + 1>>
           text == Added(tab[t].text, edit, restructures)
           new == [tab[t] EXCEPT !.typed = @ + 1, !.dirty = TRUE, !.newer = TRUE, !.text = text]
<1>1. edit \in Edits /\ edit[1] = t /\ t \notin Ops
  BY TabFacts, Numbers, DraftsAssumption DEF Edits, DraftsAssumption
<1>2. /\ text \in Texts /\ text.edits = tab[t].text.edits \cup {edit}
      /\ text.outline \in {edit, tab[t].text.outline}
  BY <1>1, TabFacts, AddedType
<1> HIDE DEF text
<1>3. tab' = [tab EXCEPT ![t] = new] /\ UNCHANGED drafts
  BY TabFacts DEF Type, text, DraftInv
<1>4. /\ new \in TabState /\ new.text = text /\ new.dirty /\ new.newer
      /\ new.rev = tab[t].rev /\ new.sent = tab[t].sent /\ new.answer = tab[t].answer
      /\ new.checked = tab[t].checked /\ ~new.checked
  <2>1. ~tab[t].checked /\ tab[t].typed + 1 \in 0..MaxTyped
    BY TabFacts, Numbers DEF Type, Working
  <2> QED
    BY <1>2, <2>1, TabFacts DEF TabState
<1>5. Over(hist, new.rev, text)
  <2>1. Over(hist, tab[t].rev, tab[t].text)
    BY TabFacts DEF TabOK
  <2>2. Known(hist, text)
    BY <1>1, <1>2, <2>1 DEF Over, Known
  <2>3. Numbered(hist, text.outline)
    BY <1>1, <1>2, <2>1 DEF Over, Numbered
  <2> QED
    BY <1>2, <1>4, <2>1, <2>2, <2>3 DEF Over
<1>6. new.sent # Nothing => SentOK(hist, new)
  BY <1>2, <1>4, TabFacts DEF TabOK, SentOK
<1> HIDE DEF new
<1>7. TabOK(hist, issues, new)
  BY <1>4, <1>5, <1>6 DEF TabOK
<1> QED
  BY <1>3, <1>4, <1>7, DraftsStand, TabStep

LEMMA SendSaveInv ==
    ASSUME DraftInv, NEW t \in Tabs, SendSave(t)
    PROVE  DraftInv'
<1> DEFINE new == [tab[t] EXCEPT !.sent = [rev |-> tab[t].rev, text |-> tab[t].text],
                                 !.newer = FALSE, !.answer = 0]
<1>1. tab' = [tab EXCEPT ![t] = new] /\ UNCHANGED drafts
  BY TabFacts DEF SendSave, DraftInv
<1>2. /\ new \in TabState /\ new.text = tab[t].text /\ new.dirty /\ ~new.newer /\ new.rev = tab[t].rev
      /\ new.sent.rev = tab[t].rev /\ new.sent.text = tab[t].text /\ new.answer = 0
      /\ new.checked = tab[t].checked
  BY TabFacts DEF SendSave, TabState
<1> HIDE DEF new
<1>3. Over(hist, new.rev, new.text) /\ ~new.checked
  BY <1>2, TabFacts DEF TabOK, SendSave
<1>4. SentOK(hist, new)
  BY <1>2, <1>3 DEF SentOK
<1>5. TabOK(hist, issues, new)
  BY <1>2, <1>3, <1>4 DEF TabOK
<1> QED
  BY <1>1, <1>2, <1>5, DraftsStand, TabStep

\* What a save, or an accepted offer, leaves of the approval.
LEMMA ApprovalFacts ==
    ASSUME DraftInv, NEW text \in Texts
    PROVE  /\ Approval(text) \in {None} \cup Outlines
           /\ Approval(text) # None /\ Approval(text)[1] \in Ops => Approval(text)[2] <= Len(hist) + 1
           /\ Approval(text) = text.outline => issues # "open"
<1>1. HistoryOK(hist, approved, issues) /\ Len(hist) \in Nat
  BY Newest DEF DraftInv
<1>2. text.outline # None
  BY NoneIsNoOutline DEF Texts, Outlines
<1>3. approved # None => approved \in Outlines /\ (approved[1] \in Ops => approved[2] <= Len(hist) + 1)
  <2>1. approved # None => approved \in Outlines /\ Numbered(hist, approved)
    BY <1>1 DEF HistoryOK
  <2>2. approved \in Outlines => approved[2] \in Nat
    BY DEF Outlines
  <2> QED
    BY <2>1, <2>2, <1>1 DEF Numbered
<1>4. CASE text.outline = Text.outline
  BY <1>1, <1>3, <1>4, Newest DEF Approval, HistoryOK
<1>5. CASE text.outline # Text.outline
  BY <1>2, <1>5 DEF Approval
<1> QED
  BY <1>4, <1>5

\* What a tab has sent may be written if its revision is the newest.
LEMMA SaveInv ==
    ASSUME DraftInv, NEW t \in Tabs, Save(t)
    PROVE  DraftInv'
<1> DEFINE text == tab[t].sent.text
           new == [tab[t] EXCEPT !.answer = Revision + 1]
<1>1. SentOK(hist, tab[t]) /\ text \in Texts /\ Len(hist) \in Nat /\ Revision = Len(hist)
  BY TabFacts, Newest DEF TabOK, Save
<1>2. /\ HistoryOK(hist, approved, issues)' /\ hist' = Append(hist, text) /\ Len(hist') = Len(hist) + 1
      /\ hist'[Len(hist')] = text
      /\ \A u \in Tabs : TabOK(hist', issues', tab[u])
  <2>1. text.outline[1] \in Ops => text.outline[2] <= Len(hist) + 1
    BY <1>1 DEF SentOK, Over, Numbered, Texts
  <2>2. issues' = issues /\ Write(text, Approval(text)) /\ issues \in {"none", "open", "acknowledged"}
    BY DEF Save, DraftInv, HistoryOK
  <2> QED
    BY <1>1, <2>1, <2>2, ApprovalFacts, WriteKeeps
<1>3. tab' = [tab EXCEPT ![t] = new]
  BY TabFacts DEF Save, DraftInv
<1>4. /\ new \in TabState /\ new.text = tab[t].text /\ new.dirty = tab[t].dirty /\ new.newer = tab[t].newer
      /\ new.rev = tab[t].rev /\ new.sent = tab[t].sent /\ new.answer = Len(hist) + 1
      /\ new.checked = tab[t].checked
  BY <1>1, TabFacts DEF TabState
<1> HIDE DEF new
<1>5. TabOK(hist', issues', tab[t])
  BY <1>2
<1>6. SentOK(hist', new)
  <2>1. tab[t].sent # Nothing
    BY DEF Save
  <2>2. SentOK(hist', tab[t])
    BY <1>5, <2>1 DEF TabOK
  <2>3. new.answer \in 1..Len(hist') /\ hist'[new.answer] = tab[t].sent.text
    BY <1>1, <1>2, <1>4
  <2> QED
    BY <1>4, <2>2, <2>3 DEF SentOK
<1>7. TabOK(hist', issues', new)
  BY <1>4, <1>5, <1>6 DEF TabOK
<1> QED
  BY <1>2, <1>3, <1>4, <1>7, TabStep DEF Save, DraftInv

LEMMA SaveAnsweredInv ==
    ASSUME DraftInv, NEW t \in Tabs, SaveAnswered(t)
    PROVE  DraftInv'
<1> DEFINE new == Answered(t)
<1>1. tab' = [tab EXCEPT ![t] = new] /\ UNCHANGED drafts
  BY DEF SaveAnswered
<1>2. SentOK(hist, tab[t]) /\ tab[t].answer \in 1..Len(hist) /\ hist[tab[t].answer] = tab[t].sent.text
  BY TabFacts DEF TabOK, SentOK, SaveAnswered
<1>3. tab[t].dirty /\ ~tab[t].checked
  BY TabFacts DEF TabOK, SaveAnswered
<1>4. /\ new \in TabState /\ new.rev = tab[t].answer /\ new.sent = Nothing /\ ~new.checked
      /\ new.text = IF tab[t].newer THEN tab[t].text ELSE tab[t].sent.text
      /\ new.dirty = tab[t].newer
  <2>1. Nothing \in [rev : Nat, text : Texts]
    BY EmptyIsText DEF Nothing
  <2>2. CASE tab[t].newer
    BY <1>3, <2>1, <2>2, TabFacts DEF Answered, TabState
  <2>3. CASE ~tab[t].newer
    BY <1>3, <2>1, <2>3, TabFacts DEF Answered, TabState
  <2> QED
    BY <2>2, <2>3
<1> HIDE DEF new
<1>5. Over(hist, tab[t].rev, tab[t].text) /\ tab[t].sent.text.edits \subseteq tab[t].text.edits
  BY <1>2, TabFacts DEF TabOK, SentOK
<1>6. Over(hist, new.rev, new.text)
  BY <1>2, <1>4, <1>5 DEF Over, SentOK
<1>7. TabOK(hist, issues, new)
  BY <1>2, <1>4, <1>6 DEF TabOK
<1> QED
  BY <1>1, <1>4, <1>7, DraftsStand, TabStep

LEMMA SaveFailsInv ==
    ASSUME DraftInv, NEW t \in Tabs, SaveFails(t)
    PROVE  DraftInv'
<1> DEFINE new == [tab[t] EXCEPT !.sent = Nothing, !.dirty = TRUE]
<1>1. tab' = [tab EXCEPT ![t] = new] /\ UNCHANGED drafts
  BY TabFacts DEF SaveFails, DraftInv
<1>2. Nothing \in [rev : Nat, text : Texts]
  BY EmptyIsText DEF Nothing
<1>3. /\ new \in TabState /\ new.text = tab[t].text /\ new.dirty /\ new.rev = tab[t].rev
      /\ new.sent = Nothing /\ new.checked = tab[t].checked
  BY <1>2, TabFacts DEF TabState
<1> HIDE DEF new
<1>4. TabOK(hist, issues, new)
  BY <1>3, TabFacts DEF TabOK, SaveFails
<1> QED
  BY <1>1, <1>3, <1>4, DraftsStand, TabStep

\* A tab that loads a revision shows what the history holds.
LEMMA LoadedOK ==
    ASSUME DraftInv, NEW t \in Tabs, NEW h, NEW approval, NEW problems,
           HistoryOK(h, approval, problems), NEW rev \in 1..Len(h), tab[t].sent = Nothing
    PROVE  /\ Loaded(t, rev, h[rev]) \in TabState
           /\ TabOK(h, problems, Loaded(t, rev, h[rev]))
<1> DEFINE new == Loaded(t, rev, h[rev])
<1>1. h[rev] \in Texts /\ rev \in Nat /\ Numbered(h, h[rev].outline)
  BY DEF HistoryOK
<1>2. /\ new \in TabState /\ new.rev = rev /\ new.text = h[rev] /\ new.dirty = FALSE
      /\ new.checked = FALSE /\ new.sent = Nothing
  BY <1>1, TabFacts DEF Loaded, TabState
<1> HIDE DEF new
<1>3. Over(h, new.rev, new.text)
  BY <1>1, <1>2 DEF Over, Known
<1>4. TabOK(h, problems, new)
  BY <1>2, <1>3 DEF TabOK
<1> QED
  BY <1>2, <1>4 DEF new

LEMMA ReloadInv ==
    ASSUME DraftInv, NEW t \in Tabs, Reload(t)
    PROVE  DraftInv'
<1> DEFINE new == Loaded(t, Revision, Text)
<1>1. tab' = [tab EXCEPT ![t] = new] /\ UNCHANGED drafts /\ tab[t].sent = Nothing
  BY DEF Reload
<1>2. HistoryOK(hist, approved, issues) /\ Revision \in 1..Len(hist) /\ Text = hist[Revision]
  BY Newest DEF DraftInv
<1>3. new \in TabState /\ TabOK(hist, issues, new)
  BY <1>1, <1>2, LoadedOK
<1> HIDE DEF new
<1> QED
  BY <1>1, <1>3, DraftsStand, TabStep

LEMMA CheckSourcesInv ==
    ASSUME DraftInv, NEW t \in Tabs, CheckSources(t)
    PROVE  DraftInv'
<1> DEFINE new == [tab[t] EXCEPT !.checked = TRUE]
<1>1. tab' = [tab EXCEPT ![t] = new] /\ UNCHANGED drafts
  BY TabFacts DEF CheckSources, DraftInv
<1>2. ~tab[t].dirty /\ tab[t].sent = Nothing /\ issues # "open"
  BY DEF CheckSources, Clean
<1>3. /\ new \in TabState /\ new.text = tab[t].text /\ ~new.dirty /\ new.rev = tab[t].rev
      /\ new.sent = Nothing
  BY <1>2, TabFacts DEF TabState
<1> HIDE DEF new
<1>4. TabOK(hist, issues, new)
  BY <1>2, <1>3, TabFacts DEF TabOK
<1> QED
  BY <1>1, <1>3, <1>4, DraftsStand, TabStep

\* A tab writes a text and loads it.
LEMMA WriteAndLoad ==
    ASSUME DraftInv, NEW t \in Tabs, NEW text \in Texts, NEW approval \in {None} \cup Outlines,
           Write(text, approval), tab[t].sent = Nothing, removed' = removed,
           tab' = [tab EXCEPT ![t] = Loaded(t, Revision + 1, text)],
           text.outline[1] \in Ops => text.outline[2] <= Len(hist) + 1,
           approval # None /\ approval[1] \in Ops => approval[2] <= Len(hist) + 1,
           issues' \in {"none", "open", "acknowledged"},
           approval = text.outline => issues' # "open"
    PROVE  DraftInv'
<1> DEFINE new == Loaded(t, Revision + 1, text)
<1>1. /\ HistoryOK(hist, approved, issues)' /\ Len(hist') = Len(hist) + 1 /\ hist'[Len(hist')] = text
      /\ \A u \in Tabs : TabOK(hist', issues', tab[u])
  BY WriteKeeps
<1>2. Revision + 1 \in 1..Len(hist') /\ text = hist'[Revision + 1]
  BY <1>1, Newest
<1>3. new \in TabState /\ TabOK(hist', issues', new)
  BY <1>1, <1>2, LoadedOK
<1>4. removed' \in BOOLEAN
  BY DEF DraftInv
<1> HIDE DEF new
<1> QED
  BY <1>1, <1>3, <1>4, TabStep DEF new

\* What the history says of its own texts.
LEMMA OfHistory ==
    ASSUME DraftInv, NEW i \in 1..Len(hist)
    PROVE  /\ hist[i] \in Texts /\ hist[i].outline \in Outlines
           /\ hist[i].outline[1] \in Ops => hist[i].outline[2] <= Len(hist) + 1
           /\ hist[i].outline # None
<1>1. hist[i] \in Texts /\ Numbered(hist, hist[i].outline) /\ Len(hist) \in Nat
  BY Newest DEF DraftInv, HistoryOK
<1>2. hist[i].outline \in Outlines /\ hist[i].outline[2] \in Nat
  BY <1>1 DEF Texts, Outlines
<1> QED
  BY <1>1, <1>2, NoneIsNoOutline DEF Numbered

LEMMA ApproveInv ==
    ASSUME DraftInv, NEW t \in Tabs, Approve(t)
    PROVE  DraftInv'
<1>1. tab[t].checked /\ removed' = removed /\ issues' = issues
  BY DEF Approve
<1>2. ~tab[t].dirty /\ tab[t].sent = Nothing
  BY <1>1, TabFacts DEF TabOK
<1>3. CASE Locked(tab[t].rev) /\ approved # Text.outline
  <2>1. /\ Write(Text, Text.outline)
        /\ tab' = [tab EXCEPT ![t] = Loaded(t, Revision + 1, Text)]
    BY <1>3 DEF Approve
  <2>2. Text = hist[Len(hist)] /\ Len(hist) \in 1..Len(hist) /\ tab[t].rev = Len(hist)
    BY <1>3, Newest DEF Locked
  <2>3. issues # "open"
    BY <1>1, <2>2, TabFacts DEF TabOK
  <2>4. issues' \in {"none", "open", "acknowledged"}
    BY <1>1 DEF DraftInv, HistoryOK
  <2> QED
    BY <1>1, <1>2, <2>1, <2>2, <2>3, <2>4, OfHistory, WriteAndLoad
<1>4. CASE ~(Locked(tab[t].rev) /\ approved # Text.outline)
  <2> DEFINE new == [tab[t] EXCEPT !.checked = FALSE]
  <2>1. tab' = [tab EXCEPT ![t].checked = FALSE] /\ UNCHANGED <<hist, approved>>
    BY <1>4 DEF Approve
  <2>2. tab' = [tab EXCEPT ![t] = new] /\ UNCHANGED drafts
    BY <1>1, <2>1, TabFacts DEF DraftInv, drafts
  <2>3. /\ new \in TabState /\ new.text = tab[t].text /\ new.dirty = tab[t].dirty
        /\ new.rev = tab[t].rev /\ new.sent = Nothing /\ ~new.checked
    BY <1>2, TabFacts DEF TabState
  <2> HIDE DEF new
  <2>4. TabOK(hist, issues, new)
    BY <1>2, <2>3, TabFacts DEF TabOK
  <2> QED
    BY <2>2, <2>3, <2>4, DraftsStand, TabStep
<1> QED
  BY <1>3, <1>4

LEMMA RestoreInv ==
    ASSUME DraftInv, NEW t \in Tabs, NEW r \in 1..MaxRevision, Restore(t, r)
    PROVE  DraftInv'
<1>1. r \in 1..Len(hist) /\ tab[t].sent = Nothing
  BY Newest, Numbers DEF Restore, Clean
<1>2. issues' \in {"none", "open", "acknowledged"} /\ removed' = removed
  BY DEF Restore, DraftInv, HistoryOK
<1>3. /\ Write(hist[r], None)
      /\ tab' = [tab EXCEPT ![t] = Loaded(t, Revision + 1, hist[r])]
  BY DEF Restore
<1> QED
  BY <1>1, <1>2, <1>3, OfHistory, WriteAndLoad

LEMMA AcknowledgeInv ==
    ASSUME DraftInv, NEW t \in Tabs, NEW yes \in BOOLEAN, Acknowledge(t, yes)
    PROVE  DraftInv'
<1>1. Text = hist[Len(hist)] /\ Len(hist) \in 1..Len(hist) /\ tab[t].sent = Nothing
  BY Newest DEF Acknowledge, Clean
<1>2. issues' \in {"none", "open", "acknowledged"} /\ removed' = removed
  BY DEF Acknowledge
<1>3. /\ Write(Text, None)
      /\ tab' = [tab EXCEPT ![t] = Loaded(t, Revision + 1, Text)]
  BY DEF Acknowledge, Unapproved
<1> QED
  BY <1>1, <1>2, <1>3, OfHistory, WriteAndLoad

\* The edit of an operation that is written now.
LEMMA NewEdit ==
    ASSUME DraftInv, NEW o \in Ops, NEW restructures \in BOOLEAN
    PROVE  LET text == Added(Text, <<o, Revision + 1>>, restructures)
           IN /\ text \in Texts /\ text.edits = Text.edits \cup {<<o, Revision + 1>>}
              /\ text.outline[1] \in Ops => text.outline[2] <= Len(hist) + 1
              /\ text.outline = Text.outline \/ text.outline = <<o, Len(hist) + 1>>
<1> DEFINE edit == <<o, Revision + 1>>
           text == Added(Text, edit, restructures)
<1>1. edit \in Edits /\ edit[2] = Len(hist) + 1 /\ edit = <<o, Len(hist) + 1>>
  BY Newest DEF Edits
<1>2. /\ text \in Texts /\ text.edits = Text.edits \cup {edit}
      /\ text.outline = IF restructures THEN edit ELSE Text.outline
  BY <1>1, Newest, AddedType
<1>3. Text = hist[Len(hist)] /\ Len(hist) \in 1..Len(hist)
  BY Newest
<1> HIDE DEF text
<1>4. text.outline[1] \in Ops => text.outline[2] <= Len(hist) + 1
  <2>1. CASE restructures
    BY <2>1, <1>1, <1>2, Newest
  <2>2. CASE ~restructures
    BY <2>2, <1>2, <1>3, OfHistory
  <2> QED
    BY <2>1, <2>2
<1>5. text.outline = Text.outline \/ text.outline = <<o, Len(hist) + 1>>
  BY <1>1, <1>2
<1> QED
  BY <1>2, <1>4, <1>5 DEF text

LEMMA AcceptInv ==
    ASSUME DraftInv, NEW t \in Tabs, NEW o \in Ops, NEW restructures \in BOOLEAN, Accept(t, o, restructures)
    PROVE  DraftInv'
<1> DEFINE text == Added(Text, <<o, Revision + 1>>, restructures)
<1>1. /\ Write(text, Approval(text)) /\ issues' = issues /\ removed' = removed
      /\ tab' = [tab EXCEPT ![t] = Loaded(t, Revision + 1, text)]
  BY DEF Accept
<1>2. tab[t].sent = Nothing
  BY DEF Accept, Clean
<1>3. text \in Texts /\ (text.outline[1] \in Ops => text.outline[2] <= Len(hist) + 1)
  BY NewEdit
<1>4. issues' \in {"none", "open", "acknowledged"}
  BY <1>1 DEF DraftInv, HistoryOK
<1> HIDE DEF text
<1> QED
  BY <1>1, <1>2, <1>3, <1>4, ApprovalFacts, WriteAndLoad

LEMMA RemovalInv ==
    ASSUME DraftInv, NEW t \in Tabs, RemoveDraft(t) \/ UndoRemove(t)
    PROVE  DraftInv'
<1>1. UNCHANGED <<hist, approved, issues, tab>> /\ removed' \in BOOLEAN
  BY DEF RemoveDraft, UndoRemove
<1> QED
  BY <1>1 DEF DraftInv, HistoryOK

-----------------------------------------------------------------------------
(* The steps of the executor's thread.                                     *)

\* The thread writes a text; the tabs stay as they are.
LEMMA ThreadWrites ==
    ASSUME DraftInv, NEW text \in Texts, NEW approval \in {None} \cup Outlines,
           Write(text, approval), UNCHANGED <<removed, tab>>,
           text.outline[1] \in Ops => text.outline[2] <= Len(hist) + 1,
           approval # None /\ approval[1] \in Ops => approval[2] <= Len(hist) + 1,
           issues' \in {"none", "open", "acknowledged"},
           approval = text.outline => issues' # "open"
    PROVE  DraftInv'
<1>1. HistoryOK(hist, approved, issues)' /\ \A u \in Tabs : TabOK(hist', issues', tab[u])
  BY WriteKeeps
<1> QED
  BY <1>1 DEF DraftInv

LEMMA Untouched ==
    ASSUME DraftInv, UNCHANGED <<drafts, tab>>
    PROVE  DraftInv'
<1>1. UNCHANGED drafts /\ tab' = tab
  OBVIOUS
<1> QED
  BY <1>1, DraftsStand DEF DraftInv

LEMMA Busy ==
    ASSUME WorkInv, job.pc # "idle"
    PROVE  job.op \in Ops /\ op[job.op] \in Operation /\ job # Idle
  BY DEF WorkInv, Idle

LEMMA StoreModuleInv ==
    ASSUME DraftsInv, NEW restructures \in BOOLEAN, StoreModule(restructures)
    PROVE  DraftInv'
<1> DEFINE text == Added(hist[job.rev], <<job.op, Revision + 1>>, restructures)
<1>1. job.op \in Ops /\ DraftInv
  BY Busy DEF DraftsInv, StoreModule
<1>2. CASE Locked(job.rev) /\ StillRunning(job.op)
  <2>1. Write(text, approved) /\ UNCHANGED <<removed, tab>> /\ issues' = issues
    BY <1>2 DEF StoreModule
  <2>2. hist[job.rev] = Text
    BY <1>1, <1>2, Newest DEF Locked
  <2>3. /\ text \in Texts /\ (text.outline[1] \in Ops => text.outline[2] <= Len(hist) + 1)
        /\ text.outline = Text.outline \/ text.outline = <<job.op, Len(hist) + 1>>
    BY <1>1, <2>2, NewEdit
  <2> HIDE DEF text
  <2>4. HistoryOK(hist, approved, issues) /\ Len(hist) \in Nat /\ Text = hist[Len(hist)]
    BY <1>1, Newest DEF DraftInv
  <2>5. /\ approved \in {None} \cup Outlines /\ issues \in {"none", "open", "acknowledged"}
        /\ approved # None => Numbered(hist, approved)
        /\ approved = Text.outline => issues # "open"
    BY <2>4 DEF HistoryOK
  <2>6. approved # None /\ approved[1] \in Ops => approved[2] <= Len(hist)
    BY <2>5 DEF Numbered
  <2>7. approved # None => approved[2] \in Nat
    BY <2>5 DEF Outlines
  <2>8. approved # None => approved # <<job.op, Len(hist) + 1>>
    BY <1>1, <2>4, <2>6
  <2>9. None # <<job.op, Len(hist) + 1>>
    BY <1>1, <2>4, NoneIsNoOutline DEF Outlines
  <2>10. approved = text.outline => issues' # "open"
    BY <2>1, <2>3, <2>5, <2>8, <2>9
  <2>11. approved # None /\ approved[1] \in Ops => approved[2] <= Len(hist) + 1
    BY <2>4, <2>6, <2>7
  <2> QED
    BY <1>1, <2>1, <2>3, <2>5, <2>10, <2>11, ThreadWrites
<1>3. CASE ~(Locked(job.rev) /\ StillRunning(job.op))
  <2>1. UNCHANGED <<hist, approved>> /\ UNCHANGED <<removed, issues, queue, tab>>
    BY <1>3 DEF StoreModule
  <2> QED
    BY <1>1, <2>1, Untouched DEF drafts
<1> QED
  BY <1>2, <1>3

LEMMA StoreImportInv ==
    ASSUME DraftsInv, NEW whole \in BOOLEAN, NEW problems \in BOOLEAN, StoreImport(whole, problems)
    PROVE  DraftInv'
<1> DEFINE text == IF whole THEN Added(Text, <<job.op, Revision + 1>>, TRUE) ELSE Text
<1>1. job.op \in Ops /\ DraftInv
  BY Busy DEF DraftsInv, StoreImport
<1>2. CASE Locked(op[job.op].expected) /\ StillRunning(job.op)
  <2>1. Write(text, None) /\ UNCHANGED <<removed, tab>>
    BY <1>2 DEF StoreImport, Unapproved
  <2>2. Text = hist[Len(hist)] /\ Len(hist) \in 1..Len(hist)
    BY <1>1, Newest
  <2>3. text \in Texts /\ (text.outline[1] \in Ops => text.outline[2] <= Len(hist) + 1)
    <3>1. CASE whole
      BY <3>1, <1>1, NewEdit
    <3>2. CASE ~whole
      BY <3>2, <1>1, <2>2, OfHistory
    <3> QED
      BY <3>1, <3>2
  <2>4. issues \in {"none", "open", "acknowledged"} /\ issues' \in {"open", issues}
    BY <1>1, <1>2 DEF StoreImport, DraftInv, HistoryOK
  <2>5. None # text.outline
    BY <2>3, NoneIsNoOutline DEF Texts, Outlines
  <2> HIDE DEF text
  <2> QED
    BY <1>1, <2>1, <2>3, <2>4, <2>5, ThreadWrites
<1>3. CASE ~(Locked(op[job.op].expected) /\ StillRunning(job.op))
  <2>1. UNCHANGED <<hist, approved, issues>> /\ UNCHANGED <<removed, queue, tab>>
    BY <1>3 DEF StoreImport
  <2> QED
    BY <1>1, <2>1, Untouched DEF drafts
<1> QED
  BY <1>2, <1>3

\* Every step keeps what relates the tabs to the history.
LEMMA NextDraft == DraftsInv /\ [Next]_vars => DraftInv'
<1> SUFFICES ASSUME DraftsInv, [Next]_vars PROVE DraftInv'
  OBVIOUS
<1>1. DraftInv
  BY DEF DraftsInv
<1>2. ASSUME NEW t \in Tabs, Tab(t) PROVE DraftInv'
  <2>1. CASE \E o \in Ops, task \in Tasks : StartOperation(t, o, task)
    <3>1. UNCHANGED <<drafts, job, tab>>
      BY <2>1 DEF StartOperation
    <3> QED
      BY <1>1, <3>1, Untouched
  <2>2. CASE \E yes \in BOOLEAN : Type(t, yes) \/ Acknowledge(t, yes) \/ \E o \in Ops : Accept(t, o, yes)
    BY <1>1, <2>2, TypeInv, AcknowledgeInv, AcceptInv
  <2>3. CASE \E r \in 1..MaxRevision : Restore(t, r)
    BY <1>1, <2>3, RestoreInv
  <2>4. CASE \/ SendSave(t) \/ Save(t) \/ SaveAnswered(t) \/ SaveFails(t) \/ Reload(t)
             \/ CheckSources(t) \/ Approve(t) \/ RemoveDraft(t) \/ UndoRemove(t)
    BY <1>1, <2>4, SendSaveInv, SaveInv, SaveAnsweredInv, SaveFailsInv, ReloadInv, CheckSourcesInv,
       ApproveInv, RemovalInv
  <2> QED
    BY <1>2, <2>1, <2>2, <2>3, <2>4 DEF Tab
<1>3. ASSUME NEW o \in Ops, Poll(o) \/ Ages(o) \/ Decide(o, "cancelled") \/ Decide(o, "rejected")
      PROVE  DraftInv'
  <2>1. UNCHANGED <<drafts, tab>>
    BY <1>3 DEF Poll, Ages, Decide
  <2> QED
    BY <1>1, <2>1, Untouched
<1>4. CASE Work
  <2>1. CASE Claim \/ Abandons \/ BeginRun \/ ModelAnswers \/ ModelFails \/ NextModule \/ Propose \/ Offer
    <3>1. UNCHANGED <<drafts, tab>>
      BY <2>1 DEF Claim, Abandons, BeginRun, ModelAnswers, ModelFails, NextModule, Propose, Offer
    <3> QED
      BY <1>1, <3>1, Untouched
  <2>2. CASE \E restructures \in BOOLEAN : StoreModule(restructures)
    BY <2>2, StoreModuleInv
  <2>3. CASE \E whole, problems \in BOOLEAN : StoreImport(whole, problems)
    BY <2>3, StoreImportInv
  <2> QED
    BY <1>4, <2>1, <2>2, <2>3 DEF Work
<1>5. CASE Restart \/ UNCHANGED vars
  <2>1. UNCHANGED <<drafts, tab>>
    BY <1>5 DEF Restart, vars
  <2> QED
    BY <1>1, <2>1, Untouched
<1> QED
  BY <1>2, <1>3, <1>4, <1>5 DEF Next

-----------------------------------------------------------------------------
(* Operations, the executor's line and its thread keep their types.        *)

LEMMA UpdatedType ==
    ASSUME WorkInv, NEW o \in Ops, NEW status \in {"running", "cancelled", "rejected", "failed", "proposed", "completed"}
    PROVE  Updated(o, status) \in [Ops -> Operation]
<1> DEFINE new == [op EXCEPT ![o].status = status, ![o].old = FALSE]
<1>1. op \in [Ops -> Operation] /\ status \in Pending \cup Settled \cup {"none", "proposed", "completed", "failed"}
  BY DEF WorkInv, Pending, Settled
<1>2. new \in [Ops -> Operation]
  <2>1. op[o] \in Operation
    BY <1>1
  <2>2. [op[o] EXCEPT !.status = status, !.old = FALSE] \in Operation
    BY <1>1, <2>1 DEF Operation
  <2>3. new = [op EXCEPT ![o] = [op[o] EXCEPT !.status = status, !.old = FALSE]]
    OBVIOUS
  <2> QED
    BY <1>1, <2>2, <2>3
<1>3. Updated(o, status) \in {op, new}
  BY DEF Updated
<1>4. op \in [Ops -> Operation]
  BY <1>1
<1> HIDE DEF new
<1> QED
  BY <1>2, <1>3, <1>4

LEMMA SetType ==
    ASSUME WorkInv, NEW o \in Ops, NEW status \in {"accepted", "running", "completed"}
    PROVE  /\ [op EXCEPT ![o].status = status] \in [Ops -> Operation]
           /\ [op EXCEPT ![o].status = status, ![o].old = FALSE] \in [Ops -> Operation]
  BY ZenonT(60) DEF WorkInv, Operation, Pending, Settled

LEMMA AgeType ==
    ASSUME WorkInv, NEW o \in Ops
    PROVE  /\ [op EXCEPT ![o].old = FALSE] \in [Ops -> Operation]
           /\ [op EXCEPT ![o].old = TRUE] \in [Ops -> Operation]
  BY DEF WorkInv, Operation

LEMMA GoesType ==
    ASSUME WorkInv, job # Idle, NEW pc \in {"model", "store", "stored", "offer"}, NEW rev \in Nat
    PROVE  /\ [job EXCEPT !.pc = pc] \in Job /\ [job EXCEPT !.pc = pc].op \in Ops
           /\ [job EXCEPT !.pc = pc, !.rev = rev] \in Job /\ [job EXCEPT !.pc = pc, !.rev = rev].op \in Ops
  BY DEF WorkInv, Job

LEMMA LeavesInv ==
    ASSUME WorkInv, NEW result \in [Ops -> Operation], Leaves(result), queue' = queue
    PROVE  WorkInv'
  BY DEF WorkInv, Leaves, Idle, Job

\* The thread goes on with its operation.
LEMMA GoesOnInv ==
    ASSUME WorkInv, job' \in Job, job'.op \in Ops, op' \in [Ops -> Operation], queue' = queue
    PROVE  WorkInv'
  BY DEF WorkInv

\* Nothing but an operation changes.
LEMMA OnlyOperation ==
    ASSUME WorkInv, op' \in [Ops -> Operation], UNCHANGED <<queue, job>>
    PROVE  WorkInv'
  BY DEF WorkInv

LEMMA RevisionNat == DraftInv => Revision \in Nat /\ Revision + 1 \in Nat
  BY Newest

LEMMA ThreadWork ==
    ASSUME DraftsInv, Work
    PROVE  WorkInv'
<1>1. WorkInv /\ Revision \in Nat /\ Revision + 1 \in Nat
  BY RevisionNat DEF DraftsInv
<1>2. CASE Claim
  <2> DEFINE o == Head(queue)
  <2>1. o \in Ops /\ Tail(queue) \in Seq(Ops) /\ queue' = Tail(queue)
    BY <1>1, <1>2 DEF Claim, WorkInv
  <2>2. CASE removed \/ op[o].status # "queued"
    <3>1. UNCHANGED <<op, job>>
      BY <1>2, <2>2 DEF Claim
    <3> QED
      BY <1>1, <2>1, <3>1 DEF WorkInv
  <2>3. CASE ~(removed \/ op[o].status # "queued")
    <3>1. /\ op' = [op EXCEPT ![o].status = "running", ![o].old = FALSE]
          /\ job' = [op |-> o, pc |-> "begin", rev |-> 0]
      BY <1>2, <2>3 DEF Claim
    <3>2. op' \in [Ops -> Operation]
      BY <1>1, <2>1, <3>1, SetType
    <3>3. job' \in Job /\ job'.op \in Ops
      BY <2>1, <3>1 DEF Job
    <3> QED
      BY <2>1, <3>2, <3>3 DEF WorkInv
  <2> QED
    BY <2>2, <2>3
<1>3. CASE Abandons
  BY <1>1, <1>3, LeavesInv DEF Abandons, WorkInv
<1>4. ASSUME job.pc # "idle", queue' = queue,
             \/ Leaves(Updated(job.op, "failed")) \/ Leaves(Updated(job.op, "completed"))
             \/ Leaves(Updated(job.op, "proposed")) \/ Leaves(op)
             \/ Leaves([op EXCEPT ![job.op].status = "completed", ![job.op].old = FALSE])
      PROVE  WorkInv'
  <2>1. job.op \in Ops
    BY <1>1, <1>4, Busy
  <2>2. /\ Updated(job.op, "failed") \in [Ops -> Operation]
        /\ Updated(job.op, "completed") \in [Ops -> Operation]
        /\ Updated(job.op, "proposed") \in [Ops -> Operation]
        /\ op \in [Ops -> Operation]
        /\ [op EXCEPT ![job.op].status = "completed", ![job.op].old = FALSE] \in [Ops -> Operation]
    BY <1>1, <2>1, UpdatedType, SetType DEF WorkInv
  <2> QED
    BY <1>1, <1>4, <2>2, LeavesInv
<1>5. ASSUME job.pc # "idle", queue' = queue, NEW pc \in {"model", "store", "stored", "offer"}, Goes(pc),
             op' = op \/ op' = [op EXCEPT ![job.op].old = FALSE]
      PROVE  WorkInv'
  <2>1. job.op \in Ops /\ job # Idle
    BY <1>1, <1>5, Busy
  <2>2. job' \in Job /\ job'.op \in Ops
    BY <1>1, <1>5, <2>1, GoesType DEF Goes
  <2>3. op' \in [Ops -> Operation]
    BY <1>1, <1>5, <2>1, AgeType DEF WorkInv
  <2> QED
    BY <1>1, <1>5, <2>2, <2>3, GoesOnInv
<1>6. CASE BeginRun
  <2>1. job.pc # "idle" /\ queue' = queue
    BY <1>6 DEF BeginRun
  <2>2. job.op \in Ops /\ job # Idle
    BY <1>1, <2>1, Busy
  <2>3. CASE Revision # op[job.op].expected
    BY <1>4, <1>6, <2>1, <2>3 DEF BeginRun
  <2>4. CASE Revision = op[job.op].expected
    <3>1. op' = Updated(job.op, "running") /\ job' = [job EXCEPT !.pc = "model", !.rev = Revision]
      BY <1>6, <2>4 DEF BeginRun
    <3>2. op' \in [Ops -> Operation]
      BY <1>1, <2>2, <3>1, UpdatedType
    <3>3. job' \in Job /\ job'.op \in Ops
      BY <1>1, <2>2, <3>1, GoesType
    <3> QED
      BY <1>1, <2>1, <3>2, <3>3, GoesOnInv
  <2> QED
    BY <2>3, <2>4
<1>7. CASE ModelAnswers
  BY <1>4, <1>5, <1>7 DEF ModelAnswers
<1>8. CASE ModelFails
  BY <1>4, <1>8 DEF ModelFails
<1>9. CASE NextModule
  BY <1>4, <1>5, <1>9 DEF NextModule
<1>10. CASE Propose
  BY <1>4, <1>5, <1>10 DEF Propose
<1>11. CASE Offer
  BY <1>4, <1>11 DEF Offer
<1>12. ASSUME NEW restructures \in BOOLEAN, StoreModule(restructures) PROVE WorkInv'
  <2>1. job.pc # "idle" /\ queue' = queue
    BY <1>12 DEF StoreModule
  <2>2. CASE Locked(job.rev) /\ StillRunning(job.op)
    <3>1. job' = [job EXCEPT !.pc = "stored", !.rev = Revision + 1] /\ op' = op
      BY <1>12, <2>2 DEF StoreModule
    <3>2. job' \in Job /\ job'.op \in Ops
      BY <1>1, <2>1, <3>1, Busy, GoesType
    <3> QED
      BY <1>1, <2>1, <3>1, <3>2, GoesOnInv DEF WorkInv
  <2>3. CASE ~(Locked(job.rev) /\ StillRunning(job.op))
    BY <1>4, <1>12, <2>1, <2>3 DEF StoreModule
  <2> QED
    BY <2>2, <2>3
<1>13. ASSUME NEW whole \in BOOLEAN, NEW problems \in BOOLEAN, StoreImport(whole, problems) PROVE WorkInv'
  <2>1. job.pc # "idle" /\ queue' = queue
    BY <1>13 DEF StoreImport
  <2>2. \/ Leaves([op EXCEPT ![job.op].status = "completed", ![job.op].old = FALSE])
        \/ Leaves(Updated(job.op, "failed"))
    BY <1>13 DEF StoreImport
  <2> QED
    BY <1>4, <2>1, <2>2
<1> QED
  BY <1>2, <1>3, <1>6, <1>7, <1>8, <1>9, <1>10, <1>11, <1>12, <1>13 DEF Work

\* A new process finds the queued operations in some order.
LEMMA RestartWork ==
    ASSUME DraftsInv, Restart
    PROVE  WorkInv'
<1>1. Recovered \subseteq Ops /\ IsFiniteSet(Ops) /\ op \in [Ops -> Operation]
  BY DraftsAssumption DEF Recovered, DraftsAssumption, DraftsInv, WorkInv
<1>2. Cardinality(Recovered) \in Nat
  BY <1>1, FS_Subset, FS_CardinalityType
<1>3. queue' \in Seq(Ops)
  <2>1. queue' \in [1..Cardinality(Recovered) -> Recovered]
    BY DEF Restart, SetToSeqs
  <2>2. queue' \in [1..Cardinality(Recovered) -> Ops]
    BY <1>1, <2>1
  <2> QED
    BY <1>2, <2>2
<1>4. op' \in [Ops -> Operation]
  <2>1. ASSUME NEW o \in Ops
        PROVE  (IF Expired(o) THEN [op[o] EXCEPT !.status = "failed", !.old = FALSE] ELSE op[o]) \in Operation
    <3>1. op[o] \in Operation
      BY <1>1
    <3>2. [op[o] EXCEPT !.status = "failed", !.old = FALSE] \in Operation
      BY <3>1 DEF Operation
    <3> QED
      BY <3>1, <3>2
  <2> QED
    BY <2>1 DEF Restart
<1>5. job' = Idle /\ Idle \in Job
  BY DEF Restart, Idle, Job
<1> QED
  BY <1>3, <1>4, <1>5 DEF WorkInv

LEMMA NextWork == DraftsInv /\ [Next]_vars => WorkInv'
<1> SUFFICES ASSUME DraftsInv, [Next]_vars PROVE WorkInv'
  OBVIOUS
<1>1. WorkInv /\ Revision \in Nat
  BY RevisionNat DEF DraftsInv
<1>2. ASSUME NEW t \in Tabs, Tab(t) PROVE WorkInv'
  <2>1. CASE \E o \in Ops, task \in Tasks : StartOperation(t, o, task)
    <3>1. PICK o \in Ops, task \in Tasks : StartOperation(t, o, task)
      BY <2>1
    <3> DEFINE started == [status |-> "queued", task |-> task, expected |-> Revision, old |-> FALSE]
    <3>2. started \in Operation
      BY <1>1 DEF Operation, Pending
    <3>3. op' = [op EXCEPT ![o] = started] /\ queue' = Append(queue, o) /\ job' = job
      BY <3>1 DEF StartOperation
    <3> HIDE DEF started
    <3>4. op' \in [Ops -> Operation] /\ queue' \in Seq(Ops)
      BY <1>1, <3>2, <3>3, AppendProperties DEF WorkInv
    <3> QED
      BY <1>1, <3>3, <3>4 DEF WorkInv
  <2>2. ASSUME NEW yes \in BOOLEAN, NEW o \in Ops, Accept(t, o, yes) PROVE WorkInv'
    <3>1. op' = [op EXCEPT ![o].status = "accepted"] /\ UNCHANGED <<queue, job>>
      BY <2>2 DEF Accept
    <3>2. op' \in [Ops -> Operation]
      BY <1>1, <3>1, SetType
    <3> QED
      BY <1>1, <3>1, <3>2, OnlyOperation
  <2>3. CASE \/ \E yes \in BOOLEAN : Type(t, yes) \/ Acknowledge(t, yes)
             \/ \E r \in 1..MaxRevision : Restore(t, r)
             \/ SendSave(t) \/ Save(t) \/ SaveAnswered(t) \/ SaveFails(t) \/ Reload(t)
             \/ CheckSources(t) \/ Approve(t) \/ RemoveDraft(t) \/ UndoRemove(t)
    <3>1. UNCHANGED work
      BY <2>3 DEF Type, Acknowledge, Restore, SendSave, Save, SaveAnswered, SaveFails, Reload,
         CheckSources, Approve, RemoveDraft, UndoRemove
    <3> QED
      BY <1>1, <3>1 DEF work, WorkInv
  <2> QED
    BY <1>2, <2>1, <2>2, <2>3 DEF Tab
<1>3. ASSUME NEW o \in Ops, Poll(o) \/ Ages(o) \/ Decide(o, "cancelled") \/ Decide(o, "rejected")
      PROVE  WorkInv'
  <2>1. /\ UNCHANGED <<queue, job>>
        /\ \/ op' = Updated(o, "failed") \/ op' = Updated(o, "cancelled") \/ op' = Updated(o, "rejected")
           \/ op' = [op EXCEPT ![o].old = TRUE]
    BY <1>3 DEF Poll, Ages, Decide
  <2>2. op' \in [Ops -> Operation]
    BY ZenonT(60), <1>1, <2>1, UpdatedType, AgeType
  <2> QED
    BY <1>1, <2>1, <2>2, OnlyOperation
<1>4. CASE Work
  BY <1>4, ThreadWork
<1>5. CASE Restart
  BY <1>5, RestartWork
<1>6. CASE UNCHANGED vars
  BY <1>1, <1>6 DEF vars, work, WorkInv
<1> QED
  BY <1>2, <1>3, <1>4, <1>5, <1>6 DEF Next

LEMMA NextInv == DraftsInv /\ [Next]_vars => DraftsInv'
  BY NextDraft, NextWork DEF DraftsInv

LEMMA AlwaysInv == Spec => []DraftsInv
  BY InitInv, NextInv, PTL DEF Spec

\* Revisions, snapshots, operations and tabs keep their types.
THEOREM TypeCorrect == Spec => []TypeOK
<1>1. ASSUME DraftsInv PROVE TypeOK
  BY <1>1 DEF DraftsInv, DraftInv, WorkInv, HistoryOK, Outlines, TypeOK
<1> QED
  BY <1>1, AlwaysInv, PTL

\* The approved outline never rests on sources with problems that nobody has
\* acknowledged: not by an approval whose look at the sources is old, nor by
\* edits that hand the approval on.
THEOREM ApprovalReviewed == Spec => []ApprovalIsReviewed
<1>1. ASSUME DraftsInv PROVE ApprovalIsReviewed
  <2>1. DraftInv /\ HistoryOK(hist, approved, issues) /\ Text = hist[Len(hist)]
    BY <1>1, Newest DEF DraftsInv, DraftInv
  <2> QED
    BY <2>1 DEF HistoryOK, ApprovalIsReviewed
<1> QED
  BY <1>1, AlwaysInv, PTL

-----------------------------------------------------------------------------
(* What a step may write: an old text, what a tab has sent over the newest *)
(* revision, or one more edit of an operation that was not cancelled.      *)

Written(text) ==
    \/ \E i \in 1..Len(hist) : text = hist[i]
    \/ Text.edits \subseteq text.edits /\ Known(hist, text)
    \/ \E o \in Ops : /\ op[o].status \notin {"cancelled", "rejected"}
                      /\ text.edits = Text.edits \cup {<<o, Len(hist) + 1>>}

LEMMA WriteIsLast ==
    ASSUME DraftInv, NEW text \in Texts, hist' = Append(hist, text)
    PROVE  Text' = text
<1>1. hist \in Seq(Texts)
  BY DEF DraftInv, HistoryOK
<1>2. Len(hist') = Len(hist) + 1 /\ hist'[Len(hist) + 1] = text
  BY <1>1, AppendProperties
<1> QED
  BY <1>2 DEF Text, Last

LEMMA TextIsOld ==
    ASSUME DraftInv, NEW i \in 1..Len(hist), hist' = Append(hist, hist[i])
    PROVE  Written(Text')
  BY OfHistory, WriteIsLast DEF Written

LEMMA EditIsNew ==
    ASSUME DraftInv, NEW o \in Ops, op[o].status \notin {"cancelled", "rejected"}, NEW restructures \in BOOLEAN,
           hist' = Append(hist, Added(Text, <<o, Revision + 1>>, restructures))
    PROVE  Written(Text')
<1> DEFINE text == Added(Text, <<o, Revision + 1>>, restructures)
<1>1. text \in Texts /\ text.edits = Text.edits \cup {<<o, Revision + 1>>}
  BY NewEdit
<1> HIDE DEF text
<1>2. Text' = text
  BY <1>1, WriteIsLast DEF text
<1>3. Revision + 1 = Len(hist) + 1
  BY Newest
<1> QED
  BY <1>1, <1>2, <1>3 DEF Written

LEMMA StepWrites ==
    ASSUME DraftsInv, [Next]_vars, hist' # hist
    PROVE  Written(Text')
<1>1. DraftInv /\ WorkInv /\ Text = hist[Len(hist)] /\ Len(hist) \in 1..Len(hist) /\ Revision = Len(hist)
  BY Newest DEF DraftsInv
<1>2. ASSUME NEW t \in Tabs, Save(t) PROVE Written(Text')
  <2> DEFINE text == tab[t].sent.text
  <2>1. SentOK(hist, tab[t]) /\ text \in Texts /\ tab[t].sent.rev = Len(hist)
    BY <1>1, <1>2, TabFacts DEF TabOK, Save, Locked
  <2>2. Text' = text
    BY <1>1, <1>2, <2>1, WriteIsLast DEF Save, Write
  <2>3. Text.edits \subseteq text.edits /\ Known(hist, text)
    BY <1>1, <2>1 DEF SentOK, Over
  <2> QED
    BY <2>2, <2>3 DEF Written
<1>3. ASSUME NEW t \in Tabs, Approve(t) PROVE Written(Text')
  <2>1. hist' = Append(hist, hist[Len(hist)])
    BY <1>1, <1>3 DEF Approve, Write
  <2> QED
    BY <1>1, <2>1, TextIsOld
<1>4. ASSUME NEW t \in Tabs, NEW r \in 1..MaxRevision, Restore(t, r) PROVE Written(Text')
  <2>1. hist' = Append(hist, hist[r]) /\ r \in 1..Len(hist)
    BY <1>1, <1>4, Numbers DEF Restore, Write
  <2> QED
    BY <1>1, <2>1, TextIsOld
<1>5. ASSUME NEW t \in Tabs, NEW yes \in BOOLEAN, Acknowledge(t, yes) PROVE Written(Text')
  <2>1. hist' = Append(hist, hist[Len(hist)])
    BY <1>1, <1>5 DEF Acknowledge, Write
  <2> QED
    BY <1>1, <2>1, TextIsOld
<1>6. ASSUME NEW t \in Tabs, NEW o \in Ops, NEW yes \in BOOLEAN, Accept(t, o, yes) PROVE Written(Text')
  <2>1. hist' = Append(hist, Added(Text, <<o, Revision + 1>>, yes)) /\ op[o].status = "proposed"
    BY <1>6 DEF Accept, Write
  <2> QED
    BY <1>1, <2>1, EditIsNew
<1>7. ASSUME NEW restructures \in BOOLEAN, StoreModule(restructures) PROVE Written(Text')
  <2>1. Locked(job.rev) /\ StillRunning(job.op)
    BY <1>7 DEF StoreModule
  <2>2. job.op \in Ops /\ hist[job.rev] = Text
    BY <1>1, <1>7, <2>1, Busy DEF StoreModule, Locked
  <2>3. hist' = Append(hist, Added(Text, <<job.op, Revision + 1>>, restructures))
    BY <1>7, <2>1, <2>2 DEF StoreModule, Write
  <2> QED
    BY <1>1, <2>1, <2>2, <2>3, EditIsNew DEF StillRunning
<1>8. ASSUME NEW whole \in BOOLEAN, NEW problems \in BOOLEAN, StoreImport(whole, problems) PROVE Written(Text')
  <2>1. StillRunning(job.op) /\ job.op \in Ops
    BY <1>1, <1>8, Busy DEF StoreImport
  <2>2. CASE whole
    <3>1. hist' = Append(hist, Added(Text, <<job.op, Revision + 1>>, TRUE))
      BY <1>8, <2>2 DEF StoreImport, Write
    <3> QED
      BY <1>1, <2>1, <3>1, EditIsNew DEF StillRunning
  <2>3. CASE ~whole
    <3>1. hist' = Append(hist, hist[Len(hist)])
      BY <1>1, <1>8, <2>3 DEF StoreImport, Write
    <3> QED
      BY <1>1, <3>1, TextIsOld
  <2> QED
    BY <2>2, <2>3
<1>9. ASSUME NEW t \in Tabs, Tab(t) PROVE Written(Text')
  <2>1. CASE \/ SendSave(t) \/ SaveAnswered(t) \/ SaveFails(t) \/ Reload(t)
             \/ CheckSources(t) \/ RemoveDraft(t) \/ UndoRemove(t)
    BY <2>1 DEF SendSave, SaveAnswered, SaveFails, Reload, CheckSources, RemoveDraft, UndoRemove, drafts
  <2>2. CASE \E yes \in BOOLEAN : Type(t, yes)
    BY <2>2 DEF Type, drafts
  <2>3. CASE \E o \in Ops, task \in Tasks : StartOperation(t, o, task)
    BY <2>3 DEF StartOperation, drafts
  <2> QED
    BY <1>2, <1>3, <1>4, <1>5, <1>6, <1>9, <2>1, <2>2, <2>3 DEF Tab
<1>10. CASE Work
  <2>1. CASE Claim \/ Abandons \/ BeginRun \/ ModelAnswers \/ ModelFails \/ NextModule \/ Propose \/ Offer
    BY <2>1 DEF Claim, Abandons, BeginRun, ModelAnswers, ModelFails, NextModule, Propose, Offer, drafts
  <2> QED
    BY <1>7, <1>8, <1>10, <2>1 DEF Work
<1>11. ASSUME NEW o \in Ops, Poll(o) \/ Ages(o) \/ Decide(o, "cancelled") \/ Decide(o, "rejected")
       PROVE  Written(Text')
  BY <1>11 DEF Poll, Ages, Decide, drafts
<1>12. CASE Restart \/ UNCHANGED vars
  BY <1>12 DEF Restart, vars, drafts
<1> QED
  BY <1>9, <1>10, <1>11, <1>12 DEF Next

LEMMA HistoryDomain == DraftInv => DOMAIN hist = 1..Len(hist) /\ Len(hist) \in DOMAIN hist
  BY Newest DEF DraftInv, HistoryOK

\* Whatever is saved, accepted, drafted or imported at the same time, a
\* revision contains the one before it, unless the trainer goes back.
THEOREM EditsAreKept == Spec => NoEditLost
<1>1. ASSUME DraftsInv, [Next]_vars
      PROVE  [hist' # hist => \/ Text.edits \subseteq Text'.edits
                              \/ \E i \in DOMAIN hist : Text' = hist[i]]_vars
  <2>1. ASSUME hist' # hist
        PROVE  Text.edits \subseteq Text'.edits \/ \E i \in DOMAIN hist : Text' = hist[i]
    <3>1. Written(Text') /\ DOMAIN hist = 1..Len(hist)
      BY <1>1, <2>1, StepWrites, HistoryDomain DEF DraftsInv
    <3> QED
      BY <3>1 DEF Written
  <2> QED
    BY <2>1
<1> QED
  BY <1>1, AlwaysInv, PTL DEF Spec, NoEditLost

\* Once an operation is cancelled or rejected, no revision contains an edit of
\* it that the history did not have, whatever its thread still does.
THEOREM CancelledWritesNothing == Spec => CancelledIsQuiet
<1> DEFINE Quiet(o) == op[o].status \in {"cancelled", "rejected"} =>
               {e \in Text'.edits : e[1] = o} \subseteq UNION {hist[i].edits : i \in DOMAIN hist}
<1>1. ASSUME DraftsInv, [Next]_vars PROVE [\A o \in Ops : Quiet(o)]_vars
  <2>1. ASSUME NEW o \in Ops, op[o].status \in {"cancelled", "rejected"},
               NEW e \in Text'.edits, e[1] = o
        PROVE  \E i \in DOMAIN hist : e \in hist[i].edits
    <3>1. /\ DOMAIN hist = 1..Len(hist) /\ Len(hist) \in DOMAIN hist /\ Text = hist[Len(hist)]
          /\ o \notin Tabs
      BY <1>1, <2>1, Newest, HistoryDomain, DraftsAssumption DEF DraftsInv, DraftsAssumption
    <3>2. CASE hist' = hist
      BY <2>1, <3>1, <3>2 DEF Text, Last
    <3>3. CASE hist' # hist
      <4>1. Written(Text')
        BY <1>1, <3>3, StepWrites
      <4>2. CASE \E i \in 1..Len(hist) : Text' = hist[i]
        BY <2>1, <3>1, <4>2
      <4>3. CASE Known(hist, Text')
        BY <2>1, <3>1, <4>3 DEF Known
      <4>4. CASE \E p \in Ops : /\ op[p].status \notin {"cancelled", "rejected"}
                                /\ Text'.edits = Text.edits \cup {<<p, Len(hist) + 1>>}
        BY <2>1, <3>1, <4>4
      <4> QED
        BY <4>1, <4>2, <4>3, <4>4 DEF Written
    <3> QED
      BY <3>2, <3>3
  <2>2. ASSUME NEW o \in Ops PROVE Quiet(o)
    BY <2>1
  <2> QED
    BY <2>2
<1> QED
  BY <1>1, AlwaysInv, PTL DEF Spec, CancelledIsQuiet

-----------------------------------------------------------------------------
(* What a tab shows.                                                       *)

AllSaved(h) == UNION {h[i].edits : i \in DOMAIN h}

\* What a tab shows and nobody has typed is in the history, and stays there.
LEMMA CleanIsSaved ==
    ASSUME DraftInv, NEW t \in Tabs, ~tab[t].dirty, NEW text, hist' \in {hist, Append(hist, text)}
    PROVE  tab[t].text.edits \subseteq AllSaved(hist')
<1> DEFINE S == Texts \cup {text}
<1>1. hist \in Seq(S) /\ text \in S
  BY DEF DraftInv, HistoryOK
<1>2. tab[t].rev \in 1..Len(hist) /\ tab[t].text.edits \subseteq hist[tab[t].rev].edits
  BY TabFacts DEF TabOK, Over
<1> HIDE DEF S
<1>3. CASE hist' = hist
  <2>1. tab[t].rev \in DOMAIN hist'
    BY <1>1, <1>2, <1>3
  <2> QED
    BY <1>2, <1>3, <2>1 DEF AllSaved
<1>4. CASE hist' = Append(hist, text)
  <2>1. hist' \in Seq(S) /\ Len(hist') = Len(hist) + 1 /\ hist'[tab[t].rev] = hist[tab[t].rev]
    BY <1>1, <1>2, <1>4, AppendProperties
  <2>2. tab[t].rev \in DOMAIN hist'
    BY <1>1, <1>2, <2>1
  <2> QED
    BY <1>2, <2>1, <2>2 DEF AllSaved
<1> QED
  BY <1>3, <1>4

KeepsTyping(t) ==
    \/ tab[t].text.edits \subseteq tab'[t].text.edits \cup AllSaved(hist')
    \/ tab[t].rev # Revision /\ tab'[t].rev = Revision

LEMMA TabKeepsTyping ==
    ASSUME DraftsInv, NEW t \in Tabs, Tab(t)
    PROVE  KeepsTyping(t)
<1>1. DraftInv /\ tab \in [Tabs -> TabState]
  BY DEF DraftsInv, DraftInv
<1>2. ASSUME NEW restructures \in BOOLEAN, Type(t, restructures) PROVE KeepsTyping(t)
  <2> DEFINE edit == <<t, tab[t].typed + 1>>
  <2>1. tab'[t].text = Added(tab[t].text, edit, restructures)
    BY <1>1, <1>2 DEF Type, TabState
  <2>2. tab'[t].text.edits = tab[t].text.edits \cup {edit}
    BY <2>1 DEF Added
  <2> QED
    BY <2>2 DEF KeepsTyping
<1>3. CASE SendSave(t) \/ Save(t) \/ SaveFails(t) \/ CheckSources(t)
  <2>1. tab'[t].text = tab[t].text
    BY <1>1, <1>3 DEF SendSave, Save, SaveFails, CheckSources, TabState
  <2> QED
    BY <2>1 DEF KeepsTyping
<1>4. CASE SaveAnswered(t)
  <2>1. SentOK(hist, tab[t]) /\ tab'[t] = Answered(t)
    BY <1>1, <1>4, TabFacts DEF SaveAnswered, TabOK
  <2>2. tab'[t].text = tab[t].text
    <3>1. CASE tab[t].newer
      BY <1>1, <2>1, <3>1, TabFacts DEF Answered, TabState
    <3>2. CASE ~tab[t].newer
      BY <1>1, <2>1, <3>2, TabFacts DEF Answered, TabState, SentOK
    <3> QED
      BY <3>1, <3>2
  <2> QED
    BY <2>2 DEF KeepsTyping
<1>5. CASE Reload(t)
  <2>1. hist' = hist
    BY <1>5 DEF Reload, drafts
  <2>2. CASE tab[t].dirty
    <3>1. tab'[t] = Loaded(t, Revision, Text) /\ tab[t].rev # Revision
      BY <1>1, <1>5, <2>2 DEF Reload
    <3>2. tab'[t].rev = Revision
      BY <1>1, <3>1, TabFacts DEF Loaded, TabState
    <3> QED
      BY <3>1, <3>2 DEF KeepsTyping
  <2>3. CASE ~tab[t].dirty
    BY <1>1, <2>1, <2>3, CleanIsSaved DEF KeepsTyping
  <2> QED
    BY <2>2, <2>3
<1>6. CASE Approve(t)
  <2>1. ~tab[t].dirty /\ hist' \in {hist, Append(hist, Text)}
    BY <1>1, <1>6, TabFacts DEF Approve, Write, TabOK
  <2>2. tab[t].text.edits \subseteq AllSaved(hist')
    BY <1>1, <2>1, CleanIsSaved
  <2> QED
    BY <2>2 DEF KeepsTyping
<1>7. ASSUME NEW r \in 1..MaxRevision, Restore(t, r) PROVE KeepsTyping(t)
  <2>1. ~tab[t].dirty /\ hist' = Append(hist, hist[r])
    BY <1>7 DEF Restore, Write, Clean
  <2>2. tab[t].text.edits \subseteq AllSaved(hist')
    BY <1>1, <2>1, CleanIsSaved
  <2> QED
    BY <2>2 DEF KeepsTyping
<1>8. ASSUME NEW yes \in BOOLEAN, Acknowledge(t, yes) PROVE KeepsTyping(t)
  <2>1. ~tab[t].dirty /\ hist' = Append(hist, Text)
    BY <1>8 DEF Acknowledge, Write, Clean
  <2>2. tab[t].text.edits \subseteq AllSaved(hist')
    BY <1>1, <2>1, CleanIsSaved
  <2> QED
    BY <2>2 DEF KeepsTyping
<1>9. ASSUME NEW o \in Ops, NEW yes \in BOOLEAN, Accept(t, o, yes) PROVE KeepsTyping(t)
  <2>1. ~tab[t].dirty /\ hist' = Append(hist, Added(Text, <<o, Revision + 1>>, yes))
    BY <1>9 DEF Accept, Write, Clean
  <2>2. tab[t].text.edits \subseteq AllSaved(hist')
    BY <1>1, <2>1, CleanIsSaved
  <2> QED
    BY <2>2 DEF KeepsTyping
<1>10. CASE RemoveDraft(t) \/ UndoRemove(t) \/ \E o \in Ops, task \in Tasks : StartOperation(t, o, task)
  <2>1. tab' = tab
    BY <1>10 DEF RemoveDraft, UndoRemove, StartOperation
  <2> QED
    BY <2>1 DEF KeepsTyping
<1> QED
  BY <1>2, <1>3, <1>4, <1>5, <1>6, <1>7, <1>8, <1>9, <1>10 DEF Tab

\* A step of one tab does not touch what another shows.
LEMMA TabOnly ==
    ASSUME DraftsInv, NEW t \in Tabs, Tab(t), NEW u \in Tabs \ {t}
    PROVE  tab'[u] = tab[u]
<1>1. tab \in [Tabs -> TabState]
  BY DEF DraftsInv, DraftInv
<1>2. CASE \/ SendSave(t) \/ Save(t) \/ SaveAnswered(t) \/ SaveFails(t) \/ Reload(t)
           \/ CheckSources(t) \/ RemoveDraft(t) \/ UndoRemove(t)
  BY <1>1, <1>2 DEF SendSave, Save, SaveAnswered, SaveFails, Reload, CheckSources, RemoveDraft, UndoRemove
<1>3. CASE Approve(t)
  BY <1>1, <1>3 DEF Approve
<1>4. CASE \E yes \in BOOLEAN : Type(t, yes) \/ Acknowledge(t, yes) \/ \E o \in Ops : Accept(t, o, yes)
  BY <1>1, <1>4 DEF Type, Acknowledge, Accept
<1>5. CASE \/ \E r \in 1..MaxRevision : Restore(t, r)
           \/ \E o \in Ops, task \in Tasks : StartOperation(t, o, task)
  BY <1>1, <1>5 DEF Restore, StartOperation
<1> QED
  BY <1>2, <1>3, <1>4, <1>5 DEF Tab

\* No answer of the server, to this tab or to another, takes away what was
\* typed, unless the tab is loaded anew over a revision it did not have.
THEOREM TypingStays == Spec => TypingIsKept
<1>1. ASSUME DraftsInv, [Next]_vars PROVE [\A t \in Tabs : KeepsTyping(t)]_vars
  <2>1. ASSUME NEW t \in Tabs PROVE KeepsTyping(t)
    <3>1. CASE tab' = tab
      BY <3>1 DEF KeepsTyping
    <3>2. ASSUME NEW u \in Tabs, Tab(u) PROVE KeepsTyping(t)
      <4>1. CASE u = t
        BY <1>1, <3>2, <4>1, TabKeepsTyping
      <4>2. CASE u # t
        <5>1. tab'[t] = tab[t]
          BY <1>1, <3>2, <4>2, TabOnly
        <5> QED
          BY <5>1 DEF KeepsTyping
      <4> QED
        BY <4>1, <4>2
    <3>3. CASE Work
      <4>1. tab' = tab
        BY <3>3 DEF Work, Claim, Abandons, BeginRun, ModelAnswers, ModelFails, NextModule, Propose, Offer,
           StoreModule, StoreImport
      <4> QED
        BY <3>1, <4>1
    <3>4. CASE (\E o \in Ops : Poll(o) \/ Ages(o) \/ Decide(o, "cancelled") \/ Decide(o, "rejected")) \/ Restart
               \/ UNCHANGED vars
      <4>1. tab' = tab
        BY <3>4 DEF Poll, Ages, Decide, Restart, vars
      <4> QED
        BY <3>1, <4>1
    <3> QED
      BY <1>1, <3>2, <3>3, <3>4 DEF Next
  <2> QED
    BY <2>1
<1> QED
  BY <1>1, AlwaysInv, PTL DEF Spec, TypingIsKept, KeepsTyping, AllSaved
=============================================================================
