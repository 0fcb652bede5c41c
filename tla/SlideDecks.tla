------------------------------ MODULE SlideDecks ------------------------------
(***************************************************************************)
(* The deck of one module and its narration (generation/slides.py,         *)
(* generation/scripts.py).  The language model plans slides and says next  *)
(* to which bullet an image belongs, the art director chooses layouts; a   *)
(* plan is tried three times and then mended.  Images get slides of their  *)
(* own behind the slide they belong to.  Scripts are written in batches,   *)
(* and in order.                                                           *)
(*                                                                         *)
(* A planned slide is what can be wrong with it and the images it has;     *)
(* module["slides"] is the same list as module["planned_slides"] until     *)
(* _apply_slide_fallbacks replaces the latter: `kept` are the slides that  *)
(* planned_slides has then.                                                *)
(***************************************************************************)
EXTENDS Naturals, Sequences, FiniteSets, FiniteSetsExt, SequencesExt

CONSTANTS
    BatchSize,      \* generate_scripts_for_module: 5
    GroupSize,      \* _group_images_for_image_slides: 3 upright images
    Attempts,       \* _generate_slides_for_module: 3
    MaxPlanned,     \* bound: slides of a plan
    MaxImages,      \* bound: images of the module
    MaxDecks        \* bound: decks that are made

ASSUME DeckAssumption ==
    /\ {BatchSize, GroupSize, Attempts, MaxPlanned} \subseteq Nat \ {0}
    /\ {MaxImages, MaxDecks} \subseteq Nat

VARIABLES
    hasText,        \* the module's source_text is not empty
    pictures,       \* the module's images: their orientations
    phase,
    attempt,
    planned, kept,
    deck,           \* the slides that are saved
    scripts,        \* per slide: the number of the slide its script was written for, or 0
    generated,      \* the same of the narration that is being written
    made            \* bounded by MaxDecks

deckVars == <<hasText, pictures, phase, attempt, planned, kept, deck, scripts, generated, made>>

Orientations == {"landscape", "vertical"}
Faults == {"none", "untitled", "noData", "oneCard"}

ModuleWith(t, ps) ==
    /\ hasText = t /\ pictures = ps
    /\ phase = "idle" /\ attempt = 0
    /\ planned = <<>> /\ kept = {}
    /\ deck = <<>> /\ scripts = <<>> /\ generated = <<>> /\ made = 0

DeckInit == \E t \in BOOLEAN, ps \in SeqOf(Orientations, MaxImages) : ModuleWith(t, ps)
-----------------------------------------------------------------------------
\* generate_slides_for_course, generate_slides_for_single_module: also for a
\* module that has a deck.
StartSlides ==
    /\ phase = "idle" /\ made < MaxDecks
    /\ phase' = "plan" /\ attempt' = 1 /\ made' = made + 1
    /\ UNCHANGED <<hasText, pictures, planned, kept, deck, scripts, generated>>

\* bullet_to_slide: every slide has one bullet or none.  A bullet that does
\* not exist leads to the first slide.
BulletOf(full, s) == Cardinality({r \in full : r <= s})
SlideOf(full, bullet) ==
    IF \E s \in full : BulletOf(full, s) = bullet
    THEN CHOOSE s \in full : BulletOf(full, s) = bullet ELSE 1

\* Mutant: an image that the mapper forgot is left out.
MappedTargets(full, bullets) == {SlideOf(full, b) : b \in bullets}

\* The slides an image is put on, and the bullet that sorts it there; an image
\* that the mapper forgot goes to the first slide, behind the others.
Targets(full, bullets) == IF bullets = {} THEN {1} ELSE {SlideOf(full, b) : b \in bullets}
SortKey(full, bullets, s) ==
    IF bullets = {} THEN MaxPlanned + 2 ELSE Min({b \in bullets : SlideOf(full, b) = s})

\* _append_image_to_slide, _sort_slide_images_by_mapping: the images of slide s in their order.
ImagesOn(full, mapping, s, images) ==
    LET key(p) == SortKey(full, mapping[p], s) IN
    /\ Range(images) = {p \in DOMAIN pictures : s \in Targets(full, mapping[p])}
    /\ \A i, j \in DOMAIN images : i < j =>
         \/ key(images[i]) < key(images[j])
         \/ key(images[i]) = key(images[j]) /\ images[i] < images[j]

\* plan_slides_for_module: `full` are the slides that have bullets.  An image
\* may be mapped twice.
Plan ==
    /\ phase = "plan"
    /\ \E n \in 0..(IF hasText THEN MaxPlanned ELSE 0) : \E full \in SUBSET (1..n) :
       \E mapping \in [DOMAIN pictures -> {bs \in SUBSET (1..(n + 1)) : Cardinality(bs) <= 2}] :
       \E images \in [1..n -> SeqOf(DOMAIN pictures, Len(pictures))] :
          /\ \A s \in 1..n : ImagesOn(full, mapping, s, images[s])
          /\ planned' = [s \in 1..n |->
                [empty |-> s \notin full, fault |-> "untitled", images |-> images[s]]]
    /\ kept' = DOMAIN planned'
    /\ phase' = "layout"
    /\ UNCHANGED <<hasText, pictures, attempt, deck, scripts, generated, made>>

\* assign_layouts_to_module: the art director may fail, forget slides, and
\* supply the bullets of an empty one.
AssignLayouts ==
    /\ phase = "layout"
    /\ \E fault \in [DOMAIN planned -> Faults], filled \in SUBSET DOMAIN planned :
         /\ \A s \in filled : planned[s].empty /\ fault[s] # "untitled"
         /\ planned' = [s \in DOMAIN planned |->
                [planned[s] EXCEPT !.fault = fault[s], !.empty = @ /\ s \notin filled]]
    /\ phase' = "check"
    /\ UNCHANGED <<hasText, pictures, attempt, kept, deck, scripts, generated, made>>

\* _module_slides_are_valid.
Valid ==
    /\ hasText => planned # <<>>
    /\ \A s \in DOMAIN planned : planned[s].fault = "none" /\ ~planned[s].empty

Retry ==
    /\ phase = "check" /\ ~Valid /\ attempt < Attempts
    /\ phase' = "plan" /\ attempt' = attempt + 1
    /\ planned' = <<>> /\ kept' = {}
    /\ UNCHANGED <<hasText, pictures, deck, scripts, generated, made>>

\* _apply_slide_fallbacks: a grid with one card stays one.
ApplyFallbacks ==
    /\ phase = "check" /\ ~Valid /\ attempt = Attempts
    /\ planned' = [s \in DOMAIN planned |->
            [planned[s] EXCEPT !.fault = IF @ \in {"untitled", "noData"} THEN "none" ELSE @]]
    /\ kept' = {s \in DOMAIN planned : ~planned[s].empty}
    /\ phase' = "mended"
    /\ UNCHANGED <<hasText, pictures, attempt, deck, scripts, generated, made>>

\* Mutant: a module without planned slides is saved like any other.
NothingIsMissing == FALSE

NothingPlanned == kept = {} /\ hasText

Usable == Valid \/ phase = "mended"

PlanningFails ==
    /\ phase \in {"check", "mended"} /\ Usable /\ NothingPlanned
    /\ phase' = "idle" /\ attempt' = 0
    /\ planned' = <<>> /\ kept' = {}
    /\ UNCHANGED <<hasText, pictures, deck, scripts, generated, made>>
-----------------------------------------------------------------------------
Cover == [kind |-> "cover", of |-> 0, shows |-> <<>>]
Content(s) == [kind |-> IF planned[s].empty THEN "empty" ELSE "content", of |-> s, shows |-> <<>>]

\* Whether an image still goes onto the image slide that is being filled.
Fits(group, p) ==
    /\ pictures[group[1]] = pictures[p]
    /\ Len(group) < IF pictures[p] = "landscape" THEN 1 ELSE GroupSize

\* _chunk_images: an image joins the slide that is being filled or begins another.
Added(groups, p) ==
    IF groups # <<>> /\ Fits(Last(groups), p)
    THEN Append(Front(groups), Append(Last(groups), p))
    ELSE Append(groups, <<p>>)

\* _group_images_for_image_slides
Groups(images) ==
    LET groups[n \in 0..Len(images)] == IF n = 0 THEN <<>> ELSE Added(groups[n - 1], images[n])
    IN groups[Len(images)]

ImageSlides(s) ==
    LET groups == Groups(planned[s].images)
    IN [g \in DOMAIN groups |-> [kind |-> "image", of |-> s, shows |-> groups[g]]]

\* ensure_module_cover_slide and _expand_mapped_image_slides; then the module
\* is saved, and its slides have no scripts.
SaveDeck ==
    /\ phase \in {"check", "mended"} /\ Usable /\ ~NothingPlanned
    /\ deck' = <<Cover>> \o FlattenSeq([s \in DOMAIN planned |-> <<Content(s)>> \o ImageSlides(s)])
    /\ scripts' = [i \in DOMAIN deck' |-> 0]
    /\ phase' = "idle" /\ attempt' = 0
    /\ planned' = <<>> /\ kept' = {}
    /\ UNCHANGED <<hasText, pictures, generated, made>>
-----------------------------------------------------------------------------
\* generate_scripts_for_course, generate_scripts_for_single_module: the deck
\* has its cover.  Scripts that it has stay until all are written again.
StartScripts ==
    /\ phase = "idle" /\ deck # <<>>
    /\ phase' = "writing"
    /\ generated' = <<>>
    /\ UNCHANGED <<hasText, pictures, attempt, planned, kept, deck, scripts, made>>

NextSlide == Len(generated) + 1
IsImage(i) == deck[i].kind = "image"

\* The slides of the batch that begins here: up to the next image.
Batch ==
    {j \in NextSlide..Min({Len(deck), NextSlide + BatchSize - 1}) : \A i \in NextSlide..j : ~IsImage(i)}

\* Mutant: any answer of the right length is taken.
RightLength(answer) == Len(answer) = Cardinality(Batch)

\* One script for each slide of the batch, with its number.
Anchored(answer) == answer = [k \in 1..Cardinality(Batch) |-> Len(generated) + k]

\* The numbers of an answer: consecutive ones, from any slide, of any length.
Answers == {[k \in 1..n |-> first + k - 1] : n \in 1..BatchSize, first \in DOMAIN deck}

\* One turn of the loop over slides that are no images.
WriteBatch ==
    /\ phase = "writing" /\ NextSlide <= Len(deck) /\ ~IsImage(NextSlide)
    /\ \E answer \in Answers : Anchored(answer) /\ generated' = generated \o answer
    /\ UNCHANGED <<hasText, pictures, phase, attempt, planned, kept, deck, scripts, made>>

\* _generate_image_slide_script.
WriteImageScript ==
    /\ phase = "writing" /\ NextSlide <= Len(deck) /\ IsImage(NextSlide)
    /\ generated' = Append(generated, NextSlide)
    /\ UNCHANGED <<hasText, pictures, phase, attempt, planned, kept, deck, scripts, made>>

\* Three answers were refused: nothing is saved.
WritingFails ==
    /\ phase = "writing" /\ NextSlide <= Len(deck)
    /\ phase' = "idle"
    /\ generated' = <<>>
    /\ UNCHANGED <<hasText, pictures, attempt, planned, kept, deck, scripts, made>>

SaveScripts ==
    /\ phase = "writing" /\ NextSlide > Len(deck)
    /\ scripts' = generated /\ generated' = <<>>
    /\ phase' = "idle"
    /\ UNCHANGED <<hasText, pictures, attempt, planned, kept, deck, made>>

DeckNext ==
    \/ StartSlides \/ Plan \/ AssignLayouts \/ Retry \/ ApplyFallbacks \/ PlanningFails \/ SaveDeck
    \/ StartScripts \/ WriteBatch \/ WriteImageScript \/ WritingFails \/ SaveScripts

DeckSpec == DeckInit /\ [][DeckNext]_deckVars
-----------------------------------------------------------------------------
\* Every image of a module with text is on an image slide of its deck, however
\* the model mapped it and whatever the fallbacks drop; such a slide shows one
\* landscape image or up to three upright ones, and it stands behind the slide
\* its images belong to.
ImagesShown ==
    deck # <<>> /\ hasText =>
        /\ \A p \in DOMAIN pictures : \E i \in DOMAIN deck : p \in Range(deck[i].shows)
        /\ \A i \in DOMAIN deck : IsImage(i) =>
             /\ deck[i - 1].of = deck[i].of
             /\ \/ Len(deck[i].shows) = 1
                \/ Len(deck[i].shows) <= GroupSize
                   /\ \A p \in Range(deck[i].shows) : pictures[p] = "vertical"

\* module_is_cover_only: no module that has text gets a deck without a slide
\* that teaches; its stage fails instead, and a deck it had stays.
NeverCoverOnly ==
    deck # <<>> /\ hasText => \E i \in DOMAIN deck : deck[i].kind = "content"

\* The slides of a saved deck have no script at all, or each has the one that
\* was written for it: batches, image slides, refused answers and a deck that
\* is made again shift none and leave none out.
ScriptsFit ==
    scripts \in {[i \in DOMAIN deck |-> 0], [i \in DOMAIN deck |-> i]}
=============================================================================
