--------------------------- MODULE ModuleExtraction ---------------------------
(***************************************************************************)
(* How an uploaded document becomes the modules of a course                *)
(* (generation/blueprint.py, documents/docx.py, documents/pptx.py): its    *)
(* lines are read, split at the document's own labels or where the         *)
(* language model says, the boundaries repaired and moved back over        *)
(* headings, the text cut, the images handed out and their captions taken  *)
(* out of the text.                                                        *)
(*                                                                         *)
(* A line is known by its number; all that matters of it is its kind.      *)
(*   label    "Module 3: ..."; `inOrder` says that the labels count 1, 2,  *)
(*            ... and that little stands before the first                  *)
(*   header   another short line that is always taken for a heading        *)
(*   short    a short line that may resemble a module's title              *)
(*   stop     a bullet, a long line, a line without letters                *)
(*   caption  "Figure 2 ..."                                               *)
(*   blank    between paragraphs of a PDF's page; the other formats drop   *)
(*            blank lines                                                  *)
(***************************************************************************)
EXTENDS Integers, Sequences, FiniteSets, FiniteSetsExt, SequencesExt

CONSTANTS
    Images,
    MaxLines,       \* bound: lines of a document
    MaxModules      \* bound: modules of an answer

ASSUME ExtractionAssumption == {MaxLines, MaxModules} \subseteq Nat \ {0}

LookBack == 5       \* adjust_start_lines_for_headers: range(1, 6)
MinLabelled == 3    \* _MIN_LABELLED_MODULES

VARIABLES
    format,
    lines,          \* the kind of every line
    inOrder,
    caption,        \* per image: the lines of its caption, {} when none is found
    stage,
    start,          \* per module: its start_line
    at,             \* the module that a loop has reached
    text,           \* per module: the lines of its source_text
    place           \* per image: the module it was given to

extractionVars == <<format, lines, inOrder, caption, stage, start, at, text, place>>

Total == Len(lines)
Labels == {l \in DOMAIN lines : lines[l] = "label"}
Kinds == {"label", "header", "short", "stop", "caption"}

\* A page's lines neither begin nor end with a blank, and hold no two in a row.
Readable(ls, f) ==
    \A l \in DOMAIN ls : ls[l] = "blank" =>
        f = "pdf" /\ l > 1 /\ l < Len(ls) /\ ls[l - 1] # "blank"

Documents(f) == {ls \in SeqOf(Kinds \cup {"blank"}, MaxLines) : ls # <<>> /\ Readable(ls, f)}

Labelled(ls, counted) ==
    counted /\ Cardinality({l \in DOMAIN ls : ls[l] = "label"}) >= MinLabelled

Opened(f, ls) ==
    /\ format = f /\ lines = ls
    /\ inOrder \in {counted \in BOOLEAN : counted => Labelled(ls, counted)}
    /\ caption = [i \in Images |-> {}]
    /\ stage = "split" /\ start = <<>> /\ at = 1
    /\ text = <<>> /\ place = [i \in Images |-> 0]

ExtractionInit == \E f \in {"pdf", "docx", "pptx"} : \E ls \in Documents(f) : Opened(f, ls)
-----------------------------------------------------------------------------
\* modules_from_labels: the document is split at its labels; the first module
\* also takes what stands before.
SplitAtLabels ==
    /\ stage = "split" /\ inOrder
    /\ \E first \in [1..Cardinality(Labels) -> Labels] :
         /\ \A m, n \in DOMAIN first : m < n => first[m] < first[n]
         /\ start' = [first EXCEPT ![1] = 1]
    /\ stage' = "adjust" /\ at' = 2
    /\ UNCHANGED <<format, lines, inOrder, caption, text, place>>

\* extract_modules_with_llm: the model answers with any numbers; Total + 1
\* stands for every number that is no line.
Answer ==
    /\ stage = "split" /\ ~inOrder
    /\ \E answer \in SeqOf(1..(Total + 1), MaxModules) : answer # <<>> /\ start' = answer
    /\ stage' = "validate" /\ at' = 1
    /\ UNCHANGED <<format, lines, inOrder, caption, text, place>>

Previous == IF at = 1 THEN 0 ELSE start[at - 1]

\* The remaining lines are shared out evenly.
Repaired(prev) == prev + Max({1, (Total - prev) \div (Len(start) - at + 1)})

\* _validate_start_lines: one module; the first is set to 1 after the loop.
Validate ==
    /\ stage = "validate" /\ at <= Len(start)
    /\ start' = IF start[at] <= Previous \/ start[at] > Total
                THEN [start EXCEPT ![at] = Repaired(Previous)] ELSE start
    /\ at' = at + 1
    /\ UNCHANGED <<format, lines, inOrder, caption, stage, text, place>>

\* The text before the first label: the first module may hold that, the label
\* and a heading that repeats it.  Module titles may carry the labels instead.
Foldable ==
    /\ Len(start) > 1
    /\ Cardinality(Labels) >= 2 \/ Len(start) > 2
    /\ Labels # {} => \A l \in (Min(Labels) + 1)..(start[2] - 1) :
                         l <= Total => lines[l] \in {"blank", "short", "header"}

\* _normalize_labelled_modules: titles and lengths decide, so it may happen.
FoldPreamble ==
    /\ stage = "validate" /\ at > Len(start)
    /\ \/ start' = [start EXCEPT ![1] = 1]
       \/ Foldable /\ start' = <<1>> \o SubSeq(start, 3, Len(start))
    /\ stage' = "adjust" /\ at' = 2
    /\ UNCHANGED <<format, lines, inOrder, caption, text, place>>

\* retry(generate_once, attempts=3) gives up.
ModelFails ==
    /\ stage = "split" /\ ~inOrder
    /\ stage' = "failed"
    /\ UNCHANGED <<format, lines, inOrder, caption, start, at, text, place>>
-----------------------------------------------------------------------------
OnItsLabel == start[at] <= Total /\ lines[start[at]] = "label"

\* The lines that the search passes without stopping.
Passed(offset) == \A d \in 1..(offset - 1) : lines[start[at] - d] \in {"blank", "short"}

Reached == {d \in 1..LookBack : start[at] - d >= 1 /\ Passed(d)}

\* What is certainly a heading, and what may be.
Headings == {d \in Reached : lines[start[at] - d] \in {"label", "header"}}
Resembling == {d \in Reached : lines[start[at] - d] = "short"}

\* Mutant: the heading may lie before the previous module.
MovedBackFreely(offset) == start[at] - offset

MovedBack(offset) == Max({start[at - 1] + 1, start[at] - offset})

\* adjust_start_lines_for_headers: one module.
Adjust ==
    /\ stage = "adjust" /\ at <= Len(start) /\ start[at] <= Total + 1
    /\ \/ OnItsLabel /\ start' = start
       \/ /\ ~OnItsLabel
          /\ \/ \E d \in Headings \cup Resembling : start' = [start EXCEPT ![at] = MovedBack(d)]
             \/ Headings = {} /\ start' = start
    /\ at' = at + 1
    /\ UNCHANGED <<format, lines, inOrder, caption, stage, text, place>>

\* Two repairs beyond the last line: original_lines[check_idx] raises.
AdjustRaises ==
    /\ stage = "adjust" /\ at <= Len(start) /\ start[at] > Total + 1
    /\ stage' = "failed"
    /\ UNCHANGED <<format, lines, inOrder, caption, start, at, text, place>>

EndLine(m) == IF m < Len(start) THEN start[m + 1] - 1 ELSE Total

\* slice_modules_by_line: strip() takes the blank lines at both ends.
Slice ==
    /\ stage = "adjust" /\ at > Len(start)
    /\ text' = [m \in DOMAIN start |->
                  LET slice == start[m]..Min({EndLine(m), Total})
                      said == {l \in slice : lines[l] # "blank"}
                  IN {l \in slice : \E a, b \in said : a <= l /\ l <= b}]
    /\ stage' = "place"
    /\ UNCHANGED <<format, lines, inOrder, caption, start, at, place>>

\* find_matching_line and get_caption_lines.  An image of a PDF without a
\* caption takes the paragraph below it for one, and a line may be cut in two.
\* _nearest_caption: in a DOCX only a caption's first line counts.
CaptionsFound ==
    {{}} \cup CASE format = "pptx" -> {}
               [] format = "docx" -> {{l} : l \in {k \in DOMAIN lines : lines[k] = "caption"}}
               [] OTHER -> {{l} : l \in {k \in DOMAIN lines : lines[k] # "blank"}}
                           \cup {{l, l + 1} : l \in {k \in 1..(Total - 1) :
                                    lines[k] # "blank" /\ lines[k + 1] \in {"short", "stop", "blank"}}}

Holds(m, l) == start[m] <= l /\ l <= EndLine(m)

\* assign_images_to_modules, _assign_docx_images_by_line: without a line the
\* page or the image's number decides.
PlaceImages ==
    /\ stage = "place"
    /\ \E found \in [Images -> CaptionsFound], given \in [Images -> DOMAIN start] :
         /\ \A i \in Images : found[i] # {} => Holds(given[i], Min(found[i]))
         /\ caption' = found /\ place' = given
    /\ stage' = "strip"
    /\ UNCHANGED <<format, lines, inOrder, start, at, text>>

CaptionLines == UNION {caption[i] : i \in Images}

\* The number under which the filter knows a line of a module's text: counted
\* from start_line, although strip() may have taken lines off its head.
CountedAs(m, l) == start[m] + (l - Min(text[m]))

\* The last loop of run_blueprint_extraction and run_docx_blueprint_extraction.
RemoveCaptions ==
    /\ stage = "strip"
    /\ text' = [m \in DOMAIN text |-> {l \in text[m] : CountedAs(m, l) \notin CaptionLines}]
    /\ stage' = "done"
    /\ UNCHANGED <<format, lines, inOrder, caption, start, at, place>>

\* generate_course_outline: a DOCX that fails is converted and read as a PDF;
\* its first course row is deleted or marked when that fails as well.
ReadAsPdf ==
    /\ stage = "failed" /\ format = "docx"
    /\ format' = "pdf"
    /\ stage' = "split" /\ start' = <<>> /\ at' = 1
    /\ UNCHANGED <<lines, inOrder, caption, text, place>>

ExtractionNext ==
    \/ SplitAtLabels \/ Answer \/ Validate \/ FoldPreamble \/ ModelFails
    \/ Adjust \/ AdjustRaises \/ Slice \/ PlaceImages \/ RemoveCaptions \/ ReadAsPdf

ExtractionSpec == ExtractionInit /\ [][ExtractionNext]_extractionVars
-----------------------------------------------------------------------------
\* No module starts on a blank line of a PDF.
Unshifted == \A m \in DOMAIN start : start[m] <= Total => lines[start[m]] # "blank"

Keepers(l) == {m \in DOMAIN text : l \in text[m]}

\* Every line of the document that says something is in the text of exactly
\* one module, but for the captions of images, which are in none: whatever the
\* model answered, repairs, folding and the search for headings lose no line
\* and teach none twice.
TextKept ==
    stage = "done" /\ Unshifted =>
        \A l \in DOMAIN lines : lines[l] # "blank" =>
            Cardinality(Keepers(l)) = IF l \in CaptionLines THEN 0 ELSE 1

\* The same of every document: the prompt asks for "no gaps", and the loop
\* says that it removes captions.
OnlyCaptionsRemoved ==
    stage = "done" =>
        \A l \in DOMAIN lines : lines[l] # "blank" /\ l \notin CaptionLines => Keepers(l) # {}

=============================================================================
