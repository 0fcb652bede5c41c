--------------------------- MODULE MCCourseContent ---------------------------
(***************************************************************************)
(* ModuleExtraction, SlideDecks and MediaFiles for TLC.  The three share   *)
(* no state: in a behaviour one of them runs and the others rest.          *)
(***************************************************************************)
EXTENDS ModuleExtraction, SlideDecks, MediaFiles, TLC

CONSTANTS i1, p1, p2

VARIABLE subject

\* One pipeline per course; beside it a request thread or the backfill script.
MCTasks == p1 :> {"video", "videos"} @@ p2 :> {"speak", "videos", "backfill"}

ContentInit ==
    \/ /\ subject = "outline" /\ ExtractionInit
       /\ ModuleWith(TRUE, <<>>) /\ MediaInit
    \/ /\ subject = "deck" /\ DeckInit
       /\ Opened("pptx", <<"stop">>) /\ MediaInit
    \/ /\ subject = "media" /\ MediaInit
       /\ Opened("pptx", <<"stop">>) /\ ModuleWith(TRUE, <<>>)

ContentNext ==
    \/ subject = "outline" /\ ExtractionNext /\ UNCHANGED <<subject, deckVars, mediaVars>>
    \/ subject = "deck" /\ DeckNext /\ UNCHANGED <<subject, extractionVars, mediaVars>>
    \/ subject = "media" /\ MediaNext /\ UNCHANGED <<subject, extractionVars, deckVars>>

ContentSpec == ContentInit /\ [][ContentNext]_<<subject, extractionVars, deckVars, mediaVars>>
=============================================================================
