------------------------- MODULE MCLearningProgress -------------------------
(* One module with a quiz and one without. *)
EXTENDS LearningProgress
CONSTANTS quizModule, videoModule
=============================================================================
