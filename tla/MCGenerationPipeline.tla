------------------------ MODULE MCGenerationPipeline ------------------------
(* Two modules of one course. *)
EXTENDS GenerationPipeline

CONSTANTS m1, m2
=============================================================================
