-------------------------- MODULE MCGenerationQueue --------------------------
(* GenerationQueue on a few tickets.                                        *)
EXTENDS GenerationQueue

CONSTANTS t1, t2, t3, t4
=============================================================================
