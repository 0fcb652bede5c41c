--------------------------- MODULE MCGenerationJobs ---------------------------
(* GenerationJobs on few jobs: two of one course, the others of another.     *)
EXTENDS GenerationJobs, TLC

CONSTANTS j1, j2, j3, c1, c2

MCCourseOf == [j \in Jobs |-> IF j \in {j1, j2} THEN c1 ELSE c2]

\* The two jobs of c1 may be exchanged.
Symmetry == Permutations({j1, j2})
=============================================================================
