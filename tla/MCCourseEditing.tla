--------------------------- MODULE MCCourseEditing ---------------------------
(* CourseEditing for two requests at a time. *)
EXTENDS CourseEditing, TLC

CONSTANTS r1, r2

const_Requests == {r1, r2}
symm == Permutations({r1, r2})
=============================================================================
