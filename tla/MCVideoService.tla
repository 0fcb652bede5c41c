--------------------------- MODULE MCVideoService ---------------------------
(* One module of a course; the service is busy with its abandoned runs. *)
EXTENDS VideoService
CONSTANTS m1
=============================================================================
