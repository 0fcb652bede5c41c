--------------------------- MODULE MCEmailOutbox ---------------------------
(* One assignment, or two; the manager is m1 or nobody. *)
EXTENDS EmailOutbox
CONSTANTS a1, a2, m1
=============================================================================
