-------------------------- MODULE MCDocumentDrafts --------------------------
(* DocumentDrafts for TLC. *)
EXTENDS DocumentDrafts, TLC

CONSTANTS t1, t2, o1, o2
=============================================================================
