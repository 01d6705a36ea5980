---------------------------- MODULE MCRagCaches ----------------------------
(* Constants for model checking RagCaches. *)
EXTENDS RagCaches
=============================================================================
