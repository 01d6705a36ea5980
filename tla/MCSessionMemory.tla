--------------------------- MODULE MCSessionMemory ---------------------------
(* Constants for model checking SessionMemory. *)
EXTENDS SessionMemory
=============================================================================
