----------------------------- MODULE MCEmbedder -----------------------------
(* Constants for model checking Embedder. *)
EXTENDS Embedder
=============================================================================
