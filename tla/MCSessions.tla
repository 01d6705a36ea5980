----------------------------- MODULE MCSessions -----------------------------
(* Constants for model checking Sessions. *)
EXTENDS Sessions, TLC

Symmetry == Permutations(Calls) \cup Permutations(Tokens)
=============================================================================
