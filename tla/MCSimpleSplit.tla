--------------------------- MODULE MCSimpleSplit ---------------------------
(* Constants for model checking SimpleSplit. *)
EXTENDS SimpleSplit

\* An overlap that __post_init__ accepts as it is smaller than the chunk size.
NegativeOverlaps == {-1}
=============================================================================
