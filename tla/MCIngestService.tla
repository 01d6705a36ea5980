-------------------------- MODULE MCIngestService --------------------------
(* Constants for model checking IngestService. *)
EXTENDS IngestService, TLC

CONSTANTS text1, text2, text3   \* chunk texts

\* v1 and v2 share a chunk, v3 only removes one, v4 repeats a chunk.
MCContents == {"v1", "v2", "v3", "v4"}
MCChunksOf == [v1 |-> <<text1, text2>>, v2 |-> <<text2, text3>>, v3 |-> <<text2>>, v4 |-> <<text3, text3>>]

OneSource == [source : {"s1"}, content : MCContents, access : {"public"}]
Colliding == {[source |-> "s1", content |-> "v1", access |-> "private"],
              [source |-> "s1", content |-> "v2", access |-> "public"],
              [source |-> "s1", content |-> "v3", access |-> "public"]}
Symmetry == Permutations(Workers)
=============================================================================
