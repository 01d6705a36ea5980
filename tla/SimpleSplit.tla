---------------------------- MODULE SimpleSplit ----------------------------
(***************************************************************************)
(* Rule-based chunking (ingestion/chunker.py): _simple_split cuts a text   *)
(* into overlapping chunks at sentence ends, _create_chunk_objects then    *)
(* looks each chunk up in the text to record its position.                 *)
(*                                                                         *)
(* A text is its length and the positions of its sentence ends; a chunk is *)
(* the slice [from, to). One step is one iteration of a loop.              *)
(***************************************************************************)
EXTENDS Integers, Sequences

CONSTANTS
    ChunkSize,  \* chunk_size
    Overlaps,   \* the values of chunk_overlap to look at
    MinChunk,   \* min_chunk_size
    Lookback,   \* how far a sentence end is searched backwards (200)
    MaxLen      \* bound on the length of a text

\* What ChunkingConfig.__post_init__ accepts: the overlap may be negative, and then
\* also the chunk size.
ASSUME ConfigAssumption ==
    /\ ChunkSize \in Int /\ MinChunk \in Nat \ {0}
    /\ Lookback \in Nat /\ MaxLen \in Nat
    /\ Overlaps \subseteq Int /\ \A o \in Overlaps : o < ChunkSize

VARIABLES
    overlap, \* chunk_overlap
    len,     \* length of the text
    stops,   \* positions of . ! ? and newline
    pc,      \* "split", "place" or "done"
    start,   \* start
    chunks,  \* the chunks so far
    pos,     \* current_pos
    spans    \* start_char and end_char of the chunk objects so far

vars == <<overlap, len, stops, pc, start, chunks, pos, spans>>

Slice == [from : Nat, to : Nat]

Init ==
    /\ overlap \in Overlaps
    /\ len \in 1..MaxLen /\ stops \in SUBSET (0..(len - 1))
    /\ pc = "split" /\ start = 0 /\ chunks = <<>> /\ pos = 0 /\ spans = <<>>

-----------------------------------------------------------------------------
Larger(a, b) == IF a >= b THEN a ELSE b

\* The chunk text[a:b]: a negative index counts from the end of the text, and a
\* slice that ends before it begins is empty.
Index(i) == IF i >= 0 THEN i ELSE Larger(0, len + i)
Piece(a, b) == [from |-> Index(a), to |-> Larger(Index(a), Index(b))]

\* The sentence ends the backward search looks at, for a chunk that begins at s. (A
\* negative s is reached by a cut behind a sentence end that the search from s finds
\* again, so it never gets to an index below zero.)
Ends(s) == {i \in stops : Larger(s + MinChunk, s + ChunkSize - Lookback) < i /\ i <= s + ChunkSize}

\* Mutant: the cut goes before the character after the sentence end.
CutLate(s, cut) ==
    \/ Ends(s) = {} /\ cut = s + ChunkSize
    \/ cut - 2 \in Ends(s) /\ \A i \in Ends(s) : i <= cut - 2

\* chunk_end: behind the last of them, or after chunk_size characters.
IsCut(s, cut) ==
    \/ Ends(s) = {} /\ cut = s + ChunkSize
    \/ cut - 1 \in Ends(s) /\ \A i \in Ends(s) : i <= cut - 1

Cuts(s) == {cut \in {s + ChunkSize} \cup {i + 1 : i \in stops} : IsCut(s, cut)}

\* Mutant: a chunk that would end exactly with the text is not taken for the last.
LastChunkStrict ==
    /\ pc = "split" /\ start < len
    /\ start + ChunkSize > len
    /\ chunks' = Append(chunks, Piece(start, len))
    /\ pc' = "place"
    /\ UNCHANGED <<overlap, len, stops, start, pos, spans>>

\* The last iteration: the rest of the text fits into a chunk.
LastChunk ==
    /\ pc = "split" /\ start < len
    /\ start + ChunkSize >= len
    /\ chunks' = Append(chunks, Piece(start, len))
    /\ pc' = "place"
    /\ UNCHANGED <<overlap, len, stops, start, pos, spans>>

\* Mutant: the overlap is added instead of subtracted.
NextChunkSkips ==
    /\ pc = "split" /\ start < len /\ start + ChunkSize < len
    /\ \E cut \in Cuts(start) :
          /\ chunks' = Append(chunks, Piece(start, cut))
          /\ start' = cut + overlap
    /\ UNCHANGED <<overlap, len, stops, pc, pos, spans>>

\* Mutant: the next chunk begins at least where the last one did.
NextChunkStays ==
    /\ pc = "split" /\ start < len /\ start + ChunkSize < len
    /\ \E cut \in Cuts(start) :
          /\ chunks' = Append(chunks, Piece(start, cut))
          /\ start' = Larger(start, cut - ChunkSize)
    /\ UNCHANGED <<overlap, len, stops, pc, pos, spans>>

\* Any other iteration.
NextChunk ==
    /\ pc = "split" /\ start < len /\ start + ChunkSize < len
    /\ \E cut \in Cuts(start) :
          /\ chunks' = Append(chunks, Piece(start, cut))
          /\ start' = cut - overlap
    /\ UNCHANGED <<overlap, len, stops, pc, pos, spans>>

\* The condition of the loop fails: the last cut was at the end of the text.
EndOfText ==
    /\ pc = "split" /\ start >= len
    /\ pc' = "place"
    /\ UNCHANGED <<overlap, len, stops, start, chunks, pos, spans>>

\* Mutant: the search always begins at the start of the text.
FoundFirst(c, p) == 0..c.from

\* original_content.find(chunk_text, current_pos), and its fallback: the first
\* occurrence from p on of a chunk that was cut at c.from. A text may repeat; an
\* empty chunk is found at once.
Found(c, p) ==
    IF c.from = c.to THEN {p}
    ELSE IF c.from >= p THEN p..c.from
    ELSE {p} \cup {q \in p..len : q + (c.to - c.from) <= len}

\* Mutant: the search for the next chunk begins one character too late.
PlaceFromNext ==
    /\ pc = "place" /\ Len(spans) < Len(chunks)
    /\ LET c == chunks[Len(spans) + 1] IN
       \E q \in Found(c, pos) :
          /\ spans' = Append(spans, [from |-> q, to |-> q + (c.to - c.from)])
          /\ pos' = q + (c.to - c.from) + 1
    /\ UNCHANGED <<overlap, len, stops, pc, start, chunks>>

\* _create_chunk_objects, one chunk.
Place ==
    /\ pc = "place" /\ Len(spans) < Len(chunks)
    /\ LET c == chunks[Len(spans) + 1] IN
       \E q \in Found(c, pos) :
          /\ spans' = Append(spans, [from |-> q, to |-> q + (c.to - c.from)])
          /\ pos' = q + (c.to - c.from)
    /\ UNCHANGED <<overlap, len, stops, pc, start, chunks>>

\* The chunk objects are returned.
Return ==
    /\ pc = "place" /\ Len(spans) = Len(chunks)
    /\ pc' = "done"
    /\ UNCHANGED <<overlap, len, stops, start, chunks, pos, spans>>

Next == LastChunk \/ NextChunk \/ EndOfText \/ Place \/ Return

Spec == Init /\ [][Next]_vars
FairSpec == Spec /\ WF_vars(Next)

-----------------------------------------------------------------------------
(* Properties *)

TypeOK ==
    /\ overlap \in Overlaps
    /\ len \in Nat \ {0} /\ stops \subseteq 0..(len - 1)
    /\ pc \in {"split", "place", "done"} /\ start \in Int /\ pos \in Nat
    /\ chunks \in Seq(Slice) /\ spans \in Seq(Slice)

\* The configurations for which every iteration advances: the shortest chunk a
\* sentence end can make is longer than the overlap. The default of
\* ChunkingConfig (1000, 200, 100) is one; what __post_init__ accepts need not be:
\* with less room the loop may stand still and append for ever, with a negative
\* overlap it skips text.
Roomy == 0 <= overlap /\ overlap < Larger(MinChunk, ChunkSize - Lookback) + 2

\* Once the text is split, each of its characters is in a chunk.
Whole ==
    pc # "split" => \A i \in 0..(len - 1) : \E k \in 1..Len(chunks) :
        chunks[k].from <= i /\ i < chunks[k].to

\* No character of the text is lost in a roomy configuration.
NothingLost == Roomy => Whole

\* In a roomy configuration a chunk is a non-empty part of the text, and at most one
\* character longer than chunk_size (the sentence end at the far end of the search
\* range is included).
ChunkBounded ==
    Roomy => \A k \in 1..Len(chunks) :
        /\ chunks[k].from < chunks[k].to /\ chunks[k].to <= len
        /\ chunks[k].to - chunks[k].from <= ChunkSize + 1

\* In a roomy configuration every iteration of _simple_split moves forward,
\* wherever the sentence ends are.
Advances == [][Roomy /\ pc = "split" /\ pc' = "split" => start' > start]_vars

\* In a roomy configuration _simple_split and _create_chunk_objects come to an end.
Terminates == Roomy => <>(pc = "done")

\* The recorded position of a chunk is never that of an earlier repetition of its
\* text: this is what the search from current_pos is for, over all the positions
\* recorded before. In a roomy configuration.
NotFoundEarlier == Roomy => \A k \in 1..Len(spans) : spans[k].from >= chunks[k].from

\* Without overlap current_pos is where the next chunk begins, and the recorded
\* spans are the real ones, however the text repeats itself.
FlushIsReal == overlap = 0 => \A k \in 1..Len(spans) : spans[k] = chunks[k]

\* Claimed by __post_init__, "Validate configuration": every iteration moves
\* forward in every configuration it accepts.
AlwaysAdvances == [][pc = "split" /\ pc' = "split" => start' > start]_vars

\* Claimed by the same line: no accepted configuration leaves text out.
AlwaysWhole == Whole

\* Claimed by "Find the position of this chunk in the original content": the
\* recorded span of a chunk is where it was cut.
PositionIsReal == \A k \in 1..Len(spans) : spans[k] = chunks[k]
=============================================================================
