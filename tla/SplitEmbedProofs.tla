-------------------------- MODULE SplitEmbedProofs --------------------------
(***************************************************************************)
(* Proofs about the two steps between the text of a document and its rows: *)
(* splitting (SimpleSplit) and embedding (Embedder).                       *)
(*                                                                         *)
(* First part, for texts of any length and every roomy configuration: no   *)
(* character is lost, chunks are bounded, the loop advances, and no chunk  *)
(* is recorded before the place it was cut at. Only the types hold for all *)
(* the configurations that __post_init__ accepts.                          *)
(*                                                                         *)
(* Second part, for any number of chunks, any batch and cache size and any *)
(* number of retries: every chunk comes out once with its own vector, zero *)
(* vectors are earned, and the LRU cache does what it is there for.        *)
(***************************************************************************)
EXTENDS SimpleSplit, Embedder, FiniteSetTheorems, SequenceTheorems, TLAPS

\* No slice ends before it begins.
Ordered == \A k \in 1..Len(chunks) : chunks[k].from <= chunks[k].to

\* Character i is in one of the chunks.
Held(i) == \E k \in 1..Len(chunks) : chunks[k].from <= i /\ i < chunks[k].to

\* While the text is split, everything before `start' is in a chunk.
HeldInv ==
    /\ start >= 0
    /\ pc = "split" => start <= len /\ \A i \in 0..(len - 1) : i < start => Held(i)
    /\ pc # "split" => \A i \in 0..(len - 1) : Held(i)

\* What ChunkBounded says of a roomy configuration.
Bounded ==
    \A k \in 1..Len(chunks) :
        /\ chunks[k].from < chunks[k].to /\ chunks[k].to <= len
        /\ chunks[k].to - chunks[k].from <= ChunkSize + 1

SplitInv == HeldInv /\ Bounded
Inv == TypeOK /\ Ordered /\ (Roomy => SplitInv)

\* A chunk is a slice of the text, and without negative indices the plain one.
LEMMA PieceIsSlice ==
    ASSUME len \in Nat, NEW a \in Int, NEW b \in Int
    PROVE  /\ Piece(a, b) \in Slice /\ Piece(a, b).from <= Piece(a, b).to
           /\ 0 <= a /\ a <= b => Piece(a, b) = [from |-> a, to |-> b]
<1>1. Index(a) \in Nat /\ Index(b) \in Nat /\ (a >= 0 => Index(a) = a) /\ (b >= 0 => Index(b) = b)
  BY DEF Index, Larger
<1>2. Larger(Index(a), Index(b)) \in Nat /\ Index(a) <= Larger(Index(a), Index(b))
  BY <1>1 DEF Larger
<1>3. Piece(a, b) \in Slice /\ Piece(a, b).from <= Piece(a, b).to
  BY <1>1, <1>2 DEF Piece, Slice
<1>4. ASSUME 0 <= a, a <= b PROVE Piece(a, b) = [from |-> a, to |-> b]
  <2>1. Index(a) = a /\ Index(b) = b
    BY <1>1, <1>4
  <2>2. Larger(a, b) = b
    BY <1>4 DEF Larger
  <2> QED
    BY <2>1, <2>2 DEF Piece
<1> QED
  BY <1>3, <1>4

\* A cut is a number.
LEMMA CutIsInt ==
    ASSUME TypeOK, NEW s \in Int, NEW cut \in Cuts(s)
    PROVE  cut \in Int
<1>1. s + ChunkSize \in Int /\ \A i \in stops : i + 1 \in Int
  BY ConfigAssumption DEF TypeOK
<1> QED
  BY <1>1 DEF Cuts

\* In a roomy configuration a cut is behind its start, at most chunk_size + 1
\* characters; behind a sentence end it leaves more than the overlap.
LEMMA CutRange ==
    ASSUME TypeOK, Roomy, NEW s \in Nat, NEW cut \in Cuts(s), s + ChunkSize < len
    PROVE  /\ cut \in Nat /\ s < cut /\ cut <= s + ChunkSize + 1 /\ cut <= len
           /\ cut - overlap > s
<1>0. /\ cut \in Int /\ overlap \in Nat /\ ChunkSize \in Nat \ {0} /\ overlap < ChunkSize
      /\ len \in Nat /\ IsCut(s, cut)
  BY CutIsInt, ConfigAssumption DEF TypeOK, Roomy, Cuts
<1>1. CASE Ends(s) = {} /\ cut = s + ChunkSize
  BY <1>0, <1>1
<1>2. CASE cut - 1 \in Ends(s)
  <2>1. /\ Larger(s + MinChunk, s + ChunkSize - Lookback) < cut - 1
        /\ cut - 1 <= s + ChunkSize
    BY <1>2 DEF Ends
  <2>2. s + MinChunk < cut - 1 /\ s + ChunkSize - Lookback < cut - 1
    BY <1>0, <2>1, ConfigAssumption DEF Larger
  <2>3. overlap < MinChunk + 2 \/ overlap < ChunkSize - Lookback + 2
    BY <1>0, ConfigAssumption DEF Roomy, Larger
  <2> QED
    BY <1>0, <2>1, <2>2, <2>3, ConfigAssumption
<1> QED
  BY <1>0, <1>1, <1>2 DEF IsCut

\* What appending a slice does to the chunks.
LEMMA AppendSlice ==
    ASSUME TypeOK, Ordered, NEW c \in Slice, c.from <= c.to, chunks' = Append(chunks, c)
    PROVE  /\ Ordered' /\ chunks' \in Seq(Slice)
           /\ Len(chunks) \in Nat /\ Len(chunks') = Len(chunks) + 1
           /\ chunks'[Len(chunks) + 1] = c
           /\ \A k \in 1..Len(chunks) : chunks'[k] = chunks[k]
<1>1. chunks \in Seq(Slice) /\ Len(chunks) \in Nat
  BY DEF TypeOK
<1>2. /\ chunks' \in Seq(Slice) /\ Len(chunks') = Len(chunks) + 1
      /\ chunks'[Len(chunks) + 1] = c
      /\ \A k \in 1..Len(chunks) : chunks'[k] = chunks[k]
  BY <1>1
<1>3. ASSUME NEW k \in 1..Len(chunks') PROVE chunks'[k].from <= chunks'[k].to
  <2>1. CASE k \in 1..Len(chunks)
    BY <1>2, <2>1 DEF Ordered
  <2>2. CASE k = Len(chunks) + 1
    BY <1>2, <2>2
  <2> QED
    BY <1>1, <1>2, <2>1, <2>2
<1> QED
  BY <1>1, <1>2, <1>3 DEF Ordered

\* Every step keeps the types, in every configuration that __post_init__ accepts.
LEMMA TypeStep ==
    ASSUME TypeOK, Ordered, [Next]_vars
    PROVE  TypeOK' /\ Ordered'
<1>0. start \in Int /\ len \in Nat /\ overlap \in Int
  BY ConfigAssumption DEF TypeOK
<1>1. CASE LastChunk
  <2>1. Piece(start, len) \in Slice /\ Piece(start, len).from <= Piece(start, len).to
    BY <1>0, PieceIsSlice
  <2>2. Ordered' /\ chunks' \in Seq(Slice)
    BY <1>1, <2>1, AppendSlice DEF LastChunk
  <2> QED
    BY <1>1, <2>2 DEF LastChunk, TypeOK
<1>2. CASE NextChunk
  <2>1. PICK cut \in Cuts(start) : chunks' = Append(chunks, Piece(start, cut)) /\ start' = cut - overlap
    BY <1>2 DEF NextChunk
  <2>2. cut \in Int
    BY <1>0, CutIsInt
  <2>3. Piece(start, cut) \in Slice /\ Piece(start, cut).from <= Piece(start, cut).to
    BY <1>0, <2>2, PieceIsSlice
  <2>4. Ordered' /\ chunks' \in Seq(Slice)
    BY <2>1, <2>3, AppendSlice
  <2>5. start' \in Int
    BY <1>0, <2>1, <2>2
  <2> QED
    BY <1>2, <2>4, <2>5 DEF NextChunk, TypeOK
<1>3. CASE EndOfText
  BY <1>3 DEF EndOfText, TypeOK, Ordered
<1>4. CASE Place
  <2> DEFINE c == chunks[Len(spans) + 1]
  <2>1. PICK q \in Found(c, pos) : /\ spans' = Append(spans, [from |-> q, to |-> q + (c.to - c.from)])
                                  /\ pos' = q + (c.to - c.from)
    BY <1>4 DEF Place
  <2>2. Len(spans) + 1 \in 1..Len(chunks)
    BY <1>4 DEF Place, TypeOK
  <2>3. c \in Slice /\ c.from <= c.to
    BY <2>2 DEF TypeOK, Ordered
  <2>4. c.from \in Nat /\ c.to \in Nat
    BY <2>3 DEF Slice
  <2>5. q \in Nat
    BY <2>1, <2>4 DEF Found, TypeOK
  <2>6. q + (c.to - c.from) \in Nat
    BY <2>3, <2>4, <2>5
  <2>7. spans' \in Seq(Slice)
    BY <2>1, <2>5, <2>6 DEF TypeOK, Slice
  <2> QED
    BY <1>4, <2>1, <2>6, <2>7 DEF Place, TypeOK, Ordered
<1>5. CASE Return
  BY <1>5 DEF Return, TypeOK, Ordered
<1>6. CASE UNCHANGED vars
  BY <1>6 DEF vars, TypeOK, Ordered
<1> QED
  BY <1>1, <1>2, <1>3, <1>4, <1>5, <1>6 DEF Next

\* What appending a chunk does: it is bounded if the new chunk is, and holds
\* what was held and what is in the new chunk.
LEMMA AppendChunk ==
    ASSUME TypeOK, Ordered, Bounded, NEW a \in Nat, NEW b \in Nat,
           a < b, b <= len, b - a <= ChunkSize + 1,
           chunks' = Append(chunks, Piece(a, b)), len' = len
    PROVE  /\ Bounded'
           /\ \A i \in Int : Held(i) \/ (a <= i /\ i < b) => Held(i)'
<1> DEFINE c == [from |-> a, to |-> b]
<1>0. chunks' = Append(chunks, c) /\ c \in Slice /\ c.from = a /\ c.to = b /\ c.from <= c.to
  <2>1. Piece(a, b) = c
    BY PieceIsSlice DEF TypeOK
  <2> QED
    BY <2>1 DEF Slice
<1> HIDE DEF c
<1>2. /\ Len(chunks) \in Nat /\ Len(chunks') = Len(chunks) + 1
      /\ chunks'[Len(chunks) + 1] = c
      /\ \A k \in 1..Len(chunks) : chunks'[k] = chunks[k]
  BY <1>0, AppendSlice
<1>3. Bounded'
  <2> SUFFICES ASSUME NEW k \in 1..Len(chunks')
               PROVE  /\ chunks'[k].from < chunks'[k].to /\ chunks'[k].to <= len
                      /\ chunks'[k].to - chunks'[k].from <= ChunkSize + 1
    BY DEF Bounded
  <2>1. CASE k \in 1..Len(chunks)
    BY <1>2, <2>1 DEF Bounded
  <2>2. CASE k = Len(chunks) + 1
    BY <1>0, <1>2, <2>2
  <2> QED
    BY <1>2, <2>1, <2>2
<1>4. ASSUME NEW i \in Int, Held(i) \/ (a <= i /\ i < b) PROVE Held(i)'
  <2>1. CASE Held(i)
    <3>1. PICK k \in 1..Len(chunks) : chunks[k].from <= i /\ i < chunks[k].to
      BY <2>1 DEF Held
    <3>2. k \in 1..Len(chunks') /\ chunks'[k] = chunks[k]
      BY <1>2
    <3> QED
      BY <3>1, <3>2 DEF Held
  <2>2. CASE a <= i /\ i < b
    <3>1. Len(chunks) + 1 \in 1..Len(chunks')
      BY <1>2
    <3> QED
      BY <1>0, <1>2, <2>2, <3>1 DEF Held
  <2> QED
    BY <1>4, <2>1, <2>2
<1> QED
  BY <1>3, <1>4

\* Every step of a roomy configuration keeps everything before `start' in bounded
\* chunks.
LEMMA SplitStep ==
    ASSUME TypeOK, Ordered, Roomy, SplitInv, [Next]_vars
    PROVE  SplitInv'
<1>0. /\ HeldInv /\ Bounded
      /\ start \in Nat /\ len \in Nat /\ overlap \in Nat /\ ChunkSize \in Nat
  BY ConfigAssumption DEF SplitInv, HeldInv, TypeOK, Roomy
<1>1. CASE LastChunk
  <2>1. len - start <= ChunkSize + 1 /\ start < len
    BY <1>0, <1>1 DEF LastChunk
  <2>2. chunks' = Append(chunks, Piece(start, len)) /\ len' = len
    BY <1>1 DEF LastChunk
  <2>3. /\ Bounded'
        /\ \A i \in Int : Held(i) \/ (start <= i /\ i < len) => Held(i)'
    BY <1>0, <2>1, <2>2, AppendChunk
  <2>4. \A i \in 0..(len - 1) : Held(i)'
    BY <1>0, <1>1, <2>3 DEF LastChunk, HeldInv
  <2> QED
    BY <1>0, <1>1, <2>3, <2>4 DEF LastChunk, SplitInv, HeldInv
<1>2. CASE NextChunk
  <2>1. PICK cut \in Cuts(start) : chunks' = Append(chunks, Piece(start, cut)) /\ start' = cut - overlap
    BY <1>2 DEF NextChunk
  <2>2. /\ cut \in Nat /\ start < cut /\ cut <= start + ChunkSize + 1 /\ cut <= len
        /\ cut - overlap > start
    BY <1>0, <1>2, CutRange DEF NextChunk
  <2>3. cut - start <= ChunkSize + 1 /\ len' = len
    BY <1>0, <1>2, <2>2 DEF NextChunk
  <2>4. /\ Bounded'
        /\ \A i \in Int : Held(i) \/ (start <= i /\ i < cut) => Held(i)'
    BY <1>0, <2>1, <2>2, <2>3, AppendChunk
  <2>5. start' \in Nat /\ start' <= cut
    BY <1>0, <2>1, <2>2
  <2>6. ASSUME NEW i \in 0..(len - 1), i < start' PROVE Held(i)'
    <3>1. Held(i) \/ (start <= i /\ i < cut)
      BY <1>0, <1>2, <2>2, <2>5, <2>6 DEF NextChunk, HeldInv
    <3> QED
      BY <2>4, <3>1
  <2>7. start' >= 0 /\ start' <= len /\ pc' = "split"
    BY <1>0, <1>2, <2>2, <2>5 DEF NextChunk
  <2> QED
    BY <2>3, <2>4, <2>6, <2>7 DEF SplitInv, HeldInv
<1>3. CASE EndOfText
  <2>1. \A i \in 0..(len - 1) : Held(i)
    BY <1>0, <1>3 DEF EndOfText, HeldInv
  <2> QED
    BY <1>0, <1>3, <2>1 DEF EndOfText, SplitInv, HeldInv, Bounded, Held
<1>4. CASE Place
  BY <1>0, <1>4 DEF Place, SplitInv, HeldInv, Bounded, Held
<1>5. CASE Return
  BY <1>0, <1>5 DEF Return, SplitInv, HeldInv, Bounded, Held
<1>6. CASE UNCHANGED vars
  BY <1>0, <1>6 DEF vars, SplitInv, HeldInv, Bounded, Held
<1> QED
  BY <1>1, <1>2, <1>3, <1>4, <1>5, <1>6 DEF Next

\* The overlap is a setting: no step changes it.
LEMMA OverlapStays == [Next]_vars => overlap' = overlap
  BY DEF Next, vars, LastChunk, NextChunk, EndOfText, Place, Return

\* The invariant holds in every reachable state.
LEMMA Invariant == Spec => []Inv
<1>1. Init => Inv
  BY ConfigAssumption DEF Init, Inv, TypeOK, Ordered, SplitInv, HeldInv, Bounded
<1>2. Inv /\ [Next]_vars => Inv'
  <2> SUFFICES ASSUME Inv, [Next]_vars PROVE Inv'
    OBVIOUS
  <2>1. TypeOK' /\ Ordered'
    BY TypeStep DEF Inv
  <2>2. Roomy => SplitInv'
    BY SplitStep DEF Inv
  <2>3. Roomy' = Roomy
    BY OverlapStays DEF Roomy
  <2> QED
    BY <2>1, <2>2, <2>3 DEF Inv
<1> QED
  BY <1>1, <1>2, PTL DEF Spec

\* Positions and slices are numbers within their types in every configuration that
\* __post_init__ accepts: the -1 of an unsuccessful search in _create_chunk_objects
\* never becomes a position.
THEOREM SplitTypeCorrect == Spec => []TypeOK
<1>1. Inv => TypeOK
  BY DEF Inv
<1> QED
  BY <1>1, Invariant, PTL

\* In a roomy configuration _simple_split loses no character of the text it splits.
THEOREM SplitLosesNothing == Spec => []NothingLost
<1>1. Inv => NothingLost
  BY DEF Inv, SplitInv, HeldInv, NothingLost, Whole, Held
<1> QED
  BY <1>1, Invariant, PTL

\* In a roomy configuration every chunk is a non-empty slice of the text, of at most
\* chunk_size + 1 characters.
THEOREM SplitIsBounded == Spec => []ChunkBounded
<1>1. Inv => ChunkBounded
  BY DEF Inv, SplitInv, Bounded, ChunkBounded
<1> QED
  BY <1>1, Invariant, PTL

\* In a roomy configuration every iteration of _simple_split moves forward.
THEOREM SplitAdvances == Spec => Advances
<1>1. Inv /\ [Next]_vars => [Roomy /\ pc = "split" /\ pc' = "split" => start' > start]_vars
  <2> SUFFICES ASSUME Inv, Roomy, NextChunk PROVE start' > start
    BY DEF Next, LastChunk, EndOfText, Place, Return
  <2>1. PICK cut \in Cuts(start) : start' = cut - overlap
    BY DEF NextChunk
  <2>2. start \in Nat /\ TypeOK /\ start + ChunkSize < len
    BY DEF NextChunk, Inv, SplitInv, HeldInv, TypeOK
  <2>3. cut - overlap > start
    BY <2>2, CutRange
  <2> QED
    BY <2>1, <2>3
<1> QED
  BY <1>1, Invariant, PTL DEF Spec, Advances

-----------------------------------------------------------------------------
(* Positions *)

\* Where chunk k + 1 is cut: `overlap' characters before the end of chunk k.
CutAt(k) == IF k = 0 THEN 0 ELSE chunks[k].to - overlap

\* Each chunk begins where the one before it says, and the search of
\* _create_chunk_objects stands behind the end of the last chunk it placed, without
\* overlap exactly there.
CutsInv ==
    /\ pc = "split" => start = CutAt(Len(chunks)) /\ spans = <<>>
    /\ \A k \in 0..(Len(chunks) - 1) : chunks[k + 1].from = CutAt(k)
PosInv ==
    /\ Len(spans) <= Len(chunks)
    /\ pos >= CutAt(Len(spans)) + (IF Len(spans) = 0 THEN 0 ELSE overlap)
    /\ overlap = 0 => pos = CutAt(Len(spans))
NoneEarlier == \A k \in 1..Len(spans) : spans[k].from >= chunks[k].from
PlacedInv == CutsInv /\ PosInv /\ NoneEarlier /\ FlushIsReal

\* A search from behind the place of a chunk does not find it earlier.
LEMMA FoundLater ==
    ASSUME NEW c, c.from \in Nat, c.to \in Nat, NEW p \in Nat, len \in Nat, NEW q \in Found(c, p), c.from <= p
    PROVE  q \in Nat /\ q >= p /\ (p = c.from => q = p)
<1>1. CASE c.from >= p
  BY <1>1 DEF Found
<1>2. CASE ~(c.from >= p)
  BY <1>2 DEF Found
<1> QED
  BY <1>1, <1>2

\* A chunk appended at `start' keeps the cuts in line.
LEMMA CutsAppend ==
    ASSUME TypeOK, CutsInv, pc = "split", start \in Nat, NEW b \in Nat, NEW n \in Nat, n = Len(chunks),
           chunks' = Append(chunks, [from |-> start, to |-> b]), overlap' = overlap
    PROVE  /\ Len(chunks') = n + 1
           /\ CutAt(n + 1)' = b - overlap
           /\ \A k \in 0..n : chunks'[k + 1].from = CutAt(k)'
<1> DEFINE c == [from |-> start, to |-> b]
<1>1. chunks \in Seq(Slice) /\ c \in Slice /\ c.from = start /\ c.to = b
  BY DEF TypeOK, Slice
<1>2. /\ Len(chunks') = n + 1 /\ chunks'[n + 1] = c
      /\ \A k \in 1..n : chunks'[k] = chunks[k]
  BY <1>1
<1>3. start = CutAt(n) /\ \A k \in 0..(n - 1) : chunks[k + 1].from = CutAt(k)
  BY DEF CutsInv
<1>b. c.from = start /\ c.to = b
  BY <1>1
<1> HIDE DEF c
<1>4. ASSUME NEW k \in 0..n PROVE CutAt(k)' = CutAt(k)
  <2>1. CASE k = 0
    BY <2>1 DEF CutAt
  <2>2. CASE k # 0
    <3>1. k \in 1..n
      BY <2>2
    <3> QED
      BY <1>2, <3>1 DEF CutAt
  <2> QED
    BY <2>1, <2>2
<1>5. CutAt(n + 1)' = b - overlap
  <2>1. n + 1 # 0
    OBVIOUS
  <2> QED
    BY <1>b, <1>2, <2>1 DEF CutAt
<1>6. ASSUME NEW k \in 0..n PROVE chunks'[k + 1].from = CutAt(k)'
  <2>1. CASE k = n
    BY <1>b, <1>2, <1>3, <1>4, <2>1
  <2>2. CASE k # n
    <3>1. k \in 0..(n - 1) /\ k + 1 \in 1..n
      BY <2>2
    <3> QED
      BY <1>2, <1>3, <1>4, <3>1
  <2> QED
    BY <2>1, <2>2
<1> QED
  BY <1>2, <1>5, <1>6

\* Every step keeps the positions in line.
LEMMA PlacedStep ==
    ASSUME Inv, Inv', Roomy, PlacedInv, [Next]_vars
    PROVE  PlacedInv'
<1>0. /\ TypeOK /\ TypeOK' /\ CutsInv /\ PosInv /\ NoneEarlier /\ FlushIsReal
      /\ Len(chunks) \in Nat /\ Len(spans) \in Nat /\ overlap \in Nat
  <2>1. TypeOK /\ TypeOK' /\ CutsInv /\ PosInv /\ NoneEarlier /\ FlushIsReal
    BY DEF Inv, PlacedInv
  <2>2. overlap \in Nat
    BY <2>1, ConfigAssumption DEF TypeOK, Roomy
  <2>3. Len(chunks) \in Nat /\ Len(spans) \in Nat
    BY <2>1 DEF TypeOK
  <2> QED
    BY <2>1, <2>2, <2>3
<1>1. ASSUME pc = "split", start \in Nat, NEW b \in Nat,
             chunks' = Append(chunks, [from |-> start, to |-> b]),
             pc' = "split" => start' = b - overlap, UNCHANGED <<overlap, pos, spans>>
      PROVE  PlacedInv'
  <2>0. PICK n \in Nat : n = Len(chunks)
    BY <1>0
  <2>1. /\ Len(chunks') = n + 1
        /\ CutAt(n + 1)' = b - overlap
        /\ \A k \in 0..n : chunks'[k + 1].from = CutAt(k)'
    BY <1>0, <1>1, <2>0, CutsAppend
  <2>2. spans = <<>> /\ Len(spans) = 0
    BY <1>0, <1>1 DEF CutsInv
  <2>3. CutsInv'
    <3>1. Len(chunks') - 1 = n
      BY <2>1
    <3>2. \A k \in 0..(Len(chunks') - 1) : chunks'[k + 1].from = CutAt(k)'
      BY <2>1, <3>1
    <3>3. pc' = "split" => start' = CutAt(Len(chunks))' /\ spans' = <<>>
      BY <1>1, <2>1, <2>2 DEF CutAt
    <3> QED
      BY <3>2, <3>3 DEF CutsInv
  <2>4. PosInv'
    BY <1>0, <1>1, <2>1, <2>2 DEF PosInv, CutAt
  <2>5. NoneEarlier' /\ FlushIsReal'
    BY <1>1, <2>2 DEF NoneEarlier, FlushIsReal
  <2> QED
    BY <2>3, <2>4, <2>5 DEF PlacedInv
<1>8. start \in Nat /\ len \in Nat
  BY DEF Inv, SplitInv, HeldInv, TypeOK
<1>2. CASE LastChunk
  <2>1. Piece(start, len) = [from |-> start, to |-> len]
    BY <1>2, <1>8, PieceIsSlice DEF LastChunk
  <2> QED
    BY <1>1, <1>2, <1>8, <2>1 DEF LastChunk
<1>3. CASE NextChunk
  <2>1. PICK cut \in Cuts(start) : chunks' = Append(chunks, Piece(start, cut)) /\ start' = cut - overlap
    BY <1>3 DEF NextChunk
  <2>2. cut \in Nat /\ start < cut
    BY <1>0, <1>3, <1>8, CutRange DEF NextChunk
  <2>3. Piece(start, cut) = [from |-> start, to |-> cut]
    BY <1>8, <2>2, PieceIsSlice
  <2> QED
    BY <1>1, <1>3, <1>8, <2>1, <2>2, <2>3 DEF NextChunk
<1>4. CASE EndOfText
  BY <1>0, <1>4 DEF EndOfText, PlacedInv, CutsInv, PosInv, CutAt, NoneEarlier, FlushIsReal
<1>5. CASE Return
  BY <1>0, <1>5 DEF Return, PlacedInv, CutsInv, PosInv, CutAt, NoneEarlier, FlushIsReal
<1>6. CASE UNCHANGED vars
  BY <1>0, <1>6 DEF vars, PlacedInv, CutsInv, PosInv, CutAt, NoneEarlier, FlushIsReal
<1>7. CASE Place
  <2>0. PICK n \in Nat : n = Len(spans)
    BY <1>0
  <2> DEFINE c == chunks[n + 1]
  <2>1. PICK q \in Found(c, pos) : /\ spans' = Append(spans, [from |-> q, to |-> q + (c.to - c.from)])
                                  /\ pos' = q + (c.to - c.from)
    BY <1>7, <2>0 DEF Place
  <2>2. n \in Nat /\ n + 1 \in 1..Len(chunks) /\ n \in 0..(Len(chunks) - 1)
    BY <1>0, <1>7, <2>0 DEF Place
  <2>3. c \in Slice /\ c.from < c.to
    BY <2>2 DEF Inv, SplitInv, TypeOK, Bounded
  <2>4. c.from \in Nat /\ c.to \in Nat /\ c = [from |-> c.from, to |-> c.to]
    BY <2>3 DEF Slice
  <2>5. c.from = CutAt(n) /\ pos >= CutAt(n) /\ (overlap = 0 => pos = CutAt(n))
    <3>1. c.from = CutAt(n)
      BY <1>0, <2>2 DEF CutsInv
    <3>2. CutAt(n) \in Nat
      BY <2>4, <3>1
    <3>3. pos \in Nat /\ pos >= CutAt(n) + (IF n = 0 THEN 0 ELSE overlap)
      BY <1>0, <2>0 DEF PosInv, TypeOK
    <3>4. pos >= CutAt(n)
      BY <1>0, <3>2, <3>3
    <3> QED
      BY <1>0, <2>0, <3>1, <3>4 DEF PosInv
  <2> HIDE DEF c
  <2>6. q \in Nat /\ q >= pos /\ (pos = c.from => q = pos) /\ pos \in Nat
    <3>1. pos \in Nat /\ len \in Nat
      BY <1>0 DEF TypeOK
    <3>2. c.from <= pos
      BY <2>4, <2>5, <3>1
    <3> QED
      BY <2>1, <2>4, <3>1, <3>2, FoundLater
  <2> DEFINE e == q + (c.to - c.from)
  <2>7. q >= c.from /\ e \in Nat /\ e >= c.to /\ (overlap = 0 => q = c.from /\ e = c.to)
    BY <2>3, <2>4, <2>5, <2>6
  <2> HIDE DEF e
  <2>8. /\ spans' = Append(spans, [from |-> q, to |-> e]) /\ pos' = e
        /\ UNCHANGED <<overlap, chunks>> /\ pc = "place" /\ pc' = pc
    BY <1>7, <2>1 DEF Place, e
  <2>9. /\ Len(spans') = n + 1 /\ spans'[n + 1] = [from |-> q, to |-> e]
        /\ \A k \in 1..n : spans'[k] = spans[k]
    BY <1>0, <2>0, <2>7, <2>6, <2>8 DEF TypeOK, Slice
  <2>10. CutsInv'
    BY <1>0, <2>8 DEF CutsInv, CutAt
  <2>11. PosInv'
    <3>3. n + 1 # 0
      BY <2>2
    <3>1. CutAt(n + 1)' = c.to - overlap
      BY <2>8, <3>3 DEF CutAt, c
    <3>2. Len(spans') <= Len(chunks')
      BY <1>0, <2>2, <2>8, <2>9
    <3>4. pos' >= CutAt(n + 1)' + overlap
      BY <1>0, <2>4, <2>7, <2>8, <3>1
    <3>5. overlap = 0 => pos' = CutAt(n + 1)'
      BY <1>0, <2>4, <2>7, <2>8, <3>1
    <3> QED
      BY <2>8, <2>9, <3>2, <3>3, <3>4, <3>5 DEF PosInv, CutAt
  <2>12. ASSUME NEW k \in 1..(n + 1)
         PROVE  spans'[k].from >= chunks[k].from /\ (overlap = 0 => spans'[k] = chunks[k])
    <3>1. CASE k \in 1..n
      BY <1>0, <2>0, <2>9, <3>1 DEF NoneEarlier, FlushIsReal
    <3>2. CASE k = n + 1
      <4>1. chunks[k] = c /\ spans'[k] = [from |-> q, to |-> e]
        BY <2>9, <3>2 DEF c
      <4> QED
        BY <2>4, <2>7, <4>1
    <3> QED
      BY <2>2, <3>1, <3>2
  <2>13. NoneEarlier' /\ FlushIsReal'
    BY <2>8, <2>9, <2>12 DEF NoneEarlier, FlushIsReal
  <2> QED
    BY <2>10, <2>11, <2>13 DEF PlacedInv
<1> QED
  BY <1>2, <1>3, <1>4, <1>5, <1>6, <1>7 DEF Next

\* In a roomy configuration the positions are in line in every reachable state.
LEMMA PlacedInvariant == Spec => [](Roomy => PlacedInv)
<1>1. Init => (Roomy => PlacedInv)
  BY ConfigAssumption DEF Init, Roomy, PlacedInv, CutsInv, PosInv, CutAt, NoneEarlier, FlushIsReal
<1>2. Inv /\ Inv' /\ (Roomy => PlacedInv) /\ [Next]_vars => (Roomy => PlacedInv)'
  <2> SUFFICES ASSUME Inv, Inv', Roomy => PlacedInv, [Next]_vars, Roomy' PROVE PlacedInv'
    OBVIOUS
  <2>1. Roomy
    BY OverlapStays DEF Roomy
  <2> QED
    BY <2>1, PlacedStep
<1> QED
  BY <1>1, <1>2, Invariant, PTL DEF Spec

\* In a roomy configuration _create_chunk_objects never records a chunk at an
\* earlier repetition of its text, however the text repeats itself.
THEOREM SplitNotFoundEarlier == Spec => []NotFoundEarlier
<1>1. (Roomy => PlacedInv) => NotFoundEarlier
  BY DEF PlacedInv, NoneEarlier, NotFoundEarlier
<1> QED
  BY <1>1, PlacedInvariant, PTL

\* Without chunk_overlap the recorded positions are the real ones.
THEOREM SplitFlushIsReal == Spec => []FlushIsReal
<1>1. Inv /\ (Roomy => PlacedInv) => FlushIsReal
  <2>1. overlap = 0 => Roomy
    BY ConfigAssumption DEF Roomy, Larger
  <2> QED
    BY <2>1 DEF PlacedInv, FlushIsReal
<1> QED
  BY <1>1, Invariant, PlacedInvariant, PTL

-----------------------------------------------------------------------------
(***************************************************************************)
(* Embedding. The properties speak of rows that are out and of the cache; *)
(* the invariant speaks also of the batch under way:                       *)
(* how many failed calls its chunks have had, which vectors are there, and *)
(* that the texts it has used are the most recent ones of the cache.       *)
(***************************************************************************)
\* Elements of out, and of the cache.
OutRow == [chunk : Nat, vec : Vectors, error : BOOLEAN]
Entry == [text : Texts, vec : Texts]

\* Everything before the batch is out, in order.
OutInv ==
    /\ stage = "done" => Len(out) = Len(input)
    /\ stage # "done" => first < Len(input) /\ Len(out) = first
    /\ stage # "single" => embs = <<>>

\* The failed calls that carried the chunks not out yet: none behind the batch; in it
\* those of its own attempts, and for the chunk that is asked for alone also those of that.
PaidInv ==
    /\ stage # "done" => \A k \in 1..Len(input) : k > first + Size => failures[k] = 0
    /\ stage = "batch" => \A k \in 1..Len(input) : first < k /\ k <= first + Size => failures[k] = attempt
    /\ stage = "single" =>
          \A k \in 1..Len(input) : At <= k /\ k <= first + Size =>
              failures[k] = IF k = At THEN MaxRetries + attempt ELSE MaxRetries
    /\ stage = "single" /\ attempt > 0 =>
          AtText /\ input[At] # Blank /\ Keyed(input[At]) = {}

\* The vector of a chunk that was asked for alone.
SingleInv ==
    \A k \in 1..Len(embs) :
        /\ embs[k] \in {input[first + k], Zero}
        /\ input[first + k] = Blank => embs[k] = Zero
        /\ embs[k] = Zero /\ input[first + k] # Blank => failures[first + k] = 2 * MaxRetries

\* The texts of the batch that got their vector, one by one; they are the most recently
\* used entries, and all there if the texts of the batch fit.
Served == {input[first + k] : k \in {j \in 1..Len(embs) : embs[j] # Zero}}
BatchTexts == {input[first + k] : k \in 1..Size} \ {Blank}
RecentInv ==
    /\ \A p, q \in 1..Len(cached) : p < q /\ cached[p].text \in Served => cached[q].text \in Served
    /\ Cardinality(BatchTexts) <= MaxCache => \A t \in Served : Keyed(t) # {}

\* The inductive invariant.
EInv ==
    /\ EmbedderTypeOK /\ OutInv /\ EachWithItsVector
    /\ PaidInv /\ SingleInv /\ ZeroIsEarned
    /\ CacheSound /\ RecentInv

\* The types, and the arithmetic of a batch.
LEMMA Batch ==
  ASSUME EmbedderTypeOK, OutInv
  PROVE  /\ BatchSize \in Nat \ {0} /\ MaxRetries \in Nat \ {0} /\ MaxCache \in Nat \ {0}
         /\ input \in Seq(Texts \cup {Blank}) /\ Len(input) \in Nat
         /\ first \in Nat /\ attempt \in Nat /\ attempt < MaxRetries
         /\ embs \in Seq(Vectors) /\ Len(embs) \in Nat
         /\ out \in Seq(OutRow) /\ cached \in Seq(Entry) /\ Len(cached) \in Nat
         /\ failures \in [1..Len(input) -> Nat]
         /\ stage \in {"batch", "single", "done"}
         /\ stage # "done" =>
              /\ Size \in Nat \ {0} /\ first + Size <= Len(input) /\ Size <= BatchSize
              /\ first + BatchSize < Len(input) => Size = BatchSize
              /\ first + BatchSize >= Len(input) => first + Size = Len(input)
         /\ stage = "single" => Len(embs) <= Size
         /\ At = first + Len(embs) + 1
<1>1. Len(input) \in Nat /\ Len(embs) \in Nat /\ Len(cached) \in Nat
  BY DEF EmbedderTypeOK
<1>2. /\ BatchSize \in Nat \ {0} /\ MaxRetries \in Nat \ {0} /\ MaxCache \in Nat \ {0} /\ first \in Nat
      /\ attempt \in 0..(MaxRetries - 1)
  BY EmbedderAssumption DEF EmbedderTypeOK
<1>3. stage # "done" => first < Len(input)
  BY DEF OutInv
<1>4. stage # "done" =>
              /\ Size \in Nat \ {0} /\ first + Size <= Len(input) /\ Size <= BatchSize
              /\ first + BatchSize < Len(input) => Size = BatchSize
              /\ first + BatchSize >= Len(input) => first + Size = Len(input)
  BY <1>1, <1>2, <1>3 DEF Size
<1> QED
  BY <1>1, <1>2, <1>4 DEF EmbedderTypeOK, At, OutRow, Entry

\* A text of the input is no zero vector.
LEMMA TextIsNoZero ==
  ASSUME EmbedderTypeOK, NEW k \in 1..Len(input)
  PROVE  input[k] \in Vectors /\ input[k] # Zero /\ (input[k] # Blank => input[k] \in Texts)
<1>1. input[k] \in Texts \cup {Blank}
  BY ElementOfSeq DEF EmbedderTypeOK
<1> QED
  BY <1>1, EmbedderAssumption DEF Vectors

\* What Emit appends: the rows of the batch, behind those that are out already.
LEMMA Emitted ==
  ASSUME EmbedderTypeOK, OutInv, stage # "done",
         NEW vecs \in Seq(Vectors), Len(vecs) = Size, NEW error \in BOOLEAN, Emit(vecs, error)
  PROVE  /\ out' \in Seq(OutRow) /\ Len(out') = first + Size
         /\ \A k \in 1..first : out'[k] = out[k]
         /\ \A k \in 1..Size : /\ out'[first + k].chunk = first + k
                                /\ out'[first + k].vec = vecs[k] /\ out'[first + k].error = error
<1> DEFINE rows == [k \in 1..Len(vecs) |-> [chunk |-> first + k, vec |-> vecs[k], error |-> error]]
<1>0. /\ first \in Nat /\ Size \in Nat /\ out \in Seq(OutRow) /\ Len(out) = first
  BY Batch DEF OutInv
<1>1. \A k \in 1..Len(vecs) : [chunk |-> first + k, vec |-> vecs[k], error |-> error] \in OutRow
  <2> TAKE k \in 1..Len(vecs)
  <2>1. vecs[k] \in Vectors
    BY ElementOfSeq
  <2> QED
    BY <1>0, <2>1 DEF OutRow
<1>2. /\ rows \in Seq(OutRow) /\ Len(rows) = Size
      /\ \A k \in 1..Size : rows[k].chunk = first + k /\ rows[k].vec = vecs[k] /\ rows[k].error = error
  BY <1>0, <1>1
<1>3. out' = out \o rows
  BY DEF Emit
<1> HIDE DEF rows
<1>4. /\ out' \in Seq(OutRow) /\ Len(out') = first + Size
      /\ \A k \in 1..(first + Size) : out'[k] = IF k <= first THEN out[k] ELSE rows[k - first]
  BY <1>0, <1>2, <1>3, ConcatProperties
<1>5. ASSUME NEW k \in 1..Size PROVE out'[first + k] = rows[k]
  BY <1>0, <1>4
<1> QED
  BY <1>0, <1>2, <1>4, <1>5

\* What is behind the end of an interval is behind its start.
LEMMA Beyond == \A a, b \in Nat : \A k \in Int : k > a + b => k > a
  OBVIOUS

\* A batch that leaves embed_chunks with these vectors keeps the invariant.
LEMMA EmitKeeps ==
  ASSUME EInv, stage # "done", NEW vecs \in Seq(Vectors), Len(vecs) = Size,
         NEW error \in BOOLEAN, Emit(vecs, error), input' = input, cached' = cached,
         failures' \in [1..Len(input) -> Nat],
         \A k \in 1..Len(input) : k <= first \/ k > first + Size => failures'[k] = failures[k],
         \A k \in 1..Size :
            /\ vecs[k] \in {input[first + k], Zero}
            /\ vecs[k] = Zero /\ input[first + k] # Blank =>
                 failures'[first + k] = IF error THEN MaxRetries ELSE 2 * MaxRetries
  PROVE  EInv'
<1>1. EmbedderTypeOK /\ OutInv /\ EachWithItsVector /\ PaidInv /\ ZeroIsEarned
  BY DEF EInv
<1>2. /\ BatchSize \in Nat \ {0} /\ MaxRetries \in Nat \ {0} /\ Len(input) \in Nat
      /\ first \in Nat /\ Size \in Nat \ {0} /\ first + Size <= Len(input) /\ Size <= BatchSize
      /\ first + BatchSize < Len(input) => Size = BatchSize
      /\ first + BatchSize >= Len(input) => first + Size = Len(input)
      /\ Len(out) = first
  BY <1>1, Batch DEF OutInv
<1>3. /\ out' \in Seq(OutRow) /\ Len(out') = first + Size
      /\ \A k \in 1..first : out'[k] = out[k]
      /\ \A k \in 1..Size : /\ out'[first + k].chunk = first + k
                              /\ out'[first + k].vec = vecs[k] /\ out'[first + k].error = error
  BY <1>1, Emitted
<1>4. /\ first' = first + BatchSize /\ attempt' = 0 /\ embs' = <<>>
      /\ stage' = IF first + BatchSize < Len(input) THEN "batch" ELSE "done"
      /\ input' = input /\ cached' = cached
  BY DEF Emit
<1>5. Len(embs') = 0 /\ embs' \in Seq(Vectors)
  BY <1>4
<1>6. \A k \in 1..Len(out') : k \in 1..first \/ (k - first \in 1..Size /\ k = first + (k - first))
  BY <1>2, <1>3
<1>7. EmbedderTypeOK'
  <2>1. stage' \in {"batch", "done"} /\ first' \in Nat /\ attempt' \in 0..(MaxRetries - 1)
    BY <1>2, <1>4
  <2> QED
    BY <1>1, <1>3, <1>4, <1>5, <2>1 DEF EmbedderTypeOK, OutRow, Vectors
<1>8. OutInv'
  BY <1>2, <1>3, <1>4 DEF OutInv
<1>9. EachWithItsVector'
  <2>1. ASSUME NEW k \in 1..Len(out')
        PROVE  out'[k].chunk = k /\ out'[k].vec \in {input[k], Zero}
    <3>1. CASE k \in 1..first
      BY <1>1, <1>2, <1>3, <3>1 DEF EachWithItsVector
    <3>2. CASE k - first \in 1..Size /\ k = first + (k - first)
      <4>1. PICK j \in 1..Size : k = first + j
        BY <3>2
      <4> QED
        BY <1>3, <4>1
    <3> QED
      BY <1>6, <3>1, <3>2
  <2>2. stage' = "done" => Len(out') = Len(input)
    BY <1>2, <1>3, <1>4
  <2> QED
    BY <1>4, <2>1, <2>2 DEF EachWithItsVector
<1>10. PaidInv'
  <2>1. CASE stage' = "done"
    BY <2>1 DEF PaidInv
  <2>2. CASE stage' = "batch"
    <3>1. first' = first + Size
      BY <1>2, <1>4, <2>2
    <3>2. \A k \in 1..Len(input) : k > first' => failures'[k] = 0
      BY <1>1, <1>2, <3>1 DEF PaidInv
    <3>3. Size' \in Nat
      BY <1>2, <1>4, <2>2 DEF Size
    <3>4. \A k \in 1..Len(input) : k > first' + Size' => failures'[k] = 0
      <4>1. first' \in Nat /\ 1..Len(input) \subseteq Int
        BY <1>2, <1>4
      <4>2. ASSUME NEW k \in 1..Len(input), k > first' + Size' PROVE k > first'
        <5>1. k \in Int
          BY <4>1
        <5> QED
          BY <3>3, <4>1, <4>2, <5>1, Beyond
      <4> QED
        BY <3>2, <4>2
    <3>5. stage' # "single" /\ attempt' = 0
      BY <1>4, <2>2
    <3> QED
      BY <1>4, <3>2, <3>4, <3>5 DEF PaidInv
  <2> QED
    BY <1>4, <2>1, <2>2
<1>11. SingleInv'
  BY <1>5 DEF SingleInv
<1>12. ZeroIsEarned'
  <2>1. ASSUME NEW k \in 1..Len(out'), out'[k].vec = Zero, input[k] # Blank
        PROVE  failures'[k] = IF out'[k].error THEN MaxRetries ELSE 2 * MaxRetries
    <3>1. CASE k \in 1..first
      <4>1. out'[k] = out[k] /\ failures'[k] = failures[k] /\ k \in 1..Len(out)
        BY <1>2, <1>3, <3>1
      <4> QED
        BY <1>1, <2>1, <4>1 DEF ZeroIsEarned
    <3>2. CASE k - first \in 1..Size /\ k = first + (k - first)
      <4>1. PICK j \in 1..Size : k = first + j
        BY <3>2
      <4> QED
        BY <1>3, <2>1, <4>1
    <3> QED
      BY <1>6, <3>1, <3>2
  <2> QED
    BY <1>4, <2>1 DEF ZeroIsEarned
<1>13. CacheSound'
  BY <1>4 DEF EInv, CacheSound, Keyed
<1>14. RecentInv'
  <2>1. Served' = {}
    BY <1>5 DEF Served
  <2> QED
    BY <2>1 DEF RecentInv
<1> QED
  BY <1>7, <1>8, <1>9, <1>10, <1>11, <1>12, <1>13, <1>14 DEF EInv

\* What a failed request for the batch adds to the chunks in it, and to no other.
LEMMA BatchPays ==
  ASSUME EInv, stage = "batch", BatchFailed
  PROVE  /\ failures' \in [1..Len(input) -> Nat]
         /\ \A k \in 1..Len(input) : k <= first => failures'[k] = failures[k]
         /\ \A k \in 1..Len(input) : k > first + Size => failures'[k] = 0 /\ failures[k] = 0
         /\ \A k \in 1..Len(input) : first < k /\ k <= first + Size => failures'[k] = attempt + 1
<1>1. EmbedderTypeOK /\ OutInv /\ PaidInv
  BY DEF EInv
<1>2. /\ Len(input) \in Nat /\ first \in Nat /\ Size \in Nat /\ attempt \in Nat
      /\ failures \in [1..Len(input) -> Nat]
  BY <1>1, Batch
<1>3. \A k \in 1..Len(input) :
         failures'[k] = IF first < k /\ k <= first + Size THEN failures[k] + 1 ELSE failures[k]
  BY <1>2 DEF BatchFailed
<1>4. failures' \in [1..Len(input) -> Nat]
  BY <1>2 DEF BatchFailed
<1>5. ASSUME NEW k \in 1..Len(input), k <= first PROVE failures'[k] = failures[k]
  BY <1>2, <1>3, <1>5
<1>6. ASSUME NEW k \in 1..Len(input), k > first + Size PROVE failures'[k] = 0 /\ failures[k] = 0
  <2>1. failures[k] = 0
    BY <1>1, <1>6 DEF PaidInv
  <2> QED
    BY <1>2, <1>3, <1>6, <2>1
<1>7. ASSUME NEW k \in 1..Len(input), first < k, k <= first + Size PROVE failures'[k] = attempt + 1
  <2>1. failures[k] = attempt
    BY <1>1, <1>7 DEF PaidInv
  <2> QED
    BY <1>3, <1>7, <2>1
<1> QED
  BY <1>4, <1>5, <1>6, <1>7

\* An answered batch leaves with the vectors of its texts.
LEMMA BatchAnswersKeeps == EInv /\ BatchAnswers => EInv'
<1> SUFFICES ASSUME EInv, BatchAnswers PROVE EInv'
  OBVIOUS
<1> DEFINE vecs == [k \in 1..Size |-> input[first + k]]
<1>1. EmbedderTypeOK /\ OutInv /\ stage = "batch"
  BY DEF EInv, BatchAnswers
<1>2. /\ Len(input) \in Nat /\ first \in Nat /\ Size \in Nat /\ first + Size <= Len(input)
      /\ failures \in [1..Len(input) -> Nat]
  BY <1>1, Batch
<1>3. ASSUME NEW k \in 1..Size PROVE input[first + k] \in Vectors /\ input[first + k] # Zero
  <2>1. first + k \in 1..Len(input)
    BY <1>2
  <2> QED
    BY <1>1, <2>1, TextIsNoZero
<1>4. vecs \in Seq(Vectors) /\ Len(vecs) = Size /\ \A k \in 1..Size : vecs[k] = input[first + k]
  <2>1. vecs \in [1..Size -> Vectors] /\ \A k \in 1..Size : vecs[k] = input[first + k]
    BY <1>3
  <2> HIDE DEF vecs
  <2> QED
    BY <1>2, <2>1
<1>5. Emit(vecs, FALSE) /\ input' = input /\ cached' = cached /\ failures' = failures
  BY DEF BatchAnswers
<1> HIDE DEF vecs
<1> QED
  BY <1>1, <1>2, <1>3, <1>4, <1>5, EmitKeeps

\* A batch given up leaves with zero vectors, after max_retries failed calls.
LEMMA BatchGivesUpKeeps == EInv /\ BatchGivesUp => EInv'
<1> SUFFICES ASSUME EInv, BatchGivesUp PROVE EInv'
  OBVIOUS
<1> DEFINE vecs == [k \in 1..Size |-> Zero]
<1>1. EmbedderTypeOK /\ OutInv /\ stage = "batch" /\ attempt = MaxRetries - 1 /\ BatchFailed
  BY DEF EInv, BatchGivesUp
<1>2. /\ Len(input) \in Nat /\ first \in Nat /\ Size \in Nat /\ first + Size <= Len(input)
      /\ MaxRetries \in Nat
  BY <1>1, Batch
<1>3. vecs \in Seq(Vectors) /\ Len(vecs) = Size /\ \A k \in 1..Size : vecs[k] = Zero
  BY <1>2 DEF Vectors
<1>4. Emit(vecs, TRUE) /\ input' = input /\ cached' = cached
  BY DEF BatchGivesUp
<1>5. ASSUME NEW k \in 1..Size PROVE failures'[first + k] = MaxRetries
  <2>1. first + k \in 1..Len(input) /\ first < first + k /\ first + k <= first + Size
    BY <1>2
  <2> QED
    BY <1>1, <1>2, <2>1, BatchPays
<1>6. /\ failures' \in [1..Len(input) -> Nat]
      /\ \A k \in 1..Len(input) : k <= first \/ k > first + Size => failures'[k] = failures[k]
  BY <1>1, BatchPays
<1> HIDE DEF vecs
<1> QED
  BY <1>1, <1>3, <1>4, <1>5, <1>6, EmitKeeps

\* A repeated request costs every chunk of the batch one failed call.
LEMMA BatchRetriesKeeps == EInv /\ BatchRetries => EInv'
<1> SUFFICES ASSUME EInv, BatchRetries PROVE EInv'
  OBVIOUS
<1>1. /\ EmbedderTypeOK /\ OutInv /\ stage = "batch" /\ BatchFailed
      /\ attempt < MaxRetries - 1 /\ attempt' = attempt + 1
      /\ input' = input /\ stage' = stage /\ first' = first /\ embs' = embs /\ out' = out /\ cached' = cached
  BY DEF EInv, BatchRetries
<1>2. /\ Len(input) \in Nat /\ first \in Nat /\ Size \in Nat /\ MaxRetries \in Nat /\ attempt \in Nat
      /\ embs = <<>> /\ Len(embs) = 0 /\ Len(out) = first /\ first < Len(input)
  BY <1>1, Batch DEF OutInv
<1>3. /\ failures' \in [1..Len(input) -> Nat]
      /\ \A k \in 1..Len(input) : k <= first => failures'[k] = failures[k]
      /\ \A k \in 1..Len(input) : k > first + Size => failures'[k] = 0
      /\ \A k \in 1..Len(input) : first < k /\ k <= first + Size => failures'[k] = attempt + 1
  BY <1>1, BatchPays
<1>4. Size' = Size
  BY <1>1 DEF Size
<1>5. EmbedderTypeOK'
  <2>1. attempt' \in 0..(MaxRetries - 1)
    BY <1>1, <1>2
  <2> QED
    BY <1>1, <1>3, <2>1 DEF EmbedderTypeOK
<1>6. OutInv' /\ EachWithItsVector'
  BY <1>1 DEF EInv, OutInv, EachWithItsVector
<1>7. PaidInv'
  BY <1>1, <1>3, <1>4 DEF PaidInv
<1>8. SingleInv'
  BY <1>1, <1>2 DEF SingleInv
<1>9. ZeroIsEarned'
  <2>1. \A k \in 1..Len(out) : failures'[k] = failures[k]
    BY <1>2, <1>3
  <2> QED
    BY <1>1, <2>1 DEF EInv, ZeroIsEarned
<1>10. CacheSound'
  BY <1>1 DEF EInv, CacheSound, Keyed
<1>11. RecentInv'
  <2>1. Served' = {}
    BY <1>1, <1>2 DEF Served
  <2> QED
    BY <2>1 DEF RecentInv
<1> QED
  BY <1>5, <1>6, <1>7, <1>8, <1>9, <1>10, <1>11 DEF EInv

\* _process_individually begins with max_retries failed calls per chunk.
LEMMA BatchFallsBackKeeps == EInv /\ BatchFallsBack => EInv'
<1> SUFFICES ASSUME EInv, BatchFallsBack PROVE EInv'
  OBVIOUS
<1>1. /\ EmbedderTypeOK /\ OutInv /\ stage = "batch" /\ BatchFailed
      /\ attempt = MaxRetries - 1 /\ attempt' = 0 /\ stage' = "single"
      /\ input' = input /\ first' = first /\ embs' = embs /\ out' = out /\ cached' = cached
  BY DEF EInv, BatchFallsBack
<1>2. /\ Len(input) \in Nat /\ first \in Nat /\ Size \in Nat /\ MaxRetries \in Nat \ {0} /\ attempt \in Nat
      /\ embs = <<>> /\ Len(embs) = 0 /\ Len(out) = first /\ first < Len(input)
  BY <1>1, Batch DEF OutInv
<1>3. /\ failures' \in [1..Len(input) -> Nat]
      /\ \A k \in 1..Len(input) : k <= first => failures'[k] = failures[k]
      /\ \A k \in 1..Len(input) : k > first + Size => failures'[k] = 0
      /\ \A k \in 1..Len(input) : first < k /\ k <= first + Size => failures'[k] = MaxRetries
  BY <1>1, <1>2, BatchPays
<1>4. Size' = Size /\ At' = first + 1
  BY <1>1, <1>2 DEF Size, At
<1>5. EmbedderTypeOK'
  <2>1. attempt' \in 0..(MaxRetries - 1) /\ Len(embs') <= Size'
    BY <1>1, <1>2, <1>4
  <2> QED
    BY <1>1, <1>3, <2>1 DEF EmbedderTypeOK
<1>6. OutInv' /\ EachWithItsVector'
  BY <1>1, <1>2 DEF EInv, OutInv, EachWithItsVector
<1>7. PaidInv'
  <2>1. \A k \in 1..Len(input) : first + 1 <= k /\ k <= first + Size => failures'[k] = MaxRetries + 0
    BY <1>2, <1>3
  <2> QED
    BY <1>1, <1>2, <1>3, <1>4, <2>1 DEF PaidInv
<1>8. SingleInv'
  BY <1>1, <1>2 DEF SingleInv
<1>9. ZeroIsEarned'
  <2>1. \A k \in 1..Len(out) : failures'[k] = failures[k]
    BY <1>2, <1>3
  <2> QED
    BY <1>1, <2>1 DEF EInv, ZeroIsEarned
<1>10. CacheSound'
  BY <1>1 DEF EInv, CacheSound, Keyed
<1>11. RecentInv'
  <2>1. Served' = {}
    BY <1>1, <1>2 DEF Served
  <2> QED
    BY <2>1 DEF RecentInv
<1> QED
  BY <1>5, <1>6, <1>7, <1>8, <1>9, <1>10, <1>11 DEF EInv

\* The vectors of _process_individually leave as a batch.
LEMMA SinglesKeeps == EInv /\ Singles => EInv'
<1> SUFFICES ASSUME EInv, Singles PROVE EInv'
  OBVIOUS
<1>1. /\ EmbedderTypeOK /\ OutInv /\ stage = "single" /\ SingleInv /\ Len(embs) = Size
      /\ Emit(embs, FALSE) /\ input' = input /\ cached' = cached /\ failures' = failures
  BY DEF EInv, Singles
<1>2. embs \in Seq(Vectors) /\ failures \in [1..Len(input) -> Nat]
  BY <1>1, Batch
<1>3. \A k \in 1..Size :
            /\ embs[k] \in {input[first + k], Zero}
            /\ embs[k] = Zero /\ input[first + k] # Blank => failures'[first + k] = 2 * MaxRetries
  BY <1>1 DEF SingleInv
<1> QED
  BY <1>1, <1>2, <1>3, EmitKeeps

-----------------------------------------------------------------------------
\* Where _process_individually is: the facts its steps share.
LEMMA Asked ==
  ASSUME EInv, AtText
  PROVE  /\ stage = "single" /\ Len(embs) < Size /\ Len(embs) \in Nat /\ Size \in Nat
         /\ At = first + Len(embs) + 1 /\ first \in Nat /\ At \in 1..Len(input)
         /\ At <= first + Size /\ Len(input) \in Nat /\ Len(out) = first
         /\ input[At] \in Vectors /\ input[At] # Zero
         /\ input[At] # Blank => input[At] \in Texts
         /\ failures \in [1..Len(input) -> Nat] /\ failures[At] = MaxRetries + attempt
         /\ MaxRetries \in Nat \ {0} /\ attempt \in Nat /\ attempt < MaxRetries
         /\ attempt > 0 => input[At] # Blank /\ Keyed(input[At]) = {}
<1>1. EmbedderTypeOK /\ OutInv /\ PaidInv /\ stage = "single" /\ Len(embs) < Size
  BY DEF EInv, AtText
<1>2. /\ Len(embs) \in Nat /\ Size \in Nat /\ At = first + Len(embs) + 1 /\ first \in Nat
      /\ Len(input) \in Nat /\ first + Size <= Len(input) /\ failures \in [1..Len(input) -> Nat]
      /\ MaxRetries \in Nat \ {0} /\ attempt \in Nat /\ attempt < MaxRetries
  BY <1>1, Batch
<1>3. At \in 1..Len(input) /\ At <= first + Size
  BY <1>1, <1>2
<1>4. failures[At] = MaxRetries + attempt
  BY <1>1, <1>2, <1>3 DEF PaidInv
<1>5. input[At] \in Vectors /\ input[At] # Zero /\ (input[At] # Blank => input[At] \in Texts)
  BY <1>1, <1>3, TextIsNoZero
<1>6. attempt > 0 => input[At] # Blank /\ Keyed(input[At]) = {}
  BY <1>1 DEF PaidInv
<1>7. Len(out) = first
  BY <1>1 DEF OutInv
<1> QED
  BY <1>1, <1>2, <1>3, <1>4, <1>5, <1>6, <1>7

\* Served after a text got its vector, or the zero vector.
LEMMA ServedNext ==
  ASSUME EInv, AtText, NEW v, embs' = Append(embs, v), v \in {input[At], Zero},
         input' = input, first' = first
  PROVE  /\ Served' = IF v = Zero THEN Served ELSE Served \cup {input[At]}
         /\ Len(embs') = Len(embs) + 1 /\ embs'[Len(embs) + 1] = v
         /\ \A k \in 1..Len(embs) : embs'[k] = embs[k]
         /\ embs' \in Seq(Vectors)
<1>1. /\ Len(embs) \in Nat /\ At = first + (Len(embs) + 1) /\ first \in Nat
      /\ embs \in Seq(Vectors) /\ v \in Vectors
  <2>1. /\ Len(embs) \in Nat /\ At = first + Len(embs) + 1 /\ first \in Nat
        /\ input[At] \in Vectors
    BY Asked
  <2>2. embs \in Seq(Vectors) /\ Zero \in Vectors
    BY DEF EInv, EmbedderTypeOK, Vectors
  <2> QED
    BY <2>1, <2>2
<1>2. /\ Len(embs') = Len(embs) + 1 /\ embs'[Len(embs) + 1] = v
      /\ \A k \in 1..Len(embs) : embs'[k] = embs[k]
      /\ embs' \in Seq(Vectors)
  BY <1>1
<1>3. \A k \in 1..Len(embs') : k \in 1..Len(embs) \/ k = Len(embs) + 1
  BY <1>1, <1>2
<1>4. 1..Len(embs) \subseteq 1..Len(embs') /\ Len(embs) + 1 \in 1..Len(embs')
  BY <1>1, <1>2
<1>5. \A t : t \in Served <=> \E k \in 1..Len(embs) : embs[k] # Zero /\ t = input[first + k]
  BY DEF Served
<1>6. \A t : t \in Served' <=> \E k \in 1..Len(embs') : embs'[k] # Zero /\ t = input[first + k]
  BY DEF Served
<1>7. \A t : t \in Served => t \in Served'
  BY <1>2, <1>4, <1>5, <1>6
<1>8. \A t : t \in Served' => t \in Served \/ (v # Zero /\ t = input[At])
  BY <1>1, <1>2, <1>3, <1>5, <1>6
<1>9. v # Zero => input[At] \in Served'
  BY <1>1, <1>2, <1>4, <1>6
<1>10. Served' = IF v = Zero THEN Served ELSE Served \cup {input[At]}
  BY <1>7, <1>8, <1>9
<1> QED
  BY <1>2, <1>10

\* A text that got a vector keeps the invariant if the cache does.
LEMMA NextText ==
  ASSUME EInv, AtText, NEW v, embs' = Append(embs, v), v \in {input[At], Zero},
         input[At] = Blank => v = Zero,
         input' = input, stage' = stage, first' = first, out' = out, attempt' = 0,
         failures' \in [1..Len(input) -> Nat],
         \A k \in 1..Len(input) : k # At => failures'[k] = failures[k],
         v = Zero /\ input[At] # Blank => failures'[At] = 2 * MaxRetries,
         cached' \in Seq(Entry), CacheSound', RecentInv'
  PROVE  EInv'
<1>1. /\ EmbedderTypeOK /\ OutInv /\ PaidInv /\ SingleInv
      /\ EachWithItsVector /\ ZeroIsEarned
  BY DEF EInv
<1>2. /\ stage = "single" /\ Len(embs) < Size /\ Len(embs) \in Nat /\ Size \in Nat
      /\ At = first + Len(embs) + 1 /\ first \in Nat /\ At \in 1..Len(input)
      /\ At <= first + Size /\ Len(input) \in Nat /\ Len(out) = first
      /\ MaxRetries \in Nat \ {0}
  BY Asked
<1>3. /\ Len(embs') = Len(embs) + 1 /\ embs'[Len(embs) + 1] = v
      /\ \A k \in 1..Len(embs) : embs'[k] = embs[k]
      /\ embs' \in Seq(Vectors)
  BY ServedNext
<1>4. Size' = Size /\ At' = At + 1
  BY <1>2, <1>3 DEF Size, At
<1>5. EmbedderTypeOK'
  <2>1. attempt' \in 0..(MaxRetries - 1) /\ Len(embs') <= Size'
    BY <1>2, <1>3, <1>4
  <2> QED
    BY <1>1, <1>3, <2>1 DEF EmbedderTypeOK, Entry, Vectors
<1>6. OutInv' /\ EachWithItsVector'
  BY <1>1, <1>2 DEF OutInv, EachWithItsVector
<1>7. PaidInv'
  <2>1. ASSUME NEW k \in 1..Len(input), At + 1 <= k, k <= first + Size
        PROVE  failures'[k] = MaxRetries
    <3>1. k # At /\ At <= k
      BY <1>2, <2>1
    <3>2. failures[k] = MaxRetries
      BY <1>1, <1>2, <2>1, <3>1 DEF PaidInv
    <3> QED
      BY <3>1, <3>2
  <2>2. ASSUME NEW k \in 1..Len(input), k > first + Size
        PROVE  failures'[k] = 0
    <3>1. k # At
      BY <1>2, <2>2
    <3>2. failures[k] = 0
      BY <1>1, <1>2, <2>2 DEF PaidInv
    <3> QED
      BY <3>1, <3>2
  <2> QED
    BY <1>2, <1>4, <2>1, <2>2 DEF PaidInv
<1>8. SingleInv'
  <2> SUFFICES ASSUME NEW k \in 1..Len(embs')
               PROVE  /\ embs'[k] \in {input[first + k], Zero}
                      /\ input[first + k] = Blank => embs'[k] = Zero
                      /\ embs'[k] = Zero /\ input[first + k] # Blank => failures'[first + k] = 2 * MaxRetries
    BY DEF SingleInv
  <2>1. CASE k \in 1..Len(embs)
    <3>1. first + k \in 1..Len(input) /\ first + k # At
      BY <1>2, <2>1
    <3> QED
      BY <1>1, <1>3, <2>1, <3>1 DEF SingleInv
  <2>2. CASE k = Len(embs) + 1
    <3>1. first + k = At
      BY <1>2, <2>2
    <3> QED
      BY <1>3, <2>2, <3>1
  <2> QED
    BY <1>2, <1>3, <2>1, <2>2
<1>9. ZeroIsEarned'
  <2>1. \A k \in 1..Len(out) : failures'[k] = failures[k]
    BY <1>2
  <2> QED
    BY <1>1, <2>1 DEF ZeroIsEarned
<1> QED
  BY <1>5, <1>6, <1>7, <1>8, <1>9 DEF EInv

\* A zero vector leaves the cache, and who was served, as they are.
LEMMA ZeroTouchesNothing ==
  ASSUME EInv, AtText, embs' = Append(embs, Zero), input' = input, first' = first, cached' = cached
  PROVE  cached' \in Seq(Entry) /\ CacheSound' /\ RecentInv'
<1>1. Served' = Served
  BY ServedNext
<1>2. BatchTexts' = BatchTexts
  BY DEF BatchTexts, Size
<1>3. \A t : Keyed(t)' = Keyed(t)
  BY DEF Keyed
<1> QED
  BY <1>1, <1>2, <1>3 DEF EInv, EmbedderTypeOK, Entry, CacheSound, Keyed, RecentInv

\* A blank text costs nothing.
LEMMA BlankIsZeroKeeps == EInv /\ BlankIsZero => EInv'
<1> SUFFICES ASSUME EInv, BlankIsZero PROVE EInv'
  OBVIOUS
<1>1. /\ AtText /\ input[At] = Blank /\ embs' = Append(embs, Zero)
      /\ input' = input /\ stage' = stage /\ first' = first /\ attempt' = attempt /\ out' = out
      /\ cached' = cached /\ failures' = failures
  BY DEF BlankIsZero
<1>2. attempt' = 0 /\ failures' \in [1..Len(input) -> Nat]
  BY <1>1, Asked
<1>3. cached' \in Seq(Entry) /\ CacheSound' /\ RecentInv'
  BY <1>1, ZeroTouchesNothing
<1> QED
  BY <1>1, <1>2, <1>3, NextText

\* A text given up has had max_retries failed calls of its own.
LEMMA GivesUpKeeps == EInv /\ GivesUp => EInv'
<1> SUFFICES ASSUME EInv, GivesUp PROVE EInv'
  OBVIOUS
<1>1. /\ AtText /\ input[At] # Blank /\ embs' = Append(embs, Zero)
      /\ input' = input /\ stage' = stage /\ first' = first /\ attempt' = 0 /\ out' = out
      /\ cached' = cached /\ failures' = [failures EXCEPT ![At] = @ + 1] /\ attempt = MaxRetries - 1
  BY DEF GivesUp
<1>2. /\ failures \in [1..Len(input) -> Nat] /\ At \in 1..Len(input)
      /\ failures[At] = MaxRetries + attempt /\ MaxRetries \in Nat
  BY <1>1, Asked
<1>3. /\ failures' \in [1..Len(input) -> Nat] /\ failures'[At] = 2 * MaxRetries
      /\ \A k \in 1..Len(input) : k # At => failures'[k] = failures[k]
  BY <1>1, <1>2
<1>4. cached' \in Seq(Entry) /\ CacheSound' /\ RecentInv'
  BY <1>1, ZeroTouchesNothing
<1> QED
  BY <1>1, <1>3, <1>4, NextText

\* A repeated call costs only the chunk it is for.
LEMMA RetriesKeeps == EInv /\ Retries => EInv'
<1> SUFFICES ASSUME EInv, Retries PROVE EInv'
  OBVIOUS
<1>1. /\ AtText /\ input[At] # Blank /\ Keyed(input[At]) = {}
      /\ attempt < MaxRetries - 1 /\ attempt' = attempt + 1
      /\ failures' = [failures EXCEPT ![At] = @ + 1]
      /\ input' = input /\ stage' = stage /\ first' = first /\ embs' = embs /\ out' = out /\ cached' = cached
  BY DEF Retries
<1>2. /\ stage = "single" /\ Len(embs) < Size /\ Len(embs) \in Nat /\ Size \in Nat
      /\ At = first + Len(embs) + 1 /\ first \in Nat /\ At \in 1..Len(input)
      /\ At <= first + Size /\ Len(input) \in Nat /\ Len(out) = first
      /\ failures \in [1..Len(input) -> Nat] /\ failures[At] = MaxRetries + attempt
      /\ MaxRetries \in Nat \ {0} /\ attempt \in Nat
  BY <1>1, Asked
<1>3. /\ failures' \in [1..Len(input) -> Nat] /\ failures'[At] = MaxRetries + attempt'
      /\ \A k \in 1..Len(input) : k # At => failures'[k] = failures[k]
  BY <1>1, <1>2
<1>4. Size' = Size /\ At' = At /\ (\A t : Keyed(t)' = Keyed(t)) /\ AtText'
  BY <1>1, <1>2 DEF Size, At, Keyed, AtText
<1>5. EmbedderTypeOK'
  <2>1. attempt' \in 0..(MaxRetries - 1)
    BY <1>1, <1>2
  <2> QED
    BY <1>1, <1>3, <1>4, <2>1 DEF EInv, EmbedderTypeOK
<1>6. OutInv' /\ EachWithItsVector'
  BY <1>1 DEF EInv, OutInv, EachWithItsVector
<1>7. PaidInv'
  <2>1. ASSUME NEW k \in 1..Len(input), At <= k, k <= first + Size
        PROVE  failures'[k] = IF k = At THEN MaxRetries + attempt' ELSE MaxRetries
    BY <1>2, <1>3, <2>1 DEF EInv, PaidInv
  <2>2. ASSUME NEW k \in 1..Len(input), k > first + Size
        PROVE  failures'[k] = 0
    BY <1>2, <1>3, <2>2 DEF EInv, PaidInv
  <2>3. AtText' /\ (input[At] # Blank)' /\ (Keyed(input[At]) = {})'
    BY <1>1, <1>4 DEF Keyed
  <2> QED
    BY <1>1, <1>2, <1>4, <2>1, <2>2, <2>3 DEF PaidInv
<1>8. SingleInv'
  <2>1. \A k \in 1..Len(embs) : first + k \in 1..Len(input) /\ first + k # At
    BY <1>2
  <2> QED
    BY <1>1, <1>3, <2>1 DEF EInv, SingleInv
<1>9. ZeroIsEarned'
  <2>1. \A k \in 1..Len(out) : failures'[k] = failures[k]
    BY <1>2, <1>3
  <2> QED
    BY <1>1, <2>1 DEF EInv, ZeroIsEarned
<1>10. CacheSound'
  BY <1>1 DEF EInv, CacheSound, Keyed
<1>11. RecentInv'
  <2>1. Served' = Served /\ BatchTexts' = BatchTexts
    BY <1>1 DEF Served, BatchTexts, Size
  <2> QED
    BY <1>1, <1>4, <2>1 DEF EInv, RecentInv
<1> QED
  BY <1>5, <1>6, <1>7, <1>8, <1>9, <1>10, <1>11 DEF EInv

-----------------------------------------------------------------------------
\* EmbeddingCache.get moves entry k behind the others and leaves their order.
LEMMA GetMoves ==
  ASSUME cached \in Seq(Entry), NEW k \in 1..Len(cached)
  PROVE  /\ Get(k) \in Seq(Entry) /\ Len(Get(k)) = Len(cached)
         /\ \A j \in 1..(Len(cached) - 1) : Get(k)[j] = cached[IF j < k THEN j ELSE j + 1]
         /\ Get(k)[Len(cached)] = cached[k]
<1> DEFINE n == Len(cached)
           a == SubSeq(cached, 1, k - 1)
           b == SubSeq(cached, k + 1, n)
           c == <<cached[k]>>
<1>1. n \in Nat /\ k \in Int /\ 1 <= k /\ k <= n
  OBVIOUS
<1>2. \A j \in 1..n : cached[j] \in Entry
  BY ElementOfSeq
<1>3. a \in Seq(Entry) /\ Len(a) = k - 1 /\ \A j \in 1..(k - 1) : a[j] = cached[j]
  <2>1. \A j \in 1..(k - 1) : cached[j] \in Entry
    BY <1>1, <1>2
  <2>2. /\ a \in Seq(Entry) /\ Len(a) = IF 1 <= k - 1 THEN (k - 1) - 1 + 1 ELSE 0
        /\ \A j \in 1..((k - 1) - 1 + 1) : a[j] = cached[1 + j - 1]
    BY <1>1, <2>1, SubSeqProperties
  <2> HIDE DEF a
  <2> QED
    BY <1>1, <2>2
<1>4. b \in Seq(Entry) /\ Len(b) = n - k /\ \A j \in 1..(n - k) : b[j] = cached[k + j]
  <2>1. \A j \in (k + 1)..n : cached[j] \in Entry
    BY <1>1, <1>2
  <2>2. /\ b \in Seq(Entry) /\ Len(b) = IF k + 1 <= n THEN n - (k + 1) + 1 ELSE 0
        /\ \A j \in 1..(n - (k + 1) + 1) : b[j] = cached[(k + 1) + j - 1]
    BY <1>1, <2>1, SubSeqProperties
  <2> HIDE DEF b
  <2>3. \A j \in 1..(n - k) : j \in 1..(n - (k + 1) + 1) /\ (k + 1) + j - 1 = k + j
    BY <1>1
  <2>4. \A j \in 1..(n - k) : b[j] = cached[k + j]
    BY <2>2, <2>3
  <2>5. Len(b) = n - k
    BY <1>1, <2>2
  <2> QED
    BY <2>2, <2>4, <2>5
<1>5. c \in Seq(Entry) /\ Len(c) = 1 /\ c[1] = cached[k]
  BY <1>1, <1>2
<1>6. Get(k) = a \o b \o c
  BY DEF Get
<1> HIDE DEF a, b, c
<1>7. /\ a \o b \in Seq(Entry) /\ Len(a \o b) = n - 1
      /\ \A j \in 1..(n - 1) : (a \o b)[j] = cached[IF j < k THEN j ELSE j + 1]
  <2>1. /\ a \o b \in Seq(Entry) /\ Len(a \o b) = Len(a) + Len(b)
        /\ \A j \in 1..(Len(a) + Len(b)) : (a \o b)[j] = IF j <= Len(a) THEN a[j] ELSE b[j - Len(a)]
    BY <1>3, <1>4, ConcatProperties
  <2>2. Len(a) + Len(b) = n - 1
    BY <1>1, <1>3, <1>4
  <2>3. ASSUME NEW j \in 1..(n - 1) PROVE (a \o b)[j] = cached[IF j < k THEN j ELSE j + 1]
    <3>1. CASE j < k
      <4>1. j <= Len(a) /\ j \in 1..(k - 1) /\ j \in 1..(Len(a) + Len(b))
        BY <1>1, <1>3, <2>2, <3>1
      <4> QED
        BY <1>3, <2>1, <3>1, <4>1
    <3>2. CASE ~ (j < k)
      <4>1. ~ (j <= Len(a)) /\ j - Len(a) \in 1..(n - k) /\ k + (j - Len(a)) = j + 1 /\ j \in 1..(Len(a) + Len(b))
        BY <1>1, <1>3, <2>2, <3>2
      <4>2. b[j - Len(a)] = cached[j + 1]
        BY <1>4, <4>1
      <4> QED
        BY <2>1, <3>2, <4>1, <4>2
    <3> QED
      BY <3>1, <3>2
  <2> QED
    BY <2>1, <2>2, <2>3
<1>8. /\ (a \o b) \o c \in Seq(Entry) /\ Len((a \o b) \o c) = Len(a \o b) + Len(c)
      /\ \A j \in 1..(Len(a \o b) + Len(c)) :
            ((a \o b) \o c)[j] = IF j <= Len(a \o b) THEN (a \o b)[j] ELSE c[j - Len(a \o b)]
  BY <1>5, <1>7, ConcatProperties
<1>9. Len(a \o b) + Len(c) = n /\ n \in 1..n /\ ~ (n <= Len(a \o b)) /\ n - Len(a \o b) = 1
  BY <1>1, <1>5, <1>7
<1>10. \A j \in 1..(n - 1) : j \in 1..n /\ j <= Len(a \o b)
  BY <1>1, <1>7
<1>11. ((a \o b) \o c)[n] = cached[k]
  BY <1>5, <1>8, <1>9
<1>12. \A j \in 1..(n - 1) : ((a \o b) \o c)[j] = (a \o b)[j]
  BY <1>8, <1>9, <1>10
<1> HIDE DEF n
<1> QED
  BY <1>6, <1>7, <1>8, <1>9, <1>11, <1>12 DEF n

\* A text found in the cache becomes its most recently used one.
LEMMA HitCache ==
  ASSUME EInv, AtText, NEW k \in Keyed(input[At]), cached' = Get(k),
         Served' = Served \cup {input[At]}, BatchTexts' = BatchTexts
  PROVE  cached' \in Seq(Entry) /\ CacheSound' /\ RecentInv'
<1> DEFINE n == Len(cached)
           old(j) == IF j = n THEN k ELSE IF j < k THEN j ELSE j + 1
           new(j) == IF j = k THEN n ELSE IF j < k THEN j ELSE j - 1
<1>1. /\ cached \in Seq(Entry) /\ n \in Nat /\ k \in 1..n /\ n \in 1..n /\ cached[k].text = input[At]
  BY DEF Keyed, EInv, EmbedderTypeOK, Entry
<1>2. CacheSound /\ RecentInv
  BY DEF EInv
<1>3. cached' \in Seq(Entry) /\ Len(cached') = n
  BY <1>1, GetMoves
<1>4. ASSUME NEW j \in 1..n PROVE old(j) \in 1..n /\ cached'[j] = cached[old(j)] /\ new(old(j)) = j
  <2>1. CASE j = n
    BY <1>1, <2>1, GetMoves
  <2>2. CASE j # n
    <3>1. j \in 1..(n - 1)
      BY <1>1, <2>2
    <3>2. cached'[j] = cached[IF j < k THEN j ELSE j + 1]
      BY <1>1, <3>1, GetMoves
    <3> QED
      BY <1>1, <2>2, <3>1, <3>2
  <2> QED
    BY <2>1, <2>2
<1>5. ASSUME NEW j \in 1..n PROVE new(j) \in 1..n /\ cached'[new(j)] = cached[j]
  <2>1. new(j) \in 1..n /\ old(new(j)) = j
    BY <1>1
  <2> QED
    BY <1>4, <2>1
<1>6. ASSUME NEW p \in 1..n, NEW q \in 1..n, p < q, q # n
      PROVE  old(p) < old(q) /\ old(p) # k
  BY <1>1, <1>6
<1>7. \A p, q \in 1..n : cached[p].text = cached[q].text => p = q
  BY <1>2 DEF CacheSound, Keyed
<1> HIDE DEF old, new
<1>8. CacheSound'
  <2>1. Len(cached') <= MaxCache
    BY <1>2, <1>3 DEF CacheSound
  <2>2. ASSUME NEW j \in 1..n
        PROVE  cached'[j].vec = cached'[j].text /\ \A q \in 1..n : cached'[q].text = cached'[j].text => q = j
    <3>1. cached'[j].vec = cached'[j].text
      BY <1>2, <1>4 DEF CacheSound
    <3>2. ASSUME NEW q \in 1..n, cached'[q].text = cached'[j].text PROVE q = j
      <4>1. old(q) = old(j)
        <5>1. old(q) \in 1..n /\ cached'[q] = cached[old(q)]
          BY <1>4
        <5>2. old(j) \in 1..n /\ cached'[j] = cached[old(j)]
          BY <1>4
        <5> QED
          BY <1>7, <3>2, <5>1, <5>2
      <4> QED
        BY <1>4, <4>1
    <3> QED
      BY <3>1, <3>2
  <2> QED
    BY <1>3, <2>1, <2>2 DEF CacheSound, Keyed
<1>9. RecentInv'
  <2>1. ASSUME NEW p \in 1..n, NEW q \in 1..n, p < q, cached'[p].text \in Served'
        PROVE  cached'[q].text \in Served'
    <3>1. CASE q = n
      BY <1>1, <1>4, <3>1 DEF old
    <3>2. CASE q # n
      <4>1. old(p) < old(q) /\ old(p) # k /\ old(p) \in 1..n /\ old(q) \in 1..n
        BY <1>4, <1>6, <2>1, <3>2
      <4>2. cached[old(p)].text # input[At]
        BY <1>1, <1>7, <4>1
      <4>3. cached[old(p)].text \in Served
        BY <1>4, <2>1, <4>2
      <4> QED
        BY <1>2, <1>4, <4>1, <4>3 DEF RecentInv
    <3> QED
      BY <3>1, <3>2
  <2>2. ASSUME Cardinality(BatchTexts) <= MaxCache, NEW t \in Served'
        PROVE  \E j \in 1..n : cached'[j].text = t
    <3>1. PICK j \in 1..n : cached[j].text = t
      BY <1>1, <1>2, <2>2 DEF RecentInv, Keyed
    <3> QED
      BY <1>5, <3>1
  <2> QED
    BY <1>3, <2>1, <2>2 DEF RecentInv, Keyed
<1> QED
  BY <1>3, <1>8, <1>9

\* A hit returns the text's own vector.
LEMMA HitKeeps == EInv /\ Hit => EInv'
<1> SUFFICES ASSUME EInv, Hit PROVE EInv'
  OBVIOUS
<1>1. /\ AtText /\ input[At] # Blank
      /\ input' = input /\ stage' = stage /\ first' = first /\ attempt' = attempt /\ out' = out
      /\ failures' = failures
  BY DEF Hit
<1>2. PICK k \in Keyed(input[At]) : embs' = Append(embs, cached[k].vec) /\ cached' = Get(k)
  BY DEF Hit
<1>3. cached[k].vec = input[At]
  BY <1>2 DEF EInv, CacheSound, Keyed
<1>4. attempt' = 0 /\ failures' \in [1..Len(input) -> Nat] /\ input[At] # Zero
  <2>1. /\ attempt > 0 => Keyed(input[At]) = {}
        /\ attempt \in Nat /\ failures \in [1..Len(input) -> Nat] /\ input[At] # Zero
    BY <1>1, Asked
  <2>2. Keyed(input[At]) # {}
    BY <1>2
  <2> QED
    BY <1>1, <2>1, <2>2
<1>5. Served' = Served \cup {input[At]}
  BY <1>1, <1>2, <1>3, <1>4, ServedNext
<1>6. BatchTexts' = BatchTexts
  BY <1>1 DEF BatchTexts, Size
<1>7. cached' \in Seq(Entry) /\ CacheSound' /\ RecentInv'
  BY <1>1, <1>2, <1>5, <1>6, HitCache
<1> QED
  BY <1>1, <1>2, <1>3, <1>4, <1>7, NextText

\* EmbeddingCache.put appends the text and, at the limit, drops the head (d = 1).
LEMMA PutAppends ==
  ASSUME cached \in Seq(Entry), NEW t \in Texts, MaxCache \in Nat \ {0}
  PROVE  \E d \in {0, 1} :
            /\ d = 1 <=> Len(cached) >= MaxCache
            /\ Put(t, t) \in Seq(Entry) /\ Len(Put(t, t)) = Len(cached) - d + 1
            /\ \A j \in 1..(Len(cached) - d) : Put(t, t)[j] = cached[j + d]
            /\ Put(t, t)[Len(cached) - d + 1] = [text |-> t, vec |-> t]
<1> DEFINE e == [text |-> t, vec |-> t]
<1>1. e \in Entry /\ Len(cached) \in Nat
  BY DEF Entry
<1>2. CASE Len(cached) >= MaxCache
  <2>1. cached # <<>>
    BY <1>1, <1>2
  <2>2. /\ Tail(cached) \in Seq(Entry) /\ Len(Tail(cached)) = Len(cached) - 1
        /\ \A j \in 1..Len(Tail(cached)) : Tail(cached)[j] = cached[j + 1]
    BY <2>1, HeadTailProperties
  <2>3. Put(t, t) = Append(Tail(cached), e)
    BY <1>2 DEF Put
  <2>4. /\ Append(Tail(cached), e) \in Seq(Entry)
        /\ Len(Append(Tail(cached), e)) = Len(Tail(cached)) + 1
        /\ \A j \in 1..Len(Tail(cached)) : Append(Tail(cached), e)[j] = Tail(cached)[j]
        /\ Append(Tail(cached), e)[Len(Tail(cached)) + 1] = e
    BY <1>1, <2>2, AppendProperties
  <2> QED
    BY <1>2, <2>2, <2>3, <2>4
<1>3. CASE ~ (Len(cached) >= MaxCache)
  <2>1. Put(t, t) = Append(cached, e)
    BY <1>3 DEF Put
  <2>2. /\ Append(cached, e) \in Seq(Entry)
        /\ Len(Append(cached, e)) = Len(cached) + 1
        /\ \A j \in 1..Len(cached) : Append(cached, e)[j] = cached[j]
        /\ Append(cached, e)[Len(cached) + 1] = e
    BY <1>1, AppendProperties
  <2> QED
    BY <1>1, <1>3, <2>1, <2>2
<1> QED
  BY <1>2, <1>3

\* The texts of a batch are finitely many.
LEMMA BatchIsFinite ==
  ASSUME EInv, AtText
  PROVE  IsFiniteSet(BatchTexts)
<1> DEFINE T == {input[first + k] : k \in 1..Size}
           f == [k \in 1..Size |-> input[first + k]]
<1>1. Size \in Nat
  BY Asked
<1>2. IsFiniteSet(1..Size)
  BY <1>1, FS_Interval
<1>3. f \in Surjection(1..Size, T)
  BY DEF Surjection
<1>4. IsFiniteSet(T)
  <2> HIDE DEF f, T
  <2> QED
    BY <1>2, <1>3, FS_Surjection
<1>5. BatchTexts \in SUBSET T
  BY DEF BatchTexts
<1> HIDE DEF T
<1> QED
  BY <1>4, <1>5, FS_Subset

\* If the texts of the batch fit into the cache, a full cache that lacks one of them has
\* an entry at its head that this batch has not used: what is evicted is not needed.
LEMMA HeadIsNotServed ==
  ASSUME EInv, AtText, input[At] # Blank, Keyed(input[At]) = {},
         Len(cached) >= MaxCache, Cardinality(BatchTexts) <= MaxCache
  PROVE  cached[1].text \notin Served
<1> SUFFICES ASSUME cached[1].text \in Served PROVE FALSE
  OBVIOUS
<1> DEFINE n == Len(cached)
           S == {cached[q].text : q \in 1..n}
           f == [q \in 1..n |-> cached[q].text]
           x == input[At]
<1>1. /\ cached \in Seq(Entry) /\ n \in Nat \ {0} /\ MaxCache \in Nat \ {0} /\ n = MaxCache
      /\ CacheSound /\ RecentInv /\ SingleInv
  <2>1. /\ cached \in Seq(Entry) /\ n \in Nat /\ MaxCache \in Nat \ {0}
        /\ CacheSound /\ RecentInv /\ SingleInv
    BY Batch DEF EInv
  <2>2. n <= MaxCache
    BY <2>1 DEF CacheSound
  <2> QED
    BY <2>1, <2>2
<1>2. /\ Size \in Nat /\ Len(embs) \in Nat /\ Len(embs) < Size
      /\ At = first + (Len(embs) + 1) /\ first \in Nat
  BY Asked
<1>3. \A q \in 1..n : cached[q].text \in Served
  BY <1>1 DEF RecentInv
<1>4. Served \subseteq BatchTexts
  <2>1. ASSUME NEW k \in 1..Len(embs), embs[k] # Zero PROVE input[first + k] \in BatchTexts
    <3>1. k \in 1..Size
      BY <1>2
    <3> QED
      BY <1>1, <2>1, <3>1 DEF SingleInv, BatchTexts
  <2> QED
    BY <2>1 DEF Served
<1>5. x \in BatchTexts /\ x \notin S
  <2>1. Len(embs) + 1 \in 1..Size
    BY <1>2
  <2> QED
    BY <1>2, <2>1 DEF BatchTexts, Keyed
<1>6. f \in Bijection(1..n, S)
  <2>1. \A p, q \in 1..n : cached[p].text = cached[q].text => p = q
    BY <1>1 DEF CacheSound, Keyed
  <2>2. f \in [1..n -> S]
    OBVIOUS
  <2> QED
    BY <2>1, <2>2 DEF Bijection, Injection, Surjection, IsInjective
<1> HIDE DEF f, S
<1>7. IsFiniteSet(1..n) /\ Cardinality(1..n) = n
  BY <1>1, FS_Interval
<1>8. IsFiniteSet(S) /\ Cardinality(S) = n
  <2>1. ExistsBijection(1..n, S)
    BY <1>6 DEF ExistsBijection
  <2> QED
    BY <1>7, <2>1, FS_Bijection
<1>9. IsFiniteSet(S \cup {x}) /\ Cardinality(S \cup {x}) = n + 1
  BY <1>5, <1>8, FS_AddElement
<1>10. S \cup {x} \in SUBSET BatchTexts
  BY <1>3, <1>4, <1>5 DEF S
<1>11. Cardinality(S \cup {x}) <= Cardinality(BatchTexts)
  BY <1>10, BatchIsFinite, FS_Subset
<1>12. Cardinality(BatchTexts) \in Nat
  BY BatchIsFinite, FS_CardinalityType
<1> QED
  BY <1>1, <1>9, <1>11, <1>12

\* A text that was paid for is in the cache, and no text of the batch that fits is lost.
LEMMA PutCache ==
  ASSUME EInv, AtText, input[At] # Blank, Keyed(input[At]) = {},
         cached' = Put(input[At], input[At]),
         Served' = Served \cup {input[At]}, BatchTexts' = BatchTexts
  PROVE  cached' \in Seq(Entry) /\ CacheSound' /\ RecentInv'
<1> DEFINE x == input[At]
           n == Len(cached)
<1>1. /\ cached \in Seq(Entry) /\ n \in Nat /\ MaxCache \in Nat \ {0}
      /\ CacheSound /\ RecentInv /\ x \in Texts
  BY Batch, Asked DEF EInv
<1>2. PICK d \in {0, 1} :
            /\ d = 1 <=> n >= MaxCache
            /\ cached' \in Seq(Entry) /\ Len(cached') = n - d + 1
            /\ \A j \in 1..(n - d) : cached'[j] = cached[j + d]
            /\ cached'[n - d + 1] = [text |-> x, vec |-> x]
  BY <1>1, PutAppends
<1> DEFINE m == n - d
<1>3. n <= MaxCache /\ m \in Nat /\ m + 1 <= MaxCache
  BY <1>1, <1>2 DEF CacheSound
<1>4. /\ \A j \in 1..m : j + d \in 1..n /\ cached'[j] = cached[j + d]
      /\ cached'[m + 1].text = x /\ cached'[m + 1].vec = x
      /\ Len(cached') = m + 1
  BY <1>1, <1>2
<1>5. \A j \in 1..n : cached[j].text # x
  BY DEF Keyed
<1>6. \A p, q \in 1..n : cached[p].text = cached[q].text => p = q
  BY <1>1 DEF CacheSound, Keyed
<1>7. \A j \in 1..(m + 1) : j \in 1..m \/ j = m + 1
  BY <1>3
<1> HIDE DEF x
<1>8. CacheSound'
  <2>1. ASSUME NEW j \in 1..(m + 1)
        PROVE  cached'[j].vec = cached'[j].text
    BY <1>1, <1>4, <1>7 DEF CacheSound
  <2>2. ASSUME NEW j \in 1..(m + 1), NEW q \in 1..(m + 1), cached'[q].text = cached'[j].text
        PROVE  q = j
    <3>1. CASE j \in 1..m /\ q \in 1..m
      <4>1. j + d = q + d
        <5>1. j + d \in 1..n /\ cached'[j] = cached[j + d]
          BY <1>4, <3>1
        <5>2. q + d \in 1..n /\ cached'[q] = cached[q + d]
          BY <1>4, <3>1
        <5> QED
          BY <1>6, <2>2, <5>1, <5>2
      <4> QED
        BY <1>3, <4>1
    <3>2. CASE j = m + 1 \/ q = m + 1
      BY <1>4, <1>5, <1>7, <2>2, <3>2
    <3> QED
      BY <1>7, <3>1, <3>2
  <2>3. Len(cached') <= MaxCache
    BY <1>3, <1>4
  <2> QED
    BY <1>4, <2>1, <2>2, <2>3 DEF CacheSound, Keyed
<1>9. RecentInv'
  <2>1. ASSUME NEW p \in 1..(m + 1), NEW q \in 1..(m + 1), p < q, cached'[p].text \in Served'
        PROVE  cached'[q].text \in Served'
    <3>1. CASE q = m + 1
      BY <1>4, <3>1 DEF x
    <3>2. CASE q \in 1..m
      <4>1. p \in 1..m /\ p + d < q + d
        BY <1>2, <1>3, <2>1, <3>2
      <4>2. cached[p + d].text \in Served
        BY <1>4, <1>5, <2>1, <4>1 DEF x
      <4> QED
        BY <1>1, <1>4, <3>2, <4>1, <4>2 DEF RecentInv
    <3> QED
      BY <1>7, <3>1, <3>2
  <2>2. ASSUME Cardinality(BatchTexts) <= MaxCache, NEW t \in Served'
        PROVE  \E j \in 1..(m + 1) : cached'[j].text = t
    <3>1. CASE t = x
      <4>1. m + 1 \in 1..(m + 1)
        BY <1>3
      <4> QED
        BY <1>4, <3>1, <4>1
    <3>2. CASE t \in Served
      <4>1. PICK j \in 1..n : cached[j].text = t
        BY <1>1, <2>2, <3>2 DEF RecentInv, Keyed
      <4>2. j - d \in 1..m
        <5>1. CASE d = 0
          BY <1>1, <5>1
        <5>2. CASE d = 1
          <6>1. cached[1].text \notin Served
            BY <1>2, <2>2, <5>2, HeadIsNotServed
          <6>2. j # 1
            BY <3>2, <4>1, <6>1
          <6> QED
            BY <1>1, <5>2, <6>2
        <5> QED
          BY <5>1, <5>2
      <4>3. j - d \in 1..(m + 1) /\ (j - d) + d = j
        BY <1>2, <1>3, <4>2
      <4> QED
        BY <1>4, <4>1, <4>2, <4>3
    <3> QED
      BY <3>1, <3>2 DEF x
  <2> QED
    BY <1>4, <2>1, <2>2 DEF RecentInv, Keyed
<1> QED
  BY <1>2, <1>8, <1>9

\* A text that was paid for goes into the cache.
LEMMA AnswersKeeps == EInv /\ Answers => EInv'
<1> SUFFICES ASSUME EInv, Answers PROVE EInv'
  OBVIOUS
<1>1. /\ AtText /\ input[At] # Blank /\ Keyed(input[At]) = {}
      /\ embs' = Append(embs, input[At]) /\ cached' = Put(input[At], input[At])
      /\ input' = input /\ stage' = stage /\ first' = first /\ attempt' = 0 /\ out' = out
      /\ failures' = failures
  BY DEF Answers
<1>2. failures' \in [1..Len(input) -> Nat] /\ input[At] # Zero
  BY <1>1, Asked
<1>3. Served' = Served \cup {input[At]}
  BY <1>1, <1>2, ServedNext
<1>4. BatchTexts' = BatchTexts
  BY <1>1 DEF BatchTexts, Size
<1>5. cached' \in Seq(Entry) /\ CacheSound' /\ RecentInv'
  BY <1>1, <1>3, <1>4, PutCache
<1> QED
  BY <1>1, <1>2, <1>5, NextText

-----------------------------------------------------------------------------
\* The initial states satisfy the invariant ...
LEMMA EmbedInit == EmbedderInit => EInv
<1> SUFFICES ASSUME EmbedderInit PROVE EInv
  OBVIOUS
<1>1. PICK n \in 0..MaxChunks : input \in [1..n -> Texts \cup {Blank}]
  BY DEF EmbedderInit
<1>2. n \in Nat /\ n <= MaxChunks /\ MaxRetries \in Nat \ {0} /\ BatchSize \in Nat \ {0} /\ MaxCache \in Nat \ {0}
  BY EmbedderAssumption
<1>3. input \in Seq(Texts \cup {Blank}) /\ Len(input) = n
  BY <1>1, <1>2
<1>4. /\ stage = IF input = <<>> THEN "done" ELSE "batch"
      /\ first = 0 /\ attempt = 0 /\ embs = <<>> /\ out = <<>> /\ cached = <<>>
      /\ failures = [k \in 1..n |-> 0]
  BY <1>3 DEF EmbedderInit
<1>5. Len(embs) = 0 /\ Len(out) = 0 /\ Len(cached) = 0
  BY <1>4
<1>6. input = <<>> <=> n = 0
  BY <1>2, <1>3
<1>7. EmbedderTypeOK
  <2>1. attempt \in 0..(MaxRetries - 1) /\ first \in Nat /\ stage \in {"batch", "done"}
    BY <1>2, <1>4
  <2>2. failures \in [1..Len(input) -> Nat]
    BY <1>3, <1>4
  <2>3. /\ embs \in Seq(Vectors) /\ out \in Seq([chunk : Nat, vec : Vectors, error : BOOLEAN])
        /\ cached \in Seq([text : Texts, vec : Texts])
    BY <1>4
  <2> QED
    BY <1>2, <1>3, <2>1, <2>2, <2>3 DEF EmbedderTypeOK
<1>8. OutInv /\ EachWithItsVector
  BY <1>2, <1>3, <1>4, <1>5, <1>6 DEF OutInv, EachWithItsVector
<1>9. PaidInv
  <2>1. \A k \in 1..Len(input) : failures[k] = 0
    BY <1>3, <1>4
  <2>2. stage # "single"
    BY <1>4
  <2> QED
    BY <1>4, <2>1, <2>2 DEF PaidInv
<1>10. SingleInv /\ ZeroIsEarned
  BY <1>5 DEF SingleInv, ZeroIsEarned
<1>11. CacheSound
  BY <1>2, <1>5 DEF CacheSound
<1>12. RecentInv
  <2>1. Served = {}
    BY <1>5 DEF Served
  <2> QED
    BY <2>1 DEF RecentInv
<1> QED
  BY <1>7, <1>8, <1>9, <1>10, <1>11, <1>12 DEF EInv

\* ... every step keeps it ...
LEMMA EmbedStep == EInv /\ [EmbedderNext]_embedderVars => EInv'
<1> SUFFICES ASSUME EInv, [EmbedderNext]_embedderVars PROVE EInv'
  OBVIOUS
<1>1. CASE UNCHANGED embedderVars
  <2>1. /\ input' = input /\ stage' = stage /\ first' = first /\ attempt' = attempt /\ embs' = embs
        /\ out' = out /\ cached' = cached /\ failures' = failures
    BY <1>1 DEF embedderVars
  <2>2. Size' = Size /\ At' = At /\ (AtText' <=> AtText) /\ \A t : Keyed(t)' = Keyed(t)
    BY <2>1 DEF Size, At, AtText, Keyed
  <2>3. EmbedderTypeOK' /\ OutInv' /\ EachWithItsVector'
    BY <2>1, <2>2 DEF EInv, EmbedderTypeOK, OutInv, EachWithItsVector
  <2>4. PaidInv' /\ SingleInv' /\ ZeroIsEarned'
    <3>1. (Keyed(input[At]) = {})' <=> Keyed(input[At]) = {}
      BY <2>1, <2>2 DEF Keyed
    <3> QED
      BY <2>1, <2>2, <3>1 DEF EInv, PaidInv, SingleInv, ZeroIsEarned
  <2>5. CacheSound' /\ RecentInv'
    <3>1. Served' = Served /\ BatchTexts' = BatchTexts
      BY <2>1, <2>2 DEF Served, BatchTexts
    <3> QED
      BY <2>1, <2>2, <3>1 DEF EInv, CacheSound, RecentInv, Keyed
  <2> QED
    BY <2>3, <2>4, <2>5 DEF EInv
<1>2. CASE BatchAnswers
  BY <1>2, BatchAnswersKeeps
<1>3. CASE BatchRetries
  BY <1>3, BatchRetriesKeeps
<1>4. CASE BatchGivesUp
  BY <1>4, BatchGivesUpKeeps
<1>5. CASE BatchFallsBack
  BY <1>5, BatchFallsBackKeeps
<1>6. CASE BlankIsZero
  BY <1>6, BlankIsZeroKeeps
<1>7. CASE Hit
  BY <1>7, HitKeeps
<1>8. CASE Answers
  BY <1>8, AnswersKeeps
<1>9. CASE Retries
  BY <1>9, RetriesKeeps
<1>10. CASE GivesUp
  BY <1>10, GivesUpKeeps
<1>11. CASE Singles
  BY <1>11, SinglesKeeps
<1> QED
  BY <1>1, <1>2, <1>3, <1>4, <1>5, <1>6, <1>7, <1>8, <1>9, <1>10, <1>11 DEF EmbedderNext

\* ... so it holds throughout.
LEMMA EmbedInvariant == EmbedderSpec => []EInv
<1>1. EmbedderInit => EInv
  BY EmbedInit
<1>2. EInv /\ [EmbedderNext]_embedderVars => EInv'
  BY EmbedStep
<1> QED
  BY <1>1, <1>2, PTL DEF EmbedderSpec

\* embed_chunks keeps its variables in their types; _process_individually never has more
\* vectors than the batch has chunks.
THEOREM EmbedTypeCorrect == EmbedderSpec => []EmbedderTypeOK
<1>1. EInv => EmbedderTypeOK
  BY DEF EInv
<1> QED
  BY <1>1, EmbedInvariant, PTL

\* embed_chunks returns every chunk once and in order with its own vector or the zero vector.
THEOREM EmbedKeepsOrder == EmbedderSpec => []EachWithItsVector
<1>1. EInv => EachWithItsVector
  BY DEF EInv
<1> QED
  BY <1>1, EmbedInvariant, PTL

\* No chunk gets the zero vector for the failures of another one.
THEOREM EmbedZeroIsEarned == EmbedderSpec => []ZeroIsEarned
<1>1. EInv => ZeroIsEarned
  BY DEF EInv
<1> QED
  BY <1>1, EmbedInvariant, PTL

\* EmbeddingCache stays within max_size and holds every text once, with its own vector.
THEOREM EmbedCacheSound == EmbedderSpec => []CacheSound
<1>1. EInv => CacheSound
  BY DEF EInv
<1> QED
  BY <1>1, EmbedInvariant, PTL

\* Within a batch whose texts fit into the cache no text is paid for twice.
THEOREM EmbedPaysOnce == EmbedderSpec => []NotPaidTwice
<1>1. EInv => NotPaidTwice
  <2>1. ASSUME EInv, AtText, Cardinality(BatchTexts) <= MaxCache,
               NEW k \in 1..Len(embs), input[first + k] = input[At], embs[k] # Zero
        PROVE  Keyed(input[At]) # {}
    <3>1. input[At] \in Served
      BY <2>1 DEF Served
    <3> QED
      BY <2>1, <3>1 DEF EInv, RecentInv
  <2>2. Cardinality(BatchTexts) = Cardinality({input[first + k] : k \in 1..Size} \ {Blank})
    BY DEF BatchTexts
  <2> QED
    BY <2>1, <2>2 DEF NotPaidTwice
<1> QED
  BY <1>1, EmbedInvariant, PTL
=============================================================================
