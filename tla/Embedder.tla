------------------------------ MODULE Embedder ------------------------------
(***************************************************************************)
(* Embedding the chunks of a document (ingestion/embedder.py):             *)
(* embed_chunks sends them batch by batch, retries a batch that fails,     *)
(* falls back to one call per text and, where that fails too, to a zero    *)
(* vector. The calls for single texts go through an LRU cache              *)
(* (create_embedder, EmbeddingCache).                                      *)
(*                                                                         *)
(* The vector of a text is the text itself, and one step is one call to    *)
(* the embeddings API or one text that needs none. Nothing else runs on    *)
(* the same embedder: every ingest creates its own. The specification and  *)
(* its parts are named for the module because the proofs extend it beside  *)
(* SimpleSplit.                                                            *)
(***************************************************************************)
EXTENDS Integers, Sequences, FiniteSets

CONSTANTS
    Texts,       \* contents of chunks
    Blank,       \* an empty content, or one of spaces
    Zero,        \* the zero vector
    BatchSize,   \* batch_size
    MaxRetries,  \* max_retries
    MaxCache,    \* max_size of the EmbeddingCache
    MaxChunks    \* bound on the number of chunks

ASSUME EmbedderAssumption ==
    /\ Blank \notin Texts /\ Zero \notin Texts \cup {Blank}
    /\ BatchSize \in Nat \ {0} /\ MaxRetries \in Nat \ {0} /\ MaxCache \in Nat \ {0}
    /\ MaxChunks \in Nat

VARIABLES
    input,     \* contents of the chunks
    stage,     \* "batch", "single" or "done"
    first,     \* i: chunks before the current batch
    attempt,   \* attempt, of either retry loop
    embs,      \* embeddings of _process_individually
    out,       \* embedded_chunks: the chunk, its vector, embedding_error
    cached,    \* the EmbeddingCache, least recently used entry first
    failures   \* history: failed API calls that carried the chunk

embedderVars == <<input, stage, first, attempt, embs, out, cached, failures>>

Vectors == Texts \cup {Blank, Zero}

EmbedderInit ==
    /\ input \in UNION {[1..n -> Texts \cup {Blank}] : n \in 0..MaxChunks}
    /\ stage = IF input = <<>> THEN "done" ELSE "batch"
    /\ first = 0 /\ attempt = 0 /\ embs = <<>> /\ out = <<>> /\ cached = <<>>
    /\ failures = [k \in 1..Len(input) |-> 0]

-----------------------------------------------------------------------------
\* Length of batch_chunks.
Size == IF first + BatchSize <= Len(input) THEN BatchSize ELSE Len(input) - first

\* Mutant: a batch that failed is left out.
EmitAnswered(vecs, error) ==
    /\ out' = IF error THEN out
              ELSE out \o [k \in 1..Len(vecs) |->
                             [chunk |-> first + k, vec |-> vecs[k], error |-> error]]
    /\ first' = first + BatchSize
    /\ stage' = IF first + BatchSize < Len(input) THEN "batch" ELSE "done"
    /\ attempt' = 0 /\ embs' = <<>>

\* The batch leaves embed_chunks with these vectors; the loop goes on.
Emit(vecs, error) ==
    /\ out' = out \o [k \in 1..Len(vecs) |->
                        [chunk |-> first + k, vec |-> vecs[k], error |-> error]]
    /\ first' = first + BatchSize
    /\ stage' = IF first + BatchSize < Len(input) THEN "batch" ELSE "done"
    /\ attempt' = 0 /\ embs' = <<>>

\* A request that carried the whole batch has failed.
BatchFailed ==
    failures' = [k \in DOMAIN failures |->
                   IF k \in (first + 1)..(first + Size) THEN failures[k] + 1 ELSE failures[k]]

\* The API answers the request for a batch.
BatchAnswers ==
    /\ stage = "batch"
    /\ Emit([k \in 1..Size |-> input[first + k]], FALSE)
    /\ UNCHANGED <<input, cached, failures>>

\* Mutant: one attempt too many.
BatchRetriesOnceMore ==
    /\ stage = "batch" /\ attempt < MaxRetries
    /\ attempt' = attempt + 1
    /\ BatchFailed
    /\ UNCHANGED <<input, stage, first, embs, out, cached>>

\* A request for a batch fails and is repeated.
BatchRetries ==
    /\ stage = "batch" /\ attempt < MaxRetries - 1
    /\ attempt' = attempt + 1
    /\ BatchFailed
    /\ UNCHANGED <<input, stage, first, embs, out, cached>>

\* The last attempt meets the rate limit, which embed_chunks catches.
BatchGivesUp ==
    /\ stage = "batch" /\ attempt = MaxRetries - 1
    /\ Emit([k \in 1..Size |-> Zero], TRUE)
    /\ BatchFailed
    /\ UNCHANGED <<input, cached>>

\* The last attempt fails otherwise: _process_individually.
BatchFallsBack ==
    /\ stage = "batch" /\ attempt = MaxRetries - 1
    /\ stage' = "single" /\ attempt' = 0
    /\ BatchFailed
    /\ UNCHANGED <<input, first, embs, out, cached>>

-----------------------------------------------------------------------------
\* The chunk _process_individually is at.
At == first + Len(embs) + 1
AtText == stage = "single" /\ Len(embs) < Size

Keyed(t) == {k \in 1..Len(cached) : cached[k].text = t}

\* Mutant: a hit does not count as an access.
GetWithoutTouch(k) == cached

\* EmbeddingCache.get, of entry k: it becomes the most recently used one.
Get(k) == SubSeq(cached, 1, k - 1) \o SubSeq(cached, k + 1, Len(cached)) \o <<cached[k]>>

\* Mutant: an entry is evicted only when the cache is over its limit.
PutOver(t, v) ==
    Append(IF Len(cached) > MaxCache THEN Tail(cached) ELSE cached, [text |-> t, vec |-> v])

\* EmbeddingCache.put, of a text that is not in the cache.
Put(t, v) ==
    Append(IF Len(cached) >= MaxCache THEN Tail(cached) ELSE cached, [text |-> t, vec |-> v])

\* A blank text gets the zero vector without a call.
BlankIsZero ==
    /\ AtText /\ input[At] = Blank
    /\ embs' = Append(embs, Zero)
    /\ UNCHANGED <<input, stage, first, attempt, out, cached, failures>>

\* cached_generate finds the text.
Hit ==
    /\ AtText /\ input[At] # Blank
    /\ \E k \in Keyed(input[At]) :
          /\ embs' = Append(embs, cached[k].vec)
          /\ cached' = Get(k)
    /\ UNCHANGED <<input, stage, first, attempt, out, failures>>

\* cached_generate does not, and generate_embedding asks the API: it answers ...
Answers ==
    /\ AtText /\ input[At] # Blank /\ Keyed(input[At]) = {}
    /\ embs' = Append(embs, input[At])
    /\ cached' = Put(input[At], input[At])
    /\ attempt' = 0
    /\ UNCHANGED <<input, stage, first, out, failures>>

\* ... or fails and is asked again ...
Retries ==
    /\ AtText /\ input[At] # Blank /\ Keyed(input[At]) = {}
    /\ attempt < MaxRetries - 1
    /\ attempt' = attempt + 1
    /\ failures' = [failures EXCEPT ![At] = @ + 1]
    /\ UNCHANGED <<input, stage, first, embs, out, cached>>

\* Mutant: the zero vector of a failed text goes into the cache.
GivesUpAndCaches ==
    /\ AtText /\ input[At] # Blank /\ Keyed(input[At]) = {}
    /\ attempt = MaxRetries - 1
    /\ embs' = Append(embs, Zero)
    /\ cached' = Put(input[At], Zero)
    /\ attempt' = 0
    /\ failures' = [failures EXCEPT ![At] = @ + 1]
    /\ UNCHANGED <<input, stage, first, out>>

\* ... or fails for the last time, which _process_individually catches.
GivesUp ==
    /\ AtText /\ input[At] # Blank /\ Keyed(input[At]) = {}
    /\ attempt = MaxRetries - 1
    /\ embs' = Append(embs, Zero)
    /\ attempt' = 0
    /\ failures' = [failures EXCEPT ![At] = @ + 1]
    /\ UNCHANGED <<input, stage, first, out, cached>>

\* Mutant: only a full batch is complete.
SinglesFull ==
    /\ stage = "single" /\ Len(embs) = BatchSize
    /\ Emit(embs, FALSE)
    /\ UNCHANGED <<input, cached, failures>>

\* _process_individually returns.
Singles ==
    /\ stage = "single" /\ Len(embs) = Size
    /\ Emit(embs, FALSE)
    /\ UNCHANGED <<input, cached, failures>>

EmbedderNext ==
    \/ BatchAnswers \/ BatchRetries \/ BatchGivesUp \/ BatchFallsBack
    \/ BlankIsZero \/ Hit \/ Answers \/ Retries \/ GivesUp \/ Singles

EmbedderSpec == EmbedderInit /\ [][EmbedderNext]_embedderVars
EmbedderFairSpec == EmbedderSpec /\ WF_embedderVars(EmbedderNext)

-----------------------------------------------------------------------------
(* Properties *)

EmbedderTypeOK ==
    /\ input \in Seq(Texts \cup {Blank}) /\ Len(input) <= MaxChunks
    /\ stage \in {"batch", "single", "done"}
    /\ first \in Nat /\ attempt \in 0..(MaxRetries - 1)
    /\ embs \in Seq(Vectors) /\ (stage = "single" => Len(embs) <= Size)
    /\ out \in Seq([chunk : Nat, vec : Vectors, error : BOOLEAN])
    /\ cached \in Seq([text : Texts, vec : Texts])
    /\ failures \in [1..Len(input) -> Nat]

\* embed_chunks returns every chunk exactly once and in order, whatever failed,
\* each with the vector of its own text or the zero vector: save_chunks and the
\* vector index pair them by position.
EachWithItsVector ==
    /\ \A k \in 1..Len(out) : out[k].chunk = k /\ out[k].vec \in {input[k], Zero}
    /\ stage = "done" => Len(out) = Len(input)

\* A chunk with a text ends with the zero vector only after max_retries failed
\* calls for its batch and, unless embedding_error says that the batch was given
\* up, max_retries more for the chunk itself: a failure of another chunk, or of
\* an earlier batch, is never passed on to it.
ZeroIsEarned ==
    \A k \in 1..Len(out) :
        out[k].vec = Zero /\ input[k] # Blank =>
            failures[k] = IF out[k].error THEN MaxRetries ELSE 2 * MaxRetries

\* The cache holds at most max_size texts, each once and with its own vector: a
\* failure is never remembered.
CacheSound ==
    /\ Len(cached) <= MaxCache
    /\ \A k \in 1..Len(cached) :
          cached[k].vec = cached[k].text /\ Keyed(cached[k].text) = {k}

\* A text that _process_individually has embedded is not paid for again in the
\* same batch, also when the cache is full of other texts: it evicts the least
\* recently used one.
NotPaidTwice ==
    AtText /\ Cardinality({input[first + k] : k \in 1..Size} \ {Blank}) <= MaxCache =>
        \A k \in 1..Len(embs) :
            input[first + k] = input[At] /\ embs[k] # Zero => Keyed(input[At]) # {}

\* embed_chunks returns: retries and fallbacks are bounded.
EmbedderTerminates == <>(stage = "done")
=============================================================================
