----------------------------- MODULE RagCaches -----------------------------
(***************************************************************************)
(* The two Redis caches of a chat turn and their shared version counter:   *)
(* the retrieval cache (agent/query_cache.py) around hybrid_search_tool    *)
(* (agent/tools.py) and the answer cache (agent/answer_cache.py) around    *)
(* the turn (agent/api.py, chat), against ingests that save their chunks,  *)
(* feed them to the index and bump the version (ingest_service.py), and    *)
(* deletions, which do not bump it.                                        *)
(*                                                                         *)
(* Requests run in several API processes and ingests in Celery workers, so *)
(* each Redis call is a step of its own; in particular a key is built from *)
(* a version read one step before the key is used. A chunk stands for its  *)
(* document, and a retrieval returns every document the caller may see.    *)
(***************************************************************************)
EXTENDS Naturals, FiniteSets

CONSTANTS
    Requests,   \* chat turns in flight
    Users,      \* user ids that requests carry: any strings, "public" too
    Anonymous,  \* no user id
    Queries,    \* normalised queries: canonical ones, and the tool queries with their limits
    Docs,       \* documents ever ingested
    Seed,       \* the documents indexed before this Redis was set up
    Private,    \* the documents with access_level "private"
    Flaky       \* may single Redis, search or index calls fail?

Scope(u) == IF u = Anonymous THEN "public" ELSE u

ASSUME CachesAssumption ==
    /\ Seed \subseteq Docs /\ Private \subseteq Docs /\ Queries # {}
    /\ Anonymous \notin Users \cup {"public"}
    /\ Flaky \in BOOLEAN

VARIABLES
    rows,     \* documents whose chunks Postgres holds
    index,    \* documents whose chunks Vespa holds
    stage,    \* how far each document is
    ver,      \* rag:cache:ver
    bumped,   \* the version the ingest of each document bumped to; 0: none
    rcache,   \* retrieval cache entries
    acache,   \* answer cache entries
    pc,       \* where each request is in its turn; its locals are:
    req,      \*   the request: user, canonical query, admin
    tool,     \*   the query of the current search_documents call
    key,      \*   the key of the current cache call
    erred,    \*   did the version read of that key fail?
    found,    \*   the documents of that call's search
    got,      \*   deps.retrieved_chunks, over all calls; in the end what the answer rests on
    past,     \*   history: what the documents in hand go back to
    began     \*   history: the version when the turn began

corpus == <<rows, index, stage, ver, bumped>>
turn == <<pc, req, tool, key, erred, found, got, past, began>>
vars == <<corpus, rcache, acache, turn>>

Request == [user : Users \cup {Anonymous}, query : Queries, admin : BOOLEAN]
Key == [ver : Nat, scope : Users \cup {"public"}, query : Queries]
\* What data goes back to: the bumps its turns could not see, because they came
\* while a turn was under way or its version read failed; and whether a user
\* named "public" was among its callers.
Past == [unseen : SUBSET Docs, shared : BOOLEAN]
NoPast == [unseen |-> {}, shared |-> FALSE]
Entry == [key : Key, docs : SUBSET Docs, past : Past]
Stage == {"new", "fed", "done", "gone"}
NoRequest == CHOOSE r \in Request : TRUE
NoKey == [ver |-> 0, scope |-> "public", query |-> NoRequest.query]
TurnPc == {"idle", "answerVer", "answerGet", "tool", "queryVer", "queryGet", "search",
           "querySetVer", "querySet", "gate", "answerSetVer", "answerSet", "answered"}

\* The access filter of both backends: callers without an id see public documents.
Visible(u, D) == IF u = Anonymous THEN D \ Private ELSE D

Init ==
    /\ rows = Seed /\ index = Seed
    /\ stage = [d \in Docs |-> IF d \in Seed THEN "done" ELSE "new"]
    /\ ver = 0 /\ bumped = [d \in Docs |-> 0]
    /\ rcache = {} /\ acache = {}
    /\ pc = [p \in Requests |-> "idle"]
    /\ req = [p \in Requests |-> NoRequest]
    /\ tool = [p \in Requests |-> NoRequest.query]
    /\ key = [p \in Requests |-> NoKey]
    /\ erred = [p \in Requests |-> FALSE]
    /\ found = [p \in Requests |-> {}] /\ got = [p \in Requests |-> {}]
    /\ past = [p \in Requests |-> NoPast] /\ began = [p \in Requests |-> 0]

-----------------------------------------------------------------------------
(* The corpus *)

\* An ingest saves its chunks in Postgres and feeds them to Vespa, best effort.
Feed(d) ==
    /\ stage[d] = "new"
    /\ stage' = [stage EXCEPT ![d] = "fed"]
    /\ rows' = rows \cup {d}
    /\ \/ index' = index \cup {d}
       \/ Flaky /\ UNCHANGED index
    /\ UNCHANGED <<ver, bumped, rcache, acache, turn>>

\* History: the turns under way race with the bump for d.
Raced(d) ==
    past' = [p \in Requests |-> IF pc[p] = "idle" THEN past[p]
                                 ELSE [past[p] EXCEPT !.unseen = @ \cup {d}]]

\* bump_version: INCR, best effort, and whatever became of the feed.
Bump(d) ==
    /\ stage[d] = "fed"
    /\ stage' = [stage EXCEPT ![d] = "done"]
    /\ \/ /\ ver' = ver + 1
          /\ bumped' = [bumped EXCEPT ![d] = ver + 1]
          /\ Raced(d)
       \/ Flaky /\ UNCHANGED <<ver, bumped, past>>
    /\ UNCHANGED <<rows, index, rcache, acache, pc, req, tool, key, erred, found, got, began>>

\* delete_document: the chunks leave Postgres and, best effort, Vespa; the version
\* stays. So does an ingest that only removes chunks, which returns before its bump.
Remove(d) ==
    /\ stage[d] = "done"
    /\ stage' = [stage EXCEPT ![d] = "gone"]
    /\ rows' = rows \ {d}
    /\ \/ index' = index \ {d}
       \/ Flaky /\ UNCHANGED index
    /\ bumped' = [bumped EXCEPT ![d] = 0]
    /\ UNCHANGED <<ver, rcache, acache, turn>>

-----------------------------------------------------------------------------
(* Redis *)

\* Mutants: the key leaves out the access scope; the version.
UnversionedKey(p, v, q) == [ver |-> 0, scope |-> Scope(req[p].user), query |-> q]
UnscopedKey(p, v, q) == [ver |-> v, scope |-> "public", query |-> q]

\* _key of both caches: version, access scope, normalised query.
CacheKey(p, v, q) == [ver |-> v, scope |-> Scope(req[p].user), query |-> q]

Hits(cache, k) == {e \in cache : e.key = k}
Without(cache, k) == {e \in cache : e.key # k}

\* Mutant: an answer is stored without a TTL.
AnswerNeverExpires(k) == FALSE

\* The TTL of a retrieval entry runs out.
ExpireQuery(k) ==
    /\ Hits(rcache, k) # {}
    /\ rcache' = Without(rcache, k)
    /\ UNCHANGED <<corpus, acache, turn>>

\* The TTL of an answer entry runs out.
ExpireAnswer(k) ==
    /\ Hits(acache, k) # {}
    /\ acache' = Without(acache, k)
    /\ UNCHANGED <<corpus, rcache, turn>>

\* get_version, for the key of the next cache call: 0 if the read fails.
ReadVersion(p) ==
    /\ pc[p] \in {"answerVer", "queryVer", "querySetVer", "answerSetVer"}
    /\ LET q == IF pc[p] \in {"answerVer", "answerSetVer"} THEN req[p].query ELSE tool[p] IN
       \/ /\ key' = [key EXCEPT ![p] = CacheKey(p, ver, q)]
          /\ erred' = [erred EXCEPT ![p] = FALSE]
       \/ /\ Flaky
          /\ key' = [key EXCEPT ![p] = CacheKey(p, 0, q)]
          /\ erred' = [erred EXCEPT ![p] = TRUE]
    /\ pc' = [pc EXCEPT ![p] = CASE @ = "answerVer" -> "answerGet"
                                 [] @ = "queryVer" -> "queryGet"
                                 [] @ = "querySetVer" -> "querySet"
                                 [] @ = "answerSetVer" -> "answerSet"]
    /\ UNCHANGED <<corpus, rcache, acache, req, tool, found, got, past, began>>

-----------------------------------------------------------------------------
(* A chat turn *)

\* A request arrives; admins skip the answer cache.
Begin(p) ==
    /\ pc[p] = "idle"
    /\ \E r \in Request :
          /\ req' = [req EXCEPT ![p] = r]
          /\ pc' = [pc EXCEPT ![p] = IF r.admin THEN "tool" ELSE "answerVer"]
    /\ began' = [began EXCEPT ![p] = ver]
    /\ UNCHANGED <<corpus, rcache, acache, tool, key, erred, found, got, past>>

\* The cache call or the tool call is over: its locals are gone.
Forget(p) ==
    /\ key' = [key EXCEPT ![p] = NoKey] /\ erred' = [erred EXCEPT ![p] = FALSE]
    /\ tool' = [tool EXCEPT ![p] = NoRequest.query] /\ found' = [found EXCEPT ![p] = {}]

\* History: the turn takes over what the entry goes back to. A failed version read
\* saw no bump at all.
TakesOver(p, e) ==
    LET missed == {d \in Docs : erred[p] /\ bumped[d] > 0} IN
    past' = [past EXCEPT ![p] = [unseen |-> @.unseen \cup e.past.unseen \cup missed,
                                 shared |-> @.shared \/ e.past.shared]]

\* answer_cache.get: a hit is the answer; an error is a miss.
AnswerGet(p) ==
    /\ pc[p] = "answerGet"
    /\ \/ \E e \in Hits(acache, key[p]) :
             /\ got' = [got EXCEPT ![p] = e.docs]
             /\ TakesOver(p, e)
             /\ pc' = [pc EXCEPT ![p] = "answered"]
       \/ /\ Hits(acache, key[p]) = {} \/ Flaky
          /\ pc' = [pc EXCEPT ![p] = "tool"]
          /\ UNCHANGED <<got, past>>
    /\ Forget(p)
    /\ UNCHANGED <<corpus, rcache, acache, req, began>>

\* The agent calls search_documents with a query of its own.
CallTool(p) ==
    /\ pc[p] = "tool"
    /\ \E q \in Queries : tool' = [tool EXCEPT ![p] = q]
    /\ pc' = [pc EXCEPT ![p] = "queryVer"]
    /\ UNCHANGED <<corpus, rcache, acache, req, key, erred, found, got, past, began>>

\* The tool call returns D: retrieved_chunks.extend(results).
ToolReturns(p, D) ==
    /\ pc' = [pc EXCEPT ![p] = "gate"]
    /\ got' = [got EXCEPT ![p] = @ \cup D]
    /\ Forget(p)

\* query_cache.get: a hit is the result of the call; an error is a miss.
QueryGet(p) ==
    /\ pc[p] = "queryGet"
    /\ \/ \E e \in Hits(rcache, key[p]) : ToolReturns(p, e.docs) /\ TakesOver(p, e)
       \/ /\ Hits(rcache, key[p]) = {} \/ Flaky
          /\ pc' = [pc EXCEPT ![p] = "search"]
          /\ UNCHANGED <<tool, key, erred, found, got, past>>
    /\ UNCHANGED <<corpus, rcache, acache, req, began>>

\* retrieve: Vespa, or Postgres where Vespa fails or finds nothing; nothing where
\* both fail. Either backend applies the access filter.
Retrieve(u) ==
    LET vespa == Visible(u, index)
        postgres == Visible(u, rows)
    IN {IF vespa # {} THEN vespa ELSE postgres} \cup (IF Flaky THEN {postgres, {}} ELSE {})

\* Embedding, recall and rerank. An exception makes hybrid_search_tool return
\* nothing, and an empty result is not cached.
Search(p) ==
    /\ pc[p] = "search"
    /\ \E result \in Retrieve(req[p].user) :
          \/ /\ result # {}
             /\ found' = [found EXCEPT ![p] = result]
             /\ past' = [past EXCEPT ![p].shared = @ \/ req[p].user = "public"]
             /\ pc' = [pc EXCEPT ![p] = "querySetVer"]
             /\ UNCHANGED <<tool, key, erred, got>>
          \/ result = {} /\ ToolReturns(p, {}) /\ UNCHANGED past
    /\ UNCHANGED <<corpus, rcache, acache, req, began>>

\* SETEX: the entry of key k becomes the documents D, which go back to h.
Stored(cache, k, D, h) ==
    Without(cache, k) \cup {[key |-> k, docs |-> D, past |-> [h EXCEPT !.unseen = @ \ D]]}

\* query_cache.set, under the version read after the search; may fail silently.
QuerySet(p) ==
    /\ pc[p] = "querySet"
    /\ \/ rcache' = Stored(rcache, key[p], found[p], past[p])
       \/ Flaky /\ UNCHANGED rcache
    /\ ToolReturns(p, found[p])
    /\ UNCHANGED <<corpus, acache, req, past, began>>

\* The agent searches again or answers. The gates replace a reply without
\* chunks, and may replace any other; only a verified one is cached, and none
\* of an admin.
Gate(p) ==
    /\ pc[p] = "gate"
    /\ \/ pc' = [pc EXCEPT ![p] = "tool"] /\ UNCHANGED <<got, past>>
       \/ /\ pc' = [pc EXCEPT ![p] = "answered"]
          /\ got' = [got EXCEPT ![p] = {}] /\ past' = [past EXCEPT ![p] = NoPast]
       \/ got[p] # {} /\ pc' = [pc EXCEPT ![p] = "answered"] /\ UNCHANGED <<got, past>>
       \/ /\ got[p] # {} /\ ~req[p].admin
          /\ pc' = [pc EXCEPT ![p] = "answerSetVer"] /\ UNCHANGED <<got, past>>
    /\ UNCHANGED <<corpus, rcache, acache, req, tool, key, erred, found, began>>

\* answer_cache.set of a verified answer, under the version read after the gates.
AnswerSet(p) ==
    /\ pc[p] = "answerSet"
    /\ \/ acache' = Stored(acache, key[p], got[p], past[p])
       \/ Flaky /\ UNCHANGED acache
    /\ pc' = [pc EXCEPT ![p] = "answered"]
    /\ Forget(p)
    /\ UNCHANGED <<corpus, rcache, req, got, past, began>>

\* The response is sent and the turn is over.
Return(p) ==
    /\ pc[p] = "answered"
    /\ pc' = [pc EXCEPT ![p] = "idle"]
    /\ req' = [req EXCEPT ![p] = NoRequest]
    /\ got' = [got EXCEPT ![p] = {}] /\ past' = [past EXCEPT ![p] = NoPast]
    /\ began' = [began EXCEPT ![p] = 0]
    /\ UNCHANGED <<corpus, rcache, acache, tool, key, erred, found>>

-----------------------------------------------------------------------------
Turn(p) ==
    \/ ReadVersion(p) \/ AnswerGet(p) \/ CallTool(p) \/ QueryGet(p) \/ Search(p) \/ QuerySet(p)
    \/ Gate(p) \/ AnswerSet(p) \/ Return(p)

\* The tail of ingest_document: feed, then bump.
Ingest(d) == Feed(d) \/ Bump(d)
CachedKeys == {e.key : e \in rcache \cup acache}

Next ==
    \/ \E p \in Requests : Begin(p) \/ Turn(p)
    \/ \E d \in Docs : Ingest(d) \/ Remove(d)
    \/ \E k \in CachedKeys : ExpireQuery(k) \/ ExpireAnswer(k)

Spec == Init /\ [][Next]_vars

\* The keys of the versions that can be reached: every document is bumped for once.
UsedKey == {[ver |-> v, scope |-> s, query |-> q] :
               v \in 0..Cardinality(Docs), s \in Users \cup {"public"}, q \in Queries}

\* A turn and an ingest run to their end, and every entry's TTL runs out. The
\* agent does not call its tool for ever.
Fairness ==
    /\ \A p \in Requests : WF_vars(Turn(p)) /\ SF_vars(Gate(p) /\ pc'[p] # "tool")
    /\ \A d \in Docs : WF_vars(Ingest(d))
    /\ \A k \in UsedKey : WF_vars(ExpireQuery(k)) /\ WF_vars(ExpireAnswer(k))
FairSpec == Spec /\ Fairness

-----------------------------------------------------------------------------
(* Properties *)

\* Types; a key has at most one entry in a cache.
TypeOK ==
    /\ rows \subseteq Docs /\ index \subseteq Docs /\ stage \in [Docs -> Stage]
    /\ ver \in Nat /\ bumped \in [Docs -> Nat]
    /\ rcache \subseteq Entry /\ acache \subseteq Entry
    /\ \A e, f \in rcache : e.key = f.key => e = f
    /\ \A e, f \in acache : e.key = f.key => e = f
    /\ pc \in [Requests -> TurnPc] /\ req \in [Requests -> Request] /\ tool \in [Requests -> Queries]
    /\ key \in [Requests -> Key] /\ erred \in [Requests -> BOOLEAN]
    /\ found \in [Requests -> SUBSET Docs] /\ got \in [Requests -> SUBSET Docs]
    /\ past \in [Requests -> Past] /\ began \in [Requests -> Nat]

\* The documents a caller with scope s should find once version v was reached.
Due(s, v) == {d \in Docs : bumped[d] \in 1..v /\ (d \in Private => s # "public")}

\* A private document is in the anonymous scope of a cache, or in the hands of an
\* anonymous turn, only if it goes back to a search by a user whose id is the
\* name of that scope: through both caches, whoever filled them, the scope in
\* the key separates what the access filter separates, but for that one id,
\* which the filter takes for a user and _scope for no user.
ScopeSafe ==
    /\ \A e \in rcache \cup acache :
          e.key.scope = "public" /\ e.docs \cap Private # {} => e.past.shared
    /\ \A p \in Requests :
          req[p].user = Anonymous /\ (found[p] \cup got[p]) \cap Private # {} => past[p].shared

\* A document bumped for before the turn began is missing from its answer only for
\* one of three reasons: the bump fell into a turn that the answer goes back to
\* through the caches, a version read of such a turn failed and a cache was hit
\* under version 0, or the feed to Vespa was lost. Otherwise the version in the
\* key keeps every entry from before the bump away from the turn.
MaskedOnlyByRace ==
    \A p \in Requests : pc[p] = "answered" /\ got[p] # {} =>
        Due(Scope(req[p].user), began[p]) \cap index \subseteq got[p] \cup past[p].unseen

\* Once the corpus stops changing, the entries that can still be hit come to hold
\* what searches of their scope would find now: the TTLs end both the masking of
\* new documents and the citing of deleted ones, although an answer may be
\* filled from a stale retrieval entry, deletions bump no version and every call
\* may fail now and then.
MaskingEnds ==
    <>[](\A d \in Docs : stage[d] \in {"done", "gone"}) =>
        <>[](\A e \in rcache \cup acache :
                \E u \in Users \cup {Anonymous} :
                    Scope(u) = e.key.scope /\ e.docs \in {UNION S : S \in SUBSET Retrieve(u)})

\* Claimed by "newly indexed chunks are never masked by a stale cached result": an
\* answer holds every document whose ingest had bumped the version when the
\* turn began.
FreshAfterBump ==
    \A p \in Requests : pc[p] = "answered" /\ got[p] # {} =>
        Due(Scope(req[p].user), began[p]) \subseteq got[p]

\* Claimed by "Anonymous (public-only) and authenticated (user_id) callers never share
\* a cache entry": an entry of the anonymous scope holds no private document.
ScopesApart ==
    \A e \in rcache \cup acache : e.key.scope = "public" => e.docs \cap Private = {}

\* Claimed by "any Redis error degrades to a clean miss": a lookup whose version
\* read failed is never a hit.
ErrorIsMiss ==
    \A p \in Requests : erred[p] =>
        /\ pc[p] = "answerGet" => Hits(acache, key[p]) = {}
        /\ pc[p] = "queryGet" => Hits(rcache, key[p]) = {}

=============================================================================
