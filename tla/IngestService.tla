--------------------------- MODULE IngestService ---------------------------
(***************************************************************************)
(* Document ingestion: IngestService.ingest_document                       *)
(* (ingestion/ingest_service.py), the Postgres layer under it              *)
(* (agent/db_utils.py), the Vespa and Neo4j writers it calls, the Celery   *)
(* redelivery around it (worker/celery_app.py, worker/tasks.py) and the    *)
(* delete-document endpoint that competes with it.                         *)
(*                                                                         *)
(* A worker takes one task and performs one action per call that another   *)
(* process can observe; between two actions any other process may run.     *)
(* A chunk text stands for itself and for its SHA-256, and a content for   *)
(* the document text and its hash: the code only compares hashes.          *)
(***************************************************************************)
EXTENDS Naturals, Sequences, FiniteSets

CONSTANTS
    Workers,      \* Celery worker processes of the ingestion queue
    Deleters,     \* API requests running DELETE /documents/{id}
    Sources,      \* document keys: S3 keys and upload:// sources
    Contents,     \* document texts
    Texts,        \* chunk texts
    ChunksOf,     \* ChunksOf[c]: the chunk sequence the chunker makes of c
    Submissions,  \* the [source, content, access] triples users submit
    NoTask,       \* an idle worker's task
    MaxRetries,   \* max_retries of the ingestion tasks (5)
    MaxTasks,     \* bound: tasks ever enqueued
    MaxCrashes,   \* bound: worker processes lost mid-task
    MaxErrors,    \* bound: exceptions raised by Postgres, S3, parser, chunker or embedder
    Lossy         \* may the best-effort Vespa, Neo4j and Redis writes fail?

Access == {"public", "private"}
Task == [id : Nat, source : Sources, content : Contents, access : Access, retries : Nat]

ASSUME ConstantsAssumption ==
    /\ ChunksOf \in [Contents -> Seq(Texts)]
    /\ Submissions \subseteq [source : Sources, content : Contents, access : Access]
    /\ NoTask \notin Task
    /\ Workers \cap Deleters = {}
    /\ MaxRetries \in Nat /\ MaxTasks \in Nat /\ MaxCrashes \in Nat /\ MaxErrors \in Nat
    /\ Lossy \in BOOLEAN

VARIABLES
    queue,      \* tasks the broker holds for delivery
    nextTask,   \* id of the next task
    settled,    \* [task, status] of every acknowledged task
    docs,       \* documents table, one row per source; id 0 = no row
    chunks,     \* chunks table: rows [id, doc, text]
    vespa,      \* Vespa chunk documents: the row plus its source and access level
    graph,      \* Neo4j Chunk nodes [source, text]
    version,    \* rag:cache:ver in Redis
    nextDoc,    \* supply of fresh document uuids
    nextBatch,  \* supply of fresh chunk uuids, one batch per save_chunks
    pc,         \* where each worker is in ingest_document; its locals are:
    task,       \*   the task it runs
    status,     \*   "inserted" or "updated" from is_update on; at the end the result
    docId,      \*   doc_id
    target,     \*   the id upsert_document read for the source
    stale,      \*   stale_ids
    embed,      \*   positions of chunks_to_embed in the new version
    saved,      \*   saved_rows
    del,        \* each deleter's local state of delete_document
    crashes, errors,
    suspect,    \* history: sources whose last writer was interrupted mid-update or overlapped
    drift,      \* history: sources for which an index write was lost
    contended,  \* history: sources two processes ever worked on at the same time
    solo        \* history: active processes that had their source to themselves

broker == <<queue, nextTask, settled>>
db == <<docs, chunks, nextDoc, nextBatch>>
indexes == <<vespa, graph, version>>
locals == <<task, status, docId, target, stale, embed, saved>>
budget == <<crashes, errors>>
ghost == <<suspect, drift, contended, solo>>
vars == <<broker, db, indexes, pc, locals, del, budget, ghost>>

-----------------------------------------------------------------------------
(* Data *)

ChunkId == Nat \X Nat
Row == [id : ChunkId, doc : Nat, text : Texts]
VespaRow == [id : ChunkId, doc : Nat, text : Texts, source : Sources, access : Access]
Node == [source : Sources, text : Texts]
DocRow == [id : Nat, hash : Contents \cup {NoTask}, access : Access]
NoDoc == [id |-> 0, hash |-> NoTask, access |-> "public"]

Status == {"none", "inserted", "updated", "skipped", "failed"}
WorkerPc == {"idle", "lookup", "diff", "deleteStale", "vespaDelete", "upsertRead",
             "upsertWrite", "save", "graph", "feed", "bump", "ack"}
Deletion == [pc : {"idle", "graph", "chunks", "vespa", "row"}, source : Sources \cup {NoTask},
             doc : Nat]
IdleDeletion == [pc |-> "idle", source |-> NoTask, doc |-> 0]

\* The chunk texts of a version, and the positions the hash -> chunk dict keeps:
\* one per distinct text.
TextsOf(c) == {ChunksOf[c][i] : i \in DOMAIN ChunksOf[c]}
OnePerHash(c) ==
    {CHOOSE i \in DOMAIN ChunksOf[c] : ChunksOf[c][i] = t : t \in TextsOf(c)}

RowsOf(d) == {r \in chunks : r.doc = d}
StoredTexts(d) == {r.text : r \in RowsOf(d)}

\* The source a process is working on, and whether any process works on s.
WorksOn(w, s) == pc[w] # "idle" /\ task[w].source = s
Deletes(d, s) == del[d].pc # "idle" /\ del[d].source = s
Active(s) == (\E w \in Workers : WorksOn(w, s)) \/ (\E d \in Deleters : Deletes(d, s))

\* The bookkeeping of `solo' when process p begins on source s.
Enter(p, s) ==
    /\ solo' = (solo \ ({w \in Workers : WorksOn(w, s)} \cup {d \in Deleters : Deletes(d, s)}))
                 \cup (IF Active(s) THEN {} ELSE {p})
    /\ suspect' = IF Active(s) THEN suspect \cup {s} ELSE suspect
    /\ contended' = IF Active(s) THEN contended \cup {s} ELSE contended
    /\ UNCHANGED drift

\* A best-effort write of `wanted' reaches its store, or loses part of it.
BestEffort(wanted) == IF Lossy THEN SUBSET wanted ELSE {wanted}

Init ==
    /\ queue = {} /\ nextTask = 1 /\ settled = {}
    /\ docs = [s \in Sources |-> NoDoc]
    /\ chunks = {} /\ vespa = {} /\ graph = {} /\ version = 0
    /\ nextDoc = 1 /\ nextBatch = 1
    /\ pc = [w \in Workers |-> "idle"]
    /\ task = [w \in Workers |-> NoTask] /\ status = [w \in Workers |-> "none"]
    /\ docId = [w \in Workers |-> 0] /\ target = [w \in Workers |-> 0]
    /\ stale = [w \in Workers |-> {}] /\ embed = [w \in Workers |-> {}]
    /\ saved = [w \in Workers |-> {}]
    /\ del = [d \in Deleters |-> IdleDeletion]
    /\ crashes = 0 /\ errors = 0
    /\ suspect = {} /\ drift = {} /\ contended = {} /\ solo = {}

-----------------------------------------------------------------------------
(* The task queue around ingest_document *)

\* ingest_document_task.delay and its siblings: the broker accepts a task.
Submit ==
    /\ nextTask <= MaxTasks
    /\ \E u \in Submissions :
          queue' = queue \cup {[id |-> nextTask, source |-> u.source,
                                content |-> u.content, access |-> u.access, retries |-> 0]}
    /\ nextTask' = nextTask + 1
    /\ UNCHANGED <<settled, db, indexes, pc, locals, del, budget, ghost>>

\* A free worker receives a task; it stays unacknowledged while it runs.
Start(w) ==
    /\ pc[w] = "idle"
    /\ \E t \in queue :
          /\ queue' = queue \ {t}
          /\ task' = [task EXCEPT ![w] = t]
          /\ Enter(w, t.source)
    /\ pc' = [pc EXCEPT ![w] = "lookup"]
    /\ UNCHANGED <<nextTask, settled, db, indexes, status, docId, target, stale, embed, saved,
                   del, budget>>

\* The task raises before ingest_document's own try: the data layer cannot be
\* initialised, or the S3 object cannot be parsed. Celery retries it, up to max_retries
\* times, and then acknowledges it as failed. (A download that fails is returned as
\* "failed" without a retry: to the stores, a Raise at "lookup".)
Unready(w) ==
    /\ pc[w] = "idle"
    /\ errors < MaxErrors /\ errors' = errors + 1
    /\ \E t \in queue :
          \/ /\ t.retries < MaxRetries
             /\ queue' = (queue \ {t}) \cup {[t EXCEPT !.retries = @ + 1]}
             /\ UNCHANGED settled
          \/ /\ t.retries = MaxRetries
             /\ queue' = queue \ {t}
             /\ settled' = settled \cup {[task |-> t.id, status |-> "failed"]}
    /\ UNCHANGED <<nextTask, db, indexes, pc, locals, del, crashes, ghost>>

\* The worker is free again; the locals of its run are gone.
Free(w) ==
    /\ pc' = [pc EXCEPT ![w] = "idle"]
    /\ task' = [task EXCEPT ![w] = NoTask] /\ status' = [status EXCEPT ![w] = "none"]
    /\ docId' = [docId EXCEPT ![w] = 0] /\ target' = [target EXCEPT ![w] = 0]
    /\ stale' = [stale EXCEPT ![w] = {}] /\ embed' = [embed EXCEPT ![w] = {}]
    /\ saved' = [saved EXCEPT ![w] = {}]
    /\ solo' = solo \ {w}

\* The task function returned: acks_late acknowledges it only now.
Ack(w) ==
    /\ pc[w] = "ack"
    /\ settled' = settled \cup {[task |-> task[w].id, status |-> status[w]]}
    /\ Free(w)
    /\ UNCHANGED <<queue, nextTask, db, indexes, del, budget, suspect, drift, contended>>

\* What an interrupted run leaves behind. Torn: Postgres was changed but the
\* row's hash and its chunks do not belong together. Unindexed: Postgres was
\* changed and the matching Vespa or graph write has not happened.
Torn(w) ==
    \/ pc[w] \in {"vespaDelete", "save"}
    \/ pc[w] \in {"upsertRead", "upsertWrite"} /\ stale[w] # {}
Unindexed(w) == pc[w] \in {"vespaDelete", "graph", "feed"}
Interrupted(w) ==
    /\ suspect' = IF Torn(w) THEN suspect \cup {task[w].source} ELSE suspect
    /\ drift' = IF Unindexed(w) THEN drift \cup {task[w].source} ELSE drift

\* Mutant: the message was acknowledged on receipt and is not redelivered.
CrashLosesTask(w) ==
    /\ pc[w] # "idle"
    /\ crashes < MaxCrashes
    /\ crashes' = crashes + 1
    /\ Free(w)
    /\ Interrupted(w)
    /\ UNCHANGED <<queue, nextTask, settled, db, indexes, del, errors, contended>>

\* The worker process is lost; task_reject_on_worker_lost requeues its task.
Crash(w) ==
    /\ pc[w] # "idle"
    /\ crashes < MaxCrashes
    /\ crashes' = crashes + 1
    /\ queue' = queue \cup {task[w]}
    /\ Free(w)
    /\ Interrupted(w)
    /\ UNCHANGED <<nextTask, settled, db, indexes, del, errors, contended>>

\* ingest_document returns with status r.
Return(w, r) ==
    /\ pc' = [pc EXCEPT ![w] = "ack"]
    /\ status' = [status EXCEPT ![w] = r]

\* An exception reaches the handler of ingest_document, which catches them all
\* and returns status "failed"; Celery sees a task that succeeded and retries nothing.
Fail(w) == Return(w, "failed") /\ Interrupted(w)

\* An awaited call raises. It may raise after the server applied it, hence
\* "vespaDelete" and "graph".
Raise(w) ==
    /\ pc[w] \in {"lookup", "diff", "deleteStale", "vespaDelete", "upsertRead",
                  "upsertWrite", "save", "graph"}
    /\ errors < MaxErrors
    /\ errors' = errors + 1
    /\ Fail(w)
    /\ UNCHANGED <<broker, db, indexes, task, docId, target, stale, embed, saved, del, crashes,
                   contended, solo>>

-----------------------------------------------------------------------------
(* ingest_document, one action per call *)

\* Mutant: the row found for the source is ignored and every ingest is an insert.
LookupAlwaysInserts(w) ==
    /\ pc[w] = "lookup"
    /\ pc' = [pc EXCEPT ![w] = "upsertRead"]
    /\ status' = [status EXCEPT ![w] = "inserted"]
    /\ embed' = [embed EXCEPT ![w] = DOMAIN ChunksOf[task[w].content]]
    /\ UNCHANGED <<broker, db, indexes, task, docId, target, stale, saved, del, budget, ghost>>

\* get_document_by_source: unchanged (skip), changed (diff) or new document.
Lookup(w) ==
    LET t == task[w]  row == docs[t.source] IN
    /\ pc[w] = "lookup"
    /\ docId' = [docId EXCEPT ![w] = row.id]
    /\ \/ /\ row.id # 0 /\ row.hash = t.content
          /\ Return(w, "skipped")
          /\ UNCHANGED embed
       \/ /\ row.id # 0 /\ row.hash # t.content
          /\ pc' = [pc EXCEPT ![w] = "diff"]
          /\ status' = [status EXCEPT ![w] = "updated"]
          /\ UNCHANGED embed
       \/ /\ row.id = 0
          /\ pc' = [pc EXCEPT ![w] = "upsertRead"]
          /\ status' = [status EXCEPT ![w] = "inserted"]
          /\ embed' = [embed EXCEPT ![w] = DOMAIN ChunksOf[t.content]]
    /\ UNCHANGED <<broker, db, indexes, task, target, stale, saved, del, budget, ghost>>

\* The stale ids of the stored rows `old', and the positions to embed when the
\* texts in `known' are already stored.
StaleIds(old, c) == {r.id : r \in {o \in old : o.text \notin TextsOf(c)}}
ToEmbed(known, c) == {i \in OnePerHash(c) : ChunksOf[c][i] \notin known}

\* Mutant: the diff trusts the recorded version instead of reading the stored rows.
DiffAgainstRecord(w) ==
    LET c == task[w].content  old == RowsOf(docId[w]) IN
    /\ pc[w] = "diff"
    /\ stale' = [stale EXCEPT ![w] = StaleIds(old, c)]
    /\ embed' = [embed EXCEPT ![w] =
                   ToEmbed(UNION {TextsOf(h) : h \in {docs[task[w].source].hash} \ {NoTask}}, c)]
    /\ pc' = [pc EXCEPT ![w] = IF StaleIds(old, c) = {} THEN "upsertRead" ELSE "deleteStale"]
    /\ UNCHANGED <<broker, db, indexes, task, status, docId, target, saved, del, budget, ghost>>

\* Mutant: an update replaces all chunks instead of the stale ones.
DiffReplacesAll(w) ==
    LET c == task[w].content  old == RowsOf(docId[w]) IN
    /\ pc[w] = "diff"
    /\ stale' = [stale EXCEPT ![w] = {r.id : r \in old}]
    /\ embed' = [embed EXCEPT ![w] = OnePerHash(c)]
    /\ pc' = [pc EXCEPT ![w] = IF old = {} THEN "upsertRead" ELSE "deleteStale"]
    /\ UNCHANGED <<broker, db, indexes, task, status, docId, target, saved, del, budget, ghost>>

\* get_document_chunks and the chunk-level diff against the new version.
Diff(w) ==
    LET c == task[w].content  old == RowsOf(docId[w]) IN
    /\ pc[w] = "diff"
    /\ stale' = [stale EXCEPT ![w] = StaleIds(old, c)]
    /\ embed' = [embed EXCEPT ![w] = ToEmbed({r.text : r \in old}, c)]
    /\ pc' = [pc EXCEPT ![w] = IF StaleIds(old, c) = {} THEN "upsertRead" ELSE "deleteStale"]
    /\ UNCHANGED <<broker, db, indexes, task, status, docId, target, saved, del, budget, ghost>>

\* delete_chunks_by_ids in Postgres.
DeleteStale(w) ==
    /\ pc[w] = "deleteStale"
    /\ chunks' = {r \in chunks : r.id \notin stale[w]}
    /\ pc' = [pc EXCEPT ![w] = "vespaDelete"]
    /\ UNCHANGED <<broker, docs, nextDoc, nextBatch, indexes, locals, del, budget, ghost>>

\* vespa_client.delete_chunks, per id, errors swallowed.
VespaDelete(w) ==
    /\ pc[w] = "vespaDelete"
    /\ \E gone \in BestEffort(stale[w]) :
          /\ vespa' = {v \in vespa : v.id \notin gone}
          /\ drift' = IF gone = stale[w] THEN drift ELSE drift \cup {task[w].source}
    /\ pc' = [pc EXCEPT ![w] = "upsertRead"]
    /\ UNCHANGED <<broker, db, graph, version, locals, del, budget, suspect, contended, solo>>

\* upsert_document's own get_document_by_source.
UpsertRead(w) ==
    /\ pc[w] = "upsertRead"
    /\ target' = [target EXCEPT ![w] = docs[task[w].source].id]
    /\ pc' = [pc EXCEPT ![w] = "upsertWrite"]
    /\ UNCHANGED <<broker, db, indexes, task, status, docId, stale, embed, saved, del, budget,
                   ghost>>

\* upsert_document returned id d. The update path keeps the id of its own
\* lookup, and returns early when there is nothing to embed; a solo run then
\* leaves hash and chunks consistent, which clears the suspicion.
AfterUpsert(w, d) ==
    IF status[w] = "updated" /\ embed[w] = {}
    THEN /\ Return(w, "updated")
         /\ suspect' = IF w \in solo THEN suspect \ {task[w].source} ELSE suspect
         /\ UNCHANGED docId
    ELSE /\ pc' = [pc EXCEPT ![w] = "save"]
         /\ docId' = [docId EXCEPT ![w] = IF status[w] = "updated" THEN @ ELSE d]
         /\ UNCHANGED <<status, suspect>>

\* upsert_document, existing row: UPDATE ... WHERE id = target. The access
\* level is not written; no row with that id is not an error.
UpsertUpdate(w) ==
    LET t == task[w] IN
    /\ pc[w] = "upsertWrite"
    /\ target[w] # 0
    /\ docs' = [docs EXCEPT ![t.source] =
                  IF @.id = target[w] THEN [@ EXCEPT !.hash = t.content] ELSE @]
    /\ AfterUpsert(w, target[w])
    /\ UNCHANGED <<broker, chunks, nextDoc, nextBatch, indexes, task, target, stale, embed, saved,
                   del, budget, drift, contended, solo>>

\* upsert_document, no row: INSERT with a fresh uuid.
UpsertInsert(w) ==
    LET t == task[w] IN
    /\ pc[w] = "upsertWrite"
    /\ target[w] = 0
    /\ docs[t.source].id = 0
    /\ docs' = [docs EXCEPT ![t.source] =
                  [id |-> nextDoc, hash |-> t.content, access |-> t.access]]
    /\ nextDoc' = nextDoc + 1
    /\ AfterUpsert(w, nextDoc)
    /\ UNCHANGED <<broker, chunks, nextBatch, indexes, task, target, stale, embed, saved,
                   del, budget, drift, contended, solo>>

\* The INSERT raises when another process inserted the source meanwhile:
\* documents.source is unique.
UpsertConflict(w) ==
    /\ pc[w] = "upsertWrite"
    /\ target[w] = 0
    /\ docs[task[w].source].id # 0
    /\ Fail(w)
    /\ UNCHANGED <<broker, db, indexes, task, docId, target, stale, embed, saved, del, budget,
                   contended, solo>>

\* embed_chunks, then save_chunks: one bulk insert with fresh ids.
NewRows(w) ==
    {[id |-> <<nextBatch, i>>, doc |-> docId[w], text |-> ChunksOf[task[w].content][i]]
        : i \in embed[w]}
SaveChunks(w) ==
    /\ pc[w] = "save"
    /\ docs[task[w].source].id = docId[w] \/ embed[w] = {}
    /\ chunks' = chunks \cup NewRows(w)
    /\ saved' = [saved EXCEPT ![w] = NewRows(w)]
    /\ nextBatch' = nextBatch + 1
    /\ pc' = [pc EXCEPT ![w] = "graph"]
    /\ suspect' = IF w \in solo THEN suspect \ {task[w].source} ELSE suspect
    /\ UNCHANGED <<broker, docs, nextDoc, indexes, task, status, docId, target, stale, embed,
                   del, budget, drift, contended, solo>>

\* The foreign key on document_id makes save_chunks raise when the document is gone.
SaveOrphans(w) ==
    /\ pc[w] = "save"
    /\ docs[task[w].source].id # docId[w] /\ embed[w] # {}
    /\ Fail(w)
    /\ UNCHANGED <<broker, db, indexes, task, docId, target, stale, embed, saved, del, budget,
                   contended, solo>>

\* build_knowledge_graph for each saved chunk: MERGE, never raises.
BuildGraph(w) ==
    LET s == task[w].source
        nodes == {[source |-> s, text |-> r.text] : r \in saved[w]} IN
    /\ pc[w] = "graph"
    /\ \E written \in BestEffort(nodes) :
          /\ graph' = graph \cup written
          /\ drift' = IF written = nodes THEN drift ELSE drift \cup {s}
    /\ pc' = [pc EXCEPT ![w] = "feed"]
    /\ UNCHANGED <<broker, db, vespa, version, locals, del, budget, suspect, contended, solo>>

\* Mutant: Vespa documents get ids of their own instead of the saved rows' ids.
FeedFreshIds(w) ==
    LET t == task[w]
        puts == {[id |-> <<0, r.id[2]>>, doc |-> r.doc, text |-> r.text, source |-> t.source,
                  access |-> t.access] : r \in saved[w]} IN
    /\ pc[w] = "feed"
    /\ vespa' = {v \in vespa : \A p \in puts : p.id # v.id} \cup puts
    /\ pc' = [pc EXCEPT ![w] = "bump"]
    /\ UNCHANGED <<broker, db, graph, version, locals, del, budget, ghost>>

\* vespa_client.feed_chunks: a put per row (replacing by id), errors swallowed.
Feed(w) ==
    LET t == task[w]
        puts == {[id |-> r.id, doc |-> r.doc, text |-> r.text, source |-> t.source,
                  access |-> t.access] : r \in saved[w]} IN
    /\ pc[w] = "feed"
    /\ \E fed \in BestEffort(puts) :
          /\ vespa' = {v \in vespa : \A p \in fed : p.id # v.id} \cup fed
          /\ drift' = IF fed = puts THEN drift ELSE drift \cup {t.source}
    /\ pc' = [pc EXCEPT ![w] = "bump"]
    /\ UNCHANGED <<broker, db, graph, version, locals, del, budget, suspect, contended, solo>>

\* query_cache.bump_version (fail-open), then the final return, whose status
\* was settled by is_update.
Bump(w) ==
    /\ pc[w] = "bump"
    /\ \/ version' = version + 1
       \/ Lossy /\ UNCHANGED version
    /\ Return(w, status[w])
    /\ UNCHANGED <<broker, db, vespa, graph, task, docId, target, stale, embed, saved, del, budget,
                   ghost>>

-----------------------------------------------------------------------------
(* DELETE /documents/{id}: delete_document, one action per store *)

\* The endpoint finds the document (404 otherwise) and delete_document its source.
DeleteStart(d) ==
    /\ del[d].pc = "idle"
    /\ \E s \in Sources :
          /\ docs[s].id # 0
          /\ del' = [del EXCEPT ![d] = [pc |-> "graph", source |-> s, doc |-> docs[s].id]]
          /\ Enter(d, s)
    /\ UNCHANGED <<broker, db, indexes, pc, locals, budget>>

\* delete_graph_document: Chunk nodes of the source; errors swallowed.
DeleteGraph(d) ==
    LET nodes == {n \in graph : n.source = del[d].source} IN
    /\ del[d].pc = "graph"
    /\ \E gone \in {nodes} \cup (IF Lossy THEN {{}} ELSE {}) :
          /\ graph' = graph \ gone
          /\ drift' = IF gone = nodes THEN drift ELSE drift \cup {del[d].source}
    /\ del' = [del EXCEPT ![d].pc = "chunks"]
    /\ UNCHANGED <<broker, db, vespa, version, pc, locals, budget, suspect, contended, solo>>

\* delete_document_chunks.
DeleteChunks(d) ==
    /\ del[d].pc = "chunks"
    /\ chunks' = {r \in chunks : r.doc # del[d].doc}
    /\ del' = [del EXCEPT ![d].pc = "vespa"]
    /\ UNCHANGED <<broker, docs, nextDoc, nextBatch, indexes, pc, locals, budget, ghost>>

\* vespa_client.delete_by_document: a paged selection delete; an error ends it.
DeleteVespa(d) ==
    LET hits == {v \in vespa : v.doc = del[d].doc} IN
    /\ del[d].pc = "vespa"
    /\ \E gone \in BestEffort(hits) :
          /\ vespa' = vespa \ gone
          /\ drift' = IF gone = hits THEN drift ELSE drift \cup {del[d].source}
    /\ del' = [del EXCEPT ![d].pc = "row"]
    /\ UNCHANGED <<broker, db, graph, version, pc, locals, budget, suspect, contended, solo>>

\* DELETE FROM documents WHERE id = ...; chunk rows that appeared meanwhile
\* go with it if the foreign key cascades.
DeleteRow(d) ==
    LET s == del[d].source IN
    /\ del[d].pc = "row"
    /\ docs' = [docs EXCEPT ![s] = IF @.id = del[d].doc THEN NoDoc ELSE @]
    /\ chunks' = {r \in chunks : r.doc # del[d].doc}
    /\ del' = [del EXCEPT ![d] = IdleDeletion]
    /\ suspect' = IF d \in solo THEN suspect \ {s} ELSE suspect
    /\ solo' = solo \ {d}
    /\ UNCHANGED <<broker, nextDoc, nextBatch, indexes, pc, locals, budget, drift, contended>>

\* The deletion ends early: a call raised (HTTP 500), the API process died,
\* or the foreign key restricts deleting a row that has chunks again.
DeleteAbort(d) ==
    LET s == del[d].source IN
    /\ del[d].pc # "idle"
    /\ \/ errors < MaxErrors /\ errors' = errors + 1
       \/ del[d].pc = "row" /\ RowsOf(del[d].doc) # {} /\ UNCHANGED errors
    /\ del' = [del EXCEPT ![d] = IdleDeletion]
    /\ suspect' = IF del[d].pc \in {"vespa", "row"} THEN suspect \cup {s} ELSE suspect
    /\ drift' = IF del[d].pc \in {"chunks", "vespa"} THEN drift \cup {s} ELSE drift
    /\ solo' = solo \ {d}
    /\ UNCHANGED <<broker, db, indexes, pc, locals, crashes, contended>>

-----------------------------------------------------------------------------
Work(w) ==
    \/ Start(w) \/ Ack(w)
    \/ Lookup(w) \/ Diff(w) \/ DeleteStale(w) \/ VespaDelete(w)
    \/ UpsertRead(w) \/ UpsertUpdate(w) \/ UpsertInsert(w) \/ UpsertConflict(w)
    \/ SaveChunks(w) \/ SaveOrphans(w)
    \/ BuildGraph(w) \/ Feed(w) \/ Bump(w)

Delete(d) == DeleteGraph(d) \/ DeleteChunks(d) \/ DeleteVespa(d) \/ DeleteRow(d)

Next ==
    \/ Submit
    \/ \E w \in Workers : Work(w) \/ Crash(w) \/ Raise(w) \/ Unready(w)
    \/ \E d \in Deleters : DeleteStart(d) \/ Delete(d) \/ DeleteAbort(d)

Spec == Init /\ [][Next]_vars

\* A live worker keeps taking tasks and moving; an API request runs to its end.
Fairness ==
    /\ \A w \in Workers : WF_vars(Work(w))
    /\ \A d \in Deleters : WF_vars(Delete(d))
FairSpec == Spec /\ Fairness

-----------------------------------------------------------------------------
(* Properties *)

TypeOK ==
    /\ queue \subseteq Task /\ nextTask \in Nat
    /\ settled \subseteq [task : Nat, status : Status \ {"none"}]
    /\ docs \in [Sources -> DocRow]
    /\ chunks \subseteq Row /\ vespa \subseteq VespaRow /\ graph \subseteq Node
    /\ version \in Nat /\ nextDoc \in Nat \ {0} /\ nextBatch \in Nat
    /\ pc \in [Workers -> WorkerPc]
    /\ task \in [Workers -> Task \cup {NoTask}] /\ status \in [Workers -> Status]
    /\ docId \in [Workers -> Nat] /\ target \in [Workers -> Nat]
    /\ stale \in [Workers -> SUBSET ChunkId] /\ embed \in [Workers -> SUBSET Nat]
    /\ saved \in [Workers -> SUBSET Row]
    /\ del \in [Deleters -> Deletion]
    /\ crashes \in 0..MaxCrashes /\ errors \in 0..MaxErrors
    /\ suspect \subseteq Sources /\ drift \subseteq Sources /\ contended \subseteq Sources
    /\ solo \subseteq Workers \cup Deleters

\* The chunk rows of a source are exactly the chunks of the version its row records.
Exact(s) == docs[s].id # 0 => StoredTexts(docs[s].id) = TextsOf(docs[s].hash)

\* Whenever nothing works on a source, its chunk rows are exactly the chunks of
\* the version its documents row claims, unless its last writer was interrupted
\* between the two or shared the source with another process. One undisturbed
\* ingest of a different version repairs a source torn by an earlier crash,
\* because the diff of ingest_document compares with the rows really stored.
ConsistentAtRest == \A s \in Sources : ~Active(s) /\ s \notin suspect => Exact(s)

\* Whenever nothing works on a source whose index writes all succeeded and that
\* was never contended, Vespa holds exactly its chunk rows, under the same ids,
\* and every chunk row has its graph node: the shared ids of save_chunks keep
\* the stores together through inserts, diffs, deletions, retries and crashes.
IndexesInSync ==
    \A s \in Sources : ~Active(s) /\ s \notin drift \cup contended =>
        /\ {[id |-> v.id, doc |-> v.doc, text |-> v.text] : v \in {x \in vespa : x.source = s}}
             = IF docs[s].id = 0 THEN {} ELSE RowsOf(docs[s].id)
        /\ docs[s].id # 0 => \A r \in RowsOf(docs[s].id) : [source |-> s, text |-> r.text] \in graph

\* Redelivery and resubmission never store a chunk twice: two rows of one
\* document with the same text come from one save_chunks batch (a version that
\* repeats a text), on every source no two processes worked on at once.
NoDuplicateAcrossRuns ==
    \A s \in Sources \ contended : \A r1, r2 \in chunks :
        r1.doc = docs[s].id /\ r2.doc = docs[s].id /\ r1.text = r2.text => r1.id[1] = r2.id[1]

\* An ingest deletes a chunk row only if its text is absent from the version the
\* ingest brings ("keep chunks whose hash unchanged"), however stale its diff is.
KeptChunksUntouched ==
    [][\A r \in chunks \ chunks' :
          \/ \E d \in Deleters : del[d].pc # "idle" /\ del[d].doc = r.doc /\ del'[d] # del[d]
          \/ \E w \in Workers : /\ pc[w] = "deleteStale" /\ pc'[w] # pc[w]
                               /\ r.text \notin TextsOf(task[w].content)]_vars

\* Every submitted task is eventually acknowledged, through crashes and
\* redeliveries: acks_late with task_reject_on_worker_lost never loses one.
EveryTaskSettles ==
    \A n \in 1..MaxTasks : nextTask > n ~> \E r \in settled : r.task = n

Quiescent == queue = {} /\ \A s \in Sources : ~Active(s)

\* Claimed by "re-deliver if a worker dies mid-task": once all tasks are
\* acknowledged, every document has all the chunks of its recorded version.
NoMissingChunksAtRest ==
    Quiescent => \A s \in Sources : docs[s].id # 0 =>
        TextsOf(docs[s].hash) \subseteq StoredTexts(docs[s].id)

\* Claimed by "delete chunks that disappeared": once all tasks are acknowledged,
\* no document keeps a chunk its recorded version does not have.
NoStaleChunksAtRest ==
    Quiescent => \A s \in Sources : docs[s].id # 0 =>
        StoredTexts(docs[s].id) \subseteq TextsOf(docs[s].hash)

\* Claimed by "automatic retry/backoff on transient failures": one transient
\* error never makes a task end as failed.
TransientErrorIsRetried == \A r \in settled : r.status # "failed"

\* Claimed by "bump_version is called after each successful ingest": the step
\* that reports a document inserted or updated moves the cache version.
SuccessfulIngestBumps ==
    [][\A w \in Workers : pc[w] # "ack" /\ pc'[w] = "ack" /\ status'[w] \in {"inserted", "updated"}
                             => version' > version]_vars

=============================================================================
