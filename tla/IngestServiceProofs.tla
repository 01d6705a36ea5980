------------------------ MODULE IngestServiceProofs ------------------------
(***************************************************************************)
(* Type correctness of IngestService and its main safety properties, for   *)
(* any number of workers, deletions, sources, contents and chunks, and any *)
(* bounds. The invariant comes in layers, each inductive relative to the   *)
(* ones before it: types, ownership of ids, exclusivity of solo processes, *)
(* where each solo process stands, and what the indexes lack meanwhile.    *)
(***************************************************************************)
EXTENDS IngestService, TLAPS

-----------------------------------------------------------------------------
(* Types *)

\* An active process has a real task or source; the positions to embed exist;
\* before the lookup there is nothing to embed or delete, after it there is a result.
JobsOK ==
    /\ \A w \in Workers : pc[w] # "idle" =>
          task[w] \in Task /\ embed[w] \subseteq DOMAIN ChunksOf[task[w].content]
    /\ \A w \in Workers : pc[w] \notin {"idle", "lookup"} => status[w] # "none"
    /\ \A w \in Workers : pc[w] \in {"idle", "lookup"} =>
          embed[w] = {} /\ stale[w] = {} /\ docId[w] = 0 /\ target[w] = 0 /\ status[w] = "none"
    /\ \A d \in Deleters : del[d].pc # "idle" => del[d].source \in Sources
TypeInv == TypeOK /\ JobsOK

\* The records of an idle deletion and of an absent row are typed.
LEMMA IdleTyped == IdleDeletion \in Deletion /\ NoDoc \in DocRow
BY DEF IdleDeletion, Deletion, NoDoc, DocRow, Access

\* Types hold initially.
LEMMA TypeInit == Init => TypeInv
BY ConstantsAssumption, IdleTyped
   DEF Init, TypeInv, TypeOK, JobsOK, IdleDeletion, WorkerPc, Status

\* The positions the diff and the insert path choose are positions of the version.
LEMMA EmbedTyped ==
  ASSUME NEW c \in Contents, NEW K
  PROVE  /\ ToEmbed(K, c) \subseteq DOMAIN ChunksOf[c]
         /\ DOMAIN ChunksOf[c] \subseteq Nat
<1>1. OnePerHash(c) \subseteq DOMAIN ChunksOf[c]
  BY DEF OnePerHash, TextsOf
<1>2. ChunksOf[c] \in Seq(Texts)
  BY ConstantsAssumption
<1> QED
  BY <1>1, <1>2 DEF ToEmbed

\* What the end of upsert_document does to w's locals.
AfterTyped(w, d) ==
    /\ pc' \in [Workers -> WorkerPc] /\ status' \in [Workers -> Status]
    /\ docId' \in [Workers -> Nat] /\ suspect' \subseteq Sources
    /\ \A u \in Workers : pc'[u] = pc[u] \/ u = w
    /\ \A u \in Workers : u # w => status'[u] = status[u] /\ docId'[u] = docId[u]
    /\ pc[w] = "upsertWrite" /\ pc'[w] \in {"ack", "save"}
    /\ status'[w] = status[w] /\ status'[w] # "none"
    /\ docId'[w] = IF status[w] = "updated" THEN docId[w] ELSE d

\* AfterUpsert, on either branch, has the effect AfterTyped describes.
LEMMA AfterUpsertTyped ==
  ASSUME TypeInv, NEW w \in Workers, NEW d \in Nat, AfterUpsert(w, d), pc[w] = "upsertWrite"
  PROVE  AfterTyped(w, d)
<1>1. CASE status[w] = "updated" /\ embed[w] = {}
  BY <1>1 DEF AfterUpsert, AfterTyped, Return, TypeInv, TypeOK, JobsOK, WorkerPc, Status
<1>2. CASE ~(status[w] = "updated" /\ embed[w] = {})
  BY <1>2 DEF AfterUpsert, AfterTyped, TypeInv, TypeOK, JobsOK, WorkerPc
<1> QED
  BY <1>1, <1>2

\* A running deletion that goes on to its next step keeps its source and document.
LEMMA NextOfDeletionTyped ==
    ASSUME del \in [Deleters -> Deletion],
           \A e \in Deleters : del[e].pc # "idle" => del[e].source \in Sources,
           NEW d \in Deleters, NEW x \in {"graph", "chunks", "vespa", "row"},
           del[d].pc # "idle", del' = [del EXCEPT ![d].pc = x]
    PROVE  /\ del' \in [Deleters -> Deletion]
           /\ \A e \in Deleters : del'[e].pc # "idle" => del'[e].source \in Sources
<1> DEFINE r == [del[d] EXCEPT !.pc = x]
<1>1. del[d] \in Deletion
  OBVIOUS
<1>2. r \in Deletion /\ r.source = del[d].source
  BY <1>1 DEF Deletion
<1>3. del' = [del EXCEPT ![d] = r]
  OBVIOUS
<1> HIDE DEF r
<1>4. del' \in [Deleters -> Deletion]
  BY <1>2, <1>3
<1>5. \A e \in Deleters : IF e = d THEN del'[e] = r ELSE del'[e] = del[e]
  BY <1>3
<1> QED
  BY <1>2, <1>4, <1>5

\* Every action of workers, deletions and broker keeps the types.
LEMMA TypeStep == TypeInv /\ [Next]_vars => TypeInv'
<1> USE ConstantsAssumption
<1> SUFFICES ASSUME TypeInv, [Next]_vars PROVE TypeInv'
  OBVIOUS
<1> USE DEF broker, db, indexes, locals, budget, ghost
<1>0. /\ \A w \in Workers : pc[w] # "idle" =>
            /\ task[w] \in Task /\ task[w].source \in Sources /\ task[w].id \in Nat
            /\ task[w].content \in Contents /\ task[w].access \in Access
            /\ embed[w] \subseteq DOMAIN ChunksOf[task[w].content]
      /\ \A d \in Deleters : del[d] \in Deletion
      /\ \A d \in Deleters : del[d].pc # "idle" => del[d].source \in Sources
      /\ \A s \in Sources : docs[s] \in DocRow /\ docs[s].id \in Nat
  BY DEF TypeInv, TypeOK, JobsOK, Task, DocRow
<1>1. CASE Submit
  BY <1>0, <1>1 DEF Submit, Task, TypeInv, TypeOK, JobsOK
<1>2. ASSUME NEW w \in Workers, Start(w) PROVE TypeInv'
  <2> PICK t \in queue : /\ queue' = queue \ {t} /\ task' = [task EXCEPT ![w] = t]
                         /\ Enter(w, t.source)
    BY <1>2 DEF Start
  <2>1. t \in Task /\ t.source \in Sources /\ t.content \in Contents
    BY DEF Task, TypeInv, TypeOK
  <2>2. queue' \subseteq Task /\ task' \in [Workers -> Task \cup {NoTask}] /\ pc' \in [Workers -> WorkerPc]
    BY <1>2, <2>1 DEF Start, WorkerPc, TypeInv, TypeOK
  <2>3. /\ suspect' \subseteq Sources /\ drift' \subseteq Sources /\ contended' \subseteq Sources
        /\ solo' \subseteq Workers \cup Deleters
    BY <2>1 DEF Enter, TypeInv, TypeOK
  <2>4. embed'[w] \subseteq DOMAIN ChunksOf[t.content]
    BY <1>2 DEF Start, TypeInv, JobsOK
  <2>5. JobsOK'
    BY <1>0, <1>2, <2>1, <2>4 DEF Start, TypeInv, TypeOK, JobsOK
  <2> QED
    BY <1>2, <2>2, <2>3, <2>5 DEF Start, TypeInv, TypeOK
<1>3. ASSUME NEW w \in Workers, Ack(w) PROVE TypeInv'
  BY <1>0, <1>3 DEF Ack, Free, WorkerPc, Status, TypeInv, TypeOK, JobsOK
<1>4. ASSUME NEW w \in Workers, Crash(w) PROVE TypeInv'
  BY <1>0, <1>4 DEF Crash, Free, Interrupted, WorkerPc, Status, TypeInv, TypeOK, JobsOK
<1>5. ASSUME NEW w \in Workers, Raise(w) PROVE TypeInv'
  BY <1>0, <1>5 DEF Raise, Fail, Return, Interrupted, WorkerPc, Status, TypeInv, TypeOK, JobsOK
<1>6. ASSUME NEW w \in Workers, Lookup(w) PROVE TypeInv'
  <2>1. docId' \in [Workers -> Nat]
    BY <1>0, <1>6 DEF Lookup, TypeInv, TypeOK
  <2>2. CASE Return(w, "skipped") /\ UNCHANGED embed
    BY <1>0, <1>6, <2>1, <2>2 DEF Lookup, Return, WorkerPc, Status, TypeInv, TypeOK, JobsOK
  <2>3. CASE pc'[w] = "diff" /\ UNCHANGED embed
    <3>1. pc' = [pc EXCEPT ![w] = "diff"] /\ status' = [status EXCEPT ![w] = "updated"]
      BY <1>6, <2>3 DEF Lookup, Return, TypeInv, TypeOK
    <3>2. UNCHANGED <<broker, db, indexes, task, target, stale, embed, saved, del, budget, ghost>>
      BY <1>6, <2>3 DEF Lookup
    <3>3. pc' \in [Workers -> WorkerPc] /\ status' \in [Workers -> Status]
      BY <3>1 DEF WorkerPc, Status, TypeInv, TypeOK
    <3>4. pc[w] = "lookup" /\ pc'[w] = "diff" /\ \A u \in Workers : u # w => pc'[u] = pc[u] /\ status'[u] = status[u]
      BY <1>6, <3>1 DEF Lookup, TypeInv, TypeOK
    <3>5. JobsOK'
      BY <1>0, <1>6, <3>1, <3>2, <3>4 DEF Lookup, TypeInv, TypeOK, JobsOK
    <3> QED
      BY <2>1, <3>2, <3>3, <3>5 DEF TypeInv, TypeOK
  <2>4. CASE pc'[w] = "upsertRead"
    <3>1. /\ pc' = [pc EXCEPT ![w] = "upsertRead"] /\ status' = [status EXCEPT ![w] = "inserted"]
          /\ embed' = [embed EXCEPT ![w] = DOMAIN ChunksOf[task[w].content]]
      BY <1>6, <2>4 DEF Lookup, Return, TypeInv, TypeOK
    <3>2. DOMAIN ChunksOf[task[w].content] \subseteq Nat
      BY <1>0, <1>6, EmbedTyped DEF Lookup
    <3> QED
      BY <1>0, <1>6, <2>1, <3>1, <3>2 DEF Lookup, WorkerPc, Status, TypeInv, TypeOK, JobsOK
  <2> QED
    BY <1>6, <2>2, <2>3, <2>4 DEF Lookup, TypeInv, TypeOK
<1>7. ASSUME NEW w \in Workers, Diff(w) PROVE TypeInv'
  <2> DEFINE c == task[w].content
             ids == StaleIds(RowsOf(docId[w]), c)
             new == ToEmbed({r.text : r \in RowsOf(docId[w])}, c)
  <2>1. pc[w] = "diff" /\ c \in Contents
    BY <1>0, <1>7 DEF Diff
  <2>2. ids \in SUBSET ChunkId
    BY DEF StaleIds, RowsOf, Row, TypeInv, TypeOK
  <2>3. new \subseteq DOMAIN ChunksOf[c] /\ new \in SUBSET Nat
    BY <2>1, EmbedTyped
  <2>4. /\ stale' = [stale EXCEPT ![w] = ids] /\ embed' = [embed EXCEPT ![w] = new]
        /\ pc' = [pc EXCEPT ![w] = IF ids = {} THEN "upsertRead" ELSE "deleteStale"]
    BY <1>7 DEF Diff
  <2> HIDE DEF ids, new
  <2>5. /\ stale' \in [Workers -> SUBSET ChunkId] /\ embed' \in [Workers -> SUBSET Nat]
        /\ pc' \in [Workers -> WorkerPc]
    BY <2>2, <2>3, <2>4 DEF WorkerPc, TypeInv, TypeOK
  <2>6. JobsOK'
    <3>1. /\ \A u \in Workers : u # w => pc'[u] = pc[u] /\ embed'[u] = embed[u] /\ stale'[u] = stale[u]
          /\ pc'[w] \in {"upsertRead", "deleteStale"} /\ embed'[w] = new
      BY <2>4 DEF TypeInv, TypeOK
    <3>2. UNCHANGED <<task, status, docId, target, del>>
      BY <1>7 DEF Diff
    <3> QED
      BY <2>1, <2>3, <3>1, <3>2 DEF TypeInv, JobsOK
  <2> QED
    BY <1>7, <2>5, <2>6 DEF Diff, TypeInv, TypeOK
<1>8. ASSUME NEW w \in Workers, DeleteStale(w) PROVE TypeInv'
  BY <1>0, <1>8 DEF DeleteStale, WorkerPc, Status, TypeInv, TypeOK, JobsOK
<1>9. ASSUME NEW w \in Workers, VespaDelete(w) PROVE TypeInv'
  BY <1>0, <1>9 DEF VespaDelete, WorkerPc, Status, TypeInv, TypeOK, JobsOK
<1>10. ASSUME NEW w \in Workers, UpsertRead(w) PROVE TypeInv'
  BY <1>0, <1>10 DEF UpsertRead, WorkerPc, Status, TypeInv, TypeOK, JobsOK
<1>11. ASSUME NEW w \in Workers, UpsertUpdate(w) PROVE TypeInv'
  <2>1. docs' \in [Sources -> DocRow] /\ nextDoc' \in Nat \ {0}
    <3> DEFINE s == task[w].source
               row == IF docs[s].id = target[w] THEN [docs[s] EXCEPT !.hash = task[w].content] ELSE docs[s]
    <3>1. pc[w] = "upsertWrite" /\ docs' = [docs EXCEPT ![s] = row] /\ nextDoc' = nextDoc
      BY <1>11 DEF UpsertUpdate
    <3>2. s \in Sources /\ task[w].content \in Contents /\ docs[s] \in DocRow
      BY <1>0, <3>1
    <3>3. row \in DocRow
      BY <3>2 DEF DocRow
    <3> HIDE DEF row, s
    <3>4. docs \in [Sources -> DocRow] /\ nextDoc \in Nat \ {0}
      BY DEF TypeInv, TypeOK
    <3> QED
      BY <3>1, <3>3, <3>4
  <2>2. AfterUpsert(w, target[w]) /\ target[w] \in Nat /\ pc[w] = "upsertWrite"
    BY <1>11 DEF UpsertUpdate, TypeInv, TypeOK
  <2>3. AfterTyped(w, target[w])
    BY <2>2, AfterUpsertTyped
  <2>4. JobsOK'
    BY <1>11, <2>3 DEF UpsertUpdate, AfterTyped, TypeInv, JobsOK
  <2> QED
    BY <1>11, <2>1, <2>3, <2>4 DEF UpsertUpdate, AfterTyped, TypeInv, TypeOK
<1>12. ASSUME NEW w \in Workers, UpsertInsert(w) PROVE TypeInv'
  <2>1. docs' \in [Sources -> DocRow] /\ nextDoc' \in Nat \ {0}
    BY <1>0, <1>12 DEF UpsertInsert, DocRow, TypeInv, TypeOK
  <2>2. AfterUpsert(w, nextDoc) /\ nextDoc \in Nat /\ pc[w] = "upsertWrite"
    BY <1>12 DEF UpsertInsert, TypeInv, TypeOK
  <2>3. AfterTyped(w, nextDoc)
    BY <2>2, AfterUpsertTyped
  <2>4. JobsOK'
    BY <1>12, <2>3 DEF UpsertInsert, AfterTyped, TypeInv, JobsOK
  <2> QED
    BY <1>12, <2>1, <2>3, <2>4 DEF UpsertInsert, AfterTyped, TypeInv, TypeOK
<1>13. ASSUME NEW w \in Workers, UpsertConflict(w) PROVE TypeInv'
  BY <1>0, <1>13 DEF UpsertConflict, Fail, Return, Interrupted, WorkerPc, Status, TypeInv, TypeOK, JobsOK
<1>14. ASSUME NEW w \in Workers, SaveChunks(w) PROVE TypeInv'
  <2>1. embed[w] \subseteq Nat /\ \A i \in embed[w] : ChunksOf[task[w].content][i] \in Texts
    BY <1>0, <1>14, EmbedTyped DEF SaveChunks, TypeInv, TypeOK
  <2>2. NewRows(w) \in SUBSET Row
    BY <2>1 DEF NewRows, Row, ChunkId, TypeInv, TypeOK
  <2>3. chunks' \subseteq Row /\ saved' \in [Workers -> SUBSET Row] /\ nextBatch' \in Nat
    BY <1>14, <2>2 DEF SaveChunks, TypeInv, TypeOK
  <2>4. pc' \in [Workers -> WorkerPc] /\ suspect' \subseteq Sources /\ JobsOK'
    BY <1>14 DEF SaveChunks, WorkerPc, Status, TypeInv, TypeOK, JobsOK
  <2> QED
    BY <1>14, <2>3, <2>4 DEF SaveChunks, TypeInv, TypeOK
<1>15. ASSUME NEW w \in Workers, SaveOrphans(w) PROVE TypeInv'
  BY <1>0, <1>15 DEF SaveOrphans, Fail, Return, Interrupted, WorkerPc, Status, TypeInv, TypeOK, JobsOK
<1>16. ASSUME NEW w \in Workers, BuildGraph(w) PROVE TypeInv'
  BY <1>0, <1>16 DEF BuildGraph, BestEffort, Node, Row, WorkerPc, Status, TypeInv, TypeOK, JobsOK
<1>17. ASSUME NEW w \in Workers, Feed(w) PROVE TypeInv'
  <2> DEFINE puts == {[id |-> r.id, doc |-> r.doc, text |-> r.text, source |-> task[w].source,
                        access |-> task[w].access] : r \in saved[w]}
  <2>1. puts \subseteq VespaRow
    BY <1>0, <1>17 DEF Feed, VespaRow, Row, TypeInv, TypeOK
  <2>2. \E fed \in BestEffort(puts) :
          /\ vespa' = {v \in vespa : \A p \in fed : p.id # v.id} \cup fed
          /\ drift' = IF fed = puts THEN drift ELSE drift \cup {task[w].source}
    BY <1>17 DEF Feed
  <2> HIDE DEF puts
  <2>3. vespa' \subseteq VespaRow /\ drift' \subseteq Sources
    BY <1>0, <1>17, <2>1, <2>2 DEF Feed, BestEffort, TypeInv, TypeOK
  <2> QED
    BY <1>0, <1>17, <2>3 DEF Feed, WorkerPc, Status, TypeInv, TypeOK, JobsOK
<1>18. ASSUME NEW w \in Workers, Bump(w) PROVE TypeInv'
  BY <1>0, <1>18 DEF Bump, Return, WorkerPc, Status, TypeInv, TypeOK, JobsOK
<1>19. ASSUME NEW d \in Deleters, DeleteStart(d) PROVE TypeInv'
  BY <1>0, <1>19 DEF DeleteStart, Enter, Deletion, DocRow, TypeInv, TypeOK, JobsOK
<1>20. ASSUME NEW d \in Deleters, DeleteGraph(d) PROVE TypeInv'
  <2>1. /\ del' \in [Deleters -> Deletion]
        /\ \A e \in Deleters : del'[e].pc # "idle" => del'[e].source \in Sources
    <3>1. del[d].pc = "graph" /\ del' = [del EXCEPT ![d].pc = "chunks"]
      BY <1>20 DEF DeleteGraph
    <3>2. del \in [Deleters -> Deletion]
      BY DEF TypeInv, TypeOK
    <3> QED
      BY <1>0, <3>1, <3>2, NextOfDeletionTyped
  <2>2. graph' \subseteq Node /\ drift' \subseteq Sources
    BY <1>0, <1>20 DEF DeleteGraph, TypeInv, TypeOK
  <2> QED
    BY <1>20, <2>1, <2>2 DEF DeleteGraph, TypeInv, TypeOK, JobsOK
<1>21. ASSUME NEW d \in Deleters, DeleteChunks(d) PROVE TypeInv'
  <2>1. /\ del' \in [Deleters -> Deletion]
        /\ \A e \in Deleters : del'[e].pc # "idle" => del'[e].source \in Sources
    <3>1. del[d].pc = "chunks" /\ del' = [del EXCEPT ![d].pc = "vespa"]
      BY <1>21 DEF DeleteChunks
    <3>2. del \in [Deleters -> Deletion]
      BY DEF TypeInv, TypeOK
    <3> QED
      BY <1>0, <3>1, <3>2, NextOfDeletionTyped
  <2>2. chunks' \subseteq Row
    BY <1>0, <1>21 DEF DeleteChunks, TypeInv, TypeOK
  <2> QED
    BY <1>21, <2>1, <2>2 DEF DeleteChunks, TypeInv, TypeOK, JobsOK
<1>22. ASSUME NEW d \in Deleters, DeleteVespa(d) PROVE TypeInv'
  <2>1. /\ del' \in [Deleters -> Deletion]
        /\ \A e \in Deleters : del'[e].pc # "idle" => del'[e].source \in Sources
    <3>1. del[d].pc = "vespa" /\ del' = [del EXCEPT ![d].pc = "row"]
      BY <1>22 DEF DeleteVespa
    <3>2. del \in [Deleters -> Deletion]
      BY DEF TypeInv, TypeOK
    <3> QED
      BY <1>0, <3>1, <3>2, NextOfDeletionTyped
  <2>2. vespa' \subseteq VespaRow /\ drift' \subseteq Sources
    BY <1>0, <1>22 DEF DeleteVespa, TypeInv, TypeOK
  <2> QED
    BY <1>22, <2>1, <2>2 DEF DeleteVespa, TypeInv, TypeOK, JobsOK
<1>23. ASSUME NEW d \in Deleters, DeleteRow(d) PROVE TypeInv'
  BY <1>0, <1>23, IdleTyped DEF DeleteRow, IdleDeletion, TypeInv, TypeOK, JobsOK
<1>24. ASSUME NEW d \in Deleters, DeleteAbort(d) PROVE TypeInv'
  BY <1>0, <1>24, IdleTyped DEF DeleteAbort, IdleDeletion, TypeInv, TypeOK, JobsOK
<1>26. ASSUME NEW w \in Workers, Unready(w) PROVE TypeInv'
  <2> PICK t \in queue :
        \/ queue' = (queue \ {t}) \cup {[t EXCEPT !.retries = @ + 1]} /\ settled' = settled
        \/ queue' = queue \ {t} /\ settled' = settled \cup {[task |-> t.id, status |-> "failed"]}
    BY <1>26 DEF Unready
  <2>1. t \in Task /\ t.id \in Nat /\ t.retries \in Nat
    BY DEF Task, TypeInv, TypeOK
  <2>2. [t EXCEPT !.retries = @ + 1] \in Task
    BY <2>1 DEF Task
  <2>3. queue' \subseteq Task
    BY <2>2 DEF TypeInv, TypeOK
  <2>4. settled' \subseteq [task : Nat, status : Status \ {"none"}]
    BY <2>1 DEF TypeInv, TypeOK, Status
  <2>5. errors' \in 0..MaxErrors
    BY <1>26 DEF Unready, TypeInv, TypeOK
  <2> QED
    BY <1>26, <2>3, <2>4, <2>5 DEF Unready, TypeInv, TypeOK, JobsOK
<1>25. CASE UNCHANGED vars
  BY <1>25 DEF vars, TypeInv, TypeOK, JobsOK
<1> QED
  BY <1>1, <1>2, <1>3, <1>4, <1>5, <1>6, <1>7, <1>8, <1>9, <1>10, <1>11, <1>12, <1>13, <1>14, <1>15, <1>16, <1>17, <1>18, <1>19, <1>20, <1>21, <1>22, <1>23, <1>24, <1>25, <1>26
     DEF Next, Work, Delete

\* The tables, the indexes, the queue and every process's locals keep their types
\* in every reachable state.
THEOREM TypeCorrect == Spec => []TypeOK
<1>1. TypeInv => TypeOK
  BY DEF TypeInv
<1> QED
  BY <1>1, TypeInit, TypeStep, PTL DEF Spec

-----------------------------------------------------------------------------
(* The inductive invariant *)

\* Identifiers handed out so far are below the counters; rows belong to a
\* document, chunk ids are unique, no two sources share a document id.
IdsOK ==
    /\ \A s \in Sources : docs[s].id < nextDoc
    /\ \A s1, s2 \in Sources : s1 # s2 /\ docs[s1].id = docs[s2].id => docs[s1].id = 0
    /\ \A r \in chunks : r.doc # 0 /\ r.doc < nextDoc /\ r.id[1] < nextBatch
    /\ \A r1, r2 \in chunks : r1.id = r2.id => r1 = r2

\* The ids a process holds belong to its own source, and its stale ids to rows
\* of its document that its version does not have; an insert has no stale ids and a run about to save has a document.
WorkersOwn ==
    \A w \in Workers : pc[w] # "idle" =>
        /\ docId[w] < nextDoc /\ target[w] < nextDoc
        /\ \A s \in Sources : s # task[w].source /\ docs[s].id # 0 =>
              docs[s].id # docId[w] /\ docs[s].id # target[w]
        /\ \A i \in stale[w] : i[1] < nextBatch
        /\ \A r \in chunks : r.id \in stale[w] =>
              r.doc = docId[w] /\ r.text \notin TextsOf(task[w].content)
        /\ status[w] = "inserted" => stale[w] = {}
        /\ status[w] = "updated" => docId[w] # 0
        /\ pc[w] = "save" => docId[w] # 0
        /\ pc[w] \in {"diff", "deleteStale", "vespaDelete"} => status[w] = "updated"
        /\ pc[w] \notin {"idle", "lookup", "ack"} => status[w] \in {"inserted", "updated"}
DeletersOwn ==
    \A d \in Deleters : del[d].pc # "idle" =>
        /\ del[d].doc # 0 /\ del[d].doc < nextDoc
        /\ \A s \in Sources : s # del[d].source /\ docs[s].id # 0 => docs[s].id # del[d].doc
OwnInv == IdsOK /\ WorkersOwn /\ DeletersOwn

\* A solo process is active and alone on its source; a process that is not
\* solo works on a suspect and contended source.
SoloInv ==
    /\ \A w \in Workers : w \in solo => pc[w] # "idle"
    /\ \A d \in Deleters : d \in solo => del[d].pc # "idle"
    /\ \A w \in Workers : pc[w] # "idle" /\ w \notin solo => task[w].source \in suspect
    /\ \A d \in Deleters : del[d].pc # "idle" /\ d \notin solo => del[d].source \in suspect
    /\ \A w \in Workers : pc[w] # "idle" /\ w \notin solo => task[w].source \in contended
    /\ \A d \in Deleters : del[d].pc # "idle" /\ d \notin solo => del[d].source \in contended
    /\ \A v, w \in Workers : v # w /\ v \in solo /\ pc[w] # "idle" => task[v].source # task[w].source
    /\ \A d, e \in Deleters : d # e /\ d \in solo /\ del[e].pc # "idle" => del[d].source # del[e].source
    /\ \A w \in Workers, d \in Deleters :
          pc[w] # "idle" /\ del[d].pc # "idle" /\ (w \in solo \/ d \in solo)
             => task[w].source # del[d].source

\* Exact, in quantified form; a source is sound if it is Exact or suspect.
Matches(s) ==
    docs[s].id # 0 =>
        /\ \A r \in chunks : r.doc = docs[s].id => r.text \in TextsOf(docs[s].hash)
        /\ \A t \in TextsOf(docs[s].hash) : \E r \in chunks : r.doc = docs[s].id /\ r.text = t
Sound(s) == s \in suspect \/ Matches(s)

\* The rows of source s are chunks of the version c, and what is missing of c is
\* about to be embedded by w.
NothingStale(s, c) == \A r \in chunks : r.doc = docs[s].id => r.text \in TextsOf(c)
Covered(w, s, c) ==
    \A t \in TextsOf(c) :
        \/ \E r \in chunks : r.doc = docs[s].id /\ r.text = t
        \/ \E i \in embed[w] : ChunksOf[c][i] = t

\* Where a solo ingest w of version c of source s stands.
WorkerPhase(w, s, c) ==
    /\ pc[w] \in {"lookup", "diff", "deleteStale", "graph", "feed", "bump", "ack"} => Sound(s)
    /\ pc[w] \in {"upsertRead", "upsertWrite"} /\ stale[w] = {} => Sound(s)
    /\ pc[w] \in {"diff", "deleteStale", "vespaDelete", "upsertRead", "upsertWrite", "save"}
         => docs[s].id = docId[w]
    /\ pc[w] \in {"deleteStale", "vespaDelete"} => stale[w] # {}
    /\ pc[w] = "deleteStale" =>
         \A r \in chunks : r.doc = docs[s].id => (r.id \in stale[w] <=> r.text \notin TextsOf(c))
    /\ pc[w] \in {"vespaDelete", "upsertRead", "upsertWrite", "save"} => NothingStale(s, c)
    /\ pc[w] \in {"deleteStale", "vespaDelete", "upsertRead", "upsertWrite", "save"}
         => Covered(w, s, c)
    /\ pc[w] = "upsertWrite" => target[w] = docId[w]
    /\ pc[w] = "save" => docs[s].hash = c

\* Where a solo deletion of source s stands.
DeleterPhase(d, s) ==
    /\ docs[s].id = del[d].doc
    /\ del[d].pc \in {"graph", "chunks"} => Sound(s)

PhaseInv ==
    /\ \A w \in Workers, s \in Sources, c \in Contents :
          w \in solo /\ task[w].source = s /\ task[w].content = c => WorkerPhase(w, s, c)
    /\ \A d \in Deleters, s \in Sources : d \in solo /\ del[d].source = s => DeleterPhase(d, s)
    /\ \A s \in Sources : ~Active(s) => Sound(s)

Inv == TypeInv /\ OwnInv /\ SoloInv /\ PhaseInv

-----------------------------------------------------------------------------
(* Ownership *)

\* No ids have been handed out initially.
LEMMA OwnInit == Init => OwnInv
BY DEF Init, OwnInv, IdsOK, WorkersOwn, DeletersOwn, NoDoc, IdleDeletion

\* Every step keeps the ids each process and table row holds its own.
LEMMA OwnStep == TypeInv /\ TypeInv' /\ OwnInv /\ [Next]_vars => OwnInv'
<1> SUFFICES ASSUME TypeInv, TypeInv', OwnInv, [Next]_vars PROVE OwnInv'
  OBVIOUS
<1> USE DEF broker, db, indexes, locals, budget, ghost
<1>0. /\ pc \in [Workers -> WorkerPc] /\ task \in [Workers -> Task \cup {NoTask}]
      /\ status \in [Workers -> Status] /\ docId \in [Workers -> Nat] /\ target \in [Workers -> Nat]
      /\ stale \in [Workers -> SUBSET ChunkId] /\ embed \in [Workers -> SUBSET Nat]
      /\ del \in [Deleters -> Deletion] /\ docs \in [Sources -> DocRow] /\ chunks \subseteq Row
      /\ nextDoc \in Nat /\ nextDoc # 0 /\ nextBatch \in Nat
      /\ \A u \in Workers : pc[u] # "idle" =>
            task[u] \in Task /\ task[u].source \in Sources /\ task[u].content \in Contents
      /\ \A u \in Workers : pc[u] \in {"idle", "lookup"} =>
            stale[u] = {} /\ embed[u] = {} /\ docId[u] = 0 /\ target[u] = 0 /\ status[u] = "none"
      /\ \A s \in Sources : docs[s].id \in Nat
  BY DEF TypeInv, TypeOK, JobsOK, Task, DocRow
<1>1. CASE Submit
  BY <1>0, <1>1 DEF Submit, Task, OwnInv, IdsOK, WorkersOwn, DeletersOwn
<1>2. ASSUME NEW w \in Workers, Start(w) PROVE OwnInv'
  BY <1>0, <1>2 DEF Start, Enter, OwnInv, IdsOK, WorkersOwn, DeletersOwn
<1>3. ASSUME NEW w \in Workers, Ack(w) PROVE OwnInv'
  BY <1>0, <1>3 DEF Ack, Free, OwnInv, IdsOK, WorkersOwn, DeletersOwn
<1>4. ASSUME NEW w \in Workers, Crash(w) PROVE OwnInv'
  BY <1>0, <1>4 DEF Crash, Free, Interrupted, OwnInv, IdsOK, WorkersOwn, DeletersOwn
<1>5. ASSUME NEW w \in Workers, Raise(w) PROVE OwnInv'
  BY <1>0, <1>5 DEF Raise, Fail, Return, Interrupted, OwnInv, IdsOK, WorkersOwn, DeletersOwn
<1>6. ASSUME NEW w \in Workers, Lookup(w) PROVE OwnInv'
  <2> DEFINE s == task[w].source
  <2>1. /\ UNCHANGED <<docs, chunks, nextDoc, nextBatch, task, target, stale, del>>
        /\ pc[w] = "lookup" /\ docId' = [docId EXCEPT ![w] = docs[s].id]
    BY <1>6 DEF Lookup
  <2>2. /\ \A u \in Workers : u # w => pc'[u] = pc[u] /\ status'[u] = status[u] /\ docId'[u] = docId[u]
        /\ docId'[w] = docs[s].id /\ stale[w] = {} /\ target[w] = 0 /\ s \in Sources
    BY <1>0, <1>6, <2>1 DEF Lookup, Return
  <2>3. \/ pc'[w] = "ack" /\ status'[w] = "skipped"
        \/ pc'[w] = "diff" /\ status'[w] = "updated" /\ docs[s].id # 0
        \/ pc'[w] = "upsertRead" /\ status'[w] = "inserted"
    BY <1>0, <1>6 DEF Lookup, Return
  <2>4. IdsOK' /\ DeletersOwn'
    BY <2>1 DEF OwnInv, IdsOK, DeletersOwn
  <2> HIDE DEF s
  <2>5. WorkersOwn'
    BY <1>0, <2>1, <2>2, <2>3 DEF OwnInv, IdsOK, WorkersOwn, s
  <2> QED
    BY <2>4, <2>5 DEF OwnInv
<1>7. ASSUME NEW w \in Workers, Diff(w) PROVE OwnInv'
  <2>1. UNCHANGED <<docs, chunks, nextDoc, nextBatch, task, status, docId, target, del>>
    BY <1>7 DEF Diff
  <2>2. /\ pc[w] = "diff" /\ pc'[w] \in {"upsertRead", "deleteStale"}
        /\ stale'[w] = StaleIds(RowsOf(docId[w]), task[w].content)
        /\ \A u \in Workers : u # w => pc'[u] = pc[u] /\ stale'[u] = stale[u]
    BY <1>0, <1>7 DEF Diff
  <2>3. \A i \in stale'[w] : \E r \in chunks : r.id = i /\ r.doc = docId[w] /\ r.text \notin TextsOf(task[w].content)
    BY <2>2 DEF StaleIds, RowsOf
  <2>4. status[w] = "updated"
    BY <2>2 DEF OwnInv, WorkersOwn
  <2> QED
    BY <2>1, <2>2, <2>3, <2>4 DEF OwnInv, IdsOK, WorkersOwn, DeletersOwn
<1>8. ASSUME NEW w \in Workers, DeleteStale(w) PROVE OwnInv'
  BY <1>0, <1>8 DEF DeleteStale, OwnInv, IdsOK, WorkersOwn, DeletersOwn
<1>9. ASSUME NEW w \in Workers, VespaDelete(w) PROVE OwnInv'
  BY <1>0, <1>9 DEF VespaDelete, OwnInv, IdsOK, WorkersOwn, DeletersOwn
<1>10. ASSUME NEW w \in Workers, UpsertRead(w) PROVE OwnInv'
  BY <1>0, <1>10 DEF UpsertRead, OwnInv, IdsOK, WorkersOwn, DeletersOwn
<1>11. ASSUME NEW w \in Workers, UpsertUpdate(w) PROVE OwnInv'
  BY <1>0, <1>11 DEF UpsertUpdate, AfterUpsert, Return, OwnInv, IdsOK, WorkersOwn, DeletersOwn
<1>12. ASSUME NEW w \in Workers, UpsertInsert(w) PROVE OwnInv'
  <2>1. /\ UNCHANGED <<chunks, nextBatch, task, target, stale, del>> /\ nextDoc' = nextDoc + 1
        /\ docs'[task[w].source].id = nextDoc /\ docs[task[w].source].id = 0 /\ pc[w] = "upsertWrite"
        /\ \A s \in Sources : s # task[w].source => docs'[s] = docs[s]
    BY <1>0, <1>12 DEF UpsertInsert
  <2>2. /\ pc'[w] \in {"ack", "save"} /\ status'[w] = status[w]
        /\ docId'[w] = docId[w] \/ (docId'[w] = nextDoc /\ status[w] # "updated")
        /\ pc'[w] = "save" /\ docId'[w] # nextDoc => status[w] = "updated"
        /\ \A u \in Workers : u # w => pc'[u] = pc[u] /\ status'[u] = status[u] /\ docId'[u] = docId[u]
    <3>1. AfterUpsert(w, nextDoc)
      BY <1>12 DEF UpsertInsert
    <3>2. AfterTyped(w, nextDoc)
      BY <1>0, <2>1, <3>1, AfterUpsertTyped
    <3> QED
      BY <3>2 DEF AfterTyped
  <2>3. IdsOK'
    <3>1. \A r \in chunks : r.doc \in Nat /\ r.doc # 0 /\ r.doc < nextDoc
      BY <1>0 DEF Row, OwnInv, IdsOK
    <3>2. \A s \in Sources : docs[s].id < nextDoc
      BY DEF OwnInv, IdsOK
    <3>3. \A s \in Sources : docs'[s].id < nextDoc'
      BY <1>0, <2>1, <3>2
    <3>4. \A s1, s2 \in Sources : s1 # s2 /\ docs'[s1].id = docs'[s2].id => docs'[s1].id = 0
      BY <1>0, <2>1, <3>2 DEF OwnInv, IdsOK
    <3> QED
      BY <1>0, <2>1, <3>1, <3>3, <3>4 DEF OwnInv, IdsOK
  <2>4. WorkersOwn'
    BY <1>0, <2>1, <2>2 DEF OwnInv, IdsOK, WorkersOwn
  <2>5. DeletersOwn'
    BY <1>0, <2>1 DEF OwnInv, DeletersOwn, Deletion
  <2> QED
    BY <2>3, <2>4, <2>5 DEF OwnInv
<1>13. ASSUME NEW w \in Workers, UpsertConflict(w) PROVE OwnInv'
  BY <1>0, <1>13 DEF UpsertConflict, Fail, Return, Interrupted, OwnInv, IdsOK, WorkersOwn, DeletersOwn
<1>14. ASSUME NEW w \in Workers, SaveChunks(w) PROVE OwnInv'
  <2>1. /\ UNCHANGED <<docs, nextDoc, task, status, docId, target, stale, del>>
        /\ nextBatch' = nextBatch + 1 /\ chunks' = chunks \cup NewRows(w) /\ pc[w] = "save"
        /\ pc'[w] = "graph" /\ \A u \in Workers : u # w => pc'[u] = pc[u]
    BY <1>0, <1>14 DEF SaveChunks
  <2>2. /\ \A r \in NewRows(w) : r.doc = docId[w] /\ r.id[1] = nextBatch
        /\ \A r1, r2 \in NewRows(w) : r1.id = r2.id => r1 = r2
    BY DEF NewRows
  <2>3. docId[w] \in Nat /\ docId[w] # 0 /\ docId[w] < nextDoc
    BY <1>0, <2>1 DEF OwnInv, WorkersOwn
  <2>4. \A r \in chunks : r.id \in ChunkId /\ r.id[1] \in Nat /\ r.id[1] < nextBatch
    BY <1>0 DEF Row, ChunkId, OwnInv, IdsOK
  <2>5. IdsOK'
    BY <1>0, <2>1, <2>2, <2>3, <2>4 DEF OwnInv, IdsOK
  <2>6. WorkersOwn'
    <3>1. \A u \in Workers : \A i \in stale[u] : pc[u] # "idle" => i[1] \in Nat /\ i[1] < nextBatch
      BY <1>0 DEF OwnInv, WorkersOwn, ChunkId
    <3> QED
      BY <1>0, <2>1, <2>2, <2>4, <3>1 DEF OwnInv, WorkersOwn
  <2>7. DeletersOwn'
    BY <2>1 DEF OwnInv, DeletersOwn
  <2> QED
    BY <2>5, <2>6, <2>7 DEF OwnInv
<1>15. ASSUME NEW w \in Workers, SaveOrphans(w) PROVE OwnInv'
  BY <1>0, <1>15 DEF SaveOrphans, Fail, Return, Interrupted, OwnInv, IdsOK, WorkersOwn, DeletersOwn
<1>16. ASSUME NEW w \in Workers, BuildGraph(w) PROVE OwnInv'
  BY <1>0, <1>16 DEF BuildGraph, OwnInv, IdsOK, WorkersOwn, DeletersOwn
<1>17. ASSUME NEW w \in Workers, Feed(w) PROVE OwnInv'
  BY <1>0, <1>17 DEF Feed, OwnInv, IdsOK, WorkersOwn, DeletersOwn
<1>18. ASSUME NEW w \in Workers, Bump(w) PROVE OwnInv'
  BY <1>0, <1>18 DEF Bump, Return, OwnInv, IdsOK, WorkersOwn, DeletersOwn
<1>19. ASSUME NEW d \in Deleters, DeleteStart(d) PROVE OwnInv'
  BY <1>0, <1>19 DEF DeleteStart, Enter, OwnInv, IdsOK, WorkersOwn, DeletersOwn
<1>20. ASSUME NEW d \in Deleters, DeleteGraph(d) PROVE OwnInv'
  BY <1>0, <1>20 DEF DeleteGraph, OwnInv, IdsOK, WorkersOwn, DeletersOwn
<1>21. ASSUME NEW d \in Deleters, DeleteChunks(d) PROVE OwnInv'
  BY <1>0, <1>21 DEF DeleteChunks, OwnInv, IdsOK, WorkersOwn, DeletersOwn
<1>22. ASSUME NEW d \in Deleters, DeleteVespa(d) PROVE OwnInv'
  BY <1>0, <1>22 DEF DeleteVespa, OwnInv, IdsOK, WorkersOwn, DeletersOwn
<1>23. ASSUME NEW d \in Deleters, DeleteRow(d) PROVE OwnInv'
  BY <1>0, <1>23 DEF DeleteRow, NoDoc, IdleDeletion, OwnInv, IdsOK, WorkersOwn, DeletersOwn
<1>24. ASSUME NEW d \in Deleters, DeleteAbort(d) PROVE OwnInv'
  BY <1>0, <1>24 DEF DeleteAbort, IdleDeletion, OwnInv, IdsOK, WorkersOwn, DeletersOwn
<1>26. ASSUME NEW w \in Workers, Unready(w) PROVE OwnInv'
  BY <1>0, <1>26 DEF Unready, OwnInv, IdsOK, WorkersOwn, DeletersOwn
<1>25. CASE UNCHANGED vars
  BY <1>25 DEF vars, OwnInv, IdsOK, WorkersOwn, DeletersOwn
<1> QED
  BY <1>1, <1>2, <1>3, <1>4, <1>5, <1>6, <1>7, <1>8, <1>9, <1>10, <1>11, <1>12, <1>13, <1>14, <1>15, <1>16, <1>17, <1>18, <1>19, <1>20, <1>21, <1>22, <1>23, <1>24, <1>25, <1>26
     DEF Next, Work, Delete

-----------------------------------------------------------------------------
(* Exclusivity *)

\* Initially nobody is active.
LEMMA SoloInit == Init => SoloInv
BY DEF Init, SoloInv, IdleDeletion

\* Every step keeps the solo processes alone on their sources.
LEMMA SoloStep == TypeInv /\ SoloInv /\ [Next]_vars => SoloInv'
<1> SUFFICES ASSUME TypeInv, SoloInv, [Next]_vars PROVE SoloInv'
  OBVIOUS
<1> USE DEF broker, db, indexes, locals, budget, ghost
<1>0. /\ pc \in [Workers -> WorkerPc] /\ task \in [Workers -> Task \cup {NoTask}]
      /\ del \in [Deleters -> Deletion] /\ Workers \cap Deleters = {}
  BY ConstantsAssumption DEF TypeInv, TypeOK
<1>1. CASE Submit
  BY <1>0, <1>1 DEF Submit, SoloInv
<1>2. ASSUME NEW w \in Workers, Start(w) PROVE SoloInv'
  BY <1>0, <1>2 DEF Start, Enter, Active, WorksOn, Deletes, SoloInv
<1>3. ASSUME NEW w \in Workers, Ack(w) PROVE SoloInv'
  BY <1>0, <1>3 DEF Ack, Free, SoloInv
<1>4. ASSUME NEW w \in Workers, Crash(w) PROVE SoloInv'
  BY <1>0, <1>4 DEF Crash, Free, Interrupted, SoloInv
<1>5. ASSUME NEW w \in Workers, Raise(w) PROVE SoloInv'
  BY <1>0, <1>5 DEF Raise, Fail, Return, Interrupted, SoloInv
<1>6. ASSUME NEW w \in Workers, Lookup(w) PROVE SoloInv'
  BY <1>0, <1>6 DEF Lookup, Return, SoloInv
<1>7. ASSUME NEW w \in Workers, Diff(w) PROVE SoloInv'
  BY <1>0, <1>7 DEF Diff, SoloInv
<1>8. ASSUME NEW w \in Workers, DeleteStale(w) PROVE SoloInv'
  BY <1>0, <1>8 DEF DeleteStale, SoloInv
<1>9. ASSUME NEW w \in Workers, VespaDelete(w) PROVE SoloInv'
  BY <1>0, <1>9 DEF VespaDelete, SoloInv
<1>10. ASSUME NEW w \in Workers, UpsertRead(w) PROVE SoloInv'
  BY <1>0, <1>10 DEF UpsertRead, SoloInv
<1>11. ASSUME NEW w \in Workers, UpsertUpdate(w) PROVE SoloInv'
  BY <1>0, <1>11 DEF UpsertUpdate, AfterUpsert, Return, SoloInv
<1>12. ASSUME NEW w \in Workers, UpsertInsert(w) PROVE SoloInv'
  BY <1>0, <1>12 DEF UpsertInsert, AfterUpsert, Return, SoloInv
<1>13. ASSUME NEW w \in Workers, UpsertConflict(w) PROVE SoloInv'
  BY <1>0, <1>13 DEF UpsertConflict, Fail, Return, Interrupted, SoloInv
<1>14. ASSUME NEW w \in Workers, SaveChunks(w) PROVE SoloInv'
  BY <1>0, <1>14 DEF SaveChunks, SoloInv
<1>15. ASSUME NEW w \in Workers, SaveOrphans(w) PROVE SoloInv'
  BY <1>0, <1>15 DEF SaveOrphans, Fail, Return, Interrupted, SoloInv
<1>16. ASSUME NEW w \in Workers, BuildGraph(w) PROVE SoloInv'
  BY <1>0, <1>16 DEF BuildGraph, SoloInv
<1>17. ASSUME NEW w \in Workers, Feed(w) PROVE SoloInv'
  BY <1>0, <1>17 DEF Feed, SoloInv
<1>18. ASSUME NEW w \in Workers, Bump(w) PROVE SoloInv'
  BY <1>0, <1>18 DEF Bump, Return, SoloInv
<1>19. ASSUME NEW d \in Deleters, DeleteStart(d) PROVE SoloInv'
  BY <1>0, <1>19 DEF DeleteStart, Enter, Active, WorksOn, Deletes, SoloInv
<1>20. ASSUME NEW d \in Deleters, DeleteGraph(d) PROVE SoloInv'
  BY <1>0, <1>20 DEF DeleteGraph, SoloInv
<1>21. ASSUME NEW d \in Deleters, DeleteChunks(d) PROVE SoloInv'
  BY <1>0, <1>21 DEF DeleteChunks, SoloInv
<1>22. ASSUME NEW d \in Deleters, DeleteVespa(d) PROVE SoloInv'
  BY <1>0, <1>22 DEF DeleteVespa, SoloInv
<1>23. ASSUME NEW d \in Deleters, DeleteRow(d) PROVE SoloInv'
  BY <1>0, <1>23 DEF DeleteRow, IdleDeletion, SoloInv
<1>24. ASSUME NEW d \in Deleters, DeleteAbort(d) PROVE SoloInv'
  BY <1>0, <1>24 DEF DeleteAbort, IdleDeletion, SoloInv
<1>26. ASSUME NEW w \in Workers, Unready(w) PROVE SoloInv'
  BY <1>0, <1>26 DEF Unready, SoloInv
<1>25. CASE UNCHANGED vars
  BY <1>25 DEF vars, SoloInv
<1> QED
  BY <1>1, <1>2, <1>3, <1>4, <1>5, <1>6, <1>7, <1>8, <1>9, <1>10, <1>11, <1>12, <1>13, <1>14, <1>15, <1>16, <1>17, <1>18, <1>19, <1>20, <1>21, <1>22, <1>23, <1>24, <1>25, <1>26
     DEF Next, Work, Delete

-----------------------------------------------------------------------------
(* Phases *)

\* Process p takes a step that concerns source s0 only: the other sources, the
\* locals of the other processes, and their rows are left alone, and no other
\* process that is solo after the step works on s0.
Frame(p, s0) ==
    /\ \A s \in Sources : s # s0 =>
          /\ docs'[s] = docs[s] /\ (s \in suspect' <=> s \in suspect)
          /\ docs[s].id # 0 => \A r \in Row : r.doc = docs[s].id => (r \in chunks' <=> r \in chunks)
    /\ \A u \in Workers : u # p =>
          /\ pc'[u] = pc[u] /\ task'[u] = task[u] /\ status'[u] = status[u] /\ docId'[u] = docId[u]
          /\ target'[u] = target[u] /\ stale'[u] = stale[u] /\ embed'[u] = embed[u]
          /\ u \in solo' => u \in solo /\ task[u].source # s0
    /\ \A e \in Deleters : e # p =>
          del'[e] = del[e] /\ (e \in solo' => e \in solo /\ del[e].source # s0)
    /\ \A u \in Workers : u = p /\ pc[u] # "idle" => task[u].source = s0
    /\ \A e \in Deleters : e = p /\ del[e].pc # "idle" => del[e].source = s0

\* Sources other than s0 keep their rows and their soundness.
LEMMA SoundFrame ==
  ASSUME TypeInv, TypeInv', OwnInv, OwnInv', NEW p, NEW s0, Frame(p, s0), NEW s \in Sources, s # s0
  PROVE  /\ docs'[s] = docs[s] /\ \A r \in Row : r.doc = docs[s].id => (r \in chunks' <=> r \in chunks)
         /\ Sound(s) => Sound(s)'
<1>1. docs'[s] = docs[s] /\ (s \in suspect' <=> s \in suspect)
  BY DEF Frame
<1>2. docs[s].id # 0 => \A r \in Row : r.doc = docs[s].id => (r \in chunks' <=> r \in chunks)
  BY DEF Frame
<1>3. docs[s].id = 0 => \A r \in Row : r.doc = docs[s].id => (r \in chunks' <=> r \in chunks)
  BY DEF OwnInv, IdsOK
<1>4. chunks \subseteq Row /\ chunks' \subseteq Row
  BY DEF TypeInv, TypeOK
<1>5. Matches(s) => Matches(s)'
  BY <1>1, <1>2, <1>4 DEF Matches
<1> QED
  BY <1>1, <1>2, <1>3, <1>5 DEF Sound

\* A step of another process leaves a solo ingest where it stands.
LEMMA WorkerFrame ==
  ASSUME TypeInv, TypeInv', OwnInv, OwnInv', SoloInv, PhaseInv,
         NEW p, NEW s0, Frame(p, s0), NEW u \in Workers, u # p, u \in solo',
         NEW s \in Sources, NEW c \in Contents, task'[u].source = s, task'[u].content = c
  PROVE  WorkerPhase(u, s, c)'
<1>1. /\ pc'[u] = pc[u] /\ task'[u] = task[u] /\ status'[u] = status[u] /\ docId'[u] = docId[u]
      /\ target'[u] = target[u] /\ stale'[u] = stale[u] /\ embed'[u] = embed[u]
      /\ u \in solo /\ s # s0
  BY DEF Frame
<1>2. WorkerPhase(u, s, c)
  BY <1>1 DEF PhaseInv
<1>3. /\ docs'[s] = docs[s] /\ \A r \in Row : r.doc = docs[s].id => (r \in chunks' <=> r \in chunks)
      /\ Sound(s) => Sound(s)'
  BY <1>1, SoundFrame
<1>4. chunks \subseteq Row /\ chunks' \subseteq Row
  BY DEF TypeInv, TypeOK
<1>5. NothingStale(s, c) => NothingStale(s, c)'
  BY <1>3, <1>4 DEF NothingStale
<1>6. Covered(u, s, c) => Covered(u, s, c)'
  BY <1>1, <1>3, <1>4 DEF Covered
<1> QED
  BY <1>1, <1>2, <1>3, <1>4, <1>5, <1>6 DEF WorkerPhase

\* A step of another process leaves a solo deletion where it stands.
LEMMA DeleterFrame ==
  ASSUME TypeInv, TypeInv', OwnInv, OwnInv', SoloInv, PhaseInv,
         NEW p, NEW s0, Frame(p, s0), NEW e \in Deleters, e # p, e \in solo',
         NEW s \in Sources, del'[e].source = s
  PROVE  DeleterPhase(e, s)'
<1>1. del'[e] = del[e] /\ e \in solo /\ s # s0
  BY DEF Frame
<1>2. DeleterPhase(e, s)
  BY <1>1 DEF PhaseInv
<1>3. docs'[s] = docs[s] /\ (Sound(s) => Sound(s)')
  BY <1>1, SoundFrame
<1> QED
  BY <1>1, <1>2, <1>3 DEF DeleterPhase

\* A source at rest that the step does not concern stays sound.
LEMMA RestFrame ==
  ASSUME TypeInv, TypeInv', OwnInv, OwnInv', PhaseInv,
         NEW p, NEW s0, Frame(p, s0), NEW s \in Sources, s # s0, ~Active(s)'
  PROVE  Sound(s)'
<1>1. \A u \in Workers : ~WorksOn(u, s)
  BY DEF Frame, Active, WorksOn
<1>2. \A e \in Deleters : ~Deletes(e, s)
  BY DEF Frame, Active, Deletes
<1>3. ~Active(s)
  BY <1>1, <1>2 DEF Active
<1> QED
  BY <1>3, SoundFrame DEF PhaseInv

\* A step of worker w on source s0 keeps the phases, given what it does on s0.
LEMMA WorkerStep ==
  ASSUME TypeInv, TypeInv', OwnInv, OwnInv', SoloInv, PhaseInv,
         NEW w \in Workers, NEW s0 \in Sources, Frame(w, s0),
         \A c \in Contents : w \in solo' /\ task'[w].source = s0 /\ task'[w].content = c
                               => WorkerPhase(w, s0, c)',
         pc'[w] # "idle" => task'[w].source = s0,
         pc'[w] = "idle" => Sound(s0)' /\ w \notin solo'
  PROVE  PhaseInv'
<1>1. ASSUME NEW u \in Workers, NEW s \in Sources, NEW c \in Contents,
             u \in solo', task'[u].source = s, task'[u].content = c
      PROVE  WorkerPhase(u, s, c)'
  BY <1>1, WorkerFrame
<1>2. ASSUME NEW e \in Deleters, NEW s \in Sources, e \in solo', del'[e].source = s
      PROVE  DeleterPhase(e, s)'
  BY <1>2, DeleterFrame, ConstantsAssumption
<1>3. ASSUME NEW s \in Sources, ~Active(s)' PROVE Sound(s)'
  <2>1. CASE s # s0
    BY <1>3, <2>1, RestFrame
  <2>2. CASE s = s0
    BY <1>3, <2>2 DEF Active, WorksOn
  <2> QED
    BY <2>1, <2>2
<1> QED
  BY <1>1, <1>2, <1>3 DEF PhaseInv

\* Likewise for a deletion.
LEMMA DeleterStep ==
  ASSUME TypeInv, TypeInv', OwnInv, OwnInv', SoloInv, PhaseInv,
         NEW d \in Deleters, NEW s0 \in Sources, Frame(d, s0),
         d \in solo' => DeleterPhase(d, s0)',
         del'[d].pc # "idle" => del'[d].source = s0,
         del'[d].pc = "idle" => Sound(s0)' /\ d \notin solo'
  PROVE  PhaseInv'
<1>1. ASSUME NEW u \in Workers, NEW s \in Sources, NEW c \in Contents,
             u \in solo', task'[u].source = s, task'[u].content = c
      PROVE  WorkerPhase(u, s, c)'
  BY <1>1, WorkerFrame, ConstantsAssumption
<1>2. ASSUME NEW e \in Deleters, NEW s \in Sources, e \in solo', del'[e].source = s
      PROVE  DeleterPhase(e, s)'
  BY <1>2, DeleterFrame
<1>3. ASSUME NEW s \in Sources, ~Active(s)' PROVE Sound(s)'
  <2>1. CASE s # s0
    BY <1>3, <2>1, RestFrame
  <2>2. CASE s = s0
    BY <1>3, <2>2 DEF Active, Deletes
  <2> QED
    BY <2>1, <2>2
<1> QED
  BY <1>1, <1>2, <1>3 DEF PhaseInv

\* Nobody else who is solo works on the source of an active process.
LEMMA Alone ==
  ASSUME SoloInv
  PROVE  /\ \A w \in Workers : pc[w] # "idle" =>
               /\ \A u \in Workers : u # w /\ u \in solo => task[u].source # task[w].source
               /\ \A e \in Deleters : e \in solo => del[e].source # task[w].source
         /\ \A d \in Deleters : del[d].pc # "idle" =>
               /\ \A u \in Workers : u \in solo => task[u].source # del[d].source
               /\ \A e \in Deleters : e # d /\ e \in solo => del[e].source # del[d].source
BY DEF SoloInv

\* What is known of a source survives a step that does not touch Postgres.
LEMMA Still ==
  ASSUME UNCHANGED <<docs, chunks>>, NEW s, NEW c, NEW w, s \in suspect => s \in suspect'
  PROVE  /\ Sound(s) => Sound(s)'
         /\ NothingStale(s, c) => NothingStale(s, c)'
         /\ Covered(w, s, c) /\ embed'[w] = embed[w] => Covered(w, s, c)'
<1>1. Matches(s) => Matches(s)'
  BY DEF Matches
<1> QED
  BY <1>1 DEF Sound, NothingStale, Covered

\* A step that changes none of the state the phases speak of keeps them.
LEMMA Idling ==
  ASSUME PhaseInv, UNCHANGED <<docs, chunks, suspect, solo, pc, task, docId, target, stale, embed, del>>
  PROVE  PhaseInv'
<1>1. \A s \in Sources : Sound(s) => Sound(s)'
  BY Still
<1>2. \A s \in Sources : Active(s)' <=> Active(s)
  BY DEF Active, WorksOn, Deletes
<1>3. ASSUME NEW w \in Workers, NEW s \in Sources, NEW c \in Contents, WorkerPhase(w, s, c)
      PROVE  WorkerPhase(w, s, c)'
  <2>1. /\ NothingStale(s, c) => NothingStale(s, c)'
        /\ Covered(w, s, c) => Covered(w, s, c)'
    BY Still
  <2> QED
    BY <1>1, <1>3, <2>1 DEF WorkerPhase
<1>4. ASSUME NEW d \in Deleters, NEW s \in Sources, DeleterPhase(d, s) PROVE DeleterPhase(d, s)'
  BY <1>1, <1>4 DEF DeleterPhase
<1> QED
  BY <1>1, <1>2, <1>3, <1>4 DEF PhaseInv

\* Initially no source has a row, so every source is sound.
LEMMA PhaseInit == Init => PhaseInv
BY DEF Init, PhaseInv, Sound, Matches, NoDoc

\* The steps of an ingest after its start, and those of a deletion.
Moves(w) ==
    \/ Ack(w) \/ Crash(w) \/ Raise(w) \/ Lookup(w) \/ Diff(w) \/ DeleteStale(w) \/ VespaDelete(w)
    \/ UpsertRead(w) \/ UpsertUpdate(w) \/ UpsertInsert(w) \/ UpsertConflict(w)
    \/ SaveChunks(w) \/ SaveOrphans(w) \/ BuildGraph(w) \/ Feed(w) \/ Bump(w)
Removes(d) == Delete(d) \/ DeleteAbort(d)

\* The types the proofs about single steps use.
Types ==
    /\ pc \in [Workers -> WorkerPc] /\ task \in [Workers -> Task \cup {NoTask}]
    /\ status \in [Workers -> Status] /\ docId \in [Workers -> Nat] /\ target \in [Workers -> Nat]
    /\ stale \in [Workers -> SUBSET ChunkId] /\ embed \in [Workers -> SUBSET Nat]
    /\ del \in [Deleters -> Deletion] /\ docs \in [Sources -> DocRow] /\ chunks \subseteq Row
    /\ Workers \cap Deleters = {}
    /\ nextDoc \in Nat /\ nextDoc # 0 /\ nextBatch \in Nat
    /\ \A u \in Workers : pc[u] # "idle" =>
          task[u] \in Task /\ task[u].source \in Sources /\ task[u].content \in Contents
    /\ \A u \in Workers : pc[u] \in {"idle", "lookup"} =>
          stale[u] = {} /\ embed[u] = {} /\ docId[u] = 0 /\ target[u] = 0 /\ status[u] = "none"
    /\ \A s \in Sources : docs[s].id \in Nat

\* They follow from the type invariant.
LEMMA Typed == TypeInv => Types
BY ConstantsAssumption DEF Types, TypeInv, TypeOK, JobsOK, Task, DocRow

\* Every step of an ingest concerns its own source only.
LEMMA WorkerFramed ==
  ASSUME TypeInv, OwnInv, SoloInv, NEW w \in Workers, NEW s \in Sources, task[w].source = s, Moves(w)
  PROVE  Frame(w, s)
<1> USE DEF broker, db, indexes, locals, budget, ghost
<1>0. Types
  BY Typed
<1> USE DEF Types
<1>1. CASE Ack(w)
  BY <1>0, <1>1, Alone DEF Ack, Free, Frame
<1>2. CASE Crash(w)
  BY <1>0, <1>2, Alone DEF Crash, Free, Interrupted, Frame
<1>3. CASE Raise(w)
  BY <1>0, <1>3, Alone DEF Raise, Fail, Return, Interrupted, Frame
<1>4. CASE Lookup(w)
  BY <1>0, <1>4, Alone DEF Lookup, Return, Frame
<1>5. CASE Diff(w)
  BY <1>0, <1>5, Alone DEF Diff, Frame
<1>6. CASE DeleteStale(w)
  BY <1>0, <1>6, Alone DEF DeleteStale, OwnInv, WorkersOwn, IdsOK, Frame
<1>7. CASE VespaDelete(w)
  BY <1>0, <1>7, Alone DEF VespaDelete, Frame
<1>8. CASE UpsertRead(w)
  BY <1>0, <1>8, Alone DEF UpsertRead, Frame
<1>9. CASE UpsertUpdate(w)
  BY <1>0, <1>9, Alone DEF UpsertUpdate, AfterUpsert, Return, Frame
<1>10. CASE UpsertInsert(w)
  BY <1>0, <1>10, Alone DEF UpsertInsert, AfterUpsert, Return, Frame
<1>11. CASE UpsertConflict(w)
  BY <1>0, <1>11, Alone DEF UpsertConflict, Fail, Return, Interrupted, Frame
<1>12. CASE SaveChunks(w)
  BY <1>0, <1>12, Alone DEF SaveChunks, NewRows, OwnInv, WorkersOwn, Frame
<1>13. CASE SaveOrphans(w)
  BY <1>0, <1>13, Alone DEF SaveOrphans, Fail, Return, Interrupted, Frame
<1>14. CASE BuildGraph(w)
  BY <1>0, <1>14, Alone DEF BuildGraph, Frame
<1>15. CASE Feed(w)
  BY <1>0, <1>15, Alone DEF Feed, Frame
<1>16. CASE Bump(w)
  BY <1>0, <1>16, Alone DEF Bump, Return, Frame
<1> QED
  BY <1>1, <1>2, <1>3, <1>4, <1>5, <1>6, <1>7, <1>8, <1>9, <1>10, <1>11, <1>12, <1>13, <1>14, <1>15, <1>16 DEF Moves

\* Likewise for a deletion.
LEMMA DeleterFramed ==
  ASSUME TypeInv, OwnInv, SoloInv, NEW d \in Deleters, NEW s \in Sources, del[d].source = s, Removes(d)
  PROVE  Frame(d, s)
<1> USE DEF broker, db, indexes, locals, budget, ghost
<1>0. Types
  BY Typed
<1> USE DEF Types
<1>1. CASE DeleteGraph(d)
  BY <1>0, <1>1, Alone DEF DeleteGraph, OwnInv, DeletersOwn, IdsOK, Frame, Deletion
<1>2. CASE DeleteChunks(d)
  BY <1>0, <1>2, Alone DEF DeleteChunks, OwnInv, DeletersOwn, IdsOK, Frame, Deletion
<1>3. CASE DeleteVespa(d)
  BY <1>0, <1>3, Alone DEF DeleteVespa, OwnInv, DeletersOwn, IdsOK, Frame, Deletion
<1>4. CASE DeleteRow(d)
  BY <1>0, <1>4, Alone DEF DeleteRow, OwnInv, DeletersOwn, IdsOK, Frame
<1>5. CASE DeleteAbort(d)
  BY <1>0, <1>5, Alone DEF DeleteAbort, OwnInv, DeletersOwn, IdsOK, Frame
<1> QED
  BY <1>1, <1>2, <1>3, <1>4, <1>5 DEF Removes, Delete

\* Every step moves a solo process from phase to phase and leaves sources at rest sound.
LEMMA PhaseStep ==
  ASSUME TypeInv, TypeInv', OwnInv, OwnInv', SoloInv, PhaseInv, [Next]_vars
  PROVE  PhaseInv'
<1> USE DEF broker, db, indexes, locals, budget, ghost
<1>0. Types
  BY Typed
<1> USE DEF Types
<1>1. CASE Submit
  BY <1>1, Idling DEF Submit
<1>2. ASSUME NEW w \in Workers, Start(w) PROVE PhaseInv'
  <2> PICK t \in queue : task' = [task EXCEPT ![w] = t] /\ Enter(w, t.source)
    BY <1>2 DEF Start
  <2> PICK s \in Sources : t.source = s
    BY DEF TypeInv, TypeOK, Task
  <2>1. Frame(w, s)
    BY <1>0, <1>2 DEF Start, Enter, WorksOn, Deletes, SoloInv, Frame
  <2>2. UNCHANGED <<docs, chunks>> /\ pc'[w] = "lookup" /\ task'[w].source = s /\ w \notin solo
    BY <1>0, <1>2 DEF Start, SoloInv
  <2>3. ASSUME w \in solo', NEW c \in Contents PROVE WorkerPhase(w, s, c)'
    <3>1. ~Active(s) /\ suspect' = suspect
      BY <2>2, <2>3 DEF Enter
    <3>2. Sound(s)'
      BY <2>2, <3>1, Still DEF PhaseInv
    <3> QED
      BY <2>2, <3>2 DEF WorkerPhase
  <2> QED
    BY <2>1, <2>2, <2>3, WorkerStep
<1>3. ASSUME NEW w \in Workers, Ack(w) PROVE PhaseInv'
  <2> PICK s \in Sources, c \in Contents : task[w].source = s /\ task[w].content = c
    BY <1>0, <1>3 DEF Ack
  <2>1. Frame(w, s)
    BY <1>3, WorkerFramed DEF Moves
  <2>2. w \notin solo' /\ pc'[w] = "idle" /\ UNCHANGED <<docs, chunks>> /\ suspect' = suspect /\ pc[w] = "ack"
    BY <1>0, <1>3 DEF Ack, Free
  <2>3. Sound(s) => Sound(s)'
    BY <2>2, Still
  <2>4. Sound(s)'
    <3>1. CASE w \in solo
      <4>1. WorkerPhase(w, s, c)
        BY <3>1 DEF PhaseInv
      <4> QED
        BY <1>0, <2>2, <2>3, <4>1 DEF WorkerPhase, Torn, Sound, WorkerPc
    <3>2. CASE w \notin solo
      BY <2>2, <2>3, <3>2 DEF SoloInv, Sound
    <3> QED
      BY <3>1, <3>2
  <2> QED
    BY <2>1, <2>2, <2>4, WorkerStep
<1>4. ASSUME NEW w \in Workers, Crash(w) PROVE PhaseInv'
  <2> PICK s \in Sources, c \in Contents : task[w].source = s /\ task[w].content = c
    BY <1>0, <1>4 DEF Crash
  <2>1. Frame(w, s)
    BY <1>4, WorkerFramed DEF Moves
  <2>2. w \notin solo' /\ pc'[w] = "idle" /\ UNCHANGED <<docs, chunks>> /\ suspect' = (IF Torn(w) THEN suspect \cup {s} ELSE suspect) /\ pc[w] # "idle"
    BY <1>0, <1>4 DEF Crash, Free, Interrupted
  <2>3. Sound(s) => Sound(s)'
    BY <2>2, Still
  <2>4. Sound(s)'
    <3>1. CASE w \in solo
      <4>1. WorkerPhase(w, s, c)
        BY <3>1 DEF PhaseInv
      <4> QED
        BY <1>0, <2>2, <2>3, <4>1 DEF WorkerPhase, Torn, Sound, WorkerPc
    <3>2. CASE w \notin solo
      BY <2>2, <2>3, <3>2 DEF SoloInv, Sound
    <3> QED
      BY <3>1, <3>2
  <2> QED
    BY <2>1, <2>2, <2>4, WorkerStep
<1>5. ASSUME NEW w \in Workers, Raise(w) PROVE PhaseInv'
  <2> PICK s \in Sources, c \in Contents : task[w].source = s /\ task[w].content = c
    BY <1>0, <1>5 DEF Raise
  <2>1. Frame(w, s)
    BY <1>5, WorkerFramed DEF Moves
  <2>2. pc'[w] # "idle" /\ task'[w] = task[w] /\ solo' = solo
    BY <1>0, <1>5 DEF Raise, Fail, Return, Interrupted
  <2>3. ASSUME w \in solo PROVE WorkerPhase(w, s, c)'
    <3>1. WorkerPhase(w, s, c)
      BY <2>3 DEF PhaseInv
    <3>2. /\ UNCHANGED <<docs, chunks>> /\ pc'[w] = "ack"
          /\ suspect' = IF Torn(w) THEN suspect \cup {s} ELSE suspect
          /\ pc[w] \notin {"idle", "ack"}
      BY <1>0, <1>5 DEF Raise, Fail, Return, Interrupted
    <3>3. Sound(s) => Sound(s)'
      BY <3>2, Still
    <3>4. Sound(s)'
      BY <1>0, <3>1, <3>2, <3>3 DEF WorkerPhase, Torn, Sound, WorkerPc
    <3> QED
      BY <3>2, <3>4 DEF WorkerPhase
  <2> QED
    BY <2>1, <2>2, <2>3, WorkerStep
<1>6. ASSUME NEW w \in Workers, Lookup(w) PROVE PhaseInv'
  <2> PICK s \in Sources, c \in Contents : task[w].source = s /\ task[w].content = c
    BY <1>0, <1>6 DEF Lookup
  <2>1. Frame(w, s)
    BY <1>6, WorkerFramed DEF Moves
  <2>2. pc'[w] # "idle" /\ task'[w] = task[w] /\ solo' = solo
    BY <1>0, <1>6 DEF Lookup, Return
  <2>3. ASSUME w \in solo PROVE WorkerPhase(w, s, c)'
    <3>1. WorkerPhase(w, s, c)
      BY <2>3 DEF PhaseInv
    <3>2. UNCHANGED <<docs, chunks, suspect, stale, target>> /\ pc[w] = "lookup" /\ docId'[w] = docs[s].id
      BY <1>0, <1>6 DEF Lookup
    <3>3. Sound(s)' /\ stale'[w] = {} /\ Sound(s)
      BY <1>0, <3>1, <3>2, Still DEF WorkerPhase
    <3>4. CASE pc'[w] \in {"ack", "diff"}
      BY <3>2, <3>3, <3>4 DEF WorkerPhase
    <3>5. CASE pc'[w] = "upsertRead"
      <4>1. docs[s].id = 0 /\ embed'[w] = DOMAIN ChunksOf[c]
        BY <1>0, <1>6, <3>5 DEF Lookup, Return
      <4>2. NothingStale(s, c)'
        BY <3>2, <4>1 DEF NothingStale, OwnInv, IdsOK
      <4>3. Covered(w, s, c)'
        BY <4>1 DEF Covered, TextsOf
      <4> QED
        BY <3>2, <3>3, <3>5, <4>2, <4>3 DEF WorkerPhase
    <3> QED
      BY <1>0, <1>6, <3>4, <3>5 DEF Lookup, Return
  <2> QED
    BY <2>1, <2>2, <2>3, WorkerStep
<1>7. ASSUME NEW w \in Workers, Diff(w) PROVE PhaseInv'
  <2> PICK s \in Sources, c \in Contents : task[w].source = s /\ task[w].content = c
    BY <1>0, <1>7 DEF Diff
  <2>1. Frame(w, s)
    BY <1>7, WorkerFramed DEF Moves
  <2>2. pc'[w] # "idle" /\ task'[w] = task[w] /\ solo' = solo
    BY <1>0, <1>7 DEF Diff
  <2>3. ASSUME w \in solo PROVE WorkerPhase(w, s, c)'
    <3>1. WorkerPhase(w, s, c)
      BY <2>3 DEF PhaseInv
    <3>2. /\ UNCHANGED <<docs, chunks, suspect>> /\ pc[w] = "diff" /\ docId'[w] = docId[w]
          /\ stale'[w] = StaleIds(RowsOf(docId[w]), c)
          /\ embed'[w] = ToEmbed({r.text : r \in RowsOf(docId[w])}, c)
          /\ pc'[w] = IF stale'[w] = {} THEN "upsertRead" ELSE "deleteStale"
      BY <1>0, <1>7 DEF Diff
    <3>3. Sound(s)' /\ docs[s].id = docId[w] /\ docs'[s].id = docId'[w]
      BY <3>1, <3>2, Still DEF WorkerPhase
    <3>4. \A r \in chunks : r.doc = docs[s].id => (r.id \in stale'[w] <=> r.text \notin TextsOf(c))
      BY <3>2, <3>3 DEF StaleIds, RowsOf, OwnInv, IdsOK
    <3>5. stale'[w] = {} => NothingStale(s, c)'
      BY <3>2, <3>3, <3>4 DEF NothingStale
    <3>6. Covered(w, s, c)'
      <4>1. ASSUME NEW t \in TextsOf(c), ~ \E r \in chunks : r.doc = docs[s].id /\ r.text = t
            PROVE  \E i \in embed'[w] : ChunksOf[c][i] = t
        <5> DEFINE i == CHOOSE j \in DOMAIN ChunksOf[c] : ChunksOf[c][j] = t
        <5>1. i \in DOMAIN ChunksOf[c] /\ ChunksOf[c][i] = t
          BY DEF TextsOf
        <5>2. i \in OnePerHash(c)
          BY DEF OnePerHash
        <5>3. t \notin {r.text : r \in RowsOf(docId[w])}
          BY <3>3, <4>1 DEF RowsOf
        <5> QED
          BY <3>2, <5>1, <5>2, <5>3 DEF ToEmbed
      <4> QED
        BY <3>2, <4>1 DEF Covered
    <3> QED
      BY <3>2, <3>3, <3>4, <3>5, <3>6 DEF WorkerPhase
  <2> QED
    BY <2>1, <2>2, <2>3, WorkerStep
<1>8. ASSUME NEW w \in Workers, DeleteStale(w) PROVE PhaseInv'
  <2> PICK s \in Sources, c \in Contents : task[w].source = s /\ task[w].content = c
    BY <1>0, <1>8 DEF DeleteStale
  <2>1. Frame(w, s)
    BY <1>8, WorkerFramed DEF Moves
  <2>2. pc'[w] # "idle" /\ task'[w] = task[w] /\ solo' = solo
    BY <1>0, <1>8 DEF DeleteStale
  <2>3. ASSUME w \in solo PROVE WorkerPhase(w, s, c)'
    <3>1. WorkerPhase(w, s, c)
      BY <2>3 DEF PhaseInv
    <3>2. /\ UNCHANGED <<docs, suspect, embed, docId, stale>> /\ pc[w] = "deleteStale" /\ pc'[w] = "vespaDelete"
          /\ chunks' = {r \in chunks : r.id \notin stale[w]}
      BY <1>0, <1>8 DEF DeleteStale
    <3>3. NothingStale(s, c)' /\ docs'[s].id = docId'[w] /\ stale[w] # {}
      BY <3>1, <3>2 DEF NothingStale, WorkerPhase
    <3>4. Covered(w, s, c)'
      BY <3>1, <3>2 DEF Covered, WorkerPhase
    <3> QED
      BY <3>2, <3>3, <3>4 DEF WorkerPhase
  <2> QED
    BY <2>1, <2>2, <2>3, WorkerStep
<1>9. ASSUME NEW w \in Workers, VespaDelete(w) PROVE PhaseInv'
  <2> PICK s \in Sources, c \in Contents : task[w].source = s /\ task[w].content = c
    BY <1>0, <1>9 DEF VespaDelete
  <2>1. Frame(w, s)
    BY <1>9, WorkerFramed DEF Moves
  <2>2. pc'[w] # "idle" /\ task'[w] = task[w] /\ solo' = solo
    BY <1>0, <1>9 DEF VespaDelete
  <2>3. ASSUME w \in solo PROVE WorkerPhase(w, s, c)'
    <3>1. WorkerPhase(w, s, c)
      BY <2>3 DEF PhaseInv
    <3>2. /\ UNCHANGED <<docs, chunks, suspect>> /\ pc[w] = "vespaDelete" /\ pc'[w] = "upsertRead"
          /\ stale'[w] = stale[w] /\ embed'[w] = embed[w] /\ docId'[w] = docId[w] /\ target'[w] = target[w]
      BY <1>0, <1>9 DEF VespaDelete
    <3>3. /\ Sound(s) => Sound(s)'
          /\ NothingStale(s, c) => NothingStale(s, c)'
          /\ Covered(w, s, c) => Covered(w, s, c)'
      BY <3>2, Still
    <3> QED
      BY <3>1, <3>2, <3>3 DEF WorkerPhase
  <2> QED
    BY <2>1, <2>2, <2>3, WorkerStep
<1>10. ASSUME NEW w \in Workers, UpsertRead(w) PROVE PhaseInv'
  <2> PICK s \in Sources, c \in Contents : task[w].source = s /\ task[w].content = c
    BY <1>0, <1>10 DEF UpsertRead
  <2>1. Frame(w, s)
    BY <1>10, WorkerFramed DEF Moves
  <2>2. pc'[w] # "idle" /\ task'[w] = task[w] /\ solo' = solo
    BY <1>0, <1>10 DEF UpsertRead
  <2>3. ASSUME w \in solo PROVE WorkerPhase(w, s, c)'
    <3>1. WorkerPhase(w, s, c)
      BY <2>3 DEF PhaseInv
    <3>2. /\ UNCHANGED <<docs, chunks, suspect>> /\ pc[w] = "upsertRead" /\ pc'[w] = "upsertWrite"
          /\ stale'[w] = stale[w] /\ embed'[w] = embed[w] /\ docId'[w] = docId[w] /\ target'[w] = docs[s].id
      BY <1>0, <1>10 DEF UpsertRead
    <3>3. /\ Sound(s) => Sound(s)'
          /\ NothingStale(s, c) => NothingStale(s, c)'
          /\ Covered(w, s, c) => Covered(w, s, c)'
      BY <3>2, Still
    <3> QED
      BY <3>1, <3>2, <3>3 DEF WorkerPhase
  <2> QED
    BY <2>1, <2>2, <2>3, WorkerStep
<1>11. ASSUME NEW w \in Workers, UpsertUpdate(w) PROVE PhaseInv'
  <2> PICK s \in Sources, c \in Contents : task[w].source = s /\ task[w].content = c
    BY <1>0, <1>11 DEF UpsertUpdate
  <2>1. Frame(w, s)
    BY <1>11, WorkerFramed DEF Moves
  <2>2. pc'[w] # "idle" /\ task'[w] = task[w] /\ solo' = solo
    BY <1>0, <1>11 DEF UpsertUpdate, AfterUpsert, Return
  <2>3. ASSUME w \in solo PROVE WorkerPhase(w, s, c)'
    <3>1. WorkerPhase(w, s, c)
      BY <2>3 DEF PhaseInv
    <3>2. /\ UNCHANGED <<chunks, embed, stale, target>> /\ pc[w] = "upsertWrite" /\ target[w] # 0
          /\ docs[s].id = target[w] => docs'[s] = [docs[s] EXCEPT !.hash = c]
          /\ AfterUpsert(w, target[w])
      BY <1>0, <1>11 DEF UpsertUpdate
    <3>3. target[w] = docs[s].id /\ docId[w] = docs[s].id /\ NothingStale(s, c) /\ Covered(w, s, c)
      BY <3>1, <3>2 DEF WorkerPhase
    <3>4. docs'[s].id = docs[s].id /\ docs'[s].hash = c
      BY <1>0, <3>2, <3>3 DEF DocRow
    <3>5. NothingStale(s, c)' /\ Covered(w, s, c)'
      BY <3>2, <3>3, <3>4 DEF NothingStale, Covered
    <3>6. AfterTyped(w, target[w])
      BY <1>0, <3>2, AfterUpsertTyped
    <3>7. CASE status[w] = "updated" /\ embed[w] = {}
      <4>1. Matches(s)'
        BY <3>2, <3>4, <3>5, <3>7 DEF Matches, NothingStale, Covered
      <4>2. pc'[w] = "ack"
        BY <1>0, <3>2, <3>7 DEF AfterUpsert, Return
      <4> QED
        BY <4>1, <4>2 DEF WorkerPhase, Sound
    <3>8. CASE ~(status[w] = "updated" /\ embed[w] = {})
      <4>1. pc'[w] = "save" /\ docId'[w] = docs'[s].id
        BY <1>0, <3>2, <3>3, <3>4, <3>6, <3>8 DEF AfterUpsert, AfterTyped
      <4> QED
        BY <3>4, <3>5, <4>1 DEF WorkerPhase
    <3> QED
      BY <3>7, <3>8
  <2> QED
    BY <2>1, <2>2, <2>3, WorkerStep
<1>12. ASSUME NEW w \in Workers, UpsertInsert(w) PROVE PhaseInv'
  <2> PICK s \in Sources, c \in Contents : task[w].source = s /\ task[w].content = c
    BY <1>0, <1>12 DEF UpsertInsert
  <2>1. Frame(w, s)
    BY <1>12, WorkerFramed DEF Moves
  <2>2. pc'[w] # "idle" /\ task'[w] = task[w] /\ solo' = solo
    BY <1>0, <1>12 DEF UpsertInsert, AfterUpsert, Return
  <2>3. ASSUME w \in solo PROVE WorkerPhase(w, s, c)'
    <3>1. WorkerPhase(w, s, c)
      BY <2>3 DEF PhaseInv
    <3>2. /\ UNCHANGED <<chunks, embed, stale, target>> /\ pc[w] = "upsertWrite" /\ target[w] = 0
          /\ docs'[s] = [id |-> nextDoc, hash |-> c, access |-> task[w].access]
          /\ AfterUpsert(w, nextDoc)
      BY <1>0, <1>12 DEF UpsertInsert
    <3>3. docs[s].id = 0 /\ docId[w] = 0 /\ Covered(w, s, c)
      BY <3>1, <3>2 DEF WorkerPhase
    <3>4. status[w] # "updated"
      BY <3>2, <3>3 DEF OwnInv, WorkersOwn
    <3>5. \A r \in chunks : r.doc # docs[s].id /\ r.doc # docs'[s].id
      BY <1>0, <3>2, <3>3 DEF OwnInv, IdsOK, Row
    <3>6. NothingStale(s, c)' /\ Covered(w, s, c)'
      BY <3>2, <3>3, <3>5 DEF NothingStale, Covered
    <3>7. AfterTyped(w, nextDoc)
      BY <1>0, <3>2, AfterUpsertTyped
    <3>8. pc'[w] = "save" /\ docId'[w] = docs'[s].id /\ docs'[s].hash = c
      BY <1>0, <3>2, <3>4, <3>7 DEF AfterUpsert, AfterTyped
    <3> QED
      BY <3>6, <3>8 DEF WorkerPhase
  <2> QED
    BY <2>1, <2>2, <2>3, WorkerStep
<1>13. ASSUME NEW w \in Workers, UpsertConflict(w) PROVE PhaseInv'
  <2> PICK s \in Sources, c \in Contents : task[w].source = s /\ task[w].content = c
    BY <1>0, <1>13 DEF UpsertConflict
  <2>1. Frame(w, s)
    BY <1>13, WorkerFramed DEF Moves
  <2>2. pc'[w] # "idle" /\ task'[w] = task[w] /\ solo' = solo
    BY <1>0, <1>13 DEF UpsertConflict, Fail, Return, Interrupted
  <2>3. ASSUME w \in solo PROVE WorkerPhase(w, s, c)'
    <3>1. WorkerPhase(w, s, c)
      BY <2>3 DEF PhaseInv
    <3>2. /\ UNCHANGED <<docs, chunks>> /\ pc'[w] = "ack"
          /\ suspect' = IF Torn(w) THEN suspect \cup {s} ELSE suspect
          /\ pc[w] \notin {"idle", "ack"}
      BY <1>0, <1>13 DEF UpsertConflict, Fail, Return, Interrupted
    <3>3. Sound(s) => Sound(s)'
      BY <3>2, Still
    <3>4. Sound(s)'
      BY <1>0, <3>1, <3>2, <3>3 DEF WorkerPhase, Torn, Sound, WorkerPc
    <3> QED
      BY <3>2, <3>4 DEF WorkerPhase
  <2> QED
    BY <2>1, <2>2, <2>3, WorkerStep
<1>14. ASSUME NEW w \in Workers, SaveChunks(w) PROVE PhaseInv'
  <2> PICK s \in Sources, c \in Contents : task[w].source = s /\ task[w].content = c
    BY <1>0, <1>14 DEF SaveChunks
  <2>1. Frame(w, s)
    BY <1>14, WorkerFramed DEF Moves
  <2>2. pc'[w] # "idle" /\ task'[w] = task[w] /\ solo' = solo
    BY <1>0, <1>14 DEF SaveChunks
  <2>3. ASSUME w \in solo PROVE WorkerPhase(w, s, c)'
    <3>1. WorkerPhase(w, s, c)
      BY <2>3 DEF PhaseInv
    <3>2. /\ UNCHANGED <<docs, embed, docId>> /\ pc[w] = "save" /\ pc'[w] = "graph"
          /\ chunks' = chunks \cup NewRows(w)
      BY <1>0, <1>14 DEF SaveChunks
    <3>3. /\ docs[s].id = docId[w] /\ docs[s].hash = c /\ NothingStale(s, c) /\ Covered(w, s, c)
          /\ embed[w] \subseteq DOMAIN ChunksOf[c]
      BY <3>1, <3>2 DEF WorkerPhase, TypeInv, JobsOK
    <3>4. /\ \A r \in NewRows(w) : r.doc = docId[w] /\ r.text \in TextsOf(c)
          /\ \A i \in embed[w] : \E r \in NewRows(w) : r.text = ChunksOf[c][i]
      <4>1. \A i \in embed[w] : ChunksOf[c][i] \in TextsOf(c)
        BY <3>3 DEF TextsOf
      <4>2. NewRows(w) = {[id |-> <<nextBatch, i>>, doc |-> docId[w], text |-> ChunksOf[c][i]] : i \in embed[w]}
        BY DEF NewRows
      <4>3. ASSUME NEW r \in NewRows(w) PROVE r.doc = docId[w] /\ r.text \in TextsOf(c)
        BY <4>1, <4>2
      <4>4. ASSUME NEW i \in embed[w] PROVE \E r \in NewRows(w) : r.text = ChunksOf[c][i]
        <5>1. [id |-> <<nextBatch, i>>, doc |-> docId[w], text |-> ChunksOf[c][i]] \in NewRows(w)
          BY <4>2
        <5> QED
          BY <5>1
      <4> QED
        BY <4>3, <4>4
    <3>5. Matches(s)'
      BY <3>2, <3>3, <3>4 DEF Matches, NothingStale, Covered
    <3> QED
      BY <3>2, <3>5 DEF WorkerPhase, Sound
  <2> QED
    BY <2>1, <2>2, <2>3, WorkerStep
<1>15. ASSUME NEW w \in Workers, SaveOrphans(w) PROVE PhaseInv'
  <2> PICK s \in Sources, c \in Contents : task[w].source = s /\ task[w].content = c
    BY <1>0, <1>15 DEF SaveOrphans
  <2>1. Frame(w, s)
    BY <1>15, WorkerFramed DEF Moves
  <2>2. pc'[w] # "idle" /\ task'[w] = task[w] /\ solo' = solo
    BY <1>0, <1>15 DEF SaveOrphans, Fail, Return, Interrupted
  <2>3. ASSUME w \in solo PROVE WorkerPhase(w, s, c)'
    <3>1. WorkerPhase(w, s, c)
      BY <2>3 DEF PhaseInv
    <3>2. /\ UNCHANGED <<docs, chunks>> /\ pc'[w] = "ack"
          /\ suspect' = IF Torn(w) THEN suspect \cup {s} ELSE suspect
          /\ pc[w] \notin {"idle", "ack"}
      BY <1>0, <1>15 DEF SaveOrphans, Fail, Return, Interrupted
    <3>3. Sound(s) => Sound(s)'
      BY <3>2, Still
    <3>4. Sound(s)'
      BY <1>0, <3>1, <3>2, <3>3 DEF WorkerPhase, Torn, Sound, WorkerPc
    <3> QED
      BY <3>2, <3>4 DEF WorkerPhase
  <2> QED
    BY <2>1, <2>2, <2>3, WorkerStep
<1>16. ASSUME NEW w \in Workers, BuildGraph(w) PROVE PhaseInv'
  <2> PICK s \in Sources, c \in Contents : task[w].source = s /\ task[w].content = c
    BY <1>0, <1>16 DEF BuildGraph
  <2>1. Frame(w, s)
    BY <1>16, WorkerFramed DEF Moves
  <2>2. pc'[w] # "idle" /\ task'[w] = task[w] /\ solo' = solo
    BY <1>0, <1>16 DEF BuildGraph
  <2>3. ASSUME w \in solo PROVE WorkerPhase(w, s, c)'
    <3>1. WorkerPhase(w, s, c)
      BY <2>3 DEF PhaseInv
    <3>2. /\ UNCHANGED <<docs, chunks, suspect>> /\ pc[w] = "graph" /\ pc'[w] = "feed"
          /\ stale'[w] = stale[w] /\ embed'[w] = embed[w] /\ docId'[w] = docId[w] /\ target'[w] = target[w]
      BY <1>0, <1>16 DEF BuildGraph
    <3>3. /\ Sound(s) => Sound(s)'
          /\ NothingStale(s, c) => NothingStale(s, c)'
          /\ Covered(w, s, c) => Covered(w, s, c)'
      BY <3>2, Still
    <3> QED
      BY <3>1, <3>2, <3>3 DEF WorkerPhase
  <2> QED
    BY <2>1, <2>2, <2>3, WorkerStep
<1>17. ASSUME NEW w \in Workers, Feed(w) PROVE PhaseInv'
  <2> PICK s \in Sources, c \in Contents : task[w].source = s /\ task[w].content = c
    BY <1>0, <1>17 DEF Feed
  <2>1. Frame(w, s)
    BY <1>17, WorkerFramed DEF Moves
  <2>2. pc'[w] # "idle" /\ task'[w] = task[w] /\ solo' = solo
    BY <1>0, <1>17 DEF Feed
  <2>3. ASSUME w \in solo PROVE WorkerPhase(w, s, c)'
    <3>1. WorkerPhase(w, s, c)
      BY <2>3 DEF PhaseInv
    <3>2. /\ UNCHANGED <<docs, chunks, suspect>> /\ pc[w] = "feed" /\ pc'[w] = "bump"
          /\ stale'[w] = stale[w] /\ embed'[w] = embed[w] /\ docId'[w] = docId[w] /\ target'[w] = target[w]
      BY <1>0, <1>17 DEF Feed
    <3>3. /\ Sound(s) => Sound(s)'
          /\ NothingStale(s, c) => NothingStale(s, c)'
          /\ Covered(w, s, c) => Covered(w, s, c)'
      BY <3>2, Still
    <3> QED
      BY <3>1, <3>2, <3>3 DEF WorkerPhase
  <2> QED
    BY <2>1, <2>2, <2>3, WorkerStep
<1>18. ASSUME NEW w \in Workers, Bump(w) PROVE PhaseInv'
  <2> PICK s \in Sources, c \in Contents : task[w].source = s /\ task[w].content = c
    BY <1>0, <1>18 DEF Bump
  <2>1. Frame(w, s)
    BY <1>18, WorkerFramed DEF Moves
  <2>2. pc'[w] # "idle" /\ task'[w] = task[w] /\ solo' = solo
    BY <1>0, <1>18 DEF Bump, Return
  <2>3. ASSUME w \in solo PROVE WorkerPhase(w, s, c)'
    <3>1. WorkerPhase(w, s, c)
      BY <2>3 DEF PhaseInv
    <3>2. /\ UNCHANGED <<docs, chunks, suspect>> /\ pc[w] = "bump" /\ pc'[w] = "ack"
          /\ stale'[w] = stale[w] /\ embed'[w] = embed[w] /\ docId'[w] = docId[w] /\ target'[w] = target[w]
      BY <1>0, <1>18 DEF Bump, Return
    <3>3. /\ Sound(s) => Sound(s)'
          /\ NothingStale(s, c) => NothingStale(s, c)'
          /\ Covered(w, s, c) => Covered(w, s, c)'
      BY <3>2, Still
    <3> QED
      BY <3>1, <3>2, <3>3 DEF WorkerPhase
  <2> QED
    BY <2>1, <2>2, <2>3, WorkerStep
<1>19. ASSUME NEW d \in Deleters, DeleteStart(d) PROVE PhaseInv'
  <2> PICK s \in Sources : docs[s].id # 0 /\ Enter(d, s)
                           /\ del' = [del EXCEPT ![d] = [pc |-> "graph", source |-> s, doc |-> docs[s].id]]
    BY <1>19 DEF DeleteStart
  <2>1. Frame(d, s)
    BY <1>0, <1>19 DEF DeleteStart, Enter, WorksOn, Deletes, SoloInv, Frame
  <2>2. /\ UNCHANGED <<docs, chunks>> /\ del'[d].pc # "idle" /\ del'[d].source = s
        /\ del'[d].doc = docs[s].id /\ d \notin solo
    BY <1>0, <1>19 DEF DeleteStart, SoloInv
  <2>3. ASSUME d \in solo' PROVE DeleterPhase(d, s)'
    <3>1. ~Active(s) /\ suspect' = suspect
      BY <2>2, <2>3 DEF Enter
    <3>2. Sound(s)'
      BY <2>2, <3>1, Still DEF PhaseInv
    <3> QED
      BY <2>2, <3>2 DEF DeleterPhase
  <2> QED
    BY <2>1, <2>2, <2>3, DeleterStep
<1>20. ASSUME NEW d \in Deleters, DeleteGraph(d) PROVE PhaseInv'
  <2> PICK s \in Sources : del[d].source = s
    BY <1>20 DEF DeleteGraph, TypeInv, JobsOK
  <2>1. Frame(d, s)
    BY <1>20, DeleterFramed DEF Removes, Delete
  <2>2. d \in solo' => DeleterPhase(d, s)'
    <3>1. /\ UNCHANGED <<docs, chunks, suspect, solo>> /\ del[d].pc = "graph" /\ del'[d].doc = del[d].doc
      BY <1>0, <1>20 DEF DeleteGraph, Deletion
    <3>2. Sound(s) => Sound(s)'
      BY <3>1, Still
    <3> QED
      BY <3>1, <3>2 DEF PhaseInv, DeleterPhase
  <2>3. del'[d].pc # "idle" /\ del'[d].source = s
    BY <1>0, <1>20 DEF DeleteGraph, Deletion
  <2> QED
    BY <2>1, <2>2, <2>3, DeleterStep
<1>21. ASSUME NEW d \in Deleters, DeleteChunks(d) PROVE PhaseInv'
  <2> PICK s \in Sources : del[d].source = s
    BY <1>21 DEF DeleteChunks, TypeInv, JobsOK
  <2>1. Frame(d, s)
    BY <1>21, DeleterFramed DEF Removes, Delete
  <2>2. d \in solo' => DeleterPhase(d, s)'
    BY <1>0, <1>21 DEF DeleteChunks, PhaseInv, DeleterPhase, Deletion
  <2>3. del'[d].pc # "idle" /\ del'[d].source = s
    BY <1>0, <1>21 DEF DeleteChunks, Deletion
  <2> QED
    BY <2>1, <2>2, <2>3, DeleterStep
<1>22. ASSUME NEW d \in Deleters, DeleteVespa(d) PROVE PhaseInv'
  <2> PICK s \in Sources : del[d].source = s
    BY <1>22 DEF DeleteVespa, TypeInv, JobsOK
  <2>1. Frame(d, s)
    BY <1>22, DeleterFramed DEF Removes, Delete
  <2>2. d \in solo' => DeleterPhase(d, s)'
    BY <1>0, <1>22 DEF DeleteVespa, PhaseInv, DeleterPhase, Deletion
  <2>3. del'[d].pc # "idle" /\ del'[d].source = s
    BY <1>0, <1>22 DEF DeleteVespa, Deletion
  <2> QED
    BY <2>1, <2>2, <2>3, DeleterStep
<1>23. ASSUME NEW d \in Deleters, DeleteRow(d) PROVE PhaseInv'
  <2> PICK s \in Sources : del[d].source = s
    BY <1>23 DEF DeleteRow, TypeInv, JobsOK
  <2>1. Frame(d, s)
    BY <1>23, DeleterFramed DEF Removes, Delete
  <2>2. Sound(s)' /\ d \notin solo' /\ del'[d].pc = "idle"
    BY <1>0, <1>23 DEF DeleteRow, IdleDeletion, NoDoc, SoloInv, PhaseInv, DeleterPhase, Sound, Matches, Deletion
  <2> QED
    BY <2>1, <2>2, DeleterStep
<1>24. ASSUME NEW d \in Deleters, DeleteAbort(d) PROVE PhaseInv'
  <2> PICK s \in Sources : del[d].source = s
    BY <1>24 DEF DeleteAbort, TypeInv, JobsOK
  <2>1. Frame(d, s)
    BY <1>24, DeleterFramed DEF Removes, Delete
  <2>2. /\ UNCHANGED <<docs, chunks>> /\ d \notin solo' /\ del'[d].pc = "idle" /\ del[d].pc # "idle"
        /\ suspect' = IF del[d].pc \in {"vespa", "row"} THEN suspect \cup {s} ELSE suspect
    BY <1>0, <1>24 DEF DeleteAbort, IdleDeletion
  <2>3. Sound(s) => Sound(s)'
    BY <2>2, Still
  <2>4. d \in solo /\ del[d].pc \in {"graph", "chunks"} => Sound(s)
    BY DEF PhaseInv, DeleterPhase
  <2>5. Sound(s)'
    BY <1>0, <2>2, <2>3, <2>4 DEF SoloInv, Sound, Deletion
  <2> QED
    BY <2>1, <2>2, <2>5, DeleterStep
<1>26. ASSUME NEW w \in Workers, Unready(w) PROVE PhaseInv'
  BY <1>26, Idling DEF Unready
<1>25. CASE UNCHANGED vars
  BY <1>25, Idling DEF vars
<1> QED
  BY <1>1, <1>2, <1>3, <1>4, <1>5, <1>6, <1>7, <1>8, <1>9, <1>10, <1>11, <1>12, <1>13, <1>14, <1>15, <1>16, <1>17, <1>18, <1>19, <1>20, <1>21, <1>22, <1>23, <1>24, <1>25, <1>26
     DEF Next, Work, Delete

-----------------------------------------------------------------------------
(* The theorem *)

\* The quantified form implies the set equation of Exact.
LEMMA MatchesExact == ASSUME NEW s \in Sources, Matches(s) PROVE Exact(s)
BY DEF Matches, Exact, StoredTexts, RowsOf

\* Whatever the number of workers, deletions, crashes and errors, a source at
\* rest whose last writer ran undisturbed has exactly the chunk rows of the
\* version its documents row records.
THEOREM Consistent == Spec => []ConsistentAtRest
<1>1. Init => Inv
  BY TypeInit, OwnInit, SoloInit, PhaseInit DEF Inv
<1>2. Inv /\ [Next]_vars => Inv'
  BY TypeStep, OwnStep, SoloStep, PhaseStep DEF Inv
<1>3. Inv => ConsistentAtRest
  BY MatchesExact DEF Inv, PhaseInv, Sound, ConsistentAtRest
<1> QED
  BY <1>1, <1>2, <1>3, PTL DEF Spec

\* A step that removes a chunk row is a stale delete of its ingest or part of a
\* deletion of its document.
LEMMA KeptStep ==
  ASSUME TypeInv, OwnInv, [Next]_vars, NEW r \in chunks \ chunks'
  PROVE  \/ \E d \in Deleters : del[d].pc # "idle" /\ del[d].doc = r.doc /\ del'[d] # del[d]
         \/ \E w \in Workers : /\ pc[w] = "deleteStale" /\ pc'[w] # pc[w]
                              /\ r.text \notin TextsOf(task[w].content)
<1> USE DEF broker, db, indexes, locals, budget, ghost
<1>0. pc \in [Workers -> WorkerPc] /\ del \in [Deleters -> Deletion]
  BY DEF TypeInv, TypeOK
<1>1. CASE Submit
  BY <1>1 DEF Submit
<1>2. ASSUME NEW w \in Workers, DeleteStale(w)
      PROVE  pc[w] = "deleteStale" /\ pc'[w] # pc[w] /\ r.text \notin TextsOf(task[w].content)
  BY <1>0, <1>2 DEF DeleteStale, OwnInv, WorkersOwn
<1>3. ASSUME NEW w \in Workers, Work(w) \/ Crash(w) \/ Raise(w) \/ Unready(w), ~DeleteStale(w) PROVE FALSE
  BY <1>3 DEF Work, Start, Ack, Crash, Raise, Unready, Lookup, Diff, VespaDelete, UpsertRead, UpsertUpdate,
              UpsertInsert, UpsertConflict, SaveChunks, SaveOrphans, BuildGraph, Feed, Bump
<1>4. ASSUME NEW d \in Deleters, DeleteChunks(d) \/ DeleteRow(d)
      PROVE  del[d].pc # "idle" /\ del[d].doc = r.doc /\ del'[d] # del[d]
  BY <1>0, <1>4 DEF DeleteChunks, DeleteRow, Deletion, IdleDeletion
<1>5. ASSUME NEW d \in Deleters, DeleteStart(d) \/ DeleteGraph(d) \/ DeleteVespa(d) \/ DeleteAbort(d)
      PROVE  FALSE
  BY <1>5 DEF DeleteStart, DeleteGraph, DeleteVespa, DeleteAbort
<1>6. CASE UNCHANGED vars
  BY <1>6 DEF vars
<1> QED
  BY <1>1, <1>2, <1>3, <1>4, <1>5, <1>6 DEF Next, Delete

\* However stale the diff of an ingest is, the rows it deletes are rows whose
\* text the version it brings does not have.
THEOREM Kept == Spec => KeptChunksUntouched
<1>1. Init => TypeInv /\ OwnInv
  BY TypeInit, OwnInit
<1>2. TypeInv /\ OwnInv /\ [Next]_vars => (TypeInv /\ OwnInv)'
  BY TypeStep, OwnStep
<1>3. ASSUME TypeInv, OwnInv, [Next]_vars
      PROVE  [\A r \in chunks \ chunks' :
                \/ \E d \in Deleters : del[d].pc # "idle" /\ del[d].doc = r.doc /\ del'[d] # del[d]
                \/ \E w \in Workers : /\ pc[w] = "deleteStale" /\ pc'[w] # pc[w]
                                     /\ r.text \notin TextsOf(task[w].content)]_vars
  BY <1>3, KeptStep
<1> QED
  BY <1>1, <1>2, <1>3, PTL DEF Spec, KeptChunksUntouched

-----------------------------------------------------------------------------
(* The indexes and duplicates *)

\* Document ids and batches of chunk ids have owners, the sources they were made for,
\* and every store and every local variable agrees on them.
StoresOwned(docOwner, batchOwner) ==
    /\ \A s \in Sources : docs[s].id # 0 => docOwner[docs[s].id] = s
    /\ \A r \in chunks : batchOwner[r.id[1]] = docOwner[r.doc]
    /\ \A v \in vespa : docOwner[v.doc] = v.source /\ batchOwner[v.id[1]] = v.source
WorkerOwned(w, docOwner, batchOwner) ==
    pc[w] # "idle" =>
        /\ docId[w] # 0 => docOwner[docId[w]] = task[w].source
        /\ target[w] # 0 => docOwner[target[w]] = task[w].source
        /\ \A i \in stale[w] : batchOwner[i[1]] = task[w].source
        /\ \A r \in saved[w] : docOwner[r.doc] = task[w].source /\ batchOwner[r.id[1]] = task[w].source
Owned(docOwner, batchOwner) ==
    /\ StoresOwned(docOwner, batchOwner)
    /\ \A w \in Workers : WorkerOwned(w, docOwner, batchOwner)
    /\ \A d \in Deleters : del[d].pc # "idle" => docOwner[del[d].doc] = del[d].source
Owners == [Nat -> Sources \cup {NoTask}]
IndexIds ==
    /\ \A v \in vespa : v.doc < nextDoc /\ v.id[1] < nextBatch
    /\ \A w \in Workers : \A r \in saved[w] : r.doc < nextDoc /\ r.id[1] < nextBatch
    /\ \A w \in Workers : pc[w] \in {"idle", "lookup"} => saved[w] = {}
OwnerInv == IndexIds /\ \E docOwner \in Owners, batchOwner \in Owners : Owned(docOwner, batchOwner)

\* Is row x in Vespa for source s, and is it in Postgres?
Fed(x, s) == \E v \in vespa : v.source = s /\ v.id = x.id /\ v.doc = x.doc /\ v.text = x.text
Stored(x, s) == x \in chunks /\ x.doc = docs[s].id

\* Vespa holds the rows of source s, and the graph a node for each of them.
Mirrored(s) == \A x \in Row : Fed(x, s) <=> Stored(x, s)
NodeOf(x, s) == [source |-> s, text |-> x.text]
Noded(s) == \A x \in Row : Stored(x, s) => NodeOf(x, s) \in graph
InSync(s) == Mirrored(s) /\ Noded(s)

\* All index writes of s have succeeded, and s was never contended.
Tracked(s) == s \notin drift /\ s \notin contended

\* What the indexes of a tracked source lack at each stage of its solo ingest w.
WorkerSync(w, s) ==
    /\ pc[w] \in {"lookup", "diff", "deleteStale", "upsertRead", "upsertWrite", "save", "bump", "ack"}
         => InSync(s)
    /\ pc[w] = "vespaDelete" =>
         Noded(s) /\ \A x \in Row : Fed(x, s) /\ x.id \notin stale[w] <=> Stored(x, s)
    /\ pc[w] \in {"graph", "feed"} => \A x \in Row : Fed(x, s) \/ x \in saved[w] <=> Stored(x, s)
    /\ pc[w] = "graph" => \A x \in Row : Stored(x, s) /\ x \notin saved[w] => NodeOf(x, s) \in graph
    /\ pc[w] = "feed" => Noded(s)

\* ... and of its solo deletion d.
DeleterSync(d, s) ==
    /\ del[d].pc = "graph" => InSync(s)
    /\ del[d].pc = "chunks" => Mirrored(s)
    /\ del[d].pc = "vespa" => \A x \in Row : ~Stored(x, s) /\ (Fed(x, s) => x.doc = del[d].doc)
    /\ del[d].pc = "row" => \A x \in Row : ~Stored(x, s) /\ ~Fed(x, s)

\* What a solo ingest is about to embed is not stored yet.
Fresh(w, s, c) ==
    pc[w] \in {"deleteStale", "vespaDelete", "upsertRead", "upsertWrite", "save"} =>
        \A i \in embed[w], x \in Row : Stored(x, s) => x.text # ChunksOf[c][i]
OneBatch(s) == \A x, y \in Row : Stored(x, s) /\ Stored(y, s) /\ x.text = y.text => x.id[1] = y.id[1]

SyncInv ==
    /\ \A w \in Workers, s \in Sources, c \in Contents :
          w \in solo /\ task[w].source = s /\ task[w].content = c =>
             Fresh(w, s, c) /\ (Tracked(s) => WorkerSync(w, s))
    /\ \A d \in Deleters, s \in Sources : d \in solo /\ del[d].source = s /\ Tracked(s) => DeleterSync(d, s)
    /\ \A s \in Sources : ~Active(s) /\ Tracked(s) => InSync(s)
    /\ \A s \in Sources : s \notin contended => OneBatch(s)

IndexInv == OwnerInv /\ SyncInv

-----------------------------------------------------------------------------
(* Owners *)

\* The types of the indexes and of the rows in flight.
LEMMA IndexTyped ==
  ASSUME TypeInv
  PROVE  /\ vespa \subseteq VespaRow /\ graph \subseteq Node /\ saved \in [Workers -> SUBSET Row]
         /\ \A r \in Row : r.doc \in Nat /\ r.id \in ChunkId /\ r.id[1] \in Nat
         /\ \A v \in VespaRow : v.doc \in Nat /\ v.id \in ChunkId /\ v.id[1] \in Nat
BY DEF TypeInv, TypeOK, Row, VespaRow, ChunkId

\* What feed_chunks leaves in Vespa.
LEMMA FeedPuts ==
  ASSUME NEW w \in Workers, Feed(w)
  PROVE  \A v \in vespa' : v \in vespa \/ \E r \in saved[w] : /\ v.id = r.id /\ v.doc = r.doc
                                                             /\ v.source = task[w].source
<1> DEFINE puts == {[id |-> r.id, doc |-> r.doc, text |-> r.text, source |-> task[w].source,
                     access |-> task[w].access] : r \in saved[w]}
<1>1. PICK fed \in BestEffort(puts) : vespa' = {v \in vespa : \A p \in fed : p.id # v.id} \cup fed
  BY DEF Feed
<1>2. fed \subseteq puts
  BY DEF BestEffort
<1>3. \A v \in puts : \E r \in saved[w] : v.id = r.id /\ v.doc = r.doc /\ v.source = task[w].source
  OBVIOUS
<1> HIDE DEF puts
<1> QED
  BY <1>1, <1>2, <1>3

\* It replaces by id.
LEMMA FeedReplaces ==
  ASSUME NEW w \in Workers, Feed(w)
  PROVE  \A v \in vespa \ vespa' : \E r \in saved[w] : v.id = r.id
<1> DEFINE puts == {[id |-> r.id, doc |-> r.doc, text |-> r.text, source |-> task[w].source,
                     access |-> task[w].access] : r \in saved[w]}
<1>1. PICK fed \in BestEffort(puts) : vespa' = {v \in vespa : \A p \in fed : p.id # v.id} \cup fed
  BY DEF Feed
<1>2. fed \subseteq puts
  BY DEF BestEffort
<1>3. \A p \in puts : \E r \in saved[w] : p.id = r.id
  OBVIOUS
<1> HIDE DEF puts
<1> QED
  BY <1>1, <1>2, <1>3

\* Every step agrees with the owners: a new document id or batch gets one.
LEMMA OwnerStep ==
  ASSUME TypeInv, TypeInv', OwnInv, OwnInv', IndexIds, [Next]_vars,
         NEW f \in Owners, NEW g \in Owners, Owned(f, g)
  PROVE  \E f2 \in Owners, g2 \in Owners : Owned(f2, g2)'
<1> USE DEF broker, db, indexes, locals, budget, ghost
<1>0. /\ Types /\ saved \in [Workers -> SUBSET Row] /\ vespa \subseteq VespaRow
      /\ StoresOwned(f, g) /\ (\A u \in Workers : WorkerOwned(u, f, g))
      /\ \A e \in Deleters : del[e].pc # "idle" => f[del[e].doc] = del[e].source
  BY Typed, IndexTyped DEF Owned
<1> USE DEF Types
<1>1. CASE Submit
  BY <1>0, <1>1 DEF Submit, Owned, StoresOwned, WorkerOwned
<1>2. ASSUME NEW w \in Workers, Start(w) PROVE Owned(f, g)'
  BY <1>0, <1>2 DEF Start, Owned, StoresOwned, WorkerOwned, IndexIds
<1>3. ASSUME NEW w \in Workers, Ack(w) PROVE Owned(f, g)'
  BY <1>0, <1>3 DEF Ack, Free, Owned, StoresOwned, WorkerOwned
<1>4. ASSUME NEW w \in Workers, Crash(w) PROVE Owned(f, g)'
  BY <1>0, <1>4 DEF Crash, Free, Interrupted, Owned, StoresOwned, WorkerOwned
<1>5. ASSUME NEW w \in Workers, Raise(w) PROVE Owned(f, g)'
  BY <1>0, <1>5 DEF Raise, Fail, Return, Interrupted, Owned, StoresOwned, WorkerOwned
<1>6. ASSUME NEW w \in Workers, Lookup(w) PROVE Owned(f, g)'
  <2>1. /\ UNCHANGED <<docs, chunks, vespa, task, target, stale, saved, del>> /\ pc[w] = "lookup"
        /\ docId'[w] = docs[task[w].source].id
        /\ \A u \in Workers : u # w => pc'[u] = pc[u] /\ docId'[u] = docId[u]
    BY <1>0, <1>6 DEF Lookup, Return
  <2>2. ASSUME NEW u \in Workers PROVE WorkerOwned(u, f, g)'
    BY <1>0, <2>1 DEF StoresOwned, WorkerOwned
  <2>3. StoresOwned(f, g)'
    BY <1>0, <2>1 DEF StoresOwned
  <2> QED
    BY <1>0, <2>1, <2>2, <2>3 DEF Owned
<1>7. ASSUME NEW w \in Workers, Diff(w) PROVE Owned(f, g)'
  <2>1. \A i \in stale'[w] : \E r \in chunks : r.id = i /\ r.doc = docId[w]
    BY <1>0, <1>7 DEF Diff, StaleIds, RowsOf
  <2>2. \A i \in stale'[w] : g[i[1]] = task[w].source
    BY <1>0, <1>7, <2>1 DEF Diff, StoresOwned, WorkerOwned, OwnInv, IdsOK
  <2> QED
    BY <1>0, <1>7, <2>2 DEF Diff, Owned, StoresOwned, WorkerOwned
<1>8. ASSUME NEW w \in Workers, DeleteStale(w) PROVE Owned(f, g)'
  BY <1>0, <1>8 DEF DeleteStale, Owned, StoresOwned, WorkerOwned
<1>9. ASSUME NEW w \in Workers, VespaDelete(w) PROVE Owned(f, g)'
  BY <1>0, <1>9 DEF VespaDelete, Owned, StoresOwned, WorkerOwned
<1>10. ASSUME NEW w \in Workers, UpsertRead(w) PROVE Owned(f, g)'
  BY <1>0, <1>10 DEF UpsertRead, Owned, StoresOwned, WorkerOwned
<1>11. ASSUME NEW w \in Workers, UpsertUpdate(w) PROVE Owned(f, g)'
  BY <1>0, <1>11 DEF UpsertUpdate, AfterUpsert, Return, Owned, StoresOwned, WorkerOwned
<1>12. ASSUME NEW w \in Workers, UpsertConflict(w) PROVE Owned(f, g)'
  BY <1>0, <1>12 DEF UpsertConflict, Fail, Return, Interrupted, Owned, StoresOwned, WorkerOwned
<1>13. ASSUME NEW w \in Workers, SaveOrphans(w) PROVE Owned(f, g)'
  BY <1>0, <1>13 DEF SaveOrphans, Fail, Return, Interrupted, Owned, StoresOwned, WorkerOwned
<1>14. ASSUME NEW w \in Workers, BuildGraph(w) PROVE Owned(f, g)'
  BY <1>0, <1>14 DEF BuildGraph, Owned, StoresOwned, WorkerOwned
<1>15. ASSUME NEW w \in Workers, Feed(w) PROVE Owned(f, g)'
  <2>1. \A v \in vespa' : v \in vespa \/ \E r \in saved[w] : /\ v.id = r.id /\ v.doc = r.doc
                                                            /\ v.source = task[w].source
    BY <1>0, <1>15, FeedPuts
  <2>2. \A v \in vespa' : f[v.doc] = v.source /\ g[v.id[1]] = v.source
    BY <1>0, <1>15, <2>1 DEF Feed, StoresOwned, WorkerOwned
  <2>3. UNCHANGED <<docs, chunks, docId, target, stale, saved, task, del>>
    BY <1>15 DEF Feed
  <2>4. StoresOwned(f, g)'
    BY <1>0, <2>2, <2>3 DEF StoresOwned
  <2> QED
    BY <1>0, <1>15, <2>3, <2>4 DEF Feed, Owned, WorkerOwned
<1>16. ASSUME NEW w \in Workers, Bump(w) PROVE Owned(f, g)'
  BY <1>0, <1>16 DEF Bump, Return, Owned, StoresOwned, WorkerOwned
<1>17. ASSUME NEW d \in Deleters, DeleteStart(d) PROVE Owned(f, g)'
  BY <1>0, <1>17 DEF DeleteStart, Owned, StoresOwned, WorkerOwned
<1>18. ASSUME NEW d \in Deleters, DeleteGraph(d) PROVE Owned(f, g)'
  BY <1>0, <1>18 DEF DeleteGraph, Owned, StoresOwned, WorkerOwned
<1>19. ASSUME NEW d \in Deleters, DeleteChunks(d) PROVE Owned(f, g)'
  BY <1>0, <1>19 DEF DeleteChunks, Owned, StoresOwned, WorkerOwned
<1>20. ASSUME NEW d \in Deleters, DeleteVespa(d) PROVE Owned(f, g)'
  BY <1>0, <1>20 DEF DeleteVespa, Owned, StoresOwned, WorkerOwned
<1>21. ASSUME NEW d \in Deleters, DeleteRow(d) PROVE Owned(f, g)'
  BY <1>0, <1>21 DEF DeleteRow, IdleDeletion, NoDoc, Owned, StoresOwned, WorkerOwned
<1>22. ASSUME NEW d \in Deleters, DeleteAbort(d) PROVE Owned(f, g)'
  BY <1>0, <1>22 DEF DeleteAbort, IdleDeletion, Owned, StoresOwned, WorkerOwned
<1>26. ASSUME NEW w \in Workers, Unready(w) PROVE Owned(f, g)'
  BY <1>0, <1>26 DEF Unready, Owned, StoresOwned, WorkerOwned
<1>23. CASE UNCHANGED vars
  BY <1>0, <1>23 DEF vars, Owned, StoresOwned, WorkerOwned
<1>24. ASSUME NEW w \in Workers, UpsertInsert(w) PROVE \E f2 \in Owners : Owned(f2, g)'
  <2> PICK s \in Sources : task[w].source = s
    BY <1>0, <1>24 DEF UpsertInsert
  <2>1. PICK f2 \in Owners : f2[nextDoc] = s /\ \A n \in Nat : n < nextDoc => f2[n] = f[n]
    <3> DEFINE h == [f EXCEPT ![nextDoc] = s]
    <3>1. h \in Owners /\ h[nextDoc] = s /\ \A n \in Nat : n < nextDoc => h[n] = f[n]
      BY <1>0 DEF Owners
    <3> HIDE DEF h
    <3> QED
      BY <3>1
  <2>2. /\ UNCHANGED <<chunks, vespa, task, target, stale, saved, del>>
        /\ docs'[s].id = nextDoc /\ \A z \in Sources : z # s => docs'[z] = docs[z]
        /\ \A u \in Workers : u # w => pc'[u] = pc[u] /\ docId'[u] = docId[u]
        /\ docId'[w] = docId[w] \/ docId'[w] = nextDoc
    BY <1>0, <1>24 DEF UpsertInsert, AfterUpsert, Return
  <2>3. \A z \in Sources : docs'[z].id # 0 => f2[docs'[z].id] = z
    BY <1>0, <2>1, <2>2 DEF StoresOwned, OwnInv, IdsOK
  <2>4. \A r \in chunks : g[r.id[1]] = f2[r.doc]
    BY <1>0, <2>1, IndexTyped DEF StoresOwned, OwnInv, IdsOK
  <2>5. \A v \in vespa : f2[v.doc] = v.source /\ g[v.id[1]] = v.source
    BY <1>0, <2>1, IndexTyped DEF StoresOwned, IndexIds
  <2>6. ASSUME NEW u \in Workers PROVE WorkerOwned(u, f2, g)'
    <3>1. \A r \in saved[u] : f2[r.doc] = f[r.doc]
      BY <1>0, <2>1, IndexTyped DEF IndexIds
    <3>2. pc[u] # "idle" => f2[docId[u]] = f[docId[u]] /\ f2[target[u]] = f[target[u]]
      BY <1>0, <2>1 DEF OwnInv, WorkersOwn
    <3>3. CASE u = w
      BY <1>0, <1>24, <2>1, <2>2, <3>1, <3>2, <3>3 DEF WorkerOwned, UpsertInsert
    <3>4. CASE u # w
      BY <1>0, <2>2, <3>1, <3>2, <3>4 DEF WorkerOwned
    <3> QED
      BY <3>3, <3>4
  <2>7. \A e \in Deleters : del[e].pc # "idle" => f2[del[e].doc] = del[e].source
    BY <1>0, <2>1 DEF OwnInv, DeletersOwn, Deletion
  <2>8. Owned(f2, g)'
    BY <2>2, <2>3, <2>4, <2>5, <2>6, <2>7 DEF Owned, StoresOwned
  <2> QED
    BY <2>1, <2>8
<1>25. ASSUME NEW w \in Workers, SaveChunks(w) PROVE \E g2 \in Owners : Owned(f, g2)'
  <2> PICK s \in Sources : task[w].source = s
    BY <1>0, <1>25 DEF SaveChunks
  <2>1. PICK g2 \in Owners : g2[nextBatch] = s /\ \A n \in Nat : n < nextBatch => g2[n] = g[n]
    <3> DEFINE h == [g EXCEPT ![nextBatch] = s]
    <3>1. h \in Owners /\ h[nextBatch] = s /\ \A n \in Nat : n < nextBatch => h[n] = g[n]
      BY <1>0 DEF Owners
    <3> HIDE DEF h
    <3> QED
      BY <3>1
  <2>2. /\ UNCHANGED <<docs, vespa, task, docId, target, stale, del>>
        /\ chunks' = chunks \cup NewRows(w) /\ saved'[w] = NewRows(w)
        /\ pc[w] = "save" /\ pc'[w] # "idle"
        /\ \A u \in Workers : u # w => pc'[u] = pc[u] /\ saved'[u] = saved[u]
    BY <1>0, <1>25 DEF SaveChunks
  <2>3. f[docId[w]] = s
    BY <1>0, <2>2 DEF WorkerOwned, OwnInv, WorkersOwn
  <2>4. \A r \in NewRows(w) : r.doc = docId[w] /\ r.id[1] = nextBatch
    BY DEF NewRows
  <2>5. \A r \in chunks' : g2[r.id[1]] = f[r.doc]
    BY <1>0, <2>1, <2>2, <2>3, <2>4, IndexTyped DEF StoresOwned, OwnInv, IdsOK
  <2>6. \A v \in vespa : f[v.doc] = v.source /\ g2[v.id[1]] = v.source
    BY <1>0, <2>1, IndexTyped DEF StoresOwned, IndexIds
  <2>7. ASSUME NEW u \in Workers PROVE WorkerOwned(u, f, g2)'
    <3>1. \A r \in saved[u] : g2[r.id[1]] = g[r.id[1]]
      BY <1>0, <2>1, IndexTyped DEF IndexIds
    <3>2. pc[u] # "idle" => \A i \in stale[u] : g2[i[1]] = g[i[1]]
      <4>1. \A i \in stale[u] : i[1] \in Nat
        BY <1>0 DEF ChunkId
      <4> QED
        BY <2>1, <4>1 DEF OwnInv, WorkersOwn
    <3>3. CASE u = w
      BY <1>0, <2>1, <2>2, <2>3, <2>4, <3>2, <3>3 DEF WorkerOwned
    <3>4. CASE u # w
      BY <1>0, <2>2, <3>1, <3>2, <3>4 DEF WorkerOwned
    <3> QED
      BY <3>3, <3>4
  <2>8. Owned(f, g2)'
    BY <1>0, <2>2, <2>5, <2>6, <2>7 DEF Owned, StoresOwned
  <2> QED
    BY <2>1, <2>8
<1> QED
  BY <1>1, <1>2, <1>3, <1>4, <1>5, <1>6, <1>7, <1>8, <1>9, <1>10, <1>11, <1>12, <1>13, <1>14, <1>15, <1>16, <1>17, <1>18, <1>19, <1>20, <1>21, <1>22, <1>23, <1>24, <1>25, <1>26
     DEF Next, Work, Delete

\* Ids in the indexes and in flight have been handed out.
LEMMA IndexIdsStep == TypeInv /\ OwnInv /\ IndexIds /\ [Next]_vars => IndexIds'
<1> SUFFICES ASSUME TypeInv, OwnInv, IndexIds, [Next]_vars PROVE IndexIds'
  OBVIOUS
<1> USE DEF broker, db, indexes, locals, budget, ghost
<1>0. Types /\ saved \in [Workers -> SUBSET Row]
  BY Typed, IndexTyped
<1> USE DEF Types
<1>1. CASE UNCHANGED <<vespa, nextDoc, nextBatch, saved, pc>>
  BY <1>1 DEF IndexIds
<1>2. ASSUME NEW w \in Workers, Start(w) PROVE IndexIds'
  BY <1>0, <1>2 DEF Start, IndexIds
<1>3. ASSUME NEW w \in Workers, Ack(w) PROVE IndexIds'
  BY <1>0, <1>3 DEF Ack, Free, IndexIds
<1>4. ASSUME NEW w \in Workers, Crash(w) PROVE IndexIds'
  BY <1>0, <1>4 DEF Crash, Free, IndexIds
<1>5. ASSUME NEW w \in Workers, Raise(w) PROVE IndexIds'
  BY <1>0, <1>5 DEF Raise, Fail, Return, IndexIds
<1>6. ASSUME NEW w \in Workers, Lookup(w) PROVE IndexIds'
  BY <1>0, <1>6 DEF Lookup, Return, IndexIds
<1>7. ASSUME NEW w \in Workers, Diff(w) PROVE IndexIds'
  BY <1>0, <1>7 DEF Diff, IndexIds
<1>8. ASSUME NEW w \in Workers, DeleteStale(w) PROVE IndexIds'
  BY <1>0, <1>8 DEF DeleteStale, IndexIds
<1>9. ASSUME NEW w \in Workers, VespaDelete(w) PROVE IndexIds'
  BY <1>0, <1>9 DEF VespaDelete, IndexIds
<1>10. ASSUME NEW w \in Workers, UpsertRead(w) PROVE IndexIds'
  BY <1>0, <1>10 DEF UpsertRead, IndexIds
<1>11. ASSUME NEW w \in Workers, UpsertUpdate(w) PROVE IndexIds'
  BY <1>0, <1>11 DEF UpsertUpdate, AfterUpsert, Return, IndexIds
<1>12. ASSUME NEW w \in Workers, UpsertInsert(w) PROVE IndexIds'
  BY <1>0, <1>12, IndexTyped DEF UpsertInsert, AfterUpsert, Return, IndexIds
<1>13. ASSUME NEW w \in Workers, UpsertConflict(w) PROVE IndexIds'
  BY <1>0, <1>13 DEF UpsertConflict, Fail, Return, IndexIds
<1>14. ASSUME NEW w \in Workers, SaveOrphans(w) PROVE IndexIds'
  BY <1>0, <1>14 DEF SaveOrphans, Fail, Return, IndexIds
<1>15. ASSUME NEW w \in Workers, BuildGraph(w) PROVE IndexIds'
  BY <1>0, <1>15 DEF BuildGraph, IndexIds
<1>16. ASSUME NEW w \in Workers, Bump(w) PROVE IndexIds'
  BY <1>0, <1>16 DEF Bump, Return, IndexIds
<1>17. ASSUME NEW w \in Workers, SaveChunks(w) PROVE IndexIds'
  <2>1. /\ UNCHANGED <<vespa, nextDoc>> /\ nextBatch' = nextBatch + 1 /\ pc'[w] = "graph"
        /\ saved'[w] = NewRows(w) /\ pc[w] = "save"
        /\ \A u \in Workers : u # w => pc'[u] = pc[u] /\ saved'[u] = saved[u]
    BY <1>0, <1>17 DEF SaveChunks
  <2>2. \A r \in NewRows(w) : r.doc < nextDoc /\ r.id[1] < nextBatch + 1
    BY <1>0, <2>1 DEF NewRows, OwnInv, WorkersOwn
  <2>3. \A u \in Workers : \A r \in saved[u] : r.id[1] < nextBatch + 1
    BY <1>0, IndexTyped DEF IndexIds
  <2>4. \A v \in vespa : v.id[1] < nextBatch + 1
    BY <1>0, IndexTyped DEF IndexIds
  <2> QED
    BY <1>0, <2>1, <2>2, <2>3, <2>4 DEF IndexIds
<1>18. ASSUME NEW w \in Workers, Feed(w) PROVE IndexIds'
  <2>1. \A v \in vespa' : v.doc < nextDoc /\ v.id[1] < nextBatch
    BY <1>18, FeedPuts DEF IndexIds
  <2> QED
    BY <1>0, <1>18, <2>1 DEF Feed, IndexIds
<1>19. ASSUME NEW d \in Deleters, DeleteVespa(d) PROVE IndexIds'
  BY <1>19 DEF DeleteVespa, IndexIds
<1>20. ASSUME NEW d \in Deleters, DeleteStart(d) \/ DeleteGraph(d) \/ DeleteChunks(d) \/ DeleteRow(d) \/ DeleteAbort(d)
      PROVE  IndexIds'
  BY <1>1, <1>20 DEF DeleteStart, DeleteGraph, DeleteChunks, DeleteRow, DeleteAbort
<1> QED
  BY <1>1, <1>2, <1>3, <1>4, <1>5, <1>6, <1>7, <1>8, <1>9, <1>10, <1>11, <1>12, <1>13, <1>14, <1>15, <1>16, <1>17, <1>18, <1>19, <1>20
     DEF Next, Work, Delete, Submit, Unready, vars

-----------------------------------------------------------------------------
(* The stages of the indexes *)

\* What Frame says of Postgres, for the indexes and the histories about them.
IndexFrame(p, s0) ==
    /\ \A s \in Sources : s # s0 =>
          /\ (s \in drift' <=> s \in drift) /\ (s \in contended' <=> s \in contended)
          /\ \A v \in VespaRow : v.source = s => (v \in vespa' <=> v \in vespa)
          /\ \A n \in Node : n.source = s => (n \in graph' <=> n \in graph)
    /\ drift \subseteq drift' /\ contended \subseteq contended'
    /\ \A u \in Workers : u # p => saved'[u] = saved[u]

\* A step of an ingest touches the index entries of its own source only: stale ids
\* and new rows belong to it.
LEMMA WorkerIndexFramed ==
  ASSUME TypeInv, OwnerInv, NEW w \in Workers, NEW s0 \in Sources, task[w].source = s0, Moves(w)
  PROVE  IndexFrame(w, s0) /\ contended' = contended
<1> USE DEF broker, db, indexes, locals, budget, ghost
<1>0. Types /\ saved \in [Workers -> SUBSET Row] /\ vespa \subseteq VespaRow /\ graph \subseteq Node
  BY Typed, IndexTyped
<1>a. PICK f \in Owners, g \in Owners : Owned(f, g)
  BY DEF OwnerInv
<1> USE DEF Types
<1>1. CASE Ack(w) \/ Crash(w) \/ Raise(w) \/ UpsertConflict(w) \/ SaveOrphans(w)
  BY <1>0, <1>1 DEF Ack, Crash, Raise, UpsertConflict, SaveOrphans, Free, Fail, Return, Interrupted, IndexFrame
<1>2. CASE Lookup(w) \/ Diff(w) \/ DeleteStale(w) \/ UpsertRead(w) \/ Bump(w)
  BY <1>0, <1>2 DEF Lookup, Diff, DeleteStale, UpsertRead, Bump, IndexFrame
<1>3. CASE UpsertUpdate(w) \/ UpsertInsert(w) \/ SaveChunks(w)
  BY <1>0, <1>3 DEF UpsertUpdate, UpsertInsert, AfterUpsert, Return, SaveChunks, IndexFrame
<1>4. CASE VespaDelete(w)
  <2>1. /\ UNCHANGED <<graph, saved, contended>> /\ drift \subseteq drift' /\ drift' \subseteq drift \cup {s0}
        /\ vespa' \subseteq vespa /\ \A v \in vespa \ vespa' : v.id \in stale[w]
    BY <1>4 DEF VespaDelete, BestEffort
  <2>2. \A v \in vespa \ vespa' : v.source = s0
    BY <1>4, <1>a, <2>1 DEF VespaDelete, Owned, StoresOwned, WorkerOwned
  <2> QED
    BY <2>1, <2>2 DEF IndexFrame
<1>5. CASE BuildGraph(w)
  <2>1. /\ UNCHANGED <<vespa, saved, contended>> /\ drift \subseteq drift' /\ drift' \subseteq drift \cup {s0}
        /\ graph \subseteq graph' /\ \A n \in graph' \ graph : n.source = s0
    BY <1>5 DEF BuildGraph, BestEffort
  <2> QED
    BY <2>1 DEF IndexFrame
<1>6. CASE Feed(w)
  <2>1. UNCHANGED <<graph, saved, contended>> /\ drift \subseteq drift' /\ drift' \subseteq drift \cup {s0}
    BY <1>6 DEF Feed
  <2>2. \A v \in vespa' : v \in vespa \/ v.source = s0
    BY <1>6, FeedPuts
  <2>3. \A v \in vespa \ vespa' : \E r \in saved[w] : v.id = r.id
    BY <1>6, FeedReplaces
  <2>4. \A v \in vespa \ vespa' : v.source = s0
    BY <1>6, <1>a, <2>3 DEF Feed, Owned, StoresOwned, WorkerOwned
  <2> QED
    BY <2>1, <2>2, <2>4 DEF IndexFrame
<1> QED
  BY <1>1, <1>2, <1>3, <1>4, <1>5, <1>6 DEF Moves

\* So does a step of a deletion, by the document id it holds.
LEMMA DeleterIndexFramed ==
  ASSUME TypeInv, OwnerInv, NEW d \in Deleters, NEW s0 \in Sources, del[d].source = s0, Removes(d)
  PROVE  IndexFrame(d, s0) /\ contended' = contended
<1> USE DEF broker, db, indexes, locals, budget, ghost
<1>a. PICK f \in Owners, g \in Owners : Owned(f, g)
  BY DEF OwnerInv
<1>1. CASE DeleteChunks(d) \/ DeleteRow(d) \/ DeleteAbort(d)
  BY <1>1 DEF DeleteChunks, DeleteRow, DeleteAbort, IndexFrame
<1>2. CASE DeleteGraph(d)
  <2>1. /\ UNCHANGED <<vespa, saved, contended>> /\ drift \subseteq drift' /\ drift' \subseteq drift \cup {s0}
        /\ graph' \subseteq graph /\ \A n \in graph \ graph' : n.source = s0
    BY <1>2 DEF DeleteGraph
  <2> QED
    BY <2>1 DEF IndexFrame
<1>3. CASE DeleteVespa(d)
  <2>1. /\ UNCHANGED <<graph, saved, contended>> /\ drift \subseteq drift' /\ drift' \subseteq drift \cup {s0}
        /\ vespa' \subseteq vespa /\ \A v \in vespa \ vespa' : v.doc = del[d].doc
    BY <1>3 DEF DeleteVespa, BestEffort
  <2>2. \A v \in vespa \ vespa' : v.source = s0
    BY <1>3, <1>a, <2>1 DEF DeleteVespa, Owned, StoresOwned
  <2> QED
    BY <2>1, <2>2 DEF IndexFrame
<1> QED
  BY <1>1, <1>2, <1>3 DEF Removes, Delete

\* The index entries of the sources a step does not concern stay.
LEMMA SyncFrame ==
  ASSUME TypeInv, TypeInv', OwnInv, OwnInv', NEW p, NEW s0, Frame(p, s0), IndexFrame(p, s0),
         NEW s \in Sources, s # s0
  PROVE  /\ \A x \in Row : /\ Fed(x, s)' <=> Fed(x, s)
                           /\ Stored(x, s)' <=> Stored(x, s)
                           /\ NodeOf(x, s) \in graph' <=> NodeOf(x, s) \in graph
         /\ Tracked(s)' <=> Tracked(s)
<1>1. /\ docs'[s] = docs[s] /\ \A r \in Row : r.doc = docs[s].id => (r \in chunks' <=> r \in chunks)
  BY SoundFrame
<1>2. vespa \subseteq VespaRow /\ vespa' \subseteq VespaRow
  BY DEF TypeInv, TypeOK
<1>3. ASSUME NEW x \in Row PROVE Fed(x, s)' <=> Fed(x, s)
  BY <1>2 DEF Fed, IndexFrame
<1>4. ASSUME NEW x \in Row PROVE Stored(x, s)' <=> Stored(x, s)
  BY <1>1 DEF Stored
<1>5. ASSUME NEW x \in Row PROVE NodeOf(x, s) \in graph' <=> NodeOf(x, s) \in graph
  <2>1. NodeOf(x, s) \in Node /\ NodeOf(x, s).source = s
    BY DEF NodeOf, Node, Row
  <2> QED
    BY <2>1 DEF IndexFrame
<1> QED
  BY <1>3, <1>4, <1>5 DEF Tracked, IndexFrame

\* A step of another process leaves what the indexes lack of a solo ingest's source.
LEMMA WorkerSyncFrame ==
  ASSUME TypeInv, TypeInv', OwnInv, OwnInv', SyncInv,
         NEW p, NEW s0, Frame(p, s0), IndexFrame(p, s0), NEW u \in Workers, u # p, u \in solo',
         NEW s \in Sources, NEW c \in Contents, task'[u].source = s, task'[u].content = c
  PROVE  Fresh(u, s, c)' /\ (Tracked(s)' => WorkerSync(u, s)')
<1>1. /\ pc'[u] = pc[u] /\ task'[u] = task[u] /\ stale'[u] = stale[u] /\ embed'[u] = embed[u]
      /\ saved'[u] = saved[u] /\ u \in solo /\ s # s0
  BY DEF Frame, IndexFrame
<1>2. Fresh(u, s, c) /\ (Tracked(s) => WorkerSync(u, s))
  BY <1>1 DEF SyncInv
<1>3. /\ \A x \in Row : /\ Fed(x, s)' <=> Fed(x, s)
                        /\ Stored(x, s)' <=> Stored(x, s)
                        /\ NodeOf(x, s) \in graph' <=> NodeOf(x, s) \in graph
      /\ Tracked(s)' <=> Tracked(s)
  BY <1>1, SyncFrame
<1>4. Fresh(u, s, c)'
  BY <1>1, <1>2, <1>3 DEF Fresh
<1>5. ASSUME Tracked(s)' PROVE WorkerSync(u, s)'
  <2>1. WorkerSync(u, s)
    BY <1>2, <1>3, <1>5
  <2>3. (Mirrored(s) => Mirrored(s)') /\ (Noded(s) => Noded(s)')
    BY <1>3 DEF Mirrored, Noded, NodeOf
  <2> QED
    BY <1>1, <1>3, <2>1, <2>3 DEF WorkerSync, InSync, NodeOf
<1> QED
  BY <1>4, <1>5

\* ... and of a solo deletion's source.
LEMMA DeleterSyncFrame ==
  ASSUME TypeInv, TypeInv', OwnInv, OwnInv', SyncInv,
         NEW p, NEW s0, Frame(p, s0), IndexFrame(p, s0), NEW e \in Deleters, e # p, e \in solo',
         NEW s \in Sources, del'[e].source = s, Tracked(s)'
  PROVE  DeleterSync(e, s)'
<1>1. del'[e] = del[e] /\ e \in solo /\ s # s0
  BY DEF Frame
<1>2. /\ \A x \in Row : /\ Fed(x, s)' <=> Fed(x, s)
                        /\ Stored(x, s)' <=> Stored(x, s)
                        /\ NodeOf(x, s) \in graph' <=> NodeOf(x, s) \in graph
      /\ Tracked(s)' <=> Tracked(s)
  BY <1>1, SyncFrame
<1>3. DeleterSync(e, s)
  BY <1>1, <1>2 DEF SyncInv
<1>4. (Mirrored(s) => Mirrored(s)') /\ (Noded(s) => Noded(s)')
  BY <1>2 DEF Mirrored, Noded, NodeOf
<1> QED
  BY <1>1, <1>2, <1>3, <1>4 DEF DeleterSync, InSync

\* ... and of a source at rest, and nowhere does it add a second batch of a text.
LEMMA RestSyncFrame ==
  ASSUME TypeInv, TypeInv', OwnInv, OwnInv', SyncInv,
         NEW p, NEW s0, Frame(p, s0), IndexFrame(p, s0), NEW s \in Sources, s # s0
  PROVE  /\ ~Active(s)' /\ Tracked(s)' => InSync(s)'
         /\ s \notin contended' => OneBatch(s)'
<1>1. /\ \A x \in Row : /\ Fed(x, s)' <=> Fed(x, s)
                        /\ Stored(x, s)' <=> Stored(x, s)
                        /\ NodeOf(x, s) \in graph' <=> NodeOf(x, s) \in graph
      /\ Tracked(s)' <=> Tracked(s)
  BY SyncFrame
<1>2. ~Active(s)' => ~Active(s)
  <2>1. ASSUME NEW u \in Workers, WorksOn(u, s) PROVE WorksOn(u, s)'
    BY <2>1 DEF Frame, WorksOn
  <2>2. ASSUME NEW e \in Deleters, Deletes(e, s) PROVE Deletes(e, s)'
    BY <2>2 DEF Frame, Deletes
  <2> QED
    BY <2>1, <2>2 DEF Active
<1>3. (Mirrored(s) => Mirrored(s)') /\ (Noded(s) => Noded(s)')
  BY <1>1 DEF Mirrored, Noded, NodeOf
<1>4. OneBatch(s) => OneBatch(s)'
  BY <1>1 DEF OneBatch
<1>5. s \notin contended' => s \notin contended
  BY DEF IndexFrame
<1> QED
  BY <1>1, <1>2, <1>3, <1>4, <1>5 DEF SyncInv, InSync

\* A step of worker w on source s0 keeps the stages of the indexes, given what it does on s0.
LEMMA WorkerSyncStep ==
  ASSUME TypeInv, TypeInv', OwnInv, OwnInv', SyncInv,
         NEW w \in Workers, NEW s0 \in Sources, Frame(w, s0), IndexFrame(w, s0),
         \A c \in Contents : w \in solo' /\ task'[w].content = c => Fresh(w, s0, c)',
         w \in solo' /\ Tracked(s0)' => WorkerSync(w, s0)',
         pc'[w] # "idle" => task'[w].source = s0,
         pc'[w] = "idle" => w \notin solo' /\ (Tracked(s0)' => InSync(s0)'),
         s0 \notin contended' => OneBatch(s0)'
  PROVE  SyncInv'
<1>1. ASSUME NEW u \in Workers, NEW s \in Sources, NEW c \in Contents,
             u \in solo', task'[u].source = s, task'[u].content = c
      PROVE  Fresh(u, s, c)' /\ (Tracked(s)' => WorkerSync(u, s)')
  BY <1>1, WorkerSyncFrame
<1>2. ASSUME NEW e \in Deleters, NEW s \in Sources, e \in solo', del'[e].source = s, Tracked(s)'
      PROVE  DeleterSync(e, s)'
  BY <1>2, DeleterSyncFrame, ConstantsAssumption
<1>3. ASSUME NEW s \in Sources, ~Active(s)', Tracked(s)' PROVE InSync(s)'
  <2>1. CASE s # s0
    BY <1>3, <2>1, RestSyncFrame
  <2>2. CASE s = s0
    BY <1>3, <2>2 DEF Active, WorksOn
  <2> QED
    BY <2>1, <2>2
<1>4. ASSUME NEW s \in Sources, s \notin contended' PROVE OneBatch(s)'
  BY <1>4, RestSyncFrame
<1> QED
  BY <1>1, <1>2, <1>3, <1>4 DEF SyncInv

\* Likewise for a deletion.
LEMMA DeleterSyncStep ==
  ASSUME TypeInv, TypeInv', OwnInv, OwnInv', SyncInv,
         NEW d \in Deleters, NEW s0 \in Sources, Frame(d, s0), IndexFrame(d, s0),
         d \in solo' /\ Tracked(s0)' => DeleterSync(d, s0)',
         del'[d].pc # "idle" => del'[d].source = s0,
         del'[d].pc = "idle" => d \notin solo' /\ (Tracked(s0)' => InSync(s0)'),
         s0 \notin contended' => OneBatch(s0)'
  PROVE  SyncInv'
<1>1. ASSUME NEW u \in Workers, NEW s \in Sources, NEW c \in Contents,
             u \in solo', task'[u].source = s, task'[u].content = c
      PROVE  Fresh(u, s, c)' /\ (Tracked(s)' => WorkerSync(u, s)')
  BY <1>1, WorkerSyncFrame, ConstantsAssumption
<1>2. ASSUME NEW e \in Deleters, NEW s \in Sources, e \in solo', del'[e].source = s, Tracked(s)'
      PROVE  DeleterSync(e, s)'
  BY <1>2, DeleterSyncFrame
<1>3. ASSUME NEW s \in Sources, ~Active(s)', Tracked(s)' PROVE InSync(s)'
  <2>1. CASE s # s0
    BY <1>3, <2>1, RestSyncFrame
  <2>2. CASE s = s0
    BY <1>3, <2>2 DEF Active, Deletes
  <2> QED
    BY <2>1, <2>2
<1>4. ASSUME NEW s \in Sources, s \notin contended' PROVE OneBatch(s)'
  BY <1>4, RestSyncFrame
<1> QED
  BY <1>1, <1>2, <1>3, <1>4 DEF SyncInv

\* A step that touches no store keeps what is known of a source's indexes.
LEMMA SyncStill ==
  ASSUME UNCHANGED <<chunks, vespa, graph>>, NEW s, docs'[s].id = docs[s].id
  PROVE  /\ \A x \in Row : (Fed(x, s)' <=> Fed(x, s)) /\ (Stored(x, s)' <=> Stored(x, s))
         /\ Mirrored(s) => Mirrored(s)'
         /\ Noded(s) => Noded(s)'
         /\ InSync(s) => InSync(s)'
         /\ OneBatch(s) => OneBatch(s)'
<1>1. \A x \in Row : (Fed(x, s)' <=> Fed(x, s)) /\ (Stored(x, s)' <=> Stored(x, s))
  BY DEF Fed, Stored
<1>2. (Mirrored(s) => Mirrored(s)') /\ (Noded(s) => Noded(s)')
  BY <1>1 DEF Mirrored, Noded, NodeOf
<1> QED
  BY <1>1, <1>2 DEF InSync, OneBatch

\* A running ingest keeps its task and its solitude; one that ends gives up both.
LEMMA MoveEnds ==
  ASSUME TypeInv, NEW w \in Workers, Moves(w)
  PROVE  /\ pc[w] # "idle"
         /\ pc'[w] # "idle" => task'[w] = task[w] /\ solo' = solo
         /\ pc'[w] = "idle" => solo' = solo \ {w}
<1> USE DEF broker, db, indexes, locals, budget, ghost
<1>0. Types
  BY Typed
<1> USE DEF Types
<1>1. CASE Ack(w) \/ Crash(w)
  BY <1>0, <1>1 DEF Ack, Crash, Free
<1>2. CASE Raise(w) \/ UpsertConflict(w) \/ SaveOrphans(w)
  BY <1>0, <1>2 DEF Raise, UpsertConflict, SaveOrphans, Fail, Return
<1>3. CASE Lookup(w) \/ Diff(w) \/ DeleteStale(w) \/ VespaDelete(w) \/ UpsertRead(w)
  BY <1>0, <1>3 DEF Lookup, Diff, DeleteStale, VespaDelete, UpsertRead, Return
<1>4. CASE UpsertUpdate(w) \/ UpsertInsert(w)
  BY <1>0, <1>4 DEF UpsertUpdate, UpsertInsert, AfterUpsert, Return
<1>5. CASE SaveChunks(w) \/ BuildGraph(w) \/ Feed(w) \/ Bump(w)
  BY <1>0, <1>5 DEF SaveChunks, BuildGraph, Feed, Bump, Return
<1> QED
  BY <1>1, <1>2, <1>3, <1>4, <1>5 DEF Moves

\* A step of an ingest w of version c of source s keeps the stages of the indexes
\* if it does so when w is solo: otherwise s is contended.
LEMMA IngestSync ==
  ASSUME TypeInv, TypeInv', OwnInv, OwnInv', SoloInv, OwnerInv, SyncInv,
         NEW w \in Workers, NEW s \in Sources, NEW c \in Contents,
         task[w].source = s, task[w].content = c, Moves(w),
         w \in solo /\ Fresh(w, s, c) /\ pc'[w] # "idle" => Fresh(w, s, c)',
         w \in solo /\ Fresh(w, s, c) /\ OneBatch(s) => OneBatch(s)',
         w \in solo /\ Tracked(s) /\ Tracked(s)' /\ WorkerSync(w, s) =>
             IF pc'[w] = "idle" THEN InSync(s)' ELSE WorkerSync(w, s)'
  PROVE  SyncInv'
<1>1. Frame(w, s)
  BY WorkerFramed
<1>2. IndexFrame(w, s) /\ contended' = contended
  BY WorkerIndexFramed
<1>3. /\ pc[w] # "idle"
      /\ pc'[w] # "idle" => task'[w] = task[w] /\ solo' = solo
      /\ pc'[w] = "idle" => solo' = solo \ {w}
  BY MoveEnds
<1>4. w \in solo => Fresh(w, s, c) /\ (Tracked(s) => WorkerSync(w, s))
  BY DEF SyncInv
<1>5. w \notin solo => s \in contended
  BY <1>3 DEF SoloInv
<1>6. Tracked(s)' => Tracked(s) /\ w \in solo
  BY <1>2, <1>5 DEF Tracked, IndexFrame
<1>7. s \notin contended' => OneBatch(s)'
  BY <1>2, <1>4, <1>5 DEF SyncInv
<1>8. \A k \in Contents : w \in solo' /\ task'[w].content = k => Fresh(w, s, k)'
  BY <1>3, <1>4
<1> QED
  BY <1>1, <1>2, <1>3, <1>4, <1>6, <1>7, <1>8, WorkerSyncStep

\* A step of an ingest that touches no store, and ends in drift where a store is behind.
LEMMA IngestSyncStill ==
  ASSUME TypeInv, TypeInv', OwnInv, OwnInv', SoloInv, OwnerInv, SyncInv,
         NEW w \in Workers, NEW s \in Sources, NEW c \in Contents,
         task[w].source = s, task[w].content = c, Moves(w),
         UNCHANGED <<chunks, vespa, graph>>, docs'[s].id = docs[s].id,
         w \in solo /\ Fresh(w, s, c) /\ pc'[w] # "idle" => Fresh(w, s, c)',
         s \in drift' \/ pc[w] \notin {"vespaDelete", "graph", "feed"},
         s \in drift' \/ pc'[w] \notin {"vespaDelete", "graph", "feed"}
  PROVE  SyncInv'
<1>1. Types
  BY Typed
<1>2. pc[w] # "idle"
  BY MoveEnds
<1>3. Tracked(s)' /\ WorkerSync(w, s) => InSync(s)
  BY <1>1, <1>2 DEF Types, WorkerPc, Tracked, WorkerSync
<1>4. (InSync(s) => InSync(s)') /\ (OneBatch(s) => OneBatch(s)')
  BY SyncStill
<1>5. Tracked(s)' /\ InSync(s)' => WorkerSync(w, s)'
  BY DEF Tracked, WorkerSync
<1> QED
  BY <1>3, <1>4, <1>5, IngestSync

\* The steps of an ingest that touch no store.
LEMMA StillSyncStep ==
  ASSUME TypeInv, TypeInv', OwnInv, OwnInv', SoloInv, PhaseInv, OwnerInv, SyncInv,
         NEW w \in Workers, NEW s \in Sources, NEW c \in Contents,
         task[w].source = s, task[w].content = c,
         \/ Ack(w) \/ Crash(w) \/ Raise(w) \/ Lookup(w) \/ Diff(w) \/ UpsertRead(w)
         \/ UpsertUpdate(w) \/ UpsertConflict(w) \/ SaveOrphans(w) \/ Bump(w)
  PROVE  SyncInv'
<1> USE DEF broker, db, indexes, locals, budget, ghost
<1>0. Types
  BY Typed
<1>m. Moves(w)
  BY DEF Moves
<1> USE DEF Types
<1>1. CASE Ack(w) \/ Crash(w)
  <2>1. /\ UNCHANGED <<chunks, vespa, graph, docs>> /\ pc'[w] = "idle"
        /\ s \in drift' \/ pc[w] \notin {"vespaDelete", "graph", "feed"}
    BY <1>0, <1>1 DEF Ack, Crash, Free, Interrupted, Unindexed
  <2> QED
    BY <1>m, <2>1, IngestSyncStill
<1>2. CASE Raise(w) \/ UpsertConflict(w) \/ SaveOrphans(w)
  <2>1. /\ UNCHANGED <<chunks, vespa, graph, docs>> /\ pc'[w] = "ack"
        /\ s \in drift' \/ pc[w] \notin {"vespaDelete", "graph", "feed"}
    BY <1>0, <1>2 DEF Raise, UpsertConflict, SaveOrphans, Fail, Return, Interrupted, Unindexed
  <2>2. Fresh(w, s, c)'
    BY <2>1 DEF Fresh
  <2> QED
    BY <1>m, <2>1, <2>2, IngestSyncStill
<1>3. CASE Lookup(w)
  <2>1. /\ UNCHANGED <<chunks, vespa, graph, docs>> /\ pc[w] = "lookup"
        /\ pc'[w] \in {"ack", "diff"} \/ (pc'[w] = "upsertRead" /\ docs[s].id = 0)
    BY <1>0, <1>3 DEF Lookup, Return
  <2>2. Fresh(w, s, c)'
    BY <2>1 DEF Fresh, Stored, OwnInv, IdsOK
  <2> QED
    BY <1>m, <2>1, <2>2, IngestSyncStill
<1>4. CASE Diff(w)
  <2>1. /\ UNCHANGED <<chunks, vespa, graph, docs>> /\ pc[w] = "diff"
        /\ pc'[w] \in {"upsertRead", "deleteStale"}
        /\ embed'[w] = ToEmbed({r.text : r \in RowsOf(docId[w])}, c)
    BY <1>0, <1>4 DEF Diff
  <2>2. ASSUME w \in solo PROVE Fresh(w, s, c)'
    <3>1. docs[s].id = docId[w]
      BY <2>1, <2>2 DEF PhaseInv, WorkerPhase
    <3>2. \A i \in embed'[w] : ChunksOf[c][i] \notin {r.text : r \in RowsOf(docId[w])}
      BY <2>1 DEF ToEmbed
    <3>3. ASSUME NEW x \in Row, Stored(x, s) PROVE x.text \in {r.text : r \in RowsOf(docId[w])}
      BY <3>1, <3>3 DEF Stored, RowsOf
    <3>4. \A x \in Row : Stored(x, s)' <=> Stored(x, s)
      BY <2>1 DEF Stored
    <3> QED
      BY <3>2, <3>3, <3>4 DEF Fresh
  <2> QED
    BY <1>m, <2>1, <2>2, IngestSyncStill
<1>5. CASE UpsertRead(w)
  <2>1. /\ UNCHANGED <<chunks, vespa, graph, docs, embed>> /\ pc[w] = "upsertRead" /\ pc'[w] = "upsertWrite"
    BY <1>0, <1>5 DEF UpsertRead
  <2>2. Fresh(w, s, c) => Fresh(w, s, c)'
    BY <2>1 DEF Fresh, Stored
  <2> QED
    BY <1>m, <2>1, <2>2, IngestSyncStill
<1>6. CASE UpsertUpdate(w)
  <2>1. /\ UNCHANGED <<chunks, vespa, graph, embed>> /\ pc[w] = "upsertWrite" /\ pc'[w] \in {"ack", "save"}
        /\ docs'[s] = IF docs[s].id = target[w] THEN [docs[s] EXCEPT !.hash = c] ELSE docs[s]
    BY <1>0, <1>6 DEF UpsertUpdate, AfterUpsert, Return
  <2>2. docs'[s].id = docs[s].id
    BY <1>0, <2>1 DEF DocRow
  <2>3. Fresh(w, s, c) => Fresh(w, s, c)'
    BY <2>1, <2>2 DEF Fresh, Stored
  <2> QED
    BY <1>m, <2>1, <2>2, <2>3, IngestSyncStill
<1>7. CASE Bump(w)
  <2>1. UNCHANGED <<chunks, vespa, graph, docs>> /\ pc[w] = "bump" /\ pc'[w] = "ack"
    BY <1>0, <1>7 DEF Bump, Return
  <2>2. Fresh(w, s, c)'
    BY <2>1 DEF Fresh
  <2> QED
    BY <1>m, <2>1, <2>2, IngestSyncStill
<1> QED
  BY <1>1, <1>2, <1>3, <1>4, <1>5, <1>6, <1>7

\* A new document has no rows, in Postgres or in Vespa.
LEMMA InsertSyncStep ==
  ASSUME TypeInv, TypeInv', OwnInv, OwnInv', SoloInv, PhaseInv, OwnerInv, SyncInv,
         NEW w \in Workers, NEW s \in Sources, NEW c \in Contents,
         task[w].source = s, task[w].content = c, UpsertInsert(w)
  PROVE  SyncInv'
<1> USE DEF broker, db, indexes, locals, budget, ghost
<1>0. Types
  BY Typed
<1>m. Moves(w)
  BY DEF Moves
<1>1. /\ UNCHANGED <<chunks, vespa, graph>> /\ pc[w] = "upsertWrite" /\ pc'[w] \in {"ack", "save"}
      /\ docs[s].id = 0 /\ docs'[s].id = nextDoc
  BY <1>0 DEF Types, UpsertInsert, AfterUpsert, Return
<1>2. \A x \in Row : ~Stored(x, s)
  BY <1>1 DEF Stored, OwnInv, IdsOK
<1>3. \A x \in Row : ~Stored(x, s)'
  BY <1>0, <1>1, IndexTyped DEF Types, Stored, OwnInv, IdsOK
<1>4. Fresh(w, s, c)' /\ OneBatch(s)'
  BY <1>3 DEF Fresh, OneBatch
<1>5. ASSUME WorkerSync(w, s) PROVE WorkerSync(w, s)'
  <2>1. \A x \in Row : ~Fed(x, s)
    BY <1>1, <1>2, <1>5 DEF WorkerSync, InSync, Mirrored
  <2>2. \A x \in Row : ~Fed(x, s)'
    BY <1>1, <2>1 DEF Fed
  <2>3. InSync(s)'
    BY <1>3, <2>2 DEF InSync, Mirrored, Noded
  <2> QED
    BY <1>1, <2>3 DEF WorkerSync
<1> QED
  BY <1>m, <1>1, <1>4, <1>5, IngestSync

\* The stale rows leave Postgres first; Vespa is ahead by just them ...
LEMMA StaleSyncStep ==
  ASSUME TypeInv, TypeInv', OwnInv, OwnInv', SoloInv, PhaseInv, OwnerInv, SyncInv,
         NEW w \in Workers, NEW s \in Sources, NEW c \in Contents,
         task[w].source = s, task[w].content = c, DeleteStale(w)
  PROVE  SyncInv'
<1> USE DEF broker, db, indexes, locals, budget, ghost
<1>0. Types
  BY Typed
<1>m. Moves(w)
  BY DEF Moves
<1>1. /\ UNCHANGED <<docs, vespa, graph, embed, stale>> /\ pc[w] = "deleteStale" /\ pc'[w] = "vespaDelete"
      /\ chunks' = {r \in chunks : r.id \notin stale[w]}
  BY <1>0 DEF Types, DeleteStale
<1>2. \A x \in Row : Stored(x, s)' <=> Stored(x, s) /\ x.id \notin stale[w]
  BY <1>1 DEF Stored
<1>3. \A x \in Row : Fed(x, s)' <=> Fed(x, s)
  BY <1>1 DEF Fed
<1>4. (Fresh(w, s, c) => Fresh(w, s, c)') /\ (OneBatch(s) => OneBatch(s)')
  BY <1>1, <1>2 DEF Fresh, OneBatch
<1>5. ASSUME WorkerSync(w, s) PROVE WorkerSync(w, s)'
  <2>1. InSync(s)
    BY <1>1, <1>5 DEF WorkerSync
  <2>2. Noded(s)'
    BY <1>1, <1>2, <2>1 DEF InSync, Noded, NodeOf
  <2>3. \A x \in Row : Fed(x, s)' /\ x.id \notin stale[w] <=> Stored(x, s)'
    BY <1>2, <1>3, <2>1 DEF InSync, Mirrored
  <2> QED
    BY <1>1, <2>2, <2>3 DEF WorkerSync
<1> QED
  BY <1>m, <1>1, <1>4, <1>5, IngestSync

\* ... until they leave Vespa.
LEMMA VespaSyncStep ==
  ASSUME TypeInv, TypeInv', OwnInv, OwnInv', SoloInv, PhaseInv, OwnerInv, SyncInv,
         NEW w \in Workers, NEW s \in Sources, NEW c \in Contents,
         task[w].source = s, task[w].content = c, VespaDelete(w)
  PROVE  SyncInv'
<1> USE DEF broker, db, indexes, locals, budget, ghost
<1>0. Types
  BY Typed
<1>m. Moves(w)
  BY DEF Moves
<1>1. /\ UNCHANGED <<docs, chunks, graph, embed, stale>> /\ pc[w] = "vespaDelete" /\ pc'[w] = "upsertRead"
      /\ s \in drift' \/ vespa' = {v \in vespa : v.id \notin stale[w]}
  BY <1>0 DEF Types, VespaDelete
<1>2. \A x \in Row : Stored(x, s)' <=> Stored(x, s)
  BY <1>1 DEF Stored
<1>3. (Fresh(w, s, c) => Fresh(w, s, c)') /\ (OneBatch(s) => OneBatch(s)')
  BY <1>1, <1>2 DEF Fresh, OneBatch
<1>4. ASSUME Tracked(s)', WorkerSync(w, s) PROVE WorkerSync(w, s)'
  <2>1. Noded(s) /\ \A x \in Row : Fed(x, s) /\ x.id \notin stale[w] <=> Stored(x, s)
    BY <1>1, <1>4 DEF WorkerSync
  <2>2. \A x \in Row : Fed(x, s)' <=> Fed(x, s) /\ x.id \notin stale[w]
    BY <1>1, <1>4 DEF Fed, Tracked
  <2>3. Noded(s)'
    BY <1>1, <1>2, <2>1 DEF Noded, NodeOf
  <2>4. Mirrored(s)'
    BY <1>2, <2>1, <2>2 DEF Mirrored
  <2> QED
    BY <1>1, <2>3, <2>4 DEF WorkerSync, InSync
<1> QED
  BY <1>m, <1>1, <1>3, <1>4, IngestSync

\* The new rows are in Postgres and in flight, and repeat no text stored before.
LEMMA SaveSyncStep ==
  ASSUME TypeInv, TypeInv', OwnInv, OwnInv', SoloInv, PhaseInv, OwnerInv, SyncInv,
         NEW w \in Workers, NEW s \in Sources, NEW c \in Contents,
         task[w].source = s, task[w].content = c, SaveChunks(w)
  PROVE  SyncInv'
<1> USE DEF broker, db, indexes, locals, budget, ghost
<1>0. Types /\ saved \in [Workers -> SUBSET Row]
  BY Typed, IndexTyped
<1>m. Moves(w)
  BY DEF Moves
<1>1. /\ UNCHANGED <<docs, vespa, graph>> /\ pc[w] = "save" /\ pc'[w] = "graph"
      /\ chunks' = chunks \cup NewRows(w) /\ saved'[w] = NewRows(w)
  BY <1>0 DEF Types, SaveChunks
<1>2. ASSUME NEW x \in NewRows(w)
      PROVE  x.doc = docId[w] /\ x.id[1] = nextBatch /\ \E i \in embed[w] : x.text = ChunksOf[c][i]
  BY <1>2 DEF NewRows
<1>3. ASSUME w \in solo, NEW x \in Row PROVE Stored(x, s)' <=> Stored(x, s) \/ x \in NewRows(w)
  <2>1. docs[s].id = docId[w]
    BY <1>1, <1>3 DEF PhaseInv, WorkerPhase
  <2> QED
    BY <1>1, <1>2, <2>1 DEF Stored
<1>4. Fresh(w, s, c)'
  BY <1>1 DEF Fresh
<1>5. ASSUME w \in solo, Fresh(w, s, c), OneBatch(s) PROVE OneBatch(s)'
  <2>1. ASSUME NEW x \in Row, NEW y \in NewRows(w), Stored(x, s) PROVE x.text # y.text
    BY <1>1, <1>2, <1>5, <2>1 DEF Fresh
  <2> QED
    BY <1>2, <1>3, <1>5, <2>1 DEF OneBatch
<1>6. ASSUME w \in solo, WorkerSync(w, s) PROVE WorkerSync(w, s)'
  <2>1. InSync(s)
    BY <1>1, <1>6 DEF WorkerSync
  <2>2. \A x \in Row : Fed(x, s)' <=> Fed(x, s)
    BY <1>1 DEF Fed
  <2>3. \A x \in Row : Fed(x, s)' \/ x \in saved'[w] <=> Stored(x, s)'
    BY <1>1, <1>3, <1>6, <2>1, <2>2 DEF InSync, Mirrored
  <2>4. \A x \in Row : Stored(x, s)' /\ x \notin saved'[w] => NodeOf(x, s) \in graph'
    BY <1>1, <1>3, <1>6, <2>1 DEF InSync, Noded
  <2> QED
    BY <1>1, <2>3, <2>4 DEF WorkerSync, NodeOf
<1> QED
  BY <1>m, <1>1, <1>4, <1>5, <1>6, IngestSync

\* The rows in flight get their graph nodes ...
LEMMA GraphSyncStep ==
  ASSUME TypeInv, TypeInv', OwnInv, OwnInv', SoloInv, PhaseInv, OwnerInv, SyncInv,
         NEW w \in Workers, NEW s \in Sources, NEW c \in Contents,
         task[w].source = s, task[w].content = c, BuildGraph(w)
  PROVE  SyncInv'
<1> USE DEF broker, db, indexes, locals, budget, ghost
<1>0. Types /\ saved \in [Workers -> SUBSET Row]
  BY Typed, IndexTyped
<1>m. Moves(w)
  BY DEF Moves
<1>1. /\ UNCHANGED <<docs, chunks, vespa, saved>> /\ pc[w] = "graph" /\ pc'[w] = "feed"
      /\ s \in drift' \/ graph' = graph \cup {NodeOf(r, s) : r \in saved[w]}
  BY <1>0 DEF Types, BuildGraph, NodeOf
<1>2. \A x \in Row : (Stored(x, s)' <=> Stored(x, s)) /\ (Fed(x, s)' <=> Fed(x, s))
  BY <1>1 DEF Stored, Fed
<1>3. Fresh(w, s, c)' /\ (OneBatch(s) => OneBatch(s)')
  BY <1>1, <1>2 DEF Fresh, OneBatch
<1>4. ASSUME Tracked(s)', WorkerSync(w, s) PROVE WorkerSync(w, s)'
  <2>1. /\ \A x \in Row : Fed(x, s) \/ x \in saved[w] <=> Stored(x, s)
        /\ \A x \in Row : Stored(x, s) /\ x \notin saved[w] => NodeOf(x, s) \in graph
    BY <1>1, <1>4 DEF WorkerSync
  <2>2. graph' = graph \cup {NodeOf(r, s) : r \in saved[w]}
    BY <1>1, <1>4 DEF Tracked
  <2>3. \A x \in Row : Stored(x, s) => NodeOf(x, s) \in graph'
    BY <2>1, <2>2
  <2>4. Noded(s)'
    BY <1>2, <2>3 DEF Noded, NodeOf
  <2>5. \A x \in Row : Fed(x, s)' \/ x \in saved'[w] <=> Stored(x, s)'
    BY <1>1, <1>2, <2>1
  <2> QED
    BY <1>1, <2>4, <2>5 DEF WorkerSync
<1> QED
  BY <1>m, <1>1, <1>3, <1>4, IngestSync

\* ... and then their Vespa documents, which replace none of another row.
LEMMA FeedSyncStep ==
  ASSUME TypeInv, TypeInv', OwnInv, OwnInv', SoloInv, PhaseInv, OwnerInv, SyncInv,
         NEW w \in Workers, NEW s \in Sources, NEW c \in Contents,
         task[w].source = s, task[w].content = c, Feed(w)
  PROVE  SyncInv'
<1> USE DEF broker, db, indexes, locals, budget, ghost
<1>0. Types /\ saved \in [Workers -> SUBSET Row]
  BY Typed, IndexTyped
<1>m. Moves(w)
  BY DEF Moves
<1>1. UNCHANGED <<docs, chunks, graph, saved>> /\ pc[w] = "feed" /\ pc'[w] = "bump"
  BY <1>0 DEF Types, Feed
<1>2. \A x \in Row : Stored(x, s)' <=> Stored(x, s)
  BY <1>1 DEF Stored
<1>3. Fresh(w, s, c)' /\ (OneBatch(s) => OneBatch(s)')
  BY <1>1, <1>2 DEF Fresh, OneBatch
<1>4. ASSUME Tracked(s)', WorkerSync(w, s) PROVE WorkerSync(w, s)'
  <2> DEFINE puts == {[id |-> r.id, doc |-> r.doc, text |-> r.text, source |-> s,
                       access |-> task[w].access] : r \in saved[w]}
  <2>1. vespa' = {v \in vespa : \A p \in puts : p.id # v.id} \cup puts
    BY <1>4 DEF Feed, Tracked
  <2>2. \A p \in puts : \E r \in saved[w] : p.id = r.id /\ p.doc = r.doc /\ p.text = r.text /\ p.source = s
    OBVIOUS
  <2>3. \A r \in saved[w] : \E p \in puts : p.id = r.id /\ p.doc = r.doc /\ p.text = r.text /\ p.source = s
    <3> TAKE r \in saved[w]
    <3> WITNESS [id |-> r.id, doc |-> r.doc, text |-> r.text, source |-> s, access |-> task[w].access] \in puts
    <3> QED
      OBVIOUS
  <2> HIDE DEF puts
  <2>4. /\ \A x \in Row : Fed(x, s) \/ x \in saved[w] <=> Stored(x, s)
        /\ Noded(s)
    BY <1>1, <1>4 DEF WorkerSync
  <2>5. \A x, r \in Row : x.id = r.id /\ x.doc = r.doc /\ x.text = r.text => x = r
    BY DEF Row
  <2>6. \A x \in Row, r \in saved[w] : Stored(x, s) /\ x.id = r.id => x = r
    BY <1>0, <2>4 DEF Stored, OwnInv, IdsOK
  <2>7. ASSUME NEW x \in Row, Fed(x, s)' PROVE Stored(x, s)
    <3>1. PICK v \in vespa' : v.source = s /\ v.id = x.id /\ v.doc = x.doc /\ v.text = x.text
      BY <2>7 DEF Fed
    <3>2. CASE v \in puts
      BY <1>0, <2>2, <2>4, <2>5, <3>1, <3>2
    <3>3. CASE v \in vespa
      BY <2>4, <3>1, <3>3 DEF Fed
    <3> QED
      BY <2>1, <3>2, <3>3
  <2>8. ASSUME NEW x \in Row, Stored(x, s) PROVE Fed(x, s)'
    <3>1. CASE x \in saved[w]
      BY <2>1, <2>3, <3>1 DEF Fed
    <3>2. CASE x \notin saved[w]
      <4>1. PICK v \in vespa : v.source = s /\ v.id = x.id /\ v.doc = x.doc /\ v.text = x.text
        BY <2>4, <2>8, <3>2 DEF Fed
      <4>2. \A p \in puts : p.id # v.id
        BY <2>2, <2>6, <2>8, <3>2, <4>1
      <4> QED
        BY <2>1, <4>1, <4>2 DEF Fed
    <3> QED
      BY <3>1, <3>2
  <2>9. Mirrored(s)'
    BY <1>2, <2>7, <2>8 DEF Mirrored
  <2>10. Noded(s)'
    BY <1>1, <1>2, <2>4 DEF Noded, NodeOf
  <2> QED
    BY <1>1, <2>9, <2>10 DEF WorkerSync, InSync
<1> QED
  BY <1>m, <1>1, <1>3, <1>4, IngestSync

\* A step of a deletion d of source s keeps the stages of the indexes if it does so
\* when d is solo: otherwise s is contended.
LEMMA DeletionSync ==
  ASSUME TypeInv, TypeInv', OwnInv, OwnInv', SoloInv, OwnerInv, SyncInv,
         NEW d \in Deleters, NEW s \in Sources, del[d].source = s, del[d].pc # "idle", Removes(d),
         del'[d].pc # "idle" => del'[d].source = s /\ solo' = solo,
         del'[d].pc = "idle" => solo' = solo \ {d},
         d \in solo /\ OneBatch(s) => OneBatch(s)',
         d \in solo /\ Tracked(s) /\ Tracked(s)' /\ DeleterSync(d, s) =>
             IF del'[d].pc = "idle" THEN InSync(s)' ELSE DeleterSync(d, s)'
  PROVE  SyncInv'
<1>1. Frame(d, s)
  BY DeleterFramed
<1>2. IndexFrame(d, s) /\ contended' = contended
  BY DeleterIndexFramed
<1>3. d \in solo /\ Tracked(s) => DeleterSync(d, s)
  BY DEF SyncInv
<1>4. d \notin solo => s \in contended
  BY DEF SoloInv
<1>5. Tracked(s)' => Tracked(s) /\ d \in solo
  BY <1>2, <1>4 DEF Tracked, IndexFrame
<1>6. s \notin contended' => OneBatch(s)'
  BY <1>2, <1>4 DEF SyncInv
<1> QED
  BY <1>1, <1>2, <1>3, <1>5, <1>6, DeleterSyncStep

\* The deletion empties the graph, Postgres and Vespa of the source, in this order.
LEMMA RemovesSyncStep ==
  ASSUME TypeInv, TypeInv', OwnInv, OwnInv', SoloInv, PhaseInv, OwnerInv, SyncInv,
         NEW d \in Deleters, NEW s \in Sources, del[d].source = s, Removes(d)
  PROVE  SyncInv'
<1> USE DEF broker, db, indexes, locals, budget, ghost
<1>0. Types
  BY Typed
<1>a. ASSUME d \in solo PROVE docs[s].id = del[d].doc
  BY <1>a DEF PhaseInv, DeleterPhase
<1> USE DEF Types
<1>1. CASE DeleteGraph(d)
  <2>1. /\ UNCHANGED <<docs, chunks, vespa, solo>> /\ del[d].pc = "graph" /\ del'[d].pc = "chunks"
        /\ del'[d].source = s
    BY <1>0, <1>1 DEF DeleteGraph, Deletion
  <2>2. \A x \in Row : (Stored(x, s)' <=> Stored(x, s)) /\ (Fed(x, s)' <=> Fed(x, s))
    BY <2>1 DEF Stored, Fed
  <2>3. DeleterSync(d, s) => DeleterSync(d, s)'
    BY <2>1, <2>2 DEF DeleterSync, InSync, Mirrored
  <2>4. OneBatch(s) => OneBatch(s)'
    BY <2>2 DEF OneBatch
  <2> QED
    BY <2>1, <2>3, <2>4, DeletionSync
<1>2. CASE DeleteChunks(d)
  <2>1. /\ UNCHANGED <<docs, vespa, solo>> /\ del[d].pc = "chunks" /\ del'[d].pc = "vespa"
        /\ del'[d].source = s /\ del'[d].doc = del[d].doc
        /\ chunks' = {r \in chunks : r.doc # del[d].doc}
    BY <1>0, <1>2 DEF DeleteChunks, Deletion
  <2>2. \A x \in Row : Fed(x, s)' <=> Fed(x, s)
    BY <2>1 DEF Fed
  <2>3. d \in solo => \A x \in Row : ~Stored(x, s)'
    BY <1>a, <2>1 DEF Stored
  <2>4. ASSUME d \in solo, DeleterSync(d, s) PROVE DeleterSync(d, s)'
    <3>1. \A x \in Row : Fed(x, s) => x.doc = del[d].doc
      BY <1>a, <2>1, <2>4 DEF DeleterSync, Mirrored, Stored
    <3> QED
      BY <2>1, <2>2, <2>3, <2>4, <3>1 DEF DeleterSync
  <2>5. d \in solo => OneBatch(s)'
    BY <2>3 DEF OneBatch
  <2> QED
    BY <2>1, <2>4, <2>5, DeletionSync
<1>3. CASE DeleteVespa(d)
  <2>1. /\ UNCHANGED <<docs, chunks, solo>> /\ del[d].pc = "vespa" /\ del'[d].pc = "row"
        /\ del'[d].source = s
        /\ s \in drift' \/ vespa' = vespa \ {v \in vespa : v.doc = del[d].doc}
    BY <1>0, <1>3 DEF DeleteVespa, Deletion
  <2>2. \A x \in Row : Stored(x, s)' <=> Stored(x, s)
    BY <2>1 DEF Stored
  <2>3. ASSUME Tracked(s)', DeleterSync(d, s) PROVE DeleterSync(d, s)'
    <3>1. \A x \in Row : ~Stored(x, s) /\ (Fed(x, s) => x.doc = del[d].doc)
      BY <2>1, <2>3 DEF DeleterSync
    <3>2. \A x \in Row : Fed(x, s)' => Fed(x, s) /\ x.doc # del[d].doc
      BY <2>1, <2>3 DEF Fed, Tracked
    <3> QED
      BY <2>1, <2>2, <3>1, <3>2 DEF DeleterSync
  <2>4. OneBatch(s) => OneBatch(s)'
    BY <2>2 DEF OneBatch
  <2> QED
    BY <2>1, <2>3, <2>4, DeletionSync
<1>4. CASE DeleteRow(d)
  <2>1. /\ UNCHANGED <<vespa, graph>> /\ solo' = solo \ {d} /\ del[d].pc = "row" /\ del'[d].pc = "idle"
        /\ docs'[s].id = IF docs[s].id = del[d].doc THEN 0 ELSE docs[s].id
    BY <1>0, <1>4 DEF DeleteRow, IdleDeletion, NoDoc
  <2>2. d \in solo => \A x \in Row : ~Stored(x, s)'
    BY <1>a, <2>1 DEF Stored, OwnInv, IdsOK
  <2>3. \A x \in Row : Fed(x, s)' <=> Fed(x, s)
    BY <2>1 DEF Fed
  <2>4. d \in solo /\ DeleterSync(d, s) => InSync(s)'
    BY <2>1, <2>2, <2>3 DEF DeleterSync, InSync, Mirrored, Noded
  <2>5. d \in solo => OneBatch(s)'
    BY <2>2 DEF OneBatch
  <2> QED
    BY <2>1, <2>4, <2>5, DeletionSync
<1>5. CASE DeleteAbort(d)
  <2>1. /\ UNCHANGED <<docs, chunks, vespa, graph>> /\ solo' = solo \ {d} /\ del[d].pc # "idle"
        /\ del'[d].pc = "idle" /\ (s \in drift' \/ del[d].pc \notin {"chunks", "vespa"})
    BY <1>0, <1>5 DEF DeleteAbort, IdleDeletion
  <2>2. (InSync(s) => InSync(s)') /\ (OneBatch(s) => OneBatch(s)')
    BY <2>1, SyncStill
  <2>3. Tracked(s)' /\ DeleterSync(d, s) => InSync(s)
    BY <1>0, <2>1 DEF Deletion, Tracked, DeleterSync, InSync, Mirrored, Noded
  <2> QED
    BY <2>1, <2>2, <2>3, DeletionSync
<1> QED
  BY <1>1, <1>2, <1>3, <1>4, <1>5 DEF Removes, Delete

\* An ingest begins on indexes that are in sync, unless it contends for the source.
LEMMA StartSyncStep ==
  ASSUME TypeInv, TypeInv', OwnInv, OwnInv', SoloInv, SyncInv, NEW w \in Workers, Start(w)
  PROVE  SyncInv'
<1> USE DEF broker, db, indexes, locals, budget, ghost
<1>0. Types
  BY Typed
<1> USE DEF Types
<1> PICK t \in queue : task' = [task EXCEPT ![w] = t] /\ Enter(w, t.source)
  BY DEF Start
<1> PICK s \in Sources : t.source = s
  BY DEF TypeInv, TypeOK, Task
<1>1. Frame(w, s)
  BY <1>0 DEF Start, Enter, WorksOn, Deletes, SoloInv, Frame
<1>2. IndexFrame(w, s)
  BY <1>0 DEF Start, Enter, IndexFrame
<1>3. UNCHANGED <<docs, chunks, vespa, graph, drift>> /\ pc'[w] = "lookup" /\ task'[w].source = s /\ w \notin solo
  BY <1>0 DEF Start, Enter, SoloInv
<1>4. (InSync(s) => InSync(s)') /\ (OneBatch(s) => OneBatch(s)')
  BY <1>3, SyncStill
<1>5. ASSUME w \in solo', Tracked(s)' PROVE WorkerSync(w, s)'
  <2>1. ~Active(s) /\ contended' = contended
    BY <1>3, <1>5 DEF Enter
  <2>2. InSync(s)'
    BY <1>3, <1>4, <1>5, <2>1 DEF Tracked, SyncInv
  <2> QED
    BY <1>3, <2>2 DEF WorkerSync
<1>6. \A c \in Contents : Fresh(w, s, c)'
  BY <1>3 DEF Fresh
<1>7. s \notin contended' => OneBatch(s)'
  BY <1>2, <1>4 DEF IndexFrame, SyncInv
<1> QED
  BY <1>1, <1>2, <1>3, <1>5, <1>6, <1>7, WorkerSyncStep

\* So does a deletion.
LEMMA DeleteStartSyncStep ==
  ASSUME TypeInv, TypeInv', OwnInv, OwnInv', SoloInv, SyncInv, NEW d \in Deleters, DeleteStart(d)
  PROVE  SyncInv'
<1> USE DEF broker, db, indexes, locals, budget, ghost
<1>0. Types
  BY Typed
<1> USE DEF Types
<1> PICK s \in Sources : /\ docs[s].id # 0 /\ Enter(d, s)
                         /\ del' = [del EXCEPT ![d] = [pc |-> "graph", source |-> s, doc |-> docs[s].id]]
  BY DEF DeleteStart
<1>1. Frame(d, s)
  BY <1>0 DEF DeleteStart, Enter, WorksOn, Deletes, SoloInv, Frame
<1>2. IndexFrame(d, s)
  BY <1>0 DEF DeleteStart, Enter, IndexFrame
<1>3. /\ UNCHANGED <<docs, chunks, vespa, graph, drift>> /\ del'[d].pc = "graph" /\ del'[d].source = s
      /\ d \notin solo
  BY <1>0 DEF DeleteStart, Enter, SoloInv
<1>4. (InSync(s) => InSync(s)') /\ (OneBatch(s) => OneBatch(s)')
  BY <1>3, SyncStill
<1>5. ASSUME d \in solo', Tracked(s)' PROVE DeleterSync(d, s)'
  <2>1. ~Active(s) /\ contended' = contended
    BY <1>3, <1>5 DEF Enter
  <2>2. InSync(s)'
    BY <1>3, <1>4, <1>5, <2>1 DEF Tracked, SyncInv
  <2> QED
    BY <1>3, <2>2 DEF DeleterSync
<1>6. s \notin contended' => OneBatch(s)'
  BY <1>2, <1>4 DEF IndexFrame, SyncInv
<1> QED
  BY <1>1, <1>2, <1>3, <1>5, <1>6, DeleterSyncStep

\* A step that changes nothing the stages speak of keeps them.
LEMMA SyncIdling ==
  ASSUME SyncInv, UNCHANGED <<docs, chunks, vespa, graph, solo, pc, task, stale, embed, saved, del, drift, contended>>
  PROVE  SyncInv'
<1>1. \A s \in Sources :
         /\ \A x \in Row : (Fed(x, s)' <=> Fed(x, s)) /\ (Stored(x, s)' <=> Stored(x, s))
         /\ (Mirrored(s) => Mirrored(s)') /\ (Noded(s) => Noded(s)')
         /\ (InSync(s) => InSync(s)') /\ (OneBatch(s) => OneBatch(s)')
  BY SyncStill
<1>2. \A s \in Sources : (Active(s)' <=> Active(s)) /\ (Tracked(s)' <=> Tracked(s))
  BY DEF Active, WorksOn, Deletes, Tracked
<1>3. ASSUME NEW w \in Workers, NEW s \in Sources, NEW c \in Contents
      PROVE  (Fresh(w, s, c) => Fresh(w, s, c)') /\ (WorkerSync(w, s) => WorkerSync(w, s)')
  BY <1>1 DEF Fresh, WorkerSync, NodeOf
<1>4. ASSUME NEW d \in Deleters, NEW s \in Sources, DeleterSync(d, s) PROVE DeleterSync(d, s)'
  BY <1>1, <1>4 DEF DeleterSync
<1> QED
  BY <1>1, <1>2, <1>3, <1>4 DEF SyncInv

\* Initially all stores are empty, and nobody owns anything.
LEMMA IndexInit == Init => IndexInv
<1> SUFFICES ASSUME Init PROVE IndexInv
  OBVIOUS
<1>1. SyncInv
  BY DEF Init, SyncInv, InSync, Mirrored, Noded, Fed, Stored, OneBatch
<1>2. IndexIds
  BY DEF Init, IndexIds
<1>3. PICK f \in Owners : f = [n \in Nat |-> NoTask]
  BY DEF Owners
<1>4. Owned(f, f)
  BY DEF Init, Owned, StoresOwned, WorkerOwned, NoDoc, IdleDeletion
<1> QED
  BY <1>1, <1>2, <1>4 DEF IndexInv, OwnerInv

\* Every step moves the indexes of a source from stage to stage.
LEMMA SyncStep ==
  ASSUME TypeInv, TypeInv', OwnInv, OwnInv', SoloInv, PhaseInv, OwnerInv, SyncInv, [Next]_vars
  PROVE  SyncInv'
<1> USE DEF broker, db, indexes, locals, budget, ghost
<1>0. Types
  BY Typed
<1>1. CASE Submit \/ UNCHANGED vars \/ \E w \in Workers : Unready(w)
  BY <1>1, SyncIdling DEF Submit, Unready, vars
<1>2. ASSUME NEW w \in Workers, Moves(w) PROVE SyncInv'
  <2> PICK s \in Sources, c \in Contents : task[w].source = s /\ task[w].content = c
    BY <1>0, <1>2, MoveEnds DEF Types
  <2> QED
    BY <1>2, StillSyncStep, InsertSyncStep, StaleSyncStep, VespaSyncStep, SaveSyncStep, GraphSyncStep,
       FeedSyncStep DEF Moves
<1>3. ASSUME NEW d \in Deleters, Removes(d) PROVE SyncInv'
  <2> PICK s \in Sources : del[d].source = s
    BY <1>3 DEF Removes, Delete, DeleteGraph, DeleteChunks, DeleteVespa, DeleteRow, DeleteAbort, TypeInv, JobsOK
  <2> QED
    BY <1>3, RemovesSyncStep
<1> QED
  BY <1>1, <1>2, <1>3, StartSyncStep, DeleteStartSyncStep DEF Next, Work, Moves, Removes

\* Every step keeps owners and stages.
LEMMA IndexStep ==
  ASSUME TypeInv, TypeInv', OwnInv, OwnInv', SoloInv, PhaseInv, IndexInv, [Next]_vars
  PROVE  IndexInv'
<1>1. IndexIds'
  BY IndexIdsStep DEF IndexInv, OwnerInv
<1>2. \E f2 \in Owners, g2 \in Owners : Owned(f2, g2)'
  BY OwnerStep DEF IndexInv, OwnerInv
<1>3. SyncInv'
  BY SyncStep DEF IndexInv
<1> QED
  BY <1>1, <1>2, <1>3 DEF IndexInv, OwnerInv

-----------------------------------------------------------------------------
(* The theorems about the indexes and duplicates *)

\* The whole invariant.
FullInv == Inv /\ IndexInv

\* It holds initially.
LEMMA FullInit == Init => FullInv
BY TypeInit, OwnInit, SoloInit, PhaseInit, IndexInit DEF FullInv, Inv

\* Every step keeps it.
LEMMA FullStep == FullInv /\ [Next]_vars => FullInv'
BY TypeStep, OwnStep, SoloStep, PhaseStep, IndexStep DEF FullInv, Inv

\* The quantified form of Mirrored implies the set equation of IndexesInSync.
LEMMA MirroredSets ==
  ASSUME TypeInv, OwnInv, NEW s \in Sources, Mirrored(s)
  PROVE  {[id |-> v.id, doc |-> v.doc, text |-> v.text] : v \in {x \in vespa : x.source = s}}
           = IF docs[s].id = 0 THEN {} ELSE RowsOf(docs[s].id)
<1> DEFINE fed == {[id |-> v.id, doc |-> v.doc, text |-> v.text] : v \in {x \in vespa : x.source = s}}
<1>1. vespa \subseteq VespaRow /\ chunks \subseteq Row
  BY DEF TypeInv, TypeOK
<1>2. \A v \in vespa : [id |-> v.id, doc |-> v.doc, text |-> v.text] \in Row
  BY <1>1 DEF VespaRow, Row
<1>3. ASSUME NEW x \in fed PROVE x \in Row /\ Fed(x, s)
  <2>1. PICK v \in vespa : v.source = s /\ x = [id |-> v.id, doc |-> v.doc, text |-> v.text]
    BY <1>3
  <2> QED
    BY <1>2, <2>1 DEF Fed
<1>4. ASSUME NEW x \in Row, Fed(x, s) PROVE x \in fed
  <2>1. PICK v \in vespa : v.source = s /\ v.id = x.id /\ v.doc = x.doc /\ v.text = x.text
    BY <1>4 DEF Fed
  <2>2. x = [id |-> v.id, doc |-> v.doc, text |-> v.text]
    BY <2>1 DEF Row
  <2> QED
    BY <2>1, <2>2
<1> HIDE DEF fed
<1>5. \A x \in Row : Stored(x, s) <=> x \in (IF docs[s].id = 0 THEN {} ELSE RowsOf(docs[s].id))
  BY DEF Stored, RowsOf, OwnInv, IdsOK
<1>6. RowsOf(docs[s].id) \subseteq Row
  BY <1>1 DEF RowsOf
<1>7. fed = IF docs[s].id = 0 THEN {} ELSE RowsOf(docs[s].id)
  BY <1>3, <1>4, <1>5, <1>6 DEF Mirrored
<1> QED
  BY <1>7 DEF fed

\* Whatever runs, crashes and fails elsewhere, a source at rest that was never
\* contended and lost no index write has exactly its chunk rows in Vespa, under
\* the same ids, and a graph node for each.
THEOREM IndexesAgree == Spec => []IndexesInSync
<1>1. FullInv => IndexesInSync
  <2> SUFFICES ASSUME FullInv, NEW s \in Sources, ~Active(s), s \notin drift \cup contended
               PROVE  /\ {[id |-> v.id, doc |-> v.doc, text |-> v.text] : v \in {x \in vespa : x.source = s}}
                            = IF docs[s].id = 0 THEN {} ELSE RowsOf(docs[s].id)
                      /\ docs[s].id # 0 =>
                           \A r \in RowsOf(docs[s].id) : [source |-> s, text |-> r.text] \in graph
    BY DEF IndexesInSync
  <2>1. Mirrored(s) /\ Noded(s)
    BY DEF FullInv, IndexInv, SyncInv, Tracked, InSync
  <2>2. chunks \subseteq Row
    BY DEF FullInv, Inv, TypeInv, TypeOK
  <2>3. \A r \in RowsOf(docs[s].id) : [source |-> s, text |-> r.text] \in graph
    BY <2>1, <2>2 DEF Noded, NodeOf, Stored, RowsOf
  <2> QED
    BY <2>1, <2>3, MirroredSets DEF FullInv, Inv
<1> QED
  BY <1>1, FullInit, FullStep, PTL DEF Spec

\* However often a task is redelivered or a document resubmitted, two rows of a
\* document that was never contended have the same text only if one
\* save_chunks wrote both.
THEOREM NoDuplicates == Spec => []NoDuplicateAcrossRuns
<1>1. FullInv => NoDuplicateAcrossRuns
  <2> SUFFICES ASSUME FullInv, NEW s \in Sources \ contended, NEW r1 \in chunks, NEW r2 \in chunks,
                      r1.doc = docs[s].id, r2.doc = docs[s].id, r1.text = r2.text
               PROVE  r1.id[1] = r2.id[1]
    BY DEF NoDuplicateAcrossRuns
  <2>1. r1 \in Row /\ r2 \in Row
    BY DEF FullInv, Inv, TypeInv, TypeOK
  <2>2. OneBatch(s)
    BY DEF FullInv, IndexInv, SyncInv
  <2> QED
    BY <2>1, <2>2 DEF OneBatch, Stored
<1> QED
  BY <1>1, FullInit, FullStep, PTL DEF Spec
=============================================================================
