# Verification of the agentic RAG backend

TLA+ models of the parts of this backend in which steps of several processes,
failures between steps, or stale values decide whether the result is right. Each
module is translated from the Python source; `PROJECT.json` maps every definition
to the lines it stands for. TLC checks small instances, TLAPS proves the main
safety properties for every value of the constants.

To check a run: `tlc -config MCIngestService_serial.cfg MCIngestService`. To check
proofs: `tlapm IngestServiceProofs.tla`.

## 1. The system and its parts

A document arrives (upload, S3 webhook or sweep) as a Celery task. A worker parses
and chunks it, embeds the chunks, and writes them to Postgres (documents, chunks),
Neo4j (graph) and Vespa (search index); then it bumps a version counter in Redis.
A chat turn (`/chat`, `/chat/stream`, or `run_agent_turn` for other channels) looks
into an answer cache, lets a model call `search_documents` (through a retrieval
cache, Vespa and a reranker), passes the draft through gates (confidence,
citations, groundedness), and records the reply in the caches, in the session
memory and in a transcript.

| Part | State | Operations | Talks to | What makes it hard |
|---|---|---|---|---|
| Ingestion (`ingestion/ingest_service.py`, `agent/db_utils.py`) | documents row with content hash, chunk rows | `ingest_document`, `delete_document` | Postgres, Vespa, Neo4j, Redis | no transaction spans the stores; two workers on one source; a crash between hash and chunks |
| Queue (`worker/`) | queue, unacknowledged tasks | submit, deliver, ack, redeliver, retry | Redis broker | late acknowledgement repeats finished steps |
| Vespa client (`agent/vespa_client.py`) | index | feed, delete, search | HTTP | best-effort writes |
| Retrieval cache (`agent/query_cache.py`), answer cache (`agent/answer_cache.py`) | Redis entries, version counter | get, set, bump | Redis | the version is read before or after what it stands for; two caches in a chain |
| Chat endpoints (`agent/api.py`), `agent/conversation.py` | a turn's locals | `chat`, `chat_stream`, `execute_agent`, `run_agent_turn` | everything | three copies of one protocol, with different orders and exits |
| Gates (`agent/citations.py`, `groundedness.py`, `guardrails.py`) | none | check, enforce | models | fail-open, fail-closed and skip paths |
| Session memory (`agent/session_memory.py`) | message lists in Redis or in the process | add, read, clear | Redis | the backend is resolved once per process |
| Settings (`agent/settings_store.py`, `settings_router.py`) | one row, a cache per process | get, update | Supabase | coroutines share the cache across awaits |
| Chunker (`ingestion/chunker.py`) | none | `_simple_split`, `_create_chunk_objects`, semantic chunking | a model | window arithmetic |
| Embedder (`ingestion/embedder.py`) | LRU cache | `embed_chunks` | embeddings API | retry loops within the fallback of retry loops |
| Authentication (`agent/auth_*.py`) | users, refresh, reset and verification tokens | login, refresh, logout, reset, change, verify | Supabase | handlers of several calls without a transaction, over the same rows |
| Users, roles, avatars (`agent/users_router.py`, `access_control.py`) | user, role and permission rows, avatar cache | admin writes | Supabase, S3 | multi-row writes without a transaction |
| Knowledge graph (`agent/graph_utils.py`, `ingestion/graph_builder.py`) | chunk, fact and entity nodes | build, search, delete | Neo4j | drift from the chunk rows |
| Query rewriting, reranking, parsing, S3, providers, scripts | none of their own | stateless calls | models, S3 | they fail open to their input |

What correctness means for each is section 3; the hazards of the code, each at its
line and with the properties that would catch it, are listed in `PROJECT.json`.

## 2. Modules

| Module | Models | Proofs |
|---|---|---|
| `IngestService` | `ingest_document`, `delete_document`, Celery delivery | `IngestServiceProofs` |
| `RagCaches` | both caches and the version counter around a turn | `RagCachesProofs` |
| `ChatTurn` | the three entry points and their gates | `ChatTurnProofs` |
| `SlidingWindow` | abstract: what session memory promises | |
| `SessionMemory` | `SessionMemoryManager` in several processes; refines `SlidingWindow` | `SessionMemoryProofs` |
| `SettingsStore` | `get_config`, `update_config` | `SettingsStoreProofs` |
| `SimpleSplit` | `_simple_split`, `_create_chunk_objects` | `SplitEmbedProofs` |
| `Embedder` | `embed_chunks`, retries, fallback, LRU cache | `SplitEmbedProofs` |
| `Sessions` | refresh tokens, passwords, role claims of `auth_router` | `SessionsProofs` |
| `UsersRouter` | users, roles, permissions and their links | `UsersRouterProofs` |

`SplitEmbedProofs` extends `SimpleSplit` and `Embedder`, which share no state; that is
why the specification of `Embedder` carries the name of its module (`EmbedderInit`,
`EmbedderNext`, `EmbedderSpec`).

`MC*` modules give constants their values and hold nothing else. Operators whose
comment begins with "Mutant:" are wrong variants of the operator below them; they
are used by no specification and exist to show that a property can fail.

### 2.1 IngestService

State: the documents row of each source (id, hash), the chunk rows, the Vespa rows,
the chunk nodes of the graph, the version counter, the task queue, and the locals
of each worker and of each running deletion. One action per awaited call of
`ingest_document`: `Lookup` (hash comparison and skip), `Diff` (stored against new
hashes), `DeleteStale`, `VespaDelete`, `UpsertRead` / `UpsertUpdate` /
`UpsertInsert` / `UpsertConflict` (`upsert_document` is a read and a write),
`SaveChunks`, `BuildGraph`, `Feed`, `Bump`, and its early returns. `Raise` / `Fail`
are exceptions and the catch-all; `Crash`, `Start` and `Ack` are Celery's
redelivery under `task_acks_late` and `task_reject_on_worker_lost`. `Unready` is a
task that raises before `ingest_document`'s own `try` (the data layer cannot be
initialised, an S3 object cannot be parsed): only this is retried by
`autoretry_for`, up to `MaxRetries` times. A deletion is graph, chunks, Vespa, row,
each a step.

History variables: `solo` (the processes that have had their source to themselves),
`suspect` (sources whose last writer was interrupted or overlapped), `contended`
and `drift` (sources that ever were overlapped; that lost a best-effort write).

Abstractions: a chunk text stands for its hash; the chunker is the constant
`ChunksOf`; embeddings are not represented. External assumptions, from how the code
uses the tables: `documents.source` is unique (ingest_service.py:6,107), and chunk
rows refer to documents by a foreign key. Fact and Entity nodes are left out.

### 2.2 RagCaches

State: the documents in Postgres and in Vespa, the ingest stage of each,
`rag:cache:ver`, the entries of both caches, and for each request where it is in its
turn. A key is built from a version read in a step of its own (`ReadVersion`) and
used in the next (`AnswerGet`, `QueryGet`, `QuerySet`, `AnswerSet`), because any
other process may bump in between. An ingest saves its chunks and feeds Vespa, best
effort (`Feed`), and bumps whatever became of the feed (`Bump`); a deletion is best
effort in Vespa as well (`Remove`). `Retrieve` is the set of results a search can
have: Vespa, Postgres where Vespa fails or finds nothing, nothing where both fail,
all behind the same access filter.

User ids are any strings, since they come from the request (models.py:35). The id
"public" is one of them: the access filter takes it for a user and `_scope` for none.

History: `past` of a turn, and of an entry it fills, holds the bumps that fell into a
turn the data goes back to or were missed by a failed version read (`unseen`), and
whether a user named "public" searched for any of it (`shared`); `began` is the
version at the beginning of the turn.

Abstractions: a retrieval returns every document the caller may see; a chunk stands
for its document; `Seed` was indexed before Redis was set up (so version 0 has
documents). The turn is that of `/chat`; what the other entry points store is in
`ChatTurn`.

### 2.3 ChatTurn

State: the answer cache, and for each turn where it is, its path (`chat`, `stream`,
`turn`), response, retrieved chunks, statuses, and what the user sees (`shown`),
what memory holds (`memory`), what the transcript holds (`log`), whether an alert
was queued. Texts are what the gates can tell apart: kind, cited numbers, length,
abstention; and, as history, how many chunks the turn had retrieved (`n`), which
numbers its writer had seen them under (`given`: each search numbers from 1 again, so
1 to the size of the largest), and whether a model rewrote it behind the gates
(`late`). Every gate is an action; what a model says is a free choice. Every call
that may raise has a branch to its handler: the outer `except` of the endpoints
(`Abort`) or that of `run_agent_turn` (`TurnError`).

The output guardrails (`Guard`) leave what the leak scrub leaves of a draft, or the
canned refusal when nothing is left (`Scrubbed`), or any text of the model that
transliterates it (`Transliterated`), new citations included. Over `/chat` and the
stream they run before the gates, in `run_agent_turn` after them.

Abstractions: PII redaction and the leak scrub may drop citations but not invent
them; the canned error message and the refusal are not substantive (11 and 9 words);
a partial transcript write counts as
no assistant message; turns interact only through the atomic get and set of the
cache, so a slot that runs turns one after the other shows what concurrent ones do;
failures before anything happened equal never beginning.

### 2.4 SlidingWindow and SessionMemory

`SlidingWindow` says what a history is: the last `Window` turns since it was
created, cleared, expired or lost, and every turn if `Window` is 0: both `LTRIM 0 -1`
and `[-0:]` keep the whole list. `SessionMemory` has message lists in Redis and
in each process, the once-only resolution of the client, the RPUSH / LTRIM / EXPIRE
pipeline (one atomic step: redis-py pipelines are MULTI/EXEC), outages and
restarts. The refinement mapping pairs messages into turns. A negative
`CONTEXT_WINDOW_TURNS` is left out; the code would then drop messages from the front
of every list.

### 2.5 SettingsStore

State: the row as the number of updates it holds, with the time of each; the
cache, its time stamp and its client per process; and the locals of each coroutine.
`get_config` is one step up to its await (`GetConfig`), one for the database
(`Select`), one after it (`Apply`): the shared cache is written after the await
with a time stamp from before it. `upsert` merges columns; the last write wins.

### 2.6 SimpleSplit

A text is its length and the positions of its sentence ends; a chunk is a slice.
One action per kind of iteration: `LastChunk`, `NextChunk`, `EndOfText`, then
`Place` per chunk object. `Found` is `str.find` on a text that may repeat: any
position up to the real one can be the first occurrence. The module follows the loop
for every configuration `__post_init__` accepts, a negative overlap included: a
negative `start` counts from the end of the text, and the slice may be empty
(`Piece`). The properties speak of `Roomy` configurations, whose overlap is not
negative and smaller than the shortest chunk; what happens in the others is in
section 4.

### 2.7 Embedder

The vector of a text is the text itself, one step is one API call. A batch is
answered, retried, given up (rate limit on the last attempt: the whole batch gets
zero vectors and `embedding_error`) or handed to `_process_individually`, whose
calls go through the LRU cache. Each ingest creates its own embedder, so nothing
else runs on it. Not represented: truncation (chunks are far below the limit),
back-off times, and `progress_callback`, which no caller passes.

### 2.8 Sessions

State: the rows of `users` (there, active, verified, the number of its password),
`user_roles` as far as the admin role goes, `refresh_tokens`, `password_resets`, the
access tokens that have not expired, and the locals of each request. A handler is
cut at every database call that reads or writes what another can change:
`refresh_token` is `Refresh` (read and check), `Rotate` (revoke), `LoadUser`,
`GetUserRoles`, `InsertToken`; login joins it at `GetUserRoles`; `reset_password` is
`ResetPassword`, `WritePassword`, `MarkUsed`, `RevokeAll`, and `change_password`
the same without the mark. Single-call handlers are one action. `Fail` is a call
that raises (500, the rest of the handler does not happen). The admin's writes
(`SetActive`, `Promote`, `Demote`, `DeleteUser`) and the expiry of each kind of
token interleave with all of it.

History: the session and the password a refresh token goes back to; marks on a
request and on what it issues ("beaten": its token was consumed or revoked by
another after it had read it, or it read a reset token another was busy with;
"outrun": all sessions of its user were revoked after it had read what entitles
it); sessions that were logged out; users whose last change of password stopped
before the revocation; claims older than the loss of the role; the passwords each
reset token has set, counted when they are written (`uses`, those of a beaten
request aside); and reset tokens whose marking failed after the write (`unmarked`).
The marks make races visible to the properties and have no effect on the actions.

Abstractions: a request refused at its first read changes nothing and is left out; a
token stands for its hash; verification codes are not kept, since
`resend_verification` issues one whenever it is needed.

### 2.9 UsersRouter

State: which users, roles and permissions have a row, what each user and role is
linked to, and the locals of each request. Creation is a look for the name
(`Create`) and an insert (`InsertUser`, `InsertRow`, `InsertRefused`); an update of
links deletes them all (`Replace`) and then, one by one, looks up a role by its name
(`SelectItem`, which passes over names nobody has) and inserts the link
(`InsertLink`, `LinkRefused`). `register` and `create_user` go through the same
loop. `Delete` takes the links of its row with it and spares the built-in roles.

History: `asked` is what the last request for a row was sent, without names that
nobody had and rows deleted since; `solo` are the requests that have had their row
to themselves; `torn` are rows left by requests in each other's way or by one that
did not finish; `raced` are names two requests looked for at the same time.

The schema is not part of the repository. It is taken to refuse a link to a row that
is not there and to drop the links of a deleted row; whether it refuses a second row
of one name, or a link that is there already, is left open.

## 3. Runs

Bounds are named in the modules (`Max...`) and given in the `.cfg` files. Deadlock
checking is off in all of them: submissions, time and texts are bounded, and a
system with nothing left to do stops. `TypeOK` is proved for every instance of
every module (section 5); a run checks it where it says more than types, e.g. in
`users_rows` that every link joins rows that are there and in `embed_fallback` that
no batch gets more vectors than it has chunks.

| Run | Properties | Instance and why it is enough |
|---|---|---|
| `ingest_serial` | ConsistentAtRest, NoDuplicateAcrossRuns, EveryTaskSettles | one worker, three tasks out of four versions (a shared chunk, a removed one, a repeated one), one crash, one error inside the task or one retry before it: enough for insert, torn update and repair |
| `ingest_contended` | ConsistentAtRest, IndexesInSync, KeptChunksUntouched | two workers and a deletion on one source, one error (of a task that is not retried any more), index writes that may be lost: every pair of steps of two ingests, and of an ingest and a deletion |
| `ingest_redelivery` (violation) | NoMissingChunksAtRest | one task, one crash |
| `caches_scope` | ScopeSafe | an anonymous caller, a user and a user named "public", a private document, both caches, every call may fail: whoever fills an entry, the next turn of the slot can be anyone's |
| `caches_flaky` | MaskedOnlyByRace, MaskingEnds | a document from before the counter and an ingested one; every Redis, search and index call may fail. The turns of one slot meet each other's entries through both caches, and ingest and deletion fall between any two of their steps |
| `chat_gates` | TypeOK, ShownIsChecked, CachedIsChecked, RecordsMatchReply, EscalationIsHeard | the three entry points over one cached query; up to two chunks, from one search or from two that both number theirs 1; a citation can be right, out of range, zero or missing; guardrails rewrite before or behind the gates |
| `memory_window` | TypeOK, WholeTurns, ImplementsWindow | two processes, two sessions, window 2, four turns: the window overflows twice (the run also passes with window 0) |
| `settings_ttl` | BoundedStaleness, UpdateSeesOwnWrite | two coroutines in one process, TTL 2, four ticks, two updates |
| `split_overlap` | NothingLost, ChunkBounded, NotFoundEarlier, FlushIsReal, Advances, Terminates | every text up to 12 characters with every set of sentence ends; overlaps 0 to 3, the largest for chunk size 5 and look-back 3 that always advances; without overlap the loop can also end at a cut at the end of the text |
| `embed_fallback` | EmbedderTypeOK, EachWithItsVector, ZeroIsEarned, CacheSound, NotPaidTwice, EmbedderTerminates | up to six chunks in two batches over three texts and a blank one, cache of two: evictions happen in the middle of a batch |
| `sessions_races` | SessionsFollowPassword, OneTokenPerSession, LogoutEndsSession, AdminClaimIsEarned, ResetOnce | one user, two requests at a time, three refresh tokens (a login and two that one token is exchanged for), one reset token, two changes of password, and one failure or change by an admin: the token can be used again after a failed mark; handlers of different users share no rows |
| `users_rows` | TypeOK, LinksWhole, DefaultStays, OneRowPerName | two requests at a time over a user, the default role, two roles of one name and a permission, and one failure: a role is deleted and created again under the name that a request is about to link |

What they show:

- *ConsistentAtRest*: the chunk rows of a source are those of its recorded version
  unless its last writer was interrupted or overlapped; one undisturbed ingest of
  another version repairs it, since the diff reads the rows really stored.
  *IndexesInSync*: where no write was lost and nothing overlapped, Vespa has exactly
  the rows, and the graph a node for each of them (it may have more). *KeptChunksUntouched*: however stale a diff, it never
  deletes a row whose text its own version has. *NoDuplicateAcrossRuns*: redelivery
  stores nothing twice. *EveryTaskSettles*: no task is lost (a task that ends as
  "failed" is settled too; that this happens without a retry is in section 4).
- *ScopeSafe*: the scope in a cache key separates what the access filter separates,
  but for what goes back to searches of a user named "public".
  *MaskedOnlyByRace*: a searchable document bumped for before a turn is missing from
  its answer only if the bump fell into a turn whose data reached it through the
  caches, or a version read failed; the version in the key keeps everything else
  away. *MaskingEnds*: on a still corpus both caches converge.
- *CachedIsChecked*, *ShownIsChecked*: nothing with the number of a chunk that was not
  retrieved is cached or, where a gate looked at it, shown, but for what the
  guardrails of `run_agent_turn` make of an answer behind its gates: a
  transliteration, or the canned refusal. *RecordsMatchReply*: records agree with the
  screen, memory over `/chat` excepted. *EscalationIsHeard*: the "alerted an
  admin" reply and the queued alert go together (queued, not delivered).
- *WholeTurns*, *ImplementsWindow*: trimming by messages keeps whole turns.
- *BoundedStaleness*: a cache hit was current less than TTL ago if the last read of
  the process succeeded. *UpdateSeesOwnWrite*: so does an update's own refresh.
- *NothingLost*, *ChunkBounded*, *Advances*, *Terminates*, *NotFoundEarlier*,
  *FlushIsReal*: in roomy configurations the splitter covers the text, in bounded
  chunks, and ends; recorded positions are never too early, and exact without overlap.
- *EachWithItsVector*: vectors stay with their chunks through nested fallbacks.
  *ZeroIsEarned*: a zero vector costs exactly the failures the code allows for.
  *CacheSound*, *NotPaidTwice*: the LRU cache at its limit.
- *SessionsFollowPassword*: no session outlives the password it was opened with,
  but for a change that is under way or stopped half-way, and for tokens issued by
  a request the revocation outran. *OneTokenPerSession*: rotation hands a session
  on and never doubles it, unless one token was used twice at the same time.
  *LogoutEndsSession*: nothing but a refresh already on its way brings a session
  back. *AdminClaimIsEarned*: no refresh prolongs a role that was taken.
  *ResetOnce*: requests one after the other set one password with a reset token,
  unless the call that marks it used failed. Each names its exception; the exceptions
  do happen (section 4).
- *LinksWhole*: whatever requests and deletions did before, one update that has its
  row to itself leaves exactly the links it was sent. *DefaultStays*: no order of
  creating, renewing and deleting roles takes the default role from a user.
  *OneRowPerName*: the look for a name is enough but for two at the same time.

Fairness. `IngestService`: weak fairness on each worker's next step (taking a queued
task, a step of it, the acknowledgement) and on each deletion's next step, since a
live worker and an API request run on; none on crashes, errors, retries, new deletions
and submissions. `RagCaches`: weak
fairness on a turn's steps, an ingest's steps and each TTL; strong fairness on the
agent's decision to stop calling its tool, which pydantic-ai's request limit
enforces. `SimpleSplit` and `Embedder`: weak fairness on the next step of a running
function (the embeddings client has a timeout). The other modules check safety
only.

## 4. What the code does and its documents do not say

Found while modelling. One of them is a run with `expect: violation`:
`ingest_redelivery`. The hash is recorded before the chunks are saved. A worker
lost in between is redelivered the task, finds the hash equal and skips; the
document stays without chunks (ingest_service.py:137; celery_app.py:65).

The others are kept as formulas ("Claimed by ...") with a configuration each, where
TLC reports a violation. The three claims about cached answers share one
configuration: TLC stops at the first that is violated, and reports the next when
that one is taken out of its list.

| Configuration | Formula | What happens |
|---|---|---|
| `MCIngestService_overlap` | NoStaleChunksAtRest | two overlapping ingests leave a chunk of the one under the hash of the other |
| `MCIngestService_retry` | TransientErrorIsRetried | the catch-all returns "failed", which Celery takes for success: `autoretry_for` does not apply to errors inside `ingest_document`, only to those before it (ingest_service.py:280; tasks.py:5) |
| `MCIngestService_shrink` | SuccessfulIngestBumps | an update that only removes chunks returns before the bump (ingest_service.py:206; query_cache.py:23) |
| `MCRagCaches_fresh` | FreshAfterBump | the key of a retrieval entry is built from the version after the search, so a search from before a feed can be stored under the version from after the bump and mask the new document (tools.py:281; ingest_service.py:256) |
| `MCRagCaches_errormiss` | ErrorIsMiss | a failed version read counts as version 0 and may hit (query_cache.py:87, :26) |
| `MCRagCaches_publicid` | ScopesApart | a request with the user id "public" searches without the access filter and stores what it finds in the scope of anonymous callers (query_cache.py:82, :19) |
| `MCChatTurn_refusal` | BlockedGetsRefusal | a blocked message over `/chat` comes back without chunks, and the confidence gate replaces the refusal by the escalation message (api.py:471; README.md:137) |
| `MCChatTurn_memory` | MemoryHoldsReply | `execute_agent` saves the answer before `/chat`'s gates replace it (api.py:292) |
| `MCChatTurn_cached` | AbstentionNotCached | an abstention with a valid citation is cached (citations.py:71; answer_cache.py:19) |
| `MCChatTurn_cached` | CachedHasSources | `chat_stream` caches an answer given without any retrieval (api.py:739) |
| `MCChatTurn_cached` | OnlyAnswersCached | the output guardrails of `run_agent_turn` come after the gates; the refusal they put in place of a verified answer is cached in its stead (guardrails.py:167; conversation.py:126; answer_cache.py:17) |
| `MCChatTurn_handles` | CitesGivenHandles | after two searches of one chunk each the model has seen only [1], the gate counts two chunks and lets [2] through (agent.py:101, :99) |
| `MCSessionMemory_split` | SameHistory | a process whose first ping failed keeps a history of its own for good (session_memory.py:90, :9) |
| `MCSessionMemory_outage` | NeverRaises | an outage after the first use is not caught (session_memory.py:140, :27) |
| `MCSettingsStore_update` | UpdateReturnsNew | when the refresh fails, the old settings are returned (settings_store.py:109, :115) |
| `MCSimpleSplit_config` | AlwaysAdvances | accepted configurations, e.g. size 500 and overlap 350, for which the loop does not advance (chunker.py:385, :47) |
| `MCSimpleSplit_gap` | AlwaysWhole | a negative overlap is accepted and skips text between chunks (chunker.py:385, :47) |
| `MCSimpleSplit_position` | PositionIsReal | with overlap the search starts behind the chunk, so `start_char` is wrong from the second chunk on (chunker.py:424) |
| `MCSessions_reset` | ResetRevokesAll | a refresh or a login that had done its checks inserts its token after the revocation (auth_router.py:378; apitesting.md:978) |
| `MCSessions_rotation` | RotationIsExclusive | two refreshes read one token before either revokes it, and both issue a pair (auth_router.py:281; apitesting.md:910) |
| `MCSessions_onetime` | OneTimeToken | the password is written, the call that marks the reset token used fails, and the next request sets another password with it (auth_router.py:371; auth_utils.py:87) |

Read, not checked: a `register` that fails after its first insert answers a retry
with 409 and leaves the user without the default role (auth_router.py:143, 163). The
avatar endpoints prefer a replica's own file to S3 and refill the cached copy from
it, so that with several replicas an old picture can come back after an upload
(users_router.py:520). `_semantic_chunk` drops every chunk shorter than
`min_chunk_size`, and `_split_long_section` every part of the model's answer outside
the allowed lengths; text dropped this way is in no index (chunker.py:216, 338).

## 5. Proofs

All theorems hold for every value of the constants that satisfies the named
assumption of the module (`...Assumption`); TLC evaluates those on every run.

- `IngestServiceProofs`: *TypeCorrect*, *Consistent* (ConsistentAtRest), *Kept*
  (KeptChunksUntouched), *IndexesAgree* (IndexesInSync) and *NoDuplicates*
  (NoDuplicateAcrossRuns). These speak of sources nobody works on, so none is
  inductive. The invariant is built in layers, each inductive relative to the ones
  before: the types of worker locals at each step (`TypeInv`); ids handed out are
  below their counters, and what a process holds belongs to its source (`OwnInv`); a
  solo process is alone on its source and any other works on a suspect one
  (`SoloInv`); for each solo process, at each step, how the rows, its diff and its
  version fit together (`PhaseInv`), which at the last step gives exactness. For the
  indexes: every document id and every batch of rows belongs to one source for good
  (`OwnerInv`; there are owner functions, and a step extends them by the ids it hands
  out), without which a deletion by a stale id could reach another source's entries;
  and at each step of a solo process, what the indexes still lack of the rows or have
  beyond them (`SyncInv`). Its part `Fresh`, what is about to be embedded is not
  stored, keeps redeliveries from storing a chunk twice (`OneBatch`).
- `RagCachesProofs`: *CachesTypeCorrect*, *CachesScopeSafe*, *CachesMaskOnlyRaces*,
  for any users, one named "public" included, and with failing calls. An answer is
  only as good as the entry it was read from, and the entry as the search behind it,
  so the invariant follows the data. `Shown`: documents in the anonymous scope are
  public or go back to a search of the user "public". `Complete`: documents hold what
  is due at a version, but for lost feeds and the bumps their past could not see.
  Whatever a turn holds is complete up to the present version, whatever a cache
  stores up to the version of its key. A hit hands its past on; a search is complete
  by itself; a bump keeps all of it because it enters the past of every turn under
  way and exceeds the version of every key.
- `SettingsStoreProofs`: *SettingsTypeCorrect*, *StalenessBounded*, *UpdateIsSeen*.
  `Fresh(r, t)`: revision r was current at time t or later. The invariant: times and
  revisions are not in the future, each cache is fresh at its stamp (unless a failed
  read renewed it), each value read is fresh at the caller's `now`, and an update's
  read comes after its write.
- `SplitEmbedProofs`, on splitting: *SplitTypeCorrect*, *SplitLosesNothing*,
  *SplitIsBounded*, *SplitAdvances*, *SplitNotFoundEarlier*, *SplitFlushIsReal*. The
  types hold for every configuration `__post_init__` accepts, the other theorems for
  the roomy ones. The invariant there: everything before `start`, which is never
  negative and at most the length, is in a chunk; for the positions (`PlacedInv`), each chunk begins where the one before it
  says, and the search goes on at or behind the end of the last placed chunk, exactly
  there without overlap. The default configuration (1000, 200, 100; look-back 200) is
  roomy.
- `SplitEmbedProofs`, on embedding: *EmbedTypeCorrect*, *EmbedKeepsOrder*
  (EachWithItsVector), *EmbedZeroIsEarned*, *EmbedCacheSound*, *EmbedPaysOnce*
  (NotPaidTwice). `EInv` adds to the properties: everything before the
  batch is out (`OutInv`); the exact number of failed calls of every chunk not out
  yet, by where the code is (`PaidInv`); what each vector of the batch cost
  (`SingleInv`); and that the texts the batch has used are the most recent entries of
  the cache (`RecentInv`). From the last follows that an eviction is harmless: were
  the least recently used entry one of the batch, the whole cache would be, and with
  the missing text the batch would have more texts than fit.
- `ChatTurnProofs`: *ChatTypeCorrect*, *ShownCitationsAreReal* (ShownIsChecked),
  *CachedCitationsAreReal* (CachedIsChecked), *RecordsAgree* (RecordsMatchReply),
  *AlertsAreReal* (EscalationIsHeard). The properties speak of finished turns and of
  the cache; the invariant says of a turn at any step what its draft may cite
  (`DraftInv`), what a verdict of the judge vouches for, also after the guardrails of
  `run_agent_turn` (`StatusInv`), what the user is
  about to see (`ReplyInv`), which records hold it already (`RecordInv`), and when an
  alert goes with it (`AlertInv`). Memory over `/chat` is excepted there as in the
  property.
- `SessionMemoryProofs`: *MemoryTypeCorrect*, *TurnsStayWhole* (WholeTurns),
  *MemoryImplementsWindow* (ImplementsWindow). Every list has even length and
  alternates the user's and the assistant's message of one turn; keeping its last
  2 * Window messages (all of them for Window = 0) is then keeping its last Window
  turns (`TrimIsWindow`), and
  every step maps to an `Add`, a `Forget` or a stutter of `SlidingWindow`.
- `SessionsProofs`: *SessionsTypeCorrect*, *SessionsAreRevoked*, *RotationHandsOn*,
  *LogoutIsFinal*, *ClaimsAreEarned*, *ResetsWorkOnce*. The properties speak of
  tokens; the invariant has to speak of the requests about to issue them.
  `PasswordInv`: a request that may issue a token has the present password or one of
  the exceptions. `SessionInv`: a session has one holder, a live token or a request
  that has revoked one and not issued the next. `ClaimInv` does the
  same for claims read. `ResetInv`: a token that has set a password is marked used, or
  a request is about to mark it, or its mark failed; a request that read it alone
  finds it unspent when it writes; and of two requests with one token, one was late.
- `UsersRouterProofs`: *UsersTypeCorrect*, *LinksComeOutWhole*, *DefaultRoleStays*,
  *NamesAreUnique*. LinksWhole speaks of rows at rest. `Whole(L, A, K)` relates the
  links of a row, what was asked for and what is left to link; `OwnerInv` says of
  every row that it is whole at rest with nothing left, whole with what is left for
  a request that has it to itself, and torn under any other. `BirthInv` keeps a row
  being inserted apart from all requests, and `NameInv` follows a name from the look
  for it to the row.

Only model-checked: liveness (EveryTaskSettles, MaskingEnds, Terminates,
EmbedderTerminates), since fairness and ENABLED are beyond the prover. Every
invariant and every action property of a passing run is also a theorem.

## 6. What is left

Not modelled, though it could be:

- the routing of the notify task (default queue) against the queue the deployed
  worker consumes: a fact of configuration that a reader sees at once;
- semantic chunking (sections grouped up to `chunk_size`, long ones split by a model)
  and `SimpleChunker` (used by tests only);
- the backfill script against deletions; facts and entities of the graph;
- the avatar endpoints, see section 4.

Not planned: query rewriting and reranking (stateless, fail open), parsing, S3 and
provider construction (pure I/O), data models (declarations), evaluation and
deployment scripts, and what language models answer.
