------------------------------ MODULE ChatTurn ------------------------------
(***************************************************************************)
(* A chat turn from the message to the reply, over its three entry points: *)
(*   "chat"    POST /chat          (agent/api.py, chat and execute_agent)  *)
(*   "stream"  POST /chat/stream   (agent/api.py, chat_stream)             *)
(*   "turn"    run_agent_turn      (agent/conversation.py)                 *)
(* with the gates (agent/guardrails.py, agent/citations.py,                *)
(* agent/groundedness.py), the answer cache the turns share, the session   *)
(* memory in Redis and the message log in Supabase.                        *)
(*                                                                         *)
(* A step is the code between two awaits. A text is what the gates can     *)
(* tell apart: which sources it cites, whether it is long enough to be     *)
(* substantive, whether it holds an abstention marker; and, as history,    *)
(* what its writer had been given and who wrote it last. The models choose *)
(* texts and verdicts freely. Keys, versions and scopes of the cache are   *)
(* in RagCaches, the sliding window of the memory is in SessionMemory.     *)
(***************************************************************************)
EXTENDS Naturals, FiniteSets

CONSTANTS
    Turns,        \* request slots: a slot runs one turn after another
    Queries,      \* canonical queries
    MaxChunks,    \* bound on the chunks retrieved in a turn
    MaxCite,      \* bound on the source numbers a model writes
    JudgeOn,      \* GROUNDEDNESS_CHECK_ENABLED
    Remediation,  \* GROUNDEDNESS_REMEDIATION_ENABLED
    RomanUrdu     \* ENFORCE_ROMAN_URDU

ASSUME ChatAssumption ==
    /\ Queries # {} /\ MaxChunks \in Nat /\ MaxCite \in Nat
    /\ JudgeOn \in BOOLEAN /\ Remediation \in BOOLEAN /\ RomanUrdu \in BOOLEAN

VARIABLES
    cache,    \* answer cache: text and entry point of the answer to each query, or None
    pc,       \* the step each turn is at; its locals are:
    job,      \*   entry point, admin flag, canonical query, chunks, tool, response
    shown,    \* what the client of the turn has on the screen
    memory,   \* the assistant message of the turn in session memory
    log,      \* the assistant message of the turn in Supabase
    alerts,   \* turns an admin alert was queued for
    blocked,  \* history: turns whose message the input guardrails blocked
    failed    \* turns that ended in HTTP 500, an error event or an exception

vars == <<cache, pc, job, shown, memory, log, alerts, blocked, failed>>

\* A text, written when n chunks had been retrieved. Its writer had seen them under
\* the numbers 1..given: each search of the agent numbers its results from 1, so
\* given is the size of the largest of them, not n. A late text was rewritten by
\* the transliteration model behind the gates.
Text == [kind : {"draft", "abstain", "fallback", "decline", "blocked", "refusal", "error"},
         cites : SUBSET (0..MaxCite), long : BOOLEAN, abstains : BOOLEAN,
         n : 0..MaxChunks, given : 0..MaxChunks, late : BOOLEAN]
None == [kind |-> "none"]
Given(n) == IF n = 0 THEN {0} ELSE 1..n
Drafts(n) == [kind : {"draft"}, cites : SUBSET (0..MaxCite), long : BOOLEAN, abstains : BOOLEAN,
              n : {n}, given : Given(n), late : {FALSE}]
\* The canned messages; only the error message and the refusal of the output
\* guardrails ever meet the citation check, and with eleven and nine words they
\* are not substantive.
Canned(kind) == [kind |-> kind, cites |-> {}, long |-> FALSE, abstains |-> FALSE,
                 n |-> 0, given |-> 0, late |-> FALSE]

Tools == {"none", "graph_search", "hybrid_search"}
Job == [path : {"chat", "stream", "turn"}, admin : BOOLEAN, query : Queries, n : 0..MaxChunks,
        strong : BOOLEAN, tool : Tools, resp : Text \cup {None}, status : {"none", "grounded",
        "remediated", "skipped", "error_failopen", "ungrounded_abstained"}]
NoJob == [path |-> "chat", admin |-> FALSE, query |-> CHOOSE q \in Queries : TRUE, n |-> 0,
          strong |-> FALSE, tool |-> "none", resp |-> None, status |-> "none"]

Init ==
    /\ cache = [q \in Queries |-> None]
    /\ pc = [t \in Turns |-> "idle"] /\ job = [t \in Turns |-> NoJob]
    /\ shown = [t \in Turns |-> None] /\ memory = [t \in Turns |-> None]
    /\ log = [t \in Turns |-> None]
    /\ alerts = {} /\ blocked = {} /\ failed = {}

-----------------------------------------------------------------------------
(* Helpers *)

Path(t) == job[t].path
Goto(t, l) == pc' = [pc EXCEPT ![t] = l]
Show(t, a) == shown' = [shown EXCEPT ![t] = a]
Remember(t, a) == memory' = [memory EXCEPT ![t] = a]
Respond(t, a) == job' = [job EXCEPT ![t].resp = a]
NextBy(t, chat, stream, turn) ==
    CASE Path(t) = "chat" -> chat [] Path(t) = "stream" -> stream [] Path(t) = "turn" -> turn

\* An exception reaches the outer handler: HTTP 500, or an error event after what
\* was already streamed.
Abort(t) == Goto(t, "done") /\ failed' = failed \cup {t}

\* The handler of run_agent_turn: the error message is saved and returned; the
\* save may raise again.
TurnError(t) ==
    \/ Remember(t, Canned("error")) /\ Show(t, Canned("error")) /\ Goto(t, "done") /\ UNCHANGED failed
    \/ Abort(t) /\ UNCHANGED <<memory, shown>>

\* is_low_confidence: no chunk, or none similar enough.
LowConfidence(t) == job[t].n = 0 \/ ~job[t].strong

-----------------------------------------------------------------------------
(* The gates *)

\* validate_citations.
ValidateCitations(a, n) ==
    IF \E c \in a.cites : c < 1 \/ c > n THEN "fabricated_citation"
    ELSE IF a.cites # {} THEN "ok"
    ELSE IF a.abstains \/ ~a.long THEN "exempt_non_answer"
    ELSE IF n > 0 THEN "uncited_substantive_answer"
    ELSE "ok"

\* assess: the verdicts the judge can give on a text; a skipped or failed check
\* counts as grounded.
Assess(a, n) ==
    IF JudgeOn /\ n > 0 /\ a.long THEN {"grounded", "ungrounded", "error_failopen"} ELSE {"skipped"}

\* The corrected answers that may replace an ungrounded one. The judge sees the
\* chunks under the numbers of the gate, the first GROUNDEDNESS_MAX_CHUNKS of them.
\* (GROUNDEDNESS_REVERIFY asks the judge again, who may agree.)
Corrected(n) ==
    {a \in Drafts(n) : Remediation /\ ValidateCitations(a, n) = "ok" /\ ~a.abstains}

\* Mutant: the verdict of the judge is recorded and has no consequence.
EnforceNothing(a, n) == {[text |-> a, status |-> v] : v \in Assess(a, n)}

\* groundedness.enforce: the outcomes for a text, as answer and status.
Enforce(a, n) ==
    {[text |-> a, status |-> v] : v \in Assess(a, n) \ {"ungrounded"}} \cup
    (IF "ungrounded" \notin Assess(a, n) THEN {}
     ELSE {[text |-> c, status |-> "remediated"] : c \in Corrected(n)} \cup
          {[text |-> Canned("abstain"), status |-> "ungrounded_abstained"]})

Cacheable == {"grounded", "remediated", "skipped"}

-----------------------------------------------------------------------------
(* The steps of a turn *)

\* A request: session, admin check, history and condensed query. The records of
\* the slot's last turn are no longer looked at.
Begin(t) ==
    /\ pc[t] \in {"idle", "done"}
    /\ \E path \in {"chat", "stream", "turn"}, admin \in BOOLEAN, q \in Queries :
          /\ path = "turn" => ~admin
          /\ job' = [job EXCEPT ![t] = [NoJob EXCEPT !.path = path, !.admin = admin, !.query = q]]
          /\ Goto(t, IF path = "turn" THEN "input" ELSE IF admin THEN "scope" ELSE "cache")
    /\ Show(t, None) /\ Remember(t, None) /\ log' = [log EXCEPT ![t] = None]
    /\ alerts' = alerts \ {t} /\ blocked' = blocked \ {t} /\ failed' = failed \ {t}
    /\ UNCHANGED cache

\* answer_cache.get, and the turn of a hit.
CacheGet(t) ==
    LET hit == cache[job[t].query].text IN
    /\ pc[t] = "cache"
    /\ \/ /\ Goto(t, NextBy(t, "scope", "scope", "agent"))
          /\ UNCHANGED <<job, shown, memory, failed>>
       \/ /\ cache[job[t].query] # None
          /\ Respond(t, hit)
          /\ \/ Remember(t, hit) /\ Show(t, hit) /\ Goto(t, NextBy(t, "log", "log", "done")) /\ UNCHANGED failed
             \/ Path(t) = "chat" /\ Abort(t) /\ UNCHANGED <<shown, memory>>
             \/ Path(t) = "stream" /\ Abort(t) /\ Show(t, hit) /\ UNCHANGED memory
             \/ Path(t) = "turn" /\ TurnError(t)
    /\ UNCHANGED <<cache, log, alerts, blocked>>

\* classify_query_scope; a decline is logged and not remembered.
Scope(t) ==
    /\ pc[t] = "scope"
    /\ \/ /\ Respond(t, Canned("decline")) /\ Show(t, Canned("decline"))
          /\ Goto(t, "log")
       \/ /\ Goto(t, NextBy(t, "input", "precheck", "input"))
          /\ UNCHANGED <<job, shown>>
    /\ UNCHANGED <<cache, memory, log, alerts, blocked, failed>>

\* Mutant: the alert is queued after the reply, and may be lost.
EscalateUnheard(t) ==
    /\ alerts' \in {alerts, alerts \cup {t}}
    /\ Respond(t, Canned("fallback")) /\ Show(t, Canned("fallback"))
    /\ Goto(t, "log") /\ UNCHANGED failed

\* The low-confidence reply: the alert is queued first, and queueing may raise.
Escalate(t) ==
    \/ /\ alerts' = alerts \cup {t}
       /\ Respond(t, Canned("fallback"))
       /\ Show(t, Canned("fallback"))
       /\ Goto(t, "log") /\ UNCHANGED failed
    \/ Abort(t) /\ UNCHANGED <<alerts, job, shown>>

\* The confidence gate of chat_stream, on a search of its own.
Precheck(t) ==
    /\ pc[t] = "precheck"
    /\ \/ Escalate(t)
       \/ Goto(t, "input") /\ UNCHANGED <<job, shown, alerts, failed>>
    /\ UNCHANGED <<cache, memory, log, blocked>>

\* check_input. A refusal is remembered, and over chat it goes on to the gates.
CheckInput(t) ==
    LET refusal == Canned("blocked") IN
    /\ pc[t] = "input"
    /\ \/ /\ Goto(t, NextBy(t, "agent", "agent", "cache"))
          /\ UNCHANGED <<job, shown, memory, blocked, failed>>
       \/ /\ blocked' = blocked \cup {t}
          /\ Respond(t, refusal)
          /\ \/ /\ Remember(t, refusal)
                /\ IF Path(t) = "chat" THEN UNCHANGED shown ELSE Show(t, refusal)
                /\ Goto(t, NextBy(t, "gate", "done", "done")) /\ UNCHANGED failed
             \/ Path(t) = "stream" /\ Show(t, refusal) /\ Abort(t) /\ UNCHANGED memory
             \/ Path(t) # "stream" /\ Abort(t) /\ UNCHANGED <<shown, memory>>
    /\ UNCHANGED <<cache, log, alerts>>

\* The agent run: searches that retrieve n chunks in all, then a draft, or an
\* exception at any point. The gates count over the n chunks of all searches, the
\* draft was written over the numbers each search gave anew. chat_stream shows the
\* draft as it is written.
Agent(t) ==
    /\ pc[t] = "agent"
    /\ \E n \in 0..MaxChunks, strong \in BOOLEAN, tool \in Tools :
          /\ n > 0 => tool = "hybrid_search"
          /\ strong => n > 0
          /\ \E draft \in Drafts(n) :
             LET ran == [job EXCEPT ![t].n = n, ![t].strong = strong, ![t].tool = tool, ![t].resp = draft] IN
             \/ /\ job' = ran
                /\ IF Path(t) = "stream" THEN Show(t, draft) ELSE UNCHANGED shown
                /\ Goto(t, NextBy(t, "guard", "guard", "gate"))
                /\ UNCHANGED <<memory, failed>>
             \/ /\ Path(t) = "chat"
                /\ job' = [ran EXCEPT ![t].resp = Canned("error")]
                /\ Goto(t, "errorMemory") /\ UNCHANGED <<shown, memory, failed>>
             \/ Path(t) = "stream" /\ Show(t, draft) /\ Abort(t) /\ UNCHANGED <<job, memory>>
             \/ Path(t) = "turn" /\ TurnError(t) /\ UNCHANGED job
    /\ UNCHANGED <<cache, log, alerts, blocked>>

\* scrub_leaks and redact_pii: what is left of a draft, or the canned refusal when
\* no line is left.
Scrubbed(a) ==
    {b \in Drafts(a.n) : b.given = a.given /\ b.cites \subseteq a.cites} \cup {Canned("refusal")}

\* enforce_roman_urdu: any text of the model that transliterates the draft.
Transliterated(a, behindGates) ==
    IF RomanUrdu THEN {[b EXCEPT !.late = behindGates] : b \in {d \in Drafts(a.n) : d.given = a.given}} ELSE {}

\* apply_output_guardrails, fail-open. Before the gates over chat and stream,
\* after them in run_agent_turn.
Guard(t) ==
    /\ pc[t] = "guard"
    /\ \/ UNCHANGED job
       \/ /\ job[t].resp.kind = "draft"
          /\ \E a \in Scrubbed(job[t].resp) \cup Transliterated(job[t].resp, Path(t) = "turn") : Respond(t, a)
    /\ Goto(t, NextBy(t, "agentMemory", "gate", "set"))
    /\ UNCHANGED <<cache, shown, memory, log, alerts, blocked, failed>>

\* execute_agent saves the response it returns. If that raises it saves the error
\* message instead, and if that raises too the request fails.
AgentMemory(t) ==
    /\ \/ /\ pc[t] = "agentMemory"
          /\ \/ Remember(t, job[t].resp) /\ Goto(t, "gate") /\ UNCHANGED job
             \/ Respond(t, Canned("error")) /\ Goto(t, "errorMemory") /\ UNCHANGED memory
          /\ UNCHANGED failed
       \/ /\ pc[t] = "errorMemory"
          /\ \/ Remember(t, job[t].resp) /\ Goto(t, "gate") /\ UNCHANGED failed
             \/ Abort(t) /\ UNCHANGED memory
          /\ UNCHANGED job
    /\ UNCHANGED <<cache, shown, log, alerts, blocked>>

\* Where a turn goes after the citation gate, when there is nothing to judge.
AfterGates(t) == Goto(t, NextBy(t, "log", "replace", "guard"))

\* The citation gate, citations.enforce.
CitationGate(t) ==
    LET reason == ValidateCitations(job[t].resp, job[t].n) IN
    /\ \/ reason = "ok" /\ Goto(t, "judge") /\ UNCHANGED job
       \/ reason = "exempt_non_answer" /\ AfterGates(t) /\ UNCHANGED job
       \/ /\ reason \in {"fabricated_citation", "uncited_substantive_answer"}
          /\ Respond(t, Canned("abstain")) /\ AfterGates(t)
    /\ UNCHANGED <<shown, alerts, failed>>

\* Mutant: chat_stream exempts a text that cites anything from the range check.
GateTrustsCites(t) ==
    /\ pc[t] = "gate"
    /\ IF job[t].resp.cites # {} THEN Goto(t, "judge") /\ UNCHANGED <<job, shown, alerts, failed>>
       ELSE CitationGate(t)
    /\ UNCHANGED <<cache, memory, log, blocked>>

\* The confidence and citation gates. Over chat the session memory is read before
\* them, which may raise, and the first looks at the chunks only; chat_stream
\* takes "no tool" for the document search; run_agent_turn gates nothing unless
\* the document search was used.
Gate(t) ==
    /\ pc[t] = "gate"
    /\ \/ Path(t) = "chat" /\ Abort(t) /\ UNCHANGED <<job, shown, alerts>>
       \/ Path(t) = "chat" /\ LowConfidence(t) /\ Escalate(t)
       \/ Path(t) = "chat" /\ ~LowConfidence(t) /\ job[t].tool = "hybrid_search" /\ CitationGate(t)
       \/ Path(t) = "stream" /\ job[t].tool # "graph_search" /\ CitationGate(t)
       \/ /\ Path(t) = "turn" /\ job[t].tool = "hybrid_search"
          /\ IF LowConfidence(t)
             THEN Respond(t, Canned("abstain")) /\ AfterGates(t) /\ UNCHANGED <<shown, alerts, failed>>
             ELSE CitationGate(t)
       \/ /\ \/ Path(t) = "stream" /\ job[t].tool = "graph_search"
             \/ Path(t) = "turn" /\ job[t].tool # "hybrid_search"
          /\ AfterGates(t) /\ UNCHANGED <<job, shown, alerts, failed>>
    /\ UNCHANGED <<cache, memory, log, blocked>>

\* The groundedness gate.
Judge(t) ==
    /\ pc[t] = "judge"
    /\ \E o \in Enforce(job[t].resp, job[t].n) :
          job' = [job EXCEPT ![t].resp = o.text, ![t].status = o.status]
    /\ Goto(t, NextBy(t, "set", "replace", "guard"))
    /\ UNCHANGED <<cache, shown, memory, log, alerts, blocked, failed>>

\* Mutant: the gated text is remembered and the client keeps the draft.
ReplaceForgotten(t) ==
    /\ pc[t] = "replace"
    /\ Remember(t, job[t].resp) /\ Goto(t, "set")
    /\ UNCHANGED <<cache, job, shown, log, alerts, blocked, failed>>

\* chat_stream: the replace event, then the save.
Replace(t) ==
    /\ pc[t] = "replace"
    /\ Show(t, job[t].resp)
    /\ \/ Remember(t, job[t].resp) /\ Goto(t, "set") /\ UNCHANGED failed
       \/ Abort(t) /\ UNCHANGED memory
    /\ UNCHANGED <<cache, job, log, alerts, blocked>>

\* What a turn stores; the entry point is history.
Entry(t) == [text |-> job[t].resp, by |-> job[t].path]

\* Mutant: whatever passed the gates is cached.
SetAnything(t) ==
    /\ pc[t] = "set"
    /\ cache' = [cache EXCEPT ![job[t].query] = Entry(t)]
    /\ Goto(t, NextBy(t, "log", "log", "finish"))
    /\ UNCHANGED <<job, shown, memory, log, alerts, blocked, failed>>

\* answer_cache.set, best effort. chat_stream then reads the session memory for
\* its debug record, which may raise.
Set(t) ==
    /\ pc[t] = "set"
    /\ \/ /\ job[t].status \in Cacheable /\ ~job[t].admin
          /\ cache' = [cache EXCEPT ![job[t].query] = Entry(t)]
       \/ UNCHANGED cache
    /\ \/ Goto(t, NextBy(t, "log", "log", "finish")) /\ UNCHANGED failed
       \/ Path(t) = "stream" /\ Abort(t)
    /\ UNCHANGED <<job, shown, memory, log, alerts, blocked>>

\* The transcript, best effort, and the end of a request.
Log(t) ==
    /\ pc[t] = "log"
    /\ \/ log' = [log EXCEPT ![t] = job[t].resp]
       \/ UNCHANGED log
    /\ Show(t, job[t].resp)
    /\ Goto(t, "done")
    /\ UNCHANGED <<cache, job, memory, alerts, blocked, failed>>

\* The end of run_agent_turn.
Finish(t) ==
    /\ pc[t] = "finish"
    /\ \/ Remember(t, job[t].resp) /\ Show(t, job[t].resp) /\ Goto(t, "done") /\ UNCHANGED failed
       \/ TurnError(t)
    /\ UNCHANGED <<cache, job, log, alerts, blocked>>

\* The TTL of an answer, or an ingest that bumps the version.
Expire(q) ==
    /\ cache[q] # None
    /\ cache' = [cache EXCEPT ![q] = None]
    /\ UNCHANGED <<pc, job, shown, memory, log, alerts, blocked, failed>>

Step(t) ==
    \/ Begin(t) \/ CacheGet(t) \/ Scope(t) \/ Precheck(t) \/ CheckInput(t) \/ Agent(t)
    \/ Guard(t) \/ AgentMemory(t) \/ Gate(t) \/ Judge(t) \/ Replace(t) \/ Set(t) \/ Log(t) \/ Finish(t)

Next == (\E t \in Turns : Step(t)) \/ (\E q \in Queries : Expire(q))
Spec == Init /\ [][Next]_vars

-----------------------------------------------------------------------------
(* Properties *)

TypeOK ==
    /\ cache \in [Queries -> [text : Text, by : {"chat", "stream", "turn"}] \cup {None}]
    /\ pc \in [Turns -> {"idle", "cache", "scope", "precheck", "input", "agent", "guard", "agentMemory",
                         "errorMemory", "gate", "judge", "replace", "set", "log", "finish", "done"}]
    /\ job \in [Turns -> Job]
    /\ shown \in [Turns -> Text \cup {None}] /\ memory \in [Turns -> Text \cup {None}]
    /\ log \in [Turns -> Text \cup {None}]
    /\ alerts \subseteq Turns /\ blocked \subseteq Turns /\ failed \subseteq Turns

\* A text of a model that cites only chunks its turn had retrieved.
Checked(a) == a.kind = "draft" /\ a.cites \subseteq 1..a.n

\* A text the guardrails of run_agent_turn had transliterated behind the gates.
Rewritten(a) == a.kind = "draft" /\ a.late

\* The gates looked at the reply of turn t.
Gated(t) == \/ Path(t) = "chat"
            \/ job[t].tool = "hybrid_search"
            \/ Path(t) = "stream" /\ job[t].tool = "none"

\* No gated reply ends up on a screen with the number of a chunk its turn did not
\* retrieve, whether it was generated, corrected by the judge, scrubbed or served
\* from the cache; but what run_agent_turn has transliterated behind the gates, and
\* caches, is not checked again. (That the number stands for the chunk the model
\* was shown under it is CitesGivenHandles.)
ShownIsChecked ==
    \A t \in Turns : pc[t] = "done" /\ t \notin failed /\ Gated(t) /\ shown[t].kind = "draft" =>
        Checked(shown[t]) \/ Rewritten(shown[t])

\* What is memoized is a model's text that cites only chunks its turn had retrieved,
\* over /chat at least one: never a decline, escalation, abstention message, error
\* message or blocked message. Only run_agent_turn, which guards behind the gates,
\* stores what its guardrails leave: the canned refusal or a transliteration.
CachedIsChecked ==
    \A q \in Queries : cache[q] # None =>
        \/ Checked(cache[q].text) /\ (cache[q].by = "chat" => cache[q].text.cites # {})
        \/ cache[q].by = "turn" /\ (cache[q].text.kind = "refusal" \/ Rewritten(cache[q].text))

\* The transcript and, except over /chat, the session memory hold what the user
\* was left with, after all replacements.
RecordsMatchReply ==
    \A t \in Turns : pc[t] = "done" =>
        /\ log[t] # None => log[t] = shown[t]
        /\ memory[t] # None /\ Path(t) # "chat" => memory[t] = shown[t]

\* "I've alerted an admin" is said in exactly the turns an alert was queued for.
EscalationIsHeard == \A t \in Turns : shown[t].kind = "fallback" <=> t \in alerts

\* Claimed by the README's pipeline, where every outcome of the gates goes into
\* the session memory: what is remembered of a turn is what the user got.
MemoryHoldsReply ==
    \A t \in Turns : pc[t] = "done" /\ t \notin failed /\ memory[t] # None => memory[t] = shown[t]

\* Claimed by the README's pipeline ("Blocked" leads to "Return refusal"): a
\* blocked message is answered by the refusal.
BlockedGetsRefusal ==
    \A t \in blocked : pc[t] = "done" /\ t \notin failed => shown[t].kind = "blocked"

\* Claimed by the answer cache's guarantees: "I don't know" is never frozen into
\* the cache.
AbstentionNotCached == \A q \in Queries : cache[q] # None => ~cache[q].text.abstains

\* Claimed by the answer cache's guarantees ("Only good answers are stored"): no
\* canned message is cached.
OnlyAnswersCached == \A q \in Queries : cache[q] # None => cache[q].text.kind = "draft"

\* Claimed by search_documents ("the citation validator checks answers against this
\* same ordering"): a draft that passes the gates cites only numbers its writer was
\* given.
CitesGivenHandles ==
    \A t \in Turns : pc[t] = "done" /\ t \notin failed /\ Gated(t) /\ shown[t].kind = "draft" =>
        shown[t].cites \subseteq 1..shown[t].given

\* Claimed by "Only verified-good answers cached": what is cached was checked
\* against sources.
CachedHasSources == \A q \in Queries : cache[q] # None => cache[q].text.n > 0
=============================================================================
