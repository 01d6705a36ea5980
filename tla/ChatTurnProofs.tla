--------------------------- MODULE ChatTurnProofs ---------------------------
(***************************************************************************)
(* Proofs about ChatTurn, for any number of turns, queries, chunks and     *)
(* source numbers, with and without the judge and its remediation.         *)
(*                                                                         *)
(* The properties speak of a turn that is done and of the cache. The       *)
(* invariant says of a turn at any step what is known of its reply there:  *)
(* where it was written (DraftInv), whether a gate has passed it           *)
(* (ReplyInv), what the judge's status vouches for (StatusInv), and which  *)
(* records and alerts there can be by then (RecordInv, AlertInv).          *)
(***************************************************************************)
EXTENDS ChatTurn, TLAPS

-----------------------------------------------------------------------------
(* The inductive invariant *)

\* The reply of t is a model's text that cites only the chunks of t; over /chat it
\* cites at least one.
InRange(t) ==
    /\ Checked(job[t].resp) /\ job[t].resp.n = job[t].n
    /\ Path(t) = "chat" => job[t].resp.cites # {}

\* It is, or it was when the judge saw it, before run_agent_turn guarded it.
Vouched(t) ==
    \/ InRange(t)
    \/ Path(t) = "turn" /\ (job[t].resp.kind = "refusal" \/ Rewritten(job[t].resp))

\* Turn t has not been through the judge. (run_agent_turn guards after the gates.)
Unjudged(t) ==
    \/ pc[t] \in {"idle", "cache", "scope", "precheck", "input", "agent", "agentMemory",
                  "errorMemory", "gate", "judge"}
    \/ pc[t] = "guard" /\ Path(t) # "turn"

\* Turn t is behind the gates.
Passed(t) ==
    \/ pc[t] \in {"replace", "set", "log", "finish"}
    \/ pc[t] = "guard" /\ Path(t) = "turn"

\* Before the gates a reply was written over the chunks of its turn, or is a canned
\* message; what reaches the judge cites only those chunks. Nothing is rewritten
\* late before the last guard.
DraftInv(t) ==
    /\ pc[t] \in {"guard", "agentMemory", "errorMemory", "gate"} =>
          /\ job[t].resp \in Text
          /\ job[t].resp.kind = "draft" => job[t].resp.n = job[t].n
          /\ job[t].resp.kind # "draft" => job[t].resp.cites = {} /\ ~job[t].resp.long
    /\ pc[t] = "judge" => job[t].resp \in Text /\ InRange(t)
    /\ pc[t] \in {"guard", "agentMemory", "errorMemory", "gate", "judge"} => ~Rewritten(job[t].resp)

\* A verdict comes from the judge only, and one that allows caching vouches for the
\* reply the turn holds.
StatusInv(t) ==
    /\ Unjudged(t) => job[t].status = "none"
    /\ job[t].status \in Cacheable => Vouched(t)

\* Behind the gates a gated reply cites only chunks that were retrieved, or was
\* transliterated there; it is what ends up on the screen.
ReplyInv(t) ==
    /\ Passed(t) /\ Gated(t) /\ job[t].resp.kind = "draft" => Checked(job[t].resp) \/ Rewritten(job[t].resp)
    /\ pc[t] = "done" /\ t \notin failed /\ Gated(t) /\ shown[t].kind = "draft" =>
          Checked(shown[t]) \/ Rewritten(shown[t])

\* Nothing is logged before the end; outside /chat nothing is remembered before
\* the reply is final.
RecordInv(t) ==
    /\ pc[t] # "done" => log[t] = None
    /\ pc[t] = "done" /\ log[t] # None => log[t] = shown[t]
    /\ memory[t] # None /\ Path(t) # "chat" =>
          /\ pc[t] \in {"set", "log", "done"}
          /\ memory[t] = shown[t]
          /\ pc[t] # "done" => memory[t] = job[t].resp /\ Path(t) = "stream"
    /\ pc[t] \in {"agentMemory", "errorMemory"} => Path(t) = "chat"
    /\ pc[t] = "replace" => Path(t) = "stream"

\* An alert is queued on the way to the log only, together with the reply that
\* says so.
AlertInv(t) ==
    /\ shown[t].kind = "fallback" <=> t \in alerts
    /\ pc[t] \notin {"log", "done"} => t \notin alerts /\ job[t].resp.kind # "fallback"
    /\ pc[t] = "log" => (job[t].resp.kind = "fallback" <=> t \in alerts)

TurnInv(t) == DraftInv(t) /\ StatusInv(t) /\ ReplyInv(t) /\ RecordInv(t) /\ AlertInv(t)

Inv == TypeOK /\ CachedIsChecked /\ \A t \in Turns : TurnInv(t)

-----------------------------------------------------------------------------
(* Texts *)

\* What the fields of a text are; no text is None.
LEMMA TextFields ==
    ASSUME NEW a \in Text
    PROVE  /\ a.kind \in {"draft", "abstain", "fallback", "decline", "blocked", "refusal", "error"}
           /\ a.cites \subseteq 0..MaxCite /\ a.n \in 0..MaxChunks /\ a # None
  BY DEF Text, None

\* The canned messages are texts without citations that are not substantive.
LEMMA CannedFields ==
    ASSUME NEW k \in {"abstain", "fallback", "decline", "blocked", "refusal", "error"}
    PROVE  /\ Canned(k) \in Text /\ Canned(k).kind = k
           /\ Canned(k).cites = {} /\ ~Canned(k).long /\ ~Rewritten(Canned(k))
  BY ChatAssumption DEF Canned, Text, Rewritten

\* A reply that is None has a kind of its own.
LEMMA NoneFields == None.kind = "none"
  BY DEF None

\* The drafts written over n chunks.
LEMMA DraftFields ==
    ASSUME NEW n \in 0..MaxChunks, NEW a \in Drafts(n)
    PROVE  a \in Text /\ a.kind = "draft" /\ a.n = n /\ ~Rewritten(a)
<1>1. Given(n) \subseteq 0..MaxChunks
  BY ChatAssumption DEF Given
<1> QED
  BY <1>1 DEF Drafts, Text, Rewritten

\* A job keeps its type when its reply, or its reply and its status, change.
LEMMA JobFields ==
    ASSUME NEW j \in Job
    PROVE  /\ j.path \in {"chat", "stream", "turn"} /\ j.query \in Queries
           /\ j.n \in 0..MaxChunks /\ j.tool \in Tools /\ j.resp \in Text \cup {None}
           /\ j.resp \notin Text => j.resp = None
  BY DEF Job

LEMMA JobResp ==
    ASSUME NEW j \in Job, NEW a \in Text
    PROVE  /\ [j EXCEPT !.resp = a] \in Job
           /\ [j EXCEPT !.resp = a].resp = a
           /\ [j EXCEPT !.resp = a].path = j.path /\ [j EXCEPT !.resp = a].query = j.query
           /\ [j EXCEPT !.resp = a].n = j.n /\ [j EXCEPT !.resp = a].tool = j.tool
           /\ [j EXCEPT !.resp = a].status = j.status /\ [j EXCEPT !.resp = a].strong = j.strong
           /\ [j EXCEPT !.resp = a].admin = j.admin
  BY DEF Job

\* The job a request begins with.
NewJob(path, admin, q) == [NoJob EXCEPT !.path = path, !.admin = admin, !.query = q]

LEMMA NewJobFields ==
    ASSUME NEW path \in {"chat", "stream", "turn"}, NEW admin \in BOOLEAN, NEW q \in Queries,
           NEW j, j = NewJob(path, admin, q)
    PROVE  j \in Job /\ j.resp = None /\ j.status = "none" /\ j.path = path
<1> DEFINE j1 == [NoJob EXCEPT !.path = path]  j2 == [j1 EXCEPT !.admin = admin]  j3 == [j2 EXCEPT !.query = q]
<1>1. NoJob \in Job /\ NoJob.resp = None /\ NoJob.status = "none"
  BY ChatAssumption DEF NoJob, Job, Tools
<1>2. j1 \in Job /\ j1.resp = None /\ j1.status = "none" /\ j1.path = path
  BY <1>1 DEF Job
<1> HIDE DEF j1
<1>3. j2 \in Job /\ j2.resp = None /\ j2.status = "none" /\ j2.path = path
  BY <1>2 DEF Job
<1> HIDE DEF j2
<1>4. j3 \in Job /\ j3.resp = None /\ j3.status = "none" /\ j3.path = path
  BY <1>3 DEF Job
<1>5. j3 = NewJob(path, admin, q)
  BY <1>1 DEF j1, j2, Job, NewJob
<1> QED
  BY <1>4, <1>5

-----------------------------------------------------------------------------
(* One turn at a time *)

\* The variables of turn u stay what they are.
Same(u) ==
    /\ pc'[u] = pc[u] /\ job'[u] = job[u] /\ shown'[u] = shown[u]
    /\ memory'[u] = memory[u] /\ log'[u] = log[u]
    /\ u \in alerts' <=> u \in alerts
    /\ u \in failed' <=> u \in failed

\* A step of turn t leaves the other turns alone.
Local(t) == \A u \in Turns \ {t} : Same(u)

\* A turn left alone keeps its invariant.
LEMMA SameInv ==
    ASSUME NEW u \in Turns, TurnInv(u), Same(u)
    PROVE  TurnInv(u)'
  BY DEF Same, TurnInv, DraftInv, StatusInv, ReplyInv, RecordInv, AlertInv, Vouched, InRange, Unjudged,
         Passed, Gated, Path

\* What a step of turn t has to establish.
Kept(t) == TypeOK' /\ Local(t) /\ TurnInv(t)'

LEMMA BeginKeeps ==
    ASSUME Inv, NEW t \in Turns, Begin(t)
    PROVE  Kept(t) /\ UNCHANGED cache
<1>0. TypeOK /\ TurnInv(t)
  BY DEF Inv
<1>1. PICK path \in {"chat", "stream", "turn"}, admin \in BOOLEAN, q \in Queries :
        /\ job' = [job EXCEPT ![t] = NewJob(path, admin, q)]
        /\ Goto(t, IF path = "turn" THEN "input" ELSE IF admin THEN "scope" ELSE "cache")
  BY DEF Begin, NewJob
<1>2. PICK j : j = NewJob(path, admin, q)
  OBVIOUS
<1>3. j \in Job /\ j.resp = None /\ j.status = "none"
  BY <1>2, NewJobFields
<1>4. pc'[t] \in {"input", "scope", "cache"} /\ job'[t] = j /\ shown'[t] = None /\ memory'[t] = None
      /\ log'[t] = None /\ t \notin alerts' /\ t \notin failed'
  BY <1>0, <1>1, <1>2 DEF Begin, Goto, Show, Remember, TypeOK
<1>5. TypeOK'
  BY <1>0, <1>1, <1>2, <1>3 DEF Begin, Goto, Show, Remember, TypeOK
<1>6. Local(t)
  BY <1>0, <1>1 DEF Begin, Goto, Show, Remember, TypeOK, Local, Same
<1>7. TurnInv(t)'
  BY <1>3, <1>4, NoneFields DEF TurnInv, DraftInv, StatusInv, ReplyInv, RecordInv, AlertInv, Vouched, InRange, Unjudged,
         Passed, Gated, Path, Cacheable
<1> QED
  BY <1>5, <1>6, <1>7 DEF Kept, Begin

\* The reply of t becomes a, the rest of the jobs stays.
LEMMA RespondEffect ==
    ASSUME TypeOK, NEW t \in Turns, NEW a \in Text, Respond(t, a)
    PROVE  /\ job' \in [Turns -> Job] /\ \A u \in Turns \ {t} : job'[u] = job[u]
           /\ job'[t].resp = a /\ job'[t].path = job[t].path /\ job'[t].query = job[t].query
           /\ job'[t].n = job[t].n /\ job'[t].tool = job[t].tool /\ job'[t].status = job[t].status
<1>1. job \in [Turns -> Job] /\ job' = [job EXCEPT ![t] = [job[t] EXCEPT !.resp = a]]
  BY DEF TypeOK, Respond
<1>2. job[t] \in Job
  BY <1>1
<1> QED
  BY <1>1, <1>2, JobResp

\* What the proofs below know of a turn before its step.
LEMMA Before ==
    ASSUME Inv, NEW t \in Turns
    PROVE  /\ TypeOK /\ TurnInv(t) /\ job[t] \in Job
           /\ Path(t) \in {"chat", "stream", "turn"} /\ job[t].resp \in Text \cup {None}
  BY JobFields DEF Inv, TypeOK, Path

\* What the cache holds is a model's text with citations in range, or what the
\* guardrails of run_agent_turn left of one.
LEMMA HitFields ==
    ASSUME Inv, NEW q \in Queries, cache[q] # None
    PROVE  /\ cache[q].text \in Text /\ cache[q].text.kind \in {"draft", "refusal"}
           /\ cache[q].text.kind = "draft" => Checked(cache[q].text) \/ Rewritten(cache[q].text)
<1>1. cache[q] \in [text : Text, by : {"chat", "stream", "turn"}]
  BY DEF Inv, TypeOK
<1> QED
  BY <1>1 DEF Inv, CachedIsChecked, Checked, Rewritten

\* A hit is shown, remembered and logged as it is cached.
LEMMA CacheGetKeeps ==
    ASSUME Inv, NEW t \in Turns, CacheGet(t)
    PROVE  Kept(t) /\ UNCHANGED cache
<1> DEFINE hit == cache[job[t].query].text
<1>0. TypeOK /\ TurnInv(t) /\ job[t] \in Job /\ Path(t) \in {"chat", "stream", "turn"}
      /\ pc[t] = "cache" /\ job[t].query \in Queries
  BY Before, JobFields DEF CacheGet
<1>1. CASE Goto(t, NextBy(t, "scope", "scope", "agent")) /\ UNCHANGED <<job, shown, memory, failed>>
  <2>1. pc'[t] \in {"scope", "agent"} /\ TypeOK' /\ Local(t)
    BY <1>0, <1>1 DEF CacheGet, Goto, NextBy, Path, TypeOK, Local, Same
  <2>2. TurnInv(t)'
    BY <1>0, <1>1, <2>1 DEF CacheGet, TurnInv, DraftInv, StatusInv, ReplyInv, RecordInv, AlertInv, Vouched, InRange,
         Unjudged, Passed, Gated, Path
  <2> QED
    BY <2>1, <2>2 DEF Kept, CacheGet
<1>2. CASE /\ cache[job[t].query] # None /\ Respond(t, hit)
           /\ \/ Remember(t, hit) /\ Show(t, hit) /\ Goto(t, NextBy(t, "log", "log", "done")) /\ UNCHANGED failed
              \/ Path(t) = "chat" /\ Abort(t) /\ UNCHANGED <<shown, memory>>
              \/ Path(t) = "stream" /\ Abort(t) /\ Show(t, hit) /\ UNCHANGED memory
              \/ Path(t) = "turn" /\ TurnError(t)
  <2>0. hit \in Text /\ hit.kind \in {"draft", "refusal"} /\ (hit.kind = "draft" => Checked(hit) \/ Rewritten(hit))
    BY <1>0, <1>2, HitFields
  <2> HIDE DEF hit
  <2>1. /\ job' \in [Turns -> Job] /\ \A u \in Turns \ {t} : job'[u] = job[u]
        /\ job'[t].resp = hit /\ job'[t].path = job[t].path /\ job'[t].n = job[t].n
        /\ job'[t].tool = job[t].tool /\ job'[t].status = job[t].status
    BY <1>0, <1>2, <2>0, RespondEffect
  <2>2. TypeOK' /\ Local(t)
    BY <1>0, <1>2, <2>0, <2>1, CannedFields
       DEF CacheGet, Remember, Show, Goto, NextBy, Abort, TurnError, Path, TypeOK, Local, Same
  <2> SUFFICES TurnInv(t)'
    BY <2>2 DEF Kept, CacheGet
  <2>3. CASE Remember(t, hit) /\ Show(t, hit) /\ Goto(t, NextBy(t, "log", "log", "done")) /\ UNCHANGED failed
    <3>1. pc'[t] = (IF Path(t) = "turn" THEN "done" ELSE "log") /\ shown'[t] = hit /\ memory'[t] = hit
      BY <1>0, <2>3 DEF Remember, Show, Goto, NextBy, Path, TypeOK
    <3> QED
      BY <1>0, <2>0, <2>1, <2>3, <3>1, NoneFields, TextFields
         DEF CacheGet, TurnInv, DraftInv, StatusInv, ReplyInv, RecordInv, AlertInv, Vouched, InRange,
             Unjudged, Passed, Gated, Path, Cacheable
  <2>4. CASE Path(t) = "chat" /\ Abort(t) /\ UNCHANGED <<shown, memory>>
    <3>1. pc'[t] = "done" /\ t \in failed'
      BY <1>0, <2>4 DEF Abort, Goto, TypeOK
    <3> QED
      BY <1>0, <2>0, <2>1, <2>4, <3>1
         DEF CacheGet, TurnInv, DraftInv, StatusInv, ReplyInv, RecordInv, AlertInv, Vouched, InRange,
             Unjudged, Passed, Gated, Path, Cacheable
  <2>5. CASE Path(t) = "stream" /\ Abort(t) /\ Show(t, hit) /\ UNCHANGED memory
    <3>1. pc'[t] = "done" /\ t \in failed' /\ shown'[t] = hit
      BY <1>0, <2>5 DEF Abort, Goto, Show, TypeOK
    <3> QED
      BY <1>0, <2>0, <2>1, <2>5, <3>1
         DEF CacheGet, TurnInv, DraftInv, StatusInv, ReplyInv, RecordInv, AlertInv, Vouched, InRange,
             Unjudged, Passed, Gated, Path, Cacheable
  <2>6. CASE Path(t) = "turn" /\ TurnError(t)
    <3>1. /\ pc'[t] = "done"
          /\ \/ shown'[t] = Canned("error") /\ memory'[t] = Canned("error")
             \/ shown'[t] = shown[t] /\ memory'[t] = memory[t] /\ t \in failed'
      BY <1>0, <2>6 DEF TurnError, Remember, Abort, Goto, Show, TypeOK
    <3> QED
      BY <1>0, <2>0, <2>1, <2>6, <3>1, CannedFields
         DEF CacheGet, TurnInv, DraftInv, StatusInv, ReplyInv, RecordInv, AlertInv, Vouched, InRange,
             Unjudged, Passed, Gated, Path, Cacheable
  <2> QED
    BY <1>2, <2>3, <2>4, <2>5, <2>6
<1> QED
  BY <1>1, <1>2 DEF CacheGet

\* A decline is logged and not remembered.
LEMMA ScopeKeeps ==
    ASSUME Inv, NEW t \in Turns, Scope(t)
    PROVE  Kept(t) /\ UNCHANGED cache
<1>0. TypeOK /\ TurnInv(t) /\ Path(t) \in {"chat", "stream", "turn"} /\ pc[t] = "scope"
  BY Before DEF Scope
<1>1. CASE Respond(t, Canned("decline")) /\ Show(t, Canned("decline")) /\ Goto(t, "log")
  <2>1. /\ job' \in [Turns -> Job] /\ \A u \in Turns \ {t} : job'[u] = job[u]
        /\ job'[t].resp = Canned("decline") /\ job'[t].path = job[t].path /\ job'[t].n = job[t].n
        /\ job'[t].tool = job[t].tool /\ job'[t].status = job[t].status
    BY <1>0, <1>1, CannedFields, RespondEffect
  <2>2. pc'[t] = "log" /\ shown'[t] = Canned("decline") /\ TypeOK' /\ Local(t)
    BY <1>0, <1>1, <2>1, CannedFields DEF Scope, Goto, Show, TypeOK, Local, Same
  <2>3. TurnInv(t)'
    BY <1>0, <2>1, <2>2, CannedFields
       DEF Scope, TurnInv, DraftInv, StatusInv, ReplyInv, RecordInv, AlertInv, Vouched, InRange,
           Unjudged, Passed, Gated, Path, Cacheable
  <2> QED
    BY <2>2, <2>3 DEF Kept, Scope
<1>2. CASE Goto(t, NextBy(t, "input", "precheck", "input")) /\ UNCHANGED <<job, shown>>
  <2>1. pc'[t] \in {"input", "precheck"} /\ TypeOK' /\ Local(t)
    BY <1>0, <1>2 DEF Scope, Goto, NextBy, Path, TypeOK, Local, Same
  <2>2. TurnInv(t)'
    BY <1>0, <1>2, <2>1 DEF Scope, TurnInv, DraftInv, StatusInv, ReplyInv, RecordInv, AlertInv, Vouched, InRange,
         Unjudged, Passed, Gated, Path
  <2> QED
    BY <2>1, <2>2 DEF Kept, Scope
<1> QED
  BY <1>1, <1>2 DEF Scope

\* The low-confidence reply comes with its alert, or the request fails without
\* either.
LEMMA EscalateKeeps ==
    ASSUME Inv, NEW t \in Turns, pc[t] \in {"precheck", "gate"}, Escalate(t),
           UNCHANGED <<cache, memory, log, blocked>>
    PROVE  Kept(t) /\ UNCHANGED cache
<1>0. TypeOK /\ TurnInv(t) /\ Path(t) \in {"chat", "stream", "turn"}
  BY Before
<1>1. CASE /\ alerts' = alerts \cup {t} /\ Respond(t, Canned("fallback")) /\ Show(t, Canned("fallback"))
           /\ Goto(t, "log") /\ UNCHANGED failed
  <2>1. /\ job' \in [Turns -> Job] /\ \A u \in Turns \ {t} : job'[u] = job[u]
        /\ job'[t].resp = Canned("fallback") /\ job'[t].path = job[t].path /\ job'[t].n = job[t].n
        /\ job'[t].tool = job[t].tool /\ job'[t].status = job[t].status
    BY <1>0, <1>1, CannedFields, RespondEffect
  <2>2. pc'[t] = "log" /\ shown'[t] = Canned("fallback") /\ t \in alerts' /\ TypeOK' /\ Local(t)
    BY <1>0, <1>1, <2>1, CannedFields DEF Goto, Show, TypeOK, Local, Same
  <2>3. TurnInv(t)'
    BY <1>0, <2>1, <2>2, CannedFields
       DEF TurnInv, DraftInv, StatusInv, ReplyInv, RecordInv, AlertInv, Vouched, InRange,
           Unjudged, Passed, Gated, Path, Cacheable
  <2> QED
    BY <2>2, <2>3 DEF Kept
<1>2. CASE Abort(t) /\ UNCHANGED <<alerts, job, shown>>
  <2>1. pc'[t] = "done" /\ t \in failed' /\ TypeOK' /\ Local(t)
    BY <1>0, <1>2 DEF Abort, Goto, TypeOK, Local, Same
  <2>2. TurnInv(t)'
    BY <1>0, <1>2, <2>1 DEF TurnInv, DraftInv, StatusInv, ReplyInv, RecordInv, AlertInv, Vouched, InRange,
         Unjudged, Passed, Gated, Path
  <2> QED
    BY <2>1, <2>2 DEF Kept
<1> QED
  BY <1>1, <1>2 DEF Escalate

LEMMA PrecheckKeeps ==
    ASSUME Inv, NEW t \in Turns, Precheck(t)
    PROVE  Kept(t) /\ UNCHANGED cache
<1>0. TypeOK /\ TurnInv(t) /\ pc[t] = "precheck" /\ UNCHANGED <<cache, memory, log, blocked>>
  BY Before DEF Precheck
<1>1. CASE Escalate(t)
  BY <1>0, <1>1, EscalateKeeps
<1>2. CASE Goto(t, "input") /\ UNCHANGED <<job, shown, alerts, failed>>
  <2>1. pc'[t] = "input" /\ TypeOK' /\ Local(t)
    BY <1>0, <1>2 DEF Goto, TypeOK, Local, Same
  <2>2. TurnInv(t)'
    BY <1>0, <1>2, <2>1 DEF TurnInv, DraftInv, StatusInv, ReplyInv, RecordInv, AlertInv, Vouched, InRange,
         Unjudged, Passed, Gated, Path
  <2> QED
    BY <1>0, <2>1, <2>2 DEF Kept
<1> QED
  BY <1>1, <1>2 DEF Precheck

\* A refusal is shown where it is remembered, and over chat goes on to the gates.
LEMMA CheckInputKeeps ==
    ASSUME Inv, NEW t \in Turns, CheckInput(t)
    PROVE  Kept(t) /\ UNCHANGED cache
<1> DEFINE refusal == Canned("blocked")
<1>0. TypeOK /\ TurnInv(t) /\ Path(t) \in {"chat", "stream", "turn"} /\ pc[t] = "input"
      /\ UNCHANGED <<cache, log, alerts>>
  BY Before DEF CheckInput
<1>r. refusal \in Text /\ refusal.kind = "blocked" /\ refusal.cites = {} /\ ~refusal.long /\ ~Rewritten(refusal)
  BY CannedFields
<1> HIDE DEF refusal
<1>1. CASE Goto(t, NextBy(t, "agent", "agent", "cache")) /\ UNCHANGED <<job, shown, memory, blocked, failed>>
  <2>1. pc'[t] \in {"agent", "cache"} /\ TypeOK' /\ Local(t)
    BY <1>0, <1>1 DEF Goto, NextBy, Path, TypeOK, Local, Same
  <2>2. TurnInv(t)'
    BY <1>0, <1>1, <2>1 DEF TurnInv, DraftInv, StatusInv, ReplyInv, RecordInv, AlertInv, Vouched, InRange,
         Unjudged, Passed, Gated, Path
  <2> QED
    BY <1>0, <2>1, <2>2 DEF Kept
<1>2. CASE /\ blocked' = blocked \cup {t} /\ Respond(t, refusal)
           /\ \/ /\ Remember(t, refusal)
                 /\ IF Path(t) = "chat" THEN UNCHANGED shown ELSE Show(t, refusal)
                 /\ Goto(t, NextBy(t, "gate", "done", "done")) /\ UNCHANGED failed
              \/ Path(t) = "stream" /\ Show(t, refusal) /\ Abort(t) /\ UNCHANGED memory
              \/ Path(t) # "stream" /\ Abort(t) /\ UNCHANGED <<shown, memory>>
  <2>1. /\ job' \in [Turns -> Job] /\ \A u \in Turns \ {t} : job'[u] = job[u]
        /\ job'[t].resp = refusal /\ job'[t].path = job[t].path /\ job'[t].n = job[t].n
        /\ job'[t].tool = job[t].tool /\ job'[t].status = job[t].status
    BY <1>0, <1>2, <1>r, RespondEffect
  <2>2. TypeOK' /\ Local(t)
    BY <1>0, <1>2, <1>r, <2>1 DEF Remember, Show, Goto, NextBy, Abort, Path, TypeOK, Local, Same
  <2>3. \/ /\ memory'[t] = refusal
           /\ \/ Path(t) = "chat" /\ pc'[t] = "gate" /\ shown'[t] = shown[t]
              \/ Path(t) # "chat" /\ pc'[t] = "done" /\ shown'[t] = refusal
        \/ /\ pc'[t] = "done" /\ t \in failed' /\ memory'[t] = memory[t]
           /\ shown'[t] \in {refusal, shown[t]}
    BY <1>0, <1>2 DEF Remember, Show, Goto, NextBy, Abort, Path, TypeOK
  <2>4. TurnInv(t)'
    <3>1. DraftInv(t)' /\ StatusInv(t)'
      BY <1>0, <1>r, <2>1, <2>3 DEF TurnInv, DraftInv, StatusInv, Vouched, InRange, Unjudged, Path, Cacheable
    <3>2. ReplyInv(t)' /\ AlertInv(t)'
      BY <1>0, <1>r, <2>1, <2>3 DEF TurnInv, ReplyInv, AlertInv, Passed, Gated, Path
    <3>3. RecordInv(t)'
      BY <1>0, <1>r, <2>1, <2>3 DEF TurnInv, RecordInv, Path
    <3> QED
      BY <3>1, <3>2, <3>3 DEF TurnInv
  <2> QED
    BY <1>0, <2>2, <2>4 DEF Kept
<1> QED
  BY <1>1, <1>2 DEF CheckInput, refusal

\* The handler of run_agent_turn shows what it remembers, or the turn fails.
LEMMA TurnErrorKeeps ==
    ASSUME Inv, NEW t \in Turns, pc[t] \in {"agent", "finish"}, TurnError(t),
           UNCHANGED <<cache, job, log, alerts, blocked>>
    PROVE  Kept(t) /\ UNCHANGED cache
<1>0. TypeOK /\ TurnInv(t)
  BY Before
<1>1. /\ pc'[t] = "done" /\ TypeOK' /\ Local(t)
      /\ \/ shown'[t] = Canned("error") /\ memory'[t] = Canned("error")
         \/ shown'[t] = shown[t] /\ memory'[t] = memory[t] /\ t \in failed'
  BY <1>0, CannedFields DEF TurnError, Remember, Abort, Goto, Show, TypeOK, Local, Same
<1>2. TurnInv(t)'
  BY <1>0, <1>1, CannedFields
     DEF TurnInv, DraftInv, StatusInv, ReplyInv, RecordInv, AlertInv, Vouched, InRange,
         Unjudged, Passed, Gated, Path
<1> QED
  BY <1>1, <1>2 DEF Kept

\* A job after the agent has run.
Ran(j, n, strong, tool, a) == [j EXCEPT !.n = n, !.strong = strong, !.tool = tool, !.resp = a]

LEMMA RanFields ==
    ASSUME NEW j \in Job, NEW n \in 0..MaxChunks, NEW strong \in BOOLEAN, NEW tool \in Tools, NEW a \in Text,
           NEW r, r = Ran(j, n, strong, tool, a)
    PROVE  r \in Job /\ r.resp = a /\ r.n = n /\ r.path = j.path /\ r.status = j.status
<1> DEFINE j1 == [j EXCEPT !.n = n]  j2 == [j1 EXCEPT !.strong = strong]
           j3 == [j2 EXCEPT !.tool = tool]  j4 == [j3 EXCEPT !.resp = a]
<1>1. j1 \in Job /\ j1.n = n /\ j1.path = j.path /\ j1.status = j.status
  BY DEF Job
<1> HIDE DEF j1
<1>2. j2 \in Job /\ j2.n = n /\ j2.path = j.path /\ j2.status = j.status
  BY <1>1 DEF Job
<1> HIDE DEF j2
<1>3. j3 \in Job /\ j3.n = n /\ j3.path = j.path /\ j3.status = j.status
  BY <1>2 DEF Job
<1> HIDE DEF j3
<1>4. j4 \in Job /\ j4.n = n /\ j4.path = j.path /\ j4.status = j.status /\ j4.resp = a
  BY <1>3, JobResp
<1>5. j4 = Ran(j, n, strong, tool, a)
  BY DEF j1, j2, j3, Ran
<1> QED
  BY <1>4, <1>5

\* A draft is written over the chunks of its turn, and only chat_stream shows it.
LEMMA AgentKeeps ==
    ASSUME Inv, NEW t \in Turns, Agent(t)
    PROVE  Kept(t) /\ UNCHANGED cache
<1>0. TypeOK /\ TurnInv(t) /\ job[t] \in Job /\ Path(t) \in {"chat", "stream", "turn"} /\ pc[t] = "agent"
      /\ UNCHANGED <<cache, log, alerts, blocked>>
  BY Before DEF Agent
<1>1. PICK n \in 0..MaxChunks, strong \in BOOLEAN, tool \in Tools :
        /\ n > 0 => tool = "hybrid_search"
        /\ strong => n > 0
        /\ \E draft \in Drafts(n) :
           LET ran == [job EXCEPT ![t].n = n, ![t].strong = strong, ![t].tool = tool, ![t].resp = draft] IN
           \/ /\ job' = ran
              /\ IF Path(t) = "stream" THEN Show(t, draft) ELSE UNCHANGED shown
              /\ Goto(t, NextBy(t, "guard", "guard", "gate"))
              /\ UNCHANGED <<memory, failed>>
           \/ /\ Path(t) = "chat"
              /\ job' = [ran EXCEPT ![t].resp = Canned("error")]
              /\ Goto(t, "errorMemory") /\ UNCHANGED <<shown, memory, failed>>
           \/ Path(t) = "stream" /\ Show(t, draft) /\ Abort(t) /\ UNCHANGED <<job, memory>>
           \/ Path(t) = "turn" /\ TurnError(t) /\ UNCHANGED job
  BY Zenon DEF Agent
<1>a. PICK draft \in Drafts(n) :
        \/ /\ job' = [job EXCEPT ![t] = Ran(job[t], n, strong, tool, draft)]
           /\ IF Path(t) = "stream" THEN Show(t, draft) ELSE UNCHANGED shown
           /\ Goto(t, NextBy(t, "guard", "guard", "gate"))
           /\ UNCHANGED <<memory, failed>>
        \/ /\ Path(t) = "chat"
           /\ job' = [job EXCEPT ![t] = Ran(job[t], n, strong, tool, Canned("error"))]
           /\ Goto(t, "errorMemory") /\ UNCHANGED <<shown, memory, failed>>
        \/ Path(t) = "stream" /\ Show(t, draft) /\ Abort(t) /\ UNCHANGED <<job, memory>>
        \/ Path(t) = "turn" /\ TurnError(t) /\ UNCHANGED job
  <2> DEFINE ran(a) == [job EXCEPT ![t].n = n, ![t].strong = strong, ![t].tool = tool, ![t].resp = a]
  <2>1. \A a : ran(a) = [job EXCEPT ![t] = Ran(job[t], n, strong, tool, a)]
    BY <1>0 DEF TypeOK, Ran
  <2>2. \A a : [ran(a) EXCEPT ![t].resp = Canned("error")]
                = [job EXCEPT ![t] = Ran(job[t], n, strong, tool, Canned("error"))]
    BY <1>0 DEF TypeOK, Ran
  <2> QED
    BY <1>1, <2>1, <2>2
<1>d. draft \in Text /\ draft.kind = "draft" /\ draft.n = n /\ ~Rewritten(draft)
  BY <1>a, DraftFields
<1>e. Canned("error") \in Text /\ Canned("error").kind = "error" /\ Canned("error").cites = {} /\ ~Canned("error").long
      /\ ~Rewritten(Canned("error"))
  BY CannedFields
<1>2. CASE /\ job' = [job EXCEPT ![t] = Ran(job[t], n, strong, tool, draft)]
           /\ IF Path(t) = "stream" THEN Show(t, draft) ELSE UNCHANGED shown
           /\ Goto(t, NextBy(t, "guard", "guard", "gate"))
           /\ UNCHANGED <<memory, failed>>
  <2>0. PICK j : j = Ran(job[t], n, strong, tool, draft)
    OBVIOUS
  <2>1. /\ job' = [job EXCEPT ![t] = j] /\ j \in Job
        /\ j.resp = draft /\ j.n = n /\ j.path = job[t].path /\ j.status = job[t].status
    BY <1>0, <1>2, <1>d, <2>0, RanFields
  <2>2. /\ job'[t] = j /\ shown'[t] \in {draft, shown[t]}
        /\ pc'[t] = IF Path(t) = "turn" THEN "gate" ELSE "guard"
        /\ TypeOK' /\ Local(t)
    BY <1>0, <1>2, <1>d, <2>1 DEF Show, Goto, NextBy, Path, TypeOK, Local, Same
  <2>3. TurnInv(t)'
    BY <1>0, <1>2, <1>d, <2>1, <2>2
       DEF TurnInv, DraftInv, StatusInv, ReplyInv, RecordInv, AlertInv, Vouched, InRange,
           Unjudged, Passed, Gated, Path, Cacheable
  <2> QED
    BY <1>0, <2>2, <2>3 DEF Kept
<1>3. CASE /\ Path(t) = "chat"
           /\ job' = [job EXCEPT ![t] = Ran(job[t], n, strong, tool, Canned("error"))]
           /\ Goto(t, "errorMemory") /\ UNCHANGED <<shown, memory, failed>>
  <2>0. PICK j : j = Ran(job[t], n, strong, tool, Canned("error"))
    OBVIOUS
  <2>1. /\ job' = [job EXCEPT ![t] = j] /\ j \in Job
        /\ j.resp = Canned("error") /\ j.n = n /\ j.path = job[t].path /\ j.status = job[t].status
    BY <1>0, <1>3, <1>e, <2>0, RanFields
  <2>2. job'[t] = j /\ pc'[t] = "errorMemory" /\ TypeOK' /\ Local(t)
    BY <1>0, <1>3, <2>1 DEF Goto, TypeOK, Local, Same
  <2>3. TurnInv(t)'
    BY <1>0, <1>3, <1>e, <2>1, <2>2
       DEF TurnInv, DraftInv, StatusInv, ReplyInv, RecordInv, AlertInv, Vouched, InRange,
           Unjudged, Passed, Gated, Path, Cacheable
  <2> QED
    BY <1>0, <2>2, <2>3 DEF Kept
<1>4. CASE Path(t) = "stream" /\ Show(t, draft) /\ Abort(t) /\ UNCHANGED <<job, memory>>
  <2>1. pc'[t] = "done" /\ t \in failed' /\ shown'[t] = draft /\ TypeOK' /\ Local(t)
    BY <1>0, <1>4, <1>d DEF Abort, Goto, Show, TypeOK, Local, Same
  <2>2. TurnInv(t)'
    BY <1>0, <1>4, <1>d, <2>1
       DEF TurnInv, DraftInv, StatusInv, ReplyInv, RecordInv, AlertInv, Vouched, InRange,
           Unjudged, Passed, Gated, Path
  <2> QED
    BY <1>0, <2>1, <2>2 DEF Kept
<1>5. CASE Path(t) = "turn" /\ TurnError(t) /\ UNCHANGED job
  BY <1>0, <1>5, TurnErrorKeeps
<1> QED
  BY <1>a, <1>2, <1>3, <1>4, <1>5

\* What the output guardrails leave of a draft.
LEMMA GuardedFields ==
    ASSUME NEW a \in Text, a.kind = "draft", NEW turn \in BOOLEAN,
           NEW b \in Scrubbed(a) \cup Transliterated(a, turn)
    PROVE  /\ b \in Text
           /\ \/ b.kind = "draft" /\ b.n = a.n /\ b.cites \subseteq a.cites /\ ~Rewritten(b)
              \/ b = Canned("refusal")
              \/ b.kind = "draft" /\ b.n = a.n /\ (Rewritten(b) <=> turn)
<1>0. a.n \in 0..MaxChunks
  BY TextFields
<1>1. CASE b \in Drafts(a.n) /\ b.cites \subseteq a.cites
  BY <1>0, <1>1, DraftFields
<1>2. CASE b = Canned("refusal")
  BY <1>2, CannedFields
<1>3. CASE \E d \in Drafts(a.n) : b = [d EXCEPT !.late = turn]
  <2>1. PICK d \in Drafts(a.n) : b = [d EXCEPT !.late = turn]
    BY <1>3
  <2>2. d \in Text /\ d.kind = "draft" /\ d.n = a.n
    BY <1>0, <2>1, DraftFields
  <2> QED
    BY <2>1, <2>2 DEF Text, Rewritten
<1> QED
  BY <1>1, <1>2, <1>3 DEF Scrubbed, Transliterated

\* The output guardrails scrub a model's text within its citations, refuse it or
\* transliterate it; behind the gates the text is then marked as late.
LEMMA GuardKeeps ==
    ASSUME Inv, NEW t \in Turns, Guard(t)
    PROVE  Kept(t) /\ UNCHANGED cache
<1>0. TypeOK /\ TurnInv(t) /\ Path(t) \in {"chat", "stream", "turn"} /\ pc[t] = "guard"
      /\ job[t].resp \in Text \cup {None}
      /\ UNCHANGED <<cache, shown, memory, log, alerts, blocked, failed>>
  BY Before DEF Guard
<1>1. /\ job' \in [Turns -> Job] /\ \A u \in Turns \ {t} : job'[u] = job[u]
      /\ job'[t].path = job[t].path /\ job'[t].n = job[t].n
      /\ job'[t].tool = job[t].tool /\ job'[t].status = job[t].status
      /\ job'[t].resp # job[t].resp =>
            /\ job'[t].resp \in Text /\ job[t].resp.kind = "draft"
            /\ \/ job'[t].resp.kind = "draft" /\ job'[t].resp.n = job[t].resp.n
                  /\ job'[t].resp.cites \subseteq job[t].resp.cites /\ ~Rewritten(job'[t].resp)
               \/ job'[t].resp = Canned("refusal")
               \/ job'[t].resp.kind = "draft" /\ job'[t].resp.n = job[t].resp.n
                  /\ (Rewritten(job'[t].resp) <=> Path(t) = "turn")
  <2>1. CASE UNCHANGED job
    BY <1>0, <2>1 DEF TypeOK
  <2>2. CASE /\ job[t].resp.kind = "draft"
             /\ \E a \in Scrubbed(job[t].resp) \cup Transliterated(job[t].resp, Path(t) = "turn") : Respond(t, a)
    <3>1. PICK a \in Scrubbed(job[t].resp) \cup Transliterated(job[t].resp, Path(t) = "turn") : Respond(t, a)
      BY <2>2
    <3>2. job[t].resp \in Text /\ (Path(t) = "turn") \in BOOLEAN
      BY <1>0, <2>2, NoneFields
    <3>3. /\ a \in Text
          /\ \/ a.kind = "draft" /\ a.n = job[t].resp.n /\ a.cites \subseteq job[t].resp.cites /\ ~Rewritten(a)
             \/ a = Canned("refusal")
             \/ a.kind = "draft" /\ a.n = job[t].resp.n /\ (Rewritten(a) <=> Path(t) = "turn")
      <4>1. PICK x, w : x = job[t].resp /\ w = (Path(t) = "turn")
        OBVIOUS
      <4>2. x \in Text /\ x.kind = "draft" /\ w \in BOOLEAN /\ a \in Scrubbed(x) \cup Transliterated(x, w)
        BY <2>2, <3>1, <3>2, <4>1
      <4>3. /\ a \in Text
            /\ \/ a.kind = "draft" /\ a.n = x.n /\ a.cites \subseteq x.cites /\ ~Rewritten(a)
               \/ a = Canned("refusal")
               \/ a.kind = "draft" /\ a.n = x.n /\ (Rewritten(a) <=> w)
        BY <4>2, GuardedFields, Zenon
      <4> QED
        BY <4>1, <4>3
    <3>4. /\ job' \in [Turns -> Job] /\ \A u \in Turns \ {t} : job'[u] = job[u]
          /\ job'[t].resp = a /\ job'[t].path = job[t].path /\ job'[t].n = job[t].n
          /\ job'[t].tool = job[t].tool /\ job'[t].status = job[t].status
      BY <1>0, <3>1, <3>3, RespondEffect
    <3> QED
      BY <2>2, <3>3, <3>4
  <2> QED
    BY <2>1, <2>2 DEF Guard
<1>2. /\ Path(t) = "chat" => pc'[t] = "agentMemory"
      /\ Path(t) = "stream" => pc'[t] = "gate"
      /\ Path(t) = "turn" => pc'[t] = "set"
      /\ TypeOK' /\ Local(t)
  BY <1>0, <1>1 DEF Guard, Goto, NextBy, Path, TypeOK, Local, Same
<1>3. DraftInv(t)' /\ AlertInv(t)'
  BY <1>0, <1>1, <1>2, CannedFields DEF TurnInv, DraftInv, AlertInv, Path
<1>4. StatusInv(t)' /\ ReplyInv(t)'
  <2>1. CASE Path(t) # "turn"
    <3>1. pc'[t] \in {"agentMemory", "gate"} /\ job[t].status = "none" /\ Path(t)' # "turn"
      BY <1>0, <1>1, <1>2, <2>1 DEF TurnInv, StatusInv, Unjudged, Path
    <3> QED
      BY <1>0, <1>1, <3>1 DEF TurnInv, StatusInv, ReplyInv, Unjudged, Passed, Cacheable, Path
  <2>2. CASE Path(t) = "turn"
    <3>0. pc'[t] = "set" /\ Path(t)' = "turn" /\ Passed(t) /\ (Gated(t)' <=> Gated(t))
      BY <1>0, <1>1, <1>2, <2>2 DEF Passed, Gated, Path
    <3>1. CASE job'[t].resp = job[t].resp
      <4>1. Vouched(t) => Vouched(t)'
        BY <1>1, <3>0, <3>1, <2>2 DEF Vouched, InRange, Path
      <4> QED
        BY <1>0, <1>1, <3>0, <3>1, <4>1 DEF TurnInv, StatusInv, ReplyInv, Unjudged, Passed
    <3>2. CASE /\ job[t].resp.kind = "draft" /\ job'[t].resp.kind = "draft" /\ job'[t].resp.n = job[t].resp.n
               /\ job'[t].resp.cites \subseteq job[t].resp.cites /\ ~Rewritten(job[t].resp)
      <4>1. Checked(job[t].resp) => Checked(job'[t].resp)
        BY <3>2 DEF Checked
      <4>2. Vouched(t) => Vouched(t)'
        BY <1>1, <3>0, <3>2, <4>1, <2>2 DEF Vouched, InRange, Path
      <4> QED
        BY <1>0, <1>1, <3>0, <3>2, <4>1, <4>2 DEF TurnInv, StatusInv, ReplyInv, Unjudged, Passed
    <3>3. CASE job'[t].resp.kind = "refusal" \/ Rewritten(job'[t].resp)
      BY <1>0, <1>1, <3>0, <3>3 DEF TurnInv, StatusInv, ReplyInv, Vouched, Unjudged, Passed
    <3> QED
      BY <1>0, <1>1, <2>2, <3>1, <3>2, <3>3, CannedFields DEF TurnInv, DraftInv
  <2> QED
    BY <2>1, <2>2
<1>5. RecordInv(t)'
  BY <1>0, <1>1, <1>2 DEF TurnInv, RecordInv, Path
<1> QED
  BY <1>0, <1>2, <1>3, <1>4, <1>5 DEF Kept, TurnInv

\* execute_agent remembers its reply before the gates: over chat only.
LEMMA AgentMemoryKeeps ==
    ASSUME Inv, NEW t \in Turns, AgentMemory(t)
    PROVE  Kept(t) /\ UNCHANGED cache
<1>0. TypeOK /\ TurnInv(t) /\ UNCHANGED <<cache, shown, log, alerts, blocked>>
      /\ pc[t] \in {"agentMemory", "errorMemory"} /\ job[t].resp \in Text /\ Path(t) = "chat"
  BY Before DEF AgentMemory, TurnInv, DraftInv, RecordInv
<1>1. CASE Remember(t, job[t].resp) /\ Goto(t, "gate") /\ UNCHANGED <<job, failed>>
  <2>1. pc'[t] = "gate" /\ memory'[t] = job[t].resp /\ TypeOK' /\ Local(t)
    BY <1>0, <1>1 DEF Remember, Goto, TypeOK, Local, Same
  <2>2. TurnInv(t)'
    BY <1>0, <1>1, <2>1 DEF TurnInv, DraftInv, StatusInv, ReplyInv, RecordInv, AlertInv, Vouched, InRange,
         Unjudged, Passed, Gated, Path
  <2> QED
    BY <1>0, <2>1, <2>2 DEF Kept
<1>2. CASE Respond(t, Canned("error")) /\ Goto(t, "errorMemory") /\ UNCHANGED <<memory, failed>>
  <2>1. /\ job' \in [Turns -> Job] /\ \A u \in Turns \ {t} : job'[u] = job[u]
        /\ job'[t].resp = Canned("error") /\ job'[t].path = job[t].path /\ job'[t].n = job[t].n
        /\ job'[t].tool = job[t].tool /\ job'[t].status = job[t].status
    BY <1>0, <1>2, CannedFields, RespondEffect
  <2>2. pc'[t] = "errorMemory" /\ TypeOK' /\ Local(t)
    BY <1>0, <1>2, <2>1 DEF Goto, TypeOK, Local, Same
  <2>3. TurnInv(t)'
    BY <1>0, <1>2, <2>1, <2>2, CannedFields
       DEF TurnInv, DraftInv, StatusInv, ReplyInv, RecordInv, AlertInv, Vouched, InRange,
           Unjudged, Passed, Gated, Path, Cacheable
  <2> QED
    BY <1>0, <2>2, <2>3 DEF Kept
<1>3. CASE Abort(t) /\ UNCHANGED <<job, memory>>
  <2>1. pc'[t] = "done" /\ t \in failed' /\ TypeOK' /\ Local(t)
    BY <1>0, <1>3 DEF Abort, Goto, TypeOK, Local, Same
  <2>2. TurnInv(t)'
    BY <1>0, <1>3, <2>1 DEF TurnInv, DraftInv, StatusInv, ReplyInv, RecordInv, AlertInv, Vouched, InRange,
         Unjudged, Passed, Gated, Path
  <2> QED
    BY <1>0, <2>1, <2>2 DEF Kept
<1> QED
  BY <1>1, <1>2, <1>3 DEF AgentMemory

-----------------------------------------------------------------------------
(* The gates *)

\* What the citation check makes sure of: a text that passes cites chunks of its
\* turn, at least one if there are any; an exempt one cites nothing.
LEMMA ValidateOk ==
    ASSUME NEW a \in Text, NEW n \in 0..MaxChunks, ValidateCitations(a, n) = "ok"
    PROVE  a.cites \subseteq 1..n /\ (n > 0 => a.cites # {}) /\ (a.cites # {} \/ a.long)
<1>1. ~ \E c \in a.cites : c < 1 \/ c > n
  BY DEF ValidateCitations
<1>2. a.cites \subseteq Nat /\ n \in Nat
  BY TextFields, ChatAssumption
<1>3. a.cites \subseteq 1..n
  BY <1>1, <1>2
<1>4. (n > 0 => a.cites # {}) /\ (a.cites # {} \/ a.long)
  BY <1>1 DEF ValidateCitations
<1> QED
  BY <1>3, <1>4

LEMMA ValidateExempt ==
    ASSUME NEW a, NEW n, ValidateCitations(a, n) = "exempt_non_answer"
    PROVE  a.cites = {}
  BY DEF ValidateCitations

\* What leaves the citation gate for the judge is vouched for; what leaves it for
\* good is canned or cites nothing.
LEMMA CitationGateKeeps ==
    ASSUME Inv, NEW t \in Turns, pc[t] = "gate", CitationGate(t),
           Path(t) = "chat" => ~LowConfidence(t),
           UNCHANGED <<cache, memory, log, blocked>>
    PROVE  Kept(t) /\ UNCHANGED cache
<1> DEFINE reason == ValidateCitations(job[t].resp, job[t].n)
<1>0. /\ TypeOK /\ TurnInv(t) /\ Path(t) \in {"chat", "stream", "turn"}
      /\ job[t].resp \in Text /\ job[t].n \in 0..MaxChunks /\ job[t].n \in Nat
      /\ Path(t) = "chat" => job[t].n > 0
      /\ UNCHANGED <<shown, alerts, failed>>
  BY Before, JobFields, ChatAssumption DEF CitationGate, TurnInv, DraftInv, LowConfidence
<1>1. CASE reason = "ok" /\ Goto(t, "judge") /\ UNCHANGED job
  <2>1. pc'[t] = "judge" /\ TypeOK' /\ Local(t)
    BY <1>0, <1>1 DEF Goto, TypeOK, Local, Same
  <2>2. /\ job[t].resp.cites \subseteq 1..job[t].n /\ (job[t].n > 0 => job[t].resp.cites # {})
        /\ (job[t].resp.cites # {} \/ job[t].resp.long)
    BY <1>0, <1>1, ValidateOk
  <2>3. job[t].resp.kind = "draft" /\ job[t].resp.n = job[t].n
    BY <1>0, <2>2 DEF TurnInv, DraftInv
  <2>4. InRange(t)'
    BY <1>0, <1>1, <2>2, <2>3 DEF InRange, Checked, Path
  <2>5. TurnInv(t)'
    BY <1>0, <1>1, <2>1, <2>4
       DEF TurnInv, DraftInv, StatusInv, ReplyInv, RecordInv, AlertInv, Unjudged, Passed, Gated, Path, Cacheable
  <2> QED
    BY <2>1, <2>5 DEF Kept
<1>2. CASE reason = "exempt_non_answer" /\ AfterGates(t) /\ UNCHANGED job
  <2>1. pc'[t] = (IF Path(t) = "chat" THEN "log" ELSE IF Path(t) = "stream" THEN "replace" ELSE "guard")
        /\ TypeOK' /\ Local(t)
    BY <1>0, <1>2 DEF AfterGates, NextBy, Path, Goto, TypeOK, Local, Same
  <2>2. job[t].resp.cites = {}
    BY <1>2, ValidateExempt
  <2>3. TurnInv(t)'
    BY <1>0, <1>2, <2>1, <2>2
       DEF TurnInv, DraftInv, StatusInv, ReplyInv, RecordInv, AlertInv, Vouched, InRange, Checked,
           Unjudged, Passed, Gated, Path, Cacheable
  <2> QED
    BY <2>1, <2>3 DEF Kept
<1>3. CASE Respond(t, Canned("abstain")) /\ AfterGates(t)
  <2>1. /\ job' \in [Turns -> Job] /\ \A u \in Turns \ {t} : job'[u] = job[u]
        /\ job'[t].resp = Canned("abstain") /\ job'[t].path = job[t].path /\ job'[t].n = job[t].n
        /\ job'[t].tool = job[t].tool /\ job'[t].status = job[t].status
    BY <1>0, <1>3, CannedFields, RespondEffect
  <2>2. pc'[t] = (IF Path(t) = "chat" THEN "log" ELSE IF Path(t) = "stream" THEN "replace" ELSE "guard")
        /\ TypeOK' /\ Local(t)
    BY <1>0, <1>3, <2>1 DEF AfterGates, NextBy, Path, Goto, TypeOK, Local, Same
  <2>3. TurnInv(t)'
    BY <1>0, <2>1, <2>2, CannedFields
       DEF TurnInv, DraftInv, StatusInv, ReplyInv, RecordInv, AlertInv, Vouched, InRange,
           Unjudged, Passed, Gated, Path, Cacheable
  <2> QED
    BY <2>2, <2>3 DEF Kept
<1> QED
  BY <1>1, <1>2, <1>3 DEF CitationGate

\* The gates of each entry point.
LEMMA GateKeeps ==
    ASSUME Inv, NEW t \in Turns, Gate(t)
    PROVE  Kept(t) /\ UNCHANGED cache
<1>0. TypeOK /\ TurnInv(t) /\ Path(t) \in {"chat", "stream", "turn"} /\ pc[t] = "gate"
      /\ UNCHANGED <<cache, memory, log, blocked>>
  BY Before DEF Gate
<1>1. CASE Path(t) = "chat" /\ Abort(t) /\ UNCHANGED <<job, shown, alerts>>
  <2>1. pc'[t] = "done" /\ t \in failed' /\ TypeOK' /\ Local(t)
    BY <1>0, <1>1 DEF Abort, Goto, TypeOK, Local, Same
  <2>2. TurnInv(t)'
    BY <1>0, <1>1, <2>1 DEF TurnInv, DraftInv, StatusInv, ReplyInv, RecordInv, AlertInv, Vouched, InRange,
         Unjudged, Passed, Gated, Path
  <2> QED
    BY <1>0, <2>1, <2>2 DEF Kept
<1>2. CASE Escalate(t)
  BY <1>0, <1>2, EscalateKeeps
<1>3. CASE (Path(t) = "chat" => ~LowConfidence(t)) /\ CitationGate(t)
  BY <1>0, <1>3, CitationGateKeeps
<1>4. CASE /\ Path(t) = "turn" /\ Respond(t, Canned("abstain")) /\ AfterGates(t)
           /\ UNCHANGED <<shown, alerts, failed>>
  <2>1. /\ job' \in [Turns -> Job] /\ \A u \in Turns \ {t} : job'[u] = job[u]
        /\ job'[t].resp = Canned("abstain") /\ job'[t].path = job[t].path /\ job'[t].n = job[t].n
        /\ job'[t].tool = job[t].tool /\ job'[t].status = job[t].status
    BY <1>0, <1>4, CannedFields, RespondEffect
  <2>2. pc'[t] = "guard" /\ TypeOK' /\ Local(t)
    BY <1>0, <1>4, <2>1 DEF AfterGates, NextBy, Path, Goto, TypeOK, Local, Same
  <2>3. TurnInv(t)'
    BY <1>0, <1>4, <2>1, <2>2, CannedFields
       DEF TurnInv, DraftInv, StatusInv, ReplyInv, RecordInv, AlertInv, Vouched, InRange,
           Unjudged, Passed, Gated, Path, Cacheable
  <2> QED
    BY <1>0, <2>2, <2>3 DEF Kept
<1>5. CASE /\ \/ Path(t) = "stream" /\ job[t].tool = "graph_search"
              \/ Path(t) = "turn" /\ job[t].tool # "hybrid_search"
           /\ AfterGates(t) /\ UNCHANGED <<job, shown, alerts, failed>>
  <2>1. pc'[t] = (IF Path(t) = "turn" THEN "guard" ELSE "replace") /\ ~Gated(t) /\ TypeOK' /\ Local(t)
    BY <1>0, <1>5 DEF AfterGates, NextBy, Path, Goto, Gated, TypeOK, Local, Same
  <2>2. TurnInv(t)'
    BY <1>0, <1>5, <2>1
       DEF TurnInv, DraftInv, StatusInv, ReplyInv, RecordInv, AlertInv, Vouched, InRange,
           Unjudged, Passed, Gated, Path, Cacheable
  <2> QED
    BY <1>0, <2>1, <2>2 DEF Kept
<1> QED
  BY <1>1, <1>2, <1>3, <1>4, <1>5 DEF Gate

\* The statuses groundedness.enforce returns.
Outcomes == {"grounded", "remediated", "skipped", "error_failopen", "ungrounded_abstained"}

\* A job after the judge.
Judged(j, a, status) == [j EXCEPT !.resp = a, !.status = status]

LEMMA JudgedFields ==
    ASSUME NEW j \in Job, NEW a \in Text,
           NEW s \in Outcomes,
           NEW r, r = Judged(j, a, s)
    PROVE  r \in Job /\ r.resp = a /\ r.n = j.n /\ r.tool = j.tool /\ r.path = j.path /\ r.status = s
<1> DEFINE j1 == [j EXCEPT !.resp = a]  j2 == [j1 EXCEPT !.status = s]
<1>1. j1 \in Job /\ j1.n = j.n /\ j1.tool = j.tool /\ j1.path = j.path /\ j1.resp = a
  BY JobResp
<1>2. j2 = r
  BY DEF Judged
<1> HIDE DEF j1
<1>3. j2 \in Job /\ j2.n = j.n /\ j2.tool = j.tool /\ j2.path = j.path /\ j2.resp = a /\ j2.status = s
  BY <1>1 DEF Job, Outcomes
<1> QED
  BY <1>2, <1>3

\* What the judge makes of a text that is vouched for: the text itself, a corrected
\* one that is vouched for, too, or the abstention message.
LEMMA EnforceOutcomes ==
    ASSUME NEW a \in Text, NEW n \in 0..MaxChunks, a.kind = "draft", a.n = n, a.cites \subseteq 1..n,
           NEW o \in Enforce(a, n)
    PROVE  /\ o.text \in Text
           /\ o.status \in Outcomes
           /\ \/ o.text = a
              \/ /\ o.text.kind = "draft" /\ o.text.n = n /\ o.text.cites \subseteq 1..n /\ o.text.cites # {}
                 /\ ~Rewritten(o.text)
              \/ o.text = Canned("abstain") /\ o.status = "ungrounded_abstained"
<1>1. Assess(a, n) \subseteq {"grounded", "ungrounded", "error_failopen", "skipped"}
  BY DEF Assess
<1>2. CASE \E v \in Assess(a, n) \ {"ungrounded"} : o = [text |-> a, status |-> v]
  BY <1>1, <1>2 DEF Outcomes
<1>3. CASE "ungrounded" \in Assess(a, n) /\ \E c \in Corrected(n) : o = [text |-> c, status |-> "remediated"]
  <2>1. PICK c \in Corrected(n) : o = [text |-> c, status |-> "remediated"]
    BY <1>3
  <2>2. c \in Text /\ c.kind = "draft" /\ c.n = n /\ ValidateCitations(c, n) = "ok" /\ ~Rewritten(c)
    BY <2>1, DraftFields DEF Corrected
  <2>3. n > 0
    BY <1>3 DEF Assess
  <2>4. c.cites \subseteq 1..n /\ c.cites # {}
    BY <2>2, <2>3, ValidateOk
  <2> QED
    BY <2>1, <2>2, <2>4 DEF Outcomes
<1>4. CASE o = [text |-> Canned("abstain"), status |-> "ungrounded_abstained"]
  BY <1>4, CannedFields DEF Outcomes
<1> QED
  BY <1>2, <1>3, <1>4 DEF Enforce

\* The judge keeps a reply vouched for, or replaces it by the abstention message.
LEMMA JudgeKeeps ==
    ASSUME Inv, NEW t \in Turns, Judge(t)
    PROVE  Kept(t) /\ UNCHANGED cache
<1>0. /\ TypeOK /\ TurnInv(t) /\ job[t] \in Job /\ Path(t) \in {"chat", "stream", "turn"} /\ pc[t] = "judge"
      /\ UNCHANGED <<cache, shown, memory, log, alerts, blocked, failed>>
      /\ job[t].n \in 0..MaxChunks /\ job[t].resp \in Text /\ InRange(t)
  BY Before, JobFields DEF Judge, TurnInv, DraftInv
<1>1. PICK o \in Enforce(job[t].resp, job[t].n) : job' = [job EXCEPT ![t] = Judged(job[t], o.text, o.status)]
  <2>1. PICK o \in Enforce(job[t].resp, job[t].n) : job' = [job EXCEPT ![t].resp = o.text, ![t].status = o.status]
    BY DEF Judge
  <2>2. [job EXCEPT ![t].resp = o.text, ![t].status = o.status] = [job EXCEPT ![t] = Judged(job[t], o.text, o.status)]
    BY <1>0 DEF TypeOK, Judged
  <2> QED
    BY <2>1, <2>2
<1>2. /\ o.text \in Text
      /\ o.status \in Outcomes
      /\ \/ o.text = job[t].resp
         \/ /\ o.text.kind = "draft" /\ o.text.n = job[t].n /\ o.text.cites \subseteq 1..job[t].n /\ o.text.cites # {}
            /\ ~Rewritten(o.text)
         \/ o.text = Canned("abstain") /\ o.status = "ungrounded_abstained"
  BY <1>0, <1>1, EnforceOutcomes DEF InRange, Checked
<1>3. PICK j : j = Judged(job[t], o.text, o.status)
  OBVIOUS
<1>4. /\ j \in Job /\ j.resp = o.text /\ j.n = job[t].n /\ j.tool = job[t].tool
      /\ j.path = job[t].path /\ j.status = o.status
  BY <1>0, <1>2, <1>3, JudgedFields
<1>5. /\ job'[t] = j /\ TypeOK' /\ Local(t)
      /\ pc'[t] = IF Path(t) = "chat" THEN "set" ELSE IF Path(t) = "stream" THEN "replace" ELSE "guard"
  BY <1>0, <1>1, <1>3, <1>4 DEF Judge, Goto, NextBy, Path, TypeOK, Local, Same
<1>6. CASE o.text = Canned("abstain") /\ o.status = "ungrounded_abstained"
  <2>1. TurnInv(t)'
    BY <1>0, <1>4, <1>5, <1>6, CannedFields
       DEF TurnInv, DraftInv, StatusInv, ReplyInv, RecordInv, AlertInv, Vouched, InRange,
           Unjudged, Passed, Gated, Path, Cacheable
  <2> QED
    BY <1>0, <1>5, <2>1 DEF Kept
<1>7. CASE \/ o.text = job[t].resp
           \/ /\ o.text.kind = "draft" /\ o.text.n = job[t].n /\ o.text.cites \subseteq 1..job[t].n /\ o.text.cites # {}
              /\ ~Rewritten(o.text)
  <2>1. InRange(t)' /\ Vouched(t)' /\ Checked(job'[t].resp) /\ job'[t].resp \in Text /\ job'[t].resp.kind = "draft"
        /\ job'[t].resp.n = job'[t].n /\ ~Rewritten(job'[t].resp)
    BY <1>0, <1>2, <1>4, <1>5, <1>7 DEF Vouched, InRange, Checked, TurnInv, DraftInv, Path
  <2>2. TurnInv(t)'
    BY <1>0, <1>4, <1>5, <2>1
       DEF TurnInv, DraftInv, StatusInv, ReplyInv, RecordInv, AlertInv,
           Unjudged, Passed, Gated, Path, Cacheable
  <2> QED
    BY <1>0, <1>5, <2>2 DEF Kept
<1> QED
  BY <1>2, <1>6, <1>7

-----------------------------------------------------------------------------
(* The end of a turn *)

\* chat_stream shows what it remembers.
LEMMA ReplaceKeeps ==
    ASSUME Inv, NEW t \in Turns, Replace(t)
    PROVE  Kept(t) /\ UNCHANGED cache
<1>0. TypeOK /\ TurnInv(t) /\ pc[t] = "replace" /\ job[t].resp \in Text \cup {None}
      /\ UNCHANGED <<cache, job, log, alerts, blocked>>
  BY Before DEF Replace
<1>1. /\ shown'[t] = job[t].resp /\ TypeOK' /\ Local(t)
      /\ \/ memory'[t] = job[t].resp /\ pc'[t] = "set" /\ UNCHANGED failed
         \/ memory'[t] = memory[t] /\ pc'[t] = "done" /\ t \in failed'
  BY <1>0 DEF Replace, Show, Remember, Abort, Goto, TypeOK, Local, Same
<1>2. TurnInv(t)'
  BY <1>0, <1>1 DEF TurnInv, DraftInv, StatusInv, ReplyInv, RecordInv, AlertInv, Vouched, InRange,
       Unjudged, Passed, Gated, Path
<1> QED
  BY <1>0, <1>1, <1>2 DEF Kept

\* What is cached is vouched for by the status of the judge.
LEMMA SetKeeps ==
    ASSUME Inv, NEW t \in Turns, Set(t)
    PROVE  Kept(t) /\ CachedIsChecked'
<1>0. /\ TypeOK /\ TurnInv(t) /\ CachedIsChecked /\ pc[t] = "set" /\ Path(t) \in {"chat", "stream", "turn"}
      /\ job[t] \in Job /\ job[t].query \in Queries /\ job[t].resp \in Text \cup {None}
      /\ UNCHANGED <<job, shown, memory, log, alerts, blocked>>
  BY Before, JobFields DEF Set, Inv
<1>1. /\ pc' \in [Turns -> {"idle", "cache", "scope", "precheck", "input", "agent", "guard", "agentMemory",
                            "errorMemory", "gate", "judge", "replace", "set", "log", "finish", "done"}]
      /\ failed' \subseteq Turns /\ Local(t)
      /\ \/ pc'[t] \in {"log", "finish"} /\ UNCHANGED failed /\ (pc'[t] = "finish" => Path(t) = "turn")
         \/ pc'[t] = "done" /\ t \in failed' /\ Path(t) = "stream"
  BY <1>0 DEF Set, Goto, NextBy, Path, Abort, TypeOK, Local, Same
<1>m. pc'[t] = "finish" => memory[t] = None
  BY <1>0, <1>1 DEF TurnInv, RecordInv
<1>2. TurnInv(t)'
  BY <1>0, <1>1, <1>m DEF TurnInv, DraftInv, StatusInv, ReplyInv, RecordInv, AlertInv, Vouched, InRange,
       Unjudged, Passed, Gated, Path
<1>3. TypeOK' /\ CachedIsChecked'
  <2>1. CASE UNCHANGED cache
    BY <1>0, <1>1, <2>1 DEF TypeOK, CachedIsChecked
  <2>2. CASE job[t].status \in Cacheable /\ cache' = [cache EXCEPT ![job[t].query] = Entry(t)]
    <3>1. Vouched(t)
      BY <1>0, <2>2 DEF TurnInv, StatusInv
    <3>2. job[t].resp \in Text
      BY <1>0, <3>1, NoneFields DEF Vouched, InRange, Checked, Rewritten
    <3>3. Entry(t) \in [text : Text, by : {"chat", "stream", "turn"}]
      BY <1>0, <3>2 DEF Entry, Path
    <3>4. TypeOK'
      BY <1>0, <1>1, <2>2, <3>3 DEF TypeOK
    <3>5. CachedIsChecked'
      <4> SUFFICES ASSUME NEW q \in Queries, cache'[q] # None
                   PROVE  \/ Checked(cache'[q].text) /\ (cache'[q].by = "chat" => cache'[q].text.cites # {})
                          \/ cache'[q].by = "turn" /\ (cache'[q].text.kind = "refusal" \/ Rewritten(cache'[q].text))
        BY DEF CachedIsChecked
      <4>1. CASE q = job[t].query
        BY <1>0, <2>2, <3>1, <4>1 DEF TypeOK, Entry, Vouched, InRange, Path
      <4>2. CASE q # job[t].query
        BY <1>0, <2>2, <4>2 DEF TypeOK, CachedIsChecked
      <4> QED
        BY <4>1, <4>2
    <3> QED
      BY <3>4, <3>5
  <2> QED
    BY <2>1, <2>2 DEF Set
<1> QED
  BY <1>1, <1>2, <1>3 DEF Kept

\* The transcript gets what is on the screen.
LEMMA LogKeeps ==
    ASSUME Inv, NEW t \in Turns, Log(t)
    PROVE  Kept(t) /\ UNCHANGED cache
<1>0. TypeOK /\ TurnInv(t) /\ pc[t] = "log" /\ job[t].resp \in Text \cup {None}
      /\ UNCHANGED <<cache, job, memory, alerts, blocked, failed>>
  BY Before DEF Log
<1>1. /\ shown'[t] = job[t].resp /\ pc'[t] = "done" /\ log'[t] \in {job[t].resp, log[t]} /\ TypeOK' /\ Local(t)
  BY <1>0 DEF Log, Show, Goto, TypeOK, Local, Same
<1>2. TurnInv(t)'
  BY <1>0, <1>1 DEF TurnInv, DraftInv, StatusInv, ReplyInv, RecordInv, AlertInv, Vouched, InRange,
       Unjudged, Passed, Gated, Path
<1> QED
  BY <1>0, <1>1, <1>2 DEF Kept

\* run_agent_turn remembers what it returns.
LEMMA FinishKeeps ==
    ASSUME Inv, NEW t \in Turns, Finish(t)
    PROVE  Kept(t) /\ UNCHANGED cache
<1>0. TypeOK /\ TurnInv(t) /\ pc[t] = "finish" /\ job[t].resp \in Text \cup {None}
      /\ UNCHANGED <<cache, job, log, alerts, blocked>>
  BY Before DEF Finish
<1>1. CASE Remember(t, job[t].resp) /\ Show(t, job[t].resp) /\ Goto(t, "done") /\ UNCHANGED failed
  <2>1. shown'[t] = job[t].resp /\ memory'[t] = job[t].resp /\ pc'[t] = "done" /\ TypeOK' /\ Local(t)
    BY <1>0, <1>1 DEF Remember, Show, Goto, TypeOK, Local, Same
  <2>2. TurnInv(t)'
    BY <1>0, <1>1, <2>1 DEF TurnInv, DraftInv, StatusInv, ReplyInv, RecordInv, AlertInv, Vouched, InRange,
         Unjudged, Passed, Gated, Path
  <2> QED
    BY <1>0, <2>1, <2>2 DEF Kept
<1>2. CASE TurnError(t)
  BY <1>0, <1>2, TurnErrorKeeps
<1> QED
  BY <1>1, <1>2 DEF Finish

-----------------------------------------------------------------------------
(* The invariant and the theorems *)

LEMMA StepKeeps ==
    ASSUME Inv, NEW t \in Turns, Step(t)
    PROVE  Kept(t) /\ CachedIsChecked'
<1>1. CASE Set(t)
  BY <1>1, SetKeeps
<1>2. CASE ~Set(t)
  <2>1. Kept(t) /\ UNCHANGED cache
    BY <1>2, BeginKeeps, CacheGetKeeps, ScopeKeeps, PrecheckKeeps, CheckInputKeeps, AgentKeeps, GuardKeeps,
       AgentMemoryKeeps, GateKeeps, JudgeKeeps, ReplaceKeeps, LogKeeps, FinishKeeps DEF Step
  <2> QED
    BY <2>1 DEF Inv, CachedIsChecked
<1> QED
  BY <1>1, <1>2

LEMMA InvInit == Init => Inv
<1> SUFFICES ASSUME Init PROVE Inv
  OBVIOUS
<1>0. NoJob \in Job /\ NoJob.resp = None /\ NoJob.status = "none" /\ NoJob.path = "chat"
  BY ChatAssumption DEF NoJob, Job, Tools
<1>1. TypeOK /\ CachedIsChecked
  BY <1>0 DEF Init, TypeOK, CachedIsChecked
<1>2. ASSUME NEW t \in Turns PROVE TurnInv(t)
  BY <1>0, NoneFields DEF Init, TurnInv, DraftInv, StatusInv, ReplyInv, RecordInv, AlertInv,
       Unjudged, Passed, Cacheable, Path
<1> QED
  BY <1>1, <1>2 DEF Inv

LEMMA InvNext == Inv /\ [Next]_vars => Inv'
<1> SUFFICES ASSUME Inv, [Next]_vars PROVE Inv'
  OBVIOUS
<1>1. ASSUME NEW t \in Turns, Step(t) PROVE Inv'
  <2>1. Kept(t) /\ CachedIsChecked'
    BY <1>1, StepKeeps
  <2>2. ASSUME NEW u \in Turns PROVE TurnInv(u)'
    <3>1. CASE u = t
      BY <2>1, <3>1 DEF Kept
    <3>2. CASE u # t
      BY <2>1, <3>2, SameInv DEF Kept, Local, Inv
    <3> QED
      BY <3>1, <3>2
  <2> QED
    BY <2>1, <2>2 DEF Inv, Kept
<1>2. ASSUME NEW q \in Queries, Expire(q) PROVE Inv'
  <2>1. TypeOK' /\ CachedIsChecked'
    BY <1>2 DEF Inv, TypeOK, CachedIsChecked, Expire
  <2>2. ASSUME NEW u \in Turns PROVE TurnInv(u)'
    BY <1>2, SameInv DEF Expire, Inv, Same
  <2> QED
    BY <2>1, <2>2 DEF Inv
<1>3. CASE UNCHANGED vars
  <2>1. TypeOK' /\ CachedIsChecked'
    BY <1>3 DEF Inv, TypeOK, CachedIsChecked, vars
  <2>2. ASSUME NEW u \in Turns PROVE TurnInv(u)'
    BY <1>3, SameInv DEF vars, Inv, Same
  <2> QED
    BY <2>1, <2>2 DEF Inv
<1> QED
  BY <1>1, <1>2, <1>3 DEF Next

\* The invariant holds in every reachable state.
LEMMA Invariant == Spec => []Inv
  BY InvInit, InvNext, PTL DEF Spec

\* Every record of a turn is a text or none, every job a job, whatever fails.
THEOREM ChatTypeCorrect == Spec => []TypeOK
<1>1. Inv => TypeOK
  BY DEF Inv
<1> QED
  BY <1>1, Invariant, PTL

\* No gated reply is left on a screen with the number of a chunk its turn did not
\* retrieve, whichever path, failure, correction, scrub or cache entry it comes
\* from, unless run_agent_turn had it transliterated behind the gates.
THEOREM ShownCitationsAreReal == Spec => []ShownIsChecked
<1>1. Inv => ShownIsChecked
  BY DEF Inv, TurnInv, ReplyInv, ShownIsChecked
<1> QED
  BY <1>1, Invariant, PTL

\* answer_cache.set memoizes model texts with citations in range, over /chat with at
\* least one, and from run_agent_turn also what the guardrails put in the place of
\* such a text: the canned refusal or a transliteration.
THEOREM CachedCitationsAreReal == Spec => []CachedIsChecked
<1>1. Inv => CachedIsChecked
  BY DEF Inv
<1> QED
  BY <1>1, Invariant, PTL

\* Transcript and, outside /chat, session memory agree with the screen at the end
\* of every turn, failed ones included.
THEOREM RecordsAgree == Spec => []RecordsMatchReply
<1>1. Inv => RecordsMatchReply
  BY DEF Inv, TurnInv, RecordInv, RecordsMatchReply
<1> QED
  BY <1>1, Invariant, PTL

\* A user is told of an alert if and only if one was queued.
THEOREM AlertsAreReal == Spec => []EscalationIsHeard
<1>1. Inv => EscalationIsHeard
  BY DEF Inv, TurnInv, AlertInv, EscalationIsHeard
<1> QED
  BY <1>1, Invariant, PTL
=============================================================================
