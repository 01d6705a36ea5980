--------------------------- MODULE SessionMemory ---------------------------
(***************************************************************************)
(* SessionMemoryManager (agent/session_memory.py) in several API processes *)
(* over one Redis: each process resolves its backend on first use, with a  *)
(* ping, and keeps it. A Redis history is a list of messages, two per      *)
(* turn, appended, trimmed and given a TTL in one MULTI/EXEC pipeline; the *)
(* in-process fallback keeps the same list in a dict. The manager is       *)
(* called synchronously, so each call is one step.                         *)
(***************************************************************************)
EXTENDS Naturals, Sequences

CONSTANTS
    Processes,  \* API processes
    Sessions,   \* session ids
    Window,     \* CONTEXT_WINDOW_TURNS; 0 keeps every turn
    MaxTurns    \* bound: turns ever added

ASSUME MemoryAssumption == Window \in Nat /\ MaxTurns \in Nat /\ "redis" \notin Processes

VARIABLES
    up,        \* is Redis reachable?
    client,    \* each process' _client: "unchecked", "redis" or "memory"
    store,     \* the message list of each session in Redis and in each process
    nextTurn,  \* turns added so far, plus one
    raised     \* processes a manager call of which raised a Redis error

vars == <<up, client, store, nextTurn, raised>>

Stores == {"redis"} \cup Processes
Message == [role : {"user", "assistant"}, turn : 1..MaxTurns]

Init ==
    /\ up \in BOOLEAN
    /\ client = [p \in Processes |-> "unchecked"]
    /\ store = [x \in Stores |-> [s \in Sessions |-> <<>>]]
    /\ nextTurn = 1
    /\ raised = {}

\* Redis becomes unreachable or comes back.
Outage ==
    /\ up' = ~up
    /\ UNCHANGED <<client, store, nextTurn, raised>>

\* Mutant: a failed ping leaves the process without a backend.
ResolveNothing(p) ==
    /\ client[p] = "unchecked"
    /\ client' = [client EXCEPT ![p] = IF up THEN "redis" ELSE "none"]
    /\ UNCHANGED <<up, store, nextTurn, raised>>

\* _client, first use: a failed ping degrades the process for good.
Resolve(p) ==
    /\ client[p] = "unchecked"
    /\ client' = [client EXCEPT ![p] = IF up THEN "redis" ELSE "memory"]
    /\ UNCHANGED <<up, store, nextTurn, raised>>

\* The store a resolved process reads and writes, and what it reads there.
Home(p) == IF client[p] = "redis" THEN "redis" ELSE p
GetMessages(p, s) == store[Home(p)][s]

\* Does a call of process p reach its store? If not it raises.
Reaches(p) == client[p] = "memory" \/ (client[p] = "redis" /\ up)
Raise(p) == raised' = raised \cup {p} /\ UNCHANGED <<up, client, store, nextTurn>>

\* Mutant: the window counts messages, not turns.
TrimByMessages(l) ==
    IF Window = 0 \/ Len(l) <= Window THEN l ELSE SubSeq(l, Len(l) - Window + 1, Len(l))

\* LTRIM key -2*Window -1, and _trim_memory. With Window = 0 the first index of both
\* is 0, the start of the list, and nothing is trimmed.
Trim(l) ==
    IF Window = 0 \/ Len(l) <= 2 * Window THEN l ELSE SubSeq(l, Len(l) - 2 * Window + 1, Len(l))

\* Mutant: two messages of one turn are pushed in the wrong order.
SwappedMessages(t) == <<[role |-> "assistant", turn |-> t], [role |-> "user", turn |-> t]>>

\* The two messages of a turn.
MessagesOf(t) == <<[role |-> "user", turn |-> t], [role |-> "assistant", turn |-> t]>>

\* add_turn.
AddTurn(p, s) ==
    /\ client[p] # "unchecked"
    /\ \/ /\ Reaches(p) /\ nextTurn <= MaxTurns
          /\ store' = [store EXCEPT ![Home(p)][s] = Trim(@ \o MessagesOf(nextTurn))]
          /\ nextTurn' = nextTurn + 1
          /\ UNCHANGED <<up, client, raised>>
       \/ ~Reaches(p) /\ Raise(p)

\* get_messages and session_exists change nothing, but raise in an outage.
Read(p) ==
    /\ client[p] = "redis" /\ ~up
    /\ Raise(p)

\* clear_session.
Clear(p, s) ==
    /\ client[p] # "unchecked"
    /\ \/ /\ Reaches(p)
          /\ store' = [store EXCEPT ![Home(p)][s] = <<>>]
          /\ UNCHANGED <<up, client, nextTurn, raised>>
       \/ ~Reaches(p) /\ Raise(p)

\* The rolling TTL of a Redis key runs out.
Expire(s) ==
    /\ store' = [store EXCEPT !["redis"][s] = <<>>]
    /\ UNCHANGED <<up, client, nextTurn, raised>>

\* A process restarts: its dict is gone and its client is unresolved.
Restart(p) ==
    /\ client[p] # "unchecked"
    /\ client' = [client EXCEPT ![p] = "unchecked"]
    /\ store' = [store EXCEPT ![p] = [s \in Sessions |-> <<>>]]
    /\ UNCHANGED <<up, nextTurn, raised>>

Next ==
    \/ Outage
    \/ \E p \in Processes : Resolve(p) \/ Read(p) \/ Restart(p)
    \/ \E p \in Processes, s \in Sessions : AddTurn(p, s) \/ Clear(p, s)
    \/ \E s \in Sessions : Expire(s)

Spec == Init /\ [][Next]_vars

-----------------------------------------------------------------------------
(* Properties *)

TypeOK ==
    /\ up \in BOOLEAN
    /\ client \in [Processes -> {"unchecked", "redis", "memory"}]
    /\ store \in [Stores -> [Sessions -> Seq(Message)]]
    /\ nextTurn \in 1..(MaxTurns + 1)
    /\ raised \subseteq Processes

\* A message list is whole turns: each user message directly before its reply, in
\* the order the turns were added, also after trimming (session_info divides the
\* length by two, and the prompt shows the list as a dialogue).
WholeTurns ==
    \A x \in Stores, s \in Sessions :
        LET l == store[x][s] IN
        /\ Len(l) % 2 = 0 /\ (Window = 0 \/ Len(l) <= 2 * Window)
        /\ \A i \in 1..Len(l) : l[i].role = IF i % 2 = 1 THEN "user" ELSE "assistant"
        /\ \A i \in 1..Len(l) : i % 2 = 1 => l[i + 1].turn = l[i].turn
        /\ \A i, j \in 1..Len(l) : i < j => l[i].turn <= l[j].turn

\* The turns of a message list.
TurnsOf(l) == [i \in 1..(Len(l) \div 2) |-> l[2 * i].turn]

Windows == INSTANCE SlidingWindow WITH
    Histories <- Stores \X Sessions,
    Turns <- 1..MaxTurns,
    history <- [h \in Stores \X Sessions |-> TurnsOf(store[h[1]][h[2]])]

\* The Redis lists and the in-process lists implement sliding windows of turns,
\* whichever processes append to, clear, lose or outlive them.
ImplementsWindow == Windows!Spec

\* Claimed by "every process reads/writes the same per-session history": two
\* processes with a resolved backend read the same messages.
SameHistory ==
    \A p, q \in Processes, s \in Sessions :
        client[p] # "unchecked" /\ client[q] # "unchecked" => GetMessages(p, s) = GetMessages(q, s)

\* Claimed by "If Redis is unreachable ... the manager transparently falls back to
\* an in-process dict": no call raises.
NeverRaises == raised = {}
=============================================================================
