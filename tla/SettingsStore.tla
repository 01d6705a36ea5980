--------------------------- MODULE SettingsStore ---------------------------
(***************************************************************************)
(* The runtime-editable agent settings (agent/settings_store.py): one row  *)
(* in Supabase and, in every API and worker process, a module-level cache  *)
(* with a TTL that all coroutines of the process share.                    *)
(*                                                                         *)
(* A step is the code between two awaits, or what the database does while  *)
(* a coroutine waits. A configuration stands for the number of updates     *)
(* that led to it; 0 is the built-in default, which a missing row gives.   *)
(***************************************************************************)
EXTENDS Integers, Sequences

CONSTANTS
    Processes,  \* API and worker processes
    Calls,      \* coroutines inside get_config or update_config
    Host,       \* Host[c]: the process of coroutine c
    TTL,        \* _CACHE_TTL_SECONDS
    MaxTime,    \* bound on the clock
    MaxRev,     \* bound on the updates
    Flaky       \* may a database call fail?

ASSUME SettingsAssumption ==
    /\ Host \in [Calls -> Processes]
    /\ TTL \in Nat /\ MaxTime \in Nat /\ MaxRev \in Nat /\ Flaky \in BOOLEAN

VARIABLES
    clock,      \* time.monotonic
    born,       \* the times at which the updates so far were written to the row
    connected,  \* processes that have initialised their Supabase client
    cache,      \* _cache of each process, or None
    cacheAt,    \* _cache_at
    renewed,    \* history: processes whose cache was last stamped by a failed read
    pc,         \* where each coroutine is; its locals are:
    now,        \*   now
    read,       \*   the configuration the SELECT gave, Failed, or None
    mine,       \*   the update it wrote; 0: none
    got         \*   what it returns

world == <<clock, born, connected>>
proc == <<cache, cacheAt, renewed>>
call == <<pc, now, read, mine, got>>
vars == <<world, proc, call>>

None == -1      \* no cached configuration, no answer yet
Failed == -2    \* the SELECT raised
Default == 0
Rev == Len(born)

Init ==
    /\ clock = 0 /\ born = <<>> /\ connected = {}
    /\ cache = [p \in Processes |-> None] /\ cacheAt = [p \in Processes |-> 0] /\ renewed = {}
    /\ pc = [c \in Calls |-> "idle"] /\ now = [c \in Calls |-> 0]
    /\ read = [c \in Calls |-> None] /\ mine = [c \in Calls |-> 0]
    /\ got = [c \in Calls |-> Default]

Tick ==
    /\ clock < MaxTime
    /\ clock' = clock + 1
    /\ UNCHANGED <<born, connected, proc, call>>

\* The process initialises its database client.
Connect(p) ==
    /\ p \notin connected
    /\ connected' = connected \cup {p}
    /\ UNCHANGED <<clock, born, proc, call>>

CachedOr(p, x) == IF cache[p] = None THEN x ELSE cache[p]

\* The condition of the early return of get_config.
Servable(p) == cache[p] # None /\ clock - cacheAt[p] < TTL

\* get_config up to its await. A hit, or a process without a client, returns
\* the cached or the default configuration.
GetConfig(c, force) ==
    LET p == Host[c] IN
    /\ now' = [now EXCEPT ![c] = clock]
    /\ \/ /\ (~force /\ Servable(p)) \/ p \notin connected
          /\ got' = [got EXCEPT ![c] = CachedOr(p, Default)]
          /\ pc' = [pc EXCEPT ![c] = "done"]
       \/ /\ (force \/ ~Servable(p)) /\ p \in connected
          /\ pc' = [pc EXCEPT ![c] = "select"]
          /\ UNCHANGED got
    /\ UNCHANGED <<world, proc, read>>

\* A turn or a scope check asks for the settings, or an admin opens them.
Get(c) ==
    /\ pc[c] = "idle"
    /\ \E force \in BOOLEAN : GetConfig(c, force)
    /\ UNCHANGED mine

\* An admin saves the settings. Without a client update_config raises.
Update(c) ==
    /\ pc[c] = "idle" /\ Host[c] \in connected
    /\ pc' = [pc EXCEPT ![c] = "upsert"]
    /\ UNCHANGED <<world, proc, now, read, mine, got>>

\* The database writes the row. The call may raise, before or after that.
Upsert(c) ==
    /\ pc[c] = "upsert"
    /\ \/ /\ Rev < MaxRev
          /\ born' = Append(born, clock)
          /\ \/ mine' = [mine EXCEPT ![c] = Rev + 1] /\ pc' = [pc EXCEPT ![c] = "refresh"]
             \/ Flaky /\ pc' = [pc EXCEPT ![c] = "idle"] /\ UNCHANGED mine
       \/ Flaky /\ pc' = [pc EXCEPT ![c] = "idle"] /\ UNCHANGED <<born, mine>>
    /\ UNCHANGED <<clock, connected, proc, now, read, got>>

\* Mutant: the refresh after an update may be served from the cache.
RefreshUnforced(c) ==
    /\ pc[c] = "refresh"
    /\ GetConfig(c, FALSE)
    /\ UNCHANGED mine

\* update_config goes on with get_config(force=True).
Refresh(c) ==
    /\ pc[c] = "refresh"
    /\ GetConfig(c, TRUE)
    /\ UNCHANGED mine

\* The database reads the row, or the call fails.
Select(c) ==
    /\ pc[c] = "select"
    /\ \/ read' = [read EXCEPT ![c] = Rev]
       \/ Flaky /\ read' = [read EXCEPT ![c] = Failed]
    /\ pc' = [pc EXCEPT ![c] = "apply"]
    /\ UNCHANGED <<world, proc, now, mine, got>>

\* Mutant: the cache is stamped with the time at which the answer arrived.
ApplyStampsLate(c) ==
    LET p == Host[c]  config == IF read[c] = Failed THEN CachedOr(p, Default) ELSE read[c] IN
    /\ pc[c] = "apply"
    /\ cache' = [cache EXCEPT ![p] = config]
    /\ cacheAt' = [cacheAt EXCEPT ![p] = clock]
    /\ renewed' = IF read[c] = Failed THEN renewed \cup {p} ELSE renewed \ {p}
    /\ got' = [got EXCEPT ![c] = config]
    /\ pc' = [pc EXCEPT ![c] = "done"]
    /\ UNCHANGED <<world, now, read, mine>>

\* get_config after its await. Both outcomes stamp the cache with the time at
\* which the call began, whatever other coroutines stored meanwhile.
Apply(c) ==
    LET p == Host[c]  config == IF read[c] = Failed THEN CachedOr(p, Default) ELSE read[c] IN
    /\ pc[c] = "apply"
    /\ cache' = [cache EXCEPT ![p] = config]
    /\ cacheAt' = [cacheAt EXCEPT ![p] = now[c]]
    /\ renewed' = IF read[c] = Failed THEN renewed \cup {p} ELSE renewed \ {p}
    /\ got' = [got EXCEPT ![c] = config]
    /\ pc' = [pc EXCEPT ![c] = "done"]
    /\ UNCHANGED <<world, now, read, mine>>

\* The caller has its configuration; the locals are gone.
Return(c) ==
    /\ pc[c] = "done"
    /\ pc' = [pc EXCEPT ![c] = "idle"] /\ now' = [now EXCEPT ![c] = 0]
    /\ read' = [read EXCEPT ![c] = None] /\ mine' = [mine EXCEPT ![c] = 0]
    /\ got' = [got EXCEPT ![c] = Default]
    /\ UNCHANGED <<world, proc>>

Next ==
    \/ Tick
    \/ \E p \in Processes : Connect(p)
    \/ \E c \in Calls : \/ Get(c) \/ Update(c) \/ Upsert(c) \/ Refresh(c) \/ Select(c) \/ Apply(c)
                        \/ Return(c)

Spec == Init /\ [][Next]_vars

-----------------------------------------------------------------------------
(* Properties *)

TypeOK ==
    /\ clock \in Nat /\ born \in Seq(Nat) /\ connected \subseteq Processes
    /\ cache \in [Processes -> Nat \cup {None}] /\ cacheAt \in [Processes -> Nat]
    /\ renewed \subseteq Processes
    /\ pc \in [Calls -> {"idle", "upsert", "refresh", "select", "apply", "done"}]
    /\ now \in [Calls -> Nat] /\ read \in [Calls -> Nat \cup {None, Failed}]
    /\ mine \in [Calls -> Nat] /\ got \in [Calls -> Nat]

\* Configuration r is the current one, or was until less than TTL ago.
Recent(r) == r = Rev \/ (r \in 0..(Rev - 1) /\ clock - born[r + 1] < TTL)

\* A cache hit serves a configuration that was current less than TTL ago, unless
\* a failed read renewed the entry: a coroutine that read the row before an
\* update may overwrite the cache after the update's own refresh, but the time
\* it stamps is the one from before its read, so the old entry is short-lived.
BoundedStaleness == \A p \in Processes \ renewed : Servable(p) => Recent(cache[p])

\* update_config returns a configuration that includes its own update, unless
\* its read failed, whatever the other coroutines of the process do meanwhile.
UpdateSeesOwnWrite ==
    \A c \in Calls : pc[c] = "done" /\ mine[c] # 0 /\ read[c] # Failed => got[c] >= mine[c]

\* Claimed by "Returns the new config": also when the refresh fails.
UpdateReturnsNew == \A c \in Calls : pc[c] = "done" /\ mine[c] # 0 => got[c] >= mine[c]
=============================================================================
