------------------------ MODULE SettingsStoreProofs ------------------------
(***************************************************************************)
(* Proofs about SettingsStore: the staleness bound of a cache hit, and     *)
(* that an update sees its own write, for any number of processes and      *)
(* coroutines and any TTL.                                                 *)
(*                                                                         *)
(* Fresh relates a configuration to the time stamped on it: it was still   *)
(* current then. A coroutine carries such a pair from its read to the      *)
(* cache, and the pair stays fresh whatever is written meanwhile, because  *)
(* a later update is written at a later time.                              *)
(***************************************************************************)
EXTENDS SettingsStore, TLAPS

\* Configuration r was current at time t or later.
Fresh(r, t) == r \in 0..Rev /\ (r < Rev => t <= born[r + 1])

\* A time that was stamped is past, a configuration that is known was written.
PastInv ==
    /\ \A p \in Processes : cacheAt[p] <= clock /\ cache[p] <= Rev
    /\ \A c \in Calls : now[c] <= clock /\ read[c] <= Rev /\ mine[c] <= Rev

FreshInv ==
    /\ \A p \in Processes \ renewed : cache[p] # None => Fresh(cache[p], cacheAt[p])
    /\ \A c \in Calls : read[c] \notin {None, Failed} => Fresh(read[c], now[c])

\* An update is under way only in a process with a client, and its read came
\* after its write.
OwnInv ==
    \A c \in Calls :
        /\ pc[c] = "idle" => mine[c] = 0 /\ read[c] = None
        /\ pc[c] \in {"upsert", "refresh", "select"} => read[c] = None
        /\ pc[c] = "apply" => read[c] # None
        /\ mine[c] # 0 \/ pc[c] \in {"upsert", "refresh"} => Host[c] \in connected
        /\ pc[c] = "upsert" => mine[c] = 0
        /\ pc[c] \in {"apply", "done"} /\ mine[c] # 0 /\ read[c] # Failed => read[c] >= mine[c]
        /\ pc[c] = "done" /\ mine[c] # 0 /\ read[c] # Failed => got[c] >= mine[c]

Inv == TypeOK /\ PastInv /\ FreshInv /\ OwnInv

\* The facts about Append that the write of a revision rests on.
LEMMA AppendFacts ==
    ASSUME NEW s \in Seq(Nat), NEW t \in Nat
    PROVE  /\ Append(s, t) \in Seq(Nat)
           /\ Len(s) \in Nat
           /\ Len(Append(s, t)) = Len(s) + 1
           /\ Append(s, t)[Len(s) + 1] = t
           /\ \A i \in 1..Len(s) : Append(s, t)[i] = s[i] /\ s[i] \in Nat
  OBVIOUS

\* Initially nothing is cached and no coroutine runs.
LEMMA InitInv == Init => Inv
  BY SettingsAssumption
  DEF Init, Inv, TypeOK, PastInv, FreshInv, OwnInv, Fresh, Rev, None, Failed, Default

\* The settings are typed: a process caches a configuration or nothing, and
\* get_config always has one to return.
LEMMA TypeStep == TypeOK /\ OwnInv /\ [Next]_vars => TypeOK'
<1> SUFFICES ASSUME TypeOK, OwnInv, [Next]_vars PROVE TypeOK'
  OBVIOUS
<1> USE SettingsAssumption DEF None, Failed, Default
<1>0. Rev \in Nat
  BY DEF TypeOK, Rev
<1>1. CASE Tick
  BY <1>1 DEF TypeOK, Tick, proc, call
<1>2. CASE \E p \in Processes : Connect(p)
  BY <1>2 DEF TypeOK, Connect, proc, call
<1>3. ASSUME NEW c \in Calls, NEW f \in BOOLEAN, GetConfig(c, f), UNCHANGED mine PROVE TypeOK'
  <2>1. CachedOr(Host[c], Default) \in Nat
    BY DEF TypeOK, CachedOr
  <2>2. now' \in [Calls -> Nat] /\ got' \in [Calls -> Nat]
    <3>1. now' = [now EXCEPT ![c] = clock]
      BY <1>3 DEF GetConfig
    <3>2. got' = got \/ got' = [got EXCEPT ![c] = CachedOr(Host[c], Default)]
      BY <1>3 DEF GetConfig
    <3>3. clock \in Nat /\ now \in [Calls -> Nat] /\ got \in [Calls -> Nat]
      BY DEF TypeOK
    <3> QED
      BY <2>1, <3>1, <3>2, <3>3
  <2>3. UNCHANGED <<world, proc, read, mine>>
    BY <1>3 DEF GetConfig
  <2>4. \E x \in {"done", "select"} : pc' = [pc EXCEPT ![c] = x]
    BY <1>3 DEF GetConfig
  <2> QED
    BY <2>2, <2>3, <2>4 DEF TypeOK, world, proc
<1>4. ASSUME NEW c \in Calls, Update(c) PROVE TypeOK'
  BY <1>4 DEF TypeOK, Update, world, proc
<1>5. ASSUME NEW c \in Calls, Upsert(c) PROVE TypeOK'
  <2>1. born' \in {born, Append(born, clock)}
    BY <1>5 DEF Upsert
  <2>2. born' \in Seq(Nat)
    BY <2>1, AppendFacts DEF TypeOK
  <2>3. mine' \in [Calls -> Nat]
    <3>1. mine' = mine \/ mine' = [mine EXCEPT ![c] = Rev + 1]
      BY <1>5 DEF Upsert
    <3>2. Rev + 1 \in Nat
      BY <1>0
    <3> QED
      BY <3>1, <3>2 DEF TypeOK
  <2>4. pc' \in [Calls -> {"idle", "upsert", "refresh", "select", "apply", "done"}]
    BY <1>5 DEF TypeOK, Upsert
  <2> QED
    BY <1>5, <2>2, <2>3, <2>4 DEF TypeOK, Upsert, proc
<1>6. ASSUME NEW c \in Calls, Select(c) PROVE TypeOK'
  BY <1>6, <1>0 DEF TypeOK, Select, world, proc
<1>7. ASSUME NEW c \in Calls, Apply(c) PROVE TypeOK'
  BY <1>7 DEF TypeOK, OwnInv, Apply, CachedOr, world
<1>8. ASSUME NEW c \in Calls, Return(c) PROVE TypeOK'
  BY <1>8 DEF TypeOK, Return, world, proc
<1>9. CASE UNCHANGED vars
  BY <1>9 DEF TypeOK, vars, world, proc, call
<1> QED
  BY <1>1, <1>2, <1>3, <1>4, <1>5, <1>6, <1>7, <1>8, <1>9 DEF Next, Get, Refresh

\* Stamps and configurations stay in the past: the clock and the row only move
\* forward.
LEMMA PastStep == Inv /\ [Next]_vars => PastInv'
<1> SUFFICES ASSUME Inv, [Next]_vars PROVE PastInv'
  OBVIOUS
<1> USE SettingsAssumption DEF None, Failed, Default, Inv
<1>0. Rev \in Nat
  BY DEF TypeOK, Rev
<1>1. CASE Tick
  BY <1>1 DEF TypeOK, PastInv, Tick, Rev, proc, call
<1>2. CASE \E p \in Processes : Connect(p)
  BY <1>2 DEF TypeOK, PastInv, Connect, Rev, proc, call
<1>3. ASSUME NEW c \in Calls, NEW f \in BOOLEAN, GetConfig(c, f), UNCHANGED mine PROVE PastInv'
  BY <1>3 DEF TypeOK, PastInv, GetConfig, Rev, world, proc
<1>4. ASSUME NEW c \in Calls, Update(c) PROVE PastInv'
  BY <1>4 DEF TypeOK, PastInv, Update, Rev, world, proc
<1>5. ASSUME NEW c \in Calls, Upsert(c) PROVE PastInv'
  <2>1. born' \in {born, Append(born, clock)} /\ (mine' # mine => born' = Append(born, clock))
    BY <1>5 DEF Upsert
  <2>2. Rev' \in {Rev, Rev + 1} /\ (mine' # mine => Rev' = Rev + 1)
    BY <2>1, AppendFacts DEF TypeOK, Rev
  <2>3. mine' = mine \/ mine' = [mine EXCEPT ![c] = Rev + 1]
    BY <1>5 DEF Upsert
  <2>4. ASSUME NEW x \in Calls PROVE mine'[x] <= Rev'
    <3>1. mine[x] \in Nat /\ mine[x] <= Rev /\ mine \in [Calls -> Nat]
      BY DEF TypeOK, PastInv
    <3>2. CASE mine' = mine
      BY <1>0, <2>2, <3>1, <3>2
    <3>3. CASE mine' # mine
      <4>1. mine'[x] = mine[x] \/ mine'[x] = Rev + 1
        BY <2>3, <3>1, <3>3
      <4>2. Rev' = Rev + 1
        BY <2>2, <3>3
      <4> QED
        BY <1>0, <3>1, <4>1, <4>2
    <3> QED
      BY <3>2, <3>3
  <2>5. UNCHANGED <<clock, cache, cacheAt, now, read>>
    BY <1>5 DEF Upsert, proc
  <2>6. ASSUME NEW r \in Int, r <= Rev PROVE r <= Rev'
    BY <1>0, <2>2, <2>6
  <2>7. /\ \A p \in Processes : cacheAt[p] <= clock /\ cache[p] <= Rev'
        /\ \A x \in Calls : now[x] <= clock /\ read[x] <= Rev'
    <3>1. ASSUME NEW p \in Processes PROVE cache[p] \in Int
      BY DEF TypeOK
    <3>2. ASSUME NEW x \in Calls PROVE read[x] \in Int
      <4>1. read[x] \in Nat \cup {None, Failed}
        BY DEF TypeOK
      <4> QED
        BY <4>1
    <3> QED
      BY <2>6, <3>1, <3>2 DEF PastInv
  <2> QED
    BY <2>4, <2>5, <2>7 DEF PastInv
<1>6. ASSUME NEW c \in Calls, Select(c) PROVE PastInv'
  <2>1. UNCHANGED <<clock, cache, cacheAt, now, mine>> /\ Rev' = Rev
    BY <1>6 DEF Select, Rev, world, proc
  <2>2. \A x \in Calls : read'[x] \in {read[x], Rev, Failed}
    BY <1>6 DEF TypeOK, Select
  <2> QED
    <3>1. \A x \in Calls : read'[x] <= Rev
      BY <1>0, <2>2 DEF PastInv
    <3> QED
      BY <2>1, <3>1 DEF PastInv
<1>7. ASSUME NEW c \in Calls, Apply(c) PROVE PastInv'
  BY <1>7, <1>0 DEF TypeOK, PastInv, Apply, CachedOr, Rev, world
<1>8. ASSUME NEW c \in Calls, Return(c) PROVE PastInv'
  BY <1>8, <1>0 DEF TypeOK, PastInv, Return, Rev, world, proc
<1>9. CASE UNCHANGED vars
  BY <1>9 DEF PastInv, Rev, vars, world, proc, call
<1> QED
  BY <1>1, <1>2, <1>3, <1>4, <1>5, <1>6, <1>7, <1>8, <1>9 DEF Next, Get, Refresh

\* A fresh pair stays fresh when a revision is written, for it is written later.
LEMMA FreshAfterWrite ==
    ASSUME TypeOK, NEW r \in Int, NEW t \in Nat, t <= clock, Fresh(r, t), born' = Append(born, clock)
    PROVE  Fresh(r, t)'
<1>1. /\ Len(born) \in Nat /\ Len(born') = Len(born) + 1
      /\ born'[Len(born) + 1] = clock
      /\ \A i \in 1..Len(born) : born'[i] = born[i]
  BY AppendFacts DEF TypeOK
<1>2. CASE r = Len(born)
  BY <1>1, <1>2 DEF Fresh, Rev
<1>3. CASE r < Len(born)
  <2>1. r + 1 \in 1..Len(born)
    BY <1>1, <1>3 DEF Fresh, Rev
  <2> QED
    BY <1>1, <1>3, <2>1 DEF Fresh, Rev
<1> QED
  BY <1>1, <1>2, <1>3 DEF Fresh, Rev

\* Every step keeps the cached and the carried pairs fresh.
LEMMA FreshStep == Inv /\ [Next]_vars => FreshInv'
<1> SUFFICES ASSUME Inv, [Next]_vars PROVE FreshInv'
  OBVIOUS
<1> USE SettingsAssumption DEF None, Failed, Default, Inv
<1>0. Rev \in Nat
  BY DEF TypeOK, Rev
<1>1. CASE Tick
  BY <1>1 DEF FreshInv, Fresh, Tick, Rev, proc, call
<1>2. CASE \E p \in Processes : Connect(p)
  BY <1>2 DEF FreshInv, Fresh, Connect, Rev, proc, call
<1>3. ASSUME NEW c \in Calls, NEW f \in BOOLEAN, GetConfig(c, f), UNCHANGED mine,
             pc[c] \in {"idle", "refresh"}
      PROVE  FreshInv'
  BY <1>3 DEF TypeOK, FreshInv, Fresh, OwnInv, GetConfig, Rev, world, proc
<1>4. ASSUME NEW c \in Calls, Update(c) PROVE FreshInv'
  BY <1>4 DEF FreshInv, Fresh, Update, Rev, world, proc
<1>5. ASSUME NEW c \in Calls, Upsert(c) PROVE FreshInv'
  <2>1. CASE UNCHANGED born
    BY <1>5, <2>1 DEF FreshInv, Fresh, Upsert, Rev, proc
  <2>2. CASE born' = Append(born, clock)
    <3>1. \A p \in Processes \ renewed : cache[p] # None => Fresh(cache[p], cacheAt[p])'
      <4> SUFFICES ASSUME NEW p \in Processes \ renewed, cache[p] # None
                   PROVE  Fresh(cache[p], cacheAt[p])'
        BY <1>5 DEF Upsert, proc
      <4>1. cache[p] \in Int /\ cacheAt[p] \in Nat /\ cacheAt[p] <= clock /\ Fresh(cache[p], cacheAt[p])
        BY DEF TypeOK, PastInv, FreshInv
      <4>2. UNCHANGED <<cache, cacheAt>>
        BY <1>5 DEF Upsert, proc
      <4> QED
        BY <2>2, <4>1, <4>2, FreshAfterWrite DEF Fresh
    <3>2. \A x \in Calls : read[x] \notin {None, Failed} => Fresh(read[x], now[x])'
      <4> SUFFICES ASSUME NEW x \in Calls, read[x] \notin {None, Failed}
                   PROVE  Fresh(read[x], now[x])'
        BY <1>5 DEF Upsert
      <4>1. read[x] \in Int /\ now[x] \in Nat /\ now[x] <= clock /\ Fresh(read[x], now[x])
        BY DEF TypeOK, PastInv, FreshInv
      <4>2. UNCHANGED <<read, now>>
        BY <1>5 DEF Upsert
      <4> QED
        BY <2>2, <4>1, <4>2, FreshAfterWrite DEF Fresh
    <3> QED
      BY <1>5, <3>1, <3>2 DEF FreshInv, Upsert, proc
  <2> QED
    BY <1>5, <2>1, <2>2 DEF Upsert
<1>6. ASSUME NEW c \in Calls, Select(c) PROVE FreshInv'
  <2>1. UNCHANGED <<born, cache, cacheAt, renewed, now>> /\ Rev' = Rev
    BY <1>6 DEF Select, Rev, world, proc
  <2>2. \A x \in Calls : read'[x] \in {read[x], Rev, Failed}
    BY <1>6 DEF TypeOK, Select
  <2> QED
    BY <1>0, <2>1, <2>2 DEF FreshInv, Fresh
<1>7. ASSUME NEW c \in Calls, Apply(c) PROVE FreshInv'
  BY <1>7, <1>0 DEF TypeOK, FreshInv, Fresh, OwnInv, Apply, CachedOr, Rev, world
<1>8. ASSUME NEW c \in Calls, Return(c) PROVE FreshInv'
  BY <1>8 DEF TypeOK, FreshInv, Fresh, Return, Rev, world, proc
<1>9. CASE UNCHANGED vars
  BY <1>9 DEF FreshInv, Fresh, Rev, vars, world, proc, call
<1> QED
  BY <1>1, <1>2, <1>3, <1>4, <1>5, <1>6, <1>7, <1>8, <1>9 DEF Next, Get, Refresh

\* Every step keeps an update's read behind its write.
LEMMA OwnStep == Inv /\ [Next]_vars => OwnInv'
<1> SUFFICES ASSUME Inv, [Next]_vars PROVE OwnInv'
  OBVIOUS
<1> USE SettingsAssumption DEF None, Failed, Default, Inv
<1>0. Rev \in Nat
  BY DEF TypeOK, Rev
<1>1. CASE Tick
  BY <1>1 DEF OwnInv, Tick, proc, call
<1>2. CASE \E p \in Processes : Connect(p)
  BY <1>2 DEF OwnInv, Connect, proc, call
<1>3. ASSUME NEW c \in Calls, NEW f \in BOOLEAN, GetConfig(c, f), UNCHANGED mine,
             pc[c] = "idle" \/ (pc[c] = "refresh" /\ f)
      PROVE  OwnInv'
  BY <1>3 DEF TypeOK, OwnInv, GetConfig, world, proc
<1>4. ASSUME NEW c \in Calls, Update(c) PROVE OwnInv'
  BY <1>4 DEF TypeOK, OwnInv, Update, world, proc
<1>5. ASSUME NEW c \in Calls, Upsert(c) PROVE OwnInv'
  BY <1>5, <1>0 DEF TypeOK, OwnInv, Upsert, proc
<1>6. ASSUME NEW c \in Calls, Select(c) PROVE OwnInv'
  BY <1>6, <1>0 DEF TypeOK, PastInv, OwnInv, Select, world, proc
<1>7. ASSUME NEW c \in Calls, Apply(c) PROVE OwnInv'
  BY <1>7 DEF TypeOK, OwnInv, Apply, CachedOr, world
<1>8. ASSUME NEW c \in Calls, Return(c) PROVE OwnInv'
  BY <1>8 DEF TypeOK, OwnInv, Return, world, proc
<1>9. CASE UNCHANGED vars
  BY <1>9 DEF OwnInv, vars, world, proc, call
<1> QED
  BY <1>1, <1>2, <1>3, <1>4, <1>5, <1>6, <1>7, <1>8, <1>9 DEF Next, Get, Refresh

\* The inductive invariant holds in every reachable state.
LEMMA Invariant == Spec => []Inv
<1>1. Inv /\ [Next]_vars => Inv'
  BY TypeStep, PastStep, FreshStep, OwnStep DEF Inv
<1> QED
  BY <1>1, InitInv, PTL DEF Spec

\* A hit of get_config's in-process cache is at most TTL behind the row, in
\* every process whose last read succeeded: the stamp is taken before the read.
THEOREM StalenessBounded == Spec => []BoundedStaleness
<1>1. Inv => BoundedStaleness
  <2> SUFFICES ASSUME Inv, NEW p \in Processes \ renewed, Servable(p) PROVE Recent(cache[p])
    BY DEF BoundedStaleness
  <2>1. Fresh(cache[p], cacheAt[p]) /\ Rev \in Nat
    BY DEF Inv, TypeOK, FreshInv, Servable, Rev
  <2>2. CASE cache[p] < Rev
    <3>1. cache[p] + 1 \in 1..Rev /\ born[cache[p] + 1] \in Nat
      BY <2>1, <2>2 DEF Inv, TypeOK, Fresh, Rev
    <3> QED
      BY <2>1, <2>2, <3>1, SettingsAssumption DEF Inv, TypeOK, Fresh, Servable, Recent
  <2> QED
    BY <2>1, <2>2 DEF Fresh, Recent
<1> QED
  BY <1>1, Invariant, PTL

\* update_config returns a configuration that includes its own write whenever
\* its read succeeded, whatever other coroutines store in the shared cache.
THEOREM UpdateIsSeen == Spec => []UpdateSeesOwnWrite
<1>1. Inv => UpdateSeesOwnWrite
  BY DEF Inv, OwnInv, UpdateSeesOwnWrite
<1> QED
  BY <1>1, Invariant, PTL

\* The variables of the settings store keep their types: in particular every
\* call of get_config ends with a configuration to return.
THEOREM SettingsTypeCorrect == Spec => []TypeOK
<1>1. Inv => TypeOK
  BY DEF Inv
<1> QED
  BY <1>1, Invariant, PTL
=============================================================================
