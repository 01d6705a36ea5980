-------------------------- MODULE RagCachesProofs --------------------------
(***************************************************************************)
(* Proofs about RagCaches, for any number of requests, users (a user named *)
(* "public" too), queries and documents, and with or without failing       *)
(* Redis, search and index calls. Neither ScopeSafe nor MaskedOnlyByRace   *)
(* is inductive: an answer is only as good as the entry it was read from,  *)
(* and the entry as the search behind it. The invariant follows the data   *)
(* along that way: whatever a request holds is complete up to the present  *)
(* version but for the bumps its past could not see, and whatever a cache  *)
(* stores is complete up to the version of its key.                        *)
(***************************************************************************)
EXTENDS RagCaches, TLAPS

\* Documents D with past h may be in scope s.
Shown(s, D, h) == s = "public" /\ D \cap Private # {} => h.shared

\* Documents D with past h hold what is due in scope s at version v, but for lost
\* feeds and unseen bumps (b: bumped, i: index).
Complete(b, i, s, v, D, h) ==
    D # {} => \A d \in Docs :
        b[d] \in 1..v /\ (d \in Private => s # "public") /\ d \in i => d \in D \cup h.unseen

CorpusInv == \A d \in Docs :
    /\ bumped[d] <= ver
    /\ bumped[d] >= 1 => stage[d] = "done"
    /\ stage[d] = "fed" \/ bumped[d] >= 1 => d \in rows
EntryInv(e) ==
    /\ e.key.ver <= ver
    /\ Shown(e.key.scope, e.docs, e.past)
    /\ Complete(bumped, index, e.key.scope, e.key.ver, e.docs, e.past)
CacheInv == \A e \in rcache \cup acache : EntryInv(e)
KeyInv(p) ==
    pc[p] \in {"answerGet", "queryGet", "querySet", "answerSet"} =>
        /\ key[p].scope = Scope(req[p].user)
        /\ key[p].ver <= ver
        /\ ~erred[p] => \A d \in Docs : bumped[d] > key[p].ver => d \in past[p].unseen
HeldInv(p, D) ==
    /\ Shown(Scope(req[p].user), D, past[p])
    /\ Complete(bumped, index, Scope(req[p].user), ver, D, past[p])
TurnInv(p) ==
    /\ KeyInv(p)
    /\ pc[p] \notin {"querySetVer", "querySet"} => found[p] = {}
    /\ pc[p] = "idle" => got[p] = {}
    /\ HeldInv(p, found[p])
    /\ HeldInv(p, got[p])
    /\ began[p] <= ver
Inv == TypeOK /\ CorpusInv /\ CacheInv /\ \A p \in Requests : TurnInv(p)

-----------------------------------------------------------------------------
(* The values *)

\* The default request, key and past are of their types.
LEMMA Defaults == NoRequest \in Request /\ NoKey \in Key /\ NoPast \in Past
<1>1. \E r \in Request : TRUE
  <2>1. PICK q \in Queries : TRUE
    BY CachesAssumption
  <2>2. [user |-> Anonymous, query |-> q, admin |-> FALSE] \in Request
    BY DEF Request
  <2>. QED BY <2>2
<1>2. NoRequest \in Request
  BY <1>1 DEF NoRequest
<1>. QED BY <1>2 DEF Request, NoKey, Key, NoPast, Past

\* A scope is a user id or "public", and "public" only for anonymous callers and for
\* the user of that name.
LEMMA ScopeTyped ==
    \A u \in Users \cup {Anonymous} :
        /\ Scope(u) \in Users \cup {"public"}
        /\ Scope(u) = "public" <=> (u = Anonymous \/ u = "public")
BY CachesAssumption DEF Scope

\* Nothing in hand is shown and complete.
LEMMA NothingHeld == \A s, v, b, i, h : Shown(s, {}, h) /\ Complete(b, i, s, v, {}, h)
BY DEF Shown, Complete

\* Completeness lasts if what is newly due is among the unseen bumps.
LEMMA CompleteLasts ==
    ASSUME NEW b, NEW c, NEW i, NEW j, NEW v, NEW w, NEW s, NEW D, NEW h, NEW g,
           h.unseen \subseteq g.unseen,
           \A d \in Docs : c[d] \in 1..w /\ d \in j => (b[d] \in 1..v /\ d \in i) \/ d \in g.unseen,
           Complete(b, i, s, v, D, h)
    PROVE  Complete(c, j, s, w, D, g)
BY DEF Complete

\* The documents of two tool calls together are shown and complete if each is.
LEMMA UnionHeld ==
    ASSUME NEW b, NEW i, NEW s, NEW v, NEW h, NEW D, NEW E,
           Shown(s, D, h), Shown(s, E, h),
           Complete(b, i, s, v, D, h), Complete(b, i, s, v, E, h)
    PROVE  Shown(s, D \cup E, h) /\ Complete(b, i, s, v, D \cup E, h)
BY DEF Shown, Complete

\* A search finds what its caller may be shown, all of it but for lost feeds.
LEMMA SearchHeld ==
    ASSUME NEW u \in Users \cup {Anonymous}, TypeOK, CorpusInv,
           NEW D \in Retrieve(u), D # {}, NEW h, u = "public" => h.shared
    PROVE  /\ D \in SUBSET Docs
           /\ Shown(Scope(u), D, h) /\ Complete(bumped, index, Scope(u), ver, D, h)
<1>1. D = Visible(u, index) \/ D = Visible(u, rows)
  BY DEF Retrieve
<1>2. ASSUME NEW d \in Docs, bumped[d] \in 1..ver, d \in Private => Scope(u) # "public", d \in index
      PROVE  d \in D
  <2>1. d \in rows
    BY <1>2 DEF TypeOK, CorpusInv
  <2>2. u = Anonymous => d \notin Private
    BY <1>2, ScopeTyped
  <2>. QED BY <1>1, <1>2, <2>1, <2>2 DEF Visible
<1>3. u = Anonymous => D \cap Private = {}
  BY <1>1 DEF Visible
<1>4. Shown(Scope(u), D, h)
  BY <1>3, ScopeTyped DEF Shown
<1>5. D \in SUBSET Docs
  BY <1>1 DEF Visible, TypeOK
<1>. QED BY <1>2, <1>4, <1>5 DEF Complete

\* Storing documents under a key keeps a cache typed, with one entry per key, and its
\* entries sound.
LEMMA StoredOK ==
    ASSUME TypeOK, NEW cache \in SUBSET Entry, \A e, f \in cache : e.key = f.key => e = f,
           \A e \in cache : EntryInv(e),
           NEW k \in Key, k.ver <= ver, NEW D \in SUBSET Docs, NEW h \in Past,
           Shown(k.scope, D, h), Complete(bumped, index, k.scope, ver, D, h)
    PROVE  /\ Stored(cache, k, D, h) \in SUBSET Entry
           /\ \A e, f \in Stored(cache, k, D, h) : e.key = f.key => e = f
           /\ \A e \in Stored(cache, k, D, h) : EntryInv(e)
<1>. DEFINE g == [h EXCEPT !.unseen = @ \ D]
            new == [key |-> k, docs |-> D, past |-> g]
<1>1. g \in Past /\ g.unseen = h.unseen \ D /\ g.shared = h.shared
  BY DEF Past
<1>. HIDE DEF g
<1>2. new \in Entry
  BY <1>1 DEF Entry
<1>3. EntryInv(new)
  <2>1. Shown(k.scope, D, g)
    BY <1>1 DEF Shown
  <2>2. Complete(bumped, index, k.scope, k.ver, D, g)
    <3>1. SUFFICES ASSUME NEW d \in Docs, D # {}, bumped[d] \in 1..k.ver,
                          d \in Private => k.scope # "public", d \in index
                   PROVE  d \in D \cup g.unseen
      BY DEF Complete
    <3>2. bumped[d] \in 1..ver
      BY <3>1 DEF Key, TypeOK
    <3>3. d \in D \cup h.unseen
      BY <3>1, <3>2 DEF Complete
    <3>. QED BY <1>1, <3>3
  <2>. QED BY <2>1, <2>2 DEF EntryInv
<1>4. new.key = k
  OBVIOUS
<1>. HIDE DEF new
<1>5. Stored(cache, k, D, h) = {e \in cache : e.key # k} \cup {new}
  BY DEF Stored, Without, new, g
<1>. QED BY <1>2, <1>3, <1>4, <1>5

-----------------------------------------------------------------------------
(* The steps *)

\* The initial state satisfies the invariant.
LEMMA InitInv == Init => Inv
<1>. SUFFICES ASSUME Init PROVE Inv
  OBVIOUS
<1>1. TypeOK
  BY Defaults, CachesAssumption DEF Init, TypeOK, TurnPc, Request, Stage
<1>2. CorpusInv /\ CacheInv
  BY DEF Init, CorpusInv, CacheInv
<1>3. \A p \in Requests : TurnInv(p)
  BY NothingHeld DEF Init, TurnInv, KeyInv, HeldInv
<1>. QED BY <1>1, <1>2, <1>3 DEF Inv

\* A step on the corpus keeps the invariant if whatever it makes due was so before or
\* is bumped for only now, unseen by the turns under way.
LEMMA CorpusFrame ==
    ASSUME Inv, CorpusInv', UNCHANGED <<rcache, acache, pc, req, tool, key, erred, found, got, began>>,
           rows' \subseteq Docs, index' \subseteq Docs, stage' \in [Docs -> Stage],
           ver' \in Nat, bumped' \in [Docs -> Nat], ver <= ver', past' \in [Requests -> Past],
           \A d \in Docs : bumped'[d] > 0 =>
               \/ bumped'[d] = bumped[d] /\ (d \in index' => d \in index)
               \/ /\ bumped'[d] > ver
                  /\ \A p \in Requests : pc[p] # "idle" => d \in past'[p].unseen,
           \A p \in Requests : /\ past[p].unseen \subseteq past'[p].unseen
                              /\ past'[p].shared = past[p].shared
    PROVE  Inv'
<1>1. TypeOK'
  BY DEF Inv, TypeOK
<1>0. /\ TypeOK /\ ver \in Nat /\ bumped \in [Docs -> Nat]
  BY DEF Inv, TypeOK
<1>2. CacheInv'
  <2>. SUFFICES ASSUME NEW e \in rcache \cup acache PROVE EntryInv(e)'
    BY DEF CacheInv
  <2>1. EntryInv(e) /\ e.key.ver \in Nat
    BY DEF Inv, TypeOK, CacheInv, Entry, Key
  <2>2. \A d \in Docs : bumped'[d] \in 1..e.key.ver /\ d \in index' =>
            (bumped[d] \in 1..e.key.ver /\ d \in index)
    <3>. SUFFICES ASSUME NEW d \in Docs, bumped'[d] \in 1..e.key.ver, d \in index'
                  PROVE  bumped[d] \in 1..e.key.ver /\ d \in index
      OBVIOUS
    <3>1. bumped'[d] > 0 /\ ~(bumped'[d] > ver)
      BY <1>0, <2>1 DEF EntryInv
    <3>. QED BY <3>1
  <2>3. Complete(bumped', index', e.key.scope, e.key.ver, e.docs, e.past)
    BY <2>1, <2>2, CompleteLasts DEF EntryInv
  <2>4. e.key.ver <= ver'
    BY <1>0, <2>1 DEF EntryInv
  <2>. QED BY <2>1, <2>3, <2>4 DEF EntryInv
<1>3. ASSUME NEW p \in Requests PROVE TurnInv(p)'
  <2>1. TurnInv(p) /\ key[p].ver \in Nat /\ began[p] \in Nat
    BY DEF Inv, TypeOK, Key
  <2>2. pc[p] = "idle" => found[p] = {} /\ got[p] = {}
    BY <2>1 DEF TurnInv
  <2>3. \A D : Shown(Scope(req[p].user), D, past[p]) => Shown(Scope(req[p].user), D, past'[p])
    BY DEF Shown
  <2>4. ASSUME pc[p] # "idle", NEW D, Complete(bumped, index, Scope(req[p].user), ver, D, past[p])
        PROVE  Complete(bumped', index', Scope(req[p].user), ver', D, past'[p])
    <3>1. \A d \in Docs : bumped'[d] \in 1..ver' /\ d \in index' =>
              (bumped[d] \in 1..ver /\ d \in index) \/ d \in past'[p].unseen
      <4>. SUFFICES ASSUME NEW d \in Docs, bumped'[d] \in 1..ver', d \in index', d \notin past'[p].unseen
                    PROVE  bumped[d] \in 1..ver /\ d \in index
        OBVIOUS
      <4>1. bumped'[d] > 0 /\ bumped'[d] = bumped[d] /\ d \in index
        BY <2>4
      <4>2. bumped[d] <= ver
        BY DEF Inv, CorpusInv
      <4>. QED BY <1>0, <4>1, <4>2
    <3>. QED BY <2>4, <3>1, CompleteLasts
  <2>5. HeldInv(p, found[p])' /\ HeldInv(p, got[p])'
    <3>1. CASE pc[p] = "idle"
      BY <2>2, <3>1 DEF HeldInv, Shown, Complete
    <3>2. CASE pc[p] # "idle"
      BY <2>1, <2>3, <2>4, <3>2 DEF HeldInv, TurnInv
    <3>. QED BY <3>1, <3>2
  <2>6. KeyInv(p)'
    <3>. SUFFICES ASSUME pc[p] \in {"answerGet", "queryGet", "querySet", "answerSet"}
                  PROVE  /\ key[p].scope = Scope(req[p].user) /\ key[p].ver <= ver'
                         /\ ~erred[p] => \A d \in Docs : bumped'[d] > key[p].ver => d \in past'[p].unseen
      BY DEF KeyInv
    <3>1. key[p].scope = Scope(req[p].user) /\ key[p].ver <= ver'
      BY <1>0, <2>1 DEF TurnInv, KeyInv
    <3>2. ASSUME ~erred[p], NEW d \in Docs, bumped'[d] > key[p].ver PROVE d \in past'[p].unseen
      <4>1. bumped'[d] > 0
        BY <2>1, <3>2
      <4>2. CASE bumped'[d] = bumped[d]
        BY <2>1, <3>2, <4>2 DEF TurnInv, KeyInv
      <4>3. CASE bumped'[d] > ver /\ \A q \in Requests : pc[q] # "idle" => d \in past'[q].unseen
        BY <4>3
      <4>. QED BY <4>1, <4>2, <4>3
    <3>. QED BY <3>1, <3>2
  <2>7. began[p] <= ver'
    BY <1>0, <2>1 DEF TurnInv
  <2>. QED BY <2>1, <2>5, <2>6, <2>7 DEF TurnInv
<1>. QED BY <1>1, <1>2, <1>3 DEF Inv

\* The actions on the corpus keep the invariant.
LEMMA CorpusStep ==
    ASSUME Inv, NEW d \in Docs, Feed(d) \/ Bump(d) \/ Remove(d)
    PROVE  Inv'
<1>0. UNCHANGED <<rcache, acache, pc, req, tool, key, erred, found, got, began>>
  BY DEF Feed, Bump, Remove, turn
<1>1. CASE Feed(d)
  <2>1. CorpusInv'
    BY <1>1 DEF Feed, Inv, TypeOK, CorpusInv
  <2>2. /\ rows' \subseteq Docs /\ index' \subseteq Docs /\ stage' \in [Docs -> Stage]
        /\ ver' \in Nat /\ bumped' \in [Docs -> Nat] /\ ver <= ver'
    BY <1>1 DEF Feed, Inv, TypeOK, Stage
  <2>3. \A x \in Docs : bumped'[x] > 0 => bumped'[x] = bumped[x] /\ (x \in index' => x \in index)
    <3>1. ~(bumped[d] >= 1) /\ bumped' = bumped /\ index' \subseteq index \cup {d}
      BY <1>1 DEF Feed, Inv, CorpusInv
    <3>. QED BY <3>1 DEF Inv, TypeOK
  <2>4. past' = past /\ past' \in [Requests -> Past]
    BY <1>1 DEF Feed, turn, Inv, TypeOK
  <2>. QED BY <1>0, <2>1, <2>2, <2>3, <2>4, CorpusFrame
<1>2. CASE Bump(d)
  <2>0. d \in rows
    BY <1>2 DEF Bump, Inv, CorpusInv
  <2>1. CorpusInv'
    BY <1>2, <2>0 DEF Bump, Inv, TypeOK, CorpusInv
  <2>2. /\ rows' \subseteq Docs /\ index' \subseteq Docs /\ stage' \in [Docs -> Stage]
        /\ ver' \in Nat /\ bumped' \in [Docs -> Nat] /\ ver <= ver'
    BY <1>2 DEF Bump, Inv, TypeOK, Stage
  <2>3. CASE UNCHANGED <<ver, bumped, past>>
    <3>1. index' = index /\ past' \in [Requests -> Past]
      BY <1>2, <2>3 DEF Bump, Inv, TypeOK
    <3>. QED BY <1>0, <2>1, <2>2, <2>3, <3>1, CorpusFrame
  <2>4. CASE ver' = ver + 1 /\ bumped' = [bumped EXCEPT ![d] = ver + 1] /\ Raced(d)
    <3>1. ASSUME NEW q \in Requests
          PROVE  /\ past'[q] \in Past /\ past[q].unseen \subseteq past'[q].unseen
                 /\ past'[q].shared = past[q].shared
                 /\ pc[q] # "idle" => d \in past'[q].unseen
      <4>1. past[q] \in Past
        BY DEF Inv, TypeOK
      <4>2. past'[q] = IF pc[q] = "idle" THEN past[q] ELSE [past[q] EXCEPT !.unseen = @ \cup {d}]
        BY <2>4 DEF Raced
      <4>. QED BY <4>1, <4>2 DEF Past
    <3>2. past' \in [Requests -> Past]
      BY <2>4, <3>1 DEF Raced
    <3>3. \A x \in Docs : bumped'[x] > 0 =>
              \/ bumped'[x] = bumped[x] /\ (x \in index' => x \in index)
              \/ bumped'[x] > ver /\ \A q \in Requests : pc[q] # "idle" => x \in past'[q].unseen
      <4>. SUFFICES ASSUME NEW x \in Docs
                    PROVE  \/ bumped'[x] = bumped[x] /\ (x \in index' => x \in index)
                           \/ bumped'[x] > ver /\ \A q \in Requests : pc[q] # "idle" => x \in past'[q].unseen
        OBVIOUS
      <4>1. index' = index /\ ver \in Nat /\ bumped \in [Docs -> Nat]
        BY <1>2 DEF Bump, Inv, TypeOK
      <4>2. CASE x = d
        BY <2>4, <3>1, <4>1, <4>2
      <4>3. CASE x # d
        BY <2>4, <4>1, <4>3
      <4>. QED BY <4>2, <4>3
    <3>. QED BY <1>0, <2>1, <2>2, <3>1, <3>2, <3>3, CorpusFrame
  <2>. QED BY <1>2, <2>3, <2>4 DEF Bump
<1>3. CASE Remove(d)
  <2>1. CorpusInv'
    BY <1>3 DEF Remove, Inv, TypeOK, CorpusInv
  <2>2. /\ rows' \subseteq Docs /\ index' \subseteq Docs /\ stage' \in [Docs -> Stage]
        /\ ver' \in Nat /\ bumped' \in [Docs -> Nat] /\ ver <= ver'
    BY <1>3 DEF Remove, Inv, TypeOK, Stage
  <2>3. \A x \in Docs : bumped'[x] > 0 => bumped'[x] = bumped[x] /\ (x \in index' => x \in index)
    BY <1>3 DEF Remove, Inv, TypeOK
  <2>4. past' = past /\ past' \in [Requests -> Past]
    BY <1>3 DEF Remove, turn, Inv, TypeOK
  <2>. QED BY <1>0, <2>1, <2>2, <2>3, <2>4, CorpusFrame
<1>. QED BY <1>1, <1>2, <1>3

\* An entry whose TTL runs out takes nothing but itself away.
LEMMA ExpireStep ==
    ASSUME Inv, NEW k, ExpireQuery(k) \/ ExpireAnswer(k)
    PROVE  Inv'
<1>1. rcache' \subseteq rcache /\ acache' \subseteq acache /\ UNCHANGED <<corpus, turn>>
  BY DEF ExpireQuery, ExpireAnswer, Without
<1>2. TypeOK' /\ CorpusInv' /\ CacheInv'
  BY <1>1 DEF Inv, TypeOK, CorpusInv, CacheInv, EntryInv, corpus, turn
<1>3. \A p \in Requests : TurnInv(p)'
  BY <1>1 DEF Inv, TurnInv, KeyInv, HeldInv, corpus, turn
<1>. QED BY <1>2, <1>3 DEF Inv

\* The locals of request q do not change.
Same(q) == /\ pc'[q] = pc[q] /\ req'[q] = req[q] /\ key'[q] = key[q] /\ erred'[q] = erred[q]
           /\ found'[q] = found[q] /\ got'[q] = got[q] /\ past'[q] = past[q]
           /\ began'[q] = began[q]

\* A step of request p that leaves the corpus and the other requests alone keeps
\* the invariant if it keeps the types, the caches and p's own part.
LEMMA TurnFrame ==
    ASSUME Inv, NEW p \in Requests, UNCHANGED corpus,
           \A q \in Requests \ {p} : Same(q),
           TypeOK', CacheInv', TurnInv(p)'
    PROVE  Inv'
<1>1. CorpusInv'
  BY DEF Inv, CorpusInv, corpus
<1>2. ASSUME NEW q \in Requests \ {p} PROVE TurnInv(q)'
  BY <1>2 DEF Inv, TurnInv, KeyInv, HeldInv, corpus, Same
<1>. QED BY <1>1, <1>2 DEF Inv

\* What a request knows before its step.
LEMMA Before ==
    ASSUME Inv, NEW p \in Requests
    PROVE  /\ TurnInv(p) /\ TypeOK /\ CorpusInv /\ CacheInv
           /\ ver \in Nat /\ bumped \in [Docs -> Nat]
           /\ req[p] \in Request /\ req[p].user \in Users \cup {Anonymous} /\ req[p].query \in Queries
           /\ key[p] \in Key /\ found[p] \in SUBSET Docs /\ got[p] \in SUBSET Docs
           /\ past[p] \in Past /\ past[p].unseen \in SUBSET Docs /\ past[p].shared \in BOOLEAN
           /\ erred[p] \in BOOLEAN
BY DEF Inv, TypeOK, Request, Past

\* The caches are as before.
LEMMA CachesKept ==
    ASSUME CacheInv, UNCHANGED <<corpus, rcache, acache>>
    PROVE  CacheInv'
BY DEF CacheInv, EntryInv, corpus

\* A request begins with nothing in hand.
LEMMA BeginStep ==
    ASSUME Inv, NEW p \in Requests, Begin(p)
    PROVE  Inv'
<1>. USE Before
<1>1. PICK r \in Request :
         /\ req' = [req EXCEPT ![p] = r]
         /\ pc' = [pc EXCEPT ![p] = IF r.admin THEN "tool" ELSE "answerVer"]
  BY DEF Begin
<1>2. TypeOK'
  BY <1>1 DEF Begin, TypeOK, TurnPc, corpus
<1>3. CacheInv'
  BY CachesKept DEF Begin
<1>4. TurnInv(p)'
  <2>1. pc[p] = "idle" /\ found[p] = {} /\ got[p] = {}
    BY DEF Begin, TurnInv
  <2>2. found'[p] = {} /\ got'[p] = {} /\ began'[p] = ver /\ ver' = ver
    BY <2>1 DEF Begin, corpus, TypeOK
  <2>3. pc'[p] \in {"tool", "answerVer"}
    BY <1>1 DEF TypeOK
  <2>. QED BY <2>2, <2>3, NothingHeld DEF TurnInv, KeyInv, HeldInv
<1>5. UNCHANGED corpus /\ \A q \in Requests \ {p} : Same(q)
  BY <1>1 DEF Begin, Same, TypeOK
<1>. QED BY <1>2, <1>3, <1>4, <1>5, TurnFrame

\* The key of a cache call carries the scope of its request, and the version unless
\* its read failed.
LEMMA ReadVersionStep ==
    ASSUME Inv, NEW p \in Requests, ReadVersion(p)
    PROVE  Inv'
<1>. USE Before
<1>1. PICK v \in {0, ver}, q \in Queries, b \in BOOLEAN :
         /\ key' = [key EXCEPT ![p] = CacheKey(p, v, q)]
         /\ erred' = [erred EXCEPT ![p] = b]
         /\ ~b => v = ver
  BY DEF ReadVersion, TypeOK
<1>2. CacheKey(p, v, q) \in Key
  BY ScopeTyped DEF CacheKey, Key
<1>3. pc' \in [Requests -> TurnPc] /\ erred' \in [Requests -> BOOLEAN]
  BY DEF ReadVersion, TypeOK, TurnPc
<1>4. TypeOK'
  BY <1>1, <1>2, <1>3 DEF ReadVersion, TypeOK, corpus
<1>5. CacheInv'
  BY CachesKept DEF ReadVersion
<1>6. TurnInv(p)'
  <2>1. KeyInv(p)'
    <3>1. /\ key'[p].scope = Scope(req[p].user) /\ key'[p].ver = v /\ erred'[p] = b
          /\ req' = req /\ ver' = ver /\ bumped' = bumped
      BY <1>1 DEF ReadVersion, CacheKey, TypeOK, corpus
    <3>2. v <= ver
      BY <1>1
    <3>3. ~b => \A d \in Docs : ~(bumped[d] > v)
      BY <1>1 DEF CorpusInv
    <3>. QED BY <3>1, <3>2, <3>3 DEF KeyInv
  <2>2. pc'[p] \notin {"querySetVer", "querySet"} => pc[p] \notin {"querySetVer", "querySet"}
    BY DEF ReadVersion, TypeOK
  <2>3. pc'[p] # "idle"
    BY DEF ReadVersion, TypeOK
  <2>. QED BY <2>1, <2>2, <2>3 DEF ReadVersion, TurnInv, HeldInv, corpus
<1>7. UNCHANGED corpus /\ \A x \in Requests \ {p} : Same(x)
  BY <1>1 DEF ReadVersion, Same, TypeOK
<1>. QED BY <1>4, <1>5, <1>6, <1>7, TurnFrame

\* Forgetting the locals of a call keeps their types and touches no other request.
LEMMA ForgetTyped ==
    ASSUME TypeOK, NEW p \in Requests, Forget(p)
    PROVE  /\ key' \in [Requests -> Key] /\ erred' \in [Requests -> BOOLEAN]
           /\ tool' \in [Requests -> Queries] /\ found' \in [Requests -> SUBSET Docs]
           /\ found'[p] = {}
           /\ \A q \in Requests \ {p} : key'[q] = key[q] /\ found'[q] = found[q] /\ erred'[q] = erred[q]
<1>1. NoRequest.query \in Queries
  BY Defaults DEF Request
<1>. QED BY <1>1, Defaults DEF Forget, TypeOK

\* What a hit leaves in the hands of a request: the entry was complete up to the version
\* of the key, and the bumps since are unseen.
LEMMA HitHeld ==
    ASSUME Inv, NEW p \in Requests, NEW e \in rcache \cup acache, e.key = key[p],
           pc[p] \in {"answerGet", "queryGet"}, TakesOver(p, e)
    PROVE  /\ e.docs \in SUBSET Docs
           /\ past' \in [Requests -> Past] /\ \A q \in Requests \ {p} : past'[q] = past[q]
           /\ past[p].unseen \subseteq past'[p].unseen
           /\ past[p].shared => past'[p].shared
           /\ Shown(Scope(req[p].user), e.docs, past'[p])
           /\ Complete(bumped, index, Scope(req[p].user), ver, e.docs, past'[p])
<1>. USE Before
<1>1. /\ e \in Entry /\ EntryInv(e) /\ e.past.unseen \in SUBSET Docs /\ e.past.shared \in BOOLEAN
      /\ e.docs \in SUBSET Docs /\ e.key.ver \in Nat
  BY DEF TypeOK, CacheInv, Entry, Past, Key
<1>2. e.key.scope = Scope(req[p].user) /\ KeyInv(p)
  BY DEF TurnInv, KeyInv
<1>. DEFINE missed == {d \in Docs : erred[p] /\ bumped[d] > 0}
            g == [unseen |-> past[p].unseen \cup e.past.unseen \cup missed,
                  shared |-> past[p].shared \/ e.past.shared]
<1>3. g \in Past
  BY <1>1 DEF Past
<1>4. past' = [past EXCEPT ![p] = g]
  BY DEF TakesOver, TypeOK
<1>5. /\ past' \in [Requests -> Past] /\ past'[p] = g
      /\ \A q \in Requests \ {p} : past'[q] = past[q]
  BY <1>3, <1>4 DEF TypeOK
<1>6. /\ g.unseen = past[p].unseen \cup e.past.unseen \cup missed
      /\ g.shared = (past[p].shared \/ e.past.shared)
  OBVIOUS
<1>. HIDE DEF g
<1>7. Shown(Scope(req[p].user), e.docs, g)
  BY <1>1, <1>2, <1>6 DEF Shown, EntryInv
<1>8. Complete(bumped, index, Scope(req[p].user), ver, e.docs, g)
  <2>1. \A d \in Docs : bumped[d] \in 1..ver /\ d \in index =>
            (bumped[d] \in 1..e.key.ver /\ d \in index) \/ d \in g.unseen
    <3>. SUFFICES ASSUME NEW d \in Docs, bumped[d] \in 1..ver, d \notin g.unseen
                  PROVE  bumped[d] \in 1..e.key.ver
      OBVIOUS
    <3>1. ~erred[p]
      BY <1>6
    <3>2. ~(bumped[d] > e.key.ver)
      BY <1>2, <1>6, <3>1 DEF KeyInv
    <3>. QED BY <1>1, <3>2
  <2>. QED BY <1>1, <1>2, <1>6, <2>1, CompleteLasts DEF EntryInv
<1>. QED BY <1>1, <1>5, <1>6, <1>7, <1>8

\* A tool call that returns documents sound for the caller leaves the request sound.
LEMMA ReturnsOK ==
    ASSUME Inv, NEW p \in Requests, NEW D \in SUBSET Docs, ToolReturns(p, D),
           past' \in [Requests -> Past], \A q \in Requests \ {p} : past'[q] = past[q],
           past[p].unseen \subseteq past'[p].unseen, past[p].shared => past'[p].shared,
           Shown(Scope(req[p].user), D, past'[p]),
           Complete(bumped, index, Scope(req[p].user), ver, D, past'[p]),
           UNCHANGED <<corpus, acache, req, began>>,
           rcache' \in SUBSET Entry, \A e, f \in rcache' : e.key = f.key => e = f, CacheInv'
    PROVE  Inv'
<1>. USE Before
<1>. DEFINE G == got[p] \cup D
<1>1. G \in SUBSET Docs
  OBVIOUS
<1>2. Shown(Scope(req[p].user), G, past'[p]) /\ Complete(bumped, index, Scope(req[p].user), ver, G, past'[p])
  <2>1. Shown(Scope(req[p].user), got[p], past'[p])
    BY DEF TurnInv, HeldInv, Shown
  <2>2. Complete(bumped, index, Scope(req[p].user), ver, got[p], past'[p])
    BY CompleteLasts DEF TurnInv, HeldInv
  <2>. QED BY <2>1, <2>2, UnionHeld
<1>3. got' = [got EXCEPT ![p] = G] /\ Forget(p)
  BY DEF ToolReturns, TypeOK
<1>. HIDE DEF G
<1>4. TypeOK'
  <2>1. pc' \in [Requests -> TurnPc]
    BY DEF ToolReturns, TypeOK, TurnPc
  <2>2. got' \in [Requests -> SUBSET Docs]
    BY <1>1, <1>3 DEF TypeOK
  <2>3. /\ key' \in [Requests -> Key] /\ erred' \in [Requests -> BOOLEAN]
        /\ tool' \in [Requests -> Queries] /\ found' \in [Requests -> SUBSET Docs]
    BY <1>3, ForgetTyped
  <2>. QED BY <2>1, <2>2, <2>3 DEF TypeOK, corpus
<1>5. TurnInv(p)'
  <2>1. /\ pc'[p] = "gate" /\ found'[p] = {} /\ got'[p] = G /\ req' = req
        /\ ver' = ver /\ bumped' = bumped /\ index' = index /\ began' = began
    BY <1>3, ForgetTyped DEF ToolReturns, TypeOK, corpus
  <2>2. HeldInv(p, got[p])'
    BY <1>2, <2>1 DEF HeldInv
  <2>3. HeldInv(p, found[p])'
    BY <2>1 DEF HeldInv, Shown, Complete
  <2>. QED BY <2>1, <2>2, <2>3 DEF TurnInv, KeyInv
<1>6. \A q \in Requests \ {p} : Same(q)
  BY <1>3, ForgetTyped DEF ToolReturns, Same, TypeOK
<1>. QED BY <1>4, <1>5, <1>6, TurnFrame

\* A hit in the answer cache is an answer sound for the caller's scope.
LEMMA AnswerGetStep ==
    ASSUME Inv, NEW p \in Requests, AnswerGet(p)
    PROVE  Inv'
<1>. USE Before
<1>1. Forget(p) /\ UNCHANGED <<corpus, rcache, acache, req, began>>
  BY DEF AnswerGet
<1>2. PICK G \in SUBSET Docs :
         /\ got' = [got EXCEPT ![p] = G]
         /\ past' \in [Requests -> Past] /\ \A q \in Requests \ {p} : past'[q] = past[q]
         /\ Shown(Scope(req[p].user), G, past'[p])
         /\ Complete(bumped, index, Scope(req[p].user), ver, G, past'[p])
         /\ pc' \in {[pc EXCEPT ![p] = "answered"], [pc EXCEPT ![p] = "tool"]}
  <2>1. CASE pc' = [pc EXCEPT ![p] = "tool"] /\ UNCHANGED <<got, past>>
    BY <2>1 DEF TypeOK, TurnInv, HeldInv
  <2>2. ASSUME NEW e \in Hits(acache, key[p]), got' = [got EXCEPT ![p] = e.docs],
               TakesOver(p, e), pc' = [pc EXCEPT ![p] = "answered"]
        PROVE  \E G \in SUBSET Docs :
                  /\ got' = [got EXCEPT ![p] = G]
                  /\ past' \in [Requests -> Past] /\ \A q \in Requests \ {p} : past'[q] = past[q]
                  /\ Shown(Scope(req[p].user), G, past'[p])
                  /\ Complete(bumped, index, Scope(req[p].user), ver, G, past'[p])
    <3>1. e \in rcache \cup acache /\ e.key = key[p] /\ pc[p] \in {"answerGet", "queryGet"}
      BY <2>2 DEF AnswerGet, Hits
    <3>. QED BY <2>2, <3>1, HitHeld
  <2>. QED BY <2>1, <2>2 DEF AnswerGet
<1>3. TypeOK'
  BY <1>1, <1>2, ForgetTyped DEF TypeOK, TurnPc, corpus
<1>4. CacheInv'
  BY <1>1, CachesKept
<1>5. TurnInv(p)'
  <2>1. /\ pc'[p] \in {"answered", "tool"} /\ found'[p] = {} /\ got'[p] = G /\ req' = req
        /\ ver' = ver /\ bumped' = bumped /\ index' = index /\ began' = began
    BY <1>1, <1>2, ForgetTyped DEF TypeOK, corpus
  <2>2. HeldInv(p, got[p])'
    BY <1>2, <2>1 DEF HeldInv
  <2>3. HeldInv(p, found[p])'
    BY <2>1 DEF HeldInv, Shown, Complete
  <2>. QED BY <2>1, <2>2, <2>3 DEF TurnInv, KeyInv
<1>6. \A q \in Requests \ {p} : Same(q)
  BY <1>1, <1>2, ForgetTyped DEF Same, TypeOK
<1>. QED BY <1>1, <1>3, <1>4, <1>5, <1>6, TurnFrame

\* A hit in the retrieval cache is a result sound for the caller's scope.
LEMMA QueryGetStep ==
    ASSUME Inv, NEW p \in Requests, QueryGet(p)
    PROVE  Inv'
<1>. USE Before
<1>1. UNCHANGED <<corpus, rcache, acache, req, began>>
  BY DEF QueryGet
<1>2. CacheInv' /\ rcache' \in SUBSET Entry /\ \A e, f \in rcache' : e.key = f.key => e = f
  BY <1>1, CachesKept DEF TypeOK
<1>3. ASSUME NEW e \in Hits(rcache, key[p]), ToolReturns(p, e.docs), TakesOver(p, e) PROVE Inv'
  <2>1. e \in rcache \cup acache /\ e.key = key[p] /\ pc[p] \in {"answerGet", "queryGet"}
    BY <1>3 DEF QueryGet, Hits
  <2>2. /\ e.docs \in SUBSET Docs
        /\ past' \in [Requests -> Past] /\ \A q \in Requests \ {p} : past'[q] = past[q]
        /\ past[p].unseen \subseteq past'[p].unseen
        /\ past[p].shared => past'[p].shared
        /\ Shown(Scope(req[p].user), e.docs, past'[p])
        /\ Complete(bumped, index, Scope(req[p].user), ver, e.docs, past'[p])
    BY <1>3, <2>1, HitHeld
  <2>. QED BY <1>1, <1>2, <1>3, <2>2, ReturnsOK
<1>4. CASE pc' = [pc EXCEPT ![p] = "search"] /\ UNCHANGED <<tool, key, erred, found, got, past>>
  <2>1. TypeOK'
    BY <1>1, <1>4 DEF TypeOK, TurnPc, corpus
  <2>2. TurnInv(p)'
    <3>1. pc[p] = "queryGet" /\ pc'[p] = "search"
      BY <1>4 DEF QueryGet, TypeOK
    <3>. QED BY <1>1, <1>4, <3>1 DEF TurnInv, KeyInv, HeldInv, corpus
  <2>3. \A q \in Requests \ {p} : Same(q)
    BY <1>1, <1>4 DEF Same, TypeOK
  <2>. QED BY <1>1, <1>2, <2>1, <2>2, <2>3, TurnFrame
<1>. QED BY <1>3, <1>4 DEF QueryGet

\* The agent's tool call names a query.
LEMMA CallToolStep ==
    ASSUME Inv, NEW p \in Requests, CallTool(p)
    PROVE  Inv'
<1>. USE Before
<1>1. TypeOK' /\ CacheInv'
  BY CachesKept DEF CallTool, TypeOK, TurnPc, corpus
<1>2. TurnInv(p)'
  <2>1. pc[p] = "tool" /\ pc'[p] = "queryVer"
    BY DEF CallTool, TypeOK
  <2>. QED BY <2>1 DEF CallTool, TurnInv, KeyInv, HeldInv, corpus
<1>3. UNCHANGED corpus /\ \A q \in Requests \ {p} : Same(q)
  BY DEF CallTool, Same, TypeOK
<1>. QED BY <1>1, <1>2, <1>3, TurnFrame

\* A search leaves sound documents to be stored, or nothing.
LEMMA SearchStep ==
    ASSUME Inv, NEW p \in Requests, Search(p)
    PROVE  Inv'
<1>. USE Before
<1>1. UNCHANGED <<corpus, rcache, acache, req, began>> /\ pc[p] = "search"
  BY DEF Search
<1>2. CacheInv' /\ rcache' \in SUBSET Entry /\ \A e, f \in rcache' : e.key = f.key => e = f
  BY <1>1, CachesKept DEF TypeOK
<1>3. CASE ToolReturns(p, {}) /\ UNCHANGED past
  <2>1. past' \in [Requests -> Past]
    BY <1>3 DEF TypeOK
  <2>. QED BY <1>1, <1>2, <1>3, <2>1, NothingHeld, ReturnsOK
<1>4. ASSUME NEW result \in Retrieve(req[p].user), result # {},
             found' = [found EXCEPT ![p] = result],
             past' = [past EXCEPT ![p].shared = @ \/ req[p].user = "public"],
             pc' = [pc EXCEPT ![p] = "querySetVer"], UNCHANGED <<tool, key, erred, got>>
      PROVE  Inv'
  <2>. DEFINE g == [past[p] EXCEPT !.shared = @ \/ req[p].user = "public"]
  <2>1. g \in Past /\ g.unseen = past[p].unseen /\ g.shared = (past[p].shared \/ req[p].user = "public")
    BY DEF Past
  <2>2. past' = [past EXCEPT ![p] = g]
    BY <1>4 DEF TypeOK
  <2>. HIDE DEF g
  <2>3. /\ result \in SUBSET Docs /\ Shown(Scope(req[p].user), result, g)
        /\ Complete(bumped, index, Scope(req[p].user), ver, result, g)
    BY <1>4, <2>1, SearchHeld
  <2>4. /\ past' \in [Requests -> Past] /\ past'[p] = g
        /\ \A q \in Requests \ {p} : past'[q] = past[q]
    BY <2>1, <2>2 DEF TypeOK
  <2>5. TypeOK'
    BY <1>1, <1>4, <2>3, <2>4 DEF TypeOK, TurnPc, corpus
  <2>6. TurnInv(p)'
    <3>1. /\ pc'[p] = "querySetVer" /\ found'[p] = result /\ got'[p] = got[p] /\ req' = req
          /\ ver' = ver /\ bumped' = bumped /\ index' = index /\ began' = began
      BY <1>1, <1>4 DEF TypeOK, corpus
    <3>2. Shown(Scope(req[p].user), got[p], g)
      BY <2>1 DEF TurnInv, HeldInv, Shown
    <3>3. Complete(bumped, index, Scope(req[p].user), ver, got[p], g)
      BY <2>1 DEF TurnInv, HeldInv, Complete
    <3>. QED BY <2>3, <2>4, <3>1, <3>2, <3>3 DEF TurnInv, KeyInv, HeldInv
  <2>7. \A q \in Requests \ {p} : Same(q)
    BY <1>1, <1>4, <2>4 DEF Same, TypeOK
  <2>. QED BY <1>1, <1>2, <2>5, <2>6, <2>7, TurnFrame
<1>. QED BY <1>3, <1>4 DEF Search

\* What a tool call stores was found in the scope it is stored under, even if the
\* version of the key has moved on since the search.
LEMMA QuerySetStep ==
    ASSUME Inv, NEW p \in Requests, QuerySet(p)
    PROVE  Inv'
<1>. USE Before
<1>1. /\ ToolReturns(p, found[p]) /\ UNCHANGED <<corpus, acache, req, past, began>>
      /\ rcache' \in {Stored(rcache, key[p], found[p], past[p]), rcache}
      /\ key[p].scope = Scope(req[p].user) /\ key[p].ver <= ver
  BY DEF QuerySet, TurnInv, KeyInv
<1>0. /\ Shown(Scope(req[p].user), found[p], past[p])
      /\ Complete(bumped, index, Scope(req[p].user), ver, found[p], past[p])
  BY DEF TurnInv, HeldInv
<1>2. /\ rcache' \in SUBSET Entry /\ \A e, f \in rcache' : e.key = f.key => e = f
      /\ \A e \in rcache' : EntryInv(e)
  <2>1. /\ rcache \in SUBSET Entry /\ \A e, f \in rcache : e.key = f.key => e = f
        /\ \A e \in rcache : EntryInv(e)
    BY DEF TypeOK, CacheInv
  <2>. QED BY <1>0, <1>1, <2>1, StoredOK
<1>3. CacheInv'
  BY <1>1, <1>2 DEF CacheInv, EntryInv, corpus
<1>4. past' \in [Requests -> Past] /\ past' = past
  BY <1>1 DEF TypeOK
<1>. QED BY <1>0, <1>1, <1>2, <1>3, <1>4, ReturnsOK

\* The gates keep the retrieved documents or drop them.
LEMMA GateStep ==
    ASSUME Inv, NEW p \in Requests, Gate(p)
    PROVE  Inv'
<1>. USE Before
<1>1. \/ got' = got /\ past' = past
      \/ got' = [got EXCEPT ![p] = {}] /\ past' = [past EXCEPT ![p] = NoPast]
  BY DEF Gate
<1>2. /\ pc[p] = "gate" /\ pc'[p] \in {"tool", "answered", "answerSetVer"}
      /\ pc' \in [Requests -> TurnPc] /\ \A q \in Requests \ {p} : pc'[q] = pc[q]
  BY DEF Gate, TypeOK, TurnPc
<1>3. UNCHANGED <<corpus, rcache, acache, req, tool, key, erred, found, began>>
  BY DEF Gate
<1>4. TypeOK' /\ CacheInv'
  <2>1. got' \in [Requests -> SUBSET Docs] /\ past' \in [Requests -> Past]
    BY <1>1, Defaults DEF TypeOK
  <2>2. CacheInv'
    BY <1>3, CachesKept
  <2>. QED BY <1>2, <1>3, <2>1, <2>2 DEF TypeOK, corpus
<1>5. TurnInv(p)'
  <2>1. found[p] = {} /\ found' = found /\ req' = req /\ ver' = ver /\ bumped' = bumped
        /\ index' = index /\ began' = began
    BY <1>2, <1>3 DEF TurnInv, corpus
  <2>2. CASE got' = got /\ past' = past
    BY <1>2, <2>1, <2>2, NothingHeld DEF TurnInv, KeyInv, HeldInv
  <2>3. CASE got' = [got EXCEPT ![p] = {}]
    <3>1. got'[p] = {}
      BY <2>3 DEF TypeOK
    <3>2. HeldInv(p, found[p])' /\ HeldInv(p, got[p])'
      BY <2>1, <3>1 DEF HeldInv, Shown, Complete
    <3>. QED BY <1>2, <2>1, <3>1, <3>2 DEF TurnInv, KeyInv
  <2>. QED BY <1>1, <2>2, <2>3
<1>6. \A q \in Requests \ {p} : Same(q)
  BY <1>1, <1>2, <1>3 DEF Same, TypeOK
<1>. QED BY <1>3, <1>4, <1>5, <1>6, TurnFrame

\* What a turn memoizes is sound for the scope it is stored under.
LEMMA AnswerSetStep ==
    ASSUME Inv, NEW p \in Requests, AnswerSet(p)
    PROVE  Inv'
<1>. USE Before
<1>1. /\ Forget(p) /\ pc' = [pc EXCEPT ![p] = "answered"]
      /\ UNCHANGED <<corpus, rcache, req, got, past, began>>
      /\ acache' \in {Stored(acache, key[p], got[p], past[p]), acache}
      /\ key[p].scope = Scope(req[p].user) /\ key[p].ver <= ver
  BY DEF AnswerSet, TurnInv, KeyInv
<1>0. /\ Shown(Scope(req[p].user), got[p], past[p])
      /\ Complete(bumped, index, Scope(req[p].user), ver, got[p], past[p])
  BY DEF TurnInv, HeldInv
<1>2. /\ acache' \in SUBSET Entry /\ \A e, f \in acache' : e.key = f.key => e = f
      /\ \A e \in acache' : EntryInv(e)
  <2>1. /\ acache \in SUBSET Entry /\ \A e, f \in acache : e.key = f.key => e = f
        /\ \A e \in acache : EntryInv(e)
    BY DEF TypeOK, CacheInv
  <2>. QED BY <1>0, <1>1, <2>1, StoredOK
<1>3. CacheInv'
  BY <1>1, <1>2 DEF CacheInv, EntryInv, corpus
<1>4. TypeOK'
  BY <1>1, <1>2, ForgetTyped DEF TypeOK, TurnPc, corpus
<1>5. TurnInv(p)'
  <2>1. /\ pc'[p] = "answered" /\ found'[p] = {} /\ got' = got /\ req' = req /\ past' = past
        /\ ver' = ver /\ bumped' = bumped /\ index' = index /\ began' = began
    BY <1>1, ForgetTyped DEF TypeOK, corpus
  <2>. QED BY <1>0, <2>1, NothingHeld DEF TurnInv, KeyInv, HeldInv
<1>6. \A q \in Requests \ {p} : Same(q)
  BY <1>1, ForgetTyped DEF Same, TypeOK
<1>. QED BY <1>1, <1>3, <1>4, <1>5, <1>6, TurnFrame

\* A finished turn leaves nothing in hand.
LEMMA ReturnStep ==
    ASSUME Inv, NEW p \in Requests, Return(p)
    PROVE  Inv'
<1>. USE Before, Defaults
<1>1. TypeOK' /\ CacheInv'
  BY CachesKept DEF Return, TypeOK, TurnPc, corpus
<1>2. TurnInv(p)'
  <2>1. /\ pc[p] = "answered" /\ pc'[p] = "idle" /\ found'[p] = {} /\ got'[p] = {}
        /\ ver' = ver /\ began'[p] = 0
    BY DEF Return, TypeOK, TurnInv, corpus
  <2>. QED BY <2>1, NothingHeld DEF TurnInv, KeyInv, HeldInv
<1>3. UNCHANGED corpus /\ \A q \in Requests \ {p} : Same(q)
  BY DEF Return, Same, TypeOK
<1>. QED BY <1>1, <1>2, <1>3, TurnFrame

\* The invariant is inductive.
LEMMA Inductive == Inv /\ [Next]_vars => Inv'
<1>. SUFFICES ASSUME Inv, [Next]_vars PROVE Inv'
  OBVIOUS
<1>1. ASSUME NEW p \in Requests, Begin(p) \/ Turn(p) PROVE Inv'
  BY <1>1, BeginStep, ReadVersionStep, AnswerGetStep, CallToolStep, QueryGetStep, SearchStep,
     QuerySetStep, GateStep, AnswerSetStep, ReturnStep DEF Turn
<1>2. ASSUME NEW d \in Docs, Ingest(d) \/ Remove(d) PROVE Inv'
  BY <1>2, CorpusStep DEF Ingest
<1>3. ASSUME NEW k, ExpireQuery(k) \/ ExpireAnswer(k) PROVE Inv'
  BY <1>3, ExpireStep
<1>4. CASE UNCHANGED vars
  <2>1. UNCHANGED <<corpus, rcache, acache, turn>>
    BY <1>4 DEF vars
  <2>2. TypeOK' /\ CorpusInv' /\ CacheInv'
    BY <2>1 DEF Inv, TypeOK, CorpusInv, CacheInv, EntryInv, corpus, turn
  <2>3. \A p \in Requests : TurnInv(p)'
    BY <2>1 DEF Inv, TurnInv, KeyInv, HeldInv, corpus, turn
  <2>. QED BY <2>2, <2>3 DEF Inv
<1>. QED BY <1>1, <1>2, <1>3, <1>4 DEF Next

\* The invariant holds in every reachable state.
LEMMA Invariance == Spec => []Inv
BY InitInv, Inductive, PTL DEF Spec

\* The caches and the turns stay of their types, with one entry per key, over any
\* interleaving of turns, ingests, deletions, expiries and Redis failures.
THEOREM CachesTypeCorrect == Spec => []TypeOK
<1>1. Inv => TypeOK
  BY DEF Inv
<1>. QED BY <1>1, Invariance, PTL

\* Private documents come into the anonymous scope through no search and no cache but
\* one filled by a user named "public", for any number of callers and versions,
\* failed version reads (which fall back to version 0) included.
THEOREM CachesScopeSafe == Spec => []ScopeSafe
<1>1. Inv => ScopeSafe
  <2>. SUFFICES ASSUME Inv PROVE ScopeSafe
    OBVIOUS
  <2>1. \A e \in rcache \cup acache :
            e.key.scope = "public" /\ e.docs \cap Private # {} => e.past.shared
    BY DEF Inv, CacheInv, EntryInv, Shown
  <2>2. ASSUME NEW p \in Requests, req[p].user = Anonymous, (found[p] \cup got[p]) \cap Private # {}
        PROVE  past[p].shared
    <3>1. Scope(req[p].user) = "public"
      BY <2>2 DEF Scope
    <3>2. found[p] \cap Private # {} \/ got[p] \cap Private # {}
      BY <2>2
    <3>. QED BY <3>1, <3>2 DEF Inv, TurnInv, HeldInv, Shown
  <2>. QED BY <2>1, <2>2 DEF ScopeSafe
<1>. QED BY <1>1, Invariance, PTL

\* An answer holds every document that was bumped for before its turn and reached
\* Vespa, whichever caches it came through, unless the bump fell into a turn it
\* goes back to or a version read there failed: the version in the keys works.
THEOREM CachesMaskOnlyRaces == Spec => []MaskedOnlyByRace
<1>1. Inv => MaskedOnlyByRace
  <2>. SUFFICES ASSUME Inv, NEW p \in Requests, got[p] # {},
                       NEW d \in Due(Scope(req[p].user), began[p]) \cap index
                PROVE  d \in got[p] \cup past[p].unseen
    BY DEF MaskedOnlyByRace
  <2>1. bumped[d] \in 1..ver
    BY DEF Inv, TypeOK, TurnInv, Due
  <2>. QED BY <2>1 DEF Inv, TurnInv, HeldInv, Complete, Due
<1>. QED BY <1>1, Invariance, PTL
=============================================================================
