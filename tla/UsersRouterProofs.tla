------------------------- MODULE UsersRouterProofs -------------------------
(***************************************************************************)
(* Proofs about UsersRouter, for any users, roles, permissions, requests   *)
(* and failures: links come out whole, the default role stays, and a name  *)
(* has one row unless two requests raced for it.                           *)
(*                                                                         *)
(* Whole relates the links of a row, what was asked for and what is still  *)
(* to be linked. It holds of a row at rest with nothing left, and of a row *)
(* that one request has to itself with what that request has left to do.   *)
(***************************************************************************)
EXTENDS UsersRouter, TLAPS

-----------------------------------------------------------------------------
(* The inductive invariant *)

\* A row being inserted is not there yet, and no other request works on it.
BirthInv ==
    \A c \in Calls :
       /\ pc[c] = "create" => on[c] \notin rows
       /\ pc[c] # "idle" => on[c] \notin fresh
       /\ \A d \in Calls \ {c} : pc[c] = "create" /\ pc[d] # "idle" => on[c] # on[d]

\* Whoever inserts a second row of a name looked for it while another did.
NameInv ==
    /\ OneRowPerName
    /\ \A c \in Calls, y \in rows : pc[c] = "create" /\ SameName(on[c], y) => NameOf[y] \in raced
    /\ \A c, d \in Calls : c # d /\ pc[c] = "create" /\ pc[d] = "create" /\ SameName(on[c], on[d])
                           => NameOf[on[d]] \in raced

\* The links L are for what is asked for, A, but for what is left, K.
Whole(L, A, K) ==
    /\ A = Keys(L) \cup K /\ Keys(L) \cap K = {}
    /\ \A i, j \in L : Key(i) = Key(j) => i = j

\* What a request has left to link.
Left(c) == todo[c] \cup (IF pc[c] = "link" THEN {Key(pick[c])} ELSE {})

Good(o, K) == Whole(links[o], asked[o], K) /\ (o \in default => Default \in asked[o])

\* What is known of the links of a row: at rest they are whole; a request that
\* has the row to itself knows what is left; other requests leave it torn.
OwnerInv(o) ==
    /\ o \notin rows => asked[o] = {}
    /\ Quiet(o) => Good(o, {})
    /\ \A c \in Calls : Writing(c, o) /\ c \notin solo => o \in torn \/ o \notin rows
    /\ \A c \in solo : Writing(c, o) =>
          /\ \A d \in Calls : Writing(d, o) => d = c
          /\ o \in rows => Good(o, Left(c))
          /\ pc[c] = "link" => Key(pick[c]) \notin todo[c]

LinkInv ==
    /\ \A c \in solo : pc[c] \in {"next", "link"}
    /\ \E r \in Roles \cap rows : NameOf[r] = Default
    /\ \A o \in Things : OwnerInv(o)

Inv == TypeOK /\ BirthInv /\ NameInv /\ LinkInv

-----------------------------------------------------------------------------
(* Types *)

Others(c) ==
    \A d \in Calls \ {c} : pc'[d] = pc[d] /\ on'[d] = on[d] /\ todo'[d] = todo[d] /\ pick'[d] = pick[d]

\* The locals of a request are set together.
LEMMA LocalsSet ==
    ASSUME LocalsOK, NEW c \in Calls,
           NEW q \in {"idle", "create", "next", "link"}, NEW o \in Things \cup {None},
           NEW ks \in SUBSET (RoleNames \cup Perms), NEW i \in Roles \cup Perms \cup {None},
           pc' = [pc EXCEPT ![c] = q], on' = [on EXCEPT ![c] = o],
           todo' = [todo EXCEPT ![c] = ks], pick' = [pick EXCEPT ![c] = i]
    PROVE  LocalsOK' /\ Others(c) /\ pc'[c] = q /\ on'[c] = o /\ todo'[c] = ks /\ pick'[c] = i
  BY DEF LocalsOK, Others

\* The keys of items are role names and permission ids.
LEMMA KeysTyped ==
    ASSUME NEW o
    PROVE  /\ ItemsOf(o) \subseteq Roles \cup Perms
           /\ Keys(ItemsOf(o)) \subseteq RoleNames \cup Perms
           /\ o \in Users => Keys(ItemsOf(o)) = RoleNames
<1>1. ItemsOf(o) \subseteq Roles \cup Perms
  BY DEF ItemsOf
<1>2. \A i \in Roles \cup Perms : Key(i) \in RoleNames \cup Perms
  BY DEF Key, RoleNames
<1>3. Keys(ItemsOf(o)) \subseteq RoleNames \cup Perms
  BY <1>1, <1>2 DEF Keys
<1>4. o \in Users => Keys(ItemsOf(o)) = RoleNames
  BY DEF Keys, Key, ItemsOf, RoleNames
<1> QED
  BY <1>1, <1>3, <1>4

\* What each step makes of the locals of its request.
LEMMA StepLocals ==
    ASSUME TypeOK, NEW c \in Calls, Handle(c)
    PROVE  LocalsOK' /\ Others(c) /\ Working(pc'[c], on'[c], todo'[c], pick'[c])
<1>0. LocalsOK /\ TablesOK /\ Working(pc[c], on[c], todo[c], pick[c]) /\ None \notin Things
  BY UsersAssumption DEF TypeOK
<1>1. ASSUME Abort(c) PROVE LocalsOK' /\ Others(c) /\ Working(pc'[c], on'[c], todo'[c], pick'[c])
  <2>1. LocalsOK' /\ Others(c) /\ pc'[c] = "idle" /\ on'[c] = None /\ todo'[c] = {} /\ pick'[c] = None
    BY <1>0, <1>1, LocalsSet DEF Abort
  <2> QED
    BY <2>1 DEF Working
<1>2. ASSUME NEW x \in Things, Create(c, x) PROVE LocalsOK' /\ Others(c) /\ Working(pc'[c], on'[c], todo'[c], pick'[c])
  <2>1. PICK ks \in IF x \in Users THEN SUBSET RoleNames ELSE {{}} : todo' = [todo EXCEPT ![c] = ks]
    BY <1>2 DEF Create
  <2>2. ks \subseteq RoleNames /\ ks \subseteq Keys(ItemsOf(x))
    BY <2>1, KeysTyped
  <2>3. pc' = [pc EXCEPT ![c] = "create"] /\ on' = [on EXCEPT ![c] = x] /\ pick' = pick /\ pc[c] = "idle"
    BY <1>2 DEF Create
  <2>4. pick[c] = None
    BY <1>0, <2>3 DEF Working
  <2>5. LocalsOK' /\ Others(c) /\ pc'[c] = "create" /\ on'[c] = x /\ todo'[c] = ks /\ pick'[c] = None
    BY <1>0, <2>1, <2>2, <2>3, <2>4 DEF LocalsOK, Others
  <2> QED
    BY <1>0, <2>2, <2>5 DEF Working
<1>3. CASE InsertUser(c)
  <2>1. pc' = [pc EXCEPT ![c] = "next"] /\ UNCHANGED <<on, todo, pick>> /\ pc[c] = "create" /\ on[c] \in Users
    BY <1>3 DEF InsertUser, locals
  <2>2. LocalsOK' /\ Others(c) /\ pc'[c] = "next"
    BY <1>0, <2>1 DEF LocalsOK, Others
  <2> QED
    BY <1>0, <2>1, <2>2 DEF Working
<1>4. CASE InsertRow(c)
  <2>1. /\ pc' = [pc EXCEPT ![c] = "idle"] /\ on' = [on EXCEPT ![c] = None] /\ UNCHANGED <<todo, pick>> /\ pc[c] = "create"
    BY <1>4 DEF InsertRow
  <2>2. LocalsOK' /\ Others(c) /\ pc'[c] = "idle" /\ on'[c] = None
    BY <1>0, <2>1 DEF LocalsOK, Others
  <2> QED
    BY <1>0, <2>1, <2>2 DEF Working
<1>5. ASSUME NEW o \in Users \cup Roles, Replace(c, o)
      PROVE  LocalsOK' /\ Others(c) /\ Working(pc'[c], on'[c], todo'[c], pick'[c])
  <2>1. PICK ks \in SUBSET Keys(ItemsOf(o)) : todo' = [todo EXCEPT ![c] = ks]
    BY <1>5 DEF Replace
  <2>2. ks \subseteq RoleNames \cup Perms
    BY <2>1, KeysTyped
  <2>3. pc' = [pc EXCEPT ![c] = "next"] /\ on' = [on EXCEPT ![c] = o] /\ pick' = pick /\ pc[c] = "idle" /\ o \in Things
    BY <1>5 DEF Replace, Things
  <2>4. LocalsOK' /\ Others(c) /\ pc'[c] = "next" /\ on'[c] = o /\ todo'[c] = ks /\ pick'[c] = pick[c]
    BY <1>0, <2>1, <2>2, <2>3 DEF LocalsOK, Others
  <2> QED
    BY <1>0, <2>1, <2>3, <2>4 DEF Working
<1>6. CASE SelectItem(c)
  <2>1. PICK k \in todo[c] :
          /\ todo' = [todo EXCEPT ![c] = @ \ {k}]
          /\ \/ /\ \E i \in {i \in ItemsOf(on[c]) : Key(i) = k /\ (i \in Roles => i \in rows)} : pick' = [pick EXCEPT ![c] = i]
                /\ pc' = [pc EXCEPT ![c] = "link"]
             \/ UNCHANGED <<pc, pick>>
    BY <1>6 DEF SelectItem
  <2>2. pc[c] = "next" /\ on' = on
    BY <1>6 DEF SelectItem
  <2>3. todo[c] \ {k} \in SUBSET (RoleNames \cup Perms) /\ todo[c] \ {k} \subseteq Keys(ItemsOf(on[c]))
    BY <1>0, <2>2 DEF LocalsOK, Working
  <2>4. CASE UNCHANGED <<pc, pick>>
    <3>1. LocalsOK' /\ Others(c) /\ todo'[c] = todo[c] \ {k}
      BY <1>0, <2>1, <2>2, <2>3, <2>4 DEF LocalsOK, Others
    <3> QED
      BY <1>0, <2>2, <2>3, <2>4, <3>1 DEF Working
  <2>5. ASSUME NEW i \in ItemsOf(on[c]), pick' = [pick EXCEPT ![c] = i], pc' = [pc EXCEPT ![c] = "link"]
        PROVE  LocalsOK' /\ Others(c) /\ Working(pc'[c], on'[c], todo'[c], pick'[c])
    <3>1. i \in Roles \cup Perms
      BY KeysTyped
    <3>2. LocalsOK' /\ Others(c) /\ todo'[c] = todo[c] \ {k} /\ pc'[c] = "link" /\ pick'[c] = i
      BY <1>0, <2>1, <2>2, <2>3, <2>5, <3>1 DEF LocalsOK, Others
    <3> QED
      BY <1>0, <2>2, <2>3, <3>2 DEF Working
  <2> QED
    BY <2>1, <2>4, <2>5
<1>7. CASE InsertLink(c)
  <2>1. /\ pc' = [pc EXCEPT ![c] = "next"] /\ pick' = [pick EXCEPT ![c] = None] /\ UNCHANGED <<on, todo>> /\ pc[c] = "link"
    BY <1>7 DEF InsertLink
  <2>2. LocalsOK' /\ Others(c) /\ pc'[c] = "next" /\ pick'[c] = None
    BY <1>0, <2>1 DEF LocalsOK, Others
  <2> QED
    BY <1>0, <2>1, <2>2 DEF Working
<1>8. CASE Answer(c)
  <2>1. /\ pc' = [pc EXCEPT ![c] = "idle"] /\ on' = [on EXCEPT ![c] = None] /\ UNCHANGED <<todo, pick>> /\ pc[c] = "next"
    BY <1>8 DEF Answer
  <2>2. LocalsOK' /\ Others(c) /\ pc'[c] = "idle" /\ on'[c] = None
    BY <1>0, <2>1 DEF LocalsOK, Others
  <2> QED
    BY <1>0, <2>1, <2>2 DEF Working
<1>9. CASE InsertRefused(c) \/ LinkRefused(c) \/ Fail(c)
  BY <1>1, <1>9 DEF InsertRefused, LinkRefused, Fail
<1> QED
  BY <1>2, <1>3, <1>4, <1>5, <1>6, <1>7, <1>8, <1>9 DEF Handle

\* A request that starts on a row keeps the histories typed.
LEMMA StartsTyped ==
    ASSUME TablesOK, NEW c \in Calls, NEW o \in Things, NEW ks \in SUBSET (RoleNames \cup Perms), Starts(c, o, ks)
    PROVE  /\ solo' \subseteq Calls /\ asked' \in [Things -> SUBSET (RoleNames \cup Perms)]
           /\ torn' \subseteq Things /\ default' \subseteq Users
<1>1. solo' \subseteq Calls
  BY DEF Starts, TablesOK
<1>2. asked' \in [Things -> SUBSET (RoleNames \cup Perms)] /\ torn' \subseteq Things /\ default' \subseteq Users
  BY DEF Starts, TablesOK
<1> QED
  BY <1>1, <1>2

\* Links that are added or removed one at a time stay typed.
LinksOK == /\ links \in [Things -> SUBSET (Roles \cup Perms)]
           /\ \A o \in Things : links[o] \subseteq ItemsOf(o) \cap rows /\ (o \notin rows => links[o] = {})

\* Every step keeps the tables typed.
LEMMA HandleTables ==
    ASSUME TypeOK, BirthInv, NEW c \in Calls, Handle(c)
    PROVE  TablesOK'
<1>0. LocalsOK /\ TablesOK /\ LinksOK /\ Working(pc[c], on[c], todo[c], pick[c]) /\ None \notin Things
  BY UsersAssumption DEF TypeOK, TablesOK, LinksOK
<1>a. \A x \in Users \cup Roles : x \in Things
  BY DEF Things
<1>1. ASSUME Abort(c), UNCHANGED <<rows, fresh, links, asked, default, raced>>, faults' \in 0..MaxFaults PROVE TablesOK'
  <2>1. solo' \subseteq Calls
    BY <1>0, <1>1 DEF Abort, TablesOK
  <2>2. pc[c] \in {"next", "link"} => on[c] \in Things
    BY <1>0, <1>a DEF Working
  <2>3. torn' \subseteq Things
    BY <1>0, <1>1, <2>2 DEF Abort, TablesOK
  <2> QED
    BY <1>0, <1>1, <2>1, <2>3 DEF TablesOK
<1>2. ASSUME NEW x \in Things, Create(c, x) PROVE TablesOK'
  <2>1. UNCHANGED <<rows, links, solo, asked, torn, default, faults>> /\ fresh' = fresh \ {x}
    BY <1>2 DEF Create
  <2>2. raced' \subseteq {NameOf[y] : y \in Things}
    BY <1>0, <1>2 DEF Create, TablesOK
  <2> QED
    BY <1>0, <2>1, <2>2 DEF TablesOK
<1>3. CASE InsertUser(c) \/ InsertRow(c)
  <2>1. on[c] \in Things /\ on[c] \notin fresh
    BY <1>0, <1>3 DEF InsertUser, InsertRow, Working, LocalsOK, BirthInv
  <2>2. rows' = rows \cup {on[c]} /\ UNCHANGED <<fresh, links, raced, faults>>
    BY <1>3 DEF InsertUser, InsertRow, history
  <2>3. LinksOK'
    BY <1>0, <2>2 DEF LinksOK
  <2>4. CASE InsertUser(c)
    <3>1. Starts(c, on[c], todo[c]) /\ todo[c] \in SUBSET (RoleNames \cup Perms)
      BY <1>0, <2>4 DEF InsertUser, LocalsOK
    <3>2. /\ solo' \subseteq Calls /\ asked' \in [Things -> SUBSET (RoleNames \cup Perms)]
          /\ torn' \subseteq Things /\ default' \subseteq Users
      BY <1>0, <2>1, <3>1, StartsTyped
    <3> QED
      BY <1>0, <2>1, <2>2, <2>3, <3>2 DEF TablesOK, LinksOK
  <2>5. CASE InsertRow(c)
    BY <1>0, <2>1, <2>2, <2>3, <2>5 DEF InsertRow, TablesOK, LinksOK, history
  <2> QED
    BY <1>3, <2>4, <2>5
<1>4. ASSUME NEW o \in Users \cup Roles, Replace(c, o) PROVE TablesOK'
  <2>1. PICK ks \in SUBSET Keys(ItemsOf(o)) : Starts(c, o, ks)
    BY <1>4 DEF Replace
  <2>2. ks \in SUBSET (RoleNames \cup Perms) /\ o \in Things
    BY <2>1, <1>a, KeysTyped
  <2>3. /\ solo' \subseteq Calls /\ asked' \in [Things -> SUBSET (RoleNames \cup Perms)]
        /\ torn' \subseteq Things /\ default' \subseteq Users
    BY <1>0, <2>1, <2>2, StartsTyped
  <2>4. links' = [links EXCEPT ![o] = {}] /\ UNCHANGED <<rows, fresh, raced, faults>>
    BY <1>4 DEF Replace
  <2>5. LinksOK'
    BY <1>0, <2>4 DEF LinksOK
  <2> QED
    BY <1>0, <2>3, <2>4, <2>5 DEF TablesOK, LinksOK
<1>5. CASE SelectItem(c)
  <2>1. UNCHANGED <<rows, fresh, links, solo, torn, default, raced, faults>>
    BY <1>5 DEF SelectItem
  <2>2. asked' \in [Things -> SUBSET (RoleNames \cup Perms)]
    <3>1. asked' = asked \/ \E k \in todo[c] : asked' = [asked EXCEPT ![on[c]] = @ \ {k}]
      BY <1>5 DEF SelectItem
    <3> QED
      BY <1>0, <3>1 DEF TablesOK
  <2> QED
    BY <1>0, <2>1, <2>2 DEF TablesOK
<1>6. CASE InsertLink(c)
  <2>1. /\ links' = [links EXCEPT ![on[c]] = @ \cup {pick[c]}]
        /\ {on[c], pick[c]} \subseteq rows /\ pc[c] = "link"
        /\ UNCHANGED <<rows, fresh, solo, asked, torn, default, raced, faults>>
    BY <1>6 DEF InsertLink, history
  <2>2. pick[c] \in ItemsOf(on[c]) /\ pick[c] \in Roles \cup Perms
    BY <1>0, <2>1, KeysTyped DEF Working
  <2>3. LinksOK'
    BY <1>0, <2>1, <2>2 DEF LinksOK
  <2> QED
    BY <1>0, <2>1, <2>3 DEF TablesOK, LinksOK
<1>7. CASE Answer(c)
  BY <1>0, <1>7 DEF Answer, TablesOK
<1>8. CASE InsertRefused(c) \/ LinkRefused(c)
  <2>1. Abort(c) /\ UNCHANGED <<rows, fresh, links, asked, default, raced, faults>>
    BY <1>8 DEF InsertRefused, LinkRefused
  <2> QED
    BY <1>0, <1>1, <2>1 DEF TablesOK
<1>9. CASE Fail(c)
  <2>1. Abort(c) /\ UNCHANGED <<rows, fresh, links, asked, default, raced>> /\ faults' = faults + 1 /\ faults < MaxFaults
    BY <1>9 DEF Fail
  <2>2. faults' \in 0..MaxFaults
    BY <1>0, <2>1, UsersAssumption DEF TablesOK
  <2> QED
    BY <1>1, <2>1, <2>2
<1> QED
  BY <1>2, <1>3, <1>4, <1>5, <1>6, <1>7, <1>8, <1>9 DEF Handle

\* A deletion keeps the tables typed, and changes no locals.
LEMMA DeleteTyped ==
    ASSUME TypeOK, NEW x \in Things, Delete(x)
    PROVE  TypeOK'
<1>1. /\ rows' = rows \ {x} /\ x \in rows
      /\ links' = [o \in Things |-> IF o = x THEN {} ELSE links[o] \ {x}]
      /\ torn' = torn \ {x} /\ default' = default \ {x}
      /\ UNCHANGED <<fresh, pc, on, todo, pick, solo, raced, faults>>
  BY DEF Delete, locals
<1>2. TablesOK /\ LocalsOK /\ LinksOK
  BY DEF TypeOK, TablesOK, LinksOK
<1>3. LinksOK'
  BY <1>1, <1>2 DEF LinksOK
<1>4. asked' \in [Things -> SUBSET (RoleNames \cup Perms)]
  <2>1. asked' = [o \in Things |-> IF o = x THEN {}
                                 ELSE IF x \in links[o] THEN asked[o] \ {Key(x)} ELSE asked[o]]
    BY DEF Delete
  <2> QED
    BY <1>2, <2>1 DEF TablesOK
<1>5. TablesOK'
  BY <1>1, <1>2, <1>3, <1>4 DEF TablesOK, LinksOK
<1>6. LocalsOK'
  BY <1>1, <1>2 DEF LocalsOK
<1>7. \A c \in Calls : Working(pc'[c], on'[c], todo'[c], pick'[c])
  BY <1>1 DEF TypeOK
<1> QED
  BY <1>5, <1>6, <1>7 DEF TypeOK

\* A step of a request keeps the types.
LEMMA HandleTyped ==
    ASSUME TypeOK, BirthInv, NEW c \in Calls, Handle(c)
    PROVE  TypeOK'
<1>1. TablesOK' /\ LocalsOK' /\ Others(c) /\ Working(pc'[c], on'[c], todo'[c], pick'[c])
  BY StepLocals, HandleTables
<1>2. \A d \in Calls \ {c} : Working(pc'[d], on'[d], todo'[d], pick'[d])
  BY <1>1 DEF Others, TypeOK
<1> QED
  BY <1>1, <1>2 DEF TypeOK

-----------------------------------------------------------------------------
(* Ids and names *)

\* What a step of a request does to the rows and to the id it works on.
Creates(c, x) ==
    /\ pc'[c] = "create" /\ on'[c] = x /\ x \in fresh /\ ~\E y \in rows : SameName(x, y)
    /\ fresh' = fresh \ {x} /\ rows' = rows
    /\ raced' = IF \E d \in Calls : pc[d] = "create" /\ SameName(on[d], x)
                THEN raced \cup {NameOf[x]} ELSE raced
Inserts(c) ==
    /\ pc[c] = "create" /\ pc'[c] \in {"idle", "next"} /\ (pc'[c] = "next" => on'[c] = on[c])
    /\ fresh' = fresh /\ rows' = rows \cup {on[c]} /\ raced' = raced
Works(c) ==
    /\ pc'[c] \in {"idle", "next", "link"}
    /\ pc'[c] # "idle" => on'[c] \in rows \/ (pc[c] # "idle" /\ on'[c] = on[c])
    /\ fresh' = fresh /\ rows' = rows /\ raced' = raced

LEMMA StepShape ==
    ASSUME TypeOK, NEW c \in Calls, Handle(c)
    PROVE  (\E x \in Things : Creates(c, x)) \/ Inserts(c) \/ Works(c)
<1>0. LocalsOK
  BY DEF TypeOK
<1>1. ASSUME NEW x \in Things, Create(c, x) PROVE Creates(c, x)
  BY <1>0, <1>1 DEF Create, Creates, LocalsOK
<1>2. CASE InsertUser(c)
  BY <1>0, <1>2 DEF InsertUser, Inserts, locals, LocalsOK
<1>3. CASE InsertRow(c)
  BY <1>0, <1>3 DEF InsertRow, Inserts, history, LocalsOK
<1>4. ASSUME Abort(c), UNCHANGED <<rows, fresh, raced>> PROVE Works(c)
  BY <1>0, <1>4 DEF Abort, Works, LocalsOK
<1>5. ASSUME NEW o \in Users \cup Roles, Replace(c, o) PROVE Works(c)
  BY <1>0, <1>5 DEF Replace, Works, LocalsOK, Things
<1>6. CASE SelectItem(c)
  <2>1. pc[c] = "next" /\ on' = on /\ UNCHANGED <<rows, fresh, raced>>
    BY <1>6 DEF SelectItem
  <2>2. pc' = pc \/ pc' = [pc EXCEPT ![c] = "link"]
    BY <1>6 DEF SelectItem
  <2> QED
    BY <1>0, <2>1, <2>2 DEF Works, LocalsOK
<1>7. CASE InsertLink(c)
  BY <1>0, <1>7 DEF InsertLink, Works, history, LocalsOK
<1>8. CASE Answer(c)
  BY <1>0, <1>8 DEF Answer, Works, LocalsOK
<1>9. CASE InsertRefused(c) \/ LinkRefused(c) \/ Fail(c)
  BY <1>4, <1>9 DEF InsertRefused, LinkRefused, Fail
<1> QED
  BY <1>1, <1>2, <1>3, <1>5, <1>6, <1>7, <1>8, <1>9 DEF Handle

\* Ids are used once.
LEMMA HandleBirth ==
    ASSUME TypeOK, BirthInv, NEW c \in Calls, Handle(c)
    PROVE  BirthInv'
<1>1. Others(c) /\ fresh \subseteq Things \ rows
  BY StepLocals DEF TypeOK, TablesOK
<1>2. ASSUME NEW x \in Things, Creates(c, x) PROVE BirthInv'
  BY <1>1, <1>2 DEF Others, Creates, BirthInv
<1>3. CASE Inserts(c)
  BY <1>1, <1>3 DEF Others, Inserts, BirthInv
<1>4. CASE Works(c)
  BY <1>1, <1>4 DEF Others, Works, BirthInv
<1> QED
  BY <1>2, <1>3, <1>4, StepShape

\* A second row of a name is inserted only after a race for it.
LEMMA HandleNames ==
    ASSUME TypeOK, BirthInv, NameInv, NEW c \in Calls, Handle(c)
    PROVE  NameInv'
<1>1. Others(c)
  BY StepLocals
<1>2. \A x, y : SameName(x, y) => SameName(y, x) /\ NameOf[x] = NameOf[y]
  BY DEF SameName
<1>3. ASSUME NEW x \in Things, Creates(c, x) PROVE NameInv'
  <2>1. OneRowPerName'
    BY <1>3 DEF Creates, NameInv, OneRowPerName
  <2>2. \A d \in Calls, y \in rows' : pc'[d] = "create" /\ SameName(on'[d], y) => NameOf[y] \in raced'
    BY <1>1, <1>3 DEF Others, Creates, NameInv
  <2>3. ASSUME NEW d \in Calls, NEW e \in Calls, d # e, pc'[d] = "create", pc'[e] = "create", SameName(on'[d], on'[e])
        PROVE  NameOf[on'[e]] \in raced'
    <3>1. CASE d = c
      BY <1>1, <1>2, <1>3, <2>3, <3>1 DEF Others, Creates
    <3>2. CASE e = c
      BY <1>1, <1>2, <1>3, <2>3, <3>2 DEF Others, Creates
    <3>3. CASE d # c /\ e # c
      BY <1>1, <1>3, <2>3, <3>3 DEF Others, Creates, NameInv
    <3> QED
      BY <3>1, <3>2, <3>3
  <2> QED
    BY <2>1, <2>2, <2>3 DEF NameInv
<1>4. CASE Inserts(c)
  <2>1. OneRowPerName'
    <3> SUFFICES ASSUME NEW x \in rows', NEW y \in rows', SameName(x, y) PROVE x = y \/ NameOf[x] \in raced
      BY <1>4 DEF Inserts, OneRowPerName
    <3>1. CASE x \in rows /\ y \in rows
      BY <3>1 DEF NameInv, OneRowPerName
    <3>2. CASE x = on[c] /\ y \in rows
      BY <1>2, <1>4, <3>2 DEF Inserts, NameInv
    <3>3. CASE y = on[c] /\ x \in rows
      BY <1>2, <1>4, <3>3 DEF Inserts, NameInv
    <3> QED
      BY <1>4, <3>1, <3>2, <3>3 DEF Inserts
  <2>2. ASSUME NEW d \in Calls, NEW y \in rows', pc'[d] = "create", SameName(on'[d], y)
        PROVE  NameOf[y] \in raced
    <3>1. d # c /\ pc[d] = "create" /\ on'[d] = on[d]
      BY <1>1, <1>4, <2>2 DEF Others, Inserts
    <3>2. CASE y \in rows
      BY <2>2, <3>1, <3>2 DEF NameInv
    <3>3. CASE y = on[c]
      BY <1>4, <2>2, <3>1, <3>3 DEF Inserts, NameInv
    <3> QED
      BY <1>4, <3>2, <3>3 DEF Inserts
  <2>3. \A d, e \in Calls : d # e /\ pc'[d] = "create" /\ pc'[e] = "create" /\ SameName(on'[d], on'[e])
                           => NameOf[on'[e]] \in raced
    BY <1>1, <1>4 DEF Others, Inserts, NameInv
  <2> QED
    BY <1>4, <2>1, <2>2, <2>3 DEF NameInv, Inserts
<1>5. CASE Works(c)
  <2>1. OneRowPerName'
    BY <1>5 DEF Works, NameInv, OneRowPerName
  <2>2. \A d \in Calls : pc'[d] = "create" => d # c /\ pc[d] = "create" /\ on'[d] = on[d]
    BY <1>1, <1>5 DEF Others, Works
  <2> QED
    BY <1>5, <2>1, <2>2 DEF Works, NameInv
<1> QED
  BY <1>3, <1>4, <1>5, StepShape

LEMMA DeleteBirthNames ==
    ASSUME BirthInv, NameInv, NEW x \in Things, Delete(x)
    PROVE  BirthInv' /\ NameInv'
<1>1. rows' = rows \ {x} /\ UNCHANGED <<fresh, pc, on, raced>>
  BY DEF Delete, locals
<1>2. BirthInv'
  BY <1>1 DEF BirthInv
<1>3. NameInv'
  BY <1>1 DEF NameInv, OneRowPerName
<1> QED
  BY <1>2, <1>3

-----------------------------------------------------------------------------
(* Links *)

LEMMA KeysOf ==
    /\ Keys({}) = {}
    /\ \A L, i : Keys(L \cup {i}) = Keys(L) \cup {Key(i)}
    /\ \A L, x : x \in L /\ (\A i, j \in L : Key(i) = Key(j) => i = j)
                => Keys(L \ {x}) = Keys(L) \ {Key(x)}
<1>1. Keys({}) = {}
  BY DEF Keys
<1>2. ASSUME NEW L, NEW i PROVE Keys(L \cup {i}) = Keys(L) \cup {Key(i)}
  BY DEF Keys
<1>3. ASSUME NEW L, NEW x \in L, \A i, j \in L : Key(i) = Key(j) => i = j
      PROVE  Keys(L \ {x}) = Keys(L) \ {Key(x)}
  BY <1>3 DEF Keys
<1> QED
  BY <1>1, <1>2, <1>3

\* Nothing is linked yet.
LEMMA WholeStart == ASSUME NEW K PROVE Whole({}, K, K)
  BY KeysOf DEF Whole

\* What is left is linked next, or is passed over, or a link goes.
LEMMA WholeInsert ==
    ASSUME NEW L, NEW A, NEW K, NEW i, Whole(L, A, K \cup {Key(i)}), Key(i) \notin K
    PROVE  Whole(L \cup {i}, A, K)
<1>1. Keys(L \cup {i}) = Keys(L) \cup {Key(i)}
  BY KeysOf
<1>2. \A j \in L : Key(j) # Key(i)
  BY DEF Whole, Keys
<1> QED
  BY <1>1, <1>2 DEF Whole

LEMMA WholeSkip ==
    ASSUME NEW L, NEW A, NEW K, NEW k \in K, Whole(L, A, K)
    PROVE  Whole(L, A \ {k}, K \ {k})
  BY DEF Whole

LEMMA WholeDelete ==
    ASSUME NEW L, NEW A, NEW K, NEW x \in L, Whole(L, A, K)
    PROVE  Whole(L \ {x}, A \ {Key(x)}, K)
<1>1. Keys(L \ {x}) = Keys(L) \ {Key(x)} /\ Key(x) \in Keys(L)
  BY KeysOf DEF Whole, Keys
<1> QED
  BY <1>1 DEF Whole

\* A row that a step has nothing to do with.
Untouched(o) ==
    /\ o \in rows' <=> o \in rows
    /\ o \in torn' <=> o \in torn
    /\ o \in default' <=> o \in default
    /\ links'[o] = links[o] /\ asked'[o] = asked[o]

LEMMA OwnerFrame ==
    ASSUME NEW o, OwnerInv(o), Untouched(o), solo \subseteq Calls, solo' \subseteq Calls,
           \A c \in Calls : Writing(c, o)' <=> Writing(c, o),
           \A c \in Calls : Writing(c, o) => /\ c \in solo' <=> c \in solo
                                            /\ pc'[c] = pc[c] /\ todo'[c] = todo[c] /\ pick'[c] = pick[c]
    PROVE  OwnerInv(o)'
<1>1. o \notin rows' => asked'[o] = {}
  BY DEF OwnerInv, Untouched
<1>2. Quiet(o)' => Quiet(o)
  BY DEF Quiet, Untouched
<1>3. \A K : Good(o, K) => Good(o, K)'
  BY DEF Good, Untouched
<1>4. Quiet(o)' => Good(o, {})'
  BY <1>2, <1>3 DEF OwnerInv
<1>5. \A c \in Calls : Writing(c, o)' /\ c \notin solo' => o \in torn' \/ o \notin rows'
  BY DEF OwnerInv, Untouched
<1>6. ASSUME NEW c \in solo', Writing(c, o)'
      PROVE  /\ \A d \in Calls : Writing(d, o)' => d = c
             /\ o \in rows' => Good(o, Left(c))'
             /\ pc'[c] = "link" => Key(pick'[c]) \notin todo'[c]
  <2>1. c \in solo /\ Writing(c, o) /\ pc'[c] = pc[c] /\ todo'[c] = todo[c] /\ pick'[c] = pick[c]
    BY <1>6
  <2>2. Left(c)' = Left(c)
    BY <2>1 DEF Left
  <2>3. \A d \in Calls : Writing(d, o)' => d = c
    BY <2>1 DEF OwnerInv
  <2>4. o \in rows' => Good(o, Left(c))
    BY <2>1 DEF OwnerInv, Untouched
  <2>5. o \in rows' => Good(o, Left(c))'
    BY <2>2, <2>4 DEF Good, Untouched
  <2>6. pc'[c] = "link" => Key(pick'[c]) \notin todo'[c]
    BY <2>1 DEF OwnerInv
  <2> QED
    BY <2>3, <2>5, <2>6
<1> QED
  BY <1>1, <1>4, <1>5, <1>6 DEF OwnerInv

\* A step of c that concerns only row t leaves the others as they are.
LEMMA StepFrame ==
    ASSUME LinkInv, NEW c \in Calls, Others(c), NEW t, solo \subseteq Calls, solo' \subseteq Calls,
           \A o \in Things \ {t} : Untouched(o) /\ ~Writing(c, o) /\ ~Writing(c, o)',
           \A d \in Calls \ {c} : on[d] # t => (d \in solo' <=> d \in solo)
    PROVE  \A o \in Things \ {t} : OwnerInv(o)'
<1> SUFFICES ASSUME NEW o \in Things \ {t} PROVE OwnerInv(o)'
  OBVIOUS
<1>1. \A d \in Calls : Writing(d, o)' <=> Writing(d, o)
  BY DEF Others, Writing
<1>2. \A d \in Calls : Writing(d, o) => /\ d \in solo' <=> d \in solo
                                       /\ pc'[d] = pc[d] /\ todo'[d] = todo[d] /\ pick'[d] = pick[d]
  BY DEF Others, Writing
<1>3. OwnerInv(o) /\ Untouched(o)
  BY DEF LinkInv
<1> QED
  BY <1>1, <1>2, <1>3, OwnerFrame

\* A request starts to write the links of t, which are gone.
LEMMA StartsOwner ==
    ASSUME TypeOK, LinkInv, NEW c \in Calls, NEW t \in Users \cup Roles, NEW ks, Starts(c, t, ks), Others(c),
           pc[c] \in {"idle", "create"}, pc'[c] = "next", on'[c] = t, todo'[c] = ks, solo' \subseteq Calls,
           links'[t] = {}, t \in rows', \A o \in Things \ {t} : links'[o] = links[o] /\ (o \in rows' <=> o \in rows)
    PROVE  (\A o \in Things : OwnerInv(o)') /\ (\A d \in solo' : pc'[d] \in {"next", "link"})
<1> DEFINE others == {d \in Calls \ {c} : Writing(d, t)}
<1>1. /\ solo' = (solo \ others) \cup (IF others = {} THEN {c} ELSE {})
      /\ torn' = IF others = {} THEN torn ELSE torn \cup {t}
      /\ asked' = [asked EXCEPT ![t] = ks]
      /\ default' = IF t \in Users /\ Default \in ks THEN default \cup {t} ELSE default \ {t}
  BY DEF Starts
<1>2. c \notin solo /\ solo \subseteq Calls /\ t \in Things
  BY DEF LinkInv, TypeOK, TablesOK, Things
<1>3. \A d \in solo' : pc'[d] \in {"next", "link"}
  BY <1>1, <1>2 DEF LinkInv, Others
<1>4. \A o \in Things \ {t} : Untouched(o) /\ ~Writing(c, o) /\ ~Writing(c, o)'
  <2>1. \A o \in Things \ {t} : asked'[o] = asked[o]
    BY <1>1, <1>2 DEF TypeOK, TablesOK
  <2>2. \A o \in Things \ {t} : (o \in torn' <=> o \in torn) /\ (o \in default' <=> o \in default)
    BY <1>1
  <2>3. \A o \in Things \ {t} : ~Writing(c, o) /\ ~Writing(c, o)'
    BY DEF Writing
  <2> QED
    BY <2>1, <2>2, <2>3 DEF Untouched
<1>5. \A d \in Calls \ {c} : on[d] # t => (d \in solo' <=> d \in solo)
  BY <1>1 DEF Writing
<1>6. \A o \in Things \ {t} : OwnerInv(o)'
  BY <1>2, <1>4, <1>5, StepFrame
<1>7. OwnerInv(t)'
  <2>1. Writing(c, t)' /\ ~Quiet(t)'
    BY DEF Writing, Quiet
  <2>2. asked'[t] = ks
    BY <1>1, <1>2 DEF TypeOK, TablesOK
  <2>3. \A d \in Calls : Writing(d, t)' => d = c \/ d \in others
    BY DEF Others, Writing
  <2>4. Left(c)' = ks
    BY DEF Left
  <2>5. Good(t, Left(c))'
    BY <1>1, <2>2, <2>4, WholeStart DEF Good
  <2>6. CASE others = {}
    <3>1. solo' = solo \cup {c}
      BY <1>1, <2>6
    <3>2. \A d \in Calls : Writing(d, t)' => d = c
      BY <2>3, <2>6
    <3> QED
      BY <1>2, <2>1, <2>5, <3>1, <3>2 DEF OwnerInv
  <2>7. CASE others # {}
    <3>1. t \in torn' /\ solo' = solo \ others
      BY <1>1, <2>7
    <3>2. \A d \in solo' : ~Writing(d, t)'
      BY <1>2, <2>3, <3>1
    <3> QED
      BY <2>1, <3>1, <3>2 DEF OwnerInv
  <2> QED
    BY <2>6, <2>7
<1> QED
  BY <1>3, <1>6, <1>7

\* Steps of a request that writes no links, before or after.
LEMMA NotWriting ==
    ASSUME LinkInv, NEW c \in Calls, Others(c), pc[c] \in {"idle", "create"}, pc'[c] \in {"idle", "create"},
           solo \subseteq Calls, solo' = solo, \A o \in Things : Untouched(o)
    PROVE  (\A o \in Things : OwnerInv(o)') /\ (\A d \in solo' : pc'[d] \in {"next", "link"})
<1>1. c \notin solo
  BY DEF LinkInv
<1>2. \A d \in Calls : \A o : Writing(d, o)' <=> Writing(d, o)
  BY DEF Writing, Others
<1>3. \A o \in Things : \A d \in Calls : Writing(d, o) =>
         /\ d \in solo' <=> d \in solo
         /\ pc'[d] = pc[d] /\ todo'[d] = todo[d] /\ pick'[d] = pick[d]
  BY DEF Writing, Others
<1>4. ASSUME NEW o \in Things PROVE OwnerInv(o)'
  <2>1. OwnerInv(o)
    BY DEF LinkInv
  <2> QED
    BY <1>2, <1>3, <2>1, OwnerFrame
<1> QED
  BY <1>1, <1>4 DEF LinkInv, Others

\* A request ends with an error.
LEMMA AbortLinks ==
    ASSUME TypeOK, LinkInv, NEW c \in Calls, Others(c), Abort(c), UNCHANGED <<rows, links, asked, default>>
    PROVE  (\A o \in Things : OwnerInv(o)') /\ (\A d \in solo' : pc'[d] \in {"next", "link"})
<1>1. LocalsOK /\ TablesOK /\ solo \subseteq Calls /\ pc'[c] = "idle"
  BY DEF TypeOK, TablesOK, LocalsOK, Abort
<1>2. solo' = solo \ {c} /\ torn' = IF pc[c] \in {"next", "link"} THEN torn \cup {on[c]} ELSE torn
  BY DEF Abort
<1>3. CASE pc[c] \in {"idle", "create"}
  <2>1. solo' = solo /\ torn' = torn
    BY <1>2, <1>3 DEF LinkInv
  <2>2. \A o \in Things : Untouched(o)
    BY <2>1 DEF Untouched
  <2> QED
    BY <1>1, <1>3, <2>1, <2>2, NotWriting
<1>4. CASE pc[c] \in {"next", "link"}
  <2>1. torn' = torn \cup {on[c]}
    BY <1>2, <1>4
  <2>2. \A o \in Things \ {on[c]} : Untouched(o) /\ ~Writing(c, o) /\ ~Writing(c, o)'
    BY <1>1, <2>1 DEF Untouched, Writing
  <2>3. \A o \in Things \ {on[c]} : OwnerInv(o)'
    BY <1>1, <1>2, <2>2, StepFrame
  <2>4. ASSUME NEW t \in Things, t = on[c] PROVE OwnerInv(t)'
    <3>1. OwnerInv(t) /\ Writing(c, t)
      BY <1>4, <2>4 DEF LinkInv, Writing
    <3>2. t \in torn' /\ (t \notin rows' => asked'[t] = {})
      BY <2>1, <2>4, <3>1 DEF OwnerInv
    <3>3. \A d \in solo' : ~Writing(d, t)'
      BY <1>1, <1>2, <3>1 DEF OwnerInv, Writing, Others
    <3> QED
      BY <3>2, <3>3 DEF OwnerInv, Quiet
  <2>5. \A d \in solo' : pc'[d] \in {"next", "link"}
    BY <1>1, <1>2 DEF LinkInv, Others
  <2> QED
    BY <2>3, <2>4, <2>5
<1> QED
  BY <1>1, <1>3, <1>4 DEF LocalsOK

\* The next name or id to link.
LEMMA SelectLinks ==
    ASSUME TypeOK, LinkInv, NEW c \in Calls, Others(c), SelectItem(c)
    PROVE  (\A o \in Things : OwnerInv(o)') /\ (\A d \in solo' : pc'[d] \in {"next", "link"})
<1>1. /\ LocalsOK /\ solo \subseteq Calls /\ default \subseteq Users
      /\ asked \in [Things -> SUBSET (RoleNames \cup Perms)] /\ Working(pc[c], on[c], todo[c], pick[c])
  BY DEF TypeOK, TablesOK
<1>2. pc[c] = "next" /\ UNCHANGED <<rows, links, on, solo, torn, default>>
  BY DEF SelectItem
<1>3. PICK t \in Users \cup Roles : t = on[c]
  BY <1>1, <1>2 DEF Working
<1>4. PICK k \in todo[c] :
        /\ todo' = [todo EXCEPT ![c] = @ \ {k}]
        /\ \/ /\ \E i \in {i \in ItemsOf(on[c]) : Key(i) = k /\ (i \in Roles => i \in rows)} : pick' = [pick EXCEPT ![c] = i]
              /\ pc' = [pc EXCEPT ![c] = "link"]
              /\ UNCHANGED asked
           \/ /\ {i \in ItemsOf(on[c]) : Key(i) = k /\ (i \in Roles => i \in rows)} = {}
              /\ asked' = [asked EXCEPT ![on[c]] = @ \ {k}]
              /\ UNCHANGED <<pc, pick>>
  BY DEF SelectItem
<1>5. t \in Things /\ todo'[c] = todo[c] \ {k} /\ pc'[c] \in {"next", "link"} /\ on'[c] = t
  BY <1>1, <1>2, <1>3, <1>4 DEF Things, LocalsOK
<1>6. \A o \in Things \ {t} : asked'[o] = asked[o]
  BY <1>1, <1>3, <1>4
<1>7. \A o \in Things \ {t} : Untouched(o) /\ ~Writing(c, o) /\ ~Writing(c, o)'
  BY <1>2, <1>3, <1>5, <1>6 DEF Untouched, Writing
<1>8. \A o \in Things \ {t} : OwnerInv(o)'
  BY <1>1, <1>2, <1>7, StepFrame
<1>9. \A d \in solo' : pc'[d] \in {"next", "link"}
  BY <1>1, <1>2, <1>5 DEF LinkInv, Others
<1>10. OwnerInv(t)'
  <2>1. OwnerInv(t) /\ Writing(c, t) /\ Writing(c, t)' /\ ~Quiet(t)'
    BY <1>2, <1>3, <1>5 DEF LinkInv, Writing, Quiet
  <2>2. \A d \in Calls : Writing(d, t)' <=> Writing(d, t)
    BY <2>1 DEF Writing, Others
  <2>3. t \notin rows' => asked'[t] = {}
    BY <1>1, <1>2, <1>3, <1>4, <1>5, <2>1 DEF OwnerInv
  <2>4. \A d \in Calls : Writing(d, t)' /\ d \notin solo' => t \in torn' \/ t \notin rows'
    BY <1>2, <2>1, <2>2 DEF OwnerInv
  <2>5. ASSUME NEW d \in solo', Writing(d, t)'
        PROVE  /\ \A e \in Calls : Writing(e, t)' => e = d
               /\ t \in rows' => Good(t, Left(d))'
               /\ pc'[d] = "link" => Key(pick'[d]) \notin todo'[d]
    <3>1. d = c /\ c \in solo /\ \A e \in Calls : Writing(e, t)' => e = d
      BY <1>1, <1>2, <2>1, <2>2, <2>5 DEF OwnerInv
    <3>2. t \in rows => Good(t, todo[c])
      <4>1. Left(c) = todo[c]
        BY <1>2 DEF Left
      <4> QED
        BY <2>1, <3>1, <4>1 DEF OwnerInv
    <3>3. ASSUME NEW i \in ItemsOf(on[c]), Key(i) = k, pick' = [pick EXCEPT ![c] = i], pc' = [pc EXCEPT ![c] = "link"],
                 UNCHANGED asked
          PROVE  (t \in rows' => Good(t, Left(c))') /\ (pc'[c] = "link" => Key(pick'[c]) \notin todo'[c])
      <4>1. pick'[c] = i /\ pc'[c] = "link"
        BY <1>1, <3>3 DEF LocalsOK
      <4>2. Left(c)' = todo[c]
        BY <1>4, <1>5, <3>3, <4>1 DEF Left
      <4> QED
        BY <1>2, <1>5, <3>2, <3>3, <4>1, <4>2 DEF Good
    <3>4. ASSUME {i \in ItemsOf(on[c]) : Key(i) = k /\ (i \in Roles => i \in rows)} = {},
                 asked' = [asked EXCEPT ![on[c]] = @ \ {k}], UNCHANGED <<pc, pick>>
          PROVE  (t \in rows' => Good(t, Left(c))') /\ (pc'[c] = "link" => Key(pick'[c]) \notin todo'[c])
      <4>1. Left(c)' = todo[c] \ {k} /\ pc'[c] = "next"
        BY <1>2, <1>5, <3>4 DEF Left
      <4>2. asked'[t] = asked[t] \ {k}
        BY <1>1, <1>3, <1>5, <3>4
      <4>3. t \in default => k # Default
        <5> SUFFICES ASSUME t \in Users, k = Default PROVE FALSE
          BY <1>1
        <5>1. PICK r \in Roles \cap rows : NameOf[r] = Default
          BY DEF LinkInv
        <5>2. r \in ItemsOf(on[c]) /\ Key(r) = k
          BY <1>3, <5>1 DEF ItemsOf, Key
        <5> QED
          BY <3>4, <5>1, <5>2
      <4>4. t \in rows => Whole(links[t], asked[t] \ {k}, todo[c] \ {k})
        BY <3>2, <1>4, WholeSkip DEF Good
      <4> QED
        BY <1>2, <3>2, <4>1, <4>2, <4>3, <4>4 DEF Good
    <3> QED
      BY <1>4, <3>1, <3>3, <3>4
  <2> QED
    BY <2>1, <2>3, <2>4, <2>5 DEF OwnerInv
<1> QED
  BY <1>8, <1>9, <1>10

\* A link is inserted.
LEMMA InsertLinks ==
    ASSUME TypeOK, LinkInv, NEW c \in Calls, Others(c), InsertLink(c)
    PROVE  (\A o \in Things : OwnerInv(o)') /\ (\A d \in solo' : pc'[d] \in {"next", "link"})
<1>1. /\ LocalsOK /\ solo \subseteq Calls
      /\ links \in [Things -> SUBSET (Roles \cup Perms)] /\ Working(pc[c], on[c], todo[c], pick[c])
  BY DEF TypeOK, TablesOK
<1>2. /\ pc[c] = "link" /\ UNCHANGED <<rows, on, todo, solo, torn, default, asked>>
      /\ links' = [links EXCEPT ![on[c]] = @ \cup {pick[c]}]
      /\ pc' = [pc EXCEPT ![c] = "next"]
  BY DEF InsertLink, history
<1>3. PICK t \in Users \cup Roles : t = on[c]
  BY <1>1, <1>2 DEF Working
<1>4. t \in Things /\ pc'[c] = "next" /\ on'[c] = t /\ todo'[c] = todo[c]
  BY <1>1, <1>2, <1>3 DEF Things, LocalsOK
<1>5. links'[t] = links[t] \cup {pick[c]} /\ \A o \in Things \ {t} : links'[o] = links[o]
  BY <1>1, <1>2, <1>3, <1>4
<1>6. \A o \in Things \ {t} : Untouched(o) /\ ~Writing(c, o) /\ ~Writing(c, o)'
  BY <1>2, <1>3, <1>4, <1>5 DEF Untouched, Writing
<1>7. \A o \in Things \ {t} : OwnerInv(o)'
  BY <1>1, <1>2, <1>6, StepFrame
<1>8. \A d \in solo' : pc'[d] \in {"next", "link"}
  BY <1>1, <1>2, <1>4 DEF LinkInv, Others
<1>9. OwnerInv(t)'
  <2>1. OwnerInv(t) /\ Writing(c, t) /\ Writing(c, t)' /\ ~Quiet(t)'
    BY <1>2, <1>3, <1>4 DEF LinkInv, Writing, Quiet
  <2>2. \A d \in Calls : Writing(d, t)' <=> Writing(d, t)
    BY <2>1 DEF Writing, Others
  <2>3. t \notin rows' => asked'[t] = {}
    BY <1>2, <2>1 DEF OwnerInv
  <2>4. \A d \in Calls : Writing(d, t)' /\ d \notin solo' => t \in torn' \/ t \notin rows'
    BY <1>2, <2>1, <2>2 DEF OwnerInv
  <2>5. ASSUME NEW d \in solo', Writing(d, t)'
        PROVE  /\ \A e \in Calls : Writing(e, t)' => e = d
               /\ t \in rows' => Good(t, Left(d))'
               /\ pc'[d] = "link" => Key(pick'[d]) \notin todo'[d]
    <3>1. d = c /\ c \in solo /\ \A e \in Calls : Writing(e, t)' => e = d
      BY <1>1, <1>2, <2>1, <2>2, <2>5 DEF OwnerInv
    <3>2. Left(c) = todo[c] \cup {Key(pick[c])} /\ Left(c)' = todo[c]
      BY <1>2, <1>4 DEF Left
    <3>3. Key(pick[c]) \notin todo[c] /\ (t \in rows => Good(t, todo[c] \cup {Key(pick[c])}))
      BY <1>2, <2>1, <3>1, <3>2 DEF OwnerInv
    <3>4. t \in rows => Whole(links[t] \cup {pick[c]}, asked[t], todo[c])
      BY <3>3, WholeInsert DEF Good
    <3>5. t \in rows' => Good(t, Left(c))'
      BY <1>2, <1>5, <3>2, <3>3, <3>4 DEF Good
    <3> QED
      BY <1>4, <3>1, <3>5
  <2> QED
    BY <2>1, <2>3, <2>4, <2>5 DEF OwnerInv
<1> QED
  BY <1>7, <1>8, <1>9

\* A request is answered: what it had to itself is at rest.
LEMMA AnswerLinks ==
    ASSUME TypeOK, LinkInv, NEW c \in Calls, Others(c), Answer(c)
    PROVE  (\A o \in Things : OwnerInv(o)') /\ (\A d \in solo' : pc'[d] \in {"next", "link"})
<1>1. LocalsOK /\ solo \subseteq Calls /\ Working(pc[c], on[c], todo[c], pick[c])
  BY DEF TypeOK, TablesOK
<1>2. /\ pc[c] = "next" /\ todo[c] = {} /\ UNCHANGED <<rows, links, default, asked>>
      /\ solo' = solo \ {c} /\ torn' = IF c \in solo THEN torn \ {on[c]} ELSE torn
  BY DEF Answer
<1>3. pc'[c] = "idle"
  BY <1>1 DEF Answer, LocalsOK
<1>4. PICK t \in Users \cup Roles : t = on[c]
  BY <1>1, <1>2 DEF Working
<1>5. \A o \in Things \ {t} : Untouched(o) /\ ~Writing(c, o) /\ ~Writing(c, o)'
  BY <1>2, <1>3, <1>4 DEF Untouched, Writing
<1>6. \A o \in Things \ {t} : OwnerInv(o)'
  BY <1>1, <1>2, <1>5, StepFrame
<1>7. \A d \in solo' : pc'[d] \in {"next", "link"}
  BY <1>1, <1>2 DEF LinkInv, Others
<1>8. OwnerInv(t)'
  <2>1. OwnerInv(t) /\ Writing(c, t) /\ ~Writing(c, t)'
    BY <1>2, <1>3, <1>4 DEF LinkInv, Writing, Things
  <2>2. \A d \in Calls : Writing(d, t)' <=> Writing(d, t) /\ d # c
    BY <2>1 DEF Writing, Others
  <2>3. t \notin rows' => asked'[t] = {}
    BY <1>2, <2>1 DEF OwnerInv
  <2>4. \A d \in solo' : ~Writing(d, t)'
    BY <1>1, <1>2, <2>1, <2>2 DEF OwnerInv
  <2>5. CASE c \in solo
    <3>1. \A d \in Calls : ~Writing(d, t)'
      BY <2>1, <2>2, <2>5 DEF OwnerInv
    <3>2. Left(c) = {}
      BY <1>2 DEF Left
    <3>3. t \in rows => Good(t, {})
      BY <2>1, <2>5, <3>2 DEF OwnerInv
    <3>4. t \in rows' => Good(t, {})'
      BY <1>2, <3>3 DEF Good
    <3> QED
      BY <2>3, <2>4, <3>1, <3>4 DEF OwnerInv, Quiet
  <2>6. CASE c \notin solo
    <3>1. t \in torn' \/ t \notin rows'
      BY <1>2, <2>1, <2>6 DEF OwnerInv
    <3> QED
      BY <2>3, <2>4, <3>1 DEF OwnerInv, Quiet
  <2> QED
    BY <2>5, <2>6
<1> QED
  BY <1>6, <1>7, <1>8

\* A role or permission is created, without links.
LEMMA InsertRowLinks ==
    ASSUME TypeOK, BirthInv, LinkInv, NEW c \in Calls, Others(c), InsertRow(c)
    PROVE  (\A o \in Things : OwnerInv(o)') /\ (\A d \in solo' : pc'[d] \in {"next", "link"})
<1>1. /\ LocalsOK /\ LinksOK /\ solo \subseteq Calls /\ default \subseteq Users
      /\ Working(pc[c], on[c], todo[c], pick[c])
  BY DEF TypeOK, TablesOK, LinksOK
<1>2. /\ pc[c] = "create" /\ on[c] \notin Users /\ rows' = rows \cup {on[c]}
      /\ UNCHANGED <<links, solo, torn, default, asked>>
  BY DEF InsertRow, history
<1>3. pc'[c] = "idle"
  BY <1>1 DEF InsertRow, LocalsOK
<1>4. PICK t \in Things : t = on[c]
  BY <1>1, <1>2 DEF Working, LocalsOK
<1>5. \A o \in Things \ {t} : Untouched(o) /\ ~Writing(c, o) /\ ~Writing(c, o)'
  BY <1>2, <1>3, <1>4 DEF Untouched, Writing
<1>6. \A o \in Things \ {t} : OwnerInv(o)'
  BY <1>1, <1>2, <1>5, StepFrame
<1>7. \A d \in solo' : pc'[d] \in {"next", "link"}
  BY <1>1, <1>2 DEF LinkInv, Others
<1>8. OwnerInv(t)'
  <2>1. t \notin rows /\ \A d \in Calls : ~Writing(d, t)
    BY <1>2, <1>4 DEF BirthInv, Writing
  <2>2. \A d \in Calls : ~Writing(d, t)'
    BY <1>3, <2>1 DEF Writing, Others
  <2>3. asked'[t] = {} /\ links'[t] = {} /\ t \notin default'
    BY <1>1, <1>2, <1>4, <2>1 DEF LinkInv, OwnerInv, LinksOK
  <2>4. Good(t, {})'
    BY <2>3, WholeStart DEF Good
  <2> QED
    BY <1>1, <1>2, <1>4, <2>2, <2>4 DEF OwnerInv
<1> QED
  BY <1>6, <1>7, <1>8

\* A request keeps what is known of the links.
LEMMA HandleLinks ==
    ASSUME TypeOK, BirthInv, LinkInv, NEW c \in Calls, Handle(c)
    PROVE  LinkInv'
<1> DEFINE Goal == (\A o \in Things : OwnerInv(o)') /\ (\A d \in solo' : pc'[d] \in {"next", "link"})
<1>1. /\ Others(c) /\ LocalsOK /\ LocalsOK' /\ TablesOK /\ TablesOK' /\ LinksOK
      /\ solo \subseteq Calls /\ solo' \subseteq Calls /\ Working(pc[c], on[c], todo[c], pick[c])
  BY StepLocals, HandleTables DEF TypeOK, TablesOK, LinksOK
<1>2. ASSUME NEW x \in Things, Create(c, x) PROVE Goal
  <2>1. pc[c] = "idle" /\ pc'[c] = "create" /\ UNCHANGED <<rows, links, solo, asked, torn, default>>
    BY <1>1, <1>2 DEF Create, LocalsOK
  <2>2. \A o \in Things : Untouched(o)
    BY <2>1 DEF Untouched
  <2> QED
    BY <1>1, <2>1, <2>2, NotWriting
<1>3. ASSUME InsertUser(c) PROVE Goal
  <2>1. /\ pc[c] = "create" /\ rows' = rows \cup {on[c]} /\ Starts(c, on[c], todo[c])
        /\ pc' = [pc EXCEPT ![c] = "next"] /\ UNCHANGED <<links, on, todo, pick>>
    BY <1>3 DEF InsertUser, locals
  <2>2. PICK t \in Users : t = on[c]
    BY <1>3 DEF InsertUser
  <2>3. pc'[c] = "next" /\ on'[c] = t /\ todo'[c] = todo[c] /\ Starts(c, t, todo[c])
    BY <1>1, <2>1, <2>2 DEF LocalsOK
  <2>4. links'[t] = {}
    BY <1>1, <2>1, <2>2 DEF LinksOK, BirthInv, Things
  <2>5. t \in rows' /\ \A o \in Things \ {t} : links'[o] = links[o] /\ (o \in rows' <=> o \in rows)
    BY <2>1, <2>2
  <2> QED
    BY <1>1, <2>1, <2>2, <2>3, <2>4, <2>5, StartsOwner
<1>4. ASSUME NEW t \in Users \cup Roles, Replace(c, t) PROVE Goal
  <2>1. PICK ks \in SUBSET Keys(ItemsOf(t)) : todo' = [todo EXCEPT ![c] = ks] /\ Starts(c, t, ks)
    BY <1>4 DEF Replace
  <2>2. /\ pc[c] = "idle" /\ t \in rows /\ rows' = rows /\ t \in Things
        /\ links' = [links EXCEPT ![t] = {}]
    BY <1>4 DEF Replace, Things
  <2>3. pc'[c] = "next" /\ on'[c] = t /\ todo'[c] = ks
    BY <1>1, <1>4, <2>1 DEF Replace, LocalsOK
  <2>4. links'[t] = {} /\ \A o \in Things \ {t} : links'[o] = links[o]
    BY <1>1, <2>2 DEF LinksOK
  <2> QED
    BY <1>1, <2>1, <2>2, <2>3, <2>4, StartsOwner
<1>5. ASSUME InsertRow(c) PROVE Goal
  BY <1>1, <1>5, InsertRowLinks
<1>6. ASSUME SelectItem(c) PROVE Goal
  BY <1>1, <1>6, SelectLinks
<1>7. ASSUME InsertLink(c) PROVE Goal
  BY <1>1, <1>7, InsertLinks
<1>8. ASSUME Answer(c) PROVE Goal
  BY <1>1, <1>8, AnswerLinks
<1>9. ASSUME InsertRefused(c) \/ LinkRefused(c) \/ Fail(c) PROVE Goal
  <2>1. Abort(c) /\ UNCHANGED <<rows, links, asked, default>>
    BY <1>9 DEF InsertRefused, LinkRefused, Fail
  <2> QED
    BY <1>1, <2>1, AbortLinks
<1>10. Goal
  BY <1>2, <1>3, <1>4, <1>5, <1>6, <1>7, <1>8, <1>9 DEF Handle
<1>11. rows \subseteq rows'
  BY StepShape DEF Creates, Inserts, Works
<1>12. \E r \in Roles \cap rows' : NameOf[r] = Default
  BY <1>11 DEF LinkInv
<1> QED
  BY <1>10, <1>12 DEF LinkInv

\* A deletion takes its links along, and never those to a built-in role.
LEMMA DeleteLinks ==
    ASSUME TypeOK, LinkInv, NEW x \in Things, Delete(x)
    PROVE  LinkInv'
<1>1. /\ TablesOK /\ solo \subseteq Calls /\ default \subseteq Users
      /\ \A o \in Things : links[o] \subseteq ItemsOf(o)
  BY DEF TypeOK, TablesOK
<1>2. /\ ~(x \in Roles /\ NameOf[x] \in BuiltIn) /\ rows' = rows \ {x}
      /\ torn' = torn \ {x} /\ default' = default \ {x}
      /\ UNCHANGED <<pc, on, todo, pick, solo>>
  BY DEF Delete, locals
<1>3. \A o \in Things :
         /\ links'[o] = IF o = x THEN {} ELSE links[o] \ {x}
         /\ asked'[o] = IF o = x THEN {} ELSE IF x \in links[o] THEN asked[o] \ {Key(x)} ELSE asked[o]
  BY DEF Delete
<1>4. \A r \in Roles \cap rows : NameOf[r] = Default => r \in rows'
  BY <1>2, UsersAssumption
<1>5. \E r \in Roles \cap rows' : NameOf[r] = Default
  BY <1>4 DEF LinkInv
<1>6. \A c \in solo' : pc'[c] \in {"next", "link"}
  BY <1>2 DEF LinkInv
<1>7. \A c, o : Writing(c, o)' <=> Writing(c, o)
  BY <1>2 DEF Writing
<1>8. \A c : Left(c)' = Left(c)
  BY <1>2 DEF Left
<1>9. ASSUME NEW o \in Things PROVE OwnerInv(o)'
  <2>1. OwnerInv(o)
    BY DEF LinkInv
  <2>2. CASE o = x
    <3>1. o \notin rows' /\ asked'[o] = {} /\ ~Quiet(o)'
      BY <1>2, <1>3, <2>2 DEF Quiet
    <3> QED
      BY <1>2, <1>7, <2>1, <3>1 DEF OwnerInv
  <2>3. CASE o # x
    <3>1. ASSUME NEW K, Good(o, K) PROVE Good(o, K)'
      <4>1. CASE x \in links[o]
        <5>1. Whole(links[o] \ {x}, asked[o] \ {Key(x)}, K)
          BY <3>1, <4>1, WholeDelete DEF Good
        <5>2. o \in default => Key(x) # Default
          BY <1>1, <1>2, <4>1, UsersAssumption DEF ItemsOf, Key
        <5> QED
          BY <1>2, <1>3, <2>3, <3>1, <4>1, <5>1, <5>2 DEF Good
      <4>2. CASE x \notin links[o]
        <5>1. links[o] \ {x} = links[o]
          BY <4>2
        <5> QED
          BY <1>2, <1>3, <2>3, <3>1, <4>2, <5>1 DEF Good
      <4> QED
        BY <4>1, <4>2
    <3>2. Quiet(o)' => Quiet(o)
      BY <1>2, <1>7, <2>3 DEF Quiet
    <3>3. Quiet(o)' => Good(o, {})'
      BY <2>1, <3>1, <3>2 DEF OwnerInv
    <3>4. o \notin rows' => asked'[o] = {}
      BY <1>2, <1>3, <2>1, <2>3 DEF OwnerInv
    <3>5. \A c \in Calls : Writing(c, o)' /\ c \notin solo' => o \in torn' \/ o \notin rows'
      BY <1>2, <1>7, <2>1, <2>3 DEF OwnerInv
    <3>6. ASSUME NEW c \in solo', Writing(c, o)'
          PROVE  /\ \A d \in Calls : Writing(d, o)' => d = c
                 /\ o \in rows' => Good(o, Left(c))'
                 /\ pc'[c] = "link" => Key(pick'[c]) \notin todo'[c]
      <4>1. c \in solo /\ Writing(c, o)
        BY <1>2, <1>7, <3>6
      <4>2. o \in rows' => Good(o, Left(c))
        BY <1>2, <2>1, <4>1 DEF OwnerInv
      <4>3. o \in rows' => Good(o, Left(c))'
        BY <1>8, <3>1, <4>2
      <4> QED
        BY <1>2, <1>7, <2>1, <4>1, <4>3 DEF OwnerInv
    <3> QED
      BY <3>3, <3>4, <3>5, <3>6 DEF OwnerInv
  <2> QED
    BY <2>2, <2>3
<1> QED
  BY <1>5, <1>6, <1>9 DEF LinkInv

-----------------------------------------------------------------------------
(* Theorems *)

LEMMA InitInv == Init => Inv
<1> SUFFICES ASSUME Init PROVE Inv
  OBVIOUS
<1>1. rows \subseteq Roles /\ rows \subseteq Things
  BY DEF Init, Things
<1>2. TablesOK
  BY <1>1, UsersAssumption DEF Init, TablesOK
<1>3. LocalsOK
  BY DEF Init, LocalsOK
<1>4. \A c \in Calls : pc[c] = "idle" /\ on[c] = None /\ pick[c] = None
  BY DEF Init
<1>5. TypeOK
  BY <1>2, <1>3, <1>4 DEF TypeOK, Working
<1>6. BirthInv
  BY <1>4, UsersAssumption DEF Init, BirthInv
<1>7. NameInv
  BY <1>4 DEF Init, NameInv, OneRowPerName, SameName
<1>8. LinkInv
  <2>1. \A o \in Things : Good(o, {}) /\ asked[o] = {}
    BY WholeStart DEF Init, Good
  <2>2. \A o \in Things, c \in Calls : ~Writing(c, o)
    BY <1>4 DEF Writing
  <2>3. \E r \in Roles \cap rows : NameOf[r] = Default
    BY <1>1 DEF Init
  <2>4. solo = {}
    BY DEF Init
  <2> QED
    BY <2>1, <2>2, <2>3, <2>4 DEF LinkInv, OwnerInv
<1> QED
  BY <1>5, <1>6, <1>7, <1>8 DEF Inv

LEMMA NextInv == Inv /\ [Next]_vars => Inv'
<1> SUFFICES ASSUME Inv, [Next]_vars PROVE Inv'
  OBVIOUS
<1>1. ASSUME NEW c \in Calls, Handle(c) PROVE Inv'
  BY <1>1, HandleTyped, HandleBirth, HandleNames, HandleLinks DEF Inv
<1>2. ASSUME NEW x \in Things, Delete(x) PROVE Inv'
  BY <1>2, DeleteTyped, DeleteBirthNames, DeleteLinks DEF Inv
<1>3. CASE UNCHANGED vars
  <2>1. UNCHANGED <<rows, fresh, links, pc, on, todo, pick, solo, asked, torn, default, raced, faults>>
    BY <1>3 DEF vars, locals, history
  <2>2. TypeOK'
    BY <2>1 DEF Inv, TypeOK, TablesOK, LocalsOK
  <2>3. BirthInv' /\ NameInv'
    BY <2>1 DEF Inv, BirthInv, NameInv, OneRowPerName
  <2>4. LinkInv'
    BY <2>1 DEF Inv, LinkInv, OwnerInv, Quiet, Good, Left, Writing
  <2> QED
    BY <2>2, <2>3, <2>4 DEF Inv
<1> QED
  BY <1>1, <1>2, <1>3 DEF Next

LEMMA Invariance == Spec => []Inv
  BY InitInv, NextInv, PTL DEF Spec

\* Links join rows that are there, and requests of users_router link only what
\* they found, however they interleave.
THEOREM UsersTypeCorrect == Spec => []TypeOK
<1>1. Inv => TypeOK
  BY DEF Inv
<1> QED
  BY <1>1, Invariance, PTL

\* Once update_user, update_role or create_user has had a row to itself, the row
\* has exactly the roles or permissions it was sent.
THEOREM LinksComeOutWhole == Spec => []LinksWhole
<1>1. Inv => LinksWhole
  BY DEF Inv, LinkInv, OwnerInv, Good, Whole, LinksWhole, Things
<1> QED
  BY <1>1, Invariance, PTL

\* Neither delete_role nor an update of roles takes the default role from a user
\* that was given it.
THEOREM DefaultRoleStays == Spec => []DefaultStays
<1>1. Inv => DefaultStays
  <2> SUFFICES ASSUME Inv, NEW o \in default, Quiet(o) PROVE \E r \in links[o] : NameOf[r] = Default
    BY DEF DefaultStays
  <2>1. o \in Users /\ o \in Things /\ links[o] \subseteq Roles
    BY DEF Inv, TypeOK, TablesOK, Things, ItemsOf
  <2>2. asked[o] = Keys(links[o]) /\ Default \in asked[o]
    BY <2>1 DEF Inv, LinkInv, OwnerInv, Good, Whole
  <2> QED
    BY <2>1, <2>2 DEF Keys, Key
<1> QED
  BY <1>1, Invariance, PTL

\* The check for a name before an insert is enough, unless two requests make it
\* at the same time.
THEOREM NamesAreUnique == Spec => []OneRowPerName
<1>1. Inv => OneRowPerName
  BY DEF Inv, NameInv
<1> QED
  BY <1>1, Invariance, PTL

=============================================================================
