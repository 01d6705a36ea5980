---------------------------- MODULE UsersRouter ----------------------------
(***************************************************************************)
(* Users, roles and permissions (agent/users_router.py, and register of    *)
(* agent/auth_router.py). A user has roles, a role has permissions; both   *)
(* link tables are rewritten row by row, each row by database calls of its *)
(* own, with no transaction around them.                                   *)
(*                                                                         *)
(* A request for a name in use or a row that is not there changes nothing  *)
(* and is left out, as are columns no other request decides by. A request  *)
(* names each role or permission once. The schema is external: it is taken *)
(* to refuse a link to a row that is not there and to drop the links of a  *)
(* deleted row; it may or may not refuse a second row of one name.         *)
(***************************************************************************)
EXTENDS Naturals, FiniteSets

CONSTANTS
    Users, Roles, Perms, \* ids, each used for one row
    NameOf,     \* email of a user, name of a role or permission
    BuiltIn,    \* role names "admin" and "user"
    Default,    \* role name "user"
    Calls,      \* requests being handled
    None,       \* no id
    MaxFaults   \* database calls that raise

Things == Users \cup Roles \cup Perms
RoleNames == {NameOf[r] : r \in Roles}
SameName(x, y) == NameOf[x] = NameOf[y] /\ \E S \in {Users, Roles, Perms} : x \in S /\ y \in S

\* What a row links to, and how a request refers to it: to roles by name, to
\* permissions by id.
ItemsOf(o) == IF o \in Users THEN Roles ELSE IF o \in Roles THEN Perms ELSE {}
Key(i) == IF i \in Roles THEN NameOf[i] ELSE i
Keys(I) == {Key(i) : i \in I}

ASSUME UsersAssumption ==
    /\ Users \cap Roles = {} /\ Roles \cap Perms = {} /\ Users \cap Perms = {}
    /\ None \notin Things
    /\ Default \in BuiltIn /\ MaxFaults \in Nat

VARIABLES
    rows,       \* ids with a row
    fresh,      \* ids not used yet
    links,      \* user_roles and role_permissions: what each row is linked to
    pc,         \* the next step of each request; its locals are:
    on,         \*   the id it works on
    todo,       \*   role names or permission ids still to link
    pick,       \*   role_res.data[0]["id"]
    solo,       \* history: requests that have had their owner to themselves
    asked,      \* history: what the last request to start on an owner is to link,
                \*   without what was not there or has been deleted since
    raced,      \* history: names that two requests at a time found unused
    torn,       \* history: owners whose links were written by requests in each other's way,
                \*   or by one that did not finish
    default,    \* history: users whose last such request is to link the default role
    faults      \* database calls that have raised

locals == <<on, todo, pick>>
history == <<solo, asked, torn, default, raced>>
vars == <<rows, fresh, links, pc, locals, history, faults>>

Init ==
    /\ rows \in SUBSET {r \in Roles : NameOf[r] \in BuiltIn}
    /\ \A x, y \in rows : NameOf[x] = NameOf[y] => x = y
    /\ \E r \in rows : NameOf[r] = Default
    /\ fresh = Things \ rows /\ links = [o \in Things |-> {}]
    /\ pc = [c \in Calls |-> "idle"] /\ on = [c \in Calls |-> None]
    /\ todo = [c \in Calls |-> {}] /\ pick = [c \in Calls |-> None]
    /\ solo = {} /\ asked = [x \in Things |-> {}] /\ torn = {}
    /\ default = {} /\ raced = {} /\ faults = 0

Writing(c, o) == on[c] = o /\ pc[c] \in {"next", "link"}

\* A request starts to write the links of o: with others at work, none of them
\* can know the result.
Starts(c, o, keys) ==
    LET others == {d \in Calls \ {c} : Writing(d, o)}
    IN  /\ solo' = (solo \ others) \cup (IF others = {} THEN {c} ELSE {})
        /\ torn' = IF others = {} THEN torn ELSE torn \cup {o}
        /\ asked' = [asked EXCEPT ![o] = keys]
        /\ default' = IF o \in Users /\ Default \in keys THEN default \cup {o} ELSE default \ {o}

\* The request ends with an error, and what it was to link is not all there.
Abort(c) ==
    /\ pc' = [pc EXCEPT ![c] = "idle"] /\ on' = [on EXCEPT ![c] = None]
    /\ todo' = [todo EXCEPT ![c] = {}] /\ pick' = [pick EXCEPT ![c] = None]
    /\ solo' = solo \ {c}
    /\ torn' = IF pc[c] \in {"next", "link"} THEN torn \cup {on[c]} ELSE torn

-----------------------------------------------------------------------------
(* Creating *)

\* Mutant: the name may be in use.
CreateUnchecked(c, x) ==
    /\ pc[c] = "idle" /\ x \in fresh
    /\ \E keys \in IF x \in Users THEN SUBSET RoleNames ELSE {{}} : todo' = [todo EXCEPT ![c] = keys]
    /\ pc' = [pc EXCEPT ![c] = "create"] /\ on' = [on EXCEPT ![c] = x]
    /\ fresh' = fresh \ {x}
    /\ raced' = IF \E d \in Calls : pc[d] = "create" /\ SameName(on[d], x)
                THEN raced \cup {NameOf[x]} ELSE raced
    /\ UNCHANGED <<rows, links, pick, solo, asked, torn, default, faults>>

\* register, create_user, create_role and create_permission look for the name.
\* register is to give the default role, create_user those it was sent.
Create(c, x) ==
    /\ pc[c] = "idle" /\ x \in fresh
    /\ ~\E y \in rows : SameName(x, y)
    /\ \E keys \in IF x \in Users THEN SUBSET RoleNames ELSE {{}} : todo' = [todo EXCEPT ![c] = keys]
    /\ pc' = [pc EXCEPT ![c] = "create"] /\ on' = [on EXCEPT ![c] = x]
    /\ fresh' = fresh \ {x}
    /\ raced' = IF \E d \in Calls : pc[d] = "create" /\ SameName(on[d], x)
                THEN raced \cup {NameOf[x]} ELSE raced
    /\ UNCHANGED <<rows, links, pick, solo, asked, torn, default, faults>>

\* The row of a user is inserted, and its roles are next.
InsertUser(c) ==
    /\ pc[c] = "create" /\ on[c] \in Users
    /\ rows' = rows \cup {on[c]}
    /\ Starts(c, on[c], todo[c])
    /\ pc' = [pc EXCEPT ![c] = "next"]
    /\ UNCHANGED <<fresh, links, locals, raced, faults>>

\* A role or a permission starts without links, and the request is answered.
InsertRow(c) ==
    /\ pc[c] = "create" /\ on[c] \notin Users
    /\ rows' = rows \cup {on[c]}
    /\ pc' = [pc EXCEPT ![c] = "idle"] /\ on' = [on EXCEPT ![c] = None]
    /\ UNCHANGED <<fresh, links, todo, pick, history, faults>>

\* The schema may refuse a second row of the name.
InsertRefused(c) ==
    /\ pc[c] = "create"
    /\ \E y \in rows : SameName(on[c], y)
    /\ Abort(c)
    /\ UNCHANGED <<rows, fresh, links, asked, default, raced, faults>>

-----------------------------------------------------------------------------
(* Replacing links *)

\* Mutant: the links that are there stay.
ReplaceAdds(c, o) ==
    /\ pc[c] = "idle" /\ o \in rows
    /\ \E keys \in SUBSET Keys(ItemsOf(o)) :
          /\ todo' = [todo EXCEPT ![c] = keys]
          /\ Starts(c, o, keys)
    /\ pc' = [pc EXCEPT ![c] = "next"] /\ on' = [on EXCEPT ![c] = o]
    /\ UNCHANGED <<rows, fresh, links, pick, raced, faults>>

\* update_user and update_role first delete all links of the row. (Permissions
\* asked for by an id that was never used are refused as deleted ones are.)
Replace(c, o) ==
    /\ pc[c] = "idle" /\ o \in rows
    /\ \E keys \in SUBSET Keys(ItemsOf(o)) :
          /\ todo' = [todo EXCEPT ![c] = keys]
          /\ Starts(c, o, keys)
    /\ links' = [links EXCEPT ![o] = {}]
    /\ pc' = [pc EXCEPT ![c] = "next"] /\ on' = [on EXCEPT ![c] = o]
    /\ UNCHANGED <<rows, fresh, pick, raced, faults>>

\* Mutant: a name that nobody has is not passed over.
SelectItemAnyway(c) ==
    /\ pc[c] = "next"
    /\ \E k \in todo[c] :
          LET found == {i \in ItemsOf(on[c]) : Key(i) = k /\ (i \in Roles => i \in rows)} IN
          /\ todo' = [todo EXCEPT ![c] = @ \ {k}]
          /\ \E i \in IF found = {} THEN {None} ELSE found : pick' = [pick EXCEPT ![c] = i]
          /\ pc' = [pc EXCEPT ![c] = "link"]
    /\ UNCHANGED <<rows, fresh, links, on, asked, solo, torn, default, raced, faults>>

\* The next role name is looked up; one that nobody has is passed over. A
\* permission id is taken as it is.
SelectItem(c) ==
    /\ pc[c] = "next"
    /\ \E k \in todo[c] :
          LET found == {i \in ItemsOf(on[c]) : Key(i) = k /\ (i \in Roles => i \in rows)} IN
          /\ todo' = [todo EXCEPT ![c] = @ \ {k}]
          /\ \/ /\ \E i \in found : pick' = [pick EXCEPT ![c] = i]
                /\ pc' = [pc EXCEPT ![c] = "link"]
                /\ UNCHANGED asked
             \/ /\ found = {}
                /\ asked' = [asked EXCEPT ![on[c]] = @ \ {k}]
                /\ UNCHANGED <<pc, pick>>
    /\ UNCHANGED <<rows, fresh, links, on, solo, torn, default, raced, faults>>

\* The link is inserted, if both rows are there.
InsertLink(c) ==
    /\ pc[c] = "link"
    /\ {on[c], pick[c]} \subseteq rows
    /\ links' = [links EXCEPT ![on[c]] = @ \cup {pick[c]}]
    /\ pc' = [pc EXCEPT ![c] = "next"] /\ pick' = [pick EXCEPT ![c] = None]
    /\ UNCHANGED <<rows, fresh, on, todo, history, faults>>

\* It is refused where one of them has gone; where the link is there already,
\* that is for the schema to decide.
LinkRefused(c) ==
    /\ pc[c] = "link"
    /\ ~({on[c], pick[c]} \subseteq rows) \/ pick[c] \in links[on[c]]
    /\ Abort(c)
    /\ UNCHANGED <<rows, fresh, links, asked, default, raced, faults>>

\* All are linked and the request is answered.
Answer(c) ==
    /\ pc[c] = "next" /\ todo[c] = {}
    /\ pc' = [pc EXCEPT ![c] = "idle"] /\ on' = [on EXCEPT ![c] = None]
    /\ solo' = solo \ {c}
    /\ torn' = IF c \in solo THEN torn \ {on[c]} ELSE torn
    /\ UNCHANGED <<rows, fresh, links, todo, pick, asked, default, raced, faults>>

\* A database call raises, before or after it took effect.
Fail(c) ==
    /\ pc[c] # "idle" /\ faults < MaxFaults
    /\ faults' = faults + 1
    /\ Abort(c)
    /\ UNCHANGED <<rows, fresh, links, asked, default, raced>>

-----------------------------------------------------------------------------
(* Deleting *)

\* Mutant: built-in roles go, too.
DeleteAny(x) ==
    /\ x \in rows
    /\ rows' = rows \ {x}
    /\ links' = [o \in Things |-> IF o = x THEN {} ELSE links[o] \ {x}]
    /\ asked' = [o \in Things |-> IF o = x THEN {}
                                 ELSE IF x \in links[o] THEN asked[o] \ {Key(x)} ELSE asked[o]]
    /\ torn' = torn \ {x} /\ default' = default \ {x}
    /\ UNCHANGED <<fresh, pc, locals, solo, raced, faults>>

\* delete_user, delete_permission, and delete_role, which spares built-in roles.
Delete(x) ==
    /\ x \in rows
    /\ ~(x \in Roles /\ NameOf[x] \in BuiltIn)
    /\ rows' = rows \ {x}
    /\ links' = [o \in Things |-> IF o = x THEN {} ELSE links[o] \ {x}]
    /\ asked' = [o \in Things |-> IF o = x THEN {}
                                 ELSE IF x \in links[o] THEN asked[o] \ {Key(x)} ELSE asked[o]]
    /\ torn' = torn \ {x} /\ default' = default \ {x}
    /\ UNCHANGED <<fresh, pc, locals, solo, raced, faults>>

-----------------------------------------------------------------------------
Handle(c) ==
    \/ \E x \in Things : Create(c, x)
    \/ InsertUser(c) \/ InsertRow(c) \/ InsertRefused(c)
    \/ \E o \in Users \cup Roles : Replace(c, o)
    \/ SelectItem(c) \/ InsertLink(c) \/ LinkRefused(c) \/ Answer(c) \/ Fail(c)

Next == (\E c \in Calls : Handle(c)) \/ (\E x \in Things : Delete(x))

Spec == Init /\ [][Next]_vars

-----------------------------------------------------------------------------
(* Properties *)

TablesOK ==
    /\ rows \subseteq Things /\ fresh \subseteq Things \ rows
    /\ links \in [Things -> SUBSET (Roles \cup Perms)]
    /\ \A o \in Things : links[o] \subseteq ItemsOf(o) \cap rows /\ (o \notin rows => links[o] = {})
    /\ solo \subseteq Calls /\ asked \in [Things -> SUBSET (RoleNames \cup Perms)]
    /\ torn \subseteq Things /\ default \subseteq Users /\ raced \subseteq {NameOf[x] : x \in Things}
    /\ faults \in 0..MaxFaults

LocalsOK ==
    /\ pc \in [Calls -> {"idle", "create", "next", "link"}]
    /\ on \in [Calls -> Things \cup {None}]
    /\ todo \in [Calls -> SUBSET (RoleNames \cup Perms)]
    /\ pick \in [Calls -> Roles \cup Perms \cup {None}]

\* What a request at step q on row o works with.
Working(q, o, ks, i) ==
    /\ q = "idle" <=> o = None
    /\ q \in {"next", "link"} => o \in Users \cup Roles
    /\ q # "idle" => ks \subseteq Keys(ItemsOf(o))
    /\ q = "link" => i \in ItemsOf(o)
    /\ q # "link" => i = None

\* Types of the tables and of the locals: a link joins rows that are there, and
\* a request links only what it found.
TypeOK == TablesOK /\ LocalsOK /\ \A c \in Calls : Working(pc[c], on[c], todo[c], pick[c])

Quiet(o) == o \in rows /\ o \notin torn /\ ~\E c \in Calls : Writing(c, o)

\* A row at rest has exactly the roles or permissions that the last request for
\* it was sent, whatever was deleted and created meanwhile, and whatever earlier
\* requests left half-done: only requests in each other's way and one that did
\* not finish leave anything else, until the next that has the row to itself.
LinksWhole == \A o \in Users \cup Roles : Quiet(o) => Keys(links[o]) = asked[o]

\* A registered user keeps the default role until a request without it: nothing
\* done to roles takes it away.
DefaultStays ==
    \A o \in default : Quiet(o) => \E r \in links[o] : NameOf[r] = Default

\* A name has one row in its table, unless two requests looked for it at the
\* same time.
OneRowPerName ==
    \A x, y \in rows : SameName(x, y) => x = y \/ NameOf[x] \in raced

=============================================================================
