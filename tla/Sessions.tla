----------------------------- MODULE Sessions -----------------------------
(***************************************************************************)
(* Sessions and passwords (agent/auth_router.py, agent/auth_deps.py): the  *)
(* refresh tokens that login issues and /refresh-token rotates, the roles  *)
(* an access token asserts, logout, password reset and password change.    *)
(*                                                                         *)
(* No transaction spans the database calls of a handler, so each call that *)
(* reads or writes what another handler can change is a step of its own.   *)
(* A request refused at its first read changes nothing and is left out.    *)
(* A token stands for its hash, an access token for its payload.           *)
(***************************************************************************)
EXTENDS Naturals, FiniteSets

CONSTANTS
    Users,      \* registered users; an id is never used again
    Calls,      \* requests being handled
    Tokens,     \* refresh tokens that may be issued
    Resets,     \* password reset tokens that may be issued
    None,       \* no token
    MaxPasswords, \* passwords a user ever has
    MaxEvents   \* database calls that raise and changes made by admins, together

ASSUME SessionsAssumption ==
    /\ None \notin Tokens \cup Resets /\ Tokens \cap Resets = {}
    /\ MaxPasswords \in Nat /\ MaxEvents \in Nat

VARIABLES
    users,      \* rows of users: there, is_active, is_verified, password
    admins,     \* users with the admin role in user_roles
    tokens,     \* rows of refresh_tokens
    access,     \* access tokens that have not expired
    resets,     \* rows of password_resets
    pc,         \* the next call of each request; its locals are:
    of,         \*   the user
    held,       \*   the row of the token it was sent
    session,    \*   history: the session of that token
    epoch,      \*   history: the password the session goes back to
    claim,      \*   roles
    marks,      \*   history: what overtook the request, see below
    ended,      \* history: sessions logged out with their newest token
    torn,       \* history: users whose last password change stopped before its revocation
    unmarked,   \* history: reset tokens whose marking failed after the password was written
    events      \* database calls that have raised, changes admins have made

rows == <<users, admins, tokens, access, resets>>
locals == <<of, held, session, epoch, claim, marks>>
vars == <<rows, pc, locals, ended, torn, unmarked, events>>

(* Passwords are numbered by the writes of hashed_password. The session of a   *)
(* refresh token is named by the one its login issued.                         *)
(*                                                                             *)
(* Marks tell a race from a wrong result. "beaten": another request consumed   *)
(* or revoked the refresh token this one had already read, or was busy with    *)
(* the reset token when this one read it. "outrun": all sessions of its user   *)
(* were revoked after it had read what entitles it to a new one. A refresh     *)
(* token has the marks of the request that issued it, a request those of the   *)
(* refresh token it was sent.                                                  *)
(*                                                                             *)
(* A claim "old" is "admin" whose user has lost the role since: the code does  *)
(* not tell the two apart.                                                     *)
Mark == {"beaten", "outrun"}
Claim == {"plain", "admin", "old"}
User == [there : BOOLEAN, active : BOOLEAN, verified : BOOLEAN, password : Nat]
Access == [user : Users, claim : Claim]
Token == [state : {"unused", "live", "dead"}, user : Users \cup {None}, session : Tokens \cup {None},
          epoch : Nat, marks : SUBSET Mark]
Reset == [state : {"unused", "open", "used"}, user : Users \cup {None}, uses : Nat]
NoToken(s) == [state |-> s, user |-> None, session |-> None, epoch |-> 0, marks |-> {}]
CallPc == {"idle", "rotate", "user", "roles", "insert", "write", "mark", "rewrite", "revokeAll"}

\* The steps at which a request has yet to issue tokens, and has yet to revoke.
Issuing == {"rotate", "user", "roles", "insert"}
Changing == {"mark", "revokeAll"}

Init ==
    /\ users \in [Users -> [there : {TRUE}, active : {TRUE}, verified : BOOLEAN, password : {1}]]
    /\ admins \in SUBSET Users
    /\ tokens = [t \in Tokens |-> NoToken("unused")] /\ access = {}
    /\ resets = [r \in Resets |-> [state |-> "unused", user |-> None, uses |-> 0]]
    /\ pc = [c \in Calls |-> "idle"]
    /\ of = [c \in Calls |-> None] /\ held = [c \in Calls |-> None]
    /\ session = [c \in Calls |-> None]
    /\ epoch = [c \in Calls |-> 0] /\ claim = [c \in Calls |-> "plain"]
    /\ marks = [c \in Calls |-> {}]
    /\ ended = {} /\ torn = {} /\ unmarked = {} /\ events = 0

\* get_current_active_user: an access token that has not expired, of a user row
\* that is there and active now. The token is not compared with refresh_tokens.
Authenticated(u) ==
    /\ users[u].there /\ users[u].active
    /\ \E a \in access : a.user = u

\* The rows S are revoked or expired; nothing else of them matters any more.
Revoked(S) ==
    [t \in Tokens |-> IF t \in S /\ tokens[t].state = "live" THEN NoToken("dead") ELSE tokens[t]]
Marked(S, m) == [d \in Calls |-> IF d \in S THEN marks[d] \cup {m} ELSE marks[d]]

\* The request is answered; its locals are gone.
Answer(c, m) ==
    /\ pc' = [pc EXCEPT ![c] = "idle"]
    /\ of' = [of EXCEPT ![c] = None] /\ held' = [held EXCEPT ![c] = None]
    /\ session' = [session EXCEPT ![c] = None]
    /\ epoch' = [epoch EXCEPT ![c] = 0] /\ claim' = [claim EXCEPT ![c] = "plain"]
    /\ marks' = [m EXCEPT ![c] = {}]

-----------------------------------------------------------------------------
(* Issuing tokens *)

\* login: the password, is_active and is_verified of the row it read are right.
Login(c) ==
    /\ pc[c] = "idle"
    /\ \E u \in Users :
          /\ users[u].there /\ users[u].active /\ users[u].verified
          /\ of' = [of EXCEPT ![c] = u]
          /\ epoch' = [epoch EXCEPT ![c] = users[u].password]
    /\ pc' = [pc EXCEPT ![c] = "roles"]
    /\ UNCHANGED <<rows, held, session, claim, marks, ended, torn, unmarked, events>>

\* refresh_token reads the row: there, not revoked, not expired.
Refresh(c) ==
    /\ pc[c] = "idle"
    /\ \E t \in Tokens :
          /\ tokens[t].state = "live"
          /\ held' = [held EXCEPT ![c] = t]
          /\ session' = [session EXCEPT ![c] = tokens[t].session]
          /\ of' = [of EXCEPT ![c] = tokens[t].user]
          /\ epoch' = [epoch EXCEPT ![c] = tokens[t].epoch]
          /\ marks' = [marks EXCEPT ![c] = tokens[t].marks]
    /\ pc' = [pc EXCEPT ![c] = "rotate"]
    /\ UNCHANGED <<rows, claim, ended, torn, unmarked, events>>

\* Mutant: the old token is not revoked.
RotateKeepsOld(c) ==
    /\ pc[c] = "rotate"
    /\ marks' = Marked({d \in Calls \ {c} : pc[d] = "rotate" /\ held[d] = held[c]}, "beaten")
    /\ pc' = [pc EXCEPT ![c] = "user"]
    /\ UNCHANGED <<rows, of, held, session, epoch, claim, ended, torn, unmarked, events>>

\* "Rotate: revoke old". Requests that have read the row and not revoked it yet
\* will all the same.
Rotate(c) ==
    /\ pc[c] = "rotate"
    /\ tokens' = Revoked({held[c]})
    /\ marks' = Marked({d \in Calls \ {c} : pc[d] = "rotate" /\ held[d] = held[c]}, "beaten")
    /\ pc' = [pc EXCEPT ![c] = "user"]
    /\ UNCHANGED <<users, admins, access, resets, of, held, session, epoch, claim, ended, torn, unmarked, events>>

\* The user must still be there and active, or the answer is 401.
LoadUser(c) ==
    /\ pc[c] = "user"
    /\ \/ /\ users[of[c]].there /\ users[of[c]].active
          /\ pc' = [pc EXCEPT ![c] = "roles"]
          /\ UNCHANGED locals
       \/ /\ ~users[of[c]].there \/ ~users[of[c]].active
          /\ Answer(c, marks)
    /\ UNCHANGED <<rows, ended, torn, unmarked, events>>

\* Mutant: the roles of an older access token are kept.
GetUserRolesOfToken(c) ==
    /\ pc[c] = "roles"
    /\ claim' = [claim EXCEPT ![c] =
                   IF of[c] \in admins \/ \E a \in access : a.user = of[c] /\ a.claim # "plain"
                   THEN "admin" ELSE "plain"]
    /\ pc' = [pc EXCEPT ![c] = "insert"]
    /\ UNCHANGED <<rows, of, held, session, epoch, marks, ended, torn, unmarked, events>>

\* _get_user_roles, for the access token.
GetUserRoles(c) ==
    /\ pc[c] = "roles"
    /\ claim' = [claim EXCEPT ![c] = IF of[c] \in admins THEN "admin" ELSE "plain"]
    /\ pc' = [pc EXCEPT ![c] = "insert"]
    /\ UNCHANGED <<rows, of, held, session, epoch, marks, ended, torn, unmarked, events>>

\* _build_token_response inserts the refresh token and returns the pair. The row
\* of a deleted user is refused by its foreign key (the schema is external).
InsertToken(c) ==
    /\ pc[c] = "insert"
    /\ \/ /\ users[of[c]].there
          /\ \E t \in Tokens :
                /\ tokens[t].state = "unused"
                /\ tokens' = [tokens EXCEPT ![t] =
                      [state |-> "live", user |-> of[c], epoch |-> epoch[c], marks |-> marks[c],
                       session |-> IF held[c] = None THEN t ELSE session[c]]]
          /\ access' = access \cup {[user |-> of[c], claim |-> claim[c]]}
       \/ ~users[of[c]].there /\ UNCHANGED <<tokens, access>>
    /\ Answer(c, marks)
    /\ UNCHANGED <<users, admins, resets, ended, torn, unmarked, events>>

\* Mutant: only the access token of the caller ends.
LogoutOfAccess ==
    /\ \E u \in Users : Authenticated(u) /\ access' = {a \in access : a.user # u}
    /\ \E t \in Tokens :
          /\ tokens[t].state # "unused"
          /\ marks' = Marked({d \in Calls : pc[d] \in Issuing /\ held[d] = t}, "beaten")
          /\ ended' = IF tokens[t].state = "live" /\ "beaten" \notin tokens[t].marks
                      THEN ended \cup {tokens[t].session} ELSE ended
    /\ UNCHANGED <<users, admins, tokens, resets, pc, of, held, session, epoch, claim, torn, unmarked, events>>

\* logout by an authenticated user, of the refresh token in its body.
Logout ==
    /\ \E u \in Users : Authenticated(u)
    /\ \E t \in Tokens :
          /\ tokens[t].state # "unused"
          /\ tokens' = Revoked({t})
          /\ marks' = Marked({d \in Calls : pc[d] \in Issuing /\ held[d] = t}, "beaten")
          /\ ended' = IF tokens[t].state = "live" /\ "beaten" \notin tokens[t].marks
                      THEN ended \cup {tokens[t].session} ELSE ended
    /\ UNCHANGED <<users, admins, access, resets, pc, of, held, session, epoch, claim, torn, unmarked, events>>

-----------------------------------------------------------------------------
(* Passwords *)

\* forgot_password of a known address.
ForgotPassword ==
    /\ \E u \in Users, r \in Resets :
          /\ users[u].there /\ resets[r].state = "unused"
          /\ resets' = [resets EXCEPT ![r].state = "open", ![r].user = u]
    /\ UNCHANGED <<users, admins, tokens, access, pc, locals, ended, torn, unmarked, events>>

\* A request has read the reset token r and not marked it yet.
InUse(r) == \E d \in Calls : pc[d] \in {"write", "mark"} /\ held[d] = r

\* Mutant: a used token is accepted.
ResetPasswordUnchecked(c) ==
    /\ pc[c] = "idle"
    /\ \E r \in Resets :
          /\ resets[r].state \in {"open", "used"} /\ resets[r].user # None
          /\ held' = [held EXCEPT ![c] = r] /\ of' = [of EXCEPT ![c] = resets[r].user]
          /\ marks' = [marks EXCEPT ![c] = IF InUse(r) THEN {"beaten"} ELSE {}]
    /\ pc' = [pc EXCEPT ![c] = "write"]
    /\ UNCHANGED <<rows, session, epoch, claim, ended, torn, unmarked, events>>

\* reset_password reads the row: there, not used, not expired.
ResetPassword(c) ==
    /\ pc[c] = "idle"
    /\ \E r \in Resets :
          /\ resets[r].state = "open"
          /\ held' = [held EXCEPT ![c] = r] /\ of' = [of EXCEPT ![c] = resets[r].user]
          /\ marks' = [marks EXCEPT ![c] = IF InUse(r) THEN {"beaten"} ELSE {}]
    /\ pc' = [pc EXCEPT ![c] = "write"]
    /\ UNCHANGED <<rows, session, epoch, claim, ended, torn, unmarked, events>>

\* change_password: the current password was right in the row the dependency read.
ChangePassword(c) ==
    /\ pc[c] = "idle"
    /\ \E u \in Users :
          /\ Authenticated(u)
          /\ of' = [of EXCEPT ![c] = u]
    /\ pc' = [pc EXCEPT ![c] = "rewrite"]
    /\ UNCHANGED <<rows, held, session, epoch, claim, marks, ended, torn, unmarked, events>>

\* The passwords a reset token has set are counted, those of a beaten request aside.
Counted(c) ==
    IF pc[c] = "write" /\ "beaten" \notin marks[c] THEN [resets EXCEPT ![held[c]].uses = @ + 1] ELSE resets

\* Both write hashed_password, where the row is still there.
WritePassword(c) ==
    LET u == of[c] IN
    /\ pc[c] \in {"write", "rewrite"}
    /\ \/ /\ users[u].there /\ users[u].password < MaxPasswords
          /\ users' = [users EXCEPT ![u].password = @ + 1]
          /\ resets' = Counted(c)
       \/ ~users[u].there /\ UNCHANGED <<users, resets>>
    /\ pc' = [pc EXCEPT ![c] = IF @ = "write" THEN "mark" ELSE "revokeAll"]
    /\ UNCHANGED <<admins, tokens, access, locals, ended, torn, unmarked, events>>

\* reset_password goes on with used = TRUE, in a call of its own.
MarkUsed(c) ==
    /\ pc[c] = "mark"
    /\ resets' = [resets EXCEPT ![held[c]].state = "used"]
    /\ pc' = [pc EXCEPT ![c] = "revokeAll"]
    /\ UNCHANGED <<users, admins, tokens, access, locals, ended, torn, unmarked, events>>

\* Mutant: the sessions stay.
RevokeNothing(c) ==
    /\ pc[c] = "revokeAll"
    /\ Answer(c, Marked({d \in Calls \ {c} : pc[d] \in Issuing /\ of[d] = of[c]}, "outrun"))
    /\ torn' = torn \ {of[c]}
    /\ UNCHANGED <<rows, ended, unmarked, events>>

\* Both end by revoking all refresh tokens of the user.
RevokeAll(c) ==
    /\ pc[c] = "revokeAll"
    /\ tokens' = Revoked({t \in Tokens : tokens[t].user = of[c]})
    /\ Answer(c, Marked({d \in Calls \ {c} : pc[d] \in Issuing /\ of[d] = of[c]}, "outrun"))
    /\ torn' = torn \ {of[c]}
    /\ UNCHANGED <<users, admins, access, resets, ended, unmarked, events>>

\* What the environment does is bounded in number.
Happens == events < MaxEvents /\ events' = events + 1

\* A database call raises, before or after it took effect: the answer is 500.
Fail(c) ==
    /\ pc[c] # "idle"
    /\ Happens
    /\ Answer(c, marks)
    /\ torn' = IF pc[c] \in Changing THEN torn \cup {of[c]} ELSE torn
    /\ unmarked' = IF pc[c] = "mark" THEN unmarked \cup {held[c]} ELSE unmarked
    /\ UNCHANGED <<rows, ended>>

-----------------------------------------------------------------------------
(* Time, and what the user administration does (UsersRouter) *)

\* expires_at of a refresh token passes.
ExpireRefresh(t) ==
    /\ tokens[t].state = "live"
    /\ tokens' = Revoked({t})
    /\ UNCHANGED <<users, admins, access, resets, pc, locals, ended, torn, unmarked, events>>

\* exp of an access token passes.
ExpireAccess(a) ==
    /\ access' = access \ {a}
    /\ UNCHANGED <<users, admins, tokens, resets, pc, locals, ended, torn, unmarked, events>>

\* expires_at of a reset token passes: it is refused as a used one is.
ExpireReset(r) ==
    /\ resets[r].state = "open"
    /\ resets' = [resets EXCEPT ![r].state = "used"]
    /\ UNCHANGED <<users, admins, tokens, access, pc, locals, ended, torn, unmarked, events>>

\* verify_email. resend_verification issues a code whenever the user is not
\* verified, so the rows of codes are not kept.
VerifyEmail(u) ==
    /\ users[u].there /\ ~users[u].verified
    /\ users' = [users EXCEPT ![u].verified = TRUE]
    /\ UNCHANGED <<admins, tokens, access, resets, pc, locals, ended, torn, unmarked, events>>

\* update_user with is_active.
SetActive(u) ==
    /\ users[u].there
    /\ users' = [users EXCEPT ![u].active = ~@]
    /\ Happens
    /\ UNCHANGED <<admins, tokens, access, resets, pc, locals, ended, torn, unmarked>>

\* The admin role is given.
Promote(u) ==
    /\ users[u].there /\ u \notin admins
    /\ admins' = admins \cup {u}
    /\ Happens
    /\ UNCHANGED <<users, tokens, access, resets, pc, locals, ended, torn, unmarked>>

\* Old claims: the access tokens and the requests that assert the admin role of u.
Aged(x) == IF x = "admin" THEN "old" ELSE x
AgeClaims(u) ==
    /\ access' = {IF a.user = u THEN [a EXCEPT !.claim = Aged(@)] ELSE a : a \in access}
    /\ claim' = [c \in Calls |-> IF of[c] = u THEN Aged(claim[c]) ELSE claim[c]]

\* The admin role is taken away.
Demote(u) ==
    /\ u \in admins
    /\ admins' = admins \ {u}
    /\ AgeClaims(u)
    /\ Happens
    /\ UNCHANGED <<users, tokens, resets, pc, of, held, session, epoch, marks, ended, torn, unmarked>>

\* delete_user: one DELETE; the rows that refer to the user go with it (external).
DeleteUser(u) ==
    /\ users[u].there
    /\ users' = [users EXCEPT ![u].there = FALSE] /\ admins' = admins \ {u}
    /\ tokens' = Revoked({t \in Tokens : tokens[t].user = u})
    /\ resets' = [r \in Resets |-> IF resets[r].user = u /\ resets[r].state = "open"
                                   THEN [resets[r] EXCEPT !.state = "used"] ELSE resets[r]]
    /\ Happens
    /\ UNCHANGED <<access, pc, locals, ended, torn, unmarked>>

-----------------------------------------------------------------------------
Handle(c) ==
    \/ Login(c) \/ Refresh(c) \/ Rotate(c) \/ LoadUser(c) \/ GetUserRoles(c) \/ InsertToken(c)
    \/ ResetPassword(c) \/ ChangePassword(c) \/ WritePassword(c) \/ MarkUsed(c) \/ RevokeAll(c)
    \/ Fail(c)

Next ==
    \/ \E c \in Calls : Handle(c)
    \/ Logout \/ ForgotPassword
    \/ \E t \in Tokens : ExpireRefresh(t)
    \/ \E a \in access : ExpireAccess(a)
    \/ \E r \in Resets : ExpireReset(r)
    \/ \E u \in Users : VerifyEmail(u) \/ SetActive(u) \/ Promote(u) \/ Demote(u) \/ DeleteUser(u)

Spec == Init /\ [][Next]_vars

-----------------------------------------------------------------------------
(* Properties *)

TablesOK ==
    /\ users \in [Users -> User] /\ admins \subseteq Users
    /\ tokens \in [Tokens -> Token] /\ access \subseteq Access /\ resets \in [Resets -> Reset]
    /\ ended \subseteq Tokens /\ torn \subseteq Users /\ unmarked \subseteq Resets /\ events \in 0..MaxEvents

LocalsOK ==
    /\ pc \in [Calls -> CallPc] /\ of \in [Calls -> Users \cup {None}]
    /\ held \in [Calls -> Tokens \cup Resets \cup {None}]
    /\ session \in [Calls -> Tokens \cup {None}]
    /\ epoch \in [Calls -> Nat] /\ claim \in [Calls -> Claim] /\ marks \in [Calls -> SUBSET Mark]

\* What a request at step q with user o, row h and session s works with.
Working(q, o, h, s) ==
    /\ q = "idle" => h = None
    /\ q # "idle" => o \in Users
    /\ q \in Issuing => h \in Tokens \cup {None}
    /\ q \in {"rotate", "user"} => h \in Tokens
    /\ q \in {"write", "mark"} => h \in Resets
    /\ h \in Tokens => s \in Tokens

\* Types of the tables and of the locals: a request works for a user, a refresh
\* or a reset holds the row it read, and a live token belongs to a session.
TypeOK ==
    /\ TablesOK /\ LocalsOK
    /\ \A c \in Calls : Working(pc[c], of[c], held[c], session[c])
    /\ \A t \in Tokens : tokens[t].state = "live" => tokens[t].user \in Users /\ tokens[t].session \in Tokens
    /\ \A r \in Resets : resets[r].state = "open" => resets[r].user \in Users

\* A password of u has been written and the sessions are about to be revoked.
PasswordChanging(u) == \E c \in Calls : of[c] = u /\ pc[c] \in Changing

\* A live refresh token goes back to the present password of its user. The
\* exceptions are the moment of a change, a change that failed half-way, and
\* a session issued by a request the revocation outran.
SessionsFollowPassword ==
    \A t \in Tokens : tokens[t].state = "live" =>
        \/ tokens[t].epoch = users[tokens[t].user].password
        \/ "outrun" \in tokens[t].marks
        \/ tokens[t].user \in torn \/ PasswordChanging(tokens[t].user)

Unbeaten(t) == tokens[t].state = "live" /\ "beaten" \notin tokens[t].marks

\* Rotation hands a session on: it never has two live refresh tokens, whatever
\* the order of rotations, logouts and failures, unless two requests used one
\* token at the same time.
OneTokenPerSession ==
    \A t1, t2 \in Tokens :
        Unbeaten(t1) /\ Unbeaten(t2) /\ tokens[t1].session = tokens[t2].session => t1 = t2

\* A session that was logged out with its live token has no live token again,
\* unless a refresh of that token was on its way.
LogoutEndsSession == \A t \in Tokens : Unbeaten(t) => tokens[t].session \notin ended

\* An access token that asserts the admin role for a user without it is from
\* before the role was taken, or from a request that had read it before: no
\* refresh prolongs a lost role.
AdminClaimIsEarned ==
    \A a \in access : a.claim = "admin" /\ users[a.user].there => a.user \in admins

\* A reset token sets one password: no request that begins when another is through
\* with the token sets a second, unless the call that marks the token used failed
\* after the password was written. (Requests that read the token while another is
\* busy with it are not counted.)
ResetOnce == \A r \in Resets : resets[r].uses <= 1 \/ r \in unmarked

\* Claimed by "Password reset, all sessions revoked": after a change no live
\* refresh token goes back to an older password.
ResetRevokesAll ==
    \A t \in Tokens : tokens[t].state = "live" /\ ~PasswordChanging(tokens[t].user) =>
        tokens[t].epoch = users[tokens[t].user].password \/ tokens[t].user \in torn

\* Claimed by "Generate a short-lived one-time token": requests that come one after
\* the other set one password with a reset token, failures or not.
OneTimeToken == \A r \in Resets : resets[r].uses <= 1

\* Claimed by "New token pair issued, old refresh token revoked": a session has
\* one live refresh token.
RotationIsExclusive ==
    \A t1, t2 \in Tokens :
        /\ tokens[t1].state = "live" /\ tokens[t2].state = "live"
        /\ tokens[t1].session = tokens[t2].session
        => t1 = t2

=============================================================================
