--------------------------- MODULE SessionsProofs ---------------------------
(***************************************************************************)
(* Proofs about Sessions, for any number of users, requests, tokens,       *)
(* password changes and failures: sessions follow the password, rotation   *)
(* hands a session on, logout ends it, a reset token works once, and an    *)
(* admin claim is earned.                                                  *)
(*                                                                         *)
(* A live refresh token and a request that is to issue one carry their     *)
(* session. The invariants say of the requests under way what the          *)
(* properties say of the tokens.                                           *)
(***************************************************************************)
EXTENDS Sessions, TLAPS

\* Revoking keeps the table typed, and touches no token that is not live.
LEMMA RevokedTyped ==
    ASSUME tokens \in [Tokens -> Token], NEW S
    PROVE  /\ Revoked(S) \in [Tokens -> Token]
           /\ \A t \in Tokens : Revoked(S)[t].state = "live" => Revoked(S)[t] = tokens[t] /\ t \notin S
           /\ \A t \in Tokens : Revoked(S)[t].state = "unused" <=> tokens[t].state = "unused"
<1>1. NoToken("dead") \in Token
  BY SMT DEF NoToken, Token
<1>2. \A t \in Tokens : Revoked(S)[t] = IF t \in S /\ tokens[t].state = "live" THEN NoToken("dead") ELSE tokens[t]
  BY DEF Revoked
<1>3. NoToken("dead").state = "dead"
  BY DEF NoToken
<1>4. Revoked(S) = [t \in Tokens |-> Revoked(S)[t]]
  BY DEF Revoked
<1>5. \A t \in Tokens : Revoked(S)[t] \in Token
  BY <1>1, <1>2
<1> QED
  BY <1>2, <1>3, <1>4, <1>5

\* Marks are added to the marks that are there.
LEMMA MarkedTyped ==
    ASSUME marks \in [Calls -> SUBSET Mark], NEW S, NEW m \in Mark
    PROVE  /\ Marked(S, m) \in [Calls -> SUBSET Mark]
           /\ \A d \in Calls : Marked(S, m)[d] = IF d \in S THEN marks[d] \cup {m} ELSE marks[d]
           /\ \A d \in Calls : marks[d] \subseteq Marked(S, m)[d]
  BY DEF Marked

\* A request that is answered leaves the locals typed.
LEMMA AnswerTyped ==
    ASSUME LocalsOK, NEW c \in Calls, NEW m \in [Calls -> SUBSET Mark], Answer(c, m)
    PROVE  /\ LocalsOK'
           /\ pc'[c] = "idle" /\ held'[c] = None
           /\ \A d \in Calls \ {c} :
                 /\ pc'[d] = pc[d] /\ of'[d] = of[d] /\ held'[d] = held[d] /\ session'[d] = session[d]
                 /\ epoch'[d] = epoch[d] /\ claim'[d] = claim[d] /\ marks'[d] = m[d]
<1>1. "idle" \in CallPc /\ "plain" \in Claim /\ 0 \in Nat /\ {} \in SUBSET Mark
  BY DEF CallPc, Claim
<1> QED
  BY <1>1 DEF LocalsOK, Answer

\* The parts of TypeOK about rows that others refer to.
LiveOK == \A t \in Tokens : tokens[t].state = "live" => tokens[t].user \in Users /\ tokens[t].session \in Tokens
OpenOK == \A r \in Resets : resets[r].state = "open" => resets[r].user \in Users
WorkingOK == \A c \in Calls : Working(pc[c], of[c], held[c], session[c])

\* Initially there are users, and nothing is issued.
LEMMA InitTyped == Init => TypeOK
<1> SUFFICES ASSUME Init PROVE TypeOK
  OBVIOUS
<1> USE SessionsAssumption DEF Init
<1>1. NoToken("unused") \in Token /\ NoToken("unused").state = "unused"
  BY SMT DEF NoToken, Token
<1>2. users \in [Users -> User]
  <2>1. [there : {TRUE}, active : {TRUE}, verified : BOOLEAN, password : {1}] \subseteq User
    <3>1. {TRUE} \subseteq BOOLEAN /\ {1} \subseteq Nat
      OBVIOUS
    <3> QED
      BY <3>1, Zenon DEF User
  <2> QED
    BY <2>1
<1>3. resets \in [Resets -> Reset]
  BY DEF Reset
<1>4. TablesOK
  BY <1>1, <1>2, <1>3 DEF TablesOK
<1>5. LocalsOK
  BY DEF LocalsOK, CallPc, Claim
<1>6. WorkingOK
  BY DEF WorkingOK, Working, Issuing
<1> QED
  BY <1>1, <1>4, <1>5, <1>6 DEF TypeOK, WorkingOK

\* A step of a request that changes its locals only at the request itself.
LEMMA LoginTyped ==
    ASSUME TypeOK, NEW c \in Calls, Login(c) \/ Refresh(c) \/ ResetPassword(c) \/ ChangePassword(c)
    PROVE  LocalsOK' /\ WorkingOK'
<1>1. CASE Login(c)
  <2>1. PICK u \in Users : of' = [of EXCEPT ![c] = u] /\ epoch' = [epoch EXCEPT ![c] = users[u].password]
    BY <1>1 DEF Login
  <2>2. users[u].password \in Nat
    BY DEF TypeOK, TablesOK, User
  <2>3. pc[c] = "idle" /\ pc' = [pc EXCEPT ![c] = "roles"] /\ UNCHANGED <<held, session, claim, marks>>
    BY <1>1 DEF Login
  <2>4. LocalsOK'
    BY <2>1, <2>2, <2>3 DEF TypeOK, LocalsOK, CallPc
  <2>5. held[c] = None /\ None \notin Tokens
    BY <2>3, SessionsAssumption DEF TypeOK, Working
  <2> QED
    BY <2>1, <2>3, <2>4, <2>5 DEF TypeOK, LocalsOK, WorkingOK, Working, Issuing
<1>2. CASE Refresh(c)
  <2>1. PICK t \in Tokens :
            /\ tokens[t].state = "live" /\ held' = [held EXCEPT ![c] = t]
            /\ session' = [session EXCEPT ![c] = tokens[t].session]
            /\ of' = [of EXCEPT ![c] = tokens[t].user]
            /\ epoch' = [epoch EXCEPT ![c] = tokens[t].epoch]
            /\ marks' = [marks EXCEPT ![c] = tokens[t].marks]
    BY <1>2 DEF Refresh
  <2>2. tokens[t].user \in Users /\ tokens[t].session \in Tokens /\ tokens[t].epoch \in Nat /\ tokens[t].marks \in SUBSET Mark
    BY <2>1 DEF TypeOK, TablesOK, Token
  <2>3. pc' = [pc EXCEPT ![c] = "rotate"] /\ UNCHANGED claim
    BY <1>2 DEF Refresh
  <2>4. LocalsOK'
    BY <2>1, <2>2, <2>3 DEF TypeOK, LocalsOK, CallPc
  <2> QED
    BY <2>1, <2>2, <2>3, <2>4 DEF TypeOK, LocalsOK, WorkingOK, Working, Issuing
<1>3. CASE ResetPassword(c)
  <2>1. PICK r \in Resets : /\ resets[r].state = "open" /\ held' = [held EXCEPT ![c] = r]
                            /\ of' = [of EXCEPT ![c] = resets[r].user]
                            /\ marks' = [marks EXCEPT ![c] = IF InUse(r) THEN {"beaten"} ELSE {}]
    BY <1>3 DEF ResetPassword
  <2>2. resets[r].user \in Users /\ r \notin Tokens
    BY <2>1, SessionsAssumption DEF TypeOK
  <2>3. pc' = [pc EXCEPT ![c] = "write"] /\ UNCHANGED <<session, epoch, claim>>
    BY <1>3 DEF ResetPassword
  <2>m. marks' \in [Calls -> SUBSET Mark]
    BY <2>1 DEF TypeOK, LocalsOK, Mark
  <2>4. LocalsOK'
    BY <2>1, <2>2, <2>3, <2>m DEF TypeOK, LocalsOK, CallPc
  <2> QED
    BY <2>1, <2>2, <2>3, <2>4 DEF TypeOK, LocalsOK, WorkingOK, Working, Issuing
<1>4. CASE ChangePassword(c)
  <2>1. PICK u \in Users : of' = [of EXCEPT ![c] = u]
    BY <1>4 DEF ChangePassword
  <2>2. pc[c] = "idle" /\ pc' = [pc EXCEPT ![c] = "rewrite"] /\ UNCHANGED <<held, session, epoch, claim, marks>>
    BY <1>4 DEF ChangePassword
  <2>3. LocalsOK'
    BY <2>1, <2>2 DEF TypeOK, LocalsOK, CallPc
  <2>4. held[c] = None /\ None \notin Tokens
    BY <2>2, SessionsAssumption DEF TypeOK, Working
  <2> QED
    BY <2>1, <2>2, <2>3, <2>4 DEF TypeOK, LocalsOK, WorkingOK, Working, Issuing
<1> QED
  BY <1>1, <1>2, <1>3, <1>4

\* A request that is answered works no more, and the others as before.
LEMMA AnswerWorking ==
    ASSUME TypeOK, NEW c \in Calls, NEW m \in [Calls -> SUBSET Mark], Answer(c, m)
    PROVE  LocalsOK' /\ WorkingOK'
<1>1. LocalsOK
  BY DEF TypeOK
<1>2. Working(pc'[c], of'[c], held'[c], session'[c])
  BY <1>1, AnswerTyped, SessionsAssumption DEF Working, Issuing
<1>3. \A d \in Calls \ {c} : Working(pc'[d], of'[d], held'[d], session'[d])
  BY <1>1, AnswerTyped DEF TypeOK
<1> QED
  BY <1>1, <1>2, <1>3, AnswerTyped DEF WorkingOK

\* The step of a request to its next call, with other locals as they are.
LEMMA AdvanceWorking ==
    ASSUME TypeOK, NEW c \in Calls, NEW q \in CallPc, pc' = [pc EXCEPT ![c] = q],
           UNCHANGED <<of, held, session, epoch>>, claim' \in [Calls -> Claim], marks' \in [Calls -> SUBSET Mark],
           Working(q, of[c], held[c], session[c])
    PROVE  LocalsOK' /\ WorkingOK'
<1>1. LocalsOK'
  BY DEF TypeOK, LocalsOK
<1>2. \A d \in Calls : pc'[d] = IF d = c THEN q ELSE pc[d]
  BY DEF TypeOK, LocalsOK
<1> QED
  BY <1>1, <1>2 DEF TypeOK, WorkingOK

\* Revoking keeps the tables typed.
LEMMA RevokeTables ==
    ASSUME TypeOK, NEW S, tokens' = Revoked(S)
    PROVE  tokens' \in [Tokens -> Token] /\ LiveOK'
<1>1. tokens \in [Tokens -> Token]
  BY DEF TypeOK, TablesOK
<1> QED
  BY <1>1, RevokedTyped DEF TypeOK, LiveOK

\* The writes of users keep the table typed.
LEMMA UserTyped ==
    ASSUME users \in [Users -> User], NEW u \in Users, NEW a \in BOOLEAN, NEW n \in Nat
    PROVE  /\ [users EXCEPT ![u].there = a] \in [Users -> User]
           /\ [users EXCEPT ![u].active = a] \in [Users -> User]
           /\ [users EXCEPT ![u].verified = a] \in [Users -> User]
           /\ [users EXCEPT ![u].password = n] \in [Users -> User]
  BY DEF User

\* Each step of a request keeps TypeOK.
LEMMA HandleTyped ==
    ASSUME TypeOK, NEW c \in Calls, Handle(c)
    PROVE  TypeOK'
<1>0. TablesOK /\ LocalsOK /\ LiveOK /\ OpenOK /\ WorkingOK
  BY DEF TypeOK, LiveOK, OpenOK, WorkingOK
<1>a. marks \in [Calls -> SUBSET Mark]
  BY <1>0 DEF LocalsOK
<1>b. Working(pc[c], of[c], held[c], session[c])
  BY <1>0 DEF WorkingOK
<1>c. SUFFICES TablesOK' /\ LiveOK' /\ OpenOK' /\ LocalsOK' /\ WorkingOK'
  BY DEF TypeOK, LiveOK, OpenOK, WorkingOK
<1>1. CASE Login(c) \/ Refresh(c) \/ ResetPassword(c) \/ ChangePassword(c)
  <2>1. UNCHANGED <<rows, ended, torn, unmarked, events>>
    BY <1>1 DEF Login, Refresh, ResetPassword, ChangePassword
  <2>2. TablesOK' /\ LiveOK' /\ OpenOK'
    BY <1>0, <2>1 DEF TablesOK, LiveOK, OpenOK, rows
  <2> QED
    BY <1>1, <2>2, LoginTyped
<1>2. CASE Rotate(c)
  <2>1. tokens' = Revoked({held[c]}) /\ UNCHANGED <<users, admins, access, resets, ended, torn, unmarked, events>>
    BY <1>2 DEF Rotate
  <2>2. TablesOK' /\ LiveOK' /\ OpenOK'
    BY <1>0, <2>1, RevokeTables DEF TablesOK, OpenOK
  <2>3. marks' \in [Calls -> SUBSET Mark]
    BY <1>2, <1>a, MarkedTyped DEF Rotate, Mark
  <2>4. Working("user", of[c], held[c], session[c])
    BY <1>2, <1>b DEF Rotate, Working, Issuing
  <2>5. pc' = [pc EXCEPT ![c] = "user"] /\ UNCHANGED <<of, held, session, epoch, claim>> /\ "user" \in CallPc
    BY <1>2 DEF Rotate, CallPc
  <2> QED
    BY <1>0, <2>2, <2>3, <2>4, <2>5, AdvanceWorking DEF LocalsOK
<1>3. CASE LoadUser(c)
  <2>1. UNCHANGED <<rows, ended, torn, unmarked, events>>
    BY <1>3 DEF LoadUser
  <2>2. TablesOK' /\ LiveOK' /\ OpenOK'
    BY <1>0, <2>1 DEF TablesOK, LiveOK, OpenOK, rows
  <2>3. CASE Answer(c, marks)
    BY <1>a, <2>2, <2>3, AnswerWorking
  <2>4. CASE pc' = [pc EXCEPT ![c] = "roles"] /\ UNCHANGED locals
    <3>1. Working("roles", of[c], held[c], session[c]) /\ "roles" \in CallPc
      BY <1>3, <1>b DEF LoadUser, Working, Issuing, CallPc
    <3> QED
      BY <1>0, <2>2, <2>4, <3>1, AdvanceWorking DEF LocalsOK, locals
  <2> QED
    BY <1>3, <2>3, <2>4 DEF LoadUser
<1>4. CASE GetUserRoles(c)
  <2>1. UNCHANGED <<rows, ended, torn, unmarked, events>>
    BY <1>4 DEF GetUserRoles
  <2>2. TablesOK' /\ LiveOK' /\ OpenOK'
    BY <1>0, <2>1 DEF TablesOK, LiveOK, OpenOK, rows
  <2>3. claim' \in [Calls -> Claim]
    BY <1>0, <1>4 DEF GetUserRoles, LocalsOK, Claim
  <2>4. Working("insert", of[c], held[c], session[c]) /\ "insert" \in CallPc
    BY <1>4, <1>b DEF GetUserRoles, Working, Issuing, CallPc
  <2>5. pc' = [pc EXCEPT ![c] = "insert"] /\ UNCHANGED <<of, held, session, epoch, marks>>
    BY <1>4 DEF GetUserRoles
  <2> QED
    BY <1>a, <2>2, <2>3, <2>4, <2>5, AdvanceWorking
<1>5. CASE InsertToken(c)
  <2>1. LocalsOK' /\ WorkingOK'
    BY <1>5, <1>a, AnswerWorking DEF InsertToken
  <2>2. UNCHANGED <<users, admins, resets, ended, torn, unmarked, events>>
    BY <1>5 DEF InsertToken
  <2>3. of[c] \in Users /\ epoch[c] \in Nat /\ claim[c] \in Claim /\ marks[c] \in SUBSET Mark
    BY <1>0, <1>5, <1>b DEF InsertToken, Working, LocalsOK
  <2>4. tokens' \in [Tokens -> Token] /\ access' \subseteq Access /\ LiveOK'
    <3>1. CASE UNCHANGED <<tokens, access>>
      BY <1>0, <3>1 DEF TablesOK, LiveOK
    <3>2. ASSUME NEW t \in Tokens,
                 tokens' = [tokens EXCEPT ![t] =
                      [state |-> "live", user |-> of[c], epoch |-> epoch[c], marks |-> marks[c],
                       session |-> IF held[c] = None THEN t ELSE session[c]]],
                 access' = access \cup {[user |-> of[c], claim |-> claim[c]]}
          PROVE  tokens' \in [Tokens -> Token] /\ access' \subseteq Access /\ LiveOK'
      <4> DEFINE s == IF held[c] = None THEN t ELSE session[c]
                 row == [state |-> "live", user |-> of[c], epoch |-> epoch[c], marks |-> marks[c], session |-> s]
      <4>1. s \in Tokens
        BY <1>5, <1>b DEF InsertToken, Working, Issuing
      <4> HIDE DEF s
      <4>2. row \in Token
        BY <2>3, <4>1 DEF Token
      <4>3. tokens' = [tokens EXCEPT ![t] = row]
        BY <3>2 DEF s
      <4>4. row.state = "live" /\ row.user = of[c] /\ row.session = s
        OBVIOUS
      <4> HIDE DEF row
      <4>5. tokens' \in [Tokens -> Token]
        BY <1>0, <4>2, <4>3 DEF TablesOK
      <4>6. \A x \in Tokens : tokens'[x] = IF x = t THEN row ELSE tokens[x]
        BY <1>0, <4>3 DEF TablesOK
      <4>7. LiveOK'
        BY <1>0, <2>3, <4>1, <4>4, <4>6 DEF LiveOK
      <4>8. [user |-> of[c], claim |-> claim[c]] \in Access
        BY <2>3 DEF Access
      <4> QED
        BY <1>0, <3>2, <4>5, <4>7, <4>8 DEF TablesOK
    <3> QED
      BY <1>5, <3>1, <3>2 DEF InsertToken
  <2> QED
    BY <1>0, <2>1, <2>2, <2>4 DEF TablesOK, OpenOK
<1>6. CASE WritePassword(c)
  <2>1. of[c] \in Users /\ held[c] \in Tokens \cup Resets \cup {None}
    BY <1>0, <1>6, <1>b DEF WritePassword, Working, LocalsOK
  <2>2. users' \in [Users -> User]
    <3>1. users[of[c]].password + 1 \in Nat
      BY <1>0, <2>1 DEF TablesOK, User
    <3> DEFINE n == users[of[c]].password + 1
    <3>2. users' = users \/ users' = [users EXCEPT ![of[c]].password = n]
      BY <1>6 DEF WritePassword
    <3>3. users \in [Users -> User]
      BY <1>0 DEF TablesOK
    <3> HIDE DEF n
    <3>4. ASSUME n \in Nat PROVE [users EXCEPT ![of[c]].password = n] \in [Users -> User]
      BY <2>1, <3>3, <3>4 DEF User
    <3> QED
      BY <3>1, <3>2, <3>3, <3>4 DEF n
  <2>r. resets' \in [Resets -> Reset] /\ OpenOK'
    <3>1. CASE resets' = resets
      BY <1>0, <3>1 DEF TablesOK, OpenOK
    <3>2. CASE pc[c] = "write" /\ resets' = [resets EXCEPT ![held[c]].uses = @ + 1]
      <4> DEFINE r == held[c]  n == resets[r].uses + 1
      <4>1. r \in Resets
        BY <1>b, <3>2 DEF Working
      <4>2. n \in Nat
        BY <1>0, <4>1 DEF TablesOK, Reset
      <4>3. resets' = [resets EXCEPT ![r].uses = n]
        BY <3>2
      <4> HIDE DEF r, n
      <4> QED
        BY <1>0, <4>1, <4>2, <4>3 DEF TablesOK, OpenOK, Reset
    <3> QED
      BY <1>6, <3>1, <3>2 DEF WritePassword, Counted
  <2>3. TablesOK' /\ LiveOK' /\ OpenOK'
    BY <1>0, <1>6, <2>2, <2>r DEF WritePassword, TablesOK, LiveOK, OpenOK
  <2> DEFINE q == IF pc[c] = "write" THEN "mark" ELSE "revokeAll"
  <2>4. Working(q, of[c], held[c], session[c]) /\ q \in CallPc
    BY <1>6, <1>b DEF WritePassword, Working, Issuing, CallPc
  <2>5. pc' = [pc EXCEPT ![c] = q] /\ UNCHANGED locals
    BY <1>6 DEF WritePassword
  <2> QED
    BY <1>0, <2>3, <2>4, <2>5, AdvanceWorking DEF LocalsOK, locals
<1>7. CASE MarkUsed(c)
  <2> DEFINE r == held[c]
  <2>1. r \in Resets
    BY <1>7, <1>b DEF MarkUsed, Working
  <2>2. resets' = [resets EXCEPT ![r].state = "used"]
    BY <1>7 DEF MarkUsed
  <2> HIDE DEF r
  <2>3. resets' \in [Resets -> Reset] /\ OpenOK'
    BY <1>0, <2>1, <2>2 DEF TablesOK, OpenOK, Reset
  <2>4. TablesOK' /\ LiveOK'
    BY <1>0, <1>7, <2>3 DEF MarkUsed, TablesOK, LiveOK
  <2>5. Working("revokeAll", of[c], held[c], session[c]) /\ "revokeAll" \in CallPc
    BY <1>7, <1>b DEF MarkUsed, Working, Issuing, CallPc
  <2>6. pc' = [pc EXCEPT ![c] = "revokeAll"] /\ UNCHANGED locals
    BY <1>7 DEF MarkUsed
  <2> QED
    BY <1>0, <2>3, <2>4, <2>5, <2>6, AdvanceWorking DEF LocalsOK, locals
<1>8. CASE RevokeAll(c)
  <2> DEFINE m == Marked({d \in Calls \ {c} : pc[d] \in Issuing /\ of[d] = of[c]}, "outrun")
  <2>1. m \in [Calls -> SUBSET Mark] /\ Answer(c, m)
    BY <1>8, <1>a, MarkedTyped DEF RevokeAll, Mark
  <2>2. LocalsOK' /\ WorkingOK'
    BY <2>1, AnswerWorking
  <2>3. tokens' = Revoked({t \in Tokens : tokens[t].user = of[c]}) /\ UNCHANGED <<users, admins, access, resets, ended, unmarked, events>>
        /\ torn' = torn \ {of[c]}
    BY <1>8 DEF RevokeAll
  <2> QED
    BY <1>0, <2>2, <2>3, RevokeTables DEF TablesOK, OpenOK
<1>9. CASE Fail(c)
  <2>1. LocalsOK' /\ WorkingOK'
    BY <1>9, <1>a, AnswerWorking DEF Fail
  <2>2. of[c] \in Users /\ UNCHANGED <<rows, ended>>
    BY <1>9, <1>b DEF Fail, Working
  <2>3. events' \in 0..MaxEvents
    BY <1>0, <1>9, SessionsAssumption DEF Fail, Happens, TablesOK
  <2>4. torn' \subseteq Users
    BY <1>0, <1>9, <2>2 DEF Fail, TablesOK
  <2>5. unmarked' \subseteq Resets
    BY <1>0, <1>9, <1>b DEF Fail, TablesOK, Working
  <2> QED
    BY <1>0, <2>1, <2>2, <2>3, <2>4, <2>5 DEF TablesOK, LiveOK, OpenOK, rows
<1> QED
  BY <1>1, <1>2, <1>3, <1>4, <1>5, <1>6, <1>7, <1>8, <1>9 DEF Handle

World ==
    \/ Logout \/ ForgotPassword
    \/ \E t \in Tokens : ExpireRefresh(t)
    \/ \E a \in access : ExpireAccess(a)
    \/ \E r \in Resets : ExpireReset(r)
    \/ \E u \in Users : VerifyEmail(u) \/ SetActive(u) \/ Promote(u) \/ Demote(u) \/ DeleteUser(u)

\* So does each step of the environment.
LEMMA WorldTyped ==
    ASSUME TypeOK, World
    PROVE  TypeOK'
<1>0. TablesOK /\ LocalsOK /\ LiveOK /\ OpenOK /\ WorkingOK
  BY DEF TypeOK, LiveOK, OpenOK, WorkingOK
<1>a. marks \in [Calls -> SUBSET Mark] /\ users \in [Users -> User]
  BY <1>0 DEF LocalsOK, TablesOK
<1>c. SUFFICES TablesOK' /\ LiveOK' /\ OpenOK' /\ LocalsOK' /\ WorkingOK'
  BY DEF TypeOK, LiveOK, OpenOK, WorkingOK
<1>d. ASSUME Happens PROVE events' \in 0..MaxEvents
  BY <1>0, <1>d, SessionsAssumption DEF Happens, TablesOK
<1>1. CASE Logout
  <2>1. PICK t \in Tokens :
           /\ tokens' = Revoked({t})
           /\ marks' = Marked({d \in Calls : pc[d] \in Issuing /\ held[d] = t}, "beaten")
           /\ ended' = IF tokens[t].state = "live" /\ "beaten" \notin tokens[t].marks
                       THEN ended \cup {tokens[t].session} ELSE ended
    BY <1>1 DEF Logout
  <2>2. marks' \in [Calls -> SUBSET Mark]
    BY <1>a, <2>1, MarkedTyped DEF Mark
  <2>3. ended' \subseteq Tokens
    BY <1>0, <2>1 DEF TablesOK, LiveOK
  <2>4. UNCHANGED <<users, admins, access, resets, pc, of, held, session, epoch, claim, torn, unmarked, events>>
    BY <1>1 DEF Logout
  <2> QED
    BY <1>0, <2>1, <2>2, <2>3, <2>4, RevokeTables DEF TablesOK, LocalsOK, OpenOK, WorkingOK
<1>2. CASE ForgotPassword
  <2>1. PICK u \in Users, r \in Resets : resets' = [resets EXCEPT ![r].state = "open", ![r].user = u]
    BY <1>2 DEF ForgotPassword
  <2>a. resets \in [Resets -> Reset]
    BY <1>0 DEF TablesOK
  <2>b. resets' \in [Resets -> Reset]
    BY <2>1, <2>a DEF Reset
  <2>c. \A x \in Resets : (x # r => resets'[x] = resets[x]) /\ (x = r => resets'[x].user = u)
    BY <2>1, <2>a DEF Reset
  <2>2. resets' \in [Resets -> Reset] /\ OpenOK'
    BY <1>0, <2>b, <2>c DEF OpenOK
  <2>3. UNCHANGED <<users, admins, tokens, access, pc, locals, ended, torn, unmarked, events>>
    BY <1>2 DEF ForgotPassword
  <2> QED
    BY <1>0, <2>2, <2>3 DEF TablesOK, LocalsOK, LiveOK, WorkingOK, locals
<1>3. ASSUME NEW t \in Tokens, ExpireRefresh(t) PROVE TablesOK' /\ LiveOK' /\ OpenOK' /\ LocalsOK' /\ WorkingOK'
  BY <1>0, <1>3, RevokeTables DEF ExpireRefresh, TablesOK, LocalsOK, OpenOK, WorkingOK, locals
<1>4. ASSUME NEW a \in access, ExpireAccess(a) PROVE TablesOK' /\ LiveOK' /\ OpenOK' /\ LocalsOK' /\ WorkingOK'
  BY <1>0, <1>4 DEF ExpireAccess, TablesOK, LocalsOK, LiveOK, OpenOK, WorkingOK, locals
<1>5. ASSUME NEW r \in Resets, ExpireReset(r) PROVE TablesOK' /\ LiveOK' /\ OpenOK' /\ LocalsOK' /\ WorkingOK'
  <2>1. resets' = [resets EXCEPT ![r].state = "used"]
    BY <1>5 DEF ExpireReset
  <2>2. resets' \in [Resets -> Reset] /\ OpenOK'
    BY <1>0, <2>1 DEF TablesOK, Reset, OpenOK
  <2>3. UNCHANGED <<users, admins, tokens, access, pc, locals, ended, torn, unmarked, events>>
    BY <1>5 DEF ExpireReset
  <2> QED
    BY <1>0, <2>2, <2>3 DEF TablesOK, LocalsOK, LiveOK, WorkingOK, locals
<1>6. ASSUME NEW u \in Users, VerifyEmail(u) \/ SetActive(u)
      PROVE  TablesOK' /\ LiveOK' /\ OpenOK' /\ LocalsOK' /\ WorkingOK'
  <2> DEFINE v == ~users[u].active
  <2>1. users' = [users EXCEPT ![u].verified = TRUE] \/ users' = [users EXCEPT ![u].active = v]
    BY <1>6 DEF VerifyEmail, SetActive
  <2>2. TRUE \in BOOLEAN /\ v \in BOOLEAN
    OBVIOUS
  <2> HIDE DEF v
  <2>3. users' \in [Users -> User]
    <3>1. [users EXCEPT ![u].verified = TRUE] \in [Users -> User]
      BY <1>a, <2>2, UserTyped
    <3>2. [users EXCEPT ![u].active = v] \in [Users -> User]
      BY <1>a, <2>2, UserTyped
    <3> QED
      BY <2>1, <3>1, <3>2
  <2>4. events' \in 0..MaxEvents /\ UNCHANGED <<admins, tokens, access, resets, pc, locals, ended, torn, unmarked>>
    BY <1>0, <1>6, <1>d DEF VerifyEmail, SetActive, TablesOK
  <2> QED
    BY <1>0, <2>3, <2>4 DEF TablesOK, LocalsOK, LiveOK, OpenOK, WorkingOK, locals
<1>7. ASSUME NEW u \in Users, Promote(u) PROVE TablesOK' /\ LiveOK' /\ OpenOK' /\ LocalsOK' /\ WorkingOK'
  BY <1>0, <1>7, <1>d DEF Promote, TablesOK, LocalsOK, LiveOK, OpenOK, WorkingOK, locals
<1>8. ASSUME NEW u \in Users, Demote(u) PROVE TablesOK' /\ LiveOK' /\ OpenOK' /\ LocalsOK' /\ WorkingOK'
  <2>1. \A x \in Claim : Aged(x) \in Claim
    BY DEF Aged, Claim
  <2>2. claim' \in [Calls -> Claim]
    BY <1>0, <1>8, <2>1 DEF Demote, AgeClaims, LocalsOK
  <2>3. \A a \in access : [a EXCEPT !.claim = Aged(@)] \in Access
    BY <1>0, <2>1 DEF TablesOK, Access
  <2>4. access' \subseteq Access
    BY <1>0, <1>8, <2>3 DEF Demote, AgeClaims, TablesOK
  <2>5. admins' \subseteq Users /\ UNCHANGED <<users, tokens, resets, pc, of, held, session, epoch, marks, ended, torn, unmarked>>
    BY <1>0, <1>8 DEF Demote, TablesOK
  <2>6. events' \in 0..MaxEvents
    BY <1>8, <1>d DEF Demote
  <2> QED
    BY <1>0, <2>2, <2>4, <2>5, <2>6 DEF TablesOK, LocalsOK, LiveOK, OpenOK, WorkingOK
<1>9. ASSUME NEW u \in Users, DeleteUser(u) PROVE TablesOK' /\ LiveOK' /\ OpenOK' /\ LocalsOK' /\ WorkingOK'
  <2>1. users' \in [Users -> User]
    <3>1. users' = [users EXCEPT ![u].there = FALSE] /\ FALSE \in BOOLEAN
      BY <1>9 DEF DeleteUser
    <3> QED
      BY <1>a, <3>1, UserTyped, Zenon
  <2>2. resets' \in [Resets -> Reset] /\ OpenOK'
    <3>1. \A r \in Resets : [resets[r] EXCEPT !.state = "used"] \in Reset /\ [resets[r] EXCEPT !.state = "used"].state = "used"
      BY <1>0 DEF TablesOK, Reset
    <3>2. resets' = [r \in Resets |-> IF resets[r].user = u /\ resets[r].state = "open"
                                     THEN [resets[r] EXCEPT !.state = "used"] ELSE resets[r]]
      BY <1>9 DEF DeleteUser
    <3> QED
      BY <1>0, <3>1, <3>2 DEF TablesOK, OpenOK
  <2>3. tokens' = Revoked({t \in Tokens : tokens[t].user = u}) /\ UNCHANGED <<access, pc, locals, ended, torn, unmarked>>
    BY <1>9 DEF DeleteUser
  <2>4. admins' \subseteq Users
    BY <1>0, <1>9 DEF DeleteUser, TablesOK
  <2>5. events' \in 0..MaxEvents
    BY <1>9, <1>d DEF DeleteUser
  <2> QED
    BY <1>0, <2>1, <2>2, <2>3, <2>4, <2>5, RevokeTables DEF TablesOK, LocalsOK, WorkingOK, locals
<1> QED
  BY <1>1, <1>2, <1>3, <1>4, <1>5, <1>6, <1>7, <1>8, <1>9 DEF World

\* TypeOK is inductive.
LEMMA TypeStep == TypeOK /\ [Next]_vars => TypeOK'
<1> SUFFICES ASSUME TypeOK, [Next]_vars PROVE TypeOK'
  OBVIOUS
<1>1. CASE \E c \in Calls : Handle(c)
  BY <1>1, HandleTyped
<1>2. CASE UNCHANGED vars
  BY <1>2 DEF TypeOK, TablesOK, LocalsOK, vars, rows, locals
<1> QED
  BY <1>1, <1>2, WorldTyped DEF Next, World

-----------------------------------------------------------------------------
(* What a step leaves alone *)

\* Requests S stay where they are; at most they are marked.
CallsKept(S) ==
    \A d \in S : /\ pc'[d] = pc[d] /\ of'[d] = of[d] /\ held'[d] = held[d] /\ session'[d] = session[d]
                 /\ epoch'[d] = epoch[d] /\ marks[d] \subseteq marks'[d]

\* No token is issued, and none is unissued.
TokensKept ==
    /\ \A t \in Tokens : tokens'[t].state = "live" => tokens'[t] = tokens[t]
    /\ \A t \in Tokens : tokens[t].state # "unused" => tokens'[t].state # "unused"

\* A request's step leaves the other requests where they are.
LEMMA OthersKept ==
    ASSUME TypeOK, NEW c \in Calls, Handle(c)
    PROVE  CallsKept(Calls \ {c})
<1>0. LocalsOK
  BY DEF TypeOK
<1>1. CASE Login(c) \/ Refresh(c) \/ ResetPassword(c) \/ ChangePassword(c)
  BY <1>0, <1>1 DEF LocalsOK, CallsKept, Login, Refresh, ResetPassword, ChangePassword
<1>2. CASE Rotate(c)
  <2>1. "beaten" \in Mark /\ marks \in [Calls -> SUBSET Mark]
    BY <1>0 DEF LocalsOK, Mark
  <2>2. \A d \in Calls : marks[d] \subseteq marks'[d]
    BY <1>2, <2>1, MarkedTyped DEF Rotate
  <2> QED
    BY <1>0, <1>2, <2>2 DEF LocalsOK, CallsKept, Rotate
<1>3. CASE LoadUser(c) \/ InsertToken(c) \/ Fail(c)
  <2>1. CASE Answer(c, marks)
    BY <1>0, <2>1, AnswerTyped DEF CallsKept, LocalsOK
  <2>2. CASE pc' = [pc EXCEPT ![c] = "roles"] /\ UNCHANGED locals
    BY <1>0, <2>2 DEF CallsKept, LocalsOK, locals
  <2> QED
    BY <1>3, <2>1, <2>2 DEF LoadUser, InsertToken, Fail
<1>4. CASE GetUserRoles(c) \/ WritePassword(c) \/ MarkUsed(c)
  BY <1>0, <1>4 DEF LocalsOK, CallsKept, GetUserRoles, WritePassword, MarkUsed, locals
<1>5. CASE RevokeAll(c)
  <2> DEFINE m == Marked({d \in Calls \ {c} : pc[d] \in Issuing /\ of[d] = of[c]}, "outrun")
  <2>1. "outrun" \in Mark /\ marks \in [Calls -> SUBSET Mark]
    BY <1>0 DEF LocalsOK, Mark
  <2>2. m \in [Calls -> SUBSET Mark] /\ \A d \in Calls : marks[d] \subseteq m[d]
    BY <2>1, MarkedTyped
  <2>3. Answer(c, m)
    BY <1>5 DEF RevokeAll
  <2> HIDE DEF m
  <2> QED
    BY <1>0, <2>2, <2>3, AnswerTyped DEF CallsKept
<1> QED
  BY <1>1, <1>2, <1>3, <1>4, <1>5 DEF Handle

\* No step but InsertToken issues a token.
LEMMA NoneIssued ==
    ASSUME TypeOK, NEW c \in Calls, Handle(c), ~InsertToken(c)
    PROVE  TokensKept
<1>0. tokens \in [Tokens -> Token]
  BY DEF TypeOK, TablesOK
<1>1. CASE UNCHANGED tokens
  BY <1>1 DEF TokensKept
<1>2. ASSUME NEW S, tokens' = Revoked(S) PROVE TokensKept
  BY <1>0, <1>2, RevokedTyped DEF TokensKept
<1>3. CASE Rotate(c)
  BY <1>2, <1>3 DEF Rotate
<1>4. CASE RevokeAll(c)
  BY <1>2, <1>4 DEF RevokeAll
<1> QED
  BY <1>1, <1>3, <1>4 DEF Handle, Login, Refresh, LoadUser, GetUserRoles, ResetPassword, ChangePassword,
     WritePassword, MarkUsed, Fail, rows

\* The environment issues no token, moves no request and sets no password; it
\* ends a session only by Logout.
LEMMA WorldKeeps ==
    ASSUME TypeOK, World
    PROVE  /\ CallsKept(Calls) /\ TokensKept /\ torn' = torn
           /\ \A u \in Users : users'[u].password = users[u].password /\ (users'[u].there => users[u].there)
           /\ Logout \/ UNCHANGED ended
<1>0. LocalsOK /\ tokens \in [Tokens -> Token] /\ users \in [Users -> User]
  BY DEF TypeOK, TablesOK
<1>1. torn' = torn /\ (Logout \/ UNCHANGED ended)
  BY DEF World, Logout, ForgotPassword, ExpireRefresh, ExpireAccess, ExpireReset, VerifyEmail, SetActive, Promote, Demote, DeleteUser
<1>2. UNCHANGED tokens \/ \E S \in SUBSET Tokens : tokens' = Revoked(S)
  <2>1. CASE Logout
    BY <2>1 DEF Logout
  <2>2. ASSUME NEW t \in Tokens, ExpireRefresh(t) PROVE \E S \in SUBSET Tokens : tokens' = Revoked(S)
    BY <2>2 DEF ExpireRefresh
  <2>3. ASSUME NEW u \in Users, DeleteUser(u) PROVE \E S \in SUBSET Tokens : tokens' = Revoked(S)
    <3> WITNESS {t \in Tokens : tokens[t].user = u} \in SUBSET Tokens
    <3> QED
      BY <2>3 DEF DeleteUser
  <2> QED
    BY <2>1, <2>2, <2>3 DEF World, ForgotPassword, ExpireAccess, ExpireReset, VerifyEmail, SetActive, Promote, Demote
<1>3. TokensKept
  BY <1>0, <1>2, RevokedTyped DEF TokensKept
<1>4. UNCHANGED <<pc, of, held, session, epoch>>
  BY DEF World, Logout, ForgotPassword, ExpireRefresh, ExpireAccess, ExpireReset, VerifyEmail, SetActive, Promote, Demote, DeleteUser, locals
<1>5. \A d \in Calls : marks[d] \subseteq marks'[d]
  <2>1. CASE UNCHANGED marks
    BY <2>1
  <2>2. CASE Logout
    <3>1. "beaten" \in Mark /\ marks \in [Calls -> SUBSET Mark]
      BY <1>0 DEF LocalsOK, Mark
    <3>2. PICK t \in Tokens : marks' = Marked({d \in Calls : pc[d] \in Issuing /\ held[d] = t}, "beaten")
      BY <2>2 DEF Logout
    <3> QED
      BY <3>1, <3>2, MarkedTyped
  <2> QED
    BY <2>1, <2>2 DEF World, ForgotPassword, ExpireRefresh, ExpireAccess, ExpireReset, VerifyEmail, SetActive, Promote, Demote, DeleteUser, locals
<1>6. \A u \in Users : users'[u].password = users[u].password /\ (users'[u].there => users[u].there)
  <2>1. CASE UNCHANGED users
    BY <2>1
  <2>2. ASSUME NEW w \in Users, VerifyEmail(w) \/ SetActive(w) \/ DeleteUser(w)
        PROVE  \A u \in Users : users'[u].password = users[u].password /\ (users'[u].there => users[u].there)
    BY <1>0, <2>2 DEF VerifyEmail, SetActive, DeleteUser, User
  <2> QED
    BY <2>1, <2>2 DEF World, Logout, ForgotPassword, ExpireRefresh, ExpireAccess, ExpireReset, Promote, Demote
<1> QED
  BY <1>1, <1>3, <1>4, <1>5, <1>6 DEF CallsKept

-----------------------------------------------------------------------------
(* Sessions follow the password *)

\* What a session of user u that goes back to password e, with marks m, may be.
Due(u, e, m) == e = users[u].password \/ "outrun" \in m \/ u \in torn \/ PasswordChanging(u)

\* The property, and the same of the requests that are to issue a token.
PasswordInv ==
    /\ \A t \in Tokens : tokens[t].state = "live" => Due(tokens[t].user, tokens[t].epoch, tokens[t].marks)
    /\ \A c \in Calls : pc[c] \in Issuing => Due(of[c], epoch[c], marks[c])

StillChanging(u) == \E d \in Calls : of'[d] = u /\ pc'[d] \in Changing
DueNext(u, e, m) == e = users'[u].password \/ "outrun" \in m \/ u \in torn' \/ StillChanging(u)
Keeps(u) ==
    /\ users'[u].password = users[u].password \/ StillChanging(u)
    /\ u \in torn => u \in torn'
    /\ PasswordChanging(u) => StillChanging(u) \/ u \in torn'

\* A step keeps PasswordInv if it does so for each token and each request.
LEMMA PasswordFrame ==
    ASSUME PasswordInv,
           \A t \in Tokens : tokens'[t].state = "live" =>
                \/ tokens'[t] = tokens[t] /\ Keeps(tokens[t].user)
                \/ DueNext(tokens'[t].user, tokens'[t].epoch, tokens'[t].marks),
           \A c \in Calls : pc'[c] \in Issuing =>
                \/ /\ pc[c] \in Issuing /\ of'[c] = of[c] /\ epoch'[c] = epoch[c]
                   /\ marks[c] \subseteq marks'[c] /\ Keeps(of[c])
                \/ DueNext(of'[c], epoch'[c], marks'[c])
    PROVE  PasswordInv'
<1>1. ASSUME NEW t \in Tokens, tokens'[t].state = "live"
      PROVE  DueNext(tokens'[t].user, tokens'[t].epoch, tokens'[t].marks)
  <2>1. CASE tokens'[t] = tokens[t] /\ Keeps(tokens[t].user)
    <3>1. Due(tokens[t].user, tokens[t].epoch, tokens[t].marks)
      BY <1>1, <2>1 DEF PasswordInv
    <3> QED
      BY <2>1, <3>1 DEF Keeps, Due, DueNext
  <2> QED
    BY <1>1, <2>1
<1>2. ASSUME NEW c \in Calls, pc'[c] \in Issuing
      PROVE  DueNext(of'[c], epoch'[c], marks'[c])
  <2>1. CASE /\ pc[c] \in Issuing /\ of'[c] = of[c] /\ epoch'[c] = epoch[c]
             /\ marks[c] \subseteq marks'[c] /\ Keeps(of[c])
    <3>1. Due(of[c], epoch[c], marks[c])
      BY <2>1 DEF PasswordInv
    <3> QED
      BY <2>1, <3>1 DEF Keeps, Due, DueNext
  <2> QED
    BY <1>2, <2>1
<1> QED
  BY <1>1, <1>2 DEF PasswordInv, Due, DueNext, StillChanging, PasswordChanging

\* What a request's step does to the users whose sessions it is not about.
LEMMA HandleKeeps ==
    ASSUME TypeOK, NEW c \in Calls, Handle(c), NEW u \in Users, ~RevokeAll(c) \/ of[c] # u
    PROVE  Keeps(u)
<1>0. CallsKept(Calls \ {c}) /\ LocalsOK /\ users \in [Users -> User] /\ Working(pc[c], of[c], held[c], session[c])
  BY OthersKept DEF TypeOK, TablesOK
<1>1. ASSUME pc[c] \in Changing /\ of[c] = u => StillChanging(u) \/ u \in torn'
      PROVE  PasswordChanging(u) => StillChanging(u) \/ u \in torn'
  BY <1>0, <1>1 DEF CallsKept, StillChanging, PasswordChanging
<1>2. CASE WritePassword(c)
  <2>1. pc[c] \notin Changing /\ torn' = torn
    BY <1>2 DEF WritePassword, Changing
  <2>2. of' = of /\ pc'[c] \in Changing
    BY <1>0, <1>2 DEF WritePassword, Changing, locals, LocalsOK
  <2>3. of[c] \in Users
    BY <1>0, <1>2 DEF WritePassword, Working
  <2>4. u # of[c] => users'[u].password = users[u].password
    BY <1>0, <1>2, <2>3 DEF WritePassword
  <2>5. u = of[c] => StillChanging(u)
    BY <2>2 DEF StillChanging
  <2> QED
    BY <1>1, <2>1, <2>4, <2>5 DEF Keeps
<1>3. CASE MarkUsed(c)
  <2>1. of' = of /\ pc'[c] \in Changing /\ UNCHANGED <<torn, users>>
    BY <1>0, <1>3 DEF MarkUsed, Changing, LocalsOK, locals
  <2> QED
    BY <1>1, <2>1 DEF Keeps, StillChanging
<1>4. CASE RevokeAll(c)
  <2>1. torn' = torn \ {of[c]} /\ UNCHANGED users
    BY <1>4 DEF RevokeAll
  <2> QED
    BY <1>1, <1>4, <2>1 DEF Keeps
<1>5. CASE Fail(c)
  <2>1. (torn' = IF pc[c] \in Changing THEN torn \cup {of[c]} ELSE torn) /\ UNCHANGED users
    BY <1>5 DEF Fail, rows
  <2> QED
    BY <1>1, <2>1 DEF Keeps
<1>6. CASE Login(c) \/ Refresh(c) \/ Rotate(c) \/ LoadUser(c) \/ GetUserRoles(c) \/ InsertToken(c)
           \/ ResetPassword(c) \/ ChangePassword(c)
  <2>1. pc[c] \notin Changing /\ UNCHANGED <<torn, users>>
    BY <1>6 DEF Login, Refresh, Rotate, LoadUser, GetUserRoles, InsertToken, ResetPassword, ChangePassword, Changing, rows
  <2> QED
    BY <1>1, <2>1 DEF Keeps
<1> QED
  BY <1>2, <1>3, <1>4, <1>5, <1>6 DEF Handle

\* A request's step keeps PasswordInv.
LEMMA HandlePassword ==
    ASSUME TypeOK, PasswordInv, NEW c \in Calls, Handle(c)
    PROVE  PasswordInv'
<1>0. LocalsOK /\ LiveOK /\ tokens \in [Tokens -> Token] /\ WorkingOK
  BY DEF TypeOK, TablesOK, LiveOK, WorkingOK
<1>a. \A d \in Calls : pc[d] \in Issuing => of[d] \in Users
  BY <1>0 DEF WorkingOK, Working, Issuing
<1>b. CallsKept(Calls \ {c})
  BY OthersKept
<1>1. CASE RevokeAll(c)
  <2> DEFINE u == of[c]
             S == {d \in Calls \ {c} : pc[d] \in Issuing /\ of[d] = of[c]}
  <2>1. ASSUME NEW t \in Tokens, tokens'[t].state = "live"
        PROVE  tokens'[t] = tokens[t] /\ Keeps(tokens[t].user)
    <3>1. tokens'[t] = tokens[t] /\ tokens[t].user # u
      BY <1>0, <1>1, <2>1, RevokedTyped DEF RevokeAll
    <3>2. tokens[t].user \in Users
      BY <1>0, <2>1, <3>1 DEF LiveOK
    <3> QED
      BY <3>1, <3>2, HandleKeeps
  <2>2. ASSUME NEW d \in Calls, pc'[d] \in Issuing
        PROVE  \/ /\ pc[d] \in Issuing /\ of'[d] = of[d] /\ epoch'[d] = epoch[d]
                  /\ marks[d] \subseteq marks'[d] /\ Keeps(of[d])
               \/ DueNext(of'[d], epoch'[d], marks'[d])
    <3>1. marks \in [Calls -> SUBSET Mark] /\ "outrun" \in Mark
      BY <1>0 DEF LocalsOK, Mark
    <3>2. Marked(S, "outrun") \in [Calls -> SUBSET Mark] /\ \A x \in S : "outrun" \in Marked(S, "outrun")[x]
      <4>1. S \subseteq Calls
        OBVIOUS
      <4> HIDE DEF S
      <4>2. \A x \in S : Marked(S, "outrun")[x] = marks[x] \cup {"outrun"}
        BY <3>1, <4>1, MarkedTyped
      <4>3. Marked(S, "outrun") \in [Calls -> SUBSET Mark]
        BY <3>1, MarkedTyped
      <4> QED
        BY <4>2, <4>3
    <3>3. Answer(c, Marked(S, "outrun"))
      BY <1>1 DEF RevokeAll
    <3>4. d # c /\ marks'[d] = Marked(S, "outrun")[d]
      BY <1>0, <2>2, <3>2, <3>3, AnswerTyped DEF Issuing
    <3>5. pc[d] \in Issuing /\ of'[d] = of[d] /\ epoch'[d] = epoch[d] /\ marks[d] \subseteq marks'[d]
      BY <1>b, <2>2, <3>4 DEF CallsKept
    <3>6. CASE of[d] = u
      BY <3>2, <3>4, <3>5, <3>6 DEF DueNext
    <3>7. CASE of[d] # u
      BY <1>a, <3>5, <3>7, HandleKeeps
    <3> QED
      BY <3>6, <3>7
  <2> QED
    BY <2>1, <2>2, PasswordFrame
<1>2. CASE ~RevokeAll(c)
  <2>1. \A u \in Users : Keeps(u)
    BY <1>2, HandleKeeps
  <2>2. \A d \in Calls \ {c} : pc'[d] \in Issuing =>
            /\ pc[d] \in Issuing /\ of'[d] = of[d] /\ epoch'[d] = epoch[d]
            /\ marks[d] \subseteq marks'[d] /\ Keeps(of[d])
    BY <1>a, <1>b, <2>1 DEF CallsKept
  <2>3. ASSUME ~InsertToken(c), NEW t \in Tokens, tokens'[t].state = "live"
        PROVE  tokens'[t] = tokens[t] /\ Keeps(tokens[t].user)
    <3>1. tokens'[t] = tokens[t]
      BY <2>3, NoneIssued DEF TokensKept
    <3> QED
      BY <1>0, <2>1, <2>3, <3>1 DEF LiveOK
  <2>4. CASE Login(c)
    <3>1. PICK u \in Users : of' = [of EXCEPT ![c] = u] /\ epoch' = [epoch EXCEPT ![c] = users[u].password]
      BY <2>4 DEF Login
    <3>2. of'[c] = u /\ epoch'[c] = users'[u].password
      BY <1>0, <2>4, <3>1 DEF Login, LocalsOK, rows
    <3>3. DueNext(of'[c], epoch'[c], marks'[c])
      BY <3>2 DEF DueNext
    <3>4. ~InsertToken(c)
      BY <2>4 DEF Login, InsertToken
    <3> QED
      BY <2>2, <2>3, <3>3, <3>4, PasswordFrame
  <2>5. CASE Refresh(c)
    <3>1. PICK t \in Tokens :
            /\ tokens[t].state = "live"
            /\ of' = [of EXCEPT ![c] = tokens[t].user]
            /\ epoch' = [epoch EXCEPT ![c] = tokens[t].epoch]
            /\ marks' = [marks EXCEPT ![c] = tokens[t].marks]
      BY <2>5 DEF Refresh
    <3>2. of'[c] = tokens[t].user /\ epoch'[c] = tokens[t].epoch /\ marks'[c] = tokens[t].marks
      BY <1>0, <3>1 DEF LocalsOK
    <3>3. Due(tokens[t].user, tokens[t].epoch, tokens[t].marks) /\ Keeps(tokens[t].user)
      BY <1>0, <2>1, <3>1 DEF PasswordInv, LiveOK
    <3>4. DueNext(of'[c], epoch'[c], marks'[c])
      BY <3>2, <3>3 DEF Due, DueNext, Keeps
    <3>5. ~InsertToken(c)
      BY <2>5 DEF Refresh, InsertToken
    <3> QED
      BY <2>2, <2>3, <3>4, <3>5, PasswordFrame
  <2>6. CASE InsertToken(c)
    <3>1. pc'[c] \notin Issuing
      BY <1>0, <2>6, AnswerTyped DEF InsertToken, Issuing, LocalsOK
    <3>2. Due(of[c], epoch[c], marks[c]) /\ Keeps(of[c])
      BY <1>a, <2>1, <2>6 DEF PasswordInv, InsertToken, Issuing
    <3>3. DueNext(of[c], epoch[c], marks[c])
      BY <3>2 DEF Due, DueNext, Keeps
    <3>4. ASSUME NEW t \in Tokens, tokens'[t].state = "live"
          PROVE  \/ tokens'[t] = tokens[t]
                 \/ tokens'[t].user = of[c] /\ tokens'[t].epoch = epoch[c] /\ tokens'[t].marks = marks[c]
      BY <1>0, <2>6 DEF InsertToken
    <3>5. \A t \in Tokens : tokens'[t].state = "live" =>
                \/ tokens'[t] = tokens[t] /\ Keeps(tokens[t].user)
                \/ DueNext(tokens'[t].user, tokens'[t].epoch, tokens'[t].marks)
      BY <1>0, <2>1, <3>3, <3>4 DEF LiveOK
    <3> QED
      BY <2>2, <3>1, <3>5, PasswordFrame
  <2>7. CASE Rotate(c) \/ LoadUser(c) \/ GetUserRoles(c)
    <3>1. pc[c] \in Issuing
      BY <2>7 DEF Rotate, LoadUser, GetUserRoles, Issuing
    <3>2. CASE Answer(c, marks)
      BY <1>0, <2>2, <2>3, <2>7, <3>2, AnswerTyped, PasswordFrame
         DEF Issuing, LocalsOK, Rotate, LoadUser, GetUserRoles, InsertToken
    <3>3. CASE UNCHANGED <<of, epoch, marks>>
      BY <2>1, <2>2, <2>3, <2>7, <1>a, <3>1, <3>3, PasswordFrame DEF Rotate, LoadUser, GetUserRoles, InsertToken
    <3>4. CASE Rotate(c)
      <4>1. marks \in [Calls -> SUBSET Mark] /\ "beaten" \in Mark
        BY <1>0 DEF LocalsOK, Mark
      <4>2. marks[c] \subseteq marks'[c]
        BY <3>4, <4>1, MarkedTyped DEF Rotate
      <4>3. UNCHANGED <<of, epoch>> /\ ~InsertToken(c)
        BY <3>4 DEF Rotate, InsertToken
      <4> QED
        BY <1>a, <2>1, <2>2, <2>3, <3>1, <4>2, <4>3, PasswordFrame
    <3> QED
      BY <2>7, <3>2, <3>3, <3>4 DEF LoadUser, GetUserRoles, locals
  <2>8. CASE ResetPassword(c) \/ ChangePassword(c) \/ WritePassword(c) \/ MarkUsed(c) \/ Fail(c)
    <3>1. pc'[c] \notin Issuing
      <4>1. CASE Fail(c)
        BY <1>0, <4>1, AnswerTyped DEF Fail, Issuing, LocalsOK
      <4> QED
        BY <1>0, <2>8, <4>1 DEF ResetPassword, ChangePassword, WritePassword, MarkUsed, Issuing, LocalsOK
    <3>2. \A t \in Tokens : tokens'[t].state = "live" => tokens'[t] = tokens[t]
      <4>1. UNCHANGED tokens
        BY <2>8 DEF ResetPassword, ChangePassword, WritePassword, MarkUsed, Fail, rows
      <4> QED
        BY <4>1
    <3>3. \A t \in Tokens : tokens'[t].state = "live" => tokens'[t] = tokens[t] /\ Keeps(tokens[t].user)
      BY <1>0, <2>1, <3>2 DEF LiveOK
    <3> QED
      BY <2>2, <3>1, <3>3, PasswordFrame
  <2> QED
    BY <1>2, <2>4, <2>5, <2>6, <2>7, <2>8 DEF Handle
<1> QED
  BY <1>1, <1>2

\* So does the environment's.
LEMMA WorldPassword ==
    ASSUME TypeOK, PasswordInv, World
    PROVE  PasswordInv'
<1>0. LiveOK /\ \A c \in Calls : pc[c] \in Issuing => of[c] \in Users
  BY DEF TypeOK, LiveOK, Working, Issuing
<1>1. \A u \in Users : Keeps(u)
  BY WorldKeeps DEF Keeps, CallsKept, PasswordChanging, StillChanging
<1>2. \A t \in Tokens : tokens'[t].state = "live" => tokens'[t] = tokens[t] /\ Keeps(tokens[t].user)
  BY <1>0, <1>1, WorldKeeps DEF TokensKept, LiveOK
<1>3. \A c \in Calls : pc'[c] \in Issuing =>
                /\ pc[c] \in Issuing /\ of'[c] = of[c] /\ epoch'[c] = epoch[c]
                /\ marks[c] \subseteq marks'[c] /\ Keeps(of[c])
  BY <1>0, <1>1, WorldKeeps DEF CallsKept
<1> QED
  BY <1>2, <1>3, PasswordFrame

-----------------------------------------------------------------------------
(* A session is handed on, and ends with logout *)

\* A request that carries a session from the token it read to the one it issues.
Bearer(c) == pc[c] \in Issuing /\ held[c] \in Tokens
Carrier(c) == Bearer(c) /\ "beaten" \notin marks[c]

\* While a request carries a session, no token does, but for the one that it
\* and others may have read and none has revoked.
TokenOrCarrier ==
    \A c \in Calls, t \in Tokens :
        Carrier(c) /\ Unbeaten(t) /\ tokens[t].session = session[c] => pc[c] = "rotate" /\ held[c] = t
OneCarrier ==
    \A c, d \in Calls :
        Carrier(c) /\ Carrier(d) /\ session[c] = session[d] /\ c # d => pc[c] = "rotate" /\ held[c] = held[d]
EndedNotCarried == \A c \in Calls : Carrier(c) => session[c] \notin ended

\* Sessions are named by tokens that were issued.
Named ==
    /\ \A t \in Tokens : tokens[t].state = "live" => tokens[tokens[t].session].state # "unused"
    /\ \A c \in Calls : Bearer(c) => tokens[session[c]].state # "unused"
    /\ \A x \in ended : tokens[x].state # "unused"

SessionInv == OneTokenPerSession /\ TokenOrCarrier /\ OneCarrier /\ LogoutEndsSession /\ EndedNotCarried /\ Named

\* A step that issues no token and only lets requests go keeps SessionInv.
LEMMA SessionFrame ==
    ASSUME TypeOK, SessionInv, TokensKept, ended' = ended,
           \A c \in Calls : Bearer(c)' =>
              /\ Bearer(c) /\ held'[c] = held[c] /\ session'[c] = session[c] /\ marks[c] \subseteq marks'[c]
              /\ pc[c] = "rotate" => pc'[c] = "rotate"
    PROVE  SessionInv'
<1>1. \A t \in Tokens : Unbeaten(t)' => Unbeaten(t) /\ tokens'[t] = tokens[t]
  BY DEF TokensKept, Unbeaten
<1>2. \A c \in Calls : Carrier(c)' =>
          /\ Carrier(c) /\ held'[c] = held[c] /\ session'[c] = session[c]
          /\ pc[c] = "rotate" => pc'[c] = "rotate"
  BY DEF Carrier
<1>3. OneTokenPerSession'
  BY <1>1 DEF SessionInv, OneTokenPerSession
<1>4. TokenOrCarrier'
  BY <1>1, <1>2 DEF SessionInv, TokenOrCarrier
<1>5. OneCarrier'
  BY <1>2 DEF SessionInv, OneCarrier
<1>6. LogoutEndsSession' /\ EndedNotCarried'
  BY <1>1, <1>2 DEF SessionInv, LogoutEndsSession, EndedNotCarried
<1>7. Named'
  <2>1. \A t \in Tokens : tokens[t].state = "live" => tokens[t].session \in Tokens
    BY DEF TypeOK
  <2>2. \A c \in Calls : Bearer(c) => session[c] \in Tokens
    BY DEF TypeOK, Working, Bearer
  <2>3. ended \subseteq Tokens
    BY DEF TypeOK, TablesOK
  <2>4. \A t \in Tokens : tokens'[t].state = "live" => tokens'[tokens'[t].session].state # "unused"
    BY <2>1 DEF SessionInv, Named, TokensKept
  <2>5. \A c \in Calls : Bearer(c)' => tokens'[session'[c]].state # "unused"
    BY <2>2 DEF SessionInv, Named, TokensKept
  <2>6. \A x \in ended' : tokens'[x].state # "unused"
    BY <2>3 DEF SessionInv, Named, TokensKept
  <2> QED
    BY <2>4, <2>5, <2>6 DEF Named
<1> QED
  BY <1>3, <1>4, <1>5, <1>6, <1>7 DEF SessionInv

\* A refresh reads a token that carries its session, or a beaten one.
LEMMA RefreshSession ==
    ASSUME TypeOK, SessionInv, NEW c \in Calls, Refresh(c)
    PROVE  SessionInv'
<1>0. LocalsOK /\ CallsKept(Calls \ {c}) /\ UNCHANGED <<tokens, ended>>
  BY OthersKept DEF TypeOK, Handle, Refresh, rows
<1>1. PICK t \in Tokens :
            /\ tokens[t].state = "live" /\ held' = [held EXCEPT ![c] = t]
            /\ session' = [session EXCEPT ![c] = tokens[t].session]
            /\ marks' = [marks EXCEPT ![c] = tokens[t].marks]
  BY DEF Refresh
<1>2. pc'[c] = "rotate" /\ held'[c] = t /\ session'[c] = tokens[t].session /\ marks'[c] = tokens[t].marks
  BY <1>0, <1>1 DEF Refresh, LocalsOK
<1>3. Bearer(c)' /\ (Carrier(c)' => Unbeaten(t))
  BY <1>1, <1>2 DEF Bearer, Carrier, Issuing, Unbeaten
<1>4. \A d \in Calls \ {c} : (Carrier(d)' => Carrier(d)) /\ (Bearer(d)' => Bearer(d))
                            /\ pc'[d] = pc[d] /\ held'[d] = held[d] /\ session'[d] = session[d]
  BY <1>0 DEF CallsKept, Bearer, Carrier
<1>5. \A x \in Tokens : Unbeaten(x)' <=> Unbeaten(x)
  BY <1>0 DEF Unbeaten
<1>6. OneTokenPerSession' /\ LogoutEndsSession'
  BY <1>0, <1>5 DEF SessionInv, OneTokenPerSession, LogoutEndsSession
<1>7. TokenOrCarrier'
  <2>1. ASSUME NEW d \in Calls, NEW x \in Tokens, Carrier(d)', Unbeaten(x)', tokens'[x].session = session'[d]
        PROVE  pc'[d] = "rotate" /\ held'[d] = x
    <3>1. CASE d = c
      BY <1>0, <1>2, <1>3, <1>5, <2>1, <3>1 DEF SessionInv, OneTokenPerSession
    <3>2. CASE d # c
      BY <1>0, <1>4, <1>5, <2>1, <3>2 DEF SessionInv, TokenOrCarrier
    <3> QED
      BY <3>1, <3>2
  <2> QED
    BY <2>1 DEF TokenOrCarrier
<1>8. OneCarrier'
  <2>1. ASSUME NEW d \in Calls, d # c, Carrier(c)', Carrier(d)', session'[d] = session'[c]
        PROVE  pc'[d] = "rotate" /\ held'[d] = t
    BY <1>2, <1>3, <1>4, <2>1 DEF SessionInv, TokenOrCarrier
  <2>2. ASSUME NEW d \in Calls, NEW e \in Calls, d # c, e # c, d # e, Carrier(d)', Carrier(e)', session'[d] = session'[e]
        PROVE  pc'[d] = "rotate" /\ held'[d] = held'[e]
    BY <1>4, <2>2 DEF SessionInv, OneCarrier
  <2> QED
    BY <1>2, <2>1, <2>2 DEF OneCarrier
<1>9. EndedNotCarried'
  BY <1>0, <1>2, <1>3, <1>4 DEF SessionInv, EndedNotCarried, LogoutEndsSession
<1>10. Named'
  <2>1. tokens[tokens[t].session].state # "unused"
    BY <1>1 DEF SessionInv, Named
  <2>2. \A d \in Calls : Bearer(d)' => tokens'[session'[d]].state # "unused"
    BY <1>0, <1>2, <1>4, <2>1 DEF SessionInv, Named
  <2> QED
    BY <1>0, <2>2 DEF SessionInv, Named
<1> QED
  BY <1>6, <1>7, <1>8, <1>9, <1>10 DEF SessionInv

\* A rotation beats the requests that have read the same token.
LEMMA RotateSession ==
    ASSUME TypeOK, SessionInv, NEW c \in Calls, Rotate(c)
    PROVE  SessionInv'
<1>0. LocalsOK /\ CallsKept(Calls \ {c}) /\ TokensKept /\ ended' = ended
  BY OthersKept, NoneIssued DEF TypeOK, Handle, Rotate, InsertToken
<1>a. tokens \in [Tokens -> Token] /\ marks \in [Calls -> SUBSET Mark] /\ "beaten" \in Mark
  BY DEF TypeOK, TablesOK, LocalsOK, Mark
<1> DEFINE S == {d \in Calls \ {c} : pc[d] = "rotate" /\ held[d] = held[c]}
<1>1. tokens' = Revoked({held[c]}) /\ marks' = Marked(S, "beaten") /\ UNCHANGED <<held, session>>
  BY DEF Rotate
<1>2. pc[c] = "rotate" /\ pc'[c] = "user"
  BY <1>0 DEF Rotate, LocalsOK
<1>3. \A x \in Tokens : Unbeaten(x)' => Unbeaten(x) /\ tokens'[x] = tokens[x] /\ x # held[c]
  BY <1>a, <1>1, RevokedTyped DEF Unbeaten
<1>4. \A d \in Calls : marks'[d] = IF d \in S THEN marks[d] \cup {"beaten"} ELSE marks[d]
  <2>1. S \subseteq Calls
    OBVIOUS
  <2> HIDE DEF S
  <2> QED
    BY <1>a, <1>1, MarkedTyped
<1>5. marks'[c] = marks[c]
  BY <1>4
<1>6. \A d \in Calls \ {c} : Carrier(d)' => Carrier(d) /\ pc'[d] = pc[d] /\ ~(pc[d] = "rotate" /\ held[d] = held[c])
  BY <1>0, <1>4 DEF CallsKept, Carrier, Bearer
<1>7. (Carrier(c)' => Carrier(c)) /\ \A d \in Calls : Bearer(d)' => Bearer(d)
  BY <1>0, <1>1, <1>2, <1>5 DEF CallsKept, Carrier, Bearer, Issuing
<1>8. TokenOrCarrier'
  <2>1. ASSUME NEW d \in Calls, NEW x \in Tokens, Carrier(d)', Unbeaten(x)', tokens'[x].session = session'[d]
        PROVE  pc'[d] = "rotate" /\ held'[d] = x
    <3>1. CASE d = c
      BY <1>1, <1>3, <1>7, <2>1, <3>1 DEF SessionInv, TokenOrCarrier
    <3>2. CASE d # c
      <4>1. Carrier(d) /\ pc'[d] = pc[d] /\ held'[d] = held[d] /\ session'[d] = session[d]
        BY <1>1, <1>6, <2>1, <3>2
      <4>2. Unbeaten(x) /\ tokens[x].session = session[d]
        BY <1>3, <2>1, <4>1
      <4> QED
        BY <4>1, <4>2 DEF SessionInv, TokenOrCarrier
    <3> QED
      BY <3>1, <3>2
  <2> QED
    BY <2>1 DEF TokenOrCarrier
<1>9. OneCarrier'
  <2>1. ASSUME NEW d \in Calls, d # c, Carrier(c)', Carrier(d)', session'[d] = session'[c]
        PROVE  FALSE
    BY <1>1, <1>6, <1>7, <2>1 DEF SessionInv, OneCarrier
  <2>2. ASSUME NEW d \in Calls, NEW e \in Calls, d # c, e # c, d # e, Carrier(d)', Carrier(e)', session'[d] = session'[e]
        PROVE  pc'[d] = "rotate" /\ held'[d] = held'[e]
    BY <1>1, <1>6, <2>2 DEF SessionInv, OneCarrier
  <2> QED
    BY <2>1, <2>2 DEF OneCarrier
<1>10. OneTokenPerSession' /\ LogoutEndsSession' /\ EndedNotCarried'
  <2>1. OneTokenPerSession'
    BY <1>3 DEF SessionInv, OneTokenPerSession
  <2>2. LogoutEndsSession'
    BY <1>0, <1>3 DEF SessionInv, LogoutEndsSession
  <2>3. \A d \in Calls : Carrier(d)' => Carrier(d)
    BY <1>6, <1>7
  <2>4. EndedNotCarried'
    BY <1>0, <1>1, <2>3 DEF SessionInv, EndedNotCarried
  <2> QED
    BY <2>1, <2>2, <2>4
<1>11. Named'
  <2>1. \A x \in Tokens : tokens[x].state = "live" => tokens[x].session \in Tokens
    BY DEF TypeOK
  <2>2. \A d \in Calls : Bearer(d) => session[d] \in Tokens
    BY DEF TypeOK, Working, Bearer
  <2>3. ended \subseteq Tokens
    BY DEF TypeOK, TablesOK
  <2> QED
    BY <1>0, <1>1, <1>7, <2>1, <2>2, <2>3 DEF SessionInv, Named, TokensKept
<1> QED
  BY <1>8, <1>9, <1>10, <1>11 DEF SessionInv

\* The token issued carries the session of the request, which is answered, or
\* a session of its own.
LEMMA InsertSession ==
    ASSUME TypeOK, SessionInv, NEW c \in Calls, InsertToken(c)
    PROVE  SessionInv'
<1>0. LocalsOK /\ CallsKept(Calls \ {c}) /\ tokens \in [Tokens -> Token] /\ ended' = ended /\ pc[c] = "insert"
  BY OthersKept DEF TypeOK, TablesOK, Handle, InsertToken
<1>1. pc'[c] = "idle"
  BY <1>0, AnswerTyped DEF InsertToken, LocalsOK
<1>2. ~Bearer(c)' /\ ~Carrier(c)'
  BY <1>1 DEF Bearer, Carrier, Issuing
<1>3. \A d \in Calls : Bearer(d)' =>
              /\ d # c /\ Bearer(d) /\ pc'[d] = pc[d] /\ held'[d] = held[d] /\ session'[d] = session[d]
              /\ marks[d] \subseteq marks'[d]
  BY <1>0, <1>2 DEF CallsKept, Bearer
<1>4. \A d \in Calls : Carrier(d)' =>
              d # c /\ Carrier(d) /\ pc'[d] = pc[d] /\ held'[d] = held[d] /\ session'[d] = session[d]
  BY <1>3 DEF Carrier
<1>5. CASE UNCHANGED tokens
  <2>1. TokensKept
    BY <1>5 DEF TokensKept
  <2> QED
    BY <1>0, <1>3, <2>1, SessionFrame
<1>6. ASSUME NEW n \in Tokens, tokens[n].state = "unused",
             tokens' = [tokens EXCEPT ![n] =
                      [state |-> "live", user |-> of[c], epoch |-> epoch[c], marks |-> marks[c],
                       session |-> IF held[c] = None THEN n ELSE session[c]]]
      PROVE  SessionInv'
  <2> DEFINE s == IF held[c] = None THEN n ELSE session[c]
  <2>1. tokens'[n].state = "live" /\ tokens'[n].marks = marks[c] /\ tokens'[n].session = s
    BY <1>0, <1>6
  <2>2. \A x \in Tokens : x # n => tokens'[x] = tokens[x]
    BY <1>0, <1>6
  <2>3. held[c] \in Tokens \cup {None} /\ None \notin Tokens
    BY <1>0, SessionsAssumption DEF TypeOK, Working, Issuing
  <2>4. s \in Tokens
    BY <1>0, <2>3 DEF TypeOK, Working
  <2>5. tokens'[s].state # "unused"
    <3>1. CASE held[c] = None
      BY <2>1, <3>1
    <3>2. CASE held[c] # None
      <4>1. Bearer(c)
        BY <1>0, <2>3, <3>2 DEF Bearer, Issuing
      <4> QED
        BY <2>1, <2>2, <2>4, <3>2, <4>1 DEF SessionInv, Named
    <3> QED
      BY <3>1, <3>2
  <2>6. ASSUME "beaten" \notin marks[c]
        PROVE  /\ \A x \in Tokens : Unbeaten(x) => tokens[x].session # s
               /\ \A d \in Calls : Carrier(d)' => session'[d] # s
               /\ s \notin ended
    <3>1. CASE held[c] = None
      BY <1>4, <1>6, <3>1 DEF SessionInv, Named, Unbeaten, Carrier
    <3>2. CASE held[c] # None
      <4>1. Carrier(c)
        BY <1>0, <2>3, <2>6, <3>2 DEF Bearer, Carrier, Issuing
      <4>2. \A x \in Tokens : Unbeaten(x) => tokens[x].session # s
        BY <1>0, <3>2, <4>1 DEF SessionInv, TokenOrCarrier
      <4>3. \A d \in Calls : Carrier(d)' => session'[d] # s
        BY <1>0, <1>4, <3>2, <4>1 DEF SessionInv, OneCarrier
      <4>4. s \notin ended
        BY <3>2, <4>1 DEF SessionInv, EndedNotCarried
      <4> QED
        BY <4>2, <4>3, <4>4
    <3> QED
      BY <3>1, <3>2
  <2> HIDE DEF s
  <2>7. \A x \in Tokens : Unbeaten(x)' =>
            \/ x # n /\ Unbeaten(x) /\ tokens'[x] = tokens[x]
            \/ x = n /\ "beaten" \notin marks[c]
    BY <2>1, <2>2 DEF Unbeaten
  <2>8. OneTokenPerSession' /\ LogoutEndsSession'
    BY <1>0, <2>1, <2>6, <2>7 DEF SessionInv, OneTokenPerSession, LogoutEndsSession
  <2>9. TokenOrCarrier'
    BY <1>4, <2>1, <2>6, <2>7 DEF SessionInv, TokenOrCarrier
  <2>10. OneCarrier' /\ EndedNotCarried'
    BY <1>0, <1>4 DEF SessionInv, OneCarrier, EndedNotCarried
  <2>11. Named'
    <3>1. \A x \in Tokens : tokens[x].state # "unused" => tokens'[x].state # "unused"
      BY <1>6, <2>2
    <3>2. ended \subseteq Tokens /\ \A x \in Tokens : tokens[x].state = "live" => tokens[x].session \in Tokens
      BY DEF TypeOK, TablesOK
    <3>3. \A d \in Calls : Bearer(d) => session[d] \in Tokens
      BY DEF TypeOK, Working, Bearer
    <3>4. \A x \in Tokens : tokens'[x].state = "live" => tokens'[tokens'[x].session].state # "unused"
      BY <2>1, <2>2, <2>5, <3>1, <3>2 DEF SessionInv, Named
    <3>5. \A d \in Calls : Bearer(d)' => tokens'[session'[d]].state # "unused"
      BY <1>3, <3>1, <3>3 DEF SessionInv, Named
    <3> QED
      BY <1>0, <3>1, <3>2, <3>4, <3>5 DEF SessionInv, Named
  <2> QED
    BY <2>8, <2>9, <2>10, <2>11 DEF SessionInv
<1> QED
  BY <1>5, <1>6 DEF InsertToken

\* Logout ends a session with its token and beats the requests that read it.
LEMMA LogoutSession ==
    ASSUME TypeOK, SessionInv, Logout
    PROVE  SessionInv'
<1>0. CallsKept(Calls) /\ TokensKept /\ LocalsOK /\ tokens \in [Tokens -> Token] /\ UNCHANGED <<pc, held, session>>
  BY WorldKeeps DEF TypeOK, TablesOK, World, Logout
<1>1. PICK t \in Tokens :
           /\ tokens[t].state # "unused" /\ tokens' = Revoked({t})
           /\ marks' = Marked({d \in Calls : pc[d] \in Issuing /\ held[d] = t}, "beaten")
           /\ ended' = IF tokens[t].state = "live" /\ "beaten" \notin tokens[t].marks
                       THEN ended \cup {tokens[t].session} ELSE ended
  BY DEF Logout
<1>2. \A x \in Tokens : Unbeaten(x)' => Unbeaten(x) /\ tokens'[x] = tokens[x] /\ x # t
  BY <1>0, <1>1, RevokedTyped DEF Unbeaten
<1>3. \A d \in Calls : Carrier(d)' => Carrier(d) /\ held[d] # t
  <2> DEFINE S == {d \in Calls : pc[d] \in Issuing /\ held[d] = t}
  <2>1. marks \in [Calls -> SUBSET Mark] /\ "beaten" \in Mark
    BY <1>0 DEF LocalsOK, Mark
  <2>2. \A d \in S : "beaten" \in marks'[d]
    <3>1. S \subseteq Calls /\ marks' = Marked(S, "beaten")
      BY <1>1
    <3> HIDE DEF S
    <3>2. \A d \in S : Marked(S, "beaten")[d] = marks[d] \cup {"beaten"}
      BY <2>1, <3>1, MarkedTyped
    <3> QED
      BY <3>1, <3>2
  <2>3. \A d \in Calls : Carrier(d)' => d \notin S
    BY <2>2 DEF Carrier
  <2>4. \A d \in Calls : Carrier(d)' => Carrier(d)
    BY <1>0 DEF CallsKept, Carrier, Bearer
  <2> QED
    BY <2>3, <2>4 DEF Carrier, Bearer
<1>4. OneTokenPerSession' /\ TokenOrCarrier' /\ OneCarrier'
  BY <1>0, <1>2, <1>3 DEF SessionInv, OneTokenPerSession, TokenOrCarrier, OneCarrier
<1>5. LogoutEndsSession'
  BY <1>1, <1>2 DEF SessionInv, LogoutEndsSession, OneTokenPerSession, Unbeaten
<1>6. EndedNotCarried'
  BY <1>0, <1>1, <1>3 DEF SessionInv, EndedNotCarried, TokenOrCarrier, Unbeaten
<1>7. Named'
  <2>1. ended \subseteq Tokens /\ \A x \in Tokens : tokens[x].state = "live" => tokens[x].session \in Tokens
    BY DEF TypeOK, TablesOK
  <2>2. \A d \in Calls : Bearer(d) => session[d] \in Tokens
    BY DEF TypeOK, Working, Bearer
  <2>3. \A d \in Calls : Bearer(d)' => Bearer(d)
    BY <1>0 DEF Bearer
  <2>4. \A x \in Tokens : tokens'[x].state = "live" => tokens'[tokens'[x].session].state # "unused"
    BY <1>0, <2>1 DEF SessionInv, Named, TokensKept
  <2>5. \A d \in Calls : Bearer(d)' => tokens'[session'[d]].state # "unused"
    BY <1>0, <2>2, <2>3 DEF SessionInv, Named, TokensKept
  <2>6. \A x \in ended' : tokens'[x].state # "unused"
    BY <1>0, <1>1, <2>1 DEF SessionInv, Named, TokensKept
  <2> QED
    BY <2>4, <2>5, <2>6 DEF Named
<1> QED
  BY <1>4, <1>5, <1>6, <1>7 DEF SessionInv

\* Every step keeps SessionInv.
LEMMA SessionStep ==
    ASSUME TypeOK, SessionInv, [Next]_vars
    PROVE  SessionInv'
<1>1. ASSUME NEW c \in Calls, Handle(c) PROVE SessionInv'
  <2>1. CASE Refresh(c)
    BY <2>1, RefreshSession
  <2>2. CASE Rotate(c)
    BY <2>2, RotateSession
  <2>3. CASE InsertToken(c)
    BY <2>3, InsertSession
  <2>4. CASE ~Refresh(c) /\ ~Rotate(c) /\ ~InsertToken(c)
    <3>0. LocalsOK /\ CallsKept(Calls \ {c}) /\ TokensKept /\ Working(pc[c], of[c], held[c], session[c])
      BY <1>1, <2>4, OthersKept, NoneIssued DEF TypeOK
    <3>1. ended' = ended
      BY <1>1, <2>4 DEF Handle, Login, LoadUser, GetUserRoles, ResetPassword, ChangePassword, WritePassword, MarkUsed, RevokeAll, Fail
    <3>2. Bearer(c)' => /\ Bearer(c) /\ held'[c] = held[c] /\ session'[c] = session[c] /\ marks[c] \subseteq marks'[c]
                        /\ pc[c] = "rotate" => pc'[c] = "rotate"
      <4>1. CASE Login(c)
        <5>1. held' = held /\ held[c] = None /\ None \notin Tokens
          BY <3>0, <4>1, SessionsAssumption DEF Login, Working
        <5> QED
          BY <5>1 DEF Bearer
      <4>2. ASSUME NEW m \in [Calls -> SUBSET Mark], Answer(c, m) PROVE ~Bearer(c)'
        BY <3>0, <4>2, AnswerTyped DEF Bearer, Issuing
      <4>3. CASE LoadUser(c)
        <5>1. CASE Answer(c, marks)
          BY <3>0, <4>2, <5>1 DEF LocalsOK
        <5>2. CASE pc' = [pc EXCEPT ![c] = "roles"] /\ UNCHANGED locals
          BY <4>3, <5>2 DEF LoadUser, Bearer, Issuing, locals
        <5> QED
          BY <4>3, <5>1, <5>2 DEF LoadUser
      <4>4. CASE GetUserRoles(c)
        BY <4>4 DEF GetUserRoles, Bearer, Issuing
      <4>5. CASE ResetPassword(c) \/ ChangePassword(c) \/ WritePassword(c) \/ MarkUsed(c)
        <5>1. pc'[c] \notin Issuing
          BY <3>0, <4>5 DEF ResetPassword, ChangePassword, WritePassword, MarkUsed, Issuing, LocalsOK
        <5> QED
          BY <5>1 DEF Bearer
      <4>6. CASE Fail(c)
        BY <3>0, <4>2, <4>6 DEF Fail, LocalsOK
      <4>7. CASE RevokeAll(c)
        <5> DEFINE m == Marked({d \in Calls \ {c} : pc[d] \in Issuing /\ of[d] = of[c]}, "outrun")
        <5>1. m \in [Calls -> SUBSET Mark]
          BY <3>0, MarkedTyped DEF LocalsOK, Mark
        <5>2. Answer(c, m)
          BY <4>7 DEF RevokeAll
        <5> HIDE DEF m
        <5> QED
          BY <4>2, <5>1, <5>2
      <4> QED
        BY <1>1, <2>4, <4>1, <4>3, <4>4, <4>5, <4>6, <4>7 DEF Handle
    <3>3. \A d \in Calls : Bearer(d)' =>
              /\ Bearer(d) /\ held'[d] = held[d] /\ session'[d] = session[d] /\ marks[d] \subseteq marks'[d]
              /\ pc[d] = "rotate" => pc'[d] = "rotate"
      BY <3>0, <3>2 DEF CallsKept, Bearer
    <3> QED
      BY <3>0, <3>1, <3>3, SessionFrame
  <2> QED
    BY <2>1, <2>2, <2>3, <2>4
<1>2. CASE World
  <2>1. CASE Logout
    BY <2>1, LogoutSession
  <2>2. CASE ~Logout
    <3>1. CallsKept(Calls) /\ TokensKept /\ ended' = ended
      BY <1>2, <2>2, WorldKeeps
    <3>2. \A d \in Calls : Bearer(d)' =>
              /\ Bearer(d) /\ held'[d] = held[d] /\ session'[d] = session[d] /\ marks[d] \subseteq marks'[d]
              /\ pc[d] = "rotate" => pc'[d] = "rotate"
      BY <3>1 DEF CallsKept, Bearer
    <3> QED
      BY <3>1, <3>2, SessionFrame
  <2> QED
    BY <2>1, <2>2
<1>3. CASE UNCHANGED vars
  <2>1. TokensKept /\ ended' = ended /\ UNCHANGED <<pc, held, session, marks>>
    BY <1>3 DEF vars, rows, locals, TokensKept
  <2>2. \A d \in Calls : Bearer(d)' =>
              /\ Bearer(d) /\ held'[d] = held[d] /\ session'[d] = session[d] /\ marks[d] \subseteq marks'[d]
              /\ pc[d] = "rotate" => pc'[d] = "rotate"
    BY <2>1 DEF Bearer
  <2> QED
    BY <2>1, <2>2, SessionFrame
<1> QED
  BY <1>1, <1>2, <1>3 DEF Next, World

-----------------------------------------------------------------------------
(* Admin claims, and reset tokens *)

\* The property, and the same of a request that has read the roles.
ClaimInv ==
    /\ AdminClaimIsEarned
    /\ \A c \in Calls : pc[c] = "insert" /\ claim[c] = "admin" /\ users[of[c]].there => of[c] \in admins

\* Every step keeps ClaimInv.
LEMMA ClaimStep ==
    ASSUME TypeOK, ClaimInv, [Next]_vars
    PROVE  ClaimInv'
<1>0. LocalsOK /\ users \in [Users -> User] /\ access \subseteq Access /\ WorkingOK
  BY DEF TypeOK, TablesOK, WorkingOK
<1>1. ASSUME NEW c \in Calls, Handle(c) PROVE ClaimInv'
  <2>1. CallsKept(Calls \ {c}) /\ UNCHANGED admins
    BY <1>1, OthersKept DEF Handle, Login, Refresh, Rotate, LoadUser, GetUserRoles, InsertToken,
       ResetPassword, ChangePassword, WritePassword, MarkUsed, RevokeAll, Fail, rows
  <2>2. \A u \in Users : users'[u].there = users[u].there
    <3>1. CASE UNCHANGED users
      BY <3>1
    <3>2. CASE WritePassword(c)
      BY <1>0, <3>2 DEF WritePassword, User
    <3> QED
      BY <1>1, <3>1, <3>2 DEF Handle, Login, Refresh, Rotate, LoadUser, GetUserRoles, InsertToken,
         ResetPassword, ChangePassword, MarkUsed, RevokeAll, Fail, rows
  <2>3. \A d \in Calls \ {c} : claim'[d] = claim[d]
    <3>1. CASE UNCHANGED claim
      BY <3>1
    <3>2. CASE GetUserRoles(c)
      BY <1>0, <3>2 DEF GetUserRoles, LocalsOK
    <3>3. CASE claim' = [claim EXCEPT ![c] = "plain"]
      BY <1>0, <3>3 DEF LocalsOK
    <3> QED
      BY <1>1, <3>1, <3>2, <3>3 DEF Handle, Login, Refresh, Rotate, LoadUser, InsertToken,
         ResetPassword, ChangePassword, WritePassword, MarkUsed, RevokeAll, Fail, Answer, locals
  <2>4. pc'[c] = "insert" /\ claim'[c] = "admin" => of'[c] \in admins
    <3>1. CASE GetUserRoles(c)
      BY <1>0, <3>1 DEF GetUserRoles, LocalsOK
    <3>2. CASE ~GetUserRoles(c)
      <4>1. pc'[c] # "insert"
        BY <1>0, <1>1, <3>2 DEF Handle, Login, Refresh, Rotate, LoadUser, InsertToken,
           ResetPassword, ChangePassword, WritePassword, MarkUsed, RevokeAll, Fail, Answer, LocalsOK
      <4> QED
        BY <4>1
    <3> QED
      BY <3>1, <3>2
  <2>5. \A d \in Calls : pc'[d] = "insert" /\ claim'[d] = "admin" /\ users'[of'[d]].there => of'[d] \in admins'
    <3>1. ASSUME NEW d \in Calls \ {c}, pc'[d] = "insert", claim'[d] = "admin", users'[of'[d]].there
          PROVE  of'[d] \in admins'
      <4>1. pc[d] = "insert" /\ claim[d] = "admin" /\ of'[d] = of[d]
        BY <2>1, <2>3, <3>1 DEF CallsKept
      <4>2. of[d] \in Users
        BY <1>0, <4>1 DEF WorkingOK, Working
      <4>3. users[of[d]].there
        BY <2>2, <3>1, <4>1, <4>2
      <4> QED
        BY <2>1, <4>1, <4>3 DEF ClaimInv
    <3> QED
      BY <2>1, <2>4, <3>1
  <2>6. AdminClaimIsEarned'
    <3>1. ASSUME NEW a \in access', a.claim = "admin", users'[a.user].there PROVE a.user \in admins'
      <4>1. CASE a \in access
        BY <1>0, <2>1, <2>2, <3>1, <4>1 DEF ClaimInv, AdminClaimIsEarned, Access
      <4>2. CASE a \notin access
        <5>1. pc[c] = "insert" /\ a = [user |-> of[c], claim |-> claim[c]]
          BY <1>1, <3>1, <4>2 DEF Handle, Login, Refresh, Rotate, LoadUser, GetUserRoles, InsertToken,
             ResetPassword, ChangePassword, WritePassword, MarkUsed, RevokeAll, Fail, rows
        <5>2. of[c] \in Users /\ a.user = of[c] /\ a.claim = claim[c]
          BY <1>0, <5>1 DEF WorkingOK, Working
        <5> QED
          BY <2>1, <2>2, <3>1, <5>1, <5>2 DEF ClaimInv
      <4> QED
        BY <4>1, <4>2
    <3> QED
      BY <3>1 DEF AdminClaimIsEarned
  <2> QED
    BY <2>5, <2>6 DEF ClaimInv
<1>2. CASE World
  <2>1. UNCHANGED <<pc, of>> /\ \A u \in Users : users'[u].there => users[u].there
    <3>1. UNCHANGED <<pc, of>>
      BY <1>2 DEF World, Logout, ForgotPassword, ExpireRefresh, ExpireAccess, ExpireReset, VerifyEmail, SetActive, Promote, Demote, DeleteUser, locals
    <3> QED
      BY <1>2, <3>1, WorldKeeps
  <2>2. ASSUME NEW u \in Users, Demote(u) PROVE ClaimInv'
    <3>1. admins' = admins \ {u} /\ UNCHANGED users
      BY <2>2 DEF Demote
    <3>2. \A d \in Calls : claim'[d] = "admin" => of[d] # u /\ claim[d] = "admin"
      BY <1>0, <2>2 DEF Demote, AgeClaims, Aged, LocalsOK
    <3>3. \A a \in access' : a.claim = "admin" => a \in access /\ a.user # u
      <4>1. ASSUME NEW b \in access, b.user = u PROVE [b EXCEPT !.claim = Aged(@)].claim # "admin"
        BY <1>0, <4>1 DEF Access, Aged
      <4>2. access' = {IF b.user = u THEN [b EXCEPT !.claim = Aged(@)] ELSE b : b \in access}
        BY <2>2 DEF Demote, AgeClaims
      <4> QED
        BY <4>1, <4>2
    <3> QED
      BY <2>1, <3>1, <3>2, <3>3 DEF ClaimInv, AdminClaimIsEarned
  <2>3. ASSUME NEW u \in Users, DeleteUser(u) PROVE ClaimInv'
    <3>1. ~users'[u].there /\ admins' = admins \ {u} /\ UNCHANGED <<access, claim>>
      BY <1>0, <2>3 DEF DeleteUser, User, locals
    <3>2. \A a \in access : a.user \in Users
      BY <1>0 DEF Access
    <3>3. \A d \in Calls : pc[d] = "insert" => of[d] \in Users
      BY <1>0 DEF WorkingOK, Working
    <3> QED
      BY <2>1, <3>1, <3>2, <3>3 DEF ClaimInv, AdminClaimIsEarned
  <2>4. CASE ~\E u \in Users : Demote(u) \/ DeleteUser(u)
    <3>1. access' \subseteq access /\ admins \subseteq admins' /\ UNCHANGED claim
      BY <1>2, <2>4 DEF World, Logout, ForgotPassword, ExpireRefresh, ExpireAccess, ExpireReset, VerifyEmail, SetActive, Promote, locals
    <3>2. \A a \in access : a.user \in Users
      BY <1>0 DEF Access
    <3>3. \A d \in Calls : pc[d] = "insert" => of[d] \in Users
      BY <1>0 DEF WorkingOK, Working
    <3> QED
      BY <2>1, <3>1, <3>2, <3>3 DEF ClaimInv, AdminClaimIsEarned
  <2> QED
    BY <2>2, <2>3, <2>4
<1>3. CASE UNCHANGED vars
  BY <1>3 DEF ClaimInv, AdminClaimIsEarned, vars, rows, locals
<1> QED
  BY <1>1, <1>2, <1>3 DEF Next, World

\* A token that has set a password is used, or about to be marked.
CountInv ==
    \A r \in Resets \ unmarked :
        /\ resets[r].uses \in {0, 1}
        /\ resets[r].uses = 1 => resets[r].state = "used" \/ \E c \in Calls : pc[c] = "mark" /\ held[c] = r

\* A request that read its token alone finds it unspent when it writes.
FreshInv ==
    \A c \in Calls :
        pc[c] = "write" /\ "beaten" \notin marks[c] /\ held[c] \notin unmarked => resets[held[c]].uses = 0

\* Of two requests with the same token one was late.
ApartInv ==
    \A c, d \in Calls :
        pc[c] \in {"write", "mark"} /\ pc[d] \in {"write", "mark"} /\ held[c] = held[d] /\ c # d =>
            "beaten" \in marks[c] \/ "beaten" \in marks[d]

ResetInv == CountInv /\ FreshInv /\ ApartInv

\* Every step keeps ResetInv.
LEMMA ResetStep ==
    ASSUME TypeOK, ResetInv, [Next]_vars
    PROVE  ResetInv'
<1>0. LocalsOK /\ resets \in [Resets -> Reset] /\ WorkingOK
  BY DEF TypeOK, TablesOK, WorkingOK
<1>a. \A d \in Calls : pc[d] \in {"write", "mark"} => held[d] \in Resets
  BY <1>0 DEF WorkingOK, Working
<1>b. CountInv /\ FreshInv /\ ApartInv
  BY DEF ResetInv
<1>1. ASSUME NEW c \in Calls, Handle(c) PROVE ResetInv'
  <2>1. /\ CallsKept(Calls \ {c})
        /\ \A d \in Calls \ {c} : pc'[d] = pc[d] /\ held'[d] = held[d] /\ marks[d] \subseteq marks'[d]
    BY <1>1, OthersKept DEF CallsKept
  <2>2. CASE ResetPassword(c)
    <3>1. PICK r \in Resets : /\ resets[r].state = "open" /\ held' = [held EXCEPT ![c] = r]
                              /\ marks' = [marks EXCEPT ![c] = IF InUse(r) THEN {"beaten"} ELSE {}]
      BY <2>2 DEF ResetPassword
    <3>2. /\ pc[c] = "idle" /\ pc'[c] = "write" /\ held'[c] = r /\ UNCHANGED <<resets, unmarked>>
          /\ marks'[c] = IF InUse(r) THEN {"beaten"} ELSE {}
      BY <1>0, <2>2, <3>1 DEF ResetPassword, LocalsOK, rows
    <3>3. CountInv'
      BY <1>b, <2>1, <3>2 DEF CountInv
    <3>4. InUse(r) \/ r \in unmarked \/ resets[r].uses = 0
      BY <1>b, <3>1 DEF CountInv, InUse
    <3>5. FreshInv'
      BY <1>b, <2>1, <3>2, <3>4 DEF FreshInv
    <3>6. \A d \in Calls \ {c} : pc[d] \in {"write", "mark"} /\ held[d] = r => "beaten" \in marks'[c]
      BY <3>2 DEF InUse
    <3>7. ApartInv'
      BY <1>b, <2>1, <3>2, <3>6 DEF ApartInv
    <3> QED
      BY <3>3, <3>5, <3>7 DEF ResetInv
  <2>3. CASE WritePassword(c) /\ pc[c] = "write"
    <3> DEFINE r == held[c]
    <3>1. r \in Resets /\ pc'[c] = "mark" /\ UNCHANGED <<held, marks, unmarked>>
      BY <1>0, <1>a, <2>3 DEF WritePassword, LocalsOK, locals
    <3>2. /\ \A x \in Resets \ {r} : resets'[x] = resets[x]
          /\ resets'[r].state = resets[r].state
          /\ \/ resets'[r].uses = resets[r].uses
             \/ "beaten" \notin marks[c] /\ resets'[r].uses = resets[r].uses + 1
      <4>1. CASE resets' = resets
        BY <4>1
      <4>2. CASE "beaten" \notin marks[c] /\ resets' = [resets EXCEPT ![r].uses = resets[r].uses + 1]
        BY <1>0, <3>1, <4>2 DEF Reset
      <4> QED
        BY <2>3, <4>1, <4>2 DEF WritePassword, Counted
    <3> HIDE DEF r
    <3>3. r = held[c]
      BY DEF r
    <3>4. r \notin unmarked => resets'[r].uses \in {0, 1}
      BY <1>b, <2>3, <3>1, <3>2, <3>3 DEF CountInv, FreshInv
    <3>5. CountInv'
      <4> SUFFICES ASSUME NEW x \in Resets \ unmarked
                   PROVE  /\ resets'[x].uses \in {0, 1}
                          /\ resets'[x].uses = 1 =>
                                resets'[x].state = "used" \/ \E d \in Calls : pc'[d] = "mark" /\ held'[d] = x
        BY <3>1 DEF CountInv
      <4>1. CASE x = r
        BY <3>1, <3>3, <3>4, <4>1
      <4>2. CASE x # r
        BY <1>b, <2>1, <2>3, <3>1, <3>2, <3>3, <4>2 DEF CountInv
      <4> QED
        BY <4>1, <4>2
    <3>6. FreshInv'
      <4> SUFFICES ASSUME NEW d \in Calls, pc'[d] = "write", "beaten" \notin marks'[d], held'[d] \notin unmarked
                   PROVE  resets'[held'[d]].uses = 0
        BY <3>1 DEF FreshInv
      <4>1. d # c /\ pc[d] = "write" /\ "beaten" \notin marks[d] /\ held'[d] = held[d] /\ held[d] \in Resets
        BY <1>a, <2>1, <3>1
      <4>2. resets[held[d]].uses = 0
        BY <1>b, <3>1, <4>1 DEF FreshInv
      <4>3. CASE held[d] # r
        BY <3>2, <4>1, <4>2, <4>3
      <4>4. CASE held[d] = r
        <5>1. "beaten" \in marks[c]
          BY <1>b, <2>3, <3>3, <4>1, <4>4 DEF ApartInv
        <5> QED
          BY <3>2, <4>1, <4>2, <4>4, <5>1
      <4> QED
        BY <4>3, <4>4
    <3>7. ApartInv'
      <4>1. \A d \in Calls : pc'[d] \in {"write", "mark"} => pc[d] \in {"write", "mark"}
        BY <2>1, <2>3
      <4> QED
        BY <1>b, <3>1, <4>1 DEF ApartInv
    <3> QED
      BY <3>5, <3>6, <3>7 DEF ResetInv
  <2>4. CASE MarkUsed(c)
    <3> DEFINE r == held[c]
    <3>1. r \in Resets /\ pc[c] = "mark" /\ pc'[c] = "revokeAll" /\ UNCHANGED <<held, marks, unmarked>>
      BY <1>0, <1>a, <2>4 DEF MarkUsed, LocalsOK, locals
    <3>2. /\ \A x \in Resets \ {r} : resets'[x] = resets[x]
          /\ resets'[r].state = "used" /\ resets'[r].uses = resets[r].uses
      BY <1>0, <2>4, <3>1 DEF MarkUsed, Reset
    <3> HIDE DEF r
    <3>3. r = held[c]
      BY DEF r
    <3>4. CountInv'
      BY <1>b, <2>1, <3>1, <3>2, <3>3 DEF CountInv
    <3>5. FreshInv'
      BY <1>a, <1>b, <2>1, <3>1, <3>2 DEF FreshInv
    <3>6. ApartInv'
      BY <1>b, <2>1, <3>1 DEF ApartInv
    <3> QED
      BY <3>4, <3>5, <3>6 DEF ResetInv
  <2>5. CASE Fail(c)
    <3>1. /\ pc'[c] = "idle" /\ resets' = resets /\ unmarked \subseteq unmarked'
          /\ pc[c] = "mark" => held[c] \in unmarked'
      BY <1>0, <2>5 DEF Fail, Answer, rows, LocalsOK
    <3>2. CountInv'
      BY <1>b, <2>1, <3>1 DEF CountInv
    <3>3. FreshInv'
      BY <1>b, <2>1, <3>1 DEF FreshInv
    <3>4. ApartInv'
      BY <1>b, <2>1, <3>1 DEF ApartInv
    <3> QED
      BY <3>2, <3>3, <3>4 DEF ResetInv
  <2>6. CASE ~ResetPassword(c) /\ ~(WritePassword(c) /\ pc[c] = "write") /\ ~MarkUsed(c) /\ ~Fail(c)
    <3>1. /\ pc[c] \notin {"write", "mark"} /\ pc'[c] \notin {"write", "mark"}
          /\ UNCHANGED <<resets, unmarked>>
      BY <1>0, <1>1, <2>6 DEF Handle, Login, Refresh, Rotate, LoadUser, GetUserRoles, InsertToken,
         ChangePassword, WritePassword, Counted, RevokeAll, Answer, rows, LocalsOK
    <3>2. CountInv'
      BY <1>b, <2>1, <3>1 DEF CountInv
    <3>3. FreshInv'
      BY <1>b, <2>1, <3>1 DEF FreshInv
    <3>4. ApartInv'
      BY <1>b, <2>1, <3>1 DEF ApartInv
    <3> QED
      BY <3>2, <3>3, <3>4 DEF ResetInv
  <2> QED
    BY <2>2, <2>3, <2>4, <2>5, <2>6
<1>2. CASE World
  <2>1. CallsKept(Calls)
    BY <1>2, WorldKeeps
  <2> DEFINE Kept == \A r \in Resets : /\ resets'[r].uses = resets[r].uses
                                       /\ resets[r].state = "used" => resets'[r].state = "used"
  <2>2. Kept
    <3>1. CASE UNCHANGED resets
      BY <3>1
    <3>2. CASE ForgotPassword
      BY <1>0, <3>2 DEF ForgotPassword, Reset
    <3>3. ASSUME NEW x \in Resets, ExpireReset(x) PROVE Kept
      BY <1>0, <3>3 DEF ExpireReset, Reset
    <3>4. ASSUME NEW u \in Users, DeleteUser(u) PROVE Kept
      BY <1>0, <3>4 DEF DeleteUser, Reset
    <3> HIDE DEF Kept
    <3> QED
      BY <1>2, <3>1, <3>2, <3>3, <3>4 DEF World, Logout, ExpireRefresh, ExpireAccess, VerifyEmail, SetActive, Promote, Demote
  <2>3. unmarked' = unmarked /\ \A d \in Calls : pc'[d] = pc[d] /\ held'[d] = held[d] /\ marks[d] \subseteq marks'[d]
    BY <1>2, <2>1 DEF CallsKept, World, Logout, ForgotPassword, ExpireRefresh, ExpireAccess, ExpireReset, VerifyEmail,
       SetActive, Promote, Demote, DeleteUser
  <2>4. CountInv'
    BY <1>b, <2>2, <2>3 DEF CountInv
  <2>5. FreshInv' /\ ApartInv'
    BY <1>a, <1>b, <2>2, <2>3 DEF FreshInv, ApartInv
  <2> QED
    BY <2>4, <2>5 DEF ResetInv
<1>3. CASE UNCHANGED vars
  BY <1>3 DEF ResetInv, CountInv, FreshInv, ApartInv, vars, rows, locals
<1> QED
  BY <1>1, <1>2, <1>3 DEF Next, World

-----------------------------------------------------------------------------
(* Theorems *)

Inv == TypeOK /\ PasswordInv /\ SessionInv /\ ClaimInv /\ ResetInv

\* Initially nothing is issued.
LEMMA InitInv == Init => Inv
<1> SUFFICES ASSUME Init PROVE Inv
  OBVIOUS
<1>1. TypeOK
  BY InitTyped
<1>2. \A t \in Tokens : tokens[t].state = "unused"
  BY DEF Init, NoToken
<1>3. \A c \in Calls : pc[c] = "idle"
  BY DEF Init
<1>4. PasswordInv
  BY <1>2, <1>3 DEF PasswordInv, Issuing
<1>5. SessionInv
  BY <1>2, <1>3 DEF Init, SessionInv, OneTokenPerSession, TokenOrCarrier, OneCarrier, LogoutEndsSession, EndedNotCarried,
     Named, Unbeaten, Carrier, Bearer, Issuing
<1>6. ClaimInv /\ ResetInv
  BY <1>3 DEF Init, ClaimInv, AdminClaimIsEarned, ResetInv, CountInv, FreshInv, ApartInv
<1> QED
  BY <1>1, <1>4, <1>5, <1>6 DEF Inv

\* Inv is inductive.
LEMMA InvStep == Inv /\ [Next]_vars => Inv'
<1> SUFFICES ASSUME Inv, [Next]_vars PROVE Inv'
  OBVIOUS
<1>1. TypeOK /\ PasswordInv /\ SessionInv /\ ClaimInv /\ ResetInv
  BY DEF Inv
<1>2. TypeOK' /\ SessionInv' /\ ClaimInv' /\ ResetInv'
  BY <1>1, TypeStep, SessionStep, ClaimStep, ResetStep
<1>3. PasswordInv'
  <2>1. CASE \E c \in Calls : Handle(c)
    BY <1>1, <2>1, HandlePassword
  <2>2. CASE World
    BY <1>1, <2>2, WorldPassword
  <2>3. CASE UNCHANGED vars
    BY <1>1, <2>3 DEF PasswordInv, Due, PasswordChanging, vars, rows, locals
  <2> QED
    BY <2>1, <2>2, <2>3 DEF Next, World
<1> QED
  BY <1>2, <1>3 DEF Inv

\* The tables and the locals of requests keep their types, and no request goes
\* on without the row it read.
THEOREM SessionsTypeCorrect == Spec => []TypeOK
<1>1. Inv => TypeOK
  BY DEF Inv
<1> QED
  BY <1>1, InitInv, InvStep, PTL DEF Spec

\* After a password change or reset that ran to its end, only requests it outran
\* leave a session of an older password.
THEOREM SessionsAreRevoked == Spec => []SessionsFollowPassword
<1>1. Inv => SessionsFollowPassword
  BY DEF Inv, PasswordInv, Due, SessionsFollowPassword
<1> QED
  BY <1>1, InitInv, InvStep, PTL DEF Spec

\* Rotation leaves one live token to a session that was used by one request at
\* a time.
THEOREM RotationHandsOn == Spec => []OneTokenPerSession
<1>1. Inv => OneTokenPerSession
  BY DEF Inv, SessionInv
<1> QED
  BY <1>1, InitInv, InvStep, PTL DEF Spec

\* A session that was logged out stays so.
THEOREM LogoutIsFinal == Spec => []LogoutEndsSession
<1>1. Inv => LogoutEndsSession
  BY DEF Inv, SessionInv
<1> QED
  BY <1>1, InitInv, InvStep, PTL DEF Spec

\* No refresh prolongs a role that was taken away.
THEOREM ClaimsAreEarned == Spec => []AdminClaimIsEarned
<1>1. Inv => AdminClaimIsEarned
  BY DEF Inv, ClaimInv
<1> QED
  BY <1>1, InitInv, InvStep, PTL DEF Spec

\* A reset token sets one password, whatever else happens between the read, the
\* write and the marking of a request, unless that marking failed.
THEOREM ResetsWorkOnce == Spec => []ResetOnce
<1>1. Inv => ResetOnce
  BY DEF Inv, ResetInv, CountInv, ResetOnce
<1> QED
  BY <1>1, InitInv, InvStep, PTL DEF Spec

=============================================================================
