------------------------ MODULE SessionServer_proofs ------------------------
(***************************************************************************)
(* The server implements the store: every step of every request, the       *)
(* purge, the clock and a restart is a step of UserStore or leaves its     *)
(* variables alone.  The store's invariants then hold of the server, with  *)
(* any number of concurrent requests.  The one fact the argument needs of  *)
(* the server itself is that what a handler carries between its store      *)
(* calls is well typed, hence the invariant ServerInv.                     *)
(***************************************************************************)
EXTENDS SessionServer, UserStore_proofs, LimiterOps_proofs

------------------------------------------------------------------------------
\* A well-typed request that is past the middleware knows its session.
LEMMA KnowsSession ==
  ASSUME ServerTypeOK, NEW r \in Reqs, req[r].pc \in {"in", "verified"}
  PROVE  req[r].token \in Tokens /\ req[r].user \in UserIds
BY DEF ServerTypeOK, ReqState

\* Each step of the server is a step of the store or leaves it alone.
LEMMA ServerStepIsStoreStep ==
  ASSUME ServerInv, [ServerNext]_vars
  PROVE  [StoreNext]_storeVars
<1>. USE DEF ServerInv
<1>1. CASE \E r \in Reqs : NewRequest(r)
  BY <1>1 DEF NewRequest, CheckLimiter, Resolve
<1>2. ASSUME NEW r \in Reqs, RequestStep(r)
      PROVE  [StoreNext]_storeVars
  <2>1. CASE \E password \in Passwords : CheckPassword(r, password)
    BY <2>1 DEF CheckPassword
  <2>2. CASE CountFailure(r) \/ ResetLimiter(r) \/ Reply(r)
    BY <2>2 DEF CountFailure, ResetLimiter, Reply
  <2>3. CASE OpenSession(r)
    <3>1. req[r].user \in UserIds
      BY <2>3 DEF OpenSession, ServerTypeOK, ReqState
    <3>. QED  BY <2>3, <3>1 DEF OpenSession, StoreNext
  <2>4. CASE Logout(r)
    BY <2>4, KnowsSession DEF Logout, StoreNext
  <2>5. CASE \E name \in Usernames, password \in Passwords, role \in Roles \cup {"other"} :
                AdminCreate(r, name, password, role)
    BY <2>5 DEF AdminCreate, StoreNext
  <2>6. CASE \E id \in UserIds, upd \in Updates : AdminUpdate(r, id, upd)
    <3>1. PICK id \in UserIds, upd \in Updates : AdminUpdate(r, id, upd)
      BY <2>6
    <3>. DEFINE keep == IF id = req[r].user THEN req[r].token ELSE Nil
    <3>2. keep \in Tokens \cup {Nil}
      BY <3>1, KnowsSession DEF AdminUpdate, IsAdminRequest
    <3>3. Update(id, upd, keep)
      BY <3>1 DEF AdminUpdate
    <3>. QED  BY <3>2, <3>3 DEF StoreNext
  <2>7. CASE \E id \in UserIds : AdminDelete(r, id)
    BY <2>7 DEF AdminDelete, StoreNext
  <2>8. CASE \E password \in Passwords : VerifyCurrent(r, password)
    BY <2>8 DEF VerifyCurrent
  <2>9. CASE \E password \in Passwords : ChangePassword(r, password)
    <3>1. PICK password \in Passwords : ChangePassword(r, password)
      BY <2>9
    <3>. DEFINE upd == [role |-> Nil, active |-> Nil, password |-> password]
    <3>2. upd \in Updates
      BY DEF Updates
    <3>3. Update(req[r].user, upd, req[r].token)
      BY <3>1 DEF ChangePassword
    <3>4. req[r].user \in UserIds /\ req[r].token \in Tokens
      BY <3>1, KnowsSession DEF ChangePassword
    <3>. QED  BY <3>2, <3>3, <3>4 DEF StoreNext
  <2>. QED
    BY <1>2, <2>1, <2>2, <2>3, <2>4, <2>5, <2>6, <2>7, <2>8, <2>9 DEF RequestStep
<1>3. CASE Purge
  BY <1>3 DEF Purge, StoreNext
<1>4. CASE TimePasses
  BY <1>4 DEF TimePasses, StoreNext
<1>5. CASE Restart
  BY <1>5, StoreAssumption DEF Restart, StoreNext, Roles
<1>6. CASE UNCHANGED vars
  BY <1>6 DEF vars, storeVars
<1>. QED  BY <1>1, <1>2, <1>3, <1>4, <1>5, <1>6 DEF ServerNext

------------------------------------------------------------------------------
\* Every handler step leaves the requests well typed.
LEMMA ReqStepOK ==
  ASSUME ServerInv, ServerNext
  PROVE  (req \in [Reqs -> ReqState])'
<1>. USE DEF ServerInv, ServerTypeOK
<1>0. NoReq \in ReqState
  BY DEF NoReq, ReqState
<1>1. ASSUME NEW r \in Reqs, NewRequest(r) \/ RequestStep(r)
      PROVE  \E rec \in ReqState : req' = [req EXCEPT ![r] = rec]
  <2>1. CASE \E key \in LoginKeys : CheckLimiter(r, key)
    BY <2>1 DEF CheckLimiter, Becomes, ReqState
  <2>2. CASE \E t \in Tokens : Resolve(r, t)
    <3>1. PICK t \in Tokens : Resolve(r, t)
      BY <2>2
    <3>2. t \in DOMAIN sessions /\ sessions[t].user \in DOMAIN users
      BY <3>1 DEF Resolve, Resolves
    <3>3. sessions[t].user \in UserIds /\ users[sessions[t].user].role \in Roles
      BY <3>2 DEF StoreTypeOK, SessionRow, UserRow
    <3>. QED  BY <3>1, <3>3 DEF Resolve, Becomes, ReqState
  <2>3. CASE \E password \in Passwords : CheckPassword(r, password)
    <3>1. PICK password \in Passwords : CheckPassword(r, password)
      BY <2>3
    <3>2. req[r].key \in LoginKeys
      BY <3>1 DEF CheckPassword, ReqState
    <3>3. DOMAIN users \subseteq UserIds
      BY DEF StoreTypeOK
    <3>. QED  BY <3>1, <3>2, <3>3 DEF CheckPassword, Becomes, ReqState
  <2>4. CASE ResetLimiter(r)
    <3>1. req[r].user \in UserIds /\ req[r].password \in Passwords
      BY <2>4 DEF ResetLimiter, ReqState
    <3>. QED  BY <2>4, <3>1 DEF ResetLimiter, Becomes, ReqState
  <2>5. CASE \E password \in Passwords : VerifyCurrent(r, password)
    <3>1. /\ req' = [req EXCEPT ![r] = [@ EXCEPT !.pc = "verified"]]
          /\ req[r].pc = "in"
      BY <2>5 DEF VerifyCurrent
    <3>2. [req[r] EXCEPT !.pc = "verified"] \in ReqState
      BY <3>1 DEF ReqState
    <3>. QED  BY <3>1, <3>2
  <2>6. CASE req' = [req EXCEPT ![r] = NoReq]
    BY <2>6, <1>0
  <2>. QED
    BY <1>1, <2>1, <2>2, <2>3, <2>4, <2>5, <2>6
    DEF NewRequest, RequestStep, CountFailure, OpenSession, Logout, AdminCreate, AdminUpdate,
        AdminDelete, ChangePassword, Reply, Finish
<1>2. CASE \E r \in Reqs : NewRequest(r) \/ RequestStep(r)
  BY <1>1, <1>2
<1>3. CASE Purge \/ TimePasses
  BY <1>3 DEF Purge, TimePasses
<1>4. CASE Restart
  BY <1>4, <1>0 DEF Restart
<1>. QED  BY <1>2, <1>3, <1>4 DEF ServerNext

\* Every step leaves the limiter's table well typed.
LEMMA EntriesStepOK ==
  ASSUME ServerInv, ServerNext
  PROVE  EntriesOK(entries, LoginKeys)'
<1>. USE DEF ServerInv, ServerTypeOK
<1>1. CASE UNCHANGED entries
  BY <1>1
<1>2. ASSUME NEW r \in Reqs, NEW key \in LoginKeys, CheckLimiter(r, key)
      PROVE  EntriesOK(entries, LoginKeys)'
  BY <1>2, AfterCheckOK DEF CheckLimiter
<1>3. ASSUME NEW r \in Reqs, CountFailure(r)
      PROVE  EntriesOK(entries, LoginKeys)'
  <2>1. req[r].key \in LoginKeys
    BY <1>3 DEF CountFailure, ReqState
  <2>. QED  BY <1>3, <2>1, AfterFailOK DEF CountFailure
<1>4. ASSUME NEW r \in Reqs, ResetLimiter(r)
      PROVE  EntriesOK(entries, LoginKeys)'
  BY <1>4, AfterResetOK DEF ResetLimiter
<1>5. CASE TimePasses
  BY <1>5, AgedOK DEF TimePasses
<1>6. CASE Restart
  BY <1>6 DEF Restart, EntriesOK
<1>. QED
  BY <1>1, <1>2, <1>3, <1>4, <1>5, <1>6
  DEF ServerNext, NewRequest, RequestStep, Resolve, CheckPassword, OpenSession, Logout,
      AdminCreate, AdminUpdate, AdminDelete, VerifyCurrent, ChangePassword, Reply, Purge

\* The invariant holds in every reachable state of the server.
THEOREM ServerInvariant == ServerSafety => []ServerInv
<1>1. ServerInit => ServerInv
  <2>. SUFFICES ASSUME ServerInit PROVE ServerInv
    OBVIOUS
  <2>1. StoreInv
    BY StoreInitInv DEF ServerInit
  <2>2. ServerTypeOK
    BY <2>1 DEF ServerInit, ServerTypeOK, StoreInv, EntriesOK, NoReq, ReqState
  <2>. QED  BY <2>1, <2>2 DEF ServerInv
<1>2. ServerInv /\ [ServerNext]_vars => ServerInv'
  <2>. SUFFICES ASSUME ServerInv, [ServerNext]_vars PROVE ServerInv'
    OBVIOUS
  <2>1. StoreInv'
    BY ServerStepIsStoreStep, StoreStepInv DEF ServerInv
  <2>2. CASE ServerNext
    <3>1. (ended \subseteq Tokens)'
      BY <2>2 DEF ServerNext, Remember, ServerInv, ServerTypeOK
    <3>. QED
      BY <2>1, <2>2, <3>1, ReqStepOK, EntriesStepOK DEF ServerInv, ServerTypeOK, StoreInv
  <2>3. CASE UNCHANGED vars
    BY <2>1, <2>3 DEF vars, ServerInv, ServerTypeOK, StoreInv, EntriesOK
  <2>. QED  BY <2>2, <2>3
<1>. QED  BY <1>1, <1>2, PTL DEF ServerSafety

\* What handlers carry is well typed, and so are the tables.
THEOREM ServerTypeCorrect == ServerSafety => []ServerTypeOK
BY ServerInvariant, PTL DEF ServerInv

\* The concurrent server implements the atomic store.
THEOREM ServerRefinesStore == ServerSafety => ServerImplementsStore
<1>1. ServerInit => StoreInit
  BY DEF ServerInit
<1>2. ServerInv /\ [ServerNext]_vars => [StoreNext]_storeVars
  BY ServerStepIsStoreStep
<1>. QED
  BY <1>1, <1>2, ServerInvariant, PTL DEF ServerSafety, ServerImplementsStore, StoreSpec

\* However many requests race, with stale snapshots of roles that have changed
\* since, the dashboard keeps an active admin.
THEOREM ServerKeepsAdmin == ServerSafety => []ActiveAdmin
BY ServerRefinesStore, AdminRemains, PTL DEF ServerImplementsStore

\* The sessions a request may leave of account u: its own.
SparedBy(r, u, t) ==
    req[r].pc \in {"in", "verified"} /\ req[r].user = u /\ req[r].token = t /\ req'[r] = NoReq

\* Only an update, a password change and a deletion touch credentials, and
\* each leaves at most the session that asked, if it is the account's own.
LEMMA HandlerRevokes ==
  ASSUME ServerInv, NEW r \in Reqs, RequestStep(r), StoreInv',
         NEW u \in DOMAIN users, CredentialsChange(u), NEW t \in DOMAIN sessions', sessions'[t].user = u
  PROVE  SparedBy(r, u, t)
<1>1. StoreInv /\ req \in [Reqs -> ReqState] /\ users[u].active \in Nat
  BY DEF ServerInv, ServerTypeOK, StoreInv, StoreTypeOK, UserRow
<1>2. t # Nil
  BY StoreAssumption DEF StoreInv, StoreTypeOK, Tokens
<1>3. users' # users
  BY <1>1 DEF CredentialsChange
<1>4. ASSUME NEW id \in UserIds, NEW upd \in Updates, AdminUpdate(r, id, upd)
      PROVE  SparedBy(r, u, t)
  <2>1. PICK keep : keep = IF id = req[r].user THEN req[r].token ELSE Nil
    OBVIOUS
  <2>2. Update(id, upd, keep) /\ req[r].pc = "in" /\ req'[r] = NoReq
    BY <1>1, <1>4, <2>1 DEF AdminUpdate, IsAdminRequest, Finish
  <2>3. u = id /\ LeftWith(u, {keep})
    BY <1>1, <2>2, UpdateRevokes
  <2>4. t = keep
    BY <2>3 DEF LeftWith
  <2>. QED  BY <1>2, <2>1, <2>2, <2>3, <2>4 DEF SparedBy
<1>5. ASSUME NEW password \in Passwords, ChangePassword(r, password)
      PROVE  SparedBy(r, u, t)
  <2>1. PICK upd \in Updates : upd = [role |-> Nil, active |-> Nil, password |-> password]
    BY DEF Updates
  <2>2. Update(req[r].user, upd, req[r].token) /\ req[r].pc = "verified" /\ req'[r] = NoReq
    BY <1>1, <1>5, <2>1 DEF ChangePassword, Finish
  <2>3. u = req[r].user /\ LeftWith(u, {req[r].token})
    BY <1>1, <2>2, UpdateRevokes
  <2>. QED  BY <2>2, <2>3 DEF LeftWith, SparedBy
<1>6. ASSUME NEW id \in UserIds, AdminDelete(r, id)
      PROVE  FALSE
  <2>1. LeftWith(u, {})
    BY <1>1, <1>6, DeleteRevokes DEF AdminDelete
  <2>. QED  BY <2>1 DEF LeftWith
<1>7. ASSUME NEW name, NEW password, NEW role, AdminCreate(r, name, password, role)
      PROVE  FALSE
  BY <1>1, <1>7, CreateKeepsCredentials DEF AdminCreate
<1>. QED
  BY <1>3, <1>4, <1>5, <1>6, <1>7
  DEF RequestStep, CheckPassword, CountFailure, ResetLimiter, OpenSession, CreateSession, Logout, DeleteSession,
      VerifyCurrent, Reply, storeVars

\* README.md:152-153, for any number of racing requests: the step that changes
\* a password, deactivates or deletes leaves of the account's sessions none
\* but the one that changed its own account's password.
THEOREM ServerRevokesAtOnce == ServerSafety => RevocationAtOnce
<1>1. ServerInv /\ ServerInv' /\ [ServerNext]_vars =>
        \A u \in DOMAIN users : CredentialsChange(u) =>
          \A t \in DOMAIN sessions' : sessions'[t].user = u =>
             \E r \in Reqs : /\ req[r].pc \in {"in", "verified"}
                             /\ req[r].user = u /\ req[r].token = t
                             /\ req'[r] = NoReq
  <2>. SUFFICES ASSUME ServerInv, ServerInv', [ServerNext]_vars, NEW u \in DOMAIN users, CredentialsChange(u),
                       NEW t \in DOMAIN sessions', sessions'[t].user = u
                PROVE  \E r \in Reqs : SparedBy(r, u, t)
    BY DEF SparedBy
  <2>1. StoreInv /\ StoreInv' /\ users[u].active \in Nat
    BY DEF ServerInv, StoreInv, StoreTypeOK, UserRow
  <2>2. users' # users
    BY <2>1 DEF CredentialsChange
  <2>3. CASE \E r \in Reqs : RequestStep(r)
    BY <2>1, <2>3, HandlerRevokes
  <2>4. CASE \E r \in Reqs : NewRequest(r)
    BY <2>2, <2>4 DEF NewRequest, CheckLimiter, Resolve, storeVars
  <2>5. CASE Purge \/ TimePasses
    BY <2>2, <2>5 DEF Purge, PurgeExpiredSessions, TimePasses, Tick
  <2>6. CASE Restart
    BY <2>1, <2>2, <2>6, CreateKeepsCredentials DEF Restart, storeVars
  <2>7. CASE UNCHANGED vars
    BY <2>2, <2>7 DEF vars
  <2>. QED  BY <2>3, <2>4, <2>5, <2>6, <2>7 DEF ServerNext
<1>. QED  BY <1>1, ServerInvariant, PTL DEF ServerSafety, RevocationAtOnce

------------------------------------------------------------------------------
(* Sessions end for good, and for a reason *)

\* The session behind a request is, while it lasts, its account's.
ReqKnows ==
    \A r \in Reqs : req[r].pc \in {"in", "verified"} =>
       /\ req[r].token < nextToken
       /\ req[r].token \in DOMAIN sessions => sessions[req[r].token].user = req[r].user

\* The row of an ended session is gone, or expired and waiting for the purge.
EndedGone ==
    \A t \in ended : t < nextToken /\ (t \in DOMAIN sessions => sessions[t].expires <= now)

HistoryInv == ServerInv /\ ReqKnows /\ EndedGone

\* What dropping the sessions S keeps.
LEMMA KeptSessions ==
  ASSUME NEW S, sessions' = SessionsWithout(S)
  PROVE  /\ \A t : t \in DOMAIN sessions' <=> t \in DOMAIN sessions /\ t \notin S
         /\ \A t \in DOMAIN sessions' : sessions'[t] = sessions[t]
BY DEF SessionsWithout, Restrict

\* The clock and the token counter never go back, a session row is never
\* rewritten, and a new one has a new token.
LEMMA RowsStay ==
  ASSUME StoreInv, [StoreNext]_storeVars
  PROVE  /\ now <= now' /\ nextToken <= nextToken'
         /\ \A t \in DOMAIN sessions' : t < nextToken => t \in DOMAIN sessions /\ sessions'[t] = sessions[t]
<1>1. nextToken \in Nat /\ now \in Nat
  BY StoreAssumption DEF StoreInv, StoreTypeOK
<1>2. CASE UNCHANGED <<sessions, nextToken, now>>
  BY <1>1, <1>2
<1>3. CASE UNCHANGED <<nextToken, now>> /\ \E S : sessions' = SessionsWithout(S)
  <2>1. PICK S : sessions' = SessionsWithout(S)
    BY <1>3
  <2>. QED  BY <1>1, <1>3, <2>1, KeptSessions
<1>4. CASE \E id \in UserIds : CreateSession(id)
  BY <1>1, <1>4 DEF CreateSession
<1>5. CASE Tick
  BY <1>1, <1>5 DEF Tick
<1>6. ASSUME NEW id, NEW upd, NEW keep, Update(id, upd, keep)
      PROVE  UNCHANGED <<nextToken, now>> /\ (sessions' = sessions \/ \E S : sessions' = SessionsWithout(S))
  BY <1>6 DEF Update
<1>7. CASE \E id \in UserIds, upd \in Updates, keep \in Tokens \cup {Nil} : Update(id, upd, keep)
  BY <1>2, <1>3, <1>6, <1>7
<1>8. CASE \E id \in UserIds : Delete(id)
  BY <1>3, <1>8 DEF Delete
<1>9. CASE \E t \in Tokens : DeleteSession(t)
  BY <1>3, <1>9 DEF DeleteSession
<1>10. CASE PurgeExpiredSessions
  BY <1>3, <1>10 DEF PurgeExpiredSessions
<1>11. CASE \E name \in Usernames, password \in Passwords, role \in Roles \cup {"other"} :
               Create(name, password, role)
  BY <1>2, <1>11 DEF Create
<1>. QED  BY <1>2, <1>4, <1>5, <1>7, <1>8, <1>9, <1>10, <1>11 DEF StoreNext, storeVars

\* What an Update leaves of a live session of another account, or of the one it keeps.
LEMMA UpdateSpares ==
  ASSUME StoreInv, NEW id, NEW upd \in Updates, NEW keep, Update(id, upd, keep),
         NEW t \in Tokens, Resolves(t),
         sessions[t].user = id => upd.active # 0 /\ (keep = t \/ upd.password = Nil)
  PROVE  Resolves(t)'
<1>. DEFINE next == Merge(users[id], upd)
<1>1. /\ id \in DOMAIN users /\ users' = [users EXCEPT ![id] = next]
      /\ sessions' = IF EndsSessions(upd, next) THEN SessionsWithout(SessionsOf(id) \ {keep}) ELSE sessions
      /\ now' = now
  BY DEF Update
<1>2. t \in DOMAIN sessions /\ sessions[t].expires > now /\ sessions[t].user \in DOMAIN users
      /\ users[sessions[t].user].active = 1
  BY DEF Resolves
<1>3. sessions[t].user = id => next.active = 1
  <2>1. ASSUME sessions[t].user = id PROVE next.active = 1
    <3>1. users[id] \in UserRow /\ users[id].active = 1 /\ upd.active \in {0, 1, Nil} /\ upd.active # 0
      BY <1>2, <2>1 DEF StoreInv, StoreTypeOK, Updates
    <3>2. next.active = IF upd.active = Nil THEN users[id].active ELSE upd.active
      BY <3>1 DEF Merge, UserRow
    <3>. QED  BY <3>1, <3>2
  <2>. QED  BY <2>1
<1>4. users'[sessions[t].user].active = 1 /\ sessions[t].user \in DOMAIN users'
  BY <1>1, <1>2, <1>3
<1>5. t \in DOMAIN sessions' /\ sessions'[t] = sessions[t]
  <2>1. CASE sessions' = sessions
    BY <1>2, <2>1
  <2>2. CASE EndsSessions(upd, next) /\ (sessions[t].user # id \/ keep = t)
    <3>1. PICK S : S = SessionsOf(id) \ {keep}
      OBVIOUS
    <3>2. sessions' = SessionsWithout(S)
      BY <1>1, <2>2, <3>1
    <3>3. t \notin S
      BY <2>2, <3>1 DEF SessionsOf
    <3>. QED  BY <1>2, <3>2, <3>3, KeptSessions
  <2>3. CASE sessions[t].user = id /\ upd.password = Nil
    <3>1. ~EndsSessions(upd, next)
      BY <1>3, <2>3 DEF EndsSessions
    <3>. QED  BY <1>1, <2>1, <3>1
  <2>. QED  BY <1>1, <2>1, <2>2, <2>3
<1>. QED  BY <1>1, <1>2, <1>4, <1>5 DEF Resolves

\* Why a live session ends, and what becomes of its row.
EndsWell(t) ==
    /\ t \in DOMAIN sessions' => sessions[t].expires <= now'
    /\ \/ sessions[t].expires <= now'
       \/ EndedByLogout(t)
       \/ EndedByAccount(t)
       \/ EndedByPasswordChange(t)

\* handler_users.go: an update by an admin ends sessions only of the account changed.
LEMMA UpdateEndsWell ==
  ASSUME ServerInv, ReqKnows, NEW r \in Reqs, NEW id, NEW upd \in Updates, AdminUpdate(r, id, upd),
         NEW t \in Tokens, Resolves(t), ~Resolves(t)'
  PROVE  EndsWell(t)
<1>1. /\ req[r].pc = "in" /\ req[r].role = "admin" /\ req'[r] = NoReq
      /\ id = req[r].user => ~SelfLockout(upd)
  <2>1. req \in [Reqs -> ReqState]
    BY DEF ServerInv, ServerTypeOK
  <2>. QED  BY <2>1 DEF AdminUpdate, IsAdminRequest, Finish
<1>2. PICK keep : keep = IF id = req[r].user THEN req[r].token ELSE Nil
  OBVIOUS
<1>3. Update(id, upd, keep)
  BY <1>2 DEF AdminUpdate
<1>4. StoreInv
  BY DEF ServerInv
<1>5. sessions[t].user = id /\ (upd.active = 0 \/ (keep # t /\ upd.password # Nil))
  BY <1>3, <1>4, UpdateSpares
<1>6. t \in DOMAIN sessions /\ id \in DOMAIN users
  BY <1>5 DEF Resolves
<1>7. keep = t => upd.active # 0
  <2>1. keep = t => id = req[r].user
    BY <1>2, StoreAssumption DEF Tokens
  <2>. QED  BY <1>1, <2>1 DEF SelfLockout
<1>8. keep # t
  BY <1>5, <1>7
<1>9. PICK next : next = Merge(users[id], upd)
  OBVIOUS
<1>10. users' = [users EXCEPT ![id] = next]
       /\ sessions' = IF EndsSessions(upd, next) THEN SessionsWithout(SessionsOf(id) \ {keep}) ELSE sessions
  BY <1>3, <1>9 DEF Update
<1>11. upd.active = 0 => next.active = 0
  <2>1. users[id] \in UserRow
    BY <1>4, <1>6 DEF StoreInv, StoreTypeOK
  <2>2. Nil # 0
    BY StoreAssumption
  <2>3. next.active = IF upd.active = Nil THEN users[id].active ELSE upd.active
    BY <1>9, <2>1 DEF Merge, UserRow
  <2>. QED  BY <2>2, <2>3
<1>12. t \notin DOMAIN sessions'
  <2>1. EndsSessions(upd, next)
    BY <1>5, <1>11 DEF EndsSessions
  <2>2. PICK S : S = SessionsOf(id) \ {keep}
    OBVIOUS
  <2>3. sessions' = SessionsWithout(S) /\ t \in S
    BY <1>5, <1>6, <1>8, <1>10, <2>1, <2>2 DEF SessionsOf
  <2>. QED  BY <2>3, KeptSessions
<1>13. CASE upd.active = 0
  <2>1. users'[sessions[t].user].active = 0
    BY <1>5, <1>6, <1>10, <1>11, <1>13
  <2>. QED  BY <1>12, <2>1 DEF EndsWell, EndedByAccount
<1>14. CASE upd.active # 0 /\ ~EndedByAccount(t)
  <2>1. req[r].token # t
    <3>1. CASE id = req[r].user
      BY <1>2, <1>8, <3>1
    <3>2. CASE id # req[r].user
      BY <1>1, <1>5, <1>6, <3>2 DEF ReqKnows
    <3>. QED  BY <3>1, <3>2
  <2>2. ASSUME NEW other \in Updates, other.password = Nil, AdminUpdate(r, id, other)
        PROVE  FALSE
    <3>1. Update(id, other, keep)
      BY <1>2, <2>2 DEF AdminUpdate
    <3>2. other.active = 0
      BY <1>4, <2>2, <3>1, UpdateSpares
    <3>3. PICK row : row = Merge(users[id], other)
      OBVIOUS
    <3>4. row.active = 0
      <4>1. users[id] \in UserRow
        BY <1>4, <1>6 DEF StoreInv, StoreTypeOK
      <4>2. row.active = IF other.active = Nil THEN users[id].active ELSE other.active
        BY <3>3, <4>1 DEF Merge, UserRow
      <4>. QED  BY <3>2, <4>2, StoreAssumption
    <3>5. users' = [users EXCEPT ![id] = row]
      BY <3>1, <3>3 DEF Update
    <3>. QED  BY <1>5, <1>6, <1>14, <3>4, <3>5 DEF EndedByAccount
  <2>3. upd.password # Nil /\ sessions[t].user = id
    BY <1>5, <1>14
  <2>4. EndedByPasswordChange(t)
    BY <1>1, <2>1, <2>2, <2>3 DEF EndedByPasswordChange
  <2>. QED  BY <1>12, <2>4 DEF EndsWell
<1>15. CASE EndedByAccount(t)
  BY <1>12, <1>15 DEF EndsWell
<1>. QED  BY <1>13, <1>14, <1>15

\* A password change ends the account's other sessions, and only those.
LEMMA PasswordEndsWell ==
  ASSUME ServerInv, NEW r \in Reqs, NEW password \in Passwords, ChangePassword(r, password),
         NEW t \in Tokens, Resolves(t), ~Resolves(t)'
  PROVE  EndsWell(t)
<1>1. req[r].pc = "verified" /\ req'[r] = NoReq
  <2>1. req \in [Reqs -> ReqState]
    BY DEF ServerInv, ServerTypeOK
  <2>. QED  BY <2>1 DEF ChangePassword, Finish
<1>2. StoreInv
  BY DEF ServerInv
<1>3. PICK upd \in Updates : upd = [role |-> Nil, active |-> Nil, password |-> password]
  BY DEF Updates
<1>4. Update(req[r].user, upd, req[r].token)
  BY <1>3 DEF ChangePassword
<1>5. PICK id : id = req[r].user
  OBVIOUS
<1>6. t \in DOMAIN sessions /\ sessions[t].expires > now
  BY DEF Resolves
<1>7. CASE sessions[t].user = id /\ req[r].token # t /\ t \notin DOMAIN sessions'
  <2>1. EndedByPasswordChange(t)
    BY <1>1, <1>5, <1>7 DEF EndedByPasswordChange
  <2>. QED  BY <1>7, <2>1 DEF EndsWell
<1>8. PICK next : next = Merge(users[id], upd)
  OBVIOUS
<1>9. /\ id \in DOMAIN users /\ users' = [users EXCEPT ![id] = next] /\ now' = now
      /\ sessions' = IF EndsSessions(upd, next) THEN SessionsWithout(SessionsOf(id) \ {req[r].token}) ELSE sessions
  BY <1>4, <1>5, <1>8 DEF Update
<1>10. next.active = users[id].active
  <2>1. users[id] \in UserRow
    BY <1>2, <1>9 DEF StoreInv, StoreTypeOK
  <2>. QED  BY <1>3, <1>8, <2>1 DEF Merge, UserRow
<1>11. sessions[t].user \in DOMAIN users' /\ users'[sessions[t].user].active = 1
  BY <1>9, <1>10 DEF Resolves
<1>12. t \notin DOMAIN sessions'
  <2>1. t \in DOMAIN sessions' => sessions'[t] = sessions[t]
    <3>1. PICK S : S = SessionsOf(id) \ {req[r].token}
      OBVIOUS
    <3>. QED  BY <1>9, <3>1, KeptSessions
  <2>. QED  BY <1>6, <1>9, <1>11, <2>1 DEF Resolves
<1>13. sessions[t].user = id /\ req[r].token # t
  <2>1. PICK S : S = SessionsOf(id) \ {req[r].token}
    OBVIOUS
  <2>2. sessions' = SessionsWithout(S)
    BY <1>6, <1>9, <1>12, <2>1
  <2>3. t \in S
    BY <1>6, <1>12, <2>2, KeptSessions
  <2>. QED  BY <2>1, <2>3 DEF SessionsOf
<1>. QED  BY <1>7, <1>12, <1>13

\* Whatever step ends a session, it had a reason to.
LEMMA SessionsEndWell ==
  ASSUME ServerInv, ReqKnows, ServerNext, NEW t \in Tokens, Resolves(t), ~Resolves(t)'
  PROVE  EndsWell(t)
<1>1. StoreInv /\ req \in [Reqs -> ReqState]
  BY DEF ServerInv, ServerTypeOK
<1>2. /\ t \in DOMAIN sessions /\ sessions[t].expires > now
      /\ sessions[t].user \in DOMAIN users /\ users[sessions[t].user].active = 1
  BY DEF Resolves
<1>3. t < nextToken /\ \A u \in DOMAIN users : u < nextId
  BY <1>1, <1>2 DEF StoreInv, StoreTypeOK
<1>4. ~UNCHANGED storeVars
  BY DEF storeVars, Resolves
<1>5. ASSUME NEW r \in Reqs, NewRequest(r)
      PROVE  FALSE
  BY <1>4, <1>5 DEF NewRequest, CheckLimiter, Resolve
<1>6. ASSUME NEW r \in Reqs, RequestStep(r)
      PROVE  EndsWell(t)
  <2>1. CASE OpenSession(r)
    <3>0. t # nextToken
      BY <1>1, <1>3 DEF StoreInv, StoreTypeOK
    <3>1. /\ t \in DOMAIN sessions' /\ sessions'[t] = sessions[t]
          /\ UNCHANGED <<users, now>>
      BY <1>2, <2>1, <3>0 DEF OpenSession, CreateSession
    <3>2. Resolves(t)'
      BY <1>2, <3>1 DEF Resolves
    <3>. QED  BY <3>2
  <2>2. CASE Logout(r)
    <3>1. /\ req[r].pc = "in" /\ req'[r] = NoReq /\ UNCHANGED <<users, now>>
          /\ sessions' = SessionsWithout({req[r].token})
      BY <1>1, <2>2 DEF Logout, Finish, DeleteSession
    <3>2. req[r].token = t /\ t \notin DOMAIN sessions'
      <4>1. req[r].token # t => t \in DOMAIN sessions' /\ sessions'[t] = sessions[t]
        <5>1. PICK S : S = {req[r].token}
          OBVIOUS
        <5>. QED  BY <1>2, <3>1, <5>1, KeptSessions
      <4>2. req[r].token = t
        BY <1>2, <3>1, <4>1 DEF Resolves
      <4>3. PICK S : S = {t}
        OBVIOUS
      <4>4. sessions' = SessionsWithout(S)
        BY <3>1, <4>2, <4>3
      <4>. QED  BY <4>2, <4>3, <4>4, KeptSessions
    <3>3. EndedByLogout(t)
      BY <2>2, <3>2 DEF EndedByLogout
    <3>. QED  BY <3>2, <3>3 DEF EndsWell
  <2>3. CASE \E name \in Usernames, password \in Passwords, role \in Roles \cup {"other"} :
                AdminCreate(r, name, password, role)
    <3>1. PICK name \in Usernames, password \in Passwords, role \in Roles \cup {"other"} :
             Create(name, password, role)
      BY <2>3 DEF AdminCreate
    <3>4. nextId \notin DOMAIN users
      BY <1>1, <1>3 DEF StoreInv, StoreTypeOK, UserIds
    <3>2. UNCHANGED <<sessions, now>> /\ sessions[t].user \in DOMAIN users'
          /\ users'[sessions[t].user] = users[sessions[t].user]
      BY <1>2, <3>1, <3>4 DEF Create
    <3>3. Resolves(t)'
      BY <1>2, <3>2 DEF Resolves
    <3>. QED  BY <3>3
  <2>4. CASE \E id \in UserIds, upd \in Updates : AdminUpdate(r, id, upd)
    BY <2>4, UpdateEndsWell
  <2>5. CASE \E id \in UserIds : AdminDelete(r, id)
    <3>1. PICK id \in UserIds : Delete(id)
      BY <2>5 DEF AdminDelete
    <3>2. /\ DOMAIN users' = DOMAIN users \ {id} /\ \A u \in DOMAIN users' : users'[u] = users[u]
          /\ sessions' = SessionsWithout(SessionsOf(id)) /\ now' = now
      BY <3>1 DEF Delete, Restrict
    <3>6. PICK S : S = SessionsOf(id)
      OBVIOUS
    <3>7. (t \in DOMAIN sessions' <=> t \notin S) /\ (t \in DOMAIN sessions' => sessions'[t] = sessions[t])
      BY <1>2, <3>2, <3>6, KeptSessions
    <3>3. sessions[t].user = id
      <4>1. sessions[t].user # id => t \in DOMAIN sessions' /\ sessions'[t] = sessions[t]
        BY <3>6, <3>7 DEF SessionsOf
      <4>. QED  BY <1>2, <3>2, <4>1 DEF Resolves
    <3>4. t \notin DOMAIN sessions'
      BY <1>2, <3>3, <3>6, <3>7 DEF SessionsOf
    <3>5. EndedByAccount(t)
      BY <3>2, <3>3 DEF EndedByAccount
    <3>. QED  BY <3>4, <3>5 DEF EndsWell
  <2>6. CASE \E password \in Passwords : ChangePassword(r, password)
    BY <2>6, PasswordEndsWell
  <2>. QED
    BY <1>4, <1>6, <2>1, <2>2, <2>3, <2>4, <2>5, <2>6
    DEF RequestStep, CheckPassword, CountFailure, ResetLimiter, VerifyCurrent, Reply
<1>7. CASE Purge
  <2>1. /\ sessions' = SessionsWithout({s \in DOMAIN sessions : sessions[s].expires <= now})
        /\ UNCHANGED <<users, now>>
    BY <1>7 DEF Purge, PurgeExpiredSessions
  <2>2. ~(sessions[t].expires <= now)
    <3>1. sessions[t].expires \in Nat /\ now \in Nat
      BY <1>1, <1>2, StoreAssumption DEF StoreInv, StoreTypeOK, SessionRow
    <3>. QED  BY <1>2, <3>1
  <2>3. t \in DOMAIN sessions' /\ sessions'[t] = sessions[t]
    <3>1. PICK S : S = {s \in DOMAIN sessions : sessions[s].expires <= now}
      OBVIOUS
    <3>. QED  BY <1>2, <2>1, <2>2, <3>1, KeptSessions
  <2>4. Resolves(t)'
    BY <1>2, <2>1, <2>3 DEF Resolves
  <2>. QED  BY <2>4
<1>8. CASE TimePasses
  <2>1. now' = now + 1 /\ UNCHANGED <<users, sessions>>
    BY <1>8 DEF TimePasses, Tick
  <2>2. sessions[t].expires \in Nat /\ now \in Nat
    BY <1>1, <1>2, StoreAssumption DEF StoreInv, StoreTypeOK, SessionRow
  <2>3. ~(sessions[t].expires > now')
    BY <1>2, <2>1 DEF Resolves
  <2>4. sessions[t].expires <= now'
    BY <2>1, <2>2, <2>3
  <2>. QED  BY <2>4 DEF EndsWell
<1>9. CASE Restart
  <2>1. DOMAIN users # {}
    BY <1>2
  <2>. QED  BY <1>4, <1>9, <2>1 DEF Restart
<1>. QED  BY <1>5, <1>6, <1>7, <1>8, <1>9 DEF ServerNext

\* A request learns of its session from the middleware alone, and a session
\* row keeps its account.
LEMMA ReqKnowsStep ==
  ASSUME ServerInv, ReqKnows, ServerNext
  PROVE  ReqKnows'
<1>1. StoreInv /\ req \in [Reqs -> ReqState] /\ nextToken \in Nat
  BY StoreAssumption DEF ServerInv, ServerTypeOK, StoreInv, StoreTypeOK
<1>2. /\ nextToken <= nextToken'
      /\ \A t \in DOMAIN sessions' : t < nextToken => t \in DOMAIN sessions /\ sessions'[t] = sessions[t]
  BY <1>1, ServerStepIsStoreStep, RowsStay
<1>3. nextToken' \in Nat
  BY ServerStepIsStoreStep, StoreStepInv, StoreAssumption DEF ServerInv, StoreInv, StoreTypeOK
<1>. SUFFICES ASSUME NEW r \in Reqs, req'[r].pc \in {"in", "verified"}
              PROVE  /\ req'[r].token < nextToken'
                     /\ req'[r].token \in DOMAIN sessions' => sessions'[req'[r].token].user = req'[r].user
  BY DEF ReqKnows
<1>4. CASE req[r].pc \in {"in", "verified"} /\ req'[r].token = req[r].token /\ req'[r].user = req[r].user
  <2>1. PICK t \in Tokens : t = req[r].token
    BY <1>4, KnowsSession DEF ServerInv
  <2>2. t \in Nat /\ t < nextToken /\ (t \in DOMAIN sessions => sessions[t].user = req[r].user)
    BY <1>4, <2>1 DEF ReqKnows, Tokens
  <2>. QED  BY <1>1, <1>2, <1>3, <1>4, <2>1, <2>2
<1>5. ASSUME NEW t \in Tokens, Resolve(r, t)
      PROVE  /\ req'[r].token < nextToken'
             /\ req'[r].token \in DOMAIN sessions' => sessions'[req'[r].token].user = req'[r].user
  <2>1. req'[r].token = t /\ req'[r].user = sessions[t].user /\ UNCHANGED <<sessions, nextToken>>
    BY <1>1, <1>5 DEF Resolve, Becomes, storeVars
  <2>2. t < nextToken
    BY <1>1, <1>5 DEF Resolve, Resolves, StoreInv, StoreTypeOK
  <2>. QED  BY <2>1, <2>2
<1>6. CASE req'[r] = req[r]
  BY <1>4, <1>6
<1>7. ASSUME NEW q \in Reqs, NewRequest(q) \/ RequestStep(q), q # r
      PROVE  req'[r] = req[r]
  BY <1>1, <1>7 DEF NewRequest, RequestStep, CheckLimiter, Resolve, CheckPassword, CountFailure, ResetLimiter,
     OpenSession, Logout, AdminCreate, AdminUpdate, AdminDelete, VerifyCurrent, ChangePassword, Reply,
     Finish, Becomes
<1>8. CASE \E t \in Tokens : Resolve(r, t)
  BY <1>5, <1>8
<1>9. CASE \E password \in Passwords : VerifyCurrent(r, password)
  <2>1. req[r].pc = "in" /\ req'[r] = [req[r] EXCEPT !.pc = "verified"]
    BY <1>1, <1>9 DEF VerifyCurrent
  <2>2. req'[r].token = req[r].token /\ req'[r].user = req[r].user
    BY <1>1, <2>1 DEF ReqState
  <2>. QED  BY <1>4, <2>1, <2>2
<1>10. NoReq.pc = "idle"
  BY DEF NoReq
<1>11. CASE req'[r] = NoReq
  BY <1>10, <1>11
<1>12. CASE \E key \in LoginKeys : CheckLimiter(r, key)
  BY <1>1, <1>12 DEF CheckLimiter, Becomes
<1>13. CASE \E password \in Passwords : CheckPassword(r, password)
  BY <1>1, <1>13 DEF CheckPassword, Becomes
<1>14. CASE ResetLimiter(r)
  BY <1>1, <1>14 DEF ResetLimiter, Becomes
<1>15. CASE NewRequest(r) \/ RequestStep(r)
  BY <1>1, <1>8, <1>9, <1>11, <1>12, <1>13, <1>14, <1>15
  DEF NewRequest, RequestStep, CountFailure, OpenSession, Logout, AdminCreate, AdminUpdate, AdminDelete,
      ChangePassword, Reply, Finish
<1>16. CASE Purge \/ TimePasses
  BY <1>6, <1>16 DEF Purge, TimePasses
<1>17. CASE Restart
  BY <1>11, <1>17 DEF Restart
<1>. QED  BY <1>6, <1>7, <1>15, <1>16, <1>17 DEF ServerNext

\* A session joins the ended ones without its row or past its time, and
\* neither ever changes back: tokens are not reissued and the clock goes on.
LEMMA EndedGoneStep ==
  ASSUME ServerInv, ReqKnows, EndedGone, ServerNext
  PROVE  EndedGone'
<1>1. StoreInv /\ nextToken \in Nat /\ now \in Nat /\ ended \subseteq Tokens
  BY StoreAssumption DEF ServerInv, ServerTypeOK, StoreInv, StoreTypeOK
<1>2. /\ now <= now' /\ nextToken <= nextToken'
      /\ \A t \in DOMAIN sessions' : t < nextToken => t \in DOMAIN sessions /\ sessions'[t] = sessions[t]
  BY <1>1, ServerStepIsStoreStep, RowsStay
<1>3. nextToken' \in Nat /\ now' \in Nat
  BY ServerStepIsStoreStep, StoreStepInv, StoreAssumption DEF ServerInv, StoreInv, StoreTypeOK
<1>4. \A t \in DOMAIN sessions : sessions[t].expires \in Nat
  BY <1>1 DEF StoreInv, StoreTypeOK, SessionRow
<1>. SUFFICES ASSUME NEW t \in ended'
              PROVE  t < nextToken' /\ (t \in DOMAIN sessions' => sessions'[t].expires <= now')
  BY DEF EndedGone
<1>5. CASE t \in ended
  <2>1. t \in Nat /\ t < nextToken /\ (t \in DOMAIN sessions => sessions[t].expires <= now)
    <3>1. t \in Nat
      BY <1>1, <1>5 DEF Tokens
    <3>. QED  BY <1>5, <3>1 DEF EndedGone
  <2>. QED  BY <1>1, <1>2, <1>3, <1>4, <2>1
<1>6. CASE t \in Tokens /\ Resolves(t) /\ ~Resolves(t)'
  <2>1. t \in DOMAIN sessions' => sessions[t].expires <= now'
    BY <1>6, SessionsEndWell DEF EndsWell
  <2>2. t \in Nat /\ t < nextToken
    BY <1>1, <1>6 DEF Resolves, StoreInv, StoreTypeOK, Tokens
  <2>. QED  BY <1>1, <1>2, <1>3, <2>1, <2>2
<1>. QED  BY <1>5, <1>6 DEF ServerNext, Remember

\* What requests remember of accounts, and that ended sessions are gone.
LEMMA HistoryHolds == ServerSafety => []HistoryInv
<1>1. ServerInit => ReqKnows /\ EndedGone
  BY DEF ServerInit, ReqKnows, EndedGone, NoReq
<1>2. ServerInv /\ ReqKnows /\ EndedGone /\ [ServerNext]_vars => (ReqKnows /\ EndedGone)'
  <2>. SUFFICES ASSUME ServerInv, ReqKnows, EndedGone, [ServerNext]_vars PROVE (ReqKnows /\ EndedGone)'
    OBVIOUS
  <2>1. CASE ServerNext
    BY <2>1, ReqKnowsStep, EndedGoneStep
  <2>2. CASE UNCHANGED vars
    BY <2>2 DEF vars, ReqKnows, EndedGone
  <2>. QED  BY <2>1, <2>2
<1>. QED  BY <1>1, <1>2, ServerInvariant, PTL DEF ServerSafety, HistoryInv

\* A session that ended never resolves again (store.go:170-250, 283-341 and
\* session.go): no row of it is left, or one that has expired.
THEOREM EndedForGood == ServerSafety => []EndedStaysEnded
<1>1. HistoryInv => EndedStaysEnded
  <2>. SUFFICES ASSUME HistoryInv, NEW t \in ended, Resolves(t) PROVE FALSE
    BY DEF EndedStaysEnded
  <2>1. t \in DOMAIN sessions /\ sessions[t].expires > now /\ sessions[t].expires <= now
    BY DEF Resolves, HistoryInv, EndedGone
  <2>2. sessions[t].expires \in Nat /\ now \in Nat
    BY <2>1, StoreAssumption DEF HistoryInv, ServerInv, StoreInv, StoreTypeOK, SessionRow
  <2>. QED  BY <2>1, <2>2
<1>. QED  BY <1>1, HistoryHolds, PTL

\* A live session ends by expiry, its own logout, the end of its account or a
\* password given to its own account from another session, and by nothing else.
THEOREM SessionsEndByRight == ServerSafety => SessionsEndForAReason
<1>1. HistoryInv /\ [ServerNext]_vars =>
        \A t \in Tokens : (Resolves(t) /\ ~Resolves(t)') =>
           \/ sessions[t].expires <= now'
           \/ EndedByLogout(t)
           \/ EndedByAccount(t)
           \/ EndedByPasswordChange(t)
  <2>. SUFFICES ASSUME HistoryInv, [ServerNext]_vars, NEW t \in Tokens, Resolves(t), ~Resolves(t)'
                PROVE  EndsWell(t)
    BY DEF EndsWell
  <2>1. CASE ServerNext
    BY <2>1, SessionsEndWell DEF HistoryInv
  <2>2. CASE UNCHANGED vars
    BY <2>2 DEF vars, Resolves
  <2>. QED  BY <2>1, <2>2
<1>. QED  BY <1>1, HistoryHolds, PTL DEF ServerSafety, SessionsEndForAReason

------------------------------------------------------------------------------
(* Admins *)

\* The step that takes an active admin's role or account away is another
\* account's request: the handlers refuse self-demotion, self-deactivation and
\* self-deletion (handler_users.go), and a password change keeps the role.
LEMMA AdminFall ==
  ASSUME ServerInv, ServerNext, NEW u \in DOMAIN users, IsActiveAdmin(users[u]),
         ~(u \in DOMAIN users' /\ IsActiveAdmin(users'[u]))
  PROVE  \E r \in Reqs : IsAdminRequest(r) /\ req'[r] = NoReq /\ req[r].user # u
<1>1. StoreInv /\ req \in [Reqs -> ReqState] /\ users[u] \in UserRow /\ u < nextId /\ nextId \in Nat /\ u \in Nat
  BY StoreAssumption DEF ServerInv, ServerTypeOK, StoreInv, StoreTypeOK, UserIds
<1>2. users' # users
  OBVIOUS
<1>3. ASSUME NEW name, NEW password, NEW role, Create(name, password, role)
      PROVE  FALSE
  BY <1>1, <1>3 DEF Create
<1>4. ASSUME NEW r \in Reqs, NEW id \in UserIds, NEW upd \in Updates, AdminUpdate(r, id, upd)
      PROVE  IsAdminRequest(r) /\ req'[r] = NoReq /\ req[r].user # u
  <2>1. IsAdminRequest(r) /\ req'[r] = NoReq /\ (id = req[r].user => ~SelfLockout(upd))
    BY <1>1, <1>4 DEF AdminUpdate, Finish
  <2>2. PICK next : next = Merge(users[id], upd)
    OBVIOUS
  <2>3. id \in DOMAIN users /\ users' = [users EXCEPT ![id] = next]
    BY <1>4, <2>2 DEF AdminUpdate, Update
  <2>4. id = u
    BY <1>2, <2>3
  <2>5. ~IsActiveAdmin(next)
    BY <2>3, <2>4
  <2>6. next.role = (IF upd.role = Nil THEN users[u].role ELSE upd.role)
        /\ next.active = (IF upd.active = Nil THEN users[u].active ELSE upd.active)
    BY <1>1, <2>2, <2>4 DEF Merge, UserRow
  <2>7. SelfLockout(upd)
    <3>1. upd.active \in {0, 1, Nil}
      BY DEF Updates
    <3>2. CASE next.role # "admin"
      BY <2>6, <3>2 DEF SelfLockout, IsActiveAdmin
    <3>3. CASE next.active # 1
      BY <2>6, <3>1, <3>3 DEF SelfLockout, IsActiveAdmin
    <3>. QED  BY <2>5, <3>2, <3>3 DEF IsActiveAdmin
  <2>. QED  BY <2>1, <2>4, <2>7
<1>5. ASSUME NEW r \in Reqs, NEW id \in UserIds, AdminDelete(r, id)
      PROVE  IsAdminRequest(r) /\ req'[r] = NoReq /\ req[r].user # u
  <2>1. IsAdminRequest(r) /\ req'[r] = NoReq /\ id # req[r].user
    BY <1>1, <1>5 DEF AdminDelete, Finish
  <2>2. DOMAIN users' = DOMAIN users \ {id} /\ \A v \in DOMAIN users' : users'[v] = users[v]
    BY <1>5 DEF AdminDelete, Delete, Restrict
  <2>. QED  BY <2>1, <2>2
<1>6. ASSUME NEW r \in Reqs, NEW password \in Passwords, ChangePassword(r, password)
      PROVE  FALSE
  <2>1. PICK upd : upd = [role |-> Nil, active |-> Nil, password |-> password]
    OBVIOUS
  <2>2. PICK id : id = req[r].user
    OBVIOUS
  <2>3. PICK next : next = Merge(users[id], upd)
    OBVIOUS
  <2>4. id \in DOMAIN users /\ users' = [users EXCEPT ![id] = next]
    BY <1>6, <2>1, <2>2, <2>3 DEF ChangePassword, Update
  <2>5. id = u
    BY <2>4
  <2>6. next.role = users[u].role /\ next.active = users[u].active
    BY <1>1, <2>1, <2>3, <2>5 DEF Merge, UserRow
  <2>. QED  BY <2>4, <2>5, <2>6 DEF IsActiveAdmin
<1>7. ASSUME NEW r \in Reqs, NewRequest(r)
      PROVE  FALSE
  BY <1>2, <1>7 DEF NewRequest, CheckLimiter, Resolve, storeVars
<1>8. ASSUME NEW r \in Reqs, RequestStep(r)
      PROVE  \E q \in Reqs : IsAdminRequest(q) /\ req'[q] = NoReq /\ req[q].user # u
  BY <1>2, <1>3, <1>4, <1>5, <1>6, <1>8
  DEF RequestStep, CheckPassword, CountFailure, ResetLimiter, OpenSession, CreateSession, Logout, DeleteSession,
      VerifyCurrent, Reply, AdminCreate, storeVars
<1>9. CASE Purge \/ TimePasses
  BY <1>2, <1>9 DEF Purge, PurgeExpiredSessions, TimePasses, Tick
<1>10. CASE Restart
  BY <1>2, <1>3, <1>10 DEF Restart, storeVars
<1>. QED  BY <1>7, <1>8, <1>9, <1>10 DEF ServerNext

\* README.md:157: an active admin stops being one only through a request of
\* another account.
THEOREM AdminsNeverFallAlone == ServerSafety => AdminsFallByOthersOnly
<1>1. ServerInv /\ [ServerNext]_vars =>
        \A u \in DOMAIN users :
          (IsActiveAdmin(users[u]) /\ ~(u \in DOMAIN users' /\ IsActiveAdmin(users'[u]))) =>
             \E r \in Reqs : IsAdminRequest(r) /\ req'[r] = NoReq /\ req[r].user # u
  <2>. SUFFICES ASSUME ServerInv, [ServerNext]_vars, NEW u \in DOMAIN users, IsActiveAdmin(users[u]),
                       ~(u \in DOMAIN users' /\ IsActiveAdmin(users'[u]))
                PROVE  \E r \in Reqs : IsAdminRequest(r) /\ req'[r] = NoReq /\ req[r].user # u
    OBVIOUS
  <2>1. ~UNCHANGED vars
    BY DEF vars
  <2>. QED  BY <2>1, AdminFall
<1>. QED  BY <1>1, ServerInvariant, PTL DEF ServerSafety, AdminsFallByOthersOnly

==============================================================================
