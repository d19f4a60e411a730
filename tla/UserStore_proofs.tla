-------------------------- MODULE UserStore_proofs --------------------------
(***************************************************************************)
(* Proofs about UserStore for every value of its constants.  The inductive *)
(* invariant is the conjunction of the four invariants the runs check:     *)
(* ActiveAdmin needs the rows' types to know that an updated row is still  *)
(* a row, and the foreign key needs the counters to know that a new id is  *)
(* not a session's.  Each write of the store has its own lemma, which the  *)
(* modules that compose the store cite again.                              *)
(***************************************************************************)
EXTENDS UserStore, TLAPS

\* The seeded database satisfies the invariant: its only row is an active admin.
LEMMA StoreInitInv == ASSUME StoreInit PROVE StoreInv
<1>1. StoreTypeOK
  BY StoreAssumption DEF StoreInit, StoreTypeOK, UserRow, SessionRow, UserIds, Tokens, Roles
<1>2. ActiveAdmin
  BY DEF StoreInit, ActiveAdmin, IsActiveAdmin
<1>3. SessionsReferToUsers /\ UniqueNames
  BY DEF StoreInit, SessionsReferToUsers, UniqueNames
<1>. QED  BY <1>1, <1>2, <1>3 DEF StoreInv

\* Merging an update whose fields passed the checks into a row yields a row.
LEMMA MergeIsRow ==
  ASSUME NEW row \in UserRow, NEW upd \in Updates,
         upd.role \in Roles \cup {Nil}, upd.password \in ValidPasswords \cup {Nil}
  PROVE  Merge(row, upd) \in UserRow /\ Merge(row, upd).name = row.name
BY DEF Merge, UserRow, Updates

\* Dropping session rows never disturbs the part of the invariant about sessions.
LEMMA RestrictSessions ==
  ASSUME NEW S, sessions \in [DOMAIN sessions -> SessionRow]
  PROVE  /\ DOMAIN SessionsWithout(S) \subseteq DOMAIN sessions
         /\ SessionsWithout(S) \in [DOMAIN SessionsWithout(S) -> SessionRow]
         /\ \A t \in DOMAIN SessionsWithout(S) : t \notin S /\ SessionsWithout(S)[t] = sessions[t]
BY DEF SessionsWithout, Restrict

\* Create (store.go:124-159) preserves the invariant.
LEMMA CreateInv ==
  ASSUME StoreInv, NEW name, NEW password, NEW role, Create(name, password, role)
  PROVE  StoreInv'
<1>. USE StoreAssumption DEF StoreInv
<1>1. StoreTypeOK'
  BY DEF StoreTypeOK, Create, UserRow, UserIds
<1>2. ActiveAdmin'
  <2>1. PICK u \in DOMAIN users : IsActiveAdmin(users[u])
    BY DEF ActiveAdmin
  <2>2. u \in DOMAIN users' /\ users'[u] = users[u]
    BY <2>1 DEF Create, StoreTypeOK, UserIds
  <2>. QED  BY <2>1, <2>2 DEF ActiveAdmin
<1>3. SessionsReferToUsers'
  BY DEF SessionsReferToUsers, Create
<1>4. UniqueNames'
  BY DEF UniqueNames, Create, NameTaken
<1>. QED  BY <1>1, <1>2, <1>3, <1>4

\* Update (store.go:170-225) preserves the invariant: an admin is demoted or
\* deactivated only when ensureOtherAdmin found another one.
LEMMA UpdateInv ==
  ASSUME StoreInv, NEW id, NEW upd \in Updates, NEW keep, Update(id, upd, keep)
  PROVE  StoreInv'
<1>. USE StoreAssumption DEF StoreInv
<1>. DEFINE next == Merge(users[id], upd)
<1>1. /\ id \in DOMAIN users
      /\ LosesAdmin(users[id], next) => OtherAdmin(users, id)
      /\ users' = [users EXCEPT ![id] = next]
      /\ sessions' = IF EndsSessions(upd, next)
                     THEN SessionsWithout(SessionsOf(id) \ {keep})
                     ELSE sessions
      /\ UNCHANGED <<nextId, nextToken, now>>
  BY DEF Update
<1>2. next \in UserRow /\ next.name = users[id].name
  BY <1>1, MergeIsRow DEF Update, ValidUpdate, StoreTypeOK
<1>3. DOMAIN users' = DOMAIN users /\ users' \in [DOMAIN users -> UserRow]
  BY <1>1, <1>2 DEF StoreTypeOK
<1>4. /\ DOMAIN sessions' \subseteq DOMAIN sessions
      /\ sessions' \in [DOMAIN sessions' -> SessionRow]
      /\ \A t \in DOMAIN sessions' : sessions'[t] = sessions[t]
  BY <1>1, RestrictSessions DEF StoreTypeOK
<1>5. StoreTypeOK'
  BY <1>1, <1>3, <1>4 DEF StoreTypeOK
<1>6. ActiveAdmin'
  <2>1. PICK u \in DOMAIN users : IsActiveAdmin(users[u])
    BY DEF ActiveAdmin
  <2>2. CASE u # id
    BY <1>1, <1>3, <2>1, <2>2 DEF ActiveAdmin
  <2>3. CASE u = id /\ IsActiveAdmin(next)
    BY <1>1, <1>3, <2>3 DEF ActiveAdmin
  <2>4. CASE u = id /\ ~IsActiveAdmin(next)
    <3>1. PICK v \in DOMAIN users \ {id} : IsActiveAdmin(users[v])
      BY <1>1, <2>1, <2>4 DEF LosesAdmin, OtherAdmin
    <3>. QED  BY <1>1, <1>3, <3>1 DEF ActiveAdmin
  <2>. QED  BY <2>2, <2>3, <2>4
<1>7. SessionsReferToUsers'
  BY <1>3, <1>4 DEF SessionsReferToUsers
<1>8. UniqueNames'
  BY <1>1, <1>2, <1>3 DEF UniqueNames
<1>. QED  BY <1>5, <1>6, <1>7, <1>8

\* Delete (store.go:227-250) preserves the invariant: the last active admin is
\* refused, and the account's sessions go with it.
LEMMA DeleteInv ==
  ASSUME StoreInv, NEW id, Delete(id)
  PROVE  StoreInv'
<1>. USE StoreAssumption DEF StoreInv
<1>1. /\ DOMAIN users' = DOMAIN users \ {id}
      /\ \A u \in DOMAIN users' : users'[u] = users[u]
      /\ users' \in [DOMAIN users' -> UserRow]
  BY DEF Delete, Restrict, StoreTypeOK
<1>2. /\ DOMAIN sessions' \subseteq DOMAIN sessions
      /\ sessions' \in [DOMAIN sessions' -> SessionRow]
      /\ \A t \in DOMAIN sessions' : t \notin SessionsOf(id) /\ sessions'[t] = sessions[t]
  BY RestrictSessions DEF Delete, StoreTypeOK
<1>3. StoreTypeOK'
  BY <1>1, <1>2 DEF StoreTypeOK, Delete
<1>4. ActiveAdmin'
  <2>1. PICK u \in DOMAIN users : IsActiveAdmin(users[u])
    BY DEF ActiveAdmin
  <2>2. \E v \in DOMAIN users \ {id} : IsActiveAdmin(users[v])
    BY <2>1 DEF Delete, OtherAdmin
  <2>. QED  BY <1>1, <2>2 DEF ActiveAdmin
<1>5. SessionsReferToUsers'
  BY <1>1, <1>2 DEF SessionsReferToUsers, SessionsOf
<1>6. UniqueNames'
  BY <1>1 DEF UniqueNames
<1>. QED  BY <1>3, <1>4, <1>5, <1>6

\* CreateSession (store.go:283-293) preserves the invariant: the foreign key
\* refuses a session for a missing account.
LEMMA CreateSessionInv ==
  ASSUME StoreInv, NEW id, CreateSession(id)
  PROVE  StoreInv'
<1>. USE StoreAssumption DEF StoreInv
<1>1. StoreTypeOK'
  BY DEF StoreTypeOK, CreateSession, SessionRow, Tokens, UserIds
<1>2. ActiveAdmin' /\ UniqueNames'
  BY DEF ActiveAdmin, UniqueNames, CreateSession
<1>3. SessionsReferToUsers'
  BY DEF SessionsReferToUsers, CreateSession
<1>. QED  BY <1>1, <1>2, <1>3

\* Logout and the hourly purge (store.go:305-313) only delete session rows.
LEMMA DropSessionsInv ==
  ASSUME StoreInv, NEW S, sessions' = SessionsWithout(S),
         UNCHANGED <<users, nextId, nextToken, now>>
  PROVE  StoreInv'
<1>. USE DEF StoreInv
<1>1. /\ DOMAIN sessions' \subseteq DOMAIN sessions
      /\ sessions' \in [DOMAIN sessions' -> SessionRow]
      /\ \A t \in DOMAIN sessions' : sessions'[t] = sessions[t]
  BY RestrictSessions DEF StoreTypeOK
<1>2. StoreTypeOK'
  BY <1>1 DEF StoreTypeOK
<1>3. ActiveAdmin' /\ UniqueNames'
  BY DEF ActiveAdmin, UniqueNames
<1>4. SessionsReferToUsers'
  BY <1>1 DEF SessionsReferToUsers
<1>. QED  BY <1>2, <1>3, <1>4

\* The clock changes no row.
LEMMA TickInv == ASSUME StoreInv, Tick PROVE StoreInv'
BY StoreAssumption DEF StoreInv, Tick, StoreTypeOK, ActiveAdmin, SessionsReferToUsers, UniqueNames

\* Every method of the store preserves the invariant.
LEMMA StoreStepInv == ASSUME StoreInv, [StoreNext]_storeVars PROVE StoreInv'
<1>1. CASE \E name \in Usernames, password \in Passwords, role \in Roles \cup {"other"} :
              Create(name, password, role)
  BY <1>1, CreateInv
<1>2. CASE \E id \in UserIds, upd \in Updates, keep \in Tokens \cup {Nil} : Update(id, upd, keep)
  BY <1>2, UpdateInv
<1>3. CASE \E id \in UserIds : Delete(id) \/ CreateSession(id)
  BY <1>3, DeleteInv, CreateSessionInv
<1>4. CASE \E t \in Tokens : DeleteSession(t)
  BY <1>4, DropSessionsInv DEF DeleteSession
<1>5. CASE PurgeExpiredSessions
  BY <1>5, DropSessionsInv DEF PurgeExpiredSessions
<1>6. CASE Tick
  BY <1>6, TickInv
<1>7. CASE UNCHANGED storeVars
  BY <1>7 DEF storeVars, StoreInv, StoreTypeOK, ActiveAdmin, SessionsReferToUsers, UniqueNames
<1>. QED  BY <1>1, <1>2, <1>3, <1>4, <1>5, <1>6, <1>7 DEF StoreNext

\* The invariant holds in every reachable state of the store.
THEOREM StoreInvariant == StoreSpec => []StoreInv
<1>1. StoreInit => StoreInv
  BY StoreInitInv
<1>2. StoreInv /\ [StoreNext]_storeVars => StoreInv'
  BY StoreStepInv
<1>. QED  BY <1>1, <1>2, PTL DEF StoreSpec

\* The rows of both tables keep their types under every sequence of calls.
THEOREM StoreTypeCorrect == StoreSpec => []StoreTypeOK
BY StoreInvariant, PTL DEF StoreInv

\* Whatever is demoted, deactivated or deleted, in whatever order, an active
\* admin remains (store.go:204-209 and 241-245).
THEOREM AdminRemains == StoreSpec => []ActiveAdmin
BY StoreInvariant, PTL DEF StoreInv

\* Sessions never outlive their account (store.go:61).
THEOREM NoOrphanSessions == StoreSpec => []SessionsReferToUsers
BY StoreInvariant, PTL DEF StoreInv

\* Names stay unique (store.go:53 and 141-147).
THEOREM NamesUnique == StoreSpec => []UniqueNames
BY StoreInvariant, PTL DEF StoreInv

------------------------------------------------------------------------------
(* Whose sessions a method ends, for the server's proofs *)

\* The sessions account u is left with after the step are among S.
LeftWith(u, S) == \A t \in DOMAIN sessions' : sessions'[t].user = u => t \in S

\* An update changes the credentials of the account it is about only, and
\* leaves it no session but the one it was asked to keep.
LEMMA UpdateRevokes ==
  ASSUME StoreInv, NEW id, NEW upd \in Updates, NEW keep, Update(id, upd, keep),
         NEW u \in DOMAIN users, CredentialsChange(u)
  PROVE  u = id /\ LeftWith(u, {keep})
<1>. DEFINE next == Merge(users[id], upd)
<1>1. /\ id \in DOMAIN users
      /\ users' = [users EXCEPT ![id] = next]
      /\ EndsSessions(upd, next) => sessions' = SessionsWithout(SessionsOf(id) \ {keep})
  BY DEF Update
<1>2. users[id] \in UserRow /\ next \in UserRow
  BY <1>1, MergeIsRow DEF Update, ValidUpdate, StoreInv, StoreTypeOK
<1>3. DOMAIN users' = DOMAIN users /\ users'[id] = next /\ (u # id => users'[u] = users[u])
  BY <1>1
<1>4. u = id
  BY <1>2, <1>3 DEF CredentialsChange, StoreInv, StoreTypeOK, UserRow
<1>5. LeftWith(u, {keep})
  <2>1. next.password # users[id].password => upd.password # Nil
    BY <1>2 DEF Merge, UserRow
  <2>2. next.active < users[id].active => next.active = 0
    BY <1>2 DEF UserRow
  <2>3. EndsSessions(upd, next)
    BY <1>1, <1>3, <1>4, <2>1, <2>2 DEF CredentialsChange, EndsSessions
  <2>4. sessions' = Restrict(sessions, DOMAIN sessions \ (SessionsOf(id) \ {keep}))
    BY <1>1, <2>3 DEF SessionsWithout
  <2>. QED  BY <1>4, <2>4 DEF Restrict, SessionsOf, LeftWith
<1>. QED  BY <1>4, <1>5

\* A deletion ends every session of its account, and touches no other's
\* credentials.
LEMMA DeleteRevokes ==
  ASSUME StoreInv, NEW id, Delete(id), NEW u \in DOMAIN users, CredentialsChange(u)
  PROVE  LeftWith(u, {})
<1>1. users' = Restrict(users, DOMAIN users \ {id})
      /\ sessions' = Restrict(sessions, DOMAIN sessions \ SessionsOf(id))
  BY DEF Delete, SessionsWithout
<1>2. users[u].active \in Nat
  BY DEF StoreInv, StoreTypeOK, UserRow
<1>3. u = id
  BY <1>1, <1>2 DEF Restrict, CredentialsChange
<1>. QED  BY <1>1, <1>3 DEF Restrict, SessionsOf, LeftWith

\* A new account changes nobody's credentials.
LEMMA CreateKeepsCredentials ==
  ASSUME StoreInv, NEW name, NEW password, NEW role, Create(name, password, role), NEW u \in DOMAIN users
  PROVE  ~CredentialsChange(u)
<1>1. u \in DOMAIN users' /\ users'[u] = users[u] /\ users[u].active \in Nat
  BY DEF Create, StoreInv, StoreTypeOK, UserIds, UserRow
<1>. QED  BY <1>1 DEF CredentialsChange

====
