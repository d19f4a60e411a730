------------------------------ MODULE UserStore ------------------------------
(***************************************************************************)
(* The account store of internal/users/store.go: two SQLite tables, users  *)
(* and sessions, and one action per method of Store that writes them.      *)
(* A method runs as a single atomic step here: the pool holds one          *)
(* connection (store.go:83), so transactions are serialised.  UserStoreTx  *)
(* opens the methods up into their statements and refines this module.     *)
(*                                                                         *)
(* A user name stands for its class modulo letter case (COLLATE NOCASE), a *)
(* password for its bcrypt hash, a session token for its SHA-256 hash.     *)
(* Tokens are 32 random bytes: they are taken as never repeating and       *)
(* numbered in the order they are issued.                                  *)
(***************************************************************************)
EXTENDS Naturals, Functions

CONSTANTS
    Usernames,        \* user names a client may send
    ValidUsernames,   \* those usernameRe accepts
    Passwords,        \* passwords a client may send
    ValidPasswords,   \* those of 8 to 72 bytes
    SeedName,         \* AUTH_USER, the first admin
    SeedPassword,     \* AUTH_PASSWORD
    TTL,              \* sessionTTL, in clock ticks
    Nil,              \* an absent optional field, or "no session"
    MaxUserId, MaxToken, MaxTime   \* bounds of the model

ASSUME StoreAssumption ==
    /\ ValidUsernames \subseteq Usernames
    /\ ValidPasswords \subseteq Passwords
    /\ SeedName \in ValidUsernames
    /\ SeedPassword \in ValidPasswords
    /\ Nil \notin Nat
    /\ TTL \in Nat /\ MaxUserId \in Nat \ {0} /\ MaxToken \in Nat /\ MaxTime \in Nat

VARIABLES
    users,      \* id -> row of table users
    sessions,   \* token -> row of table sessions
    nextId,     \* AUTOINCREMENT: ids are never reused
    nextToken,  \* the next random token
    now         \* time.Now(), in ticks

storeVars == <<users, sessions, nextId, nextToken, now>>

------------------------------------------------------------------------------
Roles == {"admin", "viewer"}
UserIds == 1..MaxUserId
Tokens == 1..MaxToken

UserRow == [name: ValidUsernames, password: ValidPasswords, role: Roles, active: {0, 1}]
SessionRow == [user: UserIds, expires: Nat]

\* A partial update: Nil leaves a field untouched.
Updates == [role: Roles \cup {"other", Nil}, active: {0, 1, Nil}, password: Passwords \cup {Nil}]

IsActiveAdmin(row) == row.role = "admin" /\ row.active = 1

\* Slip: any admin will do, even a deactivated one.
OtherAdmin_EvenInactive(rows, id) == \E u \in DOMAIN rows \ {id} : rows[u].role = "admin"

OtherAdmin(rows, id) == \E u \in DOMAIN rows \ {id} : IsActiveAdmin(rows[u])

\* The account a token resolves to is an active one and the session unexpired.
Resolves(t) ==
    /\ t \in DOMAIN sessions
    /\ sessions[t].expires > now
    /\ sessions[t].user \in DOMAIN users
    /\ users[sessions[t].user].active = 1

\* Authenticate: the password matches and the account is active.
Authenticates(u, name, password) ==
    /\ u \in DOMAIN users
    /\ users[u].name = name
    /\ users[u].active = 1
    /\ users[u].password = password

VerifiesPassword(id, password) == id \in DOMAIN users /\ users[id].password = password

Merge(row, upd) ==
    [row EXCEPT !.role     = IF upd.role = Nil THEN @ ELSE upd.role,
                !.active   = IF upd.active = Nil THEN @ ELSE upd.active,
                !.password = IF upd.password = Nil THEN @ ELSE upd.password]

\* Slip: only the role is looked at.
LosesAdmin_ByRole(row, next) == IsActiveAdmin(row) /\ next.role # "admin"

LosesAdmin(row, next) == IsActiveAdmin(row) /\ ~IsActiveAdmin(next)

\* Slips: only a deactivation, only a new password, or every update ends
\* sessions.
EndsSessions_OnDeactivation(upd, next) == next.active = 0
EndsSessions_OnPassword(upd, next) == upd.password # Nil
EndsSessions_Always(upd, next) == TRUE

EndsSessions(upd, next) == upd.password # Nil \/ next.active = 0

ValidUpdate(upd) ==
    upd.role \in Roles \cup {Nil} /\ upd.password \in ValidPasswords \cup {Nil}

NameTaken(name) == \E u \in DOMAIN users : users[u].name = name

SessionsWithout(tokens) == Restrict(sessions, DOMAIN sessions \ tokens)

SessionsOf(id) == {t \in DOMAIN sessions : sessions[t].user = id}

------------------------------------------------------------------------------
\* The database openUserStore leaves on a first run: the seeded admin.
StoreInit ==
    /\ users = [u \in {1} |-> [name |-> SeedName, password |-> SeedPassword,
                               role |-> "admin", active |-> 1]]
    /\ sessions = [t \in {} |-> Nil]
    /\ nextId = 2
    /\ nextToken = 1
    /\ now = 0

Create(name, password, role) ==
    /\ name \in ValidUsernames
    /\ role \in Roles
    /\ password \in ValidPasswords
    /\ ~NameTaken(name)
    /\ nextId <= MaxUserId
    /\ users' = [u \in DOMAIN users \cup {nextId} |->
                   IF u = nextId
                   THEN [name |-> name, password |-> password, role |-> role, active |-> 1]
                   ELSE users[u]]
    /\ nextId' = nextId + 1
    /\ UNCHANGED <<sessions, nextToken, now>>

Update(id, upd, keep) ==
    /\ ValidUpdate(upd)
    /\ id \in DOMAIN users
    /\ LET next == Merge(users[id], upd)
       IN  /\ LosesAdmin(users[id], next) => OtherAdmin(users, id)
           /\ users' = [users EXCEPT ![id] = next]
           /\ sessions' = IF EndsSessions(upd, next)
                          THEN SessionsWithout(SessionsOf(id) \ {keep})
                          ELSE sessions
    /\ UNCHANGED <<nextId, nextToken, now>>

Delete(id) ==
    /\ id \in DOMAIN users
    /\ IsActiveAdmin(users[id]) => OtherAdmin(users, id)
    /\ users' = Restrict(users, DOMAIN users \ {id})
    /\ sessions' = SessionsWithout(SessionsOf(id))      \* ON DELETE CASCADE
    /\ UNCHANGED <<nextId, nextToken, now>>

CreateSession(id) ==
    /\ id \in DOMAIN users                              \* the foreign key
    /\ nextToken <= MaxToken
    /\ sessions' = [t \in DOMAIN sessions \cup {nextToken} |->
                      IF t = nextToken THEN [user |-> id, expires |-> now + TTL]
                      ELSE sessions[t]]
    /\ nextToken' = nextToken + 1
    /\ UNCHANGED <<users, nextId, now>>

DeleteSession(t) ==
    /\ sessions' = SessionsWithout({t})
    /\ UNCHANGED <<users, nextId, nextToken, now>>

\* Slip: the comparison the wrong way round.
PurgeExpiredSessions_Inverted ==
    /\ sessions' = SessionsWithout({t \in DOMAIN sessions : sessions[t].expires > now})
    /\ UNCHANGED <<users, nextId, nextToken, now>>

PurgeExpiredSessions ==
    /\ sessions' = SessionsWithout({t \in DOMAIN sessions : sessions[t].expires <= now})
    /\ UNCHANGED <<users, nextId, nextToken, now>>

Tick ==
    /\ now < MaxTime
    /\ now' = now + 1
    /\ UNCHANGED <<users, sessions, nextId, nextToken>>

StoreNext ==
    \/ \E name \in Usernames, password \in Passwords, role \in Roles \cup {"other"} :
          Create(name, password, role)
    \/ \E id \in UserIds, upd \in Updates, keep \in Tokens \cup {Nil} : Update(id, upd, keep)
    \/ \E id \in UserIds : Delete(id) \/ CreateSession(id)
    \/ \E t \in Tokens : DeleteSession(t)
    \/ PurgeExpiredSessions
    \/ Tick

StoreSpec == StoreInit /\ [][StoreNext]_storeVars

------------------------------------------------------------------------------
\* Every row has the columns' types, ids and tokens stay below their counters.
StoreTypeOK ==
    /\ DOMAIN users \subseteq UserIds
    /\ users \in [DOMAIN users -> UserRow]
    /\ DOMAIN sessions \subseteq Tokens
    /\ sessions \in [DOMAIN sessions -> SessionRow]
    /\ nextId \in 1..(MaxUserId + 1) /\ \A u \in DOMAIN users : u < nextId
    /\ nextToken \in 1..(MaxToken + 1) /\ \A t \in DOMAIN sessions : t < nextToken
    /\ now \in 0..MaxTime

\* Update and Delete never leave the dashboard without an active admin,
\* whatever the order in which accounts are demoted, deactivated and deleted
\* (ensureOtherAdmin).
ActiveAdmin == \E u \in DOMAIN users : IsActiveAdmin(users[u])

\* No session row outlives its account (foreign key with ON DELETE CASCADE):
\* a recycled or orphaned session can never resolve.
SessionsReferToUsers == \A t \in DOMAIN sessions : sessions[t].user \in DOMAIN users

\* No two accounts share a name (the check in Create and UNIQUE NOCASE), so
\* Authenticate picks one row.
UniqueNames ==
    \A u, v \in DOMAIN users : users[u].name = users[v].name => u = v

\* The store in every state between two calls: an active admin, no orphaned
\* session, no double name, and well-typed rows.
StoreInv == StoreTypeOK /\ ActiveAdmin /\ SessionsReferToUsers /\ UniqueNames

\* The step changes the password of account u, deactivates or deletes it.
CredentialsChange(u) ==
    \/ u \notin DOMAIN users'
    \/ users'[u].password # users[u].password
    \/ users'[u].active < users[u].active

==============================================================================
