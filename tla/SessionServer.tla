---------------------------- MODULE SessionServer ----------------------------
(***************************************************************************)
(* The dashboard in AUTH_MODE=session: concurrent HTTP requests through    *)
(* Session.Middleware, the login, logout and password handlers of          *)
(* internal/auth/session.go and the account handlers of                    *)
(* internal/api/handler_users.go, over the account store and the login     *)
(* limiter, with the hourly purge, restarts and the clock.                 *)
(*                                                                         *)
(* A handler makes several store calls with nothing held in between, so    *)
(* each call is a step of its own.  What the handler carries from one call *)
(* to the next is in req: the middleware's snapshot of the account (id,    *)
(* role, token), or the account a password was checked for.  A request's   *)
(* body is chosen when it is used.  Bodies that do not parse, unknown      *)
(* tokens and reads of the account list change nothing and are left out.   *)
(***************************************************************************)
EXTENDS UserStore, LimiterOps

CONSTANTS
    Reqs,     \* requests being served at once
    IPs       \* clientIP of a login

VARIABLES
    entries,  \* the limiter's table
    req,      \* per request: the handler's progress and its local variables
    ended     \* history: tokens that resolved once and stopped

vars == <<users, sessions, nextId, nextToken, now, entries, req, ended>>

------------------------------------------------------------------------------
NoReq == [pc |-> "idle"]
LoginKeys == IPs \X Usernames

Finish(r) == req' = [req EXCEPT ![r] = NoReq]
Becomes(r, rec) == req' = [req EXCEPT ![r] = rec]

ServerInit ==
    /\ StoreInit
    /\ entries = [k \in {} |-> Nil]
    /\ req = [r \in Reqs |-> NoReq]
    /\ ended = {}

------------------------------------------------------------------------------
(* login *)

CheckLimiter(r, key) ==
    /\ req[r].pc = "idle"
    /\ ~Blocked(entries, key)
    /\ entries' = AfterCheck(entries, key)
    /\ Becomes(r, [pc |-> "checked", key |-> key])
    /\ UNCHANGED storeVars

CheckPassword(r, password) ==
    /\ req[r].pc = "checked"
    /\ \/ \E u \in DOMAIN users :
             /\ Authenticates(u, req[r].key[2], password)
             /\ Becomes(r, [pc |-> "authed", key |-> req[r].key, user |-> u, password |-> password])
       \/ Becomes(r, [pc |-> "failed", key |-> req[r].key])    \* wrong, or the query failed
    /\ UNCHANGED <<storeVars, entries>>

CountFailure(r) ==
    /\ req[r].pc = "failed"
    /\ entries' = AfterFail(entries, req[r].key)
    /\ Finish(r)
    /\ UNCHANGED storeVars

ResetLimiter(r) ==
    /\ req[r].pc = "authed"
    /\ entries' = AfterReset(entries, req[r].key)
    /\ Becomes(r, [pc |-> "opening", user |-> req[r].user, password |-> req[r].password])
    /\ UNCHANGED storeVars

OpenSession(r) ==
    /\ req[r].pc = "opening"
    /\ CreateSession(req[r].user)
    /\ Finish(r)
    /\ UNCHANGED entries

------------------------------------------------------------------------------
(* the middleware, and the handlers behind it *)

Resolve(r, t) ==
    /\ req[r].pc = "idle"
    /\ Resolves(t)
    /\ Becomes(r, [pc |-> "in", token |-> t, user |-> sessions[t].user,
                   role |-> users[sessions[t].user].role])
    /\ UNCHANGED <<storeVars, entries>>

Logout(r) ==
    /\ req[r].pc = "in"
    /\ DeleteSession(req[r].token)
    /\ Finish(r)
    /\ UNCHANGED entries

\* RequireAdmin looks at the snapshot's role.
IsAdminRequest(r) == req[r].pc = "in" /\ req[r].role = "admin"

AdminCreate(r, name, password, role) ==
    /\ IsAdminRequest(r)
    /\ Create(name, password, role)
    /\ Finish(r)
    /\ UNCHANGED entries

\* Slip: deactivating oneself is forgotten.
SelfLockout_RoleOnly(upd) == upd.role \notin {Nil, "admin"}

SelfLockout(upd) == upd.role \notin {Nil, "admin"} \/ upd.active = 0

AdminUpdate(r, id, upd) ==
    /\ IsAdminRequest(r)
    /\ id = req[r].user => ~SelfLockout(upd)
    /\ Update(id, upd, IF id = req[r].user THEN req[r].token ELSE Nil)
    /\ Finish(r)
    /\ UNCHANGED entries

AdminDelete(r, id) ==
    /\ IsAdminRequest(r)
    /\ id # req[r].user
    /\ Delete(id)
    /\ Finish(r)
    /\ UNCHANGED entries

VerifyCurrent(r, password) ==
    /\ req[r].pc = "in"
    /\ VerifiesPassword(req[r].user, password)
    /\ req' = [req EXCEPT ![r].pc = "verified"]
    /\ UNCHANGED <<storeVars, entries>>

\* Slip: nobody's session is kept.
ChangePassword_KeepsNone(r, password) ==
    /\ req[r].pc = "verified"
    /\ Update(req[r].user, [role |-> Nil, active |-> Nil, password |-> password], Nil)
    /\ Finish(r)
    /\ UNCHANGED entries

ChangePassword(r, password) ==
    /\ req[r].pc = "verified"
    /\ Update(req[r].user, [role |-> Nil, active |-> Nil, password |-> password], req[r].token)
    /\ Finish(r)
    /\ UNCHANGED entries

\* Reads, refused requests and failed store calls: the reply is all there is.
\* (A login that failed or succeeded is counted before it replies.)
Reply(r) ==
    /\ req[r].pc \in {"in", "verified", "opening"}
    /\ Finish(r)
    /\ UNCHANGED <<storeVars, entries>>

------------------------------------------------------------------------------
(* around the requests *)

Purge == PurgeExpiredSessions /\ UNCHANGED <<entries, req>>

TimePasses == Tick /\ entries' = Aged(entries) /\ UNCHANGED req

\* Slip: AUTH_USER and AUTH_PASSWORD are applied on every start.
Restart_Reseeds ==
    /\ req' = [r \in Reqs |-> NoReq]
    /\ entries' = [k \in {} |-> Nil]
    /\ users' = [u \in DOMAIN users \cup {1} |->
                   IF u = 1 THEN [name |-> SeedName, password |-> SeedPassword,
                                  role |-> "admin", active |-> 1]
                   ELSE users[u]]
    /\ UNCHANGED <<sessions, nextId, nextToken, now>>

\* The process restarts: the requests in flight and the limiter are gone, the
\* database stays, and openUserStore seeds it only if it has no user at all.
Restart ==
    /\ req' = [r \in Reqs |-> NoReq]
    /\ entries' = [k \in {} |-> Nil]
    /\ IF DOMAIN users = {} THEN Create(SeedName, SeedPassword, "admin")
       ELSE UNCHANGED storeVars

RequestStep(r) ==
    \/ \E password \in Passwords : CheckPassword(r, password)
    \/ CountFailure(r) \/ ResetLimiter(r) \/ OpenSession(r)
    \/ Logout(r)
    \/ \E name \in Usernames, password \in Passwords, role \in Roles \cup {"other"} :
          AdminCreate(r, name, password, role)
    \/ \E id \in UserIds, upd \in Updates : AdminUpdate(r, id, upd)
    \/ \E id \in UserIds : AdminDelete(r, id)
    \/ \E password \in Passwords : VerifyCurrent(r, password) \/ ChangePassword(r, password)
    \/ Reply(r)

NewRequest(r) ==
    \/ \E key \in LoginKeys : CheckLimiter(r, key)
    \/ \E t \in Tokens : Resolve(r, t)

Remember == ended' = ended \cup {t \in Tokens : Resolves(t) /\ ~Resolves(t)'}

ServerNext ==
    /\ \/ \E r \in Reqs : NewRequest(r) \/ RequestStep(r)
       \/ Purge
       \/ TimePasses
       \/ Restart
    /\ Remember

ServerSafety == ServerInit /\ [][ServerNext]_vars

\* The hourly ticker fires as long as the process lives an hour now and then.
ServerSpec == ServerSafety /\ WF_vars(Purge /\ Remember)

------------------------------------------------------------------------------
ReqState ==
    [pc: {"idle"}]
    \cup [pc: {"checked", "failed"}, key: LoginKeys]
    \cup [pc: {"authed"}, key: LoginKeys, user: UserIds, password: Passwords]
    \cup [pc: {"opening"}, user: UserIds, password: Passwords]
    \cup [pc: {"in", "verified"}, token: Tokens, user: UserIds, role: Roles]

\* Handlers carry what their pc says, and the tables keep their types.
ServerTypeOK ==
    /\ StoreTypeOK
    /\ EntriesOK(entries, LoginKeys)
    /\ req \in [Reqs -> ReqState]
    /\ ended \subseteq Tokens

\* The store stays sound under every interleaving of handlers, whose snapshots
\* of roles and accounts may have gone stale between two of their calls.
ServerInv == ServerTypeOK /\ StoreInv

\* A session that ended (logout, expiry, revocation, deletion) never comes
\* back: reactivating the account, a restart or a login racing the revocation
\* does not revive it.
EndedStaysEnded == \A t \in ended : ~Resolves(t)

\* The reasons for which a step may end session t.
EndedByLogout(t) == \E r \in Reqs : Logout(r) /\ req[r].token = t

EndedByAccount(t) ==
    LET u == sessions[t].user IN u \notin DOMAIN users' \/ users'[u].active = 0

\* t's own account was given a password, and t did not ask for it.  (A reset to
\* the password of before leaves the same row: the step counts as one only if
\* no update without a password could have taken it.)
EndedByPasswordChange(t) ==
    LET u == sessions[t].user
        Updated(r, changes) == \E upd \in changes : AdminUpdate(r, u, upd)
        silent == {upd \in Updates : upd.password = Nil}
    IN  \E r \in Reqs :
           /\ req[r].pc \in {"in", "verified"} /\ req[r].token # t
           /\ \/ req[r].user = u /\ \E password \in Passwords : ChangePassword(r, password)
              \/ Updated(r, Updates \ silent) /\ ~Updated(r, silent)

\* Nobody is thrown out without a reason: a live session ends by expiry, by
\* its own logout, because its account is deactivated or deleted, or because
\* its account was given a password from another session (the account's own,
\* or an admin's).  Another account's change, a change of role, or a password
\* changed from this very session never ends it (store.go:219-223).
SessionsEndForAReason ==
    [][\A t \in Tokens : (Resolves(t) /\ ~Resolves(t)') =>
          \/ sessions[t].expires <= now'
          \/ EndedByLogout(t)
          \/ EndedByAccount(t)
          \/ EndedByPasswordChange(t)]_vars

\* README.md:152-153: changing a password, deactivating or deleting an account
\* ends its sessions immediately.  In that very step none is left of an account
\* that somebody else changed, deactivated or deleted, and of one that changed its
\* own password only the session it did so from.
RevocationAtOnce ==
    [][\A u \in DOMAIN users : CredentialsChange(u) =>
          \A t \in DOMAIN sessions' : sessions'[t].user = u =>
             \E r \in Reqs : /\ req[r].pc \in {"in", "verified"}
                             /\ req[r].user = u /\ req[r].token = t
                             /\ req'[r] = NoReq]_vars

\* README.md:157: an admin does not demote, deactivate or delete themselves,
\* so an active admin stops being one only through another account's request.
AdminsFallByOthersOnly ==
    [][\A u \in DOMAIN users :
          (IsActiveAdmin(users[u]) /\ ~(u \in DOMAIN users' /\ IsActiveAdmin(users'[u]))) =>
             \E r \in Reqs : IsAdminRequest(r) /\ req'[r] = NoReq /\ req[r].user # u]_vars

\* The server, requests, races and restarts included, drives the store only
\* through its methods: what holds of the store holds here.
ServerImplementsStore == StoreSpec

\* An expired session row does not stay in the database.
ExpiredArePurged ==
    \A t \in Tokens :
       (t \in DOMAIN sessions /\ sessions[t].expires <= now) ~> t \notin DOMAIN sessions

\* store.go:161-163 and README.md:153: a password change takes effect at once,
\* so no session is opened on a password that is no longer the account's.
SessionsOpenOnCurrentPassword ==
    [][\A t \in DOMAIN sessions' \ DOMAIN sessions :
          \E r \in Reqs : /\ req[r].pc = "opening"
                          /\ req[r].user = sessions'[t].user
                          /\ req[r].password = users[req[r].user].password]_vars

==============================================================================
