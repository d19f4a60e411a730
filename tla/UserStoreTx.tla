----------------------------- MODULE UserStoreTx -----------------------------
(***************************************************************************)
(* The same store, statement by statement: Create, Update and Delete open  *)
(* a transaction on the pool's only connection, run their SELECTs, checks  *)
(* and writes on it, and commit, or roll back on any error (the deferred   *)
(* tx.Rollback).  What the transaction has written is invisible until the  *)
(* commit.  Any statement may fail and the process may crash between any   *)
(* two of them.  StoreSpec, the specification of UserStore, is what every  *)
(* behaviour of this module implements.                                    *)
(***************************************************************************)
EXTENDS UserStore

CONSTANTS
    Callers,    \* goroutines serving HTTP requests
    Calls       \* the calls they make, a part of Ops

VARIABLE tx         \* per caller: the transaction it has open, if any

txVars == <<users, sessions, nextId, nextToken, now, tx>>

------------------------------------------------------------------------------
NoTx == [pc |-> "idle"]

\* Where a transaction stands: the statement it runs next.
Statements == {"checkName", "insertRow", "readRow", "checkAdmin", "writeRow",
               "writePassword", "dropSessions", "deleteRow", "commit"}

\* database/sql hands out the one connection to one caller at a time.
ConnectionFree_ManyConnections == TRUE    \* Slip: without SetMaxOpenConns(1)

ConnectionFree == \A c \in Callers : tx[c].pc = "idle"

\* The methods that open a transaction, once their argument checks passed.
Ops == [kind: {"create"}, name: ValidUsernames, password: ValidPasswords, role: Roles]
       \cup [kind: {"update"}, id: UserIds, keep: Tokens \cup {Nil},
             upd: [role: Roles \cup {Nil}, active: {0, 1, Nil},
                   password: ValidPasswords \cup {Nil}]]
       \cup [kind: {"delete"}, id: UserIds]

ASSUME CallsAssumption == Calls \subseteq Ops

First(op) == IF op.kind = "create" THEN "checkName" ELSE "readRow"

\* A transaction sees its own writes on top of the committed rows.
OpenTx(op) == [pc |-> First(op), op |-> op, users |-> users, sessions |-> sessions, nextId |-> nextId]

Goto(c, pc) == tx' = [tx EXCEPT ![c].pc = pc]

At(c, pc) == tx[c].pc = pc

Updated(c) == Merge(tx[c].users[tx[c].op.id], tx[c].op.upd)

Taken(c) == \E u \in DOMAIN tx[c].users : tx[c].users[u].name = tx[c].op.name

\* Whether this call takes an active admin away.
TakesAdmin(c) ==
    LET row == tx[c].users[tx[c].op.id]
    IN  IF tx[c].op.kind = "delete" THEN IsActiveAdmin(row) ELSE LosesAdmin(row, Updated(c))

WritePc(c) == IF tx[c].op.kind = "delete" THEN "deleteRow" ELSE "writeRow"

------------------------------------------------------------------------------
TxInit == StoreInit /\ tx = [c \in Callers |-> NoTx]

Begin(c, op) ==
    /\ ConnectionFree
    /\ tx' = [tx EXCEPT ![c] = OpenTx(op)]
    /\ UNCHANGED storeVars

CheckName(c) == At(c, "checkName") /\ ~Taken(c) /\ Goto(c, "insertRow") /\ UNCHANGED storeVars

InsertRow(c) ==
    /\ At(c, "insertRow")
    /\ tx[c].nextId <= MaxUserId
    /\ LET new == tx[c].nextId
           row == [name |-> tx[c].op.name, password |-> tx[c].op.password,
                   role |-> tx[c].op.role, active |-> 1]
       IN  tx' = [tx EXCEPT ![c].pc = "commit",
                            ![c].nextId = new + 1,
                            ![c].users = [u \in DOMAIN @ \cup {new} |-> IF u = new THEN row ELSE @[u]]]
    /\ UNCHANGED storeVars

\* SELECT the row; the branch on losesAdmin decides whether to look for
\* another admin.
ReadRow(c) ==
    /\ At(c, "readRow")
    /\ tx[c].op.id \in DOMAIN tx[c].users
    /\ Goto(c, IF TakesAdmin(c) THEN "checkAdmin" ELSE WritePc(c))
    /\ UNCHANGED storeVars

CheckAdmin(c) ==
    /\ At(c, "checkAdmin")
    /\ OtherAdmin(tx[c].users, tx[c].op.id)
    /\ Goto(c, WritePc(c))
    /\ UNCHANGED storeVars

WriteRow(c) ==
    /\ At(c, "writeRow")
    /\ LET next == Updated(c)
           id == tx[c].op.id
       IN  tx' = [tx EXCEPT ![c].users[id].role = next.role,
                            ![c].users[id].active = next.active,
                            ![c].pc = CASE tx[c].op.upd.password # Nil -> "writePassword"
                                        [] tx[c].op.upd.password = Nil /\ next.active = 0 -> "dropSessions"
                                        [] OTHER -> "commit"]
    /\ UNCHANGED storeVars

WritePassword(c) ==
    /\ At(c, "writePassword")
    /\ tx' = [tx EXCEPT ![c].users[tx[c].op.id].password = tx[c].op.upd.password,
                        ![c].pc = "dropSessions"]
    /\ UNCHANGED storeVars

DropSessions(c) ==
    /\ At(c, "dropSessions")
    /\ LET gone == {t \in DOMAIN tx[c].sessions : /\ tx[c].sessions[t].user = tx[c].op.id
                                                  /\ t # tx[c].op.keep}
       IN  tx' = [tx EXCEPT ![c].sessions = Restrict(@, DOMAIN @ \ gone), ![c].pc = "commit"]
    /\ UNCHANGED storeVars

\* DELETE FROM users, with the cascade on sessions.
DeleteRow(c) ==
    /\ At(c, "deleteRow")
    /\ LET id == tx[c].op.id
           gone == {t \in DOMAIN tx[c].sessions : tx[c].sessions[t].user = id}
       IN  tx' = [tx EXCEPT ![c].users = Restrict(@, DOMAIN @ \ {id}),
                            ![c].sessions = Restrict(@, DOMAIN @ \ gone),
                            ![c].pc = "commit"]
    /\ UNCHANGED storeVars

Commit(c) ==
    /\ At(c, "commit")
    /\ users' = tx[c].users
    /\ sessions' = tx[c].sessions
    /\ nextId' = tx[c].nextId
    /\ tx' = [tx EXCEPT ![c] = NoTx]
    /\ UNCHANGED <<nextToken, now>>

\* ErrUsernameTaken, ErrNotFound and ErrLastAdmin: return, and roll back.
Rejected(c) ==
       \/ At(c, "checkName") /\ Taken(c)
       \/ At(c, "insertRow") /\ tx[c].nextId > MaxUserId      \* bound of the model
       \/ At(c, "readRow") /\ tx[c].op.id \notin DOMAIN tx[c].users
       \/ At(c, "checkAdmin") /\ ~OtherAdmin(tx[c].users, tx[c].op.id)

\* Slip: an early return without the deferred rollback.
Reject_NoRollback(c) == Rejected(c) /\ Goto(c, "leaked") /\ UNCHANGED storeVars

Reject(c) == Rejected(c) /\ tx' = [tx EXCEPT ![c] = NoTx] /\ UNCHANGED storeVars

\* Any statement, the commit included, may report an error.
StatementFails(c) ==
    /\ tx[c].pc \in Statements
    /\ tx' = [tx EXCEPT ![c] = NoTx]
    /\ UNCHANGED storeVars

\* The session methods are one statement each and need the connection too.
SessionStatement ==
    /\ ConnectionFree
    /\ \/ \E id \in UserIds : CreateSession(id)
       \/ \E t \in Tokens : DeleteSession(t)
       \/ PurgeExpiredSessions
    /\ UNCHANGED tx

TxTimePasses == Tick /\ UNCHANGED tx

\* The process dies; SQLite recovers the committed state on the next Open.
Crash ==
    /\ tx' = [c \in Callers |-> NoTx]
    /\ UNCHANGED storeVars

Statement(c) ==
    \/ CheckName(c) \/ InsertRow(c) \/ ReadRow(c) \/ CheckAdmin(c) \/ WriteRow(c)
    \/ WritePassword(c) \/ DropSessions(c) \/ DeleteRow(c) \/ Commit(c)
    \/ Reject(c) \/ StatementFails(c)

TxNext ==
    \/ \E c \in Callers : Statement(c) \/ \E op \in Calls : Begin(c, op)
    \/ SessionStatement
    \/ TxTimePasses
    \/ Crash

\* Statements return, with a result or an error.
TxFairness == \A c \in Callers : WF_txVars(Statement(c))

TxSpec == TxInit /\ [][TxNext]_txVars /\ TxFairness

------------------------------------------------------------------------------
\* A transaction commits exactly one of the store's atomic methods, computed
\* from the rows it commits over, whatever fails or crashes on the way: nobody
\* sees a changed password whose sessions are still there.
ImplementsUserStore == StoreSpec

\* Every path out of a method, the early returns included, gives the one
\* connection back; a leak would hang every later request.
ConnectionComesBack == \A c \in Callers : ~At(c, "idle") ~> ConnectionFree

==============================================================================
