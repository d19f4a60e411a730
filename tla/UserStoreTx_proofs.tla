-------------------------- MODULE UserStoreTx_proofs --------------------------
(***************************************************************************)
(* The store, statement by statement, implements the atomic store.  The    *)
(* invariant says of the open transaction, of which there is one at most,  *)
(* how far it has come: what its next statement is, which checks it has    *)
(* passed on the committed rows, and which of the method's writes it has   *)
(* made on top of them.  The commit is then the whole method in one step,  *)
(* and every other step leaves the committed rows alone.                   *)
(***************************************************************************)
EXTENDS UserStoreTx, UserStore_proofs

------------------------------------------------------------------------------
\* An open transaction with its own copies of the rows.
Tx(pc, op, us, ss, n) == [pc |-> pc, op |-> op, users |-> us, sessions |-> ss, nextId |-> n]

\* Its copies are the committed rows still.
Untouched(us, ss, n) == us = users /\ ss = sessions /\ n = nextId

\* store.go:124-159: Create after each of its statements.
CreateStage(pc, op, us, ss, n) ==
    \/ pc = "checkName" /\ Untouched(us, ss, n)
    \/ pc = "insertRow" /\ Untouched(us, ss, n) /\ ~NameTaken(op.name)
    \/ /\ pc = "commit" /\ ~NameTaken(op.name) /\ nextId <= MaxUserId
       /\ us = [u \in DOMAIN users \cup {nextId} |->
                  IF u = nextId
                  THEN [name |-> op.name, password |-> op.password, role |-> op.role, active |-> 1]
                  ELSE users[u]]
       /\ ss = sessions /\ n = nextId + 1

New(op) == Merge(users[op.id], op.upd)
Allowed(op) == op.id \in DOMAIN users /\ (LosesAdmin(users[op.id], New(op)) => OtherAdmin(users, op.id))

\* store.go:170-225: Update after each of its statements.
UpdateStage(pc, op, us, ss, n) ==
    \/ pc = "readRow" /\ Untouched(us, ss, n)
    \/ pc = "checkAdmin" /\ Untouched(us, ss, n) /\ op.id \in DOMAIN users
    \/ pc = "writeRow" /\ Untouched(us, ss, n) /\ Allowed(op)
    \/ /\ pc = "writePassword" /\ Allowed(op) /\ op.upd.password # Nil
       /\ us = [users EXCEPT ![op.id] = [New(op) EXCEPT !.password = users[op.id].password]]
       /\ ss = sessions /\ n = nextId
    \/ /\ pc = "dropSessions" /\ Allowed(op) /\ EndsSessions(op.upd, New(op))
       /\ us = [users EXCEPT ![op.id] = New(op)]
       /\ ss = sessions /\ n = nextId
    \/ /\ pc = "commit" /\ Allowed(op)
       /\ us = [users EXCEPT ![op.id] = New(op)]
       /\ ss = IF EndsSessions(op.upd, New(op)) THEN SessionsWithout(SessionsOf(op.id) \ {op.keep})
               ELSE sessions
       /\ n = nextId

Spared(op) == op.id \in DOMAIN users /\ (IsActiveAdmin(users[op.id]) => OtherAdmin(users, op.id))

\* store.go:227-250: Delete after each of its statements.
DeleteStage(pc, op, us, ss, n) ==
    \/ pc = "readRow" /\ Untouched(us, ss, n)
    \/ pc = "checkAdmin" /\ Untouched(us, ss, n) /\ op.id \in DOMAIN users
    \/ pc = "deleteRow" /\ Untouched(us, ss, n) /\ Spared(op)
    \/ /\ pc = "commit" /\ Spared(op)
       /\ us = Restrict(users, DOMAIN users \ {op.id})
       /\ ss = SessionsWithout(SessionsOf(op.id))
       /\ n = nextId

Stage(pc, op, us, ss, n) ==
    /\ pc \in Statements /\ op \in Ops
    /\ \/ op.kind = "create" /\ CreateStage(pc, op, us, ss, n)
       \/ op.kind = "update" /\ UpdateStage(pc, op, us, ss, n)
       \/ op.kind = "delete" /\ DeleteStage(pc, op, us, ss, n)

Staged(t) == \E pc, op, us, ss, n : t = Tx(pc, op, us, ss, n) /\ Stage(pc, op, us, ss, n)

TxInv ==
    /\ StoreInv
    /\ tx = [c \in Callers |-> tx[c]]
    /\ \A c \in Callers : tx[c] = NoTx \/ Staged(tx[c])
    /\ \A c, d \in Callers : tx[c].pc # "idle" /\ tx[d].pc # "idle" => c = d

------------------------------------------------------------------------------
\* What the operations of each kind carry.
LEMMA OpFields ==
  ASSUME NEW op \in Ops
  PROVE  /\ op.kind = "create" => op.name \in ValidUsernames /\ op.password \in ValidPasswords /\ op.role \in Roles
         /\ op.kind = "update" => /\ op.id \in UserIds /\ op.keep \in Tokens \cup {Nil}
                                  /\ op.upd \in Updates /\ ValidUpdate(op.upd)
         /\ op.kind = "delete" => op.id \in UserIds
         /\ op.kind \in {"create", "update", "delete"}
BY StoreAssumption DEF Ops, Updates, ValidUpdate

\* An open transaction is at one of its statements.
LEMMA StagedPc == ASSUME NEW t, Staged(t) PROVE t.pc \in Statements /\ t.pc # "idle"
BY DEF Staged, Stage, Tx, Statements

\* The transaction a caller is in, opened up.
LEMMA Opened ==
  ASSUME TxInv, NEW c \in Callers, tx[c].pc # "idle"
  PROVE  Staged(tx[c])
BY DEF TxInv, NoTx

\* One caller's step inside its transaction keeps the invariant.
LEMMA OneMoves ==
  ASSUME TxInv, NEW c \in Callers, NEW t, t = NoTx \/ (Staged(t) /\ tx[c].pc # "idle"),
         tx' = [tx EXCEPT ![c] = t], UNCHANGED storeVars
  PROVE  TxInv'
<1>1. StoreInv'
  BY StoreStepInv DEF TxInv
<1>2. \A pc, op, us, ss, n : Stage(pc, op, us, ss, n) => Stage(pc, op, us, ss, n)'
  BY DEF Stage, CreateStage, UpdateStage, DeleteStage, Untouched, NameTaken, New, Allowed, Spared,
         SessionsWithout, SessionsOf, storeVars
<1>3. \A d \in Callers : tx'[d] = IF d = c THEN t ELSE tx[d]
  BY DEF TxInv
<1>4. ASSUME NEW d \in Callers
      PROVE  (tx[d] = NoTx \/ Staged(tx[d]))'
  <2>1. PICK s : s = tx'[d]
    OBVIOUS
  <2>2. s = NoTx \/ Staged(s)
    BY <1>3, <2>1 DEF TxInv
  <2>3. CASE s = NoTx
    BY <2>1, <2>3
  <2>4. CASE Staged(s)
    <3>1. PICK pc, op, us, ss, n : s = Tx(pc, op, us, ss, n) /\ Stage(pc, op, us, ss, n)
      BY <2>4 DEF Staged
    <3>2. Stage(pc, op, us, ss, n)'
      BY <1>2, <3>1
    <3>3. tx'[d] = Tx(pc, op, us, ss, n)
      BY <2>1, <3>1
    <3>. QED  BY <3>2, <3>3 DEF Staged
  <2>. QED  BY <2>2, <2>3, <2>4
<1>5. \A d \in Callers : tx'[d].pc # "idle" => tx[d].pc # "idle"
  BY <1>3 DEF NoTx
<1>6. \A d, e \in Callers : tx'[d].pc # "idle" /\ tx'[e].pc # "idle" => d = e
  BY <1>5 DEF TxInv
<1>7. tx' = [d \in Callers |-> tx'[d]]
  BY DEF TxInv
<1>. QED  BY <1>1, <1>4, <1>6, <1>7 DEF TxInv

------------------------------------------------------------------------------
\* A statement moves its transaction on, or ends it, and nothing else.
MovesTo(c, t) == tx' = [tx EXCEPT ![c] = t] /\ UNCHANGED storeVars

\* What a transaction's own fields are.
LEMMA TxFields ==
  ASSUME NEW pc, NEW op, NEW us, NEW ss, NEW n
  PROVE  /\ Tx(pc, op, us, ss, n).pc = pc /\ Tx(pc, op, us, ss, n).op = op
         /\ Tx(pc, op, us, ss, n).users = us /\ Tx(pc, op, us, ss, n).sessions = ss
         /\ Tx(pc, op, us, ss, n).nextId = n
BY DEF Tx

\* Several fields of one transaction, set one after the other.
LEMMA SetTwice ==
  ASSUME TxInv, NEW c \in Callers, NEW y, NEW z, NEW f, f = [tx EXCEPT ![c] = y]
  PROVE  f[c] = y /\ [f EXCEPT ![c] = z] = [tx EXCEPT ![c] = z]
BY DEF TxInv

\* Going on to the next statement changes nothing but that.
LEMMA GoingOn ==
  ASSUME TxInv, NEW c \in Callers, NEW pc, NEW op, NEW us, NEW ss, NEW n, NEW next,
         tx[c] = Tx(pc, op, us, ss, n), Goto(c, next), UNCHANGED storeVars
  PROVE  MovesTo(c, Tx(next, op, us, ss, n))
<1>1. tx' = [tx EXCEPT ![c] = [tx[c] EXCEPT !.pc = next]]
  BY DEF Goto
<1>2. [tx[c] EXCEPT !.pc = next] = Tx(next, op, us, ss, n)
  BY DEF Tx
<1>. QED  BY <1>1, <1>2 DEF MovesTo

\* Create: the name is looked up, then the row written.
LEMMA CreateMoves ==
  ASSUME TxInv, NEW c \in Callers, NEW pc, NEW op, NEW us, NEW ss, NEW n,
         tx[c] = Tx(pc, op, us, ss, n), Stage(pc, op, us, ss, n), CheckName(c) \/ InsertRow(c)
  PROVE  \E t : Staged(t) /\ MovesTo(c, t)
<1>1. tx[c].pc = pc /\ tx[c].op = op /\ tx[c].users = us /\ tx[c].sessions = ss /\ tx[c].nextId = n
  BY TxFields
<1>2. op \in Ops /\ op.kind = "create" /\ Untouched(us, ss, n)
  BY <1>1 DEF CheckName, InsertRow, At, Stage, CreateStage, UpdateStage, DeleteStage
<1>3. CASE CheckName(c)
  <2>1. ~NameTaken(op.name)
    BY <1>1, <1>2, <1>3 DEF CheckName, Taken, NameTaken, Untouched
  <2>2. Stage("insertRow", op, us, ss, n)
    BY <1>2, <2>1 DEF Stage, CreateStage, Statements
  <2>3. MovesTo(c, Tx("insertRow", op, us, ss, n))
    BY <1>3, GoingOn DEF CheckName
  <2>. QED  BY <2>2, <2>3 DEF Staged
<1>4. CASE InsertRow(c)
  <2>1. PICK row : row = [name |-> op.name, password |-> op.password, role |-> op.role, active |-> 1]
    OBVIOUS
  <2>2. PICK vs : vs = [u \in DOMAIN us \cup {n} |-> IF u = n THEN row ELSE us[u]]
    OBVIOUS
  <2>6. PICK m : m = n + 1
    OBVIOUS
  <2>3. MovesTo(c, Tx("commit", op, vs, ss, m))
    <3>1. tx' = [tx EXCEPT ![c].pc = "commit", ![c].nextId = m, ![c].users = vs]
      BY <1>1, <1>4, <2>1, <2>2, <2>6 DEF InsertRow
    <3>2. tx' = [tx EXCEPT ![c] = [tx[c] EXCEPT !.pc = "commit", !.nextId = m, !.users = vs]]
      BY <3>1 DEF TxInv
    <3>3. [tx[c] EXCEPT !.pc = "commit", !.nextId = m, !.users = vs] = Tx("commit", op, vs, ss, m)
      <4>1. [tx[c] EXCEPT !.pc = "commit"] = Tx("commit", op, us, ss, n)
        BY DEF Tx
      <4>2. [Tx("commit", op, us, ss, n) EXCEPT !.nextId = m] = Tx("commit", op, us, ss, m)
        BY DEF Tx
      <4>3. [Tx("commit", op, us, ss, m) EXCEPT !.users = vs] = Tx("commit", op, vs, ss, m)
        BY DEF Tx
      <4>. QED  BY <4>1, <4>2, <4>3
    <3>. QED  BY <1>4, <3>2, <3>3 DEF MovesTo, InsertRow
  <2>4. ~NameTaken(op.name) /\ nextId <= MaxUserId
    BY <1>1, <1>2, <1>4 DEF InsertRow, At, Stage, CreateStage, Untouched
  <2>5. Stage("commit", op, vs, ss, m)
    BY <1>2, <2>1, <2>2, <2>4, <2>6 DEF Stage, CreateStage, Untouched, Statements
  <2>. QED  BY <2>3, <2>5 DEF Staged
<1>. QED  BY <1>3, <1>4

\* Update and Delete: the row is read, and another admin looked for if it takes one away.
LEMMA ReadMoves ==
  ASSUME TxInv, NEW c \in Callers, NEW pc, NEW op, NEW us, NEW ss, NEW n,
         tx[c] = Tx(pc, op, us, ss, n), Stage(pc, op, us, ss, n), ReadRow(c) \/ CheckAdmin(c)
  PROVE  \E t : Staged(t) /\ MovesTo(c, t)
<1>1. tx[c].pc = pc /\ tx[c].op = op /\ tx[c].users = us /\ tx[c].sessions = ss /\ tx[c].nextId = n
  BY TxFields
<1>2. op \in Ops /\ op.kind \in {"update", "delete"} /\ Untouched(us, ss, n) /\ us = users
  BY <1>1 DEF ReadRow, CheckAdmin, At, Stage, CreateStage, UpdateStage, DeleteStage, Untouched
<1>3. op.id \in DOMAIN users
  BY <1>1, <1>2 DEF ReadRow, CheckAdmin, At, Stage, UpdateStage, DeleteStage
<1>4. PICK write : write = IF op.kind = "delete" THEN "deleteRow" ELSE "writeRow"
  OBVIOUS
<1>5. WritePc(c) = write
  BY <1>1, <1>4 DEF WritePc
<1>6. CASE ReadRow(c) /\ TakesAdmin(c)
  <2>1. MovesTo(c, Tx("checkAdmin", op, us, ss, n))
    BY <1>6, GoingOn DEF ReadRow
  <2>2. Stage("checkAdmin", op, us, ss, n)
    BY <1>2, <1>3 DEF Stage, UpdateStage, DeleteStage, Statements
  <2>. QED  BY <2>1, <2>2 DEF Staged
<1>7. CASE OtherAdmin(users, op.id) \/ ~TakesAdmin(c)
  <2>1. op.kind = "delete" => Spared(op)
    BY <1>1, <1>2, <1>3, <1>7 DEF Spared, TakesAdmin
  <2>2. op.kind = "update" => Allowed(op)
    BY <1>1, <1>2, <1>3, <1>7 DEF Allowed, TakesAdmin, Updated, New
  <2>3. Stage(write, op, us, ss, n)
    BY <1>2, <1>4, <2>1, <2>2 DEF Stage, UpdateStage, DeleteStage, Statements
  <2>4. CASE MovesTo(c, Tx(write, op, us, ss, n))
    BY <2>3, <2>4 DEF Staged
  <2>5. CASE ReadRow(c) /\ ~TakesAdmin(c)
    BY <1>5, <2>4, <2>5, GoingOn DEF ReadRow
  <2>6. CASE CheckAdmin(c)
    BY <1>5, <2>4, <2>6, GoingOn DEF CheckAdmin
  <2>. QED  BY <1>6, <2>5, <2>6
<1>8. CheckAdmin(c) => OtherAdmin(users, op.id)
  BY <1>1, <1>2 DEF CheckAdmin
<1>. QED  BY <1>6, <1>7, <1>8

\* The three writes of Merge, in the order of the statements.
LEMMA MergeInSteps ==
  ASSUME NEW row \in UserRow, NEW upd \in Updates, ValidUpdate(upd), NEW next, next = Merge(row, upd)
  PROVE  /\ next \in UserRow
         /\ [[row EXCEPT !.role = next.role] EXCEPT !.active = next.active] = [next EXCEPT !.password = row.password]
         /\ upd.password = Nil => [next EXCEPT !.password = row.password] = next
<1>1. next \in UserRow
  BY MergeIsRow DEF ValidUpdate
<1>2. /\ next.name = row.name
      /\ next.password = IF upd.password = Nil THEN row.password ELSE upd.password
  BY DEF Merge, UserRow
<1>3. [[row EXCEPT !.role = next.role] EXCEPT !.active = next.active] = [next EXCEPT !.password = row.password]
  BY <1>1, <1>2 DEF UserRow
<1>4. upd.password = Nil => [next EXCEPT !.password = row.password] = next
  BY <1>1, <1>2 DEF UserRow
<1>. QED  BY <1>1, <1>3, <1>4

\* Update writes the role and the activity.
LEMMA WriteRowMoves ==
  ASSUME TxInv, NEW c \in Callers, NEW pc, NEW op, NEW us, NEW ss, NEW n,
         tx[c] = Tx(pc, op, us, ss, n), Stage(pc, op, us, ss, n), WriteRow(c)
  PROVE  \E t : Staged(t) /\ MovesTo(c, t)
<1>1. tx[c].pc = pc /\ tx[c].op = op /\ tx[c].users = us /\ tx[c].sessions = ss /\ tx[c].nextId = n
  BY TxFields
<1>2. op \in Ops /\ op.kind = "update" /\ Untouched(us, ss, n) /\ us = users /\ Allowed(op)
  BY <1>1 DEF WriteRow, At, Stage, CreateStage, UpdateStage, DeleteStage, Untouched
<1>3. PICK id : id = op.id
  OBVIOUS
<1>4. PICK upd \in Updates : upd = op.upd /\ ValidUpdate(upd)
  BY <1>2, OpFields
<1>5. id \in DOMAIN users /\ users[id] \in UserRow
  BY <1>2, <1>3 DEF Allowed, TxInv, StoreInv, StoreTypeOK
<1>6. PICK next : next = New(op) /\ next = Merge(users[id], upd)
  BY <1>3, <1>4 DEF New
<1>7. PICK q : q = CASE upd.password # Nil -> "writePassword"
                     [] upd.password = Nil /\ next.active = 0 -> "dropSessions"
                     [] OTHER -> "commit"
  OBVIOUS
<1>8. PICK vs : vs = [users EXCEPT ![id] = [[users[id] EXCEPT !.role = next.role] EXCEPT !.active = next.active]]
  OBVIOUS
<1>9. MovesTo(c, Tx(q, op, vs, ss, n))
  <2>1. Updated(c) = next
    BY <1>1, <1>2, <1>3, <1>4, <1>6 DEF Updated
  <2>2. tx' = [tx EXCEPT ![c].users[id].role = next.role, ![c].users[id].active = next.active, ![c].pc = q]
    BY <1>1, <1>3, <1>4, <1>7, <2>1 DEF WriteRow
  <2>3. PICK f : f = [tx EXCEPT ![c].users[id].role = next.role]
    OBVIOUS
  <2>4. PICK ws : ws = [users EXCEPT ![id] = [users[id] EXCEPT !.role = next.role]]
    OBVIOUS
  <2>5. f = [tx EXCEPT ![c] = Tx(pc, op, ws, ss, n)]
    <3>1. [tx[c] EXCEPT !.users[id].role = next.role] = Tx(pc, op, ws, ss, n)
      BY <1>2, <2>4 DEF Tx
    <3>. QED  BY <2>3, <3>1
  <2>6. PICK g : g = [f EXCEPT ![c].users[id].active = next.active]
    OBVIOUS
  <2>7. g = [tx EXCEPT ![c] = Tx(pc, op, vs, ss, n)]
    <3>1. f[c] = Tx(pc, op, ws, ss, n)
      BY <2>5, SetTwice
    <3>2. [ws EXCEPT ![id].active = next.active] = vs
      BY <1>5, <1>8, <2>4
    <3>3. [f[c] EXCEPT !.users[id].active = next.active] = Tx(pc, op, vs, ss, n)
      BY <3>1, <3>2 DEF Tx
    <3>4. g = [f EXCEPT ![c] = Tx(pc, op, vs, ss, n)]
      BY <2>6, <3>3
    <3>. QED  BY <2>5, <3>4, SetTwice
  <2>8. tx' = [tx EXCEPT ![c] = Tx(q, op, vs, ss, n)]
    <3>1. tx' = [g EXCEPT ![c].pc = q]
      BY <2>2, <2>3, <2>6
    <3>2. g[c] = Tx(pc, op, vs, ss, n)
      BY <2>7, SetTwice
    <3>3. [g[c] EXCEPT !.pc = q] = Tx(q, op, vs, ss, n)
      BY <3>2 DEF Tx
    <3>4. tx' = [g EXCEPT ![c] = Tx(q, op, vs, ss, n)]
      BY <3>1, <3>3
    <3>. QED  BY <2>7, <3>4, SetTwice
  <2>. QED  BY <2>8 DEF MovesTo, WriteRow
<1>10. Stage(q, op, vs, ss, n)
  <2>1. vs = [users EXCEPT ![id] = [next EXCEPT !.password = users[id].password]]
        /\ (upd.password = Nil => vs = [users EXCEPT ![id] = next])
    <3>1. PICK row \in UserRow : row = users[id]
      BY <1>5
    <3>2. next = Merge(row, upd)
      BY <1>6, <3>1
    <3>3. [[row EXCEPT !.role = next.role] EXCEPT !.active = next.active] = [next EXCEPT !.password = row.password]
          /\ (upd.password = Nil => [next EXCEPT !.password = row.password] = next)
      BY <1>4, <3>2, MergeInSteps
    <3>. QED  BY <1>8, <3>1, <3>3
  <2>2. ss = sessions /\ n = nextId
    BY <1>2 DEF Untouched
  <2>3. CASE upd.password # Nil
    <3>1. q = "writePassword"
      BY <1>7, <2>3
    <3>. QED  BY <1>2, <1>3, <1>4, <1>6, <2>1, <2>2, <2>3, <3>1 DEF Stage, UpdateStage, Statements
  <2>4. CASE upd.password = Nil /\ next.active = 0
    <3>1. q = "dropSessions" /\ EndsSessions(op.upd, New(op))
      BY <1>4, <1>6, <1>7, <2>4 DEF EndsSessions
    <3>. QED  BY <1>2, <1>3, <1>4, <1>6, <2>1, <2>2, <2>4, <3>1 DEF Stage, UpdateStage, Statements
  <2>5. CASE upd.password = Nil /\ next.active # 0
    <3>1. q = "commit" /\ ~EndsSessions(op.upd, New(op))
      BY <1>4, <1>6, <1>7, <2>5 DEF EndsSessions
    <3>. QED  BY <1>2, <1>3, <1>4, <1>6, <2>1, <2>2, <2>5, <3>1 DEF Stage, UpdateStage, Statements
  <2>. QED  BY <2>3, <2>4, <2>5
<1>. QED  BY <1>9, <1>10 DEF Staged

\* Update writes the password, then drops the account's other sessions.
LEMMA PasswordMoves ==
  ASSUME TxInv, NEW c \in Callers, NEW pc, NEW op, NEW us, NEW ss, NEW n,
         tx[c] = Tx(pc, op, us, ss, n), Stage(pc, op, us, ss, n), WritePassword(c)
  PROVE  \E t : Staged(t) /\ MovesTo(c, t)
<1>1. tx[c].pc = pc /\ tx[c].op = op /\ tx[c].users = us /\ tx[c].sessions = ss /\ tx[c].nextId = n
  BY TxFields
<1>2. /\ op \in Ops /\ op.kind = "update" /\ Allowed(op) /\ op.upd.password # Nil
      /\ us = [users EXCEPT ![op.id] = [New(op) EXCEPT !.password = users[op.id].password]]
      /\ ss = sessions /\ n = nextId
  BY <1>1 DEF WritePassword, At, Stage, CreateStage, UpdateStage, DeleteStage
<1>3. PICK id : id = op.id
  OBVIOUS
<1>4. PICK upd \in Updates : upd = op.upd /\ ValidUpdate(upd)
  BY <1>2, OpFields
<1>5. id \in DOMAIN users /\ users[id] \in UserRow
  BY <1>2, <1>3 DEF Allowed, TxInv, StoreInv, StoreTypeOK
<1>6. PICK next : next = New(op) /\ next = Merge(users[id], upd)
  BY <1>3, <1>4 DEF New
<1>7. PICK vs : vs = [users EXCEPT ![id] = next]
  OBVIOUS
<1>8. [us EXCEPT ![id].password = upd.password] = vs
  <2>1. PICK half : half = [next EXCEPT !.password = users[id].password]
    OBVIOUS
  <2>2. [half EXCEPT !.password = upd.password] = next
    <3>1. PICK row \in UserRow : row = users[id]
      BY <1>5
    <3>2. upd.password # Nil /\ next = Merge(row, upd) /\ half = [next EXCEPT !.password = row.password]
      BY <1>2, <1>4, <1>6, <2>1, <3>1
    <3>3. [[next EXCEPT !.password = row.password] EXCEPT !.password = upd.password] = next
      <4>1. next \in UserRow /\ next.password = upd.password
        BY <1>4, <3>2, MergeIsRow DEF ValidUpdate, Merge, UserRow
      <4>. QED  BY <4>1 DEF UserRow
    <3>. QED  BY <3>2, <3>3
  <2>3. us = [users EXCEPT ![id] = half]
    BY <1>2, <1>3, <1>6, <2>1
  <2>. QED  BY <1>5, <1>7, <2>2, <2>3
<1>9. MovesTo(c, Tx("dropSessions", op, vs, ss, n))
  <2>1. tx' = [tx EXCEPT ![c].users[id].password = upd.password, ![c].pc = "dropSessions"]
    BY <1>1, <1>3, <1>4 DEF WritePassword
  <2>2. tx' = [tx EXCEPT ![c] = [tx[c] EXCEPT !.users[id].password = upd.password, !.pc = "dropSessions"]]
    BY <2>1 DEF TxInv
  <2>3. [Tx(pc, op, us, ss, n) EXCEPT !.users[id].password = upd.password] = Tx(pc, op, vs, ss, n)
    BY <1>8 DEF Tx
  <2>4. [Tx(pc, op, vs, ss, n) EXCEPT !.pc = "dropSessions"] = Tx("dropSessions", op, vs, ss, n)
    BY DEF Tx
  <2>. QED  BY <2>2, <2>3, <2>4 DEF MovesTo, WritePassword
<1>10. EndsSessions(op.upd, New(op))
  BY <1>2 DEF EndsSessions
<1>11. Stage("dropSessions", op, vs, ss, n)
  BY <1>2, <1>3, <1>6, <1>7, <1>10 DEF Stage, UpdateStage, Statements
<1>. QED  BY <1>9, <1>11 DEF Staged

\* store.go: the update's second statement drops the account's sessions.
LEMMA DropMoves ==
  ASSUME TxInv, NEW c \in Callers, NEW pc, NEW op, NEW us, NEW ss, NEW n,
         tx[c] = Tx(pc, op, us, ss, n), Stage(pc, op, us, ss, n), DropSessions(c)
  PROVE  \E t : Staged(t) /\ MovesTo(c, t)
<1>1. tx[c].pc = pc /\ tx[c].op = op /\ tx[c].users = us /\ tx[c].sessions = ss /\ tx[c].nextId = n
  BY TxFields
<1>2. /\ op \in Ops /\ op.kind = "update" /\ Allowed(op) /\ EndsSessions(op.upd, New(op))
      /\ us = [users EXCEPT ![op.id] = New(op)]
      /\ ss = sessions /\ n = nextId
  BY <1>1 DEF DropSessions, At, Stage, CreateStage, UpdateStage, DeleteStage
<1>3. PICK gone : gone = {t \in DOMAIN ss : ss[t].user = op.id /\ t # op.keep}
  OBVIOUS
<1>4. PICK rs : rs = Restrict(ss, DOMAIN ss \ gone)
  OBVIOUS
<1>5. gone = SessionsOf(op.id) \ {op.keep}
  BY <1>2, <1>3 DEF SessionsOf
<1>6. rs = SessionsWithout(SessionsOf(op.id) \ {op.keep})
  BY <1>2, <1>4, <1>5 DEF SessionsWithout
<1>7. MovesTo(c, Tx("commit", op, us, rs, n))
  <2>1. tx' = [tx EXCEPT ![c].sessions = rs, ![c].pc = "commit"]
    BY <1>1, <1>3, <1>4 DEF DropSessions
  <2>2. tx' = [tx EXCEPT ![c] = [tx[c] EXCEPT !.sessions = rs, !.pc = "commit"]]
    BY <2>1 DEF TxInv
  <2>3. [Tx(pc, op, us, ss, n) EXCEPT !.sessions = rs] = Tx(pc, op, us, rs, n)
    BY DEF Tx
  <2>4. [Tx(pc, op, us, rs, n) EXCEPT !.pc = "commit"] = Tx("commit", op, us, rs, n)
    BY DEF Tx
  <2>. QED  BY <2>2, <2>3, <2>4 DEF MovesTo, DropSessions
<1>8. Stage("commit", op, us, rs, n)
  BY <1>2, <1>6 DEF Stage, UpdateStage, Statements
<1>. QED  BY <1>7, <1>8 DEF Staged

\* Delete removes the row, and its sessions go with it.
LEMMA DeleteMoves ==
  ASSUME TxInv, NEW c \in Callers, NEW pc, NEW op, NEW us, NEW ss, NEW n,
         tx[c] = Tx(pc, op, us, ss, n), Stage(pc, op, us, ss, n), DeleteRow(c)
  PROVE  \E t : Staged(t) /\ MovesTo(c, t)
<1>1. tx[c].pc = pc /\ tx[c].op = op /\ tx[c].users = us /\ tx[c].sessions = ss /\ tx[c].nextId = n
  BY TxFields
<1>2. /\ op \in Ops /\ op.kind = "delete" /\ Spared(op) /\ us = users /\ ss = sessions /\ n = nextId
  BY <1>1 DEF DeleteRow, At, Stage, CreateStage, UpdateStage, DeleteStage, Untouched
<1>3. PICK gone : gone = {t \in DOMAIN ss : ss[t].user = op.id}
  OBVIOUS
<1>4. PICK rs : rs = Restrict(ss, DOMAIN ss \ gone)
  OBVIOUS
<1>5. PICK vs : vs = Restrict(us, DOMAIN us \ {op.id})
  OBVIOUS
<1>6. gone = SessionsOf(op.id)
  BY <1>2, <1>3 DEF SessionsOf
<1>7. rs = SessionsWithout(SessionsOf(op.id))
  BY <1>2, <1>4, <1>6 DEF SessionsWithout
<1>8. MovesTo(c, Tx("commit", op, vs, rs, n))
  <2>1. tx' = [tx EXCEPT ![c].users = vs, ![c].sessions = rs, ![c].pc = "commit"]
    BY <1>1, <1>3, <1>4, <1>5 DEF DeleteRow
  <2>2. tx' = [tx EXCEPT ![c] = [tx[c] EXCEPT !.users = vs, !.sessions = rs, !.pc = "commit"]]
    BY <2>1 DEF TxInv
  <2>3. [Tx(pc, op, us, ss, n) EXCEPT !.users = vs] = Tx(pc, op, vs, ss, n)
    BY DEF Tx
  <2>4. [Tx(pc, op, vs, ss, n) EXCEPT !.sessions = rs] = Tx(pc, op, vs, rs, n)
    BY DEF Tx
  <2>5. [Tx(pc, op, vs, rs, n) EXCEPT !.pc = "commit"] = Tx("commit", op, vs, rs, n)
    BY DEF Tx
  <2>6. [tx[c] EXCEPT !.users = vs, !.sessions = rs, !.pc = "commit"] = Tx("commit", op, vs, rs, n)
    BY <2>3, <2>4, <2>5
  <2>. QED  BY <2>2, <2>6 DEF MovesTo, DeleteRow
<1>9. Stage("commit", op, vs, rs, n)
  BY <1>2, <1>5, <1>7 DEF Stage, DeleteStage, Statements
<1>. QED  BY <1>8, <1>9 DEF Staged

------------------------------------------------------------------------------
\* The commit is the whole method, on the rows the transaction began with.
LEMMA CommitIsMethod ==
  ASSUME TxInv, NEW c \in Callers, NEW pc, NEW op, NEW us, NEW ss, NEW n,
         tx[c] = Tx(pc, op, us, ss, n), Stage(pc, op, us, ss, n), Commit(c)
  PROVE  StoreNext
<1>1. pc = "commit" /\ users' = us /\ sessions' = ss /\ nextId' = n /\ UNCHANGED <<nextToken, now>>
  BY TxFields DEF Commit, At
<1>2. op \in Ops
  BY DEF Stage
<1>3. CASE op.kind = "create"
  <2>1. /\ ~NameTaken(op.name) /\ nextId <= MaxUserId
        /\ us = [u \in DOMAIN users \cup {nextId} |->
                   IF u = nextId
                   THEN [name |-> op.name, password |-> op.password, role |-> op.role, active |-> 1]
                   ELSE users[u]]
        /\ ss = sessions /\ n = nextId + 1
    BY <1>1, <1>3 DEF Stage, CreateStage
  <2>2. PICK name \in ValidUsernames, password \in ValidPasswords, role \in Roles :
          name = op.name /\ password = op.password /\ role = op.role
    BY <1>2, <1>3, OpFields
  <2>3. Create(name, password, role)
    BY <1>1, <2>1, <2>2 DEF Create
  <2>. QED  BY <2>3, StoreAssumption DEF StoreNext
<1>4. CASE op.kind = "update"
  <2>1. /\ Allowed(op) /\ us = [users EXCEPT ![op.id] = New(op)]
        /\ ss = IF EndsSessions(op.upd, New(op)) THEN SessionsWithout(SessionsOf(op.id) \ {op.keep}) ELSE sessions
        /\ n = nextId
    BY <1>1, <1>4 DEF Stage, UpdateStage
  <2>2. PICK id \in UserIds, upd \in Updates, keep \in Tokens \cup {Nil} :
          id = op.id /\ upd = op.upd /\ keep = op.keep /\ ValidUpdate(upd)
    BY <1>2, <1>4, OpFields
  <2>3. Update(id, upd, keep)
    BY <1>1, <2>1, <2>2 DEF Update, Allowed, New
  <2>. QED  BY <2>3 DEF StoreNext
<1>5. CASE op.kind = "delete"
  <2>1. /\ Spared(op) /\ us = Restrict(users, DOMAIN users \ {op.id})
        /\ ss = SessionsWithout(SessionsOf(op.id)) /\ n = nextId
    BY <1>1, <1>5 DEF Stage, DeleteStage
  <2>2. PICK id \in UserIds : id = op.id
    BY <1>2, <1>5, OpFields
  <2>3. Delete(id)
    BY <1>1, <2>1, <2>2 DEF Delete, Spared
  <2>. QED  BY <2>3 DEF StoreNext
<1>. QED  BY <1>2, <1>3, <1>4, <1>5, OpFields

\* A transaction opens with untouched copies, when no other is open.
LEMMA BeginMoves ==
  ASSUME TxInv, NEW c \in Callers, NEW op \in Calls, Begin(c, op)
  PROVE  TxInv'
<1>1. PICK t : t = Tx(First(op), op, users, sessions, nextId)
  OBVIOUS
<1>2. ConnectionFree /\ tx' = [tx EXCEPT ![c] = t] /\ UNCHANGED storeVars
  BY <1>1 DEF Begin, OpenTx, Tx
<1>3. op \in Ops
  BY CallsAssumption
<1>4. Stage(First(op), op, users, sessions, nextId)'
  <2>1. op.kind \in {"create", "update", "delete"}
    BY <1>3, OpFields
  <2>2. Stage(First(op), op, users, sessions, nextId)
    BY <1>3, <2>1 DEF Stage, First, CreateStage, UpdateStage, DeleteStage, Untouched, Statements
  <2>. QED
    BY <1>2, <2>2 DEF Stage, CreateStage, UpdateStage, DeleteStage, Untouched, NameTaken, New, Allowed, Spared,
       SessionsWithout, SessionsOf, storeVars
<1>5. \A d \in Callers : tx'[d] = IF d = c THEN t ELSE tx[d]
  BY <1>2 DEF TxInv
<1>6. \A d \in Callers : tx[d] = NoTx
  BY <1>2, Opened, StagedPc DEF ConnectionFree, TxInv
<1>7. \A d \in Callers : (tx[d] = NoTx \/ Staged(tx[d]))'
  <2>1. tx'[c] = Tx(First(op), op, users', sessions', nextId')
    BY <1>1, <1>2, <1>5 DEF storeVars
  <2>2. Staged(tx[c])'
    BY <1>4, <2>1 DEF Staged
  <2>. QED  BY <1>5, <1>6, <2>2
<1>8. \A d, e \in Callers : tx'[d].pc # "idle" /\ tx'[e].pc # "idle" => d = e
  BY <1>5, <1>6 DEF NoTx
<1>9. tx' = [d \in Callers |-> tx'[d]]
  BY <1>2 DEF TxInv
<1>10. StoreInv'
  BY <1>2, StoreStepInv DEF TxInv
<1>. QED  BY <1>7, <1>8, <1>9, <1>10 DEF TxInv

\* Every step keeps the invariant and is a step of the store or none.
LEMMA TxStep ==
  ASSUME TxInv, [TxNext]_txVars
  PROVE  TxInv' /\ [StoreNext]_storeVars
<1>1. ASSUME NEW c \in Callers, Statement(c)
      PROVE  TxInv' /\ [StoreNext]_storeVars
  <2>1. tx[c].pc # "idle"
    BY <1>1 DEF Statement, CheckName, InsertRow, ReadRow, CheckAdmin, WriteRow, WritePassword, DropSessions, DeleteRow,
       Commit, Reject, Rejected, StatementFails, At, Statements
  <2>2. PICK pc, op, us, ss, n : tx[c] = Tx(pc, op, us, ss, n) /\ Stage(pc, op, us, ss, n)
    BY <2>1, Opened DEF Staged
  <2>3. CASE Commit(c)
    <3>1. StoreNext
      BY <2>2, <2>3, CommitIsMethod
    <3>2. StoreInv'
      BY <3>1, StoreStepInv DEF TxInv
    <3>3. \A d \in Callers : d # c => tx[d] = NoTx
      BY <2>1, Opened, StagedPc DEF TxInv
    <3>4. \A d \in Callers : tx'[d] = NoTx
      BY <2>3, <3>3 DEF Commit, TxInv
    <3>5. tx' = [d \in Callers |-> tx'[d]]
      BY <2>3 DEF Commit, TxInv
    <3>6. \A d, e \in Callers : tx'[d].pc # "idle" /\ tx'[e].pc # "idle" => d = e
      BY <3>4 DEF NoTx
    <3>. QED  BY <3>1, <3>2, <3>4, <3>5, <3>6 DEF TxInv
  <2>4. CASE \E t : Staged(t) /\ MovesTo(c, t)
    <3>1. PICK t : Staged(t) /\ MovesTo(c, t)
      BY <2>4
    <3>. QED  BY <2>1, <3>1, OneMoves DEF MovesTo
  <2>5. CASE Reject(c) \/ StatementFails(c)
    <3>1. MovesTo(c, NoTx)
      BY <2>5 DEF Reject, StatementFails, MovesTo
    <3>. QED  BY <3>1, OneMoves DEF MovesTo
  <2>6. CheckName(c) \/ InsertRow(c) => \E t : Staged(t) /\ MovesTo(c, t)
    BY <2>2, CreateMoves
  <2>7. ReadRow(c) \/ CheckAdmin(c) => \E t : Staged(t) /\ MovesTo(c, t)
    BY <2>2, ReadMoves
  <2>8. WriteRow(c) => \E t : Staged(t) /\ MovesTo(c, t)
    BY <2>2, WriteRowMoves
  <2>9. WritePassword(c) => \E t : Staged(t) /\ MovesTo(c, t)
    BY <2>2, PasswordMoves
  <2>10. DropSessions(c) => \E t : Staged(t) /\ MovesTo(c, t)
    BY <2>2, DropMoves
  <2>11. DeleteRow(c) => \E t : Staged(t) /\ MovesTo(c, t)
    BY <2>2, DeleteMoves
  <2>. QED  BY <1>1, <2>3, <2>4, <2>5, <2>6, <2>7, <2>8, <2>9, <2>10, <2>11 DEF Statement
<1>2. ASSUME NEW c \in Callers, NEW op \in Calls, Begin(c, op)
      PROVE  TxInv' /\ [StoreNext]_storeVars
  BY <1>2, BeginMoves DEF Begin
<1>3. ASSUME [StoreNext]_storeVars, UNCHANGED tx, ConnectionFree \/ UNCHANGED <<users, sessions, nextId>>
      PROVE  TxInv'
  <2>1. StoreInv'
    BY <1>3, StoreStepInv DEF TxInv
  <2>2. CASE ConnectionFree
    <3>1. \A d \in Callers : tx[d] = NoTx
      BY <2>2, Opened, StagedPc DEF ConnectionFree, TxInv
    <3>. QED  BY <1>3, <2>1, <3>1 DEF TxInv
  <2>3. CASE UNCHANGED <<users, sessions, nextId>>
    <3>1. \A pc, op, us, ss, n : Stage(pc, op, us, ss, n) => Stage(pc, op, us, ss, n)'
      BY <2>3 DEF Stage, CreateStage, UpdateStage, DeleteStage, Untouched, NameTaken, New, Allowed, Spared,
         SessionsWithout, SessionsOf
    <3>2. \A d \in Callers : (tx[d] = NoTx \/ Staged(tx[d]))'
      BY <1>3, <3>1 DEF TxInv, Staged
    <3>. QED  BY <1>3, <2>1, <3>2 DEF TxInv
  <2>. QED  BY <1>3, <2>2, <2>3
<1>4. CASE SessionStatement
  <2>1. StoreNext
    BY <1>4 DEF SessionStatement, StoreNext
  <2>. QED  BY <1>3, <1>4, <2>1 DEF SessionStatement
<1>5. CASE TxTimePasses
  <2>1. StoreNext
    BY <1>5 DEF TxTimePasses, StoreNext
  <2>. QED  BY <1>3, <1>5, <2>1 DEF TxTimePasses, Tick
<1>6. CASE Crash
  <2>1. StoreInv'
    BY <1>6, StoreStepInv DEF Crash, TxInv
  <2>2. \A d \in Callers : tx'[d] = NoTx
    BY <1>6 DEF Crash
  <2>3. \A d, e \in Callers : tx'[d].pc # "idle" /\ tx'[e].pc # "idle" => d = e
    BY <2>2 DEF NoTx
  <2>4. tx' = [d \in Callers |-> tx'[d]]
    BY <1>6 DEF Crash
  <2>. QED  BY <1>6, <2>1, <2>2, <2>3, <2>4 DEF TxInv, Crash
<1>7. CASE UNCHANGED txVars
  BY <1>3, <1>7 DEF txVars, storeVars
<1>. QED  BY <1>1, <1>2, <1>4, <1>5, <1>6, <1>7 DEF TxNext

\* The invariant holds, and the statements implement the methods: what a
\* caller sees committed is one whole method or nothing, whatever fails,
\* crashes or waits for the connection on the way (store.go:83, 124-250).
THEOREM TransactionsImplementStore == TxSpec => ImplementsUserStore
<1>1. TxInit => StoreInit
  BY DEF TxInit
<1>2. TxInit => TxInv
  <2>. SUFFICES ASSUME TxInit PROVE TxInv
    OBVIOUS
  <2>1. StoreInv
    BY StoreInitInv DEF TxInit
  <2>2. \A c \in Callers : tx[c] = NoTx
    BY DEF TxInit
  <2>. QED  BY <2>1, <2>2 DEF TxInit, TxInv, NoTx
<1>3. TxInv /\ [TxNext]_txVars => TxInv'
  BY TxStep
<1>4. TxInv /\ [TxNext]_txVars => [StoreNext]_storeVars
  BY TxStep
<1>. QED  BY <1>1, <1>2, <1>3, <1>4, PTL DEF TxSpec, ImplementsUserStore, StoreSpec

\* What holds of the atomic store holds between any two statements: an active
\* admin, no orphaned session, no double name.
THEOREM StoreSoundUnderTransactions == TxSpec => []StoreInv
BY TransactionsImplementStore, StoreInvariant, PTL DEF ImplementsUserStore

==============================================================================
