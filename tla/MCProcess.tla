----------------------------- MODULE MCProcess -----------------------------
(***************************************************************************)
(* The life of the process (cmd/server, internal/app): how it comes up     *)
(* from its settings, the loop it then runs, and the transactions of the   *)
(* account store that its handlers compete for.  The loop reads of the     *)
(* settings only whether InfluxDB is used, which it has both ways, and the *)
(* accounts of the settings are a set (UserStore has what becomes of       *)
(* them), so the three are checked side by side: part picks the one that   *)
(* moves, and the others rest in their initial states.                     *)
(*                                                                         *)
(* Settings: every mix of AUTH_MODE, AUTH_ENABLED and credentials, over    *)
(* four config.json; and some that move the data or choose what to watch.  *)
(* Loop: one gauge, over its threshold or missing; a window of two         *)
(* snapshots out of four, so that it is full and late saves come into it.  *)
(* Transactions: two goroutines competing for the connection over two      *)
(* accounts, so that every method runs against every state the other may   *)
(* leave, with a failure or a crash at every statement.  Two sessions tell *)
(* keeping one from dropping none.  MCCalls leaves out calls that differ   *)
(* from another only in a value nothing depends on: no update promotes, or *)
(* sets the first password again.                                          *)
(***************************************************************************)
EXTENDS Settings, CollectionLoop, UserStoreTx, TLC

VARIABLE part

vars == <<part, settingsVars, loopVars, txVars>>

Unset == [k \in {} |-> ""]
Credentials(password) == "AUTH_USER" :> "root" @@ "AUTH_PASSWORD" :> password
Session == "AUTH_MODE" :> " Session" @@ Credentials("long enough")

AuthEnvs ==
    {mode @@ enabled @@ credentials :
        mode \in {Unset} \cup {"AUTH_MODE" :> m : m \in {"", "none", "basic", " Session", "ldap"}},
        enabled \in {Unset} \cup {"AUTH_ENABLED" :> b : b \in {"true", "yes"}},
        credentials \in {Unset, Credentials("short"), Credentials("long enough")}}

OtherEnvs ==
    {"DATA_DIR" :> "" @@ Session,
     "DATA_DIR" :> "/data" @@ Session,
     "CONN_WATCH_ENABLED" :> "true" @@ "CONN_WATCH_AUTO" :> "false" @@ "CONN_WATCH_PORTS" :> "",
     "CONN_WATCH_ENABLED" :> "true" @@ "CONN_WATCH_AUTO" :> "false" @@ "CONN_WATCH_PORTS" :> "8080"}

MCEnvs == AuthEnvs \cup OtherEnvs
MCFiles == {Broken, Unset, "AUTH_ENABLED" :> "true" @@ "USE_INFLUX" :> "true",
            "AUTH_MODE" :> "session" @@ "CONN_WATCH_PORTS" :> "8080"}
MCMounts == {{}, {"/hostproc", "/hostfs"}}
MCAccounts == {Account(user, "long enough") : user \in {"root", "eve"}}

MCShots == {[g \in {} |-> "ok"], [g \in {"cpu"} |-> "crit"]}

MCUsernames == {"root", "ana"}
MCPasswords == {"pw1", "pw2"}
MCCallers == {"c1", "c2"}

MCCalls ==
    [kind: {"create"}, name: MCUsernames, password: {"pw1"}, role: Roles]
    \cup [kind: {"update"}, id: UserIds, keep: {1, Nil},
          upd: [role: {"viewer", Nil}, active: {0, 1, Nil}, password: {"pw2", Nil}]]
    \cup [kind: {"delete"}, id: UserIds]

------------------------------------------------------------------------------
ProcessInit ==
    /\ part \in {"settings", "loop", "tx"}
    /\ SettingsInit /\ LoopInit /\ TxInit
    /\ part # "settings" => env = Unset /\ file = Unset /\ mounted = {}
    /\ useInflux => part = "loop"

LoopMoves(A) == part = "loop" /\ A /\ UNCHANGED <<part, settingsVars, txVars>>

TxMoves(A) == part = "tx" /\ A /\ UNCHANGED <<part, settingsVars, loopVars>>

ProcessNext ==
    \/ part = "settings" /\ SettingsNext /\ UNCHANGED <<part, loopVars, txVars>>
    \/ LoopMoves(LoopNext)
    \/ LoopMoves(loopPc = "collect" /\ Len(taken) = MaxTicks /\ UNCHANGED loopVars)    \* the bound
    \/ TxMoves(TxNext)

\* The fairness of LoopSpec and TxSpec.
ProcessSpec ==
    /\ ProcessInit /\ [][ProcessNext]_vars
    /\ WF_vars(LoopMoves(LoopStep))
    /\ WF_vars(LoopMoves(\E p \in saving : SaveRuns(p)))
    /\ \A c \in Callers : WF_vars(TxMoves(Statement(c)))

------------------------------------------------------------------------------
\* app.go:61-72, influx.go:21-41: a store that never answers stops nothing.  Once
\* the bounds on snapshots and restarts are used up, the loop has gone through all
\* of them and no save is left over.
LoopGoesOn == part = "loop" => CollectionGoesOn

==============================================================================
