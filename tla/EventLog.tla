------------------------------ MODULE EventLog ------------------------------
(***************************************************************************)
(* The capped event log of internal/security/eventlog.go, which the SSH    *)
(* and the connection watcher each own one of: an in-memory list, and a    *)
(* file rewritten whole through a temporary file at every append.  None of *)
(* the writer's errors is looked at: a full disk shortens the temporary    *)
(* file and the rename goes ahead.  The process may die between any two    *)
(* system calls and loads the file when it starts again.                   *)
(*                                                                         *)
(* Events are numbered in the order they happen; a line cut short does not *)
(* parse and load skips it, so what a short write leaves is a prefix.      *)
(***************************************************************************)
EXTENDS Naturals, Sequences, SequencesExt

CONSTANTS
    Cap,          \* 500 in both watchers
    MaxEvents     \* bound of the model

ASSUME EventLogAssumption == Cap \in Nat \ {0} /\ MaxEvents \in Nat

VARIABLES
    events,   \* l.events
    disk,     \* the events in the file
    tmp,      \* the events in the temporary file
    logPc,    \* where Append, holding the mutex, has got to
    next,     \* the next event
    whole     \* history: the last rewrite, if finished, wrote everything

logVars == <<events, disk, tmp, logPc, next, whole>>

------------------------------------------------------------------------------
LastOf(s, n) == SubSeq(s, Len(s) - n + 1, Len(s))

Capped(s) == IF Len(s) > Cap THEN LastOf(s, Cap) ELSE s

LogInit ==
    /\ events = <<>> /\ disk = <<>> /\ tmp = <<>>
    /\ logPc = "unlocked"
    /\ next = 1
    /\ whole = TRUE

AppendEvent(e) ==
    /\ logPc = "unlocked"
    /\ events' = Capped(Append(events, e))
    /\ next' = e + 1
    /\ logPc' = "create"
    /\ UNCHANGED <<disk, tmp, whole>>

CreateTmp ==
    /\ logPc = "create"
    /\ tmp' = <<>> /\ logPc' = "write"
    /\ UNCHANGED <<events, disk, next, whole>>

\* os.Create or os.Rename fails: the file keeps its old contents.
KeepOldFile ==
    /\ logPc \in {"create", "rename"}
    /\ logPc' = "unlocked" /\ whole' = FALSE
    /\ UNCHANGED <<events, disk, tmp, next>>

WriteTmp ==
    /\ logPc = "write"
    /\ tmp' = events
    /\ logPc' = "rename"
    /\ UNCHANGED <<events, disk, next, whole>>

\* Writes and Flush report an error to nobody.
WriteTmpShort ==
    /\ logPc = "write"
    /\ \E n \in 0..(Len(events) - 1) : tmp' = SubSeq(events, 1, n)
    /\ logPc' = "rename"
    /\ UNCHANGED <<events, disk, next, whole>>

Rename ==
    /\ logPc = "rename"
    /\ disk' = tmp
    /\ whole' = (tmp = events)
    /\ logPc' = "unlocked"
    /\ UNCHANGED <<events, tmp, next>>

\* Slip: a restarted log also reads what the temporary file holds.
RestartLog_ReadsTmp ==
    /\ events' = disk \o tmp /\ logPc' = "unlocked"
    /\ UNCHANGED <<disk, tmp, next, whole>>

\* The process dies and starts again: NewEventLog loads the file.
RestartLog ==
    /\ events' = disk /\ logPc' = "unlocked"
    /\ UNCHANGED <<disk, tmp, next, whole>>

LogNext ==
    \/ next <= MaxEvents /\ AppendEvent(next)
    \/ CreateTmp \/ KeepOldFile \/ WriteTmp \/ WriteTmpShort \/ Rename
    \/ RestartLog

LogSpec == LogInit /\ [][LogNext]_logVars

------------------------------------------------------------------------------
Increasing(s) == \A i \in 1..(Len(s) - 1) : s[i] < s[i + 1]

LogTypeOK ==
    /\ events \in Seq(1..MaxEvents) /\ disk \in Seq(1..MaxEvents) /\ tmp \in Seq(1..MaxEvents)
    /\ logPc \in {"unlocked", "create", "write", "rename"}
    /\ next \in 1..(MaxEvents + 1) /\ whole \in BOOLEAN

\* However often the process died and whatever the disk did, the log and its
\* file hold at most Cap events, none twice, in the order they happened.
Chronological ==
    /\ Increasing(events) /\ Increasing(disk)
    /\ Len(events) <= Cap /\ Len(disk) <= Cap

\* A death at any point loses at most the event being appended, as long as the
\* last finished rewrite did not fail: the file is the log before or after that
\* append, never a mixture.
FileIsRecent ==
    /\ LogTypeOK /\ Chronological
    /\ whole => \/ events = disk
                \/ logPc # "unlocked" /\ events = Capped(Append(disk, next - 1))

\* eventlog.go:16-19: rewriting the file is how the log "survives process
\* restarts": a rewrite drops nothing from the file that the log still has.
DurableStaysDurable ==
    [][\A e \in ToSet(disk) : e \in ToSet(events') => e \in ToSet(disk')]_logVars

==============================================================================
