----------------------------- MODULE UptimeLog -----------------------------
(***************************************************************************)
(* The reboot history of internal/uptime/log.go.  Once a tick the collector*)
(* takes the time, collects everything else, and then calls Observe with   *)
(* that time and ReadBootTime's answer, which subtracts an uptime read     *)
(* later than the time was taken.  Observe changes the sessions and        *)
(* rewrites the file, holding the lock all along.  The process and the     *)
(* host restart at any moment.  Time is in units of 1/Rate seconds.        *)
(***************************************************************************)
EXTENDS Integers, Sequences, SequencesExt

CONSTANTS
    Rate,              \* units in a second
    MaxSessions,       \* maxSessions, 200 in the code
    Delays,            \* units from time.Now() in app.go to the read of /proc/uptime
    UptimeUnreadable,  \* whether /proc/uptime may be unreadable
    DiskFaults,        \* what may go wrong with the file: "create", "short"
    UpMaxTime          \* bound on the clock

ASSUME UptimeAssumption ==
    /\ Rate \in Nat \ {0} /\ MaxSessions \in Nat \ {0}
    /\ UpMaxTime \in Nat /\ UpMaxTime >= 2 * Rate
    /\ Delays \subseteq Nat /\ UptimeUnreadable \in BOOLEAN
    /\ DiskFaults \subseteq {"create", "short"}

VARIABLES
    now,       \* the wall clock
    boot,      \* when the host booted
    upPc,      \* "idle", or "persist" while Observe holds the lock
    wake,      \* when the collector's sleep ends
    sessions,  \* l.sessions: [start, end], start in seconds, end in units or Open
    lastBoot,  \* l.lastBootTime
    file,      \* the sessions in uptime_sessions.jsonl
    measured,  \* history: the boot time the last Observe that returned had read
    recorded   \* history: the boot the newest session was recorded in

upVars == <<now, boot, upPc, wake, sessions, lastBoot, file, measured, recorded>>

------------------------------------------------------------------------------
Open == -1     \* End == nil
NoBoot == -1   \* the zero time

Round(t) == (2 * t + Rate) \div (2 * Rate)

\* What ReadBootTime answers, d after now was taken.
BootTimes(d) == {boot - d} \cup (IF UptimeUnreadable THEN {now} ELSE {})

NewSession(b) == [start |-> b, end |-> Open]

Close_Again(ss) == [i \in DOMAIN ss |-> [ss[i] EXCEPT !.end = now]]    \* Slip

Close_First(ss) == [ss EXCEPT ![1].end = now]    \* Slip

Close(ss) == [ss EXCEPT ![Len(ss)].end = now]

Capped(ss) == IF Len(ss) > MaxSessions THEN SubSeq(ss, Len(ss) - MaxSessions + 1, Len(ss)) ELSE ss

LastStart(ss) == IF ss = <<>> THEN NoBoot ELSE Last(ss).start

UpInit ==
    /\ boot \in Rate..(2 * Rate - 1) /\ now = 2 * Rate
    /\ upPc = "idle" /\ wake = now
    /\ sessions = <<>> /\ lastBoot = NoBoot /\ file = <<>>
    /\ measured = NoBoot /\ recorded = NoBoot

------------------------------------------------------------------------------
\* Observe's first branch: nothing is known yet.
FirstSession(b) ==
    /\ sessions = <<>>
    /\ sessions' = <<NewSession(b)>>
    /\ lastBoot' = b
    /\ upPc' = "persist"
    /\ UNCHANGED <<now, boot, file, measured, recorded>>

SameSession(b) ==
    /\ sessions # <<>> /\ b = lastBoot
    /\ measured' = b
    /\ UNCHANGED <<now, boot, upPc, sessions, lastBoot, file, recorded>>

BootChanged(b) ==
    /\ sessions # <<>> /\ b # lastBoot
    /\ sessions' = Capped(Append(Close(sessions), NewSession(b)))
    /\ lastBoot' = b
    /\ upPc' = "persist"
    /\ UNCHANGED <<now, boot, file, measured, recorded>>

Observe ==
    /\ upPc = "idle" /\ wake <= now
    /\ \E d \in Delays :
         /\ wake' = now + d + Rate
         /\ \E t \in BootTimes(d) : FirstSession(Round(t)) \/ SameSession(Round(t)) \/ BootChanged(Round(t))

\* What the rewrite leaves in the file: all, what was there, or the first lines
\* (persist renames whatever it managed to write).
Rewritten ==
    {sessions}
    \cup (IF "create" \in DiskFaults THEN {file} ELSE {})
    \cup (IF "short" \in DiskFaults THEN {SubSeq(sessions, 1, n) : n \in 0..Len(sessions)} ELSE {})

Persist ==
    /\ upPc = "persist"
    /\ file' \in Rewritten
    /\ measured' = lastBoot /\ recorded' = boot
    /\ upPc' = "idle"
    /\ UNCHANGED <<now, boot, wake, sessions, lastBoot>>

\* NewLog, a moment after the process died with or without the host.
Load ==
    /\ sessions' = file
    /\ lastBoot' = LastStart(file)
    /\ upPc' = "idle" /\ wake' = now'
    /\ UNCHANGED <<file, measured, recorded>>

ProcessRestart ==
    /\ now < UpMaxTime
    /\ now' = now + 1
    /\ Load
    /\ UNCHANGED boot

HostReboot ==
    /\ now < UpMaxTime
    /\ now' = now + 1 /\ boot' = now + 1
    /\ Load

\* The loop sleeps a second between two calls; the clock moves within them too.
TimePasses ==
    /\ now < UpMaxTime
    /\ now' = now + 1
    /\ UNCHANGED <<boot, upPc, wake, sessions, lastBoot, file, measured, recorded>>

UpNext == Observe \/ Persist \/ ProcessRestart \/ HostReboot \/ TimePasses

UpSpec == UpInit /\ [][UpNext]_upVars

------------------------------------------------------------------------------
SessionRows == [start : Int, end : Int]

UpTypeOK ==
    /\ now \in 0..UpMaxTime /\ boot \in 0..now
    /\ upPc \in {"idle", "persist"}
    /\ sessions \in Seq(SessionRows) /\ Len(sessions) <= MaxSessions
    /\ file \in Seq(SessionRows)
    /\ wake \in Nat /\ lastBoot \in Int /\ measured \in Int

\* No write fails half way.  (persist renames a shorter file over the log as it
\* is, and a restart then takes what is left for all there was.)
WholeWrites == "short" \notin DiskFaults

\* Exactly the newest session is in progress, in memory and in the file, and it
\* is the one lastBootTime belongs to: closing the wrong session, or none,
\* would lose a reboot for good.
OnlyNewestOngoing ==
    /\ UpTypeOK /\ lastBoot = LastStart(sessions)
    /\ WholeWrites =>
         \A ss \in {sessions, file} : \A i \in DOMAIN ss : (ss[i].end = Open) <=> (i = Len(ss))

\* What a request could read when the lock was free (or, with a faulty disk,
\* what was in the file) stays, a closed session with the same end, restarts or
\* not, until MaxSessions newer ones push it out.
Kept == IF upPc = "idle" /\ DiskFaults = {} THEN sessions ELSE file
Holds(ss, s) == \E j \in DOMAIN ss : ss[j] = s
HistoryIsKept ==
    [][WholeWrites =>
        \A i \in DOMAIN Kept :
          Kept[i].end # Open =>
             \/ Holds(Kept', Kept[i])
             \/ Len(Kept') = MaxSessions /\ \A j \in 1..i : ~Holds(Kept', Kept[j])]_upVars

Recorded == upPc = "persist" /\ upPc' = "idle" /\ sessions' = sessions /\ measured' = lastBoot

\* log.go:32-33 "a new session means the host actually rebooted": each session
\* is recorded in a boot of its own.
NewSessionMeansReboot == [][Recorded => boot # recorded]_upVars

==============================================================================
