--------------------------- MODULE CollectionLoop ---------------------------
(***************************************************************************)
(* The loop of internal/app/app.go and everything a tick goes through:     *)
(* collect a snapshot, hand it to MultiStore (a goroutine for the memory   *)
(* window, and one for InfluxDB if that is used), note the uptime (a step  *)
(* of UptimeLog's, nothing here), evaluate the alarms, sleep a second.     *)
(* Goroutines take as long as they take; a write to InfluxDB has no        *)
(* deadline of its own (context.Background()) and may never end.  The      *)
(* process may restart at any moment.  The window is MetricWindow's and    *)
(* the alarms are Alarms'; requests read both at any moment and change     *)
(* neither, so they are not actions.                                       *)
(***************************************************************************)
EXTENDS Naturals, Sequences, SequencesExt, FiniteSets

CONSTANTS
    Window,     \* snapshots the window keeps, 300 in the code
    Gauges,     \* what a snapshot measures
    Shots,      \* the snapshots there are: functions from the gauges present to their levels
    CritOnly,   \* those without a warn threshold
    MaxTicks,   \* bound: snapshots collected
    MaxStarts   \* bound: restarts

ASSUME LoopAssumption ==
    /\ Window \in Nat \ {0} /\ MaxTicks \in Nat /\ MaxStarts \in Nat
    /\ CritOnly \subseteq Gauges
    /\ \A s \in Shots : s \in [DOMAIN s -> {"ok", "warn", "crit"}] /\ DOMAIN s \subseteq Gauges

VARIABLES
    useInflux,  \* cfg.UseInflux
    loopPc,     \* what the loop does next
    taken,      \* the snapshots collected: taken[k] is the k-th
    tick, saving, window,                            \* MetricWindow
    evaluated, snapshot, alarmPc, active, last, onset,   \* Alarms
    sending,    \* snapshots being written to InfluxDB
    starts,     \* restarts so far
    since,      \* history: the last snapshot before this process
    stalled     \* history: a goroutine of Save outlived a whole tick

memVars == <<tick, saving, window>>
alarmVars == <<evaluated, snapshot, alarmPc, active, last, onset>>
lifeVars == <<useInflux, starts, since>>
loopVars == <<loopPc, taken, memVars, alarmVars, sending, lifeVars, stalled>>

------------------------------------------------------------------------------
NoReader == [r \in {} |-> <<>>]

Mem == INSTANCE MetricWindow WITH Readers <- {}, view <- NoReader

Alarm == INSTANCE Alarms WITH
    Others <- {}, MaxTick <- MaxTicks

LoopInit ==
    /\ useInflux \in BOOLEAN
    /\ loopPc = "collect" /\ taken = <<>>
    /\ tick = 0 /\ saving = {} /\ window = <<>>
    /\ Alarm!AlarmInit
    /\ sending = {}
    /\ starts = 0 /\ since = 0 /\ stalled = FALSE

------------------------------------------------------------------------------
(* the loop *)

\* sysCollector.Collect and procCollector.Top.
Collect ==
    /\ loopPc = "collect" /\ Len(taken) < MaxTicks
    /\ \E s \in Shots : taken' = Append(taken, s)
    /\ loopPc' = "save"
    /\ UNCHANGED <<memVars, alarmVars, sending, lifeVars, stalled>>

\* Slip: the stores are called in turn instead of each in a goroutine.
SpawnSaves_InTurn ==
    /\ loopPc = "save" /\ sending = {}
    /\ tick' = Len(taken) /\ saving' = saving \cup {Len(taken)}
    /\ sending' = IF useInflux THEN sending \cup {Len(taken)} ELSE sending
    /\ stalled' = (stalled \/ saving # {})
    /\ loopPc' = "evaluate"
    /\ UNCHANGED <<taken, window, alarmVars, lifeVars>>

\* MultiStore.Save: one goroutine for each store.
SpawnSaves ==
    /\ loopPc = "save"
    /\ tick' = Len(taken) /\ saving' = saving \cup {Len(taken)}
    /\ sending' = IF useInflux THEN sending \cup {Len(taken)} ELSE sending
    /\ stalled' = (stalled \/ saving # {})
    /\ loopPc' = "evaluate"
    /\ UNCHANGED <<taken, window, alarmVars, lifeVars>>

\* alarmEval.Evaluate on the loop's own copy of the snapshot.
Evaluate ==
    /\ loopPc = "evaluate"
    /\ snapshot' = taken[Len(taken)]
    /\ Alarm!Evaluate
    /\ loopPc' = "publish"
    /\ UNCHANGED <<taken, memVars, sending, lifeVars, stalled>>

Publish ==
    /\ loopPc = "publish"
    /\ Alarm!Publish
    /\ loopPc' = "sleep"
    /\ UNCHANGED <<taken, memVars, sending, lifeVars, stalled>>

Sleep ==
    /\ loopPc = "sleep"
    /\ loopPc' = "collect"
    /\ UNCHANGED <<taken, memVars, alarmVars, sending, lifeVars, stalled>>

LoopStep == Collect \/ SpawnSaves \/ Evaluate \/ Publish \/ Sleep

------------------------------------------------------------------------------
(* the goroutines *)

SaveRuns(p) ==
    /\ p \in saving
    /\ window' = Mem!Kept(Append(window, p))
    /\ saving' = saving \ {p}
    /\ UNCHANGED <<loopPc, taken, tick, alarmVars, sending, lifeVars, stalled>>

\* The point is written or lost: the goroutine's error goes nowhere.
InfluxAnswers(p) ==
    /\ p \in sending
    /\ sending' = sending \ {p}
    /\ UNCHANGED <<loopPc, taken, memVars, alarmVars, lifeVars, stalled>>

\* The process is replaced: what was in memory is gone, goroutines and all.
RestartLoop ==
    /\ starts < MaxStarts
    /\ starts' = starts + 1 /\ since' = Len(taken)
    /\ loopPc' = "collect"
    /\ tick' = Len(taken) /\ saving' = {} /\ window' = <<>>
    /\ evaluated' = Len(taken) /\ snapshot' = Alarm!NoAlarm /\ alarmPc' = "idle"
    /\ active' = Alarm!NoAlarm /\ last' = {} /\ onset' = Alarm!NoAlarm
    /\ sending' = {} /\ stalled' = FALSE
    /\ UNCHANGED <<useInflux, taken>>

LoopNext ==
    \/ LoopStep
    \/ \E p \in saving : SaveRuns(p)
    \/ \E p \in sending : InfluxAnswers(p)
    \/ RestartLoop

\* The loop never waits for anyone; of the goroutines that wait for the window's
\* lock, which is held for moments, one runs.  Nothing is assumed of InfluxDB.
LoopSpec ==
    /\ LoopInit /\ [][LoopNext]_loopVars
    /\ WF_loopVars(LoopStep)
    /\ WF_loopVars(\E p \in saving : SaveRuns(p))

------------------------------------------------------------------------------
LoopTypeOK ==
    /\ loopPc \in {"collect", "save", "evaluate", "publish", "sleep"}
    /\ taken \in Seq(Shots) /\ Len(taken) <= MaxTicks
    /\ tick \in 0..Len(taken) /\ evaluated \in 0..Len(taken)
    /\ saving \subseteq 1..tick /\ sending \subseteq 1..tick
    /\ window \in Seq(1..MaxTicks) /\ Len(window) <= Window
    /\ starts \in 0..MaxStarts

\* What the alarm page says and what the charts show agree: each snapshot a
\* request can still see from an alarm's Since on, up to the snapshot the alarms
\* were last worked out for, has that gauge over its threshold, however late or
\* out of order the snapshots reached the window.
AlarmsAgreeWithWindow ==
    \A a \in last : \A i \in DOMAIN window :
       LET p == window[i]
       IN  a.since <= p /\ p <= evaluated /\ alarmPc = "idle" => a.id \in Alarm!Firing(taken[p])

\* One tick in step: stats are at most one snapshot ahead of the alarms; while no
\* goroutine has outlived a tick the window is the newest snapshots of this
\* process, in order and without a gap, and lacks at most the one being saved;
\* and a snapshot is never in it twice or from another process.
StatsInStep ==
    /\ LoopTypeOK
    /\ \A i \in DOMAIN window : window[i] <= evaluated + 1 /\ window[i] > since
    /\ \A i, j \in DOMAIN window : window[i] = window[j] => i = j
    /\ ~stalled =>
          /\ \A i \in 2..Len(window) : window[i] = window[i - 1] + 1
          /\ window # <<>> => Last(window) >= tick - 1
          /\ window = <<>> => tick - since <= 1

\* Whatever InfluxDB does, and if it never answers again, the loop goes on to the
\* last snapshot, every one is evaluated and every save runs.
CollectionGoesOn == <>[](evaluated = MaxTicks /\ saving = {})

==============================================================================
