------------------------------- MODULE Alarms -------------------------------
(***************************************************************************)
(* The alarm evaluator of internal/alarm/alarm.go.  Each tick Evaluate     *)
(* works through a snapshot, carrying the alarms that are still firing over*)
(* from the tick before, and swaps the published list under the lock.      *)
(* Latest copies the list at any moment and changes nothing.  Disks and    *)
(* sensors come and go between snapshots.                                  *)
(***************************************************************************)
EXTENDS Naturals, FiniteSets

CONSTANTS
    Gauges,    \* what a snapshot measures: CPU, RAM, each mount, disk, zone
    CritOnly,  \* those with no warn threshold (RAM, iowait, disk latency)
    Others,    \* temperature zones that are not the primary CPU's
    MaxTick    \* bound: ticks

ASSUME AlarmAssumption == CritOnly \subseteq Gauges /\ Others \subseteq Gauges /\ MaxTick \in Nat

VARIABLES
    evaluated, \* m.Time of the newest snapshot
    snapshot,  \* gauge -> its level in that snapshot; absent gauges are not in it
    alarmPc,   \* "idle", or "publish": next is computed, e.last not yet
    active,    \* e.active
    last,      \* e.last, as a set: its order is the map's
    onset      \* history: gauge -> first tick of its present run of alarms

alarmVars == <<evaluated, snapshot, alarmPc, active, last, onset>>

------------------------------------------------------------------------------
Levels == {"ok", "warn", "crit"}    \* a value against its two thresholds

\* The severity raised for a gauge, if any.
Severity(g, level) ==
    IF g \in Others \/ level = "ok" \/ (level = "warn" /\ g \in CritOnly) THEN {} ELSE {level}

Firing(s) == {g \in DOMAIN s : Severity(g, s[g]) # {}}

NoAlarm == [g \in {} |-> 0]

\* Slip: an alarm that changes its severity counts as a new one.
Raised_NewWhenWorse(s, old, now) ==
    [g \in Firing(s) |->
       [severity |-> CHOOSE x \in Severity(g, s[g]) : TRUE,
        since |-> IF g \in DOMAIN old /\ old[g].severity = s[g] THEN old[g].since ELSE now]]

\* Slip: what stopped firing stays in the map of active alarms.
Raised_KeepsOld(s, old, now) ==
    [g \in Firing(s) \cup DOMAIN old |->
       IF g \notin Firing(s) THEN old[g]
       ELSE [severity |-> CHOOSE x \in Severity(g, s[g]) : TRUE,
             since |-> IF g \in DOMAIN old THEN old[g].since ELSE now]]

\* raise for every gauge over a threshold: Since is carried over, severity is not.
Raised(s, old, now) ==
    [g \in Firing(s) |->
       [severity |-> CHOOSE x \in Severity(g, s[g]) : TRUE,
        since |-> IF g \in DOMAIN old THEN old[g].since ELSE now]]

AsList(alarms) == {[id |-> g, severity |-> alarms[g].severity, since |-> alarms[g].since] : g \in DOMAIN alarms}

AlarmInit ==
    /\ evaluated = 0 /\ snapshot = NoAlarm
    /\ alarmPc = "idle"
    /\ active = NoAlarm /\ last = {}
    /\ onset = NoAlarm

------------------------------------------------------------------------------
\* Evaluate on the next snapshot, up to e.active = next.
Evaluate ==
    /\ alarmPc = "idle" /\ evaluated < MaxTick
    /\ evaluated' = evaluated + 1
    /\ \E present \in SUBSET Gauges : \E s \in [present -> Levels] :
         /\ snapshot' = s
         /\ active' = Raised(s, active, evaluated + 1)
         /\ onset' = [g \in Firing(s) |-> IF g \in Firing(snapshot) THEN onset[g] ELSE evaluated + 1]
    /\ alarmPc' = "publish"
    /\ UNCHANGED last

\* e.last = out, under the lock.
Publish ==
    /\ alarmPc = "publish"
    /\ last' = AsList(active)
    /\ alarmPc' = "idle"
    /\ UNCHANGED <<evaluated, snapshot, active, onset>>

AlarmNext == Evaluate \/ Publish

AlarmSpec == AlarmInit /\ [][AlarmNext]_alarmVars

------------------------------------------------------------------------------
AlarmRows == [id : Gauges, severity : {"warn", "crit"}, since : 1..MaxTick]

AlarmTypeOK ==
    /\ evaluated \in 0..MaxTick /\ alarmPc \in {"idle", "publish"}
    /\ DOMAIN active \subseteq Gauges
    /\ last \subseteq AlarmRows

\* Once Evaluate is over the list has one alarm for each gauge of the snapshot
\* over a threshold, with that snapshot's severity, and no other.
ListMatchesSnapshot ==
    alarmPc = "idle" =>
        /\ {a.id : a \in last} = Firing(snapshot)
        /\ \A a \in last : snapshot[a.id] = a.severity /\ a.id \notin Others
        /\ \A g \in DOMAIN snapshot \ Others :
              snapshot[g] = "crit" \/ (snapshot[g] = "warn" /\ g \notin CritOnly) => g \in Firing(snapshot)

\* alarm.go:42-43 "keeps track of how long each active alarm has been firing":
\* Since is the first tick of the run of snapshots that raised the alarm without
\* a break, through changes of severity, and starts anew after a break.
SinceIsOnset ==
    /\ AlarmTypeOK /\ ListMatchesSnapshot
    /\ alarmPc = "idle" => \A a \in last : a.id \in DOMAIN onset /\ a.since = onset[a.id]

==============================================================================
