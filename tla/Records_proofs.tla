--------------------------- MODULE Records_proofs ---------------------------
(***************************************************************************)
(* What is kept of the snapshots: the alarms, the uptime log and the       *)
(* in-memory window, for any set of gauges, any cap and delay, and any     *)
(* window and number of readers.                                           *)
(***************************************************************************)
EXTENDS Alarms, UptimeLog, MetricStore, TLAPS, FiniteSetTheorems, SequenceTheorems

------------------------------------------------------------------------------
(* Alarms *)

\* The map of active alarms has one entry for each gauge of the newest snapshot over
\* a threshold, and outside a publication the list is that map.
AlarmInv ==
    /\ AlarmTypeOK
    /\ DOMAIN snapshot \subseteq Gauges /\ \A g \in DOMAIN snapshot : snapshot[g] \in Levels
    /\ DOMAIN active = Firing(snapshot) /\ DOMAIN onset = Firing(snapshot)
    /\ \A g \in Firing(snapshot) :
          /\ active[g].severity = snapshot[g]
          /\ active[g].since = onset[g] /\ onset[g] \in 1..evaluated
    /\ alarmPc = "idle" => last = AsList(active)

\* alarm.go:84-129: who fires does so with the level it has, and no other gauge does.
LEMMA WhoFires ==
  ASSUME NEW s, NEW g \in DOMAIN s, s[g] \in Levels
  PROVE  /\ g \in Firing(s) <=> g \notin Others /\ (s[g] = "crit" \/ (s[g] = "warn" /\ g \notin CritOnly))
         /\ g \in Firing(s) => (CHOOSE x \in Severity(g, s[g]) : TRUE) = s[g] /\ s[g] \in {"warn", "crit"}
<1>1. g \in Firing(s) <=> Severity(g, s[g]) # {}
  BY DEF Firing
<1>2. CASE g \in Others \/ s[g] = "ok" \/ (s[g] = "warn" /\ g \in CritOnly)
  BY <1>1, <1>2 DEF Severity
<1>3. CASE ~(g \in Others \/ s[g] = "ok" \/ (s[g] = "warn" /\ g \in CritOnly))
  <2>1. Severity(g, s[g]) = {s[g]}
    BY <1>3 DEF Severity
  <2>. QED  BY <1>1, <1>3, <2>1 DEF Levels
<1>. QED  BY <1>2, <1>3

\* No alarm is active before the first tick.
LEMMA AlarmStart == AlarmInit => AlarmInv
BY AlarmAssumption DEF AlarmInit, AlarmInv, AlarmTypeOK, NoAlarm, Firing, AsList

\* alarm.go: evaluating, publishing and restarting keep the severity of each alarm.
LEMMA AlarmStep ==
  ASSUME AlarmInv, [AlarmNext]_alarmVars
  PROVE  AlarmInv'
<1>. USE DEF AlarmInv
<1>1. CASE Evaluate
  <2>0. PICK present \in SUBSET Gauges :
          \E s \in [present -> Levels] :
            /\ snapshot' = s
            /\ active' = Raised(s, active, evaluated + 1)
            /\ onset' = [g \in Firing(s) |-> IF g \in Firing(snapshot) THEN onset[g] ELSE evaluated + 1]
    BY <1>1 DEF Evaluate
  <2>1. PICK s \in [present -> Levels] :
            /\ snapshot' = s
            /\ active' = Raised(s, active, evaluated + 1)
            /\ onset' = [g \in Firing(s) |-> IF g \in Firing(snapshot) THEN onset[g] ELSE evaluated + 1]
    BY <2>0
  <2>2. DOMAIN s \subseteq Gauges /\ \A g \in DOMAIN s : s[g] \in Levels
    OBVIOUS
  <2>3. Firing(s) \subseteq DOMAIN s
    BY DEF Firing
  <2>4. evaluated \in Nat /\ evaluated' = evaluated + 1 /\ evaluated + 1 \in 1..MaxTick
    BY <1>1, AlarmAssumption DEF Evaluate, AlarmTypeOK
  <2>5. ASSUME NEW g \in Firing(s)
        PROVE  /\ active'[g].severity = s[g]
               /\ active'[g].since = onset'[g] /\ onset'[g] \in 1..(evaluated + 1)
    <3>1. (CHOOSE x \in Severity(g, s[g]) : TRUE) = s[g]
      BY <2>2, <2>3, WhoFires
    <3>2. active'[g] = [severity |-> s[g], since |-> IF g \in DOMAIN active THEN active[g].since ELSE evaluated + 1]
      BY <2>1, <3>1 DEF Raised
    <3>3. onset'[g] = IF g \in Firing(snapshot) THEN onset[g] ELSE evaluated + 1
      BY <2>1
    <3>. QED  BY <2>4, <3>2, <3>3
  <2>6. DOMAIN active' = Firing(s) /\ DOMAIN onset' = Firing(s)
    BY <2>1 DEF Raised
  <2>7. last' = last /\ alarmPc' = "publish"
    BY <1>1 DEF Evaluate
  <2>8. AlarmTypeOK'
    BY <2>2, <2>3, <2>4, <2>6, <2>7 DEF AlarmTypeOK
  <2>. QED  BY <2>1, <2>2, <2>4, <2>5, <2>6, <2>7, <2>8
<1>2. CASE Publish
  <2>1. \A g \in DOMAIN active : [id |-> g, severity |-> active[g].severity, since |-> active[g].since] \in AlarmRows
    <3>. TAKE g \in DOMAIN active
    <3>1. g \in Gauges /\ active[g].severity \in {"warn", "crit"}
      BY WhoFires DEF Firing
    <3>2. active[g].since \in 1..MaxTick
      BY AlarmAssumption DEF AlarmTypeOK
    <3>. QED  BY <3>1, <3>2 DEF AlarmRows
  <2>2. AsList(active) \subseteq AlarmRows
    BY <2>1 DEF AsList
  <2>3. AlarmTypeOK'
    BY <1>2, <2>2 DEF Publish, AlarmTypeOK
  <2>. QED  BY <1>2, <2>3 DEF Publish, AsList
<1>3. CASE UNCHANGED alarmVars
  BY <1>3 DEF alarmVars, AlarmTypeOK
<1>. QED  BY <1>1, <1>2, <1>3 DEF AlarmNext

\* alarm.go:42-43, 62-139: the published list is that of the newest snapshot, and
\* Since is the first tick of the unbroken run that raised the alarm.
THEOREM AlarmsSayWhenTheyBegan == AlarmSpec => []SinceIsOnset
<1>1. ASSUME AlarmInv
      PROVE  SinceIsOnset
  <2>. USE <1>1 DEF AlarmInv
  <2>1. ASSUME alarmPc = "idle", NEW a \in last
        PROVE  /\ a.id \in Firing(snapshot)
               /\ a.severity = snapshot[a.id] /\ a.since = onset[a.id]
    BY <2>1 DEF AsList
  <2>2. ASSUME alarmPc = "idle", NEW g \in Firing(snapshot)
        PROVE  \E a \in last : a.id = g
    <3>1. [id |-> g, severity |-> active[g].severity, since |-> active[g].since] \in last
      BY <2>2 DEF AsList
    <3>. QED  BY <3>1
  <2>3. \A g \in DOMAIN snapshot :
            g \in Firing(snapshot) <=> g \notin Others /\ (snapshot[g] = "crit" \/ (snapshot[g] = "warn" /\ g \notin CritOnly))
    BY WhoFires
  <2>4. ListMatchesSnapshot
    BY <2>1, <2>2, <2>3 DEF ListMatchesSnapshot, Firing
  <2>. QED  BY <2>1, <2>4 DEF SinceIsOnset
<1>. QED  BY <1>1, AlarmStart, AlarmStep, PTL DEF AlarmSpec

------------------------------------------------------------------------------
(* The uptime log *)

\* The closed sessions of ss end in the order they are in, and the last call of
\* Observe that closed one is over a second ago.
EndsInOrder(ss) ==
    /\ \A i \in DOMAIN ss : ss[i].end # Open => ss[i].end <= now /\ (ss[i].end = now => wake > now)
    /\ \A i, j \in DOMAIN ss : i < j /\ ss[i].end # Open /\ ss[j].end # Open => ss[i].end < ss[j].end

\* The closed sessions of the file are those in memory but for the d oldest,
\* which the cap has pushed out: these ended before any that is there.
Shifted(d) ==
    /\ d > 0 => Len(sessions) = MaxSessions
    /\ \A i \in DOMAIN file : file[i].end # Open =>
         IF i <= d THEN \A j \in DOMAIN sessions : sessions[j].end # Open => file[i].end < sessions[j].end
         ELSE i - d \in DOMAIN sessions /\ sessions[i - d] = file[i]

OneOpen(ss) == \A i \in DOMAIN ss : (ss[i].end = Open) <=> (i = Len(ss))

UpInv ==
    /\ UpTypeOK /\ Len(file) <= MaxSessions
    /\ lastBoot = LastStart(sessions)
    /\ DiskFaults = {} /\ upPc = "idle" => file = sessions
    /\ WholeWrites =>
         /\ OneOpen(sessions) /\ OneOpen(file)
         /\ EndsInOrder(sessions) /\ EndsInOrder(file)
         /\ \E d \in 0..Len(file) : Shifted(d)

\* log.go rounds boot times to whole numbers.
LEMMA RoundIsInt == \A t \in Int : Round(t) \in Int
BY UptimeAssumption DEF Round

\* log.go:71-79: a reboot leaves the sessions as they are but for the newest, now
\* closed, and the new one; the cap drops the oldest.
LEMMA Rolled ==
  ASSUME NEW ss \in Seq(SessionRows), ss # <<>>, Len(ss) <= MaxSessions, NEW b \in Int, now \in Int,
         NEW r, r = Capped(Append(Close(ss), NewSession(b)))
  PROVE  /\ r \in Seq(SessionRows) /\ r # <<>> /\ LastStart(r) = b
         /\ \E drop \in {0, 1} :
              /\ (drop = 1) <=> (Len(ss) = MaxSessions)
              /\ Len(r) = Len(ss) + 1 - drop
              /\ r[Len(r)].end = Open
              /\ \A i \in 1..(Len(ss) - drop) : IF i + drop = Len(ss) THEN r[i].end = now ELSE r[i] = ss[i + drop]
<1>1. Len(ss) \in Nat \ {0}
  BY EmptySeq
<1>2. ss[Len(ss)] \in SessionRows
  BY <1>1, ElementOfSeq
<1>3. PICK e : e = [ss[Len(ss)] EXCEPT !.end = now]
  OBVIOUS
<1>4. e \in SessionRows /\ e.end = now
  BY <1>2, <1>3 DEF SessionRows
<1>5. PICK c : c = Close(ss)
  OBVIOUS
<1>6. c = [ss EXCEPT ![Len(ss)] = e]
  BY <1>3, <1>5 DEF Close
<1>7. c \in Seq(SessionRows) /\ Len(c) = Len(ss) /\ \A i \in 1..Len(ss) : c[i] = IF i = Len(ss) THEN e ELSE ss[i]
  BY <1>1, <1>4, <1>6, ExceptSeq, Len(ss) \in 1..Len(ss)
<1>8. NewSession(b) \in SessionRows /\ NewSession(b).start = b /\ NewSession(b).end = Open
  BY DEF NewSession, SessionRows, Open
<1>9. PICK a : a = Append(c, NewSession(b))
  OBVIOUS
<1>10. /\ a \in Seq(SessionRows) /\ Len(a) = Len(ss) + 1
       /\ \A i \in 1..Len(ss) : a[i] = c[i]
       /\ a[Len(ss) + 1] = NewSession(b)
  BY <1>7, <1>8, <1>9, AppendProperties
<1>11. ASSUME NEW q \in Seq(SessionRows), q # <<>>
       PROVE  LastStart(q) = q[Len(q)].start
  BY <1>11 DEF LastStart, Last
<1>12. CASE Len(ss) = MaxSessions
  <2>0. Len(a) > MaxSessions /\ Len(a) - MaxSessions + 1 = 2
    BY <1>1, <1>10, <1>12
  <2>1. r = SubSeq(a, 2, Len(a))
    BY <1>5, <1>9, <2>0 DEF Capped
  <2>2. \A i \in 2..Len(a) : a[i] \in SessionRows
    BY <1>1, <1>10, ElementOfSeq
  <2>3. /\ r \in Seq(SessionRows) /\ Len(r) = Len(ss)
        /\ \A i \in 1..Len(ss) : r[i] = a[i + 1]
    BY <1>1, <1>10, <2>1, <2>2, SubSeqProperties
  <2>4. r # <<>> /\ r[Len(r)] = NewSession(b)
    BY <1>1, <1>10, <2>3
  <2>5. \A i \in 1..(Len(ss) - 1) : r[i] = IF i + 1 = Len(ss) THEN e ELSE ss[i + 1]
    BY <1>1, <1>7, <1>10, <2>3
  <2>. QED  BY <1>1, <1>4, <1>8, <1>11, <1>12, <2>3, <2>4, <2>5
<1>13. CASE Len(ss) # MaxSessions
  <2>1. r = a
    BY <1>1, <1>5, <1>9, <1>10, <1>13, UptimeAssumption DEF Capped
  <2>2. r # <<>> /\ r[Len(r)] = NewSession(b)
    BY <1>1, <1>10, <2>1
  <2>3. \A i \in 1..Len(ss) : r[i] = IF i = Len(ss) THEN e ELSE ss[i]
    BY <1>1, <1>7, <1>10, <2>1
  <2>. QED  BY <1>1, <1>4, <1>8, <1>10, <1>11, <1>13, <2>1, <2>2, <2>3
<1>. QED  BY <1>12, <1>13

\* A session's end is a time, or the mark of one in progress.
LEMMA EndOfRow == \A ss \in Seq(SessionRows) : \A i \in 1..Len(ss) : ss[i] \in SessionRows /\ ss[i].end \in Int
<1>1. \A ss \in Seq(SessionRows) : \A i \in 1..Len(ss) : ss[i] \in SessionRows
  BY ElementOfSeq
<1>. QED  BY <1>1 DEF SessionRows

\* The log starts with no session and no file.
LEMMA UpStart == UpInit => UpInv
<1>. SUFFICES ASSUME UpInit PROVE UpInv
  OBVIOUS
<1>1. sessions \in Seq(SessionRows) /\ file \in Seq(SessionRows) /\ Len(sessions) = 0 /\ Len(file) = 0
  BY EmptySeq DEF UpInit
<1>2. UpTypeOK
  BY <1>1, UptimeAssumption DEF UpInit, UpTypeOK, NoBoot
<1>3. DOMAIN sessions = {} /\ DOMAIN file = {}
  BY <1>1, LenProperties
<1>4. Shifted(0)
  BY <1>3 DEF Shifted
<1>5. OneOpen(sessions) /\ OneOpen(file) /\ EndsInOrder(sessions) /\ EndsInOrder(file)
  BY <1>3 DEF OneOpen, EndsInOrder
<1>6. lastBoot = LastStart(sessions) /\ file = sessions
  BY DEF UpInit, LastStart
<1>. QED  BY <1>1, <1>2, <1>4, <1>5, <1>6, UptimeAssumption DEF UpInv

\* log.go:71-80: until the rewrite is over, only memory has changed.
LEMMA Rebooted ==
  ASSUME UpInv, upPc = "idle", wake <= now, wake' \in Nat, wake' > now, NEW b \in Int, BootChanged(b)
  PROVE  UpInv'
<1>1. UpTypeOK /\ Len(file) <= MaxSessions
  BY DEF UpInv
<1>2. sessions # <<>> /\ lastBoot' = b /\ upPc' = "persist" /\ UNCHANGED <<now, boot, file, measured>>
  BY DEF BootChanged
<1>3. sessions' = Capped(Append(Close(sessions), NewSession(b)))
  BY DEF BootChanged
<1>4. now \in Nat /\ Open = -1 /\ MaxSessions \in Nat \ {0}
  BY <1>1, UptimeAssumption DEF UpTypeOK, Open
<1>5. sessions \in Seq(SessionRows) /\ Len(sessions) <= MaxSessions /\ file \in Seq(SessionRows)
  BY <1>1 DEF UpTypeOK
<1>6. /\ sessions' \in Seq(SessionRows) /\ sessions' # <<>> /\ LastStart(sessions') = b
      /\ \E drop \in {0, 1} :
           /\ (drop = 1) <=> (Len(sessions) = MaxSessions)
           /\ Len(sessions') = Len(sessions) + 1 - drop
           /\ sessions'[Len(sessions')].end = Open
           /\ \A i \in 1..(Len(sessions) - drop) :
                IF i + drop = Len(sessions) THEN sessions'[i].end = now ELSE sessions'[i] = sessions[i + drop]
  <2>1. \A r : r = Capped(Append(Close(sessions), NewSession(b))) =>
           /\ r \in Seq(SessionRows) /\ r # <<>> /\ LastStart(r) = b
           /\ \E drop \in {0, 1} :
                /\ (drop = 1) <=> (Len(sessions) = MaxSessions)
                /\ Len(r) = Len(sessions) + 1 - drop
                /\ r[Len(r)].end = Open
                /\ \A i \in 1..(Len(sessions) - drop) :
                     IF i + drop = Len(sessions) THEN r[i].end = now ELSE r[i] = sessions[i + drop]
    <3>1. now \in Int
      BY <1>4
    <3>. QED  BY <1>2, <1>5, <3>1, Rolled
  <2>. QED  BY <1>3, <2>1
<1>7. PICK drop \in {0, 1} :
         /\ (drop = 1) <=> (Len(sessions) = MaxSessions)
         /\ Len(sessions') = Len(sessions) + 1 - drop
         /\ sessions'[Len(sessions')].end = Open
         /\ \A i \in 1..(Len(sessions) - drop) :
              IF i + drop = Len(sessions) THEN sessions'[i].end = now ELSE sessions'[i] = sessions[i + drop]
  BY <1>6
<1>8. Len(sessions) \in Nat \ {0} /\ Len(file) \in Nat
  BY <1>2, <1>5, EmptySeq, LenProperties
<1>9. DOMAIN sessions = 1..Len(sessions) /\ DOMAIN sessions' = 1..Len(sessions') /\ DOMAIN file = 1..Len(file)
  BY <1>5, <1>6, LenProperties
<1>10. UpTypeOK'
  BY <1>1, <1>2, <1>6, <1>7, <1>8, <1>4, <1>5 DEF UpTypeOK
<1>11. (lastBoot = LastStart(sessions))'
  BY <1>2, <1>6
<1>12. ASSUME WholeWrites
       PROVE  /\ OneOpen(sessions)' /\ OneOpen(file)' /\ EndsInOrder(sessions)' /\ EndsInOrder(file)'
              /\ \E d \in 0..Len(file) : Shifted(d)'
  <2>1. OneOpen(sessions) /\ OneOpen(file) /\ EndsInOrder(sessions) /\ EndsInOrder(file)
    BY <1>12 DEF UpInv
  <2>2. PICK d \in 0..Len(file) : Shifted(d)
    BY <1>12 DEF UpInv
  <2>3. \A i \in 1..Len(sessions) :
           /\ (sessions[i].end = Open) <=> (i = Len(sessions))
           /\ i # Len(sessions) => sessions[i].end <= now /\ sessions[i].end # now /\ sessions[i].end \in Int
    <3>. TAKE i \in 1..Len(sessions)
    <3>1. sessions[i].end \in Int
      BY <1>5, EndOfRow
    <3>2. (sessions[i].end = Open) <=> (i = Len(sessions))
      BY <1>9, <2>1 DEF OneOpen
    <3>3. sessions[i].end # Open => sessions[i].end <= now /\ (sessions[i].end = now => wake > now)
      BY <1>9, <2>1 DEF EndsInOrder
    <3>4. ~(wake > now)
      BY <1>4, <1>1 DEF UpTypeOK
    <3>. QED  BY <3>1, <3>2, <3>3, <3>4
  <2>4. \A i, j \in 1..Len(sessions) : i < j /\ j # Len(sessions) => sessions[i].end < sessions[j].end
    <3>1. \A i, j \in 1..Len(sessions) :
             i < j /\ sessions[i].end # Open /\ sessions[j].end # Open => sessions[i].end < sessions[j].end
      BY <1>9, <2>1 DEF EndsInOrder
    <3>2. \A i, j \in 1..Len(sessions) : i < j => i # Len(sessions)
      BY <1>8
    <3>. QED  BY <2>3, <3>1, <3>2
  <2>5. \A i \in 1..Len(file) : file[i].end # Open => file[i].end \in Int /\ file[i].end < now
    <3>. TAKE i \in 1..Len(file)
    <3>1. file[i].end \in Int
      BY <1>5, EndOfRow
    <3>2. file[i].end # Open => file[i].end <= now /\ (file[i].end = now => wake > now)
      BY <1>9, <2>1 DEF EndsInOrder
    <3>3. ~(wake > now)
      BY <1>4, <1>1 DEF UpTypeOK
    <3>. QED  BY <1>4, <3>1, <3>2, <3>3
  \* An entry of sessions' but for the last is the newly closed one or an older one.
  <2>6. \A i \in 1..Len(sessions') :
           \/ i = Len(sessions') /\ sessions'[i].end = Open
           \/ i = Len(sessions) - drop /\ sessions'[i].end = now
           \/ i < Len(sessions) - drop /\ i + drop \in 1..Len(sessions) /\ i + drop # Len(sessions) /\ sessions'[i] = sessions[i + drop]
    BY <1>7, <1>8
  <2>7. OneOpen(sessions)'
    <3>1. now # Open
      BY <1>4
    <3>2. \A i \in 1..Len(sessions') : (sessions'[i].end = Open)  <=> (i = Len(sessions'))
      <4>. TAKE i \in 1..Len(sessions')
      <4>1. CASE i = Len(sessions')
        BY <2>6, <4>1, <1>7
      <4>2. CASE i # Len(sessions') /\ i = Len(sessions) - drop
        BY <2>6, <3>1, <4>2, <1>8
      <4>3. CASE i # Len(sessions') /\ i # Len(sessions) - drop
        <5>1. i + drop \in 1..Len(sessions) /\ i + drop # Len(sessions) /\ sessions'[i] = sessions[i + drop]
          BY <2>6, <4>3
        <5>. QED  BY <2>3, <4>3, <5>1
      <4>. QED  BY <4>1, <4>2, <4>3
    <3>3. (DOMAIN sessions)' = 1..Len(sessions') /\ Open' = Open
      BY <1>9 DEF Open
    <3>. QED  BY <3>2, <3>3 DEF OneOpen
  <2>8. EndsInOrder(sessions)'
    <3>1. \A i \in 1..Len(sessions') : sessions'[i].end # Open => sessions'[i].end <= now
      BY <1>4, <2>3, <2>6, SMTT(30)
    <3>2. \A i, j \in 1..Len(sessions') :
             i < j /\ sessions'[i].end # Open /\ sessions'[j].end # Open => sessions'[i].end < sessions'[j].end
      <4>. SUFFICES ASSUME NEW i \in 1..Len(sessions'), NEW j \in 1..Len(sessions'), i < j,
                           sessions'[i].end # Open, sessions'[j].end # Open
                    PROVE  sessions'[i].end < sessions'[j].end
        OBVIOUS
      <4>1. i < Len(sessions) - drop /\ i + drop \in 1..Len(sessions) /\ i + drop # Len(sessions) /\ sessions'[i] = sessions[i + drop]
        BY <1>7, <1>8, <2>6, SMTT(30)
      <4>2. CASE j = Len(sessions) - drop
        <5>1. sessions'[j].end = now
          BY <1>7, <1>8, <2>6, <4>2
        <5>2. sessions[i + drop].end \in Int /\ sessions[i + drop].end <= now /\ sessions[i + drop].end # now
          BY <2>3, <4>1
        <5>. QED  BY <1>4, <4>1, <5>1, <5>2
      <4>3. CASE j < Len(sessions) - drop
        <5>1. j + drop \in 1..Len(sessions) /\ j + drop # Len(sessions) /\ sessions'[j] = sessions[j + drop]
          BY <1>7, <1>8, <2>6, <4>3
        <5>2. i + drop < j + drop
          BY <1>8, i < j
        <5>3. sessions[i + drop].end < sessions[j + drop].end
          BY <2>4, <4>1, <5>1, <5>2
        <5>. QED  BY <4>1, <5>1, <5>3
      <4>. QED  BY <1>7, <1>8, <2>6, <4>2, <4>3
    <3>. QED  BY <1>2, <1>9, <3>1, <3>2 DEF EndsInOrder, Open
  <2>9. OneOpen(file)' /\ EndsInOrder(file)'
    BY <1>2, <1>9, <2>1, <2>5 DEF OneOpen, EndsInOrder, Open
  <2>10. CASE drop = 0
    <3>1. d = 0
      BY <1>7, <2>2, <2>10 DEF Shifted
    <3>2. ASSUME NEW i \in 1..Len(file), file[i].end # Open
          PROVE  i \in 1..Len(sessions') /\ sessions'[i] = file[i]
      <4>1. i \in 1..Len(sessions) /\ sessions[i] = file[i]
        BY <1>8, <1>9, <2>2, <3>1, <3>2 DEF Shifted
      <4>2. i # Len(sessions)
        BY <2>3, <3>2, <4>1
      <4>. QED  BY <1>7, <1>8, <2>10, <4>1, <4>2
    <3>3. Shifted(0)'
      BY <1>2, <1>9, <3>2 DEF Shifted, Open
    <3>. QED  BY <1>8, <2>7, <2>8, <2>9, <3>3
  <2>11. CASE drop = 1
    <3>1. Len(sessions') = MaxSessions
      BY <1>7, <1>8, <2>11
    <3>2. PICK n \in {d, d + 1} : n = IF d < Len(file) THEN d + 1 ELSE d
      OBVIOUS
    <3>3. n \in 0..Len(file)
      BY <1>8, <3>2
    <3>4. ASSUME NEW i \in 1..Len(file), file[i].end # Open, i <= n, NEW j \in 1..Len(sessions'), sessions'[j].end # Open
          PROVE  file[i].end < sessions'[j].end
      <4>1. CASE i <= d
        <5>1. \A k \in 1..Len(sessions) : sessions[k].end # Open => file[i].end < sessions[k].end
          BY <1>9, <2>2, <3>4, <4>1 DEF Shifted
        <5>. QED  BY <2>3, <2>5, <2>6, <2>11, <3>4, <5>1
      <4>2. CASE i = d + 1
        <5>1. 1 \in 1..Len(sessions) /\ sessions[1] = file[i]
          BY <1>8, <1>9, <2>2, <3>4, <4>2 DEF Shifted
        <5>2. CASE j = Len(sessions) - drop
          BY <1>7, <1>8, <2>5, <2>6, <2>11, <3>4, <5>2, SMTT(30)
        <5>3. CASE j < Len(sessions) - drop
          <6>1. j + 1 \in 1..Len(sessions) /\ j + 1 # Len(sessions) /\ sessions'[j] = sessions[j + 1]
            BY <1>7, <1>8, <2>6, <2>11, <5>3
          <6>. QED  BY <2>4, <5>1, <6>1
        <5>. QED  BY <1>7, <1>8, <2>6, <3>4, <5>2, <5>3
      <4>. QED  BY <1>8, <3>2, <3>4, <4>1, <4>2
    <3>5. ASSUME NEW i \in 1..Len(file), file[i].end # Open, ~(i <= n)
          PROVE  i - n \in 1..Len(sessions') /\ sessions'[i - n] = file[i]
      <4>1. n = d + 1 /\ i > d + 1
        BY <1>8, <3>2, <3>5
      <4>2. i - d \in 1..Len(sessions) /\ sessions[i - d] = file[i]
        BY <1>8, <1>9, <2>2, <3>5, <4>1 DEF Shifted
      <4>3. i - d # Len(sessions)
        BY <2>3, <3>5, <4>2
      <4>4. i - n \in 1..(Len(sessions) - 1) /\ (i - n) + 1 = i - d
        BY <1>8, <4>1, <4>2, <4>3
      <4>5. PICK m : m = i - n /\ m \in 1..(Len(sessions) - 1) /\ m + 1 = i - d
        BY <4>4
      <4>6. Len(sessions') = Len(sessions)
        BY <1>7, <1>8, <2>11
      <4>7. m \in 1..Len(sessions') /\ m # Len(sessions') /\ m # Len(sessions) - drop
        BY ONLY <1>8, <2>11, <4>3, <4>5, <4>6
      <4>8. sessions'[m] = sessions[m + drop]
        BY <2>6, <4>7
      <4>9. sessions'[m] = sessions[i - d]
        BY ONLY <2>11, <4>5, <4>8
      <4>. QED  BY <4>2, <4>5, <4>7, <4>9
    <3>6. Shifted(n)'
      BY <1>2, <1>9, <3>1, <3>4, <3>5 DEF Shifted, Open
    <3>. QED  BY <2>7, <2>8, <2>9, <3>3, <3>6
  <2>. QED  BY <2>10, <2>11
<1>13. (DiskFaults = {} /\ upPc = "idle" => file = sessions)'
  BY <1>2
<1>. QED  BY <1>1, <1>2, <1>10, <1>11, <1>12, <1>13 DEF UpInv, WholeWrites

\* What only memory and the clock change of, or nothing.
LEMMA Untouched ==
  ASSUME UpInv, UpTypeOK', UNCHANGED <<sessions, lastBoot, file>>,
         upPc' = upPc, now' >= now, wake' >= wake \/ now' > now
  PROVE  UpInv'
<1>1. now \in Nat /\ now' \in Nat /\ wake \in Nat /\ wake' \in Nat /\ sessions \in Seq(SessionRows) /\ file \in Seq(SessionRows)
  BY DEF UpInv, UpTypeOK
<1>2. ASSUME NEW ss \in Seq(SessionRows), EndsInOrder(ss)
      PROVE  /\ \A i \in DOMAIN ss : ss[i].end # Open => ss[i].end <= now' /\ (ss[i].end = now' => wake' > now')
             /\ \A i, j \in DOMAIN ss : i < j /\ ss[i].end # Open /\ ss[j].end # Open => ss[i].end < ss[j].end
  <2>1. ASSUME NEW i \in DOMAIN ss, ss[i].end # Open
        PROVE  ss[i].end <= now' /\ (ss[i].end = now' => wake' > now')
    <3>1. ss[i].end \in Int
      BY EndOfRow, LenProperties
    <3>2. ss[i].end <= now /\ (ss[i].end = now => wake > now)
      BY <1>2, <2>1 DEF EndsInOrder
    <3>. QED  BY <1>1, <3>1, <3>2
  <2>. QED  BY <1>2, <2>1 DEF EndsInOrder
<1>3. WholeWrites => EndsInOrder(sessions)' /\ EndsInOrder(file)'
  BY <1>1, <1>2 DEF UpInv, EndsInOrder, Open
<1>. QED  BY <1>3 DEF UpInv, OneOpen, Shifted, Open, LastStart, WholeWrites

\* log.go:42-52: a restart takes what the file holds.
LEMMA Restarted ==
  ASSUME UpInv, UpTypeOK', sessions' = file, file' = file, lastBoot' = LastStart(file),
         upPc' = "idle", now' = now + 1
  PROVE  UpInv'
<1>1. now \in Nat /\ file \in Seq(SessionRows)
  BY DEF UpInv, UpTypeOK
<1>2. \A i \in DOMAIN file : file[i].end \in Int
  BY <1>1, EndOfRow, LenProperties
<1>3. ASSUME WholeWrites
      PROVE  (OneOpen(sessions) /\ OneOpen(file) /\ EndsInOrder(sessions) /\ EndsInOrder(file))'
  <2>1. OneOpen(file)
    BY <1>3 DEF UpInv
  <2>2. EndsInOrder(file)
    BY <1>3 DEF UpInv
  <2>3. \A i \in DOMAIN file : file[i].end # Open => file[i].end <= now + 1 /\ file[i].end # now + 1
    BY <1>1, <1>2, <2>2 DEF EndsInOrder
  <2>. QED  BY <2>1, <2>2, <2>3 DEF OneOpen, EndsInOrder, Open
<1>4. \A i \in DOMAIN file : i - 0 = i /\ ~(i <= 0)
  BY <1>1, LenProperties
<1>5. Shifted(0)'
  BY <1>4 DEF Shifted, Open
<1>6. Len(file) \in Nat
  BY <1>1, LenProperties
<1>. QED  BY <1>3, <1>5, <1>6 DEF UpInv, LastStart, WholeWrites

\* log.go:116-136: rewriting the file, or failing to, leaves a file of known sessions.
LEMMA Rewrite ==
  ASSUME UpInv, Persist
  PROVE  UpInv'
<1>1. UpTypeOK /\ Len(sessions) <= MaxSessions /\ Len(file) <= MaxSessions
  BY DEF UpInv, UpTypeOK
<1>2. sessions \in Seq(SessionRows) /\ file \in Seq(SessionRows) /\ Len(sessions) \in Nat
  BY <1>1, LenProperties DEF UpTypeOK
<1>3. file' = sessions \/ file' = file \/ \E n \in 0..Len(sessions) : file' = SubSeq(sessions, 1, n)
  BY DEF Persist, Rewritten
<1>4. \A n \in 0..Len(sessions) : SubSeq(sessions, 1, n) \in Seq(SessionRows) /\ Len(SubSeq(sessions, 1, n)) = n
  <2>. TAKE n \in 0..Len(sessions)
  <2>1. \A i \in 1..n : sessions[i] \in SessionRows
    BY <1>2, ElementOfSeq
  <2>. QED  BY <1>2, <2>1, SubSeqProperties
<1>5. file' \in Seq(SessionRows) /\ Len(file') <= MaxSessions
  BY <1>1, <1>2, <1>3, <1>4, UptimeAssumption
<1>6. UpTypeOK'
  BY <1>1, <1>5 DEF UpTypeOK, Persist
<1>7. DiskFaults = {} => file' = sessions
  BY DEF Persist, Rewritten
<1>8. CASE ~WholeWrites
  BY <1>5, <1>6, <1>7, <1>8 DEF UpInv, Persist, WholeWrites, LastStart
<1>9. CASE WholeWrites
  <2>1. file' = sessions \/ file' = file
    BY <1>9 DEF Persist, Rewritten, WholeWrites
  <2>2. CASE file' = file
    BY <1>6, <1>7, <1>9, <2>2 DEF UpInv, Persist, WholeWrites, LastStart, OneOpen, EndsInOrder, Shifted, Open
  <2>3. CASE file' = sessions
    <3>1. (OneOpen(sessions) /\ OneOpen(file) /\ EndsInOrder(sessions) /\ EndsInOrder(file))'
      BY <1>9, <2>3 DEF UpInv, Persist, OneOpen, EndsInOrder, Open
    <3>2. \A i \in DOMAIN sessions : i - 0 = i /\ ~(i <= 0)
      BY <1>2, LenProperties
    <3>3. Shifted(0)'
      BY <2>3, <3>2 DEF Shifted, Open, Persist
    <3>. QED  BY <1>2, <1>5, <1>6, <2>3, <3>1, <3>3 DEF UpInv, Persist, WholeWrites, LastStart
  <2>. QED  BY <2>1, <2>2, <2>3
<1>. QED  BY <1>8, <1>9

\* log.go:58-70: the first session there is begins at the boot found.
LEMMA FirstKnown ==
  ASSUME UpInv, upPc = "idle", wake' \in Nat, NEW b \in Int, FirstSession(b)
  PROVE  UpInv'
<1>1. UpTypeOK /\ sessions = <<>> /\ sessions' = <<NewSession(b)>> /\ UNCHANGED <<now, boot, file, measured>>
  BY DEF UpInv, FirstSession
<1>2. NewSession(b) \in SessionRows /\ NewSession(b).start = b /\ NewSession(b).end = Open
  BY DEF NewSession, SessionRows, Open
<1>3. sessions' \in Seq(SessionRows) /\ Len(sessions') = 1 /\ sessions'[1] = NewSession(b) /\ DOMAIN sessions' = {1}
  BY <1>1, <1>2
<1>4. UpTypeOK'
  BY <1>1, <1>3, UptimeAssumption DEF UpTypeOK, FirstSession
<1>5. (lastBoot = LastStart(sessions))'
  BY <1>1, <1>2, <1>3 DEF FirstSession, LastStart, Last
<1>6. file \in Seq(SessionRows) /\ DOMAIN file = 1..Len(file) /\ Len(file) \in Nat
  BY <1>1, LenProperties DEF UpTypeOK
<1>7. ASSUME WholeWrites
      PROVE  (OneOpen(sessions) /\ OneOpen(file) /\ EndsInOrder(sessions) /\ EndsInOrder(file) /\ \E d \in 0..Len(file) : Shifted(d))'
  <2>1. PICK d \in 0..Len(file) : Shifted(d)
    BY <1>7 DEF UpInv
  <2>2. DOMAIN sessions = {}
    BY <1>1
  <2>3. d = 0
    BY <1>1, <2>1, UptimeAssumption DEF Shifted
  <2>4. \A i \in DOMAIN file : file[i].end = Open
    BY <1>6, <2>1, <2>2, <2>3 DEF Shifted
  <2>5. (\A i \in DOMAIN file : file[i].end = Open)'
    BY <1>1, <2>4 DEF Open
  <2>6. Shifted(0)'
    BY <2>5 DEF Shifted
  <2>7. OneOpen(file)
    BY <1>7 DEF UpInv
  <2>8. OneOpen(file)' /\ EndsInOrder(file)'
    BY <1>1, <2>5, <2>7 DEF OneOpen, EndsInOrder, Open
  <2>9. OneOpen(sessions)' /\ EndsInOrder(sessions)'
    BY <1>2, <1>3 DEF OneOpen, EndsInOrder, Open
  <2>. QED  BY <1>1, <1>6, <2>6, <2>8, <2>9
<1>. QED  BY <1>1, <1>4, <1>5, <1>7 DEF UpInv, FirstSession, WholeWrites

\* log.go: every observation, rewrite, reboot and restart.
LEMMA UpStep ==
  ASSUME UpInv, [UpNext]_upVars
  PROVE  UpInv'
<1>. UpTypeOK
  BY DEF UpInv
<1>1. CASE Observe
  <2>1. PICK d \in Delays : 
           /\ wake' = now + d + Rate
           /\ \E t \in BootTimes(d) : FirstSession(Round(t)) \/ SameSession(Round(t)) \/ BootChanged(Round(t))
    BY <1>1 DEF Observe
  <2>2. PICK t \in BootTimes(d) : FirstSession(Round(t)) \/ SameSession(Round(t)) \/ BootChanged(Round(t))
    BY <2>1
  <2>3. Round(t) \in Int /\ now \in Nat /\ wake \in Nat
    <3>1. t \in Int
      BY UptimeAssumption DEF BootTimes, UpTypeOK
    <3>. QED  BY <3>1, RoundIsInt DEF UpTypeOK
  <2>4. wake' \in Nat /\ wake' > now /\ upPc = "idle" /\ wake <= now
    BY <1>1, <2>1, <2>3, UptimeAssumption DEF Observe
  <2>5. CASE FirstSession(Round(t))
    BY <2>3, <2>4, <2>5, FirstKnown
  <2>6. CASE SameSession(Round(t))
    <3>1. UpTypeOK' /\ now' = now /\ wake' >= wake
      BY <2>3, <2>4, <2>6 DEF SameSession, UpTypeOK
    <3>. QED  BY <2>3, <2>6, <3>1, Untouched DEF SameSession
  <2>7. CASE BootChanged(Round(t))
    BY <2>3, <2>4, <2>7, Rebooted
  <2>. QED  BY <2>2, <2>5, <2>6, <2>7
<1>2. CASE Persist
  BY <1>2, Rewrite
<1>3. CASE ProcessRestart \/ HostReboot
  <2>1. now \in Nat /\ now' \in 0..UpMaxTime /\ now' = now + 1 /\ boot' \in 0..now'
    BY <1>3, UptimeAssumption DEF ProcessRestart, HostReboot, UpTypeOK
  <2>2. LastStart(file) \in Int
    <3>1. file = <<>> \/ file[Len(file)] \in SessionRows
      BY ElementOfSeq, EmptySeq DEF UpTypeOK
    <3>. QED  BY <3>1 DEF LastStart, Last, SessionRows, NoBoot
  <2>3. UpTypeOK'
    BY <1>3, <2>1, <2>2 DEF ProcessRestart, HostReboot, Load, UpTypeOK, UpInv
  <2>. QED  BY <1>3, <2>1, <2>3, Restarted DEF ProcessRestart, HostReboot, Load
<1>4. CASE TimePasses
  <2>1. now \in Nat /\ now' = now + 1 /\ UpTypeOK' /\ wake \in Nat
    BY <1>4, UptimeAssumption DEF TimePasses, UpTypeOK
  <2>. QED  BY <1>4, <2>1, Untouched DEF TimePasses
<1>5. CASE UNCHANGED upVars
  <2>1. UpTypeOK' /\ now \in Nat /\ wake \in Nat
    BY <1>5 DEF upVars, UpTypeOK
  <2>. QED  BY <1>5, <2>1, Untouched DEF upVars
<1>. QED  BY <1>1, <1>2, <1>3, <1>4, <1>5 DEF UpNext

\* log.go:58-80: the session in progress is the newest, in memory and in the file,
\* and the boot time the next reading is compared with is its own.
THEOREM NewestIsOngoing == UpSpec => []OnlyNewestOngoing
<1>1. UpInv => OnlyNewestOngoing
  BY DEF UpInv, OnlyNewestOngoing, OneOpen
<1>. QED  BY <1>1, UpStart, UpStep, PTL DEF UpSpec

\* log.go:71-80, 113-136: a closed session stays, through restarts and failed rewrites,
\* until MaxSessions newer ones push it out.
THEOREM SessionsAreKept == UpSpec => HistoryIsKept
<1>1. ASSUME UpInv, UpInv', [UpNext]_upVars, WholeWrites,
             NEW i \in DOMAIN Kept, Kept[i].end # Open
      PROVE  \/ Holds(Kept', Kept[i])
             \/ Len(Kept') = MaxSessions /\ \A j \in 1..i : ~Holds(Kept', Kept[j])
  <2>1. Kept = file /\ Kept' = file'
    <3>1. Kept = file
      BY <1>1 DEF Kept, UpInv
    <3>2. Kept' = file'
      BY <1>1 DEF Kept, UpInv
    <3>. QED  BY <3>1, <3>2
  <2>2. file' \in {file, sessions}
    BY <1>1 DEF UpNext, upVars, Observe, FirstSession, SameSession, BootChanged, Persist, Rewritten, WholeWrites,
                ProcessRestart, HostReboot, Load, TimePasses
  <2>3. CASE file' = file
    BY <1>1, <2>1, <2>3 DEF Holds
  <2>4. CASE file' = sessions
    <3>1. PICK d \in 0..Len(file) : Shifted(d)
      BY <1>1 DEF UpInv
    <3>2. file \in Seq(SessionRows) /\ sessions \in Seq(SessionRows) /\ OneOpen(file)
      BY <1>1 DEF UpInv, UpTypeOK
    <3>3. DOMAIN file = 1..Len(file) /\ Len(file) \in Nat /\ DOMAIN sessions = 1..Len(sessions) /\ i \in 1..Len(file)
      BY <1>1, <2>1, <3>2, LenProperties
    <3>4. CASE ~(i <= d)
      BY <1>1, <2>1, <2>4, <3>1, <3>4 DEF Shifted, Holds
    <3>5. CASE i <= d
      <4>1. Len(sessions) = MaxSessions
        BY <3>1, <3>3, <3>5 DEF Shifted
      <4>2. ASSUME NEW j \in 1..i, NEW k \in DOMAIN sessions, sessions[k] = file[j]
            PROVE  FALSE
        <5>1. j \in DOMAIN file /\ j <= d
          BY <3>3, <3>5
        <5>2. file[j].end # Open
          BY <1>1, <2>1, <3>2, <3>3, <5>1 DEF OneOpen
        <5>3. file[j].end < sessions[k].end
          BY <3>1, <4>2, <5>1, <5>2 DEF Shifted
        <5>4. file[j].end \in Int
          BY <3>2, <3>3, <5>1, EndOfRow
        <5>. QED  BY <4>2, <5>3, <5>4
      <4>. QED  BY <2>1, <2>4, <4>1, <4>2 DEF Holds
    <3>. QED  BY <3>4, <3>5
  <2>. QED  BY <2>2, <2>3, <2>4
<1>2. UpInv /\ UpInv' /\ [UpNext]_upVars =>
        [WholeWrites =>
            \A i \in DOMAIN Kept :
              Kept[i].end # Open =>
                 \/ Holds(Kept', Kept[i])
                 \/ Len(Kept') = MaxSessions /\ \A j \in 1..i : ~Holds(Kept', Kept[j])]_upVars
  BY <1>1
<1>. QED  BY <1>2, UpStart, UpStep, PTL DEF UpSpec, HistoryIsKept

------------------------------------------------------------------------------
(* The in-memory window *)

\* A reader's slice that shares the array of m.data ends where m.data does or before.
WindowInv ==
    /\ MetricTypeOK
    /\ \A r \in Readers : view[r].len = 0 => view[r] = NilSlice
    /\ \A r \in Readers : view[r].arr = data.arr /\ view[r].len > 0 => view[r].lo + view[r].len <= data.lo + data.len

\* A part of a sequence, cell by cell.
LEMMA Part ==
  ASSUME NEW S, NEW c \in Seq(S), NEW lo \in Nat, NEW len \in Nat, lo + len <= Len(c)
  PROVE  /\ SubSeq(c, lo + 1, lo + len) \in Seq(S) /\ Len(SubSeq(c, lo + 1, lo + len)) = len
         /\ \A i \in 1..len : SubSeq(c, lo + 1, lo + len)[i] = c[lo + i]
<1>1. Len(c) \in Nat
  BY LenProperties
<1>2. (lo + 1)..(lo + len) \subseteq 1..Len(c)
  BY <1>1
<1>3. \A i \in (lo + 1)..(lo + len) : c[i] \in S
  BY <1>2, ElementOfSeq
<1>. QED  BY <1>3, SubSeqProperties

\* Parts of two sequences with the same cells are the same.
LEMMA SameCells ==
  ASSUME NEW S, NEW c \in Seq(S), NEW e \in Seq(S), NEW lo \in Nat, NEW len \in Nat,
         lo + len <= Len(c), lo + len <= Len(e),
         \A i \in (lo + 1)..(lo + len) : c[i] = e[i]
  PROVE  SubSeq(c, lo + 1, lo + len) = SubSeq(e, lo + 1, lo + len)
<1>1. PICK u : u = SubSeq(c, lo + 1, lo + len)
  OBVIOUS
<1>2. PICK v : v = SubSeq(e, lo + 1, lo + len)
  OBVIOUS
<1>3. u \in Seq(S) /\ Len(u) = len /\ \A i \in 1..len : u[i] = c[lo + i]
  BY <1>1, Part
<1>4. v \in Seq(S) /\ Len(v) = len /\ \A i \in 1..len : v[i] = e[lo + i]
  BY <1>2, Part
<1>5. ASSUME NEW i \in 1..len PROVE u[i] = v[i]
  <2>1. lo + i \in (lo + 1)..(lo + len)
    OBVIOUS
  <2>2. u[i] = c[lo + i] /\ v[i] = e[lo + i]
    BY <1>3, <1>4
  <2>. QED  BY <2>1, <2>2
<1>. QED  BY <1>1, <1>2, <1>3, <1>4, <1>5, SeqEqual

\* memory.go:22-25: what a window of at most Window snapshots is after one more.
LEMMA OneMore ==
  ASSUME NEW S, NEW w \in Seq(S), Len(w) <= Window, NEW p \in S, NEW drop \in {0, 1},
         (drop = 1) <=> (Len(w) >= Window),
         NEW v \in Seq(S), Len(v) = Len(w) + 1 - drop, v[Len(v)] = p,
         \A i \in 1..(Len(v) - 1) : v[i] = w[i + drop]
  PROVE  v = Abstract!Kept(Append(w, p))
<1>1. Len(w) \in Nat /\ Len(v) \in Nat /\ Window \in Nat \ {0}
  BY LenProperties, WindowAssumption
<1>2. PICK a : a = Append(w, p)
  OBVIOUS
<1>3. /\ a \in Seq(S) /\ a # <<>> /\ Len(a) = Len(w) + 1
      /\ \A i \in 1..Len(w) : a[i] = w[i]
      /\ a[Len(w) + 1] = p
  BY <1>2, AppendProperties
<1>4. CASE drop = 1
  <2>1. Tail(a) \in Seq(S) /\ Len(Tail(a)) = Len(w) /\ \A i \in 1..Len(w) : Tail(a)[i] = a[i + 1]
    BY <1>1, <1>3, HeadTailProperties
  <2>2. \A i \in 1..Len(v) : v[i] = Tail(a)[i]
    BY <1>1, <1>3, <1>4, <2>1
  <2>3. v = Tail(a)
    BY <1>1, <1>4, <2>1, <2>2, SeqEqual
  <2>. QED  BY <1>1, <1>2, <1>3, <1>4, <2>3 DEF Abstract!Kept
<1>5. CASE drop = 0
  <2>1. \A i \in 1..Len(v) : v[i] = a[i]
    BY <1>1, <1>3, <1>5
  <2>2. v = a
    BY <1>1, <1>3, <1>5, <2>1, SeqEqual
  <2>. QED  BY <1>1, <1>2, <1>3, <1>5, <2>2 DEF Abstract!Kept
<1>. QED  BY <1>4, <1>5

\* What a slice shows: the cells of its array from its start.
LEMMA ContentsOf ==
  ASSUME MetricTypeOK, NEW s \in Slices, s.lo + s.len <= Len(cells[s.arr])
  PROVE  /\ Contents(s) \in Seq(0..MaxTicks) /\ Len(Contents(s)) = s.len
         /\ \A i \in 1..s.len : Contents(s)[i] = cells[s.arr][s.lo + i]
<1>1. cells[s.arr] \in Seq(0..MaxTicks) /\ s.lo \in Nat /\ s.len \in Nat
  BY WindowAssumption DEF MetricTypeOK, Slices
<1>2. PICK c, lo, len : c = cells[s.arr] /\ lo = s.lo /\ len = s.len
  OBVIOUS
<1>3. c \in Seq(0..MaxTicks) /\ lo \in Nat /\ len \in Nat /\ lo + len <= Len(c)
  BY <1>1, <1>2
<1>4. PICK v : v = SubSeq(c, lo + 1, lo + len)
  OBVIOUS
<1>5. v \in Seq(0..MaxTicks) /\ Len(v) = len /\ \A i \in 1..len : v[i] = c[lo + i]
  BY ONLY <1>3, <1>4, Part
<1>6. Contents(s) = v
  BY <1>2, <1>4 DEF Contents
<1>. QED  BY ONLY <1>2, <1>5, <1>6

\* The store starts with an empty slice.
LEMMA WindowStart == MetricInit => WindowInv
<1>. SUFFICES ASSUME MetricInit PROVE WindowInv
  OBVIOUS
<1>1. Cardinality(Readers) \in Nat
  BY WindowAssumption, FS_CardinalityType
<1>2. 1 \in ArrayIds /\ NilSlice \in Slices
  BY <1>1, WindowAssumption DEF ArrayIds, NilSlice, Slices
<1>3. <<>> \in Seq(0..MaxTicks) /\ Len(<<>>) = 0
  BY EmptySeq
<1>. QED  BY <1>2, <1>3, WindowAssumption DEF MetricInit, WindowInv, MetricTypeOK, SliceOK, NilSlice

\* What Save does to the cells: of those a slice covers, it changes none but the one
\* that is m.data's new last.
LEMMA SaveEffect ==
  ASSUME WindowInv, NEW p \in saving, Save(p)
  PROVE  /\ MetricTypeOK' /\ view' = view
         /\ \A r \in Readers :
              /\ Contents(view[r])' = Contents(view[r])
              /\ (view[r].arr = data.arr /\ view[r].len > 0 => view[r].lo + view[r].len <= data.lo + data.len)'
         /\ Contents(data)' = Abstract!Kept(Append(Contents(data), p))
<1>. MetricTypeOK
  BY DEF WindowInv
<1>0. \A r \in Readers : /\ view[r].len = 0 => view[r] = NilSlice
                         /\ view[r].arr = data.arr /\ view[r].len > 0 => view[r].lo + view[r].len <= data.lo + data.len
  BY DEF WindowInv
<1>1. /\ data \in Slices /\ data.arr \in ArrayIds /\ data.lo \in Nat /\ data.len \in Nat /\ data.len <= Window
      /\ data.lo + data.len <= Len(cells[data.arr])
  BY WindowAssumption DEF MetricTypeOK, SliceOK, Slices
<1>2. p \in 0..MaxTicks /\ p \in Nat
  BY WindowAssumption DEF MetricTypeOK
<1>3. \A id \in ArrayIds : cells[id] \in Seq(0..MaxTicks) /\ Len(cells[id]) \in Nat
  BY LenProperties DEF MetricTypeOK
<1>4. PICK s : s = Trimmed(data)
  OBVIOUS
<1>5. PICK drop \in {0, 1} : drop = IF data.len >= Window THEN 1 ELSE 0
  OBVIOUS
<1>6. s \in Slices /\ s.arr = data.arr /\ s.lo = data.lo + drop /\ s.len = data.len - drop /\ s.len < Window
      /\ s.lo \in Nat /\ s.len \in Nat /\ s.lo + s.len = data.lo + data.len
  <2>1. CASE data.len >= Window
    <3>1. s = [data EXCEPT !.lo = data.lo + 1, !.len = data.len - 1]
      BY <1>4, <2>1 DEF Trimmed
    <3>2. data.lo + 1 \in Nat /\ data.len - 1 \in 0..Window /\ data.len - 1 < Window /\ drop = 1
      BY <1>1, <1>5, <2>1, WindowAssumption
    <3>3. s \in Slices /\ s.arr = data.arr /\ s.lo = data.lo + 1 /\ s.len = data.len - 1
      BY <1>1, <3>1, <3>2 DEF Slices
    <3>. QED  BY <1>1, <3>2, <3>3
  <2>2. CASE ~(data.len >= Window)
    <3>1. s = data /\ drop = 0
      BY <1>4, <1>5, <2>2 DEF Trimmed
    <3>. QED  BY <1>1, <2>2, <3>1, WindowAssumption
  <2>. QED  BY <2>1, <2>2
<1>7. /\ Contents(data) \in Seq(0..MaxTicks) /\ Len(Contents(data)) = data.len
      /\ \A i \in 1..data.len : Contents(data)[i] = cells[data.arr][data.lo + i]
  BY <1>1, ContentsOf
<1>8. tick' = tick /\ saving' = saving \ {p} /\ view' = view
  BY DEF Save
<1>9. \A r \in Readers : /\ view[r] \in Slices /\ view[r].arr \in ArrayIds /\ view[r].lo \in Nat /\ view[r].len \in Nat
                         /\ view[r].lo + view[r].len <= Len(cells[view[r].arr])
  BY WindowAssumption DEF MetricTypeOK, SliceOK, Slices
<1>10. CASE HasRoom(s) /\ AppendInPlace(s, p)
  <2>1. PICK at : at = s.lo + s.len + 1
    OBVIOUS
  <2>2. PICK c : c = cells[data.arr]
    OBVIOUS
  <2>3. c \in Seq(0..MaxTicks) /\ Len(c) \in Nat /\ at \in 1..Len(c)
    BY <1>1, <1>3, <1>6, <1>10, <2>1, <2>2 DEF HasRoom
  <2>4. cells' = [cells EXCEPT ![data.arr] = [c EXCEPT ![at] = p]] /\ data' = [s EXCEPT !.len = @ + 1]
    BY <1>6, <1>10, <2>1, <2>2 DEF AppendInPlace
  <2>5. PICK e : e = [c EXCEPT ![at] = p]
    OBVIOUS
  <2>6. e \in Seq(0..MaxTicks) /\ Len(e) = Len(c) /\ \A j \in 1..Len(c) : e[j] = IF j = at THEN p ELSE c[j]
    BY <1>2, <2>3, <2>5, ExceptSeq
  <2>7. DOMAIN cells' = ArrayIds /\ \A id \in ArrayIds : cells'[id] = IF id = data.arr THEN e ELSE cells[id]
    BY <2>4, <2>5 DEF MetricTypeOK
  <2>8. \A id \in ArrayIds : cells'[id] \in Seq(0..MaxTicks) /\ Len(cells'[id]) = Len(cells[id])
    BY <1>3, <2>2, <2>6, <2>7
  <2>9. data' \in Slices /\ data'.arr = data.arr /\ data'.lo = s.lo /\ data'.len = s.len + 1
    BY <1>6, <2>4, WindowAssumption DEF Slices
  <2>10. data'.lo + data'.len <= Len(cells'[data'.arr])
    <3>1. data'.lo + data'.len = at
      BY <1>6, <2>1, <2>9
    <3>2. cells'[data'.arr] = e
      BY <1>1, <2>7, <2>9
    <3>. QED  BY <2>3, <2>6, <3>1, <3>2
  <2>11. MetricTypeOK'
    BY <1>8, <1>9, <2>7, <2>8, <2>9, <2>10 DEF MetricTypeOK, SliceOK, Slices, ArrayIds
  <2>12. ASSUME NEW r \in Readers
         PROVE  /\ Contents(view[r])' = Contents(view[r])
                /\ (view[r].arr = data.arr /\ view[r].len > 0 => view[r].lo + view[r].len <= data.lo + data.len)'
    <3>1. PICK a : a = view[r].arr
      OBVIOUS
    <3>2. PICK lo \in Nat : lo = view[r].lo
      BY <1>9
    <3>3. PICK len \in Nat : len = view[r].len
      BY <1>9
    <3>4. a \in ArrayIds /\ lo + len <= Len(cells[a])
      BY <1>9, <3>1, <3>2, <3>3
    <3>5. a = data.arr /\ len > 0 => lo + len < at
      <4>1. a = data.arr /\ len > 0 => lo + len <= data.lo + data.len
        BY <1>0, <3>1, <3>2, <3>3
      <4>2. at = data.lo + data.len + 1
        BY <1>6, <2>1
      <4>3. data.lo + data.len \in Nat /\ lo + len \in Nat
        BY <1>1
      <4>. QED  BY <4>1, <4>2, <4>3
    <3>6. \A i \in (lo + 1)..(lo + len) : cells'[a][i] = cells[a][i]
      BY <2>2, <2>3, <2>6, <2>7, <3>4, <3>5
    <3>7. SubSeq(cells'[a], lo + 1, lo + len) = SubSeq(cells[a], lo + 1, lo + len)
      <4>1. cells[a] \in Seq(0..MaxTicks) /\ cells'[a] \in Seq(0..MaxTicks) /\ lo + len <= Len(cells'[a])
        BY <1>3, <2>8, <3>4
      <4>. QED  BY <3>4, <3>6, <4>1, SameCells
    <3>8. Contents(view[r])' = Contents(view[r])
      BY <1>8, <3>1, <3>2, <3>3, <3>7 DEF Contents
    <3>9. data'.lo + data'.len = data.lo + data.len + 1 /\ data.lo + data.len \in Nat
      <4>1. data'.lo = s.lo /\ data'.len = s.len + 1
        BY <2>9
      <4>2. s.lo + s.len = data.lo + data.len /\ s.lo \in Nat /\ s.len \in Nat /\ data.lo \in Nat /\ data.len \in Nat
        BY <1>1, <1>6
      <4>. QED  BY ONLY <4>1, <4>2
    <3>10. a = data.arr /\ len > 0 => lo + len <= data.lo + data.len
      BY <1>0, <3>1, <3>2, <3>3
    <3>11. (view[r].arr = data.arr /\ view[r].len > 0 => view[r].lo + view[r].len <= data.lo + data.len)'
      BY <1>8, <2>9, <3>1, <3>2, <3>3, <3>9, <3>10
    <3>. QED  BY <3>8, <3>11
  <2>13. /\ Contents(data)' \in Seq(0..MaxTicks) /\ Len(Contents(data)') = s.len + 1
         /\ \A i \in 1..(s.len + 1) : Contents(data)'[i] = cells'[data.arr][s.lo + i]
    <3>1. PICK n \in Nat : n = s.len + 1
      BY <1>6
    <3>2. PICK lo \in Nat : lo = s.lo
      BY <1>6
    <3>3. lo + n <= Len(e)
      BY <1>6, <2>1, <2>3, <2>6, <3>1, <3>2
    <3>4. Contents(data)' = SubSeq(e, lo + 1, lo + n)
      BY <1>1, <2>7, <2>9, <3>1, <3>2 DEF Contents
    <3>5. cells'[data.arr] = e
      BY <1>1, <2>7
    <3>6. /\ Contents(data)' \in Seq(0..MaxTicks) /\ Len(Contents(data)') = n
          /\ \A i \in 1..n : Contents(data)'[i] = e[lo + i]
      <4>1. PICK v : v = SubSeq(e, lo + 1, lo + n)
        OBVIOUS
      <4>2. e \in Seq(0..MaxTicks)
        BY <2>6
      <4>3. v \in Seq(0..MaxTicks) /\ Len(v) = n /\ \A i \in 1..n : v[i] = e[lo + i]
        BY ONLY <3>3, <4>1, <4>2, n \in Nat, lo \in Nat, Part
      <4>. QED  BY <3>4, <4>1, <4>3
    <3>. QED  BY <3>1, <3>2, <3>5, <3>6
  <2>14. Contents(data)' = Abstract!Kept(Append(Contents(data), p))
    <3>1. cells'[data.arr] = e /\ cells[data.arr] = c
      BY <1>1, <2>2, <2>7
    <3>2. PICK v : v = Contents(data)'
      OBVIOUS
    <3>3. PICK w : w = Contents(data)
      OBVIOUS
    <3>4. v[s.len + 1] = p
      <4>1. s.len + 1 \in 1..(s.len + 1) /\ s.lo + (s.len + 1) = at
        BY <1>6, <2>1
      <4>. QED  BY <2>3, <2>6, <2>13, <3>1, <3>2, <4>1
    <3>5. ASSUME NEW i \in 1..s.len
          PROVE  v[i] = w[i + drop]
      <4>1. i \in 1..(s.len + 1) /\ s.lo + i \in 1..Len(c) /\ s.lo + i # at
        BY <1>6, <2>1, <2>3
      <4>2. i + drop \in 1..data.len /\ data.lo + (i + drop) = s.lo + i
        <5>1. i \in Nat /\ 1 <= i /\ i <= data.len - drop /\ s.lo = data.lo + drop
          BY <1>6
        <5>. QED  BY <1>1, <5>1
      <4>3. v[i] = c[s.lo + i]
        BY <2>6, <2>13, <3>1, <3>2, <4>1
      <4>4. w[i + drop] = c[s.lo + i]
        BY <1>7, <3>1, <3>3, <4>2
      <4>. QED  BY <4>3, <4>4
    <3>6. v \in Seq(0..MaxTicks) /\ Len(v) = s.len + 1 /\ w \in Seq(0..MaxTicks) /\ Len(w) = data.len
      BY <1>7, <2>13, <3>2, <3>3
    <3>7. (drop = 1) <=> (Len(w) >= Window)
      BY <1>5, <3>6
    <3>8. Len(w) <= Window /\ Len(v) = Len(w) + 1 - drop /\ v[Len(v)] = p /\ \A i \in 1..(Len(v) - 1) : v[i] = w[i + drop]
      <4>1. Len(w) <= Window /\ Len(v) = Len(w) + 1 - drop
        BY <1>1, <1>6, <3>6
      <4>2. Len(v) - 1 = s.len
        BY <1>6, <3>6
      <4>. QED  BY <3>4, <3>5, <3>6, <4>1, <4>2
    <3>9. v = Abstract!Kept(Append(w, p))
      BY <1>2, <3>6, <3>7, <3>8, OneMore
    <3>. QED  BY <3>2, <3>3, <3>9
  <2>. QED  BY <1>8, <2>11, <2>12, <2>14
<1>11. CASE ~HasRoom(s) /\ AppendGrown(s, p)
  <2>1. PICK id \in ArrayIds, spare \in 0..(s.len + 1) :
           /\ Free(id)
           /\ cells' = [cells EXCEPT ![id] = Contents(s) \o <<p>> \o [k \in 1..spare |-> 0]]
           /\ data' = [arr |-> id, lo |-> 0, len |-> s.len + 1]
    BY <1>11 DEF AppendGrown
  <2>2. s.lo + s.len <= Len(cells[s.arr])
    BY <1>1, <1>6
  <2>3. /\ Contents(s) \in Seq(0..MaxTicks) /\ Len(Contents(s)) = s.len
        /\ \A i \in 1..s.len : Contents(s)[i] = cells[data.arr][s.lo + i]
    BY <1>6, <2>2, ContentsOf
  <2>4. PICK c : c = Contents(s)
    OBVIOUS
  <2>5. PICK z : z = [k \in 1..spare |-> 0]
    OBVIOUS
  <2>6. z \in Seq(0..MaxTicks) /\ Len(z) \in Nat
    <3>1. spare \in Nat
      BY <1>6
    <3>2. 0 \in 0..MaxTicks
      BY WindowAssumption
    <3>3. z \in Seq(0..MaxTicks)
      BY <2>5, <3>1, <3>2, IsASeq
    <3>. QED  BY <3>3, LenProperties
  <2>7. PICK q : q = c \o <<p>>
    OBVIOUS
  <2>8. /\ q \in Seq(0..MaxTicks) /\ Len(q) = s.len + 1
        /\ q[s.len + 1] = p /\ \A i \in 1..s.len : q[i] = c[i]
    <3>1. <<p>> \in Seq(0..MaxTicks) /\ Len(<<p>>) = 1 /\ <<p>>[1] = p
      BY <1>2
    <3>. QED  BY <1>6, <2>3, <2>4, <2>7, <3>1, ConcatProperties
  <2>9. PICK e : e = q \o z
    OBVIOUS
  <2>10. e \in Seq(0..MaxTicks) /\ Len(e) = s.len + 1 + Len(z) /\ \A i \in 1..(s.len + 1) : e[i] = q[i]
    <3>1. e \in Seq(0..MaxTicks) /\ Len(e) = Len(q) + Len(z) /\ \A i \in 1..Len(q) + Len(z) : e[i] = IF i <= Len(q) THEN q[i] ELSE z[i - Len(q)]
      BY <2>6, <2>8, <2>9, ConcatProperties
    <3>2. \A i \in 1..(s.len + 1) : i \in 1..Len(q) + Len(z) /\ i <= Len(q)
      BY <1>6, <2>6, <2>8
    <3>. QED  BY <2>8, <3>1, <3>2
  <2>11. DOMAIN cells' = ArrayIds /\ \A j \in ArrayIds : cells'[j] = IF j = id THEN e ELSE cells[j]
    BY <2>1, <2>4, <2>5, <2>7, <2>9 DEF MetricTypeOK
  <2>12. data' \in Slices /\ data'.arr = id /\ data'.lo = 0 /\ data'.len = s.len + 1
    BY <1>6, <2>1, WindowAssumption DEF Slices
  <2>13. \A r \in Readers : view[r].arr # id \/ view[r].len = 0
    BY <2>1 DEF Free
  <2>14. \A r \in Readers : SliceOK(view[r])'
    <3>. TAKE r \in Readers
    <3>1. CASE view[r].arr # id
      BY <1>8, <1>9, <2>11, <3>1 DEF SliceOK, Slices, ArrayIds
    <3>2. CASE view[r].len = 0
      <4>1. view[r] = NilSlice
        BY <1>0, <3>2
      <4>2. 0 <= Len(cells'[view[r].arr])
        BY <1>3, <1>6, <1>9, <2>6, <2>10, <2>11
      <4>. QED  BY <1>8, <1>9, <3>2, <4>1, <4>2 DEF SliceOK, Slices, ArrayIds, NilSlice
    <3>. QED  BY <2>13, <3>1, <3>2
  <2>15. MetricTypeOK'
    <3>1. SliceOK(data)'
      BY <1>6, <2>6, <2>10, <2>11, <2>12 DEF SliceOK, Slices, ArrayIds
    <3>. QED  BY <1>3, <1>8, <2>10, <2>11, <2>14, <3>1 DEF MetricTypeOK, ArrayIds
  <2>16. ASSUME NEW r \in Readers
         PROVE  /\ Contents(view[r])' = Contents(view[r])
                /\ (view[r].arr = data.arr /\ view[r].len > 0 => view[r].lo + view[r].len <= data.lo + data.len)'
    <3>1. CASE view[r].arr # id
      BY <1>8, <1>9, <2>11, <2>12, <3>1 DEF Contents
    <3>2. CASE view[r].len = 0
      <4>1. view[r].lo + view[r].len < view[r].lo + 1 /\ view[r].lo + 1 \in Int /\ view[r].lo + view[r].len \in Int
        BY <1>9, <3>2
      <4>2. \A x : SubSeq(x, view[r].lo + 1, view[r].lo + view[r].len) = <<>>
        BY <4>1, SubSeqEmpty
      <4>. QED  BY <1>8, <1>9, <3>2, <4>2 DEF Contents
    <3>. QED  BY <2>13, <3>1, <3>2
  <2>17. /\ Contents(data)' \in Seq(0..MaxTicks) /\ Len(Contents(data)') = s.len + 1
         /\ \A i \in 1..(s.len + 1) : Contents(data)'[i] = e[i]
    <3>1. PICK n \in Nat : n = s.len + 1
      BY <1>6
    <3>2. PICK lo \in Nat : lo = 0
      OBVIOUS
    <3>3. lo + n <= Len(e)
      BY <1>6, <2>6, <2>10, <3>1, <3>2
    <3>4. Contents(data)' = SubSeq(e, lo + 1, lo + n)
      BY <2>11, <2>12, <3>1, <3>2 DEF Contents
    <3>5. /\ Contents(data)' \in Seq(0..MaxTicks) /\ Len(Contents(data)') = n
          /\ \A i \in 1..n : Contents(data)'[i] = e[lo + i]
      <4>1. PICK v : v = SubSeq(e, lo + 1, lo + n)
        OBVIOUS
      <4>2. e \in Seq(0..MaxTicks)
        BY <2>10
      <4>3. v \in Seq(0..MaxTicks) /\ Len(v) = n /\ \A i \in 1..n : v[i] = e[lo + i]
        BY ONLY <3>3, <4>1, <4>2, n \in Nat, lo \in Nat, Part
      <4>. QED  BY <3>4, <4>1, <4>3
    <3>6. \A i \in 1..n : lo + i = i
      BY <3>2
    <3>. QED  BY <3>1, <3>5, <3>6
  <2>18. Contents(data)' = Abstract!Kept(Append(Contents(data), p))
    <3>1. PICK v : v = Contents(data)'
      OBVIOUS
    <3>2. PICK w : w = Contents(data)
      OBVIOUS
    <3>3. v[s.len + 1] = p
      BY <1>6, <2>8, <2>10, <2>17, <3>1
    <3>4. ASSUME NEW i \in 1..s.len
          PROVE  v[i] = w[i + drop]
      <4>1. i \in 1..(s.len + 1)
        BY <1>6
      <4>2. i + drop \in 1..data.len /\ data.lo + (i + drop) = s.lo + i
        <5>1. i \in Nat /\ 1 <= i /\ i <= data.len - drop /\ s.lo = data.lo + drop
          BY <1>6
        <5>. QED  BY <1>1, <5>1
      <4>3. v[i] = cells[data.arr][s.lo + i]
        BY <2>3, <2>4, <2>8, <2>10, <2>17, <3>1, <4>1
      <4>4. w[i + drop] = cells[data.arr][s.lo + i]
        BY <1>7, <3>2, <4>2
      <4>. QED  BY <4>3, <4>4
    <3>5. v \in Seq(0..MaxTicks) /\ Len(v) = s.len + 1 /\ w \in Seq(0..MaxTicks) /\ Len(w) = data.len
      BY <1>7, <2>17, <3>1, <3>2
    <3>6. (drop = 1) <=> (Len(w) >= Window)
      BY <1>5, <3>5
    <3>7. Len(w) <= Window /\ Len(v) = Len(w) + 1 - drop /\ v[Len(v)] = p /\ \A i \in 1..(Len(v) - 1) : v[i] = w[i + drop]
      <4>1. Len(v) - 1 = s.len /\ Len(v) = s.len + 1
        BY <1>6, <3>5
      <4>2. Len(v) = Len(w) + 1 - drop
        BY <1>1, <1>6, <3>5, SMTT(30)
      <4>3. Len(w) <= Window
        BY <1>1, <3>5
      <4>4. \A i \in 1..(Len(v) - 1) : v[i] = w[i + drop]
        BY <3>4, <4>1
      <4>. QED  BY <3>3, <4>1, <4>2, <4>3, <4>4
    <3>8. v = Abstract!Kept(Append(w, p))
      BY <1>2, <3>5, <3>6, <3>7, OneMore
    <3>. QED  BY <3>1, <3>2, <3>8
  <2>. QED  BY <1>8, <2>15, <2>16, <2>18
<1>. QED  BY <1>4, <1>10, <1>11 DEF Save

\* Every step of the store is one of the abstract window, or changes nothing of it.
LEMMA WindowStep ==
  ASSUME WindowInv, [MetricNext]_metricVars
  PROVE  WindowInv' /\ [Abstract!WindowNext]_(Abstract!windowVars)
<1>. MetricTypeOK
  BY DEF WindowInv
<1>1. ASSUME NEW r \in Readers
      PROVE  /\ Len(Contents(view[r])) = view[r].len /\ Contents(view[r]) \in Seq(0..MaxTicks)
             /\ view[r].len \in Nat
             /\ Contents(view[r]) = <<>> <=> view[r].len = 0
             /\ view[r].len = 0 <=> view[r] = NilSlice
  <2>1. view[r] \in Slices /\ view[r].lo + view[r].len <= Len(cells[view[r].arr]) /\ view[r].len \in Nat
    BY WindowAssumption DEF MetricTypeOK, SliceOK, Slices
  <2>2. Len(Contents(view[r])) = view[r].len /\ Contents(view[r]) \in Seq(0..MaxTicks)
    BY <2>1, ContentsOf
  <2>3. view[r].len = 0 <=> view[r] = NilSlice
    BY DEF WindowInv, NilSlice
  <2>. QED  BY <2>1, <2>2, <2>3, EmptySeq
<1>2. data \in Slices /\ data.lo \in Nat /\ data.len \in Nat
      /\ Len(Contents(data)) = data.len /\ Contents(data) \in Seq(0..MaxTicks)
  <2>1. data \in Slices /\ data.lo + data.len <= Len(cells[data.arr]) /\ data.lo \in Nat /\ data.len \in Nat
    BY WindowAssumption DEF MetricTypeOK, SliceOK, Slices
  <2>. QED  BY <2>1, ContentsOf
<1>3. NilSlice \in Slices /\ NilSlice.len = 0 /\ NilSlice.lo = 0 /\ NilSlice.arr = 1
  <2>1. Cardinality(Readers) \in Nat
    BY WindowAssumption, FS_CardinalityType
  <2>. QED  BY <2>1, WindowAssumption DEF NilSlice, Slices, ArrayIds
<1>4. CASE Collect
  <2>1. tick' = tick + 1 /\ saving' = saving \cup {tick + 1} /\ UNCHANGED <<cells, data, view>> /\ tick < MaxTicks
    BY <1>4 DEF Collect
  <2>2. WindowInv'
    <3>1. tick' \in 0..MaxTicks /\ saving' \subseteq 1..tick'
      BY <2>1, WindowAssumption DEF MetricTypeOK
    <3>. QED  BY <2>1, <3>1 DEF WindowInv, MetricTypeOK, SliceOK, Slices, ArrayIds, NilSlice
  <2>3. Abstract!Collect
    BY <2>1 DEF Abstract!Collect, Contents
  <2>. QED  BY <2>2, <2>3 DEF Abstract!WindowNext
<1>5. ASSUME NEW p \in saving, Save(p)
      PROVE  WindowInv' /\ Abstract!Save(p)
  <2>1. /\ MetricTypeOK' /\ view' = view
        /\ \A r \in Readers :
             /\ Contents(view[r])' = Contents(view[r])
             /\ (view[r].arr = data.arr /\ view[r].len > 0 => view[r].lo + view[r].len <= data.lo + data.len)'
        /\ Contents(data)' = Abstract!Kept(Append(Contents(data), p))
    BY <1>5, SaveEffect
  <2>2. WindowInv'
    BY <2>1 DEF WindowInv, NilSlice
  <2>3. [r \in Readers |-> Contents(view[r])]' = [r \in Readers |-> Contents(view[r])]
    BY <2>1
  <2>4. Abstract!Save(p)
    BY <1>5, <2>1, <2>3 DEF Abstract!Save, Save
  <2>. QED  BY <2>2, <2>4
<1>6. ASSUME NEW r \in Readers, GetAll(r)
      PROVE  WindowInv' /\ Abstract!GetAll(r)
  <2>1. view' = [view EXCEPT ![r] = data] /\ UNCHANGED <<tick, saving, cells, data>> /\ data.len > 0 /\ view[r] = NilSlice
    BY <1>6 DEF GetAll
  <2>2. DOMAIN view = Readers
    BY DEF MetricTypeOK
  <2>3. \A q \in Readers : view'[q] = IF q = r THEN data ELSE view[q]
    BY <2>1, <2>2
  <2>4. WindowInv'
    <3>1. MetricTypeOK'
      BY <2>1, <2>2, <2>3 DEF MetricTypeOK, SliceOK, Slices, ArrayIds
    <3>2. \A q \in Readers : view'[q].len = 0 => view'[q] = NilSlice
      BY <2>1, <2>3 DEF WindowInv
    <3>3. \A q \in Readers : view'[q].arr = data.arr /\ view'[q].len > 0 => view'[q].lo + view'[q].len <= data.lo + data.len
      <4>. TAKE q \in Readers
      <4>1. CASE q = r
        BY <1>2, <2>3, <4>1
      <4>2. CASE q # r
        BY <2>3, <4>2 DEF WindowInv
      <4>. QED  BY <4>1, <4>2
    <3>. QED  BY <2>1, <3>1, <3>2, <3>3 DEF WindowInv, NilSlice
  <2>5. [q \in Readers |-> Contents(view[q])][r] = <<>> /\ Contents(data) # <<>>
    BY <1>1, <1>2, <1>3, <2>1, EmptySeq
  <2>6. Contents(data)' = Contents(data)
    BY <2>1 DEF Contents
  <2>7. [q \in Readers |-> Contents(view[q])]' = [[q \in Readers |-> Contents(view[q])] EXCEPT ![r] = Contents(data)]
    <3>1. \A q \in Readers : Contents(view[q])' = IF q = r THEN Contents(data) ELSE Contents(view[q])
      <4>. TAKE q \in Readers
      <4>1. CASE q = r
        <5>1. view'[q] = data /\ cells' = cells
          BY <2>1, <2>3, <4>1
        <5>. QED  BY <4>1, <5>1 DEF Contents
      <4>2. CASE q # r
        <5>1. view'[q] = view[q] /\ cells' = cells
          BY <2>1, <2>3, <4>2
        <5>. QED  BY <4>2, <5>1 DEF Contents
      <4>. QED  BY <4>1, <4>2
    <3>. QED  BY <3>1
  <2>8. Abstract!GetAll(r)
    BY <2>1, <2>5, <2>6, <2>7 DEF Abstract!GetAll
  <2>. QED  BY <2>4, <2>8
<1>7. ASSUME NEW r \in Readers, Release(r)
      PROVE  WindowInv' /\ Abstract!Release(r)
  <2>1. view' = [view EXCEPT ![r] = NilSlice] /\ UNCHANGED <<tick, saving, cells, data>> /\ view[r].len > 0
    BY <1>7 DEF Release
  <2>2. DOMAIN view = Readers
    BY DEF MetricTypeOK
  <2>3. \A q \in Readers : view'[q] = IF q = r THEN NilSlice ELSE view[q]
    BY <2>1, <2>2
  <2>4. 1 \in ArrayIds /\ Len(cells[1]) \in Nat
    <3>1. 1 \in ArrayIds
      BY <1>3 DEF Slices, NilSlice
    <3>. QED  BY <3>1, LenProperties DEF MetricTypeOK
  <2>5. WindowInv'
    <3>1. SliceOK(NilSlice)'
      BY <1>3, <2>1, <2>4 DEF SliceOK, Slices, ArrayIds, NilSlice
    <3>2. MetricTypeOK'
      BY <2>1, <2>2, <2>3, <3>1 DEF MetricTypeOK, SliceOK, Slices, ArrayIds, NilSlice
    <3>. QED  BY <1>3, <2>1, <2>3, <3>2 DEF WindowInv, NilSlice
  <2>6. [q \in Readers |-> Contents(view[q])][r] # <<>>
    BY <1>1, <2>1
  <2>7. \A x : SubSeq(x, 0 + 1, 0 + 0) = <<>>
    BY SubSeqEmpty, 0 + 0 < 0 + 1
  <2>8. [q \in Readers |-> Contents(view[q])]' = [[q \in Readers |-> Contents(view[q])] EXCEPT ![r] = <<>>]
    <3>1. \A q \in Readers : Contents(view[q])' = IF q = r THEN <<>> ELSE Contents(view[q])
      <4>. TAKE q \in Readers
      <4>1. CASE q = r
        BY <1>3, <2>1, <2>3, <2>7, <4>1 DEF Contents
      <4>2. CASE q # r
        <5>1. view'[q] = view[q] /\ cells' = cells
          BY <2>1, <2>3, <4>2
        <5>. QED  BY <4>2, <5>1 DEF Contents
      <4>. QED  BY <4>1, <4>2
    <3>. QED  BY <3>1
  <2>9. Contents(data)' = Contents(data)
    BY <2>1 DEF Contents
  <2>10. Abstract!Release(r)
    BY <2>1, <2>6, <2>8, <2>9 DEF Abstract!Release
  <2>. QED  BY <2>5, <2>10
<1>8. CASE UNCHANGED metricVars
  <2>1. WindowInv'
    BY <1>8 DEF metricVars, WindowInv, MetricTypeOK, SliceOK, Slices, ArrayIds, NilSlice
  <2>2. UNCHANGED Abstract!windowVars
    BY <1>8 DEF metricVars, Abstract!windowVars, Contents
  <2>. QED  BY <2>1, <2>2
<1>. QED  BY <1>4, <1>5, <1>6, <1>7, <1>8 DEF MetricNext, Abstract!WindowNext

\* memory.go:18-33, multi.go:17-22: though append moves from array to array and the
\* handlers read without the lock, nobody can tell the store from one that keeps the
\* last Window snapshots and hands out copies.
THEOREM StoreIsTheWindow == MetricSpec => ImplementsWindow
<1>1. WindowInv => MetricTypeOK
  BY DEF WindowInv
<1>2. MetricInit => Abstract!WindowInit
  <2>. SUFFICES ASSUME MetricInit PROVE Abstract!WindowInit
    OBVIOUS
  <2>1. \A x : SubSeq(x, 0 + 1, 0 + 0) = <<>>
    BY SubSeqEmpty, 0 + 0 < 0 + 1
  <2>2. Contents(NilSlice) = <<>>
    BY <2>1 DEF Contents, NilSlice
  <2>. QED  BY <2>2 DEF MetricInit, Abstract!WindowInit
<1>. QED  BY <1>1, <1>2, WindowStart, WindowStep, PTL DEF MetricSpec, ImplementsWindow, Abstract!WindowSpec

==============================================================================
