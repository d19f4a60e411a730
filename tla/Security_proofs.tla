-------------------------- MODULE Security_proofs --------------------------
(***************************************************************************)
(* What watches over the host and the dashboard: the login limiter, the    *)
(* event log, the connection watcher, the tables of sockets it reads, the  *)
(* SSH watcher, for any number of requests, any window and threshold, any  *)
(* cap, any connections and services, any sockets with addresses of both   *)
(* kinds, and any number of lines, files and cut lines.                    *)
(***************************************************************************)
EXTENDS EventLog, ConnWatcher, SSHWatcher, ProcTCP, LoginLimiter, LimiterOps_proofs,
        FiniteSetTheorems, SequenceTheorems, WellFoundedInduction

------------------------------------------------------------------------------
(* LoginLimiter *)

\* The failures a pair can collect before it is blocked.
MaxCounted == MaxFails + Overshoot

Checking(k) == {p \in Procs : req[p] = k}

\* session.go:119-143: a request that passed the check has its failure still to
\* come, so those in flight count as much as those counted.
InFlightBounded ==
    \A k \in DOMAIN entries : k # Idle /\ entries[k].fails + Cardinality(Checking(k)) <= MaxCounted

\* An entry's count against the failures there were: all of them since its first,
\* and before it at most one full count within a window.
CountsInStep ==
    /\ \A k \in DOMAIN entries :
          LET e == entries[k]
          IN  /\ \A a \in Ages : a < e.age => hist[k][a] <= e.fails
              /\ e.age <= LoginWindow => e.fails <= hist[k][e.age]
              /\ hist[k][LoginWindow - 1] <= e.fails + MaxCounted
    /\ \A k \in Keys \ DOMAIN entries : hist[k][LoginWindow - 1] <= MaxCounted

HistoryOfAges == \A k \in Keys, a, b \in Ages : a <= b => hist[k][a] <= hist[k][b]

LimInv == LimTypeOK /\ HistoryOfAges /\ InFlightBounded /\ CountsInStep

\* The limiter's constants as numbers.
LEMMA LimNumbers ==
  /\ MaxFails \in Nat \ {0} /\ LoginWindow \in Nat \ {0}
  /\ Cardinality(Procs) \in Nat
  /\ MaxCounted = MaxFails + Cardinality(Procs) - 1 /\ MaxCounted \in Nat
  /\ Ages = 0..LoginWindow /\ LoginWindow \in Ages /\ (LoginWindow - 1) \in Ages /\ 0 \in Ages
BY LimiterAssumption, ProcsAssumption, FS_CardinalityType DEF MaxCounted, Overshoot, Ages

\* A request that starts or ends a check changes the count of its pair by one.
LEMMA CheckingCounts ==
  ASSUME LimTypeOK, NEW p \in Procs, NEW k
  PROVE  /\ Cardinality(Checking(k)) \in 0..Cardinality(Procs)
         /\ req' = [req EXCEPT ![p] = Idle] /\ k # Idle =>
               Cardinality(Checking(k)') = IF req[p] = k THEN Cardinality(Checking(k)) - 1
                                           ELSE Cardinality(Checking(k))
         /\ \A j : req' = [req EXCEPT ![p] = j] /\ req[p] = Idle /\ k # Idle =>
               /\ j = k => Cardinality(Checking(k)') = Cardinality(Checking(k)) + 1
               /\ j # k => Cardinality(Checking(k)') = Cardinality(Checking(k))
               /\ Cardinality(Checking(k)') <= Cardinality(Procs)
<1>1. /\ IsFiniteSet(Checking(k)) /\ Cardinality(Checking(k)) \in Nat
      /\ Cardinality(Checking(k)) <= Cardinality(Procs)
  BY ProcsAssumption, FS_Subset, FS_CardinalityType DEF Checking
<1>2. ASSUME req' = [req EXCEPT ![p] = Idle], k # Idle
      PROVE  Cardinality(Checking(k)') = IF req[p] = k THEN Cardinality(Checking(k)) - 1
                                         ELSE Cardinality(Checking(k))
  <2>1. Checking(k)' = Checking(k) \ {p}
    BY <1>2 DEF Checking, LimTypeOK
  <2>2. p \in Checking(k) <=> req[p] = k
    BY DEF Checking
  <2>. QED  BY <1>1, <2>1, <2>2, FS_RemoveElement
<1>3. ASSUME NEW j, req' = [req EXCEPT ![p] = j], req[p] = Idle, k # Idle
      PROVE  /\ j = k => Cardinality(Checking(k)') = Cardinality(Checking(k)) + 1
             /\ j # k => Cardinality(Checking(k)') = Cardinality(Checking(k))
             /\ Cardinality(Checking(k)') <= Cardinality(Procs)
  <2>1. j = k => Checking(k)' = Checking(k) \cup {p}
    BY <1>3 DEF Checking, LimTypeOK
  <2>2. j # k => Checking(k)' = Checking(k)
    BY <1>3 DEF Checking, LimTypeOK
  <2>3. p \notin Checking(k)
    BY <1>3 DEF Checking
  <2>4. Checking(k)' \subseteq Procs
    BY DEF Checking
  <2>5. Cardinality(Checking(k)') <= Cardinality(Procs)
    BY <2>4, ProcsAssumption, FS_Subset
  <2>. QED  BY <1>1, <2>1, <2>2, <2>3, <2>5, FS_AddElement
<1>. QED  BY <1>1, <1>2, <1>3

\* What a failed attempt changes: the pair's own entry and history.
LEMMA FailEffect ==
  ASSUME LimTypeOK, NEW p \in Procs, Fails(p)
  PROVE  \E j \in Keys :
            /\ j = req[p] /\ j # Idle
            /\ j \in DOMAIN entries'
            /\ \A k \in DOMAIN entries' \ {j} : k \in DOMAIN entries /\ entries'[k] = entries[k]
            /\ \A k \in DOMAIN entries \ DOMAIN entries' : entries[k].age > LoginWindow
            /\ j \in DOMAIN entries /\ entries[j].age <= LoginWindow =>
                  entries'[j].fails = entries[j].fails + 1 /\ entries'[j].age = entries[j].age
            /\ ~(j \in DOMAIN entries /\ entries[j].age <= LoginWindow) =>
                  entries'[j].fails = 1 /\ entries'[j].age = 0
            /\ \A k \in Keys \ {j} : hist'[k] = hist[k]
            /\ \A a \in Ages : hist'[j][a] = hist[j][a] + 1
<1>1. req[p] \in Keys /\ req[p] # Idle
  BY DEF Fails, LimTypeOK
<1>2. /\ req[p] \in DOMAIN entries'
      /\ \A k \in DOMAIN entries' \ {req[p]} : k \in DOMAIN entries /\ entries'[k] = entries[k]
      /\ \A k \in DOMAIN entries \ DOMAIN entries' : entries[k].age > LoginWindow
      /\ req[p] \in DOMAIN entries /\ entries[req[p]].age <= LoginWindow =>
            entries'[req[p]] = [fails |-> entries[req[p]].fails + 1, age |-> entries[req[p]].age]
      /\ ~(req[p] \in DOMAIN entries /\ entries[req[p]].age <= LoginWindow) =>
            entries'[req[p]] = [fails |-> 1, age |-> 0]
  BY <1>1, FailCountsOne DEF Fails, LimTypeOK
<1>3. /\ \A k \in Keys \ {req[p]} : hist'[k] = hist[k]
      /\ \A a \in Ages : hist'[req[p]][a] = hist[req[p]][a] + 1
  BY <1>1 DEF Fails, LimTypeOK
<1>. QED  BY <1>1, <1>2, <1>3

\* What a tick changes: everything is a tick older.
LEMMA TickEffect ==
  ASSUME LimTypeOK, TimePasses
  PROVE  /\ DOMAIN entries' = DOMAIN entries
         /\ \A k \in DOMAIN entries :
               /\ entries'[k].fails = entries[k].fails
               /\ entries'[k].age = IF entries[k].age > LoginWindow THEN entries[k].age ELSE entries[k].age + 1
         /\ \A k \in Keys : hist'[k][0] = 0
         /\ \A k \in Keys : \A a \in Ages : a + 1 \in Ages => hist'[k][a + 1] = hist[k][a]
         /\ hist' \in [Keys -> [Ages -> Nat]]
<1>1. hist' = [k \in Keys |-> [a \in Ages |-> IF a = 0 THEN 0 ELSE hist[k][a - 1]]]
  BY DEF TimePasses
<1>2. \A a \in Ages : a # 0 => a - 1 \in Ages
  BY LimNumbers
<1>3. \A a \in Ages : a + 1 # 0 /\ (a + 1) - 1 = a
  BY LimNumbers
<1>4. \A k \in Keys, a \in Ages : hist[k][a] \in Nat
  BY DEF LimTypeOK
<1>5. hist' \in [Keys -> [Ages -> Nat]]
  BY <1>1, <1>2, <1>4
<1>6. \A k \in Keys : \A a \in Ages : a + 1 \in Ages => hist'[k][a + 1] = hist[k][a]
  BY <1>1, <1>3
<1>7. \A k \in Keys : hist'[k][0] = 0
  BY <1>1, LimNumbers
<1>. QED  BY <1>5, <1>6, <1>7, AgedByOne DEF TimePasses, LimTypeOK

\* Every age but the youngest is the next after one.
LEMMA AgeBefore ==
  ASSUME NEW a \in Ages, a # 0
  PROVE  \E b \in Ages : a = b + 1
<1>1. a - 1 \in Ages /\ a = (a - 1) + 1
  BY LimNumbers
<1>. QED  BY <1>1

\* No failure is counted before the first request.
LEMMA LimStart == LimInit => LimInv
<1>1. ASSUME LimInit
      PROVE  LimTypeOK
  BY <1>1 DEF LimInit, LimTypeOK, EntriesOK
<1>2. ASSUME LimInit
      PROVE  HistoryOfAges /\ InFlightBounded /\ CountsInStep
  BY <1>2, LimNumbers DEF LimInit, HistoryOfAges, InFlightBounded, CountsInStep
<1>. QED  BY <1>1, <1>2 DEF LimInv

\* Types and the shape of the history, kept by every step.
LEMMA LimTypeStep ==
  ASSUME LimInv, [LimNext]_limVars
  PROVE  LimTypeOK' /\ HistoryOfAges'
<1>. USE LimNumbers DEF LimInv, LimTypeOK, HistoryOfAges
<1>1. ASSUME NEW p \in Procs, NEW k \in Keys, Refused(p, k) \/ Admitted(p, k)
      PROVE  LimTypeOK' /\ HistoryOfAges'
  BY <1>1, AfterCheckOK, SMTT(30) DEF Refused, Admitted, limVars
<1>2. ASSUME NEW p \in Procs, Fails(p)
      PROVE  LimTypeOK' /\ HistoryOfAges'
  <2>1. req[p] \in Keys
    BY <1>2 DEF Fails
  <2>2. EntriesOK(entries', Keys)
    BY <1>2, <2>1, AfterFailOK DEF Fails
  <2>. QED  BY <1>2, <2>1, <2>2, SMTT(30) DEF Fails
<1>3. ASSUME NEW p \in Procs, Succeeds(p)
      PROVE  LimTypeOK' /\ HistoryOfAges'
  <2>1. EntriesOK(entries', Keys)
    BY <1>3, AfterResetOK DEF Succeeds
  <2>. QED  BY <1>3, <2>1 DEF Succeeds
<1>4. CASE TimePasses
  <2>1. EntriesOK(entries', Keys) /\ hist' \in [Keys -> [Ages -> Nat]]
    BY <1>4, AgedOK, TickEffect DEF TimePasses
  <2>2. ASSUME NEW k \in Keys, NEW a \in Ages, NEW b \in Ages, a <= b
        PROVE  hist'[k][a] <= hist'[k][b]
    <3>1. CASE a = 0
      <4>1. hist'[k][0] = 0 /\ hist'[k][b] \in Nat
        BY <1>4, <2>1, TickEffect, SMTT(30)
      <4>. QED  BY <3>1, <4>1
    <3>2. CASE a # 0
      <4>1. PICK c \in Ages, d \in Ages : a = c + 1 /\ b = d + 1 /\ c <= d
        BY <2>2, <3>2, AgeBefore
      <4>2. hist'[k][a] = hist[k][c] /\ hist'[k][b] = hist[k][d]
        BY <1>4, <4>1, TickEffect
      <4>3. hist[k][c] <= hist[k][d]
        BY <4>1
      <4>. QED  BY <4>2, <4>3
    <3>. QED  BY <3>1, <3>2
  <2>. QED  BY <1>4, <2>1, <2>2 DEF TimePasses
<1>5. CASE RestartLimiter
  BY <1>5 DEF RestartLimiter, EntriesOK
<1>6. CASE UNCHANGED limVars
  BY <1>6 DEF limVars
<1>. QED  BY <1>1, <1>2, <1>3, <1>4, <1>5, <1>6 DEF LimNext

\* session.go:119-143: a check adds to those in flight only below the limit.
LEMMA LimFlightStep ==
  ASSUME LimInv, [LimNext]_limVars
  PROVE  InFlightBounded'
<1>. USE LimNumbers DEF LimInv
<1>0. \A k \in DOMAIN entries : entries[k] \in Entry /\ k \in Keys
  BY DEF LimTypeOK, EntriesOK
<1>1. ASSUME NEW p \in Procs, NEW j \in Keys, Admitted(p, j), NEW k \in DOMAIN entries'
      PROVE  k # Idle /\ entries'[k].fails + Cardinality(Checking(k)') <= MaxCounted
  <2>1. k \in DOMAIN entries /\ entries'[k] = entries[k] /\ (k = j => entries[k].fails < MaxFails)
    BY <1>1, CheckDropsOver DEF Admitted, LimTypeOK
  <2>2. k # Idle /\ entries[k].fails + Cardinality(Checking(k)) <= MaxCounted
    BY <2>1 DEF InFlightBounded
  <2>3. /\ j # k => Cardinality(Checking(k)') = Cardinality(Checking(k))
        /\ Cardinality(Checking(k)') <= Cardinality(Procs)
    BY <1>1, <2>2, CheckingCounts DEF Admitted
  <2>4. Cardinality(Checking(k)') \in Nat
    BY ProcsAssumption, FS_Subset, FS_CardinalityType DEF Checking
  <2>. QED  BY <1>0, <2>1, <2>2, <2>3, <2>4 DEF Entry
<1>2. ASSUME NEW p \in Procs, Fails(p), NEW k \in DOMAIN entries'
      PROVE  k # Idle /\ entries'[k].fails + Cardinality(Checking(k)') <= MaxCounted
  <2>1. PICK j \in Keys :
            /\ j = req[p] /\ j # Idle
            /\ \A i \in DOMAIN entries' \ {j} : i \in DOMAIN entries /\ entries'[i] = entries[i]
            /\ j \in DOMAIN entries /\ entries[j].age <= LoginWindow => entries'[j].fails = entries[j].fails + 1
            /\ ~(j \in DOMAIN entries /\ entries[j].age <= LoginWindow) => entries'[j].fails = 1
    BY <1>2, FailEffect
  <2>2. CASE k # j
    <3>1. k \in DOMAIN entries /\ entries'[k] = entries[k]
      BY <2>1, <2>2
    <3>2. k # Idle /\ entries[k].fails + Cardinality(Checking(k)) <= MaxCounted
      BY <3>1 DEF InFlightBounded
    <3>3. Cardinality(Checking(k)') = Cardinality(Checking(k))
      BY <1>2, <2>1, <2>2, <3>2, CheckingCounts DEF Fails
    <3>. QED  BY <3>1, <3>2, <3>3
  <2>3. CASE k = j
    <3>1. /\ Cardinality(Checking(k)) \in 0..Cardinality(Procs)
          /\ Cardinality(Checking(k)') = Cardinality(Checking(k)) - 1
      BY <1>2, <2>1, <2>3, CheckingCounts DEF Fails
    <3>2. CASE k \in DOMAIN entries /\ entries[k].age <= LoginWindow
      <4>1. entries[k].fails + Cardinality(Checking(k)) <= MaxCounted
        BY <3>2 DEF InFlightBounded
      <4>. QED  BY <1>0, <2>1, <2>3, <3>1, <3>2, <4>1 DEF Entry
    <3>3. CASE ~(k \in DOMAIN entries /\ entries[k].age <= LoginWindow)
      BY <2>1, <2>3, <3>1, <3>3
    <3>. QED  BY <3>2, <3>3
  <2>. QED  BY <2>2, <2>3
<1>3. ASSUME NEW p \in Procs, Succeeds(p), NEW k \in DOMAIN entries'
      PROVE  k # Idle /\ entries'[k].fails + Cardinality(Checking(k)') <= MaxCounted
  <2>1. /\ DOMAIN entries' = DOMAIN entries \ {req[p]}
        /\ \A i \in DOMAIN entries' : entries'[i] = entries[i]
    BY <1>3, ResetDropsOne DEF Succeeds
  <2>2. k # Idle /\ entries[k].fails + Cardinality(Checking(k)) <= MaxCounted
    BY <2>1 DEF InFlightBounded
  <2>3. Cardinality(Checking(k)') = Cardinality(Checking(k))
    BY <1>3, <2>1, <2>2, CheckingCounts DEF Succeeds
  <2>. QED  BY <2>1, <2>2, <2>3
<1>4. CASE TimePasses
  <2>1. DOMAIN entries' = DOMAIN entries /\ \A k \in DOMAIN entries : entries'[k].fails = entries[k].fails
    BY <1>4, AgedByOne DEF TimePasses, LimTypeOK
  <2>2. \A k : Checking(k)' = Checking(k)
    BY <1>4 DEF TimePasses, Checking
  <2>. QED  BY <2>1, <2>2 DEF InFlightBounded
<1>5. CASE RestartLimiter
  BY <1>5 DEF RestartLimiter, InFlightBounded
<1>6. CASE UNCHANGED limVars
  BY <1>6 DEF limVars, InFlightBounded, Checking
<1>. QED  BY <1>1, <1>2, <1>3, <1>4, <1>5, <1>6 DEF LimNext, Refused, InFlightBounded

\* session.go:217-269: counts follow the history through failures, sweeps and time.
LEMMA LimCountStep ==
  ASSUME LimInv, [LimNext]_limVars
  PROVE  CountsInStep'
<1>. USE LimNumbers DEF LimInv
<1>0. /\ \A k \in DOMAIN entries : entries[k] \in Entry /\ k \in Keys
      /\ \A k \in Keys, a \in Ages : hist[k][a] \in Nat
  BY DEF LimTypeOK, EntriesOK
<1>a. \A k \in DOMAIN entries : entries[k].fails <= MaxCounted
  <2>. TAKE k \in DOMAIN entries
  <2>1. Cardinality(Checking(k)) \in Nat
    BY ProcsAssumption, FS_Subset, FS_CardinalityType DEF Checking
  <2>. QED  BY <1>0, <2>1 DEF InFlightBounded, Entry
\* Once its window is over, an entry's own failures are all that a window holds.
<1>b. \A k \in DOMAIN entries : entries[k].age >= LoginWindow => hist[k][LoginWindow - 1] <= MaxCounted
  <2>. TAKE k \in DOMAIN entries
  <2>1. entries[k].age \in Nat /\ entries[k].fails \in Nat /\ k \in Keys
    BY <1>0 DEF Entry
  <2>2. LoginWindow - 1 \in Ages /\ LoginWindow \in Nat
    OBVIOUS
  <2>3. \A a \in Ages : a < entries[k].age => hist[k][a] <= entries[k].fails
    BY DEF CountsInStep
  <2>4. entries[k].age >= LoginWindow => hist[k][LoginWindow - 1] <= entries[k].fails
    BY <2>1, <2>2, <2>3
  <2>5. hist[k][LoginWindow - 1] \in Nat /\ entries[k].fails <= MaxCounted /\ MaxCounted \in Nat
    BY <1>0, <1>a, <2>1, <2>2
  <2>. QED  BY ONLY <2>1, <2>4, <2>5
<1>1. ASSUME NEW p \in Procs, NEW j \in Keys, Admitted(p, j)
      PROVE  CountsInStep'
  <2>1. /\ \A k \in DOMAIN entries' : k \in DOMAIN entries /\ entries'[k] = entries[k]
        /\ \A k \in DOMAIN entries \ DOMAIN entries' : entries[k].age >= LoginWindow
    BY <1>1, CheckDropsOver DEF Admitted, LimTypeOK
  <2>2. hist' = hist
    BY <1>1 DEF Admitted
  <2>. QED  BY <1>b, <2>1, <2>2 DEF CountsInStep
<1>2. ASSUME NEW p \in Procs, Fails(p)
      PROVE  CountsInStep'
  <2>1. PICK j \in Keys :
            /\ j \in DOMAIN entries'
            /\ \A k \in DOMAIN entries' \ {j} : k \in DOMAIN entries /\ entries'[k] = entries[k]
            /\ \A k \in DOMAIN entries \ DOMAIN entries' : entries[k].age > LoginWindow
            /\ j \in DOMAIN entries /\ entries[j].age <= LoginWindow =>
                  entries'[j].fails = entries[j].fails + 1 /\ entries'[j].age = entries[j].age
            /\ ~(j \in DOMAIN entries /\ entries[j].age <= LoginWindow) =>
                  entries'[j].fails = 1 /\ entries'[j].age = 0
            /\ \A k \in Keys \ {j} : hist'[k] = hist[k]
            /\ \A a \in Ages : hist'[j][a] = hist[j][a] + 1
    BY <1>2, FailEffect
  <2>2. ASSUME NEW k \in DOMAIN entries', k # j
        PROVE  LET e == entries'[k]
               IN  /\ \A a \in Ages : a < e.age => hist'[k][a] <= e.fails
                   /\ e.age <= LoginWindow => e.fails <= hist'[k][e.age]
                   /\ hist'[k][LoginWindow - 1] <= e.fails + MaxCounted
    BY <1>0, <2>1, <2>2 DEF CountsInStep
  <2>3. ASSUME NEW k \in Keys \ DOMAIN entries'
        PROVE  hist'[k][LoginWindow - 1] <= MaxCounted
    <3>1. k # j /\ hist'[k] = hist[k]
      BY <2>1, <2>3
    <3>2. CASE k \in DOMAIN entries
      BY <1>0, <1>b, <2>1, <2>3, <3>1, <3>2 DEF Entry
    <3>3. CASE k \notin DOMAIN entries
      BY <3>1, <3>3 DEF CountsInStep
    <3>. QED  BY <3>2, <3>3
  <2>4. \A a \in Ages : hist[j][a] \in Nat
    BY <1>0
  <2>5. LET e == entries'[j]
        IN  /\ \A a \in Ages : a < e.age => hist'[j][a] <= e.fails
            /\ e.age <= LoginWindow => e.fails <= hist'[j][e.age]
            /\ hist'[j][LoginWindow - 1] <= e.fails + MaxCounted
    <3>1. CASE j \in DOMAIN entries /\ entries[j].age <= LoginWindow
      <4>1. PICK n \in Nat, age \in Ages :
                /\ n = entries[j].fails /\ age = entries[j].age
                /\ \A a \in Ages : a < age => hist[j][a] <= n
                /\ n <= hist[j][age]
                /\ hist[j][LoginWindow - 1] <= n + MaxCounted
        <5>1. /\ entries[j].age \in Ages /\ entries[j].fails \in Nat
              /\ \A a \in Ages : a < entries[j].age => hist[j][a] <= entries[j].fails
              /\ entries[j].fails <= hist[j][entries[j].age]
              /\ hist[j][LoginWindow - 1] <= entries[j].fails + MaxCounted
          BY <1>0, <3>1 DEF CountsInStep, Entry
        <5>. QED  BY ONLY <5>1
      <4>2. ASSUME NEW a \in Ages, a < age
            PROVE  hist'[j][a] <= n + 1
        <5>1. hist'[j][a] = hist[j][a] + 1 /\ hist[j][a] \in Nat /\ hist[j][a] <= n
          BY <2>1, <2>4, <4>1, <4>2
        <5>. QED  BY <5>1
      <4>3. n + 1 <= hist'[j][age]
        <5>1. hist'[j][age] = hist[j][age] + 1 /\ hist[j][age] \in Nat /\ n <= hist[j][age]
          BY <2>1, <2>4, <4>1
        <5>. QED  BY <5>1
      <4>4. hist'[j][LoginWindow - 1] <= n + 1 + MaxCounted
        <5>1. hist'[j][LoginWindow - 1] = hist[j][LoginWindow - 1] + 1 /\ hist[j][LoginWindow - 1] \in Nat /\ hist[j][LoginWindow - 1] <= n + MaxCounted
          BY <2>1, <2>4, <4>1
        <5>. QED  BY <5>1, LimNumbers, SMTT(30)
      <4>5. entries'[j].fails = n + 1 /\ entries'[j].age = age
        BY <2>1, <3>1, <4>1
      <4>. QED  BY <4>2, <4>3, <4>4, <4>5
    <3>2. CASE ~(j \in DOMAIN entries /\ entries[j].age <= LoginWindow)
      <4>1. hist[j][LoginWindow - 1] <= MaxCounted
        BY <1>0, <1>b, <3>2 DEF CountsInStep, Entry
      <4>2. \A a \in Ages : ~(a < 0)
        OBVIOUS
      <4>3. hist[j][0] \in Nat /\ hist[j][LoginWindow - 1] \in Nat
        BY <2>4
      <4>4. 1 <= hist'[j][0] /\ hist'[j][LoginWindow - 1] <= 1 + MaxCounted
        BY <2>1, <4>1, <4>3, SMTT(30)
      <4>. QED  BY <2>1, <3>2, <4>2, <4>4
    <3>. QED  BY <3>1, <3>2
  <2>6. DOMAIN entries' \subseteq Keys
    BY <1>0, <2>1
  <2>. QED  BY <2>2, <2>3, <2>5, <2>6 DEF CountsInStep
<1>3. ASSUME NEW p \in Procs, Succeeds(p)
      PROVE  CountsInStep'
  <2>1. /\ DOMAIN entries' = DOMAIN entries \ {req[p]}
        /\ \A k \in DOMAIN entries' : entries'[k] = entries[k]
    BY <1>3, ResetDropsOne DEF Succeeds
  <2>2. \A k \in Keys : hist'[k] = IF k = req[p] THEN [a \in Ages |-> 0] ELSE hist[k]
    BY <1>3 DEF Succeeds, LimTypeOK
  <2>. QED  BY <1>0, <2>1, <2>2 DEF CountsInStep
<1>4. CASE TimePasses
  <2>1. \A k \in Keys : hist'[k][LoginWindow - 1] <= hist[k][LoginWindow - 1]
    <3>. TAKE k \in Keys
    <3>1. CASE LoginWindow = 1
      BY <1>0, <1>4, <3>1, TickEffect
    <3>2. CASE LoginWindow # 1
      <4>1. LoginWindow - 2 \in Ages /\ LoginWindow - 1 = (LoginWindow - 2) + 1
        BY <3>2
      <4>2. hist'[k][LoginWindow - 1] = hist[k][LoginWindow - 2]
        BY <1>4, <4>1, TickEffect
      <4>3. hist[k][LoginWindow - 2] <= hist[k][LoginWindow - 1]
        BY <4>1 DEF HistoryOfAges
      <4>. QED  BY <4>2, <4>3
    <3>. QED  BY <3>1, <3>2
  <2>2. \A k \in Keys : hist'[k][LoginWindow - 1] \in Nat
    BY <1>4, TickEffect
  <2>3. DOMAIN entries' = DOMAIN entries
    BY <1>4, TickEffect
  <2>4. ASSUME NEW k \in DOMAIN entries
        PROVE  LET e == entries'[k]
               IN  /\ \A a \in Ages : a < e.age => hist'[k][a] <= e.fails
                   /\ e.age <= LoginWindow => e.fails <= hist'[k][e.age]
                   /\ hist'[k][LoginWindow - 1] <= e.fails + MaxCounted
    <3>1. /\ entries[k].fails \in Nat /\ entries[k].age \in Nat /\ k \in Keys
          /\ \A a \in Ages : hist[k][a] \in Nat
      <4>1. k \in Keys /\ entries[k] \in Entry
        BY <1>0, <2>4
      <4>2. \A a \in Ages : hist[k][a] \in Nat
        BY <1>0, <4>1
      <4>. QED  BY <4>1, <4>2 DEF Entry
    <3>2. /\ \A a \in Ages : a < entries[k].age => hist[k][a] <= entries[k].fails
          /\ entries[k].age <= LoginWindow => entries[k].fails <= hist[k][entries[k].age]
          /\ hist[k][LoginWindow - 1] <= entries[k].fails + MaxCounted
      BY <2>4 DEF CountsInStep
    <3>3. /\ entries'[k].fails = entries[k].fails
          /\ entries'[k].age = IF entries[k].age > LoginWindow THEN entries[k].age ELSE entries[k].age + 1
          /\ hist'[k][0] = 0
          /\ \A a \in Ages : a + 1 \in Ages => hist'[k][a + 1] = hist[k][a]
      BY <1>4, <3>1, TickEffect
    <3>4. ASSUME NEW a \in Ages, a < entries'[k].age
          PROVE  hist'[k][a] <= entries'[k].fails
      <4>1. CASE a = 0
        BY <3>1, <3>3, <4>1
      <4>2. CASE a # 0
        <5>1. PICK b \in Ages : a = b + 1
          BY <4>2, AgeBefore
        <5>2. b < entries[k].age
          BY <3>1, <3>3, <3>4, <5>1
        <5>. QED  BY <3>2, <3>3, <5>1, <5>2
      <4>. QED  BY <4>1, <4>2
    <3>5. ASSUME entries'[k].age <= LoginWindow
          PROVE  entries'[k].fails <= hist'[k][entries'[k].age]
      <4>1. entries'[k].age = entries[k].age + 1 /\ entries[k].age \in Ages /\ entries[k].age + 1 \in Ages
        BY <3>1, <3>3, <3>5
      <4>2. hist'[k][entries[k].age + 1] = hist[k][entries[k].age]
        BY <3>3, <4>1
      <4>. QED  BY <3>1, <3>2, <3>3, <4>1, <4>2
    <3>6. hist'[k][LoginWindow - 1] <= entries'[k].fails + MaxCounted
      <4>1. hist'[k][LoginWindow - 1] <= hist[k][LoginWindow - 1] /\ hist'[k][LoginWindow - 1] \in Nat /\ hist[k][LoginWindow - 1] \in Nat
        BY <2>1, <2>2, <3>1
      <4>2. hist[k][LoginWindow - 1] <= entries[k].fails + MaxCounted
        BY <3>2
      <4>3. entries'[k].fails = entries[k].fails /\ entries[k].fails \in Nat
        BY <3>1, <3>3
      <4>4. MaxCounted \in Nat
        BY <3>1
      <4>. QED  BY ONLY <4>1, <4>2, <4>3, <4>4
    <3>. QED  BY <3>4, <3>5, <3>6
  <2>5. ASSUME NEW k \in Keys \ DOMAIN entries
        PROVE  hist'[k][LoginWindow - 1] <= MaxCounted
    <3>1. hist[k][LoginWindow - 1] <= MaxCounted
      BY DEF CountsInStep
    <3>2. hist'[k][LoginWindow - 1] <= hist[k][LoginWindow - 1] /\ hist'[k][LoginWindow - 1] \in Nat /\ hist[k][LoginWindow - 1] \in Nat
      BY <1>0, <2>1, <2>2
    <3>. QED  BY <3>1, <3>2
  <2>. QED  BY <2>3, <2>4, <2>5 DEF CountsInStep
<1>5. CASE RestartLimiter
  BY <1>5 DEF RestartLimiter, CountsInStep
<1>6. CASE UNCHANGED limVars
  BY <1>6 DEF limVars, CountsInStep
<1>. QED  BY <1>1, <1>2, <1>3, <1>4, <1>5, <1>6 DEF LimNext, Refused

\* The limiter's invariant holds of every reachable state.
LEMMA LimInvariant == LimSpec => []LimInv
<1>1. LimInv /\ [LimNext]_limVars => LimInv'
  BY LimTypeStep, LimFlightStep, LimCountStep DEF LimInv
<1>. QED  BY <1>1, LimStart, PTL DEF LimSpec

\* session.go:217-269: with any number of racing requests a pair gets at most two
\* windows' worth of wrong passwords through in a window.
THEOREM AttemptsAreLimited == LimSpec => []AttemptsPerWindow
<1>1. ASSUME LimInv
      PROVE  AttemptsPerWindow
  <2>1. \A k \in DOMAIN entries : entries[k] \in Entry /\ k \in Keys
    BY <1>1 DEF LimInv, LimTypeOK, EntriesOK
  <2>2. \A k \in DOMAIN entries : entries[k].fails <= MaxCounted
    <3>. TAKE k \in DOMAIN entries
    <3>1. Cardinality(Checking(k)) \in Nat
      BY ProcsAssumption, FS_Subset, FS_CardinalityType DEF Checking
    <3>. QED  BY <1>1, <2>1, <3>1, LimNumbers DEF LimInv, InFlightBounded, Entry
  <2>3. \A k \in Keys : hist[k][LoginWindow - 1] \in Nat
    BY <1>1, LimNumbers DEF LimInv, LimTypeOK
  <2>4. \A k \in Keys : hist[k][LoginWindow - 1] <= 2 * MaxCounted
    <3>. TAKE k \in Keys
    <3>1. CASE k \in DOMAIN entries
      <4>1. hist[k][LoginWindow - 1] <= entries[k].fails + MaxCounted
        BY <1>1, <3>1 DEF LimInv, CountsInStep
      <4>2. entries[k].fails \in Nat /\ entries[k].fails <= MaxCounted
        BY <2>1, <2>2, <3>1 DEF Entry
      <4>. QED  BY <2>3, <4>1, <4>2, LimNumbers
    <3>2. CASE k \notin DOMAIN entries
      BY <1>1, <2>3, <3>2, LimNumbers DEF LimInv, CountsInStep
    <3>. QED  BY <3>1, <3>2
  <2>. QED  BY <1>1, <2>2, <2>4 DEF LimInv, AttemptsPerWindow, FailsBounded, MaxCounted
<1>. QED  BY <1>1, LimInvariant, PTL

\* session.go:232-244: nobody is blocked without MaxFails failures of that very pair.
THEOREM NobodyBlockedForNothing == LimSpec => []NoFalseBlock
<1>1. ASSUME LimInv, NEW k \in Keys, Blocked(entries, k)
      PROVE  hist[k][LoginWindow - 1] >= MaxFails
  <2>1. k \in DOMAIN entries /\ entries[k].fails >= MaxFails /\ entries[k].age < LoginWindow
    BY <1>1 DEF Blocked, Full
  <2>2. entries[k] \in Entry
    BY <1>1, <2>1 DEF LimInv, LimTypeOK, EntriesOK
  <2>3. entries[k].fails <= hist[k][entries[k].age]
    BY <1>1, <2>1, <2>2, LimNumbers DEF LimInv, CountsInStep, Entry
  <2>4. entries[k].age \in Ages /\ entries[k].age <= LoginWindow - 1
    BY <2>1, <2>2, LimNumbers DEF Entry
  <2>5. hist[k][entries[k].age] <= hist[k][LoginWindow - 1]
    BY <1>1, <2>4, LimNumbers DEF LimInv, HistoryOfAges
  <2>6. hist[k][entries[k].age] \in Nat /\ hist[k][LoginWindow - 1] \in Nat
    BY <1>1, <2>4, LimNumbers DEF LimInv, LimTypeOK
  <2>. QED  BY <2>1, <2>2, <2>3, <2>5, <2>6, LimNumbers, SMTT(30) DEF Entry
<1>2. LimInv => NoFalseBlock
  BY <1>1 DEF NoFalseBlock
<1>. QED  BY <1>2, LimInvariant, PTL

\* session.go:217-269: a block ends with its window, by the right password of a
\* request that was past the check, or at a restart; a sweep ends none.
THEOREM BlocksEndByRight == LimSpec => BlockEndsOnlyByRight
<1>. DEFINE Right(k) == \/ k \in DOMAIN entries' /\ entries'[k].age = LoginWindow
                        \/ SucceedsNow(k)
                        \/ AllGone
<1>1. ASSUME LimInv, [LimNext]_limVars, NEW k \in Keys, Blocked(entries, k), ~Blocked(entries', k)
      PROVE  Right(k)
  <2>1. k \in DOMAIN entries /\ entries[k].fails >= MaxFails /\ entries[k].age < LoginWindow
    BY <1>1 DEF Blocked, Full
  <2>2. entries[k] \in Entry /\ EntriesOK(entries, Keys)
    BY <1>1, <2>1 DEF LimInv, LimTypeOK, EntriesOK
  <2>3. k \in DOMAIN entries' => entries'[k] # entries[k]
    BY <1>1, <2>1 DEF Blocked, Full
  <2>4. ASSUME NEW p \in Procs, NEW j \in Keys, Admitted(p, j)
        PROVE  FALSE
    <3>1. /\ \A i \in DOMAIN entries' : entries'[i] = entries[i]
          /\ \A i \in DOMAIN entries \ DOMAIN entries' : entries[i].age >= LoginWindow
      BY <2>2, <2>4, CheckDropsOver DEF Admitted
    <3>. QED  BY <2>1, <2>2, <2>3, <3>1, LimNumbers DEF Entry
  <2>5. ASSUME NEW p \in Procs, Fails(p)
        PROVE  FALSE
    <3>1. PICK j \in Keys :
              /\ j \in DOMAIN entries'
              /\ \A i \in DOMAIN entries' \ {j} : entries'[i] = entries[i]
              /\ \A i \in DOMAIN entries \ DOMAIN entries' : entries[i].age > LoginWindow
              /\ j \in DOMAIN entries /\ entries[j].age <= LoginWindow =>
                    entries'[j].fails = entries[j].fails + 1 /\ entries'[j].age = entries[j].age
      BY <1>1, <2>5, FailEffect DEF LimInv
    <3>2. k \in DOMAIN entries'
      BY <2>1, <2>2, <3>1, LimNumbers DEF Entry
    <3>3. entries'[k].fails = entries[k].fails + 1 /\ entries'[k].age = entries[k].age
      BY <2>1, <2>2, <2>3, <3>1, <3>2, LimNumbers DEF Entry
    <3>. QED  BY <1>1, <2>1, <2>2, <3>2, <3>3, LimNumbers DEF Blocked, Full, Entry
  <2>6. ASSUME NEW p \in Procs, Succeeds(p)
        PROVE  SucceedsNow(k)
    <3>1. /\ DOMAIN entries' = DOMAIN entries \ {req[p]}
          /\ \A i \in DOMAIN entries' : entries'[i] = entries[i]
      BY <2>6, ResetDropsOne DEF Succeeds
    <3>2. req[p] = k /\ k \notin DOMAIN entries'
      BY <2>1, <2>3, <3>1
    <3>3. req'[p] = Idle
      BY <1>1, <2>6 DEF Succeeds, LimInv, LimTypeOK
    <3>. QED  BY <3>2, <3>3 DEF SucceedsNow
  <2>7. CASE TimePasses
    <3>1. /\ k \in DOMAIN entries'
          /\ entries'[k].fails = entries[k].fails
          /\ entries'[k].age = entries[k].age + 1
      BY <2>1, <2>2, <2>7, AgedByOne, LimNumbers DEF TimePasses, Entry
    <3>. QED  BY <1>1, <2>1, <2>2, <3>1, LimNumbers DEF Blocked, Full, Entry
  <2>8. CASE RestartLimiter
    BY <2>8 DEF RestartLimiter, AllGone
  <2>9. CASE UNCHANGED entries
    BY <1>1, <2>9 DEF Blocked, Full
  <2>. QED  BY <1>1, <2>4, <2>5, <2>6, <2>7, <2>8, <2>9 DEF LimNext, Refused, limVars
<1>2. LimInv /\ [LimNext]_limVars =>
          [\A k \in Keys : (Blocked(entries, k) /\ ~Blocked(entries', k)) => Right(k)]_limVars
  BY <1>1
<1>. QED  BY <1>2, LimInvariant, PTL DEF LimSpec, BlockEndsOnlyByRight

------------------------------------------------------------------------------
(* EventLog *)

\* A list of events the log may hold: in order, within the cap, all of them past.
ALog(s) ==
    /\ s \in Seq(1..MaxEvents)
    /\ Increasing(s) /\ Len(s) <= Cap
    /\ \A i \in 1..Len(s) : s[i] < next

\* What the file and the log say of each other, and that the temporary file, which
\* may replace the file at any rename, is a log as well.
LogInv == FileIsRecent /\ ALog(events) /\ ALog(disk) /\ ALog(tmp)

\* A part of a sequence has the elements of the whole.
LEMMA PartOfSeq ==
  ASSUME NEW S, NEW s \in Seq(S), NEW m \in 1..(Len(s) + 1), NEW n \in 0..Len(s)
  PROVE  SubSeq(s, m, n) \in Seq(S)
<1>1. \A i \in m..n : s[i] \in S
  BY ElementOfSeq
<1>. QED  BY <1>1, SubSeqProperties

\* eventlog.go:42-44: capping keeps the newest events and their order.
LEMMA CappedKeepsOrder ==
  ASSUME NEW s \in Seq(1..MaxEvents), Increasing(s)
  PROVE  /\ Capped(s) \in Seq(1..MaxEvents) /\ Increasing(Capped(s)) /\ Len(Capped(s)) <= Cap
         /\ \A i \in 1..Len(Capped(s)) : \E j \in 1..Len(s) : Capped(s)[i] = s[j]
<1>1. Cap \in Nat \ {0} /\ Len(s) \in Nat
  BY EventLogAssumption
<1>2. CASE Len(s) > Cap
  <2>1. Capped(s) = SubSeq(s, Len(s) - Cap + 1, Len(s))
    BY <1>2 DEF Capped, LastOf
  <2>2. /\ Len(Capped(s)) = Cap
        /\ \A i \in 1..Cap : i + (Len(s) - Cap) \in 1..Len(s) /\ Capped(s)[i] = s[i + (Len(s) - Cap)]
    <3>1. Len(Capped(s)) = Cap
      BY <1>1, <1>2, <2>1
    <3>2. ASSUME NEW i \in 1..Cap PROVE i + (Len(s) - Cap) \in 1..Len(s) /\ Capped(s)[i] = s[i + (Len(s) - Cap)]
      <4>1. i + (Len(s) - Cap) \in 1..Len(s) /\ (Len(s) - Cap + 1) + i - 1 = i + (Len(s) - Cap)
        BY <1>1, <1>2
      <4>2. Capped(s)[i] = s[(Len(s) - Cap + 1) + i - 1]
        BY <1>1, <1>2, <2>1
      <4>. QED  BY <4>1, <4>2
    <3>. QED  BY <3>1, <3>2
  <2>3. Capped(s) \in Seq(1..MaxEvents)
    <3>1. Len(s) - Cap + 1 \in 1..(Len(s) + 1) /\ Len(s) \in 0..Len(s)
      BY <1>1, <1>2
    <3>. QED  BY <2>1, <3>1, PartOfSeq
  <2>4. ASSUME NEW i \in 1..(Len(Capped(s)) - 1)
        PROVE  Capped(s)[i] < Capped(s)[i + 1]
    <3>. DEFINE j == i + (Len(s) - Cap)
    <3>1. j \in 1..(Len(s) - 1) /\ Capped(s)[i] = s[j] /\ Capped(s)[i + 1] = s[j + 1]
      BY <1>1, <1>2, <2>2
    <3>2. s[j] < s[j + 1]
      BY <3>1 DEF Increasing
    <3>. QED  BY <3>1, <3>2
  <2>5. \A i \in 1..Len(Capped(s)) : \E j \in 1..Len(s) : Capped(s)[i] = s[j]
    BY <1>1, <2>2
  <2>6. Increasing(Capped(s)) /\ Len(Capped(s)) <= Cap
    BY <1>1, <2>2, <2>4 DEF Increasing
  <2>. QED  BY <2>3, <2>5, <2>6
<1>3. CASE ~(Len(s) > Cap)
  BY <1>1, <1>3 DEF Capped
<1>. QED  BY <1>2, <1>3

\* A new log is empty, and so is its file.
LEMMA LogStart == LogInit => LogInv
<1>1. ASSUME LogInit
      PROVE  ALog(<<>>) /\ LogTypeOK /\ next = 1
  BY <1>1, EventLogAssumption DEF LogInit, ALog, Increasing, LogTypeOK
<1>. QED  BY <1>1, EventLogAssumption DEF LogInit, LogInv, FileIsRecent, Chronological, ALog

\* eventlog.go: appends, rewrites in part, renames, deaths and restarts.
LEMMA LogStep ==
  ASSUME LogInv, [LogNext]_logVars
  PROVE  LogInv'
<1>. USE DEF LogInv
<1>0. /\ LogTypeOK
      /\ whole => \/ events = disk
                  \/ logPc # "unlocked" /\ events = Capped(Append(disk, next - 1))
  BY DEF FileIsRecent
<1>1. CASE next <= MaxEvents /\ AppendEvent(next)
  <2>. DEFINE longer == Append(events, next)
  <2>1. next \in 1..MaxEvents /\ MaxEvents \in Nat
    BY <1>0, <1>1, EventLogAssumption DEF LogTypeOK
  <2>2. /\ longer \in Seq(1..MaxEvents) /\ Len(longer) = Len(events) + 1
        /\ \A i \in 1..Len(events) : longer[i] = events[i]
        /\ longer[Len(events) + 1] = next
    BY <1>0, <2>1 DEF LogTypeOK
  <2>3. Increasing(longer)
    BY <1>0, <2>1, <2>2 DEF ALog, Increasing
  <2>4. \A i \in 1..Len(longer) : longer[i] < next + 1
    BY <2>1, <2>2 DEF ALog
  <2>. HIDE DEF longer
  <2>5. events' = Capped(longer) /\ next' = next + 1
    BY <1>1 DEF AppendEvent, longer
  <2>6. ALog(events)'
    BY <2>2, <2>3, <2>4, <2>5, CappedKeepsOrder DEF ALog, Increasing
  <2>7. ALog(disk)' /\ ALog(tmp)'
    BY <1>1, <2>1, SMTT(30) DEF AppendEvent, ALog, Increasing
  <2>8. whole' => logPc' # "unlocked" /\ events' = Capped(Append(disk', next' - 1))
    BY <1>0, <1>1, <2>1 DEF AppendEvent
  <2>9. LogTypeOK'
    BY <1>0, <1>1, <2>1, <2>5, <2>6 DEF LogTypeOK, AppendEvent, ALog
  <2>. QED  BY <2>6, <2>7, <2>8, <2>9 DEF FileIsRecent, Chronological, ALog
<1>2. CASE CreateTmp
  <2>1. ALog(<<>>)'
    BY <1>2, EventLogAssumption DEF ALog, Increasing
  <2>. QED  BY <1>0, <1>2, <2>1 DEF CreateTmp, FileIsRecent, LogTypeOK, Chronological, ALog, Increasing
<1>3. CASE KeepOldFile
  BY <1>0, <1>3 DEF KeepOldFile, FileIsRecent, LogTypeOK, Chronological, ALog, Increasing
<1>4. CASE WriteTmp
  BY <1>0, <1>4 DEF WriteTmp, FileIsRecent, LogTypeOK, Chronological, ALog, Increasing
<1>5. CASE WriteTmpShort
  <2>1. PICK n \in 0..(Len(events) - 1) : tmp' = SubSeq(events, 1, n)
    BY <1>5 DEF WriteTmpShort
  <2>2. events \in Seq(1..MaxEvents) /\ Len(events) \in Nat /\ n \in Nat /\ n < Len(events)
    BY <1>0, <2>1 DEF LogTypeOK
  <2>3. /\ tmp' \in Seq(1..MaxEvents) /\ Len(tmp') = n
        /\ \A i \in 1..n : tmp'[i] = events[i]
    <3>1. 1 \in 1..(Len(events) + 1) /\ n \in 0..Len(events)
      BY <2>2
    <3>2. tmp' \in Seq(1..MaxEvents)
      BY <2>1, <2>2, <3>1, PartOfSeq
    <3>. QED  BY <2>1, <2>2, <3>2
  <2>4. Increasing(tmp')
    BY <2>2, <2>3 DEF ALog, Increasing
  <2>5. ALog(tmp)'
    BY <1>5, <2>2, <2>3, <2>4, EventLogAssumption DEF WriteTmpShort, ALog, Increasing
  <2>. QED  BY <1>0, <1>5, <2>5 DEF WriteTmpShort, FileIsRecent, LogTypeOK, Chronological, ALog, Increasing
<1>6. CASE Rename
  BY <1>0, <1>6 DEF Rename, FileIsRecent, LogTypeOK, Chronological, ALog, Increasing
<1>7. CASE RestartLog
  BY <1>0, <1>7 DEF RestartLog, FileIsRecent, LogTypeOK, Chronological, ALog, Increasing
<1>8. CASE UNCHANGED logVars
  BY <1>0, <1>8 DEF logVars, FileIsRecent, LogTypeOK, Chronological, ALog, Increasing
<1>. QED  BY <1>1, <1>2, <1>3, <1>4, <1>5, <1>6, <1>7, <1>8 DEF LogNext

\* eventlog.go:40-99: whatever the disk does and wherever the process dies, the log
\* and its file are in order and capped, and the file is the log before or after
\* the last append, as long as the last finished rewrite did not fail.
THEOREM FileFollowsLog == LogSpec => []FileIsRecent
<1>1. LogInv => FileIsRecent
  BY DEF LogInv
<1>. QED  BY <1>1, LogStart, LogStep, PTL DEF LogSpec

------------------------------------------------------------------------------
(* ConnWatcher *)

\* Between the two reads of a poll: what was open or served and stayed is in the
\* first table's entries, or will be in the second's.
SteadyInSight ==
    connPc = "tcp6" =>
       /\ steady \subseteq open /\ \A c \in steady : c.file = "tcp" => c \in seen
       /\ serving \subseteq listening /\ \A s \in serving : s.file = "tcp" => s \in heard

\* connections.go:101-107: only a pair that has been out of sight is unknown to the
\* watcher; and one that has not been is connected and watched now.
KnownOrGone == \A k \in Pairs : k \notin gap => k \in prevActive /\ k \notin Quiet(open, listening)

\* In the middle of a poll, what the first table had to show of such a pair, its
\* connection or the service of its port, has been read.
FirstHalfRead ==
    connPc = "tcp6" => \A c \in Conns : PairOf(c) \notin gap =>
        /\ c.file = "tcp" => \E d \in seen : PairOf(d) = PairOf(c)
        /\ \/ c.port \in Explicit
           \/ /\ AutoPorts
              /\ \A s \in Services : s.port = c.port /\ s.file = "tcp" =>
                    \E r \in heard : r.port = c.port /\ ~r.loopback

WatchInv == ConnTypeOK /\ SteadyInSight /\ (OneTable => KnownOrGone /\ FirstHalfRead)

\* A pair is out of sight exactly if no open connection of it is to a watched port.
LEMMA InSight ==
  ASSUME NEW C \in SUBSET Conns, NEW S, NEW k \in Pairs
  PROVE  /\ k \in Quiet(C, S) <=> k \notin Active(C, S)
         /\ k \in Active(C, S) <=> \E c \in C : PairOf(c) = k /\ c.port \in Watched(S)
         /\ Active(C, S) \subseteq Pairs
BY DEF Quiet, Active, WatchedOpen, Pairs

\* connections.go:101-106: an event for each entry of a pair not known yet.
LEMMA EventsOfUnknown ==
  ASSUME NEW C \in SUBSET Conns, NEW S
  PROVE  /\ NewEvents(C, S) \in [Pairs -> 0..Cardinality(Conns)]
         /\ \A k \in Pairs : NewEvents(C, S)[k] > 0 <=> k \in Active(C, S) /\ k \notin prevActive
<1>. DEFINE Of(k) == {c \in WatchedOpen(C, S) : PairOf(c) = k}
<1>1. ASSUME NEW k
      PROVE  /\ Cardinality(Of(k)) \in 0..Cardinality(Conns)
             /\ Cardinality(Of(k)) > 0 <=> k \in Active(C, S)
  <2>1. Of(k) \in SUBSET Conns
    BY DEF WatchedOpen
  <2>2. /\ IsFiniteSet(Of(k)) /\ Cardinality(Of(k)) \in Nat /\ Cardinality(Conns) \in Nat
        /\ Cardinality(Of(k)) <= Cardinality(Conns)
    BY <2>1, ConnAssumption, FS_Subset, FS_CardinalityType
  <2>3. Cardinality(Of(k)) = 0 <=> Of(k) = {}
    BY <2>2, FS_EmptySet
  <2>4. Of(k) # {} <=> k \in Active(C, S)
    BY DEF Active
  <2>. QED  BY <2>2, <2>3, <2>4
<1>2. Cardinality(Conns) \in Nat
  BY ConnAssumption, FS_CardinalityType
<1>. HIDE DEF Of
<1>3. NewEvents(C, S) = [k \in Pairs |-> IF k \in prevActive THEN 0 ELSE Cardinality(Of(k))]
  BY DEF NewEvents, Of
<1>. QED  BY <1>1, <1>2, <1>3

\* Nothing is logged before the first poll.
LEMMA WatchStart == ConnInit => WatchInv
<1>1. Cardinality(Conns) \in Nat
  BY ConnAssumption, FS_CardinalityType
<1>2. ASSUME ConnInit
      PROVE  ConnTypeOK
  BY <1>1, <1>2 DEF ConnInit, ConnTypeOK
<1>. QED  BY <1>2 DEF ConnInit, WatchInv, SteadyInSight, KnownOrGone, FirstHalfRead, Pairs

\* What a second read does, with the entries of both tables.
LEMMA PollEnds ==
  ASSUME WatchInv, ReadTcp6
  PROVE  \E C \in SUBSET Conns, S \in SUBSET Services :
            /\ C = seen \cup {c \in open : c.file = "tcp6"}
            /\ S = heard \cup {s \in listening : s.file = "tcp6"}
            /\ logged' = NewEvents(C, S) /\ prevActive' = Active(C, S)
            /\ gap' = (gap \ {k \in Pairs : NewEvents(C, S)[k] > 0}) \cup Quiet(open, listening)
            /\ connPc = "tcp6" /\ connPc' = "wait"
            /\ open' = open /\ listening' = listening
            /\ seen' = {} /\ heard' = {} /\ steady' = {} /\ serving' = {}
BY DEF ReadTcp6, Heard, WatchInv, ConnTypeOK

\* A pair in sight all along is found by the poll, whichever tables it is in.
LEMMA PollFinds ==
  ASSUME WatchInv, OneTable, connPc = "tcp6", NEW k \in Pairs, k \notin gap,
         NEW C, C = seen \cup {c \in open : c.file = "tcp6"},
         NEW S, S = heard \cup {s \in listening : s.file = "tcp6"}
  PROVE  k \in Active(C, S)
<1>1. ConnTypeOK /\ KnownOrGone /\ FirstHalfRead
  BY DEF WatchInv
<1>2. C \in SUBSET Conns /\ S \in SUBSET Services
  BY <1>1 DEF ConnTypeOK
<1>3. PICK c \in open : PairOf(c) = k /\ c.port \in Watched(listening)
  BY <1>1, InSight DEF KnownOrGone, ConnTypeOK
<1>4. c \in Conns /\ c.file \in Files
  BY <1>1, <1>3, ConnAssumption DEF ConnTypeOK
<1>5. PICK d \in C : PairOf(d) = k
  <2>1. CASE c.file = "tcp"
    BY <1>1, <1>3, <1>4, <2>1 DEF FirstHalfRead
  <2>2. CASE c.file = "tcp6"
    BY <1>3, <2>2
  <2>. QED  BY <1>4, <2>1, <2>2 DEF Files
<1>6. d.port = c.port
  BY <1>3, <1>5 DEF PairOf
<1>7. c.port \in Watched(S)
  <2>1. CASE c.port \in Explicit
    BY <2>1 DEF Watched
  <2>2. CASE c.port \notin Explicit
    <3>1. AutoPorts /\ \E s \in listening : s.port = c.port /\ ~s.loopback
      BY <1>3, <2>2 DEF Watched
    <3>2. PICK s \in listening : s.port = c.port /\ ~s.loopback
      BY <3>1
    <3>3. \E r \in S : r.port = c.port /\ ~r.loopback
      <4>1. s \in Services /\ s.file \in Files
        BY <1>1, <3>2, ConnAssumption DEF ConnTypeOK
      <4>2. CASE s.file = "tcp"
        BY <1>1, <1>3, <1>4, <2>2, <3>2, <4>1, <4>2 DEF FirstHalfRead
      <4>3. CASE s.file = "tcp6"
        BY <3>2, <4>3
      <4>. QED  BY <4>1, <4>2, <4>3 DEF Files
    <3>. QED  BY <3>1, <3>3 DEF Watched
  <2>. QED  BY <2>1, <2>2
<1>. QED  BY <1>2, <1>5, <1>6, <1>7, InSight

\* connections.go: the world moves between the two reads of a poll.
LEMMA WatchStep ==
  ASSUME WatchInv, [ConnNext]_connVars
  PROVE  WatchInv'
<1>0. ConnTypeOK /\ SteadyInSight /\ (OneTable => KnownOrGone /\ FirstHalfRead)
  BY DEF WatchInv
<1>1. ASSUME NEW C \in SUBSET Conns, NEW S \in SUBSET Services, World(C, S)
      PROVE  WatchInv'
  <2>1. /\ open' = C /\ listening' = S
        /\ gap' = gap \cup Quiet(C, S) /\ steady' = steady \cap C /\ serving' = serving \cap S
        /\ UNCHANGED <<connPc, seen, heard, prevActive, logged>>
    BY <1>1 DEF World
  <2>2. ConnTypeOK'
    BY <1>0, <2>1 DEF ConnTypeOK, Quiet
  <2>3. SteadyInSight'
    BY <1>0, <2>1 DEF SteadyInSight
  <2>4. ASSUME OneTable
        PROVE  KnownOrGone' /\ FirstHalfRead'
    BY <1>0, <2>1, <2>4 DEF KnownOrGone, FirstHalfRead
  <2>. QED  BY <2>2, <2>3, <2>4 DEF WatchInv, OneTable
<1>2. CASE ReadTcp
  <2>1. ConnTypeOK'
    BY <1>0, <1>2 DEF ReadTcp, ConnTypeOK
  <2>2. SteadyInSight'
    BY <1>2 DEF ReadTcp, SteadyInSight
  <2>3. ASSUME OneTable
        PROVE  KnownOrGone'
    BY <1>0, <1>2, <2>3 DEF ReadTcp, KnownOrGone
  <2>4. ASSUME OneTable, NEW c \in Conns, PairOf(c) \notin gap
        PROVE  /\ c.file = "tcp" => \E d \in seen' : PairOf(d) = PairOf(c)
               /\ \/ c.port \in Explicit
                  \/ /\ AutoPorts
                     /\ \A s \in Services : s.port = c.port /\ s.file = "tcp" =>
                           \E r \in heard' : r.port = c.port /\ ~r.loopback
    <3>1. PairOf(c) \in Pairs /\ PairOf(c) \notin Quiet(open, listening)
      BY <1>0, <2>4 DEF KnownOrGone, Pairs
    <3>2. PICK d \in open : PairOf(d) = PairOf(c) /\ d.port \in Watched(listening)
      BY <1>0, <3>1, InSight DEF ConnTypeOK
    <3>3. d \in Conns /\ d.file = c.file /\ d.port = c.port
      BY <1>0, <2>4, <3>2 DEF ConnTypeOK, OneTable, PairOf
    <3>4. c.file = "tcp" => d \in seen'
      BY <1>2, <3>2, <3>3 DEF ReadTcp
    <3>5. ASSUME c.port \notin Explicit
          PROVE  AutoPorts /\ \A s \in Services : s.port = c.port /\ s.file = "tcp" =>
                            \E r \in heard' : r.port = c.port /\ ~r.loopback
      <4>1. AutoPorts /\ \E r \in listening : r.port = c.port /\ ~r.loopback
        BY <3>2, <3>3, <3>5 DEF Watched
      <4>2. PICK r \in listening : r.port = c.port /\ ~r.loopback
        BY <4>1
      <4>3. \A s \in Services : s.port = c.port /\ s.file = "tcp" => r \in heard'
        BY <1>0, <1>2, <2>4, <4>2 DEF ReadTcp, ConnTypeOK, OneTable
      <4>. QED  BY <4>1, <4>2, <4>3
    <3>. QED  BY <3>2, <3>4, <3>5
  <2>5. OneTable => FirstHalfRead'
    BY <1>2, <2>4 DEF ReadTcp, FirstHalfRead
  <2>. QED  BY <2>1, <2>2, <2>3, <2>5 DEF WatchInv, OneTable
<1>3. CASE ReadTcp6
  <2>1. PICK C \in SUBSET Conns, S \in SUBSET Services :
            /\ C = seen \cup {c \in open : c.file = "tcp6"}
            /\ S = heard \cup {s \in listening : s.file = "tcp6"}
            /\ logged' = NewEvents(C, S) /\ prevActive' = Active(C, S)
            /\ gap' = (gap \ {k \in Pairs : NewEvents(C, S)[k] > 0}) \cup Quiet(open, listening)
            /\ connPc = "tcp6" /\ connPc' = "wait"
            /\ open' = open /\ listening' = listening
            /\ seen' = {} /\ heard' = {} /\ steady' = {} /\ serving' = {}
    BY <1>3, PollEnds
  <2>2. Quiet(open, listening) \subseteq Pairs
    BY DEF Quiet
  <2>3. Active(C, S) \subseteq Pairs
    BY DEF Active, Pairs, WatchedOpen
  <2>4. ConnTypeOK'
    BY <1>0, <2>1, <2>2, <2>3, EventsOfUnknown DEF ConnTypeOK
  <2>5. SteadyInSight' /\ FirstHalfRead'
    BY <2>1 DEF SteadyInSight, FirstHalfRead
  <2>6. ASSUME OneTable, NEW k \in Pairs, k \notin gap'
        PROVE  k \in prevActive' /\ k \notin Quiet(open', listening')
    <3>1. k \notin Quiet(open, listening) /\ (k \notin gap \/ NewEvents(C, S)[k] > 0)
      BY <2>1, <2>6
    <3>2. k \in Active(C, S)
      BY <2>1, <2>6, <3>1, PollFinds, EventsOfUnknown
    <3>. QED  BY <2>1, <3>1, <3>2
  <2>7. OneTable => KnownOrGone'
    BY <2>6 DEF KnownOrGone
  <2>. QED  BY <2>4, <2>5, <2>7 DEF WatchInv, OneTable
<1>4. CASE RestartWatch
  <2>1. Cardinality(Conns) \in Nat
    BY ConnAssumption, FS_CardinalityType
  <2>2. ConnTypeOK'
    BY <1>0, <1>4, <2>1 DEF RestartWatch, ConnTypeOK
  <2>. QED  BY <1>4, <2>2 DEF RestartWatch, WatchInv, SteadyInSight, KnownOrGone, FirstHalfRead
<1>5. CASE UNCHANGED connVars
  BY <1>0, <1>5 DEF connVars, WatchInv, ConnTypeOK, SteadyInSight, KnownOrGone, FirstHalfRead
<1>6. ASSUME NEW c \in Conns, Connect(c) \/ Disconnect(c)
      PROVE  \E C \in SUBSET Conns, S \in SUBSET Services : World(C, S)
  BY <1>0, <1>6 DEF Connect, Disconnect, ConnTypeOK
<1>7. ASSUME NEW s \in Services, Listen(s) \/ StopListen(s)
      PROVE  \E C \in SUBSET Conns, S \in SUBSET Services : World(C, S)
  BY <1>0, <1>7 DEF Listen, StopListen, ConnTypeOK
<1>. QED  BY <1>1, <1>2, <1>3, <1>4, <1>5, <1>6, <1>7 DEF ConnNext

\* The connection watcher's invariant holds of every reachable state.
LEMMA WatchInvariant == ConnSpec => []WatchInv
BY WatchStart, WatchStep, PTL DEF ConnSpec

\* connections.go:78-108: a connection that stays through a poll, to an explicit port
\* or one whose service stays too, has been logged when it is over, though the two
\* tables are read apart.
THEOREM SteadyConnectionsAreNoticed == ConnSpec => SteadyIsNoticed
<1>1. ASSUME WatchInv, ReadTcp6, NEW c \in steady, SurelyWatched(c.port)
      PROVE  PairOf(c) \in prevActive' /\ (PairOf(c) \in prevActive \/ logged'[PairOf(c)] > 0)
  <2>1. PICK C \in SUBSET Conns, S \in SUBSET Services :
            /\ C = seen \cup {d \in open : d.file = "tcp6"}
            /\ S = heard \cup {s \in listening : s.file = "tcp6"}
            /\ logged' = NewEvents(C, S) /\ prevActive' = Active(C, S)
            /\ connPc = "tcp6"
    BY <1>1, PollEnds
  <2>2. c \in Conns /\ c.file \in Files /\ c \in open /\ (c.file = "tcp" => c \in seen)
    BY <1>1, <2>1, ConnAssumption DEF WatchInv, ConnTypeOK, SteadyInSight
  <2>3. ASSUME NEW s \in serving
        PROVE  s \in S
    <3>1. s \in Services /\ s.file \in Files /\ s \in listening /\ (s.file = "tcp" => s \in heard)
      BY <1>1, <2>1, <2>3, ConnAssumption DEF WatchInv, ConnTypeOK, SteadyInSight
    <3>. QED  BY <2>1, <3>1 DEF Files
  <2>4. c.port \in Watched(S)
    BY <1>1, <2>3 DEF SurelyWatched, Watched
  <2>5. c \in C /\ PairOf(c) \in Pairs
    BY <2>1, <2>2 DEF Files, Pairs
  <2>6. PairOf(c) \in Active(C, S)
    BY <2>4, <2>5, InSight
  <2>. QED  BY <2>1, <2>5, <2>6, EventsOfUnknown
<1>2. WatchInv =>
        [ReadTcp6 =>
          \A c \in steady : SurelyWatched(c.port) =>
             PairOf(c) \in prevActive' /\ (PairOf(c) \in prevActive \/ logged'[PairOf(c)] > 0)]_connVars
  BY <1>1
<1>. QED  BY <1>2, WatchInvariant, PTL DEF ConnSpec, SteadyIsNoticed

\* connections.go:96-106: an event is told of a connection that was read.
LEMMA EventsOfFound ==
  ASSUME ConnTypeOK, NEW C \in SUBSET Conns, C \subseteq seen \cup open, NEW S, NEW k \in Pairs,
         NewEvents(C, S)[k] > 0
  PROVE  NewEvents(C, S)[k] <= Cardinality(MayFind(k))
<1>. DEFINE Of == {c \in WatchedOpen(C, S) : PairOf(c) = k}
<1>1. MayFind(k) \in SUBSET Conns /\ Of \in SUBSET MayFind(k)
  BY DEF MayFind, WatchedOpen, ConnTypeOK
<1>2. IsFiniteSet(MayFind(k))
  BY <1>1, ConnAssumption, FS_Subset
<1>3. Cardinality(Of) <= Cardinality(MayFind(k)) /\ Cardinality(MayFind(k)) \in Nat
  BY <1>1, <1>2, FS_Subset, FS_CardinalityType
<1>4. NewEvents(C, S)[k] = IF k \in prevActive THEN 0 ELSE Cardinality(Of)
  BY DEF NewEvents
<1>. QED  BY <1>3, <1>4

\* connections.go:101-107: a pair that stays connected and watched in one table is
\* logged once, whatever polls happen; and a poll tells of connections it found.
THEOREM LoggedOnce == ConnSpec => LoggedAgainOnlyAfterGap
<1>1. ASSUME WatchInv, [ConnNext]_connVars, NEW k \in Pairs,
             connPc = "tcp6", connPc' = "wait", logged'[k] > 0
      PROVE  (OneTable => k \in gap) /\ logged'[k] <= Cardinality(MayFind(k))
  <2>1. CASE ReadTcp6
    <3>1. PICK C \in SUBSET Conns, S \in SUBSET Services :
             /\ C = seen \cup {c \in open : c.file = "tcp6"}
             /\ logged' = NewEvents(C, S)
      BY <1>1, <2>1, PollEnds
    <3>2. k \notin prevActive
      BY <1>1, <3>1, EventsOfUnknown
    <3>3. C \subseteq seen \cup open /\ ConnTypeOK
      BY <1>1, <3>1 DEF WatchInv
    <3>4. logged'[k] <= Cardinality(MayFind(k))
      BY <1>1, <3>1, <3>3, EventsOfFound
    <3>. QED  BY <1>1, <3>2, <3>4 DEF WatchInv, KnownOrGone
  <2>2. CASE RestartWatch
    BY <1>1, <2>2 DEF RestartWatch
  <2>3. CASE ReadTcp
    BY <1>1, <2>3 DEF ReadTcp
  <2>4. CASE UNCHANGED connPc
    BY <1>1, <2>4
  <2>. QED  BY <1>1, <2>1, <2>2, <2>3, <2>4
            DEF ConnNext, Connect, Disconnect, Listen, StopListen, World, connVars
<1>2. WatchInv /\ [ConnNext]_connVars =>
        [\A k \in Pairs : (connPc = "tcp6" /\ connPc' = "wait" /\ logged'[k] > 0) =>
             /\ OneTable => k \in gap
             /\ logged'[k] <= Cardinality(MayFind(k))]_connVars
  BY <1>1
<1>3. WatchInv => ConnTypeOK
  BY DEF WatchInv
<1>. QED  BY <1>2, <1>3, WatchInvariant, PTL DEF ConnSpec, LoggedAgainOnlyAfterGap

------------------------------------------------------------------------------
(* SSHWatcher *)

\* One unit of the log is written before another: it is of an earlier line, or the
\* head to its tail.
Earlier(u, v) ==
    u.line < v.line \/ (u.line = v.line /\ u.part = "head" /\ v.part = "tail" /\ u.cut = v.cut)

\* The files hold what was written, in that order, and the next unit comes after it.
LogsInOrder ==
    /\ content \in [Inodes -> Seq(Units)]
    /\ \A i \in Inodes : \A a, b \in DOMAIN content[i] : a < b => Earlier(content[i][a], content[i][b])
    /\ \A i \in Inodes : \A a \in DOMAIN content[i] :
          LET u == content[i][a]
          IN  u.line < line \/ (u.line = line /\ cut # Whole /\ u.part = "head" /\ u.cut = cut)

\* No file is longer than what was written, and no line is begun past the last.
LogsFit ==
    /\ \A i \in Inodes : Size(i) <= 2 * (line - 1) + (IF cut = Whole THEN 0 ELSE 1)
    /\ cut # Whole => line <= MaxLines

\* A file that is still to be created has nothing in it, and nobody has it open.
NewFilesAreEmpty ==
    /\ fresh \in 2..(MaxInodes + 1)
    /\ path < fresh /\ logfd < fresh /\ w.inode < fresh
    /\ \A i \in Inodes : i >= fresh => content[i] = <<>>

LastReported == IF reported = <<>> THEN 0 ELSE reported[Len(reported)]

\* A unit that nothing reported has told, or that tells nothing.
IsNew(u) == u.line > LastReported \/ (u.line = LastReported /\ u.part = "tail" /\ u.cut = "late")

\* ssh.go:66-105: nothing the watcher may still read has been reported; of the line
\* reported last, only a tail that says nothing may be to come.
AheadIsNew ==
    /\ line > LastReported \/ (line = LastReported /\ cut = "late")
    /\ w.found /\ path # NoFile =>
          \A k \in DOMAIN content[path] : k > StartOffset => IsNew(content[path][k])

\* While nothing replaces or truncates the file, a poll reads the one it measured.
ReadsWhatItMeasured ==
    poll.pc \in {"open", "read"} =>
        /\ w.found /\ path # NoFile /\ w.inode = path
        /\ w.offset + poll.want <= Size(path)
        /\ poll.pc = "read" => poll.fd = path

SSHInv ==
    /\ NoReplay
    /\ LogsInOrder /\ LogsFit /\ NewFilesAreEmpty
    /\ ~crossed => AheadIsNew /\ ReadsWhatItMeasured

\* A set of numbers has a least one.
LEMMA Least ==
  ASSUME NEW T \in SUBSET Nat, T # {}
  PROVE  \E m \in T : \A k \in T : m <= k
<1>1. PICK R : R = OpToRel(<, Nat)
  OBVIOUS
<1>2. IsWellFoundedOn(R, Nat)
  BY <1>1, NatLessThanWellFounded
<1>3. \A k, m \in Nat : k < m => <<k, m>> \in R
  BY <1>1 DEF OpToRel
<1>4. PICK m \in T : \A k \in T : ~(<<k, m>> \in R)
  BY ONLY <1>2, T \in SUBSET Nat, T # {}, WFMin
<1>5. \A k \in T : k \in Nat /\ m \in Nat /\ ~(k < m)
  BY <1>3, <1>4
<1>6. \A k \in T : m <= k
  BY <1>5
<1>. QED  BY <1>6

\* What holds of 0, and of i + 1 whenever it holds of i, holds up to n.
LEMMA Climb ==
  ASSUME NEW n \in Nat, NEW T, 0 \in T, \A i \in 0..n : i \in T /\ i # n => i + 1 \in T
  PROVE  0..n \subseteq T
<1>1. PICK Bad : Bad = (0..n) \ T
  OBVIOUS
<1>2. Bad \in SUBSET Nat
  BY <1>1
<1>. SUFFICES ASSUME Bad # {} PROVE FALSE
  BY <1>1
<1>3. PICK m \in Bad : \A k \in Bad : m <= k
  BY <1>2, Least
<1>4. m \in 1..n /\ m - 1 \in 0..n /\ m - 1 # n /\ (m - 1) + 1 = m /\ ~(m <= m - 1)
  BY <1>1, <1>3
<1>. QED  BY <1>1, <1>3, <1>4

\* What a read tells is in order, no line twice.
TellsInOrder(s) == \A i, j \in DOMAIN s : i < j /\ Tells(s, i) /\ Tells(s, j) => s[i].line < s[j].line

\* ssh.go:101-105: the events of a read are lines it tells, in their order.
LEMMA EventsAreTold ==
  ASSUME NEW s \in Seq(Units)
  PROVE  /\ Events(s) \in Seq(1..MaxLines)
         /\ \A k \in DOMAIN Events(s) : \E i \in DOMAIN s : Tells(s, i) /\ Events(s)[k] = s[i].line
         /\ TellsInOrder(s) => \A a, b \in DOMAIN Events(s) : a < b => Events(s)[a] < Events(s)[b]
<1>. DEFINE Step(f, i) ==
                IF i = 0 THEN <<>>
                ELSE IF Tells(s, i) THEN Append(f[i - 1], s[i].line)
                ELSE f[i - 1]
<1>1. PICK n \in Nat : n = Len(s) /\ DOMAIN s = 1..n
  OBVIOUS
<1>2. ASSUME NEW i \in 1..n PROVE s[i].line \in 1..MaxLines
  <2>1. s[i] \in Units
    BY <1>1
  <2>. QED  BY <2>1 DEF Units
<1>3. \E f : f = [i \in 0..n |-> Step(f, i)]
  <2>. DEFINE T == {m \in 0..n : \E f \in [0..n -> Seq(1..MaxLines)] : \A i \in 0..m : f[i] = Step(f, i)}
  <2>1. 0 \in T
    <3>1. PICK f : f = [i \in 0..n |-> <<>>]
      OBVIOUS
    <3>2. f \in [0..n -> Seq(1..MaxLines)]
      BY <3>1
    <3>3. \A i \in 0..0 : f[i] = Step(f, i)
      BY <3>1
    <3>4. \E h \in [0..n -> Seq(1..MaxLines)] : \A i \in 0..0 : h[i] = Step(h, i)
      BY <3>2, <3>3
    <3>5. 0 \in 0..n
      BY <1>1
    <3>. QED  BY <3>4, <3>5
  <2>2. ASSUME NEW m \in 0..n, m \in T, m # n PROVE m + 1 \in T
    <3>1. PICK f \in [0..n -> Seq(1..MaxLines)] : \A i \in 0..m : f[i] = Step(f, i)
      BY <2>2
    <3>2. PICK l : l = m + 1
      OBVIOUS
    <3>3. l \in 1..n /\ l - 1 = m /\ l # 0 /\ 0..l = (0..m) \cup {l} /\ \A i \in 0..m : i - 1 # l /\ i # l
      <4>1. n \in Nat /\ m \in 0..n /\ m # n
        BY <1>1, <2>2
      <4>. QED  BY ONLY <3>2, <4>1
    <3>4. PICK v : v = Step(f, l)
      OBVIOUS
    <3>5. f[m] \in Seq(1..MaxLines) /\ s[l].line \in 1..MaxLines
      BY <1>2, <3>1, <3>3
    <3>6. v \in Seq(1..MaxLines)
      BY <3>3, <3>4, <3>5, AppendProperties
    <3>7. PICK g : g = [f EXCEPT ![l] = v]
      OBVIOUS
    <3>8. g \in [0..n -> Seq(1..MaxLines)] /\ g[l] = v /\ \A i \in 0..n : i # l => g[i] = f[i]
      BY <3>1, <3>3, <3>6, <3>7
    <3>9. \A i \in 0..l : g[i] = Step(g, i)
      <4>. SUFFICES ASSUME NEW i \in 0..l PROVE g[i] = Step(g, i)
        OBVIOUS
      <4>1. CASE i = l
        BY <3>3, <3>4, <3>8, <4>1
      <4>2. CASE i \in 0..m /\ i # 0
        <5>1. i - 1 \in 0..n /\ i - 1 # l /\ i # l /\ i \in 0..n
          BY <3>3, <4>2
        <5>. QED  BY <3>1, <3>8, <4>2, <5>1
      <4>3. CASE i = 0
        BY <3>1, <3>3, <3>8, <4>3
      <4>. QED  BY <3>3, <4>1, <4>2, <4>3
    <3>10. \E h \in [0..n -> Seq(1..MaxLines)] : \A i \in 0..l : h[i] = Step(h, i)
      BY <3>8, <3>9
    <3>11. l \in 0..n
      BY <3>3
    <3>. QED  BY <3>2, <3>10, <3>11
  <2>3. n \in T
    <3>. HIDE DEF T
    <3>1. 0..n \subseteq T
      BY <2>1, <2>2, Climb
    <3>. QED  BY <3>1
  <2>4. PICK f \in [0..n -> Seq(1..MaxLines)] : \A i \in 0..n : f[i] = Step(f, i)
    BY <2>3
  <2>5. f = [i \in 0..n |-> Step(f, i)]
    BY <2>4
  <2>. QED  BY <2>5
<1>4. PICK f : f = [i \in 0..n |-> Step(f, i)] /\ Events(s) = f[n]
  BY <1>1, <1>3 DEF Events
<1>. DEFINE Q(i) ==
        /\ f[i] \in Seq(1..MaxLines)
        /\ \A k \in DOMAIN f[i] : \E j \in 1..i : Tells(s, j) /\ f[i][k] = s[j].line
        /\ TellsInOrder(s) => \A a, b \in DOMAIN f[i] : a < b => f[i][a] < f[i][b]
     T == {i \in 0..n : Q(i)}
<1>5. 0 \in T
  <2>1. f[0] = <<>>
    BY <1>4
  <2>2. PICK e : e = f[0] /\ e = <<>>
    BY <2>1
  <2>3. e \in Seq(1..MaxLines) /\ DOMAIN e = {}
    BY <2>2
  <2>4. Q(0)
    BY <2>2, <2>3
  <2>. QED  BY <2>4
<1>6. ASSUME NEW m \in 0..n, m \in T, m # n PROVE m + 1 \in T
  <2>1. PICK l : l = m + 1
    OBVIOUS
  <2>2. l \in 1..n /\ l \in 0..n /\ l - 1 = m /\ l # 0 /\ 1..m \subseteq 1..l /\ \A j \in 1..m : j < l
    BY <1>6, <2>1
  <2>3. f[l] = IF Tells(s, l) THEN Append(f[m], s[l].line) ELSE f[m]
    BY <1>4, <2>2
  <2>4. Q(m)
    BY <1>6
  <2>5. CASE ~Tells(s, l)
    BY <2>1, <2>2, <2>3, <2>4, <2>5
  <2>6. CASE Tells(s, l)
    <3>1. PICK e, x, k : e = f[m] /\ x = s[l].line /\ k = Len(e)
      OBVIOUS
    <3>2. e \in Seq(1..MaxLines) /\ x \in 1..MaxLines /\ k \in Nat /\ DOMAIN e = 1..k
      BY <1>2, <2>2, <2>4, <3>1
    <3>3. PICK d : d = f[l] /\ d = Append(e, x)
      BY <2>3, <2>6, <3>1
    <3>4. /\ d \in Seq(1..MaxLines) /\ DOMAIN d = 1..(k + 1)
          /\ d[k + 1] = x /\ \A a \in 1..k : d[a] = e[a]
      BY <3>1, <3>2, <3>3, AppendProperties
    <3>5. ASSUME NEW a \in 1..k PROVE \E j \in 1..m : Tells(s, j) /\ e[a] = s[j].line
      BY <2>4, <3>1, <3>2
    <3>6. ASSUME TellsInOrder(s), NEW a \in 1..k PROVE e[a] < x
      <4>1. PICK j \in 1..m : Tells(s, j) /\ e[a] = s[j].line
        BY <3>5
      <4>2. j \in DOMAIN s /\ l \in DOMAIN s /\ j < l
        BY <1>1, <2>2
      <4>. QED  BY <2>6, <3>1, <3>6, <4>1, <4>2 DEF TellsInOrder
    <3>7. ASSUME NEW a \in 1..(k + 1) PROVE \E j \in 1..l : Tells(s, j) /\ d[a] = s[j].line
      <4>1. CASE a = k + 1
        BY <2>2, <2>6, <3>1, <3>4, <4>1
      <4>2. CASE a \in 1..k
        BY <2>2, <3>4, <3>5, <4>2
      <4>. QED  BY <3>2, <4>1, <4>2
    <3>8. ASSUME TellsInOrder(s), NEW a \in 1..(k + 1), NEW b \in 1..(k + 1), a < b PROVE d[a] < d[b]
      <4>1. a \in 1..k /\ (b = k + 1 \/ b \in 1..k)
        BY <3>2, <3>8
      <4>2. CASE b = k + 1
        BY <3>4, <3>6, <3>8, <4>1, <4>2
      <4>3. CASE b \in 1..k
        BY <2>4, <3>1, <3>2, <3>4, <3>8, <4>1, <4>3
      <4>. QED  BY <4>1, <4>2, <4>3
    <3>9. Q(l)
      BY <3>3, <3>4, <3>7, <3>8
    <3>. QED  BY <2>1, <2>2, <3>9
  <2>. QED  BY <2>5, <2>6
<1>7. n \in T
  <2>. HIDE DEF T
  <2>1. 0..n \subseteq T
    BY <1>5, <1>6, Climb
  <2>. QED  BY <2>1
<1>8. PICK e : e = Events(s) /\ e = f[n]
  BY <1>4
<1>9. /\ e \in Seq(1..MaxLines)
      /\ \A k \in DOMAIN e : \E j \in 1..n : Tells(s, j) /\ e[k] = s[j].line
      /\ TellsInOrder(s) => \A a, b \in DOMAIN e : a < b => e[a] < e[b]
  BY <1>7, <1>8
<1>. QED  BY <1>1, <1>8, <1>9

\* The line reported last, if one was.
LEMMA LastIsALine == SSHTypeOK => LastReported \in 0..MaxLines
<1>. SUFFICES ASSUME SSHTypeOK PROVE LastReported \in 0..MaxLines
  OBVIOUS
<1>1. reported \in Seq(1..MaxLines) /\ MaxLines \in Nat
  BY SSHAssumption DEF SSHTypeOK
<1>2. CASE reported = <<>>
  BY <1>1, <1>2 DEF LastReported
<1>3. CASE reported # <<>>
  <2>1. Len(reported) \in DOMAIN reported
    BY <1>1, <1>3
  <2>2. reported[Len(reported)] \in 1..MaxLines
    BY <1>1, <2>1
  <2>. QED  BY <1>1, <1>3, <2>2 DEF LastReported
<1>. QED  BY <1>2, <1>3

\* The logger, whichever of its three kinds of unit it writes.
LEMMA WriteKeeps ==
  ASSUME SSHInv, NEW part, NEW where, Write(part, where),
         \/ part = "line" /\ where = Whole /\ cut = Whole /\ line' = line + 1 /\ cut' = Whole
         \/ part = "head" /\ where \in Cuts /\ cut = Whole /\ line' = line /\ cut' = where
         \/ part = "tail" /\ where = cut /\ cut # Whole /\ line' = line + 1 /\ cut' = Whole
  PROVE  SSHInv'
<1>1. PICK u : u = [line |-> line, part |-> part, cut |-> where]
  OBVIOUS
<1>2. u.line = line /\ u.part = part /\ u.cut = where
  BY <1>1
<1>3. line \in 1..MaxLines /\ MaxLines \in Nat /\ Whole \notin Cuts /\ Whole # "late" /\ cut \in Cuts \cup {Whole}
  BY SSHAssumption DEF Write, SSHInv, NoReplay, SSHTypeOK, Whole, Cuts
<1>4. u \in Units
  BY <1>1, <1>3 DEF Units, Whole, Cuts
<1>5. /\ logfd \in Inodes /\ content' = [content EXCEPT ![logfd] = Append(content[logfd], u)]
      /\ path' = path /\ logfd' = logfd /\ fresh' = fresh /\ w' = w /\ poll' = poll
      /\ reported' = reported /\ crossed' = crossed
  BY <1>1 DEF Write, watchVars, SSHInv, NoReplay, SSHTypeOK
<1>6. content \in [Inodes -> Seq(Units)]
  BY DEF SSHInv, LogsInOrder
<1>7. PICK c, n : c = content[logfd] /\ n = Len(c)
  OBVIOUS
<1>8. c \in Seq(Units) /\ n \in Nat /\ DOMAIN c = 1..n
  BY <1>5, <1>6, <1>7
<1>9. PICK d : d = Append(c, u)
  OBVIOUS
<1>10. d \in Seq(Units) /\ Len(d) = n + 1 /\ DOMAIN d = 1..(n + 1) /\ d[n + 1] = u /\ \A a \in 1..n : d[a] = c[a]
  BY <1>4, <1>8, <1>9, AppendProperties
<1>11. /\ content' \in [Inodes -> Seq(Units)] /\ content'[logfd] = d
       /\ \A i \in Inodes : i # logfd => content'[i] = content[i]
  BY <1>5, <1>6, <1>7, <1>9, <1>10
<1>12. ASSUME NEW a \in 1..n
       PROVE  /\ c[a].line < line \/ (c[a].line = line /\ cut # Whole /\ c[a].part = "head" /\ c[a].cut = cut)
              /\ c[a].line \in 1..MaxLines
  <2>1. c[a] \in Units
    BY <1>8
  <2>2. a \in DOMAIN content[logfd]
    BY <1>7, <1>8
  <2>. QED  BY <1>5, <1>7, <2>1, <2>2 DEF SSHInv, LogsInOrder, Units
<1>13. LogsInOrder'
  <2>1. ASSUME NEW i \in Inodes, NEW a \in DOMAIN content'[i], NEW b \in DOMAIN content'[i], a < b
        PROVE  Earlier(content'[i][a], content'[i][b])
    <3>1. CASE i # logfd
      BY <1>11, <2>1, <3>1 DEF SSHInv, LogsInOrder
    <3>2. CASE i = logfd /\ b # n + 1
      <4>1. a \in 1..n /\ b \in 1..n /\ d[a] = c[a] /\ d[b] = c[b]
        BY <1>8, <1>10, <1>11, <2>1, <3>2
      <4>. QED  BY <1>5, <1>7, <1>8, <1>11, <2>1, <3>2, <4>1 DEF SSHInv, LogsInOrder
    <3>3. CASE i = logfd /\ b = n + 1
      <4>1. a \in 1..n /\ d[a] = c[a] /\ d[b] = u
        BY <1>8, <1>10, <1>11, <2>1, <3>3
      <4>2. Earlier(c[a], u)
        BY <1>2, <1>12, <4>1 DEF Earlier
      <4>. QED  BY <1>11, <3>3, <4>1, <4>2
    <3>. QED  BY <3>1, <3>2, <3>3
  <2>2. ASSUME NEW i \in Inodes, NEW a \in DOMAIN content'[i], NEW v, v = content'[i][a]
        PROVE  v.line < line' \/ (v.line = line' /\ cut' # Whole /\ v.part = "head" /\ v.cut = cut')
    <3>1. CASE i = logfd /\ a = n + 1
      BY <1>2, <1>3, <1>10, <1>11, <2>2, <3>1
    <3>2. CASE i = logfd /\ a # n + 1
      <4>1. a \in 1..n /\ v = c[a]
        BY <1>8, <1>10, <1>11, <2>2, <3>2
      <4>. QED  BY <1>3, <1>12, <4>1
    <3>3. CASE i # logfd
      <4>1. a \in DOMAIN content[i] /\ v = content[i][a]
        BY <1>11, <2>2, <3>3
      <4>2. v \in Units
        BY <1>6, <4>1
      <4>3. v.line \in 1..MaxLines
        BY <4>2 DEF Units
      <4>4. v.line < line \/ (v.line = line /\ cut # Whole)
        BY <4>1 DEF SSHInv, LogsInOrder
      <4>5. (v.line = line /\ cut # Whole) => line' = line + 1
        BY <1>3
      <4>. QED  BY <1>3, <4>3, <4>4, <4>5
    <3>. QED  BY <3>1, <3>2, <3>3
  <2>. QED  BY <1>11, <2>1, <2>2 DEF LogsInOrder
<1>14. LogsFit'
  <2>1. ASSUME NEW i \in Inodes
        PROVE  Len(content'[i]) <= 2 * (line' - 1) + (IF cut' = Whole THEN 0 ELSE 1)
    <3>1. PICK k : k = Len(content[i]) /\ k \in Nat
      BY <1>6
    <3>2. k <= 2 * (line - 1) + (IF cut = Whole THEN 0 ELSE 1)
      BY <3>1 DEF SSHInv, LogsFit, Size
    <3>3. Len(content'[i]) = IF i = logfd THEN k + 1 ELSE k
      BY <1>7, <1>10, <1>11, <3>1
    <3>. QED  BY <1>3, <3>1, <3>2, <3>3
  <2>2. cut' # Whole => line' <= MaxLines
    BY <1>3
  <2>. QED  BY <2>1, <2>2 DEF LogsFit, Size
<1>15. NewFilesAreEmpty'
  <2>1. logfd < fresh /\ \A i \in Inodes : i >= fresh => content[i] = <<>>
    BY DEF SSHInv, NewFilesAreEmpty
  <2>2. fresh \in Nat /\ logfd \in Nat
    BY <1>5 DEF SSHInv, NewFilesAreEmpty, Inodes
  <2>. QED  BY <1>5, <1>11, <2>1, <2>2 DEF SSHInv, NewFilesAreEmpty, Inodes
<1>16. LastReported' = LastReported /\ LastReported \in 0..MaxLines
  BY <1>5, LastIsALine DEF SSHInv, NoReplay, LastReported
<1>17. ASSUME ~crossed PROVE AheadIsNew'
  <2>1. line > LastReported \/ (line = LastReported /\ cut = "late")
    BY <1>17 DEF SSHInv, AheadIsNew
  <2>2. line' > LastReported \/ (line' = LastReported /\ cut' = "late")
    BY <1>3, <1>16, <2>1
  <2>3. ASSUME w.found, path # NoFile, NEW k \in DOMAIN content'[path], k > StartOffset'
        PROVE  IsNew(content'[path][k])
    <3>1. path \in Inodes /\ w.offset \in Nat
      BY <2>3 DEF SSHInv, NoReplay, SSHTypeOK
    <3>2. PICK m : m = Len(content[path]) /\ m \in Nat /\ DOMAIN content[path] = 1..m
      BY <1>6, <3>1
    <3>3. StartOffset = IF path # w.inode \/ m < w.offset THEN 0 ELSE w.offset
      BY <3>2 DEF StartOffset, Size
    <3>4. PICK o : o = w.offset /\ o \in Nat
      BY <3>1
    <3>5. CASE path # logfd
      <4>1. content'[path] = content[path]
        BY <1>11, <3>1, <3>5
      <4>2. StartOffset' = StartOffset
        BY <1>5, <4>1 DEF StartOffset, Size
      <4>. QED  BY <1>17, <2>3, <4>1, <4>2 DEF SSHInv, AheadIsNew
    <3>6. CASE path = logfd
      <4>1. content[path] = c /\ content'[path] = d /\ m = n
        BY <1>7, <1>11, <3>2, <3>6
      <4>2. StartOffset' = IF path # w.inode \/ n + 1 < o THEN 0 ELSE o
        BY <1>5, <1>10, <3>4, <4>1 DEF StartOffset, Size
      <4>3. StartOffset <= StartOffset' /\ StartOffset \in Nat /\ StartOffset' \in Nat
        BY <1>8, <3>3, <3>4, <4>1, <4>2
      <4>4. CASE k = n + 1
        BY <1>2, <1>3, <1>10, <2>1, <4>1, <4>4 DEF IsNew
      <4>5. CASE k # n + 1
        <5>1. k \in 1..n /\ d[k] = c[k] /\ k > StartOffset
          BY <1>8, <1>10, <2>3, <4>1, <4>3, <4>5
        <5>. QED  BY <1>17, <2>3, <1>8, <4>1, <5>1 DEF SSHInv, AheadIsNew
      <4>. QED  BY <4>4, <4>5
    <3>. QED  BY <3>5, <3>6
  <2>. QED  BY <1>5, <1>16, <2>2, <2>3 DEF AheadIsNew, IsNew
<1>18. ASSUME ~crossed PROVE ReadsWhatItMeasured'
  <2>. SUFFICES ASSUME poll.pc \in {"open", "read"}
                PROVE  /\ w.found /\ path # NoFile /\ w.inode = path
                       /\ w.offset + poll.want <= Len(content'[path])
                       /\ poll.pc = "read" => poll.fd = path
    BY <1>5 DEF ReadsWhatItMeasured, Size
  <2>1. /\ w.found /\ path # NoFile /\ w.inode = path
        /\ w.offset + poll.want <= Len(content[path])
        /\ poll.pc = "read" => poll.fd = path
    BY <1>18 DEF SSHInv, ReadsWhatItMeasured, Size
  <2>2. path \in Inodes /\ w.offset \in Nat /\ poll.want \in Nat
    BY <2>1 DEF SSHInv, NoReplay, SSHTypeOK
  <2>3. PICK k : k = Len(content[path]) /\ k \in Nat
    BY <1>6, <2>2
  <2>4. Len(content'[path]) = IF path = logfd THEN k + 1 ELSE k
    BY <1>7, <1>10, <1>11, <2>2, <2>3
  <2>5. PICK s : s = w.offset + poll.want /\ s \in Nat
    BY <2>2
  <2>. QED  BY <2>1, <2>3, <2>4, <2>5
<1>19. NoReplay'
  <2>1. \A i \in Inodes : \A k \in DOMAIN content'[i] : content'[i][k] \in Units
    BY <1>11
  <2>2. line' \in 1..(MaxLines + 1) /\ cut' \in Cuts \cup {Whole}
    BY <1>3
  <2>. QED  BY <1>5, <2>1, <2>2 DEF SSHInv, NoReplay, SSHTypeOK
<1>. QED  BY <1>5, <1>13, <1>14, <1>15, <1>17, <1>18, <1>19 DEF SSHInv

\* ssh.go:94-99: what a poll reads begins at its offset and ends inside the file.
LEMMA UnreadIs ==
  ASSUME SSHTypeOK, content \in [Inodes -> Seq(Units)], poll.pc = "read"
  PROVE  /\ Unread \in Seq(Units)
         /\ w.offset + Len(Unread) <= w.offset \/ w.offset + Len(Unread) <= Size(poll.fd)
         /\ w.offset + poll.want <= Size(poll.fd) =>
               /\ Len(Unread) = poll.want
               /\ \A i \in 1..poll.want :
                     w.offset + i \in DOMAIN content[poll.fd] /\ Unread[i] = content[poll.fd][w.offset + i]
<1>1. PICK f, o, g : f = poll.fd /\ o = w.offset /\ g = poll.want
  OBVIOUS
<1>2. f \in Inodes /\ o \in Nat /\ g \in Nat \ {0}
  BY <1>1, SSHAssumption DEF SSHTypeOK
<1>3. PICK c, n : c = content[f] /\ n = Len(c)
  OBVIOUS
<1>4. c \in Seq(Units) /\ n \in Nat /\ DOMAIN c = 1..n
  BY <1>2, <1>3
<1>5. PICK e : e = Min2(o + g, n)
  OBVIOUS
<1>6. e \in Nat /\ e <= n /\ (o + g <= n => e = o + g)
  BY <1>2, <1>4, <1>5 DEF Min2
<1>7. Unread = SubSeq(c, o + 1, e)
  BY <1>1, <1>3, <1>5 DEF Unread, Size
<1>8. PICK s : s = Unread
  OBVIOUS
<1>9. /\ s \in Seq(Units)
      /\ o + Len(s) <= o \/ o + Len(s) <= n
      /\ o + g <= n => Len(s) = g /\ \A i \in 1..g : o + i \in 1..n /\ s[i] = c[o + i]
  <2>1. CASE o <= e
    <3>1. /\ s \in Seq(Units)
          /\ Len(s) = e - o
          /\ \A i \in 1..(e - o) : s[i] = c[o + i]
      <4>1. o + 1 \in 1..(n + 1) /\ e \in o..n /\ o \in Nat /\ s = SubSeq(c, o + 1, e)
        BY <1>2, <1>4, <1>6, <1>7, <1>8, <2>1
      <4>2. s \in Seq(Units) /\ Len(s) = e - o
        BY <1>4, <1>6, <4>1
      <4>3. ASSUME NEW i \in 1..(e - o) PROVE s[i] = c[o + i]
        BY <1>4, <1>6, <4>1, <4>3
      <4>. QED  BY <4>2, <4>3
    <3>2. o + Len(s) <= n
      BY <1>2, <1>4, <1>6, <2>1, <3>1
    <3>3. ASSUME o + g <= n PROVE e - o = g /\ \A i \in 1..g : o + i \in 1..n
      BY <1>2, <1>4, <1>6, <3>3
    <3>. QED  BY <3>1, <3>2, <3>3
  <2>2. CASE ~(o <= e)
    <3>1. s = <<>>
      BY <1>2, <1>4, <1>6, <1>7, <1>8, <2>2
    <3>2. ~(o + g <= n) /\ o + 0 <= o
      BY <1>2, <1>4, <1>6, <2>2
    <3>. QED  BY <3>1, <3>2
  <2>. QED  BY <2>1, <2>2
<1>. QED  BY <1>1, <1>3, <1>4, <1>8, <1>9 DEF Size

\* ssh.go:94-99: what a poll reads tells each line once.
LEMMA UnreadTellsOnce ==
  ASSUME SSHInv, poll.pc = "read", ~crossed
  PROVE  /\ \A i, j \in DOMAIN Unread : i < j => Earlier(Unread[i], Unread[j])
         /\ \A i \in DOMAIN Unread : IsNew(Unread[i])
         /\ TellsInOrder(Unread)
<1>1. PICK s, o, g : s = Unread /\ o = w.offset /\ g = poll.want
  OBVIOUS
<1>2. o \in Nat /\ g \in Nat /\ path \in Inodes
  BY <1>1, SSHAssumption DEF SSHInv, NoReplay, SSHTypeOK, ReadsWhatItMeasured
<1>3. w.found /\ path = w.inode /\ poll.fd = path /\ o + g <= Len(content[path])
  BY <1>1 DEF SSHInv, ReadsWhatItMeasured, Size
<1>4. PICK c, n : c = content[path] /\ n = Len(c) /\ n \in Nat /\ DOMAIN c = 1..n
  BY <1>2 DEF SSHInv, LogsInOrder
<1>5. /\ s \in Seq(Units) /\ DOMAIN s = 1..g
      /\ \A i \in 1..g : o + i \in 1..n /\ s[i] = c[o + i]
  BY <1>1, <1>2, <1>3, <1>4, UnreadIs DEF SSHInv, NoReplay, LogsInOrder, Size
<1>6. ASSUME NEW i \in 1..g, NEW j \in 1..g, i < j PROVE Earlier(s[i], s[j])
  <2>1. o + i < o + j
    BY <1>2, <1>6
  <2>. QED  BY <1>2, <1>4, <1>5, <2>1 DEF SSHInv, LogsInOrder
<1>7. ASSUME NEW i \in 1..g PROVE IsNew(s[i])
  <2>1. StartOffset = o
    BY <1>1, <1>2, <1>3, <1>4 DEF StartOffset, Size
  <2>2. o + i > StartOffset /\ o + i \in DOMAIN c
    BY <1>2, <1>4, <1>5, <2>1
  <2>3. path # NoFile
    BY <1>2 DEF Inodes, NoFile
  <2>. QED  BY <1>3, <1>4, <1>5, <2>2, <2>3 DEF SSHInv, AheadIsNew
<1>8. ASSUME NEW i \in 1..g, NEW j \in 1..g, i < j, Tells(s, j) PROVE s[i].line < s[j].line
  <2>1. s[j].part # "tail"
    BY <1>8 DEF Tells
  <2>. QED  BY <1>6, <1>8, <2>1 DEF Earlier
<1>. QED  BY <1>1, <1>5, <1>6, <1>7, <1>8 DEF TellsInOrder

\* ssh.go:94-105: reporting what was read leaves only what is new.
LEMMA ReadKeeps ==
  ASSUME SSHInv, Read
  PROVE  SSHInv'
<1>1. /\ path' = path /\ content' = content /\ logfd' = logfd /\ line' = line /\ cut' = cut /\ fresh' = fresh
      /\ crossed' = crossed /\ poll.pc = "read" /\ poll' = Waiting
      /\ SSHTypeOK /\ content \in [Inodes -> Seq(Units)] /\ MaxLines \in Nat
  BY SSHAssumption DEF Read, worldVars, SSHInv, NoReplay, LogsInOrder
<1>2. PICK s, e, o : s = Unread /\ e = Events(s) /\ o = w.offset + Len(s)
  OBVIOUS
<1>3. w' = [w EXCEPT !.offset = o] /\ reported' = reported \o e
  BY <1>2 DEF Read
<1>4. w.offset \in 0..(2 * MaxLines) /\ poll.fd \in Inodes /\ poll.want \in Nat /\ line \in 1..(MaxLines + 1)
  BY <1>1 DEF SSHTypeOK
<1>5. s \in Seq(Units) /\ Len(s) \in Nat
  BY <1>1, <1>2, UnreadIs
<1>6. o \in 0..(2 * MaxLines)
  <2>1. PICK k : k = Size(poll.fd) /\ k \in Nat
    BY <1>1, <1>4 DEF Size
  <2>2. k <= 2 * MaxLines
    <3>1. k <= 2 * (line - 1) + (IF cut = Whole THEN 0 ELSE 1) /\ (cut # Whole => line <= MaxLines)
      BY <1>4, <2>1 DEF SSHInv, LogsFit
    <3>. QED  BY <1>1, <1>4, <2>1, <3>1
  <2>3. o <= w.offset \/ o <= k
    BY <1>1, <1>2, <2>1, UnreadIs
  <2>. QED  BY <1>1, <1>2, <1>4, <1>5, <2>1, <2>2, <2>3
<1>7. w' \in [found: BOOLEAN, inode: Inodes \cup {NoFile}, offset: 0..(2 * MaxLines)]
      /\ w'.found = w.found /\ w'.inode = w.inode /\ w'.offset = o
  BY <1>1, <1>3, <1>6 DEF SSHTypeOK
<1>8. LogsInOrder' /\ LogsFit' /\ NewFilesAreEmpty'
  BY <1>1, <1>7 DEF SSHInv, LogsInOrder, LogsFit, NewFilesAreEmpty, Size
<1>9. ReadsWhatItMeasured'
  BY <1>1 DEF ReadsWhatItMeasured, Waiting
<1>10. /\ reported \in Seq(1..MaxLines) /\ e \in Seq(1..MaxLines)
       /\ \A k \in DOMAIN e : \E i \in DOMAIN s : Tells(s, i) /\ e[k] = s[i].line
  <2>1. /\ e \in Seq(1..MaxLines)
        /\ \A k \in DOMAIN e : \E i \in DOMAIN s : Tells(s, i) /\ e[k] = s[i].line
    BY <1>2, <1>5, EventsAreTold
  <2>. QED  BY <1>1, <2>1 DEF SSHTypeOK
<1>11. PICK r, n, m : r = reported /\ n = Len(r) /\ m = Len(e)
  OBVIOUS
<1>12. PICK q : q = r \o e
  OBVIOUS
<1>13. /\ q \in Seq(1..MaxLines) /\ Len(q) = n + m /\ DOMAIN q = 1..(n + m) /\ n \in Nat /\ m \in Nat
       /\ DOMAIN r = 1..n /\ DOMAIN e = 1..m
       /\ \A i \in 1..n : q[i] = r[i]
       /\ \A i \in 1..m : q[n + i] = e[i]
  BY <1>10, <1>11, <1>12, ConcatProperties
<1>14. (\A a \in 1..n : r[a] \in 1..MaxLines) /\ (\A a \in 1..m : e[a] \in 1..MaxLines)
  <2>1. r \in Seq(1..MaxLines) /\ 1..Len(r) = 1..n /\ 1..Len(e) = 1..m
    BY <1>10, <1>11
  <2>. QED  BY <1>10, <2>1, ElementOfSeq
<1>15. reported' = q
  BY <1>3, <1>11, <1>12
<1>16. SSHTypeOK'
  <2>1. poll' \in [pc: {"wait", "stat"}]
    BY <1>1 DEF Waiting
  <2>. QED  BY <1>1, <1>7, <1>13, <1>15, <2>1 DEF SSHTypeOK
<1>17. ASSUME ~crossed PROVE (\A i, j \in DOMAIN q : i < j => q[i] < q[j]) /\ AheadIsNew'
  <2>1. /\ \A i, j \in DOMAIN s : i < j => Earlier(s[i], s[j])
        /\ \A i \in DOMAIN s : IsNew(s[i])
        /\ TellsInOrder(s)
    BY <1>1, <1>2, <1>17, UnreadTellsOnce
  <2>2. \A a, b \in 1..m : a < b => e[a] < e[b]
    BY <1>2, <1>5, <1>13, <2>1, EventsAreTold
  <2>3. PICK l : l = LastReported /\ l \in 0..MaxLines
    BY <1>1, LastIsALine
  <2>4. \A a, b \in 1..n : a < b => r[a] < r[b]
    BY <1>11, <1>13, <1>17 DEF SSHInv, NoReplay
  <2>5. \A a \in 1..n : r[a] <= l
    <3>. SUFFICES ASSUME NEW a \in 1..n PROVE r[a] <= l
      OBVIOUS
    <3>0. n \in 1..n /\ r # <<>>
      BY <1>13
    <3>1. l = r[n] /\ r[a] \in Nat /\ r[n] \in Nat
      <4>1. l = r[n]
        BY <1>11, <2>3, <3>0 DEF LastReported
      <4>2. r[a] \in 1..MaxLines /\ r[n] \in 1..MaxLines
        BY <1>14, <3>0
      <4>. QED  BY <4>1, <4>2
    <3>2. CASE a = n
      BY <3>1, <3>2
    <3>3. CASE a # n
      BY <1>13, <2>4, <3>1, <3>3
    <3>. QED  BY <3>2, <3>3
  <2>6. ASSUME NEW i \in DOMAIN s, Tells(s, i) PROVE s[i].line > l
    <3>1. s[i] \in Units /\ IsNew(s[i])
      BY <1>5, <2>1
    <3>2. ~(s[i].part = "tail" /\ s[i].cut = "late")
      BY <2>6 DEF Tells
    <3>. QED  BY <2>3, <3>1, <3>2 DEF IsNew
  <2>7. \A a \in 1..m : e[a] > l
    BY <1>10, <1>13, <2>6
  <2>8. \A i, j \in DOMAIN q : i < j => q[i] < q[j]
    <3>. SUFFICES ASSUME NEW i \in 1..(n + m), NEW j \in 1..(n + m), i < j PROVE q[i] < q[j]
      BY <1>13
    <3>1. CASE j \in 1..n
      BY <1>13, <2>4, <3>1
    <3>2. CASE i \in 1..n /\ j \notin 1..n
      <4>1. PICK b \in 1..m : j = n + b
        <5>1. j - n \in 1..m /\ j = n + (j - n)
          BY <1>13, <3>2
        <5>. QED  BY <5>1
      <4>2. r[i] <= l /\ e[b] > l /\ r[i] \in Nat /\ e[b] \in Nat
        <5>1. r[i] \in 1..MaxLines /\ e[b] \in 1..MaxLines
          BY <1>14, <3>2, <4>1
        <5>. QED  BY <2>5, <2>7, <3>2, <4>1, <5>1
      <4>. QED  BY <1>13, <2>3, <3>2, <4>1, <4>2
    <3>3. CASE i \notin 1..n
      <4>1. PICK a \in 1..m, b \in 1..m : i = n + a /\ j = n + b /\ a < b
        <5>1. i - n \in 1..m /\ j - n \in 1..m /\ i = n + (i - n) /\ j = n + (j - n) /\ i - n < j - n
          BY <1>13, <3>3
        <5>. QED  BY <5>1
      <4>. QED  BY <1>13, <2>2, <4>1
    <3>. QED  BY <1>13, <3>1, <3>2, <3>3
  <2>9. PICK h : h = LastReported'
    OBVIOUS
  <2>10. h = l \/ (h > l /\ h \in Nat /\ \E i \in DOMAIN s : Tells(s, i) /\ h = s[i].line)
    <3>1. CASE m = 0
      <4>1. q = r
        BY <1>10, <1>11, <1>12, <1>13, <3>1
      <4>. QED  BY <1>11, <1>15, <2>3, <2>9, <4>1 DEF LastReported
    <3>2. CASE m # 0
      <4>0. m \in 1..m /\ n + m # 0
        BY <1>13, <3>2
      <4>1. q # <<>> /\ q[n + m] = e[m] /\ e[m] \in 1..MaxLines
        BY <1>13, <1>14, <4>0
      <4>2. h = e[m]
        BY <1>13, <1>15, <2>9, <4>1 DEF LastReported
      <4>. QED  BY <1>10, <1>13, <2>7, <4>0, <4>1, <4>2, SMTT(30)
    <3>. QED  BY <3>1, <3>2
  <2>11. PICK c, g : c = content[path] /\ g = poll.want
    OBVIOUS
  <2>12. w.found /\ path \in Inodes /\ path = w.inode /\ poll.fd = path /\ w.offset + g <= Len(c) /\ path # NoFile
    BY <1>1, <1>17, <2>11 DEF SSHInv, ReadsWhatItMeasured, Size, SSHTypeOK, NoFile
  <2>13. /\ Len(s) = g /\ g \in Nat /\ DOMAIN s = 1..g /\ o = w.offset + g
         /\ \A i \in 1..g : w.offset + i \in DOMAIN c /\ s[i] = c[w.offset + i]
    <3>1. Len(s) = g /\ \A i \in 1..g : w.offset + i \in DOMAIN c /\ s[i] = c[w.offset + i]
      BY <1>1, <1>2, <2>11, <2>12, UnreadIs DEF Size
    <3>. QED  BY <1>2, <1>4, <1>5, <2>11, <3>1
  <2>14. PICK z : z = Len(c) /\ z \in Nat /\ DOMAIN c = 1..z /\ c \in Seq(Units)
    BY <1>1, <2>11, <2>12
  <2>15. \A k \in 1..z : c[k].line \in 1..MaxLines
    <3>. SUFFICES ASSUME NEW k \in 1..z PROVE c[k].line \in 1..MaxLines
      OBVIOUS
    <3>1. c[k] \in Units
      BY <2>14
    <3>. QED  BY <3>1 DEF Units
  <2>16. \A a, b \in 1..z : a < b => Earlier(c[a], c[b])
    BY <2>11, <2>12, <2>14 DEF SSHInv, LogsInOrder
  \* What comes after a unit that was told is of a later line, or a tail that says nothing.
  <2>17. ASSUME NEW i \in 1..g, Tells(s, i), NEW k \in 1..z, k > o
         PROVE  c[k].line > s[i].line \/ (c[k].line = s[i].line /\ c[k].part = "tail" /\ c[k].cut = "late")
    <3>1. w.offset + i \in 1..z /\ w.offset + i < k /\ s[i] = c[w.offset + i]
      BY <1>4, <2>13, <2>14, <2>17
    <3>2. Earlier(s[i], c[k])
      BY <2>16, <3>1
    <3>3. CASE i < g /\ c[k].line = s[i].line
      <4>0. i + 1 \in 1..g /\ i + 1 <= g
        BY <2>13, <3>3
      <4>1. w.offset + (i + 1) \in 1..z /\ w.offset + (i + 1) < k /\ w.offset + i < w.offset + (i + 1)
        <5>1. PICK x \in Nat : x = w.offset
          BY <1>4
        <5>. QED  BY <2>13, <2>14, <2>17, <4>0, <5>1
      <4>2. Earlier(s[i], s[i + 1]) /\ Earlier(s[i + 1], c[k]) /\ s[i + 1].line \in 1..MaxLines
        BY <2>13, <2>15, <2>16, <3>1, <4>0, <4>1
      <4>3. s[i].line \in 1..MaxLines
        BY <2>15, <3>1
      <4>. QED  BY <3>3, <4>2, <4>3 DEF Earlier
    <3>4. CASE ~(i < g) /\ c[k].line = s[i].line
      <4>1. s[i].part = "head" /\ c[k].part = "tail" /\ s[i].cut = c[k].cut
        BY <2>15, <3>1, <3>2, <3>4 DEF Earlier
      <4>2. s[i].cut = "late"
        BY <2>13, <2>17, <3>4, <4>1 DEF Tells
      <4>. QED  BY <3>4, <4>1, <4>2
    <3>. QED  BY <3>2, <3>3, <3>4 DEF Earlier
  <2>18. ASSUME NEW i \in 1..g, Tells(s, i)
         PROVE  line > s[i].line \/ (line = s[i].line /\ cut = "late")
    <3>1. w.offset + i \in 1..z /\ s[i] = c[w.offset + i] /\ s[i].line \in 1..MaxLines
      BY <2>13, <2>14, <2>15
    <3>2. s[i].line < line \/ (s[i].line = line /\ cut # Whole /\ s[i].part = "head" /\ s[i].cut = cut)
      BY <2>11, <2>12, <2>14, <3>1 DEF SSHInv, LogsInOrder
    <3>3. CASE i < g /\ s[i].line = line
      <4>0. i + 1 \in 1..g
        BY <2>13, <3>3
      <4>1. w.offset + (i + 1) \in 1..z /\ w.offset + i < w.offset + (i + 1)
        <5>1. PICK x \in Nat : x = w.offset
          BY <1>4
        <5>. QED  BY <2>13, <2>14, <4>0, <5>1
      <4>2. Earlier(s[i], s[i + 1]) /\ s[i + 1] = c[w.offset + (i + 1)] /\ s[i + 1].line \in 1..MaxLines
        BY <2>13, <2>15, <2>16, <3>1, <4>0, <4>1
      <4>3. s[i + 1].line < line \/ (s[i + 1].line = line /\ s[i + 1].part = "head")
        BY <2>11, <2>12, <2>14, <4>1, <4>2 DEF SSHInv, LogsInOrder
      <4>. QED  BY <1>4, <3>1, <3>3, <4>2, <4>3 DEF Earlier
    <3>4. CASE ~(i < g) /\ s[i].line = line
      <4>1. s[i].part = "head" /\ s[i].cut = cut
        BY <1>4, <3>2, <3>4
      <4>. QED  BY <2>13, <2>18, <3>4, <4>1 DEF Tells
    <3>. QED  BY <1>4, <3>1, <3>2, <3>3, <3>4
  <2>19. AheadIsNew
    BY <1>17 DEF SSHInv
  <2>20. line > h \/ (line = h /\ cut = "late")
    BY <2>3, <2>10, <2>13, <2>18, <2>19 DEF AheadIsNew
  <2>21. ASSUME NEW k \in 1..z, k > StartOffset'
         PROVE  c[k].line > h \/ (c[k].line = h /\ c[k].part = "tail" /\ c[k].cut = "late")
    <3>1. StartOffset = w.offset /\ StartOffset' = o
      BY <1>1, <1>4, <1>7, <2>11, <2>12, <2>13, <2>14 DEF StartOffset, Size
    <3>2. k > o /\ k > StartOffset
      BY <1>4, <2>13, <2>21, <3>1
    <3>3. CASE h = l
      BY <2>3, <2>11, <2>12, <2>14, <2>19, <3>2, <3>3 DEF AheadIsNew, IsNew
    <3>4. CASE h # l
      BY <2>10, <2>13, <2>17, <3>2, <3>4
    <3>. QED  BY <3>3, <3>4
  <2>22. AheadIsNew'
    BY <1>1, <2>9, <2>11, <2>14, <2>20, <2>21 DEF AheadIsNew, IsNew
  <2>. QED  BY <2>8, <2>22
<1>. QED  BY <1>1, <1>8, <1>9, <1>13, <1>15, <1>16, <1>17 DEF SSHInv, NoReplay

\* ssh.go:73-86: what Stat sees is what the poll will read.
LEMMA StatKeeps ==
  ASSUME SSHInv, Stat
  PROVE  SSHInv'
<1>1. /\ path' = path /\ content' = content /\ logfd' = logfd /\ line' = line /\ cut' = cut /\ fresh' = fresh
      /\ crossed' = crossed /\ reported' = reported /\ path # NoFile /\ w.found
      /\ SSHTypeOK /\ content \in [Inodes -> Seq(Units)] /\ MaxLines \in Nat
  BY SSHAssumption DEF Stat, AtStat, worldVars, SSHInv, NoReplay, LogsInOrder
<1>2. path \in Inodes /\ w.offset \in 0..(2 * MaxLines) /\ line \in 1..(MaxLines + 1)
  BY <1>1 DEF SSHTypeOK
<1>3. PICK o, n : o = StartOffset /\ n = Size(path) /\ n \in Nat
  BY <1>1, <1>2 DEF Size
<1>4. o \in 0..(2 * MaxLines) /\ o <= n
  BY <1>1, <1>2, <1>3 DEF StartOffset
<1>5. n <= 2 * MaxLines
  <2>1. n <= 2 * (line - 1) + (IF cut = Whole THEN 0 ELSE 1) /\ (cut # Whole => line <= MaxLines)
    BY <1>2, <1>3 DEF SSHInv, LogsFit
  <2>. QED  BY <1>1, <1>2, <1>3, <2>1
<1>6. /\ w' \in [found: BOOLEAN, inode: Inodes \cup {NoFile}, offset: 0..(2 * MaxLines)]
      /\ w'.found = w.found /\ w'.inode = path /\ w'.offset = o
  BY <1>1, <1>2, <1>3, <1>4 DEF Stat, SSHTypeOK
<1>7. \/ poll' = Waiting
      \/ poll' = [pc |-> "open", want |-> n - o] /\ n - o \in 1..(2 * MaxLines) /\ o + (n - o) = n
  BY <1>1, <1>3, <1>4, <1>5 DEF Stat
<1>8. SSHTypeOK'
  BY <1>1, <1>6, <1>7 DEF SSHTypeOK, Waiting
<1>9. StartOffset' = o
  BY <1>1, <1>3, <1>4, <1>6 DEF StartOffset, Size
<1>10. ~crossed => AheadIsNew'
  BY <1>1, <1>3, <1>9 DEF SSHInv, AheadIsNew, IsNew, LastReported
<1>11. ReadsWhatItMeasured'
  BY <1>1, <1>3, <1>6, <1>7 DEF ReadsWhatItMeasured, Size, Waiting
<1>12. path < fresh
  BY DEF SSHInv, NewFilesAreEmpty
<1>. QED  BY <1>1, <1>6, <1>8, <1>10, <1>11, <1>12
          DEF SSHInv, NoReplay, LogsInOrder, LogsFit, NewFilesAreEmpty, Size

\* The steps that change neither what is written nor what is reported: they do
\* no more than lose or open the file, or go to its end.
LEMMA PollKeeps ==
  ASSUME SSHInv, Resolve \/ StatFails \/ OpenFails \/ OpenFile \/ RestartSSH \/ UNCHANGED sshVars
  PROVE  SSHInv'
<1>1. /\ path' = path /\ content' = content /\ logfd' = logfd /\ line' = line /\ cut' = cut /\ fresh' = fresh
      /\ crossed' = crossed /\ reported' = reported
      /\ SSHTypeOK /\ content \in [Inodes -> Seq(Units)] /\ MaxLines \in Nat
  BY SSHAssumption DEF Resolve, StatFails, OpenFails, OpenFile, RestartSSH, sshVars, worldVars, SSHInv, NoReplay, LogsInOrder
<1>2. line \in 1..(MaxLines + 1) /\ path < fresh /\ fresh \in Nat /\ NoFile < fresh
  BY <1>1 DEF SSHTypeOK, SSHInv, NewFilesAreEmpty, NoFile
<1>3. \A i \in Inodes : Size(i) \in 0..(2 * MaxLines)
  <2>. SUFFICES ASSUME NEW i \in Inodes PROVE Size(i) \in 0..(2 * MaxLines)
    OBVIOUS
  <2>1. PICK n \in Nat : n = Size(i)
    BY <1>1 DEF Size
  <2>2. n <= 2 * (line - 1) + (IF cut = Whole THEN 0 ELSE 1) /\ (cut # Whole => line <= MaxLines)
    BY <2>1 DEF SSHInv, LogsFit
  <2>. QED  BY <1>1, <1>2, <2>1, <2>2
<1>4. SSHTypeOK'
  <2>1. CASE Resolve
    <3>1. path \in Inodes
      BY <1>1, <2>1 DEF Resolve, SSHTypeOK
    <3>. QED  BY <1>1, <1>3, <2>1, <3>1 DEF Resolve, SSHTypeOK
  <2>2. CASE StatFails
    BY <1>1, <2>2 DEF StatFails, SSHTypeOK, Waiting
  <2>3. CASE OpenFails
    BY <1>1, <2>3 DEF OpenFails, SSHTypeOK, Waiting
  <2>4. CASE OpenFile
    <3>1. path \in Inodes /\ poll.want \in 1..(2 * MaxLines) /\ w' = w
      BY <1>1, <2>4 DEF OpenFile, SSHTypeOK
    <3>. QED  BY <1>1, <2>4, <3>1 DEF OpenFile, SSHTypeOK
  <2>5. CASE RestartSSH
    BY <1>1, <2>5 DEF RestartSSH, SSHTypeOK, Waiting, Lost
  <2>6. CASE UNCHANGED sshVars
    BY <1>1, <2>6 DEF sshVars, SSHTypeOK
  <2>. QED  BY <2>1, <2>2, <2>3, <2>4, <2>5, <2>6
<1>5. w'.inode < fresh
  BY <1>1, <1>2 DEF Resolve, StatFails, OpenFails, OpenFile, RestartSSH, sshVars, Lost, SSHInv, NewFilesAreEmpty, SSHTypeOK
<1>6. ASSUME ~crossed PROVE AheadIsNew'
  <2>1. AheadIsNew
    BY <1>6 DEF SSHInv
  <2>2. CASE Resolve
    <3>1. path \in Inodes /\ path # NoFile
      BY <1>1, <2>2 DEF Resolve, SSHTypeOK
    <3>2. PICK n \in Nat : n = Size(path) /\ DOMAIN content[path] = 1..n
      BY <1>1, <3>1 DEF Size
    <3>3. w'.inode = path /\ w'.offset = n
      BY <2>2, <3>2 DEF Resolve
    <3>4. StartOffset' = n
      BY <1>1, <3>2, <3>3 DEF StartOffset, Size
    <3>5. \A k \in 1..n : ~(k > n)
      BY <3>2
    <3>. QED  BY <1>1, <2>1, <3>2, <3>4, <3>5 DEF AheadIsNew, LastReported
  <2>3. CASE StatFails \/ RestartSSH
    <3>1. w'.found = FALSE
      BY <1>1, <2>3 DEF StatFails, RestartSSH, Lost, SSHTypeOK
    <3>. QED  BY <1>1, <2>1, <3>1 DEF AheadIsNew, LastReported
  <2>4. CASE OpenFails \/ OpenFile \/ UNCHANGED sshVars
    <3>1. w' = w
      BY <2>4 DEF OpenFails, OpenFile, sshVars
    <3>. QED  BY <1>1, <2>1, <3>1 DEF AheadIsNew, IsNew, LastReported, StartOffset, Size
  <2>. QED  BY <2>2, <2>3, <2>4
<1>7. ASSUME ~crossed PROVE ReadsWhatItMeasured'
  <2>1. ReadsWhatItMeasured
    BY <1>7 DEF SSHInv
  <2>2. CASE OpenFile
    <3>1. poll.pc = "open" /\ poll' = [pc |-> "read", want |-> poll.want, fd |-> path] /\ w' = w
      BY <2>2 DEF OpenFile
    <3>. QED  BY <1>1, <2>1, <3>1 DEF ReadsWhatItMeasured, Size
  <2>3. CASE UNCHANGED sshVars
    BY <1>1, <2>1, <2>3 DEF ReadsWhatItMeasured, Size, sshVars
  <2>4. CASE Resolve \/ StatFails \/ OpenFails \/ RestartSSH
    BY <2>4 DEF ReadsWhatItMeasured, Resolve, StatFails, OpenFails, RestartSSH, Waiting
  <2>. QED  BY <2>2, <2>3, <2>4
<1>. QED  BY <1>1, <1>4, <1>5, <1>6, <1>7
          DEF SSHInv, NoReplay, LogsInOrder, LogsFit, NewFilesAreEmpty, Size

\* Rotation: the path loses its file, gets an empty one, or has its own emptied.
LEMMA RotationKeeps ==
  ASSUME SSHInv, MoveAway \/ CreateFresh \/ Reopen \/ Truncate
  PROVE  SSHInv'
<1>1. /\ line' = line /\ cut' = cut /\ w' = w /\ poll' = poll /\ reported' = reported
      /\ SSHTypeOK /\ content \in [Inodes -> Seq(Units)] /\ MaxLines \in Nat /\ MaxInodes \in Nat \ {0}
  BY SSHAssumption DEF MoveAway, CreateFresh, Reopen, Truncate, watchVars, SSHInv, NoReplay, LogsInOrder
<1>2. /\ fresh \in 2..(MaxInodes + 1) /\ path < fresh /\ logfd < fresh /\ w.inode < fresh
      /\ \A i \in Inodes : i >= fresh => content[i] = <<>>
      /\ path \in Inodes \cup {NoFile} /\ logfd \in Inodes \cup {NoFile} /\ w.inode \in Nat
  BY <1>1 DEF SSHInv, NewFilesAreEmpty, SSHTypeOK, Inodes, NoFile
<1>3. /\ content' \in [Inodes -> Seq(Units)]
      /\ \A i \in Inodes : content'[i] = content[i] \/ content'[i] = <<>>
  <2>1. CASE MoveAway \/ CreateFresh \/ Reopen
    <3>1. content' = content
      BY <2>1 DEF MoveAway, CreateFresh, Reopen
    <3>. QED  BY <1>1, <3>1
  <2>2. CASE Truncate
    <3>1. path \in Inodes /\ content' = [content EXCEPT ![path] = <<>>]
      BY <1>2, <2>2 DEF Truncate
    <3>2. <<>> \in Seq(Units)
      OBVIOUS
    <3>. QED  BY <1>1, <3>1, <3>2
  <2>. QED  BY <2>1, <2>2
<1>4. /\ path' \in Inodes \cup {NoFile} /\ logfd' \in Inodes \cup {NoFile}
      /\ fresh' \in 2..(MaxInodes + 1) /\ fresh <= fresh' /\ path' < fresh' /\ logfd' < fresh'
  BY <1>1, <1>2, SMTT(30) DEF MoveAway, CreateFresh, Reopen, Truncate, Inodes, NoFile
<1>5. SSHTypeOK'
  <2>1. \A i \in Inodes : \A k \in DOMAIN content'[i] : content'[i][k] \in Units
    BY <1>3
  <2>. QED  BY <1>1, <1>4, <2>1 DEF SSHTypeOK
<1>6. LogsInOrder'
  BY <1>1, <1>3 DEF SSHInv, LogsInOrder
<1>7. LogsFit'
  <2>1. ASSUME NEW i \in Inodes
        PROVE  Len(content'[i]) <= 2 * (line - 1) + (IF cut = Whole THEN 0 ELSE 1)
    <3>1. Len(content[i]) <= 2 * (line - 1) + (IF cut = Whole THEN 0 ELSE 1) /\ line \in 1..(MaxLines + 1)
      BY <1>1 DEF SSHInv, LogsFit, Size, SSHTypeOK
    <3>2. content'[i] = content[i] \/ Len(content'[i]) = 0
      BY <1>3
    <3>. QED  BY <1>1, <3>1, <3>2
  <2>. QED  BY <1>1, <2>1 DEF SSHInv, LogsFit, Size
<1>8. NewFilesAreEmpty'
  <2>1. w.inode < fresh'
    BY <1>2, <1>4
  <2>2. ASSUME NEW i \in Inodes, i >= fresh' PROVE content'[i] = <<>>
    <3>1. i >= fresh
      BY <1>2, <1>4, <2>2 DEF Inodes
    <3>. QED  BY <1>2, <1>3, <3>1
  <2>. QED  BY <1>1, <1>4, <2>1, <2>2 DEF NewFilesAreEmpty
<1>9. ASSUME ~crossed' PROVE ~crossed /\ AheadIsNew' /\ ReadsWhatItMeasured'
  <2>1. CASE Reopen
    <3>1. path' = path /\ content' = content /\ crossed' = crossed
      BY <2>1 DEF Reopen
    <3>2. AheadIsNew /\ ReadsWhatItMeasured
      BY <1>9, <3>1 DEF SSHInv
    <3>. QED  BY <1>1, <1>9, <3>1, <3>2
              DEF AheadIsNew, ReadsWhatItMeasured, IsNew, LastReported, StartOffset, Size
  <2>2. CASE MoveAway \/ CreateFresh \/ Truncate
    <3>1. ~crossed /\ poll.pc = "wait"
      BY <1>9, <2>2 DEF MoveAway, CreateFresh, Truncate, Cross
    <3>2. AheadIsNew
      BY <3>1 DEF SSHInv
    <3>3. ReadsWhatItMeasured'
      BY <1>1, <3>1 DEF ReadsWhatItMeasured
    <3>4. path' = NoFile \/ content'[path'] = <<>>
      <4>1. CASE MoveAway
        BY <4>1 DEF MoveAway
      <4>2. CASE CreateFresh
        <5>1. path' = fresh /\ fresh \in Inodes /\ content' = content
          BY <1>1, <1>2, <4>2 DEF CreateFresh, Inodes
        <5>. QED  BY <1>2, <5>1 DEF Inodes
      <4>3. CASE Truncate
        <5>1. path' = path /\ path \in Inodes /\ content' = [content EXCEPT ![path] = <<>>]
          BY <1>2, <4>3 DEF Truncate
        <5>. QED  BY <1>1, <5>1
      <4>. QED  BY <2>2, <4>1, <4>2, <4>3
    <3>5. AheadIsNew'
      BY <1>1, <3>2, <3>4 DEF AheadIsNew, LastReported
    <3>. QED  BY <3>1, <3>3, <3>5
  <2>. QED  BY <2>1, <2>2
<1>. QED  BY <1>1, <1>5, <1>6, <1>7, <1>8, <1>9 DEF SSHInv, NoReplay

\* ssh.go:42-48: the watcher starts with nothing read.
LEMMA SSHStart == SSHInit => SSHInv
<1>. SUFFICES ASSUME SSHInit PROVE SSHInv
  OBVIOUS
<1>1. MaxLines \in Nat /\ MaxInodes \in Nat \ {0}
  BY SSHAssumption
<1>2. /\ path \in {0, 1} /\ logfd = path /\ line = 1 /\ cut = Whole /\ fresh = 2 /\ w = Lost /\ poll = Waiting
      /\ reported = <<>> /\ content \in [Inodes -> Seq(Units)] /\ \A i \in Inodes : content[i] = <<>>
  BY DEF SSHInit, NoFile
<1>3. SSHTypeOK
  BY <1>1, <1>2 DEF SSHTypeOK, Lost, Waiting, Inodes, NoFile
<1>4. LogsInOrder /\ LogsFit /\ NewFilesAreEmpty
  BY <1>1, <1>2 DEF LogsInOrder, LogsFit, NewFilesAreEmpty, Size, Lost, NoFile
<1>5. AheadIsNew /\ ReadsWhatItMeasured
  BY <1>2 DEF AheadIsNew, ReadsWhatItMeasured, LastReported, Lost, Waiting
<1>. QED  BY <1>2, <1>3, <1>4, <1>5 DEF SSHInv, NoReplay

\* ssh.go:66-106: as long as no poll straddles a rotation, no line is reported twice or
\* out of order, however the log is rotated, truncated, lost and cut, and however often
\* the process restarts.
THEOREM NothingIsReplayed == SSHSpec => []NoReplay
<1>1. SSHInit => SSHInv
  BY SSHStart
<1>2. SSHInv /\ [SSHNext]_sshVars => SSHInv'
  <2>. SUFFICES ASSUME SSHInv, [SSHNext]_sshVars PROVE SSHInv'
    OBVIOUS
  <2>1. CASE WriteLine
    <3>1. Write("line", Whole) /\ cut = Whole /\ line' = line + 1 /\ cut' = Whole
      BY <2>1 DEF WriteLine
    <3>. QED  BY <3>1, WriteKeeps
  <2>2. CASE WriteHead
    <3>1. PICK c \in Cuts : Write("head", c) /\ cut = Whole /\ line' = line /\ cut' = c
      BY <2>2 DEF WriteHead
    <3>. QED  BY <3>1, WriteKeeps
  <2>3. CASE WriteTail
    <3>1. Write("tail", cut) /\ cut # Whole /\ line' = line + 1 /\ cut' = Whole
      BY <2>3 DEF WriteTail
    <3>. QED  BY <3>1, WriteKeeps
  <2>4. CASE MoveAway \/ CreateFresh \/ Reopen \/ Truncate
    BY <2>4, RotationKeeps
  <2>5. CASE Stat
    BY <2>5, StatKeeps
  <2>6. CASE Read
    BY <2>6, ReadKeeps
  <2>7. CASE Resolve \/ StatFails \/ OpenFails \/ OpenFile \/ RestartSSH \/ UNCHANGED sshVars
    BY <2>7, PollKeeps
  <2>. QED  BY <2>1, <2>2, <2>3, <2>4, <2>5, <2>6, <2>7 DEF SSHNext, PollStep
<1>3. SSHInv => NoReplay
  BY DEF SSHInv
<1>. QED  BY <1>1, <1>2, <1>3, PTL DEF SSHSpec

------------------------------------------------------------------------------
(* ProcTCP *)

\* f is what n steps make of b, step i being g[i].
Makes(f, n, S, b, g) == f \in [0..n -> S] /\ f[0] = b /\ \A i \in 1..n : f[i] = g[i][f[i - 1]]

\* Steps can always be taken.
LEMMA Stepwise ==
  ASSUME NEW n \in Nat, NEW S, NEW b \in S, NEW g \in [1..n -> [S -> S]]
  PROVE  \E f : Makes(f, n, S, b, g)
<1>. DEFINE T == {m \in 0..n : \E f \in [0..n -> S] : f[0] = b /\ \A i \in 1..m : f[i] = g[i][f[i - 1]]}
<1>1. 0 \in T
  <2>1. [i \in 0..n |-> b] \in [0..n -> S] /\ [i \in 0..n |-> b][0] = b
    OBVIOUS
  <2>2. \A i \in 1..0 : FALSE
    OBVIOUS
  <2>3. \E f \in [0..n -> S] : f[0] = b /\ \A i \in 1..0 : f[i] = g[i][f[i - 1]]
    BY <2>1, <2>2
  <2>. QED  BY <2>3
<1>2. ASSUME NEW m \in 0..n, m \in T, m # n PROVE m + 1 \in T
  <2>1. PICK f \in [0..n -> S] : f[0] = b /\ \A i \in 1..m : f[i] = g[i][f[i - 1]]
    BY <1>2
  <2>2. m + 1 \in 1..n /\ m \in 0..n /\ (m + 1) - 1 = m
    BY <1>2
  <2>3. PICK v : v = g[m + 1][f[m]] /\ v \in S
    BY <2>2
  <2>4. PICK h : h = [i \in 0..n |-> IF i = m + 1 THEN v ELSE f[i]]
    OBVIOUS
  <2>5. h \in [0..n -> S] /\ h[0] = b /\ h[m + 1] = v /\ \A i \in 0..m : h[i] = f[i]
    BY <2>1, <2>2, <2>3, <2>4
  <2>6. \A i \in 1..(m + 1) : h[i] = g[i][h[i - 1]]
    <3>. TAKE i \in 1..(m + 1)
    <3>1. CASE i = m + 1
      BY <2>2, <2>3, <2>5, <3>1
    <3>2. CASE i # m + 1
      <4>1. i \in 1..m /\ i \in 0..m /\ i - 1 \in 0..m
        BY <3>2
      <4>. QED  BY <2>1, <2>5, <4>1
    <3>. QED  BY <3>1, <3>2
  <2>7. \E f_1 \in [0..n -> S] : f_1[0] = b /\ \A i \in 1..(m + 1) : f_1[i] = g[i][f_1[i - 1]]
    BY <2>5, <2>6
  <2>. QED  BY <2>2, <2>7
<1>3. n \in T
  <2>. HIDE DEF T
  <2>1. 0..n \subseteq T
    BY <1>1, <1>2, Climb
  <2>. QED  BY <2>1
<1>. QED  BY <1>3 DEF Makes


\* f has what the first 1, 2, ... of the n sequences of p are, one after the other.
Flattens(f, n, p) == f = [i \in 1..n |-> f[i]] /\ f[1] = p[1] /\ \A i \in 2..n : f[i] = f[i - 1] \o p[i]

\* They can be put together one by one.
LEMMA FlatExists ==
  ASSUME NEW E, NEW n \in Nat \ {0}, NEW p \in [1..n -> Seq(E)]
  PROVE  \E f \in [1..n -> Seq(E)] : Flattens(f, n, p)
<1>0. PICK Q : Q = Seq(E)
  OBVIOUS
<1>1. PICK g : g = [i \in 1..n |-> [q \in Q |-> q \o p[i]]]
  OBVIOUS
<1>2. g \in [1..n -> [Q -> Q]]
  BY <1>0, <1>1, ConcatProperties
<1>3. PICK b : b = <<>> /\ b \in Q
  <2>. <<>> \in Seq(E)
    OBVIOUS
  <2>. QED  BY <1>0
<1>4. PICK h : Makes(h, n, Q, b, g)
  BY <1>2, <1>3, Stepwise
<1>5. h \in [0..n -> Q] /\ h[0] = b /\ \A i \in 1..n : h[i] = g[i][h[i - 1]]
  BY <1>4 DEF Makes
<1>6. ASSUME NEW i \in 1..n PROVE h[i] \in Q /\ h[i] = h[i - 1] \o p[i]
  <2>1. i - 1 \in 0..n /\ i \in 0..n /\ h[i - 1] \in Q
    BY <1>5
  <2>. QED  BY <1>1, <1>5, <2>1
<1>7. PICK f : f = [i \in 1..n |-> h[i]]
  OBVIOUS
<1>8. f \in [1..n -> Seq(E)]
  BY <1>0, <1>6, <1>7
<1>9. f[1] = p[1]
  <2>0. 1 \in 1..n /\ 1 - 1 = 0
    OBVIOUS
  <2>1. h[1] = b \o p[1] /\ p[1] \in Seq(E)
    BY <1>5, <1>6, <2>0
  <2>. QED  BY <1>3, <1>7, <2>0, <2>1
<1>10. ASSUME NEW i \in 2..n PROVE f[i] = f[i - 1] \o p[i]
  <2>1. i \in 1..n /\ i - 1 \in 1..n
    OBVIOUS
  <2>. QED  BY <1>6, <1>7, <2>1
<1>11. f = [i \in 1..n |-> f[i]]
  BY <1>7
<1>12. Flattens(f, n, p)
  BY ONLY n \in Nat \ {0}, <1>9, <1>10, <1>11 DEF Flattens
<1>. QED  BY <1>8, <1>12

\* In whatever way they are, it is the same.
LEMMA FlatIsOne ==
  ASSUME NEW n \in Nat \ {0}, NEW p, NEW f, NEW h, Flattens(f, n, p), Flattens(h, n, p)
  PROVE  f = h
<1>0. /\ f = [i \in 1..n |-> f[i]] /\ f[1] = p[1] /\ \A i \in 2..n : f[i] = f[i - 1] \o p[i]
      /\ h = [i \in 1..n |-> h[i]] /\ h[1] = p[1] /\ \A i \in 2..n : h[i] = h[i - 1] \o p[i]
  BY DEF Flattens
<1>. DEFINE T == {i \in 0..n : i = 0 \/ f[i] = h[i]}
<1>1. 0 \in T
  OBVIOUS
<1>2. ASSUME NEW m \in 0..n, m \in T, m # n PROVE m + 1 \in T
  <2>1. CASE m = 0
    <3>1. m + 1 = 1 /\ 1 \in 0..n
      BY <2>1
    <3>2. f[1] = h[1]
      BY <1>0
    <3>. QED  BY <3>1, <3>2
  <2>2. CASE m # 0
    <3>1. m + 1 \in 2..n /\ (m + 1) - 1 = m /\ f[m] = h[m]
      BY <1>2, <2>2
    <3>2. f[m + 1] = f[m] \o p[m + 1] /\ h[m + 1] = h[m] \o p[m + 1]
      BY <1>0, <3>1
    <3>3. f[m + 1] = h[m + 1]
      BY ONLY <3>1, <3>2
    <3>. QED  BY <3>1, <3>3
  <2>. QED  BY <2>1, <2>2
<1>3. 0..n \subseteq T
  <2>. HIDE DEF T
  <2>. QED  BY <1>1, <1>2, Climb
<1>4. \A i \in 1..n : f[i] = h[i]
  BY <1>3
<1>. QED  BY <1>0, <1>4

\* And it is what FlattenSeq puts together.
LEMMA FlatIs ==
  ASSUME NEW E, NEW n \in Nat \ {0}, NEW p \in [1..n -> Seq(E)], NEW f, Flattens(f, n, p)
  PROVE  FlattenSeq(p) = f[n] /\ f[n] \in Seq(E)
<1>. DEFINE Step(g, i) == IF i = 1 THEN p[i] ELSE g[i - 1] \o p[i]
<1>1. Len(p) = n /\ DOMAIN p = 1..n
  OBVIOUS
<1>2. \E g : g = [i \in 1..n |-> Step(g, i)]
  <2>1. ASSUME NEW i \in 1..n PROVE f[i] = Step(f, i)
    <3>1. i = 1 \/ i \in 2..n
      OBVIOUS
    <3>. QED  BY <3>1 DEF Flattens
  <2>2. f = [i \in 1..n |-> Step(f, i)]
    BY <2>1 DEF Flattens
  <2>. QED  BY <2>2
<1>3. PICK g : g = [i \in 1..n |-> Step(g, i)] /\ FlattenSeq(p) = g[n]
  BY <1>1, <1>2 DEF FlattenSeq
<1>4. Flattens(g, n, p)
  <2>1. \A i \in 1..n : g[i] = Step(g, i)
    BY <1>3
  <2>2. g = [i \in 1..n |-> g[i]]
    BY <1>3
  <2>3. 1 \in 1..n /\ \A i \in 2..n : i \in 1..n /\ i # 1
    OBVIOUS
  <2>. QED  BY <2>1, <2>2, <2>3 DEF Flattens
<1>5. f = g
  BY <1>4, FlatIsOne
<1>6. PICK h \in [1..n -> Seq(E)] : Flattens(h, n, p)
  BY FlatExists
<1>7. f = h
  BY <1>6, FlatIsOne
<1>8. f[n] \in Seq(E)
  BY <1>6, <1>7
<1>. QED  BY <1>3, <1>5, <1>8

\* What is put last comes last.
LEMMA FlatOfAppend ==
  ASSUME NEW E, NEW n \in Nat, NEW p \in [1..n -> Seq(E)], NEW q \in Seq(E)
  PROVE  /\ FlattenSeq(p) \in Seq(E)
         /\ FlattenSeq(Append(p, q)) = FlattenSeq(p) \o q
<1>0. PICK Q : Q = Seq(E)
  OBVIOUS
<1>1. p \in [1..n -> Q] /\ q \in Q /\ Len(p) = n
  BY <1>0
<1>2. PICK r : r = Append(p, q)
  OBVIOUS
<1>3. r \in [1..(n + 1) -> Seq(E)] /\ r[n + 1] = q /\ \A i \in 1..n : r[i] = p[i]
  <2>1. p \in Seq(Q)
    BY <1>1
  <2>2. r \in Seq(Q) /\ Len(r) = n + 1 /\ r[n + 1] = q /\ \A i \in 1..n : r[i] = p[i]
    BY <1>1, <1>2, <2>1, AppendProperties
  <2>3. r \in [1..(n + 1) -> Q]
    BY <2>2
  <2>. QED  BY <1>0, <2>2, <2>3
<1>4. CASE n = 0
  <2>1. p = <<>> /\ FlattenSeq(p) = <<>>
    BY <1>1, <1>4 DEF FlattenSeq
  <2>2. PICK f : f = [i \in 1..1 |-> q]
    OBVIOUS
  <2>3. Flattens(f, 1, r) /\ r \in [1..1 -> Seq(E)] /\ f[1] = q
    <3>1. f = [i \in 1..1 |-> f[i]] /\ f[1] = q /\ 1 \in Nat \ {0}
      BY <2>2
    <3>2. n + 1 = 1
      BY <1>4
    <3>3. r \in [1..1 -> Seq(E)] /\ r[1] = q
      BY <1>3, <3>2
    <3>4. \A i \in 2..1 : f[i] = f[i - 1] \o r[i]
      OBVIOUS
    <3>5. Flattens(f, 1, r)
      BY ONLY <3>1, <3>3, <3>4 DEF Flattens
    <3>. QED  BY <3>1, <3>3, <3>5
  <2>4. FlattenSeq(r) = q
    <3>1. 1 \in Nat \ {0}
      OBVIOUS
    <3>. QED  BY <2>3, <3>1, FlatIs
  <2>5. PICK e : e = FlattenSeq(p) /\ e = <<>> /\ e \in Seq(E) /\ e \o q = q
    <3>1. <<>> \in Seq(E) /\ <<>> \o q = q
      OBVIOUS
    <3>. QED  BY <2>1, <3>1
  <2>. QED  BY <1>2, <2>4, <2>5
<1>5. CASE n # 0
  <2>1. PICK f \in [1..n -> Seq(E)] : Flattens(f, n, p)
    BY <1>1, <1>5, FlatExists
  <2>2. FlattenSeq(p) = f[n] /\ f[n] \in Seq(E)
    BY <1>1, <1>5, <2>1, FlatIs
  <2>. f[1] = p[1] /\ \A i \in 2..n : f[i] = f[i - 1] \o p[i]
    <3>. n \in Nat \ {0}
      BY <1>5
    <3>. QED  BY ONLY n \in Nat \ {0}, <2>1 DEF Flattens
  <2>3. PICK h : h = [i \in 1..(n + 1) |-> IF i = n + 1 THEN f[n] \o q ELSE f[i]]
    OBVIOUS
  <2>4. DOMAIN h = 1..(n + 1) /\ h[n + 1] = f[n] \o q /\ \A i \in 1..n : h[i] = f[i]
    BY <2>3
  <2>5. h[1] = r[1]
    BY <1>3, <1>5, <2>1, <2>4
  <2>6. ASSUME NEW i \in 2..(n + 1) PROVE h[i] = h[i - 1] \o r[i]
    <3>1. CASE i = n + 1
      <4>1. i - 1 = n /\ n \in 1..n
        BY <1>5, <3>1
      <4>. QED  BY <1>3, <2>4, <3>1, <4>1
    <3>2. CASE i # n + 1
      <4>1. i \in 2..n /\ i \in 1..n /\ i - 1 \in 1..n
        BY <3>2
      <4>2. f[i] = f[i - 1] \o p[i]
        BY <1>5, <4>1
      <4>. QED  BY <1>3, <2>4, <4>1, <4>2
    <3>. QED  BY <3>1, <3>2
  <2>7. Flattens(h, n + 1, r)
    <3>1. h = [i \in 1..(n + 1) |-> h[i]] /\ n + 1 \in Nat \ {0}
      BY <2>3
    <3>. QED  BY <2>5, <2>6, <3>1 DEF Flattens
  <2>8. FlattenSeq(r) = h[n + 1]
    <3>1. PICK l \in Nat \ {0} : l = n + 1
      OBVIOUS
    <3>2. r \in [1..l -> Seq(E)] /\ Flattens(h, l, r)
      BY <1>3, <2>7, <3>1
    <3>3. FlattenSeq(r) = h[l]
      BY ONLY <3>2, l \in Nat \ {0}, FlatIs
    <3>. QED  BY <3>1, <3>3
  <2>. QED  BY <1>2, <2>2, <2>4, <2>8
<1>. QED  BY <1>4, <1>5

------------------------------------------------------------------------------
\* What is put together of k words is the words, one after the other.
LEMMA FlatWords ==
  ASSUME NEW k \in Nat \ {0}, NEW p \in [1..k -> Seq(Byte)], \A i \in 1..k : Len(p[i]) = 4
  PROVE  /\ FlattenSeq(p) \in Seq(Byte) /\ Len(FlattenSeq(p)) = 4 * k
         /\ \A u \in 1..k, j \in 1..4 : FlattenSeq(p)[4 * (u - 1) + j] = p[u][j]
<1>1. PICK f \in [1..k -> Seq(Byte)] : Flattens(f, k, p)
  BY FlatExists
<1>2. FlattenSeq(p) = f[k]
  BY <1>1, FlatIs
<1>3. f[1] = p[1] /\ \A i \in 2..k : f[i] = f[i - 1] \o p[i]
  BY ONLY k \in Nat \ {0}, <1>1 DEF Flattens
<1>. DEFINE Q(i) == Len(f[i]) = 4 * i /\ \A u \in 1..i, j \in 1..4 : f[i][4 * (u - 1) + j] = p[u][j]
            T == {i \in 0..k : i = 0 \/ Q(i)}
<1>4. 0 \in T
  OBVIOUS
<1>5. ASSUME NEW m \in 0..k, m \in T, m # k PROVE m + 1 \in T
  <2>1. CASE m = 0
    <3>1. Q(1)
      <4>1. ASSUME NEW u \in 1..1, NEW j \in 1..4 PROVE f[1][4 * (u - 1) + j] = p[u][j]
        <5>1. u = 1 /\ 4 * (u - 1) + j = j
          OBVIOUS
        <5>. QED  BY <1>3, <5>1
      <4>2. Len(f[1]) = 4 * 1
        BY <1>3
      <4>. QED  BY <4>1, <4>2
    <3>2. m + 1 = 1 /\ 1 \in 0..k
      BY <2>1
    <3>. QED  BY <3>1, <3>2
  <2>2. CASE m # 0
    <3>. PICK l : l = m + 1
      OBVIOUS
    <3>1. l = m + 1 /\ l \in 2..k /\ l \in 1..k /\ m \in 1..k /\ l - 1 = m
      BY ONLY k \in Nat, m \in 0..k, m # k, l = m + 1, <2>2
    <3>2. Q(m)
      BY <1>5, <2>2
    <3>3. PICK a, b, c : a = f[m] /\ b = p[l] /\ c = f[l]
      OBVIOUS
    <3>4. a \in Seq(Byte) /\ b \in Seq(Byte) /\ c = a \o b /\ Len(a) = 4 * m /\ Len(b) = 4
      BY <1>3, <3>1, <3>2, <3>3
    <3>5. /\ Len(c) = 4 * m + 4
          /\ \A x \in 1..(4 * m) : c[x] = a[x]
          /\ \A x \in 1..4 : c[4 * m + x] = b[x]
      <4>1. PICK y \in Nat : y = 4 * m
        OBVIOUS
      <4>0. Len(a \o b) = Len(a) + Len(b)
        BY ONLY <3>4, ConcatProperties
      <4>2. Len(a) = y /\ Len(c) = y + 4
        BY <3>4, <4>0, <4>1
      <4>3. \A x \in 1..y : c[x] = a[x]
        BY <3>4, <4>1, <4>2
      <4>4. \A x \in 1..4 : c[y + x] = b[x]
        BY <3>4, <4>1, <4>2
      <4>. QED  BY <4>1, <4>2, <4>3, <4>4
    <3>6. ASSUME NEW u \in 1..l, NEW j \in 1..4 PROVE c[4 * (u - 1) + j] = p[u][j]
      <4>1. CASE u = l
        <5>1. 4 * (u - 1) + j = 4 * m + j
          BY <3>1, <4>1
        <5>. QED  BY <3>3, <3>5, <4>1, <5>1
      <4>2. CASE u # l
        <5>1. u \in 1..m /\ 4 * (u - 1) + j \in 1..(4 * m)
          BY <3>1, <4>2
        <5>. QED  BY <3>2, <3>3, <3>5, <5>1
      <4>. QED  BY <4>1, <4>2
    <3>7. Len(c) = 4 * l
      BY <3>1, <3>5
    <3>8. Q(l)
      BY <3>3, <3>6, <3>7
    <3>9. l \in 0..k
      BY <3>1
    <3>. QED  BY <3>1, <3>8, <3>9
  <2>. QED  BY <2>1, <2>2
<1>6. Q(k)
  <2>1. k \in T
    <3>. HIDE DEF T
    <3>1. 0..k \subseteq T
      BY <1>4, <1>5, Climb
    <3>. QED  BY <3>1
  <2>. QED  BY <2>1
<1>. QED  BY <1>1, <1>2, <1>6

\* connections.go:163-182: the decoder undoes what the kernel prints.
LEMMA DecodedIsTheAddress ==
  ASSUME NEW n \in {4, 16}, NEW a \in [1..n -> Byte]
  PROVE  Decoded(Printed(a)) = a
<1>1. PICK k : k = n \div 4 /\ k \in Nat \ {0} /\ 4 * k = n
  <2>1. n \div 4 \in {1, 4} /\ 4 * (n \div 4) = n
    OBVIOUS
  <2>. QED  BY <2>1
<1>2. a \in Seq(Byte) /\ Len(a) = n /\ n \in Nat
  OBVIOUS
<1>3. PICK p : p = [i \in 1..k |-> Reverse(SubSeq(a, 4 * i - 3, 4 * i))]
  OBVIOUS
<1>4. Printed(a) = FlattenSeq(p)
  <2>1. Words(a) = [i \in 1..k |-> SubSeq(a, 4 * i - 3, 4 * i)]
    BY <1>1, <1>2 DEF Words
  <2>2. [i \in DOMAIN Words(a) |-> Reverse(Words(a)[i])] = p
    BY <1>3, <2>1
  <2>. QED  BY <2>2 DEF Printed
<1>5. ASSUME NEW i \in 1..k
      PROVE  p[i] \in Seq(Byte) /\ Len(p[i]) = 4 /\ \A j \in 1..4 : p[i][j] = a[4 * i + 1 - j]
  <2>1. PICK s : s = SubSeq(a, 4 * i - 3, 4 * i)
    OBVIOUS
  <2>2. 4 * i - 3 \in 1..n /\ 4 * i \in 1..n
    BY <1>1
  <2>3. s \in Seq(Byte) /\ Len(s) = 4 /\ \A j \in 1..4 : s[j] = a[4 * i - 4 + j]
    <3>1. Len(s) = 4
      BY <1>2, <2>1, <2>2
    <3>2. s \in Seq(Byte)
      BY <1>2, <2>1, <2>2, SubSeqProperties
    <3>3. ASSUME NEW j \in 1..4 PROVE s[j] = a[4 * i - 4 + j]
      <4>1. s[j] = a[4 * i - 3 + j - 1]
        BY <1>2, <2>1, <2>2, <3>1, SubSeqProperties
      <4>2. 4 * i - 3 + j - 1 = 4 * i - 4 + j
        OBVIOUS
      <4>. QED  BY <4>1, <4>2
    <3>. QED  BY <3>1, <3>2, <3>3
  <2>4. p[i] = [j \in 1..4 |-> s[(4 - j) + 1]]
    BY <1>3, <2>1, <2>3 DEF Reverse
  <2>5. ASSUME NEW j \in 1..4 PROVE (4 - j) + 1 \in 1..4 /\ s[(4 - j) + 1] \in Byte
    <3>1. PICK x \in 1..4 : x = (4 - j) + 1
      OBVIOUS
    <3>2. s[x] \in Byte
      BY ONLY <2>3, x \in 1..4, ElementOfSeq
    <3>. QED  BY <3>1, <3>2
  <2>6. p[i] \in Seq(Byte) /\ Len(p[i]) = 4
    BY <2>4, <2>5
  <2>7. ASSUME NEW j \in 1..4 PROVE p[i][j] = a[4 * i + 1 - j]
    <3>1. p[i][j] = s[(4 - j) + 1]
      BY <2>4
    <3>2. s[(4 - j) + 1] = a[4 * i - 4 + ((4 - j) + 1)]
      BY <2>3, <2>5
    <3>3. 4 * i - 4 + ((4 - j) + 1) = 4 * i + 1 - j
      OBVIOUS
    <3>. QED  BY <3>1, <3>2, <3>3
  <2>. QED  BY <2>6, <2>7
<1>6. PICK h : h = FlattenSeq(p)
  OBVIOUS
<1>7. /\ h \in Seq(Byte) /\ Len(h) = n
      /\ \A u \in 1..k, j \in 1..4 : h[4 * (u - 1) + j] = a[4 * u + 1 - j]
  <2>1. p \in [1..k -> Seq(Byte)] /\ \A i \in 1..k : Len(p[i]) = 4
    BY <1>3, <1>5
  <2>0. k \in Nat \ {0}
    BY <1>1
  <2>2. /\ h \in Seq(Byte) /\ Len(h) = 4 * k
        /\ \A u \in 1..k, j \in 1..4 : h[4 * (u - 1) + j] = p[u][j]
    <3>1. /\ FlattenSeq(p) \in Seq(Byte) /\ Len(FlattenSeq(p)) = 4 * k
          /\ \A u \in 1..k, j \in 1..4 : FlattenSeq(p)[4 * (u - 1) + j] = p[u][j]
      BY ONLY <2>0, <2>1, FlatWords
    <3>. QED  BY <1>6, <3>1
  <2>3. ASSUME NEW u \in 1..k, NEW j \in 1..4 PROVE h[4 * (u - 1) + j] = a[4 * u + 1 - j]
    <3>1. p[u][j] = a[4 * u + 1 - j]
      BY <1>5
    <3>. QED  BY <2>2, <3>1
  <2>. QED  BY <1>1, <2>2, <2>3
<1>8. Decoded(h) = [i \in 1..n |-> h[4 * ((i - 1) \div 4) + 4 - ((i - 1) % 4)]]
  BY <1>7 DEF Decoded
<1>9. ASSUME NEW i \in 1..n PROVE h[4 * ((i - 1) \div 4) + 4 - ((i - 1) % 4)] = a[i]
  <2>1. PICK u, j : u = (i - 1) \div 4 + 1 /\ j = 4 - ((i - 1) % 4)
    OBVIOUS
  <2>2. u \in 1..k /\ j \in 1..4 /\ 4 * u + 1 - j = i
    BY <1>1, <2>1
  <2>3. 4 * ((i - 1) \div 4) + 4 - ((i - 1) % 4) = 4 * (u - 1) + j
    BY <2>1
  <2>. QED  BY <1>7, <2>2, <2>3
<1>10. Decoded(h) = a
  BY <1>2, <1>8, <1>9
<1>. QED  BY <1>4, <1>6, <1>10

\* The entries there can be, and the lines.
Shown == {Named(s) : s \in Sockets}
Lines == {Line(s) : s \in Sockets} \cup {Cut}

Bound(s) == IF s.port = 0 THEN <<>> ELSE <<Named(s)>>
BoundOnes(socks) == FlattenSeq([i \in DOMAIN socks |-> Bound(socks[i])])

\* An address has four bytes or sixteen.
LEMMA AddressLength == \A a \in Addresses : \E n \in {4, 16} : a \in [1..n -> Byte]
BY ProcAssumption

\* net.IP: loopback as it is tested is loopback as it is meant.
LEMMA LoopbackIsNamed ==
  ASSUME NEW s \in Sockets
  PROVE  IsLoopback(s.local) = Named(s).loopback
<1>0. PICK a : a = s.local
  OBVIOUS
<1>1. PICK n \in {4, 16} : a \in [1..n -> Byte]
  <2>1. a \in Addresses
    BY <1>0 DEF Sockets
  <2>2. \E n \in {4, 16} : a \in [1..n -> Byte]
    BY <2>1, AddressLength
  <2>. QED  BY <2>2
<1>11. Len(a) = n /\ a \in Seq(Byte)
  BY <1>1
<1>2. Named(s).loopback = (\/ Len(a) = 4 /\ a[1] = 127
                           \/ Mapped(a) /\ a[13] = 127
                           \/ Len(a) = 16 /\ a[16] = 1 /\ \A i \in 1..15 : a[i] = 0)
  BY <1>0 DEF Named
<1>3. CASE n = 4
  <2>1. Len(a) = 4 /\ ~Mapped(a) /\ Text(a) = a
    BY <1>3, <1>11 DEF Mapped, Text
  <2>2. IsLoopback(a) = (a[1] = 127)
    BY <2>1 DEF IsLoopback
  <2>3. Named(s).loopback = (a[1] = 127)
    <3>1. Len(a) = 4 /\ ~(Len(a) = 16) /\ ~Mapped(a)
      BY <2>1
    <3>. QED  BY ONLY <1>2, <3>1
  <2>. QED  BY <1>0, <2>2, <2>3
<1>4. CASE n = 16 /\ Mapped(a)
  <2>1. Len(a) = 16 /\ a \in Seq(Byte)
    BY <1>4, <1>11
  <2>2. PICK q : q = SubSeq(a, 13, 16)
    OBVIOUS
  <2>3. Len(q) = 4 /\ q[1] = a[13]
    BY <2>1, <2>2
  <2>4. a[11] # 0
    <3>1. PICK b : b = SubSeq(a, 1, 12) /\ b = [i \in 1..12 |-> IF i < 11 THEN 0 ELSE 255]
      BY <1>4 DEF Mapped
    <3>2. b[11] = 255
      BY <3>1
    <3>3. b[11] = a[11]
      BY <2>1, <3>1
    <3>. QED  BY <3>2, <3>3
  <2>5. IsLoopback(a) = (a[13] = 127)
    BY <1>4, <2>2, <2>3 DEF IsLoopback, Text
  <2>6. Named(s).loopback = (a[13] = 127)
    <3>1. Mapped(a) /\ ~(Len(a) = 4) /\ 11 \in 1..15
      BY <1>4, <2>1
    <3>. QED  BY ONLY <1>2, <2>4, <3>1
  <2>. QED  BY <1>0, <2>5, <2>6
<1>5. CASE n = 16 /\ ~Mapped(a)
  <2>1. Len(a) = 16 /\ Text(a) = a
    BY <1>5, <1>11 DEF Text
  <2>2. IsLoopback(a) = (a = [i \in 1..16 |-> IF i = 16 THEN 1 ELSE 0])
    BY <2>1 DEF IsLoopback
  <2>3. (a = [i \in 1..16 |-> IF i = 16 THEN 1 ELSE 0]) <=> \A i \in 1..16 : a[i] = IF i = 16 THEN 1 ELSE 0
    <3>1. a \in [1..16 -> Byte]
      BY <1>1, <1>5
    <3>. QED  BY <3>1
  <2>4. (\A i \in 1..16 : a[i] = IF i = 16 THEN 1 ELSE 0) <=> a[16] = 1 /\ \A i \in 1..15 : a[i] = 0
    <3>1. 16 \in 1..16 /\ (\A i \in 1..15 : i \in 1..16 /\ i # 16) /\ \A i \in 1..16 : i = 16 \/ i \in 1..15
      OBVIOUS
    <3>. QED  BY <3>1
  <2>5. IsLoopback(a) = (a[16] = 1 /\ \A i \in 1..15 : a[i] = 0)
    BY ONLY <2>2, <2>3, <2>4
  <2>6. Named(s).loopback = (a[16] = 1 /\ \A i \in 1..15 : a[i] = 0)
    <3>1. ~Mapped(a) /\ ~(Len(a) = 4) /\ Len(a) = 16
      BY <1>5, <2>1
    <3>. QED  BY ONLY <1>2, <3>1
  <2>. QED  BY <1>0, <2>5, <2>6
<1>. QED  BY <1>1, <1>3, <1>4, <1>5

\* connections.go:133-151: a line gives the entry of its socket, if that is bound.
LEMMA EntryOfLine ==
  ASSUME NEW s \in Sockets
  PROVE  Entries(Line(s)) = Bound(s) /\ Bound(s) \in Seq(Shown)
<1>1. ASSUME NEW a \in Addresses PROVE Decoded(Printed(a)) = a /\ a # <<>>
  <2>1. PICK n \in {4, 16} : a \in [1..n -> Byte]
    BY AddressLength
  <2>2. Decoded(Printed(a)) = a
    BY <2>1, DecodedIsTheAddress
  <2>3. Len(a) = n /\ Len(a) # 0
    BY <2>1
  <2>. QED  BY <2>2, <2>3
<1>2. s.local \in Addresses /\ s.remote \in Addresses
  BY DEF Sockets
<1>3. PICK l : l = Line(s)
  OBVIOUS
<1>4. l[1] = Printed(s.local) /\ l[2] = s.port /\ l[3] = Printed(s.remote) /\ l[4] = s.state /\ Len(l) = 4
  BY <1>3 DEF Line
<1>5. l # Cut
  <2>1. Len(Cut) = 0
    BY DEF Cut
  <2>. QED  BY <1>4, <2>1
<1>6. PICK e : e = [loopback |-> IsLoopback(s.local), port |-> s.port, remote |-> Text(s.remote), state |-> s.state]
  OBVIOUS
<1>7. Entries(l) = IF s.port = 0 THEN <<>> ELSE <<e>>
  BY <1>1, <1>2, <1>4, <1>5, <1>6 DEF Entries
<1>8. e = Named(s)
  <2>1. Text(s.remote) = IF Mapped(s.remote) THEN SubSeq(s.remote, 13, 16) ELSE s.remote
    BY DEF Text
  <2>2. PICK b : b = Named(s).loopback
    OBVIOUS
  <2>3. Named(s) = [loopback |-> b, port |-> s.port,
                    remote |-> IF Mapped(s.remote) THEN SubSeq(s.remote, 13, 16) ELSE s.remote, state |-> s.state]
    BY <2>2 DEF Named
  <2>4. IsLoopback(s.local) = b
    BY <2>2, LoopbackIsNamed
  <2>. QED  BY <1>6, <2>1, <2>3, <2>4
<1>9. Named(s) \in Shown
  BY DEF Shown
<1>10. <<>> \in Seq(Shown) /\ <<Named(s)>> \in Seq(Shown)
  BY <1>9
<1>. QED  BY <1>3, <1>7, <1>8, <1>10 DEF Bound

\* A line that is no socket's gives nothing.
LEMMA EntriesOfLines ==
  /\ Entries(Cut) = <<>>
  /\ \A l \in Lines : Entries(l) \in Seq(Shown)
<1>1. Entries(Cut) = <<>> /\ <<>> \in Seq(Shown)
  BY DEF Entries
<1>2. ASSUME NEW l \in Lines PROVE Entries(l) \in Seq(Shown)
  <2>1. CASE l = Cut
    BY <1>1, <2>1
  <2>2. CASE l # Cut
    <3>1. PICK s \in Sockets : l = Line(s)
      BY <2>2 DEF Lines
    <3>. QED  BY <3>1, EntryOfLine
  <2>. QED  BY <2>1, <2>2
<1>. QED  BY <1>1, <1>2

\* A sequence and one more.
LEMMA OneMore ==
  ASSUME NEW Q, NEW n \in Nat, NEW p \in [1..n -> Q], NEW q \in Q
  PROVE  Append(p, q) = [i \in 1..(n + 1) |-> IF i = n + 1 THEN q ELSE p[i]]
<1>1. p \in Seq(Q) /\ Len(p) = n
  OBVIOUS
<1>2. PICK r : r = Append(p, q)
  OBVIOUS
<1>3. r \in Seq(Q) /\ Len(r) = n + 1
  BY <1>1, <1>2, AppendProperties
<1>4. r = [i \in 1..(n + 1) |-> r[i]]
  BY <1>3
<1>5. r[n + 1] = q /\ \A i \in 1..n : r[i] = p[i]
  BY <1>1, <1>2, AppendProperties
<1>6. \A i \in 1..(n + 1) : r[i] = IF i = n + 1 THEN q ELSE p[i]
  BY <1>5
<1>. QED  BY <1>2, <1>4, <1>6

\* One more line gives what the lines before it gave, and then its own entry.
LEMMA ParsedMore ==
  ASSUME NEW t \in Seq(Lines), NEW l \in Lines
  PROVE  Parsed(Append(t, l)) = Parsed(t) \o Entries(l) /\ Parsed(t) \in Seq(Shown)
<1>1. PICK n \in Nat : n = Len(t) /\ DOMAIN t = 1..n /\ \A i \in 1..n : t[i] \in Lines
  OBVIOUS
<1>2. t \in [1..n -> Lines]
  BY <1>1
<1>3. Append(t, l) = [i \in 1..(n + 1) |-> IF i = n + 1 THEN l ELSE t[i]]
  BY <1>2, OneMore
<1>4. PICK u : u = Append(t, l) /\ u = [i \in 1..(n + 1) |-> IF i = n + 1 THEN l ELSE t[i]]
  BY <1>3
<1>5. PICK Q, q, p : Q = Seq(Shown) /\ q = Entries(l) /\ p = [i \in 1..n |-> Entries(t[i])]
  OBVIOUS
<1>6. p \in [1..n -> Q] /\ q \in Q
  BY <1>1, <1>5, EntriesOfLines
<1>7. Parsed(t) = FlattenSeq(p)
  BY <1>1, <1>5 DEF Parsed
<1>8. Parsed(u) = FlattenSeq(Append(p, q))
  <2>1. [i \in DOMAIN u |-> Entries(u[i])] = [i \in 1..(n + 1) |-> IF i = n + 1 THEN q ELSE p[i]]
    <3>1. ASSUME NEW i \in 1..(n + 1) PROVE Entries(u[i]) = IF i = n + 1 THEN q ELSE p[i]
      <4>1. CASE i = n + 1
        BY <1>4, <1>5, <4>1
      <4>2. CASE i # n + 1
        <5>1. i \in 1..n
          BY <4>2
        <5>. QED  BY <1>4, <1>5, <4>2, <5>1
      <4>. QED  BY <4>1, <4>2
    <3>. QED  BY <1>4, <3>1
  <2>2. Append(p, q) = [i \in 1..(n + 1) |-> IF i = n + 1 THEN q ELSE p[i]]
    BY <1>6, OneMore
  <2>. QED  BY <2>1, <2>2 DEF Parsed
<1>9. FlattenSeq(p) \in Seq(Shown) /\ FlattenSeq(Append(p, q)) = FlattenSeq(p) \o q
  BY <1>5, <1>6, FlatOfAppend
<1>. QED  BY <1>4, <1>5, <1>7, <1>8, <1>9

\* One more socket is bound or is not.
LEMMA BoundMore ==
  ASSUME NEW t \in Seq(Sockets), NEW s \in Sockets
  PROVE  BoundOnes(Append(t, s)) = BoundOnes(t) \o Bound(s) /\ BoundOnes(t) \in Seq(Shown)
<1>1. PICK n \in Nat : n = Len(t) /\ DOMAIN t = 1..n /\ \A i \in 1..n : t[i] \in Sockets
  OBVIOUS
<1>2. t \in [1..n -> Sockets]
  BY <1>1
<1>3. Append(t, s) = [i \in 1..(n + 1) |-> IF i = n + 1 THEN s ELSE t[i]]
  BY <1>2, OneMore
<1>4. PICK u : u = Append(t, s) /\ u = [i \in 1..(n + 1) |-> IF i = n + 1 THEN s ELSE t[i]]
  BY <1>3
<1>5. PICK Q, q, p : Q = Seq(Shown) /\ q = Bound(s) /\ p = [i \in 1..n |-> Bound(t[i])]
  OBVIOUS
<1>6. p \in [1..n -> Q] /\ q \in Q
  BY <1>1, <1>5, EntryOfLine
<1>7. BoundOnes(t) = FlattenSeq(p)
  BY <1>1, <1>5 DEF BoundOnes
<1>8. BoundOnes(u) = FlattenSeq(Append(p, q))
  <2>1. [i \in DOMAIN u |-> Bound(u[i])] = [i \in 1..(n + 1) |-> IF i = n + 1 THEN q ELSE p[i]]
    <3>1. ASSUME NEW i \in 1..(n + 1) PROVE Bound(u[i]) = IF i = n + 1 THEN q ELSE p[i]
      <4>1. CASE i = n + 1
        BY <1>4, <1>5, <4>1
      <4>2. CASE i # n + 1
        <5>1. i \in 1..n
          BY <4>2
        <5>. QED  BY <1>4, <1>5, <4>2, <5>1
      <4>. QED  BY <4>1, <4>2
    <3>. QED  BY <1>4, <3>1
  <2>2. Append(p, q) = [i \in 1..(n + 1) |-> IF i = n + 1 THEN q ELSE p[i]]
    BY <1>6, OneMore
  <2>. QED  BY <2>1, <2>2 DEF BoundOnes
<1>9. FlattenSeq(p) \in Seq(Shown) /\ FlattenSeq(Append(p, q)) = FlattenSeq(p) \o q
  BY <1>5, <1>6, FlatOfAppend
<1>. QED  BY <1>4, <1>5, <1>7, <1>8, <1>9

\* Read or not, the table has the entries of the bound sockets.
TableInv ==
    /\ EntriesAreTheSockets
    /\ table \in Seq(Lines)
    /\ Parsed(table) = BoundOnes(sockets)

\* connections.go:121-182: whatever sockets there are, with addresses of both kinds,
\* and whatever other lines, what is read is the bound sockets in their order.
THEOREM TablesAreRead == ProcSpec => []EntriesAreTheSockets
<1>1. ProcInit => TableInv
  <2>. SUFFICES ASSUME ProcInit PROVE TableInv
    OBVIOUS
  <2>1. sockets = <<>> /\ table = <<>> /\ parsed = <<>>
    BY DEF ProcInit
  <2>2. FlattenSeq(<<>>) = <<>>
    BY DEF FlattenSeq
  <2>3. Parsed(table) = BoundOnes(sockets)
    BY <2>1, <2>2 DEF Parsed, BoundOnes
  <2>4. Len(table) = 0 /\ MaxSockets \in Nat
    BY <2>1, ProcAssumption
  <2>. QED  BY <2>1, <2>3, <2>4 DEF TableInv, EntriesAreTheSockets, ProcTypeOK
<1>2. TableInv /\ [ProcNext]_procVars => TableInv'
  <2>. SUFFICES ASSUME TableInv, [ProcNext]_procVars PROVE TableInv'
    OBVIOUS
  <2>0. /\ sockets \in Seq(Sockets) /\ Len(table) <= MaxSockets /\ table \in Seq(Lines)
        /\ Parsed(table) = BoundOnes(sockets) /\ MaxSockets \in Nat
    BY ProcAssumption DEF TableInv, EntriesAreTheSockets, ProcTypeOK
  <2>1. ASSUME NEW s \in Sockets, Open(s) PROVE TableInv'
    <3>1. /\ Len(table) < MaxSockets
          /\ sockets' = Append(sockets, s) /\ table' = Append(table, Line(s)) /\ parsed' = <<>>
      BY <2>1 DEF Open
    <3>2. Line(s) \in Lines
      BY DEF Lines
    <3>3. table' \in Seq(Lines) /\ Len(table') = Len(table) + 1 /\ sockets' \in Seq(Sockets)
      BY <2>0, <3>1, <3>2, AppendProperties
    <3>4. Parsed(table') = Parsed(table) \o Entries(Line(s))
      BY <2>0, <3>1, <3>2, ParsedMore
    <3>5. BoundOnes(sockets') = BoundOnes(sockets) \o Bound(s)
      BY <2>0, <3>1, BoundMore
    <3>6. Parsed(table') = BoundOnes(sockets')
      BY <2>0, <3>4, <3>5, EntryOfLine
    <3>7. Len(table') <= MaxSockets
      BY <2>0, <3>1, <3>3
    <3>. QED  BY <3>1, <3>3, <3>6, <3>7 DEF TableInv, EntriesAreTheSockets, ProcTypeOK
  <2>2. CASE Garbage
    <3>1. Len(table) < MaxSockets /\ table' = Append(table, Cut) /\ parsed' = <<>> /\ sockets' = sockets
      BY <2>2 DEF Garbage
    <3>2. Cut \in Lines
      BY DEF Lines
    <3>3. table' \in Seq(Lines) /\ Len(table') = Len(table) + 1
      BY <2>0, <3>1, <3>2, AppendProperties
    <3>4. Parsed(table') = Parsed(table) \o <<>> /\ Parsed(table) \in Seq(Shown)
      BY <2>0, <3>1, <3>2, ParsedMore, EntriesOfLines
    <3>5. Parsed(table) \o <<>> = Parsed(table)
      BY <3>4, ConcatEmptySeq
    <3>6. Len(table') <= MaxSockets
      BY <2>0, <3>1, <3>3
    <3>. QED  BY <2>0, <3>1, <3>3, <3>4, <3>5, <3>6 DEF TableInv, EntriesAreTheSockets, ProcTypeOK
  <2>3. CASE ReadTCPEntries
    <3>1. parsed' = Parsed(table) /\ sockets' = sockets /\ table' = table
      BY <2>3 DEF ReadTCPEntries
    <3>2. parsed' = FlattenSeq([i \in DOMAIN sockets |-> IF sockets[i].port = 0 THEN <<>> ELSE <<Named(sockets[i])>>])
      BY <2>0, <3>1 DEF BoundOnes, Bound
    <3>. QED  BY <2>0, <3>1, <3>2 DEF TableInv, EntriesAreTheSockets, ProcTypeOK
  <2>4. CASE UNCHANGED procVars
    BY <2>4 DEF TableInv, EntriesAreTheSockets, ProcTypeOK, procVars
  <2>. QED  BY <2>1, <2>2, <2>3, <2>4 DEF ProcNext
<1>3. TableInv => EntriesAreTheSockets
  BY DEF TableInv
<1>. QED  BY <1>1, <1>2, <1>3, PTL DEF ProcSpec

==============================================================================
