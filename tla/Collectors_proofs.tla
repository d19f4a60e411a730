-------------------------- MODULE Collectors_proofs --------------------------
(***************************************************************************)
(* What the collectors make of the counters and tables they read: Docker's *)
(* live statistics, the rates, the memory and the ports of a container, the*)
(* partitions, the readings of one tick and the usage of the CPU, and what *)
(* the history draws from the snapshots, for any counters, devices,        *)
(* reports, mounts, cores and points.                                      *)
(***************************************************************************)
EXTENDS CPUUsage, DockerCollector, Rates, ContainerView, HostDisks, HostReadings, History,
        TLAPS, FiniteSetTheorems, SequenceTheorems, WellFoundedInduction

\* % leaves a number below the modulus alone.
LEMMA SmallModulo == ASSUME NEW a \in Nat, NEW m \in Nat, a < m PROVE a % m = a
OBVIOUS

\* % yields the code's unsigned values.
LEMMA ModuloRange == ASSUME NEW a \in Int, NEW m \in Nat \ {0} PROVE a % m \in 0..(m - 1)
OBVIOUS

\* A set of numbers has a least one.
LEMMA Least ==
  ASSUME NEW T \in SUBSET Nat, T # {}
  PROVE  \E m \in T : \A k \in T : m <= k
<1>1. PICK R : R = OpToRel(<, Nat)
  OBVIOUS
<1>2. IsWellFoundedOn(R, Nat)
  BY <1>1, NatLessThanWellFounded
<1>3. \A k, m \in Nat : k < m => <<k, m>> \in R
  BY <1>1 DEF OpToRel
<1>4. PICK m \in T : \A k \in T : ~(<<k, m>> \in R)
  BY ONLY <1>2, T \in SUBSET Nat, T # {}, WFMin
<1>5. \A k \in T : k \in Nat /\ m \in Nat /\ ~(k < m)
  BY <1>3, <1>4
<1>6. \A k \in T : m <= k
  BY <1>5
<1>. QED  BY <1>6

\* What holds of 0, and of i + 1 whenever it holds of i, holds up to n.
LEMMA Climb ==
  ASSUME NEW n \in Nat, NEW T, 0 \in T, \A i \in 0..n : i \in T /\ i # n => i + 1 \in T
  PROVE  0..n \subseteq T
<1>1. PICK Bad : Bad = (0..n) \ T
  OBVIOUS
<1>2. Bad \in SUBSET Nat
  BY <1>1
<1>. SUFFICES ASSUME Bad # {} PROVE FALSE
  BY <1>1
<1>3. PICK m \in Bad : \A k \in Bad : m <= k
  BY <1>2, Least
<1>4. m \in 1..n /\ m - 1 \in 0..n /\ m - 1 # n /\ (m - 1) + 1 = m /\ ~(m <= m - 1)
  BY <1>1, <1>3
<1>. QED  BY <1>1, <1>3, <1>4

\* f is what n steps make of b, step i being g[i].
Makes(f, n, S, b, g) == f \in [0..n -> S] /\ f[0] = b /\ \A i \in 1..n : f[i] = g[i][f[i - 1]]

\* Steps can always be taken.
LEMMA Stepwise ==
  ASSUME NEW n \in Nat, NEW S, NEW b \in S, NEW g \in [1..n -> [S -> S]]
  PROVE  \E f : Makes(f, n, S, b, g)
<1>. DEFINE T == {m \in 0..n : \E f \in [0..n -> S] : f[0] = b /\ \A i \in 1..m : f[i] = g[i][f[i - 1]]}
<1>1. 0 \in T
  <2>1. [i \in 0..n |-> b] \in [0..n -> S] /\ [i \in 0..n |-> b][0] = b
    OBVIOUS
  <2>2. \A i \in 1..0 : FALSE
    OBVIOUS
  <2>3. \E f \in [0..n -> S] : f[0] = b /\ \A i \in 1..0 : f[i] = g[i][f[i - 1]]
    BY <2>1, <2>2
  <2>. QED  BY <2>3
<1>2. ASSUME NEW m \in 0..n, m \in T, m # n PROVE m + 1 \in T
  <2>1. PICK f \in [0..n -> S] : f[0] = b /\ \A i \in 1..m : f[i] = g[i][f[i - 1]]
    BY <1>2
  <2>2. m + 1 \in 1..n /\ m \in 0..n /\ (m + 1) - 1 = m
    BY <1>2
  <2>3. PICK v : v = g[m + 1][f[m]] /\ v \in S
    BY <2>2
  <2>4. PICK h : h = [i \in 0..n |-> IF i = m + 1 THEN v ELSE f[i]]
    OBVIOUS
  <2>5. h \in [0..n -> S] /\ h[0] = b /\ h[m + 1] = v /\ \A i \in 0..m : h[i] = f[i]
    BY <2>1, <2>2, <2>3, <2>4
  <2>6. \A i \in 1..(m + 1) : h[i] = g[i][h[i - 1]]
    <3>. TAKE i \in 1..(m + 1)
    <3>1. CASE i = m + 1
      BY <2>2, <2>3, <2>5, <3>1
    <3>2. CASE i # m + 1
      <4>1. i \in 1..m /\ i \in 0..m /\ i - 1 \in 0..m
        BY <3>2
      <4>. QED  BY <2>1, <2>5, <4>1
    <3>. QED  BY <3>1, <3>2
  <2>7. \E f_1 \in [0..n -> S] : f_1[0] = b /\ \A i \in 1..(m + 1) : f_1[i] = g[i][f_1[i - 1]]
    BY <2>5, <2>6
  <2>. QED  BY <2>2, <2>7
<1>3. n \in T
  <2>. HIDE DEF T
  <2>1. 0..n \subseteq T
    BY <1>1, <1>2, Climb
  <2>. QED  BY <2>1
<1>. QED  BY <1>3 DEF Makes

------------------------------------------------------------------------------
(* The Docker collector *)

\* What a container that runs on has sent since its counters were last read is what
\* they have grown by.
BooksBalance ==
    \A i \in sameRun :
       /\ state[i] = "running"
       /\ prevStats[i].at \in 0..DockerMaxTime
       /\ prevStats[i].work + moved[i] = work[i]

DockerInv ==
    /\ DockerTypeOK /\ BooksBalance
    /\ state \in [Ids -> States] /\ work \in [Ids -> 0..MaxWork]
    /\ dockerNow \in 0..DockerMaxTime /\ began \in 0..DockerMaxTime

\* docker.go:58-70: a collector starts knowing nothing of any container.
LEMMA DockerStart == DockerInit => DockerInv
BY DockerAssumption DEF DockerInit, DockerInv, DockerTypeOK, BooksBalance, States, Times, Counters, NoSample, LongAgo

\* docker.go:205-238: whatever was read before, the differences fit the counters,
\* and the traffic is no more than the container's counter holds.
LEMMA LiveIsReal ==
  ASSUME NEW r \in [work : 0..MaxWork, sys : 0..DockerMaxTime],
         NEW prev \in [work : 0..MaxWork, sys : 0..DockerMaxTime, at : Times], began \in 0..DockerMaxTime
  PROVE  /\ Live(r, prev) \in [traffic : Counters, cpu : Counters]
         /\ Live(r, prev).traffic <= r.work
         /\ prev.at \in 0..DockerMaxTime /\ began > prev.at /\ r.work >= prev.work =>
               Live(r, prev).traffic = r.work - prev.work
<1>1. /\ r.work \in 0..MaxWork /\ prev.work \in 0..MaxWork
      /\ MaxWork \in Nat /\ Modulus \in Nat /\ Modulus > MaxWork /\ Modulus \in Nat \ {0}
  BY DockerAssumption
<1>2. 0 \in Counters /\ Counters = 0..(Modulus - 1)
  BY <1>1 DEF Counters
<1>3. Minus(r.work, prev.work) \in Counters
  <2>1. PICK a \in Int : a = r.work - prev.work
    BY <1>1
  <2>2. a % Modulus \in 0..(Modulus - 1)
    BY <1>1, ModuloRange
  <2>. QED  BY <1>2, <2>1, <2>2 DEF Minus
<1>4. /\ Gained(r.work, prev.work) \in Counters /\ Gained(r.work, prev.work) <= r.work
      /\ r.work >= prev.work => Gained(r.work, prev.work) = r.work - prev.work
  <2>1. CASE r.work >= prev.work
    <3>1. r.work - prev.work \in Nat /\ r.work - prev.work < Modulus /\ r.work - prev.work <= r.work
      BY <1>1, <2>1
    <3>2. Minus(r.work, prev.work) = r.work - prev.work
      BY <1>1, <3>1, SmallModulo DEF Minus
    <3>. QED  BY <1>3, <2>1, <3>1, <3>2 DEF Gained
  <2>2. CASE ~(r.work >= prev.work)
    BY <1>1, <1>2, <2>2 DEF Gained
  <2>. QED  BY <2>1, <2>2
<1>5. prev.at \in 0..DockerMaxTime => prev # NoSample
  BY DockerAssumption DEF NoSample, LongAgo
<1>6. prev.at \in 0..DockerMaxTime /\ began > prev.at => began - prev.at > 0
  BY DockerAssumption
<1>. QED  BY <1>1, <1>2, <1>3, <1>4, <1>5, <1>6 DEF Live

\* A row with the traffic of a container, after a call that found it so.
FairRow(r, i, heard) ==
    /\ r \in Rows /\ r.id = i
    /\ r.live.traffic <= Reading(i).work
    /\ heard /\ i \in sameRun /\ began > prevStats[i].at => r.live.traffic = moved[i]

\* What a step shows of the traffic: no more than there was, and no less.
TrafficIsTold ==
    \A r \in out' \ out :
       /\ r.live.traffic <= Reading(r.id).work
       /\ (r.id \in sampled' \ sampled /\ r.id \in sameRun /\ began > prevStats[r.id].at) =>
             r.live.traffic = moved[r.id]

\* One container: a row whose figures are real.
LEMMA Built ==
  ASSUME DockerInv, NEW item \in todo, BuildContainer(item)
  PROVE  DockerInv' /\ TrafficIsTold
<1>. DEFINE Sample == [work : 0..MaxWork, sys : 0..DockerMaxTime, at : Times]
<1>1. /\ item.id \in Ids /\ state[item.id] \in States /\ work[item.id] \in 0..MaxWork
      /\ prevStats \in [Ids -> Sample]
      /\ dockerNow \in 0..DockerMaxTime /\ began \in 0..DockerMaxTime /\ item \in Items
      /\ MaxWork \in Nat /\ sampled \subseteq Ids /\ sameRun \subseteq Ids /\ moved \in [Ids -> 0..MaxWork]
  BY DockerAssumption DEF DockerInv, DockerTypeOK, Items
<1>2. PICK i \in Ids : i = item.id
  BY <1>1
<1>3. /\ Reading(i) \in [work : 0..MaxWork, sys : 0..DockerMaxTime]
      /\ state[i] = "running" => Reading(i).work = work[i]
  BY <1>1, <1>2, DockerAssumption DEF Reading
<1>4. prevStats[i] \in Sample
  BY <1>1
<1>5. /\ Live(Reading(i), prevStats[i]) \in [traffic : Counters, cpu : Counters]
      /\ Live(Reading(i), prevStats[i]).traffic <= Reading(i).work
      /\ prevStats[i].at \in 0..DockerMaxTime /\ began > prevStats[i].at /\ Reading(i).work >= prevStats[i].work =>
            Live(Reading(i), prevStats[i]).traffic = Reading(i).work - prevStats[i].work
  BY <1>1, <1>3, <1>4, LiveIsReal
<1>6. i \in sameRun => /\ state[i] = "running" /\ prevStats[i].at \in 0..DockerMaxTime
                       /\ prevStats[i].work + moved[i] = work[i]
                       /\ work[i] >= prevStats[i].work /\ work[i] - prevStats[i].work = moved[i]
  <2>1. prevStats[i].work \in 0..MaxWork /\ moved[i] \in 0..MaxWork /\ work[i] \in 0..MaxWork
    BY <1>1, <1>2, <1>4
  <2>. QED  BY <1>1, <2>1 DEF DockerInv, BooksBalance
<1>7. NotLive \in [traffic : Counters, cpu : Counters] /\ NotLive.traffic <= Reading(i).work
  <2>1. 0 \in Counters
    BY DockerAssumption DEF Counters
  <2>2. Reading(i).work \in Nat
    BY <1>1, <1>3
  <2>. QED  BY <2>1, <2>2 DEF NotLive
<1>8. PICK heard \in BOOLEAN :
         /\ out' = out \cup {[id |-> i, health |-> inspectCache[i],
                              live |-> IF heard THEN Live(Reading(i), prevStats[i]) ELSE NotLive]}
         /\ prevStats' = IF item.state = "running"
                         THEN [prevStats EXCEPT ![i] = Sampled(i, heard)] ELSE prevStats
         /\ sampled' = IF heard THEN sampled \cup {i} ELSE sampled
         /\ sameRun' = IF heard /\ state[i] = "running" THEN sameRun \cup {i} ELSE sameRun
         /\ moved' = IF heard THEN [moved EXCEPT ![i] = 0] ELSE moved
         /\ heard => item.state = "running"
  BY <1>2 DEF BuildContainer
<1>9. PICK row : row = [id |-> i, health |-> inspectCache[i],
                        live |-> IF heard THEN Live(Reading(i), prevStats[i]) ELSE NotLive]
  OBVIOUS
<1>10. FairRow(row, i, heard)
  <2>1. inspectCache[i] \in States \cup {Unknown}
    BY <1>1 DEF DockerInv, DockerTypeOK
  <2>2. row \in Rows /\ row.id = i /\ row.live.traffic <= Reading(i).work
    BY <1>1, <1>5, <1>7, <1>9, <2>1 DEF Rows
  <2>3. heard /\ i \in sameRun /\ began > prevStats[i].at => row.live.traffic = moved[i]
    BY <1>3, <1>5, <1>6, <1>9
  <2>. QED  BY <2>2, <2>3 DEF FairRow
<1>11. Sampled(i, heard) \in Sample /\ prevStats' \in [Ids -> Sample]
       /\ prevStats'[i] = (IF heard THEN [work |-> Reading(i).work, sys |-> Reading(i).sys, at |-> began] ELSE prevStats[i])
       /\ \A j \in Ids : j # i => prevStats'[j] = prevStats[j]
  <2>1. began \in Times
    BY <1>1 DEF Times
  <2>2. [work |-> Reading(i).work, sys |-> Reading(i).sys, at |-> began] \in Sample
    BY <1>3, <2>1
  <2>3. Sampled(i, heard) = IF heard THEN [work |-> Reading(i).work, sys |-> Reading(i).sys, at |-> began]
                            ELSE prevStats[i]
    BY DEF Sampled
  <2>4. Sampled(i, heard) \in Sample
    BY <1>4, <2>2, <2>3
  <2>. HIDE DEF Sample
  <2>. QED  BY <1>1, <1>8, <2>3, <2>4
<1>12. BooksBalance'
  <2>. SUFFICES ASSUME NEW j \in sameRun'
                PROVE  /\ state[j] = "running"
                       /\ prevStats'[j].at \in 0..DockerMaxTime
                       /\ prevStats'[j].work + moved'[j] = work[j]
    BY DEF BooksBalance, BuildContainer, world
  <2>1. CASE j = i /\ heard
    <3>1. state[i] = "running" /\ moved'[j] = 0
      BY <1>1, <1>6, <1>8, <2>1
    <3>2. prevStats'[j].at = began /\ prevStats'[j].work = work[i]
      BY <1>3, <1>11, <2>1, <3>1
    <3>. QED  BY <1>1, <1>2, <2>1, <3>1, <3>2
  <2>2. CASE ~(j = i /\ heard)
    <3>1. j \in sameRun /\ j \in Ids /\ moved'[j] = moved[j] /\ prevStats'[j] = prevStats[j]
      BY <1>1, <1>8, <1>11, <2>2
    <3>. QED  BY <3>1 DEF DockerInv, BooksBalance
  <2>. QED  BY <2>1, <2>2
<1>13. /\ lastInspect' \in [Ids -> Times]
       /\ inspectCache' \in [Ids -> (States \ {"none"}) \cup {Unknown}]
  <2>1. Inspect(item.id) /\ lastInspect \in [Ids -> Times] /\ inspectCache \in [Ids -> (States \ {"none"}) \cup {Unknown}]
    BY DEF BuildContainer, DockerInv, DockerTypeOK
  <2>2. dockerNow \in Times
    BY <1>1 DEF Times
  <2>. QED  BY <1>1, <2>1, <2>2 DEF Inspect
<1>14. sampled' \subseteq Ids /\ sameRun' \subseteq Ids /\ moved' \in [Ids -> 0..MaxWork]
  BY <1>1, <1>8
<1>15. row \in Rows /\ out' = out \cup {row}
  BY <1>8, <1>9, <1>10 DEF FairRow
<1>16. DockerInv'
  BY <1>11, <1>12, <1>13, <1>14, <1>15 DEF BuildContainer, world, DockerInv, DockerTypeOK
<1>17. TrafficIsTold
  <2>1. \A r \in out' \ out : r = row
    BY <1>15
  <2>2. i \in sampled' \ sampled => heard
    BY <1>8
  <2>. QED  BY <1>10, <2>1, <2>2 DEF TrafficIsTold, FairRow
<1>. QED  BY <1>16, <1>17

\* The engine may do anything to its containers: counters stay within their width.
LEMMA EngineStep ==
  ASSUME DockerInv, Engine
  PROVE  DockerInv' /\ UNCHANGED out
<1>1. UNCHANGED <<began, todo, out, dockerPc, containers, remembered, sampled>>
  BY DEF Engine
<1>2. /\ state \in [Ids -> States] /\ work \in [Ids -> 0..MaxWork] /\ dockerNow \in 0..DockerMaxTime
      /\ sameRun \subseteq Ids /\ moved \in [Ids -> 0..MaxWork] /\ BooksBalance
      /\ prevStats \in [Ids -> [work : 0..MaxWork, sys : 0..DockerMaxTime, at : Times]]
      /\ MaxWork \in Nat
  BY DockerAssumption DEF DockerInv, DockerTypeOK
<1>3. /\ state' \in [Ids -> States] /\ work' \in [Ids -> 0..MaxWork] /\ dockerNow' \in 0..DockerMaxTime
      /\ sameRun' \subseteq Ids /\ moved' \in [Ids -> 0..MaxWork] /\ BooksBalance'
  <2>1. CASE EngineTimePasses
    BY <1>1, <1>2, <2>1, DockerAssumption DEF EngineTimePasses, traffic, BooksBalance, remembered
  <2>2. ASSUME NEW i \in Ids, Start(i)
        PROVE  /\ state' \in [Ids -> States] /\ work' \in [Ids -> 0..MaxWork] /\ dockerNow' = dockerNow
               /\ UNCHANGED traffic /\ BooksBalance'
    <3>1. i \notin sameRun
      BY <1>2, <2>2 DEF Start, BooksBalance
    <3>. QED  BY <1>1, <1>2, <2>2, <3>1 DEF Start, States, traffic, BooksBalance, remembered
  <2>3. ASSUME NEW i \in Ids, Stop(i)
        PROVE  /\ state' \in [Ids -> States] /\ UNCHANGED <<work, dockerNow>>
               /\ sameRun' \subseteq Ids /\ moved' \in [Ids -> 0..MaxWork] /\ BooksBalance'
    BY <1>1, <1>2, <2>3 DEF Stop, States, BooksBalance, remembered
  <2>4. ASSUME NEW i \in Ids, RemoveContainer(i)
        PROVE  /\ state' \in [Ids -> States] /\ UNCHANGED <<work, dockerNow, traffic>> /\ BooksBalance'
    <3>1. i \notin sameRun
      BY <1>2, <2>4 DEF RemoveContainer, BooksBalance
    <3>. QED  BY <1>1, <1>2, <2>4, <3>1 DEF RemoveContainer, States, traffic, BooksBalance, remembered
  <2>5. ASSUME NEW i \in Ids, Work(i)
        PROVE  /\ UNCHANGED <<state, dockerNow, sameRun>> /\ work' \in [Ids -> 0..MaxWork]
               /\ moved' \in [Ids -> 0..MaxWork] /\ BooksBalance'
    <3>1. work[i] \in 0..MaxWork /\ moved[i] \in 0..MaxWork /\ work'[i] = work[i] + 1 /\ work'[i] \in 0..MaxWork
      BY <1>2, <2>5 DEF Work
    <3>2. i \in sameRun => /\ prevStats[i].work + moved[i] = work[i] /\ prevStats[i].work \in 0..MaxWork
                           /\ moved'[i] = moved[i] + 1
      BY <1>2, <2>5 DEF Work, BooksBalance
    <3>3. moved'[i] \in 0..MaxWork /\ (i \in sameRun => prevStats[i].work + moved'[i] = work'[i])
      BY <1>2, <2>5, <3>1, <3>2 DEF Work
    <3>4. \A j \in Ids : j # i => work'[j] = work[j] /\ moved'[j] = moved[j]
      BY <1>2, <2>5 DEF Work
    <3>5. BooksBalance'
      BY <1>1, <1>2, <2>5, <3>3, <3>4 DEF BooksBalance, Work, remembered
    <3>. QED  BY <1>2, <2>5, <3>1, <3>3, <3>5 DEF Work
  <2>. QED  BY <1>2, <2>1, <2>2, <2>3, <2>4, <2>5 DEF Engine, traffic, EngineTimePasses
<1>. QED  BY <1>1, <1>3 DEF DockerInv, DockerTypeOK, remembered

\* docker.go:108-238: what every step keeps, and what it shows of a container's traffic.
LEMMA DockerStep ==
  ASSUME DockerInv, [DockerNext]_dockerVars
  PROVE  DockerInv' /\ TrafficIsTold
<1>0. UNCHANGED out => TrafficIsTold
  BY DEF TrafficIsTold
<1>1. CASE Engine
  BY <1>0, <1>1, EngineStep
<1>2. CASE List
  <2>1. todo' \subseteq Items
    BY <1>2 DEF List, Items, DockerInv
  <2>2. DockerInv' /\ out' = {}
    BY <1>2, <2>1 DEF List, DockerInv, DockerTypeOK, BooksBalance, world, remembered, traffic
  <2>. QED  BY <2>2 DEF TrafficIsTold
<1>3. CASE Volumes
  <2>1. lastVolFetch' \in Times
    BY <1>3 DEF Volumes, DockerInv, DockerTypeOK, Times
  <2>2. DockerInv' /\ out' = out
    BY <1>3, <2>1 DEF Volumes, DockerInv, DockerTypeOK, BooksBalance, world, traffic
  <2>. QED  BY <1>0, <2>2
<1>4. ASSUME NEW item \in todo, BuildContainer(item)
      PROVE  DockerInv' /\ TrafficIsTold
  BY <1>4, Built
<1>5. CASE PublishContainers
  <2>1. DockerInv' /\ out' = {}
    BY <1>5, DockerAssumption DEF PublishContainers, DockerInv, DockerTypeOK, BooksBalance, world, remembered, traffic
  <2>. QED  BY <2>1 DEF TrafficIsTold
<1>6. CASE UNCHANGED dockerVars
  <2>1. DockerInv' /\ out' = out
    BY <1>6 DEF dockerVars, DockerInv, DockerTypeOK, BooksBalance, world, remembered, traffic
  <2>. QED  BY <1>0, <2>1
<1>. QED  BY <1>1, <1>2, <1>3, <1>4, <1>5, <1>6 DEF DockerNext

\* docker.go:221-238: no restart of a container between two refreshes, or before a
\* reading, shows as a burst of traffic.
THEOREM NoBurstOfTraffic == DockerSpec => TrafficIsReal
<1>1. DockerInv => DockerTypeOK
  BY DEF DockerInv
<1>2. DockerInv /\ [DockerNext]_dockerVars => [\A r \in out' \ out : r.live.traffic <= Reading(r.id).work]_dockerVars
  BY DockerStep DEF TrafficIsTold
<1>. QED  BY <1>1, <1>2, DockerStart, DockerStep, PTL DEF DockerSpec, TrafficIsReal

\* docker.go:182-238: calls that fail, however many, lose nothing of the traffic of a
\* container that runs on: the next that is answered shows all of it.
THEOREM AllTrafficIsTold == DockerSpec => NoTrafficIsLost
<1>1. DockerInv /\ [DockerNext]_dockerVars =>
         [\A r \in out' \ out :
          (r.id \in sampled' \ sampled /\ r.id \in sameRun /\ began > prevStats[r.id].at) =>
             r.live.traffic = moved[r.id]]_dockerVars
  BY DockerStep DEF TrafficIsTold
<1>. QED  BY <1>1, DockerStart, DockerStep, PTL DEF DockerSpec, NoTrafficIsLost

------------------------------------------------------------------------------
(* Rates *)

Row == [main : 0..MaxCount, side : 0..MaxCount]
Stamps == [main : 0..MaxCount, side : 0..MaxCount, at : 0..RateMaxTime]

\* A baseline, when there is one, is the table as it was read last.
RateInv ==
    /\ RateTypeOK
    /\ \A d \in DOMAIN table : table[d] \in Row
    /\ baseline # Nil => \A d \in DOMAIN baseline : baseline[d] \in Stamps /\ baseline[d].at = lastAt

\* The collectors of rates start with no reading taken.
LEMMA RateStart == RateInit => RateInv
BY RatesAssumption DEF RateInit, RateInv, RateTypeOK, NoRow, Row, NotYet

\* net.go:65-69, process.go:60-67: the growth of a counter that was compared is real.
LEMMA GrowthIsReal ==
  ASSUME NEW a \in 0..MaxCount, NEW b \in 0..MaxCount
  PROVE  /\ Growth(a, b) \in 0..(RateModulus - 1)
         /\ a >= b => Growth(a, b) = a - b
<1>1. MaxCount \in Nat /\ RateModulus \in Nat \ {0} /\ RateModulus > MaxCount
  BY RatesAssumption
<1>2. PICK c \in Int : c = a - b
  OBVIOUS
<1>3. c % RateModulus \in 0..(RateModulus - 1)
  BY <1>1, ModuloRange
<1>4. a >= b => c \in Nat /\ c < RateModulus
  BY <1>1, <1>2
<1>5. c \in Nat /\ c < RateModulus => c % RateModulus = c
  BY <1>1, SmallModulo
<1>. QED  BY <1>2, <1>3, <1>4, <1>5 DEF Growth

\* net.go:57-78, process.go:39-79: what every tick keeps, and what its rates rest on.
LEMMA RateStep ==
  ASSUME RateInv, [RateNext]_rateVars
  PROVE  /\ RateInv'
         /\ \A r \in rates' \ rates : r.main <= table[r.dev].main
         /\ rates' # rates => \A r \in rates' : r.secs = rateNow - lastAt
<1>0. /\ MaxCount \in Nat /\ RateMaxTime \in Nat /\ DOMAIN table \subseteq Devs /\ rateNow \in 0..RateMaxTime
      /\ \A d \in DOMAIN table : table[d] \in Row
  BY RatesAssumption DEF RateInv, RateTypeOK
<1>1. CASE Kernel
  <2>1. DOMAIN table' \subseteq Devs /\ \A d \in DOMAIN table' : table'[d] \in Row
    <3>1. ASSUME NEW d \in DOMAIN table, Vanish(d)
          PROVE  DOMAIN table' \subseteq Devs /\ \A e \in DOMAIN table' : table'[e] \in Row
      BY <1>0, <3>1 DEF Vanish
    <3>2. ASSUME NEW d \in DOMAIN table, NEW m \in 0..1, NEW s \in 0..1, Count(d, m, s)
          PROVE  DOMAIN table' \subseteq Devs /\ \A e \in DOMAIN table' : table'[e] \in Row
      <4>1. [main |-> table[d].main + m, side |-> table[d].side + s] \in Row
        BY <1>0, <3>2 DEF Count, Row
      <4>2. table' = [table EXCEPT ![d] = [main |-> table[d].main + m, side |-> table[d].side + s]]
        BY <3>2 DEF Count
      <4>. QED  BY <1>0, <4>1, <4>2
    <3>3. ASSUME NEW d \in Devs \ DOMAIN table, Appear(d)
          PROVE  DOMAIN table' \subseteq Devs /\ \A e \in DOMAIN table' : table'[e] \in Row
      BY <1>0, <3>3 DEF Appear, Row
    <3>. QED  BY <1>1, <3>1, <3>2, <3>3 DEF Kernel
  <2>. QED  BY <1>1, <2>1 DEF Kernel, RateInv, RateTypeOK, Nil
<1>2. CASE RateTimePasses
  BY <1>0, <1>2 DEF RateTimePasses, RateInv, RateTypeOK, Nil, Row, Stamps
<1>3. CASE ReadTable
  <2>1. PICK cur : cur = Stamped(table)
    OBVIOUS
  <2>2. /\ DOMAIN cur = DOMAIN table
        /\ \A d \in DOMAIN table : /\ cur[d].main = table[d].main /\ cur[d].side = table[d].side /\ cur[d].at = rateNow
                                   /\ cur[d] \in Stamps
    BY <1>0, <2>1 DEF Stamped, Stamps, Row
  <2>3. /\ rates' = IF baseline = Nil THEN {} ELSE Deltas(cur, baseline)
        /\ baseline' = cur /\ lastAt' = rateNow /\ UNCHANGED <<table, rateNow>>
    BY <1>3, <2>1 DEF ReadTable, Baseline
  <2>4. ASSUME baseline # Nil, NEW d \in DOMAIN cur, Reported(cur, baseline, d),
               NEW r, r = [dev |-> d, main |-> Growth(cur[d].main, baseline[d].main), side |-> Growth(cur[d].side, baseline[d].side),
                           secs |-> cur[d].at - baseline[d].at]
        PROVE  r \in RateRows /\ r.main <= table[r.dev].main /\ r.secs = rateNow - lastAt
    <3>1. d \in DOMAIN baseline /\ cur[d].at - baseline[d].at > 0 /\ cur[d].main >= baseline[d].main
      BY <2>4 DEF Reported
    <3>2. baseline[d] \in Stamps /\ baseline[d].at = lastAt
      BY <2>4, <3>1 DEF RateInv
    <3>3. d \in Devs /\ table[d] \in Row /\ cur[d] \in Stamps /\ cur[d].main = table[d].main /\ cur[d].at = rateNow
      BY <1>0, <2>2, <2>4
    <3>4. /\ Growth(cur[d].main, baseline[d].main) \in 0..(RateModulus - 1)
          /\ Growth(cur[d].main, baseline[d].main) = cur[d].main - baseline[d].main
      BY <3>1, <3>2, <3>3, GrowthIsReal DEF Stamps
    <3>5. Growth(cur[d].side, baseline[d].side) \in 0..(RateModulus - 1)
      BY <3>2, <3>3, GrowthIsReal DEF Stamps
    <3>6. cur[d].at - baseline[d].at \in 1..RateMaxTime /\ cur[d].at - baseline[d].at = rateNow - lastAt
      BY <1>0, <3>1, <3>2, <3>3 DEF Stamps
    <3>7. cur[d].main - baseline[d].main <= table[d].main
      BY <1>0, <3>2, <3>3 DEF Stamps
    <3>. QED  BY <2>4, <3>3, <3>4, <3>5, <3>6, <3>7 DEF RateRows
  <2>5. \A r \in rates' : r \in RateRows /\ r.main <= table[r.dev].main /\ r.secs = rateNow - lastAt
    BY <2>3, <2>4 DEF Deltas
  <2>6. RateInv'
    <3>1. baseline' # Nil /\ Nil' = Nil
      <4>1. DOMAIN Nil = {"nil"} /\ DOMAIN cur \subseteq Devs
        BY <1>0, <2>2 DEF Nil
      <4>. QED  BY <2>3, <4>1, RatesAssumption DEF Nil
    <3>. QED  BY <1>0, <2>2, <2>3, <2>5, <3>1 DEF RateInv, RateTypeOK, RateRows, Row, Stamps
  <2>. QED  BY <2>5, <2>6
<1>4. CASE ReadFails
  BY <1>0, <1>4 DEF ReadFails, RateInv, RateTypeOK, Nil, Row, Stamps
<1>5. CASE UNCHANGED rateVars
  BY <1>0, <1>5 DEF rateVars, RateInv, RateTypeOK, Nil, Row, Stamps
<1>. QED  BY <1>1, <1>2, <1>3, <1>4, <1>5 DEF RateNext

\* net.go:65-69, diskio.go:65, process.go:60-67: the growth of a compared counter
\* is no more than it holds, whatever was reset, unplugged or reused.
THEOREM RatesAreReal == RateSpec => MainRateIsReal
<1>1. RateInv => RateTypeOK
  BY DEF RateInv
<1>. QED  BY <1>1, RateStart, RateStep, PTL DEF RateSpec, MainRateIsReal

\* process.go:71, system.go:58-68: no rate is over a baseline older than the last
\* table that could be read.
THEOREM OneTickPerRate == RateSpec => RatesSpanOneTick
BY RateStart, RateStep, PTL DEF RateSpec, RatesSpanOneTick

------------------------------------------------------------------------------
(* The memory of a container *)

\* docker.go:359-372: the cache taken off is smaller than the usage.
LEMMA CacheIsPart == \A m \in MemoryReports : CacheBytes(m) \in Nat /\ (CacheBytes(m) < m.usage \/ CacheBytes(m) = 0)
BY ViewAssumption DEF MemoryReports, CacheBytes

MemoryInv == memStats \in MemoryReports /\ used = UsedBytes(memStats)

\* docker.go:215: the memory shown neither wraps nor is 0 while some is in use.
THEOREM MemoryNeverWraps == ViewSpec => []MemoryIsReal
<1>1. ViewInit => MemoryInv
  BY ViewAssumption DEF ViewInit, MemoryInv, NoMemory, MemoryReports, UsedBytes, CacheBytes
<1>2. MemoryInv /\ [ViewNext]_viewVars => MemoryInv'
  BY DEF ViewNext, ReportPort, ReportMemory, viewVars, MemoryInv, UsedBytes, CacheBytes, MemoryReports
<1>3. MemoryInv => MemoryIsReal
  <2>. SUFFICES ASSUME MemoryInv PROVE MemoryIsReal
    OBVIOUS
  <2>1. CacheBytes(memStats) \in Nat /\ (CacheBytes(memStats) < memStats.usage \/ CacheBytes(memStats) = 0)
    BY CacheIsPart DEF MemoryInv
  <2>2. memStats.usage \in Nat /\ used = memStats.usage - CacheBytes(memStats)
    BY ViewAssumption DEF MemoryInv, MemoryReports, UsedBytes
  <2>. QED  BY <2>1, <2>2 DEF MemoryIsReal
<1>. QED  BY <1>1, <1>2, <1>3, PTL DEF ViewSpec

------------------------------------------------------------------------------
(* The partitions of the host *)

BytesInv == setup \in Setups /\ BytesAreThePartitions

\* host.go:334-345: the mount points of one namespace are looked up in another in one
\* setup only, where the host's / is mounted without its /proc.
THEOREM BytesAreOfThePartition == HostSpec => []BytesAreThePartitions
<1>1. HostInit => BytesInv
  BY DEF HostInit, BytesInv, BytesAreThePartitions
<1>2. BytesInv /\ [HostNext]_hostVars => BytesInv'
  <2>. SUFFICES ASSUME BytesInv, [HostNext]_hostVars PROVE BytesInv'
    OBVIOUS
  <2>1. setup' = setup
    BY DEF HostNext, Visit, hostVars
  <2>2. ASSUME NEW m \in Lines, Visit(m), NEW p \in partitions'
        PROVE  p.bytes = p.dev <=> ~RootAlone
    <3>1. CASE p \in partitions
      BY <3>1 DEF BytesInv, BytesAreThePartitions
    <3>2. CASE p \notin partitions
      <4>1. CanRead /\ p = [disk |-> ParentDisk(m), dev |-> m.dev, bytes |-> Bytes(m)]
        BY <2>2, <3>2 DEF Visit
      <4>2. setup.contained \in BOOLEAN /\ setup.hostProc \in BOOLEAN /\ setup.hostRoot \in BOOLEAN
        BY HostAssumption DEF BytesInv
      <4>3. (setup.hostProc \/ ~setup.contained) = (setup.hostRoot \/ ~setup.contained) <=> ~RootAlone
        BY <4>1, <4>2 DEF CanRead, RootAlone
      <4>4. m.dev # "other"
        BY <2>2, HostAssumption DEF Lines
      <4>. QED  BY <4>1, <4>3, <4>4 DEF Bytes
    <3>. QED  BY <3>1, <3>2
  <2>3. UNCHANGED hostVars => partitions' = partitions
    BY DEF hostVars
  <2>. QED  BY <2>1, <2>2, <2>3 DEF BytesInv, BytesAreThePartitions, HostNext, RootAlone
<1>. QED  BY <1>1, <1>2, PTL DEF HostSpec, BytesInv

------------------------------------------------------------------------------
(* The ports of a container *)

\* What the sorted list has of the report: each mapping once.
OncePerKey(u, ps) ==
    /\ u \in Seq(Ports)
    /\ \A k, l \in DOMAIN u : Key(u[k]) = Key(u[l]) => k = l
    /\ {Key(u[k]) : k \in DOMAIN u} = {Key(ps[i]) : i \in DOMAIN ps}

\* docker_ports.go:11-33: dedupePorts.
LEMMA Deduped ==
  ASSUME NEW ps \in Seq(Ports), NEW u \in DedupePorts(ps)
  PROVE  OncePerKey(u, ps)
<1>1. DOMAIN ps = 1..Len(ps) /\ Len(ps) \in Nat /\ \A i \in DOMAIN ps : ps[i] \in Ports
  BY LenProperties, ElementOfSeq
<1>2. PICK S : S = {ps[i] : i \in Firsts(ps)}
  OBVIOUS
<1>3. Firsts(ps) \subseteq DOMAIN ps
  BY DEF Firsts
<1>4. \A i, j \in Firsts(ps) : Key(ps[i]) = Key(ps[j]) => i = j
  <2>. SUFFICES ASSUME NEW i \in Firsts(ps), NEW j \in Firsts(ps), Key(ps[i]) = Key(ps[j])
                PROVE  i = j
    OBVIOUS
  <2>1. i \in Nat /\ j \in Nat /\ 1 <= i /\ 1 <= j
    BY <1>1, <1>3
  <2>2. ~(i < j)
    <3>1. i < j => i \in 1..(j - 1)
      BY <2>1
    <3>. QED  BY <3>1 DEF Firsts
  <2>3. ~(j < i)
    <3>1. j < i => j \in 1..(i - 1)
      BY <2>1
    <3>. QED  BY <3>1 DEF Firsts
  <2>. QED  BY <2>1, <2>2, <2>3
<1>5. ASSUME NEW i \in DOMAIN ps
      PROVE  \E j \in Firsts(ps) : Key(ps[j]) = Key(ps[i])
  <2>1. PICK T : T = {j \in DOMAIN ps : Key(ps[j]) = Key(ps[i])}
    OBVIOUS
  <2>2. T \in SUBSET Nat /\ T # {}
    BY <1>1, <2>1
  <2>3. PICK j \in T : \A k \in T : j <= k
    BY <2>2, Least
  <2>4. j \in DOMAIN ps /\ Key(ps[j]) = Key(ps[i])
    BY <2>1
  <2>5. \A k \in 1..(j - 1) : Key(ps[k]) # Key(ps[j])
    <3>. SUFFICES ASSUME NEW k \in 1..(j - 1), Key(ps[k]) = Key(ps[j]) PROVE FALSE
      OBVIOUS
    <3>1. k \in DOMAIN ps /\ ~(j <= k)
      BY <1>1, <2>4
    <3>. QED  BY <2>1, <2>3, <2>4, <3>1
  <2>. QED  BY <2>4, <2>5 DEF Firsts
<1>6. IsFiniteSet(S)
  <2>1. IsFiniteSet(Firsts(ps))
    <3>1. IsFiniteSet(1..Len(ps))
      BY <1>1, FS_Interval
    <3>. QED  BY <1>1, <1>3, <3>1, FS_Subset
  <2>2. PICK f : f = [i \in Firsts(ps) |-> ps[i]]
    OBVIOUS
  <2>3. f \in Surjection(Firsts(ps), S)
    BY <1>2, <2>2 DEF Surjection
  <2>. QED  BY <2>1, <2>3, FS_Surjection
<1>7. PICK n \in Nat : n = Cardinality(S)
  BY <1>6, FS_CardinalityType
<1>8. u \in [1..n -> S] /\ \A i, j \in 1..n : i # j => u[i] # u[j]
  BY <1>2, <1>7 DEF DedupePorts, SetToSeqs
<1>9. \A p \in S : \E k \in 1..n : u[k] = p
  <2>1. u \in Injection(1..n, S)
    BY <1>8 DEF Injection, IsInjective
  <2>2. Cardinality(1..n) = n
    BY FS_Interval
  <2>3. u \in Surjection(1..n, S)
    BY <1>6, <1>7, <2>1, <2>2, FS_Injection
  <2>. QED  BY <2>3 DEF Surjection
<1>10. S \subseteq Ports
  BY <1>1, <1>2, <1>3
<1>11. u \in Seq(Ports) /\ DOMAIN u = 1..n
  <2>1. u \in [1..n -> Ports]
    BY <1>8, <1>10
  <2>. QED  BY <2>1, SeqDef
<1>12. \A k, l \in DOMAIN u : Key(u[k]) = Key(u[l]) => k = l
  BY <1>2, <1>4, <1>8, <1>11
<1>13. {Key(u[k]) : k \in DOMAIN u} = {Key(ps[i]) : i \in DOMAIN ps}
  <2>1. \A k \in DOMAIN u : \E i \in DOMAIN ps : Key(u[k]) = Key(ps[i])
    BY <1>2, <1>3, <1>8, <1>11
  <2>2. \A i \in DOMAIN ps : \E k \in DOMAIN u : Key(u[k]) = Key(ps[i])
    BY <1>2, <1>5, <1>9, <1>11
  <2>. QED  BY <2>1, <2>2
<1>. QED  BY <1>11, <1>12, <1>13 DEF OncePerKey

\* docker_ports.go:49-63: where a run ends.
LEMMA EndOfRun ==
  ASSUME NEW u \in Seq(Ports), NEW i \in RunStarts(u)
  PROVE  /\ i \in 1..Len(u) /\ RunEnd(u, i) \in i..Len(u)
         /\ \A k \in i..(RunEnd(u, i) - 1) : k + 1 \in DOMAIN u \ RunStarts(u) /\ Joined(u[k], u[k + 1])
         /\ RunEnd(u, i) + 1 \in DOMAIN u => RunEnd(u, i) + 1 \in RunStarts(u)
<1>1. DOMAIN u = 1..Len(u) /\ Len(u) \in Nat
  BY LenProperties
<1>2. i \in 1..Len(u)
  BY <1>1 DEF RunStarts
<1>3. PICK T : T = {k \in DOMAIN u : k >= i /\ (k + 1) \notin DOMAIN u \ RunStarts(u)}
  OBVIOUS
<1>4. T \in SUBSET Nat /\ Len(u) \in T
  BY <1>1, <1>2, <1>3
<1>5. \E m \in T : \A k \in T : m <= k
  BY <1>4, Least
<1>6. PICK e : e = RunEnd(u, i)
  OBVIOUS
<1>7. e \in T /\ \A k \in T : e <= k
  BY <1>3, <1>5, <1>6 DEF RunEnd, Min
<1>8. e \in i..Len(u) /\ (e + 1) \notin DOMAIN u \ RunStarts(u)
  BY <1>1, <1>2, <1>3, <1>7
<1>9. ASSUME NEW k \in i..(e - 1)
      PROVE  k + 1 \in DOMAIN u \ RunStarts(u) /\ Joined(u[k], u[k + 1])
  <2>1. k \in DOMAIN u /\ k >= i /\ ~(e <= k) /\ k + 1 # 1 /\ (k + 1) - 1 = k
    BY <1>1, <1>2, <1>8
  <2>2. k + 1 \in DOMAIN u \ RunStarts(u)
    BY <1>3, <1>7, <2>1
  <2>. QED  BY <2>1, <2>2 DEF RunStarts
<1>. QED  BY <1>2, <1>6, <1>8, <1>9

\* Along a run the container ports, and the host ports if there are any, go up by one.
LEMMA RunIsLinear ==
  ASSUME NEW u \in Seq(Ports), NEW i \in RunStarts(u), NEW k \in i..RunEnd(u, i)
  PROVE  /\ u[k].proto = u[i].proto /\ u[k].cont = u[i].cont + (k - i)
         /\ u[k].host = IF u[i].host = 0 THEN 0 ELSE u[i].host + (k - i)
<1>1. PICK e : e = RunEnd(u, i)
  OBVIOUS
<1>2. i \in 1..Len(u) /\ e \in i..Len(u) /\ \A j \in i..(e - 1) : Joined(u[j], u[j + 1])
  BY <1>1, EndOfRun
<1>3. Len(u) \in Nat
  BY LenProperties
<1>4. \A j \in i..e : u[j].host \in Nat /\ u[j].cont \in Nat
  <2>1. \A j \in i..e : j \in 1..Len(u)
    BY <1>2, <1>3
  <2>2. \A j \in i..e : u[j] \in Ports
    BY <2>1, ElementOfSeq
  <2>. QED  BY <2>2, ViewAssumption
<1>5. PICK T : T = {j \in i..e : ~(/\ u[j].proto = u[i].proto /\ u[j].cont = u[i].cont + (j - i)
                                   /\ u[j].host = IF u[i].host = 0 THEN 0 ELSE u[i].host + (j - i))}
  OBVIOUS
<1>6. T = {}
  <2>1. SUFFICES ASSUME T # {} PROVE FALSE
    OBVIOUS
  <2>2. T \in SUBSET Nat
    BY <1>2, <1>3, <1>5
  <2>3. PICK j \in T : \A l \in T : j <= l
    BY <2>1, <2>2, Least
  <2>4. j \in i..e
    BY <1>5
  <2>5. CASE j = i
    BY <1>2, <1>3, <1>4, <1>5, <2>5
  <2>6. CASE j # i
    <3>1. PICK l \in i..(e - 1) : j = l + 1
      <4>1. j - 1 \in i..(e - 1) /\ j = (j - 1) + 1
        BY <1>2, <1>3, <2>4, <2>6
      <4>. QED  BY <4>1
    <3>2. l \in i..e /\ l \notin T
      BY <1>2, <1>3, <2>3, <3>1
    <3>3. /\ u[l].proto = u[i].proto /\ u[l].cont = u[i].cont + (l - i)
          /\ u[l].host = IF u[i].host = 0 THEN 0 ELSE u[i].host + (l - i)
      BY <1>5, <3>2
    <3>4. Joined(u[l], u[j])
      BY <1>2, <3>1
    <3>5. u[j].proto = u[i].proto /\ u[j].cont = u[i].cont + (j - i)
      <4>1. u[j].proto = u[l].proto /\ u[j].cont = u[l].cont + 1
        BY <3>4 DEF Joined
      <4>2. u[i].cont \in Nat /\ i \in Nat /\ l \in Nat /\ i <= l
        BY <1>2, <1>3, <1>4, <3>1
      <4>3. u[l].proto = u[i].proto /\ u[l].cont = u[i].cont + (l - i)
        BY <3>3
      <4>. QED  BY <3>1, <4>1, <4>2, <4>3, SMTT(30)
    <3>6. u[j].host = IF u[i].host = 0 THEN 0 ELSE u[i].host + (j - i)
      <4>1. u[i].host \in Nat /\ u[i].cont \in Nat /\ u[j].host \in Nat /\ u[j].cont \in Nat
        BY <1>2, <1>3, <1>4, <2>4
      <4>2. l \in Nat /\ i \in Nat /\ i <= l
        BY <1>2, <1>3, <3>1
      <4>3. CASE u[i].host = 0
        BY <3>3, <3>4, <4>3 DEF Joined, Published
      <4>4. CASE u[i].host # 0
        <5>1. u[l].host = u[i].host + (l - i) /\ u[l].host # 0
          BY <3>3, <4>1, <4>2, <4>4
        <5>2. u[j].host - u[j].cont = u[l].host - u[l].cont
          BY <3>4, <5>1 DEF Joined, Published, Offset
        <5>3. u[j].cont = u[i].cont + (j - i) /\ u[l].cont = u[i].cont + (l - i)
          BY <3>3, <3>5
        <5>4. u[j].host = u[i].host + (j - i)
          <6>1. PICK h \in Nat : h = u[j].host
            BY <4>1
          <6>2. PICK g \in Nat : g = u[i].host
            BY <4>1
          <6>3. PICK c \in Nat : c = u[i].cont
            BY <4>1
          <6>4. h - (c + (j - i)) = (g + (l - i)) - (c + (l - i))
            BY <5>1, <5>2, <5>3, <6>1, <6>2, <6>3
          <6>5. h = g + (j - i)
            BY <3>1, <4>2, <6>4
          <6>. QED  BY <6>1, <6>2, <6>5
        <5>. QED  BY <4>4, <5>4
      <4>. QED  BY <4>3, <4>4
    <3>. QED  BY <1>5, <2>4, <3>5, <3>6
  <2>. QED  BY <2>5, <2>6
<1>. QED  BY <1>1, <1>5, <1>6

\* A chip over a stretch of a run stands for the mappings of that stretch.
LEMMA StretchIsChip ==
  ASSUME NEW u \in Seq(Ports), NEW i \in RunStarts(u), NEW a \in {i}, NEW b \in i..RunEnd(u, i)
  PROVE  /\ Expand(Chip(u[a], u[b])) = {Key(u[k]) : k \in a..b}
         /\ Chip(u[a], u[b]).last - Chip(u[a], u[b]).first = b - a
<1>1. i \in 1..Len(u) /\ RunEnd(u, i) \in i..Len(u) /\ Len(u) \in Nat /\ a = i
  BY EndOfRun, LenProperties
<1>2. u[i].host \in Nat /\ u[i].cont \in Nat
  BY <1>1, ElementOfSeq, ViewAssumption
<1>3. \A k \in i..b : /\ u[k].proto = u[i].proto /\ u[k].cont = u[i].cont + (k - i)
                      /\ u[k].host = IF u[i].host = 0 THEN 0 ELSE u[i].host + (k - i)
  <2>1. \A k \in i..b : k \in i..RunEnd(u, i)
    BY <1>1
  <2>. QED  BY <2>1, RunIsLinear
<1>4. u[b].cont - u[i].cont = b - i
  BY <1>1, <1>2, <1>3
<1>. DEFINE Cell(k) == [host |-> IF u[i].host = 0 THEN 0 ELSE u[i].host + k, cont |-> u[i].cont + k, proto |-> u[i].proto]
<1>5. Expand(Chip(u[i], u[b])) = {Cell(k) : k \in 0..(b - i)}
  BY <1>4 DEF Expand, Chip
<1>6. \A k \in i..b : k - i \in 0..(b - i)
  BY <1>1
<1>7. \A k \in 0..(b - i) : i + k \in i..b /\ (i + k) - i = k
  BY <1>1
<1>8. \A k \in i..b : Key(u[k]) = Cell(k - i)
  BY <1>3 DEF Key
<1>9. Expand(Chip(u[i], u[b])) = {Key(u[k]) : k \in i..b}
  <2>. HIDE DEF Cell
  <2>1. ASSUME NEW k \in 0..(b - i) PROVE \E j \in i..b : Cell(k) = Key(u[j])
    <3>1. i + k \in i..b /\ Key(u[i + k]) = Cell(k)
      BY <1>7, <1>8
    <3>. QED  BY <3>1
  <2>2. ASSUME NEW k \in i..b PROVE \E j \in 0..(b - i) : Key(u[k]) = Cell(j)
    BY <1>6, <1>8
  <2>. QED  BY <1>5, <2>1, <2>2
<1>. QED  BY <1>1, <1>4, <1>9 DEF Chip

\* A port alone is a chip of one mapping.
LEMMA SingleChip ==
  ASSUME NEW u \in Seq(Ports), NEW k \in DOMAIN u
  PROVE  /\ Expand(Chip(u[k], u[k])) = {Key(u[k])}
         /\ Chip(u[k], u[k]).last = Chip(u[k], u[k]).first
<1>1. u[k].host \in Nat /\ u[k].cont \in Nat
  BY ElementOfSeq, LenProperties, ViewAssumption
<1>2. u[k].cont - u[k].cont = 0 /\ 0..0 = {0} /\ u[k].host + 0 = u[k].host /\ u[k].cont + 0 = u[k].cont
  BY <1>1
<1>3. Expand(Chip(u[k], u[k])) =
        {[host |-> IF u[k].host = 0 THEN 0 ELSE u[k].host + j, cont |-> u[k].cont + j, proto |-> u[k].proto] : j \in {0}}
  BY <1>2 DEF Expand, Chip
<1>4. Key(u[k]) = [host |-> IF u[k].host = 0 THEN 0 ELSE u[k].host + 0, cont |-> u[k].cont + 0, proto |-> u[k].proto]
  BY <1>2 DEF Key
<1>. QED  BY <1>3, <1>4 DEF Chip

\* Every entry is in a run: going back from it, the first run start is its own.
LEMMA InSomeRun ==
  ASSUME NEW u \in Seq(Ports), NEW k \in DOMAIN u
  PROVE  \E i \in RunStarts(u) : k \in i..RunEnd(u, i)
<1>1. DOMAIN u = 1..Len(u) /\ Len(u) \in Nat /\ k \in 1..Len(u)
  BY LenProperties
<1>2. PICK T : T = {d \in Nat : k - d \in RunStarts(u)}
  OBVIOUS
<1>3. k - 1 \in T
  <2>1. 1 \in RunStarts(u) /\ k - (k - 1) = 1 /\ k - 1 \in Nat
    BY <1>1 DEF RunStarts
  <2>. QED  BY <1>2, <2>1
<1>4. PICK d \in T : \A b \in T : d <= b
  <2>1. T \in SUBSET Nat /\ T # {}
    BY <1>2, <1>3
  <2>. QED  BY <2>1, Least
<1>5. PICK i \in RunStarts(u) : i = k - d
  BY <1>2
<1>6. PICK e : e = RunEnd(u, i)
  OBVIOUS
<1>7. i \in 1..Len(u) /\ e \in i..Len(u) /\ (e + 1 \in DOMAIN u => e + 1 \in RunStarts(u))
  BY <1>6, EndOfRun
<1>8. d \in Nat /\ i <= k
  BY <1>1, <1>2, <1>5, <1>7
<1>9. ~(e < k)
  <2>. SUFFICES ASSUME e < k PROVE FALSE
    OBVIOUS
  <2>1. e + 1 \in DOMAIN u
    BY <1>1, <1>7
  <2>2. k - (e + 1) \in Nat /\ k - (k - (e + 1)) = e + 1 /\ ~(d <= k - (e + 1))
    BY <1>1, <1>5, <1>7, <1>8
  <2>3. k - (e + 1) \in T
    BY <1>2, <1>7, <2>1, <2>2
  <2>. QED  BY <1>4, <2>2, <2>3
<1>. QED  BY <1>1, <1>6, <1>7, <1>8, <1>9

\* ... and in no other one.
LEMMA InOneRun ==
  ASSUME NEW u \in Seq(Ports), NEW i \in RunStarts(u), NEW j \in RunStarts(u),
         NEW k \in i..RunEnd(u, i), k \in j..RunEnd(u, j)
  PROVE  i = j
<1>1. Len(u) \in Nat /\ i \in 1..Len(u) /\ j \in 1..Len(u) /\ RunEnd(u, i) \in i..Len(u) /\ RunEnd(u, j) \in j..Len(u)
  BY EndOfRun, LenProperties
<1>2. /\ \A l \in i..(RunEnd(u, i) - 1) : l + 1 \notin RunStarts(u)
      /\ \A l \in j..(RunEnd(u, j) - 1) : l + 1 \notin RunStarts(u)
  BY EndOfRun
<1>3. ~(i < j)
  <2>1. i < j => j - 1 \in i..(RunEnd(u, i) - 1) /\ (j - 1) + 1 = j
    BY <1>1
  <2>. QED  BY <1>2, <2>1
<1>4. ~(j < i)
  <2>1. j < i => i - 1 \in j..(RunEnd(u, j) - 1) /\ (i - 1) + 1 = i
    BY <1>1
  <2>. QED  BY <1>2, <2>1
<1>. QED  BY <1>1, <1>3, <1>4

\* Which chips a run has: one over all of a long run, one on each entry of a short one.
Covers(u, i, a, b) ==
    /\ a \in i..RunEnd(u, i) /\ b \in i..RunEnd(u, i)
    /\ \/ a = i /\ b = RunEnd(u, i) /\ RunEnd(u, i) - i >= 2
       \/ a = b /\ ~(RunEnd(u, i) - i >= 2)

\* docker_ports.go:64-95: the chips of a run
LEMMA ChipsOfRuns ==
  ASSUME NEW u \in Seq(Ports)
  PROVE  /\ \A c \in Chips(u) : \E i \in RunStarts(u) : \E a \in Int : \E b \in Int :
              Covers(u, i, a, b) /\ c = Chip(u[a], u[b])
         /\ \A i \in RunStarts(u) : \A a \in Int : \A b \in Int :
              Covers(u, i, a, b) => Chip(u[a], u[b]) \in Chips(u)
<1>1. \A i \in RunStarts(u) : i \in Int /\ RunEnd(u, i) \in Int /\ i <= RunEnd(u, i)
  BY EndOfRun, LenProperties
<1>2. PICK Of : Of = [i \in RunStarts(u) |->
                        IF RunEnd(u, i) - i + 1 >= 3 THEN {Chip(u[i], u[RunEnd(u, i)])}
                                                     ELSE {Chip(u[k], u[k]) : k \in i..RunEnd(u, i)}]
  OBVIOUS
<1>3. \A c : c \in Chips(u) <=> \E i \in RunStarts(u) : c \in Of[i]
  BY <1>2 DEF Chips
<1>4. ASSUME NEW i \in RunStarts(u)
      PROVE  \A c : c \in Of[i] <=> \E a \in Int : \E b \in Int : Covers(u, i, a, b) /\ c = Chip(u[a], u[b])
  <2>1. PICK e \in Int : e = RunEnd(u, i)
    BY <1>1
  <2>2. i \in Int /\ i <= e /\ i \in i..e /\ e \in i..e
    BY <1>1, <2>1
  <2>3. CASE e - i >= 2
    <3>1. Of[i] = {Chip(u[i], u[e])}
      <4>1. e - i + 1 >= 3
        BY <2>2, <2>3
      <4>. QED  BY <1>2, <2>1, <4>1
    <3>2. \A a \in Int : \A b \in Int : Covers(u, i, a, b) <=> a = i /\ b = e
      BY <2>1, <2>2, <2>3 DEF Covers
    <3>. QED  BY <2>2, <3>1, <3>2
  <2>4. CASE ~(e - i >= 2)
    <3>1. Of[i] = {Chip(u[k], u[k]) : k \in i..e}
      <4>1. ~(e - i + 1 >= 3)
        BY <2>2, <2>4
      <4>. QED  BY <1>2, <2>1, <4>1
    <3>2. \A a \in Int : \A b \in Int : Covers(u, i, a, b) <=> a = b /\ a \in i..e
      BY <2>1, <2>2, <2>4 DEF Covers
    <3>3. \A k \in i..e : k \in Int
      OBVIOUS
    <3>. QED  BY <3>1, <3>2, <3>3
  <2>. QED  BY <2>3, <2>4
<1>. QED  BY <1>3, <1>4

\* What such a chip stands for, and how wide it is.
LEMMA CoverIsChip ==
  ASSUME NEW u \in Seq(Ports), NEW i \in RunStarts(u), NEW a \in Int, NEW b \in Int, Covers(u, i, a, b)
  PROVE  /\ \A x : x \in Expand(Chip(u[a], u[b])) <=> \E k \in a..b : x = Key(u[k])
         /\ \/ Chip(u[a], u[b]).first = Chip(u[a], u[b]).last
            \/ Chip(u[a], u[b]).last - Chip(u[a], u[b]).first >= 2
<1>1. Len(u) \in Nat /\ DOMAIN u = 1..Len(u) /\ i \in 1..Len(u) /\ RunEnd(u, i) \in i..Len(u)
  BY EndOfRun, LenProperties
<1>2. CASE a = i /\ b = RunEnd(u, i) /\ RunEnd(u, i) - i >= 2
  <2>1. a \in {i} /\ b \in i..RunEnd(u, i)
    BY <1>1, <1>2
  <2>2. /\ Expand(Chip(u[a], u[b])) = {Key(u[k]) : k \in a..b}
        /\ Chip(u[a], u[b]).last - Chip(u[a], u[b]).first = b - a
    BY <2>1, StretchIsChip
  <2>. QED  BY <1>2, <2>2
<1>3. CASE a = b /\ ~(RunEnd(u, i) - i >= 2)
  <2>1. a \in DOMAIN u /\ a..b = {a}
    BY <1>1, <1>3 DEF Covers
  <2>2. Expand(Chip(u[a], u[a])) = {Key(u[a])} /\ Chip(u[a], u[a]).last = Chip(u[a], u[a]).first
    BY <2>1, SingleChip
  <2>. QED  BY <1>3, <2>1, <2>2
<1>. QED  BY <1>2, <1>3 DEF Covers

\* docker_ports.go:11-98: when each port is kept once, the chips cover the report.
LEMMA ChipsTellAll ==
  ASSUME OncePerKey(uniq, report)
  PROVE  ChipsAreThePorts
<1>1. uniq \in Seq(Ports) /\ DOMAIN uniq = 1..Len(uniq) /\ Len(uniq) \in Nat
  BY LenProperties DEF OncePerKey
<1>2. \A k, l \in DOMAIN uniq : Key(uniq[k]) = Key(uniq[l]) => k = l
  BY DEF OncePerKey
<1>3. \A i \in RunStarts(uniq) : \A a \in Int : \A b \in Int : Covers(uniq, i, a, b) =>
        /\ a..b \subseteq DOMAIN uniq /\ a..b \subseteq i..RunEnd(uniq, i)
  BY <1>1, EndOfRun DEF Covers
<1>4. OnlyLongRunsCollapse
  <2>. SUFFICES ASSUME NEW c \in Chips(uniq) PROVE c.first = c.last \/ c.last - c.first >= 2
    BY DEF OnlyLongRunsCollapse
  <2>1. PICK i \in RunStarts(uniq) : \E a \in Int : \E b \in Int : Covers(uniq, i, a, b) /\ c = Chip(uniq[a], uniq[b])
    BY <1>1, ChipsOfRuns
  <2>2. PICK a \in Int : \E b \in Int : Covers(uniq, i, a, b) /\ c = Chip(uniq[a], uniq[b])
    BY <2>1
  <2>3. PICK b \in Int : Covers(uniq, i, a, b) /\ c = Chip(uniq[a], uniq[b])
    BY <2>2
  <2>. QED  BY <1>1, <2>3, CoverIsChip
<1>5. ASSUME NEW c \in Chips(uniq), NEW x \in Expand(c)
      PROVE  \E k \in DOMAIN uniq : x = Key(uniq[k])
  <2>1. PICK i \in RunStarts(uniq) : \E a \in Int : \E b \in Int : Covers(uniq, i, a, b) /\ c = Chip(uniq[a], uniq[b])
    BY <1>1, ChipsOfRuns
  <2>2. PICK a \in Int : \E b \in Int : Covers(uniq, i, a, b) /\ c = Chip(uniq[a], uniq[b])
    BY <2>1
  <2>3. PICK b \in Int : Covers(uniq, i, a, b) /\ c = Chip(uniq[a], uniq[b])
    BY <2>2
  <2>4. \E k \in a..b : x = Key(uniq[k])
    <3>1. x \in Expand(Chip(uniq[a], uniq[b]))
      BY <2>3
    <3>2. \A y : y \in Expand(Chip(uniq[a], uniq[b])) <=> \E n \in a..b : y = Key(uniq[n])
      BY <1>1, <2>3, CoverIsChip
    <3>. QED  BY <3>1, <3>2
  <2>. QED  BY <1>3, <2>3, <2>4
<1>6. ASSUME NEW k \in DOMAIN uniq
      PROVE  \E c \in Chips(uniq) : Key(uniq[k]) \in Expand(c)
  <2>1. PICK i \in RunStarts(uniq) : k \in i..RunEnd(uniq, i)
    BY <1>1, InSomeRun
  <2>2. i \in 1..Len(uniq) /\ RunEnd(uniq, i) \in i..Len(uniq)
    BY <1>1, EndOfRun
  <2>3. PICK a \in Int : a = IF RunEnd(uniq, i) - i >= 2 THEN i ELSE k
    BY <1>1, <2>2
  <2>4. PICK b \in Int : b = IF RunEnd(uniq, i) - i >= 2 THEN RunEnd(uniq, i) ELSE k
    BY <1>1, <2>2
  <2>5. Covers(uniq, i, a, b) /\ k \in a..b
    BY <1>1, <2>1, <2>2, <2>3, <2>4 DEF Covers
  <2>6. Chip(uniq[a], uniq[b]) \in Chips(uniq) /\ Key(uniq[k]) \in Expand(Chip(uniq[a], uniq[b]))
    <3>1. Chip(uniq[a], uniq[b]) \in Chips(uniq)
      BY <1>1, <2>5, ChipsOfRuns
    <3>2. Key(uniq[k]) \in Expand(Chip(uniq[a], uniq[b]))
      BY <1>1, <2>5, CoverIsChip
    <3>. QED  BY <3>1, <3>2
  <2>. QED  BY <2>6
<1>7. UNION {Expand(c) : c \in Chips(uniq)} = {Key(report[i]) : i \in DOMAIN report}
  <2>1. {Key(uniq[k]) : k \in DOMAIN uniq} = {Key(report[i]) : i \in DOMAIN report}
    BY DEF OncePerKey
  <2>2. \A x : x \in UNION {Expand(c) : c \in Chips(uniq)} <=> \E c \in Chips(uniq) : x \in Expand(c)
    OBVIOUS
  <2>3. \A x : x \in UNION {Expand(c) : c \in Chips(uniq)} <=> x \in {Key(uniq[k]) : k \in DOMAIN uniq}
    BY <1>5, <1>6, <2>2
  <2>. QED  BY <2>1, <2>3
<1>8. ASSUME NEW c \in Chips(uniq), NEW d \in Chips(uniq), NEW x \in Expand(c), x \in Expand(d)
      PROVE  c = d
  <2>1. PICK i \in RunStarts(uniq) : \E a \in Int : \E b \in Int : Covers(uniq, i, a, b) /\ c = Chip(uniq[a], uniq[b])
    BY <1>1, ChipsOfRuns
  <2>2. PICK a \in Int : \E b \in Int : Covers(uniq, i, a, b) /\ c = Chip(uniq[a], uniq[b])
    BY <2>1
  <2>3. PICK b \in Int : Covers(uniq, i, a, b) /\ c = Chip(uniq[a], uniq[b])
    BY <2>2
  <2>4. PICK j \in RunStarts(uniq) : \E l \in Int : \E m \in Int : Covers(uniq, j, l, m) /\ d = Chip(uniq[l], uniq[m])
    BY <1>1, ChipsOfRuns
  <2>5. PICK l \in Int : \E m \in Int : Covers(uniq, j, l, m) /\ d = Chip(uniq[l], uniq[m])
    BY <2>4
  <2>6. PICK m \in Int : Covers(uniq, j, l, m) /\ d = Chip(uniq[l], uniq[m])
    BY <2>5
  <2>7. PICK k \in a..b : x = Key(uniq[k])
    <3>1. x \in Expand(Chip(uniq[a], uniq[b]))
      BY <2>3
    <3>2. \A y : y \in Expand(Chip(uniq[a], uniq[b])) <=> \E n \in a..b : y = Key(uniq[n])
      BY <1>1, <2>3, CoverIsChip
    <3>. QED  BY <3>1, <3>2
  <2>8. \E n \in l..m : x = Key(uniq[n])
    <3>1. x \in Expand(Chip(uniq[l], uniq[m]))
      BY <1>8, <2>6
    <3>2. \A y : y \in Expand(Chip(uniq[l], uniq[m])) <=> \E n \in l..m : y = Key(uniq[n])
      BY <1>1, <2>6, CoverIsChip
    <3>. QED  BY <3>1, <3>2
  <2>9. k \in l..m
    BY <1>2, <1>3, <2>3, <2>6, <2>7, <2>8
  <2>10. i = j
    BY <1>1, <1>3, <2>3, <2>6, <2>9, InOneRun
  <2>11. a = l /\ b = m
    BY <2>3, <2>6, <2>7, <2>9, <2>10 DEF Covers
  <2>. QED  BY <2>3, <2>6, <2>11
<1>. QED  BY <1>4, <1>7, <1>8 DEF ChipsAreThePorts

PortsInv == report \in Seq(Ports) /\ OncePerKey(uniq, report)

\* The chips of a container (docker_ports.go:11-98) stand for exactly the
\* mappings the engine reported, in whatever order and however often it did,
\* and no mapping is under two chips.
THEOREM ChipsAreTheReport == ViewSpec => []ChipsAreThePorts
<1>1. ViewInit => PortsInv
  <2>. SUFFICES ASSUME ViewInit PROVE PortsInv
    OBVIOUS
  <2>1. report = <<>> /\ uniq = <<>> /\ <<>> \in Seq(Ports) /\ DOMAIN uniq = {} /\ DOMAIN report = {}
    BY DEF ViewInit
  <2>. QED  BY <2>1 DEF PortsInv, OncePerKey
<1>2. PortsInv /\ [ViewNext]_viewVars => PortsInv'
  <2>. SUFFICES ASSUME PortsInv, [ViewNext]_viewVars PROVE PortsInv'
    OBVIOUS
  <2>1. CASE ReportPort
    <3>1. report' \in Seq(Ports)
      <4>1. PICK p \in Ports : report' = Append(report, p)
        BY <2>1 DEF ReportPort
      <4>. QED  BY <4>1, AppendProperties DEF PortsInv
    <3>2. uniq' \in DedupePorts(report')
      BY <2>1 DEF ReportPort
    <3>3. OncePerKey(uniq', report')
      BY <3>1, <3>2, Deduped
    <3>. QED  BY <3>1, <3>3 DEF PortsInv, OncePerKey
  <2>2. CASE ReportMemory
    BY <2>2 DEF PortsInv, OncePerKey, ReportMemory
  <2>3. CASE UNCHANGED viewVars
    BY <2>3 DEF PortsInv, OncePerKey, viewVars
  <2>. QED  BY <2>1, <2>2, <2>3 DEF ViewNext
<1>3. PortsInv => ChipsAreThePorts
  BY ChipsTellAll DEF PortsInv
<1>. QED  BY <1>1, <1>2, <1>3, PTL DEF ViewSpec


------------------------------------------------------------------------------
(* Volumes and the disks they stand on *)

\* Every mapped device stands on devices before it.
LEMMA Machine ==
  ASSUME slaves \in Machines
  PROVE  \A d \in MappedDevs : \E i \in DOMAIN Mapped : d = Mapped[i] /\ slaves[d] \subseteq Lower(i)
BY DEF Machines, MappedDevs

\* What holds of disks and partitions, and of a mapped device whenever it holds of
\* those it stands on, holds of every device.
LEMMA DeviceInduction ==
  ASSUME slaves \in Machines, NEW T, Disks \cup Parts \subseteq T,
         \A d \in MappedDevs : slaves[d] \subseteq T => d \in T
  PROVE  BlockDevs \subseteq T
<1>1. Mapped \in Seq(MappedDevs) /\ DOMAIN Mapped = 1..Len(Mapped) /\ Len(Mapped) \in Nat
  BY HostAssumption
<1>2. PICK Bad : Bad = {i \in DOMAIN Mapped : Mapped[i] \notin T}
  OBVIOUS
<1>3. Bad = {}
  <2>. SUFFICES ASSUME Bad # {} PROVE FALSE
    OBVIOUS
  <2>0. Bad \in SUBSET Nat
    BY <1>1, <1>2
  <2>1. PICK i \in Bad : \A k \in Bad : i <= k
    BY <2>0, Least
  <2>2. i \in DOMAIN Mapped /\ Mapped[i] \notin T /\ Mapped[i] \in MappedDevs
    BY <1>2, <2>1 DEF MappedDevs
  <2>3. slaves[Mapped[i]] \subseteq Lower(i)
    BY <2>2 DEF Machines
  <2>4. Lower(i) \subseteq T
    <3>. SUFFICES ASSUME NEW j \in 1..(i - 1) PROVE Mapped[j] \in T
      BY DEF Lower
    <3>1. j \in DOMAIN Mapped /\ ~(i <= j)
      BY <1>1, <2>2
    <3>. QED  BY <1>2, <2>1, <3>1
  <2>. QED  BY <2>2, <2>3, <2>4
<1>. QED  BY <1>2, <1>3 DEF BlockDevs, MappedDevs

\* host.go:296-305: where one call of partitionParentDisk gets to, given what the
\* next one returns.
OneUp(f, d) ==
    IF d \in DOMAIN Parents THEN Parents[d]
    ELSE IF Cardinality(slaves[d]) # 1 THEN None
    ELSE f[CHOOSE s \in slaves[d] : TRUE]

OnlySlave(d) == CHOOSE s \in slaves[d] : TRUE

\* host.go:296-305: a device with one slave has exactly that one below it.
LEMMA OneSlave ==
  ASSUME slaves \in Machines, NEW d \in MappedDevs, Cardinality(slaves[d]) = 1
  PROVE  slaves[d] = {OnlySlave(d)} /\ OnlySlave(d) \in BlockDevs
<1>1. IsFiniteSet(BlockDevs)
  <2>1. IsFiniteSet(1..Len(Mapped)) /\ DOMAIN Mapped = 1..Len(Mapped)
    BY HostAssumption, FS_Interval
  <2>2. PICK f : f = [i \in DOMAIN Mapped |-> Mapped[i]]
    OBVIOUS
  <2>3. f \in Surjection(DOMAIN Mapped, MappedDevs)
    BY <2>2 DEF Surjection, MappedDevs
  <2>4. IsFiniteSet(MappedDevs)
    BY <2>1, <2>3, FS_Surjection
  <2>. QED  BY <2>4, HostAssumption, FS_Union DEF BlockDevs
<1>2. slaves[d] \subseteq BlockDevs
  BY DEF Machines
<1>3. IsFiniteSet(slaves[d])
  BY <1>1, <1>2, FS_Subset
<1>4. PICK s : slaves[d] = {s}
  BY <1>3, FS_Singleton
<1>. QED  BY <1>2, <1>4 DEF OnlySlave

\* The recursion comes to an end: it has a value for every device.
LEMMA UpIsDefined ==
  ASSUME slaves \in Machines
  PROVE  /\ Up \in [BlockDevs -> Disks \cup {None}]
         /\ \A d \in BlockDevs : Up[d] = OneUp(Up, d)
<1>. DEFINE Upto(n, f) == \A d \in Lower(n + 1) : f[d] = OneUp(f, d)
            Good == {n \in 0..Len(Mapped) : \E f \in [BlockDevs -> Disks \cup {None}] : Upto(n, f)}
<1>1. Mapped \in Seq(MappedDevs) /\ DOMAIN Mapped = 1..Len(Mapped) /\ Len(Mapped) \in Nat
  BY HostAssumption
<1>2. \A n \in 0..Len(Mapped) : Lower(n + 1) \subseteq BlockDevs
  BY <1>1 DEF Lower, BlockDevs, MappedDevs
<1>3. DOMAIN Parents = Disks \cup Parts /\ \A d \in Disks \cup Parts : Parents[d] \in Disks
  BY HostAssumption DEF Parents
<1>0. \A n \in 0..Len(Mapped) : n # Len(Mapped) => n + 1 \in 1..Len(Mapped)
  <2>1. PICK l \in Nat : l = Len(Mapped)
    BY <1>1
  <2>2. \A n \in 0..l : n # l => n + 1 \in 1..l
    BY ONLY <2>1
  <2>. QED  BY <2>1, <2>2
<1>4. 0 \in Good
  <2>1. PICK f : f = [d \in BlockDevs |-> IF d \in Disks \cup Parts THEN Parents[d] ELSE None]
    OBVIOUS
  <2>2. f \in [BlockDevs -> Disks \cup {None}]
    BY <1>3, <2>1
  <2>3. Lower(0 + 1) = Disks \cup Parts
    BY DEF Lower
  <2>4. Upto(0, f)
    BY <1>3, <2>1, <2>3 DEF OneUp, BlockDevs
  <2>. QED  BY <1>1, <2>2, <2>4
<1>5. ASSUME NEW n \in 0..Len(Mapped), n \in Good, n # Len(Mapped)
      PROVE  n + 1 \in Good
  <2>1. PICK f \in [BlockDevs -> Disks \cup {None}] : Upto(n, f)
    BY <1>5
  <2>2. PICK k, m : k = n + 1 /\ m = Mapped[k]
    OBVIOUS
  <2>3. k \in DOMAIN Mapped /\ k \in 1..Len(Mapped) /\ m \in MappedDevs /\ m \in BlockDevs /\ m \notin Disks \cup Parts
    <3>1. k \in 1..Len(Mapped)
      BY <1>0, <1>5, <2>2
    <3>2. m \in MappedDevs
      BY <1>1, <2>2, <3>1 DEF MappedDevs
    <3>. QED  BY <1>1, <3>1, <3>2, HostAssumption DEF BlockDevs
  <2>4. Lower(k + 1) = Lower(k) \cup {m} /\ Lower(k) \subseteq BlockDevs
    BY <1>1, <1>2, <2>2, <2>3 DEF Lower
  <2>5. slaves[m] \subseteq Lower(k)
    BY <2>2, <2>3 DEF Machines
  <2>6. \A d \in Lower(k) : d \in MappedDevs => slaves[d] \subseteq Lower(k)
    <3>. SUFFICES ASSUME NEW d \in Lower(k), d \in MappedDevs PROVE slaves[d] \subseteq Lower(k)
      OBVIOUS
    <3>1. PICK j \in 1..(k - 1) : d = Mapped[j]
      BY HostAssumption DEF Lower
    <3>2. j \in DOMAIN Mapped /\ slaves[d] \subseteq Lower(j)
      BY <1>1, <2>3, <3>1 DEF Machines
    <3>3. 1..(j - 1) \subseteq 1..(k - 1)
      BY <2>3
    <3>. QED  BY <3>2, <3>3 DEF Lower
  <2>7. CASE m \in Lower(k)
    BY <1>1, <2>1, <2>2, <2>3, <2>4, <2>7
  <2>8. CASE m \notin Lower(k)
    <3>1. PICK v : v = OneUp(f, m)
      OBVIOUS
    <3>2. v \in Disks \cup {None}
      <4>1. CASE Cardinality(slaves[m]) = 1
        BY <1>3, <2>3, <3>1, <4>1, OneSlave DEF OneUp, OnlySlave
      <4>2. CASE Cardinality(slaves[m]) # 1
        BY <1>3, <2>3, <3>1, <4>2 DEF OneUp
      <4>. QED  BY <4>1, <4>2
    <3>3. PICK g : g = [f EXCEPT ![m] = v]
      OBVIOUS
    <3>4. g \in [BlockDevs -> Disks \cup {None}] /\ g[m] = v /\ \A d \in Lower(k) : g[d] = f[d]
      BY <2>3, <2>4, <2>8, <3>2, <3>3
    <3>5. ASSUME NEW d \in Lower(k) \cup {m}
          PROVE  OneUp(g, d) = OneUp(f, d)
      <4>1. CASE d \in Disks \cup Parts
        BY <1>3, <4>1 DEF OneUp
      <4>2. CASE d \notin Disks \cup Parts /\ Cardinality(slaves[d]) # 1
        BY <1>3, <4>2 DEF OneUp
      <4>3. CASE d \notin Disks \cup Parts /\ Cardinality(slaves[d]) = 1
        <5>1. d \in MappedDevs /\ slaves[d] \subseteq Lower(k)
          BY <2>3, <2>4, <2>5, <2>6, <3>5, <4>3 DEF BlockDevs
        <5>2. OnlySlave(d) \in Lower(k)
          BY <4>3, <5>1, OneSlave
        <5>. QED  BY <1>3, <3>4, <4>3, <5>2 DEF OneUp, OnlySlave
      <4>. QED  BY <4>1, <4>2, <4>3
    <3>6. Upto(k, g)
      BY <2>1, <2>2, <2>4, <3>1, <3>4, <3>5
    <3>. QED  BY <1>1, <2>2, <2>3, <3>4, <3>6
  <2>. QED  BY <2>7, <2>8
<1>6. Len(Mapped) \in Good
  <2>. SUFFICES ASSUME Len(Mapped) \notin Good PROVE FALSE
    OBVIOUS
  <2>. HIDE DEF Good
  <2>1. PICK Bad : Bad = (0..Len(Mapped)) \ Good
    OBVIOUS
  <2>0. Bad \in SUBSET Nat /\ Bad # {}
    BY <1>1, <2>1
  <2>2. PICK n \in Bad : \A k \in Bad : n <= k
    BY <2>0, Least
  <2>3. n \in 1..Len(Mapped) /\ n - 1 \in 0..Len(Mapped) /\ n - 1 # Len(Mapped) /\ (n - 1) + 1 = n /\ ~(n <= n - 1)
    BY <1>1, <1>4, <2>1, <2>2
  <2>4. n - 1 \in Good
    BY <2>1, <2>2, <2>3
  <2>. QED  BY <1>5, <2>1, <2>2, <2>3, <2>4
<1>7. Lower(Len(Mapped) + 1) = BlockDevs
  BY <1>1 DEF Lower, BlockDevs, MappedDevs
<1>8. PICK f \in [BlockDevs -> Disks \cup {None}] : \A d \in BlockDevs : f[d] = OneUp(f, d)
  BY <1>6, <1>7
<1>9. f = [d \in BlockDevs |-> OneUp(f, d)]
  BY <1>8
<1>10. Up = CHOOSE g : g = [d \in BlockDevs |-> OneUp(g, d)]
  BY DEF Up, OneUp
<1>11. Up = [d \in BlockDevs |-> OneUp(Up, d)]
  BY <1>9, <1>10
<1>12. ASSUME NEW d \in BlockDevs PROVE Up[d] \in Disks \cup {None}
  <2>. DEFINE T == {e \in BlockDevs : Up[e] \in Disks \cup {None}}
  <2>1. Disks \cup Parts \subseteq T
    BY <1>3, <1>11 DEF OneUp, BlockDevs
  <2>2. ASSUME NEW e \in MappedDevs, slaves[e] \subseteq T PROVE e \in T
    <3>1. e \in BlockDevs /\ Up[e] = OneUp(Up, e)
      BY <1>11 DEF BlockDevs
    <3>2. CASE Cardinality(slaves[e]) = 1
      BY <1>3, <2>2, <3>1, <3>2, OneSlave, HostAssumption DEF OneUp, OnlySlave
    <3>3. CASE Cardinality(slaves[e]) # 1
      BY <1>3, <3>1, <3>3, HostAssumption DEF OneUp
    <3>. QED  BY <3>2, <3>3
  <2>. QED  BY <2>1, <2>2, DeviceInduction
<1>. QED  BY <1>11, <1>12

\* host.go:296-305: the first steps down are the first ones of the recursion.
LEMMA UpOf ==
  ASSUME slaves \in Machines
  PROVE  /\ \A d \in Disks : Up[d] = d
         /\ \A p \in Parts : Up[p] = PartOf[p]
         /\ \A d \in MappedDevs :
               IF Cardinality(slaves[d]) = 1 THEN Up[d] = Up[OnlySlave(d)] ELSE Up[d] = None
<1>1. \A d \in BlockDevs : Up[d] = OneUp(Up, d)
  BY UpIsDefined
<1>. QED  BY <1>1, HostAssumption DEF OneUp, OnlySlave, Parents, BlockDevs

\* A device and its only slave stand on the same disks.
LEMMA SameDisks ==
  ASSUME slaves \in Machines, NEW d \in MappedDevs, Cardinality(slaves[d]) = 1
  PROVE  DisksUnder(d) = DisksUnder(OnlySlave(d))
<1>1. PICK s : s = OnlySlave(d)
  OBVIOUS
<1>2. s \in BlockDevs /\ slaves[d] = {s} /\ d \in BlockDevs /\ d \notin Disks
  BY <1>1, OneSlave, HostAssumption DEF BlockDevs
<1>3. StandsOn(d) = {s}
  BY <1>2, HostAssumption DEF StandsOn
<1>4. ASSUME NEW k \in DisksUnder(d) PROVE k \in DisksUnder(s)
  <2>. SUFFICES ASSUME NEW S \in SUBSET BlockDevs, s \in S, Closed(S) PROVE k \in S
    BY <1>4 DEF DisksUnder
  <2>1. S \cup {d} \in SUBSET BlockDevs /\ Closed(S \cup {d})
    BY <1>2, <1>3 DEF Closed
  <2>2. k \in S \cup {d} /\ k \in Disks
    BY <1>4, <2>1 DEF DisksUnder
  <2>. QED  BY <1>2, <2>2
<1>5. ASSUME NEW k \in DisksUnder(s) PROVE k \in DisksUnder(d)
  <2>. SUFFICES ASSUME NEW S \in SUBSET BlockDevs, d \in S, Closed(S) PROVE k \in S
    BY <1>5 DEF DisksUnder
  <2>1. s \in S
    BY <1>3 DEF Closed
  <2>. QED  BY <1>5, <2>1 DEF DisksUnder
<1>. QED  BY <1>1, <1>4, <1>5

\* host.go:296-305: the disk a device is given is the one it stands on.
LEMMA UpIsUnder ==
  ASSUME slaves \in Machines
  PROVE  \A d \in BlockDevs : Up[d] # None => Up[d] \in Disks /\ DisksUnder(d) = {Up[d]}
<1>. DEFINE T == {d \in BlockDevs : Up[d] # None => DisksUnder(d) = {Up[d]}}
<1>1. ASSUME NEW d \in Disks PROVE d \in T
  <2>1. d \in BlockDevs /\ Up[d] = d
    BY UpOf DEF BlockDevs
  <2>2. {d} \in SUBSET BlockDevs /\ Closed({d})
    BY <2>1, HostAssumption DEF Closed, StandsOn
  <2>3. DisksUnder(d) = {d}
    BY <2>2 DEF DisksUnder
  <2>. QED  BY <2>1, <2>3
<1>2. ASSUME NEW p \in Parts PROVE p \in T
  <2>1. p \in BlockDevs /\ Up[p] = PartOf[p] /\ PartOf[p] \in Disks /\ p \notin Disks
    BY UpOf, HostAssumption DEF BlockDevs
  <2>2. StandsOn(p) = {PartOf[p]} /\ StandsOn(PartOf[p]) = {}
    BY <2>1, HostAssumption DEF StandsOn
  <2>3. {p, PartOf[p]} \in SUBSET BlockDevs /\ Closed({p, PartOf[p]})
    BY <2>1, <2>2 DEF Closed, BlockDevs
  <2>4. DisksUnder(p) = {PartOf[p]}
    BY <2>1, <2>2, <2>3 DEF DisksUnder, Closed
  <2>. QED  BY <2>1, <2>4
<1>3. ASSUME NEW d \in MappedDevs, slaves[d] \subseteq T PROVE d \in T
  <2>1. d \in BlockDevs
    BY DEF BlockDevs
  <2>2. CASE Cardinality(slaves[d]) = 1
    <3>1. OnlySlave(d) \in T /\ Up[d] = Up[OnlySlave(d)]
      BY <1>3, <2>2, OneSlave, UpOf
    <3>. QED  BY <2>1, <2>2, <3>1, SameDisks
  <2>3. CASE Cardinality(slaves[d]) # 1
    BY <2>1, <2>3, UpOf
  <2>. QED  BY <2>2, <2>3
<1>4. BlockDevs \subseteq T
  BY <1>1, <1>2, <1>3, DeviceInduction
<1>. QED  BY <1>4, UpIsDefined

\* host.go:296-305: a chain of devices leads to a disk.
LEMMA ChainsLeadUp ==
  ASSUME slaves \in Machines
  PROVE  \A d \in BlockDevs : IsChain(d) => Up[d] # None
<1>. DEFINE T == {d \in BlockDevs : IsChain(d) => Up[d] # None}
<1>1. Disks \cup Parts \subseteq T
  BY UpOf, HostAssumption DEF BlockDevs
<1>2. ASSUME NEW d \in MappedDevs, slaves[d] \subseteq T PROVE d \in T
  <2>. SUFFICES ASSUME NEW S \in SUBSET BlockDevs, d \in S, Closed(S),
                       \A e \in S \cap MappedDevs : Cardinality(slaves[e]) = 1
                PROVE  Up[d] # None
    BY DEF IsChain, BlockDevs
  <2>1. PICK s : s = OnlySlave(d)
    OBVIOUS
  <2>2. slaves[d] = {s} /\ Up[d] = Up[s]
    BY <2>1, OneSlave, UpOf
  <2>3. StandsOn(d) = {s}
    BY <2>2, HostAssumption DEF StandsOn
  <2>4. s \in S
    BY <2>3 DEF Closed
  <2>5. IsChain(s)
    BY <2>4 DEF IsChain
  <2>. QED  BY <1>2, <2>2, <2>5
<1>. QED  BY <1>1, <1>2, DeviceInduction

HostInv == slaves \in Machines /\ HostTypeOK /\ VolumesAreShown

\* host.go:290-320: whatever stands on what, a volume named as sysfs names it is shown
\* under the disk it stands on, and under none when it stands on several.
THEOREM VolumesFindTheirDisks == HostSpec => []VolumesAreShown
<1>1. HostInit => HostInv
  BY DEF HostInit, HostInv, HostTypeOK, VolumesAreShown, ShownUnderItsDisk
<1>2. HostInv /\ [HostNext]_hostVars => HostInv'
  <2>. SUFFICES ASSUME HostInv, [HostNext]_hostVars PROVE HostInv'
    OBVIOUS
  <2>1. slaves' = slaves /\ setup' = setup
    BY DEF HostNext, Visit, hostVars
  <2>2. /\ \A d : DisksUnder(d)' = DisksUnder(d) /\ IsChain(d)' = IsChain(d)
        /\ CanRead' = CanRead /\ Machines' = Machines
    BY <2>1 DEF DisksUnder, IsChain, Closed, StandsOn, CanRead
  <2>3. CASE UNCHANGED hostVars
    BY <2>1, <2>2, <2>3 DEF HostInv, HostTypeOK, VolumesAreShown, ShownUnderItsDisk, IsFollowed, hostVars
  <2>4. ASSUME NEW m \in Lines, Visit(m) PROVE HostInv'
    <3>1. m.dev \in BlockDevs /\ (m.node = "sysfs" => ParentDisk(m) = Up[m.dev])
      BY DEF Lines, ParentDisk
    <3>2. IsShown(m) => ParentDisk(m) \in Disks /\ DisksUnder(m.dev) = {ParentDisk(m)}
      BY <3>1, UpIsUnder DEF HostInv, IsShown, ParentDisk
    <3>3. visited' = visited \cup {m} /\ partitions \subseteq partitions'
      BY <2>4 DEF Visit
    <3>4. ASSUME NEW p \in partitions', p \notin partitions
          PROVE  /\ p = [disk |-> ParentDisk(m), dev |-> m.dev, bytes |-> Bytes(m)]
                 /\ IsShown(m)
      BY <2>4, <3>4 DEF Visit
    <3>5. HostTypeOK'
      <4>1. Bytes(m) \in BlockDevs \cup {"other"}
        BY <3>1 DEF Bytes
      <4>. QED  BY <2>1, <3>1, <3>2, <3>3, <3>4, <4>1 DEF HostInv, HostTypeOK
    <3>6. \A p \in partitions' : DisksUnder(p.dev) = {p.disk}
      BY <3>2, <3>4 DEF HostInv, VolumesAreShown, ShownUnderItsDisk
    <3>7. ASSUME NEW l \in visited', l.node = "sysfs" PROVE IsFollowed(l)'
      <4>1. CASE l \in visited
        BY <2>2, <3>3, <3>7, <4>1 DEF HostInv, VolumesAreShown, IsFollowed
      <4>2. CASE l = m
        <5>. SUFFICES ASSUME CanRead, IsPartition(m), m.stats, IsChain(m.dev)
                      PROVE  \E p \in partitions' : p.dev = m.dev
          BY <2>2, <4>2 DEF IsFollowed
        <5>1. IsShown(m)
          BY <3>1, <3>7, <4>2, ChainsLeadUp DEF HostInv, IsShown
        <5>2. PICK p : p = [disk |-> ParentDisk(m), dev |-> m.dev, bytes |-> Bytes(m)]
          OBVIOUS
        <5>3. p \in partitions' /\ p.dev = m.dev
          BY <2>4, <5>1, <5>2 DEF Visit
        <5>. QED  BY <5>3
      <4>. QED  BY <3>3, <3>7, <4>1, <4>2
    <3>. QED  BY <2>1, <2>2, <3>5, <3>6, <3>7 DEF HostInv, VolumesAreShown, ShownUnderItsDisk
  <2>. QED  BY <2>3, <2>4 DEF HostNext
<1>3. HostInv => VolumesAreShown
  BY DEF HostInv
<1>. QED  BY <1>1, <1>2, <1>3, PTL DEF HostSpec

------------------------------------------------------------------------------
(* Memory, temperatures and filesystems *)

\* disk.go:37-46: what is kept of a list is what is at the places that count.
LEMMA KeptPlaces ==
  ASSUME NEW S, NEW s \in Seq(S), NEW keep
  PROVE  /\ AtPlaces(s, keep) \in Seq(S)
         /\ \A k \in DOMAIN AtPlaces(s, keep) : \E i \in DOMAIN s : i \in keep /\ AtPlaces(s, keep)[k] = s[i]
         /\ \A i \in DOMAIN s : i \in keep => \E k \in DOMAIN AtPlaces(s, keep) : AtPlaces(s, keep)[k] = s[i]
<1>. DEFINE Step(f, i) ==
        IF i = 0 THEN <<>> ELSE IF i \in keep THEN Append(f[i - 1], s[i]) ELSE f[i - 1]
<1>1. PICK n \in Nat : n = Len(s) /\ DOMAIN s = 1..n
  OBVIOUS
<1>2. \A i \in 1..n : s[i] \in S
  BY <1>1
<1>3. \E f : f = [i \in 0..n |-> Step(f, i)]
  <2>. <<>> \in Seq(S)
    OBVIOUS
  <2>0. PICK Q, e : Q = Seq(S) /\ e = <<>> /\ e \in Q
    OBVIOUS
  <2>1. PICK g : g = [i \in 1..n |-> [q \in Q |-> IF i \in keep THEN Append(q, s[i]) ELSE q]]
    OBVIOUS
  <2>2. g \in [1..n -> [Q -> Q]]
    BY <1>2, <2>0, <2>1, AppendProperties
  <2>3. PICK f : Makes(f, n, Q, e, g)
    BY <2>0, <2>2, Stepwise
  <2>4. f \in [0..n -> Q] /\ f[0] = e /\ \A i \in 1..n : f[i] = g[i][f[i - 1]]
    BY <2>3 DEF Makes
  <2>5. ASSUME NEW i \in 0..n PROVE f[i] = Step(f, i)
    <3>1. CASE i = 0
      BY <2>0, <2>4, <3>1
    <3>2. CASE i # 0
      <4>1. i \in 1..n /\ i - 1 \in 0..n /\ f[i - 1] \in Q
        BY <2>4, <3>2
      <4>. QED  BY <2>1, <2>4, <3>2, <4>1
    <3>. QED  BY <3>1, <3>2
  <2>6. f = [i \in 0..n |-> Step(f, i)]
    BY <2>4, <2>5
  <2>. QED  BY <2>6
<1>4. PICK f : f = [i \in 0..n |-> Step(f, i)] /\ AtPlaces(s, keep) = f[n]
  BY <1>1, <1>3 DEF AtPlaces
<1>. DEFINE Q(i) == /\ f[i] \in Seq(S)
                    /\ \A k \in DOMAIN f[i] : \E j \in 1..i : j \in keep /\ f[i][k] = s[j]
                    /\ \A j \in 1..i : j \in keep => \E k \in DOMAIN f[i] : f[i][k] = s[j]
            T == {i \in 0..n : Q(i)}
<1>5. 0 \in T
  <2>1. PICK e : e = f[0] /\ e = <<>>
    BY <1>4
  <2>2. e \in Seq(S) /\ DOMAIN e = {} /\ 1..0 = {}
    BY <2>1
  <2>3. Q(0)
    BY <2>1, <2>2
  <2>. QED  BY <2>3
<1>6. ASSUME NEW m \in 0..n, m \in T, m # n PROVE m + 1 \in T
  <2>1. PICK l : l = m + 1
    OBVIOUS
  <2>2. l \in 1..n /\ l \in 0..n /\ l - 1 = m /\ l # 0 /\ 1..l = 1..m \cup {l}
    BY <1>6, <2>1
  <2>3. f[l] = IF l \in keep THEN Append(f[m], s[l]) ELSE f[m]
    BY <1>4, <2>2
  <2>4. Q(m)
    BY <1>6
  <2>5. CASE l \notin keep
    BY <2>1, <2>2, <2>3, <2>4, <2>5
  <2>6. CASE l \in keep
    <3>1. PICK e, x, k : e = f[m] /\ x = s[l] /\ k = Len(e)
      OBVIOUS
    <3>2. e \in Seq(S) /\ x \in S /\ k \in Nat /\ DOMAIN e = 1..k
      BY <1>2, <2>2, <2>4, <3>1
    <3>3. PICK d : d = f[l] /\ d = Append(e, x)
      BY <2>3, <2>6, <3>1
    <3>4. /\ d \in Seq(S) /\ DOMAIN d = 1..(k + 1)
          /\ d[k + 1] = x /\ \A a \in 1..k : d[a] = e[a]
      BY <3>2, <3>3, AppendProperties
    <3>5. \A a \in 1..(k + 1) : a \in 1..k \/ a = k + 1
      BY <3>2
    <3>6. ASSUME NEW a \in DOMAIN d PROVE \E j \in 1..l : j \in keep /\ d[a] = s[j]
      <4>1. CASE a = k + 1
        BY <2>2, <2>6, <3>1, <3>4, <4>1
      <4>2. CASE a \in 1..k
        <5>1. PICK j \in 1..m : j \in keep /\ e[a] = s[j]
          BY <2>4, <3>1, <3>2, <4>2
        <5>. QED  BY <2>2, <3>4, <4>2, <5>1
      <4>. QED  BY <3>4, <3>5, <4>1, <4>2
    <3>7. ASSUME NEW j \in 1..l, j \in keep PROVE \E a \in DOMAIN d : d[a] = s[j]
      <4>1. CASE j = l
        <5>1. k + 1 \in DOMAIN d
          BY <3>2, <3>4
        <5>. QED  BY <3>1, <3>4, <4>1, <5>1
      <4>2. CASE j \in 1..m
        <5>1. PICK a \in 1..k : e[a] = s[j]
          BY <2>4, <3>1, <3>2, <3>7, <4>2
        <5>2. a \in DOMAIN d
          BY <3>2, <3>4, <5>1
        <5>. QED  BY <3>4, <5>1, <5>2
      <4>. QED  BY <2>2, <4>1, <4>2
    <3>8. Q(l)
      <4>1. /\ d \in Seq(S)
            /\ \A a \in DOMAIN d : \E j \in 1..l : j \in keep /\ d[a] = s[j]
            /\ \A j \in 1..l : j \in keep => \E a \in DOMAIN d : d[a] = s[j]
        BY <3>4, <3>6, <3>7
      <4>2. d = f[l]
        BY <3>3
      <4>. QED  BY ONLY <4>1, <4>2
    <3>. QED  BY <2>1, <2>2, <3>8
  <2>. QED  BY <2>5, <2>6
<1>7. n \in T
  <2>. HIDE DEF T
  <2>1. 0..n \subseteq T
    BY <1>5, <1>6, Climb
  <2>. QED  BY <2>1
<1>8. PICK e : e = AtPlaces(s, keep) /\ e = f[n]
  BY <1>4
<1>9. /\ e \in Seq(S)
      /\ \A k \in DOMAIN e : \E j \in 1..n : j \in keep /\ e[k] = s[j]
      /\ \A j \in 1..n : j \in keep => \E k \in DOMAIN e : e[k] = s[j]
  BY <1>7, <1>8
<1>10. /\ \A k \in DOMAIN e : \E i \in DOMAIN s : i \in keep /\ e[k] = s[i]
       /\ \A i \in DOMAIN s : i \in keep => \E k \in DOMAIN e : e[k] = s[i]
  BY <1>1, <1>9
<1>. QED  BY ONLY <1>8, <1>9, <1>10

\* memory.go:32-48: the difference of figures in order never wraps.
LEMMA NoWrap ==
  ASSUME NEW a \in 0..MaxKB, NEW b \in 0..a
  PROVE  MinusKB(a, b) = a - b
<1>1. a - b \in Nat /\ a - b < MemModulus /\ MemModulus \in Nat
  BY ReadingsAssumption
<1>. QED  BY <1>1, SmallModulo DEF MinusKB

\* memory.go:26-61: what is made of any /proc/meminfo adds up.
LEMMA RamAddsUp ==
  ASSUME NEW i \in Infos
  PROVE  /\ Ram(i).used + Ram(i).available = Ram(i).total /\ Ram(i).used <= Ram(i).total
         /\ Ram(i).cache <= i.Cached + i.SReclaimable
         /\ i.SwapFree <= i.SwapTotal => Ram(i).swapUsed + i.SwapFree = Ram(i).swapTotal
<1>1. /\ i.MemTotal \in 0..MaxKB /\ i.MemFree \in 0..MaxKB /\ i.Buffers \in 0..MaxKB /\ i.Cached \in 0..MaxKB
      /\ i.SReclaimable \in 0..MaxKB /\ i.Shmem \in 0..MaxKB /\ i.MemAvailable \in 0..MaxKB
      /\ i.SwapTotal \in 0..MaxKB /\ i.SwapFree \in 0..MaxKB
  BY DEF Infos, Fields
<1>2. MaxKB \in Nat
  BY ReadingsAssumption
<1>3. Cache(i) \in Nat /\ Cache(i) <= i.Cached + i.SReclaimable
  BY <1>1, <1>2 DEF Cache
<1>4. Available(i) \in 0..i.MemTotal
  BY <1>1, <1>2, <1>3 DEF Available
<1>5. MinusKB(i.MemTotal, Available(i)) = i.MemTotal - Available(i)
  BY <1>1, <1>4, NoWrap
<1>6. i.SwapFree <= i.SwapTotal => MinusKB(i.SwapTotal, i.SwapFree) = i.SwapTotal - i.SwapFree
  <2>1. i.SwapFree <= i.SwapTotal => i.SwapFree \in 0..i.SwapTotal
    BY <1>1, <1>2
  <2>. QED  BY <1>1, <2>1, NoWrap
<1>. QED  BY <1>1, <1>2, <1>3, <1>4, <1>5, <1>6 DEF Ram

\* thermal.go:31-60: three passes over the zones find the first of the best label.
LEMMA PrimaryIsBest ==
  ASSUME NEW zs \in Seq(Labels), NEW i \in DOMAIN zs
  PROVE  i = PrimaryZone(zs) <=>
           \A z \in DOMAIN zs : Rank[zs[z]] > Rank[zs[i]] \/ (Rank[zs[z]] = Rank[zs[i]] /\ z >= i)
<1>1. DOMAIN zs \in SUBSET Nat /\ zs # <<>> /\ \A z \in DOMAIN zs : zs[z] \in Labels
  OBVIOUS
<1>2. Rank["pkg"] = 1 /\ Rank["core"] = 2 /\ Rank["acpitz"] = 3 /\ Rank["other"] = 4
  BY DEF Rank, Labels
<1>3. \A l \in Labels : l \in {"pkg", "core", "acpitz", "other"}
  BY DEF Labels
<1>. DEFINE labelled(label) == {z \in DOMAIN zs : zs[z] = label}
            best == CASE labelled("pkg") # {} -> labelled("pkg")
                      [] labelled("pkg") = {} /\ labelled("core") # {} -> labelled("core")
                      [] labelled("pkg") = {} /\ labelled("core") = {} /\ labelled("acpitz") # {} -> labelled("acpitz")
                      [] OTHER -> DOMAIN zs
<1>4. PICK B : B = best
  OBVIOUS
<1>5. PrimaryZone(zs) = Min(B)
  BY <1>1, <1>4 DEF PrimaryZone
<1>6. /\ B \subseteq DOMAIN zs /\ B # {}
      /\ \A b \in B, z \in DOMAIN zs :
           IF z \in B THEN Rank[zs[z]] = Rank[zs[b]] ELSE Rank[zs[z]] > Rank[zs[b]]
  <2>1. CASE labelled("pkg") # {}
    <3>1. B = labelled("pkg")
      BY <1>4, <2>1
    <3>. QED  BY <1>1, <1>2, <1>3, <2>1, <3>1
  <2>2. CASE labelled("pkg") = {} /\ labelled("core") # {}
    <3>1. B = labelled("core")
      BY <1>4, <2>2
    <3>. QED  BY <1>1, <1>2, <1>3, <2>2, <3>1
  <2>3. CASE labelled("pkg") = {} /\ labelled("core") = {} /\ labelled("acpitz") # {}
    <3>1. B = labelled("acpitz")
      BY <1>4, <2>3
    <3>. QED  BY <1>1, <1>2, <1>3, <2>3, <3>1
  <2>4. CASE labelled("pkg") = {} /\ labelled("core") = {} /\ labelled("acpitz") = {}
    <3>1. B = DOMAIN zs
      BY <1>4, <2>4
    <3>2. \A z \in DOMAIN zs : zs[z] = "other"
      BY <1>1, <1>3, <2>4
    <3>. QED  BY <1>1, <3>1, <3>2
  <2>. QED  BY <2>1, <2>2, <2>3, <2>4
<1>7. PICK m : m = Min(B) /\ m \in B /\ \A k \in B : m <= k
  <2>1. B \in SUBSET Nat /\ B # {}
    BY <1>1, <1>6
  <2>2. \E m \in B : \A k \in B : m <= k
    BY <2>1, Least
  <2>. QED  BY <2>2 DEF Min
<1>8. \A z \in DOMAIN zs : Rank[zs[z]] \in Nat
  BY <1>1, <1>2, <1>3
<1>. HIDE DEF best, labelled
<1>9. CASE i \in B
  <2>1. i \in Nat /\ m \in Nat /\ m <= i /\ B \in SUBSET Nat
    BY <1>1, <1>6, <1>7, <1>9
  <2>2. ASSUME i = m, NEW z \in DOMAIN zs
        PROVE  Rank[zs[z]] > Rank[zs[i]] \/ (Rank[zs[z]] = Rank[zs[i]] /\ z >= i)
    BY <1>1, <1>6, <1>7, <1>9, <2>1, <2>2
  <2>3. ASSUME \A z \in DOMAIN zs : Rank[zs[z]] > Rank[zs[i]] \/ (Rank[zs[z]] = Rank[zs[i]] /\ z >= i)
        PROVE  i = m
    <3>1. m \in DOMAIN zs /\ Rank[zs[m]] = Rank[zs[i]]
      BY <1>6, <1>7, <1>9
    <3>2. m >= i
      BY <1>8, <2>3, <3>1
    <3>. QED  BY <2>1, <3>2
  <2>. QED  BY <1>5, <1>7, <2>2, <2>3
<1>10. CASE i \notin B
  <2>1. m \in DOMAIN zs /\ Rank[zs[i]] > Rank[zs[m]]
    BY <1>6, <1>7, <1>10
  <2>2. ~(Rank[zs[m]] > Rank[zs[i]] \/ Rank[zs[m]] = Rank[zs[i]])
    BY <1>8, <2>1
  <2>. QED  BY <1>5, <1>7, <1>10, <2>1, <2>2
<1>. QED  BY <1>9, <1>10

\* disk.go:22-49, 74-83: unless told otherwise, the collector follows the root and
\* every filesystem on a device that was mounted when it was made.
LEMMA FollowedIsComplete ==
  ASSUME NEW S, S = Entries \cup {RootEntry}, atStart \in Seq(Entries), configured = <<>>
  PROVE  /\ Followed \in Seq(S)
         /\ \E k \in DOMAIN Followed : Followed[k].at = "/"
         /\ \A i \in DOMAIN atStart : IsReal(atStart[i]) => \E k \in DOMAIN Followed : Followed[k] = atStart[i]
<1>0. RootEntry.at = "/"
  BY DEF RootEntry, Entry
<1>1. CASE atStart = Unread
  <2>1. Followed = <<RootEntry>>
    BY <1>1 DEF Followed
  <2>2. DOMAIN <<RootEntry>> = {1} /\ <<RootEntry>>[1] = RootEntry /\ <<RootEntry>> \in Seq(S)
    OBVIOUS
  <2>3. DOMAIN atStart = {}
    BY <1>1 DEF Unread
  <2>. QED  BY <1>0, <2>1, <2>2, <2>3
<1>2. CASE atStart # Unread
  <2>1. PICK found : found = AtPlaces(atStart, RealOnes(atStart))
    OBVIOUS
  <2>2. /\ found \in Seq(Entries)
        /\ \A i \in DOMAIN atStart : i \in RealOnes(atStart) => \E k \in DOMAIN found : found[k] = atStart[i]
    BY <2>1, KeptPlaces
  <2>3. \A i \in DOMAIN atStart : IsReal(atStart[i]) => i \in RealOnes(atStart)
    BY DEF RealOnes
  <2>4. Followed = IF \E i \in RealOnes(atStart) : atStart[i].at = "/" THEN found ELSE <<RootEntry>> \o found
    BY <1>2, <2>1 DEF Followed, Discovered, Unread
  <2>5. CASE \E i \in RealOnes(atStart) : atStart[i].at = "/"
    <3>1. PICK i \in DOMAIN atStart : i \in RealOnes(atStart) /\ atStart[i].at = "/"
      BY <2>5 DEF RealOnes
    <3>2. PICK k \in DOMAIN found : found[k] = atStart[i]
      BY <2>2, <3>1
    <3>3. found \in Seq(S)
      BY <2>2
    <3>. QED  BY <2>2, <2>3, <2>4, <2>5, <3>1, <3>2, <3>3
  <2>6. CASE ~\E i \in RealOnes(atStart) : atStart[i].at = "/"
    <3>1. PICK one, all, n : one = <<RootEntry>> /\ all = one \o found /\ n = Len(found)
      OBVIOUS
    <3>2. one \in Seq(S) /\ Len(one) = 1 /\ one[1] = RootEntry /\ found \in Seq(S) /\ n \in Nat /\ DOMAIN found = 1..n
      BY <2>2, <3>1
    <3>3. /\ all \in Seq(S) /\ Len(all) = 1 + n /\ DOMAIN all = 1..(1 + n)
          /\ all[1] = RootEntry /\ \A k \in 1..n : all[k + 1] = found[k]
      BY <3>1, <3>2, ConcatProperties
    <3>4. Followed = all
      BY <2>4, <2>6, <3>1
    <3>5. 1 \in DOMAIN all
      BY <3>2, <3>3
    <3>6. ASSUME NEW i \in DOMAIN atStart, IsReal(atStart[i])
          PROVE  \E k \in DOMAIN all : all[k] = atStart[i]
      <4>1. PICK k \in 1..n : found[k] = atStart[i]
        BY <2>2, <2>3, <3>2, <3>6
      <4>2. k + 1 \in DOMAIN all
        BY <3>2, <3>3
      <4>. QED  BY <3>3, <4>1, <4>2
    <3>. QED  BY <1>0, <3>3, <3>4, <3>5, <3>6
  <2>. QED  BY <2>5, <2>6
<1>. QED  BY <1>1, <1>2

\* disk.go:51-72, 85-93: every mount followed that can be asked has its row.
LEMMA RowsAreComplete ==
  ASSUME atStart \in Seq(Entries), configured = <<>>, NEW ok, "/" \in ok
  PROVE  LET shown == ToSet(MountRows(ok))
         IN  /\ \E r \in shown : r.mount = "/"
             /\ \A e \in ToSet(atStart) : IsReal(e) /\ e.at \in ok =>
                   \E r \in shown : r.mount = e.at /\ r.dev = e.fs.dev /\ r.bytes = Top(e.at)
<1>1. PICK S : S = Entries \cup {RootEntry}
  OBVIOUS
<1>2. PICK all : all = Followed
  OBVIOUS
<1>3. /\ all \in Seq(S)
      /\ \E k \in DOMAIN all : all[k].at = "/"
      /\ \A i \in DOMAIN atStart : IsReal(atStart[i]) => \E k \in DOMAIN all : all[k] = atStart[i]
  BY <1>1, <1>2, FollowedIsComplete
<1>4. PICK keep : keep = {i \in DOMAIN all : all[i].at \in ok}
  OBVIOUS
<1>5. PICK there : there = AtPlaces(all, keep)
  OBVIOUS
<1>6. \A i \in DOMAIN all : all[i].at \in ok => \E k \in DOMAIN there : there[k] = all[i]
  <2>1. \A i \in DOMAIN all : i \in keep => \E k \in DOMAIN there : there[k] = all[i]
    BY ONLY <1>3, <1>5, KeptPlaces
  <2>. QED  BY <1>4, <2>1
<1>7. MountRows(ok) = [i \in DOMAIN there |-> [mount |-> there[i].at, dev |-> there[i].fs.dev, bytes |-> Top(there[i].at)]]
  BY <1>2, <1>4, <1>5 DEF MountRows
<1>8. ASSUME NEW k \in DOMAIN there
      PROVE  [mount |-> there[k].at, dev |-> there[k].fs.dev, bytes |-> Top(there[k].at)] \in ToSet(MountRows(ok))
  BY <1>7 DEF ToSet
<1>9. \E r \in ToSet(MountRows(ok)) : r.mount = "/"
  <2>1. PICK i \in DOMAIN all : all[i].at = "/"
    BY <1>3
  <2>2. PICK k \in DOMAIN there : there[k] = all[i]
    BY <1>6, <2>1
  <2>. QED  BY <1>8, <2>1, <2>2
<1>10. ASSUME NEW e \in ToSet(atStart), IsReal(e), e.at \in ok
       PROVE  \E r \in ToSet(MountRows(ok)) : r.mount = e.at /\ r.dev = e.fs.dev /\ r.bytes = Top(e.at)
  <2>1. PICK i \in DOMAIN atStart : e = atStart[i]
    BY DEF ToSet
  <2>2. PICK j \in DOMAIN all : all[j] = e
    BY <1>3, <1>10, <2>1
  <2>3. PICK k \in DOMAIN there : there[k] = e
    BY <1>6, <1>10, <2>2
  <2>4. PICK r : r = [mount |-> e.at, dev |-> e.fs.dev, bytes |-> Top(e.at)]
    OBVIOUS
  <2>5. r \in ToSet(MountRows(ok))
    BY <1>8, <2>3, <2>4
  <2>. QED  BY <2>4, <2>5
<1>. QED  BY <1>9, <1>10

\* What can be made a table of mounts is a list of entries.
LEMMA TablesAreLists ==
  /\ \A t \in Tables : t \in Seq(Entries) /\ Len(t) <= MaxMounts
  /\ \A z \in Zones : z \in Seq(Labels) /\ Len(z) <= MaxZones
BY ReadingsAssumption DEF Tables, Zones, BoundedSeq, SeqOf

\* Mounting and unmounting keep it one.
LEMMA MountsStayLists ==
  ASSUME mounts \in Seq(Entries), Len(mounts) <= MaxMounts,
         (\E e \in Entries : Mount(e)) \/ (\E i \in DOMAIN mounts : Unmount(i))
  PROVE  mounts' \in Seq(Entries) /\ Len(mounts') <= MaxMounts
<1>0. MaxMounts \in Nat /\ Len(mounts) \in Nat /\ DOMAIN mounts = 1..Len(mounts)
  BY ReadingsAssumption
<1>1. CASE \E e \in Entries : Mount(e)
  BY <1>0, <1>1, AppendProperties DEF Mount
<1>2. ASSUME NEW i \in DOMAIN mounts, Unmount(i) PROVE mounts' \in Seq(Entries) /\ Len(mounts') <= MaxMounts
  <2>1. PICK a, b, n : a = SubSeq(mounts, 1, i - 1) /\ b = SubSeq(mounts, i + 1, n) /\ n = Len(mounts)
    OBVIOUS
  <2>2. a \in Seq(Entries) /\ Len(a) = i - 1
    BY <1>0, <2>1, SubSeqProperties
  <2>3. b \in Seq(Entries) /\ Len(b) = n - i
    BY <1>0, <2>1, SubSeqProperties
  <2>4. mounts' = a \o b
    BY <1>2, <2>1 DEF Unmount, RemoveAt
  <2>5. PICK c : c = a \o b /\ c \in Seq(Entries) /\ Len(c) = Len(a) + Len(b)
    BY <2>2, <2>3, ConcatProperties
  <2>6. Len(c) = n - 1 /\ n \in Nat
    <3>1. n \in Nat /\ i \in 1..n
      BY <1>0, <2>1
    <3>. QED  BY ONLY <2>2, <2>3, <2>5, <3>1
  <2>. QED  BY <1>0, <2>1, <2>4, <2>5, <2>6
<1>. QED  BY <1>1, <1>2

\* What is not read again stays as it was.
LEMMA ReportStays ==
  /\ MemoryAddsUp /\ UNCHANGED memoryVars => MemoryAddsUp'
  /\ OnePrimary /\ UNCHANGED zoneVars => OnePrimary'
  /\ MountsAreReported /\ UNCHANGED mountVars => MountsAreReported'
<1>1. MemoryAddsUp /\ UNCHANGED memoryVars => MemoryAddsUp'
  BY DEF MemoryAddsUp, memoryVars
<1>2. OnePrimary /\ UNCHANGED zoneVars => OnePrimary'
  BY DEF OnePrimary, zoneVars
<1>3. MountsAreReported /\ UNCHANGED mountVars => MountsAreReported'
  <2>. SUFFICES ASSUME MountsAreReported, UNCHANGED mountVars PROVE MountsAreReported'
    OBVIOUS
  <2>1. \A p : Top(p)' = Top(p)
    BY DEF Top, mountVars
  <2>2. atStart' = atStart /\ configured' = configured /\ disks' = disks /\ answered' = answered
    BY DEF mountVars
  <2>. QED  BY <2>1, <2>2 DEF MountsAreReported
<1>. QED  BY <1>1, <1>2, <1>3

\* memory.go, thermal.go, disk.go: whatever the host offers at whatever time, used and
\* available RAM make up the total, one zone is the CPU's, and no filesystem followed is
\* missing.
THEOREM ReportsAreReal == ReadSpec => []ReadingsAreReal
<1>1. ReadInit => ReadingsAreReal
  <2>. SUFFICES ASSUME ReadInit PROVE ReadingsAreReal
    OBVIOUS
  <2>1. atStart \in Seq(Entries) /\ configured \in Seq(Paths)
    <3>1. <<>> \in Seq(Entries) /\ <<>> \in Seq(Paths) /\ \A p \in Paths : <<p>> \in Seq(Paths)
      OBVIOUS
    <3>2. mounts \in Seq(Entries)
      BY TablesAreLists DEF ReadInit
    <3>3. atStart = mounts \/ atStart = <<>>
      BY DEF ReadInit, Unread
    <3>4. configured = <<>> \/ \E p \in Paths : configured = <<p>>
      BY DEF ReadInit
    <3>. QED  BY <3>1, <3>2, <3>3, <3>4
  <2>2. ReadingsTypeOK
    BY <2>1, TablesAreLists DEF ReadInit, ReadingsTypeOK
  <2>. QED  BY <2>2 DEF ReadInit, ReadingsAreReal, MemoryAddsUp, OnePrimary, MountsAreReported
<1>2. ReadingsAreReal /\ [ReadNext]_readingVars => ReadingsAreReal'
  <2>. SUFFICES ASSUME ReadingsAreReal, [ReadNext]_readingVars PROVE ReadingsAreReal'
    OBVIOUS
  <2>0. ReadingsTypeOK /\ MemoryAddsUp /\ OnePrimary /\ MountsAreReported
    BY DEF ReadingsAreReal
  <2>1. CASE ReadMemory
    <3>1. MemoryAddsUp'
      <4>1. info \in Infos /\ info' = info /\ ram' \in {Ram(info), Unread}
        BY <2>0, <2>1 DEF ReadingsTypeOK, ReadMemory
      <4>. QED  BY <4>1, RamAddsUp DEF MemoryAddsUp
    <3>2. UNCHANGED <<info, zoneVars, mountVars>>
      BY <2>1 DEF ReadMemory
    <3>. QED  BY <2>0, <3>1, <3>2, ReportStays DEF ReadingsAreReal, ReadingsTypeOK, zoneVars, mountVars
  <2>2. CASE ReadTemps
    <3>0. UNCHANGED <<zones, memoryVars, mountVars>> /\ zones \in Seq(Labels) /\ Len(zones) <= MaxZones
      BY <2>0, <2>2 DEF ReadTemps, ReadingsTypeOK
    <3>1. PICK ok \in SUBSET DOMAIN zones : temps' = {[zone |-> i, isPrimaryCPU |-> i = PrimaryZone(zones)] : i \in ok}
      BY <2>2 DEF ReadTemps
    <3>2. \A t \in temps' : t.zone \in DOMAIN zones /\ t.isPrimaryCPU = (t.zone = PrimaryZone(zones))
      BY <3>1
    <3>3. OnePrimary'
      <4>. SUFFICES ASSUME NEW t \in temps'
                    PROVE  t.isPrimaryCPU <=>
                              \A z \in DOMAIN zones : \/ Rank[zones[z]] > Rank[zones[t.zone]]
                                                      \/ Rank[zones[z]] = Rank[zones[t.zone]] /\ z >= t.zone
        BY <3>0 DEF OnePrimary
      <4>1. t.zone \in DOMAIN zones /\ t.isPrimaryCPU = (t.zone = PrimaryZone(zones))
        BY <3>2
      <4>2. PICK i \in DOMAIN zones : i = t.zone
        BY <4>1
      <4>3. i = PrimaryZone(zones) <=>
              \A z \in DOMAIN zones : Rank[zones[z]] > Rank[zones[i]] \/ (Rank[zones[z]] = Rank[zones[i]] /\ z >= i)
        BY <3>0, PrimaryIsBest
      <4>. QED  BY <4>1, <4>2, <4>3
    <3>4. temps' \subseteq [zone : 1..MaxZones, isPrimaryCPU : BOOLEAN]
      <4>1. DOMAIN zones \subseteq 1..MaxZones
        BY <3>0, ReadingsAssumption
      <4>2. ASSUME NEW i \in ok
            PROVE  [zone |-> i, isPrimaryCPU |-> i = PrimaryZone(zones)] \in [zone : 1..MaxZones, isPrimaryCPU : BOOLEAN]
        <5>1. i \in 1..MaxZones /\ (i = PrimaryZone(zones)) \in BOOLEAN
          BY <4>1
        <5>. QED  BY <5>1
      <4>. QED  BY <3>1, <4>2
    <3>. QED  BY <2>0, <3>0, <3>3, <3>4, ReportStays DEF ReadingsAreReal, ReadingsTypeOK, memoryVars, mountVars
  <2>3. CASE ReadDisks
    <3>1. PICK ok \in SUBSET Paths : disks' = MountRows(ok \cup {"/"}) /\ answered' = ok \cup {"/"}
      BY <2>3 DEF ReadDisks
    <3>2. UNCHANGED <<atStart, mounts, configured, memoryVars, zoneVars>>
      BY <2>3 DEF ReadDisks
    <3>3. \A p : Top(p)' = Top(p)
      BY <3>2 DEF Top
    <3>4. MountsAreReported'
      <4>. SUFFICES ASSUME configured = <<>> PROVE MountsAreReported'
        BY <3>2 DEF MountsAreReported
      <4>1. atStart \in Seq(Entries)
        BY <2>0 DEF ReadingsTypeOK
      <4>. QED  BY <3>1, <3>2, <3>3, <4>1, RowsAreComplete DEF MountsAreReported
    <3>. QED  BY <2>0, <3>1, <3>2, <3>4 DEF ReadingsAreReal, ReadingsTypeOK, MemoryAddsUp, OnePrimary, memoryVars, zoneVars
  <2>4. CASE MountsChange
    <3>1. disks' = Unread /\ answered' = {} /\ UNCHANGED <<atStart, configured, memoryVars, zoneVars>>
      BY <2>4 DEF MountsChange
    <3>2. mounts' \in Seq(Entries) /\ Len(mounts') <= MaxMounts
      BY <2>0, <2>4, MountsStayLists DEF MountsChange, ReadingsTypeOK
    <3>. QED  BY <2>0, <3>1, <3>2 DEF ReadingsAreReal, ReadingsTypeOK, MemoryAddsUp, OnePrimary, MountsAreReported, memoryVars, zoneVars
  <2>5. CASE UNCHANGED readingVars
    <3>1. UNCHANGED <<memoryVars, zoneVars, mountVars>>
      BY <2>5 DEF readingVars
    <3>. QED  BY <2>0, <3>1, ReportStays DEF ReadingsAreReal, ReadingsTypeOK, memoryVars, zoneVars, mountVars
  <2>. QED  BY <2>1, <2>2, <2>3, <2>4, <2>5 DEF ReadNext, MountNext
<1>. QED  BY <1>1, <1>2, PTL DEF ReadSpec

------------------------------------------------------------------------------
(* CPU usage *)

Counts == [Classes -> Nat]
CoreCounts == [Cores -> Counts]
\* The sum of one class over the cores.
Adds(f, lines, k) == f = [c \in 0..NCores |-> IF c = 0 THEN 0 ELSE f[c - 1] + lines[c][k]]

\* The kernel adds the cores up one after the other.
LEMMA AddsUp ==
  ASSUME NEW lines \in [Cores -> Counts], NEW k \in Classes
  PROVE  \E f \in [0..NCores -> Nat] : Adds(f, lines, k) /\ Aggregate(lines)[k] = f[NCores]
<1>1. NCores \in Nat /\ Cores = 1..NCores
  BY CPUAssumption DEF Cores
<1>2. PICK g : g = [i \in 1..NCores |-> [q \in Nat |-> q + lines[i][k]]]
  OBVIOUS
<1>3. g \in [1..NCores -> [Nat -> Nat]]
  BY <1>1, <1>2 DEF Counts
<1>4. PICK f : Makes(f, NCores, Nat, 0, g)
  BY <1>1, <1>3, Stepwise
<1>5. f \in [0..NCores -> Nat] /\ f[0] = 0 /\ \A i \in 1..NCores : f[i] = g[i][f[i - 1]]
  BY <1>4 DEF Makes
<1>6. \A i \in 0..NCores : f[i] = IF i = 0 THEN 0 ELSE f[i - 1] + lines[i][k]
  <2>. TAKE i \in 0..NCores
  <2>1. CASE i = 0
    BY <1>5, <2>1
  <2>2. CASE i # 0
    <3>1. i \in 1..NCores /\ i - 1 \in 0..NCores /\ f[i - 1] \in Nat
      BY <1>1, <1>5, <2>2
    <3>. QED  BY <1>2, <1>5, <2>2, <3>1
  <2>. QED  BY <2>1, <2>2
<1>7. f = [c \in 0..NCores |-> IF c = 0 THEN 0 ELSE f[c - 1] + lines[c][k]]
  BY <1>5, <1>6
<1>8. PICK h : h = CHOOSE u : u = [c \in 0..NCores |-> IF c = 0 THEN 0 ELSE u[c - 1] + lines[c][k]]
  OBVIOUS
<1>9. h = [c \in 0..NCores |-> IF c = 0 THEN 0 ELSE h[c - 1] + lines[c][k]]
  BY <1>7, <1>8
<1>10. Aggregate(lines)[k] = h[NCores]
  BY <1>8 DEF Aggregate
<1>11. h \in [0..NCores -> Nat]
  <2>. DEFINE T == {i \in 0..NCores : h[i] \in Nat}
  <2>1. 0 \in T
    BY <1>1, <1>9
  <2>2. ASSUME NEW m \in 0..NCores, m \in T, m # NCores PROVE m + 1 \in T
    <3>1. PICK l : l = m + 1
      OBVIOUS
    <3>2. l \in 0..NCores /\ l # 0 /\ l - 1 = m /\ l \in 1..NCores
      BY <1>1, <2>2, <3>1
    <3>3. h[l] = h[m] + lines[l][k] /\ lines[l][k] \in Nat
      BY <1>1, <1>9, <3>2 DEF Counts
    <3>. QED  BY <2>2, <3>1, <3>2, <3>3
  <2>3. 0..NCores \subseteq T
    <3>. HIDE DEF T
    <3>. QED  BY <1>1, <2>1, <2>2, Climb
  <2>4. \A i \in 0..NCores : h[i] \in Nat
    BY <2>3
  <2>5. h = [c \in 0..NCores |-> h[c]]
    BY <1>9
  <2>. QED  BY <2>4, <2>5
<1>. QED  BY <1>9, <1>10, <1>11 DEF Adds

\* Sums are numbers, and of nothing nothing.
LEMMA SumIsCounts ==
  ASSUME NEW lines \in [Cores -> Counts]
  PROVE  Aggregate(lines) \in Counts
<1>1. \A k \in Classes : Aggregate(lines)[k] \in Nat
  BY AddsUp, CPUAssumption
<1>2. Aggregate(lines) = [k \in Classes |-> Aggregate(lines)[k]]
  BY DEF Aggregate
<1>. QED  BY <1>1, <1>2 DEF Counts

\* The sum of nothing is nothing.
LEMMA SumOfZeros ==
  ASSUME NEW k \in Classes
  PROVE  Aggregate([c \in Cores |-> Zero])[k] = 0
<1>1. NCores \in Nat /\ Cores = 1..NCores
  BY CPUAssumption DEF Cores
<1>2. PICK lines : lines = [c \in Cores |-> Zero]
  OBVIOUS
<1>3. lines \in [Cores -> Counts] /\ \A c \in Cores : lines[c][k] = 0
  BY <1>2 DEF Counts, Zero
<1>4. PICK f \in [0..NCores -> Nat] : Adds(f, lines, k) /\ Aggregate(lines)[k] = f[NCores]
  BY <1>3, AddsUp
<1>. DEFINE T == {i \in 0..NCores : f[i] = 0}
<1>5. 0 \in T
  BY <1>1, <1>4 DEF Adds
<1>6. ASSUME NEW m \in 0..NCores, m \in T, m # NCores PROVE m + 1 \in T
  <2>1. PICK l : l = m + 1
    OBVIOUS
  <2>2. l \in 0..NCores /\ l # 0 /\ l - 1 = m /\ l \in 1..NCores
    BY <1>1, <1>6, <2>1
  <2>3. f[l] = f[m] + lines[l][k] /\ lines[l][k] = 0
    BY <1>1, <1>3, <1>4, <2>2 DEF Adds
  <2>. QED  BY <1>6, <2>1, <2>2, <2>3
<1>7. 0..NCores \subseteq T
  <2>. HIDE DEF T
  <2>. QED  BY <1>1, <1>5, <1>6, Climb
<1>8. f[NCores] = 0
  BY <1>1, <1>7
<1>. QED  BY <1>2, <1>4, <1>8

\* One core counts more in one class, and so does the sum; in the others it stays.
LEMMA SumMoves ==
  ASSUME NEW a \in [Cores -> Counts], NEW b \in [Cores -> Counts], NEW c \in Cores, NEW k \in Classes, NEW d \in 0..1,
         b[c][k] = a[c][k] + d, \A e \in Cores : e # c => b[e][k] = a[e][k]
  PROVE  Aggregate(b)[k] = Aggregate(a)[k] + d
<1>1. NCores \in Nat /\ Cores = 1..NCores
  BY CPUAssumption DEF Cores
<1>2. PICK f \in [0..NCores -> Nat] : Adds(f, a, k) /\ Aggregate(a)[k] = f[NCores]
  BY AddsUp
<1>3. PICK g \in [0..NCores -> Nat] : Adds(g, b, k) /\ Aggregate(b)[k] = g[NCores]
  BY AddsUp
<1>. DEFINE T == {i \in 0..NCores : g[i] = f[i] + IF i < c THEN 0 ELSE d}
<1>4. 0 \in T
  BY <1>1, <1>2, <1>3 DEF Adds
<1>5. ASSUME NEW m \in 0..NCores, m \in T, m # NCores PROVE m + 1 \in T
  <2>1. PICK l : l = m + 1
    OBVIOUS
  <2>2. l \in 0..NCores /\ l # 0 /\ l - 1 = m /\ l \in Cores /\ m \in Nat /\ c \in Nat
    BY <1>1, <1>5, <2>1
  <2>3. f[l] = f[m] + a[l][k] /\ g[l] = g[m] + b[l][k]
    BY <1>2, <1>3, <2>2 DEF Adds
  <2>4. f[m] \in Nat /\ g[m] \in Nat /\ a[l][k] \in Nat /\ b[l][k] \in Nat
    BY <1>2, <1>3, <2>2 DEF Counts
  <2>5. CASE l = c
    <3>1. m < c /\ ~(l < c)
      BY <2>1, <2>2, <2>5
    <3>2. g[m] = f[m]
      BY <1>5, <2>4, <3>1
    <3>3. g[l] = f[l] + d
      BY <2>3, <2>4, <2>5, <3>2
    <3>. QED  BY <2>1, <2>2, <3>1, <3>3
  <2>6. CASE l # c
    <3>1. (l < c) <=> (m < c)
      BY <2>1, <2>2, <2>6
    <3>2. b[l][k] = a[l][k]
      BY <2>2, <2>6
    <3>3. g[l] = f[l] + IF l < c THEN 0 ELSE d
      BY <1>5, <2>3, <2>4, <3>1, <3>2
    <3>. QED  BY <2>1, <2>2, <3>3
  <2>. QED  BY <2>5, <2>6
<1>6. 0..NCores \subseteq T
  <2>. HIDE DEF T
  <2>. QED  BY <1>1, <1>4, <1>5, Climb
<1>7. NCores \in T /\ ~(NCores < c)
  BY <1>1, <1>6
<1>8. g[NCores] = f[NCores] + d
  BY <1>7
<1>. QED  BY <1>2, <1>3, <1>8

Lined(f, lines, cs) ==
    f = [c \in 0..NCores |-> IF c = 0 THEN <<>> ELSE IF c \in cs THEN Append(f[c - 1], lines[c]) ELSE f[c - 1]]

\* cpu.go:34-37: one line per core online, and when there are as many as cores, each
\* core has its own place.
LEMMA LinesOfCores ==
  ASSUME NEW lines \in [Cores -> Counts], NEW cs \in SUBSET Cores
  PROVE  LET s == CoreLines(lines, cs)
         IN  /\ s \in Seq(Counts) /\ Len(s) <= NCores
             /\ Len(s) = NCores <=> cs = Cores
             /\ Len(s) = NCores => \A c \in Cores : s[c] = lines[c]
<1>1. NCores \in Nat /\ Cores = 1..NCores
  BY CPUAssumption DEF Cores
<1>2. PICK Q, e : Q = Seq(Counts) /\ e = <<>> /\ e \in Q
  <2>. <<>> \in Seq(Counts)
    OBVIOUS
  <2>. QED  OBVIOUS
<1>3. PICK g : g = [i \in 1..NCores |-> [q \in Q |-> IF i \in cs THEN Append(q, lines[i]) ELSE q]]
  OBVIOUS
<1>4. g \in [1..NCores -> [Q -> Q]]
  BY <1>1, <1>2, <1>3, AppendProperties
<1>5. PICK h : Makes(h, NCores, Q, e, g)
  BY <1>1, <1>2, <1>4, Stepwise
<1>6. h \in [0..NCores -> Q] /\ h[0] = e /\ \A i \in 1..NCores : h[i] = g[i][h[i - 1]]
  BY <1>5 DEF Makes
<1>7. \A i \in 0..NCores : h[i] = IF i = 0 THEN <<>> ELSE IF i \in cs THEN Append(h[i - 1], lines[i]) ELSE h[i - 1]
  <2>. TAKE i \in 0..NCores
  <2>1. CASE i = 0
    BY <1>2, <1>6, <2>1
  <2>2. CASE i # 0
    <3>1. i \in 1..NCores /\ i - 1 \in 0..NCores /\ h[i - 1] \in Q
      BY <1>1, <1>6, <2>2
    <3>. QED  BY <1>3, <1>6, <2>2, <3>1
  <2>. QED  BY <2>1, <2>2
<1>8. Lined(h, lines, cs)
  BY <1>6, <1>7 DEF Lined
<1>9. PICK f : Lined(f, lines, cs) /\ CoreLines(lines, cs) = f[NCores]
  <2>1. PICK u : u = CHOOSE v :
          v = [c \in 0..NCores |-> IF c = 0 THEN <<>> ELSE IF c \in cs THEN Append(v[c - 1], lines[c]) ELSE v[c - 1]]
    OBVIOUS
  <2>2. u = [c \in 0..NCores |-> IF c = 0 THEN <<>> ELSE IF c \in cs THEN Append(u[c - 1], lines[c]) ELSE u[c - 1]]
    BY <1>8, <2>1 DEF Lined
  <2>3. CoreLines(lines, cs) = u[NCores]
    BY <2>1 DEF CoreLines
  <2>. QED  BY <2>2, <2>3 DEF Lined
<1>. DEFINE P(i) == /\ f[i] \in Seq(Counts) /\ Len(f[i]) <= i
                    /\ Len(f[i]) = i <=> 1..i \subseteq cs
                    /\ Len(f[i]) = i => \A c \in 1..i : f[i][c] = lines[c]
            T == {i \in 0..NCores : P(i)}
<1>10. 0 \in T
  <2>1. PICK z : z = f[0] /\ z = <<>>
    BY <1>1, <1>9 DEF Lined
  <2>2. z \in Seq(Counts) /\ Len(z) = 0 /\ 1..0 = {}
    BY <2>1
  <2>3. P(0)
    BY <2>1, <2>2
  <2>. QED  BY <1>1, <2>3
<1>11. ASSUME NEW m \in 0..NCores, m \in T, m # NCores PROVE m + 1 \in T
  <2>1. PICK l : l = m + 1
    OBVIOUS
  <2>2. l \in 0..NCores /\ l # 0 /\ l - 1 = m /\ l \in Cores /\ m \in Nat /\ 1..l = 1..m \cup {l} /\ l \notin 1..m
    BY <1>1, <1>11, <2>1
  <2>3. f[l] = IF l \in cs THEN Append(f[m], lines[l]) ELSE f[m]
    BY <1>9, <2>2 DEF Lined
  <2>4. P(m) /\ Len(f[m]) \in Nat
    BY <1>11
  <2>5. CASE l \notin cs
    <3>1. f[l] = f[m] /\ Len(f[l]) <= l /\ Len(f[l]) # l
      BY <2>1, <2>2, <2>3, <2>4, <2>5
    <3>2. P(l)
      BY <2>2, <2>4, <2>5, <3>1
    <3>. QED  BY <2>1, <2>2, <3>2
  <2>6. CASE l \in cs
    <3>1. PICK q, x, k : q = f[m] /\ x = lines[l] /\ k = Len(q)
      OBVIOUS
    <3>2. q \in Seq(Counts) /\ x \in Counts /\ k \in Nat /\ k <= m
      BY <2>2, <2>4, <3>1
    <3>3. PICK d : d = f[l] /\ d = Append(q, x)
      BY <2>3, <2>6, <3>1
    <3>4. d \in Seq(Counts) /\ Len(d) = k + 1 /\ d[k + 1] = x /\ \A a \in 1..k : d[a] = q[a]
      BY <3>1, <3>2, <3>3, AppendProperties
    <3>5. Len(d) <= l /\ (Len(d) = l => k = m)
      BY <2>1, <2>2, <3>2, <3>4
    <3>6. ASSUME Len(d) = l PROVE 1..l \subseteq cs /\ \A c \in 1..l : d[c] = lines[c]
      <4>1. k = m /\ d[l] = x /\ \A a \in 1..m : d[a] = q[a]
        BY <2>1, <3>4, <3>5, <3>6
      <4>2. 1..m \subseteq cs /\ \A c \in 1..m : q[c] = lines[c]
        BY <2>4, <3>1, <4>1
      <4>. QED  BY <2>2, <2>6, <3>1, <4>1, <4>2
    <3>7. 1..l \subseteq cs => Len(d) = l
      <4>1. 1..l \subseteq cs => k = m
        BY <2>2, <2>4, <3>1
      <4>. QED  BY <2>1, <3>4, <4>1
    <3>8. P(l)
      BY <3>3, <3>4, <3>5, <3>6, <3>7
    <3>. QED  BY <2>1, <2>2, <3>8
  <2>. QED  BY <2>5, <2>6
<1>12. P(NCores)
  <2>1. 0..NCores \subseteq T
    <3>. HIDE DEF T
    <3>. QED  BY <1>1, <1>10, <1>11, Climb
  <2>2. NCores \in T
    BY <1>1, <2>1
  <2>. QED  BY <2>2
<1>13. PICK s : s = CoreLines(lines, cs) /\ s = f[NCores]
  BY <1>9
<1>14. /\ s \in Seq(Counts) /\ Len(s) <= NCores
       /\ Len(s) = NCores <=> 1..NCores \subseteq cs
       /\ Len(s) = NCores => \A c \in 1..NCores : s[c] = lines[c]
  BY <1>12, <1>13
<1>. QED  BY <1>1, <1>13, <1>14

\* cpu.go:57-75: between any two readings a figure is in range, and between readings
\* whose difference is known it is that difference.
LEMMA ShareIsGrowth ==
  ASSUME NEW p \in Counts, NEW c \in Counts
  PROVE  /\ Share(p, c) \in Figure \cup {NoFigure}
         /\ \A g \in Counts :
               (\A k \in {"busy", "idle"} : c[k] = p[k] + g[k] /\ g[k] < TickModulus) /\ Share(p, c) # NoFigure
               => Share(p, c).busy = g.busy /\ Share(p, c).idle = g.idle
         /\ \A g \in Counts :
               (\A k \in Classes : c[k] = p[k] + g[k]) /\ Total(g) < TickModulus => Share(p, c) = FigureOf(g)
<1>0. TickModulus \in Nat \ {0}
  BY CPUAssumption
<1>1. /\ p.busy \in Nat /\ p.idle \in Nat /\ p.iowait \in Nat
      /\ c.busy \in Nat /\ c.idle \in Nat /\ c.iowait \in Nat
  BY DEF Counts, Classes
<1>2. PICK b, i, w, t :
         /\ b = (c.busy - p.busy) % TickModulus
         /\ i = (c.idle - p.idle) % TickModulus
         /\ w = (c.iowait - p.iowait) % TickModulus
         /\ t = (Total(c) - Total(p)) % TickModulus
  OBVIOUS
<1>3. Share(p, c) =
        IF t = 0 THEN NoFigure ELSE [usage |-> t - (i + w), busy |-> b, idle |-> i, iowait |-> w, total |-> t]
  BY <1>2 DEF Share
<1>4. /\ c.busy - p.busy \in Int /\ c.idle - p.idle \in Int /\ c.iowait - p.iowait \in Int
      /\ Total(c) - Total(p) \in Int
  BY <1>1 DEF Total
<1>5. b \in 0..(TickModulus - 1) /\ i \in 0..(TickModulus - 1) /\ w \in 0..(TickModulus - 1) /\ t \in 0..(TickModulus - 1)
  BY <1>0, <1>2, <1>4, ModuloRange
<1>6. t - (i + w) \in Int /\ (t # 0 => t \in 1..(TickModulus - 1))
  BY <1>0, <1>5
<1>7. Share(p, c) \in Figure \cup {NoFigure}
  BY <1>3, <1>5, <1>6 DEF Figure
<1>8. t # 0 => Share(p, c).busy = b /\ Share(p, c).idle = i
  BY <1>3
<1>9. ASSUME NEW g \in Counts, \A k \in {"busy", "idle"} : c[k] = p[k] + g[k] /\ g[k] < TickModulus
      PROVE  b = g.busy /\ i = g.idle
  <2>1. /\ g.busy \in Nat /\ g.idle \in Nat /\ g.busy < TickModulus /\ g.idle < TickModulus
        /\ c.busy - p.busy = g.busy /\ c.idle - p.idle = g.idle
    BY <1>1, <1>9 DEF Counts, Classes
  <2>. QED  BY <1>0, <1>2, <2>1, SmallModulo
<1>10. ASSUME NEW g \in Counts, \A k \in Classes : c[k] = p[k] + g[k], Total(g) < TickModulus
       PROVE  Share(p, c) = FigureOf(g)
  <2>1. /\ g.busy \in Nat /\ g.idle \in Nat /\ g.iowait \in Nat
        /\ c.busy - p.busy = g.busy /\ c.idle - p.idle = g.idle /\ c.iowait - p.iowait = g.iowait
    BY <1>1, <1>10 DEF Counts, Classes
  <2>2. Total(g) \in Nat /\ Total(c) - Total(p) = Total(g)
    BY <1>1, <2>1 DEF Total
  <2>3. g.busy < TickModulus /\ g.idle < TickModulus /\ g.iowait < TickModulus
    BY <1>0, <1>10, <2>1 DEF Total
  <2>4. b = g.busy /\ i = g.idle /\ w = g.iowait /\ t = Total(g)
    BY <1>0, <1>2, <1>10, <2>1, <2>2, <2>3, SmallModulo
  <2>5. t - (i + w) = g.busy
    BY <2>1, <2>4 DEF Total
  <2>. QED  BY <1>3, <2>4, <2>5 DEF FigureOf
<1>. QED  BY <1>3, <1>7, <1>8, <1>9, <1>10

\* No counter, and not all that was counted since the last reading, exceeds the ticks there were.
WithinTicks ==
    /\ \A c \in Cores, k \in Classes : counted[c][k] <= ticks /\ grown[c][k] <= ticks
    /\ Total(Aggregate(grown)) <= ticks

\* The last reading and what was spent since make up the counters: of a core, as long
\* as its line keeps its place.
ReadingsInStep ==
    prevCPU # NoFigure =>
        /\ prevCPU \in Counts
        /\ \A k \in Classes : k # "iowait" \/ ~takenBack => Aggregate(counted)[k] = prevCPU[k] + Aggregate(grown)[k]
        /\ ~takenBack /\ ~replugged /\ Len(prevCores) = NCores =>
              online = Cores /\ \A c \in Cores, k \in Classes : counted[c][k] = prevCores[c][k] + grown[c][k]

CPUInv ==
    /\ CPUTypeOK
    /\ takenBack \in BOOLEAN /\ replugged \in BOOLEAN /\ prevCores \in Seq(Counts) /\ Len(prevCores) <= NCores
    /\ WithinTicks /\ ReadingsInStep

\* What the type invariant says of the counters.
LEMMA CountersAreCounts ==
  ASSUME CPUInv
  PROVE  /\ counted \in CoreCounts /\ grown \in CoreCounts /\ Aggregate(counted) \in Counts /\ Aggregate(grown) \in Counts
         /\ ticks \in Nat /\ ticks <= MaxJiffies /\ MaxJiffies \in Nat /\ NCores \in Nat /\ Cores = 1..NCores
         /\ TickModulus \in Nat \ {0} /\ ticks < TickModulus
<1>1. MaxJiffies \in Nat /\ NCores \in Nat /\ TickModulus \in Nat /\ TickModulus > 3 * MaxJiffies
  BY CPUAssumption
<1>2. /\ ticks \in 0..MaxJiffies
      /\ counted \in [Cores -> [Classes -> 0..MaxJiffies]] /\ grown \in [Cores -> [Classes -> 0..MaxJiffies]]
  BY DEF CPUInv, CPUTypeOK
<1>3. counted \in CoreCounts /\ grown \in CoreCounts
  BY <1>1, <1>2 DEF CoreCounts, Counts
<1>4. Aggregate(counted) \in Counts /\ Aggregate(grown) \in Counts
  BY <1>3, SumIsCounts DEF CoreCounts
<1>. QED  BY <1>1, <1>2, <1>3, <1>4 DEF Cores

\* Nothing is counted twice or lost by a tick that one core spends.
LEMMA SpendStep ==
  ASSUME CPUInv, NEW c \in Cores, NEW k \in Classes, Spend(c, k), UNCHANGED <<prevCPU, prevCores, cpu, perCore>>
  PROVE  CPUInv'
<1>1. /\ counted \in CoreCounts /\ grown \in CoreCounts /\ Aggregate(counted) \in Counts /\ Aggregate(grown) \in Counts
      /\ ticks \in Nat /\ MaxJiffies \in Nat
  BY CountersAreCounts
<1>2. /\ counted' = [counted EXCEPT ![c][k] = @ + 1] /\ grown' = [grown EXCEPT ![c][k] = @ + 1]
      /\ ticks' = ticks + 1 /\ ticks < MaxJiffies /\ online' = online /\ takenBack' = takenBack /\ replugged' = replugged
      /\ prevCPU' = prevCPU /\ prevCores' = prevCores /\ cpu' = cpu /\ perCore' = perCore
  BY DEF Spend
<1>3. \A e \in Cores, j \in Classes :
         /\ counted[e][j] \in Nat /\ grown[e][j] \in Nat
         /\ counted'[e][j] = counted[e][j] + (IF e = c /\ j = k THEN 1 ELSE 0)
         /\ grown'[e][j] = grown[e][j] + (IF e = c /\ j = k THEN 1 ELSE 0)
  BY <1>1, <1>2 DEF CoreCounts, Counts
<1>4. counted' \in CoreCounts /\ grown' \in CoreCounts
  <2>1. \A e \in Cores : counted'[e] \in Counts /\ grown'[e] \in Counts
    BY <1>1, <1>2 DEF CoreCounts, Counts
  <2>. QED  BY <1>1, <1>2, <2>1 DEF CoreCounts
<1>5. ASSUME NEW j \in Classes
      PROVE  /\ Aggregate(counted')[j] = Aggregate(counted)[j] + (IF j = k THEN 1 ELSE 0)
             /\ Aggregate(grown')[j] = Aggregate(grown)[j] + (IF j = k THEN 1 ELSE 0)
  <2>1. PICK d \in 0..1 : d = IF j = k THEN 1 ELSE 0
    OBVIOUS
  <2>2. counted'[c][j] = counted[c][j] + d /\ grown'[c][j] = grown[c][j] + d
    BY <1>3, <2>1
  <2>3. \A e \in Cores : e # c => counted'[e][j] = counted[e][j] /\ grown'[e][j] = grown[e][j]
    BY <1>3
  <2>4. Aggregate(counted')[j] = Aggregate(counted)[j] + d
    BY <1>1, <1>4, <2>2, <2>3, SumMoves DEF CoreCounts
  <2>5. Aggregate(grown')[j] = Aggregate(grown)[j] + d
    BY <1>1, <1>4, <2>2, <2>3, SumMoves DEF CoreCounts
  <2>. QED  BY <2>1, <2>4, <2>5
<1>6. WithinTicks'
  <2>1. \A e \in Cores, j \in Classes : counted'[e][j] <= ticks' /\ grown'[e][j] <= ticks'
    BY <1>1, <1>2, <1>3 DEF CPUInv, WithinTicks
  <2>2. PICK g, h : g = Aggregate(grown) /\ h = Aggregate(grown')
    OBVIOUS
  <2>3. \A j \in Classes : g[j] \in Nat /\ h[j] = g[j] + (IF j = k THEN 1 ELSE 0)
    BY <1>1, <1>5, <2>2 DEF Counts
  <2>4. Total(h) = Total(g) + 1
    BY <2>3 DEF Total, Classes
  <2>5. Total(g) <= ticks /\ Total(g) \in Nat
    BY <2>2, <2>3 DEF CPUInv, WithinTicks, Total, Classes
  <2>6. Total(h) <= ticks'
    BY <1>1, <1>2, <2>4, <2>5
  <2>. QED  BY <2>1, <2>2, <2>6 DEF WithinTicks
<1>7. ReadingsInStep'
  <2>. SUFFICES ASSUME prevCPU # NoFigure
                PROVE  /\ prevCPU \in Counts
                       /\ \A j \in Classes : j # "iowait" \/ ~takenBack => Aggregate(counted')[j] = prevCPU[j] + Aggregate(grown')[j]
                       /\ ~takenBack /\ ~replugged /\ Len(prevCores) = NCores =>
                             /\ online = Cores
                             /\ \A e \in Cores, j \in Classes : counted'[e][j] = prevCores[e][j] + grown'[e][j]
    BY <1>2 DEF ReadingsInStep, NoFigure
  <2>1. prevCPU \in Counts
    BY DEF CPUInv, ReadingsInStep
  <2>2. ASSUME NEW j \in Classes, j # "iowait" \/ ~takenBack PROVE Aggregate(counted')[j] = prevCPU[j] + Aggregate(grown')[j]
    <3>1. Aggregate(counted)[j] = prevCPU[j] + Aggregate(grown)[j]
      BY <2>2 DEF CPUInv, ReadingsInStep
    <3>2. prevCPU[j] \in Nat /\ Aggregate(grown)[j] \in Nat
      BY <1>1, <2>1 DEF Counts
    <3>. QED  BY <1>5, <3>1, <3>2
  <2>3. ASSUME ~takenBack, ~replugged, Len(prevCores) = NCores, NEW e \in Cores, NEW j \in Classes
        PROVE  counted'[e][j] = prevCores[e][j] + grown'[e][j]
    <3>1. counted[e][j] = prevCores[e][j] + grown[e][j]
      BY <2>3 DEF CPUInv, ReadingsInStep
    <3>2. prevCores[e][j] \in Nat
      <4>1. e \in 1..Len(prevCores) /\ prevCores \in Seq(Counts)
        BY <2>3, CountersAreCounts DEF CPUInv
      <4>. QED  BY <4>1 DEF Counts
    <3>. QED  BY <1>3, <3>1, <3>2
  <2>4. ~takenBack /\ ~replugged /\ Len(prevCores) = NCores => online = Cores
    BY DEF CPUInv, ReadingsInStep
  <2>. QED  BY <2>1, <2>2, <2>3, <2>4
<1>8. CPUTypeOK'
  <2>1. ticks' \in 0..MaxJiffies
    BY <1>1, <1>2
  <2>2. counted' \in [Cores -> [Classes -> 0..MaxJiffies]] /\ grown' \in [Cores -> [Classes -> 0..MaxJiffies]]
    <3>1. \A e \in Cores, j \in Classes : counted'[e][j] \in 0..MaxJiffies /\ grown'[e][j] \in 0..MaxJiffies
      <4>. TAKE e \in Cores, j \in Classes
      <4>1. counted'[e][j] \in Nat /\ grown'[e][j] \in Nat
        BY <1>4 DEF CoreCounts, Counts
      <4>2. counted'[e][j] <= ticks' /\ grown'[e][j] <= ticks'
        BY <1>6 DEF WithinTicks
      <4>. QED  BY <1>1, <2>1, <4>1, <4>2
    <3>. QED  BY <1>4, <3>1 DEF CoreCounts, Counts
  <2>3. /\ online \subseteq Cores /\ online # {}
        /\ cpu \in Figure \cup {NoFigure} /\ \A i \in DOMAIN perCore : perCore[i] \in Figure \cup {NoFigure}
        /\ Len(perCore) <= NCores
    BY DEF CPUInv, CPUTypeOK
  <2>4. /\ online' \subseteq Cores /\ online' # {}
        /\ cpu' \in Figure \cup {NoFigure} /\ \A i \in DOMAIN perCore' : perCore'[i] \in Figure \cup {NoFigure}
        /\ Len(perCore') <= NCores
    BY <1>2, <2>3
  <2>. QED  BY <2>1, <2>2, <2>4 DEF CPUTypeOK, Figure, NoFigure
<1>9. takenBack' \in BOOLEAN /\ replugged' \in BOOLEAN /\ prevCores' \in Seq(Counts) /\ Len(prevCores') <= NCores
  BY <1>2 DEF CPUInv
<1>. QED  BY <1>6, <1>7, <1>8, <1>9 DEF CPUInv

\* proc(5): iowait taken back is nobody's growth.
LEMMA TakeBackStep ==
  ASSUME CPUInv, NEW c \in Cores, TakeBack(c), UNCHANGED <<prevCPU, prevCores, cpu, perCore>>
  PROVE  CPUInv'
<1>1. /\ counted \in CoreCounts /\ Aggregate(counted) \in Counts /\ ticks \in Nat /\ MaxJiffies \in Nat
  BY CountersAreCounts
<1>2. /\ counted' = [counted EXCEPT ![c].iowait = @ - 1] /\ counted[c].iowait > 0 /\ takenBack' = TRUE /\ replugged' = replugged
      /\ grown' = grown /\ ticks' = ticks /\ online' = online
      /\ prevCPU' = prevCPU /\ prevCores' = prevCores /\ cpu' = cpu /\ perCore' = perCore
  BY DEF TakeBack
<1>3. \A e \in Cores, j \in Classes :
         /\ counted[e][j] \in Nat /\ counted'[e][j] \in Nat /\ counted'[e][j] <= counted[e][j]
         /\ j # "iowait" => counted'[e][j] = counted[e][j]
  BY <1>1, <1>2 DEF CoreCounts, Counts
<1>4. counted' \in CoreCounts
  <2>1. \A e \in Cores : counted'[e] = [j \in Classes |-> counted'[e][j]]
    BY <1>1, <1>2 DEF CoreCounts, Counts
  <2>2. \A e \in Cores : counted'[e] \in Counts
    BY <1>3, <2>1 DEF Counts
  <2>3. counted' = [e \in Cores |-> counted'[e]]
    BY <1>1, <1>2 DEF CoreCounts
  <2>. QED  BY <2>2, <2>3 DEF CoreCounts
<1>5. ASSUME NEW j \in Classes, j # "iowait" PROVE Aggregate(counted')[j] = Aggregate(counted)[j]
  <2>1. PICK d \in 0..1 : d = 0
    OBVIOUS
  <2>2. counted'[c][j] = counted[c][j] + d /\ \A e \in Cores : e # c => counted'[e][j] = counted[e][j]
    BY <1>3, <1>5, <2>1
  <2>3. Aggregate(counted')[j] = Aggregate(counted)[j] + d
    BY <1>1, <1>4, <2>2, SumMoves DEF CoreCounts
  <2>. QED  BY <1>1, <2>1, <2>3 DEF Counts
<1>6. WithinTicks'
  <2>1. \A e \in Cores, j \in Classes : counted[e][j] <= ticks /\ grown[e][j] <= ticks
    BY DEF CPUInv, WithinTicks
  <2>2. \A e \in Cores, j \in Classes : counted'[e][j] <= ticks
    BY <1>1, <1>3, <2>1
  <2>3. Total(Aggregate(grown)) <= ticks
    BY DEF CPUInv, WithinTicks
  <2>. QED  BY <1>2, <2>1, <2>2, <2>3 DEF WithinTicks
<1>7. ReadingsInStep'
  <2>1. prevCPU # NoFigure => /\ prevCPU \in Counts
                              /\ \A j \in Classes : j # "iowait" => Aggregate(counted)[j] = prevCPU[j] + Aggregate(grown)[j]
    BY DEF CPUInv, ReadingsInStep
  <2>. QED  BY <1>2, <1>5, <2>1 DEF ReadingsInStep, NoFigure
<1>8. CPUTypeOK'
  <2>1. counted' \in [Cores -> [Classes -> 0..MaxJiffies]]
    <3>1. \A e \in Cores, j \in Classes : counted'[e][j] \in 0..MaxJiffies
      BY <1>1, <1>3 DEF CPUInv, CPUTypeOK
    <3>. QED  BY <1>4, <3>1 DEF CoreCounts, Counts
  <2>2. /\ grown \in [Cores -> [Classes -> 0..MaxJiffies]] /\ ticks \in 0..MaxJiffies
        /\ online \subseteq Cores /\ online # {}
        /\ cpu \in Figure \cup {NoFigure} /\ \A i \in DOMAIN perCore : perCore[i] \in Figure \cup {NoFigure}
        /\ Len(perCore) <= NCores
    BY DEF CPUInv, CPUTypeOK
  <2>. QED  BY <1>2, <2>1, <2>2 DEF CPUTypeOK, Figure, NoFigure
<1>9. takenBack' \in BOOLEAN /\ replugged' \in BOOLEAN /\ prevCores' \in Seq(Counts) /\ Len(prevCores') <= NCores
  BY <1>2 DEF CPUInv
<1>. QED  BY <1>6, <1>7, <1>8, <1>9 DEF CPUInv

\* A core that comes or goes counts nothing.
LEMMA PlugStep ==
  ASSUME CPUInv, NEW c \in Cores, Plug(c), UNCHANGED <<prevCPU, prevCores, cpu, perCore>>
  PROVE  CPUInv'
<1>1. /\ counted' = counted /\ grown' = grown /\ ticks' = ticks /\ replugged' = TRUE /\ takenBack' = takenBack
      /\ prevCPU' = prevCPU /\ prevCores' = prevCores /\ cpu' = cpu /\ perCore' = perCore
  BY DEF Plug
<1>2. online \subseteq Cores
  BY DEF CPUInv, CPUTypeOK
<1>3. online' \subseteq Cores /\ online' # {}
  BY <1>2 DEF Plug
<1>4. ReadingsInStep'
  BY <1>1 DEF CPUInv, ReadingsInStep, NoFigure
<1>5. WithinTicks'
  BY <1>1 DEF CPUInv, WithinTicks
<1>6. CPUTypeOK'
  BY <1>1, <1>3 DEF CPUInv, CPUTypeOK, Figure, NoFigure
<1>7. takenBack' \in BOOLEAN /\ replugged' \in BOOLEAN /\ prevCores' \in Seq(Counts) /\ Len(prevCores') <= NCores
  BY <1>1 DEF CPUInv
<1>. QED  BY <1>4, <1>5, <1>6, <1>7 DEF CPUInv

\* While no core comes or goes and no iowait is taken back, each core's line shows its
\* own growth.
LEMMA CoresAreTheirOwn ==
  ASSUME CPUInv, prevCPU # NoFigure, ~takenBack, ~replugged, Len(prevCores) = NCores
  PROVE  PerCore(prevCores, CoreLines(counted, online)) = [c \in Cores |-> FigureOf(grown[c])]
<1>1. /\ counted \in CoreCounts /\ grown \in CoreCounts /\ NCores \in Nat /\ Cores = 1..NCores
      /\ ticks \in Nat /\ ticks <= MaxJiffies /\ MaxJiffies \in Nat /\ TickModulus \in Nat /\ TickModulus > 3 * MaxJiffies
  BY CountersAreCounts, CPUAssumption
<1>2. online = Cores /\ \A c \in Cores, k \in Classes : counted[c][k] = prevCores[c][k] + grown[c][k]
  BY DEF CPUInv, ReadingsInStep
<1>3. PICK n, s : n = NCores /\ s = CoreLines(counted, online)
  OBVIOUS
<1>4. /\ s \in Seq(Counts) /\ Len(s) <= NCores
      /\ Len(s) = NCores <=> online = Cores
      /\ Len(s) = NCores => \A c \in Cores : s[c] = counted[c]
  BY <1>1, <1>2, <1>3, LinesOfCores DEF CoreCounts
<1>5. Len(s) = NCores /\ \A c \in Cores : s[c] = counted[c]
  BY <1>2, <1>4
<1>6. ASSUME NEW c \in Cores PROVE Share(prevCores[c], s[c]) = FigureOf(grown[c])
  <2>1. prevCores[c] \in Counts /\ s[c] \in Counts /\ grown[c] \in Counts /\ s[c] = counted[c]
    BY <1>1, <1>5 DEF CPUInv, CoreCounts
  <2>2. \A k \in Classes : s[c][k] = prevCores[c][k] + grown[c][k]
    BY <1>2, <2>1
  <2>3. Total(grown[c]) < TickModulus
    <3>1. \A k \in Classes : grown[c][k] \in Nat /\ grown[c][k] <= ticks
      BY <2>1 DEF CPUInv, WithinTicks, Counts
    <3>2. PICK g : g = grown[c]
      OBVIOUS
    <3>3. g.busy \in Nat /\ g.idle \in Nat /\ g.iowait \in Nat /\ g.busy <= ticks /\ g.idle <= ticks /\ g.iowait <= ticks
      BY <3>1, <3>2 DEF Classes
    <3>. QED  BY <1>1, <3>2, <3>3 DEF Total
  <2>. QED  BY <2>1, <2>2, <2>3, ShareIsGrowth
<1>7. PerCore(prevCores, s) = [i \in 1..NCores |-> Share(prevCores[i], s[i])]
  BY <1>1, <1>5 DEF PerCore
<1>. QED  BY <1>1, <1>3, <1>6, <1>7

\* system.go:42-51: a reading is the new baseline, and nothing has been spent since.
LEMMA ReadStep ==
  ASSUME CPUInv, ReadCPU
  PROVE  /\ CPUInv'
         /\ prevCPU # NoFigure =>
               /\ cpu' # NoFigure => cpu'.busy = Aggregate(grown).busy /\ cpu'.idle = Aggregate(grown).idle
               /\ ~takenBack => cpu' = FigureOf(Aggregate(grown))
               /\ ~takenBack /\ ~replugged /\ Len(prevCores) = NCores => perCore' = [c \in Cores |-> FigureOf(grown[c])]
<1>1. /\ counted \in CoreCounts /\ grown \in CoreCounts /\ Aggregate(counted) \in Counts /\ Aggregate(grown) \in Counts
      /\ ticks \in Nat /\ ticks <= MaxJiffies /\ MaxJiffies \in Nat /\ NCores \in Nat /\ Cores = 1..NCores
      /\ TickModulus \in Nat \ {0} /\ ticks < TickModulus
  BY CountersAreCounts
<1>2. PICK agg, lines, g : agg = Aggregate(counted) /\ lines = CoreLines(counted, online) /\ g = Aggregate(grown)
  OBVIOUS
<1>3. /\ cpu' = IF prevCPU = NoFigure THEN NoFigure ELSE Share(prevCPU, agg)
      /\ perCore' = IF prevCPU = NoFigure THEN <<>> ELSE PerCore(prevCores, lines)
      /\ prevCPU' = agg /\ prevCores' = lines
      /\ grown' = [c \in Cores |-> Zero] /\ takenBack' = FALSE /\ replugged' = FALSE
      /\ counted' = counted /\ online' = online /\ ticks' = ticks
  BY <1>2 DEF ReadCPU
<1>4. online \in SUBSET Cores /\ online # {}
  BY DEF CPUInv, CPUTypeOK
<1>5. /\ lines \in Seq(Counts) /\ Len(lines) <= NCores
      /\ Len(lines) = NCores <=> online = Cores
      /\ Len(lines) = NCores => \A c \in Cores : lines[c] = counted[c]
  BY <1>1, <1>2, <1>4, LinesOfCores DEF CoreCounts
<1>6. \A k \in Classes : Aggregate(grown')[k] = 0
  BY <1>3, SumOfZeros
<1>7. \A c \in Cores, k \in Classes : grown'[c][k] = 0
  BY <1>3 DEF Zero
<1>8. WithinTicks'
  <2>1. PICK h : h = Aggregate(grown')
    OBVIOUS
  <2>2. Total(h) = 0
    BY <1>6, <2>1 DEF Total, Classes
  <2>3. \A c \in Cores, k \in Classes : counted[c][k] <= ticks
    BY DEF CPUInv, WithinTicks
  <2>. QED  BY <1>1, <1>3, <1>7, <2>1, <2>2, <2>3 DEF WithinTicks
<1>9. ReadingsInStep'
  <2>1. \A k \in Classes : Aggregate(counted)[k] = agg[k] + Aggregate(grown')[k]
    BY <1>1, <1>2, <1>6 DEF Counts
  <2>2. ASSUME Len(lines) = NCores, NEW c \in Cores, NEW k \in Classes PROVE counted[c][k] = lines[c][k] + grown'[c][k]
    <3>1. lines[c] = counted[c] /\ counted[c][k] \in Nat
      BY <1>1, <1>5, <2>2 DEF CoreCounts, Counts
    <3>. QED  BY <1>7, <3>1
  <2>. QED  BY <1>1, <1>2, <1>3, <1>5, <2>1, <2>2 DEF ReadingsInStep
<1>10. prevCPU # NoFigure => cpu' \in Figure \cup {NoFigure}
  BY <1>1, <1>2, <1>3, ShareIsGrowth DEF CPUInv, ReadingsInStep
<1>11. (\A i \in DOMAIN perCore' : perCore'[i] \in Figure \cup {NoFigure}) /\ Len(perCore') <= NCores
  <2>1. CASE prevCPU = NoFigure
    BY <1>1, <1>3, <2>1
  <2>2. CASE prevCPU # NoFigure
    <3>1. PICK n : n = IF Len(prevCores) < Len(lines) THEN Len(prevCores) ELSE Len(lines)
      OBVIOUS
    <3>2. perCore' = [i \in 1..n |-> Share(prevCores[i], lines[i])]
      BY <1>3, <2>2, <3>1 DEF PerCore
    <3>3. n \in Nat /\ n <= NCores /\ n <= Len(prevCores) /\ n <= Len(lines) /\ prevCores \in Seq(Counts)
      BY <1>1, <1>5, <3>1 DEF CPUInv
    <3>4. DOMAIN perCore' = 1..n /\ Len(perCore') = n
      BY <3>2, <3>3
    <3>5. ASSUME NEW i \in 1..n PROVE perCore'[i] \in Figure \cup {NoFigure}
      <4>1. prevCores[i] \in Counts /\ lines[i] \in Counts
        BY <1>5, <3>3
      <4>. QED  BY <3>2, <4>1, ShareIsGrowth
    <3>. QED  BY <3>3, <3>4, <3>5
  <2>. QED  BY <2>1, <2>2
<1>12. CPUTypeOK'
  <2>1. grown' \in [Cores -> [Classes -> 0..MaxJiffies]]
    BY <1>1, <1>3 DEF Zero
  <2>2. cpu' \in Figure \cup {NoFigure}
    BY <1>3, <1>10
  <2>3. counted \in [Cores -> [Classes -> 0..MaxJiffies]] /\ ticks \in 0..MaxJiffies
    BY DEF CPUInv, CPUTypeOK
  <2>. QED  BY <1>3, <1>4, <1>11, <2>1, <2>2, <2>3 DEF CPUTypeOK, Figure, NoFigure
<1>13. CPUInv'
  BY <1>3, <1>5, <1>8, <1>9, <1>12 DEF CPUInv
<1>14. ASSUME prevCPU # NoFigure
       PROVE  /\ cpu' # NoFigure => cpu'.busy = g.busy /\ cpu'.idle = g.idle
              /\ ~takenBack => cpu' = FigureOf(g)
  <2>1. prevCPU \in Counts /\ agg \in Counts /\ g \in Counts /\ cpu' = Share(prevCPU, agg)
    BY <1>1, <1>2, <1>3, <1>14 DEF CPUInv, ReadingsInStep
  <2>2. \A k \in Classes : k # "iowait" \/ ~takenBack => agg[k] = prevCPU[k] + g[k]
    BY <1>2, <1>14 DEF CPUInv, ReadingsInStep
  <2>3. g.busy \in Nat /\ g.idle \in Nat /\ g.iowait \in Nat
    BY <2>1 DEF Counts, Classes
  <2>4. Total(g) <= ticks
    BY <1>2 DEF CPUInv, WithinTicks
  <2>5. Total(g) < TickModulus /\ g.busy < TickModulus /\ g.idle < TickModulus
    BY <1>1, <2>3, <2>4 DEF Total
  <2>6. \A k \in {"busy", "idle"} : agg[k] = prevCPU[k] + g[k] /\ g[k] < TickModulus
    BY <2>2, <2>5 DEF Classes
  <2>7. ~takenBack => \A k \in Classes : agg[k] = prevCPU[k] + g[k]
    BY <2>2
  <2>. QED  BY <2>1, <2>5, <2>6, <2>7, ShareIsGrowth
<1>15. prevCPU # NoFigure /\ ~takenBack /\ ~replugged /\ Len(prevCores) = NCores => perCore' = [c \in Cores |-> FigureOf(grown[c])]
  BY <1>2, <1>3, CoresAreTheirOwn
<1>. QED  BY <1>2, <1>13, <1>14, <1>15

\* cpu.go, system.go: whatever readings fail and cores come and go, the figures are of
\* what was spent since the last good reading: all of them while no iowait is taken
\* back, and the idle, user and system ones whatever happens.
THEOREM UsageIsWhatWasSpent == CPUSpec => FiguresAreTheGrowth
<1>1. CPUInit => CPUInv
  <2>. SUFFICES ASSUME CPUInit PROVE CPUInv
    OBVIOUS
  <2>1. NCores \in Nat \ {0} /\ MaxJiffies \in Nat /\ Cores = 1..NCores
    BY CPUAssumption DEF Cores
  <2>2. /\ counted = [c \in Cores |-> Zero] /\ online = Cores /\ prevCPU = NoFigure /\ prevCores = <<>>
        /\ cpu = NoFigure /\ perCore = <<>> /\ ticks = 0 /\ grown = [c \in Cores |-> Zero] /\ takenBack = FALSE /\ replugged = FALSE
    BY DEF CPUInit
  <2>3. CPUTypeOK
    <3>1. \A i \in DOMAIN perCore : FALSE
      BY <2>2
    <3>2. Len(perCore) = 0
      BY <2>2
    <3>3. Zero \in [Classes -> 0..MaxJiffies]
      BY <2>1 DEF Zero
    <3>4. counted \in [Cores -> [Classes -> 0..MaxJiffies]] /\ grown \in [Cores -> [Classes -> 0..MaxJiffies]]
      BY <2>2, <3>3
    <3>5. online # {} /\ ticks \in 0..MaxJiffies
      BY <2>1, <2>2
    <3>. QED  BY <2>1, <2>2, <3>1, <3>2, <3>4, <3>5 DEF CPUTypeOK
  <2>4. PICK g : g = Aggregate(grown) /\ \A k \in Classes : g[k] = 0
    BY <2>2, SumOfZeros
  <2>5. Total(g) = 0
    BY <2>4 DEF Total, Classes
  <2>6. WithinTicks
    BY <2>2, <2>4, <2>5 DEF WithinTicks, Zero
  <2>7. ReadingsInStep
    BY <2>2 DEF ReadingsInStep
  <2>8. takenBack \in BOOLEAN /\ replugged \in BOOLEAN
    BY <2>2
  <2>9. <<>> \in Seq(Counts)
    BY EmptySeq
  <2>10. prevCores \in Seq(Counts) /\ Len(prevCores) <= NCores
    <3>1. Len(prevCores) = 0
      BY <2>2
    <3>2. prevCores = <<>>
      BY <2>2
    <3>. QED  BY ONLY <2>1, <2>9, <3>1, <3>2
  <2>. QED  BY <2>3, <2>6, <2>7, <2>8, <2>10 DEF CPUInv
<1>2. CPUInv /\ [CPUNext]_cpuVars =>
        /\ CPUInv'
        /\ prevCPU # NoFigure /\ grown' # grown /\ ticks' = ticks =>
              LET g == Aggregate(grown)
              IN  /\ cpu' # NoFigure => cpu'.busy = g.busy /\ cpu'.idle = g.idle
                  /\ ~takenBack => cpu' = FigureOf(g)
                  /\ ~takenBack /\ ~replugged /\ Len(prevCores) = NCores => perCore' = [c \in Cores |-> FigureOf(grown[c])]
  <2>. SUFFICES ASSUME CPUInv, [CPUNext]_cpuVars
                PROVE  /\ CPUInv'
                       /\ prevCPU # NoFigure /\ grown' # grown /\ ticks' = ticks =>
                             /\ cpu' # NoFigure => cpu'.busy = Aggregate(grown).busy /\ cpu'.idle = Aggregate(grown).idle
                             /\ ~takenBack => cpu' = FigureOf(Aggregate(grown))
                             /\ ~takenBack /\ ~replugged /\ Len(prevCores) = NCores => perCore' = [c \in Cores |-> FigureOf(grown[c])]
    OBVIOUS
  <2>1. CASE KernelMoves
    <3>1. PICK c \in Cores : TakeBack(c) \/ Plug(c) \/ \E k \in Classes : Spend(c, k)
      BY <2>1 DEF KernelMoves
    <3>2. UNCHANGED <<prevCPU, prevCores, cpu, perCore>>
      BY <2>1 DEF KernelMoves
    <3>3. CASE TakeBack(c)
      <4>1. grown' = grown
        BY <3>3 DEF TakeBack
      <4>. QED  BY <3>2, <3>3, <4>1, TakeBackStep
    <3>4. CASE Plug(c)
      <4>1. grown' = grown
        BY <3>4 DEF Plug
      <4>. QED  BY <3>2, <3>4, <4>1, PlugStep
    <3>5. ASSUME NEW k \in Classes, Spend(c, k) PROVE CPUInv' /\ ticks' # ticks
      <4>1. ticks' = ticks + 1 /\ ticks \in Nat
        BY <3>5, CountersAreCounts DEF Spend
      <4>. QED  BY <3>2, <3>5, <4>1, SpendStep
    <3>. QED  BY <3>1, <3>3, <3>4, <3>5
  <2>2. CASE ReadCPU
    BY <2>2, ReadStep
  <2>3. CASE ReadCPUFails
    <3>1. /\ cpu' = NoFigure /\ perCore' = <<>> /\ prevCPU' = prevCPU /\ prevCores' = prevCores /\ counted' = counted
          /\ online' = online /\ ticks' = ticks /\ grown' = grown /\ takenBack' = takenBack /\ replugged' = replugged
      BY <2>3 DEF ReadCPUFails
    <3>2. NCores \in Nat
      BY CPUAssumption
    <3>3. CPUTypeOK'
      BY <3>1, <3>2 DEF CPUInv, CPUTypeOK, Figure, NoFigure
    <3>. QED  BY <3>1, <3>3 DEF CPUInv, WithinTicks, ReadingsInStep, NoFigure
  <2>4. CASE UNCHANGED cpuVars
    BY <2>4 DEF cpuVars, CPUInv, CPUTypeOK, WithinTicks, ReadingsInStep, NoFigure, Figure
  <2>. QED  BY <2>1, <2>2, <2>3, <2>4 DEF CPUNext
<1>3. CPUInv => CPUTypeOK
  BY DEF CPUInv
<1>. QED  BY <1>1, <1>2, <1>3, PTL DEF CPUSpec, FiguresAreTheGrowth

------------------------------------------------------------------------------
(* The history *)

\* The prefix sums of a sequence of numbers.
Totals(f, w, n) == f = [i \in 0..n |-> IF i = 0 THEN 0 ELSE f[i - 1] + w[i]]

\* Numbers that are the steps of another sequence add up to what that one climbs.
LEMMA Telescope ==
  ASSUME NEW n \in Nat, NEW w \in [1..n -> Nat], NEW r \in [0..n -> Nat],
         \A i \in 1..n : r[i] = r[i - 1] + w[i]
  PROVE  SumOf(w) = r[n] - r[0]
<1>1. w \in Seq(Nat) /\ Len(w) = n
  OBVIOUS
<1>2. PICK e : e = [i \in 0..n |-> r[i] - r[0]]
  OBVIOUS
<1>3. \A i \in 0..n : e[i] = IF i = 0 THEN 0 ELSE e[i - 1] + w[i]
  <2>. TAKE i \in 0..n
  <2>1. CASE i = 0
    BY <1>2, <2>1
  <2>2. CASE i # 0
    <3>1. i \in 1..n /\ i - 1 \in 0..n /\ 0 \in 0..n
      BY <2>2
    <3>2. r[i] \in Nat /\ r[i - 1] \in Nat /\ r[0] \in Nat /\ w[i] \in Nat
      BY <3>1
    <3>3. e[i] = r[i] - r[0] /\ e[i - 1] = r[i - 1] - r[0]
      BY <1>2, <3>1
    <3>. QED  BY <2>2, <3>1, <3>2, <3>3
  <2>. QED  BY <2>1, <2>2
<1>4. Totals(e, w, n)
  BY <1>2, <1>3 DEF Totals
<1>5. PICK f : f = CHOOSE u : u = [i \in 0..n |-> IF i = 0 THEN 0 ELSE u[i - 1] + w[i]]
  OBVIOUS
<1>6. f = [i \in 0..n |-> IF i = 0 THEN 0 ELSE f[i - 1] + w[i]]
  BY <1>4, <1>5 DEF Totals
<1>7. SumOf(w) = f[n]
  BY <1>1, <1>5 DEF SumOf
<1>. DEFINE T == {i \in 0..n : f[i] = r[i] - r[0]}
<1>8. 0 \in T
  BY <1>6
<1>9. ASSUME NEW m \in 0..n, m \in T, m # n PROVE m + 1 \in T
  <2>1. PICK l : l = m + 1
    OBVIOUS
  <2>2. l \in 0..n /\ l # 0 /\ l - 1 = m /\ l \in 1..n /\ 0 \in 0..n
    BY <1>9, <2>1
  <2>3. f[l] = f[m] + w[l] /\ r[l] = r[m] + w[l]
    BY <1>6, <2>2
  <2>4. r[l] \in Nat /\ r[m] \in Nat /\ r[0] \in Nat /\ w[l] \in Nat
    BY <2>2
  <2>. QED  BY <1>9, <2>1, <2>2, <2>3, <2>4
<1>10. 0..n \subseteq T
  <2>. HIDE DEF T
  <2>. QED  BY <1>8, <1>9, Climb
<1>. QED  BY <1>7, <1>10

\* Every sequence of numbers has its prefix sums.
LEMMA PrefixSums ==
  ASSUME NEW n \in Nat, NEW w \in [1..n -> Nat]
  PROVE  \E r \in [0..n -> Nat] : r[0] = 0 /\ (\A i \in 1..n : r[i] = r[i - 1] + w[i]) /\ SumOf(w) = r[n]
<1>1. PICK g : g = [i \in 1..n |-> [q \in Nat |-> q + w[i]]]
  OBVIOUS
<1>2. g \in [1..n -> [Nat -> Nat]]
  BY <1>1
<1>3. PICK r : Makes(r, n, Nat, 0, g)
  BY <1>2, Stepwise
<1>4. r \in [0..n -> Nat] /\ r[0] = 0 /\ \A i \in 1..n : r[i] = g[i][r[i - 1]]
  BY <1>3 DEF Makes
<1>5. \A i \in 1..n : r[i] = r[i - 1] + w[i]
  <2>. TAKE i \in 1..n
  <2>1. i - 1 \in 0..n /\ r[i - 1] \in Nat
    BY <1>4
  <2>. QED  BY <1>1, <1>4, <2>1
<1>6. SumOf(w) = r[n] - r[0]
  BY ONLY n \in Nat, w \in [1..n -> Nat], <1>4, <1>5, Telescope
<1>7. r[n] \in Nat
  BY <1>4
<1>8. SumOf(w) = r[n]
  BY <1>4, <1>6, <1>7
<1>. QED  BY <1>4, <1>5, <1>8

\* A sum lies between the number of its terms times the least and times the greatest.
LEMMA SumBetween ==
  ASSUME NEW n \in Nat, NEW w \in [1..n -> Nat], NEW lo \in Nat, NEW hi \in Nat,
         \A i \in 1..n : lo <= w[i] /\ w[i] <= hi
  PROVE  SumOf(w) \in Nat /\ n * lo <= SumOf(w) /\ SumOf(w) <= n * hi
<1>1. PICK r \in [0..n -> Nat] : r[0] = 0 /\ (\A i \in 1..n : r[i] = r[i - 1] + w[i]) /\ SumOf(w) = r[n]
  BY PrefixSums
<1>. DEFINE T == {i \in 0..n : i * lo <= r[i] /\ r[i] <= i * hi}
<1>2. 0 \in T
  BY <1>1
<1>3. ASSUME NEW m \in 0..n, m \in T, m # n PROVE m + 1 \in T
  <2>1. PICK l : l = m + 1
    OBVIOUS
  <2>2. l \in 0..n /\ l # 0 /\ l - 1 = m /\ l \in 1..n
    BY <1>3, <2>1
  <2>3. PICK a, b, x : a = r[m] /\ b = r[l] /\ x = w[l]
    OBVIOUS
  <2>4. b = a + x /\ a \in Nat /\ b \in Nat /\ x \in Nat /\ lo <= x /\ x <= hi
    BY <1>1, <2>2, <2>3
  <2>5. PICK p, q : p = m * lo /\ q = m * hi
    OBVIOUS
  <2>6. p \in Nat /\ q \in Nat /\ l * lo = p + lo /\ l * hi = q + hi
    BY <2>1, <2>5
  <2>7. p <= a /\ a <= q
    BY <1>3, <2>3, <2>5
  <2>8. l * lo <= b /\ b <= l * hi
    BY <2>4, <2>6, <2>7
  <2>. QED  BY <2>1, <2>2, <2>3, <2>8
<1>4. 0..n \subseteq T
  <2>. HIDE DEF T
  <2>. QED  BY <1>2, <1>3, Climb
<1>. QED  BY <1>1, <1>4

\* An average rounded down lies between the least and the greatest too.
LEMMA AverageBetween ==
  ASSUME NEW n \in Nat \ {0}, NEW x \in Nat, NEW lo \in Nat, NEW hi \in Nat, n * lo <= x, x <= n * hi
  PROVE  x \div n \in Nat /\ lo <= x \div n /\ x \div n <= hi
<1>1. PICK q \in Int : q = x \div n
  OBVIOUS
<1>2. n * q <= x /\ x < n * q + n
  BY <1>1
<1>3. n * q + n = n * (q + 1)
  OBVIOUS
<1>4. lo < q + 1
  BY <1>2, <1>3
<1>5. q <= hi
  BY <1>2
<1>. QED  BY <1>1, <1>4, <1>5

\* count buckets of that size hold n samples: one each while there are at most as many
\* as points, and otherwise at least as many buckets as points and fewer than twice.
Fits(n, p, size, count) ==
    /\ size \in Nat \ {0} /\ count \in Nat
    /\ n <= count * size /\ (count = 0 \/ (count - 1) * size < n)
    /\ IF n <= p THEN size = 1 /\ count = n ELSE count >= p /\ count < 2 * p

\* handler_stats.go:53-57: the buckets fit.
LEMMA Buckets ==
  ASSUME NEW n \in Nat, NEW p \in Nat \ {0}, NEW size, size = BucketSize(n, p), NEW count, count = (n + size - 1) \div size
  PROVE  Fits(n, p, size, count)
<1>1. PICK q \in Int : q = n \div p
  OBVIOUS
<1>2. p * q <= n /\ n < p * q + p
  BY <1>1
<1>3. q >= 0
  <2>1. q < 0 => p * q + p <= 0
    OBVIOUS
  <2>. QED  BY <1>2, <2>1
<1>4. size = (IF q < 1 THEN 1 ELSE q) /\ size \in Nat /\ size >= 1
  BY <1>1, <1>3 DEF BucketSize
<1>5. PICK c \in Int : c = (n + size - 1) \div size
  BY <1>4
<1>6. size * c <= n + size - 1 /\ n + size - 1 < size * c + size
  BY <1>4, <1>5
<1>7. c = count
  BY <1>5
<1>8. c >= 0
  <2>1. c < 0 => size * c + size <= 0
    BY <1>4
  <2>. QED  BY <1>4, <1>6, <2>1
<1>9. n <= size * c /\ size * c - size < n
  BY <1>4, <1>6
<1>10. (c - 1) * size = size * c - size /\ c * size = size * c
  BY <1>4
<1>11. n <= p => size = 1 /\ count = n
  <2>1. n <= p => q <= 1
    <3>1. q >= 2 => p * q >= p * 2
      OBVIOUS
    <3>. QED  BY <1>2, <3>1
  <2>2. n <= p => size = 1
    BY <1>3, <1>4, <2>1
  <2>3. size = 1 => c = n
    BY <1>9
  <2>. QED  BY <1>7, <2>2, <2>3
<1>12. ASSUME n > p PROVE count >= p /\ count < 2 * p
  <2>1. size = q /\ q >= 1
    <3>1. q <= 0 => p * q + p <= p
      OBVIOUS
    <3>. QED  BY <1>2, <1>4, <1>12, <3>1
  <2>2. size * p <= n /\ n < size * p + p
    BY <1>2, <2>1
  <2>3. c >= p
    <3>1. c < p => size * c + size <= size * p
      <4>1. c < p => c + 1 <= p
        OBVIOUS
      <4>2. c < p => size * (c + 1) <= size * p
        BY <1>4, <4>1
      <4>. QED  BY <1>4, <4>2
    <3>2. size * p < size * c + size
      <4>1. size * c + size >= n + size
        BY <1>4, <1>9
      <4>. QED  BY <1>4, <2>2, <4>1
    <3>3. size * c + size \in Int /\ size * p \in Int
      BY <1>4
    <3>. QED  BY ONLY <3>1, <3>2, <3>3, c \in Int, p \in Nat \ {0}
  <2>4. c < 2 * p
    <3>1. (size - 1) * (p - 1) >= 0
      BY <1>4
    <3>2. (size - 1) * (p - 1) = size * p - size - p + 1
      BY <1>4
    <3>3. size * c < size * (2 * p)
      <4>1. size * c < n + size
        BY <1>4, <1>9
      <4>2. size * (2 * p) = size * p + size * p
        BY <1>4
      <4>3. PICK x \in Int : x = size * p
        BY <1>4
      <4>4. n + size <= x + p + size - 1 /\ p + size <= x + 1
        BY <1>4, <2>2, <3>1, <3>2, <4>3
      <4>. QED  BY <1>4, <4>1, <4>2, <4>3, <4>4
    <3>4. c >= 2 * p => size * c >= size * (2 * p)
      BY <1>4
    <3>5. size * c \in Int /\ size * (2 * p) \in Int
      BY <1>4
    <3>. QED  BY ONLY <3>3, <3>4, <3>5, c \in Int, p \in Nat \ {0}
  <2>. QED  BY <1>7, <2>3, <2>4
<1>. QED  BY <1>4, <1>7, <1>8, <1>9, <1>10, <1>11, <1>12 DEF Fits

Readings == UNION {[devs -> Values] : devs \in SUBSET Range(Devices)}

\* Of the values of the rows, 0 among them, one is the highest.
LEMMA HighestRow ==
  ASSUME NEW n \in Nat, NEW w \in [1..n -> Nat]
  PROVE  \E v \in {0} \cup {w[i] : i \in 1..n} : v \in Nat /\ \A i \in 1..n : w[i] <= v
<1>. DEFINE T == {m \in 0..n : \E v \in {0} \cup {w[i] : i \in 1..n} : v \in Nat /\ \A i \in 1..m : w[i] <= v}
<1>1. 0 \in T
  <2>1. 0 \in {0} \cup {w[i] : i \in 1..n} /\ 1..0 = {}
    OBVIOUS
  <2>. QED  BY <2>1
<1>2. ASSUME NEW m \in 0..n, m \in T, m # n PROVE m + 1 \in T
  <2>1. PICK l : l = m + 1
    OBVIOUS
  <2>2. l \in 1..n /\ l \in 0..n /\ 1..l = 1..m \cup {l} /\ w[l] \in Nat
    BY <1>2, <2>1
  <2>3. PICK v \in {0} \cup {w[i] : i \in 1..n} : v \in Nat /\ \A i \in 1..m : w[i] <= v
    BY <1>2
  <2>4. PICK x : x = IF w[l] > v THEN w[l] ELSE v
    OBVIOUS
  <2>5. x \in {0} \cup {w[i] : i \in 1..n} /\ x \in Nat /\ v <= x /\ w[l] <= x
    BY <2>2, <2>3, <2>4
  <2>6. \A i \in 1..l : w[i] <= x
    <3>. TAKE i \in 1..l
    <3>1. CASE i = l
      BY <2>5, <3>1
    <3>2. CASE i \in 1..m
      <4>1. w[i] \in Nat /\ w[i] <= v
        BY <1>2, <2>3, <3>2
      <4>. QED  BY <2>3, <2>5, <4>1
    <3>. QED  BY <2>2, <3>1, <3>2
  <2>. QED  BY <2>1, <2>2, <2>5, <2>6
<1>3. 0..n \subseteq T
  <2>. HIDE DEF T
  <2>. QED  BY <1>1, <1>2, Climb
<1>4. n \in T
  <2>. HIDE DEF T
  <2>. QED  BY <1>3
<1>. QED  BY <1>4

\* metric_lookup.go:9-173: what is looked up is a number, unless there is nothing.
LEMMA LookupIsNumber ==
  ASSUME NEW reading \in Readings, NEW metric \in Metrics, NEW selector \in Selectors
  PROVE  Lookup(reading, metric, selector) \in Nat \cup {NoValue}
<1>1. PICK n \in Nat : n = Len(Devices) /\ DOMAIN Devices = 1..n
  BY HistoryAssumption
<1>2. \A d \in DOMAIN reading : reading[d] \in Nat /\ d \in Range(Devices)
  BY HistoryAssumption DEF Readings
<1>3. PICK w : w = [i \in 1..n |-> IF Devices[i] \in DOMAIN reading THEN reading[Devices[i]] ELSE 0]
  OBVIOUS
<1>4. w \in [1..n -> Nat]
  BY <1>2, <1>3
<1>5. AddedUp(reading) \in Nat
  <2>1. PICK r \in [0..n -> Nat] : SumOf(w) = r[n]
    BY <1>4, PrefixSums
  <2>. QED  BY <1>1, <1>3, <2>1 DEF AddedUp
<1>6. \A d \in DOMAIN reading : \E i \in 1..n : Devices[i] = d
  BY <1>1, <1>2 DEF Range
<1>7. ASSUME NEW S, S = {0} \cup {reading[d] : d \in DOMAIN reading} PROVE Max(S) \in Nat
  <2>1. PICK v \in {0} \cup {w[i] : i \in 1..n} : v \in Nat /\ \A i \in 1..n : w[i] <= v
    BY <1>4, HighestRow
  <2>2. v \in S
    <3>1. \A i \in 1..n : w[i] \in S
      BY <1>3, <1>7
    <3>. QED  BY <1>7, <2>1, <3>1
  <2>3. ASSUME NEW x \in S PROVE x \in Nat /\ v >= x
    <3>1. CASE x = 0
      BY <2>1, <3>1
    <3>2. ASSUME NEW d \in DOMAIN reading, x = reading[d] PROVE x \in Nat /\ v >= x
      <4>1. PICK i \in 1..n : Devices[i] = d
        BY <1>6
      <4>2. w[i] = x /\ w[i] \in Nat
        BY <1>3, <1>4, <3>2, <4>1
      <4>. QED  BY <2>1, <4>2
    <3>. QED  BY <1>7, <3>1, <3>2
  <2>4. \E x \in S : \A y \in S : x >= y
    BY <2>2, <2>3
  <2>5. Max(S) \in S
    BY <2>4 DEF Max
  <2>. QED  BY <2>3, <2>5
<1>8. ASSUME DOMAIN reading # {} PROVE First(reading) \in Nat
  <2>1. PICK rows : rows = {i \in DOMAIN Devices : Devices[i] \in DOMAIN reading}
    OBVIOUS
  <2>2. rows \in SUBSET Nat /\ rows # {}
    BY <1>1, <1>6, <1>8, <2>1
  <2>3. \E m \in rows : \A k \in rows : m <= k
    BY <2>2, Least
  <2>4. PICK i : i = CHOOSE m \in rows : \A k \in rows : m <= k
    OBVIOUS
  <2>5. i \in rows
    BY <2>3, <2>4
  <2>6. First(reading) = reading[Devices[i]]
    BY <2>1, <2>4 DEF First
  <2>. QED  BY <1>2, <2>1, <2>5, <2>6
<1>9. PICK named : named = IF selector = "" THEN Primary ELSE selector
  OBVIOUS
<1>10. CASE selector # "" \/ metric = "disk"
  <2>1. Lookup(reading, metric, selector) = IF named \in DOMAIN reading THEN reading[named] ELSE NoValue
    BY <1>9, <1>10 DEF Lookup
  <2>. QED  BY <1>2, <2>1
<1>11. CASE selector = "" /\ metric # "disk" /\ DOMAIN reading = {}
  BY <1>11 DEF Lookup
<1>12. CASE selector = "" /\ metric # "disk" /\ DOMAIN reading # {}
  <2>1. CASE metric = "latency"
    <3>1. Lookup(reading, metric, selector) = Max({0} \cup {reading[d] : d \in DOMAIN reading})
      BY <1>12, <2>1 DEF Lookup
    <3>. QED  BY <1>7, <3>1
  <2>2. CASE metric = "temp"
    <3>1. Lookup(reading, metric, selector) = IF Primary \in DOMAIN reading THEN reading[Primary] ELSE First(reading)
      BY <1>12, <2>2 DEF Lookup
    <3>. QED  BY <1>2, <1>8, <1>12, <3>1
  <2>3. CASE metric = "rate"
    <3>1. Lookup(reading, metric, selector) = AddedUp(reading)
      BY <1>12, <2>3 DEF Lookup
    <3>. QED  BY <1>5, <3>1
  <2>. QED  BY <1>12, <2>1, <2>2, <2>3 DEF Metrics
<1>. QED  BY <1>10, <1>11, <1>12

Measured == [t : Nat, v : Nat]

HistTypeOK == window \in Seq([time : Nat, reading : Readings])

\* handler_stats.go:44-49: the snapshots that have the metric.
LEMMA SamplesAreMeasured ==
  ASSUME HistTypeOK, NEW metric \in Metrics, NEW selector \in Selectors
  PROVE  Samples(metric, selector) \in Seq(Measured)
<1>1. PICK n \in Nat : n = Len(window) /\ DOMAIN window = 1..n
  BY DEF HistTypeOK
<1>2. PICK val, x : /\ val = [i \in 1..n |-> Lookup(window[i].reading, metric, selector)]
                    /\ x = [i \in 1..n |-> [t |-> window[i].time, v |-> val[i]]]
  OBVIOUS
<1>3. ASSUME NEW i \in 1..n
      PROVE  /\ window[i].time \in Nat /\ (val[i] # NoValue => val[i] \in Nat)
             /\ (val[i] # NoValue => x[i] \in Measured) /\ x[i].t = window[i].time
  <2>0. PICK R : R = [time : Nat, reading : Readings] /\ window \in Seq(R)
    BY DEF HistTypeOK
  <2>1. window[i] \in R
    <3>1. i \in 1..Len(window)
      BY <1>1
    <3>. QED  BY ONLY <2>0, <3>1, ElementOfSeq
  <2>2. window[i].time \in Nat /\ window[i].reading \in Readings
    BY <2>0, <2>1
  <2>3. val[i] \in Nat \cup {NoValue}
    BY <1>2, <2>2, LookupIsNumber
  <2>. QED  BY <1>2, <2>2, <2>3 DEF Measured
<1>4. PICK Q, e : Q = Seq(Measured) /\ e = <<>> /\ e \in Q
  <2>. <<>> \in Seq(Measured)
    OBVIOUS
  <2>. QED  OBVIOUS
<1>5. PICK g : g = [i \in 1..n |-> [q \in Q |-> IF val[i] = NoValue THEN q ELSE Append(q, x[i])]]
  OBVIOUS
<1>6. g \in [1..n -> [Q -> Q]]
  BY <1>3, <1>4, <1>5, AppendProperties
<1>7. PICK h : Makes(h, n, Q, e, g)
  BY <1>4, <1>6, Stepwise
<1>8. h \in [0..n -> Q] /\ h[0] = e /\ \A i \in 1..n : h[i] = g[i][h[i - 1]]
  BY <1>7 DEF Makes
<1>9. \A i \in 0..n : h[i] = IF i = 0 THEN <<>> ELSE IF val[i] = NoValue THEN h[i - 1] ELSE Append(h[i - 1], x[i])
  <2>. TAKE i \in 0..n
  <2>1. CASE i = 0
    BY <1>4, <1>8, <2>1
  <2>2. CASE i # 0
    <3>1. i \in 1..n /\ i - 1 \in 0..n /\ h[i - 1] \in Q
      BY <1>8, <2>2
    <3>. QED  BY <1>5, <1>8, <2>2, <3>1
  <2>. QED  BY <2>1, <2>2
<1>. DEFINE Loop(u) ==
        [i \in 0..n |-> IF i = 0 THEN <<>>
                        ELSE IF Lookup(window[i].reading, metric, selector) = NoValue THEN u[i - 1]
                        ELSE Append(u[i - 1], [t |-> window[i].time, v |-> Lookup(window[i].reading, metric, selector)])]
            Short(u) == [i \in 0..n |-> IF i = 0 THEN <<>> ELSE IF val[i] = NoValue THEN u[i - 1] ELSE Append(u[i - 1], x[i])]
<1>10. ASSUME NEW u PROVE Loop(u) = Short(u)
  <2>1. \A i \in 0..n : i # 0 => i \in 1..n
    OBVIOUS
  <2>. QED  BY <1>2, <2>1
<1>11. PICK f : f = CHOOSE u : u = Loop(u)
  OBVIOUS
<1>12. Samples(metric, selector) = f[n]
  BY <1>1, <1>11 DEF Samples
<1>13. f = Short(f)
  <2>1. h = Short(h)
    BY <1>8, <1>9
  <2>. HIDE DEF Loop, Short
  <2>2. h = Loop(h)
    BY <1>10, <2>1
  <2>3. f = Loop(f)
    BY <1>11, <2>2
  <2>. QED  BY <1>10, <2>3
<1>. DEFINE T == {i \in 0..n : f[i] \in Seq(Measured)}
<1>14. 0 \in T
  <2>1. PICK z : z = f[0] /\ z = <<>>
    BY <1>13
  <2>2. z \in Seq(Measured)
    BY <2>1
  <2>3. f[0] \in Seq(Measured)
    BY ONLY <2>1, <2>2
  <2>4. 0 \in 0..n
    OBVIOUS
  <2>. QED  BY <2>3, <2>4
<1>15. ASSUME NEW m \in 0..n, m \in T, m # n PROVE m + 1 \in T
  <2>1. PICK l : l = m + 1
    OBVIOUS
  <2>2. l \in 0..n /\ l # 0 /\ l - 1 = m /\ l \in 1..n
    BY <1>15, <2>1
  <2>3. f[l] = IF val[l] = NoValue THEN f[m] ELSE Append(f[m], x[l])
    BY <1>13, <2>2
  <2>4. f[m] \in Seq(Measured)
    BY <1>15
  <2>5. f[l] \in Seq(Measured)
    BY <1>3, <2>2, <2>3, <2>4, AppendProperties
  <2>. QED  BY <2>1, <2>2, <2>5
<1>16. n \in T
  <2>. HIDE DEF T
  <2>1. 0..n \subseteq T
    BY <1>14, <1>15, Climb
  <2>. QED  BY <2>1
<1>. QED  BY <1>12, <1>16

\* A stretch of a sequence.
LEMMA Stretch ==
  ASSUME NEW Q, NEW s \in Seq(Q), NEW a \in Nat, NEW b \in Nat, a <= b, b <= Len(s)
  PROVE  SubSeq(s, a + 1, b) = [i \in 1..(b - a) |-> s[a + i]]
<1>1. SubSeq(s, a + 1, b) = [i \in 1..(b - (a + 1) + 1) |-> s[a + 1 + i - 1]]
  OBVIOUS
<1>2. b - (a + 1) + 1 = b - a
  OBVIOUS
<1>3. \A i \in 1..(b - a) : a + 1 + i - 1 = a + i
  OBVIOUS
<1>. QED  BY <1>1, <1>2, <1>3

\* x has the count and the total of the samples after a up to b, r being their prefix
\* sums, and, if they are in order, a time between those of the first and the last.
Averages(x, s, r, a, b) ==
    /\ x.n = b - a /\ x.total = r[b] - r[a]
    /\ InOrder(s) => x.time \in Nat /\ s[a + 1].t <= x.time /\ x.time <= s[b].t

\* handler_stats.go:58-68: a point averages its bucket.
LEMMA PointOfBucket ==
  ASSUME NEW s \in Seq(Measured), NEW a \in Nat, NEW b \in Nat, a < b, b <= Len(s),
         NEW r \in [0..Len(s) -> Nat], \A i \in 1..Len(s) : r[i] = r[i - 1] + s[i].v
  PROVE  Averages(Point(SubSeq(s, a + 1, b)), s, r, a, b)
<1>1. PICK m \in Nat \ {0} : m = b - a
  OBVIOUS
<1>2. PICK u : u = SubSeq(s, a + 1, b) /\ u = [i \in 1..m |-> s[a + i]]
  <2>1. SubSeq(s, a + 1, b) = [i \in 1..(b - a) |-> s[a + i]]
    BY Stretch
  <2>. QED  BY <1>1, <2>1
<1>3. DOMAIN u = 1..m /\ Len(u) = m
  BY <1>2
<1>4. \A i \in 1..m : /\ a + i \in 1..Len(s) /\ a + i - 1 \in 0..Len(s) /\ a + i \in 0..Len(s)
                     /\ a + (i - 1) = a + i - 1 /\ (a + i = b \/ a + i < b) /\ (a + i = a + 1 \/ a + 1 < a + i)
  BY <1>1
<1>5. \A i \in 1..Len(s) : s[i].t \in Nat /\ s[i].v \in Nat
  <2>. TAKE i \in 1..Len(s)
  <2>1. s[i] \in Measured
    BY ElementOfSeq
  <2>. QED  BY <2>1 DEF Measured
<1>6. PICK tt, vv : tt = [i \in 1..m |-> s[a + i].t] /\ vv = [i \in 1..m |-> s[a + i].v]
  OBVIOUS
<1>7. tt \in [1..m -> Nat] /\ vv \in [1..m -> Nat]
  BY <1>4, <1>5, <1>6
<1>8. tt = [i \in DOMAIN u |-> u[i].t] /\ vv = [i \in DOMAIN u |-> u[i].v]
  BY <1>2, <1>3, <1>6
<1>9. Point(u) = [time |-> SumOf(tt) \div m, total |-> SumOf(vv), n |-> m]
  BY <1>3, <1>8 DEF Point
<1>10. SumOf(vv) = r[b] - r[a]
  <2>1. PICK q : q = [i \in 0..m |-> r[a + i]]
    OBVIOUS
  <2>2. \A i \in 0..m : a + i \in 0..Len(s)
    BY <1>1
  <2>3. q \in [0..m -> Nat] /\ q[0] = r[a] /\ q[m] = r[b]
    <3>1. q \in [0..m -> Nat]
      BY <2>1, <2>2
    <3>2. 0 \in 0..m /\ m \in 0..m /\ a + 0 = a /\ a + m = b
      BY <1>1
    <3>. QED  BY ONLY <2>1, <3>1, <3>2
  <2>4. \A i \in 1..m : q[i] = q[i - 1] + vv[i]
    <3>. TAKE i \in 1..m
    <3>. PICK j : j = a + i
      OBVIOUS
    <3>1. j \in 1..Len(s) /\ a + (i - 1) = j - 1
      <4>1. i \in Nat /\ j \in Nat /\ j <= Len(s) /\ 1 <= j
        BY ONLY <1>1, a \in Nat, b \in Nat, b <= Len(s), Len(s) \in Nat, i \in 1..m, j = a + i
      <4>. QED  BY ONLY <4>1, a \in Nat, Len(s) \in Nat, j = a + i
    <3>2. i \in 0..m /\ i - 1 \in 0..m
      OBVIOUS
    <3>3. q[i] = r[j] /\ q[i - 1] = r[j - 1] /\ vv[i] = s[j].v
      BY <1>6, <2>1, <3>1, <3>2, j = a + i
    <3>4. r[j] = r[j - 1] + s[j].v
      BY <3>1
    <3>. QED  BY <3>3, <3>4
  <2>5. SumOf(vv) = q[m] - q[0]
    BY ONLY m \in Nat, <1>7, <2>3, <2>4, Telescope
  <2>. QED  BY <2>3, <2>5
<1>11. PICK lo, hi : lo = s[a + 1].t /\ hi = s[b].t /\ lo \in Nat /\ hi \in Nat
  <2>1. a + 1 \in 1..Len(s) /\ b \in 1..Len(s)
    OBVIOUS
  <2>. QED  BY <1>5, <2>1
<1>12. ASSUME InOrder(s), NEW i \in 1..m PROVE lo <= tt[i] /\ tt[i] <= hi
  <2>1. PICK j : j = a + i
    OBVIOUS
  <2>2. j \in 1..Len(s) /\ (j = b \/ j < b) /\ (j = a + 1 \/ a + 1 < j)
    BY <1>4, <2>1
  <2>3. DOMAIN s = 1..Len(s) /\ a + 1 \in 1..Len(s) /\ b \in 1..Len(s)
    OBVIOUS
  <2>4. PICK y \in Nat : y = s[j].t
    BY <1>5, <2>2
  <2>5. y = lo \/ lo < y
    <3>1. j = a + 1 \/ s[a + 1].t < s[j].t
      BY <1>12, <2>2, <2>3 DEF InOrder
    <3>. QED  BY <1>11, <2>4, <3>1
  <2>6. y = hi \/ y < hi
    <3>1. j = b \/ s[j].t < s[b].t
      BY <1>12, <2>2, <2>3 DEF InOrder
    <3>. QED  BY <1>11, <2>4, <3>1
  <2>7. lo <= y /\ y <= hi
    BY ONLY <1>11, y \in Nat, <2>5, <2>6
  <2>8. tt[i] = y
    BY <1>6, <2>1, <2>4
  <2>. QED  BY <2>7, <2>8
<1>14. ASSUME InOrder(s)
       PROVE  SumOf(tt) \div m \in Nat /\ lo <= SumOf(tt) \div m /\ SumOf(tt) \div m <= hi
  <2>1. \A i \in 1..m : lo <= tt[i] /\ tt[i] <= hi
    BY <1>12, <1>14
  <2>2. SumOf(tt) \in Nat /\ m * lo <= SumOf(tt) /\ SumOf(tt) <= m * hi
    BY ONLY m \in Nat, <1>7, <1>11, <2>1, SumBetween
  <2>. QED  BY ONLY <1>1, <1>11, <2>2, AverageBetween
<1>15. PICK x : x = Point(u)
  OBVIOUS
<1>16. x.time = SumOf(tt) \div m /\ x.total = SumOf(vv) /\ x.n = m
  BY <1>9, <1>15
<1>17. Averages(x, s, r, a, b)
  BY <1>1, <1>10, <1>11, <1>14, <1>16 DEF Averages
<1>. QED  BY <1>2, <1>15, <1>17

\* Prefix sums never go down.
LEMMA RunsUp ==
  ASSUME NEW n \in Nat, NEW w \in [1..n -> Nat], NEW r \in [0..n -> Nat],
         \A i \in 1..n : r[i] = r[i - 1] + w[i], NEW a \in 0..n, NEW b \in 0..n, a <= b
  PROVE  r[a] <= r[b]
<1>. DEFINE T == {i \in 0..n : a <= i => r[a] <= r[i]}
<1>1. 0 \in T
  BY a \in Nat
<1>2. ASSUME NEW m \in 0..n, m \in T, m # n PROVE m + 1 \in T
  <2>1. PICK l : l = m + 1
    OBVIOUS
  <2>2. l \in 1..n /\ l \in 0..n /\ l - 1 = m
    BY <1>2, <2>1
  <2>3. r[l] = r[m] + w[l]
    BY <2>2
  <2>4. r[l] \in Nat /\ r[m] \in Nat /\ r[a] \in Nat /\ w[l] \in Nat
    BY <2>2
  <2>5. a <= l => a = l \/ a <= m
    BY <2>1
  <2>. QED  BY <1>2, <2>1, <2>2, <2>3, <2>4, <2>5
<1>3. 0..n \subseteq T
  <2>. HIDE DEF T
  <2>. QED  BY <1>1, <1>2, Climb
<1>. QED  BY <1>3

\* What ChartKeepsTotal says of one chart.
KeepsTotal(samples, points) ==
    LET p == Asked(points)
        chart == Chart(samples, points)
        got == Len(chart)
    IN  /\ IF Len(samples) <= p THEN got = Len(samples) ELSE got >= p /\ got < 2 * p
        /\ SumOf([k \in 1..got |-> chart[k].total]) = SumOf([i \in DOMAIN samples |-> samples[i].v])
        /\ SumOf([k \in 1..got |-> chart[k].n]) = Len(samples)
        /\ InOrder(samples) => \A k \in 1..(got - 1) : chart[k].time < chart[k + 1].time

\* handler_stats.go:53-70: whatever the samples and the points asked for, the buckets
\* lie side by side and cover the samples.
LEMMA ChartOfSamples ==
  ASSUME NEW s \in Seq(Measured), NEW points \in Nat
  PROVE  KeepsTotal(s, points)
<1>1. PICK n, p : n = Len(s) /\ n \in Nat /\ DOMAIN s = 1..n /\ p = Asked(points) /\ p \in Nat \ {0}
  BY DEF Asked
<1>2. PICK size, count : size = BucketSize(n, p) /\ count = (n + size - 1) \div size
  OBVIOUS
<1>3. /\ size \in Nat \ {0} /\ count \in Nat
      /\ n <= count * size /\ (count = 0 \/ (count - 1) * size < n)
      /\ IF n <= p THEN size = 1 /\ count = n ELSE count >= p /\ count < 2 * p
  <2>1. n \in Nat /\ p \in Nat \ {0}
    BY <1>1
  <2>2. size = BucketSize(n, p) /\ count = (n + size - 1) \div size
    BY <1>2
  <2>3. Fits(n, p, size, count)
    BY ONLY <2>1, <2>2, Buckets
  <2>. QED  BY <2>3 DEF Fits
<1>4. PICK chart : chart = Chart(s, points) /\ chart = [k \in 1..count |-> Point(SubSeq(s, (k - 1) * size + 1, Ends((k - 1) * size, size, n)))]
  BY <1>1, <1>2 DEF Chart
<1>5. Len(chart) = count
  BY <1>3, <1>4
\* Where the buckets end.
<1>6. PICK e : e = [k \in 0..count |-> IF k * size > n THEN n ELSE k * size]
  OBVIOUS
<1>7. \A k \in 0..count : k * size \in Nat
  BY <1>3
<1>8. e \in [0..count -> 0..n] /\ e[0] = 0 /\ e[count] = n
  <2>1. e \in [0..count -> 0..n]
    BY <1>1, <1>6, <1>7
  <2>2. 0 * size = 0
    BY <1>3
  <2>. QED  BY <1>1, <1>3, <1>6, <1>7, <2>1, <2>2
<1>9. ASSUME NEW k \in 1..count
      PROVE  /\ e[k - 1] = (k - 1) * size /\ e[k] = Ends((k - 1) * size, size, n)
             /\ e[k - 1] \in Nat /\ e[k] \in Nat /\ e[k - 1] < e[k] /\ e[k] <= n
  <2>1. PICK a \in Nat : a = (k - 1) * size
    BY <1>3
  <2>2. k * size = a + size
    BY <1>3, <2>1
  <2>3. a <= (count - 1) * size
    <3>1. k - 1 <= count - 1 /\ k - 1 \in Nat /\ count - 1 \in Nat
      BY <1>3
    <3>. QED  BY <1>3, <2>1, <3>1
  <2>4. count # 0 /\ a < n
    <3>1. count # 0 /\ (count - 1) * size \in Int
      BY <1>3
    <3>. QED  BY <1>1, <1>3, <2>3, <3>1
  <2>5. k - 1 \in 0..count /\ k \in 0..count
    BY <1>3
  <2>6. e[k - 1] = a /\ e[k] = IF a + size > n THEN n ELSE a + size
    BY <1>1, <1>6, <2>1, <2>2, <2>4, <2>5
  <2>. QED  BY <1>1, <1>3, <2>1, <2>4, <2>6 DEF Ends
<1>10. PICK val : val = [i \in 1..n |-> s[i].v]
  OBVIOUS
<1>11. \A i \in 1..n : s[i].t \in Nat /\ s[i].v \in Nat
  <2>. TAKE i \in 1..n
  <2>1. s[i] \in Measured
    BY <1>1, ElementOfSeq
  <2>. QED  BY <2>1 DEF Measured
<1>12. val \in [1..n -> Nat]
  BY <1>10, <1>11
<1>13. PICK r \in [0..n -> Nat] : r[0] = 0 /\ (\A i \in 1..n : r[i] = r[i - 1] + val[i]) /\ SumOf(val) = r[n]
  BY <1>1, <1>12, PrefixSums
<1>14. ASSUME NEW k \in 1..count
       PROVE  /\ chart[k].n = e[k] - e[k - 1] /\ chart[k].total = r[e[k]] - r[e[k - 1]]
              /\ InOrder(s) => chart[k].time \in Nat /\ s[e[k - 1] + 1].t <= chart[k].time /\ chart[k].time <= s[e[k]].t
  <2>1. PICK a, b : a = e[k - 1] /\ b = e[k] /\ a \in Nat /\ b \in Nat /\ a < b /\ b <= Len(s)
    BY <1>1, <1>9
  <2>2. chart[k] = Point(SubSeq(s, a + 1, b))
    BY <1>4, <1>9, <2>1
  <2>3. r \in [0..Len(s) -> Nat] /\ \A i \in 1..Len(s) : r[i] = r[i - 1] + s[i].v
    BY <1>1, <1>10, <1>13
  <2>4. Averages(Point(SubSeq(s, a + 1, b)), s, r, a, b)
    <3>1. a \in Nat /\ b \in Nat /\ a < b /\ b <= Len(s)
      BY <2>1
    <3>2. s \in Seq(Measured)
      OBVIOUS
    <3>3. r \in [0..Len(s) -> Nat] /\ \A i \in 1..Len(s) : r[i] = r[i - 1] + s[i].v
      BY <2>3
    <3>. QED  BY ONLY <3>1, <3>2, <3>3, PointOfBucket
  <2>5. Averages(chart[k], s, r, a, b)
    BY ONLY <2>2, <2>4
  <2>. QED  BY ONLY <2>1, <2>5 DEF Averages
<1>15. SumOf([k \in 1..count |-> chart[k].n]) = n
  <2>1. PICK w : w = [k \in 1..count |-> chart[k].n]
    OBVIOUS
  <2>2. \A k \in 1..count : w[k] = e[k] - e[k - 1] /\ w[k] \in Nat /\ e[k] = e[k - 1] + w[k]
    BY <1>9, <1>14, <2>1
  <2>3. w \in [1..count -> Nat]
    BY <2>1, <2>2
  <2>4. e \in [0..count -> Nat]
    BY <1>1, <1>8
  <2>5. SumOf(w) = e[count] - e[0]
    BY ONLY <1>3, <2>2, <2>3, <2>4, Telescope
  <2>. QED  BY <1>1, <1>8, <2>1, <2>5
<1>16. SumOf([k \in 1..count |-> chart[k].total]) = SumOf(val)
  <2>1. PICK w, q : w = [k \in 1..count |-> chart[k].total] /\ q = [k \in 0..count |-> r[e[k]]]
    OBVIOUS
  <2>2. q \in [0..count -> Nat] /\ q[0] = 0 /\ q[count] = r[n]
    BY <1>1, <1>3, <1>8, <1>13, <2>1
  <2>3. ASSUME NEW k \in 1..count PROVE w[k] \in Nat /\ q[k] = q[k - 1] + w[k]
    <3>1. w[k] = r[e[k]] - r[e[k - 1]] /\ q[k] = r[e[k]] /\ q[k - 1] = r[e[k - 1]]
      BY <1>3, <1>14, <2>1
    <3>2. PICK a \in 0..n, b \in 0..n : a = e[k - 1] /\ b = e[k] /\ a < b
      BY <1>1, <1>9
    <3>3. r[a] \in Nat /\ r[b] \in Nat /\ r[a] <= r[b]
      <4>1. r[a] \in Nat /\ r[b] \in Nat
        BY <1>13, <3>2
      <4>2. n \in Nat /\ a \in 0..n /\ b \in 0..n /\ a <= b
        BY <1>1, <3>2
      <4>3. r[a] <= r[b]
        BY ONLY <1>12, <1>13, <4>2, RunsUp
      <4>. QED  BY <4>1, <4>3
    <3>. QED  BY <3>1, <3>2, <3>3
  <2>4. w \in [1..count -> Nat]
    BY <2>1, <2>3
  <2>5. SumOf(w) = q[count] - q[0]
    BY ONLY <1>3, <2>2, <2>3, <2>4, Telescope
  <2>. QED  BY <1>1, <1>13, <2>1, <2>2, <2>5
<1>17. ASSUME InOrder(s), NEW k \in 1..(count - 1) PROVE chart[k].time < chart[k + 1].time
  <2>1. k \in 1..count /\ k + 1 \in 1..count /\ (k + 1) - 1 = k
    BY <1>3
  <2>2. PICK b \in Nat : b = e[k] /\ b + 1 <= n /\ b >= 1
    BY <1>1, <1>9, <2>1
  <2>3. s[b].t < s[b + 1].t /\ s[b].t \in Nat /\ s[b + 1].t \in Nat
    <3>1. PICK c \in Nat : c = b + 1
      OBVIOUS
    <3>2. b \in 1..n /\ c \in 1..n /\ b \in DOMAIN s /\ c \in DOMAIN s /\ b < c
      BY <1>1, <2>2, <3>1
    <3>3. s[b].t < s[c].t
      BY <1>17, <3>2 DEF InOrder
    <3>. QED  BY <1>11, <3>1, <3>2, <3>3
  <2>4. chart[k].time <= s[b].t /\ s[b + 1].t <= chart[k + 1].time /\ chart[k].time \in Nat /\ chart[k + 1].time \in Nat
    <3>1. chart[k].time \in Nat /\ chart[k].time <= s[e[k]].t
      BY <1>14, <1>17, <2>1
    <3>2. chart[k + 1].time \in Nat /\ s[e[(k + 1) - 1] + 1].t <= chart[k + 1].time
      BY <1>14, <1>17, <2>1
    <3>. QED  BY <2>1, <2>2, <3>1, <3>2
  <2>. QED  BY <2>3, <2>4
<1>. QED  BY <1>1, <1>3, <1>4, <1>5, <1>10, <1>15, <1>16, <1>17 DEF KeepsTotal

\* handler_stats.go:33-73: whatever devices come and go, in whatever order the
\* snapshots are saved, and however many there are and points are asked for, a chart
\* loses and repeats nothing, and keeps the order of time of samples that are in it.
THEOREM ChartsKeepTotals == HistSpec => []ChartKeepsTotal
<1>1. HistInit => HistTypeOK
  <2>. SUFFICES ASSUME window = <<>> PROVE HistTypeOK
    BY DEF HistInit
  <2>. QED  BY DEF HistTypeOK
<1>2. HistTypeOK /\ [Snapshot]_window => HistTypeOK'
  <2>. SUFFICES ASSUME HistTypeOK, [Snapshot]_window PROVE HistTypeOK'
    OBVIOUS
  <2>1. CASE UNCHANGED window
    BY <2>1 DEF HistTypeOK, Readings
  <2>2. CASE Snapshot
    <3>1. PICK R : R = [time : Nat, reading : Readings] /\ window \in Seq(R)
      BY DEF HistTypeOK
    <3>2. PICK devs \in SUBSET Range(Devices), gap \in Gaps : \E reading \in [devs -> Values] :
            LET time == gap + IF window = <<>> THEN 0 ELSE window[Len(window)].time
            IN  /\ time \in Nat \ {window[i].time : i \in DOMAIN window}
                /\ window' = Append(window, [time |-> time, reading |-> reading])
      BY <2>2 DEF Snapshot
    <3>3. PICK time : time = gap + IF window = <<>> THEN 0 ELSE window[Len(window)].time
      OBVIOUS
    <3>4. PICK reading \in [devs -> Values] :
            time \in Nat /\ window' = Append(window, [time |-> time, reading |-> reading])
      BY <3>2, <3>3
    <3>5. PICK x : x = [time |-> time, reading |-> reading] /\ x \in R
      BY <3>1, <3>4 DEF Readings
    <3>6. PICK v : v = window' /\ v = Append(window, x) /\ v \in Seq(R)
      BY <3>1, <3>4, <3>5, AppendProperties
    <3>. QED  BY <3>1, <3>6 DEF HistTypeOK, Readings
  <2>. QED  BY <2>1, <2>2
<1>3. HistTypeOK => ChartKeepsTotal
  <2>1. ASSUME HistTypeOK, NEW samples \in Asks, NEW points \in 0..MaxPoints PROVE KeepsTotal(samples, points)
    <3>1. PICK metric \in Metrics, selector \in Selectors : samples = Samples(metric, selector)
      BY DEF Asks
    <3>2. samples \in Seq(Measured)
      BY <2>1, <3>1, SamplesAreMeasured
    <3>3. points \in Nat
      BY HistoryAssumption
    <3>. QED  BY ONLY <3>2, <3>3, ChartOfSamples
  <2>. QED  BY <2>1, Zenon DEF ChartKeepsTotal, KeepsTotal
<1>. QED  BY <1>1, <1>2, <1>3, PTL DEF HistSpec

==============================================================================
