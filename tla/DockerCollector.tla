-------------------------- MODULE DockerCollector --------------------------
(***************************************************************************)
(* The Docker collector of internal/collector/docker.go.  refresh() lists  *)
(* the containers, then asks the engine about each in turn: live counters  *)
(* of those listed as running, and, when more than InspectEvery has passed *)
(* since it last asked, their inspection.  At the end it swaps the         *)
(* published list under the lock.  Containers start, stop, work and go     *)
(* between any two of these calls, and every call may fail.                *)
(***************************************************************************)
EXTENDS Integers, FiniteSets

CONSTANTS
    Ids,           \* container ids
    InspectEvery,  \* 15 s
    Modulus,       \* 2^64: the counters are unsigned
    MaxWork,       \* bound on a container's counters
    DockerMaxTime  \* bound on the clock

ASSUME DockerAssumption ==
    /\ InspectEvery \in Nat /\ MaxWork \in Nat /\ DockerMaxTime \in Nat
    /\ Modulus \in Nat /\ Modulus > MaxWork /\ Modulus > DockerMaxTime

VARIABLES
    state,         \* id -> "none", "running" or "exited"
    work,          \* id -> its CPU time and its traffic since it was started
    dockerNow,     \* the clock, and the host's CPU counter
    began,         \* now of the refresh under way, else 0
    todo,          \* listed containers it has not asked about yet: [id, state]
    out,           \* those it has, as they will be published
    dockerPc,      \* "idle", "volumes" or "build"
    containers,    \* d.containers
    prevStats,     \* id -> [work, sys, at] of the last counters read
    lastInspect,   \* id -> when it was last inspected
    inspectCache,  \* id -> what an inspection found
    lastVolFetch,  \* when /system/df was last asked
    sampled,       \* history: containers whose counters this refresh has read
    sameRun,       \* history: those that run on since their counters were last read
    moved          \* history: id -> their traffic since then

world == <<state, work, dockerNow>>
remembered == <<prevStats, lastInspect, inspectCache, lastVolFetch>>
traffic == <<sameRun, moved>>
dockerVars == <<world, began, todo, out, dockerPc, containers, remembered, sampled, traffic>>

------------------------------------------------------------------------------
Unknown == "unknown"          \* no entry in a map
LongAgo == -InspectEvery - 1  \* the zero time: longer ago than InspectEvery
NoSample == [work |-> 0, sys |-> 0, at |-> LongAgo]

Due(last) == dockerNow - last > InspectEvery

\* uint64 subtraction.
Minus(a, b) == (a - b) % Modulus

Gained_Unguarded(cur, prev) == Minus(cur, prev)    \* Slip

\* A byte counter's growth, 0 after a reset (block and network rates).
Gained(cur, prev) == IF cur >= prev THEN Minus(cur, prev) ELSE 0

\* The engine's counters; all zero for a container that is not running.
Reading(i) == IF state[i] = "running" THEN [work |-> work[i], sys |-> dockerNow] ELSE [work |-> 0, sys |-> 0]

\* What attachLiveStats reports on reading r after sample prev, if there is one:
\* the traffic of dSeconds and the CPU time of sysDelta, left as differences.
Live(r, prev) ==
    [traffic |-> IF prev # NoSample /\ began - prev.at > 0 THEN Gained(r.work, prev.work) ELSE 0,
     cpu |-> IF prev # NoSample /\ Minus(r.sys, prev.sys) > 0 THEN Minus(r.work, prev.work) ELSE 0]

NotLive == [traffic |-> 0, cpu |-> 0]

DockerInit ==
    /\ state \in [Ids -> {"none", "running"}]
    /\ work = [i \in Ids |-> 0] /\ dockerNow = 0
    /\ began = 0 /\ todo = {} /\ out = {} /\ dockerPc = "idle"
    /\ containers = {}
    /\ prevStats = [i \in Ids |-> NoSample]
    /\ lastInspect = [i \in Ids |-> LongAgo]
    /\ inspectCache = [i \in Ids |-> Unknown]
    /\ lastVolFetch = LongAgo
    /\ sampled = {} /\ sameRun = {} /\ moved = [i \in Ids |-> 0]

------------------------------------------------------------------------------
Start(i) ==
    /\ state[i] # "running"
    /\ state' = [state EXCEPT ![i] = "running"]
    /\ work' = [work EXCEPT ![i] = 0]
    /\ UNCHANGED <<dockerNow, traffic>>

Stop(i) ==
    /\ state[i] = "running"
    /\ state' = [state EXCEPT ![i] = "exited"]
    /\ sameRun' = sameRun \ {i} /\ moved' = [moved EXCEPT ![i] = 0]
    /\ UNCHANGED <<work, dockerNow>>

RemoveContainer(i) ==
    /\ state[i] = "exited"
    /\ state' = [state EXCEPT ![i] = "none"]
    /\ UNCHANGED <<work, dockerNow, traffic>>

Work(i) ==
    /\ state[i] = "running" /\ work[i] < MaxWork
    /\ work' = [work EXCEPT ![i] = @ + 1]
    /\ moved' = [moved EXCEPT ![i] = IF i \in sameRun THEN @ + 1 ELSE 0]
    /\ UNCHANGED <<state, dockerNow, sameRun>>

EngineTimePasses ==
    /\ dockerNow < DockerMaxTime
    /\ dockerNow' = dockerNow + 1
    /\ UNCHANGED <<state, work, traffic>>

Engine ==
    /\ EngineTimePasses \/ \E i \in Ids : Start(i) \/ Stop(i) \/ RemoveContainer(i) \/ Work(i)
    /\ UNCHANGED <<began, todo, out, dockerPc, containers, remembered, sampled>>

------------------------------------------------------------------------------
\* The listing; when it fails, refresh returns and nothing changes.
List ==
    /\ dockerPc = "idle"
    /\ todo' = {[id |-> i, state |-> state[i]] : i \in {j \in Ids : state[j] # "none"}}
    /\ out' = {} /\ sampled' = {}
    /\ dockerPc' = "volumes"
    /\ UNCHANGED <<world, began, containers, remembered, traffic>>

\* refreshVolumeSizes if due, then now := time.Now().
Volumes ==
    /\ dockerPc = "volumes"
    /\ lastVolFetch' = IF Due(lastVolFetch) THEN dockerNow ELSE lastVolFetch
    /\ began' = dockerNow
    /\ dockerPc' = "build"
    /\ UNCHANGED <<world, todo, out, containers, prevStats, lastInspect, inspectCache, sampled, traffic>>

\* inspectOne if due; a failure keeps what is cached.
Inspect(i) ==
    IF Due(lastInspect[i])
    THEN /\ lastInspect' = [lastInspect EXCEPT ![i] = dockerNow]
         /\ \/ UNCHANGED inspectCache
            \/ /\ state[i] # "none"
               /\ inspectCache' = [inspectCache EXCEPT ![i] = state[i]]
    ELSE UNCHANGED <<lastInspect, inspectCache>>

\* attachLiveStats, as far as prevStats goes: only counters that were read count.
Sampled_Anew(i, heard) ==    \* Slip: a call that fails leaves nothing to compare with
    IF heard THEN [work |-> Reading(i).work, sys |-> Reading(i).sys, at |-> began] ELSE NoSample

Sampled(i, heard) ==
    IF heard THEN [work |-> Reading(i).work, sys |-> Reading(i).sys, at |-> began] ELSE prevStats[i]

\* buildContainer: the cached inspection, the live counters of a container
\* listed as running if the engine answers, then the next inspection.
BuildContainer(item) ==
    /\ dockerPc = "build" /\ item \in todo
    /\ todo' = todo \ {item}
    /\ \E engineAnswers \in BOOLEAN :
         LET i == item.id
             heard == engineAnswers /\ item.state = "running" /\ state[i] # "none"
         IN  /\ out' = out \cup {[id |-> i, health |-> inspectCache[i],
                                  live |-> IF heard THEN Live(Reading(i), prevStats[i]) ELSE NotLive]}
             /\ prevStats' = IF item.state = "running"
                             THEN [prevStats EXCEPT ![i] = Sampled(i, heard)] ELSE prevStats
             /\ sampled' = IF heard THEN sampled \cup {i} ELSE sampled
             /\ sameRun' = IF heard /\ state[i] = "running" THEN sameRun \cup {i} ELSE sameRun
             /\ moved' = IF heard THEN [moved EXCEPT ![i] = 0] ELSE moved
    /\ Inspect(item.id)
    /\ UNCHANGED <<world, began, dockerPc, containers, lastVolFetch>>

PublishContainers ==
    /\ dockerPc = "build" /\ todo = {}
    /\ containers' = out
    /\ out' = {} /\ dockerPc' = "idle" /\ began' = 0
    /\ UNCHANGED <<world, todo, remembered, sampled, traffic>>

DockerNext == Engine \/ List \/ Volumes \/ (\E item \in todo : BuildContainer(item)) \/ PublishContainers

DockerSpec == DockerInit /\ [][DockerNext]_dockerVars

------------------------------------------------------------------------------
Times == {LongAgo} \cup 0..DockerMaxTime
States == {"none", "running", "exited"}
Items == [id : Ids, state : States \ {"none"}]
Counters == 0..(Modulus - 1)
Rows == [id : Ids, health : States \cup {Unknown}, live : [traffic : Counters, cpu : Counters]]

DockerTypeOK ==
    /\ todo \subseteq Items /\ dockerPc \in {"idle", "volumes", "build"}
    /\ out \subseteq Rows /\ containers \subseteq Rows
    /\ prevStats \in [Ids -> [work : 0..MaxWork, sys : 0..DockerMaxTime, at : Times]]
    /\ lastInspect \in [Ids -> Times] /\ lastVolFetch \in Times
    /\ inspectCache \in [Ids -> (States \ {"none"}) \cup {Unknown}]
    /\ sampled \subseteq Ids /\ sameRun \subseteq Ids /\ moved \in [Ids -> 0..MaxWork]

\* The traffic of a rate is no more than the container's counter holds: a
\* restart between two refreshes, or before the reading, never shows as a burst.
TrafficIsReal ==
    []DockerTypeOK /\ [][\A r \in out' \ out : r.live.traffic <= Reading(r.id).work]_dockerVars

\* And none is lost: however many stats calls fail, or refreshes find the container
\* unlisted, the next that is answered shows all the traffic since the last that
\* was, if the container has run all along (and time has passed, docker.go:223).
NoTrafficIsLost ==
    [][\A r \in out' \ out :
          (r.id \in sampled' \ sampled /\ r.id \in sameRun /\ began > prevStats[r.id].at) =>
             r.live.traffic = moved[r.id]]_dockerVars

\* docker.go:211 reports a CPU rate only when "cpuDelta >= 0", that is when the
\* counter has not gone back: the CPU time is no more than the counter holds.
CPUTimeIsReal ==
    [][\A r \in out' \ out : r.live.cpu <= Reading(r.id).work]_dockerVars

==============================================================================
