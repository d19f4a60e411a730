--------------------------- MODULE ContainerView ---------------------------
(***************************************************************************)
(* What the dashboard shows of one answer of the Docker engine: the ports  *)
(* of a container as chips (internal/collector/docker_ports.go) and its    *)
(* memory without reclaimable cache (docker.go).  The engine reports each  *)
(* published port once for each IP family, in any order.  A chip is kept   *)
(* as the container ports it stands for; its wording is left out.          *)
(***************************************************************************)
EXTENDS Integers, Sequences, FiniteSets, FiniteSetsExt, SequencesExt

CONSTANTS
    Ports,       \* what the engine may report: [ip, host, cont, proto]
    MaxPorts,    \* bound: entries in one report
    MemoryBytes  \* bound: each figure of a memory report

ASSUME ViewAssumption ==
    /\ \A p \in Ports : p.host \in Nat /\ p.cont \in Nat \ {0}
    /\ MaxPorts \in Nat /\ MemoryBytes \in Nat

VARIABLES
    report,    \* item.Ports, as the engine sent them
    uniq,      \* dedupePorts(report)
    memStats,  \* memory_stats
    used       \* c.MemUsedBytes

viewVars == <<report, uniq, memStats, used>>

------------------------------------------------------------------------------
Key(p) == [host |-> p.host, cont |-> p.cont, proto |-> p.proto]
Published(p) == p.host # 0
ProtoRank == [tcp |-> 1, udp |-> 2]

\* The first entry of each key stays.
Firsts(ps) == {i \in DOMAIN ps : \A j \in 1..(i - 1) : Key(ps[j]) # Key(ps[i])}

Before(p, q) ==
    \/ p.cont < q.cont
    \/ p.cont = q.cont /\ ProtoRank[p.proto] < ProtoRank[q.proto]

\* sort.Slice: ordered by container port and protocol, ties in any order.
DedupePorts(ps) ==
    {u \in SetToSeqs({ps[i] : i \in Firsts(ps)}) : \A i, j \in DOMAIN u : i < j => ~Before(u[j], u[i])}

Offset(p) == p.host - p.cont

\* Slip: the offset of the published ports is not compared.
Joined_AnyOffset(p, q) ==
    q.proto = p.proto /\ q.cont = p.cont + 1 /\ Published(p) = Published(q)

\* Port q extends the run that ends in p: same protocol, next container port,
\* both published by the same offset or both unpublished.
Joined(p, q) ==
    /\ q.proto = p.proto /\ q.cont = p.cont + 1
    /\ Published(p) = Published(q)
    /\ Published(p) => Offset(p) = Offset(q)

RunStarts(u) == {i \in DOMAIN u : i = 1 \/ ~Joined(u[i - 1], u[i])}
RunEnd(u, i) == Min({k \in DOMAIN u : k >= i /\ (k + 1) \notin DOMAIN u \ RunStarts(u)})

Chip(p, q) == [host |-> p.host, first |-> p.cont, last |-> q.cont, proto |-> p.proto]

\* buildPortChips, as a set: a run of three or more is one chip.
Chips(u) ==
    UNION {LET e == RunEnd(u, i)
           IN  IF e - i + 1 >= 3 THEN {Chip(u[i], u[e])} ELSE {Chip(u[k], u[k]) : k \in i..e}
           : i \in RunStarts(u)}

------------------------------------------------------------------------------
CacheBytes_AnySize(m) == IF m.total_inactive > 0 THEN m.total_inactive ELSE m.inactive    \* Slip

\* cacheBytes: the first of the three figures that is there and smaller than usage.
CacheBytes(m) ==
    LET fits(n) == n > 0 /\ n < m.usage
    IN  IF fits(m.total_inactive) THEN m.total_inactive
        ELSE IF fits(m.inactive) THEN m.inactive
        ELSE IF fits(m.cache) THEN m.cache ELSE 0

\* The subtraction is of unsigned integers; a result below 0 stands for a huge one.
UsedBytes(m) == m.usage - CacheBytes(m)

MemoryReports == [usage : 0..MemoryBytes, total_inactive : 0..MemoryBytes,
                  inactive : 0..MemoryBytes, cache : 0..MemoryBytes]
NoMemory == [usage |-> 0, total_inactive |-> 0, inactive |-> 0, cache |-> 0]

ViewInit == report = <<>> /\ uniq = <<>> /\ memStats = NoMemory /\ used = 0

\* The engine reports one more port; buildContainer starts from the whole report.
ReportPort ==
    /\ Len(report) < MaxPorts /\ memStats = NoMemory
    /\ \E p \in Ports : report' = Append(report, p)
    /\ uniq' \in DedupePorts(report')
    /\ UNCHANGED <<memStats, used>>

ReportMemory ==
    /\ report = <<>>
    /\ memStats' \in MemoryReports
    /\ used' = UsedBytes(memStats')
    /\ UNCHANGED <<report, uniq>>

ViewNext == ReportPort \/ ReportMemory

ViewSpec == ViewInit /\ [][ViewNext]_viewVars

------------------------------------------------------------------------------
\* The ports a chip stands for.
Expand(c) ==
    {[host |-> IF c.host = 0 THEN 0 ELSE c.host + k, cont |-> c.first + k, proto |-> c.proto]
       : k \in 0..(c.last - c.first)}

\* A range chip replaces three ports at least; one or two keep their own chips.
OnlyLongRunsCollapse == \A c \in Chips(uniq) : c.first = c.last \/ c.last - c.first >= 2

\* The chips stand for exactly the mappings the engine reported: none is lost
\* or made up, and two chips never show the same one.
ChipsAreThePorts ==
    /\ OnlyLongRunsCollapse
    /\ UNION {Expand(c) : c \in Chips(uniq)} = {Key(report[i]) : i \in DOMAIN report}
    /\ \A c, d \in Chips(uniq) : c # d => Expand(c) \cap Expand(d) = {}

\* The memory shown is never below zero (a huge unsigned number), and never 0
\* while some is in use: the cache taken off is smaller than the usage.
MemoryIsReal == used >= 0 /\ used <= memStats.usage /\ (memStats.usage > 0 => used > 0)

==============================================================================
