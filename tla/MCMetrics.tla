----------------------------- MODULE MCMetrics -----------------------------
(***************************************************************************)
(* The figures the dashboard shows, on their way from the host to the      *)
(* charts: the collectors of internal/collector that remember something    *)
(* between two ticks or choose between what the host offers (Docker, the   *)
(* counter rates, the CPU usage, the disks, the single readings), the      *)
(* window the snapshots are kept in, the charts made of it, the uptime log *)
(* and the alarms.  None reads what another keeps (CollectionLoop has what *)
(* runs between them), so their properties hold side by side exactly if    *)
(* each holds alone: part picks the one that moves, and the others rest in *)
(* their initial states.                                                   *)
(*                                                                         *)
(* Docker: one container; each container has its own entry in every map.   *)
(* Ports: four container ports, two protocols, published at one of two     *)
(* offsets or not at all, one of them also on the other IP family.         *)
(* Disks: two disks, two partitions of the first, and two mapped devices,  *)
(* the second of which may stand on the first (LUKS on LVM, LVM on md).    *)
(***************************************************************************)
EXTENDS MetricStore, UptimeLog, Alarms, DockerCollector, ContainerView, Rates, HostDisks,
        HostReadings, CPUUsage, History

VARIABLE part

storedVars == <<metricVars, window, upVars, alarmVars>>
collectorVars == <<dockerVars, viewVars, rateVars, cpuVars, hostVars, readingVars>>
vars == <<part, storedVars, collectorVars>>

Port(ip, host, cont, proto) == [ip |-> ip, host |-> host, cont |-> cont, proto |-> proto]
MCPorts == {Port("v4", 10 + c, c, "tcp") : c \in 1..4}
           \cup {Port("v6", 12, 2, "tcp"), Port("v4", 22, 2, "tcp"), Port("v4", 12, 2, "udp"), Port("v4", 0, 3, "tcp")}

MCPartOf == [p \in {"sda1", "sda2"} |-> "sda"]
MCMapped == <<"dm0", "dm1">>

\* On the host, where /hostproc and /hostfs are nobody's, or there by hand; and in
\* a container with either, both or neither of the host's /proc and / mounted.
MCSetups == [contained : BOOLEAN, hostProc : BOOLEAN, hostRoot : BOOLEAN]
MCOnHost == {s \in MCSetups : ~s.contained}

MCDevices == <<"a", "b">>
MCGaps == {2, -1}

FS(dev, onDevice, pseudo) == [dev |-> dev, onDevice |-> onDevice, pseudo |-> pseudo]

MCFilesystems ==
    {FS("sda", TRUE, FALSE), FS("sdb", TRUE, FALSE), FS("loop0", TRUE, TRUE), FS("overlay", FALSE, TRUE)}

\* What rests has one initial state only.
MetricsInit ==
    /\ part \in {"store", "charts", "uptime", "alarm", "docker", "view", "rate", "cpu", "disks", "memory", "zones", "mounts"}
    /\ info \in IF part = "memory" THEN Infos ELSE {[f \in Fields |-> 0]}
    /\ zones \in IF part = "zones" THEN Zones ELSE {<<>>}
    /\ mounts \in IF part = "mounts" THEN Tables ELSE {<<[fs |-> FS("overlay", FALSE, TRUE), at |-> "/"]>>}
    /\ part # "mounts" => atStart = mounts /\ configured = <<>>
    /\ part # "disks" => setup = [contained |-> FALSE, hostProc |-> FALSE, hostRoot |-> FALSE] /\ slaves = [d \in MappedDevs |-> {"sda"}]
    /\ part # "uptime" => boot = 2
    /\ part # "docker" => state = [c \in Ids |-> "none"]
    /\ part # "rate" => table = NoRow
    /\ MetricInit /\ HistInit /\ UpInit /\ AlarmInit
    /\ DockerInit /\ ViewInit /\ RateInit /\ CPUInit /\ HostInit /\ ReadInit

StoreMoves ==
    /\ UNCHANGED collectorVars
    /\ \/ part = "store" /\ MetricNext /\ UNCHANGED <<window, upVars, alarmVars>>
       \/ part = "charts" /\ Snapshot /\ UNCHANGED <<metricVars, upVars, alarmVars>>
       \/ part = "uptime" /\ UpNext /\ UNCHANGED <<metricVars, window, alarmVars>>
       \/ part = "alarm" /\ AlarmNext /\ UNCHANGED <<metricVars, window, upVars>>

CollectorMoves ==
    /\ UNCHANGED storedVars
    /\ \/ part = "docker" /\ DockerNext /\ UNCHANGED <<viewVars, rateVars, cpuVars, hostVars, readingVars>>
       \/ part = "view" /\ ViewNext /\ UNCHANGED <<dockerVars, rateVars, cpuVars, hostVars, readingVars>>
       \/ part = "rate" /\ RateNext /\ UNCHANGED <<dockerVars, viewVars, cpuVars, hostVars, readingVars>>
       \/ part = "cpu" /\ CPUNext /\ UNCHANGED <<dockerVars, viewVars, rateVars, hostVars, readingVars>>
       \/ part = "disks" /\ HostNext /\ UNCHANGED <<dockerVars, viewVars, rateVars, cpuVars, readingVars>>

ReadingMoves ==
    /\ UNCHANGED <<storedVars, dockerVars, viewVars, rateVars, cpuVars, hostVars>>
    /\ \/ part = "memory" /\ ReadMemory
       \/ part = "zones" /\ ReadTemps
       \/ part = "mounts" /\ MountNext

MetricsNext == UNCHANGED part /\ (StoreMoves \/ CollectorMoves \/ ReadingMoves)

MetricsSpec == MetricsInit /\ [][MetricsNext]_vars

==============================================================================
