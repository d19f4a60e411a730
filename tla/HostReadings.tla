---------------------------- MODULE HostReadings ----------------------------
(***************************************************************************)
(* What internal/collector reads of the host in one go each tick: memory   *)
(* (memory.go), temperatures (thermal.go) and filesystems (disk.go).  The  *)
(* thermal zones and the mounts to follow are resolved once, when the      *)
(* collector is made; zones then fail to be read now and then, and         *)
(* filesystems are mounted and unmounted.  A percentage is the quotient of *)
(* two of the figures kept here.                                           *)
(***************************************************************************)
EXTENDS Integers, Sequences, SequencesExt, FiniteSets, FiniteSetsExt

CONSTANTS
    MaxKB,      \* bound on the kernel's memory figures
    MemModulus, \* 2^64: they are unsigned
    MaxZones,   \* bound on the thermal zones
    Filesystems,\* what can be mounted: [dev, onDevice, pseudo]
    Paths,      \* mount points other than "/"
    MaxMounts   \* bound on the lines of /proc/mounts

ASSUME ReadingsAssumption ==
    /\ MaxKB \in Nat /\ MemModulus \in Nat /\ MemModulus > 3 * MaxKB
    /\ MaxZones \in Nat /\ MaxMounts \in Nat /\ "/" \notin Paths /\ Paths \subseteq STRING
    /\ \A f \in Filesystems : f.onDevice \in BOOLEAN /\ f.pseudo \in BOOLEAN

VARIABLES
    info,        \* /proc/meminfo: field -> kB
    ram,         \* the RAM and swap figures reported last, or Unread
    zones,       \* the thermal zones: a sequence of labels
    temps,       \* the zones reported last
    atStart,     \* /proc/mounts when the collector was made, or Unread if unreadable
    mounts,      \* /proc/mounts now: a sequence of [fs, at], later ones on top
    configured,  \* DISK_MOUNTS
    disks,       \* the rows reported last: [mount, dev, bytes], or Unread
    answered     \* history: the mount points statfs answered for in the last report

memoryVars == <<info, ram>>
zoneVars == <<zones, temps>>
mountVars == <<atStart, mounts, configured, disks, answered>>
readingVars == <<memoryVars, zoneVars, mountVars>>

------------------------------------------------------------------------------
Unread == <<>>

MinusKB(a, b) == (a - b) % MemModulus

\* A field that has no line reads as 0.
Fields == {"MemTotal", "MemFree", "Buffers", "Cached", "SReclaimable", "Shmem", "MemAvailable", "SwapTotal", "SwapFree"}
Infos == [Fields -> 0..MaxKB]

Cache(i) == IF i.Cached + i.SReclaimable > i.Shmem THEN i.Cached + i.SReclaimable - i.Shmem ELSE 0

\* Slip: what the kernel calls available may exceed the total.
Available_Uncapped(i) == IF i.MemAvailable = 0 THEN i.MemFree + i.Buffers + Cache(i) ELSE i.MemAvailable

\* Kernels before 3.14 do not say what is available.
Available(i) ==
    LET said == IF i.MemAvailable = 0 THEN i.MemFree + i.Buffers + Cache(i) ELSE i.MemAvailable
    IN  IF said > i.MemTotal THEN i.MemTotal ELSE said

Ram(i) ==
    [total |-> i.MemTotal, available |-> Available(i), used |-> MinusKB(i.MemTotal, Available(i)), cache |-> Cache(i),
     swapTotal |-> i.SwapTotal, swapUsed |-> MinusKB(i.SwapTotal, i.SwapFree)]

Labels == {"pkg", "core", "acpitz", "other"}   \* classes of labels

Zones == BoundedSeq(Labels, MaxZones)

\* The first zone whose label names the package, or else a core, or else ACPI,
\* or else the first of all.
PrimaryZone(zs) ==
    LET labelled(label) == {z \in DOMAIN zs : zs[z] = label}
        best == CASE labelled("pkg") # {} -> labelled("pkg")
                  [] labelled("pkg") = {} /\ labelled("core") # {} -> labelled("core")
                  [] labelled("pkg") = {} /\ labelled("core") = {} /\ labelled("acpitz") # {} -> labelled("acpitz")
                  [] OTHER -> DOMAIN zs
    IN  IF zs = <<>> THEN 0 ELSE Min(best)

Entries == [fs : Filesystems, at : Paths \cup {"/"}]
Entry(dev, at) == [fs |-> [dev |-> dev, onDevice |-> FALSE, pseudo |-> FALSE], at |-> at]
RootEntry == Entry("/", "/")

\* discoverMounts drops what is not a filesystem on a device of its own.
IsReal(e) == ~e.fs.pseudo /\ e.fs.onDevice

\* The members of s at the places of keep, in their order.
AtPlaces(s, keep) ==
    LET upto[i \in 0..Len(s)] ==
            IF i = 0 THEN <<>> ELSE IF i \in keep THEN Append(upto[i - 1], s[i]) ELSE upto[i - 1]
    IN  upto[Len(s)]

RealOnes(table) == {i \in DOMAIN table : IsReal(table[i])}

\* Slip: a root that is not on a device is left out.
Discovered_RealOnly(table) == AtPlaces(table, RealOnes(table))

Discovered(table) ==
    LET found == AtPlaces(table, RealOnes(table))
    IN  IF \E i \in RealOnes(table) : table[i].at = "/" THEN found ELSE <<RootEntry>> \o found

\* resolveDiskMounts: the configured list as it is, or what is discovered.
Followed ==
    CASE configured # <<>> -> [i \in DOMAIN configured |-> Entry(configured[i], configured[i])]
      [] configured = <<>> /\ atStart = Unread -> <<RootEntry>>
      [] OTHER -> Discovered(atStart)

\* The filesystem statfs finds at p: what is mounted there last, or else the
\* one the directory p is in.
Top(p) ==
    LET on(q) == {i \in DOMAIN mounts : mounts[i].at = q}
    IN  mounts[Max(IF on(p) = {} THEN on("/") ELSE on(p))].fs.dev

\* readDisks and statMount.
MountRows(ok) ==
    LET there == AtPlaces(Followed, {i \in DOMAIN Followed : Followed[i].at \in ok})
    IN  [i \in DOMAIN there |-> [mount |-> there[i].at, dev |-> there[i].fs.dev, bytes |-> Top(there[i].at)]]

\* The root is mounted first and may be an overlay.
Tables == {t \in BoundedSeq(Entries, MaxMounts) : t # <<>> /\ t[1].at = "/" /\ \A i \in 2..Len(t) : t[i].at # "/"}

ReadInit ==
    /\ info \in Infos /\ ram = Unread
    /\ zones \in Zones /\ temps = {}
    /\ mounts \in Tables /\ atStart \in {mounts, Unread} /\ configured \in {<<>>} \cup {<<p>> : p \in Paths}
    /\ disks = Unread /\ answered = {}

------------------------------------------------------------------------------
ReadMemory == ram' \in {Ram(info), Unread} /\ UNCHANGED <<info, zoneVars, mountVars>>

\* A zone whose temperature cannot be read is missing from the report.
ReadTemps ==
    /\ \E ok \in SUBSET DOMAIN zones : temps' = {[zone |-> i, isPrimaryCPU |-> i = PrimaryZone(zones)] : i \in ok}
    /\ UNCHANGED <<zones, memoryVars, mountVars>>

\* statfs always answers for the root.
ReadDisks ==
    \E ok \in SUBSET Paths :
        /\ disks' = MountRows(ok \cup {"/"}) /\ answered' = ok \cup {"/"}
        /\ UNCHANGED <<atStart, mounts, configured, memoryVars, zoneVars>>

Mount(e) == Len(mounts) < MaxMounts /\ e.at # "/" /\ mounts' = Append(mounts, e)

\* umount takes the one on top.
Unmount(i) ==
    /\ mounts[i].at # "/" /\ \A j \in DOMAIN mounts : mounts[j].at = mounts[i].at => j <= i
    /\ mounts' = RemoveAt(mounts, i)

\* Reports are made of the mounts of the moment: the last one is history.
MountsChange ==
    /\ (\E e \in Entries : Mount(e)) \/ (\E i \in DOMAIN mounts : Unmount(i))
    /\ disks' = Unread /\ answered' = {}
    /\ UNCHANGED <<atStart, configured, memoryVars, zoneVars>>

MountNext == ReadDisks \/ MountsChange

ReadNext == ReadMemory \/ ReadTemps \/ MountNext

ReadSpec == ReadInit /\ [][ReadNext]_readingVars

------------------------------------------------------------------------------
ReadingsTypeOK ==
    /\ info \in Infos /\ zones \in Seq(Labels) /\ Len(zones) <= MaxZones
    /\ temps \subseteq [zone : 1..MaxZones, isPrimaryCPU : BOOLEAN]
    /\ mounts \in Seq(Entries) /\ Len(mounts) <= MaxMounts /\ answered \subseteq Paths \cup {"/"}
    /\ atStart \in Seq(Entries) /\ configured \in Seq(Paths)

\* memory.go:26-61: whatever the kernel (or the lxcfs of a container) says, used
\* and available memory make up the total, and no figure of the RAM has gone round
\* zero.  The swap has no such guard (memory.go:56-58): used and free make up the
\* total only if the free is no more than the total.
MemoryAddsUp ==
    ram # Unread =>
        /\ ram.used + ram.available = ram.total /\ ram.used <= ram.total
        /\ ram.cache <= info.Cached + info.SReclaimable
        /\ info.SwapFree <= info.SwapTotal => ram.swapUsed + info.SwapFree = ram.swapTotal

\* thermal.go:31-60: the alarm on the CPU's temperature is about one zone, which
\* stays the same when others, or it, cannot be read, and there is no zone with
\* a better label.
Rank == [label \in Labels |-> CASE label = "pkg" -> 1 [] label = "core" -> 2 [] label = "acpitz" -> 3 [] OTHER -> 4]
OnePrimary ==
    \A t \in temps : t.isPrimaryCPU <=>
        \A z \in DOMAIN zones : Rank[zones[z]] > Rank[zones[t.zone]] \/ (Rank[zones[z]] = Rank[zones[t.zone]] /\ z >= t.zone)

\* disk.go:22-49, 72-93: unless the mounts are configured, every report has the
\* root and every filesystem on a device that was mounted when the collector was
\* made and can still be asked; while it is on top of its mount point, its row
\* has its own bytes.
MountsAreReported ==
    answered # {} /\ configured = <<>> =>
        LET shown == ToSet(disks)
        IN  /\ \E r \in shown : r.mount = "/"
            /\ atStart # Unread => \A e \in ToSet(atStart) : IsReal(e) /\ e.at \in answered =>
                  \E r \in shown : r.mount = e.at /\ r.dev = e.fs.dev /\ (Top(e.at) = e.fs.dev => r.bytes = e.fs.dev)

\* memory.go, thermal.go, disk.go: the RAM's figures never go round zero, one zone
\* is the CPU's, and no filesystem followed is missing.
ReadingsAreReal == ReadingsTypeOK /\ MemoryAddsUp /\ OnePrimary /\ MountsAreReported

==============================================================================
