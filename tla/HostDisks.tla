----------------------------- MODULE HostDisks -----------------------------
(***************************************************************************)
(* Which physical disk a mounted filesystem is shown under                 *)
(* (internal/collector/host.go), and which mounts the disk figures follow  *)
(* (disk.go).  The machine is a graph of block devices: disks, their       *)
(* partitions, and mapped devices (LVM, LUKS, md) that stand on others.    *)
(* The program runs on the host or in a container that may have the host's *)
(* /proc and / mounted.  The sort of each disk's list by mount point is    *)
(* abstracted to a set.                                                    *)
(***************************************************************************)
EXTENDS Naturals, FiniteSets, Sequences

CONSTANTS
    PartOf,      \* partition -> its disk
    Disks,       \* the physical disks
    Mapped,      \* the mapped devices, lower ones first: a sequence
    Setups,      \* where the program may run: [contained, hostProc, hostRoot]
    Nodes,       \* how mounts name mapped devices: "sysfs" (dm-0, md0), "mapper" (/dev/mapper/x)
    MaxLines     \* bound on the lines of mountinfo

Parts == DOMAIN PartOf
MappedDevs == {Mapped[i] : i \in DOMAIN Mapped}
BlockDevs == Disks \cup Parts \cup MappedDevs
None == "none"

ASSUME HostAssumption ==
    /\ \A p \in Parts : PartOf[p] \in Disks
    /\ Mapped \in Seq(MappedDevs) /\ IsFiniteSet(Disks) /\ IsFiniteSet(Parts)
    /\ Disks \cap Parts = {} /\ MappedDevs \cap (Disks \cup Parts) = {} /\ None \notin Disks /\ "other" \notin BlockDevs
    /\ Setups \subseteq [contained : BOOLEAN, hostProc : BOOLEAN, hostRoot : BOOLEAN]
    /\ Nodes \subseteq {"sysfs", "mapper"} /\ MaxLines \in Nat

VARIABLES
    slaves,      \* the machine: what each mapped device stands on
    setup,       \* where the program runs
    partitions,  \* byDisk: the [disk, dev, bytes] found so far
    visited      \* history: the mountinfo lines read

hostVars == <<slaves, setup, partitions, visited>>

------------------------------------------------------------------------------
\* A mapped device stands on at most two devices listed before it, not on a disk and
\* a partition of that disk.
Lower(i) == Disks \cup Parts \cup {Mapped[j] : j \in 1..(i - 1)}
Machines ==
    {f \in [MappedDevs -> SUBSET BlockDevs] :
        \A i \in DOMAIN Mapped :
            /\ f[Mapped[i]] \subseteq Lower(i) /\ Cardinality(f[Mapped[i]]) \in 1..2
            /\ \A p \in Parts : ~({p, PartOf[p]} \subseteq f[Mapped[i]])}

\* A line: the device, how it is named, whether the root of its filesystem is
\* what is mounted, what it holds, and whether statfs of the mount point works.
Lines == [dev : BlockDevs, node : Nodes, whole : BOOLEAN, holds : {"data", "boot", "pseudo"}, stats : BOOLEAN]

\* buildPartitionParents.
Parents == [d \in Disks \cup Parts |-> IF d \in Disks THEN d ELSE PartOf[d]]

\* Slip: a device on several others is given to one of them.
ParentDisk_First(m) ==
    LET up[d \in BlockDevs] ==
            IF d \in DOMAIN Parents THEN Parents[d] ELSE up[CHOOSE s \in slaves[d] : TRUE]
    IN  up[m.dev]

\* The recursion of partitionParentDisk: the only slave of the only slave ...
Up[d \in BlockDevs] ==
    IF d \in DOMAIN Parents THEN Parents[d]
    ELSE IF Cardinality(slaves[d]) # 1 THEN None
    ELSE Up[CHOOSE s \in slaves[d] : TRUE]

\* partitionParentDisk goes by names under /sys/class/block, where there is no
\* "mapper/x".
ParentDisk(m) == IF m.dev \in MappedDevs /\ m.node = "mapper" THEN None ELSE Up[m.dev]

IsShown(m) == ParentDisk(m) # None

\* Slip: nothing is asked of the paths before the mounts are read.
CanRead_Always == TRUE

\* The guard of readDiskPartitions.
CanRead == setup.hostRoot \/ ~setup.hostProc

\* discoverPartitionMounts and isTechnicalMount.
IsPartition(m) == m.whole /\ m.holds = "data"

\* Whose bytes statfs counts: the line names a mount point of the host when its
\* mountinfo is PID 1's of the host, and the path followed is one of the host's
\* when it goes through hostRoot.  A mount point of the one is some other
\* directory in the other.
Bytes(m) ==
    LET listedOnHost == setup.hostProc \/ ~setup.contained
        readOnHost == setup.hostRoot \/ ~setup.contained
    IN  IF listedOnHost = readOnHost THEN m.dev ELSE "other"

HostInit == slaves \in Machines /\ setup \in Setups /\ partitions = {} /\ visited = {}

\* One line of mountinfo.
Visit(m) ==
    /\ Cardinality(visited) < MaxLines /\ m \notin visited
    /\ visited' = visited \cup {m}
    /\ partitions' =
            IF CanRead /\ IsPartition(m) /\ m.stats /\ IsShown(m)
            THEN partitions \cup {[disk |-> ParentDisk(m), dev |-> m.dev, bytes |-> Bytes(m)]}
            ELSE partitions
    /\ UNCHANGED <<slaves, setup>>

HostNext == \E m \in Lines : Visit(m)

HostSpec == HostInit /\ [][HostNext]_hostVars

------------------------------------------------------------------------------
\* What lsblk would say: a device stands on others, which stand on others.
StandsOn(d) ==
    CASE d \in Disks -> {}
      [] d \in Parts -> {PartOf[d]}
      [] OTHER -> slaves[d]

Closed(S) == \A d \in S : StandsOn(d) \subseteq S

\* The disks a device stands on in the end.
DisksUnder(d) == {k \in Disks : \A S \in SUBSET BlockDevs : d \in S /\ Closed(S) => k \in S}

\* Nothing on the way down stands on two devices.
IsChain(d) ==
    \E S \in SUBSET BlockDevs :
        d \in S /\ Closed(S) /\ \A e \in S \cap MappedDevs : Cardinality(slaves[e]) = 1

HostTypeOK ==
    /\ setup \in Setups /\ visited \subseteq Lines
    /\ partitions \subseteq [disk : Disks, dev : BlockDevs, bytes : BlockDevs \cup {"other"}]

\* A filesystem is shown under a disk only if that is the one disk it stands
\* on, through however many mapped devices.
ShownUnderItsDisk == HostTypeOK /\ \A p \in partitions : DisksUnder(p.dev) = {p.disk}

\* A container that has the host's / but not its /proc: any of the mounts may be
\* dropped.
RootAlone == setup.contained /\ setup.hostRoot /\ ~setup.hostProc

\* host.go:325-345: the numbers shown for a partition are of its own filesystem,
\* wherever the program runs, except in RootAlone: there the guard lets the
\* container's mount points be looked up under the host's /, and what is shown is
\* another directory's.
BytesAreThePartitions == \A p \in partitions : p.bytes = p.dev <=> ~RootAlone

\* A device that stands on one other, on and on down to one disk, is shown once
\* its mount is read.
IsFollowed(m) ==
    CanRead /\ IsPartition(m) /\ m.stats /\ IsChain(m.dev) => \E p \in partitions : p.dev = m.dev

\* host.go:290-320: a volume is shown under a disk only if it stands on that one
\* alone, and, named as sysfs names it, is shown there if each device on the way
\* down stands on one other, however many there are.  A volume that reaches its one
\* disk through two partitions of it is shown under none (len(slaves) != 1).
VolumesAreShown == ShownUnderItsDisk /\ \A m \in visited : m.node = "sysfs" => IsFollowed(m)

\* host.go:292-295, 325-333: a volume on exactly one disk is shown under it with its
\* own numbers, by whatever name it is mounted and through however many partitions.
OneDiskIsEnough ==
    \A m \in visited :
        CanRead /\ IsPartition(m) /\ m.stats /\ Cardinality(DisksUnder(m.dev)) = 1
        => \E p \in partitions : p.dev = m.dev /\ p.bytes = m.dev

==============================================================================
