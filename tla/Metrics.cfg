SPECIFICATION MetricsSpec
CONSTANTS
    Window = 2
    Readers = {r1, r2}
    MaxTicks = 5
    Rate = 2
    MaxSessions = 4
    Delays = {0, 1}
    UptimeUnreadable = TRUE
    DiskFaults = {"create"}
    UpMaxTime = 11
    Gauges = {"cpu", "ram", "zone1"}
    CritOnly = {"ram"}
    Others = {"zone1"}
    MaxTick = 4
    Ids = {c1}
    InspectEvery = 1
    Modulus = 8
    MaxWork = 2
    DockerMaxTime = 4
    Ports <- MCPorts
    MaxPorts = 5
    MemoryBytes = 3
    Devs = {"a", "b"}
    RateModulus = 8
    MaxCount = 1
    RateMaxTime = 3
    PartOf <- MCPartOf
    Disks = {"sda", "sdb"}
    Mapped <- MCMapped
    Setups <- MCSetups
    MaxLines = 1
    Nodes = {"sysfs"}
    MaxKB = 2
    MemModulus = 16
    MaxZones = 3
    Filesystems <- MCFilesystems
    Paths = {"/data"}
    MaxMounts = 3
    NCores = 2
    TickModulus = 64
    MaxJiffies = 4
    Devices <- MCDevices
    Primary = "a"
    Values = {2}
    Gaps <- MCGaps
    MaxPoints = 3
    MaxLen = 5
INVARIANTS
    ChartKeepsTotal
    OnlyNewestOngoing
    SinceIsOnset
    ChipsAreThePorts MemoryIsReal
    VolumesAreShown BytesAreThePartitions
    ReadingsAreReal
PROPERTIES
    ImplementsWindow HistoryIsKept
    TrafficIsReal NoTrafficIsLost
    MainRateIsReal RatesSpanOneTick
    
CHECK_DEADLOCK FALSE
