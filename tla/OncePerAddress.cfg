SPECIFICATION SecuritySpec
CONSTANTS
    Cap = 3
    MaxEvents = 6
    Conns <- MCConns
    Services <- MCServices
    Explicit = {22}
    AutoPorts = TRUE
    MaxLines = 3
    MaxInodes = 3
    CutLines = {2}
    Keys = {k1, k2}
    Procs = {p1, p2}
    MaxFails = 2
    LoginWindow = 2
    SweepAt = 1
    Addresses <- MCAddresses
    Ports = {0, 22}
    MaxSockets = 2
PROPERTY OncePerAddress
