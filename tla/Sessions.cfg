SPECIFICATION SidedSpec
CONSTANTS
    Usernames <- MCUsernames
    ValidUsernames <- MCUsernames
    Passwords <- MCPasswords
    ValidPasswords <- MCPasswords
    SeedName = "root"
    SeedPassword = "pw1"
    TTL = 2
    Nil = Nil
    MaxUserId = 2
    MaxToken = 2
    MaxTime = 3
    MaxFails = 1
    LoginWindow = 1
    SweepAt = 0
    r1 = r1
    r2 = r2
    Reqs <- MCReqs
    IPs <- MCIPs
INVARIANTS ServerInv EndedStaysEnded
PROPERTIES
    SessionsEndForAReason AdminsFallByOthersOnly RevocationAtOnce
    ServerImplementsStore ExpiredArePurged
