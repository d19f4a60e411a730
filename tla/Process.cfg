SPECIFICATION ProcessSpec
CONSTANTS
    Envs <- MCEnvs
    ConfigFiles <- MCFiles
    Mounts <- MCMounts
    ValidAccounts <- MCAccounts
    Window = 2
    Gauges = {"cpu"}
    CritOnly = {}
    Shots <- MCShots
    MaxTicks = 4
    MaxStarts = 1
    Usernames <- MCUsernames
    ValidUsernames <- MCUsernames
    Passwords <- MCPasswords
    ValidPasswords <- MCPasswords
    SeedName = "root"
    SeedPassword = "pw1"
    TTL = 1
    Nil = Nil
    MaxUserId = 2
    MaxToken = 2
    MaxTime = 1
    Callers <- MCCallers
    Calls <- MCCalls
INVARIANTS
    ServedAsAsked AlarmsAgreeWithWindow StatsInStep
    StoreInv
PROPERTIES
    AccountsOutliveSettings LoopGoesOn
    ImplementsUserStore ConnectionComesBack
