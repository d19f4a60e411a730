SPECIFICATION UpSpec
CONSTANTS
    Rate = 2
    MaxSessions = 3
    Delays = {0, 1}
    UptimeUnreadable = FALSE
    DiskFaults = {}
    UpMaxTime = 12
PROPERTY NewSessionMeansReboot
CHECK_DEADLOCK FALSE
