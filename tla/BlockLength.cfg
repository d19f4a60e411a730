SPECIFICATION LimSpec
CONSTANTS
    Keys = {k1}
    Procs = {p1}
    MaxFails = 2
    LoginWindow = 2
    SweepAt = 1
PROPERTY BlockLastsAWindow
