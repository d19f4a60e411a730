SPECIFICATION DockerSpec
CONSTANTS
    Ids = {c1}
    InspectEvery = 1
    Modulus = 8
    MaxWork = 2
    DockerMaxTime = 5
PROPERTY CPUTimeIsReal
CHECK_DEADLOCK FALSE
