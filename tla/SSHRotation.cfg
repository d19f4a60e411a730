SPECIFICATION SSHSpec
CONSTANTS
    MaxLines = 2
    MaxInodes = 2
    CutLines = {}
PROPERTY RotatedIsReadFromStart
CHECK_DEADLOCK FALSE
