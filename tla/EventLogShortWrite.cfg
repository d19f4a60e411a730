SPECIFICATION LogSpec
CONSTANTS
    Cap = 3
    MaxEvents = 6
PROPERTIES DurableStaysDurable
