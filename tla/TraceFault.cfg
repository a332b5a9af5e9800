CONSTANTS
    Paths = {"trace"}
    Events <- MCEvents
    MaxLines = 6
    MaxOpens = 2
    MaxFaults = 2
SPECIFICATION Spec
CHECK_DEADLOCK FALSE
INVARIANT ReplayParity
