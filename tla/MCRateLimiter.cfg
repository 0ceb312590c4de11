SPECIFICATION Spec
CONSTANTS
    Calls = {c1, c2}
    NumLimits = 2
    Period <- MCPeriod
    Rate <- MCRate
    MsPerSecond = 1
    MaxTime = 3
    Faults = TRUE
SYMMETRY MCSymmetry
INVARIANTS TypeOK WithinRate CountsOnlyRecent
CHECK_DEADLOCK FALSE
