SPECIFICATION Spec
CONSTANTS
    r1 = r1
    r2 = r2
    Runs <- TwoRuns
    Verified <- NoRuns
    MaxConcurrent = 1
    MaxEntries = 2
    MaxStops = 1
    MaxFaults = 0
INVARIANT StoppedStaysFailed
CHECK_DEADLOCK FALSE
