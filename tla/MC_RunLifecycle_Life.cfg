SPECIFICATION FairSpec
CONSTANTS
    r1 = r1
    r2 = r2
    Runs <- TwoRuns
    Verified <- OnlyR1
    MaxConcurrent = 1
    MaxEntries = 1
    MaxStops = 1
    MaxFaults = 1
INVARIANTS RecordsAreHonest
PROPERTIES StatusMovesForward 
CHECK_DEADLOCK FALSE
