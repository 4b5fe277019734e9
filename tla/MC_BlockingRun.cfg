SPECIFICATION SpecEither
CONSTANTS
    s = s
    w = w
    Runs <- Two
    Streamed <- OnlyS
    Scoped <- OnlyS
    Verified <- OnlyS
    Sandboxed <- OnlyS
    Candidates = 2
    Retries = 1
    MaxStops = 1
    MaxFaults = 2
INVARIANTS ReportsAreTrue NoAgentLeftBehind RetryTakesAnotherUnlessRaced
PROPERTY RunEnds
CHECK_DEADLOCK FALSE
