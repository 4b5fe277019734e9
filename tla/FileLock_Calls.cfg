SPECIFICATION FairSpec
CONSTANTS
    Blocking = {b1, b2}
    Trying = {t1}
    MaxCalls = 1
    NoProc = NoProc
    Unreadable = Unreadable
INVARIANTS ExclusionUnlessUsurped
PROPERTIES IsRevocableLock CallEnds
CHECK_DEADLOCK FALSE
