SPECIFICATION Spec
CONSTANTS
    Blocking = {b1, b2}
    Trying = {t1}
    MaxCalls = 1
    NoProc = NoProc
    Unreadable = Unreadable
INVARIANT MutualExclusion
CHECK_DEADLOCK FALSE
