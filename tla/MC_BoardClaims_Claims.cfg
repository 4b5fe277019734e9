SPECIFICATION FairSpec
CONSTANTS
    w1 = w1
    w2 = w2
    Nobody = Nobody
    Workers <- MCWorkers
    Followers <- MCFollowers
    Requests <- MCRequests
    Tasks <- MCTasks
    Priority <- MCPriority
    BlockedBy <- MCBlockedBy
    Board <- MCTasks
    MaxEdits = 2
    MaxFaults = 1
INVARIANTS
    OneWorktreeUser
    DoneIsSound
PROPERTIES
    StartsUnblocked
    NoTaskForgotten
CHECK_DEADLOCK FALSE
