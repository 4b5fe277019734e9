SPECIFICATION Spec
CONSTANTS
    Logs = {"a", "b"}
    Hubs = {"serve", "own"}
    Clients = {"x", "y"}
    Publishes <- TwoHubs
    Watch <- OneAndAll
    At <- BothAtServe
    MaxEvents = 3
    MaxBreaks = 2
    MaxRetries = 1
    Requests = {"a", "b", "c"}
    Drains = {"d", "e"}
    Kind <- OneOfEach
    Finished = {"a", "b", "c"}
    Viewers = {"v"}
    MaxCrashes = 1
    Calls = {"p", "q"}
    Starts <- Pairs
    MaxLines <- LinesOfPairs
    Trees = {"s", "t"}
    TempSustain = 1
    CpuSustain = 2
    AggSustain = 2
    PauseMax = 2
    MaxRestarts = 1
INVARIANTS LinesKeepTheirRun QueuedIsKept NoNameLost
PROPERTIES StreamIsALog LinesReachReaders PageCatchesUp PauseEnds
CHECK_DEADLOCK FALSE
