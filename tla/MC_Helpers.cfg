SPECIFICATION Spec
CONSTANTS
    Atds = {"d1", "d2", "d3"}
    Callers = {"c1", "c2"}
    Starters = {"u", "v"}
    JobPids = {"p", "q", "r"}
    Planners = {"u"}
    MaxId = 2
    MaxAdds = 3
    Connections = {"r1", "r2"}
    CacheKinds = {"state", "bins"}
    MaxWrites = 2
    MaxClock = 1
    Hubs = {"d1", "d2"}
    HubClients = {"w", "run"}
    HubKind <- WriterAndRun
    MaxOps = 2
    StateUsers = {"disable", "tui", "pick", "prune", "use"}
    StateKind <- ByName
    MaxKills = 1
    Askers = {"a", "b"}
    Hosts = {"h"}
    Direct = {"a"}
    Defaulting = {"b"}
    MaxThread = 3
    MaxEntries = 2
    MaxBytes = 3
    MaxLogItems = 1
    FeedbackTtl = 1
    TextSizes = {1, 2}
    MaxFeedback = 3
    MaxDay = 2
    Commands = {"w", "v"}
    LineRuns = {"r"}
    Registry <- AgentAndMock
    Tier <- Tiers
    Override <- Overrides
    Edits <- HandEdits
    MaxChanges = 2
    MaxEdits = 1
    MaxCrashes = 1
    Agents = {"a"}
    Users = {"p", "q"}
    Window = 2
    Threshold = 2
    Durations <- HalfAndTwice
    Ttl = 2
    MaxTime = 5
    MaxResults = 3
    MaxOrders = 1
    Triages = {"p", "q"}
    Models = {"m"}
    UsableModels = {"m"}
    Use <- Twice
    Flags <- NoneOrUnknownFirst
    AskTimeout = 1
    BreakerTtl = 3
    Short = 2
    MaxMinute = 4
    MaxRuns = 3
INVARIANTS HitsAreJustified RequestsTakeEffect ConfusionNeedsTwins BackgroundIsFound
    OnlyStaleWritersHarm ConfigIsAsWritten BlockIsDeserved
    BoardStaysWorkable
PROPERTY EvictionIsFair
CHECK_DEADLOCK FALSE
