SPECIFICATION FairSpec
CONSTANTS
    Modes = {"single", "two"}
    MaxRounds = 2
    MaxItems = 2
    MaxStarts = 2
    MaxFaults = 2
    NoPlan = NoPlan
INVARIANTS ImplementersInTurn ChecksAreEarned
PROPERTIES VerdictsAreEarned ProcessEnds
CHECK_DEADLOCK FALSE
