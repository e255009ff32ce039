CONSTANTS
    MaxTurns = 3
    MaxIterations = 2
    CallCounts = {0, 2}
    MaxCalls = 2
    Retries = 1
    KeepRecentTurns = 1
SPECIFICATION FairSpec
INVARIANTS TypeOK NoOrphanResult RecentTurnsKept TranscriptComplete UndisturbedIsValid
PROPERTIES TurnEnds
CHECK_DEADLOCK FALSE
