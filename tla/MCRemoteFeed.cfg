CONSTANTS
    phone = phone
    Phones <- MCPhones
    HistoryLimit = 2
    MaxTurns = 1
    MaxJoins = 2
    MaxToggles = 1
    MaxEvents = 3
SPECIFICATION Spec
INVARIANTS TypeOK NoGap QuietJoinShowsSession
CHECK_DEADLOCK FALSE
