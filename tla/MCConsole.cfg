CONSTANTS
    Servers <- MCServers
    Words <- MCWords
    Models <- MCModels
    ActiveModel = "m1"
    SummaryModel = "none"
    NoModel = "none"
    RemoteEnabled = TRUE
    MaxCalls = 1
    MaxLines = 2
    MaxSessions = 2
    MaxEdits = 1

SPECIFICATION Spec

INVARIANTS
    TypeOK
    AgentIsCurrent
    OnlyApprovedRuns
    LeftoversExplained

PROPERTY CloseEnds

CHECK_DEADLOCK FALSE
