CONSTANTS
    MaxTurns = 3
    MaxIterations = 2
    CallCounts = {0, 2}
    MaxCalls = 2
    Retries = 1
    KeepRecentTurns = 1
SPECIFICATION Spec
INVARIANT AlwaysValid
CHECK_DEADLOCK FALSE
