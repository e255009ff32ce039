CONSTANTS
    Backend = "auto"
    MaxCommands = 2

SPECIFICATION CommandSpec

INVARIANT
    StoppedIsStopped

CHECK_DEADLOCK FALSE
