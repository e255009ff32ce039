CONSTANTS
    MaxRemote = 1
    MaxTyped = 1
SPECIFICATION FairSpec
PROPERTY QueuedIsHandled
CHECK_DEADLOCK FALSE
