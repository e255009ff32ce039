CONSTANTS
    MaxRemote = 3
    MaxTyped = 2
SPECIFICATION FairSpec
INVARIANTS TypeOK RemoteInOrder
PROPERTIES NotifiedIsHandled
CHECK_DEADLOCK FALSE
