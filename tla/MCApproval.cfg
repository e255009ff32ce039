CONSTANTS
    shell = shell
    edit = edit
    None = None
    Tools <- MCTools
    MaxRequests = 2
SPECIFICATION FairSpec
INVARIANTS TypeOK Agreement Consent GrantsWereGiven
PROPERTIES ClosedStaysClosed FirstResponderWins RemoteAnswerUnblocks
CHECK_DEADLOCK FALSE
