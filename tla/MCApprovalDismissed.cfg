CONSTANTS
    shell = shell
    edit = edit
    None = None
    Tools <- MCTools
    MaxRequests = 2
SPECIFICATION Spec
INVARIANT DismissedOnlyIfAnswered
CHECK_DEADLOCK FALSE
