CONSTANTS
    Characters = {"<", "/", ">"}
    Open <- MCOpen
    Close <- MCClose
    Field = Field
    MaxText = 8
    MaxFields = 1
    Retries = 1
SPECIFICATION Spec
INVARIANTS TypeOK ReleasesPromptly ShownIsStored ReasoningIsKept
CHECK_DEADLOCK FALSE
