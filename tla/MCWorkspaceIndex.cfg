SPECIFICATION Spec
CONSTANTS
    Process = {p, q}
    a = a
    b = b
    p = p
    q = q
    vendored = vendored
    alpha = alpha
    beta = beta
    blank = blank
    big = big
    Walk <- MCWalk
    Sorted <- MCSorted
    Supported = {a, b, vendored}
    Ignored = {vendored}
    Text = {alpha, beta, blank, big}
    SizeOf <- MCSizeOf
    Initially <- MCInitially
    MaxFileBytes = 2
    MaxFiles = 2
    MaxEdits = 2
    MaxClock = 2
    MaxJobs = 2
    CapturesOf <- MCCapturesOf
    Unparseable = "unparseable"
    NameKind <- MCNameKind
    HeaderTokens = 1
    LineTokens = 2
    Budget = 6
    Iterations = 6
    LinesOf <- MCLinesOf
    ChunkLines = 3
    ChunkOverlap = 1
    BatchSize = 2
    Limit = 2
SYMMETRY Symmetry
INVARIANTS
    TypeOK
    MapIsFresh
    MapIsLargest
    RankIsShared
    IndexIsComplete
    EmptyIsExplained
PROPERTIES
    OldIndexKept
CHECK_DEADLOCK FALSE
