CONSTANTS
    c1 = c1  c2 = c2
    None = None
    Callers = {c1, c2}
    Operations <- SizeBesideReader
    Written <- SparseBlocks
    PageSize = 1
    MinMaxResults = 1
    DefaultMaxResults = 4
    MaxMaxResults = 4
    NextTokenLifetime = 0
    BlockTokenLifetime = 1
    EmptyPages = 0
    InvalidateOnRelist = TRUE
    Faults = {}
    ExpiredKinds = {"expired", "invalid"}
    MayOmitExpiry = FALSE
    MayOmitTokens = {}
    Responses <- OddResponses
    MaxTime = 2
    MaxAttempts = 2
    VerifyChecksums = TRUE
    MaxCalls = 3
SPECIFICATION Spec
PROPERTY NeverRelists
