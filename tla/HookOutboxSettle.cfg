SPECIFICATION FairSpec
CONSTANTS
    j1 = j1
    j2 = j2
    c1 = c1
    k1 = k1
    k2 = k2
    d1 = d1
    d2 = d2
    None = None
    Job = {j1, j2}
    ReportBack = {j1}
    TaskBack = {j2}
    WatchClear = {}
    Clear = {c1}
    ClearOf <- OneClear
    Key = {k1}
    KeyOf <- OneChain
    ChainOf <- HomeOne
    Drainer = {d1}
    Batch = 2
    MaxAttempts = 1
    Ceiling = 2
    Id <- Ids
CHECK_DEADLOCK FALSE
PROPERTY JobsSettle
PROPERTY FreshTokens
PROPERTY CleanupFirst
