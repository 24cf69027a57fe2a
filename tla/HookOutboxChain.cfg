SPECIFICATION Spec
CONSTANTS
    j1 = j1
    j2 = j2
    c1 = c1
    k1 = k1
    k2 = k2
    d1 = d1
    d2 = d2
    None = None
    Job = {j1, j2}
    ReportBack = {}
    TaskBack = {}
    WatchClear = {j1, j2}
    Clear = {}
    ClearOf <- OneClear
    Key = {k1, k2}
    KeyOf <- Stale
    ChainOf <- HomeOne
    Drainer = {d1, d2}
    Batch = 2
    MaxAttempts = 2
    Ceiling = 2
    Id <- Ids
SYMMETRY Rivals
CHECK_DEADLOCK FALSE
INVARIANT OneLeasePerKey
INVARIANT GuardAlone
