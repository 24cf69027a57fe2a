SPECIFICATION FairSpec
CONSTANTS
    g1 = g1
    g2 = g2
    m1 = m1
    m2 = m2
    t1 = t1
    w1 = w1
    c1 = c1
    c2 = c2
    Root = root
    None = None
    Closed = Closed
    Guard = {g1}
    Mutator = {m1, m2}
    Task = {t1, w1}
    Driver = {w1}
    Stray = {}
    Conn = {c1, c2}
    MaxFault = 1
CHECK_DEADLOCK FALSE
INVARIANT WritesInsideFence
INVARIANT MutationAlone
PROPERTY OutcomeFenced
PROPERTY SessionReturned
PROPERTY KeepsFence
