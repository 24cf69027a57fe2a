SPECIFICATION FairSpec
CONSTANTS
    r1 = r1
    r2 = r2
    r3 = r3
    r4 = r4
    w1 = w1
    w2 = w2
    k1 = k1
    k2 = k2
    k3 = k3
    k4 = k4
    None = None
    Run = {r1, r2, r3}
    Key = {k1, k2, k3, k4}
    KeyOf <- KeyPair
    Worker = {w1, w2}
    WorkerOf <- Alternate
    Kind = {"fresh","retry","edit","regen"}
    Ptc = {r1}
    Spawner = {}
    Stopped = {}
    Booting = {}
    Guarded = TRUE
    MaxTurn = 2
    MaxCrash = 1
CHECK_DEADLOCK FALSE
INVARIANT OneLiveRun
PROPERTY RetransmitErasesNothing
PROPERTY OrphanSettles
