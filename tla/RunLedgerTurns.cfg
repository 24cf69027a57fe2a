SPECIFICATION Spec
CONSTANTS
    r1 = r1
    r2 = r2
    r3 = r3
    r4 = r4
    w1 = w1
    w2 = w2
    k1 = k1
    k2 = k2
    k3 = k3
    k4 = k4
    None = None
    Run = {r1, r2, r3}
    Key = {k1, k2, k3, k4}
    KeyOf <- AllOwnKey
    Worker = {w1, w2}
    WorkerOf <- Alternate
    Kind = {"fresh","retry","edit"}
    Ptc = {r1, r2, r3}
    Spawner = {}
    Stopped = {r2}
    Booting = {}
    Guarded = TRUE
    MaxTurn = 2
    MaxCrash = 1
SYMMETRY Twins
CHECK_DEADLOCK FALSE
INVARIANT ChainsWellFormed
INVARIANT CancelBinds
PROPERTY NoLiveRunErased
PROPERTY RecoveryRespectsOwner
PROPERTY KeepsContract
