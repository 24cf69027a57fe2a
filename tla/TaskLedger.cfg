SPECIFICATION Spec
CONSTANTS
    a = a
    b = b
    Tasks = {a}
    MaxTurns = 3
    MaxRuns = 3
    MaxTrouble = 1
CHECK_DEADLOCK FALSE
INVARIANT StampsFollowBills
PROPERTY ResumeChainsToNewest
