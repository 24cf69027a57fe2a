SPECIFICATION FairSpec
CONSTANTS
    a = a
    b = b
    Tasks = {a, b}
    MaxTurns = 2
    MaxRuns = 2
    MaxTrouble = 1
CHECK_DEADLOCK FALSE
 
PROPERTIES
    SweepSparesNewest
    
    KeepsSpend
