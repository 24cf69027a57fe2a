SPECIFICATION FairSpec
CONSTANTS
    r1 = r1
    r2 = r2
    Runs = {r1, r2}
    MaxAttempts = 2
    MaxUserTurns = 1
    MaxTrouble = 1
CHECK_DEADLOCK FALSE
INVARIANTS
    OneTurnPerRun
    DoneMeansAnswered
    ParkedIsWatched
PROPERTIES
    StopOpensNothing
    AnsweredInTheEnd
