SPECIFICATION Spec
CONSTANTS
  f1 = f1
  f2 = f2
  f3 = f3
  NoOrder = NoOrder
  Calls = 2
  Frames <- MCFrames
  AttemptOf <- MCAttemptOf
  NeedsApproval <- MCNeedsApproval
  Duplicates <- MCDuplicates
  MaxGen = 2
  MaxTrouble = 1
INVARIANTS
  OneOrderPerAttempt
  OneHolderPerOrder
  
  FirstSendUnderLogin
CHECK_DEADLOCK FALSE
