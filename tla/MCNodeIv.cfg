SPECIFICATION FairSpec
CONSTANTS
    Delta = 2
    StartSno = 6
    KeepTime = 2
    SearchMax = 2
    MaxSno = 7
    MaxIv = 4
    MaxLosses = 2
CHECK_DEADLOCK FALSE
INVARIANTS
  NonceFresh
PROPERTIES
  IvKept
  HeldLongEnough
  UpdatesGoOn
