SPECIFICATION FairSpec
CONSTANTS
    x = x
    y = y
    Nodes <- MCNodes
    Connected = x
    Lengths <- MCLengths
    RetryMax = 1
    MaxLoss = 2
    MaxBack = 1
    MaxStarts = 2
    MaxFaults = 2
CHECK_DEADLOCK FALSE
INVARIANTS
  AppliedIsWhole
  ChunksInPlace
PROPERTIES
  ReportIsTrue
  DistributionEnds
  EveryReceiverUpdated
