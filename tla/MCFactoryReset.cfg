SPECIFICATION FairSpec
CONSTANTS
    Serials <- MCSerials
    NBytes = 4
    CleanFrom = 2
    d1 = d1
    d2 = d2
    Data <- MCData
    MaxTime = 3
INVARIANTS
  ResetOnlyBySequence
  SequenceResets
  PartialMeansResetting
PROPERTIES
  ResetCompletes
