SPECIFICATION ListSpec
CONSTANTS
    Sources = {s1, s2}
    Capacity = 1
    IviMod = 256
    FifoSize = 1
    FirstStage = 5
    MaxStage = 8
    MaxNumber = 2
    MaxResets = 1
CHECK_DEADLOCK FALSE
INVARIANTS
  AcceptedInOrder
  FreshAccepted
