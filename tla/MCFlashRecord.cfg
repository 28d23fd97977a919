SPECIFICATION LogSpec
CONSTANTS
    b1 = b1
    b2 = b2
    b3 = b3
    Bits <- MCBits
    Values <- MCValues
    None <- MCNone
    NSlots = 2
    MaxLosses = 3
    MaxStores = 3
CHECK_DEADLOCK FALSE
INVARIANTS
  LogIsSound
PROPERTIES
  IsDurableRegister
