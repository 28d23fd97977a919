CONSTANTS
  x = x
  y = y
  f = f
  g = g
  Lpn = {x}
  Fn = {f, g}
  NumSlots = 1
  PollRetries = 2
  None = None
  MaxCounter = 2
SPECIFICATION FairSpec
CHECK_DEADLOCK FALSE
INVARIANTS
  OneFriendPerSession
PROPERTIES
  LpnNotices
  OldFriendLetsGo
