CONSTANTS
  handler = handler
  app = app
  n1 = n1
  n2 = n2
  Threads = {handler, app}
  Handler = handler
  Nodes = {n1, n2}
  Kinds <- MCKinds
  RetryCnt = 1
  MaxMsgs = 2
  MaxReceptions = 1
SPECIFICATION Spec
INVARIANTS
  AcceptedIsTracked
  ReportedOnce
  ReportsAreTrue
PROPERTIES
  EveryMessageEnds
