CONSTANTS
  handler = handler
  app = app
  Threads = {handler, app}
  Handler = handler
  Nobody = Nobody
  MaxPdus = 5
SPECIFICATION Spec
INVARIANTS
  NotLostNorDuplicated
PROPERTIES
  Paced
  PduLeaves
  IsChannel
