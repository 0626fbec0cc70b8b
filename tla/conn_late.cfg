SPECIFICATION Spec
CONSTANTS
  app = app
  bus = bus
  None = None
  Caller = {app}
  Clients <- Timed
  MayDie = FALSE
  MaxCalls = 2
  MaxConns = 2
  MaxChunks = 2
  MaxResponse = 3
CHECK_DEADLOCK FALSE
INVARIANTS OwnAnswer
