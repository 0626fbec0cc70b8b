SPECIFICATION Spec
CONSTANTS
  app = app
  bus = bus
  None = None
  Caller = {app}
  Clients <- Split
  MayDie = FALSE
  MaxCalls = 2
  MaxConns = 1
  MaxChunks = 1
  MaxResponse = 3
CHECK_DEADLOCK FALSE
INVARIANTS OwnAnswer
