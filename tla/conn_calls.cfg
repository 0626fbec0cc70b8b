SPECIFICATION Spec
CONSTANTS
  app = app
  bus = bus
  None = None
  Caller = {app}
  Clients <- Sound
  MayDie = TRUE
  MaxCalls = 3
  MaxConns = 2
  MaxChunks = 2
  MaxResponse = 3
CHECK_DEADLOCK FALSE
INVARIANTS TypeOK NothingLeftOpen OwnAnswer
