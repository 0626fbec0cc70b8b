SPECIFICATION FairSpec
CONSTANTS
  app = app
  bus = bus
  None = None
  Caller = {app, bus}
  Clients <- WithBus
  MayDie = TRUE
  MaxCalls = 1
  MaxConns = 2
  MaxChunks = 2
  MaxResponse = 3
CHECK_DEADLOCK FALSE
PROPERTIES CallsReturn
