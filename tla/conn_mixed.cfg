SPECIFICATION FairSpec
CONSTANTS
  app = app
  bus = bus
  None = None
  Caller = {app, bus}
  Clients <- WithBus
  MayDie = FALSE
  MaxCalls = 1
  MaxConns = 2
  MaxChunks = 1
  MaxResponse = 3
CHECK_DEADLOCK FALSE
PROPERTIES WaitTimeKept
