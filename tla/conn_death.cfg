SPECIFICATION FairSpec
CONSTANTS
  app = app
  bus = bus
  None = None
  Caller = {app}
  Clients <- Timed
  MayDie = TRUE
  MaxCalls = 1
  MaxConns = 1
  MaxChunks = 2
  MaxResponse = 3
CHECK_DEADLOCK FALSE
PROPERTIES WaitTimeKept
