SPECIFICATION FairSpec
CONSTANTS
  r1 = r1
  r2 = r2
  e1 = e1
  e2 = e2
  None = None
  Reader = {r1, r2}
  Emitter = {e1}
  Timeouts = TRUE
  MaxReads = 3
  MaxEmissions = 2
  MaxDisconnects = 1
CHECK_DEADLOCK FALSE
INVARIANTS TypeOK HandedOutOnce
PROPERTIES SignalEndsRead TimedReadEnds
