SPECIFICATION FairSpec
CONSTANTS
  w1 = w1
  w2 = w2
  None = None
  MaxMessages = 3
  Kinds = {"health", "status", "clock_sync", "delete", "other", "refused"}
  Worker = {w1, w2}
  SpawnFails = TRUE
  MaxTargets = 1
CHECK_DEADLOCK FALSE
INVARIANTS TypeOK PendingServed
PROPERTIES MessagesAnswered StopEnds FastAnswered
