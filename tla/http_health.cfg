SPECIFICATION FairSpec
CONSTANTS
  w1 = w1
  w2 = w2
  None = None
  MaxMessages = 3
  Kinds = {"health", "status", "delete"}
  Worker = {w1}
  SpawnFails = FALSE
  MaxTargets = 1
CHECK_DEADLOCK FALSE
PROPERTIES HealthAnswered
