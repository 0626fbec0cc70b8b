SPECIFICATION Spec
CONSTANTS
  w1 = w1
  w2 = w2
  None = None
  MaxMessages = 2
  Kinds = {"other"}
  Worker = {w1, w2}
  SpawnFails = TRUE
  MaxTargets = 1
CHECK_DEADLOCK FALSE
INVARIANTS ServedNotFreed
