SPECIFICATION FairSpec
CONSTANTS
  w1 = w1
  w2 = w2
  c1 = c1
  Nobody = Nobody
  Waiter = {w1, w2}
  Changer = {c1}
  Wants <- TwoPrograms
  Type = {"eos", "error"}
  MaxPosts = 2
  MaxWaits = 1
  Unlucky = {w2}
  MayDelete = TRUE
CHECK_DEADLOCK FALSE
INVARIANTS TypeOK StackAlive AskedFor
PROPERTIES WaitEnds
