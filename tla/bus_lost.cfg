SPECIFICATION FairSpec
CONSTANTS
  w1 = w1
  w2 = w2
  c1 = c1
  Nobody = Nobody
  Waiter = {w2}
  Changer = {}
  Wants <- TwoPrograms
  Type = {"eos", "error"}
  MaxPosts = 1
  MaxWaits = 1
  Unlucky = {w2}
  MayDelete = FALSE
CHECK_DEADLOCK FALSE
PROPERTIES TimedWaitEnds
