SPECIFICATION Spec
CONSTANTS
  w1 = w1
  w2 = w2
  c1 = c1
  Nobody = Nobody
  Waiter = {w1, w2}
  Changer = {}
  Wants <- TwoPrograms
  Type = {"eos", "error"}
  MaxPosts = 2
  MaxWaits = 1
  Unlucky = {}
  MayDelete = FALSE
CHECK_DEADLOCK FALSE
INVARIANTS ReceivesAsked
