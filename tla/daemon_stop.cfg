SPECIFICATION Spec
CONSTANTS
  i1 = i1
  i2 = i2
  i3 = i3
  a1 = a1
  a2 = a2
  w1 = w1
  Inv = {i1, i2}
  Option <- Pairs
  Addr = {a1, a2}
  Worker = {w1}
  NoProc = NoProc
  Faults = FALSE
  MaxCrash = 0
INVARIANT SessionAlive
CHECK_DEADLOCK FALSE
