SPECIFICATION Spec
CONSTANTS
  i1 = i1
  i2 = i2
  i3 = i3
  a1 = a1
  a2 = a2
  w1 = w1
  Inv = {i1, i2, i3}
  Option <- KillAndStart
  Addr = {a1, a2}
  Worker = {}
  NoProc = NoProc
  Faults = FALSE
  MaxCrash = 0
INVARIANT OneDaemon
CHECK_DEADLOCK FALSE
