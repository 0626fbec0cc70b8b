SPECIFICATION Spec
CONSTANTS
  t1 = t1
  t2 = t2
  t3 = t3
  a1 = a1
  a2 = a2
  a3 = a3
  None = None
  Thread = {t1, t2, t3}
  Name = {"n"}
  Desc = {"d"}
  Pipe = {a1, a2}
  Api = {"create_ref", "delete_ref", "play_ref", "stop_ref"}
  Contract = TRUE
  Faults = FALSE
  MaxRefs = 3
  MaxStateRefs = 2
SYMMETRY Symmetry
INVARIANTS PlaysWhilePlayed
PROPERTIES StoppedAtZero
