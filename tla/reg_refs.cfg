SPECIFICATION FairSpec
CONSTANTS
  t1 = t1
  t2 = t2
  t3 = t3
  a1 = a1
  a2 = a2
  a3 = a3
  None = None
  Thread = {t1, t2}
  Name = {"n"}
  Desc = {"d"}
  Pipe = {a1, a2}
  Api = {"create_ref", "delete_ref", "play_ref"}
  Contract = FALSE
  Faults = TRUE
  MaxRefs = 2
  MaxStateRefs = 1
INVARIANTS RefcountMatchesClients
PROPERTIES RequestsReturn
