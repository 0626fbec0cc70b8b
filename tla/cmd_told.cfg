SPECIFICATION Spec
CONSTANTS
  a = a
  b = b
  Clients = {a, b}
  Offers <- SetOffers
  Calls <- MCCalls
  Envs <- MCEnvs
  First <- MCFirst
  Launch <- MCLaunch
  Class <- MCClass
  Number <- MCNumber
  MsgTypes <- MCMsgTypes
  MaxResync = 1
  Unquotable <- MCUnquotable
INVARIANTS FailureTold
CHECK_DEADLOCK FALSE
