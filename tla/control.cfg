SPECIFICATION Spec
CONSTANTS
  a = a
  b = b
  Clients = {a, b}
  Offers <- MCOffers
  Calls <- MCCalls
  Envs <- MCEnvs
  First <- MCFirst
  Launch <- MCLaunch
  Class <- MCClass
  Number <- MCNumber
  MsgTypes <- MCMsgTypes
  MaxResync = 1
  Unquotable <- MCUnquotable
INVARIANTS TypeOK RepliesWellFormed
PROPERTIES Implements
CHECK_DEADLOCK FALSE
