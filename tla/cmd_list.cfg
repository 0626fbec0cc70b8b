SPECIFICATION Spec
CONSTANTS
  a = a
  b = b
  Clients = {a, b}
  Offers <- ListOffers
  Calls <- MCCalls
  Envs <- MCEnvs
  First <- MCFirst
  Launch <- MCLaunch
  Class <- MCClass
  Number <- MCNumber
  MsgTypes <- MCMsgTypes
  MaxResync = 1
  Unquotable <- MCUnquotable
INVARIANTS AnswersParse
CHECK_DEADLOCK FALSE
