CONSTANTS
  MaxConns = 2
  MaxPorts = 3
  Faults = {"dbfault", "lost"}
  None = None
SPECIFICATION ApiFairSpec
INVARIANTS
  ServeErrorReturned
  NothingCutOff
  AnswerMatchesErrors
  AnswerOnRecord
PROPERTIES
  ServiceEnds
CHECK_DEADLOCK FALSE
