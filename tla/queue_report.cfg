CONSTANTS
  j1 = j1
  j2 = j2
  w1 = w1
  w2 = w2
  None = None
  Jobs <- TwoJobs
  Watched <- OnePort
  PortJobs <- OnePort
  Workers <- TwoWorkers
  JobChanBuffer = 1
  WorkersCapacity = 1
  JobRetryMaxFails = 2
  Disturbances = {"dbfault", "stop", "restart"}
SPECIFICATION ReportSpec
INVARIANTS
  TypeOK
  NoJobDropped
  DoneIsClean
PROPERTIES
  OutcomeFinal
  ReportsAgree
SYMMETRY Symmetry
CHECK_DEADLOCK FALSE
