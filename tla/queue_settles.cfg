CONSTANTS
  j1 = j1
  j2 = j2
  w1 = w1
  w2 = w2
  None = None
  Jobs <- TwoJobs
  Watched <- OnePort
  PortJobs <- OnePort
  Workers <- TwoWorkers
  JobChanBuffer = 1
  WorkersCapacity = 2
  JobRetryMaxFails = 2
  Disturbances = {"restart"}
SPECIFICATION ReportFairSpec
INVARIANTS
  OutcomeRecorded
PROPERTIES
  LifeSpec
  LifeFairSpec
  TornOnce
  ClientLearns
CHECK_DEADLOCK FALSE
