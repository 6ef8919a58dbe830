CONSTANTS
  j1 = j1
  j2 = j2
  j3 = j3
  w1 = w1
  w2 = w2
  None = None
  Jobs <- ThreeJobs
  PortJobs = {}
  Workers <- TwoWorkers
  JobChanBuffer = 1
  WorkersCapacity = 2
  JobRetryMaxFails = 2
  Disturbances = {"dbfault", "stop", "restart"}
SPECIFICATION Spec
INVARIANTS
  OneHolder
  TokenBalance
  HandoffNeverBlocks
  FailureOrder
  PanicOnlyInShutdown
SYMMETRY Symmetry
CHECK_DEADLOCK FALSE
