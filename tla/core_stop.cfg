CONSTANTS
  MaxSignals = 2
  None = None
SPECIFICATION FairSpec
INVARIANTS
  SuccessNeedsSignal
  RaftStopsFirst
PROPERTIES
  ProcessEnds
CHECK_DEADLOCK FALSE
