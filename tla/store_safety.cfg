CONSTANTS
  n1 = n1
  n2 = n2
  n3 = n3
  k1 = k1
  v1 = v1
  None = None
  Nodes <- ThreeNodes
  Keys <- OneKey
  Values <- OneValue
  Wired <- ThreeNodes
  TrailingLogs = 1
  MaxLog = 2
  Crashing = {n1, n2}
  BadDisks = {n1}
SPECIFICATION FairSpec
INVARIANTS
  TypeOK
  MapIsHistory
  SnapshotsCover
PROPERTIES
  AbstractSpec
  CatchUp
CHECK_DEADLOCK FALSE
