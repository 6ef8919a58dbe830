CONSTANTS
  n1 = n1
  n2 = n2
  n3 = n3
  a1 = a1
  a2 = a2
  a3 = a3
  None = None
  Nodes <- ThreeNodes
  Addrs <- ThreeAddrs
  Lists <- OneList
  Clusters <- OldClusters
  Forced <- OneForced
  Unresolved <- NamesLost
SPECIFICATION Spec
PROPERTIES
  ListedServersStay
  AllJoined
CHECK_DEADLOCK FALSE
