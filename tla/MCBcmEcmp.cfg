SPECIFICATION LateSpec
CONSTANTS
  Ports = {"p1", "p2"}
  Neighbors = {"a", "b"}
  NeighborPorts <- MCNeighborPorts
  Groups <- MCGroups
  MaxFlaps = 2
  MaxChanges = 3
  MaxUpdates = 2
INVARIANTS
  FixedNeighborsComplete
PROPERTIES
  DownPortLeavesGroups
  ResolvedNeighborReturns
CHECK_DEADLOCK FALSE
