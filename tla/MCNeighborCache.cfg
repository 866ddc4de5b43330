SPECIFICATION Spec
CONSTANTS
  l1 = l1
  l2 = l2
  p1 = p1
  p2 = p2
  NoLocation = NoLocation
  NoClass = NoClass
  Families = {"arp", "ndp"}
  Locations = {l1, l2}
  Ports = {p1, p2}
  PortOf <- TwoPorts
  ClassPorts = {p1}
  Interfaces = {1, 2}
  Classes = {c1}
  maxNeighborProbes = 258
  MaxPosted = 2
  MaxUpdates = 2
  MaxRefCnt = 1
  MaxChanges = 1
INVARIANTS
  TimerArmed
  TableFollowsCache
PROPERTIES
  
  SteadyVlanSurvives
  PendingResolves
CHECK_DEADLOCK FALSE
