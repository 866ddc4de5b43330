CONSTANTS
  Hops = {1, 2, 3}
  Own = {3}
  LinkLocal = {2}
  Dest = 4
  IntfOf <- MCIntfOf
  Covers <- MCCovers
  Trunks = {3}
  RoutePrefixes = {"d", "s"}
  Labels = {"l"}
  Monitored = {"OPENR"}
  Interfaces = {"i1"}
  SubnetOf <- MCSubnetOf
  RouteValues <- MCRouteValues
  LabelValues <- MCLabelValues
  Locations <- MCLocations
  MirrorConfigs <- MCMirrorConfigs
  BootMirror <- MCBootMirror
  MaxQueued = 2
  MaxChanges = 4
SPECIFICATION FairSpec
INVARIANTS
  ProbesMatch
  DiesOnlyOverNamedInterface
  MirrorIsCurrent
PROPERTIES
  MissingIsAskedFor
CHECK_DEADLOCK FALSE
