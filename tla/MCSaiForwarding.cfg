CONSTANTS
  Neighbors = {"a", "b", "l"}
  LinkLocal = {"l"}
  Interfaces = {"i1", "i2"}
  IntfOf <- MCIntfOf
  Hosts <- MCHosts
  PortHandles = {1}
  Routes = {"r", "s", "h"}
  HostRoutes = {"h"}
  Forward <- MCForward
  MaxBoots = 1
SPECIFICATION Spec
INVARIANTS
  MembersAreResolved
  RoutesFollowState
PROPERTIES
  OnlyKnownFailures
  CompleteReplayIsHitless
CHECK_DEADLOCK FALSE
