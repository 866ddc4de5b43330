SPECIFICATION FairSpec
CONSTANTS
  LinkLocalPrefix <- MCLinkLocal
  Clients = {0, 786}
  Requests <- MCRequests
  Configs <- MCConfigs
  BootConfig <- MCBootConfig
  MaxCalls = 4
INVARIANTS
  ResolutionIsExact
  SharesArePreserved
PROPERTIES
  FibIsTheRibsAtApply
  UpdateCompletesWithoutReload
CHECK_DEADLOCK FALSE
