CONSTANTS
  Requests <- MCRequests
  Configs <- MCConfigs
  BootConfig <- MCBoot
  LinkLocalPrefix <- MCLinkLocalPrefix
  EcmpWidth = 3
  Capacity = 8
  EcmpCapacity = 1
  MaxCalls = 4
SPECIFICATION Spec
INVARIANTS
  SameNodeSameRoute
  HardwareIsApplied
  ResolutionIsCurrent
CHECK_DEADLOCK FALSE
