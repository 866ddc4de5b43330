SPECIFICATION FairSpec
CONSTANTS
  LinkLocalPrefix <- MCLinkLocal
  Clients = {0}
  Requests <- MCRequests
  Configs <- MCConfigs
  BootConfig <- MCBootConfig
  MaxCalls = 2
PROPERTY
  UpdateCompletes
CHECK_DEADLOCK FALSE
