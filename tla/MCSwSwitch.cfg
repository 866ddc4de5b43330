SPECIFICATION FairSpec
CONSTANTS
  route = route
  port = port
  default = default
  a = a
  b = b
  Absent = Absent
  Bad = Bad
  Callers = {init, thrift}
  Initializer = init
  Entries = {route, port, default}
  Values = {Absent, a, b}
  Requests <- MCRequests
  BootTrees <- MCBootTrees
  Rejectable = {route}
  AlpmRoutes = {default}
  Default = a
  MaxUpdates = 3
INVARIANTS
  NoStrandedUpdate
  NoLostUpdate
  AppliedStateIsHardwareState
  ObserverHoldsUnrejected
PROPERTIES
  OnlyFibSyncTakesExitBack
  ImplementsRegister
  UpdatesHandled
CHECK_DEADLOCK FALSE
