SPECIFICATION Spec
CONSTANTS
  Interfaces = {10, 2000}
  Ips = {1, 2, 3, 4}
  V6 = {3, 4}
  LinkLocal = {4}
  Ports = {p1}
  PortsOf <- MCPortsOf
  Configs <- MCConfigs
  MaxChanges = 2
  MaxStarts = 2
INVARIANTS
  KernelFollowsState
  OneRulePerAddress
  ThrowsOnlyOverKnownCauses
CHECK_DEADLOCK FALSE
