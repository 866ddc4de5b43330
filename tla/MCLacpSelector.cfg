\* One switch: three ports, two of which must be up, two partner systems, one disturbance.
SPECIFICATION Spec
CONSTANTS
  Ports = {a1, a2, a3}
  Strangers = {"x", "y"}
  NoPort = none
  Lag <- OneSystemLag
  Passive = {}
  MAX_TRANSMISSIONS_IN_SHORT_PERIOD = 1
  WireCapacity = 0
  Peer <- NoPeer
  minLinkCount <- TwoLinks
  StrangerPDUs <- Partners
  MaxFaults = 1
  MaxReconfigurations = 1
INVARIANTS
  NoAbort
  DownPortNotForwarding
  MinLinksSelected
  SelectionIsCurrent
SYMMETRY Symmetry
CHECK_DEADLOCK FALSE
