\* Two switches joined by one link; each end needs its only link.
SPECIFICATION FairSpec
CONSTANTS
  Ports = {"a1", "b1"}
  Strangers = {}
  NoPort = "0"
  Lag <- SystemLag
  Passive = {"b1"}
  MAX_TRANSMISSIONS_IN_SHORT_PERIOD = 2
  WireCapacity = 1
  Peer <- LinkedPeer
  minLinkCount <- AllLinks
  StrangerPDUs = {}
  MaxFaults = 2
  MaxReconfigurations = 0
PROPERTIES
  Converges
