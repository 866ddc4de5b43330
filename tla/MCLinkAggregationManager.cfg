\* Ports come and go; Thrift asks for one pair or for all.
SPECIFICATION FairSpec
CONSTANTS
  Ports = {p1, p2}
  Thrift = {t1, t2}
  Removals = TRUE
  AllPairs = TRUE
  MaxQueue = 2
PROPERTIES
  MapStableUnderReaders
  StateUpdateReturns
CHECK_DEADLOCK FALSE
