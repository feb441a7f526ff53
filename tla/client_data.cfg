SPECIFICATION FairSpec
CONSTANTS
  Capacity = 1
  Peers = {p1, p2}
  None = None
  MaxRead = 3
  MaxArrived = 1
  MaxSwitches = 2
  MaxResets = 1
CHECK_DEADLOCK FALSE
INVARIANT TypeOK
INVARIANT AtMostOneStray
INVARIANT FreshAfterSwitch
PROPERTY ToPeerIsWire
