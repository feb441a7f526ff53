SPECIFICATION FairSpec
CONSTANTS
  Capacity = 1
  Peers = {p1}
  None = None
  MaxRead = 2
  MaxArrived = 3
  MaxSwitches = 0
  MaxResets = 1
CHECK_DEADLOCK FALSE
PROPERTY ToTapIsWire
PROPERTY NothingSticks
PROPERTY EndsTogether
PROPERTY DeadWriterNoticed
