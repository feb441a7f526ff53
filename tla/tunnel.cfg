SPECIFICATION FairSpec
CONSTANTS
  Capacity = 1
  MaxCaptured = 3
  MaxRead = 1
  MaxFaults = 1
  MaxStops = 1
CHECK_DEADLOCK FALSE
INVARIANT InOrderOnce
INVARIANT NoneVanishes
PROPERTY GetsThrough
