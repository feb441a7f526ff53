SPECIFICATION FairSpec
CONSTANTS
  Capacity = 1
  MaxCaptured = 3
  MaxArrived = 3
  LookupsFail = FALSE
CHECK_DEADLOCK FALSE
INVARIANT TypeOK
INVARIANT WarnedOncePerOutage
INVARIANT OwnNeverForwarded
PROPERTY ToPeerIsWire
PROPERTY ToNicIsWire
PROPERTY NothingSticks
PROPERTY EndsTogether
