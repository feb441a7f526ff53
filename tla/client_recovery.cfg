SPECIFICATION FairSpec
CONSTANTS
  Guids = {g1, g2}
  a = a
  b = b
  c = c
  Phys = Phys
  None = None
  IPs <- Three
  TapSubnet <- MCSubnet
  SwitchTargets <- Three
  CrashPoints <- ButWindows
  MayFail <- Nothing
  Overlap = FALSE
INVARIANT TypeOK
INVARIANT CleanExitLeavesNothing
INVARIANT RouteRecorded
INVARIANT RouteAligned
PROPERTY StartReachesRunning
PROPERTY SwitchTakesEffect
PROPERTY KeepsLedger
