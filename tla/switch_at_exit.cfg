SPECIFICATION Spec
CONSTANTS
  Guids = {g1, g2}
  a = a
  b = b
  c = c
  Phys = Phys
  None = None
  IPs <- Three
  TapSubnet <- MCSubnet
  SwitchTargets <- Three
  CrashPoints <- Nowhere
  MayFail <- Nothing
  Overlap = TRUE
INVARIANT CleanExitLeavesNothing
