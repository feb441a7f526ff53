SPECIFICATION Spec
CONSTANTS
  Guids = {g1, g2}
  a = a
  b = b
  c = c
  Phys = Phys
  None = None
  IPs <- OnLink
  TapSubnet <- MCSubnet
  SwitchTargets <- OnLink
  CrashPoints <- Nowhere
  MayFail <- Nothing
  Overlap = FALSE
INVARIANT UnderlayNeverHijacked
