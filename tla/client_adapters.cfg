SPECIFICATION FairSpec
CONSTANTS
  Guids = {g1, g2}
  a = a
  b = b
  c = c
  Phys = Phys
  None = None
  IPs <- Three
  TapSubnet <- MCSubnet
  SwitchTargets <- Outside
  CrashPoints <- ButTapWindow
  MayFail <- ButTapLoss
  Overlap = TRUE
INVARIANT TapRecorded
INVARIANT UnderlayOnPhys
INVARIANT ExitDeletesOwnTap
PROPERTY MakeBeforeBreak
PROPERTY CtrlCEndsProcess
