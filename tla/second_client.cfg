SPECIFICATION Spec
CONSTANTS
  Guids = {g1, g2}
  Phys = Phys
  None = None
  IPs = {a}
  TapSubnet = {}
  MayFail = {}
  Peer = a
INVARIANT OnlyResidueCleaned
