SPECIFICATION DeviceSpec
CONSTANTS
  Shells = {uart}
  Ssids = {house}
  AuthKeys = {tskey}
  Keys = {k1, k2, k3}
  None = None
  MaxFaults = 1
  MaxAdmin = 1
  MaxEps = 0
SYMMETRY KeySymmetry
INVARIANTS
  FlashInv
