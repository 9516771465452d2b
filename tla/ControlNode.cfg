SPECIFICATION FairSpec
CONSTANTS
  AuthKeys = {tskey}
  Keys = {k1, k2, k3}
  None = None
  MaxFaults = 2
  MaxAdmin = 1
  MaxEps = 1
INVARIANTS
  IdentityInv
PROPERTIES
  NodeComesUp
  EndpointsTold
  SilentIsLeft
