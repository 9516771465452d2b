SPECIFICATION FairSpec
CONSTANTS
  Addrs = {a1, a2}
  None = None
  Trust = 2
  Heartbeat = 1
  PingInterval = 1
  CmmInterval = 1
  Active = 1
  MaxEndpoints = 1
  MaxDelay = 1
  MaxChanges = 1
INVARIANTS
  PathInv
PROPERTIES
  DirectAgain
