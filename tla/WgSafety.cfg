CONSTANTS
  alice = alice
  bob = bob
  d1 = d1
  d2 = d2
  Peers <- MCPeers
  Packets <- MCPackets
  RekeyTimeout = 1
  KeepaliveTimeout = 1
  RekeyAfter = 2
  RejectAfter = 3
  MaxAttempts = 2
  QueueLimit = 1
  MaxTime = 3
  MaxIndex = 4
  None = None
SYMMETRY MCSymmetry
SPECIFICATION Spec
INVARIANTS
  SessionsInv
  NonceUsedOnce
  DeliveredOnce
PROPERTIES
  NoSendAfterExpiry
CHECK_DEADLOCK FALSE
