SPECIFICATION FairSpec
CONSTANTS
  Clients = {c1}
  Socks = {s1, s2}
  None = None
  Request = 3
  Sends = 6
  Response = 2
  RxBuf = 1
  TxBuf = 1
  RxLimit = 2
  TxLimit = 1
  Inbound = 1
  MaxResets = 1
INVARIANTS
  StreamInv
  NobodySleepsOnWork
PROPERTIES
  WholeAnswer
  ConnectionsEnd
