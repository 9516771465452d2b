SPECIFICATION FairSpec
CONSTANTS
  Body = 3
  MaxFrame = 2
  DefaultWindow = 2
  OurWindow = 4
  Messages = 3
  MsgLen = 2
  MaxWindow = 2
  Windows = {1, 2}
  MaxQueue = 2
  MaxSettings = 2
  MaxExtras = 2
INVARIANTS
  SendInv
  GrantsAddUp
  EndIsTheEnd
PROPERTY
  ResponseIsRead
CHECK_DEADLOCK FALSE
