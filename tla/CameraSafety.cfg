CONSTANTS
  http = http
  uart = uart
  h1 = h1
  h2 = h2
  webcam = webcam
  Clients <- MCOneClient
  Describers <- MCOneClient
  OpenThread = open
  IdleThread = idle
  Handles <- MCHandles
  NoHandle = NoHandle
  Cameras <- MCOneCamera
  Mjpeg <- MCMjpeg
  AddrOf <- MCSameAddr
  NoCamera = NoCamera
  NoThread = NoThread
  Warmup = 1
  Skips = {0, 1}
  FpsTries = 2
  MaxPlugs = 2
  MaxSeq = 2
SYMMETRY MCSymmetry
SPECIFICATION Spec
INVARIANTS
  TypeOK
  NoCallOnClosedHandle
  ClosedOnce
  CallsExclusive
  RunningInv
PROPERTIES
  FrameIsFresh
  WarmupLostAtStart
CHECK_DEADLOCK FALSE
