CONSTANTS
  http = http
  uart = uart
  h1 = h1
  h2 = h2
  webcam = webcam
  Clients <- MCShell
  Describers <- MCShell
  OpenThread = open
  IdleThread = idle
  Handles <- MCHandles
  NoHandle = NoHandle
  Cameras <- MCOneCamera
  Mjpeg <- MCMjpeg
  AddrOf <- MCSameAddr
  NoCamera = NoCamera
  NoThread = NoThread
  Warmup = 0
  Skips = {0}
  FpsTries = 1
  MaxPlugs = 1
  MaxSeq = 0
SPECIFICATION FairSpec
PROPERTIES
  PluggedCameraOpens
CHECK_DEADLOCK FALSE
