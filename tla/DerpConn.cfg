CONSTANTS
  t1 = t1
  t2 = t2
  t3 = t3
  Regions = {1}
  NoRegion = 0
  Threads <- MCTwoThreads
  NoThread = NoThread
  QueueLimit = 1
  MaxRotations = 1
SPECIFICATION FairSpec
INVARIANTS
  RegisteredServes
  RotatedKeyUsed
PROPERTIES
  DroppedThreadEnds
  HomeComesUp
  RotationEnds
