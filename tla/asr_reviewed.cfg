SPECIFICATION FairSpec
CONSTANTS
  o1 = o1  o2 = o2  h1 = h1  h2 = h2
  NoOwner = NoOwner
  Durations = {2, 5}
  Threshold = 2
  MinSec = 2
  MaxSegment = 3
  Incarnations = 2
  Chunk <- Steady
  Owner <- NewOwner
  Host <- TwoHosts
  Owners = {o1, o2}
  LeaseSec = 1
  SegmentsPerRun = 1
  MaxAttempts = 2
  MaxRevivals = 1
  MaxTime = 2
  MaxFaults = 0
  MaxRequests = 0
PROPERTIES StageEnds
CHECK_DEADLOCK FALSE
