SPECIFICATION FairSpec
CONSTANTS
  o1 = o1  o2 = o2  h1 = h1  h2 = h2
  NoOwner = NoOwner
  Durations = {2, 3, 6}
  Threshold = 2
  MinSec = 2
  MaxSegment = 3
  Incarnations = 3
  Chunk <- Retuned
  Owner <- RestartReplace
  Host <- TwoHosts
  Owners = {o1, o2}
  LeaseSec = 1
  SegmentsPerRun = 1
  MaxAttempts = 2
  MaxRevivals = 1
  MaxTime = 2
  MaxFaults = 2
  MaxRequests = 2
  SubstantialWords = 4
  LoopShare = 4
  Margin = 1500
  TruncationTenths = 4
INVARIANTS OnlyFailuresSpend PageHonest
PROPERTIES PublishedWhole FreshAfterRequest CommittedWindowKept LocalFinishes ReviewDecided
CHECK_DEADLOCK FALSE
