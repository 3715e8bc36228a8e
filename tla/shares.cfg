SPECIFICATION FairSpec
CONSTANTS
  Shares = {s1, s2}
  Recordings = {r1}
  Devices = {d1, d2}
  NoDevice = NoDevice
  NoShare = NoShare
  Sizes = {1}
  Ttl = 1
  MaxActive = 1
  MaxStorage = 1
  MaxTime = 1
  MaxFaults = 1
  MaxMoves = 2
INVARIANTS ActiveIsWhole StorageBounded
PROPERTIES KeepsContract SourceGoneSharesEnd
CHECK_DEADLOCK FALSE
