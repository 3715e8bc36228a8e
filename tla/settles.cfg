SPECIFICATION FairSpec
CONSTANTS
  r1 = r1  r2 = r2  w1 = w1  w2 = w2  o1 = o1  h1 = h1
  NoWorker = NoWorker
  NoOwner = NoOwner
  Recordings = {r1}
  WithPlaud = {}
  Doubtful = {r1}
  Workers = {w1, w2}
  Owners = {o1}
  Owner <- SamePid
  Host <- OneHost
  SingleFlight = TRUE
  Wanted = {"asr", "summary", "summary_en"}
  Served = {"asr", "summary"}
  Diarizes = TRUE
  MaxAttempts = 2
  MaxToolAttempts = 1
  MaxRevivals = 1
  LeaseSec = 1
  RetryBackoff = 0
  RetryBackoffMax = 1
  ReconcileLimit = 1
  DrainMaxJobs = 2
  MaxTime = 1
  MaxFaults = 1
  MaxRequests = 1
INVARIANTS NoInheritedClaim CopyMatchesRow
PROPERTIES WorkFinishes EveryRecordingSettles
