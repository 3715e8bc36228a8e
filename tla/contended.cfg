SPECIFICATION Spec
CONSTANTS
  r1 = r1  r2 = r2  w1 = w1  w2 = w2  o1 = o1  h1 = h1
  NoWorker = NoWorker
  NoOwner = NoOwner
  Recordings = {r1}
  WithPlaud = {}
  Doubtful = {}
  Workers = {w1, w2}
  Owners = {w1, w2}
  Owner <- OwnPid
  Host <- OwnHost
  SingleFlight = FALSE
  Wanted = {"asr", "summary"}
  Served = {"asr", "summary"}
  Diarizes = FALSE
  MaxAttempts = 2
  MaxToolAttempts = 2
  MaxRevivals = 1
  LeaseSec = 1
  RetryBackoff = 1
  RetryBackoffMax = 1
  ReconcileLimit = 1
  DrainMaxJobs = 2
  MaxTime = 2
  MaxFaults = 1
  MaxRequests = 1
SYMMETRY Exchange
INVARIANT NoForgottenClaim
PROPERTIES OnlyClaimantJudges NoStaleOverwrite LiveClaimUndisturbed
