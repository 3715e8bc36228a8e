SPECIFICATION FairLoop
CONSTANTS
  Waking = {w1}
  Quiet = {q1}
  Uploads = {u1}
  Found = {n1}
  Interval = 1
  Cooldown = 1
  MaxJobs = 1
  MaxAsked = 3
  MaxMishaps = 1
INVARIANT NoLostWake
PROPERTY EveryoneServed
