SPECIFICATION Spec
CONSTANTS
  Callers = {c1}
  Tokens = {t1, t2}
  NoToken = NoToken
  Files = {f1}
  NoFile = NoFile
  Admins = {a1, a2}
  Bots = {b1}
  Numbers = {1, 2, 3}
  Offers <- AllOffers
  Tools = {"recordings_list", "recording_get"}
  MaxLimit = 2
  MaxOffset = 1
  MaxTime = 1
  MaxFaults = 1
  MaxCalls = 3
  MaxMoves = 1
INVARIANTS HandoffReachable AnswersAudited RevokedGoUnanswered WalkComplete
SYMMETRY Alike
CHECK_DEADLOCK FALSE
