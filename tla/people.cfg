SPECIFICATION Spec
CONSTANTS
  Persons = {p1, p2}
  Self = {p1}
  Speakers = {s1}
  NoPerson = NoPerson
  Threads = {t1, t2}
  MaxEvents = 3
  MaxUpdates = 3
  Voices = {v1, v2, v3}
  Unlabelled = Unlabelled
  Unnamed = Unnamed
  MaxSegments = 3
  MaxSpeakers = 2
  MaxSnippet = 2
SYMMETRY Alike
INVARIANT HistoryTrue
CHECK_DEADLOCK FALSE
