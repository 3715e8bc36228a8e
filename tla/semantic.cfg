SPECIFICATION FairSpec
CONSTANTS
  Recs = {1, 2}
  Models = {m1, m2}
  NoModel = NoModel
  Pieces <- OddInTwo
  Batch = 1
  McpReaders = {q1}
  ViewerReaders = {}
  MaxVersion = 2
  MaxMoves = 2
  MaxFaults = 2
  MaxUpgrades = 1
  MaxSearches = 1
INVARIANTS IndexSound AnswersWhole
PROPERTIES KeepsMirror CatchesUp
CHECK_DEADLOCK FALSE
