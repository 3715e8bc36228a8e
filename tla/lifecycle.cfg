SPECIFICATION FairSpec
CONSTANTS
  Source = {s1}
  Upload = {u1}
  MaxFaults = 1
  MaxManual = 1
  Base = 2
  CodeWidth = 2
  MaxDigits = 3
  Prefixes = {N, AB}
  LongPrefixes = {AB}
  OtherWords = {ten}
  Tenants = {t1, t2}
INVARIANTS
  NumberNamesOne
  SearchAgrees
PROPERTIES
  IngestKeepsWork
  AudioIsWorked
  EveryRowNumbered
  SourceArchived
