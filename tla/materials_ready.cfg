SPECIFICATION Spec
CONSTANTS
  MaxRequests = 0
  MaxCatalog = 1
  MaxFaults = 0
INVARIANTS ReadyMeansFresh
