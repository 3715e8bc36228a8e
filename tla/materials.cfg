SPECIFICATION FairSpec
CONSTANTS
  MaxRequests = 2
  MaxCatalog = 2
  MaxFaults = 1
INVARIANTS MaterialsAgree RequestRefreshesAll
PROPERTIES RequestReachesCard AdmittedMarksTruly
