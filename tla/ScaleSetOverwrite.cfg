SPECIFICATION Spec
CONSTANTS
  Deleters = {}
  Obj = {1, 2, 3, 4, 5}
  MinSize = 1
  MaxSize = 3
  Deltas = {1}
  RefreshInterval = 2
  GetVmssSizeRefreshPeriod = 2
  Spot = FALSE
  EnableVMSSEtag = TRUE
  StrictCacheUpdates = FALSE
  MaxBatch = 1
  MaxVersion = 4
  MaxPuts = 1
PROPERTY ConcurrentModificationsKept
