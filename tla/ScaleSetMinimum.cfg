SPECIFICATION QuietSpec
CONSTANTS
  Deleters = {d1}
  Obj = {1, 2, 3, 4, 5}
  MinSize = 1
  MaxSize = 3
  Deltas = {1}
  RefreshInterval = 2
  GetVmssSizeRefreshPeriod = 2
  Spot = FALSE
  EnableVMSSEtag = FALSE
  StrictCacheUpdates = FALSE
  MaxBatch = 1
  MaxVersion = 5
  MaxPuts = 1
INVARIANT MinimumKept
