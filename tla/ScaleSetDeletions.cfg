SPECIFICATION FairSpec
CONSTANTS
  Deleters = {d1}
  Obj = {1, 2, 3, 4, 5}
  MinSize = 0
  MaxSize = 1
  Deltas = {1}
  RefreshInterval = 1
  GetVmssSizeRefreshPeriod = 1
  Spot = FALSE
  EnableVMSSEtag = FALSE
  StrictCacheUpdates = FALSE
  MaxBatch = 1
  MaxVersion = 3
  MaxPuts = 1
INVARIANTS CapacityWithinMax SizeNeverNegative
PROPERTIES SizeConverges
