SPECIFICATION FairSpec
CONSTANTS
  Deleters = {}
  Obj = {1, 2, 3, 4, 5}
  MinSize = 1
  MaxSize = 3
  Deltas = {1}
  RefreshInterval = 1
  GetVmssSizeRefreshPeriod = 1
  Spot = FALSE
  EnableVMSSEtag = TRUE
  StrictCacheUpdates = FALSE
  MaxBatch = 1
  MaxVersion = 4
  MaxPuts = 1
INVARIANTS NoRejectedSizeLeft SuccessIsEarned
PROPERTIES RetryNeverShrinks SizeConverges CallsReturn
