SPECIFICATION FairSpec
CONSTANTS
  Deleters = {d1}
  Waiters = {w1}
  SKU = {"a", "b"}
  Profiled = {"a", "b"}
  VM <- MCVM
  SkuOf <- MCSkuOf
  MinSize = 0
  MaxSize = 1
  Deltas = {1}
  MaxBatch = 1
  ManualProfile = TRUE
  Spot = FALSE
  StrictCacheUpdates = FALSE
INVARIANTS CountWithinMax
PROPERTIES RefusedForgotten MarkWearsOff DeletingReported
