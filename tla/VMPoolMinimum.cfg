SPECIFICATION Spec
CONSTANTS
  Deleters = {d1}
  Waiters = {}
  SKU = {"a", "b"}
  Profiled = {"a", "b"}
  VM <- MCVM3
  SkuOf <- MCSkuOf
  MinSize = 1
  MaxSize = 2
  Deltas = {}
  MaxBatch = 1
  ManualProfile = TRUE
  Spot = FALSE
  StrictCacheUpdates = FALSE
PROPERTIES MinimumKept
