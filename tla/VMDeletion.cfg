SPECIFICATION FairSpec
CONSTANTS
  VM = {i1, i2}
  None = None
  Deleters = {d1, d2}
  MinSize = 1
  MaxBatch = 1
  StrictCacheUpdates = FALSE
INVARIANTS OrphansExplained
PROPERTIES IsNodeGroup MarkWearsOff
