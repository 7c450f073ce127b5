SPECIFICATION FairSpec
CONSTANTS
  Inst = {i1}
  Deleters = {d1}
  Flexible = FALSE
  EnableFastDeleteOnFailedProvisioning = TRUE
  EnableDetailedCSEMessage = FALSE
  CSEFailing = {}
  StrictCacheUpdates = FALSE
INVARIANTS StatesAligned
PROPERTIES MarkSticks MarkWearsOff DeletingReported
