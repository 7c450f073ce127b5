SPECIFICATION Spec
CONSTANTS
  Inst = {i1}
  Deleters = {d1}
  Flexible = FALSE
  EnableFastDeleteOnFailedProvisioning = TRUE
  EnableDetailedCSEMessage = FALSE
  CSEFailing = {}
  StrictCacheUpdates = FALSE
INVARIANT UnknownRefused
