SPECIFICATION FairSpec
CONSTANTS
  Name = {"a", "A", "b", "d"}
  Fold <- MCFold
  FlexNames = {"A"}
  Tags <- MCTags
  Configs <- MCConfigs
  Explicit <- MCExplicit
  Inst = {"i"}
  Owner <- MCOwner
  VMType = "vmss"
  VMsPools = FALSE
  Waiters = {w1}
INVARIANTS SizesSane
PROPERTIES ExplicitKept DiscoveryConverges LookUpConverges
