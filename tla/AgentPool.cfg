SPECIFICATION FairSpec
CONSTANTS
  Deleters = {d1}
  MinSize = 1
  MaxSize = 2
  Deltas = {1, 2}
  MaxDeploymentsCount = 1
  MaxBatch = 1
  MaxIndex = 3
  MaxMade = 3
INVARIANTS VMsWithinMax
PROPERTIES IsNodeGroup NewestKept SizeConverges
