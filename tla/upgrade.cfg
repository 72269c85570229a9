SPECIFICATION FairSpec
CONSTANTS
  l1 = l1
  l2 = l2
  l3 = l3
  Loads <- MCLoads
  MaxFailures = 1
INVARIANTS
  CatalogSteady
  HistoryNotSplit
PROPERTIES
  AmbiguityBlocks
  UpgradeSettles
