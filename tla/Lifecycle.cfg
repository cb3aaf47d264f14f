CONSTANTS
  ImageInterval = 2
  MaxVisible = 1
  MaxGroups = 4
SPECIFICATION FairSpec
INVARIANTS
  ExportComplete
  HeadersTruthful
  PosePairsJoin
PROPERTIES
  OfflineRunEnds
CHECK_DEADLOCK FALSE
