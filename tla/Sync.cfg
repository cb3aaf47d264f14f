CONSTANTS
  Lookahead = 1
  QuietMargin = 1
  OfflineModes = {TRUE, FALSE}
  FrameCounts = {1, 3}
  MaxTime = 4
  Jitter = 1
  MaxImages = 3
  MaxScans = 1
  MaxImu = 3
  MaxMessages = 6
SPECIFICATION FairSpec
INVARIANTS
  QueuesCutAtImages
  ResultsKeepPace
  AnchorAlwaysFound
  CalibrationWhole
PROPERTIES
  LidarWindow
  ReadyImageTaken
CHECK_DEADLOCK FALSE
