SPECIFICATION Spec
CONSTANTS
  Lookahead = 0
  QuietMargin = 3
  OfflineModes = {TRUE}
  SamplePeriod = 1
  MaxGap = 3
  UpdateEvery = 1
  FitHistory = 2
  MainHz = 10
  SidebandHz = 2
  ExtraHz = 4
  MaxDev = 1
  Drifts <- MCDrifts
  Horizon = 7
  ImageStamps <- MCImageStamps
  ScanLength = 1
  MaxImages = 4
  MaxScans = 3
  MaxImu = 3
  Jitter = 1
  SplitPulses = FALSE
  AccScale = 4
  Combined = FALSE
CHECK_DEADLOCK FALSE
INVARIANTS
  FrameLocal
  EveryPointDeskewed
PROPERTIES
  PosesTile
  TrackedOnHistory
