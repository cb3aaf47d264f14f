SPECIFICATION BuildSpec
CONSTANTS
  PlaneThreshold = 2
  SensorFloor = 1
  ShapeRatio = 4
  RelSigmas = 12
  SigmaNum = 2
  MinPoints = 1
  Threads = 2
  MaxFits = 2
  MaxBuilds = 2
  Cells = {0, 1, 2}
  BuildPoses = {0, 1}
  Points <- MCPoints
  FitSet <- MCFits
  OptionSet <- MCOptions
INVARIANTS RowsSound MissesExplained StatsExact
CHECK_DEADLOCK FALSE
