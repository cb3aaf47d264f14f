CONSTANTS
  Poses = {p1, p2}
  Modes <- AllModes
  MaxIter = 2
  MaxFrames = 2
SPECIFICATION Spec
INVARIANTS
  EvidenceOnce
  RollbackComplete
  JointFitGood
PROPERTIES
  FrameEnds
  FusionSpec
CHECK_DEADLOCK FALSE
