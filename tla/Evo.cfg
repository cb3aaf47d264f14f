CONSTANTS
  QueueSize = 2
  MaxTimeDiff = 1
  RpeDelta = 2
  Start = 10
  MaxTime = 5
  MaxSamples = 3
SPECIFICATION Spec
INVARIANTS
  MatchesCorrect
  CheckpointsOnce
CHECK_DEADLOCK FALSE
