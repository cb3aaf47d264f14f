CONSTANTS
  MaxImages = 2
  VizUvTracking = TRUE
SPECIFICATION FairSpec
PROPERTY
  StopReturns
CHECK_DEADLOCK FALSE
