CONSTANTS
  MaxImages = 4
  VizUvTracking = TRUE
SPECIFICATION FairSpec
INVARIANTS
  AnchorsPredateFrame
  JoinLosesNothing
PROPERTIES
  EveryImageAnswered
  PipeSpec
CHECK_DEADLOCK FALSE
