SPECIFICATION CacheSpec
CONSTANTS
  Bags <- MCBags
  SettingSet <- MCSettings
  Valid <- MCValid
  CandidateCap = 3
  Tolerance = 2
CHECK_DEADLOCK FALSE
INVARIANTS
  FindsOwnRecord
  ReplayIsTracking
  
  AnchorsBestAndSpread
