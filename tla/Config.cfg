SPECIFICATION LoadSpec
CONSTANT Configs <- MCConfigs
INVARIANTS
  NothingIgnored
  GoodConfigsStart
CHECK_DEADLOCK FALSE
