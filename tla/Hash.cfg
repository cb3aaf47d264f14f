CONSTANTS
  Keys = {1, 2, 3, 4, 5}
  None = None
  HashFunctions <- MCHashes
  InitialNumElements = 4
  InitialInfoInc = 4
  InfoTop = 7
  Attempts = 5
  MaxMult = 3
  ReserveArgs = {0, 4}
SPECIFICATION TableSpec
INVARIANTS TableCorrect SweepVisitsOnce
CHECK_DEADLOCK FALSE
