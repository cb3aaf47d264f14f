CONSTANTS
  Roots = {r1}
  Octants = {o1, o2}
  Cells = {c1, c2}
  MaxLayer = 1
  MinInit = 1
  MinUpdate = 1
  MaxPoints = 2
  MinReps = 1
  MaxScans = 3
  MaxBatch = 3
SPECIFICATION Spec
SYMMETRY Renamings
INVARIANTS
  NoPointLost
  LocksJustified
  CachesMatchNodes
  MarkersIndexed
CHECK_DEADLOCK FALSE
