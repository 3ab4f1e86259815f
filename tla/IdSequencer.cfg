SPECIFICATION Spec
CONSTANTS
  Calls = {c1, c2, c3}
  Keys = {k}
  NoCall = NoCall
  InitialBatch = 2
  MaxBatch = 4
  AppIsKept = FALSE
  MaxId = 10
  MaxFaults = 2
SYMMETRY CallSymmetry
INVARIANT IdsAreUnique
PROPERTIES NeverReissued
CHECK_DEADLOCK FALSE
