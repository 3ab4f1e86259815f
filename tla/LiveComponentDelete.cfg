SPECIFICATION Spec
CONSTANTS
  Subpaths = {p}
  Contents = {v}
  Absent = Absent
  Calls = {c1, c2}
  NoCall = NoCall
  MaxFulls = 0
  MaxFaults = 0
INVARIANTS
  LatestTakesEffect
CHECK_DEADLOCK FALSE
