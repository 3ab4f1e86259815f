SPECIFICATION FairSpec
CONSTANTS
  Subpaths = {p}
  Contents = {v}
  Absent = Absent
  Calls = {c1, c2, c3}
  NoCall = NoCall
  MaxFulls = 1
  MaxFaults = 1
INVARIANTS
  OpsWaitForFull
  HandlesAreServed
  ChildrenReachable
  LatestUpdateTakesEffect
PROPERTIES
  DrainedStaysQuiet
  HandlesResolve
CHECK_DEADLOCK FALSE
