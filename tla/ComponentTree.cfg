SPECIFICATION FairSpec
CONSTANTS
  root = root  p = p  g = g  h = h  v1 = v1  v2 = v2
  Absent = Absent
  Root = root
  Components <- MCTree
  Parent <- MCParent
  Contents <- MCContents
  Mounts <- MCMounts
  Validated = {g}
  Modes = {TRUE, FALSE}
  Slots = {s1, s2}
  MaxChanges = 3
  MaxFaults = 1
  MaxCancels = 1
CHECK_DEADLOCK FALSE
INVARIANTS
  ChildrenAccounted MemosMatchSubtree WantedIsInSink
PROPERTIES
  ExistingAreSpared TreeConverges
