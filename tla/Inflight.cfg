SPECIFICATION FairSpec
CONSTANTS
  root = root
  a = a
  b = b
  c = c
  Components = {root, a, b}
  Root = root
  Parent <- ChainParent
  Updates = {u1, u2}
  NoRun = NoRun
  Quota = 1
  Overlap = FALSE
  MaxFaults = 1
  MaxPanics = 1
INVARIANTS Accounted SubmitsAfterChildren SuccessCoversSubtree
PROPERTIES UpdatesEnd
CHECK_DEADLOCK FALSE
