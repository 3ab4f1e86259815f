SPECIFICATION FairSpec
CONSTANTS
  c1 = c1  c2 = c2  t1 = t1  t2 = t2  v1 = v1  v2 = v2
  Absent = Absent
  Nobody = Nobody
  Components <- MCComponents
  Targets <- MCTargets
  Values <- MCValues
  MaxPendingRetries = 2
  OverlappingRuns = FALSE
  Cancellation = FALSE
  MaxChanges = 2
  MaxInterruptions = 1
CHECK_DEADLOCK FALSE
INVARIANT LiveTokenHasRun
PROPERTY SinkConverges
