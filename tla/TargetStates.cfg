SPECIFICATION Spec
CONSTANTS
  c1 = c1  c2 = c2  t1 = t1  t2 = t2  v1 = v1  v2 = v2
  Absent = Absent
  Nobody = Nobody
  Components <- MCComponents
  Targets <- MCTargets
  Values <- MCValues
  MaxPendingRetries = 2
  OverlappingRuns = FALSE
  Cancellation = TRUE
  MaxChanges = 3
  MaxInterruptions = 1
SYMMETRY Interchangeable
CHECK_DEADLOCK FALSE
INVARIANTS
  TypeOK TrackingCoversSink TrackedByOwner OneSinkWriter CommitPlanIsFresh
  SyncedTargetsAreInSink SettledItemsAgree
