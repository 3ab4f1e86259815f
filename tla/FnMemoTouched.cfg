SPECIFICATION Spec
CONSTANTS
  f1 = f1  f2 = f2  n1 = n1  n2 = n2  v1 = v1  v2 = v2  v3 = v3
  Absent = Absent
  Files <- MCOneFile
  Chunks <- MCChunks
  Values <- MCValues
  ChunksOf <- MCChunksOf
  ChunkContent = v1
  Applications <- MCTimestamps
  MaxChanges = 2
  MaxFaults = 0
CHECK_DEADLOCK FALSE
INVARIANTS
  SinkMatches
