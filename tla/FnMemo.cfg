SPECIFICATION Spec
CONSTANTS
  f1 = f1  f2 = f2  n1 = n1  n2 = n2  v1 = v1  v2 = v2  v3 = v3
  Absent = Absent
  Files <- MCFiles
  Chunks <- MCChunks
  Values <- MCValues
  ChunksOf <- MCChunksOf
  ChunkContent = v1
  Applications <- MCBoth
  MaxChanges = 3
  MaxFaults = 2
CHECK_DEADLOCK FALSE
INVARIANTS
  SinkMatchesUnlessCarried TrackingCoversSinkUnlessCarried MemosAreBacked MemosAreExact
