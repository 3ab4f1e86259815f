SPECIFICATION FairSpec
CONSTANTS
  a1 = a1
  a2 = a2
  a3 = a3
  b1 = b1
  A = A
  B = B
  Calls <- MCCalls
  Batchers = {A, B}
  BatcherOf <- MCBatcherOf
  MaxSize <- MCMaxSize
INVARIANTS
  QueueAccounted
  StartsInOrder
PROPERTIES
  EveryCallIsAnswered
CHECK_DEADLOCK FALSE
