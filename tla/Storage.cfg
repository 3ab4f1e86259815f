SPECIFICATION SFairSpec
CONSTANTS
  Calls = {c1, c2, c3}
  Store = Store
  Batchers = {Store}
  BatcherOf <- MCBatcherOf
  MaxSize <- MCMaxSize
  Readers = {r1}
  NoWriter = NoWriter
  InitialMap = 1
  MaxFaults = 2
INVARIANTS
  TransactionsAccounted
  CommitsInOrder
PROPERTIES
  KeepsPromise
  EveryCallIsAnswered
CHECK_DEADLOCK FALSE
