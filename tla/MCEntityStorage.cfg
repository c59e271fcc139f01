SPECIFICATION FairSpec
CONSTANTS
  main = main
  worker1 = worker1
  worker2 = worker2
  Threads <- MCThreads
  LoopThreads = {main}
  Rows = {coin, gem}
  NoThread = NoThread
  Closed = Closed
  MaxRows = 3
  MaxLaunches = 2
INVARIANTS
  RealmNeverBehind
  StaleOnlyUntilNotice
PROPERTIES
  ImplementsRewardTable
  MainCatchesUp
CHECK_DEADLOCK FALSE
