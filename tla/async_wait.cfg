SPECIFICATION AsyncFairSpec
CONSTANTS
  t1 = t1
  t2 = t2
  t3 = t3
  o1 = o1
  o2 = o2
  Threads <- AllThreads
  Ops <- AllOps
  Setups <- AllSetups
  ReleaseSizes = {0, 1, 2}
  MaxOwed = 2
INVARIANTS
  NoStrandedSleeper
  SetIsSeen
  HandlerOnce
  NoOvergrant
PROPERTIES
  TokenIsTaken
  WaiterIsServed
  CancelIsAnswered
CHECK_DEADLOCK FALSE
