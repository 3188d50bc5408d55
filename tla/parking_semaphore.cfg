SPECIFICATION FairSpec
CONSTANTS
  t1 = t1
  t2 = t2
  t3 = t3
  Threads <- ThreeThreads
  InitialTokens = 1
  ReleaseSizes = {0, 1, 2}
  MaxReleased = 3
  Usages <- AllUsages
CHECK_DEADLOCK FALSE
INVARIANTS CountIsExact NoStrandedSleeper
PROPERTIES ImplementsSemaphore TokenIsTakenByOne
