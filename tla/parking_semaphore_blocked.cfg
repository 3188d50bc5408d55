SPECIFICATION FairSpec
CONSTANTS
  t1 = t1
  t2 = t2
  t3 = t3
  Threads <- ThreeThreads
  InitialTokens = 0
  ReleaseSizes = {1, 2}
  MaxReleased = 1
  Usages <- ManyAcquirers
CHECK_DEADLOCK FALSE
PROPERTY TokenIsTaken
