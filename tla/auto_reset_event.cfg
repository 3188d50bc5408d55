SPECIFICATION FairSpec
CONSTANTS
  t1 = t1
  t2 = t2
  t3 = t3
  Threads <- ThreeThreads
  InitiallySet = TRUE
  MaxSignals = 3
  Usages <- SoundUsages
CHECK_DEADLOCK FALSE
INVARIANTS StateIsExact NoLostWakeup
PROPERTIES ImplementsTokens TokenIsTakenByOne
