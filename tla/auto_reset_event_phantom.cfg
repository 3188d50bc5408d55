SPECIFICATION Spec
CONSTANTS
  t1 = t1
  t2 = t2
  t3 = t3
  Threads <- ThreeThreads
  InitiallySet = FALSE
  MaxSignals = 1
  Usages <- DeadlineUsage
CHECK_DEADLOCK FALSE
INVARIANT NoPhantomWakeup
