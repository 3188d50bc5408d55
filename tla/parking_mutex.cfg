SPECIFICATION FairSpec
CONSTANTS
  t1 = t1
  t2 = t2
  t3 = t3
  Threads <- ThreeThreads
  HasBackoff = TRUE
  HasTimed = TRUE
INVARIANTS MutualExclusion WordIsExact NoLostWakeup
PROPERTIES ImplementsMutex FreeLockIsTaken
