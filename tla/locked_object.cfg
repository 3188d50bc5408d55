SPECIFICATION FairSpec
CONSTANTS
  t1 = t1
  t2 = t2
  t3 = t3
  Threads <- AllThreads
  NoThread = NoThread
  MaxDepth = 3
  Setups <- AllSetups
  Slots = {1, 2}
INVARIANTS
  WordIsExact
  PendingHasWriter
  OwnerIsInside
  CountIsDepth
  GuardsMatchLocks
  NoLostUpdate
PROPERTY FreeLockIsTaken
