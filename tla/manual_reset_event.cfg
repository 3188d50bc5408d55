SPECIFICATION FairSpec
CONSTANTS
  t1 = t1
  t2 = t2
  t3 = t3
  Threads <- ThreeThreads
  InitiallySet = FALSE
  Backoffs = {TRUE, FALSE}
  SpinLimit = 2
INVARIANTS TypeOK NoLostWakeup
PROPERTY SetEventReleasesAll
