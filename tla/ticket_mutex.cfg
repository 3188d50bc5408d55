SPECIFICATION FairSpec
CONSTANTS
  t1 = t1
  t2 = t2
  t3 = t3
  Threads <- ThreeThreads
  Modulus = 4
  MaxWindow = 1
INVARIANTS TicketsAreDistinct NoLostWakeup
PROPERTIES ImplementsFifo NoStarvation
