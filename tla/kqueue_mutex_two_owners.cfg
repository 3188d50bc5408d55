SPECIFICATION AsyncSpec
CONSTANTS
  t1 = t1
  t2 = t2
  t3 = t3
  o1 = o1
  o2 = o2
  Threads <- AllThreads
  Ops <- AllOps
  Setups <- SimpleDisturbed
  SystemClock <- SimpleKqueue
  MaxTokens = 2
INVARIANT OneOwner
