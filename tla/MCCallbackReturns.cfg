\* Three workloads that call the host twice, through a ring of two.
CONSTANTS
  k1 = k1
  k2 = k2
  w1 = w1
  w2 = w2
  w3 = w3
  Kernels = {k1}
  Workloads = {w1, w2, w3}
  QueueMax = 2
  MaxCalls = 2
  ClientOps = {}
  NoWorkload = NoWorkload
  NoKernel = NoKernel
  NoLine = NoLine
SPECIFICATION FairSpec
\* Bounded calls end with every kernel idle or gone.
CHECK_DEADLOCK FALSE
INVARIANT BlocksUntilReturn
PROPERTIES CallsServed CallReturns
