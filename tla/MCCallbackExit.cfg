\* The context is destroyed while a workload calls the host.
CONSTANTS
  k1 = k1
  k2 = k2
  w1 = w1
  w2 = w2
  w3 = w3
  Kernels = {k1, k2}
  Workloads = {w1}
  QueueMax = 2
  MaxCalls = 1
  ClientOps = {"destroy"}
  NoWorkload = NoWorkload
  NoKernel = NoKernel
  NoLine = NoLine
SPECIFICATION FairSpec
\* Bounded calls end with every kernel idle or gone.
CHECK_DEADLOCK FALSE
PROPERTY ExitEndsHandler
