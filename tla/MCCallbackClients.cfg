\* Everything clients may do at any time.
CONSTANTS
  k1 = k1
  k2 = k2
  w1 = w1
  w2 = w2
  w3 = w3
  Kernels = {k1, k2}
  Workloads = {w1, w2}
  QueueMax = 2
  MaxCalls = 1
  ClientOps = {"signal", "unschedule", "destroy"}
  NoWorkload = NoWorkload
  NoKernel = NoKernel
  NoLine = NoLine
SPECIFICATION Spec
\* Bounded calls end with every kernel idle or gone.
CHECK_DEADLOCK FALSE
SYMMETRY Symmetry
INVARIANTS TypeOK FlagAgrees NoMissedCallback DestroyedAllAnswered
