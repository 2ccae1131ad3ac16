\* Workloads in different blocks that wait for and unschedule each other.
CONSTANTS
  k1 = k1
  k2 = k2
  h1 = h1
  h2 = h2
  Kernels = {k1, k2}
  Hosts = {h1}
  NumBlocks = 2
  PerBlock = 1
  PRIORITY_MAX = 0
  BLOCK_COUNTER_MAX = 1
  COUNTER_MAX = 1
  MaxSchedules = 1
  NumAdded = 2
  HostOps = {"schedule"}
  SpuOps = {"wait_set", "unschedule"}
  NoActor = NoActor
  NoId = NoId
  NoRun = NoRun
  NoOp = NoOp
  NoBest = NoBest
  NoView = NoView
SPECIFICATION AddedSpec
SYMMETRY KernelSymmetry
\* A bounded schedule ends with every kernel asleep or gone.
CHECK_DEADLOCK FALSE
INVARIANTS NoOversleep NeverAllOversleep
PROPERTIES LifecycleKept
