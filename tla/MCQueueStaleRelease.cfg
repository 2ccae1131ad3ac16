\* A workload is unscheduled and scheduled again while a kernel still runs it.
CONSTANTS
  k1 = k1
  k2 = k2
  h1 = h1
  h2 = h2
  Kernels = {k1, k2}
  Hosts = {h1}
  NumBlocks = 1
  PerBlock = 1
  PRIORITY_MAX = 0
  BLOCK_COUNTER_MAX = 1
  COUNTER_MAX = 1
  MaxSchedules = 2
  NumAdded = 1
  HostOps = {"schedule", "unschedule"}
  SpuOps = {}
  NoActor = NoActor
  NoId = NoId
  NoRun = NoRun
  NoOp = NoOp
  NoBest = NoBest
  NoView = NoView
SPECIFICATION AddedSpec
SYMMETRY KernelSymmetry
\* A bounded schedule ends with every kernel asleep or gone.
CHECK_DEADLOCK FALSE
PROPERTIES ReleasesOwnRun
