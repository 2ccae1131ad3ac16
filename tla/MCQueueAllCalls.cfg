\* Every call of the API but the exit, by a host thread and by workloads on two kernels,
\* on a queue that starts empty.
CONSTANTS
  k1 = k1
  k2 = k2
  h1 = h1
  h2 = h2
  Kernels = {k1, k2}
  Hosts = {h1}
  NumBlocks = 1
  PerBlock = 1
  PRIORITY_MAX = 1
  BLOCK_COUNTER_MAX = 1
  COUNTER_MAX = 1
  MaxSchedules = 2
  NumAdded = 0
  HostOps = {"add", "remove", "schedule", "unschedule", "signal", "wait", "cancel"}
  SpuOps = {"wait_set", "signal", "signal_reset", "schedule", "unschedule", "cancel"}
  NoActor = NoActor
  NoId = NoId
  NoRun = NoRun
  NoOp = NoOp
  NoBest = NoBest
  NoView = NoView
SPECIFICATION Spec
SYMMETRY KernelSymmetry
\* A bounded schedule ends with every kernel asleep or gone.
CHECK_DEADLOCK FALSE
INVARIANTS TypeOK HeaderCovers HeaderExact RunningIsExecuted
 
