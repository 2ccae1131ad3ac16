\* Two workloads of one block that wait for each other and are signalled, and a
\* host thread that waits for them; or two workloads of different blocks that compete
\* for the kernel, until it is told to exit.
CONSTANTS
  k1 = k1
  k2 = k2
  h1 = h1
  h2 = h2
  Kernels = {k1}
  Hosts = {h1}
  NumBlocks = 2
  PerBlock = 2
  PRIORITY_MAX = 0
  BLOCK_COUNTER_MAX = 1
  COUNTER_MAX = 1
  MaxSchedules = 1
  NumAdded = 2
  HostOps = {"schedule","signal","wait","exit"}
  SpuOps = {"wait_set"}
  NoActor = NoActor
  NoId = NoId
  NoRun = NoRun
  NoOp = NoOp
  NoBest = NoBest
  NoView = NoView
SPECIFICATION FairAddedSpec
ACTION_CONSTRAINT ShareCalls
\* A bounded schedule ends with every kernel asleep or gone.
CHECK_DEADLOCK FALSE
INVARIANTS NoOversleep FinishIsNotified
PROPERTIES SignalResumes FinishResumes ExitStopsKernels ReadyIsServed WaitReturns
