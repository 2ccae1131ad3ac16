\* Programs of three tasks and a host thread, each using an object in one
\* way.
CONSTANTS
  t1 = t1
  t2 = t2
  t3 = t3
  h1 = h1
  i1 = i1
  i2 = i2
  Task = {t1, t2, t3}
  Host = {h1}
  SEMAPHORE_WAIT_MAX = 2
  SemCounts = {1, 2}
  Bit = {0, 1}
  EVENT_FLAG_WAIT_MAX = 2
  depth = 2
  QUEUE_WAIT_MAX = 2
  Item = {i1, i2}
  NoItem = NoItem
  NoTask = NoTask
  Programs = {
    {"signal"}, {"semaphore"}, {"barrier"}, {"semaphore", "destroy"},
    {"semaphore", "flag", "MPU_TO_MPU"}, {"flag", "flag_clear", "MPU_TO_MPU"},
    {"flag", "flag_clear", "MPU_TO_HOST"}, {"flag", "remove", "HOST_TO_MPU"},
    {"flag", "destroy", "MPU_TO_MPU"},
    {"queue", "MPU_TO_MPU"}, {"queue", "MPU_TO_HOST"}, {"queue", "destroy", "HOST_TO_MPU"},
    {"queue", "peek", "HOST_TO_MPU"}, {"queue", "clear", "HOST_TO_MPU"},
    {"queue", "host_clear", "HOST_TO_MPU"}}
SPECIFICATION SyncSpec
SYMMETRY ClientSymmetry
\* All tasks may wait for a signal, a bit or an item nobody sends.
CHECK_DEADLOCK FALSE
INVARIANTS SyncTypeOK NewsIsSeen SemaphoreExact WaitersKept FlagNotMissed QueueWaitersServed HostNotMissed SomeoneRuns
PROPERTIES BarrierRounds QueueFifo FlagWaitMeetsCondition
