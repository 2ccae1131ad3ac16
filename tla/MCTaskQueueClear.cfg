\* Tasks push into, pop from and clear a queue.
CONSTANTS
  t1 = t1
  t2 = t2
  t3 = t3
  h1 = h1
  i1 = i1
  i2 = i2
  Task = {t1, t2, t3}
  Host = {h1}
  SEMAPHORE_WAIT_MAX = 2
  SemCounts = {1, 2}
  Bit = {0, 1}
  EVENT_FLAG_WAIT_MAX = 2
  depth = 2
  QUEUE_WAIT_MAX = 2
  Item = {i1, i2}
  NoItem = NoItem
  NoTask = NoTask
  Programs = {{"queue", "clear", "MPU_TO_MPU"}}
SPECIFICATION SyncSpec
SYMMETRY ClientSymmetry
\* All tasks may wait for a signal, a bit or an item nobody sends.
CHECK_DEADLOCK FALSE
INVARIANTS ClearWakesAll
