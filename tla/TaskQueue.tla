----------------------------- MODULE TaskQueue -----------------------------
(***************************************************************************)
(* The queue of MARS tasks (task_queue.c of the SPU and of the host): a    *)
(* ring of items with two rings of waiting tasks, those that wait to push  *)
(* and those that wait to pop.                                             *)
(*                                                                         *)
(* A push or pop of a task starts a DMA and keeps the queue's lock until   *)
(* it is complete, or until the task calls push_end or pop_end, so the end *)
(* is a step of its own and nobody else gets the lock in between (qlock).  *)
(* A resumed task takes the lock again and tests the queue again.          *)
(***************************************************************************)
EXTENDS TaskSignal, HostCond, Integers, Sequences, FiniteSets

CONSTANTS
  depth,             \* items in the queue
  QUEUE_WAIT_MAX,    \* MARS_TASK_QUEUE_WAIT_MAX: places in a ring of waiters
  Item, NoItem,
  NoTask             \* what the places of a new ring hold, and who holds a free lock

ASSUME QueueAssumption ==
  /\ depth \in Nat \ {0} /\ QUEUE_WAIT_MAX \in Nat \ {0}
  /\ NoTask \notin Task /\ NoItem \notin Item

VARIABLES
  queue,    \* [count, push, pop, push_wait, pop_wait, direction]: push and pop
            \* stand for push_ea and pop_ea, as indices of buffer
  buffer,   \* buffer_ea
  qlock,    \* the task between begin and end
  data      \* the item a user waits to push, or has read

queueVars == <<queue, buffer, qlock, data>>

Directions == {"HOST_TO_MPU", "MPU_TO_HOST", "MPU_TO_MPU"}
Places == 0..QUEUE_WAIT_MAX - 1
User == Task \union Host
WaitRing == [head : Places, count : 0..QUEUE_WAIT_MAX, id : [Places -> Task \union {NoTask}]]
EmptyRing == [head |-> 0, count |-> 0, id |-> [p \in Places |-> NoTask]]

QueueTypeOK ==
  /\ SigTypeOK /\ HostTypeOK
  /\ queue \in [count : 0..depth, push : 0..depth - 1, pop : 0..depth - 1,
                push_wait : WaitRing, pop_wait : WaitRing, direction : Directions]
  /\ buffer \in [0..depth - 1 -> Item \union {NoItem}]
  /\ qlock \in Task \union {NoTask}
  /\ data \in [User -> Item \union {NoItem}]

QueueInit ==
  /\ \E d \in Directions :
       queue = [count |-> 0, push |-> 0, pop |-> 0, push_wait |-> EmptyRing,
                pop_wait |-> EmptyRing, direction |-> d]
  /\ buffer = [i \in 0..depth - 1 |-> NoItem]
  /\ qlock = NoTask
  /\ data = [u \in User |-> NoItem]

(***************************************************************************)
(* The rings.                                                              *)
(***************************************************************************)
\* The p-th place of a ring after its head.
At(ring, p) == (ring.head + p) % QUEUE_WAIT_MAX

Enlisted(ring) == {ring.id[At(ring, p)] : p \in 0..ring.count - 1}

\* The task is added at the tail.
Enlist(ring, t) ==
  [ring EXCEPT !.id[At(ring, ring.count)] = t, !.count = @ + 1]

\* Which task an update signals, and the ring without it.
First(ring) ==
  IF ring.count = 0 THEN [id |-> {}, rest |-> ring]
  ELSE [id |-> {ring.id[ring.head]},
        rest |-> [ring EXCEPT !.count = @ - 1, !.head = At(ring, 1)]]

\* MUTANT of After: wraps one place late.
AfterLate(i) == IF i = depth THEN 0 ELSE i + 1

\* push_ea and pop_ea after an item.
After(i) == IF i + 1 = depth THEN 0 ELSE i + 1

(***************************************************************************)
(* push_update and pop_update: signal one waiter of the other side, count, *)
(* advance.                                                                *)
(***************************************************************************)
PushUpdate ==
  LET first == First(queue.pop_wait)
  IN  /\ Send(first.id)
      /\ queue' = [queue EXCEPT !.pop_wait = first.rest, !.count = @ + 1, !.push = After(@)]

\* MUTANT of PopUpdate: waiters are signalled only when the queue was full.
PopUpdateWhenFull ==
  LET first == First(queue.push_wait)
  IN  IF queue.count = depth
      THEN /\ Send(first.id)
           /\ queue' = [queue EXCEPT !.push_wait = first.rest, !.count = @ - 1, !.pop = After(@)]
      ELSE /\ UNCHANGED signal
           /\ queue' = [queue EXCEPT !.count = @ - 1, !.pop = After(@)]

PopUpdate ==
  LET first == First(queue.push_wait)
  IN  /\ Send(first.id)
      /\ queue' = [queue EXCEPT !.push_wait = first.rest, !.count = @ - 1, !.pop = After(@)]

\* The task t enters call o, or comes back to it after a signal, and takes the lock.
Locks(t, o) == qlock = NoTask /\ (Free(t) \/ Inside(t, o))

(***************************************************************************)
(* Push.                                                                   *)
(***************************************************************************)
\* push and push_begin of a task when there is room: the item is on its way.
PushBegin(t, v) ==
  /\ Locks(t, "push")
  /\ Inside(t, "push") => v = data[t]
  /\ queue.direction # "HOST_TO_MPU"
  /\ queue.count # depth
  /\ buffer' = [buffer EXCEPT ![queue.push] = v]
  /\ data' = [data EXCEPT ![t] = NoItem]
  /\ qlock' = t
  /\ Continue(t, "push_end")
  /\ UNCHANGED <<signal, news, hostVars, queue>>

\* A full queue: t waits, for the first time or again.
PushBlocks(t, v) ==
  /\ Locks(t, "push")
  /\ Inside(t, "push") => v = data[t]
  /\ queue.direction # "HOST_TO_MPU"
  /\ queue.count = depth
  /\ queue.push_wait.count # QUEUE_WAIT_MAX
  /\ queue' = [queue EXCEPT !.push_wait = Enlist(@, t)]
  /\ data' = [data EXCEPT ![t] = v]
  /\ Block(t, "push")
  /\ UNCHANGED <<signal, news, hostVars, buffer, qlock>>

\* MARS_ERROR_LIMIT to a task that was resumed; try_push and a first call
\* change nothing then.
PushLimit(t) ==
  /\ qlock = NoTask /\ Inside(t, "push")
  /\ queue.count = depth
  /\ queue.push_wait.count = QUEUE_WAIT_MAX
  /\ data' = [data EXCEPT ![t] = NoItem]
  /\ Continue(t, "none")
  /\ UNCHANGED <<signal, news, hostVars, queue, buffer, qlock>>

\* MUTANT of PushEnd: whether the host waits is looked up after the update.
PushEndLooksLate(t) ==
  /\ Inside(t, "push_end")
  /\ PushUpdate
  /\ qlock' = NoTask
  /\ Continue(t, IF queue.count + 1 = 0 /\ queue.direction = "MPU_TO_HOST"
                 THEN "queue_event" ELSE "none")
  /\ UNCHANGED <<news, hostVars, buffer, data>>

\* The rest of push, and push_end.  A host that waits to pop is sent an event
\* after the lock is given back, if the queue was empty.
PushEnd(t) ==
  /\ Inside(t, "push_end")
  /\ PushUpdate
  /\ qlock' = NoTask
  /\ Continue(t, IF queue.count = 0 /\ queue.direction = "MPU_TO_HOST"
                 THEN "queue_event" ELSE "none")
  /\ UNCHANGED <<news, hostVars, buffer, data>>

QueueEvent(t) ==
  /\ Inside(t, "queue_event")
  /\ Continue(t, "none")
  /\ event' = TRUE
  /\ UNCHANGED <<signal, news, hostpc, hostop, queueVars>>

\* The host's push, under the lock for the first time or again.
HostPush(h, v) ==
  /\ qlock = NoTask /\ HostLocks(h, "push")
  /\ hostpc[h] = "relock" => v = data[h]
  /\ queue.direction = "HOST_TO_MPU"
  /\ IF queue.count = depth
     THEN /\ data' = [data EXCEPT ![h] = v]
          /\ HostTo(h, "testing", "push")
          /\ UNCHANGED <<signal, queue, buffer>>
     ELSE /\ data' = [data EXCEPT ![h] = NoItem]
          /\ buffer' = [buffer EXCEPT ![queue.push] = v]
          /\ PushUpdate
          /\ HostTo(h, "idle", "none")
  /\ UNCHANGED <<status, op, news, qlock>>

\* test_not_full reads the count in memory without the lock.
HostPushTests(h) ==
  /\ HostTests(h, "push", queue.count # depth)
  /\ UNCHANGED <<sigVars, queueVars>>

(***************************************************************************)
(* Pop and peek.                                                           *)
(***************************************************************************)
\* MUTANT of PopBegin: the lock is given back while the DMA is running.
PopBeginUnlocked(t, o) ==
  /\ Locks(t, o)
  /\ queue.direction # "MPU_TO_HOST"
  /\ queue.count # 0
  /\ data' = [data EXCEPT ![t] = buffer[queue.pop]]
  /\ Continue(t, IF o = "pop" THEN "pop_end" ELSE "peek_end")
  /\ UNCHANGED <<signal, news, hostVars, queue, buffer, qlock>>

\* pop, pop_begin (o = "pop"), peek and peek_begin of a task when there is an item.
PopBegin(t, o) ==
  /\ Locks(t, o)
  /\ queue.direction # "MPU_TO_HOST"
  /\ queue.count # 0
  /\ data' = [data EXCEPT ![t] = buffer[queue.pop]]
  /\ qlock' = t
  /\ Continue(t, IF o = "pop" THEN "pop_end" ELSE "peek_end")
  /\ UNCHANGED <<signal, news, hostVars, queue, buffer>>

PopBlocks(t, o) ==
  /\ Locks(t, o)
  /\ queue.direction # "MPU_TO_HOST"
  /\ queue.count = 0
  /\ queue.pop_wait.count # QUEUE_WAIT_MAX
  /\ queue' = [queue EXCEPT !.pop_wait = Enlist(@, t)]
  /\ Block(t, o)
  /\ UNCHANGED <<signal, news, hostVars, buffer, qlock, data>>

PopLimit(t, o) ==
  /\ qlock = NoTask /\ Inside(t, o)
  /\ queue.count = 0
  /\ queue.pop_wait.count = QUEUE_WAIT_MAX
  /\ Continue(t, "none")
  /\ UNCHANGED <<signal, news, hostVars, queueVars>>

PopEnd(t) ==
  /\ Inside(t, "pop_end")
  /\ PopUpdate
  /\ qlock' = NoTask
  /\ Continue(t, IF queue.count = depth /\ queue.direction = "HOST_TO_MPU"
                 THEN "queue_event" ELSE "none")
  /\ data' = [data EXCEPT ![t] = NoItem]
  /\ UNCHANGED <<news, hostVars, buffer>>

PeekEnd(t) ==
  /\ Inside(t, "peek_end")
  /\ qlock' = NoTask
  /\ Continue(t, "none")
  /\ data' = [data EXCEPT ![t] = NoItem]
  /\ UNCHANGED <<signal, news, hostVars, queue, buffer>>

\* The host's pop and peek.
HostPop(h, o) ==
  /\ qlock = NoTask /\ HostLocks(h, o)
  /\ queue.direction = "MPU_TO_HOST"
  /\ IF queue.count = 0
     THEN /\ HostTo(h, "testing", o)
          /\ UNCHANGED <<signal, queue>>
     ELSE /\ IF o = "pop" THEN PopUpdate ELSE UNCHANGED <<signal, queue>>
          /\ HostTo(h, "idle", "none")
  /\ UNCHANGED <<status, op, news, qlock, buffer, data>>

\* test_not_empty
HostPopTests(h, o) ==
  /\ HostTests(h, o, queue.count # 0)
  /\ UNCHANGED <<sigVars, queueVars>>

(***************************************************************************)
(* Clear.                                                                  *)
(***************************************************************************)
Cleared == [queue EXCEPT !.push_wait.count = 0, !.count = 0, !.push = 0, !.pop = 0]

\* By a task: the first push_wait_count places are signalled, which are the
\* waiting tasks only while the head of the ring is 0.
QueueClear(t) ==
  /\ qlock = NoTask /\ Free(t)
  /\ Send({queue.push_wait.id[p] : p \in 0..queue.push_wait.count - 1})
  /\ queue' = Cleared
  /\ Continue(t, IF queue.count = depth /\ queue.direction = "HOST_TO_MPU"
                 THEN "queue_event" ELSE "none")
  /\ UNCHANGED <<news, hostVars, buffer, qlock, data>>

\* By the host: the task at place 0 is signalled, push_wait_count times.  Host
\* threads that wait to push are not told.
HostQueueClear(h) ==
  /\ qlock = NoTask /\ hostpc[h] = "idle"
  /\ Send(IF queue.push_wait.count = 0 THEN {} ELSE {queue.push_wait.id[0]})
  /\ queue' = Cleared
  /\ UNCHANGED <<status, op, news, hostVars, buffer, qlock, data>>

\* mars_task_queue_destroy.
QueueDestroyable == queue.push_wait.count = 0 /\ queue.pop_wait.count = 0

QueueCalls ==
  \/ \E t \in Task :
       \/ \E v \in Item : PushBegin(t, v) \/ PushBlocks(t, v)
       \/ PushLimit(t)
       \/ PushEnd(t)
       \/ QueueEvent(t)
       \/ PopBegin(t, "pop") \/ PopBlocks(t, "pop") \/ PopLimit(t, "pop")
       \/ PopEnd(t)
  \/ \E h \in Host :
       \/ \E v \in Item : HostPush(h, v)
       \/ HostPushTests(h)
       \/ HostPop(h, "pop") \/ HostPopTests(h, "pop")

PeekCalls ==
  \/ \E t \in Task : PopBegin(t, "peek") \/ PopBlocks(t, "peek") \/ PopLimit(t, "peek") \/ PeekEnd(t)
  \/ \E h \in Host : HostPop(h, "peek") \/ HostPopTests(h, "peek")

ClearCalls == \E t \in Task : QueueClear(t)
HostClearCalls == \E h \in Host : HostQueueClear(h)

QueueSpec ==
  /\ SigInit /\ HostInit /\ QueueInit
  /\ [][\/ QueueCalls \/ PeekCalls \/ ClearCalls \/ HostClearCalls
        \/ Kernel /\ UNCHANGED <<hostVars, queueVars>>
        \/ Broadcast /\ UNCHANGED <<sigVars, queueVars>>]_<<sigVars, hostVars, queueVars>>

(***************************************************************************)
(* Properties.                                                             *)
(***************************************************************************)
\* The items from the pop index on.
Content == [i \in 1..queue.count |-> buffer[(queue.pop + i - 1) % depth]]

\* What the task that has started to pop or peek was given.
Reading == IF qlock # NoTask /\ op[qlock] \in {"pop_end", "peek_end"} THEN data[qlock] ELSE NoItem

Fifo == INSTANCE BoundedFifo WITH items <- Content, reading <- Reading

\* Items come out in the order they went in, each once, whoever pushes, pops,
\* peeks and clears, though data moves in two steps (task_queue.c:166-180).
QueueFifo == Fifo!FifoSpec

\* Tasks that were resumed to go on with o, and have not taken the lock yet or
\* not finished with it.
OnTheWay(o, end, ring) ==
  {t \in Task : op[t] = end \/ (op[t] = o /\ t \notin Enlisted(ring))}

\* No task waits to pop while there are more items than tasks on their way to
\* pop them: one signal per push is enough though a resumed task may find the
\* queue empty again (task_queue.c:160), for tasks that do not peek.
PopNotMissed ==
  queue.pop_wait.count > 0 =>
     queue.count <= Cardinality(OnTheWay("pop", "pop_end", queue.pop_wait))

\* The same for the room in the queue and the tasks that wait to push.
PushNotMissed ==
  queue.push_wait.count > 0 =>
     depth - queue.count <= Cardinality(OnTheWay("push", "push_end", queue.push_wait))
=============================================================================
