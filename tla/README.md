# Verification of PSL1GHT's MARS

PSL1GHT is a development kit for the Cell processor: system library stubs, a
run-time library, the RSX graphics library, vector maths, host tools, and
libspumars, a port of MARS. MARS is the part with a protocol of its own: it
schedules many workloads on a few SPUs. A small kernel runs on every SPU, with
no central scheduler; the kernels and the host threads meet in a table in host
memory, locked line by line. That is what this project models first, and what
the rest of the plan builds on.

Paths below are relative to `src/common/libspumars/` unless they start with
`src/`.

## Inventory

**MARS mutex** (`spu/base/kernel/mutex.c`, `ppu/base/lib/mutex_cell.c`).
State: one 32-bit word {lock, current ticket, next ticket} at the head of a
128-byte line whose other 124 bytes it protects. Operations: create and reset,
lock and unlock on the host (in place), lock_get and unlock_put on an SPU (the
whole line is copied in and put back). Hard: load-reserve and
store-conditional of different processors interleave at will; an SPU sleeps
on the lost-reservation event; the put writes bytes the SPU may have read long
ago; the tickets are 8 bits wide. Correct when it excludes, loses no section's
write, loses no wake-up and serves tickets in order.

**Workload queue** (`ppu/base/lib/workload_queue.c`, host side;
`spu/base/kernel/kernel.c`, SPU side; `base/common/workload_internal_types.h`).
State: a header line (exit flag, access count, and per block a summary: ready?
waiting? highest priority, how often passed over) and 50 block lines of 15
workloads (state, priority, counter, signal, wait_id). Operations: add, remove,
schedule, unschedule (each with begin, end and cancel), wait, signal, exit. Hard:
header and block have separate mutexes and are not updated together; the SPU's
changes reach memory only at the unlock; another block's states are read
without its lock; a workload may be unscheduled while it runs. Correct when
the header never hides work, no kernel sleeps over work, a workload runs on
one kernel at a time and follows its documented life, everyone is served, and
a host thread that waits for a workload is woken.

**Micro-kernel** (`kernel.c`). State of each SPU: its copy of the header, the
workload it runs, its context cache. Main loop: reserve (scan the header, search
blocks with waiting workloads, pick the best ready one), load, run, release,
or sleep until the header is written.

**Host wait and kernel events** (`ppu/base/lib/cond_cell.c`, `mpu_cell.c`). One
condition variable and mutex for all waits; one handler thread per context
receives the kernels' events and broadcasts. Hard: a notification after the
unlock against a test without the lock; the handler thread ends with the first
kernel that exits.

**Host callback queue** (`ppu/base/lib/callback_cell.c`, `kernel.c:553-620`). A
ring of workload ids with a flag {none, not empty, exit}; kernels push, one host
thread pops and runs the callback. Hard: the exit flag is stored without the
lock (`callback_cell.c:263`) and a kernel's whole-line put may undo it; the host
spins until the pushing workload is WAITING (`:35`).

**Context lifecycle** (`ppu/base/lib/context.c`). Create and destroy with a
shared context and its count, the order in which queue exit, kernels, callback
thread and memory end, and the error returns between those steps.

**Task layer** (`ppu/task/lib`, `spu/task/lib`, `spu/task/module`). Tasks are
workloads with a saved context. State of each synchronisation object: a 128-byte
line behind a MARS mutex, with a count or bits and wait lists of task ids; of each
task one signal bit in its workload, by which every object resumes it.
Operations: semaphore acquire and release; event flag set, clear, wait; queue
push, pop, peek (each also as begin and end) and clear; barrier notify and wait;
signal send and wait; the host has its own versions of the flag's and queue's calls
and waits on a condition variable. Hard: only the queue's calls test their object
again after a resume; clear walks wait rings; the host's set stops half-way at an error;
events to the host are sent after the unlock; the signal is reset after the task
resumed; destroy looks at some wait lists only. Correct when a semaphore admits its
count, a barrier goes in rounds, a queue is a FIFO, and no waiter is forgotten.

**Job queue** (`ppu/jq`, `spu/jq`): a stub that adds and removes one workload.

**Run-time library and RSX** (`src/ppu/librt`, `src/ppu/librsx`). A heap with
splitting and merging of blocks, used for video memory, is the part with state;
the rest are wrappers of one system call or encode register writes.

**Not protocol code**: stubs of firmware calls (`src/ppu/sprx`), SIMD and vector
maths, SPU utility libraries, host tools, samples.

How they interact: the task layer calls the workload queue (host) or kernel
system calls (SPU); both change block and header lines under MARS mutexes;
kernels notify the host by SPU events, host threads wake kernels by writing the
header line; the callback queue is a second path from kernels to the host; the
context owns all of them and starts and stops them.

PROJECT.json lists the hazards at their lines with the properties that cover
them; a hazard without one says why.

## Modules

| module | models | code |
|---|---|---|
| `FifoLock` | abstract: a lock granted in order of arrival | the promise of the mutex |
| `MarsMutex` | every load-reserve and store-conditional of the mutex | `mutex.c`, `mutex_cell.c` |
| `MarsMutexProofs` | theorems about it, and their proofs | |
| `WorkloadLifecycle` | abstract: the states a workload goes through, and who may run it | the promise of the queue, `workload_queue.h` |
| `WorkloadQueue` | header, blocks, kernels, host threads, host wait and events | `kernel.c`, `workload_queue.c`, `cond_cell.c`, `mpu_cell.c` |
| `WorkloadQueueProofs`, `WorkloadRunsProofs` | theorems about it, and their proofs | |
| `RemoteCall` | abstract: calls served one by one, in order, each once | the promise of `mars_task_call_host`, `task.h` |
| `CallbackQueue` | the ring, its two kinds of users, exit and destroy | `callback_cell.c`, `kernel.c`, `task_module.c`, `context.c` |
| `CallbackQueueProofs` | theorems about it, and their proofs | |
| `TaskSignal` | how a task blocks, is resumed, signalled and removed | `task_signal.c`, `task_module.c`, `kernel.c` |
| `HostCond` | a host thread that waits for a word of an object | `cond_cell.c`, `mpu_cell.c` |
| `TaskSemaphore` | the semaphore | `task_semaphore.c` |
| `RoundBarrier` | abstract: arrive, pass, next round | the promise of the barrier, `task_barrier.h` |
| `TaskBarrier` | the barrier | `task_barrier.c` |
| `TaskEventFlag` | the event flag, from both sides | both `task_event_flag.c` |
| `BoundedFifo` | abstract: a bounded queue with a reader | the promise of the queue, `task_queue.h` |
| `TaskQueue` | the queue, from both sides | both `task_queue.c` |
| `TaskSync` | programs of tasks and host threads over these objects, destroy | composes the above |
| `TaskSignalProofs`, `TaskSemaphoreProofs`, `TaskBarrierProofs` | theorems about the three, and their proofs | |
| `TaskSyncProofs` | theorems about programs that use any of the objects: the queue, the flag and all objects together | |
| `MCMarsMutex`, `MCWorkloadQueue`, `MCCallbackQueue`, `MCTaskSync` | small instances for TLC | |

### MarsMutex

`status` and `data` are the line in memory (the lock word; one bit for all the
bytes it protects), `copy` each processor's loaded line, `resv` the valid
reservations, `lost` the pending lost-reservation events, `pc` and `id` where a
processor is and its ticket. A processor goes idle -> draw -> draw_sc -> poll
(-> asleep) -> take_sc -> critical -> unlock -> unlock_sc -> idle; SPUs put
their whole copy back, host threads change only the lock word and write `data` in
place. `written` is a history variable: the bit as the critical sections left
it. `Tickets` stands for the 256 values of the uint8_t tickets;
mutual exclusion is proved for any number of them, the FIFO order needs more
tickets than waiting processors (TLC: 4 tickets, 3 processors), which the
hardware's eight SPUs and the host's threads leave room for.

### WorkloadQueue

*Atomicity.* Taking a block's lock, reading and changing the block is one
step; every critical section of the header lock is a step; releasing a block's
lock is a step. That MarsMutex excludes and loses no write (proved) is what
allows a critical section to be a step. Header sections nest inside block
sections in the code and never the other way round, and contain only the header
update. Between these steps everything interleaves: other kernels'
header updates, reads of memory that take no lock (`pub`), reads of the header
(`Reserve`), sleeping and waking. A critical section in which nothing else
happens between change and unlock (`ChangeOnly`) is one step on the SPU as on
the host.

*State.* `bits` is a block as the owner of its lock sees it; `pub` the states in
memory, which an SPU brings up to date when it unlocks and a host thread at once.
`hdr` and `flag` are the header line. `fresh` says which kernels' header copies
still equal memory: it stands for the `memcmp` in `idle_wait` and for the
reservation it holds while it sleeps. `view`, `best`, `retry`, `slot` are
the local variables of `workload_reserve` and `search_block`; `cur` is
`workload_id`, with the count `gen` of schedulings so that two runs of one
workload differ; `op` is the begin/end operation an actor is in.

*Actions.* One per step of the main loop (Reserve, Scan, SearchLock, Search, SearchDone,
Choose, Pick, HeaderReset, HeaderState, Dispatch, Release, Released, IdleWait,
Wake, Notify), one per system call and per API call, and the abort of a begin/end
pair. What the clients do is nondeterministic: a workload may make any call of
`SpuOps` at any time it runs, or exit in any state; a host thread any call of
`HostOps`. The two constants select the calls of a run.

*Abstractions.* Workload contexts and module images are not modelled, so
neither is the context cache (`kernel.c:776`), nor the module bookkeeping of
`add_begin`; a module that cannot be loaded is `AddEnd` with NONE. The
header's access count and ticket values make every written header differ from
the copies read before; the model takes that as given, and leaves out that they
are 8-bit and could come round to the same value (256 writes between a fetch and
the compare). A kernel that waits for a workload's priority only takes equal or
higher ones in the code as in the model; the priority of a schedule call is
nondeterministic. `signal_try`, `wait_try` and the queries of state
change nothing and are left out. Memory is sequentially consistent: the code
orders its plain stores with `lwsync`/`sync` in lock and unlock.

*WorkloadLifecycle* is what clients rely on: the states and their order, a kernel takes a
workload only when it is ready and gives it back waiting, ready or
finished, unscheduling works in the three scheduled states, and so on. It knows
nothing of headers, blocks or locks.

### CallbackQueue

*The call.* A task that calls the host fills the callback area of its context
(which its kernel holds a copy of), and its kernel locks the ring, appends the
workload's id, sets the flag to PUSH, unlocks and sends an event to the host
(`PushLock`, `Push` or `PushFull`, `Notify`). The task then saves itself and gives the
SPU back, waiting for a signal (`Save`). The handler thread sleeps on the flag; it
pops an id (`Pop`), spins until that workload is waiting, reads the arguments from the
context in memory (`Begin`), runs the callback and writes the output back
(`Callback`), and signals the workload (`Signal`). A kernel makes the signalled workload
ready, takes it, and the call returns (`MakeReady`, `Dispatch`, `Return`).

*Atomicity.* A kernel works on a copy of the whole line: copying in at the lock and
out at the unlock are two steps (`copy`), because the exit flag is stored between
them without the mutex. The handler has the line in host memory and holds the
mutex; its pop is one step, since the only store that does not take the mutex
commutes with everything of it but the last write to the flag. `Test` reads the flag
under the condition's mutex, as the broadcast does (`HandleEvent`, `BroadcastExit`), so
test and sleep are one step. Reading the arguments and writing the output are
separate steps. The handler's branch for an empty ring (`callback_cell.c:81`) is in
`Pop` but never taken: PUSH implies a request, and only the handler takes one away.

*Abstractions.* The workload queue is reduced to ready, running, waiting or finished,
and the signal bit; scheduling, priorities, and how a kernel finds work are module
WorkloadQueue's. Unscheduling is one step (begin and end do not differ for the
callback queue); an unscheduled workload is not scheduled again. The callback area is
the number of the call and whether its output is there. `asked`
and `answered` are history variables. Calls to the host are the task module's
`task_call_host`; a raw module that pushes without waiting is not modelled.
The event handler thread takes no event after the first kernel's EXIT event.

*RemoteCall* is the promise: a bounded FIFO of callers, one served at a time, each caller
called, answered and returned in turn. The refinement maps the ring from head to head +
count to the queue, and the saved call and the two counts to the caller's status.

### TaskSync and its parts

*A task.* `TaskSignal` reduces a task to running, waiting, resumed and gone, the signal
bit of its workload, and the call it is in (`op`). `WorkloadQueue` shows that a waiting
workload with its signal set is made ready; here that is one step (`Wake`), which
clears the bit, and the second reset in `task_signal_wait` is another
(`ResetSignal`), so that other tasks and the host act between a signal, the wake-up and
what the task does next. A task that was put into a wait list and is still on its way
out of its SPU is waiting already: a signal that comes in between stays set, and the
kernel finds it. A task that `Remove` takes away is unscheduled while it waits; its
id stays in wait lists, and a signal to it is refused.

*Atomicity.* Each call works on a copy of the object between `lock_get` and
`unlock_put` of its mutex, which `MarsMutex` proves to be exclusive and to lose
no write, so the locked part of a call is a step. What comes after the unlock is a
step of its own: waiting, the event to the host (`set_event`, `queue_event`), and the second
locked part after a resume. A queue's push and pop hold the lock across a DMA, or from
begin to end: two steps with `qlock` in between. A host thread that waits has three
places: it tests the word under the condition's mutex (`testing`), sleeps, and takes the
object's lock again (`relock`).

*The objects.* `sem`, `barrier`, `flag`, `queue` are the C structures without their
addresses. The semaphore's ring of ids is a sequence, since only its order
matters; the queue's two rings keep `head`, `count` and all their places, because
`clear` walks places. `push_ea` and `pop_ea` are indices. `permits`, `holding`, `arrived`,
`passed`, `news` are history variables. Calls that fail on their arguments, on a full wait
list or with BUSY change nothing and are left out, except LIMIT to a task that was
resumed (`PushLimit`, `PopLimit`), which ends its call.

*Clients.* Tasks acquire and release in pairs, and notify and wait in turn, as
`task_semaphore.h:19` and `task_barrier.h:23` of the host ask; everything else they
may call at any time. Between begin and end a task calls nothing else. `use`
says what a program does and `Programs` lists those of a run: one object, or two, and
whether somebody clears, peeks, removes a waiting task, or destroys.

*RoundBarrier* and *BoundedFifo* are the promises: the barrier's history variables map to
themselves, and the queue's buffer from the pop index on is the sequence of items.

## Runs

| run | instance | question |
|---|---|---|
| `mars_mutex` | 2 SPUs, 1 host thread, 4 tickets, fair | exclusion, no lost write, no lost wake-up, FIFO refinement, every ticket is served |
| `queue_all_calls` | 2 kernels, 1 host thread, 1 workload, 2 priorities, every call but exit, 2 schedulings, starting empty | does the header summarise the blocks at every moment; is a running workload always executed; does a kernel's run go stale otherwise than by being unscheduled |
| `queue_two_blocks` | 2 kernels, 1 workload in each of 2 blocks, waiting for and unscheduling each other | does every kernel sleep while a workload of another block could be resumed; refinement of the lifecycle, one kernel per workload included |
| `queue_progress` | 1 kernel, 1 host thread, and 2 workloads: of one block, with waits and signals, or one in each of 2 blocks, with the exit; fair | does the kernel sleep over work; is a ready workload served however others of its block, or of another, compete, a signal and a finish noticed, a host's wait woken; does exit stop the kernel |
| `queue_stale_release` | 2 kernels, 1 workload scheduled twice | finding 1 |
| `queue_cross_block_sleep` | 2 kernels, 2 blocks, unschedule from a kernel | finding 2 |
| `callback_clients` | 2 kernels, 2 workloads, ring of 2, 1 call each; signals, unscheduling, destroy | does flag agree with ring, can the handler sleep over a request, does a destroyed context leave an accepted call unanswered |
| `callback_returns` | 1 kernel, 3 workloads, ring of 2, 2 calls each, fair | are calls served in order and once, does the caller get its own output, does every call return |
| `callback_stray_signal` | 2 kernels, 2 workloads, signals from others | finding 4 |
| `callback_exit` | 2 kernels, 1 workload, destroy, fair | finding 3 |
| `task_sync` | 3 tasks, 1 host thread, 2 items, queue of 2, wait lists of 2, 15 programs | semaphore and barrier admit and round; FIFO refinement; is every waiter, task or host, offered what it waits for; is news missed; is a waiter destroyed |
| `task_queue_clear` | 3 tasks that push, pop and clear | finding 5 |

Bounds. Two kernels are enough for each race between a scanning, a running and a
sleeping kernel; two workloads for waiting, signalling and unscheduling one
another. Two workloads of one block (own lock) are checked on one kernel, where two kernels
have one workload in each of two blocks (foreign read): more does not fit a run. Competition between
workloads of a block and between blocks is checked on one kernel, which has to choose (`queue_progress`):
the initial predicate puts two workloads into one block or into two, and the action
constraint `ShareCalls` leaves waits to the first layout and the exit to the second. It
only forbids calls that clients need not make, so no step that fairness
speaks of is cut off. One
host thread waits; broadcasts wake all, so a second adds nothing. `COUNTER_MAX` and
`BLOCK_COUNTER_MAX` 1 reach saturation at once. `MaxSchedules` bounds how often a
workload is scheduled, so that runs end; because of it the system really
stops, with every kernel asleep or gone, and these runs say
`CHECK_DEADLOCK FALSE`. `mars_mutex` checks for deadlock. Kernels are
interchangeable and symmetric in the runs without liveness properties.

The callback runs have a ring of two, so that it fills up (three callers), wraps (three
calls), and empties under a pusher; two calls each show a reused area and a second
turn of a caller. A destroy needs two kernels, because one may hold the ring while the
other is gone and has ended the event handler. `MaxCalls` bounds the calls, so these
runs end as well.

Three tasks are the least with two waiters and one to serve them, so that wait lists
of two fill up; queues of two items fill, empty and wrap, and their rings move. Semaphores
start with one and two permits, less than there are tasks. Tasks and items
are symmetric. The programs of `task_sync` stop when all tasks wait for something nobody
sends (a bit nobody sets, an item nobody pushes), so deadlock is not
checked; `SomeoneRuns` checks it where it must not happen.

Properties that hold only under a condition name it: `QueueWaitersServed` leaves out
programs that peek for the poppers, since a peek takes a wake-up and leaves the item
(`task_queue.c:353-359`), and those that clear for the pushers (finding 5).
`FlagWaitMeetsCondition` leaves out flags with CLEAR_AUTO and programs that clear bits:
there a resumed task may return with its condition gone. `FlagNotMissed` lets the
host's set end at a task that was removed. `WaitersKept` leaves out
barriers, because their destroy does not look at `notify_wait_count`
(`ppu/task/lib/task_barrier.c:105`), and clears. Furthermore `NoOversleep` covers waits
within a block, `NeverAllOversleep` waits across blocks, which are noticed by
some kernel, not by each; `FinishIsNotified` is checked without cancels,
because `schedule_end`, `remove_end` and `add_end` with cancel put a workload
into FINISHED or NONE without signalling the condition (`workload_queue.c:718`), and
only while the handler thread runs. Which run a release is of is a matter of two properties:
`RunsStayOwn`, a run goes stale under its kernel only by being unscheduled, holds; `ReleasesOwnRun`, no
release is of a stale run, does not, once a workload is scheduled again (finding 1).

Fairness. `MarsMutex`: weak fairness of each processor's own steps; a
store-conditional only fails when another processor succeeded, and the retry
loops run on. `WorkloadQueue`: an actor in the middle of a call, a search or the main loop
keeps running, and since the block locks are granted in ticket order
(FirstComeFirstServed of the mutex) an actor that waits for a lock gets it though
the lock is held again and again: strong fairness of `KernelStep` and `HostStep`.
Every workload returns to its kernel some time (`Exits`, strong, because a
call may be in progress again and again); MARS is cooperative, and a workload
that never returns keeps its SPU. The handler thread receives queued events
(weak). Clients need not make any call, but end the operations they begin.
`CallbackQueue`: kernels, running workloads, the handler and the destroying thread keep
going, callbacks return and events are delivered; strong fairness for kernels and handler
because they take the ring's mutex in ticket order, and because a kernel's scan may be
overtaken by another kernel's. The handler's spin is a guard, not a step.

## Findings

1. *A release of an old run* (`queue_stale_release`). `workload_release` tells
from the state alone whether its run was aborted. A workload unscheduled while
it runs, and scheduled again before it returns to its kernel, is READY, WAITING
or RUNNING by then; the old run's release overwrites the state, possibly while
another kernel executes the new run.

2. *A missed wake-up across blocks* (`queue_cross_block_sleep`). When a
kernel's `unschedule_end` finishes a workload, it writes the header first and puts
the block afterwards. An idle kernel woken by the header reads the
other block without its lock, still sees UNSCHEDULING and goes back to sleep on
a header nobody writes again. The waiting workload is resumed only when the
unscheduling one gives its SPU back, or something else writes the header.

3. *A lost exit flag* (`callback_exit`). `mars_callback_queue_exit` stores EXIT into
the line without its mutex. A kernel in the middle of a push puts its whole copy back
over it, and a pop that empties the ring resets the flag; then the handler goes to sleep
on a flag nobody sets again, and `mars_callback_queue_destroy` waits in
`sysThreadJoin` for ever. `DestroyedAllAnswered` shows the other half: if
the destroy does end, no accepted call was dropped, because the count is looked at
after the kernels are gone.

4. *A call that returns early* (`callback_stray_signal`). The caller waits for any
signal. A `mars_task_signal_send` to it, or one that was pending when it called,
resumes it before the callback ran: the call returns the input as its output, and the
handler's own signal stays behind for the next wait. `BlocksUntilReturn` and
`CallsServed` therefore hold as long as nobody else signals a caller.

5. *A clear that forgets tasks* (`task_queue_clear`). `mars_task_queue_clear` signals
the first `push_wait_count` places of the ring of waiting pushers, but they stand from
`push_wait_head` on. Queue full, t1 waits at place 0; t2 pops, which moves the head and
resumes t1, then fills the queue again and waits at place 1; t3 clears: it signals
place 0, t1, and empties the ring. t2 sleeps for ever in front of an empty queue. The host's
version signals place 0 only, as often as there are waiters, so with two waiters it
forgets one even with the head at 0.

Not a run, but met while modelling: `push_begin` and `pop_begin` return holding
the queue's mutex (`task_queue.c:177`), while `spu/mars/task_queue.h:106` says
"Multiple push operations can be initiated concurrently". A second begin by the same task
waits for its own ticket for ever; the model leaves it out.

## Proofs

`MarsMutexProofs` proves for any processors and any number of tickets: types
(`TypeCorrect`), exclusion (`MutexExclusive`), that no critical section's write is
undone by a whole-line put (`MutexCoherent`), and that an SPU asleep without a
pending event is not next (`MutexSleepSound`). Assumptions: SPUs and host
threads are distinct, there is at least one ticket value. `MutualExclusion` is not
inductive: a store-conditional writes from an old copy. `IInv` adds that a copy
whose reservation is valid equals the line (`CopiesCurrent`), that a holder's
copy has the protected data as memory has it until it stores (`DataCurrent`), and the
sleep condition; each action is one step of the proof.

`WorkloadQueueProofs` proves for any number of kernels, host threads, blocks,
workloads, priorities and counter limits: types (`QueueTypeCorrect`), that the header
hides no work (`HeaderHidesNoWork`) and shows none that is not there
(`HeaderShowsNoMore`). Assumptions: kernels and host threads are distinct, sizes are
positive. Neither header property is inductive: that a search may leave the header
alone when it found nothing depends on what memory showed when it took the
lock. `IInv` adds that the variables an actor is about to use are set
(`Control`), that a block's lock is held exactly by the actor inside a section on that
block (`Owner`), and that `pub` equals `bits` in unlocked blocks and differs during
a search only in workloads made ready (`Published`). The header part is kept
per block (`Summarised`); two lemmas say when a step leaves it alone, and
`ChangeStep`, `ChangeOnlyStep`, `UnseenStep`, `UnlockStep`, `OutsideStep` cover the actions of each kind.

`WorkloadRunsProofs` proves from that invariant that every running workload is executed
(`RunningWorkloadsAreExecuted`), stale releases included, and that a kernel's run stays its own until it is
given back or unscheduled (`OwnRunsStayOwn`). Further assumption: `NoRun` is not a run.
`RunningIsExecuted` is not inductive: a kernel that has given its workload back forgets the run
only when it unlocks, and another kernel might have made the workload running meanwhile. `RunsKept` adds
that it did not, as the lock of the block was held (`Owner`), and that a kernel has a
pick only until it dispatches it and a run only from then until the release, so that
neither is overwritten. `Pick` is the one step that makes a workload running (`PickRuns`);
`KeepStep` covers the others but dispatch and release. The second theorem is an action property
and needs no more than that invariant: picks take a workload only from READY,
so never one that is running (`PickOn`); a release, of a stale run or not, changes the workload of its own kernel only
(`ReleaseOn`); every other step takes a workload out of RUNNING only into UNSCHEDULING (`OthersLife`), and
schedulings are counted from FINISHED. It assumes nothing about clients.

The rest of that module is about clients that keep to one or both of two conditions. They are
temporal formulas over the model's own variables, true in the runs that check the properties below; the code enforces neither.
`OneRun`: a finished workload is scheduled again, or removed, only when no kernel executes it any
more (finding 1 shows a stale release without it). `AwaitsRuns`: nobody waits for a workload that goes to
`FINISHED` without having run, by the end of an add or a cancelled schedule or remove: these do not
notify, and from a host thread do not write the header either (`workload_queue.c:600`, `:622`, `:724`).

- Under `OneRun` the queue implements `WorkloadLifecycle` (`LifeIsKept`). `OwnRuns` says that no two kernels have
  one workload and that an executed workload is running, unscheduled or finished.
- Under both, no kernel sleeps over work of an unlocked block (`NobodySleepsOverWork`). `AllWatch` follows a
  kernel through its round of the header: while its copy is current, each block it has passed has no work, or
  its lock's owner will write the header (`Still`). A header summary of nothing means no
  work (`ShowsNothing`), which is where `HeaderCovers` is needed.
- Under both, and with at least one kernel, never do all sleep over work of another block
  (`WorkIsNoticed`). `Noticed`: if what a workload waits for in another block has happened, somebody
  will write the header or some kernel has not passed the workload yet. A new finish shows either in a host's
  section, which ends in a header write, or at a kernel's unlock, and then that
  kernel goes on to a new round after it has notified (`FinishNoticed`).
- Under `AwaitsRuns` a host thread asleep on a finished workload is owed a notification, unless the
  handler thread has ended (`FinishReachesTheHost`). `FinishedShown` says which kernel will show a workload finished, and that
  this one will notify; `OwedStep` that a notification stays owed until the sleepers test again.

`CallbackQueueProofs` proves for any ring size, kernels, workloads and number of calls, with
signals, unscheduling and destroy at any time: types (`CallbackTypeCorrect`), that flag and
ring agree (`FlagAlwaysAgrees`), that a sleeping handler will be notified of a request
or of EXIT (`HandlerAwaited`), and that a destroy that ends has left no accepted call
unanswered (`DestroyAnswersAll`). Assumptions: the ring has a place, and the null values are no
kernel and no workload. None of these is inductive. Types need that the popped slot
was filled: `Filled` says which positions are occupied, and that the tail is count
behind the head. The flag needs that what a kernel is about to put back
was right: `CopyCurrent` says memory is the copy, but for EXIT. And a full ring is
put back with the flag it was read with, possibly over EXIT while the handler sleeps, so
`Awaited` speaks of the copies' flags as well; `ExitStored` orders EXIT behind the
destroy. For the destroy, `Accounted` says that a call which was asked and not answered is in
the ring or with the handler, and `Closing` how far kernels and handler are when
the destroying thread is at each of its steps.

As long as no task is signalled but by the handler (`"signal" \notin ClientOps`; finding 4 shows
why), a call also blocks until its callback returned (`CallsBlock`) and the whole
implements `RemoteCall` (`CallsAreServed`). `CallInv` says how far the one open call of a workload is, by where
its kernel is, by its state and signal, and by where the handler is; and that its area,
on the kernel or in memory, holds the arguments or the output of that very call. In the
refinement each action maps to a step of `RemoteCall` or to a stutter.

`TaskSignalProofs` proves for any number of tasks that no news announced with a signal is missed
(`SignalledNewsIsSeen`), since a task waits only inside the call after which it looks
(`InsideWait`).

`TaskSemaphoreProofs` proves for any tasks, wait limit and initial count that permits
are neither lost nor made (`SemaphoreAdmitsItsCount`). `SemaphoreExact` is
not inductive: a signal must be a permit. The invariant adds that a task is in the list once
(`Distinct`), that listed tasks sleep in acquire without a signal (`Listed`), and that
only sleeping tasks have a signal (`Quiet`). Assumptions: finitely many tasks, a place in the
wait list.

`TaskBarrierProofs` proves for any number of tasks that the barrier implements
`RoundBarrier` (`BarrierGoesInRounds`): initial states map to initial states, each
step to a step or a stutter. The strengthening says what the counts know (`Counted`: the
sizes of the two sets, and that nobody has passed before all have arrived), and who
can be in the two lists (`NotifyListed`, `WaitListed`): a task that waits to notify has passed this
round, and once it is out of the list the next round has begun and it has not arrived
there, which is why counting without a test is right. Assumption: finitely many tasks, at least one.
These three are about an object used on its own, where only its calls signal.

`TaskSyncProofs` is about whole programs, for any tasks and host threads, bits, items,
depths and limits, with every call of every object, removed tasks and destroys. Further
assumption: host threads are no tasks. Without other conditions on the program than the
properties themselves name it proves:

- the queue implements `BoundedFifo` (`QueueKeepsOrder`). `FifoInv` says that the count is the
  distance of the two indices, that only the one who holds the queue between
  begin and end moves them, and which items it has in hand;
- no task waits for bits that are set (`NoBitMissed`). `FlagInv` adds that the entries of the
  wait list keep their conditions when others are taken out (`Rank` says where
  an entry moves to, `EntriesKept` that it is still there);
- no host thread sleeps over an event (`NoEventMissed`). `HostInv` adds that host threads are
  only in calls that the object's direction allows them, which are those it has events for;
- no waiting task is stranded (`NobodyIsStranded`): `KeepInv` says that a waiting
  task has its signal or is in the list of the call it is in, for every object, and that
  without a barrier nobody is in the one list a destroy does not look at.

Other results say of a program what it must not do:

- `Undisturbed` programs have no signals but those of the objects, and no clear of the
  queue (a cleared queue signals places, not tasks: finding 5). There a signal set, or a resumed
  task, means that the task has left its list (`Tidy`, `Orderly`), and the tasks that are on
  their way cover what the queue has to offer (`OrdInv`): `QueueServesWaiters`,
  `FlagWaitGetsItsBits`. A task that was signalled and then removed counts as on its way
  for ever, as in the property that TLC checks.
- `Plain` programs remove no task either. `PlainInv` adds the invariants of
  `TaskSemaphoreProofs` and `TaskBarrierProofs`, whose step lemmas are used as they are for
  the calls of the two objects; what has to be shown is that other objects' calls
  signal none of their tasks, which `Orderly` says: `SemaphoreStaysExact`,
  `BarrierStaysInRounds`, and, from the counts, types (`SyncTypes`; in programs without a
  barrier types need no hypothesis).
- `SomeoneAlwaysRuns`: with one semaphore that was created with permits, or one barrier, not
  all tasks wait. With no permits at all they would, as the code allows.

The hypotheses on `use` are conditions on the client, like those of the C headers; most programs
of `task_sync` meet them.

Only model-checked: of the mutex the FIFO refinement and everything about the order of tickets (it
needs that distinct waiting tickets do not wrap onto each other), and all liveness, which
is beyond the prover.

## Not modelled

- *Contexts of workloads and tasks*: saving, restoring and caching them (`kernel.c:776`),
  arguments and exit codes. The queue model would need their contents, per
  kernel and in memory.
- *Context lifecycle*: create, the shared context's count, error returns in destroy
  (`context.c:285`, `:308`) and tick synchronisation. A destroy's order is in
  `CallbackQueue` as far as the callback queue is concerned.
- *Heap and RSX memory manager*: sequential code over block headers in raw memory.
- *A second begin* of a queue operation, and other calls between begin and end.
- Stubs, wrappers of system calls, register encoding, maths, host tools, samples: no state or
  order to check. They are nearly all of the repository's lines.

## Plan

1. Done: `MarsMutex`, `WorkloadQueue`, `CallbackQueue`, `TaskSync` with their abstract
   specifications and proofs.
2. Done: proofs about `CallbackQueue` (destroy, refinement) and `TaskSync` (all its safety properties).
3. Done: proofs about all safety properties of `WorkloadQueue`.
4. `Context`: create, destroy and their error returns, tick synchronisation.
5. `Heap`: allocation, splitting and merging as an operation on a partition of the
   area; sizes, flags and free list agree.
6. Context caching of `kernel.c:776` over `WorkloadQueue`.
