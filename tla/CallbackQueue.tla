---------------------------- MODULE CallbackQueue ----------------------------
(***************************************************************************)
(* Host callbacks of MARS workloads: a workload that calls the host pushes *)
(* its id on a ring in host memory (spu/base/kernel/kernel.c), is put into *)
(* the waiting state, and is signalled by the host's callback handler      *)
(* thread (ppu/base/lib/callback_cell.c) when the callback has returned.   *)
(*                                                                         *)
(* The ring is one line with a mutex (module MarsMutex).  A kernel copies  *)
(* the whole line in when it locks and out when it unlocks; the handler    *)
(* changes it in place; the thread that destroys the context stores the    *)
(* exit flag into it without the mutex.                                    *)
(*                                                                         *)
(* Of the workload queue (module WorkloadQueue) this module keeps only     *)
(* that a kernel takes a ready workload, runs it and gives it back, and    *)
(* that a signal makes a waiting workload ready.                           *)
(***************************************************************************)
EXTENDS Naturals

CONSTANTS
  Kernels,       \* SPUs running a kernel
  Workloads,     \* the scheduled workloads
  QueueMax,      \* MARS_CALLBACK_QUEUE_MAX (54)
  MaxCalls,      \* bound: accepted calls per workload
  ClientOps,     \* what else clients do: "signal", "unschedule", "destroy"
  NoWorkload, NoKernel, NoLine

ASSUME SizesAssumption == QueueMax \in Nat \ {0} /\ MaxCalls \in Nat
ASSUME NullsAssumption == NoKernel \notin Kernels /\ NoWorkload \notin Workloads

Positions == 0 .. QueueMax - 1
Line == [flag : {"NONE", "PUSH", "EXIT"}, count : 0 .. QueueMax,
         head : Positions, tail : Positions,
         workload_id : [Positions -> Workloads \union {NoWorkload}]]

\* What a workload's callback area holds: the arguments of its call number
\* call, or (done) the output of that callback.
Area == [call : Nat, done : BOOLEAN]

VARIABLES
  queue,       \* struct mars_callback_queue in host memory
  lock,        \* the kernel that holds its mutex
  copy,        \* kernel_buffer.callback_queue: a locking kernel's copy
  kpc,         \* where each kernel is
  on,          \* workload_id: the workload it runs
  area,        \* the callback area in the kernel's copy of the workload context
  state,       \* of each workload, as the workload queue has it
  signal,      \* its signal bit
  inCall,      \* its (saved) stack is inside task_call_host
  ctx,         \* its callback area in host memory
  asked,       \* history: its calls that were accepted
  answered,    \* history: callbacks run for it
  hpc, job, args, \* the handler thread: where it is, workload_id, the arguments it read
  notified,    \* an event for the host is queued
  dpc          \* where the thread in mars_context_destroy is

kernel == <<lock, copy, kpc, on, area>>
workload == <<state, signal, inCall, ctx, asked, answered>>
handler == <<hpc, job, args>>
vars == <<queue, kernel, workload, handler, notified, dpc>>

Init ==
  /\ queue = [flag |-> "NONE", count |-> 0, head |-> 0, tail |-> 0,
              workload_id |-> [i \in Positions |-> NoWorkload]]
  /\ lock = NoKernel
  /\ copy = [k \in Kernels |-> NoLine]
  /\ kpc = [k \in Kernels |-> "free"]
  /\ on = [k \in Kernels |-> NoWorkload]
  /\ area = [k \in Kernels |-> [call |-> 0, done |-> FALSE]]
  /\ state = [w \in Workloads |-> "READY"]
  /\ signal = [w \in Workloads |-> FALSE]
  /\ inCall = [w \in Workloads |-> FALSE]
  /\ ctx = [w \in Workloads |-> [call |-> 0, done |-> FALSE]]
  /\ asked = [w \in Workloads |-> 0]
  /\ answered = [w \in Workloads |-> 0]
  /\ hpc = "test"
  /\ job = NoWorkload
  /\ args = [call |-> 0, done |-> FALSE]
  /\ notified = FALSE
  /\ dpc = "idle"

Goto(k, label) == kpc' = [kpc EXCEPT ![k] = label]

\* Mutant: off by one.
WrapLate(i) == IF i > QueueMax THEN 0 ELSE i

Wrap(i) == IF i = QueueMax THEN 0 ELSE i

\* mars_workload_queue_exit was called: the kernels are told to exit.
Told == dpc # "idle"

\* The event handler thread ends with the first kernel's EXIT event and takes
\* no event after it (mpu_cell.c:39).
EventsTaken == \A k \in Kernels : kpc[k] # "gone"

-----------------------------------------------------------------------------
(* The kernel's main loop.                                                 *)

\* workload_reserve fetches the header: exit, or look for work.
Reserve(k) ==
  /\ kpc[k] = "free"
  /\ Goto(k, IF Told THEN "gone" ELSE "look")
  /\ UNCHANGED <<queue, lock, copy, on, area, workload, handler, notified, dpc>>

\* Nothing to do any more: back to the main loop, which sees the exit flag.
GiveUp(k) ==
  /\ kpc[k] = "look"
  /\ Told
  /\ Goto(k, "free")
  /\ UNCHANGED <<queue, lock, copy, on, area, workload, handler, notified, dpc>>

\* A kernel finds a signalled workload (search_block): the signal is used up.
MakeReady(k, w) ==
  /\ kpc[k] = "look"
  /\ state[w] = "WAITING"
  /\ signal[w]
  /\ state' = [state EXCEPT ![w] = "READY"]
  /\ signal' = [signal EXCEPT ![w] = FALSE]
  /\ UNCHANGED <<queue, kernel, inCall, ctx, asked, answered, handler, notified, dpc>>

\* It takes a ready workload, fetches its context, and runs it; a workload
\* saved in a call goes on behind the save.
Dispatch(k, w) ==
  /\ kpc[k] = "look"
  /\ state[w] = "READY"
  /\ state' = [state EXCEPT ![w] = "RUNNING"]
  /\ on' = [on EXCEPT ![k] = w]
  /\ area' = [area EXCEPT ![k] = ctx[w]]
  /\ Goto(k, IF inCall[w] THEN "woken" ELSE "run")
  /\ UNCHANGED <<queue, lock, copy, signal, inCall, ctx, asked, answered, handler,
                 notified, dpc>>

\* workload_release: the context and the new state are written back unless the
\* workload was unscheduled meanwhile.
Release(k, new) ==
  LET w == on[k]  running == state[w] = "RUNNING"
  IN  /\ state' = IF running THEN [state EXCEPT ![w] = new] ELSE state
      /\ ctx' = IF running THEN [ctx EXCEPT ![w] = area[k]] ELSE ctx
      /\ on' = [on EXCEPT ![k] = NoWorkload]
      /\ Goto(k, "free")
      /\ UNCHANGED <<queue, lock, copy, area, signal, inCall, asked, answered,
                     handler, notified, dpc>>

\* The workload exits.
Finish(k) == kpc[k] = "run" /\ Release(k, "FINISHED")

-----------------------------------------------------------------------------
(* task_call_host.                                                         *)

\* host_callback_set fills the callback area, host_callback_queue_push locks
\* the queue and copies the line in.
PushLock(k) ==
  /\ kpc[k] = "run"
  /\ asked[on[k]] < MaxCalls
  /\ lock = NoKernel
  /\ lock' = k
  /\ copy' = [copy EXCEPT ![k] = queue]
  /\ area' = [area EXCEPT ![k] = [call |-> asked[on[k]] + 1, done |-> FALSE]]
  /\ Goto(k, "push")
  /\ UNCHANGED <<queue, on, workload, handler, notified, dpc>>

\* The unlock puts the whole line back.
Put(k, line) ==
  /\ queue' = line
  /\ lock' = NoKernel
  /\ copy' = [copy EXCEPT ![k] = NoLine]

\* The queue is full: MARS_ERROR_LIMIT, and the caller goes on.
PushFull(k) ==
  /\ kpc[k] = "push"
  /\ copy[k].count = QueueMax
  /\ Put(k, copy[k])
  /\ Goto(k, "run")
  /\ UNCHANGED <<on, area, workload, handler, notified, dpc>>

\* The line with workload w at its tail.
Pushed(line, w) ==
  [line EXCEPT !.flag = "PUSH", !.workload_id[line.tail] = w,
               !.count = line.count + 1, !.tail = Wrap(line.tail + 1)]

Push(k) ==
  LET w == on[k] IN
  /\ kpc[k] = "push"
  /\ copy[k].count # QueueMax
  /\ Put(k, Pushed(copy[k], w))
  /\ inCall' = [inCall EXCEPT ![w] = TRUE]
  /\ asked' = [asked EXCEPT ![w] = asked[w] + 1]
  /\ Goto(k, "notify")
  /\ UNCHANGED <<on, area, state, signal, ctx, answered, handler, notified, dpc>>

\* Mutant: only the push that makes the queue nonempty is notified.
NotifyFirst(k) ==
  /\ kpc[k] = "notify"
  /\ notified' = (notified \/ (EventsTaken /\ queue.count = 1))
  /\ Goto(k, "save")
  /\ UNCHANGED <<queue, lock, copy, on, area, workload, handler, dpc>>

\* host_signal_send
Notify(k) ==
  /\ kpc[k] = "notify"
  /\ notified' = (notified \/ EventsTaken)
  /\ Goto(k, "save")
  /\ UNCHANGED <<queue, lock, copy, on, area, workload, handler, dpc>>

\* task_save: the workload goes back to its kernel in the waiting state.
Save(k) == kpc[k] = "save" /\ Release(k, "WAITING")

\* The workload runs again: the signal is reset and the output returned.
Return(k) ==
  /\ kpc[k] = "woken"
  /\ signal' = [signal EXCEPT ![on[k]] = FALSE]
  /\ inCall' = [inCall EXCEPT ![on[k]] = FALSE]
  /\ Goto(k, "run")
  /\ UNCHANGED <<queue, lock, copy, on, area, state, ctx, asked, answered, handler,
                 notified, dpc>>

-----------------------------------------------------------------------------
(* The callback handler thread.                                            *)

\* mars_ea_cond_wait tests the flag under the condition's mutex, without the
\* queue's.
Test ==
  /\ hpc = "test"
  /\ hpc' = CASE queue.flag = "EXIT" -> "ended"
              [] queue.flag = "PUSH" -> "pop"
              [] OTHER -> "asleep"
  /\ UNCHANGED <<queue, kernel, workload, job, args, notified, dpc>>

\* Mutants: the flag is not reset, always reset; the head stays.
PoppedFlagged(line) ==
  [line EXCEPT !.count = line.count - 1, !.head = Wrap(line.head + 1)]

PoppedReset(line) ==
  [line EXCEPT !.count = line.count - 1, !.head = Wrap(line.head + 1), !.flag = "NONE"]

PoppedSameHead(line) ==
  [line EXCEPT !.count = line.count - 1,
               !.flag = IF line.count = 1 THEN "NONE" ELSE line.flag]

\* The line without its head.
Popped(line) ==
  [line EXCEPT !.count = line.count - 1, !.head = Wrap(line.head + 1),
               !.flag = IF line.count = 1 THEN "NONE" ELSE line.flag]

\* callback_queue_pop; an empty queue was a false signal.
Pop ==
  /\ hpc = "pop"
  /\ lock = NoKernel
  /\ IF queue.count = 0
       THEN hpc' = "test" /\ UNCHANGED <<queue, job>>
       ELSE /\ job' = queue.workload_id[queue.head]
            /\ queue' = Popped(queue)
            /\ hpc' = "spin"
  /\ UNCHANGED <<kernel, workload, args, notified, dpc>>

\* Mutant: it does not.
BeginAtOnce ==
  /\ hpc = "spin"
  /\ args' = ctx[job]
  /\ hpc' = "callback"
  /\ UNCHANGED <<queue, kernel, workload, job, notified, dpc>>

\* callback_process spins until the workload is waiting, then fetches its
\* callback area ...
Begin ==
  /\ hpc = "spin"
  /\ state[job] = "WAITING"
  /\ args' = ctx[job]
  /\ hpc' = "callback"
  /\ UNCHANGED <<queue, kernel, workload, job, notified, dpc>>

\* ... runs the callback and puts the area back.
Callback ==
  /\ hpc = "callback"
  /\ ctx' = [ctx EXCEPT ![job] = [args EXCEPT !.done = TRUE]]
  /\ answered' = [answered EXCEPT ![job] = answered[job] + 1]
  /\ hpc' = "signal"
  /\ UNCHANGED <<queue, kernel, state, signal, inCall, asked, job, args, notified, dpc>>

\* mars_workload_queue_signal_send
Signal ==
  /\ hpc = "signal"
  /\ signal' = [signal EXCEPT ![job] = TRUE]
  /\ job' = NoWorkload
  /\ hpc' = "test"
  /\ UNCHANGED <<queue, kernel, state, inCall, ctx, asked, answered, args, notified, dpc>>

\* A broadcast of the condition.
Awakened == IF hpc = "asleep" THEN "test" ELSE hpc

\* The event handler thread receives the kernel's event.
HandleEvent ==
  /\ notified
  /\ notified' = FALSE
  /\ hpc' = Awakened
  /\ UNCHANGED <<queue, kernel, workload, job, args, dpc>>

-----------------------------------------------------------------------------
(* Other clients: a signal from another task or a host thread, a workload  *)
(* unscheduled, the context destroyed.                                     *)

ClientSignal(w) ==
  /\ "signal" \in ClientOps
  /\ signal' = [signal EXCEPT ![w] = TRUE]
  /\ UNCHANGED <<queue, kernel, state, inCall, ctx, asked, answered, handler, notified, dpc>>

Unschedule(w) ==
  /\ "unschedule" \in ClientOps
  /\ state[w] \in {"READY", "WAITING", "RUNNING"}
  /\ state' = [state EXCEPT ![w] = "FINISHED"]
  /\ UNCHANGED <<queue, kernel, signal, inCall, ctx, asked, answered, handler, notified, dpc>>

\* mars_context_destroy: the workload queue's exit flag, ...
Destroy ==
  /\ dpc = "idle"
  /\ "destroy" \in ClientOps
  /\ dpc' = "store"
  /\ UNCHANGED <<queue, kernel, workload, handler, notified>>

\* ... the callback queue's exit flag, stored without its mutex, ...
StoreExit ==
  /\ dpc = "store"
  /\ queue' = [queue EXCEPT !.flag = "EXIT"]
  /\ dpc' = "broadcast"
  /\ UNCHANGED <<kernel, workload, handler, notified>>

\* ... a broadcast to wake the handler, ...
BroadcastExit ==
  /\ dpc = "broadcast"
  /\ hpc' = Awakened
  /\ dpc' = "wait"
  /\ UNCHANGED <<queue, kernel, workload, job, args, notified>>

\* ... waiting for the kernels and the event handler thread, ...
KernelsGone ==
  /\ dpc = "wait"
  /\ \A k \in Kernels : kpc[k] = "gone"
  /\ ~ notified
  /\ dpc' = "check"
  /\ UNCHANGED <<queue, kernel, workload, handler, notified>>

\* Mutant: the count is not looked at.
CheckNothing ==
  /\ dpc = "check"
  /\ dpc' = "join"
  /\ UNCHANGED <<queue, kernel, workload, handler, notified>>

\* ... an error if a request is left, ...
CheckEmpty ==
  /\ dpc = "check"
  /\ dpc' = IF queue.count # 0 THEN "failed" ELSE "join"
  /\ UNCHANGED <<queue, kernel, workload, handler, notified>>

\* ... and the handler thread joined.
Join ==
  /\ dpc = "join"
  /\ hpc = "ended"
  /\ dpc' = "destroyed"
  /\ UNCHANGED <<queue, kernel, workload, handler, notified>>

-----------------------------------------------------------------------------
KernelStep(k) ==
  \/ Reserve(k) \/ GiveUp(k) \/ PushFull(k) \/ Push(k) \/ Notify(k) \/ Save(k) \/ Return(k)
  \/ \E w \in Workloads : MakeReady(k, w) \/ Dispatch(k, w)

WorkloadStep(k) == PushLock(k) \/ Finish(k)

HandlerStep == Test \/ Pop \/ Begin \/ Callback \/ Signal

DestroyStep == StoreExit \/ BroadcastExit \/ KernelsGone \/ CheckEmpty \/ Join

Next == \/ \E k \in Kernels : KernelStep(k) \/ WorkloadStep(k)
        \/ HandlerStep \/ HandleEvent
        \/ \E w \in Workloads : ClientSignal(w) \/ Unschedule(w)
        \/ Destroy \/ DestroyStep

Spec == Init /\ [][Next]_vars

\* Every thread keeps running, callbacks return, workloads call or exit; the
\* queue's mutex is first come first served, so a handler that waits for it
\* gets it though kernels take it again and again (strong fairness).
Fairness ==
  /\ \A k \in Kernels : SF_vars(KernelStep(k)) /\ SF_vars(WorkloadStep(k))
  /\ SF_vars(HandlerStep)
  /\ WF_vars(HandleEvent)
  /\ WF_vars(DestroyStep)

FairSpec == Spec /\ Fairness
-----------------------------------------------------------------------------
TypeOK ==
  /\ queue \in Line
  /\ lock \in Kernels \union {NoKernel}
  /\ copy \in [Kernels -> Line \union {NoLine}]
  /\ kpc \in [Kernels -> {"free", "look", "gone", "run", "push", "notify", "save", "woken"}]
  /\ on \in [Kernels -> Workloads \union {NoWorkload}]
  /\ area \in [Kernels -> Area]
  /\ state \in [Workloads -> {"READY", "RUNNING", "WAITING", "FINISHED"}]
  /\ signal \in [Workloads -> BOOLEAN]
  /\ inCall \in [Workloads -> BOOLEAN]
  /\ ctx \in [Workloads -> Area]
  /\ asked \in [Workloads -> Nat]
  /\ answered \in [Workloads -> Nat]
  /\ hpc \in {"test", "asleep", "pop", "spin", "callback", "signal", "ended"}
  /\ job \in Workloads \union {NoWorkload}
  /\ args \in Area
  /\ notified \in BOOLEAN
  /\ dpc \in {"idle", "store", "broadcast", "wait", "check", "failed", "join", "destroyed"}

\* The flag the handler sleeps on says whether there are requests
\* (kernel.c:573, callback_cell.c:100), unless it says EXIT.
FlagAgrees == queue.flag # "EXIT" => (queue.flag = "PUSH" <=> queue.count > 0)

\* A handler asleep on a flag that says otherwise will be woken: the kernel that
\* pushed, or the thread that stored EXIT, still has to notify it.  After the
\* first kernel's exit nobody passes events on.
NoMissedCallback ==
  hpc = "asleep" =>
    /\ queue.flag = "EXIT" => dpc = "broadcast"
    /\ queue.flag = "PUSH" /\ EventsTaken => notified \/ \E k \in Kernels : kpc[k] = "notify"

\* "This function will block until the requested host callback function returns"
\* (include/spu/mars/task.h:238): a call that returns to the workload has the
\* output of its own callback.
BlocksUntilReturn ==
  \A k \in Kernels : kpc[k] = "woken" => area[k] = [call |-> asked[on[k]], done |-> TRUE]

\* No accepted call is dropped by the exit: when the context is destroyed, every
\* callback asked for was run (callback_cell.c:233-237), though EXIT may be
\* stored while kernels push and the handler is in the middle of one.
DestroyedAllAnswered == dpc = "destroyed" => answered = asked

\* The requests in the ring, oldest first.
Requests == [i \in 1 .. queue.count |-> queue.workload_id[(queue.head + i - 1) % QueueMax]]

Calls == INSTANCE RemoteCall WITH
           queue <- Requests,
           serving <- IF hpc \in {"spin", "callback"} THEN job ELSE NoWorkload,
           status <- [w \in Workloads |-> IF ~ inCall[w] THEN "running"
                                          ELSE IF answered[w] < asked[w] THEN "called"
                                          ELSE "answered"]

\* The ring, its two copies and the signals implement calls served in order,
\* each once, as long as nobody else signals the caller.
CallsServed == Calls!Spec

\* Every call returns, if nobody unschedules a caller: the handler spins until
\* the caller waits (callback_cell.c:35).
CallReturns == \A w \in Workloads : inCall[w] ~> ~ inCall[w]

\* "shutdown the callback queue so callback handler threads exit"
\* (ppu/base/lib/context.c:287): once EXIT was stored and broadcast the handler
\* thread ends.
ExitEndsHandler == dpc = "wait" ~> hpc = "ended"
=============================================================================
