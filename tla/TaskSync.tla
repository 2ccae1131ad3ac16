------------------------------ MODULE TaskSync ------------------------------
(***************************************************************************)
(* A program of MARS tasks and host threads that use synchronisation       *)
(* objects: one of each kind, over the one signal bit a task has.          *)
(* What the program does is chosen at the start (use): which objects it    *)
(* uses, and whether it peeks, clears, removes waiting tasks and destroys. *)
(***************************************************************************)
EXTENDS TaskSemaphore, TaskBarrier, TaskEventFlag, TaskQueue

CONSTANT Programs     \* the sets of Uses a program may be made of

Uses == {"signal", "semaphore", "barrier", "flag", "flag_clear", "queue", "peek", "clear",
         "host_clear", "remove", "destroy", "HOST_TO_MPU", "MPU_TO_HOST",
         "MPU_TO_MPU"}

ASSUME ProgramsAssumption == Programs \subseteq SUBSET Uses

VARIABLES
  use,         \* what this program uses
  destroyed    \* the host has destroyed the object

syncVars == <<sigVars, hostVars, semVars, barVars, flagVars, queueVars, use, destroyed>>

\* A flag or queue has the direction the program says.  An object the program
\* does not use is created in one way only.
Created ==
  /\ IF "flag" \in use THEN flag.direction \in use
     ELSE flag.direction = "MPU_TO_MPU" /\ flag.clear_mode = "MANUAL"
  /\ queue.direction \in IF "queue" \in use THEN use ELSE {"MPU_TO_MPU"}
  /\ "semaphore" \notin use => permits = CHOOSE n \in SemCounts : TRUE

SyncInit ==
  /\ SigInit /\ HostInit /\ SemInit /\ BarInit /\ FlagInit /\ QueueInit
  /\ use \in Programs
  /\ Created
  /\ destroyed = FALSE

\* A call is made by programs that use it, and while there is an object.
Calls(u, A) == u \in use /\ ~destroyed /\ A /\ UNCHANGED <<use, destroyed>>

SignalStep == Calls("signal", SignalCalls)
                /\ UNCHANGED <<hostVars, semVars, barVars, flagVars, queueVars>>
SemaphoreStep == Calls("semaphore", SemCalls)
                   /\ UNCHANGED <<hostVars, barVars, flagVars, queueVars>>
BarrierStep == Calls("barrier", BarCalls)
                 /\ UNCHANGED <<hostVars, semVars, flagVars, queueVars>>
FlagStep == Calls("flag", FlagCalls) /\ UNCHANGED <<semVars, barVars, queueVars>>
FlagClearStep == Calls("flag_clear", \E b \in Bit : FlagClear({b}))
                   /\ UNCHANGED <<semVars, barVars, queueVars>>
QueueStep == Calls("queue", QueueCalls) /\ UNCHANGED <<semVars, barVars, flagVars>>
PeekStep == Calls("peek", PeekCalls) /\ UNCHANGED <<semVars, barVars, flagVars>>
ClearStep == Calls("clear", ClearCalls) /\ UNCHANGED <<semVars, barVars, flagVars>>
HostClearStep == Calls("host_clear", HostClearCalls)
                   /\ UNCHANGED <<semVars, barVars, flagVars>>

KernelStep ==
  /\ Kernel
  /\ UNCHANGED <<hostVars, semVars, barVars, flagVars, queueVars, use, destroyed>>

BroadcastStep ==
  /\ Broadcast
  /\ UNCHANGED <<sigVars, semVars, barVars, flagVars, queueVars, use, destroyed>>

RemoveStep == Calls("remove", \E t \in Task : Remove(t))
                /\ UNCHANGED <<hostVars, semVars, barVars, flagVars, queueVars>>

\* MUTANT of Destroyable: the queue looks only at those that wait to push.
DestroyableUnlessPushing ==
  /\ SemaphoreDestroyable /\ BarrierDestroyable /\ FlagDestroyable
  /\ queue.push_wait.count = 0

\* The destroy calls refuse with MARS_ERROR_STATE while tasks wait, as far as
\* they look.
Destroyable == SemaphoreDestroyable /\ BarrierDestroyable /\ FlagDestroyable /\ QueueDestroyable

Destroy ==
  /\ "destroy" \in use /\ ~destroyed
  /\ Destroyable
  /\ destroyed' = TRUE
  /\ UNCHANGED <<sigVars, hostVars, semVars, barVars, flagVars, queueVars, use>>

SyncNext ==
  \/ SignalStep
  \/ SemaphoreStep
  \/ BarrierStep
  \/ FlagStep \/ FlagClearStep
  \/ QueueStep \/ PeekStep \/ ClearStep \/ HostClearStep
  \/ KernelStep
  \/ BroadcastStep
  \/ RemoveStep
  \/ Destroy

SyncSpec == SyncInit /\ [][SyncNext]_syncVars

(***************************************************************************)
(* Properties.                                                             *)
(***************************************************************************)
SyncTypeOK == SemTypeOK /\ BarTypeOK /\ FlagTypeOK /\ QueueTypeOK /\ use \subseteq Uses

\* The wait list a task that blocks in call o is in.
WaitListOf(o) ==
  CASE o = "acquire" -> SemSet(sem.wait)
    [] o = "notify" -> BarSet(barrier.notify_wait)
    [] o = "barrier_wait" -> BarSet(barrier.wait)
    [] o = "flag_wait" -> FlagIds(flag.wait)
    [] o = "push" -> Enlisted(queue.push_wait)
    [] o \in {"pop", "peek"} -> Enlisted(queue.pop_wait)
    [] OTHER -> {}

Stranded(t) ==
  /\ status[t] = "waiting" /\ op[t] # "signal" /\ ~signal[t]
  /\ destroyed \/ t \notin WaitListOf(op[t])

\* No task waits for a signal nobody will send: it is in the wait list of an
\* object that is still there, or its signal is set.
NoneStranded == \A t \in Task : ~Stranded(t)

\* A waiting task is stranded neither by the resets of its signal nor by a destroy,
\* so long as nobody clears the queue (ClearWakesAll) and the object is not a
\* barrier, whose destroy does not look at the tasks that wait to notify.
WaitersKept == use \intersect {"clear", "host_clear", "barrier"} = {} => NoneStranded

\* "signal all waiting tasks that queue is ready for push" (task_queue.c:52 of the
\* SPU, :154 of the host).
ClearWakesAll == \A t \in Task : op[t] = "push" => ~Stranded(t)

\* Items and room are offered to the tasks that wait for them.
QueueWaitersServed ==
  /\ "peek" \notin use => PopNotMissed
  /\ use \intersect {"clear", "host_clear"} = {} => PushNotMissed

\* A host thread does not sleep while it could go on, unless an event is on its way:
\* events are sent after the unlock, and only when the queue was empty or full
\* before (task_queue.c:79, 251).  The host's own clear sends none.
HostNotMissed ==
  \A h \in Host : hostpc[h] = "asleep" =>
    \/ event \/ \E t \in Task : op[t] \in {"set_event", "queue_event"}
    \/ hostop[h] = "flag_wait" /\ ~ Met(flag.bits, want[h])
    \/ hostop[h] = "push" /\ (queue.count = depth \/ "host_clear" \in use)
    \/ hostop[h] \in {"pop", "peek"} /\ queue.count = 0

\* A task's wait returns when its condition is met, although it is not tested
\* again after the signal (task_event_flag.c:176), in a flag whose bits
\* nobody takes back: with CLEAR_AUTO or a clear in between it may return with
\* other bits.
FlagWaitMeetsCondition ==
  [][("flag_clear" \notin use /\ flag.clear_mode = "MANUAL") =>
       \A t \in Task : FlagWaitReturns(t) => Met(flag.bits, want[t])]_syncVars

\* Not everyone waits for everyone: of the tasks that use a semaphore or a barrier
\* one is not asleep, or about to be resumed.
SomeoneRuns ==
  use \in {{"semaphore"}, {"barrier"}} => \E t \in Task : status[t] # "waiting" \/ signal[t]
=============================================================================
