----------------------------- MODULE TaskSignal -----------------------------
(***************************************************************************)
(* How a MARS task blocks: the one signal bit of its workload, which every *)
(* synchronisation object uses to resume it (task_signal.c, task_module.c).*)
(*                                                                         *)
(* A task blocks by leaving its SPU in the state WAITING.  Between the     *)
(* moment it puts its id in a wait list and that state the bit may already *)
(* have been set; the kernel finds it then (WorkloadQueue), so both are    *)
(* the status "waiting" here.  The kernel clears the bit as it resumes the *)
(* task, and the task clears it again before it goes on, so there are two  *)
(* steps between a signal and what the task does next.                     *)
(***************************************************************************)
CONSTANT Task

VARIABLES
  status,   \* "running", "waiting", "resumed" (but not past the reset), "gone"
  signal,   \* the signal bit of the task's workload
  op,       \* the call the task is inside of, "none" in its own code
  news      \* history: something was announced with a signal, and the task
            \* has not looked at it since

sigVars == <<status, signal, op, news>>

Ops == {"none", "signal", "try_signal", "acquire", "notify", "barrier_wait",
        "flag_wait", "set_event", "push", "pop", "peek", "push_end", "pop_end",
        "peek_end", "queue_event"}

SigTypeOK ==
  /\ status \in [Task -> {"running", "waiting", "resumed", "gone"}]
  /\ signal \in [Task -> BOOLEAN]
  /\ op \in [Task -> Ops]
  /\ news \in [Task -> BOOLEAN]

SigInit ==
  /\ status = [t \in Task |-> "running"]
  /\ signal = [t \in Task |-> FALSE]
  /\ op = [t \in Task |-> "none"]
  /\ news = [t \in Task |-> FALSE]

(***************************************************************************)
(* What the objects' calls are made of.                                    *)
(***************************************************************************)
\* t is in its own code and may call.
Free(t) == status[t] = "running" /\ op[t] = "none"

\* t is inside call o: it has been resumed and has reset its signal.
Inside(t, o) == status[t] = "running" /\ op[t] = o

\* mars_task_module_signal_send to every task of ts.  A workload that was
\* removed is refused with MARS_ERROR_STATE.
Send(ts) == signal' = [t \in Task |-> signal[t] \/ (t \in ts /\ status[t] # "gone")]

\* t calls o and waits for a signal.
Block(t, o) ==
  /\ status' = [status EXCEPT ![t] = "waiting"]
  /\ op' = [op EXCEPT ![t] = o]

\* t goes on inside o (or with "none" returns to its own code).
Continue(t, o) ==
  /\ op' = [op EXCEPT ![t] = o]
  /\ UNCHANGED status

(***************************************************************************)
(* The kernel and the end of every wait.                                   *)
(***************************************************************************)
\* search_block makes a signalled waiting workload ready and clears the bit.
Wake(t) ==
  /\ status[t] = "waiting" /\ signal[t]
  /\ status' = [status EXCEPT ![t] = "resumed"]
  /\ signal' = [signal EXCEPT ![t] = FALSE]
  /\ UNCHANGED <<op, news>>

\* The rest of task_signal_wait: the signal is reset again.
ResetSignal(t) ==
  /\ status[t] = "resumed"
  /\ status' = [status EXCEPT ![t] = "running"]
  /\ signal' = [signal EXCEPT ![t] = FALSE]
  /\ UNCHANGED <<op, news>>

(***************************************************************************)
(* Signals between tasks and from the host.                                *)
(***************************************************************************)
\* Somebody announces news to t, then calls mars_task_signal_send.
Announce(t) ==
  /\ status[t] # "gone" /\ ~news[t]
  /\ news' = [news EXCEPT ![t] = TRUE]
  /\ Send({t})
  /\ UNCHANGED <<status, op>>

\* MUTANT of WaitSignal: an old signal is cleared before the task waits.
WaitSignalAfresh(t) ==
  /\ Free(t)
  /\ Block(t, "signal")
  /\ signal' = [signal EXCEPT ![t] = FALSE]
  /\ UNCHANGED news

\* mars_task_signal_wait.
WaitSignal(t) ==
  /\ Free(t)
  /\ Block(t, "signal")
  /\ UNCHANGED <<signal, news>>

\* mars_task_signal_wait returns, and the task looks at all news.
WaitSignalReturns(t) ==
  /\ Inside(t, "signal")
  /\ Continue(t, "none")
  /\ news' = [news EXCEPT ![t] = FALSE]
  /\ UNCHANGED signal

\* task_signal_try_wait asks the kernel for the bit, and resets it afterwards.
TryWaitSignal(t) ==
  /\ Free(t) /\ signal[t]
  /\ Continue(t, "try_signal")
  /\ UNCHANGED <<signal, news>>

TryResetSignal(t) ==
  /\ Inside(t, "try_signal")
  /\ signal' = [signal EXCEPT ![t] = FALSE]
  /\ Continue(t, "signal")
  /\ UNCHANGED news

SignalCalls ==
  \E t \in Task :
    \/ Announce(t)
    \/ WaitSignal(t)
    \/ WaitSignalReturns(t)
    \/ TryWaitSignal(t)
    \/ TryResetSignal(t)

Kernel == \E t \in Task : Wake(t) \/ ResetSignal(t)

\* The host unschedules a waiting task and destroys it (mars_task_unschedule,
\* mars_task_destroy): its workload is NONE, and its id stays in wait lists.
Remove(t) ==
  /\ status[t] = "waiting"
  /\ status' = [status EXCEPT ![t] = "gone"]
  /\ UNCHANGED <<signal, op, news>>

\* Tasks that use nothing but signals.
SigSpec == SigInit /\ [][SignalCalls \/ Kernel \/ \E t \in Task : Remove(t)]_sigVars

(***************************************************************************)
(* What is announced with a signal is seen: a task that has not looked at  *)
(* its news either has its signal bit set or is on its way back from a     *)
(* wait, after which it looks.  The second reset of task_signal_wait may   *)
(* clear a signal that came after the wake-up (task_module.c:238), which   *)
(* does no harm because it comes before the task looks.                    *)
(***************************************************************************)
NewsIsSeen ==
  \A t \in Task : news[t] =>
    \/ signal[t]
    \/ status[t] = "resumed"
    \/ Inside(t, "signal") \/ Inside(t, "try_signal")
=============================================================================
