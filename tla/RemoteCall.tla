----------------------------- MODULE RemoteCall -----------------------------
(***************************************************************************)
(* What mars_task_call_host promises to tasks (include/spu/mars/task.h):   *)
(* the host runs the requested callbacks one after the other in the order  *)
(* of the requests, each once, and the caller is blocked until its own     *)
(* has returned.  At most QueueMax requests wait at a time.                *)
(***************************************************************************)
EXTENDS Naturals, Sequences

CONSTANTS Workloads, QueueMax, NoWorkload

VARIABLES queue,      \* the requests not yet taken up, oldest first
          serving,    \* the workload whose callback runs, or NoWorkload
          status      \* of each workload: running, called or answered

vars == <<queue, serving, status>>

Init == /\ queue = <<>>
        /\ serving = NoWorkload
        /\ status = [w \in Workloads |-> "running"]

Call(w) == /\ status[w] = "running"
           /\ Len(queue) < QueueMax
           /\ queue' = Append(queue, w)
           /\ status' = [status EXCEPT ![w] = "called"]
           /\ UNCHANGED serving

Take == /\ serving = NoWorkload
        /\ queue # <<>>
        /\ serving' = Head(queue)
        /\ queue' = Tail(queue)
        /\ UNCHANGED status

Answer == /\ serving # NoWorkload
          /\ status[serving] = "called"
          /\ status' = [status EXCEPT ![serving] = "answered"]
          /\ serving' = NoWorkload
          /\ UNCHANGED queue

Return(w) == /\ status[w] = "answered"
             /\ status' = [status EXCEPT ![w] = "running"]
             /\ UNCHANGED <<queue, serving>>

Next == Take \/ Answer \/ \E w \in Workloads : Call(w) \/ Return(w)

Spec == Init /\ [][Next]_vars
=============================================================================
