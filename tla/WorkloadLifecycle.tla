-------------------------- MODULE WorkloadLifecycle --------------------------
(***************************************************************************)
(* What the workload queue promises its clients: the life of a workload,   *)
(* and which kernel executes it.  A workload is executed by one kernel at  *)
(* a time, only between being scheduled and being finished or unscheduled, *)
(* and a kernel that gives a workload back gives back the one it took.     *)
(***************************************************************************)
CONSTANTS Kernels, Ids, NoId

VARIABLES state,   \* of each workload
          on       \* the workload each kernel executes, or NoId

vars == <<state, on>>

\* No workload has been scheduled yet.
Init == /\ state \in [Ids -> {"NONE", "FINISHED"}]
        /\ on = [k \in Kernels |-> NoId]

Becomes(i, s) == state' = [state EXCEPT ![i] = s]

\* Operations of the clients and wake-ups: they leave the kernels alone.
Allowed == {<<"NONE", "ADDING">>, <<"ADDING", "FINISHED">>, <<"ADDING", "NONE">>,
            <<"FINISHED", "REMOVING">>, <<"REMOVING", "NONE">>, <<"REMOVING", "FINISHED">>,
            <<"FINISHED", "SCHEDULING">>, <<"SCHEDULING", "READY">>,
            <<"SCHEDULING", "FINISHED">>, <<"WAITING", "READY">>,
            <<"READY", "UNSCHEDULING">>, <<"WAITING", "UNSCHEDULING">>,
            <<"RUNNING", "UNSCHEDULING">>, <<"UNSCHEDULING", "FINISHED">>}

Change(i) == /\ <<state[i], state'[i]>> \in Allowed /\ Becomes(i, state'[i])
             /\ UNCHANGED on

Take(k, i) == /\ on[k] = NoId
              /\ state[i] = "READY"
              /\ \A j \in Kernels : on[j] # i
              /\ Becomes(i, "RUNNING")
              /\ on' = [on EXCEPT ![k] = i]

GiveBack(k) == /\ on[k] # NoId
               /\ state[on[k]] = "RUNNING"
               /\ state'[on[k]] \in {"READY", "WAITING", "FINISHED"}
               /\ Becomes(on[k], state'[on[k]])
               /\ on' = [on EXCEPT ![k] = NoId]

\* The workload was unscheduled while it ran.
Drop(k) == /\ on[k] # NoId
           /\ state[on[k]] \in {"UNSCHEDULING", "FINISHED"}
           /\ on' = [on EXCEPT ![k] = NoId]
           /\ UNCHANGED state

\* A step of the queue its clients do not see.
Unseen == /\ \A i \in Ids : state'[i] = state[i]
          /\ \A k \in Kernels : on'[k] = on[k]

Next == \/ Unseen
        \/ \E i \in Ids : Change(i) \/ \E k \in Kernels : Take(k, i)
        \/ \E k \in Kernels : GiveBack(k) \/ Drop(k)

Spec == Init /\ [][Next]_vars
=============================================================================
