------------------------------ MODULE FifoLock ------------------------------
(***************************************************************************)
(* What mutex_lock_get / mars_mutex_lock promise to their callers: a lock  *)
(* held by at most one processor and granted in the order in which the     *)
(* processors asked for it.                                                *)
(***************************************************************************)
EXTENDS Naturals, Sequences

CONSTANTS Procs,      \* processors and host threads sharing the lock
          NoProc      \* "nobody holds the lock"

VARIABLES queue,      \* processors waiting, in the order they asked
          holder      \* the processor in its critical section, or NoProc

vars == <<queue, holder>>

Init == queue = <<>> /\ holder = NoProc

Ask(p) == /\ p # holder
          /\ \A i \in 1 .. Len(queue) : queue[i] # p
          /\ queue' = Append(queue, p)
          /\ UNCHANGED holder

Grant == /\ holder = NoProc
         /\ queue # <<>>
         /\ holder' = Head(queue)
         /\ queue' = Tail(queue)

Release == /\ holder # NoProc
           /\ holder' = NoProc
           /\ UNCHANGED queue

Next == Grant \/ Release \/ \E p \in Procs : Ask(p)

Spec == Init /\ [][Next]_vars
=============================================================================
