--------------------------- MODULE TaskEventFlag ---------------------------
(***************************************************************************)
(* The event flag of MARS tasks (task_event_flag.c of the SPU and of the   *)
(* host).  Setting bits resumes every waiting task whose condition they    *)
(* meet.  A resumed task takes the lock again, and returns and clears bits *)
(* without testing its condition a second time.  A host thread tests again.*)
(***************************************************************************)
EXTENDS TaskSignal, HostCond, Integers, Sequences, FiniteSets

CONSTANTS
  Bit,                  \* the bits of the flag
  EVENT_FLAG_WAIT_MAX   \* MARS_TASK_EVENT_FLAG_WAIT_MAX: places in the wait list

\* A host thread is no task.
ASSUME FlagAssumption == EVENT_FLAG_WAIT_MAX \in Nat \ {0} /\ Task \intersect Host = {}

VARIABLES
  flag,     \* [bits, direction, clear_mode, wait]
  want      \* the mask and mode of the wait a task or host thread is inside of

flagVars == <<flag, want>>

Conditions == [mask : SUBSET Bit \ {{}}, mode : {"OR", "AND"}]
NoCondition == [mask |-> {}, mode |-> "OR"]

FlagTypeOK ==
  /\ SigTypeOK /\ HostTypeOK
  /\ flag.bits \subseteq Bit
  /\ flag.direction \in {"HOST_TO_MPU", "MPU_TO_HOST", "MPU_TO_MPU"}
  /\ flag.clear_mode \in {"AUTO", "MANUAL"}
  /\ flag.wait \in Seq([id : Task, c : Conditions])
  /\ Len(flag.wait) <= EVENT_FLAG_WAIT_MAX
  /\ want \in [Task \union Host -> Conditions \union {NoCondition}]

FlagInit ==
  /\ \E d \in {"HOST_TO_MPU", "MPU_TO_HOST", "MPU_TO_MPU"}, m \in {"AUTO", "MANUAL"} :
       flag = [bits |-> {}, direction |-> d, clear_mode |-> m, wait |-> << >>]
  /\ want = [p \in Task \union Host |-> NoCondition]

Met(bits, c) == IF c.mode = "OR" THEN bits \intersect c.mask # {} ELSE c.mask \subseteq bits

\* The bits after a wait for c returned.
Consumed(c) == IF flag.clear_mode = "AUTO" THEN flag.bits \ c.mask ELSE flag.bits

FlagIds(w) == {w[i].id : i \in 1..Len(w)}

\* The entries of w at some of its places, moved up in their order.
Entries(w, places) ==
  [k \in 1..Cardinality(places) |->
     w[CHOOSE i \in places : Cardinality(places \intersect 1..i) = k]]

(***************************************************************************)
(* Clear and set.                                                          *)
(***************************************************************************)
\* mars_task_event_flag_clear, by a task or a host thread.
FlagClear(bits) ==
  /\ flag' = [flag EXCEPT !.bits = @ \ bits]
  /\ UNCHANGED <<sigVars, hostVars, want>>

\* MUTANT of Flush: the index is not taken back after an entry was removed, so
\* the entry that moved into its place is not looked at.
FlushSkips(bits, n) ==
  LET w == flag.wait
      met == {i \in 1..n : Met(bits, w[i].c)}
      removed == {i \in met : i - 1 \notin met}
  IN  /\ Send({w[i].id : i \in removed})
      /\ flag' = [flag EXCEPT !.bits = bits, !.wait = Entries(w, 1..Len(w) \ removed)]

\* MUTANT of Flush: every waiting task is resumed.
FlushAll(bits, n) ==
  /\ Send(FlagIds(SubSeq(flag.wait, 1, n)))
  /\ flag' = [flag EXCEPT !.bits = bits, !.wait = SubSeq(@, n + 1, Len(@))]

\* The loop over the first n entries of the wait list: those whose condition
\* the bits meet are signalled and removed.
Flush(bits, n) ==
  LET w == flag.wait
      met == {i \in 1..n : Met(bits, w[i].c)}
  IN  /\ Send({w[i].id : i \in met})
      /\ flag' = [flag EXCEPT !.bits = bits, !.wait = Entries(w, 1..Len(w) \ met)]

\* mars_task_event_flag_set by a task.  A flag for the host also sends it an
\* event, after the lock is given back.
FlagSet(t, bits) ==
  /\ Free(t)
  /\ flag.direction # "HOST_TO_MPU"
  /\ Flush(flag.bits \union bits, Len(flag.wait))
  /\ Continue(t, IF flag.direction = "MPU_TO_HOST" THEN "set_event" ELSE "none")
  /\ UNCHANGED <<news, hostVars, want>>

FlagSetEvent(t) ==
  /\ Inside(t, "set_event")
  /\ Continue(t, "none")
  /\ event' = TRUE
  /\ UNCHANGED <<signal, news, hostpc, hostop, flagVars>>

\* mars_task_event_flag_set by the host ends at the first waiter it cannot
\* signal, a task that was removed; that entry stays, and those after it.
HostFlagSet(h, bits) ==
  /\ hostpc[h] = "idle"
  /\ flag.direction = "HOST_TO_MPU"
  /\ LET new == flag.bits \union bits
         dead == {i \in 1..Len(flag.wait) :
                    status[flag.wait[i].id] = "gone" /\ Met(new, flag.wait[i].c)}
     IN  Flush(new, IF dead = {} THEN Len(flag.wait)
                    ELSE (CHOOSE i \in dead : \A j \in dead : i <= j) - 1)
  /\ UNCHANGED <<status, op, news, hostVars, want>>

(***************************************************************************)
(* Waiting.                                                                *)
(***************************************************************************)
\* mars_task_event_flag_wait and try_wait when the condition is met.
FlagWait(t, c) ==
  /\ Free(t)
  /\ flag.direction # "MPU_TO_HOST"
  /\ Met(flag.bits, c)
  /\ flag' = [flag EXCEPT !.bits = Consumed(c)]
  /\ UNCHANGED <<sigVars, hostVars, want>>

\* wait otherwise; with a full list it returns MARS_ERROR_LIMIT.
FlagWaitBlocks(t, c) ==
  /\ Free(t)
  /\ flag.direction # "MPU_TO_HOST"
  /\ ~ Met(flag.bits, c)
  /\ Len(flag.wait) < EVENT_FLAG_WAIT_MAX
  /\ flag' = [flag EXCEPT !.wait = Append(@, [id |-> t, c |-> c])]
  /\ want' = [want EXCEPT ![t] = c]
  /\ Block(t, "flag_wait")
  /\ UNCHANGED <<signal, news, hostVars>>

\* After the signal the call returns and consumes, whatever the bits are.
FlagWaitReturns(t) ==
  /\ Inside(t, "flag_wait")
  /\ flag' = [flag EXCEPT !.bits = Consumed(want[t])]
  /\ want' = [want EXCEPT ![t] = NoCondition]
  /\ Continue(t, "none")
  /\ UNCHANGED <<signal, news, hostVars>>

\* The host's wait, under the lock for the first time or again.
HostFlagWait(h, c) ==
  /\ HostLocks(h, "flag_wait")
  /\ hostpc[h] = "relock" => c = want[h]
  /\ flag.direction = "MPU_TO_HOST"
  /\ IF Met(flag.bits, c)
     THEN /\ flag' = [flag EXCEPT !.bits = Consumed(c)]
          /\ want' = [want EXCEPT ![h] = NoCondition]
          /\ HostTo(h, "idle", "none")
     ELSE /\ want' = [want EXCEPT ![h] = c]
          /\ HostTo(h, "testing", "flag_wait")
          /\ UNCHANGED flag
  /\ UNCHANGED sigVars

\* test_any_bits, test_all_bits.
HostFlagTests(h) ==
  /\ HostTests(h, "flag_wait", Met(flag.bits, want[h]))
  /\ UNCHANGED <<sigVars, flagVars>>

\* mars_task_event_flag_destroy.
FlagDestroyable == flag.wait = << >>

FlagCalls ==
  \/ \E t \in Task :
       \/ \E b \in Bit : FlagSet(t, {b})
       \/ FlagSetEvent(t)
       \/ \E c \in Conditions : FlagWait(t, c) \/ FlagWaitBlocks(t, c)
       \/ FlagWaitReturns(t)
  \/ \E h \in Host :
       \/ \E b \in Bit : HostFlagSet(h, {b})
       \/ \E c \in Conditions : HostFlagWait(h, c)
       \/ HostFlagTests(h)

(***************************************************************************)
(* Properties.                                                             *)
(***************************************************************************)
\* A task of the wait list was removed, so the host's set stops at it.
Blocked(i) == \E j \in 1..i : status[flag.wait[j].id] = "gone"

\* Nobody waits for bits that are set: whoever sets the last bit of a
\* condition resumes all tasks that wait for it, those who moved up in the list
\* meanwhile too (task_event_flag.c:88 of the SPU).  A host thread's set
\* reaches only the tasks before one that was removed (task_event_flag.c:170).
FlagNotMissed ==
  \A i \in 1..Len(flag.wait) :
    Met(flag.bits, flag.wait[i].c) => flag.direction = "HOST_TO_MPU" /\ Blocked(i)
=============================================================================
