--------------------------- MODULE TaskSemaphore ---------------------------
(***************************************************************************)
(* The counting semaphore of MARS tasks (task_semaphore.c).  Each call     *)
(* works on a copy of the semaphore between lock_get and unlock_put of its *)
(* mutex, which MarsMutex shows to be exclusive, so the locked part of a   *)
(* call is one step.                                                       *)
(*                                                                         *)
(* A release that finds a waiter keeps the permit and signals the waiter,  *)
(* who goes on when it is resumed and never looks at the semaphore again:  *)
(* the signal is the permit.                                               *)
(*                                                                         *)
(* Tasks call acquire and release in pairs, as task_semaphore.h asks.      *)
(***************************************************************************)
EXTENDS TaskSignal, Integers, Sequences, FiniteSets

CONSTANTS
  SEMAPHORE_WAIT_MAX,  \* MARS_TASK_SEMAPHORE_WAIT_MAX: places in the wait list
  SemCounts            \* the counts a semaphore may be created with

ASSUME SemAssumption ==
  /\ IsFiniteSet(Task)
  /\ SEMAPHORE_WAIT_MAX \in Nat \ {0}
  /\ SemCounts \subseteq Int

VARIABLES
  sem,        \* [count, wait]: the wait ring as the sequence of ids in it
  permits,    \* the count the semaphore was created with
  holding     \* tasks that acquired a permit and have not released it

semVars == <<sem, permits, holding>>

SemSet(s) == {s[i] : i \in 1..Len(s)}

SemTypeOK ==
  /\ SigTypeOK
  /\ permits \in SemCounts
  /\ sem \in [count : Int, wait : Seq(Task)]
  /\ Len(sem.wait) <= SEMAPHORE_WAIT_MAX
  /\ holding \subseteq Task

SemInit ==
  /\ permits \in SemCounts
  /\ sem = [count |-> permits, wait |-> << >>]
  /\ holding = {}

\* mars_task_semaphore_acquire, by a task that holds no permit yet.  With a
\* full wait list it returns MARS_ERROR_LIMIT and changes nothing.
Acquire(t) ==
  /\ Free(t) /\ t \notin holding
  /\ Len(sem.wait) < SEMAPHORE_WAIT_MAX
  /\ sem.count > 0
  /\ sem' = [sem EXCEPT !.count = @ - 1]
  /\ holding' = holding \union {t}
  /\ UNCHANGED <<sigVars, permits>>

AcquireBlocks(t) ==
  /\ Free(t) /\ t \notin holding
  /\ Len(sem.wait) < SEMAPHORE_WAIT_MAX
  /\ sem.count <= 0
  /\ sem' = [sem EXCEPT !.wait = Append(@, t)]
  /\ Block(t, "acquire")
  /\ UNCHANGED <<signal, news, permits, holding>>

\* The call returns success after the signal, whatever the semaphore holds.
AcquireReturns(t) ==
  /\ Inside(t, "acquire")
  /\ Continue(t, "none")
  /\ holding' = holding \union {t}
  /\ UNCHANGED <<signal, news, sem, permits>>

\* MUTANT of Release: the count is not taken back for the waiter that is
\* signalled.
ReleaseKeepsCount(t) ==
  /\ Free(t) /\ t \in holding
  /\ holding' = holding \ {t}
  /\ IF sem.count + 1 > 0 /\ sem.wait # << >>
     THEN /\ Send({Head(sem.wait)})
          /\ sem' = [count |-> sem.count + 1, wait |-> Tail(sem.wait)]
     ELSE /\ sem' = [sem EXCEPT !.count = @ + 1]
          /\ UNCHANGED signal
  /\ UNCHANGED <<status, op, news, permits>>

\* mars_task_semaphore_release: counts up, and hands the permit to the task
\* that waits longest if there is one.
Release(t) ==
  /\ Free(t) /\ t \in holding
  /\ holding' = holding \ {t}
  /\ IF sem.count + 1 > 0 /\ sem.wait # << >>
     THEN /\ Send({Head(sem.wait)})
          /\ sem' = [sem EXCEPT !.wait = Tail(@)]
     ELSE /\ sem' = [sem EXCEPT !.count = @ + 1]
          /\ UNCHANGED signal
  /\ UNCHANGED <<status, op, news, permits>>

\* mars_task_semaphore_destroy refuses while tasks are in the wait list.
SemaphoreDestroyable == sem.wait = << >>

SemCalls ==
  \E t \in Task :
    \/ Acquire(t)
    \/ AcquireBlocks(t)
    \/ AcquireReturns(t)
    \/ Release(t)

(***************************************************************************)
(* A semaphore used on its own.                                            *)
(***************************************************************************)
SemSpec ==
  /\ SigInit /\ SemInit
  /\ [][SemCalls \/ (Kernel /\ UNCHANGED semVars)]_<<sigVars, semVars>>

\* Tasks that were signalled in acquire and have not returned from it yet.
Granted == {t \in Task : op[t] = "acquire" /\ t \notin SemSet(sem.wait)}

(***************************************************************************)
(* The semaphore admits as many tasks as it was created for: the tasks     *)
(* that hold a permit, those that have been handed one and the count add   *)
(* up to the initial count.  An acquirer never rechecks the semaphore      *)
(* (task_semaphore.c:49), so this needs every signal it may take for a     *)
(* permit to be one.                                                       *)
(***************************************************************************)
SemaphoreExact == sem.count + Cardinality(holding \union Granted) = permits
=============================================================================
