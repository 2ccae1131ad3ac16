---------------------------- MODULE TaskBarrier ----------------------------
(***************************************************************************)
(* The barrier of MARS tasks (task_barrier.c): notify, then wait.  The     *)
(* object keeps two counts and two wait lists and does not know who called.*)
(* A call that had to wait takes the lock again after its signal and goes  *)
(* on without testing the barrier a second time.                           *)
(*                                                                         *)
(* Every task of Task takes part and calls notify and wait in turn, as     *)
(* task_barrier.h asks.                                                    *)
(***************************************************************************)
EXTENDS TaskSignal, Integers, Sequences, FiniteSets

ASSUME BarrierAssumption == IsFiniteSet(Task) /\ Task # {}

VARIABLES
  barrier,   \* [notified, waited, notify_wait, wait]
  arrived,   \* tasks that have notified and not returned from their wait yet
  passed     \* history: tasks whose wait was counted in this cycle

barVars == <<barrier, arrived, passed>>

\* barrier.total: the tasks the barrier was created for.
total == Cardinality(Task)

BarSet(s) == {s[i] : i \in 1..Len(s)}

BarTypeOK ==
  /\ SigTypeOK
  /\ barrier \in [notified : 0..total, waited : 0..total,
                  notify_wait : Seq(Task), wait : Seq(Task)]
  /\ arrived \subseteq Task /\ passed \subseteq Task

BarInit ==
  /\ barrier = [notified |-> 0, waited |-> 0, notify_wait |-> << >>, wait |-> << >>]
  /\ arrived = {} /\ passed = {}

\* MUTANT of Notified: off by one, the last but one releases the barrier.
NotifiedEarly(t) ==
  /\ arrived' = arrived \union {t}
  /\ IF barrier.notified + 2 >= total
     THEN /\ Send(BarSet(barrier.wait))
          /\ barrier' = [barrier EXCEPT !.notified = @ + 1, !.wait = << >>]
     ELSE /\ barrier' = [barrier EXCEPT !.notified = @ + 1]
          /\ UNCHANGED signal
  /\ UNCHANGED <<news, passed>>

\* The end of notify: counts, and the last one releases the barrier.
Notified(t) ==
  /\ arrived' = arrived \union {t}
  /\ IF barrier.notified + 1 = total
     THEN /\ Send(BarSet(barrier.wait))
          /\ barrier' = [barrier EXCEPT !.notified = @ + 1, !.wait = << >>]
     ELSE /\ barrier' = [barrier EXCEPT !.notified = @ + 1]
          /\ UNCHANGED signal
  /\ UNCHANGED <<news, passed>>

\* notify and try_notify when the previous cycle is over.
Notify(t) ==
  /\ Free(t) /\ t \notin arrived
  /\ barrier.notified # total
  /\ Notified(t)
  /\ UNCHANGED <<status, op>>

\* notify before all have waited; try_notify returns MARS_ERROR_BUSY here, and
\* with a full list both would return MARS_ERROR_LIMIT.
NotifyBlocks(t) ==
  /\ Free(t) /\ t \notin arrived
  /\ barrier.notified = total
  /\ Len(barrier.notify_wait) < total
  /\ barrier' = [barrier EXCEPT !.notify_wait = Append(@, t)]
  /\ Block(t, "notify")
  /\ UNCHANGED <<signal, news, arrived, passed>>

NotifyResumes(t) ==
  /\ Inside(t, "notify")
  /\ Notified(t)
  /\ Continue(t, "none")

\* MUTANT of Waited: the last waiter resets the counts but not the list of
\* those that wait to notify.
WaitedSignalsNobody(t) ==
  /\ arrived' = arrived \ {t}
  /\ IF barrier.waited + 1 = total
     THEN /\ barrier' = [barrier EXCEPT !.notified = 0, !.waited = 0,
                                        !.notify_wait = << >>]
          /\ passed' = {}
          /\ UNCHANGED signal
     ELSE /\ barrier' = [barrier EXCEPT !.waited = @ + 1]
          /\ passed' = passed \union {t}
          /\ UNCHANGED signal
  /\ UNCHANGED news

\* The end of wait: counts, and the last one resets the barrier and lets in
\* those that wait for the next cycle.
Waited(t) ==
  /\ arrived' = arrived \ {t}
  /\ IF barrier.waited + 1 = total
     THEN /\ Send(BarSet(barrier.notify_wait))
          /\ barrier' = [barrier EXCEPT !.notified = 0, !.waited = 0,
                                        !.notify_wait = << >>]
          /\ passed' = {}
     ELSE /\ barrier' = [barrier EXCEPT !.waited = @ + 1]
          /\ passed' = passed \union {t}
          /\ UNCHANGED signal
  /\ UNCHANGED news

\* wait and try_wait when all have notified.
Wait(t) ==
  /\ Free(t) /\ t \in arrived
  /\ barrier.notified = total
  /\ Waited(t)
  /\ UNCHANGED <<status, op>>

WaitBlocks(t) ==
  /\ Free(t) /\ t \in arrived
  /\ barrier.notified # total
  /\ Len(barrier.wait) < total
  /\ barrier' = [barrier EXCEPT !.wait = Append(@, t)]
  /\ Block(t, "barrier_wait")
  /\ UNCHANGED <<signal, news, arrived, passed>>

WaitResumes(t) ==
  /\ Inside(t, "barrier_wait")
  /\ Waited(t)
  /\ Continue(t, "none")

\* mars_task_barrier_destroy refuses while tasks are in the wait list, and does
\* not look at the list of those that wait to notify.
BarrierDestroyable == barrier.wait = << >>

BarCalls ==
  \E t \in Task :
    \/ Notify(t)
    \/ NotifyBlocks(t)
    \/ NotifyResumes(t)
    \/ Wait(t)
    \/ WaitBlocks(t)
    \/ WaitResumes(t)

BarSpec ==
  /\ SigInit /\ BarInit
  /\ [][BarCalls \/ (Kernel /\ UNCHANGED barVars)]_<<sigVars, barVars>>

(***************************************************************************)
(* Two counts and two unordered wake-ups make a barrier in rounds: nobody  *)
(* passes before all tasks have notified, and a task that is resumed late  *)
(* counts in its own round (task_barrier.c:59, 134).                       *)
(***************************************************************************)
Rounds == INSTANCE RoundBarrier

BarrierRounds == Rounds!RoundSpec
=============================================================================
