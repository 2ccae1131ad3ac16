-------------------------- MODULE TaskSignalProofs --------------------------
(***************************************************************************)
(* No news announced with a signal is missed, for any number of tasks that *)
(* use signals.                                                            *)
(***************************************************************************)
EXTENDS TaskSignal, TLAPS

\* Tasks wait inside the signal call only.
InsideWait ==
  \A t \in Task : /\ status[t] \in {"waiting", "resumed"} => op[t] = "signal"
                  /\ op[t] \in {"none", "signal", "try_signal"}

SInv == SigTypeOK /\ InsideWait /\ NewsIsSeen

LEMMA SignalInit == SigInit => SInv
BY DEF SigInit, SInv, SigTypeOK, InsideWait, NewsIsSeen, Ops

\* A step of task t, for which the invariant speaks of nobody else, keeps the
\* invariant if t is left in its type, inside the signal call when it waits, and
\* still to look at its news.
LEMMA OneTask ==
  ASSUME SInv, NEW t \in Task,
         NEW st \in {"running", "waiting", "resumed", "gone"}, NEW sg \in BOOLEAN,
         NEW o \in {"none", "signal", "try_signal"}, NEW nw \in BOOLEAN,
         status' = [status EXCEPT ![t] = st], signal' = [signal EXCEPT ![t] = sg],
         op' = [op EXCEPT ![t] = o], news' = [news EXCEPT ![t] = nw],
         st \in {"waiting", "resumed"} => o = "signal",
         nw => \/ sg
               \/ st = "resumed"
               \/ st = "running" /\ o \in {"signal", "try_signal"}
  PROVE  SInv'
<1>1. /\ status \in [Task -> {"running", "waiting", "resumed", "gone"}]
      /\ signal \in [Task -> BOOLEAN] /\ op \in [Task -> Ops] /\ news \in [Task -> BOOLEAN]
  BY DEF SInv, SigTypeOK
<1>2. o \in Ops
  BY DEF Ops
<1>3. SigTypeOK'
  BY <1>1, <1>2 DEF SigTypeOK
<1>4. /\ status'[t] = st /\ op'[t] = o
      /\ \A u \in Task : u # t => status'[u] = status[u] /\ op'[u] = op[u]
  BY <1>1
<1>5. /\ signal'[t] = sg /\ news'[t] = nw
      /\ \A u \in Task : u # t => signal'[u] = signal[u] /\ news'[u] = news[u]
  BY <1>1
<1>6. InsideWait'
  <2> SUFFICES ASSUME NEW u \in Task
               PROVE  /\ status'[u] \in {"waiting", "resumed"} => op'[u] = "signal"
                      /\ op'[u] \in {"none", "signal", "try_signal"}
    BY DEF InsideWait
  <2>1. CASE u = t  BY <2>1, <1>4
  <2>2. CASE u # t  BY <2>2, <1>4 DEF SInv, InsideWait
  <2> QED BY <2>1, <2>2
<1>7. NewsIsSeen'
  <2> SUFFICES ASSUME NEW u \in Task, news'[u]
               PROVE  \/ signal'[u]
                      \/ status'[u] = "resumed"
                      \/ status'[u] = "running" /\ op'[u] \in {"signal", "try_signal"}
    BY DEF NewsIsSeen, Inside
  <2>1. CASE u = t  BY <2>1, <1>4, <1>5
  <2>2. CASE u # t  BY <2>2, <1>4, <1>5 DEF SInv, NewsIsSeen, Inside
  <2> QED BY <2>1, <2>2
<1> QED BY <1>3, <1>6, <1>7 DEF SInv

\* What the invariant says of one task.
LEMMA OfTask ==
  ASSUME SInv, NEW t \in Task
  PROVE  /\ status[t] \in {"running", "waiting", "resumed", "gone"}
         /\ signal[t] \in BOOLEAN /\ news[t] \in BOOLEAN
         /\ op[t] \in {"none", "signal", "try_signal"}
         /\ status[t] \in {"waiting", "resumed"} => op[t] = "signal"
         /\ news[t] => \/ signal[t]
                       \/ status[t] = "resumed"
                       \/ status[t] = "running" /\ op[t] \in {"signal", "try_signal"}
         /\ status = [status EXCEPT ![t] = status[t]] /\ signal = [signal EXCEPT ![t] = signal[t]]
         /\ op = [op EXCEPT ![t] = op[t]] /\ news = [news EXCEPT ![t] = news[t]]
<1>1. /\ status \in [Task -> {"running", "waiting", "resumed", "gone"}]
      /\ signal \in [Task -> BOOLEAN] /\ op \in [Task -> Ops] /\ news \in [Task -> BOOLEAN]
  BY DEF SInv, SigTypeOK
<1>2. /\ status = [status EXCEPT ![t] = status[t]] /\ signal = [signal EXCEPT ![t] = signal[t]]
      /\ op = [op EXCEPT ![t] = op[t]] /\ news = [news EXCEPT ![t] = news[t]]
  BY <1>1
<1>3. /\ status[t] \in {"running", "waiting", "resumed", "gone"}
      /\ signal[t] \in BOOLEAN /\ news[t] \in BOOLEAN
  BY <1>1
<1> QED BY <1>2, <1>3 DEF SInv, InsideWait, NewsIsSeen, Inside

\* Each step is one task's; whatever it does to the task's signal, the task is
\* still to look at its news.
LEMMA SignalStep ==
  SInv /\ [SignalCalls \/ Kernel \/ \E t \in Task : Remove(t)]_sigVars => SInv'
<1> SUFFICES ASSUME SInv, [SignalCalls \/ Kernel \/ \E t \in Task : Remove(t)]_sigVars
             PROVE  SInv'
  OBVIOUS
<1>1. ASSUME NEW t \in Task, Announce(t) PROVE SInv'
  <2>1. signal' = [u \in Task |-> signal[u] \/ (u = t /\ status[u] # "gone")]
    BY <1>1 DEF Announce, Send
  <2>2. /\ signal \in [Task -> BOOLEAN] /\ signal' \in [Task -> BOOLEAN] /\ signal'[t] = TRUE
        /\ \A u \in Task : u # t => signal'[u] = signal[u]
    BY <1>1, <2>1 DEF Announce, SInv, SigTypeOK
  <2>3. signal' = [signal EXCEPT ![t] = TRUE]
    BY <2>2
  <2>4. news' = [news EXCEPT ![t] = TRUE] /\ status' = status /\ op' = op
    BY <1>1 DEF Announce
  <2>5. /\ status' = [status EXCEPT ![t] = status[t]] /\ op' = [op EXCEPT ![t] = op[t]]
        /\ status[t] \in {"running", "waiting", "resumed", "gone"}
        /\ op[t] \in {"none", "signal", "try_signal"}
        /\ status[t] \in {"waiting", "resumed"} => op[t] = "signal"
    BY <2>4, OfTask
  <2> QED
    BY <2>3, <2>4, <2>5, OneTask
<1>2. ASSUME NEW t \in Task, WaitSignal(t) PROVE SInv'
  <2>1. /\ status' = [status EXCEPT ![t] = "waiting"] /\ op' = [op EXCEPT ![t] = "signal"]
        /\ signal' = signal /\ news' = news /\ status[t] = "running" /\ op[t] = "none"
    BY <1>2 DEF WaitSignal, Block, Free
  <2>2. /\ signal' = [signal EXCEPT ![t] = signal[t]] /\ news' = [news EXCEPT ![t] = news[t]]
        /\ signal[t] \in BOOLEAN /\ news[t] \in BOOLEAN /\ (news[t] => signal[t])
    BY <2>1, OfTask
  <2> QED
    BY <2>1, <2>2, OneTask
<1>3. ASSUME NEW t \in Task, WaitSignalReturns(t) PROVE SInv'
  <2>1. /\ op' = [op EXCEPT ![t] = "none"] /\ news' = [news EXCEPT ![t] = FALSE]
        /\ signal' = signal /\ status' = status /\ status[t] = "running"
    BY <1>3 DEF WaitSignalReturns, Continue, Inside
  <2>2. /\ signal' = [signal EXCEPT ![t] = signal[t]] /\ status' = [status EXCEPT ![t] = status[t]]
        /\ signal[t] \in BOOLEAN
    BY <2>1, OfTask
  <2> QED
    BY <2>1, <2>2, OneTask
<1>4. ASSUME NEW t \in Task, TryWaitSignal(t) PROVE SInv'
  <2>1. /\ op' = [op EXCEPT ![t] = "try_signal"] /\ status[t] = "running"
        /\ signal' = signal /\ status' = status /\ news' = news
    BY <1>4 DEF TryWaitSignal, Continue, Free
  <2>2. /\ signal' = [signal EXCEPT ![t] = signal[t]] /\ status' = [status EXCEPT ![t] = status[t]]
        /\ news' = [news EXCEPT ![t] = news[t]] /\ signal[t] \in BOOLEAN /\ news[t] \in BOOLEAN
    BY <2>1, OfTask
  <2> QED
    BY <2>1, <2>2, OneTask
<1>5. ASSUME NEW t \in Task, TryResetSignal(t) PROVE SInv'
  <2>1. /\ op' = [op EXCEPT ![t] = "signal"] /\ signal' = [signal EXCEPT ![t] = FALSE]
        /\ status' = status /\ news' = news /\ status[t] = "running"
    BY <1>5 DEF TryResetSignal, Continue, Inside
  <2>2. /\ status' = [status EXCEPT ![t] = status[t]] /\ news' = [news EXCEPT ![t] = news[t]]
        /\ news[t] \in BOOLEAN
    BY <2>1, OfTask
  <2> QED
    BY <2>1, <2>2, OneTask
<1>6. ASSUME NEW t \in Task, Wake(t) PROVE SInv'
  <2>1. /\ status' = [status EXCEPT ![t] = "resumed"] /\ signal' = [signal EXCEPT ![t] = FALSE]
        /\ op' = op /\ news' = news /\ status[t] = "waiting"
    BY <1>6 DEF Wake
  <2>2. /\ op' = [op EXCEPT ![t] = op[t]] /\ news' = [news EXCEPT ![t] = news[t]]
        /\ op[t] = "signal" /\ news[t] \in BOOLEAN
    BY <2>1, OfTask
  <2> QED
    BY <2>1, <2>2, OneTask
<1>7. ASSUME NEW t \in Task, ResetSignal(t) PROVE SInv'
  <2>1. /\ status' = [status EXCEPT ![t] = "running"] /\ signal' = [signal EXCEPT ![t] = FALSE]
        /\ op' = op /\ news' = news /\ status[t] = "resumed"
    BY <1>7 DEF ResetSignal
  <2>2. /\ op' = [op EXCEPT ![t] = op[t]] /\ news' = [news EXCEPT ![t] = news[t]]
        /\ op[t] = "signal" /\ news[t] \in BOOLEAN
    BY <2>1, OfTask
  <2> QED
    BY <2>1, <2>2, OneTask
<1>8. ASSUME NEW t \in Task, Remove(t) PROVE SInv'
  <2>1. /\ status' = [status EXCEPT ![t] = "gone"] /\ UNCHANGED <<signal, op, news>>
        /\ status[t] = "waiting"
    BY <1>8 DEF Remove
  <2>2. /\ signal' = [signal EXCEPT ![t] = signal[t]] /\ op' = [op EXCEPT ![t] = op[t]]
        /\ news' = [news EXCEPT ![t] = news[t]] /\ signal[t] \in BOOLEAN /\ news[t] \in BOOLEAN
        /\ op[t] = "signal" /\ (news[t] => signal[t])
    BY <2>1, OfTask
  <2> QED
    BY <2>1, <2>2, OneTask
<1>9. CASE UNCHANGED sigVars
  BY <1>9 DEF sigVars, SInv, SigTypeOK, InsideWait, NewsIsSeen, Inside
<1> QED
  BY <1>1, <1>2, <1>3, <1>4, <1>5, <1>6, <1>7, <1>8, <1>9 DEF SignalCalls, Kernel

\* What is announced with a signal is seen, although a wait that was resumed
\* resets the signal once more (task_module.c:238): the reset comes before the
\* task looks at its news.
THEOREM SignalledNewsIsSeen == SigSpec => []NewsIsSeen
<1>1. SInv => NewsIsSeen
  BY DEF SInv
<1> QED
  BY <1>1, SignalInit, SignalStep, PTL DEF SigSpec
=============================================================================
