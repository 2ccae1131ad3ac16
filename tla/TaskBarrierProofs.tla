------------------------- MODULE TaskBarrierProofs -------------------------
(***************************************************************************)
(* The barrier of task_barrier.c goes in rounds, for any number of tasks.  *)
(***************************************************************************)
EXTENDS TaskBarrier, FiniteSetTheorems, TLAPS

bvars == <<sigVars, barVars>>

BarNext == BarCalls \/ (Kernel /\ UNCHANGED barVars)

All == arrived \union passed

\* The two counts are what the barrier knows of the round.
Counted ==
  /\ barrier.notified = Cardinality(All)
  /\ barrier.waited = Cardinality(passed)
  /\ arrived \intersect passed = {}
  /\ passed # Task
  /\ passed # {} => All = Task

\* Who waits to notify has passed this round; who was let in has not arrived.
NotifyListed ==
  \A t \in Task :
    /\ t \in BarSet(barrier.notify_wait) =>
         op[t] = "notify" /\ status[t] = "waiting" /\ ~signal[t] /\ t \in passed
    /\ op[t] = "notify" /\ t \notin BarSet(barrier.notify_wait) => t \notin All

\* Who is in the wait list has arrived before the others; who was released may pass.
WaitListed ==
  \A t \in Task :
    /\ t \in BarSet(barrier.wait) =>
         op[t] = "barrier_wait" /\ status[t] = "waiting" /\ ~signal[t] /\ t \in arrived /\ All # Task
    /\ op[t] = "barrier_wait" /\ t \notin BarSet(barrier.wait) => t \in arrived /\ All = Task

\* Only tasks that sleep have a signal.
BarQuiet == \A t \in Task : signal[t] => status[t] = "waiting"

BarInv == BarTypeOK /\ Counted /\ NotifyListed /\ WaitListed /\ BarQuiet

-----------------------------------------------------------------------------
LEMMA CountFull ==
  ASSUME NEW S \in SUBSET Task
  PROVE  /\ IsFiniteSet(S) /\ Cardinality(S) \in Nat /\ total \in Nat
         /\ Cardinality(S) <= total
         /\ Cardinality(S) = total <=> S = Task
         /\ \A t \in Task : t \notin S => Cardinality(S \union {t}) = Cardinality(S) + 1
BY BarrierAssumption, FS_Subset, FS_CardinalityType, FS_AddElement DEF total

LEMMA BarSetAppend ==
  ASSUME NEW s \in Seq(Task), NEW t \in Task
  PROVE  /\ BarSet(Append(s, t)) = BarSet(s) \union {t}
         /\ Append(s, t) \in Seq(Task)
<1>1. Len(Append(s, t)) = Len(s) + 1 /\ Len(s) \in Nat /\ Append(s, t) \in Seq(Task)
  OBVIOUS
<1>2. \A i \in 1..Len(s) : Append(s, t)[i] = s[i]
  OBVIOUS
<1>3. Append(s, t)[Len(s) + 1] = t
  OBVIOUS
<1>4. 1..(Len(s) + 1) = 1..Len(s) \union {Len(s) + 1}
  BY <1>1
<1> QED
  BY <1>1, <1>2, <1>3, <1>4 DEF BarSet

LEMMA BarSetEmpty == BarSet(<< >>) = {} /\ << >> \in Seq(Task)
  BY DEF BarSet

\* What the last of the two counts does to the object, for the empty list e.
LEMMA BarRecord ==
  ASSUME BarTypeOK, NEW e \in Seq(Task), NEW n \in 0..total, total \in Nat
  PROVE  LET full  == [barrier EXCEPT !.notified = n, !.wait = e]
             fresh == [barrier EXCEPT !.notified = 0, !.waited = 0, !.notify_wait = e]
             Obj   == [notified : 0..total, waited : 0..total,
                       notify_wait : Seq(Task), wait : Seq(Task)]
         IN  /\ full \in Obj /\ full.notified = n /\ full.waited = barrier.waited
             /\ full.notify_wait = barrier.notify_wait /\ full.wait = e
             /\ fresh \in Obj /\ fresh.notified = 0 /\ fresh.waited = 0
             /\ fresh.notify_wait = e /\ fresh.wait = barrier.wait
<1>1. ASSUME NEW N, NEW S, NEW b \in [notified : N, waited : N, notify_wait : S, wait : S],
             NEW x \in N, NEW z \in N, NEW q \in S
      PROVE  LET f == [b EXCEPT !.notified = x, !.wait = q]
                 g == [b EXCEPT !.notified = z, !.waited = z, !.notify_wait = q]
             IN  /\ f \in [notified : N, waited : N, notify_wait : S, wait : S]
                 /\ f.notified = x /\ f.waited = b.waited
                 /\ f.notify_wait = b.notify_wait /\ f.wait = q
                 /\ g \in [notified : N, waited : N, notify_wait : S, wait : S]
                 /\ g.notified = z /\ g.waited = z
                 /\ g.notify_wait = q /\ g.wait = b.wait
  OBVIOUS
<1>2. 0 \in 0..total
  OBVIOUS
<1>3. barrier \in [notified : 0..total, waited : 0..total,
                  notify_wait : Seq(Task), wait : Seq(Task)]
  BY DEF BarTypeOK
<1> QED
  BY <1>1, <1>2, <1>3

LEMMA BarInitial == SigInit /\ BarInit => BarInv /\ Rounds!RoundInit
<1> SUFFICES ASSUME SigInit, BarInit PROVE BarInv /\ Rounds!RoundInit
  OBVIOUS
<1>1. All = {} /\ Cardinality({}) = 0 /\ Task # {} /\ total \in Nat
  BY FS_EmptySet, BarrierAssumption, CountFull DEF BarInit, All
<1>2. BarTypeOK
  BY <1>1, BarSetEmpty DEF SigInit, BarInit, BarTypeOK, SigTypeOK, Ops
<1>3. Counted /\ NotifyListed /\ WaitListed /\ BarQuiet
  BY <1>1, BarSetEmpty DEF SigInit, BarInit, Counted, NotifyListed, WaitListed, BarQuiet
<1> QED
  BY <1>2, <1>3 DEF BarInv, BarInit, Rounds!RoundInit

-----------------------------------------------------------------------------
(* The ends of the two calls, whatever op becomes (o): a task that has not *)
(* arrived counts in, a task that has arrived and may pass counts out.     *)

LEMMA NotifiedStep ==
  ASSUME BarInv, NEW t \in Task, t \notin All, Notified(t),
         status' = status, status[t] = "running",
         op' = [op EXCEPT ![t] = "none"]
  PROVE  BarInv' /\ Rounds!Arrive(t)
<1> USE DEF BarInv
<1>1. All \subseteq Task /\ passed \subseteq Task
  BY DEF All, BarTypeOK
<1>2. /\ barrier.notified \in Nat /\ barrier.notified + 1 = Cardinality(All \union {t})
      /\ barrier.notified + 1 <= total /\ total \in Nat
      /\ barrier.notified + 1 = total <=> All \union {t} = Task
  BY <1>1, CountFull DEF Counted
<1>3. All' = All \union {t} /\ arrived' = arrived \union {t} /\ passed' = passed
  BY DEF All, Notified
<1>4. passed = {}
  BY DEF Counted
<1>5. \A u \in Task : op'[u] = IF u = t THEN "none" ELSE op[u]
  BY DEF BarTypeOK, SigTypeOK
<1>6. t \notin BarSet(barrier.notify_wait) /\ t \notin BarSet(barrier.wait)
  BY DEF NotifyListed, WaitListed
<1>7. Rounds!Arrive(t)
  BY <1>3 DEF Rounds!Arrive, All, Notified
<1>8. CASE barrier.notified + 1 = total
  <2>1. /\ barrier' = [barrier EXCEPT !.notified = @ + 1, !.wait = << >>]
        /\ Send(BarSet(barrier.wait))
    BY <1>8 DEF Notified
  <2>2. /\ barrier'.notified = barrier.notified + 1 /\ barrier'.waited = barrier.waited
        /\ barrier'.notify_wait = barrier.notify_wait /\ barrier'.wait = << >>
        /\ barrier' \in [notified : 0..total, waited : 0..total,
                         notify_wait : Seq(Task), wait : Seq(Task)]
    <3>1. barrier.notified + 1 \in 0..total
      BY <1>2
    <3>2. barrier' = [barrier EXCEPT !.notified = barrier.notified + 1, !.wait = << >>]
      BY <2>1
    <3> QED
      BY <3>1, <3>2, <1>2, BarSetEmpty, BarRecord
  <2>3. /\ signal' \in [Task -> BOOLEAN]
        /\ \A u \in Task : signal'[u] <=> signal[u] \/ u \in BarSet(barrier.wait)
    BY <2>1 DEF Send, WaitListed, BarTypeOK, SigTypeOK
  <2>4. BarTypeOK'
    BY <1>3, <2>2, <2>3, <1>5 DEF BarTypeOK, SigTypeOK, Ops, Notified
  <2>5. Counted'
    BY <1>2, <1>3, <1>4, <2>2, <1>8 DEF Counted
  <2>6. NotifyListed'
    BY <1>3, <1>4, <1>5, <1>6, <2>2, <2>3 DEF NotifyListed
  <2>7. WaitListed'
    BY <1>2, <1>3, <1>5, <1>8, <2>2, BarSetEmpty DEF WaitListed
  <2>8. BarQuiet'
    BY <2>3 DEF BarQuiet, WaitListed
  <2> QED
    BY <1>7, <2>4, <2>5, <2>6, <2>7, <2>8
<1>9. CASE barrier.notified + 1 # total
  <2>1. barrier' = [barrier EXCEPT !.notified = @ + 1] /\ signal' = signal
    BY <1>9 DEF Notified
  <2>2. /\ barrier'.notified = barrier.notified + 1 /\ barrier'.waited = barrier.waited
        /\ barrier'.notify_wait = barrier.notify_wait /\ barrier'.wait = barrier.wait
        /\ barrier' \in [notified : 0..total, waited : 0..total,
                         notify_wait : Seq(Task), wait : Seq(Task)]
    BY <2>1, <1>2 DEF BarTypeOK
  <2>3. BarTypeOK'
    BY <1>3, <2>1, <2>2, <1>5 DEF BarTypeOK, SigTypeOK, Ops, Notified
  <2>4. Counted'
    BY <1>2, <1>3, <1>4, <2>2 DEF Counted
  <2>5. NotifyListed'
    BY <1>3, <1>4, <1>5, <1>6, <2>1, <2>2 DEF NotifyListed
  <2>6. WaitListed'
    BY <1>2, <1>3, <1>5, <1>6, <1>9, <2>1, <2>2, <1>1 DEF WaitListed
  <2>7. BarQuiet'
    BY <2>1 DEF BarQuiet
  <2> QED
    BY <1>7, <2>3, <2>4, <2>5, <2>6, <2>7
<1> QED
  BY <1>8, <1>9

LEMMA WaitedStep ==
  ASSUME BarInv, NEW t \in Task, t \in arrived, All = Task, Waited(t),
         status' = status, status[t] = "running",
         op' = [op EXCEPT ![t] = "none"]
  PROVE  BarInv' /\ Rounds!Pass(t)
<1> USE DEF BarInv
<1>1. passed \subseteq Task /\ t \notin passed
  BY DEF BarTypeOK, Counted
<1>2. /\ barrier.waited \in Nat /\ barrier.waited + 1 = Cardinality(passed \union {t})
      /\ barrier.waited + 1 <= total /\ total \in Nat
      /\ barrier.waited + 1 = total <=> passed \union {t} = Task
  BY <1>1, CountFull DEF Counted
<1>3. arrived' = arrived \ {t}
  BY DEF Waited
<1>4. passed' = IF passed \union {t} = Task THEN {} ELSE passed \union {t}
  BY <1>2 DEF Waited
<1>5. \A u \in Task : op'[u] = IF u = t THEN "none" ELSE op[u]
  BY DEF BarTypeOK, SigTypeOK
<1>6. t \notin BarSet(barrier.notify_wait)
  BY DEF NotifyListed
<1>7. BarSet(barrier.wait) \intersect Task = {}
  BY DEF WaitListed
<1>8. Rounds!Pass(t)
  BY <1>3, <1>4 DEF Rounds!Pass, All
<1>9. \A u \in Task : op[u] = "notify" => u \in BarSet(barrier.notify_wait)
  BY DEF NotifyListed
<1>10. \A u \in Task : op[u] = "barrier_wait" => u \in arrived
  BY DEF WaitListed
<1>11. CASE barrier.waited + 1 = total
  <2>1. /\ barrier' = [barrier EXCEPT !.notified = 0, !.waited = 0, !.notify_wait = << >>]
        /\ Send(BarSet(barrier.notify_wait))
    BY <1>11 DEF Waited
  <2>2. /\ barrier'.notified = 0 /\ barrier'.waited = 0
        /\ barrier'.notify_wait = << >> /\ barrier'.wait = barrier.wait
        /\ barrier' \in [notified : 0..total, waited : 0..total,
                         notify_wait : Seq(Task), wait : Seq(Task)]
    <3>1. 0 \in 0..total
      BY <1>2
    <3> QED
      BY <3>1, <2>1, <1>2, BarSetEmpty, BarRecord
  <2>3. /\ signal' \in [Task -> BOOLEAN]
        /\ \A u \in Task : signal'[u] <=> signal[u] \/ u \in BarSet(barrier.notify_wait)
    BY <2>1 DEF Send, NotifyListed, BarTypeOK, SigTypeOK
  <2>4. arrived = {t} /\ arrived' = {} /\ passed' = {} /\ All' = {}
    BY <1>2, <1>3, <1>4, <1>11 DEF Counted, BarTypeOK, All
  <2>5. BarTypeOK'
    BY <2>2, <2>3, <2>4, <1>5 DEF BarTypeOK, SigTypeOK, Ops, Waited
  <2>6. Counted'
    BY <2>2, <2>4, FS_EmptySet, BarrierAssumption DEF Counted
  <2>7. NotifyListed'
    BY <2>2, <2>4, BarSetEmpty DEF NotifyListed
  <2>8. WaitListed'
    BY <1>5, <1>7, <1>10, <2>2, <2>4 DEF WaitListed
  <2>9. BarQuiet'
    BY <2>3 DEF BarQuiet, NotifyListed
  <2> QED
    BY <1>8, <2>5, <2>6, <2>7, <2>8, <2>9
<1>12. CASE barrier.waited + 1 # total
  <2>1. barrier' = [barrier EXCEPT !.waited = @ + 1] /\ signal' = signal
    BY <1>12 DEF Waited
  <2>2. /\ barrier'.notified = barrier.notified /\ barrier'.waited = barrier.waited + 1
        /\ barrier'.notify_wait = barrier.notify_wait /\ barrier'.wait = barrier.wait
        /\ barrier' \in [notified : 0..total, waited : 0..total,
                         notify_wait : Seq(Task), wait : Seq(Task)]
    BY <2>1, <1>2 DEF BarTypeOK
  <2>3. passed' = passed \union {t} /\ passed' # Task /\ All' = Task /\ All' = All
    BY <1>2, <1>3, <1>4, <1>12 DEF All
  <2>4. BarTypeOK'
    BY <1>1, <1>3, <2>1, <2>2, <2>3, <1>5 DEF BarTypeOK, SigTypeOK, Ops, Waited
  <2>5. Counted'
    BY <1>2, <1>3, <2>2, <2>3 DEF Counted
  <2>6. NotifyListed'
    BY <1>5, <1>6, <1>9, <2>1, <2>2, <2>3 DEF NotifyListed
  <2>7. WaitListed'
    BY <1>3, <1>5, <1>7, <1>10, <2>1, <2>2, <2>3 DEF WaitListed
  <2>8. BarQuiet'
    BY <2>1 DEF BarQuiet
  <2> QED
    BY <1>8, <2>4, <2>5, <2>6, <2>7, <2>8
<1> QED
  BY <1>11, <1>12

-----------------------------------------------------------------------------
(* Going to sleep, and being woken.                                        *)

LEMMA NotifyBlocksStep ==
  ASSUME BarInv, NEW t \in Task, NotifyBlocks(t)
  PROVE  BarInv' /\ UNCHANGED <<arrived, passed>>
<1> USE DEF BarInv
<1>1. /\ barrier'.notified = barrier.notified /\ barrier'.waited = barrier.waited
      /\ barrier'.notify_wait = Append(barrier.notify_wait, t)
      /\ barrier'.wait = barrier.wait
      /\ barrier' \in [notified : 0..total, waited : 0..total,
                       notify_wait : Seq(Task), wait : Seq(Task)]
      /\ barrier.notify_wait \in Seq(Task)
  BY BarSetAppend DEF NotifyBlocks, BarTypeOK
<1>2. BarSet(barrier'.notify_wait) = BarSet(barrier.notify_wait) \union {t}
  BY <1>1, BarSetAppend
<1>3. \A u \in Task : /\ op'[u] = IF u = t THEN "notify" ELSE op[u]
                      /\ status'[u] = IF u = t THEN "waiting" ELSE status[u]
  BY DEF NotifyBlocks, Block, BarTypeOK, SigTypeOK
<1>4. signal' = signal /\ arrived' = arrived /\ passed' = passed /\ All' = All
  BY DEF NotifyBlocks, All
<1>5. All = Task /\ t \in passed
  <2>1. All \subseteq Task
    BY DEF All, BarTypeOK
  <2> QED
    BY <2>1, CountFull DEF NotifyBlocks, Counted, All
<1>6. ~signal[t] /\ t \notin BarSet(barrier.wait)
  BY DEF NotifyBlocks, Free, BarQuiet, WaitListed
<1>7. BarTypeOK'
  BY <1>1, <1>4 DEF BarTypeOK, SigTypeOK, NotifyBlocks, Block, Ops
<1>8. Counted' /\ BarQuiet'
  BY <1>1, <1>3, <1>4 DEF Counted, BarQuiet
<1>9. NotifyListed'
  BY <1>2, <1>3, <1>4, <1>5, <1>6 DEF NotifyListed
<1>10. WaitListed'
  BY <1>1, <1>3, <1>4, <1>6 DEF WaitListed
<1> QED
  BY <1>4, <1>7, <1>8, <1>9, <1>10

LEMMA WaitBlocksStep ==
  ASSUME BarInv, NEW t \in Task, WaitBlocks(t)
  PROVE  BarInv' /\ UNCHANGED <<arrived, passed>>
<1> USE DEF BarInv
<1>1. /\ barrier'.notified = barrier.notified /\ barrier'.waited = barrier.waited
      /\ barrier'.notify_wait = barrier.notify_wait
      /\ barrier'.wait = Append(barrier.wait, t)
      /\ barrier' \in [notified : 0..total, waited : 0..total,
                       notify_wait : Seq(Task), wait : Seq(Task)]
      /\ barrier.wait \in Seq(Task)
  BY BarSetAppend DEF WaitBlocks, BarTypeOK
<1>2. BarSet(barrier'.wait) = BarSet(barrier.wait) \union {t}
  BY <1>1, BarSetAppend
<1>3. \A u \in Task : /\ op'[u] = IF u = t THEN "barrier_wait" ELSE op[u]
                      /\ status'[u] = IF u = t THEN "waiting" ELSE status[u]
  BY DEF WaitBlocks, Block, BarTypeOK, SigTypeOK
<1>4. signal' = signal /\ arrived' = arrived /\ passed' = passed /\ All' = All
  BY DEF WaitBlocks, All
<1>5. All # Task /\ t \in arrived
  <2>1. All \subseteq Task
    BY DEF All, BarTypeOK
  <2> QED
    BY <2>1, CountFull DEF WaitBlocks, Counted
<1>6. ~signal[t] /\ t \notin BarSet(barrier.notify_wait)
  BY DEF WaitBlocks, Free, BarQuiet, NotifyListed
<1>7. BarTypeOK'
  BY <1>1, <1>4 DEF BarTypeOK, SigTypeOK, WaitBlocks, Block, Ops
<1>8. Counted' /\ BarQuiet'
  BY <1>1, <1>3, <1>4 DEF Counted, BarQuiet
<1>9. WaitListed'
  BY <1>2, <1>3, <1>4, <1>5, <1>6 DEF WaitListed
<1>10. NotifyListed'
  BY <1>1, <1>3, <1>4, <1>6 DEF NotifyListed
<1> QED
  BY <1>4, <1>7, <1>8, <1>9, <1>10

LEMMA BarKernelStep ==
  ASSUME BarInv, NEW t \in Task, Wake(t) \/ ResetSignal(t), UNCHANGED barVars
  PROVE  BarInv' /\ UNCHANGED <<arrived, passed>>
<1> USE DEF BarInv
<1>1. op' = op /\ barrier' = barrier /\ arrived' = arrived /\ passed' = passed /\ All' = All
  BY DEF Wake, ResetSignal, barVars, All
<1>2. t \notin BarSet(barrier.notify_wait) /\ t \notin BarSet(barrier.wait)
  BY DEF NotifyListed, WaitListed, Wake, ResetSignal
<1>3. \A u \in Task : /\ u # t => signal'[u] = signal[u] /\ status'[u] = status[u]
                      /\ ~signal'[t]
  BY DEF Wake, ResetSignal, BarTypeOK, SigTypeOK
<1>4. BarTypeOK'
  BY <1>1 DEF BarTypeOK, SigTypeOK, Wake, ResetSignal
<1>5. Counted' /\ BarQuiet'
  BY <1>1, <1>3 DEF Counted, BarQuiet
<1>6. NotifyListed' /\ WaitListed'
  BY <1>1, <1>2, <1>3 DEF NotifyListed, WaitListed
<1> QED
  BY <1>1, <1>4, <1>5, <1>6

LEMMA BarCallStep ==
  ASSUME BarInv, NEW t \in Task,
         \/ Notify(t) \/ NotifyBlocks(t) \/ NotifyResumes(t)
         \/ Wait(t) \/ WaitBlocks(t) \/ WaitResumes(t)
  PROVE  BarInv' /\ [Rounds!RoundNext]_<<arrived, passed>>
<1> USE DEF BarInv
<1>1. All \subseteq Task
  BY DEF All, BarTypeOK
<1>2. CASE Notify(t)
  <2>1. t \notin All
    BY <1>1, <1>2, CountFull DEF Notify, Counted, All
  <2>2. status' = status /\ status[t] = "running" /\ op' = [op EXCEPT ![t] = "none"]
    BY <1>2 DEF Notify, Free, BarTypeOK, SigTypeOK
  <2> QED
    BY <1>2, <2>1, <2>2, NotifiedStep DEF Notify, Rounds!RoundNext
<1>3. CASE NotifyBlocks(t)
  BY <1>3, NotifyBlocksStep
<1>4. CASE NotifyResumes(t)
  <2>1. t \notin All
    BY <1>4 DEF NotifyResumes, Inside, NotifyListed
  <2>2. status' = status /\ status[t] = "running" /\ op' = [op EXCEPT ![t] = "none"]
    BY <1>4 DEF NotifyResumes, Inside, Continue
  <2> QED
    BY <1>4, <2>1, <2>2, NotifiedStep DEF NotifyResumes, Rounds!RoundNext
<1>5. CASE Wait(t)
  <2>1. t \in arrived /\ All = Task
    BY <1>1, <1>5, CountFull DEF Wait, Counted
  <2>2. status' = status /\ status[t] = "running" /\ op' = [op EXCEPT ![t] = "none"]
    BY <1>5 DEF Wait, Free, BarTypeOK, SigTypeOK
  <2> QED
    BY <1>5, <2>1, <2>2, WaitedStep DEF Wait, Rounds!RoundNext
<1>6. CASE WaitBlocks(t)
  BY <1>6, WaitBlocksStep
<1>7. CASE WaitResumes(t)
  <2>1. t \in arrived /\ All = Task
    BY <1>7 DEF WaitResumes, Inside, WaitListed
  <2>2. status' = status /\ status[t] = "running" /\ op' = [op EXCEPT ![t] = "none"]
    BY <1>7 DEF WaitResumes, Inside, Continue
  <2> QED
    BY <1>7, <2>1, <2>2, WaitedStep DEF WaitResumes, Rounds!RoundNext
<1> QED
  BY <1>2, <1>3, <1>4, <1>5, <1>6, <1>7

LEMMA BarInductive ==
  BarInv /\ [BarNext]_bvars => BarInv' /\ [Rounds!RoundNext]_<<arrived, passed>>
<1> SUFFICES ASSUME BarInv, [BarNext]_bvars
             PROVE  BarInv' /\ [Rounds!RoundNext]_<<arrived, passed>>
  OBVIOUS
<1>1. CASE BarCalls
  BY <1>1, BarCallStep DEF BarCalls
<1>2. CASE Kernel /\ UNCHANGED barVars
  BY <1>2, BarKernelStep DEF Kernel
<1>3. CASE UNCHANGED bvars
  BY <1>3 DEF bvars, sigVars, barVars, BarInv, BarTypeOK, SigTypeOK, Counted, NotifyListed,
              WaitListed, BarQuiet, All
<1> QED
  BY <1>1, <1>2, <1>3 DEF BarNext

(***************************************************************************)
(* The barrier implements the rounds: in each, every task arrives once,    *)
(* nobody passes before all have arrived, and the next begins when all     *)
(* have passed, although a resumed task counts without a test              *)
(* (task_barrier.c).                                                       *)
(***************************************************************************)
THEOREM BarrierGoesInRounds == BarSpec => BarrierRounds
<1>1. BarInv /\ [BarNext]_bvars => BarInv'
  BY BarInductive
<1>2. BarInv /\ [BarNext]_bvars => [Rounds!RoundNext]_<<arrived, passed>>
  BY BarInductive
<1> QED
  BY <1>1, <1>2, BarInitial, PTL DEF BarSpec, BarNext, bvars, BarrierRounds, Rounds!RoundSpec
=============================================================================
