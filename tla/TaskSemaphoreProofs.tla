------------------------ MODULE TaskSemaphoreProofs ------------------------
(***************************************************************************)
(* A semaphore used on its own admits exactly as many tasks as it was      *)
(* created for: for any tasks, any wait limit and any initial count.       *)
(***************************************************************************)
EXTENDS TaskSemaphore, FiniteSetTheorems, TLAPS

svars == <<sigVars, semVars>>

SemNext == SemCalls \/ (Kernel /\ UNCHANGED semVars)

\* A task is in the wait list once.
Distinct ==
  \A i, j \in 1..Len(sem.wait) : i # j => sem.wait[i] # sem.wait[j]

\* It sleeps in acquire, and nobody has signalled it.
SemListed ==
  \A t \in SemSet(sem.wait) : op[t] = "acquire" /\ status[t] = "waiting" /\ ~signal[t]

\* Only tasks that sleep have a signal, and who acquires holds nothing.
SemQuiet ==
  \A t \in Task : /\ signal[t] => status[t] = "waiting"
                  /\ op[t] = "acquire" => t \notin holding

SemInv == SemTypeOK /\ Distinct /\ SemListed /\ SemQuiet /\ SemaphoreExact

-----------------------------------------------------------------------------
(* The wait list.                                                          *)

LEMMA SemSetAppend ==
  ASSUME NEW s \in Seq(Task), NEW t \in Task
  PROVE  SemSet(Append(s, t)) = SemSet(s) \union {t}
<1>1. Len(Append(s, t)) = Len(s) + 1 /\ Len(s) \in Nat
  OBVIOUS
<1>2. \A i \in 1..Len(s) : Append(s, t)[i] = s[i]
  OBVIOUS
<1>3. Append(s, t)[Len(s) + 1] = t
  OBVIOUS
<1>4. 1..(Len(s) + 1) = 1..Len(s) \union {Len(s) + 1}
  BY <1>1
<1> QED
  BY <1>1, <1>2, <1>3, <1>4 DEF SemSet

LEMMA SemSetTail ==
  ASSUME NEW s \in Seq(Task), s # << >>,
         \A i, j \in 1..Len(s) : i # j => s[i] # s[j]
  PROVE  /\ Head(s) \in Task /\ Tail(s) \in Seq(Task) /\ Len(Tail(s)) = Len(s) - 1
         /\ Head(s) \in SemSet(s)
         /\ SemSet(Tail(s)) = SemSet(s) \ {Head(s)}
         /\ \A i, j \in 1..Len(Tail(s)) : i # j => Tail(s)[i] # Tail(s)[j]
<1>1. Len(s) \in Nat \ {0} /\ Head(s) = s[1] /\ Head(s) \in Task
  OBVIOUS
<1>2. Tail(s) \in Seq(Task) /\ Len(Tail(s)) = Len(s) - 1
  OBVIOUS
<1>3. \A i \in 1..Len(s) - 1 : Tail(s)[i] = s[i + 1]
  OBVIOUS
<1>4. Head(s) \in SemSet(s)
  BY <1>1 DEF SemSet
<1>5. SemSet(Tail(s)) \subseteq SemSet(s) \ {Head(s)}
  <2> SUFFICES ASSUME NEW i \in 1..Len(s) - 1
               PROVE  Tail(s)[i] \in SemSet(s) /\ Tail(s)[i] # Head(s)
    BY <1>2 DEF SemSet
  <2>1. i + 1 \in 1..Len(s) /\ 1 \in 1..Len(s) /\ i + 1 # 1
    BY <1>1
  <2> QED
    BY <2>1, <1>1, <1>3 DEF SemSet
<1>6. SemSet(s) \ {Head(s)} \subseteq SemSet(Tail(s))
  <2> SUFFICES ASSUME NEW i \in 1..Len(s), s[i] # Head(s)
               PROVE  s[i] \in SemSet(Tail(s))
    BY DEF SemSet
  <2>1. i # 1 /\ i - 1 \in 1..Len(s) - 1 /\ (i - 1) + 1 = i
    BY <1>1
  <2>2. Tail(s)[i - 1] = s[i]
    BY <2>1, <1>3
  <2> QED
    BY <2>1, <2>2, <1>2 DEF SemSet
<1>7. \A i, j \in 1..Len(Tail(s)) : i # j => Tail(s)[i] # Tail(s)[j]
  <2> SUFFICES ASSUME NEW i \in 1..Len(s) - 1, NEW j \in 1..Len(s) - 1, i # j
               PROVE  Tail(s)[i] # Tail(s)[j]
    BY <1>2
  <2>1. i + 1 \in 1..Len(s) /\ j + 1 \in 1..Len(s) /\ i + 1 # j + 1
    BY <1>1
  <2> QED
    BY <2>1, <1>3
<1> QED
  BY <1>1, <1>2, <1>4, <1>5, <1>6, <1>7

LEMMA HoldersFinite ==
  ASSUME SemTypeOK
  PROVE  /\ IsFiniteSet(holding \union Granted)
         /\ Cardinality(holding \union Granted) \in Nat
<1>1. holding \union Granted \subseteq Task
  BY DEF SemTypeOK, Granted
<1> QED
  BY <1>1, FS_Subset, FS_CardinalityType, SemAssumption

-----------------------------------------------------------------------------
LEMMA SemInitial == SigInit /\ SemInit => SemInv
<1> SUFFICES ASSUME SigInit, SemInit PROVE SemInv
  OBVIOUS
<1>1. SemTypeOK
  BY SemAssumption DEF SigInit, SemInit, SemTypeOK, SigTypeOK, Ops
<1>2. SemSet(sem.wait) = {} /\ Len(sem.wait) = 0
  BY DEF SemInit, SemSet
<1>3. Distinct /\ SemListed /\ SemQuiet
  BY <1>2 DEF SigInit, Distinct, SemListed, SemQuiet
<1>4. holding \union Granted = {}
  BY DEF SigInit, SemInit, Granted
<1>5. SemaphoreExact
  <2>1. sem.count = permits /\ permits \in Int
    BY SemAssumption DEF SemInit
  <2> QED
    BY <1>4, <2>1, FS_EmptySet DEF SemaphoreExact
<1> QED
  BY <1>1, <1>3, <1>5 DEF SemInv

LEMMA AcquireStep ==
  ASSUME SemInv, NEW t \in Task, Acquire(t)
  PROVE  SemInv'
<1> USE DEF SemInv
<1>1. SemTypeOK'
  BY DEF SemTypeOK, SigTypeOK, Acquire, sigVars
<1>2. sem'.wait = sem.wait /\ sem'.count = sem.count - 1
  BY DEF SemTypeOK, Acquire
<1>3. Distinct' /\ SemListed' /\ SemQuiet'
  BY <1>2 DEF Distinct, SemListed, SemQuiet, Acquire, sigVars, Free, SemSet
<1>4. Granted' = Granted /\ t \notin holding \union Granted
  BY <1>2 DEF Granted, Acquire, sigVars, Free
<1>5. (holding \union Granted)' = (holding \union Granted) \union {t}
  BY <1>4 DEF Acquire
<1>6. Cardinality((holding \union Granted)') = Cardinality(holding \union Granted) + 1
  BY <1>4, <1>5, HoldersFinite, FS_AddElement
<1>7. SemaphoreExact'
  BY <1>2, <1>6, HoldersFinite DEF SemaphoreExact, Acquire, SemTypeOK
<1> QED
  BY <1>1, <1>3, <1>7

LEMMA AcquireBlocksStep ==
  ASSUME SemInv, NEW t \in Task, AcquireBlocks(t)
  PROVE  SemInv'
<1> USE DEF SemInv
<1>1. /\ sem'.wait = Append(sem.wait, t) /\ sem'.count = sem.count
      /\ sem.wait \in Seq(Task)
  BY DEF SemTypeOK, AcquireBlocks
<1>2. SemTypeOK'
  <2>1. SigTypeOK'
    BY DEF SemTypeOK, SigTypeOK, AcquireBlocks, Block, Ops
  <2>2. Append(sem.wait, t) \in Seq(Task) /\ Len(Append(sem.wait, t)) = Len(sem.wait) + 1
    BY <1>1
  <2>3. sem' = [count |-> sem.count, wait |-> Append(sem.wait, t)] /\ sem.count \in Int
    BY DEF SemTypeOK, AcquireBlocks
  <2>4. Len(sem'.wait) <= SEMAPHORE_WAIT_MAX
    BY <1>1, <2>2, SemAssumption DEF AcquireBlocks
  <2> QED
    BY <2>1, <2>2, <2>3, <2>4 DEF SemTypeOK, AcquireBlocks
<1>3. SemSet(sem'.wait) = SemSet(sem.wait) \union {t}
  BY <1>1, SemSetAppend
<1>4. t \notin SemSet(sem.wait) /\ ~signal[t] /\ t \notin holding
  BY DEF AcquireBlocks, Free, SemListed, SemQuiet
<1>5. Distinct'
  <2>1. \A i \in 1..Len(sem.wait) : sem.wait[i] # t
    BY <1>4 DEF SemSet
  <2>2. Len(sem'.wait) = Len(sem.wait) + 1
    BY <1>1
  <2>3. \A i \in 1..Len(sem'.wait) :
          sem'.wait[i] = IF i = Len(sem.wait) + 1 THEN t ELSE sem.wait[i]
    BY <1>1
  <2> QED
    BY <1>1, <2>1, <2>2, <2>3 DEF Distinct
<1>6. \A u \in Task : /\ op'[u] = IF u = t THEN "acquire" ELSE op[u]
                      /\ status'[u] = IF u = t THEN "waiting" ELSE status[u]
  BY DEF AcquireBlocks, Block, SemTypeOK, SigTypeOK
<1>7. SemSet(sem.wait) \subseteq Task
  BY <1>1 DEF SemSet
<1>8. SemListed'
  BY <1>3, <1>4, <1>6, <1>7 DEF SemListed, AcquireBlocks
<1>9. SemQuiet'
  BY <1>4, <1>6 DEF SemQuiet, AcquireBlocks
<1>10. (holding \union Granted)' = holding \union Granted
  BY <1>3, <1>6 DEF Granted, AcquireBlocks, Free
<1>11. SemaphoreExact'
  BY <1>1, <1>10 DEF SemaphoreExact, AcquireBlocks
<1> QED
  BY <1>2, <1>5, <1>8, <1>9, <1>11

LEMMA AcquireReturnsStep ==
  ASSUME SemInv, NEW t \in Task, AcquireReturns(t)
  PROVE  SemInv'
<1> USE DEF SemInv
<1>1. SemTypeOK'
  BY DEF SemTypeOK, SigTypeOK, AcquireReturns, Continue, Ops
<1>2. \A u \in Task : op'[u] = IF u = t THEN "none" ELSE op[u]
  BY DEF AcquireReturns, Continue, SemTypeOK, SigTypeOK
<1>3. t \notin SemSet(sem.wait)
  BY DEF AcquireReturns, Inside, SemListed
<1>4. Distinct' /\ SemListed' /\ SemQuiet'
  <2>1. SemSet(sem.wait) \subseteq Task
    BY DEF SemSet, SemTypeOK
  <2>2. Distinct' /\ SemListed'
    BY <1>2, <1>3, <2>1 DEF Distinct, SemListed, AcquireReturns, Continue, SemSet
  <2>3. SemQuiet'
    BY <1>2 DEF SemQuiet, AcquireReturns, Continue
  <2> QED
    BY <2>2, <2>3
<1>5. t \in Granted
  BY <1>3 DEF Granted, AcquireReturns, Inside
<1>6. (holding \union Granted)' = holding \union Granted
  BY <1>2, <1>5 DEF Granted, AcquireReturns
<1>7. SemaphoreExact'
  BY <1>6 DEF SemaphoreExact, AcquireReturns
<1> QED
  BY <1>1, <1>4, <1>7

LEMMA ReleaseStep ==
  ASSUME SemInv, NEW t \in Task, Release(t)
  PROVE  SemInv'
<1> USE DEF SemInv
<1> DEFINE U == holding \union Granted
<1>1. t \in holding /\ t \notin Granted /\ holding' = holding \ {t}
  BY DEF Release, Free, Granted
<1>2. CASE sem.count + 1 > 0 /\ sem.wait # << >>
  <2> DEFINE h == Head(sem.wait)
  <2>1. sem'.wait = Tail(sem.wait) /\ sem'.count = sem.count /\ sem.wait \in Seq(Task)
    BY <1>2 DEF Release, SemTypeOK
  <2>2. /\ h \in Task /\ Tail(sem.wait) \in Seq(Task) /\ Len(Tail(sem.wait)) = Len(sem.wait) - 1
        /\ h \in SemSet(sem.wait)
        /\ SemSet(Tail(sem.wait)) = SemSet(sem.wait) \ {h}
        /\ \A i, j \in 1..Len(Tail(sem.wait)) : i # j => Tail(sem.wait)[i] # Tail(sem.wait)[j]
    BY <1>2, <2>1, SemSetTail DEF Distinct
  <2>3. op[h] = "acquire" /\ status[h] = "waiting" /\ h \notin holding /\ h \notin Granted
    BY <2>2 DEF SemListed, SemQuiet, Granted
  <2>4. signal' \in [Task -> BOOLEAN]
        /\ \A u \in Task : signal'[u] <=> signal[u] \/ u = h
    BY <1>2, <2>2, <2>3 DEF Release, Send, SemTypeOK, SigTypeOK
  <2>5. SemTypeOK'
    <3>1. SigTypeOK'
      BY <2>4 DEF SemTypeOK, SigTypeOK, Release
    <3>2. sem' = [count |-> sem.count, wait |-> Tail(sem.wait)] /\ sem.count \in Int
      BY <1>2 DEF SemTypeOK, Release
    <3>3. Len(sem'.wait) <= SEMAPHORE_WAIT_MAX
      <4>1. Len(sem.wait) \in Nat /\ Len(sem.wait) <= SEMAPHORE_WAIT_MAX
        BY <2>1 DEF SemTypeOK
      <4> QED
        BY <2>1, <2>2, <4>1, SemAssumption
    <3> QED
      BY <1>1, <2>2, <3>1, <3>2, <3>3 DEF SemTypeOK, Release
  <2>6. Distinct'
    BY <2>1, <2>2 DEF Distinct
  <2>7. SemSet(sem.wait) \subseteq Task
    BY <2>1 DEF SemSet
  <2>8. SemListed'
    BY <2>1, <2>2, <2>4, <2>7 DEF SemListed, Release
  <2>9. SemQuiet'
    BY <1>1, <2>3, <2>4 DEF SemQuiet, Release
  <2>10. Granted' = Granted \union {h}
    BY <2>1, <2>2, <2>3 DEF Granted, Release
  <2>11. U' = (U \ {t}) \union {h} /\ h \notin U \ {t}
    BY <1>1, <2>3, <2>10
  <2>12. Cardinality(U \ {t}) = Cardinality(U) - 1 /\ IsFiniteSet(U \ {t})
    BY <1>1, HoldersFinite, FS_RemoveElement
  <2>13. Cardinality(U') = Cardinality(U)
    <3>1. Cardinality((U \ {t}) \union {h}) = Cardinality(U \ {t}) + 1
      BY <2>11, <2>12, FS_AddElement
    <3>2. Cardinality(U) \in Nat
      BY HoldersFinite
    <3> HIDE DEF U
    <3>3. U' = (U \ {t}) \union {h}
      BY <2>11
    <3> QED
      BY <2>12, <3>1, <3>2, <3>3
  <2>14. SemaphoreExact'
    BY <2>1, <2>13 DEF SemaphoreExact, Release
  <2> QED
    BY <2>5, <2>6, <2>8, <2>9, <2>14
<1>3. CASE ~(sem.count + 1 > 0 /\ sem.wait # << >>)
  <2>1. sem'.wait = sem.wait /\ sem'.count = sem.count + 1 /\ signal' = signal
    BY <1>3 DEF Release, SemTypeOK
  <2>2. SemTypeOK'
    BY <1>1, <1>3, <2>1 DEF SemTypeOK, SigTypeOK, Release
  <2>3. Distinct' /\ SemListed' /\ SemQuiet'
    BY <1>1, <2>1 DEF Distinct, SemListed, SemQuiet, Release, SemSet
  <2>4. Granted' = Granted
    BY <2>1 DEF Granted, Release
  <2>5. U' = U \ {t}
    BY <1>1, <2>4
  <2>6. Cardinality(U') = Cardinality(U) - 1
    BY <1>1, <2>5, HoldersFinite, FS_RemoveElement
  <2>7. SemaphoreExact'
    BY <2>1, <2>6, HoldersFinite DEF SemaphoreExact, Release, SemTypeOK
  <2> QED
    BY <2>2, <2>3, <2>7
<1> QED
  BY <1>2, <1>3

LEMMA SemKernelStep ==
  ASSUME SemInv, NEW t \in Task, Wake(t) \/ ResetSignal(t), UNCHANGED semVars
  PROVE  SemInv'
<1> USE DEF SemInv
<1>1. SemTypeOK'
  BY DEF SemTypeOK, SigTypeOK, Wake, ResetSignal, semVars
<1>2. op' = op /\ sem' = sem /\ permits' = permits /\ holding' = holding
  BY DEF Wake, ResetSignal, semVars
<1>3. t \notin SemSet(sem.wait)
  BY DEF SemListed, Wake, ResetSignal
<1>4. \A u \in Task : u # t => signal'[u] = signal[u] /\ status'[u] = status[u]
  BY DEF Wake, ResetSignal, SemTypeOK, SigTypeOK
<1>5. ~signal'[t]
  BY DEF Wake, ResetSignal, SemTypeOK, SigTypeOK
<1>6. SemSet(sem.wait) \subseteq Task
  BY DEF SemSet, SemTypeOK
<1>7. Distinct' /\ SemListed'
  BY <1>2, <1>3, <1>4, <1>6 DEF Distinct, SemListed, SemSet
<1>8. SemQuiet'
  BY <1>2, <1>4, <1>5 DEF SemQuiet
<1>9. SemaphoreExact'
  BY <1>2 DEF SemaphoreExact, Granted, SemSet
<1> QED
  BY <1>1, <1>7, <1>8, <1>9

LEMMA SemInductive == SemInv /\ [SemNext]_svars => SemInv'
<1> SUFFICES ASSUME SemInv, [SemNext]_svars PROVE SemInv'
  OBVIOUS
<1>1. CASE SemCalls
  BY <1>1, AcquireStep, AcquireBlocksStep, AcquireReturnsStep, ReleaseStep DEF SemCalls
<1>2. CASE Kernel /\ UNCHANGED semVars
  BY <1>2, SemKernelStep DEF Kernel
<1>3. CASE UNCHANGED svars
  BY <1>3 DEF svars, sigVars, semVars, SemInv, SemTypeOK, SigTypeOK, Distinct, SemListed,
              SemQuiet, SemaphoreExact, Granted, SemSet
<1> QED
  BY <1>1, <1>2, <1>3 DEF SemNext

(***************************************************************************)
(* The permits of a semaphore are neither lost nor multiplied: what is     *)
(* held, what has been handed to a task that has not taken the lock again, *)
(* and the count add up to the initial count (task_semaphore.c).           *)
(***************************************************************************)
THEOREM SemaphoreAdmitsItsCount == SemSpec => []SemaphoreExact
<1>1. SemInv => SemaphoreExact
  BY DEF SemInv
<1> QED
  BY <1>1, SemInitial, SemInductive, PTL DEF SemSpec, SemNext, svars
=============================================================================
