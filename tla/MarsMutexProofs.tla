--------------------------- MODULE MarsMutexProofs ---------------------------
(***************************************************************************)
(* Mutual exclusion, line coherence and sleep soundness of MarsMutex, for  *)
(* any number of SPUs, host threads and ticket values.                     *)
(***************************************************************************)
EXTENDS MarsMutex, TLAPS

\* A processor about to store-conditional with its reservation intact has the
\* line's current status in its copy.
CopiesCurrent ==
  \A p \in Procs :
    /\ pc[p] \in {"draw_sc", "take_sc", "unlock_sc"} /\ p \in resv
         => copy[p].status = status
    /\ pc[p] = "take_sc" /\ p \in resv
         => copy[p].data = data /\ MyTurn(p)

\* The lock byte and the holders agree, and there is one holder at most.
HolderUnique == MutualExclusion

\* The newest data is in the SPU holder's copy, otherwise in memory.
DataCurrent ==
  /\ \A p \in Spus : Holds(p) => copy[p].data = written
  /\ (\A p \in Spus : ~ Holds(p)) => data = written

IInv == /\ TypeOK
        /\ CopiesCurrent
        /\ HolderUnique
        /\ DataCurrent
        /\ NoLostWakeup

\* What the operators on lines and status words return.
LEMMA RecordTypes ==
  /\ \A c \in Line : c.status \in Status /\ c.data \in Data
  /\ \A c \in Line, s \in Status, d \in Data :
       /\ [c EXCEPT !.status = s] \in Line
       /\ [c EXCEPT !.data = d] \in Line
  /\ \A s \in Status :
       /\ [s EXCEPT !.next_id = IncTicket(@)] \in Status
       /\ [s EXCEPT !.lock = UNLOCKED] \in Status
       /\ Taken(s) \in Status
       /\ s.next_id \in Ticket
  /\ \A d \in Data : 1 - d \in Data
  /\ NoCopy \in Line /\ Unlocked \in Status /\ 0 \in Data /\ 0 \in Ticket
<1>1. \A t \in Ticket : IncTicket(t) \in Ticket
  BY TicketsAssumption DEF Ticket, IncTicket
<1>2. 0 \in Ticket
  BY TicketsAssumption DEF Ticket
<1>3. \A s \in Status : /\ [s EXCEPT !.next_id = IncTicket(@)] \in Status
                        /\ [s EXCEPT !.lock = UNLOCKED] \in Status
                        /\ Taken(s) \in Status
                        /\ s.next_id \in Ticket
  BY <1>1 DEF Status, Taken, LOCKED, UNLOCKED
<1>4. Unlocked \in Status
  BY <1>2 DEF Unlocked, Status
<1>5. NoCopy \in Line
  BY <1>4 DEF NoCopy, Line, Data
<1> QED
  BY <1>2, <1>3, <1>4, <1>5 DEF Line, Data

LEMMA TypeInit == Init => TypeOK
BY RecordTypes DEF Init, TypeOK, PcLabel

LEMMA TypeStep == TypeOK /\ [Next]_vars => TypeOK'
<1> SUFFICES ASSUME TypeOK, [Next]_vars PROVE TypeOK'
  OBVIOUS
<1> USE DEF TypeOK
<1>0. line \in Line
  BY DEF line, Line
<1>1. ASSUME NEW p \in Procs, Begin(p) PROVE TypeOK'
  BY <1>1, RecordTypes DEF Begin, Goto, PcLabel
<1>2. ASSUME NEW p \in Procs, Draw(p) PROVE TypeOK'
  BY <1>2, <1>0 DEF Draw, Load, Goto, PcLabel
<1>3. ASSUME NEW p \in Procs, DrawStore(p) PROVE TypeOK'
  <2>1. copy[p].status \in Status /\ copy[p].status.next_id \in Ticket
    BY RecordTypes
  <2>2. [copy[p].status EXCEPT !.next_id = IncTicket(@)] \in Status
    BY <2>1, RecordTypes
  <2>3. copy' \in [Procs -> Line]
    BY <1>3, RecordTypes DEF DrawStore, Forget
  <2>4. CASE p \in resv
    BY <1>3, <2>1, <2>2, <2>3, <2>4 DEF DrawStore, Goto, BreakReservations, PcLabel
  <2>5. CASE p \notin resv
    BY <1>3, <2>3, <2>5 DEF DrawStore, Goto, PcLabel
  <2> QED BY <2>4, <2>5
<1>4. ASSUME NEW p \in Procs, Poll(p) PROVE TypeOK'
  <2>1. CASE MyTurn(p)
    BY <1>4, <1>0, <2>1 DEF Poll, Load, Goto, PcLabel
  <2>2. CASE ~ MyTurn(p)
    BY <1>4, <2>2 DEF Poll, Goto, PcLabel
  <2> QED BY <2>1, <2>2
<1>5. ASSUME NEW p \in Procs, Wake(p) PROVE TypeOK'
  BY <1>5 DEF Wake, Goto, PcLabel
<1>6. ASSUME NEW p \in Procs, TakeStore(p) PROVE TypeOK'
  <2>1. Taken(copy[p].status) \in Status
    BY RecordTypes
  <2>2. CASE p \in resv
    <3>1. status' \in Status
      BY <1>6, <2>1, <2>2 DEF TakeStore
    <3>2. [copy[p] EXCEPT !.status = status'] \in Line
      BY <3>1, RecordTypes
    <3>3. copy' \in [Procs -> Line]
      BY <1>6, <2>2, <3>2 DEF TakeStore
    <3> QED BY <1>6, <2>2, <3>1, <3>3 DEF TakeStore, Goto, PcLabel
  <2>3. CASE p \notin resv
    BY <1>6, <2>3, RecordTypes DEF TakeStore, Forget, Goto, PcLabel
  <2> QED BY <2>2, <2>3
<1>7. ASSUME NEW p \in Procs, Work(p) PROVE TypeOK'
  <2>1. copy[p] \in Line /\ 1 - copy[p].data \in Data /\ 1 - data \in Data /\ 1 - written \in Data
    BY RecordTypes
  <2>2. [copy[p] EXCEPT !.data = 1 - @] \in Line
    BY <2>1, RecordTypes
  <2>3. CASE p \in Spus
    BY <1>7, <2>1, <2>2, <2>3 DEF Work, Goto, PcLabel
  <2>4. CASE p \notin Spus
    BY <1>7, <2>1, <2>4 DEF Work, Goto, BreakReservations, PcLabel
  <2> QED BY <2>3, <2>4
<1>8. ASSUME NEW p \in Procs, Unlock(p) PROVE TypeOK'
  <2>1. Merged(copy[p]) \in Line
    BY RecordTypes DEF Merged
  <2> QED BY <1>8, <2>1 DEF Unlock, Goto, PcLabel
<1>9. ASSUME NEW p \in Procs, UnlockStore(p) PROVE TypeOK'
  <2>1. [copy[p].status EXCEPT !.lock = UNLOCKED] \in Status /\ copy[p].data \in Data
    BY RecordTypes
  <2>2. CASE p \in resv
    BY <1>9, <2>1, <2>2, RecordTypes DEF UnlockStore, Forget, Goto, PcLabel
  <2>3. CASE p \notin resv
    BY <1>9, <2>3 DEF UnlockStore, Goto, PcLabel
  <2> QED BY <2>2, <2>3
<1>10. CASE UNCHANGED vars
  BY <1>10 DEF vars
<1> QED
  BY <1>1, <1>2, <1>3, <1>4, <1>5, <1>6, <1>7, <1>8, <1>9, <1>10 DEF Next, Step

\* Every variable keeps its type.
THEOREM TypeCorrect == Spec => []TypeOK
BY TypeInit, TypeStep, PTL DEF Spec

-----------------------------------------------------------------------------
LEMMA InvInit == Init => IInv
<1> SUFFICES ASSUME Init PROVE IInv
  OBVIOUS
<1>1. TypeOK
  BY TypeInit
<1>2. \A p \in Procs : pc[p] = "idle"
  BY DEF Init
<1> QED
  BY <1>1, <1>2 DEF IInv, CopiesCurrent, HolderUnique, MutualExclusion, DataCurrent,
     NoLostWakeup, Holds, Init, Unlocked, LOCKED, UNLOCKED, Procs

LEMMA InvStep == IInv /\ [Next]_vars => IInv'
<1> SUFFICES ASSUME IInv, [Next]_vars PROVE IInv'
  OBVIOUS
<1>t. TypeOK /\ TypeOK'
  BY TypeStep DEF IInv
<1> USE <1>t DEF IInv, HolderUnique, MutualExclusion, Holds, CopiesCurrent, DataCurrent,
                  NoLostWakeup, MyTurn, Procs, LOCKED, UNLOCKED
<1> DEFINE Rest == CopiesCurrent /\ HolderUnique /\ DataCurrent /\ NoLostWakeup
<1>1. ASSUME NEW p \in Procs, Begin(p) PROVE Rest'
  BY <1>1 DEF Begin, Goto, TypeOK
<1>2. ASSUME NEW p \in Procs, Draw(p) PROVE Rest'
  BY <1>2 DEF Draw, Load, Goto, TypeOK, line
<1>3. ASSUME NEW p \in Procs, DrawStore(p) PROVE Rest'
  <2>1. CASE p \in resv
    <3>1. status'.lock = status.lock /\ status'.current_id = status.current_id
      BY <1>3, <2>1 DEF DrawStore, TypeOK, Status
    <3>2. /\ \A q \in Procs : pc'[q] = IF q = p THEN "poll" ELSE pc[q]
          /\ \A q \in Procs : q # p => copy'[q] = copy[q] /\ id'[q] = id[q]
          /\ resv' = {} /\ data' = data /\ written' = written
          /\ lost' = lost \union ((resv \ {p}) \cap Spus)
          /\ pc[p] = "draw_sc"
      BY <1>3, <2>1 DEF DrawStore, Forget, BreakReservations, Goto, TypeOK
    <3>3. CopiesCurrent' /\ HolderUnique' /\ DataCurrent'
      BY <3>1, <3>2
    <3>4. NoLostWakeup'
      BY <3>1, <3>2
    <3> QED BY <3>3, <3>4
  <2>2. CASE p \notin resv
    BY <1>3, <2>2 DEF DrawStore, Forget, Goto, TypeOK
  <2> QED BY <2>1, <2>2
<1>4. ASSUME NEW p \in Procs, Poll(p) PROVE Rest'
  <2>1. /\ UNCHANGED <<status, data, id, lost, written>> /\ resv' = resv \union {p}
        /\ pc[p] = "poll" /\ \A q \in Procs : q # p => pc'[q] = pc[q]
    BY <1>4 DEF Poll, Goto, TypeOK
  <2>2. CASE MyTurn(p)
    <3>1. pc'[p] = "take_sc" /\ copy' = [copy EXCEPT ![p] = line]
      BY <1>4, <2>2 DEF Poll, Load, Goto, TypeOK
    <3>2. copy'[p].status = status /\ copy'[p].data = data
      BY <3>1 DEF TypeOK, line
    <3>3. \A q \in Procs : q # p => copy'[q] = copy[q]
      BY <3>1 DEF TypeOK
    <3>4. CopiesCurrent'
      BY <2>1, <2>2, <3>1, <3>2, <3>3
    <3>5. HolderUnique' /\ NoLostWakeup'
      BY <2>1, <3>1
    <3>6. DataCurrent'
      BY <2>1, <3>1, <3>3
    <3> QED BY <3>4, <3>5, <3>6
  <2>3. CASE ~ MyTurn(p)
    <3>1. pc'[p] \in {"asleep", "poll"} /\ copy' = copy
      BY <1>4, <2>3 DEF Poll, Goto, TypeOK
    <3>2. status.lock = LOCKED \/ status.current_id # id[p]
      BY <2>3 DEF TypeOK, Status
    <3>3. CopiesCurrent' /\ HolderUnique' /\ DataCurrent'
      BY <2>1, <3>1
    <3>4. NoLostWakeup'
      BY <2>1, <3>1, <3>2
    <3> QED BY <3>3, <3>4
  <2> QED BY <2>2, <2>3
<1>5. ASSUME NEW p \in Procs, Wake(p) PROVE Rest'
  BY <1>5 DEF Wake, Goto, TypeOK
<1>6. ASSUME NEW p \in Procs, TakeStore(p) PROVE Rest'
  <2>1. CASE p \in resv
    <3>1. /\ status.lock = UNLOCKED /\ copy[p].status = status /\ copy[p].data = data
          /\ pc[p] = "take_sc"
      BY <1>6, <2>1 DEF TakeStore
    <3>2. status'.lock = LOCKED
      BY <1>6, <2>1 DEF TakeStore, Taken, TypeOK, Line, Status
    <3>3. /\ \A q \in Procs : pc'[q] = IF q = p THEN "critical" ELSE pc[q]
          /\ \A q \in Procs : q # p => copy'[q] = copy[q]
          /\ copy'[p].data = copy[p].data
          /\ id' = id /\ resv' = {} /\ data' = data /\ written' = written
      BY <1>6, <2>1 DEF TakeStore, Goto, TypeOK, Line
    <3>4. \A q \in Procs : ~ Holds(q)
      BY <3>1
    <3>5. CopiesCurrent' /\ HolderUnique'
      BY <3>2, <3>3, <3>4
    <3>6. DataCurrent'
      BY <3>1, <3>3, <3>4
    <3>7. NoLostWakeup'
      BY <1>6, <2>1, <3>2, <3>3 DEF TakeStore
    <3> QED BY <3>5, <3>6, <3>7
  <2>2. CASE p \notin resv
    BY <1>6, <2>2 DEF TakeStore, Forget, Goto, TypeOK
  <2> QED BY <2>1, <2>2
<1>7. ASSUME NEW p \in Procs, Work(p) PROVE Rest'
  <2>1. /\ \A q \in Procs : pc'[q] = IF q = p THEN "unlock" ELSE pc[q]
        /\ \A q \in Procs : q # p => copy'[q] = copy[q]
        /\ id' = id /\ status' = status /\ written' = 1 - written
        /\ Holds(p) /\ pc[p] = "critical"
    BY <1>7 DEF Work, Goto, TypeOK
  <2>2. \A q \in Procs : q # p => ~ Holds(q)
    BY <2>1
  <2>3. HolderUnique'
    BY <2>1
  <2>4. CASE p \in Spus
    <3>1. copy'[p].data = 1 - copy[p].data /\ copy[p].data = written
      BY <1>7, <2>1, <2>4 DEF Work, TypeOK, Line
    <3>2. UNCHANGED <<data, resv, lost>>
      BY <1>7, <2>4 DEF Work
    <3>3. CopiesCurrent' /\ NoLostWakeup'
      BY <2>1, <3>2
    <3>4. DataCurrent'
      BY <2>1, <2>2, <2>4, <3>1, <3>2
    <3> QED BY <2>3, <3>3, <3>4
  <2>5. CASE p \notin Spus
    <3>1. /\ data' = 1 - data /\ data = written /\ copy' = copy /\ resv' = {}
          /\ lost' = lost \union ((resv \ {p}) \cap Spus)
      BY <1>7, <2>2, <2>5 DEF Work, BreakReservations
    <3>2. CopiesCurrent' /\ NoLostWakeup'
      BY <2>1, <3>1
    <3>3. DataCurrent'
      BY <2>1, <2>2, <2>5, <3>1
    <3> QED BY <2>3, <3>2, <3>3
  <2> QED BY <2>4, <2>5
<1>8. ASSUME NEW p \in Procs, Unlock(p) PROVE Rest'
  BY <1>8 DEF Unlock, Merged, Goto, TypeOK
<1>9. ASSUME NEW p \in Procs, UnlockStore(p) PROVE Rest'
  <2>1. CASE p \in resv
    <3>1. Holds(p) /\ pc[p] = "unlock_sc" /\ \A q \in Procs : q # p => ~ Holds(q)
      BY <1>9 DEF UnlockStore
    <3>2. status'.lock = UNLOCKED
      BY <1>9, <2>1 DEF UnlockStore, TypeOK, Line, Status
    <3>3. /\ \A q \in Procs : pc'[q] = IF q = p THEN "idle" ELSE pc[q]
          /\ id' = id /\ resv' = {} /\ written' = written
          /\ lost' = (lost \union (resv \cap Spus)) \ {p}
      BY <1>9, <2>1 DEF UnlockStore, Goto, TypeOK
    <3>4. data' = written
      BY <1>9, <2>1, <3>1 DEF UnlockStore
    <3>5. CopiesCurrent' /\ HolderUnique'
      BY <3>1, <3>2, <3>3
    <3>6. DataCurrent'
      BY <3>1, <3>3, <3>4
    <3>7. NoLostWakeup'
      BY <3>3, <3>1
    <3> QED BY <3>5, <3>6, <3>7
  <2>2. CASE p \notin resv
    BY <1>9, <2>2 DEF UnlockStore, Goto, TypeOK
  <2> QED BY <2>1, <2>2
<1>10. CASE UNCHANGED vars
  BY <1>10 DEF vars
<1> QED
  BY <1>1, <1>2, <1>3, <1>4, <1>5, <1>6, <1>7, <1>8, <1>9, <1>10 DEF Next, Step

LEMMA Invariant == Spec => []IInv
BY InvInit, InvStep, PTL DEF Spec

\* At most one processor holds the lock, and the lock byte says so.
THEOREM MutexExclusive == Spec => []MutualExclusion
<1>1. IInv => MutualExclusion
  BY DEF IInv, HolderUnique
<1> QED BY <1>1, Invariant, PTL

\* The whole-line puts of the SPUs undo no critical section's update.
THEOREM MutexCoherent == Spec => []NoLostUpdate
<1>1. IInv => NoLostUpdate
  BY DEF IInv, DataCurrent, NoLostUpdate, Procs
<1> QED BY <1>1, Invariant, PTL

\* No SPU sleeps on a lost event that will not come although it is next.
THEOREM MutexSleepSound == Spec => []NoLostWakeup
<1>1. IInv => NoLostWakeup
  BY DEF IInv
<1> QED BY <1>1, Invariant, PTL
=============================================================================
