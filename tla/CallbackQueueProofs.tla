------------------------- MODULE CallbackQueueProofs -------------------------
(***************************************************************************)
(* Theorems about CallbackQueue for any number of kernels, any workloads,  *)
(* any size of the ring and any number of calls: types; the flag the       *)
(* handler sleeps on, and that it is not asleep over a request; that a     *)
(* destroy leaves no call unanswered; and, unless others signal a caller,  *)
(* that calls block and are served in order, each once.                    *)
(***************************************************************************)
EXTENDS CallbackQueue, Sequences, FiniteSetTheorems, TLAPS

\* The queue's mutex is held exactly by the kernel between its lock and its
\* put; whoever runs a workload, or handles its request, knows which.
Control ==
  /\ \A k \in Kernels : kpc[k] = "push" <=> lock = k
  /\ \A k \in Kernels : kpc[k] \in {"run", "push", "notify", "save", "woken"} => on[k] \in Workloads
  /\ hpc \in {"spin", "callback", "signal"} => job \in Workloads

\* How far position p is behind h, and whether t is count positions behind it.
Offset(h, p) == IF h <= p THEN p - h ELSE p + QueueMax - h
Behind(h, count, t) == t = h + count \/ t + QueueMax = h + count

\* A line's occupied positions, and the tail behind them.
Filled(line) ==
  /\ \A p \in Positions :
       Offset(line.head, p) < line.count => line.workload_id[p] \in Workloads
  /\ Behind(line.head, line.count, line.tail)

\* The flag of a line and its count.
Flagged(line) == line.flag # "EXIT" => (line.flag = "PUSH" <=> line.count > 0)

\* While a kernel holds the mutex, memory is its copy, or its copy with EXIT.
CopyCurrent ==
  \A k \in Kernels : kpc[k] = "push" =>
    /\ copy[k] \in Line
    /\ Flagged(copy[k])
    /\ queue = copy[k] \/ queue = [copy[k] EXCEPT !.flag = "EXIT"]

\* EXIT is only there once it was stored.
ExitStored == queue.flag = "EXIT" => dpc \notin {"idle", "store"}

Owed == notified \/ \E k \in Kernels : kpc[k] = "notify"

\* NoMissedCallback, for the flags that kernels are about to put back, too.
Awaited ==
  hpc = "asleep" =>
    /\ queue.flag = "EXIT" => dpc = "broadcast"
    /\ EventsTaken /\ (\/ queue.flag = "PUSH"
                       \/ \E k \in Kernels : kpc[k] = "push" /\ copy[k].flag = "PUSH") => Owed

IInv == /\ TypeOK /\ Control /\ Filled(queue) /\ Flagged(queue)
        /\ CopyCurrent /\ ExitStored /\ Awaited
-----------------------------------------------------------------------------
(* The ring.                                                               *)

\* Wrapped around, the position behind a position is a position.
LEMMA WrapPosition == \A i \in Positions : Wrap(i + 1) \in Positions
  BY SizesAssumption DEF Wrap, Positions

\* Where the positions are after a push, and after a pop.
LEMMA PushPosition ==
  ASSUME NEW h \in Positions, NEW t \in Positions, NEW c \in 0 .. QueueMax,
         Behind(h, c, t), c # QueueMax
  PROVE  /\ Behind(h, c + 1, Wrap(t + 1))
         /\ \A p \in Positions : p # t /\ Offset(h, p) < c + 1 => Offset(h, p) < c
<1> USE SizesAssumption DEF Positions, Behind
<1>1. Behind(h, c + 1, Wrap(t + 1))
  <2>1. CASE t + 1 = QueueMax
    <3>1. Wrap(t + 1) = 0
      BY <2>1 DEF Wrap
    <3> QED BY <2>1, <3>1
  <2>2. CASE t + 1 # QueueMax
    <3>1. Wrap(t + 1) = t + 1
      BY <2>2 DEF Wrap
    <3> QED BY <2>2, <3>1
  <2> QED BY <2>1, <2>2
<1>2. ASSUME NEW p \in Positions, p # t, Offset(h, p) < c + 1
      PROVE  Offset(h, p) < c
  BY <1>2 DEF Offset
<1> QED BY <1>1, <1>2

LEMMA PopPosition ==
  ASSUME NEW h \in Positions, NEW t \in Positions, NEW c \in 0 .. QueueMax,
         Behind(h, c, t), c # 0
  PROVE  /\ Behind(Wrap(h + 1), c - 1, t)
         /\ \A p \in Positions : Offset(Wrap(h + 1), p) < c - 1 => Offset(h, p) < c
<1> USE SizesAssumption DEF Positions, Behind, Offset
<1>1. CASE h + 1 = QueueMax
  <2>1. Wrap(h + 1) = 0
    BY <1>1 DEF Wrap
  <2> QED BY <1>1, <2>1
<1>2. CASE h + 1 # QueueMax
  <2>1. Wrap(h + 1) = h + 1
    BY <1>2 DEF Wrap
  <2> QED BY <1>2, <2>1
<1> QED BY <1>1, <1>2

\* Pushing keeps a ring that is not full in order.
LEMMA PushedLine ==
  ASSUME NEW line \in Line, NEW w \in Workloads, line.count # QueueMax, Filled(line)
  PROVE  Pushed(line, w) \in Line /\ Filled(Pushed(line, w)) /\ Flagged(Pushed(line, w))
<1> DEFINE new == Pushed(line, w)
<1>1. /\ line.count \in 0 .. QueueMax /\ line.head \in Positions /\ line.tail \in Positions
      /\ line.workload_id \in [Positions -> Workloads \union {NoWorkload}]
  BY DEF Line
<1>2. /\ new.flag = "PUSH" /\ new.count = line.count + 1 /\ new.head = line.head
      /\ new.tail = Wrap(line.tail + 1)
      /\ new.workload_id = [line.workload_id EXCEPT ![line.tail] = w]
  BY DEF Pushed, Line
<1>3. new \in Line
  <2>1. line.count + 1 \in 0 .. QueueMax
    BY <1>1, SizesAssumption
  <2>2. Wrap(line.tail + 1) \in Positions
    BY <1>1, WrapPosition
  <2>3. [line.workload_id EXCEPT ![line.tail] = w] \in [Positions -> Workloads \union {NoWorkload}]
    BY <1>1
  <2> QED BY <2>1, <2>2, <2>3 DEF Pushed, Line
<1>4. /\ Behind(line.head, line.count + 1, Wrap(line.tail + 1))
      /\ \A p \in Positions : p # line.tail /\ Offset(line.head, p) < line.count + 1
                                => Offset(line.head, p) < line.count
  BY <1>1, PushPosition DEF Filled
<1>5. \A p \in Positions : Offset(line.head, p) < line.count + 1
                             => [line.workload_id EXCEPT ![line.tail] = w][p] \in Workloads
  BY <1>1, <1>4 DEF Filled
<1> HIDE DEF new
<1>6. Filled(new)
  BY <1>2, <1>4, <1>5 DEF Filled
<1>7. Flagged(new)
  BY <1>1, <1>2, SizesAssumption DEF Flagged
<1> QED BY <1>3, <1>6, <1>7 DEF new

\* Popping keeps a ring that is not empty in order, and its head is a workload.
LEMMA PoppedLine ==
  ASSUME NEW line \in Line, line.count # 0, Filled(line), Flagged(line)
  PROVE  /\ Popped(line) \in Line /\ Filled(Popped(line)) /\ Flagged(Popped(line))
         /\ line.workload_id[line.head] \in Workloads
<1> DEFINE new == Popped(line)
<1>1. /\ line.count \in 0 .. QueueMax /\ line.head \in Positions /\ line.tail \in Positions
      /\ line.flag \in {"NONE", "PUSH", "EXIT"}
      /\ line.workload_id \in [Positions -> Workloads \union {NoWorkload}]
  BY DEF Line
<1>2. /\ new.flag = IF line.count = 1 THEN "NONE" ELSE line.flag
      /\ new.count = line.count - 1 /\ new.head = Wrap(line.head + 1)
      /\ new.tail = line.tail /\ new.workload_id = line.workload_id
  BY DEF Popped, Line
<1>3. new \in Line
  <2>1. line.count - 1 \in 0 .. QueueMax
    BY <1>1, SizesAssumption
  <2>2. Wrap(line.head + 1) \in Positions
    BY <1>1, WrapPosition
  <2> QED BY <1>1, <2>1, <2>2 DEF Popped, Line
<1>4. /\ Behind(Wrap(line.head + 1), line.count - 1, line.tail)
      /\ \A p \in Positions : Offset(Wrap(line.head + 1), p) < line.count - 1
                                => Offset(line.head, p) < line.count
  BY <1>1, PopPosition DEF Filled
<1> HIDE DEF new
<1>5. Filled(new)
  BY <1>2, <1>4 DEF Filled
<1>6. Flagged(new)
  BY <1>1, <1>2, SizesAssumption DEF Flagged
<1>7. line.workload_id[line.head] \in Workloads
  <2>1. Offset(line.head, line.head) < line.count
    BY <1>1, SizesAssumption DEF Offset, Positions
  <2> QED BY <1>1, <2>1 DEF Filled
<1> QED BY <1>3, <1>5, <1>6, <1>7 DEF new

\* Storing EXIT leaves the ring alone.
LEMMA ExitLine ==
  ASSUME NEW line \in Line
  PROVE  LET new == [line EXCEPT !.flag = "EXIT"]
         IN  /\ new \in Line /\ Flagged(new)
             /\ Filled(new) <=> Filled(line)
             /\ new.count = line.count /\ new.flag = "EXIT"
             /\ [new EXCEPT !.flag = "EXIT"] = new
  BY DEF Line, Flagged, Filled

\* The line a kernel has copied is in order, as the ring in memory is.
LEMMA CopyFilled ==
  ASSUME CopyCurrent, Filled(queue), NEW k \in Kernels, kpc[k] = "push"
  PROVE  copy[k] \in Line /\ Flagged(copy[k]) /\ Filled(copy[k])
<1>1. /\ copy[k] \in Line /\ Flagged(copy[k])
      /\ queue = copy[k] \/ queue = [copy[k] EXCEPT !.flag = "EXIT"]
  BY DEF CopyCurrent
<1>2. Filled([copy[k] EXCEPT !.flag = "EXIT"]) <=> Filled(copy[k])
  BY <1>1, ExitLine
<1> QED BY <1>1, <1>2

-----------------------------------------------------------------------------
(* Types.                                                                  *)

LEMMA TypeInit == Init => TypeOK
<1> SUFFICES ASSUME Init PROVE TypeOK
  OBVIOUS
<1>1. 0 \in Positions /\ 0 \in 0 .. QueueMax
  BY SizesAssumption DEF Positions
<1>2. queue \in Line
  BY <1>1 DEF Init, Line
<1>3. /\ copy \in [Kernels -> Line \union {NoLine}]
      /\ lock \in Kernels \union {NoKernel}
      /\ kpc \in [Kernels -> {"free", "look", "gone", "run", "push", "notify", "save", "woken"}]
      /\ on \in [Kernels -> Workloads \union {NoWorkload}]
      /\ area \in [Kernels -> Area]
  BY DEF Init, Area
<1> QED BY <1>2, <1>3 DEF Init, TypeOK, Area

LEMMA TypeKernel ==
  ASSUME TypeOK, Control, Filled(queue), CopyCurrent, NEW k \in Kernels,
         KernelStep(k) \/ WorkloadStep(k)
  PROVE  TypeOK'
<1> USE DEF TypeOK
<1>1. CASE Reserve(k)    BY <1>1 DEF Reserve, Goto, workload, handler
<1>2. CASE GiveUp(k)     BY <1>2 DEF GiveUp, Goto, workload, handler
<1>3. CASE PushFull(k)
  <2>1. copy[k] \in Line
    BY <1>3 DEF PushFull, CopyCurrent
  <2> QED BY <1>3, <2>1 DEF PushFull, Put, Goto, workload, handler
<1>4. CASE Push(k)
  <2>1. copy[k] \in Line /\ Filled(copy[k]) /\ on[k] \in Workloads
    BY <1>4, CopyFilled DEF Push, Control
  <2>2. Pushed(copy[k], on[k]) \in Line
    BY <1>4, <2>1, PushedLine DEF Push
  <2> QED BY <1>4, <2>1, <2>2 DEF Push, Put, Goto, handler
<1>5. CASE Notify(k)     BY <1>5 DEF Notify, Goto, EventsTaken, workload, handler
<1>6. CASE Save(k)       BY <1>6 DEF Save, Release, Goto, Control, handler
<1>7. CASE Return(k)     BY <1>7 DEF Return, Goto, handler
<1>8. CASE \E w \in Workloads : MakeReady(k, w)
  BY <1>8 DEF MakeReady, kernel, handler
<1>9. CASE \E w \in Workloads : Dispatch(k, w)
  BY <1>9 DEF Dispatch, Goto, handler
<1>10. CASE PushLock(k)  BY <1>10 DEF PushLock, Goto, Control, Area, workload, handler
<1>11. CASE Finish(k)    BY <1>11 DEF Finish, Release, Goto, Control, handler
<1> QED BY <1>1, <1>2, <1>3, <1>4, <1>5, <1>6, <1>7, <1>8, <1>9, <1>10, <1>11
        DEF KernelStep, WorkloadStep

LEMMA TypeHost ==
  ASSUME TypeOK, Control, Filled(queue), Flagged(queue),
         \/ HandlerStep \/ HandleEvent \/ Destroy \/ DestroyStep
         \/ \E w \in Workloads : ClientSignal(w) \/ Unschedule(w)
  PROVE  TypeOK'
<1> USE DEF TypeOK
<1>1. CASE Test          BY <1>1 DEF Test, kernel, workload
<1>2. CASE Pop /\ queue.count = 0
  BY <1>2 DEF Pop, kernel, workload
<1>3. CASE Pop /\ queue.count # 0
  BY <1>3, PoppedLine DEF Pop, kernel, workload
<1>4. CASE Begin
  <2>1. job \in Workloads
    BY <1>4 DEF Begin, Control
  <2>2. args' \in Area
    BY <1>4, <2>1 DEF Begin
  <2> QED BY <1>4, <2>2 DEF Begin, kernel, workload
<1>5. CASE Callback
  <2>1. job \in Workloads /\ [args EXCEPT !.done = TRUE] \in Area
    BY <1>5 DEF Callback, Control, Area
  <2> QED BY <1>5, <2>1 DEF Callback, kernel
<1>6. CASE Signal        BY <1>6 DEF Signal, kernel
<1>7. CASE HandleEvent   BY <1>7 DEF HandleEvent, Awakened, kernel, workload
<1>8. CASE Destroy       BY <1>8 DEF Destroy, kernel, workload, handler
<1>9. CASE StoreExit     BY <1>9, ExitLine DEF StoreExit, kernel, workload, handler
<1>10. CASE BroadcastExit
  BY <1>10 DEF BroadcastExit, Awakened, kernel, workload
<1>11. CASE KernelsGone  BY <1>11 DEF KernelsGone, kernel, workload, handler
<1>12. CASE CheckEmpty   BY <1>12 DEF CheckEmpty, kernel, workload, handler
<1>13. CASE Join         BY <1>13 DEF Join, kernel, workload, handler
<1>14. CASE \E w \in Workloads : ClientSignal(w)
  BY <1>14 DEF ClientSignal, kernel, handler
<1>15. CASE \E w \in Workloads : Unschedule(w)
  BY <1>15 DEF Unschedule, kernel, handler
<1> QED BY <1>1, <1>2, <1>3, <1>4, <1>5, <1>6, <1>7, <1>8, <1>9, <1>10, <1>11, <1>12,
           <1>13, <1>14, <1>15 DEF HandlerStep, DestroyStep
-----------------------------------------------------------------------------
(* Who holds the mutex, who runs what.                                     *)

LEMMA ControlInit == Init => Control
  BY NullsAssumption DEF Init, Control

LEMMA ControlKernel ==
  ASSUME TypeOK, Control, NEW k \in Kernels, KernelStep(k) \/ WorkloadStep(k)
  PROVE  Control'
<1> USE NullsAssumption DEF TypeOK, Control
<1>1. CASE Reserve(k)    BY <1>1 DEF Reserve, Goto, handler
<1>2. CASE GiveUp(k)     BY <1>2 DEF GiveUp, Goto, handler
<1>3. CASE PushFull(k)   BY <1>3 DEF PushFull, Put, Goto, handler
<1>4. CASE Push(k)       BY <1>4 DEF Push, Put, Goto, handler
<1>5. CASE Notify(k)     BY <1>5 DEF Notify, Goto, handler
<1>6. CASE Save(k)       BY <1>6 DEF Save, Release, Goto, handler
<1>7. CASE Return(k)     BY <1>7 DEF Return, Goto, handler
<1>8. CASE \E w \in Workloads : MakeReady(k, w)
  BY <1>8 DEF MakeReady, kernel, handler
<1>9. CASE \E w \in Workloads : Dispatch(k, w)
  BY <1>9 DEF Dispatch, Goto, handler
<1>10. CASE PushLock(k)  BY <1>10 DEF PushLock, Goto, handler
<1>11. CASE Finish(k)    BY <1>11 DEF Finish, Release, Goto, handler
<1> QED BY <1>1, <1>2, <1>3, <1>4, <1>5, <1>6, <1>7, <1>8, <1>9, <1>10, <1>11
        DEF KernelStep, WorkloadStep

LEMMA ControlHost ==
  ASSUME TypeOK, Control, Filled(queue), Flagged(queue),
         \/ HandlerStep \/ HandleEvent \/ Destroy \/ DestroyStep
         \/ \E w \in Workloads : ClientSignal(w) \/ Unschedule(w)
  PROVE  Control'
<1> USE DEF Control
<1>1. CASE Test          BY <1>1 DEF Test, kernel
<1>2. CASE Pop /\ queue.count = 0
  BY <1>2 DEF Pop, kernel
<1>3. CASE Pop /\ queue.count # 0
  <2>1. queue.workload_id[queue.head] \in Workloads
    BY <1>3, PoppedLine DEF Pop, TypeOK
  <2> QED BY <1>3, <2>1 DEF Pop, kernel
<1>4. CASE Begin         BY <1>4 DEF Begin, kernel
<1>5. CASE Callback      BY <1>5 DEF Callback, kernel
<1>6. CASE Signal        BY <1>6 DEF Signal, kernel
<1>7. CASE HandleEvent   BY <1>7 DEF HandleEvent, Awakened, kernel
<1>8. CASE Destroy       BY <1>8 DEF Destroy, kernel, handler
<1>9. CASE StoreExit     BY <1>9 DEF StoreExit, kernel, handler
<1>10. CASE BroadcastExit
  BY <1>10 DEF BroadcastExit, Awakened, kernel
<1>11. CASE KernelsGone  BY <1>11 DEF KernelsGone, kernel, handler
<1>12. CASE CheckEmpty   BY <1>12 DEF CheckEmpty, kernel, handler
<1>13. CASE Join         BY <1>13 DEF Join, kernel, handler
<1>14. CASE \E w \in Workloads : ClientSignal(w)
  BY <1>14 DEF ClientSignal, kernel, handler
<1>15. CASE \E w \in Workloads : Unschedule(w)
  BY <1>15 DEF Unschedule, kernel, handler
<1> QED BY <1>1, <1>2, <1>3, <1>4, <1>5, <1>6, <1>7, <1>8, <1>9, <1>10, <1>11, <1>12,
           <1>13, <1>14, <1>15 DEF HandlerStep, DestroyStep

-----------------------------------------------------------------------------
(* The line in memory and the copies of it.                                *)

Lines == Filled(queue) /\ Flagged(queue) /\ CopyCurrent /\ ExitStored

LEMMA LinesInit == Init => Lines
<1> SUFFICES ASSUME Init PROVE Lines
  OBVIOUS
<1>1. /\ queue.flag = "NONE" /\ queue.count = 0 /\ queue.head = 0 /\ queue.tail = 0
      /\ \A k \in Kernels : kpc[k] = "free"
  BY DEF Init
<1>2. \A p \in Positions : ~ Offset(0, p) < 0
  BY SizesAssumption DEF Offset, Positions
<1> QED BY <1>1, <1>2 DEF Lines, Filled, Behind, Flagged, CopyCurrent, ExitStored

\* A step that touches neither the line nor a copy of it, and takes no lock.
LEMMA LinesUntouched ==
  ASSUME Lines, UNCHANGED <<queue, copy>>,
         \A k \in Kernels : kpc'[k] = "push" => kpc[k] = "push",
         dpc' = dpc \/ dpc' \notin {"idle", "store"} \/ (dpc = "idle" /\ dpc' = "store")
  PROVE  Lines'
<1>1. Filled(queue)' /\ Flagged(queue)'
  BY DEF Lines, Filled, Flagged
<1>2. CopyCurrent'
  BY DEF Lines, CopyCurrent, Flagged
<1>3. ExitStored'
  BY DEF Lines, ExitStored
<1> QED BY <1>1, <1>2, <1>3 DEF Lines

LEMMA LinesKernel ==
  ASSUME TypeOK, Control, Lines, NEW k \in Kernels, KernelStep(k) \/ WorkloadStep(k)
  PROVE  Lines'
<1> USE DEF TypeOK
<1>1. CASE Reserve(k)    BY <1>1, LinesUntouched DEF Reserve, Goto
<1>2. CASE GiveUp(k)     BY <1>2, LinesUntouched DEF GiveUp, Goto
<1>3. CASE PushFull(k)
  <2>1. /\ copy[k] \in Line /\ Flagged(copy[k]) /\ Filled(copy[k])
        /\ queue = copy[k] \/ queue = [copy[k] EXCEPT !.flag = "EXIT"]
    BY <1>3, CopyFilled DEF PushFull, Lines, CopyCurrent
  <2>2. queue' = copy[k] /\ dpc' = dpc
    BY <1>3 DEF PushFull, Put
  <2>3. ExitStored'
    <3>1. [copy[k] EXCEPT !.flag = "EXIT"].flag = "EXIT"
      BY <2>1, ExitLine
    <3> QED BY <2>1, <2>2, <3>1 DEF ExitStored, Lines
  <2>4. \A i \in Kernels : kpc'[i] # "push"
    BY <1>3, NullsAssumption DEF PushFull, Goto, Control
  <2> QED BY <2>1, <2>2, <2>3, <2>4 DEF Lines, CopyCurrent, Filled, Flagged
<1>4. CASE Push(k)
  <2>1. copy[k] \in Line /\ Filled(copy[k]) /\ on[k] \in Workloads
    BY <1>4, CopyFilled DEF Push, Lines, Control
  <2>2. queue' = Pushed(copy[k], on[k]) /\ copy[k].count # QueueMax
    BY <1>4 DEF Push, Put
  <2>3. Filled(queue)' /\ Flagged(queue)'
    BY <2>1, <2>2, PushedLine DEF Filled, Flagged
  <2>4. queue'.flag = "PUSH"
    BY <2>1, <2>2 DEF Pushed, Line
  <2>5. \A i \in Kernels : kpc'[i] # "push"
    BY <1>4, NullsAssumption DEF Push, Goto, Control
  <2> QED BY <2>3, <2>4, <2>5 DEF Lines, CopyCurrent, ExitStored
<1>5. CASE Notify(k)     BY <1>5, LinesUntouched DEF Notify, Goto
<1>6. CASE Save(k)       BY <1>6, LinesUntouched DEF Save, Release, Goto
<1>7. CASE Return(k)     BY <1>7, LinesUntouched DEF Return, Goto
<1>8. CASE \E w \in Workloads : MakeReady(k, w)
  BY <1>8, LinesUntouched DEF MakeReady, kernel
<1>9. CASE \E w \in Workloads : Dispatch(k, w)
  BY <1>9, LinesUntouched DEF Dispatch, Goto
<1>10. CASE PushLock(k)
  <2>1. UNCHANGED <<queue, dpc>> /\ copy'[k] = queue
    BY <1>10 DEF PushLock
  <2>2. \A i \in Kernels : kpc'[i] = "push" => i = k
    BY <1>10, NullsAssumption DEF PushLock, Goto, Control
  <2>3. CopyCurrent'
    BY <2>1, <2>2 DEF Lines, CopyCurrent, Flagged
  <2> QED BY <2>1, <2>3 DEF Lines, Filled, Flagged, ExitStored
<1>11. CASE Finish(k)    BY <1>11, LinesUntouched DEF Finish, Release, Goto
<1> QED BY <1>1, <1>2, <1>3, <1>4, <1>5, <1>6, <1>7, <1>8, <1>9, <1>10, <1>11
        DEF KernelStep, WorkloadStep

LEMMA LinesHost ==
  ASSUME TypeOK, Control, Lines,
         \/ HandlerStep \/ HandleEvent \/ Destroy \/ DestroyStep
         \/ \E w \in Workloads : ClientSignal(w) \/ Unschedule(w)
  PROVE  Lines'
<1> USE DEF kernel
<1>1. CASE Test          BY <1>1, LinesUntouched DEF Test
<1>2. CASE Pop /\ queue.count = 0
  BY <1>2, LinesUntouched DEF Pop
<1>3. CASE Pop /\ queue.count # 0
  <2>1. queue \in Line /\ queue.count # 0 /\ Filled(queue) /\ Flagged(queue)
    BY <1>3 DEF Pop, TypeOK, Lines
  <2>2. queue' = Popped(queue) /\ dpc' = dpc
    BY <1>3 DEF Pop
  <2>3. Filled(queue)' /\ Flagged(queue)'
    BY <2>1, <2>2, PoppedLine DEF Filled, Flagged
  <2>4. queue'.flag = "EXIT" => queue.flag = "EXIT"
    BY <2>1, <2>2 DEF Popped, Line
  <2>5. \A k \in Kernels : kpc'[k] # "push"
    BY <1>3, NullsAssumption DEF Pop, Control
  <2> QED BY <2>2, <2>3, <2>4, <2>5 DEF Lines, CopyCurrent, ExitStored
<1>4. CASE Begin         BY <1>4, LinesUntouched DEF Begin
<1>5. CASE Callback      BY <1>5, LinesUntouched DEF Callback
<1>6. CASE Signal        BY <1>6, LinesUntouched DEF Signal
<1>7. CASE HandleEvent   BY <1>7, LinesUntouched DEF HandleEvent
<1>8. CASE Destroy       BY <1>8, LinesUntouched DEF Destroy
<1>9. CASE StoreExit
  <2>1. queue' = [queue EXCEPT !.flag = "EXIT"] /\ dpc' = "broadcast" /\ UNCHANGED <<kpc, copy>>
    BY <1>9 DEF StoreExit
  <2>2. Filled(queue)' /\ Flagged(queue)'
    BY <2>1, ExitLine DEF TypeOK, Lines, Filled, Flagged
  <2>3. CopyCurrent'
    <3> SUFFICES ASSUME NEW k \in Kernels, kpc[k] = "push"
                 PROVE  /\ copy[k] \in Line
                        /\ Flagged(copy[k])
                        /\ queue' = [copy[k] EXCEPT !.flag = "EXIT"]
      BY <2>1 DEF CopyCurrent, Flagged
    <3>1. /\ copy[k] \in Line /\ Flagged(copy[k])
          /\ queue = copy[k] \/ queue = [copy[k] EXCEPT !.flag = "EXIT"]
      BY DEF Lines, CopyCurrent
    <3> QED BY <2>1, <3>1, ExitLine
  <2> QED BY <2>1, <2>2, <2>3 DEF Lines, ExitStored
<1>10. CASE BroadcastExit
  BY <1>10, LinesUntouched DEF BroadcastExit
<1>11. CASE KernelsGone  BY <1>11, LinesUntouched DEF KernelsGone
<1>12. CASE CheckEmpty   BY <1>12, LinesUntouched DEF CheckEmpty
<1>13. CASE Join         BY <1>13, LinesUntouched DEF Join
<1>14. CASE \E w \in Workloads : ClientSignal(w)
  BY <1>14, LinesUntouched DEF ClientSignal
<1>15. CASE \E w \in Workloads : Unschedule(w)
  BY <1>15, LinesUntouched DEF Unschedule
<1> QED BY <1>1, <1>2, <1>3, <1>4, <1>5, <1>6, <1>7, <1>8, <1>9, <1>10, <1>11, <1>12,
           <1>13, <1>14, <1>15 DEF HandlerStep, DestroyStep

-----------------------------------------------------------------------------
(* The handler's sleep.                                                    *)

LEMMA AwaitedInit == Init => Awaited
  BY DEF Init, Awaited

\* A step that lets the handler sleep on only if the line, the copies of it and
\* what is owed to the handler stay.
LEMMA AwaitedUntouched ==
  ASSUME Awaited, UNCHANGED <<queue, copy>>,
         hpc' = "asleep" => hpc = "asleep",
         dpc = "broadcast" => dpc' = "broadcast",
         notified => notified',
         \A k \in Kernels : /\ kpc[k] = "gone" => kpc'[k] = "gone"
                            /\ kpc[k] = "notify" => kpc'[k] = "notify"
                            /\ kpc'[k] = "push" => kpc[k] = "push"
  PROVE  Awaited'
  BY DEF Awaited, Owed, EventsTaken

LEMMA AwaitedKernel ==
  ASSUME TypeOK, Control, Lines, Awaited, NEW k \in Kernels, KernelStep(k) \/ WorkloadStep(k)
  PROVE  Awaited'
<1> USE DEF TypeOK, handler
<1>1. CASE Reserve(k)    BY <1>1, AwaitedUntouched DEF Reserve, Goto
<1>2. CASE GiveUp(k)     BY <1>2, AwaitedUntouched DEF GiveUp, Goto
<1>3. CASE PushFull(k)
  <2>1. /\ copy[k] \in Line
        /\ queue = copy[k] \/ queue = [copy[k] EXCEPT !.flag = "EXIT"]
    BY <1>3 DEF PushFull, Lines, CopyCurrent
  <2>2. copy[k].flag = "EXIT" => queue.flag = "EXIT"
    BY <2>1, ExitLine
  <2>3. queue' = copy[k] /\ kpc[k] = "push" /\ UNCHANGED <<hpc, dpc, notified>>
    BY <1>3 DEF PushFull, Put
  <2>4. /\ \A i \in Kernels : kpc'[i] # "push"
        /\ EventsTaken' => EventsTaken
        /\ Owed => Owed'
    BY <1>3, NullsAssumption DEF PushFull, Goto, Control, EventsTaken, Owed
  <2> QED BY <2>2, <2>3, <2>4 DEF Awaited
<1>4. CASE Push(k)
  <2>1. copy[k] \in Line
    BY <1>4 DEF Push, Lines, CopyCurrent
  <2>2. queue'.flag = "PUSH"
    BY <1>4, <2>1 DEF Push, Put, Pushed, Line
  <2>3. Owed'
    BY <1>4 DEF Push, Goto, Owed
  <2> QED BY <2>2, <2>3 DEF Awaited
<1>5. CASE Notify(k)
  <2>1. EventsTaken' => Owed'
    BY <1>5 DEF Notify, Goto, EventsTaken, Owed
  <2> QED BY <1>5, <2>1 DEF Notify, Awaited
<1>6. CASE Save(k)       BY <1>6, AwaitedUntouched DEF Save, Release, Goto
<1>7. CASE Return(k)     BY <1>7, AwaitedUntouched DEF Return, Goto
<1>8. CASE \E w \in Workloads : MakeReady(k, w)
  BY <1>8, AwaitedUntouched DEF MakeReady, kernel
<1>9. CASE \E w \in Workloads : Dispatch(k, w)
  BY <1>9, AwaitedUntouched DEF Dispatch, Goto
<1>10. CASE PushLock(k)
  <2>1. queue' = queue /\ copy'[k] = queue /\ UNCHANGED <<hpc, dpc, notified>>
    BY <1>10 DEF PushLock
  <2>2. /\ \A i \in Kernels : kpc'[i] = "push" => i = k
        /\ EventsTaken' => EventsTaken
        /\ Owed => Owed'
    BY <1>10, NullsAssumption DEF PushLock, Goto, Control, EventsTaken, Owed
  <2> QED BY <2>1, <2>2 DEF Awaited
<1>11. CASE Finish(k)    BY <1>11, AwaitedUntouched DEF Finish, Release, Goto
<1> QED BY <1>1, <1>2, <1>3, <1>4, <1>5, <1>6, <1>7, <1>8, <1>9, <1>10, <1>11
        DEF KernelStep, WorkloadStep

LEMMA AwaitedHost ==
  ASSUME TypeOK, Control, Lines, Awaited,
         \/ HandlerStep \/ HandleEvent \/ Destroy \/ DestroyStep
         \/ \E w \in Workloads : ClientSignal(w) \/ Unschedule(w)
  PROVE  Awaited'
<1> USE DEF kernel, handler
<1>1. CASE Test
  <2>1. UNCHANGED <<queue, kpc, copy>>
    BY <1>1 DEF Test
  <2>2. hpc' = "asleep" => queue.flag = "NONE"
    BY <1>1 DEF Test, TypeOK, Line
  <2>3. ASSUME NEW k \in Kernels, kpc[k] = "push", copy[k].flag = "PUSH"
        PROVE  queue.flag # "NONE"
    BY <2>3, ExitLine DEF Lines, CopyCurrent
  <2> QED BY <2>1, <2>2, <2>3 DEF Awaited
<1>2. CASE Pop /\ queue.count = 0
  BY <1>2 DEF Pop, Awaited
<1>3. CASE Pop /\ queue.count # 0
  BY <1>3 DEF Pop, Awaited
<1>4. CASE Begin         BY <1>4 DEF Begin, Awaited
<1>5. CASE Callback      BY <1>5 DEF Callback, Awaited
<1>6. CASE Signal        BY <1>6 DEF Signal, Awaited
<1>7. CASE HandleEvent   BY <1>7 DEF HandleEvent, Awakened, Awaited
<1>8. CASE Destroy       BY <1>8, AwaitedUntouched DEF Destroy
<1>9. CASE StoreExit
  <2>1. queue'.flag = "EXIT"
    BY <1>9, ExitLine DEF StoreExit, TypeOK
  <2>2. dpc' = "broadcast" /\ UNCHANGED <<kpc, copy, hpc, notified>>
    BY <1>9 DEF StoreExit
  <2> QED BY <2>1, <2>2 DEF Awaited, Owed, EventsTaken
<1>10. CASE BroadcastExit
  BY <1>10 DEF BroadcastExit, Awakened, Awaited
<1>11. CASE KernelsGone  BY <1>11, AwaitedUntouched DEF KernelsGone
<1>12. CASE CheckEmpty   BY <1>12, AwaitedUntouched DEF CheckEmpty
<1>13. CASE Join         BY <1>13, AwaitedUntouched DEF Join
<1>14. CASE \E w \in Workloads : ClientSignal(w)
  BY <1>14, AwaitedUntouched DEF ClientSignal
<1>15. CASE \E w \in Workloads : Unschedule(w)
  BY <1>15, AwaitedUntouched DEF Unschedule
<1> QED BY <1>1, <1>2, <1>3, <1>4, <1>5, <1>6, <1>7, <1>8, <1>9, <1>10, <1>11, <1>12,
           <1>13, <1>14, <1>15 DEF HandlerStep, DestroyStep

-----------------------------------------------------------------------------
(* The theorems.                                                           *)

LEMMA Inductive == IInv /\ [Next]_vars => IInv'
<1> SUFFICES ASSUME IInv, [Next]_vars PROVE IInv'
  OBVIOUS
<1> USE DEF IInv, Lines
<1>1. ASSUME NEW k \in Kernels, KernelStep(k) \/ WorkloadStep(k)
      PROVE  IInv'
  BY <1>1, TypeKernel, ControlKernel, LinesKernel, AwaitedKernel
<1>2. ASSUME \/ HandlerStep \/ HandleEvent \/ Destroy \/ DestroyStep
             \/ \E w \in Workloads : ClientSignal(w) \/ Unschedule(w)
      PROVE  IInv'
  BY <1>2, TypeHost, ControlHost, LinesHost, AwaitedHost
<1>3. CASE UNCHANGED vars
  <2>1. UNCHANGED <<queue, lock, copy, kpc, on, hpc, job, notified, dpc>>
    BY <1>3 DEF vars, kernel, handler
  <2>2. TypeOK'
    BY <1>3 DEF vars, kernel, workload, handler, TypeOK
  <2>3. Control' /\ Awaited'
    BY <2>1 DEF Control, Awaited, Owed, EventsTaken
  <2>4. Lines'
    BY <2>1, LinesUntouched
  <2> QED BY <2>2, <2>3, <2>4
<1> QED BY <1>1, <1>2, <1>3 DEF Next

LEMMA Invariance == Spec => []IInv
<1>1. Init => IInv
  BY TypeInit, ControlInit, LinesInit, AwaitedInit DEF IInv, Lines
<1> QED BY <1>1, Inductive, PTL DEF Spec

\* Every variable of the model stays in its type: the count within the ring,
\* head and tail on a position of it.
THEOREM CallbackTypeCorrect == Spec => []TypeOK
<1>1. IInv => TypeOK
  BY DEF IInv
<1> QED BY <1>1, Invariance, PTL

\* The flag the handler sleeps on says whether there are requests, unless it
\* says EXIT (kernel.c:573, callback_cell.c:100), in spite of the whole-line
\* puts of kernels whose copy is older than the stored EXIT.
THEOREM FlagAlwaysAgrees == Spec => []FlagAgrees
<1>1. IInv => FlagAgrees
  BY DEF IInv, Flagged, FlagAgrees
<1> QED BY <1>1, Invariance, PTL

\* The handler is never asleep on a request or an exit that nobody will tell it
\* of (cond_cell.c:34-43 against kernel.c:616 and callback_cell.c:263-269).
THEOREM HandlerAwaited == Spec => []NoMissedCallback
<1>1. IInv => NoMissedCallback
  BY DEF IInv, Awaited, Owed, NoMissedCallback
<1> QED BY <1>1, Invariance, PTL

-----------------------------------------------------------------------------
(* Every request is in the ring, in the handler's hands, or answered.      *)

\* The positions of a line that hold requests of w.
Places(line, w) ==
  {p \in Positions : Offset(line.head, p) < line.count /\ line.workload_id[p] = w}

\* Whether the handler has taken a request of w that it has not answered.
Taken(w) == IF hpc \in {"spin", "callback"} /\ job = w THEN 1 ELSE 0

Accounted ==
  \A w \in Workloads : asked[w] = answered[w] + Cardinality(Places(queue, w)) + Taken(w)

\* From the check of the count on there is no kernel that could push; the count was
\* 0, and the handler has ended when it has been joined.
Closing ==
  /\ dpc \in {"check", "failed", "join", "destroyed"} => \A k \in Kernels : kpc[k] = "gone"
  /\ dpc \in {"join", "destroyed"} => queue.count = 0
  /\ dpc = "destroyed" => hpc = "ended"

LEMMA PlacesFinite ==
  ASSUME NEW line, NEW w
  PROVE  IsFiniteSet(Places(line, w)) /\ Cardinality(Places(line, w)) \in Nat
<1>1. 0 \in Int /\ QueueMax - 1 \in Int
  BY SizesAssumption
<1>2. IsFiniteSet(Positions)
  BY <1>1, FS_Interval DEF Positions
<1>3. IsFiniteSet(Places(line, w))
  BY <1>2, FS_Subset DEF Places
<1> QED BY <1>3, FS_CardinalityType

\* The tail of a ring that is not full is count behind the head; the other
\* positions are occupied after a push as before.
LEMMA PushOffset ==
  ASSUME NEW h \in Positions, NEW t \in Positions, NEW c \in 0 .. QueueMax,
         Behind(h, c, t), c # QueueMax
  PROVE  /\ Offset(h, t) = c
         /\ \A p \in Positions : p # t => (Offset(h, p) < c + 1 <=> Offset(h, p) < c)
  BY SizesAssumption DEF Positions, Behind, Offset

\* Occupied after a pop is what was occupied, without the head.
LEMMA PopOffset ==
  ASSUME NEW h \in Positions, NEW c \in 0 .. QueueMax, c # 0
  PROVE  /\ Offset(h, h) < c
         /\ ~ Offset(Wrap(h + 1), h) < c - 1
         /\ \A p \in Positions : p # h => (Offset(Wrap(h + 1), p) < c - 1 <=> Offset(h, p) < c)
<1> USE SizesAssumption DEF Positions, Offset
<1>1. CASE h + 1 = QueueMax
  <2>1. Wrap(h + 1) = 0
    BY <1>1 DEF Wrap
  <2> QED BY <1>1, <2>1
<1>2. CASE h + 1 # QueueMax
  <2>1. Wrap(h + 1) = h + 1
    BY <1>2 DEF Wrap
  <2> QED BY <1>2, <2>1
<1> QED BY <1>1, <1>2

\* A push adds one place of the pusher.
LEMMA PushedPlaces ==
  ASSUME NEW line \in Line, NEW v \in Workloads, line.count # QueueMax, Filled(line),
         NEW w \in Workloads
  PROVE  Cardinality(Places(Pushed(line, v), w)) =
           Cardinality(Places(line, w)) + (IF w = v THEN 1 ELSE 0)
<1> DEFINE new == Pushed(line, v)  t == line.tail
<1>1. /\ line.count \in 0 .. QueueMax /\ line.head \in Positions /\ t \in Positions
      /\ line.workload_id \in [Positions -> Workloads \union {NoWorkload}]
  BY DEF Line
<1>2. /\ new.count = line.count + 1 /\ new.head = line.head
      /\ new.workload_id = [line.workload_id EXCEPT ![t] = v]
  BY DEF Pushed, Line
<1>3. /\ new.workload_id[t] = v
      /\ \A p \in Positions : p # t => new.workload_id[p] = line.workload_id[p]
  BY <1>1, <1>2
<1>4. /\ Offset(line.head, t) = line.count
      /\ \A p \in Positions :
           p # t => (Offset(line.head, p) < line.count + 1 <=> Offset(line.head, p) < line.count)
  BY <1>1, PushOffset DEF Filled
<1>5. t \notin Places(line, w)
  BY <1>1, <1>4, SizesAssumption DEF Places
<1>6. Offset(line.head, t) < line.count + 1
  BY <1>1, <1>4, SizesAssumption
<1> HIDE DEF new
<1>7. CASE w = v
  <2>1. Places(new, w) = Places(line, w) \union {t}
    BY <1>1, <1>2, <1>3, <1>4, <1>6, <1>7 DEF Places
  <2>2. Cardinality(Places(line, w) \union {t}) = Cardinality(Places(line, w)) + 1
    BY <1>5, PlacesFinite, FS_AddElement
  <2> QED BY <1>7, <2>1, <2>2 DEF new
<1>8. CASE w # v
  <2>1. Places(new, w) = Places(line, w)
    BY <1>1, <1>2, <1>3, <1>4, <1>5, <1>8 DEF Places
  <2> QED BY <1>8, <2>1, PlacesFinite DEF new
<1> QED BY <1>7, <1>8

\* A pop takes away one place of the workload at the head.
LEMMA PoppedPlaces ==
  ASSUME NEW line \in Line, line.count # 0, NEW w \in Workloads
  PROVE  Cardinality(Places(line, w)) =
           Cardinality(Places(Popped(line), w))
             + (IF w = line.workload_id[line.head] THEN 1 ELSE 0)
<1> DEFINE new == Popped(line)  h == line.head
<1>1. line.count \in 0 .. QueueMax /\ h \in Positions
  BY DEF Line
<1>2. new.count = line.count - 1 /\ new.head = Wrap(h + 1) /\ new.workload_id = line.workload_id
  BY DEF Popped, Line
<1>3. /\ Offset(h, h) < line.count
      /\ ~ Offset(Wrap(h + 1), h) < line.count - 1
      /\ \A p \in Positions :
           p # h => (Offset(Wrap(h + 1), p) < line.count - 1 <=> Offset(h, p) < line.count)
  BY <1>1, PopOffset
<1> HIDE DEF new
<1>4. h \notin Places(new, w)
  BY <1>2, <1>3 DEF Places
<1>5. CASE w = line.workload_id[h]
  <2>1. Places(line, w) = Places(new, w) \union {h}
    BY <1>1, <1>2, <1>3, <1>5 DEF Places
  <2>2. Cardinality(Places(new, w) \union {h}) = Cardinality(Places(new, w)) + 1
    BY <1>4, PlacesFinite, FS_AddElement
  <2> QED BY <1>5, <2>1, <2>2 DEF new
<1>6. CASE w # line.workload_id[h]
  <2>1. Places(line, w) = Places(new, w)
    BY <1>1, <1>2, <1>3, <1>6 DEF Places
  <2> QED BY <1>6, <2>1, PlacesFinite DEF new
<1> QED BY <1>5, <1>6

\* The flag has nothing to do with the places.
LEMMA FlagPlaces ==
  ASSUME NEW line \in Line, NEW w
  PROVE  Places([line EXCEPT !.flag = "EXIT"], w) = Places(line, w)
  BY DEF Places, Line

LEMMA AccountedInit == Init => Accounted /\ Closing
<1> SUFFICES ASSUME Init, NEW w \in Workloads
             PROVE  asked[w] = answered[w] + Cardinality(Places(queue, w)) + Taken(w)
  BY DEF Init, Accounted, Closing
<1>1. Places(queue, w) = {}
  BY SizesAssumption DEF Init, Places, Offset, Positions
<1>2. Cardinality(Places(queue, w)) = 0
  BY <1>1, FS_EmptySet
<1> QED BY <1>2 DEF Init, Taken

\* A step that leaves the requests where they are.
LEMMA AccountedUntouched ==
  ASSUME Accounted, UNCHANGED <<asked, answered>>,
         \A w \in Workloads : Places(queue, w)' = Places(queue, w) /\ Taken(w)' = Taken(w)
  PROVE  Accounted'
  BY DEF Accounted

LEMMA AccountedKernel ==
  ASSUME TypeOK, Control, Lines, Accounted, NEW k \in Kernels, KernelStep(k) \/ WorkloadStep(k)
  PROVE  Accounted'
<1>1. CASE Push(k)
  <2>1. /\ copy[k] \in Line /\ Filled(copy[k]) /\ on[k] \in Workloads
        /\ queue = copy[k] \/ queue = [copy[k] EXCEPT !.flag = "EXIT"]
    BY <1>1, CopyFilled DEF Push, Lines, CopyCurrent, Control
  <2>2. /\ copy[k].count # QueueMax /\ queue' = Pushed(copy[k], on[k])
        /\ asked' = [asked EXCEPT ![on[k]] = asked[on[k]] + 1]
        /\ UNCHANGED <<answered, hpc, job>>
    BY <1>1 DEF Push, Put, handler
  <2> SUFFICES ASSUME NEW w \in Workloads
               PROVE  asked'[w] = answered'[w] + Cardinality(Places(queue, w)') + Taken(w)'
    BY DEF Accounted
  <2>3. Cardinality(Places(queue, w)) = Cardinality(Places(copy[k], w))
    BY <2>1, FlagPlaces
  <2>4. Cardinality(Places(Pushed(copy[k], on[k]), w)) =
          Cardinality(Places(queue, w)) + (IF w = on[k] THEN 1 ELSE 0)
    BY <2>1, <2>2, <2>3, PushedPlaces
  <2>5. Places(queue, w)' = Places(Pushed(copy[k], on[k]), w)
    BY <2>2 DEF Places
  <2>6. /\ asked[w] = answered[w] + Cardinality(Places(queue, w)) + Taken(w)
        /\ Taken(w)' = Taken(w) /\ answered'[w] = answered[w]
        /\ asked[w] \in Nat /\ answered[w] \in Nat /\ Taken(w) \in Nat
    BY <2>2 DEF Accounted, Taken, TypeOK
  <2>7. asked'[w] = asked[w] + (IF w = on[k] THEN 1 ELSE 0)
    BY <2>2, <2>6 DEF TypeOK
  <2>8. Cardinality(Places(queue, w)) \in Nat
    BY PlacesFinite
  <2> QED BY <2>4, <2>5, <2>6, <2>7, <2>8
<1>2. CASE PushFull(k)
  <2>1. /\ copy[k] \in Line
        /\ queue = copy[k] \/ queue = [copy[k] EXCEPT !.flag = "EXIT"]
    BY <1>2 DEF PushFull, Lines, CopyCurrent
  <2>2. queue' = copy[k] /\ UNCHANGED <<asked, answered, hpc, job>>
    BY <1>2 DEF PushFull, Put, handler, workload
  <2>3. \A w \in Workloads : Places(copy[k], w) = Places(queue, w)
    BY <2>1, FlagPlaces
  <2>4. \A w \in Workloads : Places(queue, w)' = Places(copy[k], w) /\ Taken(w)' = Taken(w)
    BY <2>2 DEF Places, Taken
  <2> QED BY <2>2, <2>3, <2>4, AccountedUntouched
<1>3. CASE ~ Push(k) /\ ~ PushFull(k)
  <2>1. UNCHANGED <<queue, asked, answered, hpc, job>>
    BY <1>3 DEF KernelStep, WorkloadStep, Reserve, GiveUp, Notify, Save, Return, MakeReady,
                Dispatch, PushLock, Finish, Release, workload, handler
  <2> QED BY <2>1, AccountedUntouched DEF Places, Taken
<1> QED BY <1>1, <1>2, <1>3

LEMMA AccountedHost ==
  ASSUME TypeOK, Control, Lines, Accounted,
         \/ HandlerStep \/ HandleEvent \/ Destroy \/ DestroyStep
         \/ \E w \in Workloads : ClientSignal(w) \/ Unschedule(w)
  PROVE  Accounted'
<1>1. CASE Pop /\ queue.count # 0
  <2>1. queue \in Line /\ queue.workload_id[queue.head] \in Workloads
    BY <1>1, PoppedLine DEF TypeOK, Lines
  <2>2. /\ queue' = Popped(queue) /\ hpc' = "spin" /\ job' = queue.workload_id[queue.head]
        /\ hpc = "pop" /\ UNCHANGED <<asked, answered>>
    BY <1>1 DEF Pop, workload
  <2> SUFFICES ASSUME NEW w \in Workloads
               PROVE  asked[w] = answered[w] + Cardinality(Places(queue, w)') + Taken(w)'
    BY <2>2 DEF Accounted
  <2>3. Places(queue, w)' = Places(Popped(queue), w)
    BY <2>2 DEF Places
  <2>4. Cardinality(Places(queue, w)) =
          Cardinality(Places(queue, w)') + (IF w = queue.workload_id[queue.head] THEN 1 ELSE 0)
    BY <1>1, <2>1, <2>3, PoppedPlaces
  <2>5. Taken(w) = 0 /\ Taken(w)' = IF w = queue.workload_id[queue.head] THEN 1 ELSE 0
    BY <2>2 DEF Taken
  <2>6. asked[w] = answered[w] + Cardinality(Places(queue, w)) + Taken(w) /\ answered[w] \in Nat
    BY DEF Accounted, TypeOK
  <2>7. Cardinality(Places(queue, w)') \in Nat
    BY <2>3, PlacesFinite
  <2> QED BY <2>4, <2>5, <2>6, <2>7
<1>2. CASE Callback
  <2>1. /\ job \in Workloads /\ hpc = "callback" /\ hpc' = "signal"
        /\ answered' = [answered EXCEPT ![job] = answered[job] + 1] /\ UNCHANGED <<queue, asked>>
    BY <1>2 DEF Callback, Control
  <2> SUFFICES ASSUME NEW w \in Workloads
               PROVE  asked[w] = answered'[w] + Cardinality(Places(queue, w)') + Taken(w)'
    BY <2>1 DEF Accounted
  <2>2. /\ asked[w] = answered[w] + Cardinality(Places(queue, w)) + Taken(w)
        /\ answered[w] \in Nat
    BY DEF Accounted, TypeOK
  <2>3. Cardinality(Places(queue, w)) \in Nat /\ Places(queue, w)' = Places(queue, w)
    BY <2>1, PlacesFinite DEF Places
  <2>4. Taken(w)' = 0 /\ Taken(w) = IF w = job THEN 1 ELSE 0
    BY <2>1 DEF Taken
  <2>5. answered'[w] = answered[w] + (IF w = job THEN 1 ELSE 0)
    BY <2>1, <2>2 DEF TypeOK
  <2> QED BY <2>2, <2>3, <2>4, <2>5
<1>3. CASE StoreExit
  <2>1. queue' = [queue EXCEPT !.flag = "EXIT"] /\ UNCHANGED <<asked, answered, hpc, job>>
    BY <1>3 DEF StoreExit, workload, handler
  <2>2. \A w \in Workloads : Places(queue, w)' = Places([queue EXCEPT !.flag = "EXIT"], w)
    BY <2>1 DEF Places
  <2>3. \A w \in Workloads : Places(queue, w)' = Places(queue, w)
    BY <2>2, FlagPlaces DEF TypeOK
  <2> QED BY <2>1, <2>3, AccountedUntouched DEF Taken
<1>4. CASE ~ (Pop /\ queue.count # 0) /\ ~ Callback /\ ~ StoreExit
  <2>1. UNCHANGED <<queue, asked, answered>>
    BY <1>4 DEF HandlerStep, Test, Pop, Begin, Signal, HandleEvent, Destroy, DestroyStep,
                BroadcastExit, KernelsGone, CheckEmpty, Join, ClientSignal, Unschedule, workload
  <2>2. \/ UNCHANGED <<hpc, job>>
        \/ hpc \notin {"spin", "callback"} /\ hpc' \notin {"spin", "callback"}
        \/ hpc = "spin" /\ hpc' = "callback" /\ job' = job
    BY <1>4 DEF HandlerStep, Test, Pop, Begin, Signal, HandleEvent, Destroy, DestroyStep, Awakened,
                BroadcastExit, KernelsGone, CheckEmpty, Join, ClientSignal, Unschedule, handler
  <2> QED BY <2>1, <2>2, AccountedUntouched DEF Places, Taken
<1> QED BY <1>1, <1>2, <1>3, <1>4

\* A kernel that is gone stays so, and with all gone nobody pushes.
LEMMA ClosingStep ==
  ASSUME TypeOK, Closing, [Next]_vars
  PROVE  Closing'
<1>1. CASE \E k \in Kernels : KernelStep(k) \/ WorkloadStep(k)
  <2>1. PICK k \in Kernels : KernelStep(k) \/ WorkloadStep(k)
    BY <1>1
  <2>2. kpc[k] # "gone" /\ UNCHANGED <<dpc, hpc>>
    BY <2>1 DEF KernelStep, WorkloadStep, Reserve, GiveUp, Notify, Save, Return, MakeReady,
                Dispatch, PushLock, PushFull, Push, Finish, Release, handler
  <2> QED BY <2>2 DEF Closing
<1>2. CASE HandlerStep \/ HandleEvent \/ \E w \in Workloads : ClientSignal(w) \/ Unschedule(w)
  <2>1. UNCHANGED <<dpc, kpc>>
    BY <1>2 DEF HandlerStep, Test, Pop, Begin, Callback, Signal, HandleEvent, ClientSignal,
                Unschedule, kernel
  <2>2. hpc = "ended" => hpc' = "ended"
    BY <1>2 DEF HandlerStep, Test, Pop, Begin, Callback, Signal, HandleEvent, Awakened,
                ClientSignal, Unschedule, handler
  <2>3. queue.count = 0 => queue' = queue
    BY <1>2 DEF HandlerStep, Test, Pop, Begin, Callback, Signal, HandleEvent, ClientSignal,
                Unschedule
  <2> QED BY <2>1, <2>2, <2>3 DEF Closing
<1>3. CASE Destroy \/ StoreExit \/ BroadcastExit
  BY <1>3 DEF Destroy, StoreExit, BroadcastExit, Closing
<1>4. CASE KernelsGone
  BY <1>4 DEF KernelsGone, kernel, Closing
<1>5. CASE CheckEmpty
  BY <1>5 DEF CheckEmpty, kernel, Closing
<1>6. CASE Join
  BY <1>6 DEF Join, kernel, handler, Closing
<1>7. CASE UNCHANGED vars
  BY <1>7 DEF vars, kernel, handler, Closing
<1> QED BY <1>1, <1>2, <1>3, <1>4, <1>5, <1>6, <1>7 DEF Next, DestroyStep

LEMMA AccountedStep == IInv /\ Accounted /\ Closing /\ [Next]_vars => Accounted' /\ Closing'
<1> SUFFICES ASSUME IInv, Accounted, Closing, [Next]_vars PROVE Accounted' /\ Closing'
  OBVIOUS
<1>1. Closing'
  BY ClosingStep DEF IInv
<1>2. CASE UNCHANGED vars
  BY <1>1, <1>2, AccountedUntouched DEF vars, workload, handler, Places, Taken
<1>3. CASE Next
  BY <1>1, <1>3, AccountedKernel, AccountedHost DEF IInv, Lines, Next
<1> QED BY <1>2, <1>3

LEMMA AlwaysAccounted == Spec => [](IInv /\ Accounted /\ Closing)
<1>1. Init => Accounted /\ Closing
  BY AccountedInit
<1> QED BY <1>1, Invariance, AccountedStep, PTL DEF Spec

\* When the context is destroyed every accepted call was answered
\* (callback_cell.c:233-237), whenever EXIT was stored and whoever was signalled
\* or unscheduled meanwhile.
THEOREM DestroyAnswersAll == Spec => []DestroyedAllAnswered
<1>1. IInv /\ Accounted /\ Closing => DestroyedAllAnswered
  <2> SUFFICES ASSUME IInv, Accounted, Closing, dpc = "destroyed" PROVE answered = asked
    BY DEF DestroyedAllAnswered
  <2>1. /\ asked \in [Workloads -> Nat] /\ answered \in [Workloads -> Nat]
        /\ queue.head \in Positions /\ queue.count = 0 /\ hpc = "ended"
    BY DEF IInv, TypeOK, Closing, Line
  <2>2. ASSUME NEW w \in Workloads PROVE answered[w] = asked[w]
    <3>1. Places(queue, w) = {}
      BY <2>1, SizesAssumption DEF Places, Offset, Positions
    <3>2. Cardinality(Places(queue, w)) = 0 /\ Taken(w) = 0
      BY <2>1, <3>1, FS_EmptySet DEF Taken
    <3> QED BY <2>1, <3>2 DEF Accounted
  <2> QED BY <2>1, <2>2
<1> QED BY <1>1, AlwaysAccounted, PTL

-----------------------------------------------------------------------------
(* A call blocks until its own callback has returned, if nobody else       *)
(* signals the caller.                                                     *)

Runs(k, w) == kpc[k] \in {"run", "push", "notify", "save", "woken"} /\ on[k] = w

\* A kernel that runs w knows how far w's call is.
RunOK(k, w) ==
  /\ state[w] \in {"RUNNING", "FINISHED"} /\ ~ signal[w]
  /\ hpc \in {"callback", "signal"} => job # w
  /\ inCall[w] <=> kpc[k] \in {"notify", "save", "woken"}
  /\ kpc[k] \in {"notify", "save"} =>
       area[k] = [call |-> asked[w], done |-> FALSE] /\ answered[w] # asked[w]
  /\ kpc[k] = "push" => area[k] = [call |-> asked[w] + 1, done |-> FALSE]
  /\ kpc[k] = "woken" =>
       area[k] = [call |-> asked[w], done |-> TRUE] /\ answered[w] = asked[w]

\* One call of a workload is open at a time; it is signalled once it was answered, and a
\* waiting workload's area in memory holds the arguments or the output of that call.
WorkloadOK(w) ==
  /\ ~ inCall[w] => answered[w] = asked[w]
  /\ answered[w] # asked[w] => answered[w] + 1 = asked[w]
  /\ signal[w] => inCall[w] /\ answered[w] = asked[w] /\ state[w] \in {"WAITING", "FINISHED"}
  /\ state[w] = "WAITING" =>
       /\ inCall[w]
       /\ answered[w] = asked[w] => ctx[w] = [call |-> asked[w], done |-> TRUE]
       /\ answered[w] # asked[w] => ctx[w] = [call |-> asked[w], done |-> FALSE]
  /\ state[w] = "READY" /\ inCall[w] =>
       answered[w] = asked[w] /\ ctx[w] = [call |-> asked[w], done |-> TRUE]

\* While the handler runs a callback its caller does not run; the signal it sends is
\* the only one.
HandlerOK ==
  /\ hpc = "spin" => answered[job] # asked[job]
  /\ hpc \in {"callback", "signal"} =>
       state[job] \in {"WAITING", "FINISHED"} /\ inCall[job] /\ ~ signal[job]
  /\ hpc = "callback" =>
       args = [call |-> asked[job], done |-> FALSE] /\ answered[job] # asked[job]
  /\ hpc = "signal" => answered[job] = asked[job]

KernelCalls ==
  \A k \in Kernels, w \in Workloads :
    Runs(k, w) => RunOK(k, w) /\ \A j \in Kernels : Runs(j, w) => j = k
WorkloadCalls == \A w \in Workloads : WorkloadOK(w)
CallInv == KernelCalls /\ WorkloadCalls /\ HandlerOK

LEMMA CallInit == Init => CallInv
  BY DEF Init, CallInv, KernelCalls, WorkloadCalls, HandlerOK, Runs, WorkloadOK

\* The steps change one kernel's and one workload's part of the state.
OnlyKernel(k) ==
  \A j \in Kernels : j # k => kpc'[j] = kpc[j] /\ on'[j] = on[j] /\ area'[j] = area[j]
OnlyWorkload(w) ==
  \A x \in Workloads : x # w =>
    /\ state'[x] = state[x] /\ signal'[x] = signal[x] /\ inCall'[x] = inCall[x]
    /\ ctx'[x] = ctx[x] /\ asked'[x] = asked[x] /\ answered'[x] = answered[x]

\* What is left to show of a kernel's step for a workload.
LEMMA KernelFrame ==
  ASSUME Control, CallInv, NEW k \in Kernels, NEW w \in Workloads,
         OnlyKernel(k), OnlyWorkload(w), UNCHANGED handler,
         \A j \in Kernels : Runs(j, w) => j = k,
         \A x \in Workloads : Runs(k, x)' => x = w,
         Runs(k, w)' => RunOK(k, w)',
         WorkloadOK(w)',
         hpc = "spin" /\ job = w => answered'[w] # asked'[w],
         hpc \in {"callback", "signal"} => job # w
  PROVE  CallInv'
<1>1. ASSUME NEW j \in Kernels, j # k, NEW x \in Workloads, Runs(j, x)'
      PROVE  Runs(j, x) /\ x # w
  BY <1>1 DEF OnlyKernel, Runs
<1>2. ASSUME NEW j \in Kernels, j # k, NEW x \in Workloads, Runs(j, x)'
      PROVE  RunOK(j, x)'
  <2>1. RunOK(j, x) /\ x # w
    BY <1>1, <1>2 DEF CallInv, KernelCalls
  <2>2. /\ kpc'[j] = kpc[j] /\ area'[j] = area[j] /\ hpc' = hpc /\ job' = job
        /\ state'[x] = state[x] /\ signal'[x] = signal[x] /\ inCall'[x] = inCall[x]
        /\ asked'[x] = asked[x] /\ answered'[x] = answered[x]
    BY <1>2, <2>1 DEF OnlyKernel, OnlyWorkload, handler
  <2> QED BY <2>1, <2>2 DEF RunOK
<1>3. ASSUME NEW i \in Kernels, NEW j \in Kernels, NEW x \in Workloads, Runs(i, x)', Runs(j, x)'
      PROVE  i = j
  BY <1>1, <1>3 DEF CallInv, KernelCalls
<1>4. KernelCalls'
  <2> SUFFICES ASSUME NEW j \in Kernels, NEW x \in Workloads, Runs(j, x)'
               PROVE  RunOK(j, x)' /\ \A i \in Kernels : Runs(i, x)' => i = j
    BY DEF KernelCalls
  <2>1. CASE j = k  BY <2>1, <1>3
  <2>2. CASE j # k  BY <2>2, <1>2, <1>3
  <2> QED BY <2>1, <2>2
<1>5. ASSUME NEW x \in Workloads PROVE WorkloadOK(x)'
  <2>1. CASE x = w  BY <2>1
  <2>2. CASE x # w
    <3>1. /\ state'[x] = state[x] /\ signal'[x] = signal[x] /\ inCall'[x] = inCall[x]
          /\ ctx'[x] = ctx[x] /\ asked'[x] = asked[x] /\ answered'[x] = answered[x]
      BY <2>2 DEF OnlyWorkload
    <3>2. WorkloadOK(x)
      BY DEF CallInv, WorkloadCalls
    <3> QED BY <3>1, <3>2 DEF WorkloadOK
  <2> QED BY <2>1, <2>2
<1>6. HandlerOK'
  <2>1. hpc' = hpc /\ job' = job /\ args' = args
    BY DEF handler
  <2>2. CASE hpc \in {"spin", "callback", "signal"} /\ job # w
    <3>1. job \in Workloads /\ HandlerOK
      BY <2>2 DEF Control, CallInv
    <3>2. /\ state'[job] = state[job] /\ signal'[job] = signal[job] /\ inCall'[job] = inCall[job]
          /\ asked'[job] = asked[job] /\ answered'[job] = answered[job]
      BY <2>2, <3>1 DEF OnlyWorkload
    <3> QED BY <2>1, <3>1, <3>2 DEF HandlerOK
  <2>3. CASE hpc = "spin" /\ job = w
    BY <2>1, <2>3 DEF HandlerOK
  <2>4. CASE hpc \notin {"spin", "callback", "signal"}
    BY <2>1, <2>4 DEF HandlerOK
  <2> QED BY <2>2, <2>3, <2>4
<1> QED BY <1>4, <1>5, <1>6 DEF CallInv, WorkloadCalls

\* What the invariant says of the workload a kernel runs.
LEMMA OfRunning ==
  ASSUME Control, CallInv, NEW k \in Kernels,
         kpc[k] \in {"run", "push", "notify", "save", "woken"}
  PROVE  /\ on[k] \in Workloads /\ RunOK(k, on[k]) /\ WorkloadOK(on[k])
         /\ \A j \in Kernels : Runs(j, on[k]) => j = k
  BY DEF Control, CallInv, KernelCalls, WorkloadCalls, Runs

\* A workload that waits or is ready is run by no kernel.
LEMMA OfResting ==
  ASSUME CallInv, NEW w \in Workloads, state[w] \in {"READY", "WAITING"}
  PROVE  WorkloadOK(w) /\ \A j \in Kernels : ~ Runs(j, w)
  BY DEF CallInv, KernelCalls, WorkloadCalls, RunOK

\* A kernel that gives a workload back, in whatever state.
LEMMA ReleaseCall ==
  ASSUME TypeOK, Control, CallInv, NEW k \in Kernels, NEW new,
         \/ kpc[k] = "save" /\ new = "WAITING"
         \/ kpc[k] = "run" /\ new = "FINISHED",
         Release(k, new)
  PROVE  CallInv'
<1>1. PICK w \in Workloads :
        w = on[k] /\ RunOK(k, w) /\ WorkloadOK(w) /\ \A j \in Kernels : Runs(j, w) => j = k
  BY OfRunning
<1>2. /\ OnlyKernel(k) /\ kpc'[k] = "free"
  BY DEF TypeOK, Release, Goto, OnlyKernel
<1>3. OnlyWorkload(w) /\ UNCHANGED <<signal, inCall, asked, answered, handler>>
  BY <1>1 DEF TypeOK, Release, OnlyWorkload
<1>4. /\ state[w] = "RUNNING" => state'[w] = new /\ ctx'[w] = area[k]
      /\ state[w] # "RUNNING" => state'[w] = state[w] /\ ctx'[w] = ctx[w]
  BY <1>1 DEF TypeOK, Release
<1>5. WorkloadOK(w)'
  <2>1. CASE state[w] = "RUNNING"
    BY <1>1, <1>3, <1>4, <2>1 DEF WorkloadOK, RunOK
  <2>2. CASE state[w] # "RUNNING"
    BY <1>1, <1>3, <1>4, <2>2 DEF WorkloadOK
  <2> QED BY <2>1, <2>2
<1>6. \A x \in Workloads : ~ Runs(k, x)'
  BY <1>2 DEF Runs
<1>7. /\ hpc = "spin" /\ job = w => answered'[w] # asked'[w]
      /\ hpc \in {"callback", "signal"} => job # w
  BY <1>1, <1>3 DEF CallInv, HandlerOK, RunOK
<1> QED BY <1>1, <1>2, <1>3, <1>5, <1>6, <1>7, KernelFrame

LEMMA CallKernel ==
  ASSUME TypeOK, Control, Lines, Accounted, CallInv, NEW k \in Kernels,
         KernelStep(k) \/ WorkloadStep(k)
  PROVE  CallInv'
<1>1. CASE Reserve(k) \/ GiveUp(k) \/ PushFull(k) \/ Notify(k)
  <2>1. /\ UNCHANGED <<on, area, workload, handler>>
        /\ \A j \in Kernels : j # k => kpc'[j] = kpc[j]
        /\ \/ kpc[k] \in {"free", "look"} /\ kpc'[k] \in {"free", "look", "gone"}
           \/ kpc[k] = "push" /\ kpc'[k] = "run"
           \/ kpc[k] = "notify" /\ kpc'[k] = "save"
    BY <1>1 DEF Reserve, GiveUp, PushFull, Notify, Goto, TypeOK
  <2>2. UNCHANGED <<on, area, state, signal, inCall, ctx, asked, answered, hpc, job, args>>
    BY <2>1 DEF workload, handler
  <2>3. ASSUME NEW j \in Kernels, NEW w \in Workloads, Runs(j, w)'
        PROVE  Runs(j, w) /\ (RunOK(j, w) => RunOK(j, w)')
    <3>1. CASE j = k   BY <2>1, <2>2, <2>3, <3>1 DEF Runs, RunOK
    <3>2. CASE j # k   BY <2>1, <2>2, <2>3, <3>2 DEF Runs, RunOK
    <3> QED BY <3>1, <3>2
  <2>4. KernelCalls'
    BY <2>3 DEF CallInv, KernelCalls
  <2>5. WorkloadCalls'
    BY <2>2 DEF CallInv, WorkloadCalls, WorkloadOK
  <2>6. HandlerOK'
    BY <2>2 DEF CallInv, HandlerOK
  <2> QED BY <2>4, <2>5, <2>6 DEF CallInv
<1>2. CASE Push(k)
  <2>1. PICK w \in Workloads :
          w = on[k] /\ RunOK(k, w) /\ WorkloadOK(w) /\ \A j \in Kernels : Runs(j, w) => j = k
    BY <1>2, OfRunning DEF Push
  <2>2. /\ OnlyKernel(k) /\ kpc[k] = "push" /\ kpc'[k] = "notify" /\ on'[k] = w /\ area'[k] = area[k]
    BY <1>2, <2>1 DEF TypeOK, Push, Goto, OnlyKernel
  <2>3. /\ OnlyWorkload(w) /\ inCall'[w] = TRUE /\ asked'[w] = asked[w] + 1
        /\ UNCHANGED <<state, signal, ctx, answered, hpc, job, args>>
    BY <1>2, <2>1 DEF TypeOK, Push, OnlyWorkload, handler
  <2>4. asked[w] \in Nat /\ ~ inCall[w] /\ answered[w] = asked[w]
    BY <2>1, <2>2 DEF TypeOK, RunOK, WorkloadOK
  <2>5. WorkloadOK(w)'
    BY <2>1, <2>3, <2>4 DEF WorkloadOK, RunOK
  <2>6. RunOK(k, w)' /\ \A x \in Workloads : Runs(k, x)' => x = w
    BY <2>1, <2>2, <2>3, <2>4 DEF RunOK, Runs
  <2>7. /\ hpc = "spin" /\ job = w => answered'[w] # asked'[w]
        /\ hpc \in {"callback", "signal"} => job # w
        /\ UNCHANGED handler
    BY <2>1, <2>3, <2>4 DEF RunOK, handler
  <2> QED BY <2>1, <2>2, <2>3, <2>5, <2>6, <2>7, KernelFrame
<1>3. CASE Save(k)
  BY <1>3, ReleaseCall DEF Save
<1>4. CASE Return(k)
  <2>1. PICK w \in Workloads :
          w = on[k] /\ RunOK(k, w) /\ WorkloadOK(w) /\ \A j \in Kernels : Runs(j, w) => j = k
    BY <1>4, OfRunning DEF Return
  <2>2. /\ OnlyKernel(k) /\ kpc[k] = "woken" /\ kpc'[k] = "run" /\ on'[k] = w
    BY <1>4, <2>1 DEF TypeOK, Return, Goto, OnlyKernel
  <2>3. /\ OnlyWorkload(w) /\ inCall'[w] = FALSE /\ signal'[w] = FALSE
        /\ UNCHANGED <<state, ctx, asked, answered, hpc, job, args>>
    BY <1>4, <2>1 DEF TypeOK, Return, OnlyWorkload, handler
  <2>4. answered[w] = asked[w] /\ (hpc \in {"callback", "signal"} => job # w)
        /\ state[w] \in {"RUNNING", "FINISHED"}
    BY <2>1, <2>2 DEF RunOK
  <2>5. WorkloadOK(w)'
    BY <2>3, <2>4 DEF WorkloadOK
  <2>6. RunOK(k, w)' /\ \A x \in Workloads : Runs(k, x)' => x = w
    BY <2>2, <2>3, <2>4 DEF RunOK, Runs
  <2>7. /\ hpc = "spin" /\ job = w => answered'[w] # asked'[w]
        /\ hpc \in {"callback", "signal"} => job # w
        /\ UNCHANGED handler
    BY <2>3, <2>4 DEF CallInv, HandlerOK, handler
  <2> QED BY <2>1, <2>2, <2>3, <2>5, <2>6, <2>7, KernelFrame
<1>5. ASSUME NEW w \in Workloads, MakeReady(k, w) PROVE CallInv'
  <2>1. /\ WorkloadOK(w) /\ \A j \in Kernels : ~ Runs(j, w)
    BY <1>5, OfResting DEF MakeReady
  <2>2. OnlyKernel(k) /\ UNCHANGED <<kpc, on, area>> /\ kpc[k] = "look"
    BY <1>5 DEF MakeReady, kernel, OnlyKernel
  <2>3. /\ OnlyWorkload(w) /\ state'[w] = "READY" /\ signal'[w] = FALSE
        /\ signal[w] /\ state[w] = "WAITING"
        /\ UNCHANGED <<inCall, ctx, asked, answered, hpc, job, args>>
    BY <1>5 DEF TypeOK, MakeReady, OnlyWorkload, handler
  <2>4. answered[w] = asked[w] /\ inCall[w] /\ ctx[w] = [call |-> asked[w], done |-> TRUE]
    BY <2>1, <2>3 DEF WorkloadOK
  <2>5. WorkloadOK(w)'
    BY <2>3, <2>4 DEF WorkloadOK
  <2>6. \A x \in Workloads : ~ Runs(k, x)'
    BY <2>2 DEF Runs
  <2>7. /\ hpc = "spin" /\ job = w => answered'[w] # asked'[w]
        /\ hpc \in {"callback", "signal"} => job # w
        /\ UNCHANGED handler
    BY <2>3 DEF CallInv, HandlerOK, handler
  <2> QED BY <2>1, <2>2, <2>3, <2>5, <2>6, <2>7, KernelFrame
<1>6. ASSUME NEW w \in Workloads, Dispatch(k, w) PROVE CallInv'
  <2>1. /\ WorkloadOK(w) /\ \A j \in Kernels : ~ Runs(j, w)
    BY <1>6, OfResting DEF Dispatch
  <2>2. /\ OnlyKernel(k) /\ kpc'[k] = (IF inCall[w] THEN "woken" ELSE "run")
        /\ on'[k] = w /\ area'[k] = ctx[w]
    BY <1>6 DEF TypeOK, Dispatch, Goto, OnlyKernel
  <2>3. /\ OnlyWorkload(w) /\ state[w] = "READY" /\ state'[w] = "RUNNING"
        /\ UNCHANGED <<signal, inCall, ctx, asked, answered, hpc, job, args>>
    BY <1>6 DEF TypeOK, Dispatch, OnlyWorkload, handler
  <2>4. /\ ~ signal[w]
        /\ inCall[w] => answered[w] = asked[w] /\ ctx[w] = [call |-> asked[w], done |-> TRUE]
        /\ hpc \in {"callback", "signal"} => job # w
    BY <2>1, <2>3 DEF WorkloadOK, CallInv, HandlerOK
  <2>5. WorkloadOK(w)'
    BY <2>1, <2>3, <2>4 DEF WorkloadOK
  <2>6. RunOK(k, w)' /\ \A x \in Workloads : Runs(k, x)' => x = w
    <3>1. CASE inCall[w]    BY <2>2, <2>3, <2>4, <3>1 DEF RunOK, Runs
    <3>2. CASE ~ inCall[w]  BY <2>2, <2>3, <2>4, <3>2 DEF RunOK, Runs
    <3> QED BY <3>1, <3>2
  <2>7. /\ hpc = "spin" /\ job = w => answered'[w] # asked'[w]
        /\ UNCHANGED handler
    BY <2>3 DEF CallInv, HandlerOK, handler
  <2> QED BY <2>1, <2>2, <2>3, <2>4, <2>5, <2>6, <2>7, KernelFrame
<1>7. CASE PushLock(k)
  <2>1. PICK w \in Workloads :
          w = on[k] /\ RunOK(k, w) /\ WorkloadOK(w) /\ \A j \in Kernels : Runs(j, w) => j = k
    BY <1>7, OfRunning DEF PushLock
  <2>2. /\ OnlyKernel(k) /\ kpc[k] = "run" /\ kpc'[k] = "push" /\ on'[k] = w
        /\ area'[k] = [call |-> asked[w] + 1, done |-> FALSE]
    BY <1>7, <2>1 DEF TypeOK, PushLock, Goto, OnlyKernel
  <2>3. UNCHANGED <<state, signal, inCall, ctx, asked, answered, hpc, job, args>>
    BY <1>7 DEF PushLock, workload, handler
  <2>4. WorkloadOK(w)' /\ OnlyWorkload(w)
    BY <2>1, <2>3 DEF WorkloadOK, OnlyWorkload
  <2>5. RunOK(k, w)' /\ \A x \in Workloads : Runs(k, x)' => x = w
    BY <2>1, <2>2, <2>3 DEF RunOK, Runs
  <2>6. /\ hpc = "spin" /\ job = w => answered'[w] # asked'[w]
        /\ hpc \in {"callback", "signal"} => job # w
        /\ UNCHANGED handler
    BY <2>1, <2>3 DEF CallInv, HandlerOK, RunOK, handler
  <2> QED BY <2>1, <2>2, <2>3, <2>4, <2>5, <2>6, KernelFrame
<1>8. CASE Finish(k)
  BY <1>8, ReleaseCall DEF Finish
<1> QED BY <1>1, <1>2, <1>3, <1>4, <1>5, <1>6, <1>7, <1>8 DEF KernelStep, WorkloadStep

\* A popped request was asked for and is not answered.
LEMMA PoppedOpen ==
  ASSUME TypeOK, Lines, Accounted, queue.count # 0
  PROVE  LET w == queue.workload_id[queue.head]
         IN  w \in Workloads /\ answered[w] # asked[w]
<1> DEFINE w == queue.workload_id[queue.head]
<1>1. queue \in Line /\ w \in Workloads
  BY PoppedLine DEF TypeOK, Lines
<1> HIDE DEF w
<1>2. Cardinality(Places(queue, w)) = Cardinality(Places(Popped(queue), w)) + 1
  BY <1>1, PoppedPlaces DEF w
<1>3. Cardinality(Places(Popped(queue), w)) \in Nat /\ answered[w] \in Nat /\ Taken(w) \in Nat
  BY <1>1, PlacesFinite DEF TypeOK, Taken
<1>4. asked[w] = answered[w] + Cardinality(Places(queue, w)) + Taken(w)
  BY <1>1 DEF Accounted
<1>5. answered[w] # asked[w]
  BY <1>2, <1>3, <1>4
<1> QED BY <1>1, <1>5 DEF w

\* A step of the host that leaves the kernels and workloads alone, and does not
\* enter or leave a callback.
LEMMA HostFrame ==
  ASSUME CallInv, UNCHANGED <<kernel, workload>>,
         hpc' \in {"callback", "signal"} => hpc' = hpc /\ job' = job /\ args' = args,
         hpc' = "spin" => answered[job'] # asked[job']
  PROVE  CallInv'
<1>1. UNCHANGED <<kpc, on, area, state, signal, inCall, ctx, asked, answered>>
  BY DEF kernel, workload
<1>2. ASSUME NEW k \in Kernels, NEW w \in Workloads
      PROVE  Runs(k, w)' = Runs(k, w) /\ (RunOK(k, w) => RunOK(k, w)')
  BY <1>1 DEF Runs, RunOK
<1>3. KernelCalls'
  BY <1>2 DEF CallInv, KernelCalls
<1>4. WorkloadCalls'
  BY <1>1 DEF CallInv, WorkloadCalls, WorkloadOK
<1>5. HandlerOK'
  BY <1>1 DEF CallInv, HandlerOK
<1> QED BY <1>3, <1>4, <1>5 DEF CallInv

\* A step that changes what is known of workload w, run by no kernel that would
\* notice, while the handler does something for it.
LEMMA WorkloadFrame ==
  ASSUME CallInv, NEW w \in Workloads, UNCHANGED kernel, OnlyWorkload(w),
         \A k \in Kernels : ~ Runs(k, w),
         hpc' \in {"callback", "signal"} => job' = w,
         WorkloadOK(w)', HandlerOK'
  PROVE  CallInv'
<1>1. UNCHANGED <<kpc, on, area>>
  BY DEF kernel
<1>2. ASSUME NEW k \in Kernels, NEW x \in Workloads, Runs(k, x)'
      PROVE  RunOK(k, x)' /\ \A j \in Kernels : Runs(j, x)' => j = k
  <2>1. \A j \in Kernels : Runs(j, x)' = Runs(j, x)
    BY <1>1 DEF Runs
  <2>2. RunOK(k, x) /\ x # w /\ \A j \in Kernels : Runs(j, x) => j = k
    BY <1>2, <2>1 DEF CallInv, KernelCalls
  <2>3. /\ state'[x] = state[x] /\ signal'[x] = signal[x] /\ inCall'[x] = inCall[x]
        /\ asked'[x] = asked[x] /\ answered'[x] = answered[x]
    BY <2>2 DEF OnlyWorkload
  <2>4. RunOK(k, x)'
    BY <1>1, <2>2, <2>3 DEF RunOK
  <2> QED BY <2>1, <2>2, <2>4
<1>3. ASSUME NEW x \in Workloads PROVE WorkloadOK(x)'
  <2>1. CASE x = w  BY <2>1
  <2>2. CASE x # w
    <3>1. /\ state'[x] = state[x] /\ signal'[x] = signal[x] /\ inCall'[x] = inCall[x]
          /\ ctx'[x] = ctx[x] /\ asked'[x] = asked[x] /\ answered'[x] = answered[x]
      BY <2>2 DEF OnlyWorkload
    <3>2. WorkloadOK(x)
      BY DEF CallInv, WorkloadCalls
    <3> QED BY <3>1, <3>2 DEF WorkloadOK
  <2> QED BY <2>1, <2>2
<1>4. KernelCalls'
  BY <1>2 DEF KernelCalls
<1> QED BY <1>3, <1>4 DEF CallInv, WorkloadCalls

\* The handler's steps for the request it has taken.
LEMMA CallAnswer ==
  ASSUME TypeOK, Control, CallInv, Begin \/ Callback \/ Signal
  PROVE  CallInv'
<1>1. PICK w \in Workloads : w = job
  BY DEF Control, Begin, Callback, Signal
<1>2. WorkloadOK(w) /\ HandlerOK
  BY DEF CallInv, WorkloadCalls
<1>3. CASE Begin
  <2>1. /\ hpc = "spin" /\ hpc' = "callback" /\ job' = job /\ args' = ctx[w]
        /\ state[w] = "WAITING" /\ UNCHANGED <<kernel, state, signal, inCall, ctx, asked, answered>>
    BY <1>1, <1>3 DEF Begin, workload
  <2>2. /\ answered[w] # asked[w] /\ inCall[w] /\ ~ signal[w]
        /\ ctx[w] = [call |-> asked[w], done |-> FALSE]
    BY <1>1, <1>2, <2>1 DEF HandlerOK, WorkloadOK
  <2>3. WorkloadOK(w)' /\ OnlyWorkload(w)
    BY <1>2, <2>1 DEF WorkloadOK, OnlyWorkload
  <2>4. HandlerOK'
    BY <1>1, <2>1, <2>2 DEF HandlerOK
  <2>5. \A k \in Kernels : ~ Runs(k, w)
    BY <2>1, OfResting
  <2> QED BY <1>1, <2>1, <2>3, <2>4, <2>5, WorkloadFrame
<1>4. CASE Callback
  <2>1. /\ hpc = "callback" /\ hpc' = "signal" /\ job' = job
        /\ UNCHANGED <<kernel, state, signal, inCall, asked>>
        /\ ctx'[w] = [args EXCEPT !.done = TRUE] /\ answered'[w] = answered[w] + 1
        /\ OnlyWorkload(w)
    BY <1>1, <1>4 DEF Callback, TypeOK, OnlyWorkload
  <2>2. /\ answered[w] + 1 = asked[w] /\ inCall[w] /\ ~ signal[w]
        /\ state[w] \in {"WAITING", "FINISHED"} /\ args = [call |-> asked[w], done |-> FALSE]
    BY <1>1, <1>2, <2>1 DEF HandlerOK, WorkloadOK
  <2>3. [args EXCEPT !.done = TRUE] = [call |-> asked[w], done |-> TRUE]
    <3> DEFINE new == [args EXCEPT !.done = TRUE]
    <3>1. new \in Area /\ new.call = asked[w] /\ new.done = TRUE
      BY <2>2 DEF TypeOK, Area
    <3> HIDE DEF new
    <3>2. new = [call |-> new.call, done |-> new.done]
      BY <3>1 DEF Area
    <3> QED BY <3>1, <3>2 DEF new
  <2>4. WorkloadOK(w)'
    BY <2>1, <2>2, <2>3 DEF WorkloadOK
  <2>5. HandlerOK'
    BY <1>1, <2>1, <2>2 DEF HandlerOK
  <2>6. \A k \in Kernels : ~ Runs(k, w)
    BY <1>1, <2>1 DEF CallInv, KernelCalls, RunOK
  <2> QED BY <1>1, <2>1, <2>4, <2>5, <2>6, WorkloadFrame
<1>5. CASE Signal
  <2>1. /\ hpc = "signal" /\ hpc' = "test"
        /\ UNCHANGED <<kernel, state, inCall, ctx, asked, answered>>
        /\ signal'[w] = TRUE /\ OnlyWorkload(w)
    BY <1>1, <1>5 DEF Signal, TypeOK, OnlyWorkload
  <2>2. answered[w] = asked[w] /\ inCall[w] /\ state[w] \in {"WAITING", "FINISHED"}
    BY <1>1, <1>2, <2>1 DEF HandlerOK
  <2>3. WorkloadOK(w)'
    BY <1>2, <2>1, <2>2 DEF WorkloadOK
  <2>4. HandlerOK'
    BY <2>1 DEF HandlerOK
  <2>5. \A k \in Kernels : ~ Runs(k, w)
    BY <1>1, <2>1 DEF CallInv, KernelCalls, RunOK
  <2> QED BY <2>1, <2>3, <2>4, <2>5, WorkloadFrame
<1> QED BY <1>3, <1>4, <1>5

\* Unscheduled, a workload is run on by its kernel, and its open call stays open.
LEMMA CallUnschedule ==
  ASSUME TypeOK, CallInv, NEW w \in Workloads, Unschedule(w)
  PROVE  CallInv'
<1>1. /\ UNCHANGED <<kpc, on, area, signal, inCall, ctx, asked, answered, hpc, job, args>>
      /\ state'[w] = "FINISHED" /\ \A x \in Workloads : x # w => state'[x] = state[x]
  BY DEF Unschedule, TypeOK, kernel, handler
<1>2. ASSUME NEW k \in Kernels, NEW x \in Workloads
      PROVE  Runs(k, x)' = Runs(k, x) /\ (RunOK(k, x) => RunOK(k, x)')
  BY <1>1 DEF Runs, RunOK
<1>3. KernelCalls'
  BY <1>2 DEF CallInv, KernelCalls
<1>4. ASSUME NEW x \in Workloads PROVE WorkloadOK(x)'
  <2>1. WorkloadOK(x)
    BY DEF CallInv, WorkloadCalls
  <2>2. CASE x = w  BY <1>1, <2>1, <2>2 DEF WorkloadOK
  <2>3. CASE x # w  BY <1>1, <2>1, <2>3 DEF WorkloadOK
  <2> QED BY <2>2, <2>3
<1>5. HandlerOK'
  <2>1. hpc \in {"callback", "signal"} => state'[job] \in {"WAITING", "FINISHED"}
    <3>1. state' = [state EXCEPT ![w] = "FINISHED"]
      BY DEF Unschedule
    <3> SUFFICES ASSUME hpc \in {"callback", "signal"}
                 PROVE  state'[job] \in {"WAITING", "FINISHED"}
      OBVIOUS
    <3>2. state[job] \in {"WAITING", "FINISHED"}
      BY DEF CallInv, HandlerOK
    <3> QED BY <3>1, <3>2 DEF TypeOK
  <2> QED BY <1>1, <2>1 DEF CallInv, HandlerOK
<1> QED BY <1>3, <1>4, <1>5 DEF CallInv, WorkloadCalls

LEMMA CallHost ==
  ASSUME "signal" \notin ClientOps, TypeOK, Control, Lines, Accounted, CallInv,
         \/ HandlerStep \/ HandleEvent \/ Destroy \/ DestroyStep
         \/ \E w \in Workloads : ClientSignal(w) \/ Unschedule(w)
  PROVE  CallInv'
<1>1. CASE Pop /\ queue.count # 0
  <2>1. /\ hpc' = "spin" /\ job' = queue.workload_id[queue.head]
        /\ UNCHANGED <<kernel, workload>>
    BY <1>1 DEF Pop
  <2>2. answered[job'] # asked[job']
    BY <1>1, <2>1, PoppedOpen
  <2> QED BY <2>1, <2>2, HostFrame
<1>2. CASE Begin \/ Callback \/ Signal
  BY <1>2, CallAnswer
<1>3. CASE \E w \in Workloads : Unschedule(w)
  BY <1>3, CallUnschedule
<1>4. CASE \/ Test \/ (Pop /\ queue.count = 0) \/ HandleEvent \/ Destroy \/ DestroyStep
  <2>1. UNCHANGED <<kernel, workload>>
    BY <1>4 DEF Test, Pop, HandleEvent, Destroy, DestroyStep, StoreExit, BroadcastExit,
                KernelsGone, CheckEmpty, Join
  <2>2. \/ UNCHANGED handler
        \/ hpc' \notin {"spin", "callback", "signal"}
        \/ UNCHANGED <<hpc, job, args>>
    BY <1>4 DEF Test, Pop, HandleEvent, Destroy, DestroyStep, StoreExit, BroadcastExit,
                KernelsGone, CheckEmpty, Join, Awakened
  <2>3. hpc' \in {"spin", "callback", "signal"} => hpc' = hpc /\ job' = job /\ args' = args
    BY <2>2 DEF handler
  <2>4. hpc' = "spin" => answered[job'] # asked[job']
    BY <2>3 DEF CallInv, HandlerOK
  <2> QED BY <2>1, <2>3, <2>4, HostFrame
<1> QED BY <1>1, <1>2, <1>3, <1>4 DEF HandlerStep, ClientSignal, Pop

\* The calls' invariant, as long as no client signals a caller.
LEMMA CallStep ==
  ASSUME "signal" \notin ClientOps
  PROVE  IInv /\ Accounted /\ CallInv /\ [Next]_vars => CallInv'
<1> SUFFICES ASSUME IInv, Accounted, CallInv, [Next]_vars PROVE CallInv'
  OBVIOUS
<1>1. CASE UNCHANGED vars
  <2>1. UNCHANGED <<kernel, workload, hpc, job, args>>
    BY <1>1 DEF vars, handler
  <2>2. hpc' = "spin" => answered[job'] # asked[job']
    BY <2>1 DEF CallInv, HandlerOK
  <2> QED BY <2>1, <2>2, HostFrame
<1>2. CASE Next
  BY <1>2, CallKernel, CallHost DEF IInv, Lines, Next
<1> QED BY <1>1, <1>2

LEMMA AlwaysCalls ==
  ASSUME "signal" \notin ClientOps
  PROVE  Spec => [](IInv /\ Accounted /\ CallInv)
<1>1. Init => CallInv
  BY CallInit
<1>2. IInv /\ Accounted /\ CallInv /\ [Next]_vars => CallInv'
  BY CallStep
<1> QED BY <1>1, <1>2, AlwaysAccounted, PTL DEF Spec

\* "This function will block until the requested host callback function returns"
\* (include/spu/mars/task.h:238) holds of programs in which nobody else signals a
\* caller, unscheduled and destroyed as they may be; with a foreign signal it does not.
THEOREM CallsBlock ==
  ASSUME "signal" \notin ClientOps
  PROVE  Spec => []BlocksUntilReturn
<1>1. IInv /\ Accounted /\ CallInv => BlocksUntilReturn
  <2> SUFFICES ASSUME IInv, CallInv, NEW k \in Kernels, kpc[k] = "woken"
               PROVE  area[k] = [call |-> asked[on[k]], done |-> TRUE]
    BY DEF BlocksUntilReturn
  <2>1. RunOK(k, on[k])
    BY OfRunning DEF IInv
  <2> QED BY <2>1 DEF RunOK
<1> QED BY <1>1, AlwaysCalls, PTL

-----------------------------------------------------------------------------
(* The calls are served in order: the refinement of RemoteCall.            *)

\* The requests of a line, and the refinement mapping's other two.
RequestsOf(line) == [i \in 1 .. line.count |-> line.workload_id[(line.head + i - 1) % QueueMax]]
Serving == IF hpc \in {"spin", "callback"} THEN job ELSE NoWorkload
Status == [w \in Workloads |-> IF ~ inCall[w] THEN "running"
                               ELSE IF answered[w] < asked[w] THEN "called"
                               ELSE "answered"]

\* The i-th position behind a position.
LEMMA PositionBehind ==
  ASSUME NEW h \in Positions, NEW i \in 0 .. QueueMax
  PROVE  /\ (h + i) % QueueMax = IF h + i < QueueMax THEN h + i ELSE h + i - QueueMax
         /\ (h + i) % QueueMax \in Positions
<1>1. CASE h + i < QueueMax
  <2>1. h + i \in 0 .. QueueMax - 1
    BY <1>1, SizesAssumption DEF Positions
  <2>2. (h + i) % QueueMax = h + i
    BY <2>1, SizesAssumption
  <2> QED BY <1>1, <2>1, <2>2 DEF Positions
<1>2. CASE ~ h + i < QueueMax
  <2>1. h + i \in QueueMax .. 2 * QueueMax - 1
    BY <1>2, SizesAssumption DEF Positions
  <2>2. (h + i) % QueueMax = h + i - QueueMax
    BY <2>1, SizesAssumption DEF Positions
  <2> QED BY <1>2, <2>1, <2>2, SizesAssumption DEF Positions
<1> QED BY <1>1, <1>2

\* The i-th request is i - 1 positions behind the head, and is a workload.
LEMMA RequestPosition ==
  ASSUME NEW line \in Line, Filled(line), NEW i \in 1 .. line.count
  PROVE  LET p == (line.head + i - 1) % QueueMax
         IN  /\ p \in Positions /\ Offset(line.head, p) = i - 1
             /\ line.workload_id[p] \in Workloads
<1> DEFINE p == (line.head + i - 1) % QueueMax
<1>1. line.head \in Positions /\ line.count \in 0 .. QueueMax /\ i - 1 \in 0 .. QueueMax
  BY SizesAssumption DEF Line
<1>2. line.head + i - 1 = line.head + (i - 1)
  BY <1>1, SizesAssumption DEF Positions
<1>3. /\ p \in Positions
      /\ p = IF line.head + (i - 1) < QueueMax THEN line.head + (i - 1)
             ELSE line.head + (i - 1) - QueueMax
  BY <1>1, <1>2, PositionBehind
<1> HIDE DEF p
<1>4. Offset(line.head, p) = i - 1
  BY <1>1, <1>3, SizesAssumption DEF Offset, Positions
<1>5. line.workload_id[p] \in Workloads
  BY <1>1, <1>3, <1>4, SizesAssumption DEF Filled
<1> QED BY <1>3, <1>4, <1>5 DEF p

LEMMA RequestsSeq ==
  ASSUME NEW line \in Line, Filled(line)
  PROVE  RequestsOf(line) \in Seq(Workloads) /\ Len(RequestsOf(line)) = line.count
<1>1. line.count \in Nat
  BY SizesAssumption DEF Line
<1>2. RequestsOf(line) \in [1 .. line.count -> Workloads]
  BY RequestPosition DEF RequestsOf
<1> QED BY <1>1, <1>2

\* A push appends the pusher.
LEMMA PushedRequests ==
  ASSUME NEW line \in Line, NEW w \in Workloads, line.count # QueueMax, Filled(line)
  PROVE  RequestsOf(Pushed(line, w)) = Append(RequestsOf(line), w)
<1> DEFINE new == Pushed(line, w)  h == line.head  c == line.count  t == line.tail
<1>1. /\ c \in 0 .. QueueMax /\ h \in Positions /\ t \in Positions
      /\ line.workload_id \in [Positions -> Workloads \union {NoWorkload}]
      /\ Behind(h, c, t)
  BY DEF Line, Filled
<1>2. /\ new.count = c + 1 /\ new.head = h
      /\ new.workload_id = [line.workload_id EXCEPT ![t] = w]
  BY DEF Pushed, Line
<1>3. new \in Line /\ Filled(new)
  BY PushedLine
<1>4. /\ RequestsOf(line) \in Seq(Workloads) /\ Len(RequestsOf(line)) = c
      /\ RequestsOf(new) \in Seq(Workloads) /\ Len(RequestsOf(new)) = c + 1
  BY <1>2, <1>3, RequestsSeq
<1>5. c \in Nat
  BY <1>1, SizesAssumption
<1> HIDE DEF new
<1>6. ASSUME NEW i \in 1 .. c
      PROVE  RequestsOf(new)[i] = RequestsOf(line)[i]
  <2>1. /\ (h + i - 1) % QueueMax \in Positions
        /\ Offset(h, (h + i - 1) % QueueMax) = i - 1
    BY RequestPosition
  <2>2. Offset(h, t) = c
    BY <1>1, PushOffset
  <2>3. (h + i - 1) % QueueMax # t
    BY <1>5, <2>1, <2>2
  <2>4. i \in 1 .. c + 1
    BY <1>5
  <2> QED BY <1>1, <1>2, <2>1, <2>3, <2>4 DEF RequestsOf
<1>7. RequestsOf(new)[c + 1] = w
  <2>1. h + (c + 1) - 1 = h + c
    BY <1>1, SizesAssumption DEF Positions
  <2>2. (h + c) % QueueMax = t
    <3>1. (h + c) % QueueMax = IF h + c < QueueMax THEN h + c ELSE h + c - QueueMax
      BY <1>1, PositionBehind
    <3> QED BY <1>1, <3>1, SizesAssumption DEF Behind, Positions
  <2>3. c + 1 \in 1 .. c + 1
    BY <1>5
  <2> QED BY <1>1, <1>2, <2>1, <2>2, <2>3 DEF RequestsOf
<1>8. /\ Append(RequestsOf(line), w) \in Seq(Workloads)
      /\ Len(Append(RequestsOf(line), w)) = c + 1
      /\ \A i \in 1 .. c + 1 :
           Append(RequestsOf(line), w)[i] = IF i = c + 1 THEN w ELSE RequestsOf(line)[i]
  BY <1>4, <1>5
<1>9. \A i \in 1 .. c + 1 : RequestsOf(new)[i] = Append(RequestsOf(line), w)[i]
  BY <1>5, <1>6, <1>7, <1>8
<1> QED BY <1>4, <1>8, <1>9 DEF new

\* A pop takes the first.
LEMMA PoppedRequests ==
  ASSUME NEW line \in Line, line.count # 0, Filled(line), Flagged(line)
  PROVE  /\ RequestsOf(line) # << >>
         /\ Head(RequestsOf(line)) = line.workload_id[line.head]
         /\ RequestsOf(Popped(line)) = Tail(RequestsOf(line))
<1> DEFINE new == Popped(line)  h == line.head  c == line.count
<1>1. c \in 0 .. QueueMax /\ h \in Positions
  BY DEF Line
<1>2. new.count = c - 1 /\ new.head = Wrap(h + 1) /\ new.workload_id = line.workload_id
  BY DEF Popped, Line
<1>3. new \in Line /\ Filled(new)
  BY PoppedLine
<1>4. /\ RequestsOf(line) \in Seq(Workloads) /\ Len(RequestsOf(line)) = c
      /\ RequestsOf(new) \in Seq(Workloads) /\ Len(RequestsOf(new)) = c - 1
  BY <1>2, <1>3, RequestsSeq
<1>5. c \in Nat \ {0}
  BY <1>1, SizesAssumption
<1> HIDE DEF new
<1>6. ASSUME NEW i \in 1 .. c - 1
      PROVE  RequestsOf(new)[i] = RequestsOf(line)[i + 1]
  <2>1. i + 1 \in 1 .. c /\ i - 1 \in 0 .. QueueMax /\ i \in 0 .. QueueMax
    BY <1>1, <1>5, SizesAssumption
  <2>2. Wrap(h + 1) \in Positions
    BY <1>1, WrapPosition
  <2>3. (Wrap(h + 1) + (i - 1)) % QueueMax = (h + i) % QueueMax
    <3>1. CASE h + 1 = QueueMax
      <4>1. Wrap(h + 1) = 0
        BY <3>1 DEF Wrap
      <4>2. (h + i) % QueueMax = IF h + i < QueueMax THEN h + i ELSE h + i - QueueMax
        BY <1>1, <2>1, PositionBehind
      <4>3. (h + i) % QueueMax = i - 1
        BY <1>1, <2>1, <3>1, <4>2, SizesAssumption DEF Positions
      <4>4. i - 1 \in 0 .. QueueMax - 1
        BY <1>1, <1>5, SizesAssumption
      <4>5. (i - 1) % QueueMax = i - 1 /\ 0 + (i - 1) = i - 1
        BY <4>4, SizesAssumption
      <4> QED BY <4>1, <4>3, <4>5
    <3>2. CASE h + 1 # QueueMax
      <4>1. Wrap(h + 1) = h + 1
        BY <3>2 DEF Wrap
      <4>2. h + 1 + (i - 1) = h + i
        BY <1>1, <2>1, SizesAssumption DEF Positions
      <4> QED BY <4>1, <4>2
    <3> QED BY <3>1, <3>2
  <2>4. /\ Wrap(h + 1) + i - 1 = Wrap(h + 1) + (i - 1)
        /\ h + (i + 1) - 1 = h + i
    BY <1>1, <2>1, <2>2, SizesAssumption DEF Positions
  <2> QED BY <1>2, <2>1, <2>3, <2>4 DEF RequestsOf
<1>7. Head(RequestsOf(line)) = line.workload_id[h]
  <2>1. h + 1 - 1 = h /\ h % QueueMax = h
    BY <1>1, SizesAssumption DEF Positions
  <2>2. 1 \in 1 .. c
    BY <1>5
  <2> QED BY <1>4, <1>5, <2>1, <2>2 DEF RequestsOf
<1>8. /\ Tail(RequestsOf(line)) \in Seq(Workloads) /\ Len(Tail(RequestsOf(line))) = c - 1
      /\ \A i \in 1 .. c - 1 : Tail(RequestsOf(line))[i] = RequestsOf(line)[i + 1]
  BY <1>4, <1>5
<1>9. RequestsOf(new) = Tail(RequestsOf(line))
  BY <1>4, <1>6, <1>8
<1>10. RequestsOf(line) # << >>
  BY <1>4, <1>5
<1> QED BY <1>7, <1>9, <1>10 DEF new

\* The flag has nothing to do with the requests.
LEMMA FlagRequests ==
  ASSUME NEW line \in Line
  PROVE  RequestsOf([line EXCEPT !.flag = "EXIT"]) = RequestsOf(line)
  BY DEF RequestsOf, Line

LEMMA ServedInit == Init => Calls!Init
<1> SUFFICES ASSUME Init PROVE Calls!Init
  OBVIOUS
<1>1. Requests = << >>
  BY DEF Init, Requests
<1>2. Status = [w \in Workloads |-> "running"] /\ Serving = NoWorkload
  BY DEF Init, Status, Serving
<1> QED BY <1>1, <1>2 DEF Calls!Init, Status, Serving

\* What leaves the requests, the handler's and the calls' progress alone is a
\* stutter.
LEMMA ServedStutter ==
  ASSUME Requests' = Requests, Serving' = Serving, UNCHANGED <<inCall, asked, answered>>
  PROVE  UNCHANGED Calls!vars
<1>1. Status' = Status
  BY DEF Status
<1> QED BY <1>1 DEF Calls!vars, Status, Serving

LEMMA ServedKernel ==
  ASSUME TypeOK, Control, Lines, CallInv, NEW k \in Kernels, KernelStep(k) \/ WorkloadStep(k)
  PROVE  [Calls!Next]_(Calls!vars)
<1>1. CASE Push(k)
  <2>1. /\ copy[k] \in Line /\ Filled(copy[k])
        /\ queue = copy[k] \/ queue = [copy[k] EXCEPT !.flag = "EXIT"]
    BY <1>1, CopyFilled DEF Push, Lines, CopyCurrent
  <2>2. PICK w \in Workloads : w = on[k] /\ RunOK(k, w) /\ WorkloadOK(w)
    BY <1>1, OfRunning DEF Push
  <2>3. /\ kpc[k] = "push" /\ copy[k].count # QueueMax /\ queue' = Pushed(copy[k], w)
        /\ inCall' = [inCall EXCEPT ![w] = TRUE]
        /\ asked' = [asked EXCEPT ![w] = asked[w] + 1]
        /\ UNCHANGED <<answered, hpc, job>>
    BY <1>1, <2>2 DEF Push, Put, handler
  <2>4. Requests = RequestsOf(copy[k]) /\ Requests' = RequestsOf(Pushed(copy[k], w))
    BY <2>1, <2>3, FlagRequests DEF Requests, RequestsOf
  <2>5. Requests' = Append(Requests, w) /\ Len(Requests) < QueueMax
    <3>1. Requests' = Append(Requests, w)
      BY <2>1, <2>3, <2>4, PushedRequests
    <3>2. Len(Requests) = copy[k].count /\ copy[k].count \in 0 .. QueueMax
      BY <2>1, <2>4, RequestsSeq DEF Line
    <3> QED BY <2>3, <3>1, <3>2, SizesAssumption
  <2>6. ~ inCall[w] /\ answered[w] = asked[w] /\ asked[w] \in Nat
    BY <2>2, <2>3 DEF RunOK, WorkloadOK, TypeOK
  <2>7. Status[w] = "running" /\ Status' = [Status EXCEPT ![w] = "called"]
    <3>1. inCall'[w] /\ answered'[w] < asked'[w]
      BY <2>3, <2>6 DEF TypeOK
    <3>2. \A x \in Workloads : x # w =>
            inCall'[x] = inCall[x] /\ asked'[x] = asked[x] /\ answered'[x] = answered[x]
      BY <2>3 DEF TypeOK
    <3> QED BY <2>6, <3>1, <3>2 DEF Status
  <2>8. Serving' = Serving
    BY <2>3 DEF Serving
  <2>9. Calls!Call(w)
    BY <2>5, <2>7, <2>8 DEF Calls!Call, Status, Serving
  <2> QED BY <2>9 DEF Calls!Next
<1>2. CASE PushFull(k)
  <2>1. /\ copy[k] \in Line
        /\ queue = copy[k] \/ queue = [copy[k] EXCEPT !.flag = "EXIT"]
    BY <1>2 DEF PushFull, Lines, CopyCurrent
  <2>2. queue' = copy[k] /\ UNCHANGED <<inCall, asked, answered, hpc, job>>
    BY <1>2 DEF PushFull, Put, handler, workload
  <2>3. Requests' = Requests
    BY <2>1, <2>2, FlagRequests DEF Requests, RequestsOf
  <2> QED BY <2>2, <2>3, ServedStutter DEF Serving
<1>3. CASE Return(k)
  <2>1. PICK w \in Workloads : w = on[k] /\ RunOK(k, w)
    BY <1>3, OfRunning DEF Return
  <2>2. /\ kpc[k] = "woken" /\ inCall' = [inCall EXCEPT ![w] = FALSE]
        /\ UNCHANGED <<queue, asked, answered, hpc, job>>
    BY <1>3, <2>1 DEF Return, handler
  <2>3. inCall[w] /\ answered[w] = asked[w] /\ asked[w] \in Nat
    BY <2>1, <2>2 DEF RunOK, TypeOK
  <2>4. Status[w] = "answered" /\ Status' = [Status EXCEPT ![w] = "running"]
    <3>1. ~ inCall'[w] /\ \A x \in Workloads : x # w => inCall'[x] = inCall[x]
      BY <2>2 DEF TypeOK
    <3>2. \A x \in Workloads : x # w => Status'[x] = Status[x]
      BY <2>2, <3>1 DEF Status
    <3>3. Status[w] = "answered" /\ Status'[w] = "running"
      BY <2>3, <3>1 DEF Status
    <3> QED BY <3>2, <3>3 DEF Status
  <2>5. Requests' = Requests /\ Serving' = Serving
    BY <2>2 DEF Requests, Serving
  <2>6. Calls!Return(w)
    BY <2>4, <2>5 DEF Calls!Return, Status, Serving
  <2> QED BY <2>6 DEF Calls!Next
<1>4. CASE ~ Push(k) /\ ~ PushFull(k) /\ ~ Return(k)
  <2>1. UNCHANGED <<queue, inCall, asked, answered, hpc, job>>
    BY <1>4 DEF KernelStep, WorkloadStep, Reserve, GiveUp, Notify, Save, MakeReady,
                Dispatch, PushLock, Finish, Release, workload, handler
  <2> QED BY <2>1, ServedStutter DEF Requests, Serving
<1> QED BY <1>1, <1>2, <1>3, <1>4

LEMMA ServedHost ==
  ASSUME TypeOK, Control, Lines, CallInv,
         \/ HandlerStep \/ HandleEvent \/ Destroy \/ DestroyStep
         \/ \E w \in Workloads : ClientSignal(w) \/ Unschedule(w)
  PROVE  [Calls!Next]_(Calls!vars)
<1>1. CASE Pop /\ queue.count # 0
  <2>1. queue \in Line /\ Filled(queue) /\ Flagged(queue)
    BY DEF TypeOK, Lines
  <2>2. /\ queue' = Popped(queue) /\ hpc = "pop" /\ hpc' = "spin"
        /\ job' = queue.workload_id[queue.head] /\ UNCHANGED <<inCall, asked, answered>>
    BY <1>1 DEF Pop, workload
  <2>3. Requests = RequestsOf(queue) /\ Requests' = RequestsOf(Popped(queue))
    BY <2>2 DEF Requests, RequestsOf
  <2>4. Requests # << >> /\ job' = Head(Requests) /\ Requests' = Tail(Requests)
    BY <1>1, <2>1, <2>2, <2>3, PoppedRequests
  <2>5. Serving = NoWorkload /\ Serving' = job' /\ Status' = Status
    BY <2>2 DEF Serving, Status
  <2>6. Calls!Take
    BY <2>4, <2>5 DEF Calls!Take, Status, Serving
  <2> QED BY <2>6 DEF Calls!Next
<1>2. CASE Callback
  <2>1. PICK w \in Workloads : w = job
    BY <1>2 DEF Control, Callback
  <2>2. /\ hpc = "callback" /\ hpc' = "signal" /\ UNCHANGED <<queue, inCall, asked>>
        /\ answered' = [answered EXCEPT ![w] = answered[w] + 1]
    BY <1>2, <2>1 DEF Callback
  <2>3. /\ inCall[w] /\ answered[w] # asked[w] /\ WorkloadOK(w)
        /\ asked[w] \in Nat /\ answered[w] \in Nat
    BY <2>1, <2>2 DEF CallInv, HandlerOK, WorkloadCalls, TypeOK
  <2>4. answered[w] < asked[w] /\ answered'[w] = asked[w]
    BY <2>2, <2>3 DEF WorkloadOK, TypeOK
  <2>5. Status[w] = "called" /\ Status' = [Status EXCEPT ![w] = "answered"]
    <3>1. \A x \in Workloads : x # w => answered'[x] = answered[x]
      BY <2>2 DEF TypeOK
    <3>2. inCall'[w] /\ ~ answered'[w] < asked'[w]
      BY <2>2, <2>3, <2>4
    <3>3. \A x \in Workloads : x # w => Status'[x] = Status[x]
      BY <2>2, <3>1 DEF Status
    <3>4. Status[w] = "called" /\ Status'[w] = "answered"
      BY <2>3, <2>4, <3>2 DEF Status
    <3> QED BY <3>3, <3>4 DEF Status
  <2>6. Serving = w /\ w # NoWorkload /\ Serving' = NoWorkload /\ Requests' = Requests
    BY <2>1, <2>2, NullsAssumption DEF Serving, Requests
  <2>7. Calls!Answer
    BY <2>5, <2>6 DEF Calls!Answer, Status, Serving
  <2> QED BY <2>7 DEF Calls!Next
<1>3. CASE StoreExit
  <2>1. queue' = [queue EXCEPT !.flag = "EXIT"] /\ UNCHANGED <<inCall, asked, answered, hpc, job>>
    BY <1>3 DEF StoreExit, workload, handler
  <2>2. Requests' = Requests
    BY <2>1, FlagRequests DEF TypeOK, Requests, RequestsOf
  <2> QED BY <2>1, <2>2, ServedStutter DEF Serving
<1>4. CASE ~ (Pop /\ queue.count # 0) /\ ~ Callback /\ ~ StoreExit
  <2>1. UNCHANGED <<queue, inCall, asked, answered>>
    BY <1>4 DEF HandlerStep, Test, Pop, Begin, Signal, HandleEvent, Destroy, DestroyStep,
                BroadcastExit, KernelsGone, CheckEmpty, Join, ClientSignal, Unschedule, workload
  <2>2. \/ UNCHANGED <<hpc, job>>
        \/ hpc \notin {"spin", "callback"} /\ hpc' \notin {"spin", "callback"}
        \/ hpc = "spin" /\ hpc' = "callback" /\ job' = job
    BY <1>4 DEF HandlerStep, Test, Pop, Begin, Signal, HandleEvent, Destroy, DestroyStep, Awakened,
                BroadcastExit, KernelsGone, CheckEmpty, Join, ClientSignal, Unschedule, handler
  <2>3. Requests' = Requests /\ Serving' = Serving
    BY <2>1, <2>2 DEF Requests, Serving
  <2> QED BY <2>1, <2>3, ServedStutter
<1> QED BY <1>1, <1>2, <1>3, <1>4

\* The ring, the two copies of its line, the kernels' saved workloads and the signals
\* implement calls that are served in order, each once, and return after their
\* callback (kernel.c:573-616, callback_cell.c:86-130), if nobody else signals
\* the caller.
THEOREM CallsAreServed ==
  ASSUME "signal" \notin ClientOps
  PROVE  Spec => CallsServed
<1>1. Init => Calls!Init
  BY ServedInit
<1>2. IInv /\ Accounted /\ CallInv /\ [Next]_vars => [Calls!Next]_(Calls!vars)
  <2> SUFFICES ASSUME IInv, CallInv, [Next]_vars PROVE [Calls!Next]_(Calls!vars)
    OBVIOUS
  <2>1. CASE Next
    BY <2>1, ServedKernel, ServedHost DEF IInv, Lines, Next
  <2>2. CASE UNCHANGED vars
    BY <2>2, ServedStutter DEF vars, workload, handler, Requests, Serving
  <2> QED BY <2>1, <2>2
<1> QED BY <1>1, <1>2, AlwaysCalls, PTL DEF Spec, CallsServed, Calls!Spec
=============================================================================
