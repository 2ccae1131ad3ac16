------------------------- MODULE WorkloadRunsProofs -------------------------
(***************************************************************************)
(* The runs of workloads, for any number of kernels, host threads, blocks  *)
(* and workloads: every running workload is executed by a kernel, a run    *)
(* goes stale only by being unscheduled, the queue implements              *)
(* WorkloadLifecycle, kernels do not sleep over work, and host threads     *)
(* learn of a finish.  Rests on the invariant of WorkloadQueueProofs.  The *)
(* theorems after the first two are about clients that keep to OneRun or   *)
(* AwaitsRuns, which the code leaves to them.                              *)
(***************************************************************************)
EXTENDS WorkloadQueueProofs

\* Where a kernel has a run: from dispatching the workload to giving it back.
Executing(k) == pc[k] \in {"run", "notify"} \/ ret[k] \in {"release", "call", "notify"}

\* A kernel remembers one workload at a time, picked or executed, and once it
\* has given it back the workload is not running until the lock is free again.
RunsKept ==
  \A k \in Kernels :
    /\ tgt[k] # NoId => ret[k] = "dispatch"
    /\ cur[k] # NoRun => Executing(k)
    /\ ret[k] = "release" => /\ blk[k] = Block(cur[k].id)
                             /\ bits[cur[k].id].state # "RUNNING"

RInv == RunningIsExecuted /\ RunsKept

LEMMA KernelsAct ==
  /\ Kernels \subseteq Actors /\ Hosts \subseteq Actors
  /\ \A k \in Kernels : k \notin Hosts
  /\ \A k \in Actors : k \notin Kernels => k \in Hosts
BY ActorsAssumption DEF Actors

LEMMA RunsInit == Init => RInv
<1> SUFFICES ASSUME Init PROVE RInv
  OBVIOUS
<1>1. \A i \in Ids : bits[i].state # "RUNNING"
  BY DEF Init, InitWith
<1>2. \A k \in Kernels : tgt[k] = NoId /\ cur[k] = NoRun /\ ret[k] = "none"
  BY KernelsAct DEF Init, InitWith
<1> QED
  BY <1>1, <1>2 DEF RInv, RunningIsExecuted, RunsKept

-----------------------------------------------------------------------------
\* No workload begins to run, and no kernel takes one or gives one back.
NoneRuns == \A i \in Ids : bits'[i].state = "RUNNING" => bits[i].state = "RUNNING"

RunKept(k) ==
  /\ cur'[k] = cur[k] /\ tgt'[k] = tgt[k]
  /\ tgt[k] # NoId => ret'[k] = "dispatch"
  /\ cur[k] # NoRun => Executing(k)'
  /\ ret'[k] = "release" => ret[k] = "release" /\ blk'[k] = blk[k]

\* A kernel that is executing has its run, one that is dispatching has its pick.
LEMMA KernelFacts ==
  ASSUME IInv, RInv, NEW k \in Kernels
  PROVE  /\ k \in Actors
         /\ cur[k] # NoRun => cur[k] \in Run /\ cur[k].id \in Ids
         /\ ret[k] = "release" => cur[k] \in Run /\ cur[k].id \in Ids
         /\ pc[k] = "run" => cur[k] # NoRun /\ cur[k].id \in Ids
         /\ tgt[k] # NoId => tgt[k] \in Ids /\ ret[k] = "dispatch"
         /\ pc[k] \notin Sections => ret[k] = "none" /\ tgt[k] = NoId
BY KernelsAct, RunAssumption DEF IInv, TypeOK, Control, RInv, RunsKept, Run

LEMMA KeepStep ==
  ASSUME IInv, RInv, NoneRuns, \A k \in Kernels : RunKept(k)
  PROVE  RInv'
<1>1. RunningIsExecuted'
  BY DEF RInv, RunningIsExecuted, Executes, NoneRuns, RunKept
<1>2. ASSUME NEW k \in Kernels PROVE
        /\ tgt'[k] # NoId => ret'[k] = "dispatch"
        /\ cur'[k] # NoRun => Executing(k)'
        /\ ret'[k] = "release" => /\ blk'[k] = Block(cur'[k].id)
                                  /\ bits'[cur'[k].id].state # "RUNNING"
  BY <1>2, KernelFacts DEF RInv, RunsKept, NoneRuns, RunKept
<1> QED
  BY <1>1, <1>2 DEF RInv, RunsKept

\* Steps of an actor that leave every workload, pick and run alone, and its
\* control where it was, outside the sections or on the way to the end of one.
LEMMA QuietStep ==
  ASSUME IInv, RInv, UNCHANGED <<cur, ret>>, NoneRuns,
         \A k \in Kernels :
           /\ tgt'[k] = tgt[k]
           /\ ret[k] = "release" => blk'[k] = blk[k]
           /\ pc[k] \in {"run", "notify"} /\ cur[k] # NoRun =>
                pc'[k] \in {"run", "notify"}
  PROVE  RInv'
<1>1. ASSUME NEW k \in Kernels PROVE RunKept(k)
  BY DEF RInv, RunsKept, RunKept, Executing
<1> QED
  BY <1>1, KeepStep

\* The main loop of a kernel that has no run.
LEMMA LoopRuns ==
  ASSUME IInv, RInv, NEW k \in Kernels,
         Reserve(k) \/ Scan(k) \/ Choose(k) \/ PickNothing(k) \/ IdleWait(k) \/ Wake(k)
  PROVE  RInv'
<1>1. pc[k] \in {"reserve", "scan", "pick", "idle", "asleep"} /\ k \in Actors
  BY KernelsAct DEF Reserve, Scan, Choose, PickNothing, IdleWait, Wake
<1>2. UNCHANGED <<bits, cur, ret, tgt>>
  BY DEF Reserve, Scan, Choose, PickNothing, IdleWait, Wake
<1>3. ret[k] = "none"
  BY <1>1, KernelFacts DEF Sections
<1>4. ASSUME NEW j \in Kernels, j # k PROVE pc'[j] = pc[j] /\ blk'[j] = blk[j]
  BY <1>4, KernelsAct DEF Reserve, Scan, Choose, PickNothing, IdleWait, Wake, Goto,
     IInv, TypeOK
<1> QED
  BY <1>1, <1>2, <1>3, <1>4, QuietStep DEF NoneRuns

\* Sections on the header: the actor stays in its section.
LEMMA HeaderRuns ==
  ASSUME IInv, RInv, NEW a \in Actors,
         HeaderReset(a) \/ HeaderState(a) \/ HeaderAccess(a)
  PROVE  RInv'
<1>1. /\ UNCHANGED <<bits, cur, ret, tgt, blk>>
      /\ pc[a] \in {"hdr_reset", "hdr_state", "hdr_access"}
  BY DEF HeaderReset, HeaderState, HeaderAccess
<1>2. ASSUME NEW j \in Actors, j # a PROVE pc'[j] = pc[j]
  BY <1>2 DEF HeaderReset, HeaderState, HeaderAccess, Goto, IInv, TypeOK
<1> QED
  BY <1>1, <1>2, KernelsAct, QuietStep DEF NoneRuns

\* Searching a block: ready workloads appear, running ones do not.
LEMMA SearchRuns ==
  ASSUME IInv, RInv, NEW k \in Kernels, Search(k)
  PROVE  RInv'
<1> DEFINE i == <<blk[k], slot[k]>>
<1>0. k \in Actors
  BY KernelsAct
<1>1. i \in Ids
  BY <1>0, IdTypes DEF Search, IInv, Control, Located, Sections
<1>2. bits[i] \in Bits
  BY <1>1 DEF IInv, TypeOK
<1>3. bits' = bits \/ bits' = [bits EXCEPT ![i] = Woken(@)]
  BY DEF Search
<1> HIDE DEF i
<1>4. NoneRuns
  BY <1>1, <1>2, <1>3, WokenType DEF NoneRuns, IInv, TypeOK
<1>5. UNCHANGED <<cur, ret, tgt, blk>> /\ pc[k] = "searching"
  BY DEF Search
<1>6. ASSUME NEW j \in Kernels, j # k PROVE pc'[j] = pc[j]
  BY <1>6, KernelsAct DEF Search, Goto, IInv, TypeOK
<1> QED
  BY <1>4, <1>5, <1>6, QuietStep

LEMMA SearchEndsRuns ==
  ASSUME IInv, RInv, NEW k \in Kernels, SearchLock(k) \/ SearchDone(k)
  PROVE  RInv'
<1>0. k \in Actors
  BY KernelsAct
<1>1. UNCHANGED <<bits, cur, tgt>>
  BY DEF SearchLock, SearchDone, Unlock
<1>2. \/ pc[k] = "search" /\ ret[k] = "none"
      \/ pc[k] = "unlock" /\ ret[k] = "scan"
  <2>1. pc[k] = "search" \/ (pc[k] = "unlock" /\ ret[k] = "scan")
    BY DEF SearchLock, SearchDone, Unlock
  <2>2. pc[k] = "search" => ret[k] = "none"
    BY KernelFacts DEF Sections
  <2> QED
    BY <2>1, <2>2
<1>3. cur[k] = NoRun /\ tgt[k] = NoId
  BY <1>2 DEF RInv, RunsKept, Executing
<1>4. ASSUME NEW j \in Kernels, j # k
      PROVE  pc'[j] = pc[j] /\ blk'[j] = blk[j] /\ ret'[j] = ret[j]
  BY <1>4, KernelsAct DEF SearchLock, SearchDone, Unlock, Goto, IInv, TypeOK
<1>5. ret'[k] \in {"scan", "none"}
  BY <1>0 DEF SearchLock, SearchDone, Unlock, IInv, TypeOK
<1>6. ASSUME NEW j \in Kernels PROVE RunKept(j)
  BY <1>1, <1>3, <1>4, <1>5 DEF RunKept, Executing, RInv, RunsKept
<1> QED
  BY <1>1, <1>6, KeepStep DEF NoneRuns

-----------------------------------------------------------------------------
\* The only step that makes a workload running: nobody was giving it back, since
\* its block was unlocked, and the kernel that picked it remembers it.
LEMMA PickRuns ==
  ASSUME IInv, RInv, NEW k \in Kernels, Pick(k)
  PROVE  RInv'
<1>0. k \in Actors
  BY KernelsAct
<1>1. PICK i \in ReadyIn(blk[k]) :
        /\ bits' = [j \in Ids |->
             IF j = i THEN [bits[j] EXCEPT !.state = "RUNNING", !.counter = 0]
             ELSE IF j \in ReadyIn(blk[k])
             THEN [bits[j] EXCEPT !.counter = Aged(@, COUNTER_MAX)]
             ELSE bits[j]]
        /\ tgt' = [tgt EXCEPT ![k] = i]
  BY DEF Pick
<1>2. i \in Ids /\ Block(i) = blk[k]
  BY DEF ReadyIn, IdsOf
<1>3. \A j \in Ids : j # i => bits'[j].state = bits[j].state
  BY <1>1, PickedType DEF IInv, TypeOK
<1>4. /\ pc[k] = "pick" /\ lock[blk[k]] = NoActor
      /\ cur' = cur /\ blk' = blk
      /\ pc' = [pc EXCEPT ![k] = "hdr_reset"] /\ ret' = [ret EXCEPT ![k] = "dispatch"]
  BY DEF Pick, Goto
<1>5. ret[k] = "none" /\ cur[k] = NoRun /\ tgt[k] = NoId
  BY <1>4, KernelFacts DEF RInv, RunsKept, Executing, Sections
<1>6. tgt'[k] = i /\ ret'[k] = "dispatch"
  BY <1>0, <1>1, <1>4 DEF IInv, TypeOK
<1>7. ASSUME NEW j \in Kernels, j # k
      PROVE  tgt'[j] = tgt[j] /\ pc'[j] = pc[j] /\ ret'[j] = ret[j]
  BY <1>1, <1>4, <1>7, KernelsAct DEF IInv, TypeOK
<1>8. ASSUME NEW j \in Kernels, ret[j] = "release" PROVE cur[j].id # i
  <2>1. j \in Actors /\ pc[j] \in Sections
    BY <1>8, KernelsAct DEF IInv, Control
  <2>2. cur[j].id \in Ids /\ blk[j] = Block(cur[j].id)
    BY <1>8, KernelFacts DEF RInv, RunsKept
  <2>3. lock[Block(cur[j].id)] = j
    BY <2>1, <2>2, IdTypes DEF IInv, Owner
  <2> QED
    BY <1>2, <1>4, <2>1, <2>3, ActorsAssumption
<1>9. RunningIsExecuted'
  <2> SUFFICES ASSUME NEW j \in Ids, bits'[j].state = "RUNNING"
               PROVE  \E x \in Kernels : Executes(x, j)'
    BY DEF RunningIsExecuted
  <2>1. CASE j = i
    BY <1>6, <2>1 DEF Executes
  <2>2. CASE j # i
    <3>1. PICK x \in Kernels : Executes(x, j)
      BY <1>3, <2>2 DEF RInv, RunningIsExecuted
    <3>2. x # k
      BY <1>5, <3>1, NullsAssumption DEF Executes
    <3> QED
      BY <1>4, <1>7, <3>1, <3>2 DEF Executes
  <2> QED
    BY <2>1, <2>2
<1>10. ASSUME NEW j \in Kernels PROVE
        /\ tgt'[j] # NoId => ret'[j] = "dispatch"
        /\ cur'[j] # NoRun => Executing(j)'
        /\ ret'[j] = "release" => /\ blk'[j] = Block(cur'[j].id)
                                  /\ bits'[cur'[j].id].state # "RUNNING"
  <2>1. CASE j = k
    BY <1>4, <1>5, <1>6, <2>1
  <2>2. CASE j # k
    <3>1. ret[j] = "release" => bits'[cur[j].id].state = bits[cur[j].id].state
      BY <1>3, <1>8, KernelFacts
    <3> QED
      BY <1>4, <1>7, <2>2, <3>1 DEF RInv, RunsKept, Executing
  <2> QED
    BY <2>1, <2>2
<1> QED
  BY <1>9, <1>10 DEF RInv, RunsKept

\* Dispatching turns the pick into a run of the same workload.
LEMMA DispatchRuns ==
  ASSUME IInv, RInv, NEW k \in Kernels, Dispatch(k)
  PROVE  RInv'
<1>0. k \in Actors
  BY KernelsAct
<1>1. /\ ret[k] = "dispatch" /\ pc[k] = "unlock" /\ UNCHANGED <<bits, blk>>
      /\ pc' = [pc EXCEPT ![k] = "run"] /\ ret' = [ret EXCEPT ![k] = "none"]
      /\ cur' = [cur EXCEPT ![k] = [id |-> tgt[k], gen |-> gen[tgt[k]]]]
      /\ tgt' = [tgt EXCEPT ![k] = NoId]
  BY DEF Dispatch, Unlock, Goto
<1>2. tgt[k] \in Ids /\ cur[k] = NoRun
  BY <1>1 DEF IInv, Control, RInv, RunsKept, Executing
<1>3. /\ cur'[k] \in Run /\ cur'[k].id = tgt[k] /\ tgt'[k] = NoId
      /\ pc'[k] = "run" /\ ret'[k] = "none"
  BY <1>0, <1>1, <1>2 DEF IInv, TypeOK, Run
<1>4. ASSUME NEW j \in Kernels, j # k
      PROVE  cur'[j] = cur[j] /\ tgt'[j] = tgt[j] /\ pc'[j] = pc[j] /\ ret'[j] = ret[j]
  BY <1>1, <1>4, KernelsAct DEF IInv, TypeOK
<1>5. \A j \in Kernels, i \in Ids : Executes(j, i) => Executes(j, i)'
  BY <1>2, <1>3, <1>4, RunAssumption DEF Executes
<1>6. RunningIsExecuted'
  BY <1>1, <1>5 DEF RInv, RunningIsExecuted
<1>7. RunsKept'
  BY <1>1, <1>3, <1>4 DEF RInv, RunsKept, Executing
<1> QED
  BY <1>6, <1>7 DEF RInv

-----------------------------------------------------------------------------
\* A kernel gives its run back: the workload is no longer running, and the lock
\* of its block is held until the kernel has forgotten the run.
LEMMA ReleaseRuns ==
  ASSUME IInv, RInv, NEW k \in Kernels, NEW s \in {"READY", "WAITING", "FINISHED"},
         Release(k, s)
  PROVE  RInv'
<1> DEFINE i == cur[k].id
<1>1. /\ pc[k] = "run" /\ cur' = cur /\ tgt' = tgt
      /\ bits' = [bits EXCEPT ![i] = [bits[i] EXCEPT !.state = s]]
      /\ pc' = [pc EXCEPT ![k] = "hdr_state"] /\ ret' = [ret EXCEPT ![k] = "release"]
      /\ blk' = [blk EXCEPT ![k] = Block(i)]
  BY DEF Release, Change, Goto
<1>2. k \in Actors /\ i \in Ids /\ bits[i] \in Bits
  BY <1>1, OwnWorkload
<1>3. /\ \A j \in Ids : j # i => bits'[j] = bits[j]
      /\ bits'[i].state = s
  BY <1>1, <1>2, BitsTypes, StateNames DEF IInv, TypeOK
<1>4. ret[k] = "none" /\ tgt[k] = NoId
  BY <1>1, KernelFacts DEF Sections
<1>5. pc'[k] = "hdr_state" /\ ret'[k] = "release" /\ blk'[k] = Block(i)
  BY <1>1, <1>2 DEF IInv, TypeOK
<1>6. ASSUME NEW j \in Kernels, j # k
      PROVE  pc'[j] = pc[j] /\ ret'[j] = ret[j] /\ blk'[j] = blk[j]
  BY <1>1, <1>6, KernelsAct DEF IInv, TypeOK
<1>7. RunningIsExecuted'
  BY <1>1, <1>3 DEF RInv, RunningIsExecuted, Executes
<1>8. ASSUME NEW j \in Kernels PROVE
        /\ tgt'[j] # NoId => ret'[j] = "dispatch"
        /\ cur'[j] # NoRun => Executing(j)'
        /\ ret'[j] = "release" => /\ blk'[j] = Block(cur'[j].id)
                                  /\ bits'[cur'[j].id].state # "RUNNING"
  <2>1. CASE j = k
    BY <1>1, <1>3, <1>4, <1>5, <2>1 DEF Executing
  <2>2. CASE j # k
    BY <1>1, <1>3, <1>6, <2>2, KernelFacts DEF RInv, RunsKept, Executing
  <2> QED
    BY <2>1, <2>2
<1> QED
  BY <1>7, <1>8 DEF RInv, RunsKept

\* A kernel forgets a run whose workload is not running.
LEMMA ForgetRuns ==
  ASSUME IInv, RInv, NEW k \in Kernels, ReleaseAborted(k) \/ Released(k)
  PROVE  RInv'
<1>0. k \in Actors
  BY KernelsAct
<1>1. /\ UNCHANGED <<bits, tgt, blk>> /\ cur' = [cur EXCEPT ![k] = NoRun]
      /\ pc[k] = "run" \/ ret[k] = "release"
  BY DEF ReleaseAborted, Released, Unlock
<1>2. bits[cur[k].id].state # "RUNNING"
  BY DEF ReleaseAborted, Released, RInv, RunsKept
<1>3. cur'[k] = NoRun /\ ret'[k] = "none" /\ tgt[k] = NoId
  BY <1>0, <1>1, KernelFacts DEF ReleaseAborted, Released, Unlock, IInv, TypeOK, Sections
<1>4. ASSUME NEW j \in Kernels, j # k
      PROVE  cur'[j] = cur[j] /\ pc'[j] = pc[j] /\ ret'[j] = ret[j]
  BY <1>1, <1>4, KernelsAct DEF ReleaseAborted, Released, Unlock, Goto, IInv, TypeOK
<1>5. RunningIsExecuted'
  <2> SUFFICES ASSUME NEW i \in Ids, bits[i].state = "RUNNING"
               PROVE  \E x \in Kernels : Executes(x, i)'
    BY <1>1 DEF RunningIsExecuted
  <2>1. PICK x \in Kernels : Executes(x, i)
    BY DEF RInv, RunningIsExecuted
  <2>2. x # k
    BY <1>2, <1>3, <2>1, NullsAssumption DEF Executes
  <2> QED
    BY <1>1, <1>4, <2>1, <2>2 DEF Executes
<1>6. RunsKept'
  BY <1>1, <1>3, <1>4 DEF RInv, RunsKept, Executing
<1> QED
  BY <1>5, <1>6 DEF RInv

-----------------------------------------------------------------------------
\* A call that changes one workload, and leaves none running that was not.
LEMMA ChangeRuns ==
  ASSUME IInv, RInv, NEW a \in Actors, NEW i \in Ids, NEW new,
         NEW label \in {"hdr_state", "hdr_access"}, NEW after \in {"call", "notify"},
         Change(a, i, new, label, after),
         pc[a] = IF a \in Kernels THEN "run" ELSE "host",
         new.state = "RUNNING" => bits[i].state = "RUNNING"
  PROVE  RInv'
<1>1. /\ cur' = cur /\ tgt' = tgt /\ bits' = [bits EXCEPT ![i] = new]
      /\ pc' = [pc EXCEPT ![a] = label] /\ ret' = [ret EXCEPT ![a] = after]
      /\ blk' = [blk EXCEPT ![a] = Block(i)]
  BY DEF Change, Goto
<1>2. NoneRuns
  BY <1>1 DEF NoneRuns, IInv, TypeOK
<1>3. pc'[a] = label /\ ret'[a] = after
  BY <1>1 DEF IInv, TypeOK
<1>4. ASSUME NEW j \in Kernels, j # a
      PROVE  pc'[j] = pc[j] /\ ret'[j] = ret[j] /\ blk'[j] = blk[j]
  BY <1>1, <1>4, KernelsAct DEF IInv, TypeOK
<1>5. a \in Kernels => tgt[a] = NoId
  BY KernelFacts DEF Sections
<1>6. ASSUME NEW j \in Kernels PROVE RunKept(j)
  BY <1>1, <1>3, <1>4, <1>5 DEF RunKept, Executing, RInv, RunsKept
<1> QED
  BY <1>2, <1>6, KeepStep

LEMMA ChangeOnlyRuns ==
  ASSUME IInv, RInv, NEW a, NEW i \in Ids, NEW new, ChangeOnly(a, i, new),
         new.state = "RUNNING" => bits[i].state = "RUNNING"
  PROVE  RInv'
<1>1. UNCHANGED <<cur, tgt, ret, blk, pc>> /\ bits' = [bits EXCEPT ![i] = new]
  BY DEF ChangeOnly
<1>2. NoneRuns
  BY <1>1 DEF NoneRuns, IInv, TypeOK
<1> QED
  BY <1>1, <1>2, QuietStep

\* The calls of running workloads and host threads.
LEMMA CallRuns ==
  ASSUME IInv, RInv, NEW a \in Actors, NEW i \in Ids, NEW p \in Priority,
         Signal(a, i) \/ UnscheduleBegin(a, i) \/ ScheduleBegin(a, i, p)
  PROVE  RInv'
<1>1. pc[a] = IF a \in Kernels THEN "run" ELSE "host"
  BY DEF Signal, UnscheduleBegin, ScheduleBegin, Caller
<1>2. bits[i] \in Bits
  BY DEF IInv, TypeOK
<1>3. CASE Signal(a, i)
  <2> DEFINE new == [bits[i] EXCEPT !.signal = TRUE]
             label == IF a \in Kernels THEN "hdr_access" ELSE "hdr_state"
  <2>1. Change(a, i, new, label, "call")
    BY <1>3 DEF Signal
  <2>2. new.state = bits[i].state /\ label \in {"hdr_state", "hdr_access"}
    BY <1>2, BitsTypes
  <2> HIDE DEF new, label
  <2> QED
    BY <1>1, <2>1, <2>2, ChangeRuns
<1>4. CASE UnscheduleBegin(a, i)
  <2> DEFINE new == [bits[i] EXCEPT !.state = "UNSCHEDULING"]
  <2>1. IF a \in Kernels THEN Change(a, i, new, "hdr_state", "call")
                         ELSE ChangeOnly(a, i, new)
    BY <1>4 DEF UnscheduleBegin
  <2>2. new.state # "RUNNING"
    BY <1>2, BitsTypes, StateNames
  <2> HIDE DEF new
  <2> QED
    BY <1>1, <2>1, <2>2, ChangeRuns, ChangeOnlyRuns
<1>5. CASE ScheduleBegin(a, i, p)
  <2>1. IF a \in Kernels
        THEN Change(a, i, Scheduled(bits[i], p, COUNTER_MAX), "hdr_state", "call")
        ELSE ChangeOnly(a, i, Scheduled(bits[i], p, 0))
    BY <1>5 DEF ScheduleBegin
  <2>2. \A c \in Counter : Scheduled(bits[i], p, c).state # "RUNNING"
    BY <1>2, ScheduledType
  <2> QED
    BY <1>1, <2>1, <2>2, CounterTypes, ChangeRuns, ChangeOnlyRuns
<1> QED
  BY <1>3, <1>4, <1>5

\* The calls of a workload on itself.
LEMMA OwnCallRuns ==
  ASSUME IInv, RInv, NEW k \in Kernels,
         \/ SignalReset(k) \/ WaitReset(k)
         \/ \E i \in Ids : WaitSet(k, i)
  PROVE  RInv'
<1>1. pc[k] = "run"
  BY DEF SignalReset, WaitReset, WaitSet, Caller
<1>2. k \in Actors /\ cur[k].id \in Ids /\ bits[cur[k].id] \in Bits
  BY <1>1, OwnWorkload
<1>3. CASE SignalReset(k)
  <2> DEFINE new == [bits[cur[k].id] EXCEPT !.signal = FALSE]
  <2>1. Change(k, cur[k].id, new, "hdr_access", "call")
    BY <1>3 DEF SignalReset
  <2>2. new.state = bits[cur[k].id].state
    BY <1>2, BitsTypes
  <2> HIDE DEF new
  <2> QED
    BY <1>1, <1>2, <2>1, <2>2, ChangeRuns
<1>4. CASE WaitReset(k) \/ \E i \in Ids : WaitSet(k, i)
  <2>1. PICK v \in Ids \union {NoId} :
          ChangeOnly(k, cur[k].id, [bits[cur[k].id] EXCEPT !.wait_id = v])
    BY <1>4 DEF WaitReset, WaitSet
  <2> DEFINE new == [bits[cur[k].id] EXCEPT !.wait_id = v]
  <2>2. new.state = bits[cur[k].id].state
    BY <1>2, BitsTypes
  <2>3. ChangeOnly(k, cur[k].id, new)
    BY <2>1
  <2> HIDE DEF new
  <2> QED
    BY <1>2, <2>2, <2>3, ChangeOnlyRuns
<1> QED
  BY <1>3, <1>4

\* The ends of operations.
LEMMA EndRuns ==
  ASSUME IInv, RInv, NEW a \in Actors,
         ScheduleEnd(a) \/ ScheduleCancel(a) \/ UnscheduleEnd(a)
  PROVE  RInv'
<1> DEFINE i == op[a].id
           new(s) == [bits[i] EXCEPT !.state = s]
<1>1. /\ pc[a] = IF a \in Kernels THEN "run" ELSE "host"
      /\ i \in Ids /\ bits[i] \in Bits
  BY OpTypes DEF ScheduleEnd, ScheduleCancel, UnscheduleEnd
<1>2. \A s \in {"READY", "FINISHED"} : new(s).state # "RUNNING"
  BY <1>1, BitsTypes, StateNames
<1>3. \E s \in {"READY", "FINISHED"} :
        \/ \E after \in {"call", "notify"} : Change(a, i, new(s), "hdr_state", after)
        \/ ChangeOnly(a, i, new(s))
  BY DEF ScheduleEnd, ScheduleCancel, UnscheduleEnd
<1> HIDE DEF i, new
<1> QED
  BY <1>1, <1>2, <1>3, ChangeRuns, ChangeOnlyRuns

\* Adding and removing workloads, that do not run.
LEMMA AddRemoveRuns ==
  ASSUME IInv, RInv, NEW h \in Hosts,
         \/ \E s \in {"FINISHED", "NONE"} : AddEnd(h, s) \/ RemoveEnd(h, s)
         \/ \E i \in Ids : RemoveBegin(h, i)
  PROVE  RInv'
<1>1. PICK i \in Ids, s \in {"FINISHED", "NONE", "REMOVING"} :
        ChangeOnly(h, i, [bits[i] EXCEPT !.state = s])
  BY KernelsAct, OpTypes DEF AddEnd, RemoveEnd, RemoveBegin
<1> DEFINE new == [bits[i] EXCEPT !.state = s]
<1>2. new.state # "RUNNING"
  BY BitsTypes, StateNames DEF IInv, TypeOK
<1>3. ChangeOnly(h, i, new)
  BY <1>1
<1> HIDE DEF new
<1> QED
  BY <1>2, <1>3, ChangeOnlyRuns

LEMMA AllocRuns ==
  ASSUME IInv, RInv, NEW h \in Hosts, Alloc(h)
  PROVE  RInv'
<1>1. PICK i \in Ids : bits' = [bits EXCEPT ![i].state = "ADDING"]
  BY KernelsAct, IdTypes DEF Alloc, IInv, Control, Located, Sections
<1>2. NoneRuns
  BY <1>1, BitsTypes, StateNames DEF NoneRuns, IInv, TypeOK
<1>3. /\ UNCHANGED <<cur, ret, tgt, blk>> /\ pc' = [pc EXCEPT ![h] = "host"]
  BY DEF Alloc, Goto
<1>4. \A k \in Kernels : pc'[k] = pc[k]
  BY <1>3, KernelsAct DEF IInv, TypeOK
<1> QED
  BY <1>2, <1>3, <1>4, QuietStep

\* The end of a section in which a call changed a workload.
LEMMA CallDoneRuns ==
  ASSUME IInv, RInv, NEW a \in Actors, CallDone(a) \/ CallDoneNotify(a)
  PROVE  RInv'
<1>1. /\ UNCHANGED <<bits, cur, tgt, blk>> /\ ret' = [ret EXCEPT ![a] = "none"]
      /\ ret[a] \in {"call", "notify"}
      /\ \E label \in {"run", "host", "notify"} :
            /\ a \in Kernels => label \in {"run", "notify"}
            /\ pc' = [pc EXCEPT ![a] = label]
  BY DEF CallDone, CallDoneNotify, Unlock, Goto
<1>2. ret'[a] = "none" /\ (a \in Kernels => pc'[a] \in {"run", "notify"})
  BY <1>1 DEF IInv, TypeOK
<1>3. ASSUME NEW j \in Kernels, j # a PROVE pc'[j] = pc[j] /\ ret'[j] = ret[j]
  BY <1>1, <1>3, KernelsAct DEF IInv, TypeOK
<1>4. ASSUME NEW j \in Kernels PROVE RunKept(j)
  BY <1>1, <1>2, <1>3 DEF RunKept, Executing, RInv, RunsKept
<1> QED
  BY <1>1, <1>4, KeepStep DEF NoneRuns

\* Notifications and the steps of host threads that change no workload.
LEMMA NotifyRuns ==
  ASSUME IInv, RInv, NEW a \in Actors, Notify(a)
  PROVE  RInv'
<1>1. UNCHANGED <<bits, cur, ret, tgt, blk>> /\ pc[a] = "notify"
  BY DEF Notify
<1>2. CASE a \in Kernels
  <2>1. pc' = [pc EXCEPT ![a] = IF cur[a] = NoRun THEN "reserve" ELSE "run"]
    BY <1>2 DEF Notify, Goto
  <2>2. \A j \in Kernels :
         \/ pc'[j] = pc[j]
         \/ j = a /\ (cur[a] # NoRun => pc'[a] = "run")
    BY <2>1, KernelsAct DEF IInv, TypeOK
  <2> QED
    BY <1>1, <2>2, QuietStep DEF NoneRuns
<1>3. CASE a \notin Kernels
  <2> DEFINE f == [pc EXCEPT ![a] = "host"]
  <2>1. f \in [Actors -> Label] /\ pc' = Broadcast(f)
    BY <1>3 DEF Notify, IInv, TypeOK, Label
  <2>2. \A j \in Kernels : f[j] = pc[j]
    BY <1>3, KernelsAct DEF IInv, TypeOK
  <2> HIDE DEF f
  <2>3. \A j \in Kernels : pc[j] # "sleep" => pc'[j] = pc[j]
    BY <2>1, <2>2, BroadcastType, KernelsAct
  <2> QED
    BY <1>1, <2>3, QuietStep DEF NoneRuns
<1> QED
  BY <1>2, <1>3

LEMMA HandleRuns == IInv /\ RInv /\ HandleEvent => RInv'
<1> SUFFICES ASSUME IInv, RInv, HandleEvent PROVE RInv'
  OBVIOUS
<1>1. UNCHANGED <<bits, cur, ret, tgt, blk>> /\ pc' = Broadcast(pc)
  BY DEF HandleEvent
<1>2. \A j \in Kernels : pc[j] # "sleep" => pc'[j] = pc[j]
  BY <1>1, BroadcastType, KernelsAct DEF IInv, TypeOK
<1> QED
  BY <1>1, <1>2, QuietStep DEF NoneRuns

LEMMA HostRuns ==
  ASSUME IInv, RInv, NEW h \in Hosts,
         \/ AddBegin(h) \/ AllocNext(h) \/ Exit(h) \/ Test(h)
         \/ \E i \in Ids : Wait(h, i)
  PROVE  RInv'
<1>1. UNCHANGED <<bits, cur, ret>>
  BY DEF AddBegin, AllocNext, Exit, Test, Wait, locals
<1>2. ASSUME NEW k \in Kernels PROVE pc'[k] = pc[k] /\ tgt'[k] = tgt[k] /\ blk'[k] = blk[k]
  BY <1>2, KernelsAct DEF AddBegin, AllocNext, Exit, Test, Wait, locals, Goto, IInv, TypeOK
<1> QED
  BY <1>1, <1>2, QuietStep DEF NoneRuns

LEMMA EndFailsRuns ==
  ASSUME IInv, RInv, NEW a \in Actors, EndFails(a)
  PROVE  RInv'
<1>1. UNCHANGED <<bits, cur, ret, tgt, blk, pc>>
  BY DEF EndFails
<1> QED
  BY <1>1, QuietStep DEF NoneRuns

-----------------------------------------------------------------------------
LEMMA RunsStep == IInv /\ RInv /\ [Next]_vars => RInv'
<1> SUFFICES ASSUME IInv, RInv, [Next]_vars PROVE RInv'
  OBVIOUS
<1> USE KernelsAct
<1>1. ASSUME NEW a \in Actors, Section(a) \/ EndCall(a) PROVE RInv'
  BY <1>1, HeaderRuns, CallDoneRuns, NotifyRuns, EndRuns, EndFailsRuns DEF Section, EndCall
<1>2. ASSUME NEW k \in Kernels, KernelStep(k) PROVE RInv'
  BY <1>1, <1>2, LoopRuns, SearchRuns, SearchEndsRuns, PickRuns, HeaderRuns, DispatchRuns,
     ForgetRuns DEF KernelStep
<1>3. ASSUME NEW k \in Kernels, Exits(k) PROVE RInv'
  BY <1>3, ReleaseRuns DEF Exits
<1>4. ASSUME NEW k \in Kernels, Syscall(k) PROVE RInv'
  <2>1. 0 \in Priority
    BY CounterTypes
  <2> QED
    BY <1>4, <2>1, OwnCallRuns, CallRuns DEF Syscall
<1>5. ASSUME NEW h \in Hosts, HostStep(h) PROVE RInv'
  BY <1>1, <1>5, AllocRuns, HostRuns, AddRemoveRuns DEF HostStep
<1>6. ASSUME NEW h \in Hosts, HostCall(h) PROVE RInv'
  <2>1. 0 \in Priority
    BY CounterTypes
  <2> QED
    BY <1>6, <2>1, HostRuns, AddRemoveRuns, CallRuns DEF HostCall
<1>7. CASE UNCHANGED vars
  BY <1>7, QuietStep DEF vars, locals, NoneRuns
<1> QED
  BY <1>2, <1>3, <1>4, <1>5, <1>6, <1>7, HandleRuns DEF Next

\* A workload that memory says is running is executed by some kernel: it is not
\* lost between two kernels when one is unscheduled, released or picked
\* (kernel.c:763-793, 884-922), for any number of kernels, host threads, blocks
\* and workloads.
THEOREM RunningWorkloadsAreExecuted == Spec => []RunningIsExecuted
<1>1. RInv => RunningIsExecuted
  BY DEF RInv
<1> QED
  BY <1>1, RunsInit, RunsStep, Invariant, PTL DEF Spec

-----------------------------------------------------------------------------
(* What a step does, for the theorems below.                               *)

\* How a call may change the state of a workload.
Alters(i, new) ==
  \/ new.state = bits[i].state
  \/ <<bits[i].state, new.state>> \in Lifecycle!Allowed \ {<<"WAITING", "READY">>}

\* a changes workload i and goes on to write the header.  Only unscheduling and
\* a cancelled scheduling finish a workload.
Alteration(a, i, new) ==
  \E label \in {"hdr_state", "hdr_access"}, after \in {"call", "notify"} :
    /\ Change(a, i, new, label, after)
    /\ new.state = "FINISHED" /\ bits[i].state # "FINISHED" =>
         after = "notify" \/ (a \in Kernels /\ bits[i].state = "SCHEDULING")

\* a changes workload i and that is all: a workload what it waits for, a host
\* thread the state.
QuietAlteration(a, i, new) ==
  /\ ChangeOnly(a, i, new)
  /\ a \in Kernels => i = cur[a].id /\ new.state = bits[i].state
  /\ a \in Hosts => /\ new.state # bits[i].state /\ new.state # "READY"
                    /\ new.state = "FINISHED" =>
                         bits[i].state \in {"ADDING", "REMOVING", "SCHEDULING"}

\* A call counts the schedulings of the workload it schedules.
Counts(i, new) ==
  \/ gen' = gen
  \/ gen' = [gen EXCEPT ![i] = @ + 1] /\ bits[i].state = "FINISHED" /\ new.state = "SCHEDULING"

\* a's call changes workload i to new.
Altered(a, i, new) ==
  /\ pc[a] = IF a \in Kernels THEN "run" ELSE "host"
  /\ Alters(i, new) /\ Counts(i, new)
  /\ Alteration(a, i, new) \/ QuietAlteration(a, i, new)

\* The calls that change a workload.
Calls(a) ==
  \/ ScheduleEnd(a) \/ ScheduleCancel(a) \/ UnscheduleEnd(a)
  \/ \E i \in Ids : Signal(a, i) \/ UnscheduleBegin(a, i)
  \/ \E i \in Ids, p \in Priority : ScheduleBegin(a, i, p)
  \/ a \in Kernels /\ (SignalReset(a) \/ WaitReset(a) \/ \E i \in Ids : WaitSet(a, i))
  \/ a \in Hosts /\ \/ \E s \in {"FINISHED", "NONE"} : AddEnd(a, s) \/ RemoveEnd(a, s)
                    \/ \E i \in Ids : RemoveBegin(a, i)

\* Calls that begin an operation or end one.
LEMMA ScheduleAlters ==
  ASSUME IInv, NEW a \in Actors, NEW i \in Ids, NEW p \in Priority, ScheduleBegin(a, i, p)
  PROVE  \E new \in Bits : Altered(a, i, new)
<1>0. a \in Kernels => a \notin Hosts
  BY KernelsAct
<1>1. bits[i] \in Bits
  BY DEF IInv, TypeOK
<1>2. /\ pc[a] = IF a \in Kernels THEN "run" ELSE "host"
      /\ bits[i].state = "FINISHED" /\ gen' = [gen EXCEPT ![i] = @ + 1]
      /\ IF a \in Kernels
         THEN Change(a, i, Scheduled(bits[i], p, COUNTER_MAX), "hdr_state", "call")
         ELSE ChangeOnly(a, i, Scheduled(bits[i], p, 0))
  BY DEF ScheduleBegin, Caller
<1>3. PICK c \in Counter : c = IF a \in Kernels THEN COUNTER_MAX ELSE 0
  BY CounterTypes
<1> DEFINE new == Scheduled(bits[i], p, c)
<1>4. new \in Bits /\ new.state = "SCHEDULING"
  BY <1>1, ScheduledType
<1>5. IF a \in Kernels THEN Change(a, i, new, "hdr_state", "call") ELSE ChangeOnly(a, i, new)
  BY <1>2, <1>3
<1>6. Alters(i, new)
  BY <1>2, <1>4 DEF Alters, Lifecycle!Allowed
<1> HIDE DEF new
<1>7. Alteration(a, i, new) \/ QuietAlteration(a, i, new)
  BY <1>0, <1>2, <1>4, <1>5 DEF Alteration, QuietAlteration
<1> QED
  BY <1>2, <1>4, <1>6, <1>7 DEF Altered, Counts

LEMMA UnscheduleAlters ==
  ASSUME IInv, NEW a \in Actors, NEW i \in Ids, UnscheduleBegin(a, i)
  PROVE  \E new \in Bits : Altered(a, i, new)
<1>0. a \in Kernels => a \notin Hosts
  BY KernelsAct
<1>1. bits[i] \in Bits
  BY DEF IInv, TypeOK
<1> DEFINE new == [bits[i] EXCEPT !.state = "UNSCHEDULING"]
<1>2. /\ pc[a] = IF a \in Kernels THEN "run" ELSE "host"
      /\ bits[i].state \in {"READY", "RUNNING", "WAITING"} /\ gen' = gen
      /\ IF a \in Kernels THEN Change(a, i, new, "hdr_state", "call")
                          ELSE ChangeOnly(a, i, new)
  BY DEF UnscheduleBegin, Caller
<1>3. new \in Bits /\ new.state = "UNSCHEDULING"
  BY <1>1, BitsTypes, StateNames
<1>4. Alters(i, new)
  BY <1>2, <1>3 DEF Alters, Lifecycle!Allowed
<1> HIDE DEF new
<1>5. Alteration(a, i, new) \/ QuietAlteration(a, i, new)
  BY <1>0, <1>2, <1>3 DEF Alteration, QuietAlteration
<1> QED
  BY <1>2, <1>3, <1>4, <1>5 DEF Altered, Counts

LEMMA EndAlters ==
  ASSUME IInv, NEW a \in Actors, ScheduleEnd(a) \/ ScheduleCancel(a) \/ UnscheduleEnd(a)
  PROVE  \E i \in Ids, new \in Bits : Altered(a, i, new)
<1> DEFINE i == op[a].id
           new(s) == [bits[i] EXCEPT !.state = s]
<1>0. a \in Kernels => a \notin Hosts
  BY KernelsAct
<1>1. /\ pc[a] = IF a \in Kernels THEN "run" ELSE "host"
      /\ i \in Ids /\ bits[i] \in Bits
  BY OpTypes DEF ScheduleEnd, ScheduleCancel, UnscheduleEnd
<1>2. \A s \in {"READY", "FINISHED"} : new(s) \in Bits /\ new(s).state = s
  BY <1>1, BitsTypes, StateNames
<1>3. gen' = gen
  BY DEF ScheduleEnd, ScheduleCancel, UnscheduleEnd
<1>4. \/ bits[i].state = "SCHEDULING" /\ Change(a, i, new("READY"), "hdr_state", "call")
      \/ /\ bits[i].state = "SCHEDULING"
         /\ IF a \in Kernels THEN Change(a, i, new("FINISHED"), "hdr_state", "call")
                             ELSE ChangeOnly(a, i, new("FINISHED"))
      \/ bits[i].state = "UNSCHEDULING" /\ Change(a, i, new("FINISHED"), "hdr_state", "notify")
  BY DEF ScheduleEnd, ScheduleCancel, UnscheduleEnd
<1> HIDE DEF i, new
<1>5. PICK s \in {"READY", "FINISHED"} :
        /\ Alters(i, new(s))
        /\ Alteration(a, i, new(s)) \/ QuietAlteration(a, i, new(s))
  <2>1. CASE bits[i].state = "SCHEDULING" /\ Change(a, i, new("READY"), "hdr_state", "call")
    BY <1>2, <2>1 DEF Alters, Lifecycle!Allowed, Alteration
  <2>2. CASE /\ bits[i].state = "SCHEDULING"
             /\ IF a \in Kernels THEN Change(a, i, new("FINISHED"), "hdr_state", "call")
                                 ELSE ChangeOnly(a, i, new("FINISHED"))
    BY <1>0, <1>2, <2>2 DEF Alters, Lifecycle!Allowed, Alteration, QuietAlteration
  <2>3. CASE bits[i].state = "UNSCHEDULING" /\ Change(a, i, new("FINISHED"), "hdr_state", "notify")
    BY <1>2, <2>3 DEF Alters, Lifecycle!Allowed, Alteration
  <2> QED
    BY <1>4, <2>1, <2>2, <2>3
<1> QED
  BY <1>1, <1>2, <1>3, <1>5 DEF Altered, Counts

\* Signals, and what a workload waits for.
LEMMA SignalAlters ==
  ASSUME IInv, NEW a \in Actors, NEW i \in Ids, Signal(a, i)
  PROVE  \E new \in Bits : Altered(a, i, new)
<1> DEFINE new == [bits[i] EXCEPT !.signal = TRUE]
           label == IF a \in Kernels THEN "hdr_access" ELSE "hdr_state"
<1>1. new \in Bits /\ new.state = bits[i].state
  BY BitsTypes DEF IInv, TypeOK
<1>2. /\ pc[a] = IF a \in Kernels THEN "run" ELSE "host"
      /\ Change(a, i, new, label, "call") /\ gen' = gen
      /\ label \in {"hdr_state", "hdr_access"}
  BY DEF Signal, Caller
<1> HIDE DEF new, label
<1>3. Alters(i, new) /\ Alteration(a, i, new) /\ Counts(i, new)
  BY <1>1, <1>2 DEF Alters, Alteration, Counts
<1> QED
  BY <1>1, <1>2, <1>3 DEF Altered

LEMMA OwnCallAlters ==
  ASSUME IInv, NEW k \in Kernels, SignalReset(k) \/ WaitReset(k) \/ \E j \in Ids : WaitSet(k, j)
  PROVE  \E i \in Ids, new \in Bits : Altered(k, i, new)
<1>1. pc[k] = "run" /\ gen' = gen
  BY DEF SignalReset, WaitReset, WaitSet, Caller
<1>2. k \in Actors /\ k \notin Hosts /\ cur[k].id \in Ids /\ bits[cur[k].id] \in Bits
  BY <1>1, OwnWorkload, KernelsAct
<1> DEFINE i == cur[k].id
<1>3. PICK new \in Bits :
        /\ new.state = bits[i].state
        /\ Change(k, i, new, "hdr_access", "call") \/ ChangeOnly(k, i, new)
  <2>1. CASE SignalReset(k)
    <3>1. [bits[i] EXCEPT !.signal = FALSE] \in Bits
          /\ [bits[i] EXCEPT !.signal = FALSE].state = bits[i].state
      BY <1>2, BitsTypes
    <3> QED
      BY <2>1, <3>1 DEF SignalReset
  <2>2. CASE WaitReset(k) \/ \E j \in Ids : WaitSet(k, j)
    <3>1. PICK v \in Ids \union {NoId} : ChangeOnly(k, i, [bits[i] EXCEPT !.wait_id = v])
      BY <2>2 DEF WaitReset, WaitSet
    <3>2. [bits[i] EXCEPT !.wait_id = v] \in Bits
          /\ [bits[i] EXCEPT !.wait_id = v].state = bits[i].state
      BY <1>2, BitsTypes
    <3> QED
      BY <3>1, <3>2
  <2> QED
    BY <2>1, <2>2
<1>4. Alters(i, new) /\ Counts(i, new)
  BY <1>1, <1>3 DEF Alters, Counts
<1>5. Alteration(k, i, new) \/ QuietAlteration(k, i, new)
  BY <1>2, <1>3 DEF Alteration, QuietAlteration
<1> QED
  BY <1>1, <1>2, <1>3, <1>4, <1>5 DEF Altered

LEMMA AddRemoveAlters ==
  ASSUME IInv, NEW h \in Hosts,
         \/ \E s \in {"FINISHED", "NONE"} : AddEnd(h, s) \/ RemoveEnd(h, s)
         \/ \E j \in Ids : RemoveBegin(h, j)
  PROVE  \E i \in Ids, new \in Bits : Altered(h, i, new)
<1>0. h \in Actors /\ h \notin Kernels
  BY KernelsAct
<1>1. PICK i \in Ids, s \in {"FINISHED", "NONE", "REMOVING"} :
        /\ pc[h] = "host" /\ gen' = gen
        /\ ChangeOnly(h, i, [bits[i] EXCEPT !.state = s])
        /\ \/ bits[i].state \in {"ADDING", "REMOVING"} /\ s \in {"FINISHED", "NONE"}
           \/ bits[i].state = "FINISHED" /\ s = "REMOVING"
  <2>1. ASSUME NEW s \in {"FINISHED", "NONE"}, AddEnd(h, s) \/ RemoveEnd(h, s)
        PROVE  /\ op[h].id \in Ids /\ pc[h] = "host" /\ gen' = gen
               /\ ChangeOnly(h, op[h].id, [bits[op[h].id] EXCEPT !.state = s])
               /\ bits[op[h].id].state \in {"ADDING", "REMOVING"}
    BY <1>0, <2>1, OpTypes DEF AddEnd, RemoveEnd, InOp
  <2>2. ASSUME NEW j \in Ids, RemoveBegin(h, j)
        PROVE  /\ pc[h] = "host" /\ gen' = gen /\ bits[j].state = "FINISHED"
               /\ ChangeOnly(h, j, [bits[j] EXCEPT !.state = "REMOVING"])
    BY <1>0, <2>2 DEF RemoveBegin, Caller
  <2> QED
    BY <2>1, <2>2
<1> DEFINE new == [bits[i] EXCEPT !.state = s]
<1>2. new \in Bits /\ new.state = s
  BY BitsTypes, StateNames DEF IInv, TypeOK
<1>3. Alters(i, new)
  BY <1>1, <1>2 DEF Alters, Lifecycle!Allowed
<1>4. ChangeOnly(h, i, new)
  BY <1>1
<1> HIDE DEF new
<1>5. QuietAlteration(h, i, new)
  BY <1>0, <1>1, <1>2, <1>4 DEF QuietAlteration
<1> QED
  BY <1>0, <1>1, <1>2, <1>3, <1>5 DEF Altered, Counts

LEMMA CallsAlter ==
  ASSUME IInv, NEW a \in Actors, Calls(a)
  PROVE  \E i \in Ids, new \in Bits : Altered(a, i, new)
BY ScheduleAlters, UnscheduleAlters, EndAlters, SignalAlters, OwnCallAlters, AddRemoveAlters
   DEF Calls

-----------------------------------------------------------------------------
(* The life of workloads, while nobody schedules or removes a workload     *)
(* that a kernel still executes.                                           *)

OneRunStep ==
  \A i \in Ids : bits[i].state = "FINISHED" /\ bits'[i].state \in {"SCHEDULING", "REMOVING"} =>
    \A k \in Kernels : On(k) # i

\* A finished workload is scheduled again, or removed, only when no kernel
\* executes it any more.
OneRun == [][OneRunStep]_vars

\* Invariant: a workload is executed by one kernel, and until that gives it back
\* it is running, or was unscheduled.
OwnRuns ==
  \A k \in Kernels : On(k) # NoId =>
    /\ bits[On(k)].state \in {"RUNNING", "UNSCHEDULING", "FINISHED"}
    /\ \A j \in Kernels : j # k => On(j) # On(k)

\* What a kernel has is a workload.
LEMMA OnTypes ==
  ASSUME IInv, RInv, NEW k \in Kernels
  PROVE  /\ On(k) \in Ids \union {NoId}
         /\ pc[k] = "run" => On(k) = cur[k].id /\ cur[k].id \in Ids /\ On(k) # NoId
                             /\ tgt[k] = NoId /\ ret[k] = "none" /\ cur[k] # NoRun
         /\ tgt[k] # NoId => cur[k] = NoRun
<1>1. k \in Actors /\ tgt[k] \in Ids \union {NoId}
  BY KernelsAct DEF IInv, TypeOK
<1>2. cur[k] # NoRun => cur[k].id \in Ids
  BY KernelFacts
<1>3. pc[k] = "run" => /\ cur[k] # NoRun /\ cur[k].id \in Ids /\ cur[k].id # NoId
                       /\ tgt[k] = NoId /\ ret[k] = "none"
  BY KernelFacts, NullsAssumption DEF Sections
<1>4. tgt[k] # NoId => cur[k] = NoRun
  <2>1. ret[k] = "dispatch" => pc[k] \in Sections
    BY <1>1 DEF IInv, Control
  <2> QED
    BY <2>1 DEF RInv, RunsKept, Executing, Sections
<1> QED
  BY <1>1, <1>2, <1>3, <1>4 DEF On

\* Kernel k keeps what it has.
Stays(k) == cur'[k] = cur[k] /\ tgt'[k] = tgt[k] /\ (ret'[k] = "release" <=> ret[k] = "release")

LEMMA StaysOn == ASSUME NEW k \in Kernels, Stays(k) PROVE On(k)' = On(k)
BY DEF Stays, On

LEMMA QuietLife ==
  ASSUME bits' = bits, \A k \in Kernels : On(k)' = On(k)
  PROVE  Lifecycle!Next
BY DEF Lifecycle!Next, Lifecycle!Unseen

\* One workload changes, as the life of workloads allows.
LEMMA AlteredLife ==
  ASSUME IInv, NEW i \in Ids, NEW new \in Bits, bits' = [bits EXCEPT ![i] = new],
         \A k \in Kernels : On(k)' = On(k),
         new.state = bits[i].state \/ <<bits[i].state, new.state>> \in Lifecycle!Allowed
  PROVE  Lifecycle!Next
<1>1. bits'[i] = new /\ \A j \in Ids : j # i => bits'[j] = bits[j]
  BY DEF IInv, TypeOK
<1>2. CASE new.state = bits[i].state
  BY <1>1, <1>2 DEF Lifecycle!Next, Lifecycle!Unseen
<1>3. CASE <<bits[i].state, new.state>> \in Lifecycle!Allowed
  <2> DEFINE state == [j \in Ids |-> bits[j].state]
             on == [k \in Kernels |-> On(k)]
  <2>1. state[i] = bits[i].state /\ state'[i] = new.state /\ on' = on
    BY <1>1
  <2>2. state' = [state EXCEPT ![i] = new.state]
    <3>1. \A j \in Ids : bits'[j].state = IF j = i THEN new.state ELSE bits[j].state
      BY <1>1
    <3>2. state' = [j \in Ids |-> IF j = i THEN new.state ELSE bits[j].state]
      BY <3>1
    <3> QED
      BY <3>2
  <2>3. state' = [state EXCEPT ![i] = state'[i]]
    BY <2>1, <2>2
  <2> QED
    BY <1>3, <2>1, <2>3 DEF Lifecycle!Next, Lifecycle!Change, Lifecycle!Becomes
<1> QED
  BY <1>2, <1>3

-----------------------------------------------------------------------------
\* Calls and the sections of the header leave the kernels what they have.
LEMMA CallLife ==
  ASSUME IInv, RInv, NEW a \in Actors, Calls(a)
  PROVE  Lifecycle!Next
<1>1. PICK i \in Ids, new \in Bits : Altered(a, i, new)
  BY CallsAlter
<1>2. /\ bits' = [bits EXCEPT ![i] = new] /\ UNCHANGED <<cur, tgt>>
      /\ ret' = ret \/ \E after \in {"call", "notify"} : ret' = [ret EXCEPT ![a] = after]
  BY <1>1 DEF Altered, Alteration, QuietAlteration, Change, ChangeOnly
<1>3. a \in Kernels => ret[a] = "none"
  BY <1>1, KernelFacts DEF Altered, Sections
<1>4. ASSUME NEW k \in Kernels PROVE On(k)' = On(k)
  <2>1. k \in Actors /\ ret \in [Actors -> After]
    BY KernelsAct DEF IInv, TypeOK
  <2>2. ret'[k] = "release" <=> ret[k] = "release"
    BY <1>2, <1>3, <2>1
  <2> QED
    BY <1>2, <2>2, StaysOn DEF Stays
<1>5. new.state = bits[i].state \/ <<bits[i].state, new.state>> \in Lifecycle!Allowed
  BY <1>1 DEF Altered, Alters
<1> QED
  BY <1>2, <1>4, <1>5, AlteredLife

LEMMA AllocLife ==
  ASSUME IInv, RInv, NEW h \in Hosts, Alloc(h)
  PROVE  Lifecycle!Next
<1>1. PICK i \in Ids : bits[i].state = "NONE" /\ bits' = [bits EXCEPT ![i].state = "ADDING"]
  BY KernelsAct, IdTypes DEF Alloc, IInv, Control, Located, Sections
<1> DEFINE new == [bits[i] EXCEPT !.state = "ADDING"]
<1>2. new \in Bits /\ new.state = "ADDING"
  BY BitsTypes, StateNames DEF IInv, TypeOK
<1>3. bits' = [bits EXCEPT ![i] = new]
  BY <1>1
<1>4. \A k \in Kernels : On(k)' = On(k)
  BY StaysOn DEF Alloc, Stays
<1>5. <<bits[i].state, new.state>> \in Lifecycle!Allowed
  BY <1>1, <1>2 DEF Lifecycle!Allowed
<1> HIDE DEF new
<1> QED
  BY <1>2, <1>3, <1>4, <1>5, AlteredLife

\* A search makes a waiting workload ready.
LEMMA SearchLife ==
  ASSUME IInv, RInv, NEW k \in Kernels, Search(k)
  PROVE  Lifecycle!Next
<1> DEFINE i == <<blk[k], slot[k]>>
<1>1. i \in Ids
  BY KernelsAct, IdTypes DEF Search, IInv, Control, Located, Sections
<1>2. bits[i] \in Bits
  BY <1>1 DEF IInv, TypeOK
<1>3. \A j \in Kernels : On(j)' = On(j)
  BY StaysOn DEF Search, Stays
<1>4. bits' = bits \/ (bits' = [bits EXCEPT ![i] = Woken(@)] /\ bits[i].state = "WAITING")
  BY DEF Search, Wakeable
<1> DEFINE new == Woken(bits[i])
<1>5. new \in Bits /\ new.state = "READY"
  BY <1>2, WokenType
<1>6. CASE bits' = bits
  BY <1>3, <1>6, QuietLife
<1>7. CASE bits' = [bits EXCEPT ![i] = Woken(@)] /\ bits[i].state = "WAITING"
  <2>1. bits' = [bits EXCEPT ![i] = new]
    BY <1>7
  <2>2. <<bits[i].state, new.state>> \in Lifecycle!Allowed
    BY <1>5, <1>7 DEF Lifecycle!Allowed
  <2> HIDE DEF i, new
  <2> QED
    BY <1>1, <1>3, <1>5, <2>1, <2>2, AlteredLife
<1> QED
  BY <1>4, <1>6, <1>7

\* A kernel without a workload takes a ready one.
LEMMA PickOn ==
  ASSUME IInv, RInv, NEW k \in Kernels, Pick(k)
  PROVE  \E i \in Ids :
           /\ bits[i].state = "READY" /\ bits'[i].state = "RUNNING"
           /\ \A j \in Ids : j # i => bits'[j].state = bits[j].state
           /\ On(k) = NoId /\ On(k)' = i
           /\ \A j \in Kernels : j # k => On(j)' = On(j)
<1>1. PICK i \in ReadyIn(blk[k]) :
        /\ bits' = [j \in Ids |->
             IF j = i THEN [bits[j] EXCEPT !.state = "RUNNING", !.counter = 0]
             ELSE IF j \in ReadyIn(blk[k])
             THEN [bits[j] EXCEPT !.counter = Aged(@, COUNTER_MAX)]
             ELSE bits[j]]
        /\ tgt' = [tgt EXCEPT ![k] = i]
  BY DEF Pick
<1>2. i \in Ids /\ bits[i].state = "READY" /\ i # NoId
  BY NullsAssumption DEF ReadyIn, IdsOf
<1>3. bits'[i].state = "RUNNING" /\ \A j \in Ids : j # i => bits'[j].state = bits[j].state
  <2>1. \A j \in Ids : j # i => bits'[j].state = bits[j].state
    BY <1>1, PickedType DEF IInv, TypeOK
  <2>2. bits'[i] = [bits[i] EXCEPT !.state = "RUNNING", !.counter = 0] /\ bits[i] \in Bits
    BY <1>1, <1>2 DEF IInv, TypeOK
  <2> QED
    BY <2>1, <2>2 DEF Bits
<1>4. /\ pc[k] = "pick" /\ cur' = cur /\ ret' = [ret EXCEPT ![k] = "dispatch"]
      /\ k \in Actors
  BY KernelsAct DEF Pick
<1>5. ret[k] = "none" /\ cur[k] = NoRun /\ tgt[k] = NoId
  BY <1>4, KernelFacts DEF RInv, RunsKept, Executing, Sections
<1>6. On(k) = NoId /\ On(k)' = i
  BY <1>1, <1>2, <1>4, <1>5 DEF On, IInv, TypeOK
<1>7. \A j \in Kernels : j # k => On(j)' = On(j)
  BY <1>1, <1>4, KernelsAct, StaysOn DEF Stays, IInv, TypeOK
<1> QED
  BY <1>2, <1>3, <1>6, <1>7

\* Under OneRun no other kernel has it.
LEMMA PickLife ==
  ASSUME IInv, RInv, OwnRuns, NEW k \in Kernels, Pick(k)
  PROVE  Lifecycle!Next
<1>1. PICK i \in Ids :
        /\ bits[i].state = "READY" /\ bits'[i].state = "RUNNING"
        /\ \A j \in Ids : j # i => bits'[j].state = bits[j].state
        /\ On(k) = NoId /\ On(k)' = i
        /\ \A j \in Kernels : j # k => On(j)' = On(j)
  BY PickOn
<1>2. \A j \in Kernels : On(j) # i
  BY <1>1, NullsAssumption DEF OwnRuns
<1> DEFINE state == [j \in Ids |-> bits[j].state]
           on == [j \in Kernels |-> On(j)]
<1>3. /\ state[i] = "READY" /\ state' = [state EXCEPT ![i] = "RUNNING"]
      /\ on[k] = NoId /\ on' = [on EXCEPT ![k] = i] /\ \A j \in Kernels : on[j] # i
  BY <1>1, <1>2
<1> QED
  BY <1>1, <1>3 DEF Lifecycle!Next, Lifecycle!Take, Lifecycle!Becomes

\* A kernel gives back the workload it has, unless that is being unscheduled or
\* has finished.
LEMMA ReleaseOn ==
  ASSUME IInv, RInv, NEW k \in Kernels, NEW s \in {"READY", "WAITING", "FINISHED"},
         Release(k, s)
  PROVE  \E i \in Ids :
           /\ bits[i].state \notin {"UNSCHEDULING", "FINISHED"} /\ bits'[i].state = s
           /\ \A j \in Ids : j # i => bits'[j].state = bits[j].state
           /\ On(k) = i /\ On(k)' = NoId
           /\ \A j \in Kernels : j # k => On(j)' = On(j)
<1> DEFINE i == cur[k].id
<1>1. /\ pc[k] = "run" /\ cur' = cur /\ tgt' = tgt
      /\ bits' = [bits EXCEPT ![i] = [bits[i] EXCEPT !.state = s]]
      /\ ret' = [ret EXCEPT ![k] = "release"]
      /\ bits[i].state \notin {"UNSCHEDULING", "FINISHED"}
  BY DEF Release, Change
<1>2. k \in Actors /\ i \in Ids /\ bits[i] \in Bits
  BY <1>1, OwnWorkload
<1>3. /\ \A j \in Ids : j # i => bits'[j] = bits[j]
      /\ bits'[i].state = s
  BY <1>1, <1>2, BitsTypes, StateNames DEF IInv, TypeOK
<1>4. On(k) = i /\ On(k) # NoId /\ tgt[k] = NoId
  BY <1>1, OnTypes
<1>5. On(k)' = NoId
  BY <1>1, <1>2, <1>4 DEF On, IInv, TypeOK
<1>6. \A j \in Kernels : j # k => On(j)' = On(j)
  BY <1>1, KernelsAct, StaysOn DEF Stays, IInv, TypeOK
<1> QED
  BY <1>1, <1>2, <1>3, <1>4, <1>5, <1>6

\* Under OneRun it is running.
LEMMA ReleaseLife ==
  ASSUME IInv, RInv, OwnRuns, NEW k \in Kernels, NEW s \in {"READY", "WAITING", "FINISHED"},
         Release(k, s)
  PROVE  Lifecycle!Next
<1>1. PICK i \in Ids :
        /\ bits[i].state \notin {"UNSCHEDULING", "FINISHED"} /\ bits'[i].state = s
        /\ \A j \in Ids : j # i => bits'[j].state = bits[j].state
        /\ On(k) = i /\ On(k)' = NoId
        /\ \A j \in Kernels : j # k => On(j)' = On(j)
  BY ReleaseOn
<1>2. bits[i].state = "RUNNING" /\ i # NoId
  BY <1>1, NullsAssumption DEF OwnRuns
<1> DEFINE state == [j \in Ids |-> bits[j].state]
           on == [j \in Kernels |-> On(j)]
<1>3. /\ on[k] # NoId /\ on[k] = i /\ state[i] = "RUNNING"
      /\ state' = [state EXCEPT ![i] = s] /\ state'[i] = s
      /\ on' = [on EXCEPT ![k] = NoId]
  BY <1>1, <1>2
<1> QED
  BY <1>3 DEF Lifecycle!Next, Lifecycle!GiveBack, Lifecycle!Becomes

LEMMA AbortedLife ==
  ASSUME IInv, RInv, NEW k \in Kernels, ReleaseAborted(k)
  PROVE  Lifecycle!Next
<1>1. /\ pc[k] = "run" /\ UNCHANGED <<bits, tgt, ret>> /\ cur' = [cur EXCEPT ![k] = NoRun]
      /\ bits[cur[k].id].state \in {"UNSCHEDULING", "FINISHED"}
  BY DEF ReleaseAborted
<1>2. On(k) = cur[k].id /\ cur[k].id \in Ids /\ On(k) # NoId /\ tgt[k] = NoId
  BY <1>1, OnTypes
<1>3. On(k)' = NoId
  BY <1>1, <1>2 DEF On, IInv, TypeOK
<1>4. \A j \in Kernels : j # k => On(j)' = On(j)
  BY <1>1, StaysOn DEF Stays, IInv, TypeOK
<1> DEFINE state == [j \in Ids |-> bits[j].state]
           on == [j \in Kernels |-> On(j)]
<1>5. /\ on[k] # NoId /\ state[on[k]] \in {"UNSCHEDULING", "FINISHED"} /\ state' = state
      /\ on' = [on EXCEPT ![k] = NoId]
  BY <1>1, <1>2, <1>3, <1>4
<1> QED
  BY <1>5 DEF Lifecycle!Next, Lifecycle!Drop

\* The kernel's unlocks: a pick becomes a run, and a run that was given back is
\* forgotten.
LEMMA UnlockLife ==
  ASSUME IInv, RInv, NEW k \in Kernels, Dispatch(k) \/ Released(k)
  PROVE  Lifecycle!Next
<1>0. k \in Actors
  BY KernelsAct
<1>1. CASE Dispatch(k)
  <2>1. /\ ret[k] = "dispatch" /\ bits' = bits /\ ret' = [ret EXCEPT ![k] = "none"]
        /\ cur' = [cur EXCEPT ![k] = [id |-> tgt[k], gen |-> gen[tgt[k]]]]
        /\ tgt' = [tgt EXCEPT ![k] = NoId]
    BY <1>1 DEF Dispatch, Unlock
  <2>2. tgt[k] \in Ids /\ tgt[k] # NoId
    BY <2>1, NullsAssumption DEF IInv, Control
  <2>3. cur'[k] \in Run /\ cur'[k].id = tgt[k] /\ tgt'[k] = NoId /\ ret'[k] = "none"
    BY <1>0, <2>1, <2>2 DEF IInv, TypeOK, Run
  <2>4. On(k)' = On(k)
    BY <2>2, <2>3, RunAssumption DEF On
  <2>5. \A j \in Kernels : j # k => On(j)' = On(j)
    BY <2>1, KernelsAct, StaysOn DEF Stays, IInv, TypeOK
  <2> QED
    BY <2>1, <2>4, <2>5, QuietLife
<1>2. CASE Released(k)
  <2>1. /\ ret[k] = "release" /\ bits' = bits /\ ret' = [ret EXCEPT ![k] = "none"]
        /\ cur' = [cur EXCEPT ![k] = NoRun] /\ tgt' = tgt
    BY <1>2 DEF Released, Unlock
  <2>2. On(k)' = On(k)
    BY <1>0, <2>1 DEF On, IInv, TypeOK
  <2>3. \A j \in Kernels : j # k => On(j)' = On(j)
    BY <2>1, KernelsAct, StaysOn DEF Stays, IInv, TypeOK
  <2> QED
    BY <2>1, <2>2, <2>3, QuietLife
<1> QED
  BY <1>1, <1>2

\* Steps that change no workload, and leave every kernel what it has.
Idles(a) ==
  \/ Notify(a) \/ EndFails(a)
  \/ a \in Kernels /\ \/ Reserve(a) \/ Scan(a) \/ Choose(a) \/ PickNothing(a)
                      \/ IdleWait(a) \/ Wake(a)
  \/ a \in Hosts /\ \/ AddBegin(a) \/ AllocNext(a) \/ Exit(a) \/ Test(a)
                    \/ \E i \in Ids : Wait(a, i)

InSection(a) ==
  \/ HeaderState(a) \/ CallDone(a) \/ CallDoneNotify(a)
  \/ a \in Kernels /\ (HeaderReset(a) \/ HeaderAccess(a) \/ SearchLock(a) \/ SearchDone(a))

LEMMA OtherLife ==
  ASSUME IInv, RInv, NEW a \in Actors, Idles(a) \/ InSection(a)
  PROVE  Lifecycle!Next
<1>1. CASE Idles(a)
  <2>1. UNCHANGED <<bits, cur, ret>> /\ \A k \in Kernels : tgt'[k] = tgt[k]
    BY <1>1, KernelsAct DEF Idles, Notify, EndFails, Reserve, Scan, Choose, PickNothing, IdleWait,
       Wake, AddBegin, AllocNext, Exit, Test, Wait, locals, IInv, TypeOK
  <2> QED
    BY <2>1, StaysOn, QuietLife DEF Stays
<1>2. CASE InSection(a)
  <2>1. /\ UNCHANGED <<bits, cur, tgt>>
        /\ ret' = ret \/ (ret[a] # "release" /\ \E r \in {"scan", "none"} : ret' = [ret EXCEPT ![a] = r])
    <3>1. pc[a] = "search" => ret[a] = "none"
      BY DEF IInv, Control, Sections
    <3> QED
      BY <1>2, <3>1 DEF InSection, HeaderState, CallDone, CallDoneNotify, HeaderReset,
         HeaderAccess, SearchLock, SearchDone, Unlock
  <2>2. \A k \in Kernels : Stays(k)
    BY <2>1, KernelsAct DEF Stays, IInv, TypeOK
  <2> QED
    BY <2>1, <2>2, StaysOn, QuietLife
<1> QED
  BY <1>1, <1>2

\* Every step is one of these.
LEMMA StepKinds ==
  ASSUME [Next]_vars
  PROVE  \/ \E a \in Actors : Calls(a) \/ Idles(a) \/ InSection(a)
         \/ \E h \in Hosts : Alloc(h)
         \/ \E k \in Kernels :
              \/ Search(k) \/ Pick(k) \/ Dispatch(k) \/ ReleaseAborted(k) \/ Released(k)
              \/ \E s \in {"READY", "WAITING", "FINISHED"} : Release(k, s)
         \/ HandleEvent
         \/ UNCHANGED vars
<1> USE KernelsAct
<1>1. ASSUME NEW k \in Kernels, KernelStep(k) \/ Exits(k) \/ Syscall(k)
      PROVE  \/ Calls(k) \/ Idles(k) \/ InSection(k)
             \/ Search(k) \/ Pick(k) \/ Dispatch(k) \/ ReleaseAborted(k) \/ Released(k)
             \/ \E s \in {"READY", "WAITING", "FINISHED"} : Release(k, s)
  BY <1>1 DEF KernelStep, Section, EndCall, Exits, Syscall, Calls, Idles, InSection
<1>2. ASSUME NEW h \in Hosts, HostStep(h) \/ HostCall(h)
      PROVE  Calls(h) \/ Idles(h) \/ InSection(h) \/ Alloc(h)
  BY <1>2 DEF HostStep, Section, EndCall, HostCall, Calls, Idles, InSection
<1> QED
  BY <1>1, <1>2 DEF Next

\* All but picks and releases are steps of WorkloadLifecycle in any program.
LEMMA OthersLife ==
  ASSUME IInv, RInv, [Next]_vars
  PROVE  \/ Lifecycle!Next
         \/ \E k \in Kernels : Pick(k) \/ \E s \in {"READY", "WAITING", "FINISHED"} : Release(k, s)
<1>1. CASE HandleEvent
  <2>1. UNCHANGED <<bits, cur, tgt, ret>>
    BY <1>1 DEF HandleEvent
  <2> QED
    BY <2>1, StaysOn, QuietLife DEF Stays
<1>2. CASE UNCHANGED vars
  <2>1. UNCHANGED <<bits, cur, tgt, ret>>
    BY <1>2 DEF vars, locals
  <2> QED
    BY <2>1, StaysOn, QuietLife DEF Stays
<1> QED
  BY <1>1, <1>2, StepKinds, CallLife, OtherLife, AllocLife, SearchLife, UnlockLife, AbortedLife

LEMMA LifeStep ==
  ASSUME IInv, RInv, OwnRuns, [Next]_vars
  PROVE  Lifecycle!Next
BY OthersLife, PickLife, ReleaseLife

\* The step of a life of workloads, in the queue's own terms.
LEMMA LifeParts ==
  ASSUME Lifecycle!Next
  PROVE  \/ /\ \A i \in Ids : bits'[i].state = bits[i].state
            /\ \A k \in Kernels : On(k)' = On(k)
         \/ \E i \in Ids :
              /\ <<bits[i].state, bits'[i].state>> \in Lifecycle!Allowed
              /\ \A j \in Ids : j # i => bits'[j].state = bits[j].state
              /\ \A k \in Kernels : On(k)' = On(k)
         \/ \E k \in Kernels, i \in Ids :
              /\ \A j \in Kernels : On(j) # i
              /\ bits'[i].state = "RUNNING"
              /\ \A j \in Ids : j # i => bits'[j].state = bits[j].state
              /\ On(k)' = i /\ \A j \in Kernels : j # k => On(j)' = On(j)
         \/ \E k \in Kernels :
              /\ \A j \in Ids : j # On(k) => bits'[j].state = bits[j].state
              /\ On(k)' = NoId /\ \A j \in Kernels : j # k => On(j)' = On(j)
<1> DEFINE state == [i \in Ids |-> bits[i].state]
           on == [k \in Kernels |-> On(k)]
<1>1. /\ \A i \in Ids : state[i] = bits[i].state /\ state'[i] = bits'[i].state
      /\ \A k \in Kernels : on[k] = On(k) /\ on'[k] = On(k)'
  OBVIOUS
<1>2. CASE Lifecycle!Unseen
  <2>1. (\A i \in Ids : state'[i] = state[i]) /\ \A k \in Kernels : on'[k] = on[k]
    BY <1>2 DEF Lifecycle!Unseen
  <2> HIDE DEF state, on
  <2> QED
    BY <1>1, <2>1
<1>3. ASSUME NEW i \in Ids, Lifecycle!Change(i)
      PROVE  /\ <<bits[i].state, bits'[i].state>> \in Lifecycle!Allowed
             /\ \A j \in Ids : j # i => bits'[j].state = bits[j].state
             /\ \A k \in Kernels : On(k)' = On(k)
  <2>1. /\ <<state[i], state'[i]>> \in Lifecycle!Allowed /\ on' = on
        /\ state' = [state EXCEPT ![i] = state'[i]]
    BY <1>3 DEF Lifecycle!Change, Lifecycle!Becomes
  <2>2. \A j \in Ids : j # i => state'[j] = state[j]
    BY <2>1
  <2> HIDE DEF state, on
  <2> QED
    BY <1>1, <2>1, <2>2
<1>4. ASSUME NEW k \in Kernels, NEW i \in Ids, Lifecycle!Take(k, i)
      PROVE  /\ \A j \in Kernels : On(j) # i
             /\ bits'[i].state = "RUNNING"
             /\ \A j \in Ids : j # i => bits'[j].state = bits[j].state
             /\ On(k)' = i /\ \A j \in Kernels : j # k => On(j)' = On(j)
  <2>1. /\ \A j \in Kernels : on[j] # i
        /\ state' = [state EXCEPT ![i] = "RUNNING"] /\ on' = [on EXCEPT ![k] = i]
    BY <1>4 DEF Lifecycle!Take, Lifecycle!Becomes
  <2>2. /\ state'[i] = "RUNNING" /\ \A j \in Ids : j # i => state'[j] = state[j]
        /\ on'[k] = i /\ \A j \in Kernels : j # k => on'[j] = on[j]
    BY <2>1
  <2> HIDE DEF state, on
  <2> QED
    BY <1>1, <2>1, <2>2
<1>5. ASSUME NEW k \in Kernels, Lifecycle!GiveBack(k) \/ Lifecycle!Drop(k)
      PROVE  /\ \A j \in Ids : j # On(k) => bits'[j].state = bits[j].state
             /\ On(k)' = NoId /\ \A j \in Kernels : j # k => On(j)' = On(j)
  <2>1. /\ on' = [on EXCEPT ![k] = NoId]
        /\ state' = [state EXCEPT ![on[k]] = state'[on[k]]] \/ state' = state
    BY <1>5 DEF Lifecycle!GiveBack, Lifecycle!Drop, Lifecycle!Becomes
  <2>2. /\ \A j \in Ids : j # on[k] => state'[j] = state[j]
        /\ on'[k] = NoId /\ \A j \in Kernels : j # k => on'[j] = on[j]
    BY <2>1
  <2> HIDE DEF state, on
  <2> QED
    BY <1>1, <2>2
<1> QED
  BY <1>2, <1>3, <1>4, <1>5 DEF Lifecycle!Next

LEMMA OwnKept ==
  ASSUME IInv, RInv, OwnRuns, OneRunStep, Lifecycle!Next
  PROVE  OwnRuns'
<1>0. \A k \in Kernels : On(k) \in Ids \union {NoId}
  BY OnTypes
<1> SUFFICES ASSUME NEW k \in Kernels, On(k)' # NoId
             PROVE  /\ bits'[On(k)'].state \in {"RUNNING", "UNSCHEDULING", "FINISHED"}
                    /\ \A j \in Kernels : j # k => On(j)' # On(k)'
  BY DEF OwnRuns
<1>1. CASE /\ \A i \in Ids : bits'[i].state = bits[i].state
           /\ \A j \in Kernels : On(j)' = On(j)
  BY <1>0, <1>1 DEF OwnRuns
<1>2. ASSUME NEW i \in Ids, <<bits[i].state, bits'[i].state>> \in Lifecycle!Allowed,
             \A j \in Ids : j # i => bits'[j].state = bits[j].state,
             \A j \in Kernels : On(j)' = On(j)
      PROVE  /\ bits'[On(k)'].state \in {"RUNNING", "UNSCHEDULING", "FINISHED"}
             /\ \A j \in Kernels : j # k => On(j)' # On(k)'
  <2>1. On(k) = i => bits'[i].state \in {"UNSCHEDULING", "FINISHED"}
    BY <1>2, NullsAssumption DEF OwnRuns, OneRunStep, Lifecycle!Allowed
  <2> QED
    BY <1>0, <1>2, <2>1 DEF OwnRuns
<1>3. ASSUME NEW l \in Kernels, NEW i \in Ids, \A j \in Kernels : On(j) # i,
             bits'[i].state = "RUNNING",
             \A j \in Ids : j # i => bits'[j].state = bits[j].state,
             On(l)' = i, \A j \in Kernels : j # l => On(j)' = On(j)
      PROVE  /\ bits'[On(k)'].state \in {"RUNNING", "UNSCHEDULING", "FINISHED"}
             /\ \A j \in Kernels : j # k => On(j)' # On(k)'
  BY <1>0, <1>3 DEF OwnRuns
<1>4. ASSUME NEW l \in Kernels,
             \A j \in Ids : j # On(l) => bits'[j].state = bits[j].state,
             On(l)' = NoId, \A j \in Kernels : j # l => On(j)' = On(j)
      PROVE  /\ bits'[On(k)'].state \in {"RUNNING", "UNSCHEDULING", "FINISHED"}
             /\ \A j \in Kernels : j # k => On(j)' # On(k)'
  BY <1>0, <1>4 DEF OwnRuns
<1> QED
  BY <1>1, <1>2, <1>3, <1>4, LifeParts

-----------------------------------------------------------------------------
\* A run is the same, or has just been dispatched.
LEMMA RunsSame ==
  ASSUME IInv, RInv, [Next]_vars, NEW k \in Kernels
  PROVE  \/ cur'[k] = cur[k] /\ ret[k] = "release" /\ ret'[k] = "release"
         \/ cur'[k] = cur[k] /\ ret[k] # "release"
         \/ cur'[k] = NoRun
         \/ Dispatch(k)
<1>0. k \in Actors /\ ret \in [Actors -> After] /\ cur \in [Kernels -> Run \union {NoRun}]
  BY KernelsAct DEF IInv, TypeOK
<1>1. ASSUME NEW a \in Actors, Calls(a)
      PROVE  cur' = cur /\ (ret' = ret \/ (ret[a] = "none" /\ \E r \in After : ret' = [ret EXCEPT ![a] = r]))
  <2>1. PICK i \in Ids, new \in Bits : Altered(a, i, new)
    BY <1>1, CallsAlter
  <2>2. ret[a] = "none"
    BY <2>1 DEF Altered, IInv, Control, Sections
  <2> QED
    BY <2>1, <2>2 DEF Altered, Alteration, QuietAlteration, Change, ChangeOnly, After
<1>2. ASSUME NEW a \in Actors, Idles(a) PROVE UNCHANGED <<cur, ret>>
  BY <1>2 DEF Idles, Notify, EndFails, Reserve, Scan, Choose, PickNothing, IdleWait,
     Wake, AddBegin, AllocNext, Exit, Test, Wait, locals
<1>3. ASSUME NEW a \in Actors, InSection(a)
      PROVE  cur' = cur /\ (ret' = ret \/ (ret[a] # "release" /\ \E r \in After : ret' = [ret EXCEPT ![a] = r]))
  <2>1. pc[a] = "search" => ret[a] = "none"
    BY DEF IInv, Control, Sections
  <2> QED
    BY <1>3, <2>1 DEF InSection, HeaderState, CallDone, CallDoneNotify, HeaderReset,
       HeaderAccess, SearchLock, SearchDone, Unlock, After
<1>4. ASSUME NEW h \in Hosts, Alloc(h) PROVE UNCHANGED <<cur, ret>>
  BY <1>4 DEF Alloc
<1>5. ASSUME NEW j \in Kernels, Search(j) PROVE UNCHANGED <<cur, ret>>
  BY <1>5 DEF Search
<1>6. ASSUME NEW j \in Kernels, Pick(j) \/ \E s \in {"READY", "WAITING", "FINISHED"} : Release(j, s)
      PROVE  cur' = cur /\ (ret[j] = "none" /\ \E r \in After : ret' = [ret EXCEPT ![j] = r])
  <2>1. pc[j] \in {"pick", "run"} /\ j \in Actors
    BY <1>6, KernelsAct DEF Pick, Release
  <2>2. ret[j] = "none"
    BY <2>1 DEF IInv, Control, Sections
  <2> QED
    BY <1>6, <2>2 DEF Pick, Release, Change, After
<1>7. ASSUME NEW j \in Kernels, ReleaseAborted(j) \/ Released(j)
      PROVE  cur' = [cur EXCEPT ![j] = NoRun] /\ (ret' = ret \/ ret' = [ret EXCEPT ![j] = "none"])
  BY <1>7 DEF ReleaseAborted, Released, Unlock
<1>8. ASSUME NEW j \in Kernels, Dispatch(j)
      PROVE  /\ cur' = [cur EXCEPT ![j] = [id |-> tgt[j], gen |-> gen[tgt[j]]]]
             /\ ret' = [ret EXCEPT ![j] = "none"]
  BY <1>8 DEF Dispatch, Unlock
<1>9. HandleEvent \/ UNCHANGED vars => UNCHANGED <<cur, ret>>
  BY DEF HandleEvent, vars, locals
<1>10. CASE \E j \in Kernels : ReleaseAborted(j) \/ Released(j)
  BY <1>0, <1>7, <1>10, KernelsAct
<1>11. CASE \E j \in Kernels : Dispatch(j)
  BY <1>0, <1>8, <1>11, KernelsAct
<1>12. CASE cur' = cur /\ (ret' = ret \/ \E a \in Actors :
               ret[a] # "release" /\ \E r \in After : ret' = [ret EXCEPT ![a] = r])
  BY <1>0, <1>12
<1> QED
  BY <1>1, <1>2, <1>3, <1>4, <1>5, <1>6, <1>9, <1>10, <1>11, <1>12, KernelsAct, StepKinds

\* Only scheduling a finished workload counts, and counts that workload.
LEMMA GenSame ==
  ASSUME IInv, RInv, [Next]_vars
  PROVE  \/ gen' = gen
         \/ \E i \in Ids : /\ gen' = [gen EXCEPT ![i] = @ + 1]
                           /\ bits[i].state = "FINISHED" /\ bits'[i].state = "SCHEDULING"
<1>1. ASSUME NEW a \in Actors, Calls(a)
      PROVE  \/ gen' = gen
             \/ \E i \in Ids : /\ gen' = [gen EXCEPT ![i] = @ + 1]
                               /\ bits[i].state = "FINISHED" /\ bits'[i].state = "SCHEDULING"
  <2>1. PICK i \in Ids, new \in Bits : Altered(a, i, new)
    BY <1>1, CallsAlter
  <2>2. bits' = [bits EXCEPT ![i] = new] /\ Counts(i, new)
    BY <2>1 DEF Altered, Alteration, QuietAlteration, Change, ChangeOnly
  <2>3. bits'[i] = new
    BY <2>2 DEF IInv, TypeOK
  <2> QED
    BY <2>2, <2>3 DEF Counts
<1>2. ASSUME NEW a \in Actors, Idles(a) PROVE gen' = gen
  BY <1>2 DEF Idles, Notify, EndFails, Reserve, Scan, Choose, PickNothing, IdleWait,
     Wake, AddBegin, AllocNext, Exit, Test, Wait, locals
<1>3. ASSUME NEW a \in Actors, InSection(a) PROVE gen' = gen
  BY <1>3 DEF InSection, HeaderState, CallDone, CallDoneNotify, HeaderReset,
     HeaderAccess, SearchLock, SearchDone, Unlock
<1>4. ASSUME NEW h \in Hosts, Alloc(h) PROVE gen' = gen
  BY <1>4 DEF Alloc
<1>5. ASSUME NEW k \in Kernels,
             \/ Search(k) \/ Pick(k) \/ Dispatch(k) \/ ReleaseAborted(k) \/ Released(k)
             \/ \E s \in {"READY", "WAITING", "FINISHED"} : Release(k, s)
      PROVE  gen' = gen
  BY <1>5 DEF Search, Pick, Dispatch, ReleaseAborted, Released, Release, Unlock
<1>6. HandleEvent \/ UNCHANGED vars => gen' = gen
  BY DEF HandleEvent, vars
<1> QED
  BY <1>1, <1>2, <1>3, <1>4, <1>5, <1>6, StepKinds

-----------------------------------------------------------------------------
(* A run goes stale only by being unscheduled, whatever the clients do.    *)

\* The workloads keep being run by those who run them.
LEMMA OwnStates ==
  ASSUME IInv, RInv, [Next]_vars, NEW i \in Ids, Own(i),
         ~ (bits[i].state = "RUNNING" /\ bits'[i].state = "UNSCHEDULING"),
         NEW k \in Kernels, On(k)' = i
  PROVE  bits'[i].state = "RUNNING" /\ \A j \in Kernels : On(j)' = i => j = k
<1>1. i # NoId
  BY NullsAssumption
<1>2. On(k) = i => bits[i].state = "RUNNING"
  BY DEF Own
<1>3. ASSUME NEW l \in Kernels, Pick(l)
      PROVE  bits'[i].state = "RUNNING" /\ \A j \in Kernels : On(j)' = i => j = k
  <2>1. PICK n \in Ids :
          /\ bits[n].state = "READY" /\ bits'[n].state = "RUNNING"
          /\ \A j \in Ids : j # n => bits'[j].state = bits[j].state
          /\ On(l) = NoId /\ On(l)' = n
          /\ \A j \in Kernels : j # l => On(j)' = On(j)
    BY <1>3, PickOn
  <2>2. CASE n = i
    <3>1. \A j \in Kernels : On(j) # i
      BY <2>1, <2>2 DEF Own
    <3> QED
      BY <2>1, <2>2, <3>1
  <2>3. CASE n # i
    BY <1>2, <2>1, <2>3 DEF Own
  <2> QED
    BY <2>2, <2>3
<1>4. ASSUME NEW l \in Kernels, On(l)' = NoId, \A j \in Kernels : j # l => On(j)' = On(j),
             \A j \in Ids : j # On(l) => bits'[j].state = bits[j].state
      PROVE  bits'[i].state = "RUNNING" /\ \A j \in Kernels : On(j)' = i => j = k
  <2>1. k # l /\ On(k) = i
    BY <1>1, <1>4
  <2>2. On(l) # i
    BY <2>1 DEF Own
  <2> QED
    BY <1>1, <1>2, <1>4, <2>1, <2>2 DEF Own
<1>5. ASSUME NEW l \in Kernels, NEW s \in {"READY", "WAITING", "FINISHED"}, Release(l, s)
      PROVE  bits'[i].state = "RUNNING" /\ \A j \in Kernels : On(j)' = i => j = k
  BY <1>4, <1>5, ReleaseOn
<1>6. CASE Lifecycle!Next
  <2>1. CASE \A j \in Kernels : On(j)' = On(j)
    <3>1. On(k) = i /\ \A j \in Kernels : On(j)' = i => j = k
      BY <2>1 DEF Own
    <3>2. bits'[i].state = bits[i].state \/ <<bits[i].state, bits'[i].state>> \in Lifecycle!Allowed
      BY <1>1, <1>6, <2>1, <3>1, LifeParts
    <3> QED
      BY <1>2, <3>1, <3>2 DEF Lifecycle!Allowed
  <2>2. ASSUME NEW l \in Kernels, NEW n \in Ids, \A j \in Kernels : On(j) # n,
               bits'[n].state = "RUNNING",
               \A j \in Ids : j # n => bits'[j].state = bits[j].state,
               On(l)' = n, \A j \in Kernels : j # l => On(j)' = On(j)
        PROVE  bits'[i].state = "RUNNING" /\ \A j \in Kernels : On(j)' = i => j = k
    BY <1>2, <2>2 DEF Own
  <2> QED
    BY <1>4, <1>6, <2>1, <2>2, LifeParts
<1> QED
  BY <1>3, <1>5, <1>6, OthersLife

\* Their runs keep being of the present scheduling.
LEMMA OwnGens ==
  ASSUME IInv, RInv, [Next]_vars, NEW i \in Ids, Own(i),
         NEW k \in Kernels, On(k)' = i, cur'[k] # NoRun
  PROVE  cur'[k].gen = gen'[i]
<1>1. IInv' /\ RInv'
  BY InvStep, RunsStep
<1>2. tgt'[k] = NoId
  <2>1. tgt'[k] # NoId => ret'[k] = "dispatch"
    BY <1>1 DEF RInv, RunsKept
  <2>2. ret'[k] = "dispatch" => pc'[k] \in Sections
    BY <1>1, KernelsAct DEF IInv, Control
  <2> QED
    BY <1>1, <2>1, <2>2 DEF RInv, RunsKept, Executing, Sections
<1>3. ret'[k] # "release" /\ cur'[k].id = i
  BY <1>2, NullsAssumption DEF On
<1>4. CASE cur'[k] = cur[k] /\ ret[k] # "release"
  <2>1. On(k) = i
    BY <1>3, <1>4, OnTypes DEF On
  <2>2. bits[i].state = "RUNNING" /\ cur[k].gen = gen[i]
    BY <1>4, <2>1 DEF Own
  <2>3. gen'[i] = gen[i]
    BY <2>2, GenSame DEF IInv, TypeOK
  <2> QED
    BY <1>4, <2>2, <2>3
<1>5. CASE Dispatch(k)
  <2>1. cur' = [cur EXCEPT ![k] = [id |-> tgt[k], gen |-> gen[tgt[k]]]] /\ gen' = gen
    BY <1>5 DEF Dispatch, Unlock
  <2> QED
    BY <1>3, <2>1 DEF IInv, TypeOK
<1> QED
  BY <1>3, <1>4, <1>5, RunsSame

\* A kernel's run stays its own (kernel.c:680-793, 884-922) until it is unscheduled.
THEOREM OwnRunsStayOwn == Spec => RunsStayOwn
<1>1. IInv /\ RInv /\ [Next]_vars =>
        [\A i \in Ids : Own(i) =>
           \/ Own(i)'
           \/ bits[i].state = "RUNNING" /\ bits'[i].state = "UNSCHEDULING"]_vars
  <2> SUFFICES ASSUME IInv, RInv, [Next]_vars, NEW i \in Ids, Own(i),
                      ~ (bits[i].state = "RUNNING" /\ bits'[i].state = "UNSCHEDULING"),
                      NEW k \in Kernels, On(k)' = i
               PROVE  /\ bits'[i].state = "RUNNING"
                      /\ cur'[k] # NoRun => cur'[k].gen = gen'[i]
                      /\ \A j \in Kernels : On(j)' = i => j = k
    BY DEF Own
  <2> QED
    BY OwnStates, OwnGens
<1> QED
  BY <1>1, RunsInit, RunsStep, Invariant, PTL DEF Spec, RunsStayOwn

-----------------------------------------------------------------------------
LEMMA LifeInit == Init => Lifecycle!Init /\ OwnRuns
<1> SUFFICES ASSUME Init PROVE Lifecycle!Init /\ OwnRuns
  OBVIOUS
<1>1. \A i \in Ids : bits[i].state = "NONE"
  BY DEF Init, InitWith
<1>2. \A k \in Kernels : On(k) = NoId /\ cur[k] = NoRun
  BY KernelsAct DEF Init, InitWith, On
<1>3. OwnRuns
  BY <1>2 DEF OwnRuns
<1>4. [i \in Ids |-> bits[i].state] \in [Ids -> {"NONE", "FINISHED"}]
  BY <1>1
<1>5. [k \in Kernels |-> On(k)] = [k \in Kernels |-> NoId]
  BY <1>2
<1> QED
  BY <1>3, <1>4, <1>5 DEF Lifecycle!Init

\* Invariant while OneRun holds.
LEMMA LifeInvariant == Spec /\ OneRun => [](IInv /\ RInv /\ OwnRuns)
<1>1. Init => RInv /\ OwnRuns
  BY RunsInit, LifeInit
<1>2. IInv /\ RInv /\ OwnRuns /\ [Next]_vars /\ [OneRunStep]_vars => OwnRuns'
  <2> SUFFICES ASSUME IInv, RInv, OwnRuns, [Next]_vars, [OneRunStep]_vars PROVE OwnRuns'
    OBVIOUS
  <2>1. OneRunStep
    <3>1. bits' = bits => OneRunStep
      BY DEF OneRunStep
    <3> QED
      BY <3>1 DEF vars
  <2> QED
    BY <2>1, LifeStep, OwnKept
<1> QED
  BY <1>1, <1>2, RunsStep, Invariant, PTL DEF Spec, OneRun

\* The queue implements the life of workloads (module WorkloadLifecycle): a
\* workload is executed by one kernel at a time, only between being scheduled and
\* being finished or unscheduled (kernel.c:680-793, 884-922), under OneRun.
THEOREM LifeIsKept == Spec /\ OneRun => LifecycleKept
<1>1. Init => Lifecycle!Init
  BY LifeInit
<1>2. IInv /\ RInv /\ OwnRuns /\ [Next]_vars => [Lifecycle!Next]_(Lifecycle!vars)
  BY LifeStep
<1> QED
  BY <1>1, <1>2, LifeInvariant, PTL DEF Spec, LifecycleKept, Lifecycle!Spec

-----------------------------------------------------------------------------
(* Nobody sleeps over work.  A kernel whose copy of the header is current  *)
(* has found no work in the blocks it has looked at, and it finds none     *)
(* there until the header is written again.                                *)

\* Nobody waits for workload i to finish.
NobodyAwaits(i) ==
  /\ \A j \in Ids : ~ (bits[j].state = "WAITING" /\ bits[j].wait_id = i)
  /\ \A h \in Hosts : ~ (pc[h] = "sleep" /\ tgt[h] = i)

AwaitsRunsStep ==
  \A i \in Ids : pub[i] \in {"ADDING", "REMOVING", "SCHEDULING"} /\ pub'[i] = "FINISHED" =>
    NobodyAwaits(i)

\* What is waited for is the end of a run: nobody waits for a workload that is
\* only added, or whose removal or scheduling is only cancelled.
AwaitsRuns == [][AwaitsRunsStep]_vars

\* Workload i of block b can be made ready for a reason a search of b alone sees.
WakesHere(b, i) ==
  Wakeable(b, bits[i]) /\ (bits[i].wait_id = NoId \/ Block(bits[i].wait_id) = b)

NoWork(b) == \A i \in IdsOf(b) : bits[i].state # "READY" /\ ~ WakesHere(b, i)

\* The header line will be written before block b is unlocked.
Written(b) ==
  /\ lock[b] # NoActor
  /\ \/ pc[lock[b]] \in {"hdr_reset", "hdr_state", "hdr_access"}
     \/ pc[lock[b]] = "searching" /\ Found(b, bits)

Still(b) == Written(b) \/ NoWork(b)

\* The blocks kernel k has looked at.
Seen(k) == IF pc[k] \in {"idle", "asleep"} THEN Blocks
           ELSE IF pc[k] \in {"scan", "search"} \/ ret[k] = "scan"
           THEN {b \in Blocks : b < blk[k]} ELSE {}

\* A search of block b has come to slot s and found nothing, or what it found shows.
Searched(b, s) ==
  \/ Found(b, bits)
  \/ \A i \in IdsOf(b) : bits[i].state # "READY" /\ (i[2] < s => ~ WakesHere(b, i))

\* Kernel k misses nothing if the header is not written again.
Watching(k) ==
  /\ view[k] # NoView => view[k] = hdr
  /\ \A b \in Seen(k) : Still(b)
  /\ pc[k] = "search" => ~ hdr[blk[k]].ready
  /\ pc[k] = "searching" => Searched(blk[k], slot[k])
  /\ pc[k] = "unlock" /\ ret[k] = "scan" => NoWork(blk[k])

AllWatch == \A k \in fresh : Watching(k)

\* The workloads of block b do not change.
SameBlock(b) == \A i \in IdsOf(b) : bits'[i] = bits[i] /\ pub'[i] = pub[i]

LEMMA SameWork ==
  ASSUME IInv, NEW b \in Blocks, SameBlock(b)
  PROVE  /\ NoWork(b)' <=> NoWork(b)
         /\ \A i \in IdsOf(b) : WakesHere(b, i)' <=> WakesHere(b, i)
         /\ Found(b, bits)' <=> Found(b, bits)
<1>1. IdsOf(b)' = IdsOf(b) /\ IdsOf(b) \subseteq Ids
  BY DEF IdsOf
<1>2. ASSUME NEW i \in IdsOf(b) PROVE WakesHere(b, i)' <=> WakesHere(b, i)
  <2>1. bits'[i] = bits[i] /\ bits[i] \in Bits
    BY <1>1 DEF SameBlock, IInv, TypeOK
  <2>2. bits[i].wait_id \in Ids \union {NoId}
    BY <2>1 DEF Bits
  <2>3. bits[i].wait_id # NoId /\ Block(bits[i].wait_id) = b =>
          bits'[bits[i].wait_id] = bits[bits[i].wait_id]
    BY <2>2 DEF SameBlock, IdsOf
  <2> QED
    BY <2>1, <2>3 DEF WakesHere, Wakeable, StateSeen
<1>3. Found(b, bits)' <=> Found(b, bits)
  BY <1>1 DEF Found, SameBlock
<1> QED
  BY <1>1, <1>2, <1>3 DEF NoWork, SameBlock

\* A kernel that is somewhere else.
SameWatcher(j) ==
  /\ pc'[j] = pc[j] \/ (pc[j] = "sleep" /\ pc'[j] = "test")
  /\ ret'[j] = ret[j] /\ blk'[j] = blk[j] /\ view'[j] = view[j] /\ slot'[j] = slot[j]

LEMMA WatcherKept ==
  ASSUME IInv, AllWatch, NEW j \in Kernels, j \in fresh, hdr' = hdr, SameWatcher(j),
         \A b \in Blocks : Still(b) => Still(b)',
         pc[j] \in {"searching", "unlock"} => SameBlock(blk[j])
  PROVE  Watching(j)'
<1>1. j \in Actors /\ Watching(j)
  BY KernelsAct DEF AllWatch
<1>2. pc[j] \in {"searching", "unlock"} => blk[j] \in Blocks
  BY <1>1 DEF IInv, Control, Located, Sections
<1>3. pc[j] = "sleep" => ret[j] = "none"
  BY <1>1 DEF IInv, Control, Sections
<1>4. Seen(j)' = Seen(j) /\ Seen(j) \subseteq Blocks
  BY <1>3 DEF Seen, SameWatcher
<1>5. \A b \in Seen(j) : Still(b)'
  BY <1>1, <1>4 DEF Watching
<1>6. view'[j] # NoView => view'[j] = hdr'
  BY <1>1 DEF Watching, SameWatcher
<1>7. pc'[j] = "search" => ~ hdr'[blk'[j]].ready
  BY <1>1 DEF Watching, SameWatcher
<1>8. CASE pc'[j] \in {"searching", "unlock"}
  <2>1. /\ pc[j] = pc'[j] /\ pc[j] \in {"searching", "unlock"}
        /\ blk'[j] = blk[j] /\ ret'[j] = ret[j] /\ slot'[j] = slot[j]
    BY <1>8 DEF SameWatcher
  <2>2. PICK b \in Blocks, s \in 0 .. PerBlock : b = blk[j] /\ s = slot[j]
    BY <1>2, <2>1 DEF IInv, TypeOK
  <2>3. /\ NoWork(b)' <=> NoWork(b)
        /\ Searched(b, s)' <=> Searched(b, s)
    <3>1. /\ NoWork(b)' <=> NoWork(b)
          /\ \A i \in IdsOf(b) : WakesHere(b, i)' <=> WakesHere(b, i)
          /\ Found(b, bits)' <=> Found(b, bits)
      BY <2>1, <2>2, SameWork
    <3>2. \A i \in IdsOf(b) : bits'[i] = bits[i]
      BY <2>1, <2>2 DEF SameBlock
    <3> QED
      BY <3>1, <3>2 DEF Searched, IdsOf
  <2>4. /\ pc'[j] = "searching" => Searched(b, s)'
        /\ pc'[j] = "unlock" /\ ret'[j] = "scan" => NoWork(b)'
    BY <1>1, <2>1, <2>2, <2>3 DEF Watching
  <2>5. /\ pc'[j] = "searching" => Searched(blk[j], slot[j])'
        /\ pc'[j] = "unlock" /\ ret'[j] = "scan" => NoWork(blk[j])'
    BY <2>1, <2>2, <2>4
  <2> QED
    BY <1>5, <1>6, <1>7, <2>5, <1>4 DEF Watching
<1> QED
  BY <1>4, <1>5, <1>6, <1>7, <1>8 DEF Watching

\* Blocks that the step leaves alone.
LEMMA QuietStill ==
  ASSUME IInv, UNCHANGED <<bits, pub, lock>>,
         \A x \in Actors : \/ pc'[x] \notin Sections /\ pc[x] \notin Sections
                           \/ pc'[x] = pc[x]
  PROVE  \A b \in Blocks : SameBlock(b) /\ (Still(b)' <=> Still(b))
<1> SUFFICES ASSUME NEW b \in Blocks PROVE SameBlock(b) /\ (Still(b)' <=> Still(b))
  OBVIOUS
<1>1. SameBlock(b)
  BY DEF SameBlock
<1>2. (NoWork(b)' <=> NoWork(b)) /\ (Found(b, bits)' <=> Found(b, bits))
  BY <1>1, SameWork
<1>3. lock[b] # NoActor => lock[b] \in Actors /\ pc'[lock[b]] = pc[lock[b]]
  BY DEF IInv, TypeOK, Owner
<1> QED
  BY <1>1, <1>2, <1>3 DEF Still, Written

LEMMA OtherStill ==
  ASSUME IInv, NEW a \in Actors, NEW b \in Blocks, pc[a] \in Sections => blk[a] = b,
         \A x \in Actors : x # a => pc'[x] = pc[x],
         \A c \in Blocks : c # b => lock'[c] = lock[c] /\ SameBlock(c)
  PROVE  \A c \in Blocks : c # b => (Still(c)' <=> Still(c))
<1> SUFFICES ASSUME NEW c \in Blocks, c # b PROVE Still(c)' <=> Still(c)
  OBVIOUS
<1>1. (NoWork(c)' <=> NoWork(c)) /\ (Found(c, bits)' <=> Found(c, bits))
  BY SameWork
<1>2. lock[c] # NoActor => lock[c] \in Actors /\ pc[lock[c]] \in Sections /\ blk[lock[c]] = c
  BY DEF IInv, TypeOK, Owner
<1>3. lock'[c] = lock[c] /\ (lock[c] # NoActor => pc'[lock[c]] = pc[lock[c]])
  BY <1>2
<1> QED
  BY <1>1, <1>3 DEF Still, Written

LEMMA FreeStill ==
  ASSUME IInv, NEW b \in Blocks, Still(b), lock[b] = NoActor \/ pc[lock[b]] = "unlock"
  PROVE  NoWork(b)
BY DEF Still, Written

\* Steps of an actor outside the sections, or of the owner of block b.
LEMMA QuietWatch ==
  ASSUME IInv, AllWatch, NEW a \in Actors, UNCHANGED <<bits, pub, lock, hdr>>,
         \A x \in Actors : \/ pc'[x] \notin Sections /\ pc[x] \notin Sections
                           \/ pc'[x] = pc[x],
         \A k \in Kernels : k # a => SameWatcher(k), fresh' \subseteq fresh \union ({a} \cap Kernels),
         a \in Kernels /\ a \in fresh' => Watching(a)'
  PROVE  AllWatch'
<1>1. \A b \in Blocks : SameBlock(b) /\ (Still(b) => Still(b)')
  BY QuietStill
<1>2. ASSUME NEW k \in fresh' PROVE Watching(k)'
  <2>1. CASE k # a
    <3>1. k \in fresh /\ k \in Kernels /\ k \in Actors
      BY <1>2, <2>1, KernelsAct DEF IInv, TypeOK
    <3>2. pc[k] \in {"searching", "unlock"} => blk[k] \in Blocks
      BY <3>1 DEF IInv, Control, Located, Sections
    <3> QED
      BY <1>1, <2>1, <3>1, <3>2, WatcherKept
  <2>2. CASE k = a
    BY <1>2, <2>2 DEF IInv, TypeOK
  <2> QED
    BY <2>1, <2>2
<1> QED
  BY <1>2 DEF AllWatch

LEMMA BlockWatch ==
  ASSUME IInv, AllWatch, NEW a \in Actors, NEW b \in Blocks, lock[b] \in {NoActor, a},
         pc[a] \in Sections => blk[a] = b,
         \A x \in Actors : x # a => pc'[x] = pc[x],
         \A c \in Blocks : c # b => lock'[c] = lock[c] /\ SameBlock(c),
         hdr' = hdr, fresh' \subseteq fresh,
         \A k \in Kernels : k # a => SameWatcher(k),
         Still(b) => Still(b)', a \in Kernels /\ a \in fresh => Watching(a)'
  PROVE  AllWatch'
<1>1. \A c \in Blocks : Still(c) => Still(c)'
  BY OtherStill
<1>2. ASSUME NEW k \in fresh' PROVE Watching(k)'
  <2>1. k \in fresh /\ k \in Kernels /\ k \in Actors /\ NoActor \notin Actors
    BY <1>2, KernelsAct, ActorsAssumption DEF IInv, TypeOK
  <2>2. CASE k # a
    <3>1. pc[k] \in {"searching", "unlock"} => blk[k] \in Blocks /\ blk[k] # b
      <4>1. pc[k] \in {"searching", "unlock"} => blk[k] \in Blocks /\ lock[blk[k]] = k
        BY <2>1 DEF IInv, Control, Located, Sections, Owner
      <4> QED
        BY <4>1, <2>1, <2>2
    <3> QED
      BY <1>1, <2>1, <2>2, <3>1, WatcherKept
  <2>3. CASE k = a
    BY <2>1, <2>3
  <2> QED
    BY <2>2, <2>3
<1> QED
  BY <1>2 DEF AllWatch

\* The header line was written.
LEMMA WrittenWatch == ASSUME fresh' = {} PROVE AllWatch'
BY DEF AllWatch

-----------------------------------------------------------------------------
\* A block that shows no work in the header has none.
LEMMA ShowsNothing ==
  ASSUME IInv, NEW b \in Blocks, ~ hdr[b].ready, ~ hdr[b].waiting
  PROVE  Still(b)
<1>1. CASE Pending(b)
  BY <1>1 DEF Pending, Still, Written
<1>2. CASE ~ Pending(b)
  <2>1. ReadyIn(b) = {} /\ WaitingIn(b) = {}
    BY <1>2 DEF IInv, AllSummarised, Summarised
  <2>2. \A i \in IdsOf(b) : bits[i].state \notin {"READY", "WAITING"}
    BY <2>1 DEF ReadyIn, WaitingIn
  <2> QED
    BY <2>2 DEF Still, NoWork, WakesHere, Wakeable
<1> QED
  BY <1>1, <1>2

LEMMA NotReady ==
  ASSUME IInv, NEW b \in Blocks, lock[b] = NoActor, ~ hdr[b].ready
  PROVE  \A i \in IdsOf(b) : bits[i].state # "READY"
<1>1. ReadyIn(b) = {}
  BY DEF IInv, AllSummarised, Summarised, Pending
<1> QED
  BY <1>1 DEF ReadyIn

LEMMA ScanWatch ==
  ASSUME IInv, AllWatch, NEW k \in Kernels, Scan(k)
  PROVE  AllWatch'
<1>1. /\ pc[k] = "scan" /\ blk[k] < NumBlocks /\ UNCHANGED <<bits, pub, lock, ret, slot>>
      /\ k \in Actors
  BY KernelsAct DEF Scan
<1>2. CASE view[k][blk[k]].ready
  <2>1. fresh' = {}
    BY <1>2 DEF Scan, WriteHeader
  <2> QED
    BY <2>1, WrittenWatch
<1>3. CASE ~ view[k][blk[k]].ready
  <2>1. UNCHANGED <<hdr, fresh, view>>
    BY <1>3 DEF Scan
  <2>2. ret[k] = "none" /\ view[k] \in Header /\ blk[k] \in Blocks
    <3>1. blk[k] \in 0 .. NumBlocks /\ NumBlocks \in Nat
      BY <1>1, SizesAssumption DEF IInv, TypeOK
    <3>2. blk[k] \in Blocks
      BY <1>1, <3>1 DEF Blocks
    <3> QED
      BY <1>1, <3>2 DEF IInv, Control, Sections
  <2>3. \/ pc' = [pc EXCEPT ![k] = "search"] /\ blk' = blk
        \/ /\ ~ view[k][blk[k]].waiting
           /\ pc' = pc /\ blk' = [blk EXCEPT ![k] = blk[k] + 1]
    BY DEF Scan, Goto
  <2>4. \A x \in Actors : \/ pc'[x] \notin Sections /\ pc[x] \notin Sections
                          \/ pc'[x] = pc[x]
    BY <1>1, <2>3 DEF IInv, TypeOK, Sections
  <2>5. \A j \in Kernels : j # k => SameWatcher(j)
    BY <1>1, <2>1, <2>3, KernelsAct DEF SameWatcher, IInv, TypeOK
  <2>6. ASSUME k \in fresh PROVE Watching(k)'
    <3>1. view[k] = hdr /\ ~ hdr[blk[k]].ready /\ Watching(k)
      BY <1>3, <2>2, <2>6, NullsAssumption DEF AllWatch, Watching
    <3>2. \A b \in Blocks : b < blk[k] => Still(b)
      BY <1>1, <3>1 DEF Watching, Seen
    <3>3. \A b \in Blocks : Still(b) => Still(b)'
      BY <1>1, <2>4, QuietStill
    <3>4. CASE pc' = [pc EXCEPT ![k] = "search"] /\ blk' = blk
      <4>1. pc'[k] = "search"
        BY <1>1, <3>4 DEF IInv, TypeOK
      <4>2. \A b \in Seen(k)' : b \in Blocks /\ b < blk[k]
        BY <4>1, <3>4 DEF Seen
      <4>3. \A b \in Seen(k)' : Still(b)'
        BY <4>2, <3>2, <3>3
      <4> QED
        BY <2>1, <3>1, <3>4, <4>1, <4>3 DEF Watching
    <3>5. CASE /\ ~ view[k][blk[k]].waiting
               /\ pc' = pc /\ blk' = [blk EXCEPT ![k] = blk[k] + 1]
      <4>1. pc'[k] = "scan" /\ blk'[k] = blk[k] + 1
        BY <1>1, <3>5 DEF IInv, TypeOK
      <4>2. Still(blk[k])
        BY <2>2, <3>1, <3>5, ShowsNothing
      <4>3. \A b \in Seen(k)' : b \in Blocks /\ (b < blk[k] \/ b = blk[k])
        <5>1. \A b \in Seen(k)' : b \in Blocks /\ b < blk[k] + 1
          BY <4>1 DEF Seen
        <5> QED
          BY <5>1, <2>2, SizesAssumption DEF Blocks
      <4>4. \A b \in Seen(k)' : Still(b)
        BY <4>2, <4>3, <3>2
      <4>5. \A b \in Seen(k)' : Still(b)'
        BY <4>3, <4>4, <3>3
      <4> QED
        BY <2>1, <3>1, <4>1, <4>5 DEF Watching
    <3> QED
      BY <2>3, <3>4, <3>5
  <2> QED
    BY <1>1, <2>1, <2>4, <2>5, <2>6, QuietWatch
<1> QED
  BY <1>2, <1>3

\* The main loop, but for scanning.
LEMMA LoopWatch ==
  ASSUME IInv, AllWatch, NEW k \in Kernels,
         \/ Reserve(k) \/ Choose(k) \/ PickNothing(k) \/ IdleWait(k) \/ Wake(k)
         \/ ReleaseAborted(k)
  PROVE  AllWatch'
<1>1. /\ pc[k] \in {"reserve", "scan", "pick", "idle", "asleep", "run"} /\ k \in Actors
      /\ UNCHANGED <<bits, pub, lock, hdr, ret, slot>>
      /\ \E label \in {"exited", "scan", "pick", "reserve", "idle", "asleep"} :
            pc' = [pc EXCEPT ![k] = label]
  BY KernelsAct DEF Reserve, Choose, PickNothing, IdleWait, Wake, ReleaseAborted, Goto
<1>2. ret[k] = "none"
  BY <1>1 DEF IInv, Control, Sections
<1>3. \A x \in Actors : \/ pc'[x] \notin Sections /\ pc[x] \notin Sections
                        \/ pc'[x] = pc[x]
  BY <1>1 DEF IInv, TypeOK, Sections
<1>4. \A j \in Kernels : j # k => SameWatcher(j)
  BY <1>1, KernelsAct DEF SameWatcher, IInv, TypeOK, Reserve, Choose, PickNothing, IdleWait,
     Wake, ReleaseAborted
<1>5. \A b \in Blocks : Still(b) => Still(b)'
  BY <1>1, <1>3, QuietStill
<1>6. CASE Reserve(k) /\ ~ flag
  <2>1. /\ pc' = [pc EXCEPT ![k] = "scan"] /\ view' = [view EXCEPT ![k] = hdr]
        /\ blk' = [blk EXCEPT ![k] = 0] /\ fresh' = fresh \union {k}
    BY <1>6 DEF Reserve, Goto
  <2>2. pc'[k] = "scan" /\ view'[k] = hdr /\ blk'[k] = 0
    BY <1>1, <2>1 DEF IInv, TypeOK
  <2>3. Seen(k)' = {}
    BY <2>2, SizesAssumption DEF Seen, Blocks
  <2>4. Watching(k)'
    BY <1>1, <2>2, <2>3 DEF Watching
  <2> QED
    BY <1>1, <1>3, <1>4, <2>1, <2>4, QuietWatch
<1>7. CASE ~ (Reserve(k) /\ ~ flag)
  <2>1. fresh' = fresh
    BY <1>7 DEF Reserve, Choose, PickNothing, IdleWait, Wake, ReleaseAborted
  <2>2. ASSUME k \in fresh PROVE Watching(k)'
    <3>1. Watching(k)
      BY <2>2 DEF AllWatch
    <3>2. view'[k] # NoView => view'[k] = hdr'
      BY <1>1, <1>7, <3>1 DEF Watching, Reserve, Choose, PickNothing, IdleWait, Wake,
         ReleaseAborted, IInv, TypeOK
    <3>3. pc'[k] \in {"exited", "pick", "reserve", "idle", "asleep"}
      BY <1>1, <1>7 DEF Reserve, Choose, PickNothing, IdleWait, Wake, ReleaseAborted,
         Goto, IInv, TypeOK
    <3>4. CASE pc'[k] \in {"exited", "pick", "reserve"}
      <4>1. Seen(k)' = {}
        BY <1>1, <1>2, <3>4 DEF Seen
      <4> QED
        BY <3>2, <3>4, <4>1 DEF Watching
    <3>5. CASE pc'[k] \in {"idle", "asleep"}
      <4>1. (pc[k] = "scan" /\ blk[k] = NumBlocks) \/ pc[k] = "idle"
        BY <1>1, <1>7, <3>5 DEF Reserve, Choose, PickNothing, IdleWait, Wake,
           ReleaseAborted, Goto, IInv, TypeOK
      <4>2. \A b \in Blocks : b \in Seen(k)
        BY <4>1, SizesAssumption DEF Seen, Blocks
      <4>3. \A b \in Blocks : Still(b)'
        BY <1>5, <3>1, <4>2 DEF Watching
      <4>4. Seen(k)' = Blocks
        BY <3>5 DEF Seen
      <4> QED
        BY <3>2, <3>5, <4>3, <4>4 DEF Watching
    <3> QED
      BY <3>3, <3>4, <3>5
  <2> QED
    BY <1>1, <1>3, <1>4, <2>1, <2>2, QuietWatch
<1> QED
  BY <1>6, <1>7

\* Host threads and the ends of calls.
LEMMA CallerWatch ==
  ASSUME IInv, AllWatch, NEW a \in Actors,
         \/ Notify(a) \/ EndFails(a)
         \/ a \in Hosts /\ (AddBegin(a) \/ AllocNext(a) \/ Exit(a) \/ Test(a))
         \/ a \in Hosts /\ \E i \in Ids : Wait(a, i)
  PROVE  AllWatch'
<1>1. CASE Exit(a)
  BY <1>1, WrittenWatch DEF Exit
<1>2. CASE a \in Hosts /\ (AddBegin(a) \/ AllocNext(a) \/ Test(a) \/ \E i \in Ids : Wait(a, i))
  <2>1. /\ UNCHANGED <<bits, pub, lock, hdr, fresh, ret, view, slot>>
        /\ pc[a] \in {"host", "alloc", "test"}
        /\ pc' = pc \/ \E label \in {"alloc", "host", "sleep", "test"} : pc' = [pc EXCEPT ![a] = label]
        /\ blk' = blk \/ \E b \in 0 .. NumBlocks : blk' = [blk EXCEPT ![a] = b]
    <3>1. blk[a] \in 0 .. NumBlocks /\ NumBlocks \in Nat /\ 0 \in 0 .. NumBlocks
      BY SizesAssumption DEF IInv, TypeOK
    <3>2. blk[a] + 1 < NumBlocks => blk[a] + 1 \in 0 .. NumBlocks
      BY <3>1
    <3> QED
      BY <1>2, <3>1, <3>2, KernelsAct DEF AddBegin, AllocNext, Test, Wait, Goto, Caller
  <2>2. \A x \in Actors : \/ pc'[x] \notin Sections /\ pc[x] \notin Sections
                          \/ pc'[x] = pc[x]
    BY <2>1 DEF IInv, TypeOK, Sections
  <2>3. \A j \in Kernels : j # a => SameWatcher(j)
    BY <2>1, KernelsAct DEF SameWatcher, IInv, TypeOK
  <2> QED
    BY <1>2, <2>1, <2>2, <2>3, KernelsAct, QuietWatch
<1>3. CASE Notify(a) \/ EndFails(a)
  <2>1. /\ UNCHANGED <<bits, pub, lock, hdr, fresh, ret, view, slot, blk>>
        /\ pc[a] \in {"notify", "run", "host"}
    BY <1>3 DEF Notify, EndFails
  <2>2. \/ \E label \in {"run", "reserve"} : pc' = [pc EXCEPT ![a] = label]
        \/ a \in Hosts /\ pc' = Broadcast([pc EXCEPT ![a] = "host"])
        \/ pc' = pc
    BY <1>3, KernelsAct DEF Notify, EndFails, Goto
  <2>3. /\ \A x \in Actors : x # a => pc'[x] = pc[x] \/ (pc[x] = "sleep" /\ pc'[x] = "test")
        /\ pc'[a] \in {"run", "reserve", "host"} \/ pc' = pc
    <3>1. CASE a \in Hosts /\ pc' = Broadcast([pc EXCEPT ![a] = "host"])
      <4> DEFINE f == [pc EXCEPT ![a] = "host"]
      <4>1. /\ f \in [Actors -> Label] /\ f[a] = "host" /\ pc' = Broadcast(f)
            /\ \A x \in Actors : x # a => f[x] = pc[x]
        BY <3>1 DEF IInv, TypeOK, Label
      <4> HIDE DEF f
      <4>2. \A x \in Actors : pc'[x] = f[x] \/ (f[x] = "sleep" /\ pc'[x] = "test")
        BY <4>1, BroadcastType
      <4> QED
        BY <4>1, <4>2
    <3>2. CASE pc' = pc \/ \E label \in {"run", "reserve"} : pc' = [pc EXCEPT ![a] = label]
      BY <3>2 DEF IInv, TypeOK
    <3> QED
      BY <2>2, <3>1, <3>2
  <2>4. pc'[a] \in {"run", "reserve", "host"} \/ pc' = pc
    BY <2>3
  <2>5. \A x \in Actors : \/ pc'[x] \notin Sections /\ pc[x] \notin Sections
                          \/ pc'[x] = pc[x]
    BY <2>1, <2>3, <2>4 DEF Sections
  <2>6. \A j \in Kernels : j # a => SameWatcher(j)
    BY <2>1, <2>3, KernelsAct DEF SameWatcher
  <2>7. ASSUME a \in Kernels, a \in fresh PROVE Watching(a)'
    <3>1. ret[a] = "none" /\ Watching(a)
      BY <2>1, <2>7 DEF AllWatch, IInv, Control, Sections
    <3>2. pc'[a] \in {"notify", "run", "reserve", "host"}
      BY <2>1, <2>4
    <3>3. Seen(a)' = {}
      BY <2>1, <3>1, <3>2 DEF Seen
    <3> QED
      BY <2>1, <3>1, <3>2, <3>3 DEF Watching
  <2> QED
    BY <2>1, <2>5, <2>6, <2>7, QuietWatch
<1> QED
  BY <1>1, <1>2, <1>3

LEMMA HandleWatch == ASSUME IInv, AllWatch, HandleEvent PROVE AllWatch'
<1>1. UNCHANGED <<bits, pub, lock, hdr, fresh, ret, view, slot, blk>> /\ pc' = Broadcast(pc)
  BY DEF HandleEvent
<1>2. \A x \in Actors : pc'[x] = pc[x] \/ (pc[x] = "sleep" /\ pc'[x] = "test")
  BY <1>1, BroadcastType DEF IInv, TypeOK
<1>3. \A x \in Actors : \/ pc'[x] \notin Sections /\ pc[x] \notin Sections
                        \/ pc'[x] = pc[x]
  BY <1>2 DEF Sections
<1>4. \A j \in Kernels : SameWatcher(j)
  BY <1>1, <1>2, KernelsAct DEF SameWatcher
<1>5. ASSUME NEW k \in fresh' PROVE Watching(k)'
  <2>1. k \in fresh /\ k \in Kernels /\ k \in Actors
    BY <1>1, <1>5, KernelsAct DEF IInv, TypeOK
  <2>2. pc[k] \in {"searching", "unlock"} => blk[k] \in Blocks
    BY <2>1 DEF IInv, Control, Located, Sections
  <2> QED
    BY <1>1, <1>3, <1>4, <2>1, <2>2, QuietStill, WatcherKept
<1> QED
  BY <1>5 DEF AllWatch

\* A block is locked, and the header is going to be written or is read.
LEMMA SearchLockWatch ==
  ASSUME IInv, AllWatch, NEW k \in Kernels, SearchLock(k)
  PROVE  AllWatch'
<1>1. /\ pc[k] = "search" /\ lock[blk[k]] = NoActor /\ k \in Actors
      /\ lock' = [lock EXCEPT ![blk[k]] = k] /\ pc' = [pc EXCEPT ![k] = "searching"]
      /\ ret' = [ret EXCEPT ![k] = "scan"] /\ slot' = [slot EXCEPT ![k] = 1]
      /\ UNCHANGED <<bits, pub, hdr, fresh, blk, view>>
  BY KernelsAct DEF SearchLock, Goto
<1>2. PICK b \in Blocks : b = blk[k]
  BY <1>1 DEF IInv, Control, Located
<1>3. /\ lock'[b] = k /\ pc'[k] = "searching" /\ ret'[k] = "scan" /\ slot'[k] = 1
      /\ \A c \in Blocks : c # b => lock'[c] = lock[c]
      /\ \A x \in Actors : x # k => pc'[x] = pc[x]
      /\ \A j \in Kernels : j # k => SameWatcher(j)
  BY <1>1, <1>2, KernelsAct DEF SameWatcher, IInv, TypeOK
<1>4. \A c \in Blocks : SameBlock(c)
  BY <1>1 DEF SameBlock
<1>5. NoWork(b)' <=> NoWork(b)
  BY <1>4, SameWork
<1>6. Still(b) => Still(b)'
  BY <1>1, <1>2, <1>5, FreeStill DEF Still
<1>7. ASSUME k \in fresh PROVE Watching(k)'
  <2>1. Watching(k)
    BY <1>7 DEF AllWatch
  <2>2. \A c \in Blocks : c < b => Still(c)
    BY <1>1, <1>2, <2>1 DEF Watching, Seen
  <2>3. \A c \in Blocks : c # b => (Still(c)' <=> Still(c))
    BY <1>1, <1>3, <1>4, OtherStill DEF Sections
  <2>4. \A c \in Seen(k)' : c \in Blocks /\ c < b
    BY <1>1, <1>2, <1>3 DEF Seen
  <2>5. \A c \in Seen(k)' : Still(c)'
    BY <1>6, <2>2, <2>3, <2>4
  <2>6. Searched(b, 1)'
    <3>1. \A i \in IdsOf(b) : bits[i].state # "READY"
      BY <1>1, <1>2, <2>1, NotReady DEF Watching
    <3>2. \A i \in IdsOf(b) : ~ (i[2] < 1)
      BY SizesAssumption DEF IdsOf, Ids, Slots
    <3> QED
      BY <1>1, <3>1, <3>2 DEF Searched, IdsOf
  <2>7. Searched(blk[k], slot[k])'
    <3>1. blk'[k] = b /\ slot'[k] = 1
      BY <1>1, <1>2, <1>3
    <3> QED
      BY <2>6, <3>1
  <2> QED
    BY <1>1, <1>3, <2>1, <2>5, <2>7 DEF Watching
<1> QED
  BY <1>1, <1>2, <1>3, <1>4, <1>6, <1>7, BlockWatch DEF Sections

\* The unlocks: what the block holds does not change.
LEMMA UnlockWatch ==
  ASSUME IInv, AllWatch, NEW a \in Actors,
         \/ CallDone(a) \/ CallDoneNotify(a)
         \/ a \in Kernels /\ (SearchDone(a) \/ Dispatch(a) \/ Released(a))
  PROVE  AllWatch'
<1>1. /\ pc[a] = "unlock" /\ UNCHANGED <<bits, hdr, fresh, view, slot>>
      /\ lock' = [lock EXCEPT ![blk[a]] = NoActor]
      /\ pub' = [i \in Ids |-> IF Block(i) = blk[a] THEN bits[i].state ELSE pub[i]]
      /\ ret' = [ret EXCEPT ![a] = "none"]
      /\ \/ /\ ret[a] # "scan" /\ blk' = blk
            /\ \E label \in {"run", "host", "notify", "reserve"} : pc' = [pc EXCEPT ![a] = label]
         \/ /\ a \in Kernels /\ ret[a] = "scan" /\ blk' = [blk EXCEPT ![a] = blk[a] + 1]
            /\ pc' = [pc EXCEPT ![a] = "scan"]
  BY DEF CallDone, CallDoneNotify, SearchDone, Dispatch, Released, Unlock, Goto
<1>2. PICK b \in Blocks : b = blk[a]
  BY <1>1 DEF IInv, Control, Located, Sections
<1>3. lock[b] = a /\ NoActor \notin Actors
  BY <1>1, <1>2, ActorsAssumption DEF IInv, Owner, Sections
<1>4. /\ lock'[b] = NoActor /\ ret'[a] = "none"
      /\ \A c \in Blocks : c # b => lock'[c] = lock[c] /\ SameBlock(c)
      /\ \A x \in Actors : x # a => pc'[x] = pc[x]
      /\ \A j \in Kernels : j # a => SameWatcher(j)
  BY <1>1, <1>2, KernelsAct DEF SameWatcher, SameBlock, IdsOf, IInv, TypeOK
<1>5. NoWork(b) => NoWork(b)'
  <2>1. \A i \in IdsOf(b) : bits'[i] = bits[i] /\ (WakesHere(b, i)' => WakesHere(b, i))
    BY <1>1 DEF WakesHere, Wakeable, StateSeen
  <2> QED
    BY <2>1 DEF NoWork, IdsOf
<1>6. Still(b) => Still(b)'
  BY <1>1, <1>3, <1>5, FreeStill DEF Still
<1>7. ASSUME a \in Kernels, a \in fresh PROVE Watching(a)'
  <2>1. Watching(a)
    BY <1>7 DEF AllWatch
  <2>2. CASE ret[a] # "scan" /\ pc'[a] \in {"run", "host", "notify", "reserve"}
    <3>1. Seen(a)' = {}
      BY <1>4, <2>2 DEF Seen
    <3> QED
      BY <1>1, <2>1, <2>2, <3>1 DEF Watching
  <2>3. CASE ret[a] = "scan" /\ pc'[a] = "scan" /\ blk'[a] = b + 1
    <3>1. NoWork(b)
      BY <1>1, <1>2, <2>1, <2>3 DEF Watching
    <3>2. \A c \in Blocks : c < b => Still(c)
      BY <1>1, <1>2, <2>1, <2>3 DEF Watching, Seen
    <3>3. \A c \in Blocks : c # b => (Still(c)' <=> Still(c))
      BY <1>1, <1>2, <1>4, OtherStill
    <3>4. \A c \in Seen(a)' : c \in Blocks /\ (c < b \/ c = b)
      <4>1. \A c \in Seen(a)' : c \in Blocks /\ c < b + 1
        BY <2>3 DEF Seen
      <4> QED
        BY <4>1, SizesAssumption DEF Blocks
    <3>5. \A c \in Seen(a)' : Still(c)'
      BY <1>5, <3>1, <3>2, <3>3, <3>4 DEF Still
    <3> QED
      BY <1>1, <2>1, <2>3, <3>5 DEF Watching
  <2> QED
    BY <1>1, <1>2, <2>2, <2>3 DEF IInv, TypeOK
<1> QED
  BY <1>1, <1>2, <1>3, <1>4, <1>6, <1>7, BlockWatch

\* A locked block whose summary is about to be written needs no watching.
LEMMA TakenWatch ==
  ASSUME IInv, AllWatch, NEW a \in Actors, NEW b \in Blocks, lock[b] = NoActor,
         pc[a] \notin Sections, lock' = [lock EXCEPT ![b] = a],
         NEW label \in {"hdr_reset", "hdr_state", "hdr_access"},
         NEW r \in After \ {"scan"}, pc' = [pc EXCEPT ![a] = label],
         ret' = [ret EXCEPT ![a] = r],
         \A j \in Kernels : j # a => blk'[j] = blk[j],
         \A c \in Blocks : c # b => SameBlock(c), UNCHANGED <<hdr, fresh, view, slot>>
  PROVE  AllWatch'
<1>1. /\ lock'[b] = a /\ pc'[a] = label /\ ret'[a] = r /\ NoActor \notin Actors
      /\ \A c \in Blocks : c # b => lock'[c] = lock[c]
      /\ \A x \in Actors : x # a => pc'[x] = pc[x]
      /\ \A j \in Kernels : j # a => SameWatcher(j)
  BY KernelsAct, ActorsAssumption DEF SameWatcher, IInv, TypeOK
<1>2. Still(b)'
  BY <1>1 DEF Still, Written
<1>3. ASSUME a \in Kernels, a \in fresh PROVE Watching(a)'
  <2>1. Seen(a)' = {} /\ Watching(a)
    BY <1>1, <1>3 DEF Seen, AllWatch
  <2> QED
    BY <1>1, <2>1 DEF Watching
<1> QED
  BY <1>1, <1>2, <1>3, BlockWatch

LEMMA PickWatch ==
  ASSUME IInv, AllWatch, NEW k \in Kernels, Pick(k)
  PROVE  AllWatch'
<1>1. /\ pc[k] = "pick" /\ lock[blk[k]] = NoActor /\ k \in Actors
      /\ lock' = [lock EXCEPT ![blk[k]] = k] /\ pc' = [pc EXCEPT ![k] = "hdr_reset"]
      /\ ret' = [ret EXCEPT ![k] = "dispatch"]
      /\ UNCHANGED <<pub, hdr, fresh, blk, view, slot>>
  BY KernelsAct DEF Pick, Goto
<1>2. blk[k] \in Blocks /\ pc[k] \notin Sections
  BY <1>1 DEF IInv, Control, Located, Sections
<1>3. \A c \in Blocks : c # blk[k] => SameBlock(c)
  <2>1. PICK i \in ReadyIn(blk[k]) :
          bits' = [j \in Ids |->
            IF j = i THEN [bits[j] EXCEPT !.state = "RUNNING", !.counter = 0]
            ELSE IF j \in ReadyIn(blk[k])
            THEN [bits[j] EXCEPT !.counter = Aged(@, COUNTER_MAX)]
            ELSE bits[j]]
    BY DEF Pick
  <2>2. \A j \in Ids : Block(j) # blk[k] => bits'[j] = bits[j]
    BY <2>1 DEF ReadyIn, IdsOf
  <2> QED
    BY <1>1, <2>2 DEF SameBlock, IdsOf
<1> QED
  BY <1>1, <1>2, <1>3, TakenWatch DEF After

LEMMA ChangeWatch ==
  ASSUME IInv, AllWatch, NEW a \in Actors, NEW i \in Ids, NEW new,
         NEW label \in {"hdr_state", "hdr_access"}, NEW after \in {"call", "notify", "release"},
         Change(a, i, new, label, after), pc[a] = IF a \in Kernels THEN "run" ELSE "host"
  PROVE  AllWatch'
<1>1. Block(i) \in Blocks /\ pc[a] \notin Sections
  BY IdTypes DEF Sections
<1>2. \A c \in Blocks : c # Block(i) => SameBlock(c)
  <2>1. \A j \in Ids : j # i => bits'[j] = bits[j] /\ pub'[j] = pub[j]
    BY DEF Change, IInv, TypeOK
  <2> QED
    BY <2>1 DEF SameBlock, IdsOf
<1>3. \A j \in Kernels : j # a => blk'[j] = blk[j]
  BY KernelsAct DEF Change, IInv, TypeOK
<1> QED
  BY <1>1, <1>2, <1>3, TakenWatch DEF Change, Goto, After

\* A workload changes that was not ready or waiting, or is not any more.
LEMMA OnlyWatch ==
  ASSUME IInv, AllWatch, NEW a \in Actors, NEW i \in Ids, NEW new,
         lock[Block(i)] = NoActor, bits' = [bits EXCEPT ![i] = new],
         pub' = [pub EXCEPT ![i] = new.state],
         UNCHANGED <<lock, hdr, fresh, ret, view, slot, blk>>, pc[a] \notin Sections,
         \/ pc' = pc /\ (a \in Kernels => pc[a] = "run")
         \/ a \in Hosts /\ pc' = [pc EXCEPT ![a] = "host"],
         new.state \notin {"READY", "WAITING"},
         new.state = "FINISHED" /\ bits[i].state # "FINISHED" => NobodyAwaits(i)
  PROVE  AllWatch'
<1>1. PICK b \in Blocks : b = Block(i)
  BY IdTypes
<1>2. /\ bits'[i] = new /\ \A j \in Ids : j # i => bits'[j] = bits[j] /\ pub'[j] = pub[j]
      /\ \A x \in Actors : x # a => pc'[x] = pc[x]
      /\ \A j \in Kernels : j # a => SameWatcher(j)
  BY KernelsAct DEF SameWatcher, IInv, TypeOK
<1>3. \A c \in Blocks : c # b => SameBlock(c)
  BY <1>1, <1>2 DEF SameBlock, IdsOf
<1>4. Still(b) => Still(b)'
  <2> SUFFICES ASSUME Still(b) PROVE NoWork(b)'
    BY DEF Still
  <2>1. NoWork(b)
    BY <1>1, FreeStill
  <2>2. ASSUME NEW j \in IdsOf(b) PROVE bits'[j].state # "READY" /\ ~ WakesHere(b, j)'
    <3>1. CASE j = i
      BY <1>2, <3>1 DEF WakesHere, Wakeable
    <3>2. CASE j # i
      <4>1. j \in Ids /\ bits'[j] = bits[j] /\ bits[j].state # "READY" /\ ~ WakesHere(b, j)
        BY <1>2, <2>1, <2>2, <3>2 DEF NoWork, IdsOf
      <4>2. ASSUME WakesHere(b, j)' PROVE FALSE
        <5>1. bits[j].state = "WAITING" /\ bits[j].wait_id # NoId
              /\ Block(bits[j].wait_id) = b
          BY <4>1, <4>2 DEF WakesHere, Wakeable
        <5>2. bits[j].wait_id \in Ids
          BY <4>1, <5>1 DEF IInv, TypeOK, Bits
        <5>3. bits'[bits[j].wait_id].state = "FINISHED"
              /\ bits[bits[j].wait_id].state # "FINISHED"
          BY <4>1, <4>2, <5>1 DEF WakesHere, Wakeable, StateSeen
        <5>4. bits[j].wait_id = i
          BY <1>2, <5>2, <5>3
        <5>5. NobodyAwaits(i)
          BY <1>2, <5>3, <5>4
        <5> QED
          BY <4>1, <5>1, <5>4, <5>5 DEF NobodyAwaits
      <4> QED
        BY <4>1, <4>2
    <3> QED
      BY <3>1, <3>2
  <2> QED
    BY <2>2 DEF NoWork, IdsOf
<1>5. ASSUME a \in Kernels, a \in fresh PROVE Watching(a)'
  <2>1. pc'[a] = "run" /\ ret'[a] = "none" /\ Watching(a)
    BY <1>5, KernelsAct DEF IInv, Control, AllWatch
  <2>2. Seen(a)' = {}
    BY <2>1 DEF Seen
  <2> QED
    BY <2>1, <2>2 DEF Watching
<1> QED
  BY <1>1, <1>2, <1>3, <1>4, <1>5, BlockWatch

LEMMA AllocWatch ==
  ASSUME IInv, AllWatch, NEW h \in Hosts, Alloc(h)
  PROVE  AllWatch'
<1>1. PICK i \in Ids : /\ bits' = [bits EXCEPT ![i].state = "ADDING"]
                       /\ pub' = [pub EXCEPT ![i] = "ADDING"] /\ lock[Block(i)] = NoActor
  BY KernelsAct, IdTypes DEF Alloc, IInv, Control, Located, Sections
<1> DEFINE new == [bits[i] EXCEPT !.state = "ADDING"]
<1>2. new.state = "ADDING"
  BY BitsTypes, StateNames DEF IInv, TypeOK
<1>3. /\ bits' = [bits EXCEPT ![i] = new] /\ pub' = [pub EXCEPT ![i] = new.state]
  BY <1>1, <1>2
<1>4. /\ pc[h] \notin Sections /\ pc' = [pc EXCEPT ![h] = "host"]
      /\ UNCHANGED <<lock, hdr, fresh, ret, view, slot, blk>>
  BY DEF Alloc, Goto, Sections
<1> HIDE DEF new
<1> QED
  BY <1>1, <1>2, <1>3, <1>4, KernelsAct, OnlyWatch

\* The states a call leaves a workload in.
LEMMA CallWatch ==
  ASSUME IInv, RInv, OwnRuns, AwaitsRunsStep, AllWatch, NEW a \in Actors, Calls(a)
  PROVE  AllWatch'
<1>1. PICK i \in Ids, new \in Bits : Altered(a, i, new)
  BY CallsAlter
<1>2. CASE Alteration(a, i, new)
  BY <1>1, <1>2, ChangeWatch DEF Altered, Alteration
<1>3. CASE QuietAlteration(a, i, new)
  <2>1. /\ lock[Block(i)] = NoActor /\ bits' = [bits EXCEPT ![i] = new]
        /\ pub' = [pub EXCEPT ![i] = new.state]
        /\ UNCHANGED <<lock, hdr, fresh, ret, view, slot, blk, pc>>
    BY <1>3 DEF QuietAlteration, ChangeOnly
  <2>2. pc[a] \notin Sections /\ (a \in Kernels => pc[a] = "run")
    BY <1>1 DEF Altered, Sections
  <2>3. new.state \notin {"READY", "WAITING"}
    <3>1. CASE a \in Kernels
      <4>1. On(a) = i /\ On(a) # NoId /\ new.state = bits[i].state
        BY <1>3, <2>2, <3>1, OnTypes DEF QuietAlteration
      <4> QED
        BY <3>1, <4>1 DEF OwnRuns
    <3>2. CASE a \in Hosts
      BY <1>1, <1>3, <3>2 DEF Altered, Alters, QuietAlteration, Lifecycle!Allowed
    <3> QED
      BY <3>1, <3>2, KernelsAct
  <2>4. ASSUME new.state = "FINISHED", bits[i].state # "FINISHED" PROVE NobodyAwaits(i)
    <3>1. bits[i].state \in {"ADDING", "REMOVING", "SCHEDULING"}
      BY <1>3, <2>4, KernelsAct DEF QuietAlteration
    <3>2. pub[i] = bits[i].state /\ pub'[i] = "FINISHED"
      BY <2>1, <2>4 DEF IInv, Published, TypeOK
    <3> QED
      BY <3>1, <3>2 DEF AwaitsRunsStep
  <2> QED
    BY <2>1, <2>2, <2>3, <2>4, OnlyWatch
<1> QED
  BY <1>1, <1>2, <1>3 DEF Altered

LEMMA SearchWatch ==
  ASSUME IInv, AllWatch, NEW k \in Kernels, Search(k)
  PROVE  AllWatch'
<1>1. /\ pc[k] = "searching" /\ k \in Actors
      /\ UNCHANGED <<pub, lock, hdr, fresh, ret, blk, view>>
  BY KernelsAct DEF Search
<1>2. PICK b \in Blocks, s \in Slots : b = blk[k] /\ s = slot[k]
  BY <1>1 DEF IInv, Control, Located, Sections
<1>3. lock[b] = k /\ ret[k] # "none" /\ NoActor \notin Actors
  BY <1>1, <1>2, ActorsAssumption DEF IInv, Owner, Control, Sections
<1> DEFINE i == <<b, s>>
<1>4. i \in IdsOf(b) /\ i \in Ids /\ bits[i] \in Bits
  BY IdTypes DEF IdsOf, IInv, TypeOK
<1>5. \/ bits' = bits /\ ~ Wakeable(b, bits[i])
      \/ bits' = [bits EXCEPT ![i] = Woken(bits[i])] /\ Wakeable(b, bits[i])
  BY <1>2 DEF Search
<1>6. \/ s < PerBlock /\ slot' = [slot EXCEPT ![k] = s + 1] /\ pc' = pc
      \/ /\ ~ (s < PerBlock) /\ slot' = [slot EXCEPT ![k] = 0]
         /\ pc' = [pc EXCEPT ![k] = IF Found(b, bits') THEN "hdr_state" ELSE "unlock"]
  BY <1>2 DEF Search, Goto
<1>7. Found(b, bits)' = Found(b, bits')
  BY <1>1 DEF Found
<1>8. Wakeable(b, bits[i]) => Found(b, bits')
  <2> SUFFICES ASSUME Wakeable(b, bits[i]) PROVE Found(b, bits')
    OBVIOUS
  <2>1. bits'[i].state = "READY"
    BY <1>4, <1>5, WokenType DEF IInv, TypeOK
  <2>2. pub[i] = "WAITING"
    BY <1>1, <1>2, <1>3, <1>4 DEF Wakeable, IInv, Published, IdsOf
  <2> QED
    BY <1>4, <2>1, <2>2 DEF Found
<1>9. Found(b, bits) => Found(b, bits')
  <2>1. CASE bits' = bits
    BY <2>1
  <2>2. CASE Wakeable(b, bits[i])
    BY <1>8, <2>2
  <2> QED
    BY <1>5, <2>1, <2>2
<1>10. /\ \A c \in Blocks : c # b => SameBlock(c)
       /\ \A x \in Actors : x # k => pc'[x] = pc[x]
       /\ \A j \in Kernels : j # k => SameWatcher(j)
  <2>1. \A j \in Ids : j # i => bits'[j] = bits[j]
    BY <1>4, <1>5 DEF IInv, TypeOK
  <2> HIDE DEF i
  <2>2. \A c \in Blocks : c # b => SameBlock(c)
    BY <1>1, <1>4, <2>1 DEF SameBlock, IdsOf
  <2> QED
    BY <1>1, <1>6, <2>2, KernelsAct DEF SameWatcher, IInv, TypeOK
<1> HIDE DEF i
<1>11. pc'[k] \in {"searching", "hdr_state", "unlock"}
       /\ (pc'[k] = "unlock" => ~ Found(b, bits')) /\ (pc'[k] = "searching" => pc' = pc)
  BY <1>1, <1>6 DEF IInv, TypeOK
<1>12. ~ Found(b, bits') => bits' = bits
  BY <1>5, <1>8
<1>13. Still(b) => Still(b)'
  <2>1. CASE Found(b, bits')
    <3>1. pc'[k] \in {"searching", "hdr_state"}
      BY <1>11, <2>1
    <3>2. Written(b)'
      BY <1>1, <1>3, <1>7, <2>1, <3>1 DEF Written
    <3> QED
      BY <3>2 DEF Still
  <2>2. CASE ~ Found(b, bits')
    <3>1. bits' = bits /\ ~ Found(b, bits)
      BY <1>9, <1>12, <2>2
    <3>2. Still(b) => NoWork(b)
      BY <1>1, <1>3, <3>1 DEF Still, Written
    <3>3. NoWork(b)' <=> NoWork(b)
      BY <1>1, <3>1, SameWork DEF SameBlock
    <3> QED
      BY <3>2, <3>3 DEF Still
  <2> QED
    BY <2>1, <2>2
<1>14. ASSUME k \in fresh PROVE Watching(k)'
  <2>1. Watching(k)
    BY <1>14 DEF AllWatch
  <2>2. \A c \in Blocks : c # b => (Still(c)' <=> Still(c))
    BY <1>1, <1>2, <1>10, OtherStill
  <2>3. \A c \in Seen(k)' : c \in Seen(k) /\ c \in Blocks /\ c # b
    <3>1. Seen(k)' = Seen(k) /\ Seen(k) \subseteq {c \in Blocks : c < blk[k]}
      BY <1>1, <1>11 DEF Seen
    <3> QED
      BY <1>2, <3>1, SizesAssumption DEF Blocks
  <2>4. \A c \in Seen(k)' : Still(c)'
    BY <2>1, <2>2, <2>3 DEF Watching
  <2>5. CASE Found(b, bits')
    <3>1. Searched(blk[k], slot[k])'
      <4>1. Found(blk[k], bits)'
        BY <1>1, <1>2, <1>7, <2>5 DEF Found
      <4> QED
        BY <4>1 DEF Searched
    <3> QED
      BY <1>1, <1>11, <2>1, <2>4, <2>5, <3>1 DEF Watching
  <2>6. CASE ~ Found(b, bits')
    <3>1. bits' = bits /\ ~ Found(b, bits) /\ ~ Wakeable(b, bits[i])
      BY <1>8, <1>9, <1>12, <2>6
    <3>2. \A j \in IdsOf(b) : bits[j].state # "READY" /\ (j[2] < s => ~ WakesHere(b, j))
      BY <1>1, <1>2, <2>1, <3>1 DEF Watching, Searched
    <3>3. \A j \in IdsOf(b) : j[2] < s + 1 => ~ WakesHere(b, j)
      <4> SUFFICES ASSUME NEW j \in IdsOf(b), j[2] < s + 1 PROVE ~ WakesHere(b, j)
        OBVIOUS
      <4>1. j[1] = b /\ j[2] \in Slots /\ j = <<j[1], j[2]>>
        BY DEF IdsOf, Ids, Block
      <4>2. j[2] < s \/ j = <<b, s>>
        BY <4>1, SizesAssumption DEF Slots
      <4> QED
        BY <3>1, <3>2, <4>2 DEF WakesHere, i
    <3>4. SameBlock(b)
      BY <1>1, <3>1 DEF SameBlock
    <3>5. \A j \in IdsOf(b) : WakesHere(b, j)' <=> WakesHere(b, j)
      BY <3>4, SameWork
    <3>6. CASE s < PerBlock /\ slot' = [slot EXCEPT ![k] = s + 1] /\ pc' = pc
      <4>1. slot'[k] = s + 1 /\ pc'[k] = "searching"
        BY <1>1, <3>6 DEF IInv, TypeOK
      <4>2. Searched(b, s + 1)'
        BY <3>1, <3>2, <3>3, <3>5 DEF Searched, IdsOf
      <4>3. Searched(blk[k], slot[k])'
        BY <1>1, <1>2, <4>1, <4>2
      <4> QED
        BY <1>1, <2>1, <2>4, <4>1, <4>3 DEF Watching
    <3>7. CASE ~ (s < PerBlock) /\ pc' = [pc EXCEPT ![k] = IF Found(b, bits') THEN "hdr_state" ELSE "unlock"]
      <4>1. pc'[k] = "unlock"
        BY <1>1, <2>6, <3>7 DEF IInv, TypeOK
      <4>2. \A j \in IdsOf(b) : j[2] < s + 1
        BY <3>7, SizesAssumption DEF IdsOf, Ids, Slots
      <4>3. NoWork(b)'
        BY <3>1, <3>2, <3>3, <3>5, <4>2 DEF NoWork, IdsOf
      <4>4. NoWork(blk[k])'
        BY <1>1, <1>2, <4>3
      <4> QED
        BY <1>1, <2>1, <2>4, <4>1, <4>4 DEF Watching
    <3> QED
      BY <1>6, <3>6, <3>7
  <2> QED
    BY <2>5, <2>6
<1> QED
  BY <1>1, <1>2, <1>3, <1>10, <1>13, <1>14, BlockWatch

LEMMA WatchStep ==
  ASSUME IInv, RInv, OwnRuns, AwaitsRunsStep, AllWatch, [Next]_vars
  PROVE  AllWatch'
<1>1. ASSUME NEW a \in Actors, Idles(a) PROVE AllWatch'
  BY <1>1, LoopWatch, ScanWatch, CallerWatch DEF Idles
<1>2. ASSUME NEW a \in Actors, InSection(a) PROVE AllWatch'
  <2>1. HeaderState(a) \/ HeaderReset(a) \/ HeaderAccess(a) => fresh' = {}
    BY DEF HeaderState, HeaderReset, HeaderAccess, WriteHeader
  <2> QED
    BY <1>2, <2>1, WrittenWatch, UnlockWatch, SearchLockWatch DEF InSection
<1>3. ASSUME NEW k \in Kernels,
             \/ Search(k) \/ Pick(k) \/ Dispatch(k) \/ ReleaseAborted(k) \/ Released(k)
             \/ \E s \in {"READY", "WAITING", "FINISHED"} : Release(k, s)
      PROVE  AllWatch'
  <2>1. k \in Actors
    BY KernelsAct
  <2>2. ASSUME NEW s \in {"READY", "WAITING", "FINISHED"}, Release(k, s) PROVE AllWatch'
    <3>1. pc[k] = "run"
      BY <2>2 DEF Release
    <3>2. cur[k].id \in Ids
      BY <3>1, OwnWorkload
    <3> QED
      BY <2>1, <2>2, <3>1, <3>2, ChangeWatch DEF Release
  <2> QED
    BY <1>3, <2>1, <2>2, SearchWatch, PickWatch, UnlockWatch, LoopWatch
<1>4. CASE UNCHANGED vars
  <2>1. UNCHANGED <<bits, pub, lock, hdr, fresh, pc, ret, blk, view, slot>>
    BY <1>4 DEF vars, locals
  <2>2. \A b \in Blocks : SameBlock(b) /\ (Still(b)' <=> Still(b))
    BY <2>1, QuietStill
  <2>3. ASSUME NEW k \in fresh' PROVE Watching(k)'
    <3>1. k \in fresh /\ k \in Kernels /\ k \in Actors
      BY <2>1, <2>3, KernelsAct DEF IInv, TypeOK
    <3>2. pc[k] \in {"searching", "unlock"} => blk[k] \in Blocks
      BY <3>1 DEF IInv, Control, Located, Sections
    <3>3. SameWatcher(k)
      BY <2>1 DEF SameWatcher
    <3> QED
      BY <2>1, <2>2, <3>1, <3>2, <3>3, WatcherKept
  <2> QED
    BY <2>3 DEF AllWatch
<1> QED
  BY <1>1, <1>2, <1>3, <1>4, StepKinds, CallWatch, AllocWatch, HandleWatch

LEMMA WatchInvariant == Spec /\ OneRun /\ AwaitsRuns => []AllWatch
<1>1. Init => AllWatch
  BY DEF Init, InitWith, AllWatch
<1>2. IInv /\ RInv /\ OwnRuns /\ AllWatch /\ [Next]_vars /\ [AwaitsRunsStep]_vars => AllWatch'
  <2> SUFFICES ASSUME IInv, RInv, OwnRuns, AllWatch, [Next]_vars, [AwaitsRunsStep]_vars
               PROVE  AllWatch'
    OBVIOUS
  <2>1. AwaitsRunsStep
    <3>1. pub' = pub => AwaitsRunsStep
      BY DEF AwaitsRunsStep
    <3> QED
      BY <3>1 DEF vars
  <2> QED
    BY <2>1, WatchStep
<1> QED
  BY <1>1, <1>2, LifeInvariant, PTL DEF Spec, AwaitsRuns

\* No kernel sleeps over work (kernel.c:978-984): while the header has not been
\* written since a sleeping kernel fetched it, no unlocked block has a ready
\* workload, or a waiting one that a search of the block would make ready.
THEOREM NobodySleepsOverWork == Spec /\ OneRun /\ AwaitsRuns => []NoOversleep
<1>1. IInv /\ AllWatch => NoOversleep
  <2> SUFFICES ASSUME IInv, AllWatch, NEW k \in Kernels, SoundAsleep(k),
                      NEW b \in Blocks, lock[b] = NoActor, NEW i \in IdsOf(b)
               PROVE  /\ bits[i].state # "READY"
                      /\ Wakeable(b, bits[i]) =>
                           bits[i].wait_id # NoId /\ Block(bits[i].wait_id) # b
    BY DEF NoOversleep
  <2>1. Still(b)
    BY DEF SoundAsleep, AllWatch, Watching, Seen
  <2>2. NoWork(b)
    BY <2>1, FreeStill
  <2> QED
    BY <2>2 DEF NoWork, WakesHere
<1> QED
  BY <1>1, Invariant, WatchInvariant, PTL

-----------------------------------------------------------------------------
(* The host is told of the workloads that finish.                          *)

\* A workload of a locked block finishes, and memory does not show it yet: its
\* kernel is going to notify the host, or only cancels a scheduling.
Shown(i) ==
  \A a \in Actors :
    lock[Block(i)] = a /\ bits[i].state = "FINISHED" /\ pub[i] # "FINISHED" =>
      /\ a \in Kernels
      /\ \/ ret[a] = "notify"
         \/ ret[a] = "release" /\ cur[a].id = i
         \/ ret[a] = "call" /\ pub[i] = "SCHEDULING"

FinishedShown == \A i \in Ids : Shown(i)

LEMMA ShownStill ==
  ASSUME IInv, FinishedShown, UNCHANGED <<lock, ret, cur>>,
         \A i \in Ids : /\ pub'[i] = pub[i]
                        /\ bits'[i].state = "FINISHED" => bits[i].state = "FINISHED"
  PROVE  FinishedShown'
BY DEF FinishedShown, Shown

LEMMA ShownElsewhere ==
  ASSUME IInv, FinishedShown, NEW a \in Actors, NEW b \in Blocks,
         lock[b] \in {NoActor, a}, pc[a] \in Sections => blk[a] = b,
         \A c \in Blocks : c # b => lock'[c] = lock[c] /\ SameBlock(c),
         \A x \in Actors : x # a => ret'[x] = ret[x],
         \A k \in Kernels : k # a => cur'[k] = cur[k],
         \A i \in IdsOf(b) : Shown(i)'
  PROVE  FinishedShown'
<1> SUFFICES ASSUME NEW i \in Ids PROVE Shown(i)'
  BY DEF FinishedShown
<1>1. CASE Block(i) = b
  BY <1>1 DEF IdsOf
<1>2. CASE Block(i) # b
  <2>1. Block(i) \in Blocks /\ lock'[Block(i)] = lock[Block(i)]
    BY <1>2, IdTypes
  <2>2. bits'[i] = bits[i] /\ pub'[i] = pub[i]
    BY <1>2, <2>1 DEF SameBlock, IdsOf
  <2>3. \A x \in Actors : lock[Block(i)] = x => x # a
    BY <1>2, <2>1 DEF IInv, Owner
  <2>4. Shown(i)
    BY DEF FinishedShown
  <2> SUFFICES ASSUME NEW x \in Actors, lock'[Block(i)] = x, bits'[i].state = "FINISHED",
                      pub'[i] # "FINISHED"
               PROVE  /\ x \in Kernels
                      /\ \/ ret'[x] = "notify"
                         \/ ret'[x] = "release" /\ cur'[x].id = i
                         \/ ret'[x] = "call" /\ pub'[i] = "SCHEDULING"
    BY DEF Shown
  <2>5. x # a /\ ret'[x] = ret[x] /\ (x \in Kernels => cur'[x] = cur[x])
    BY <2>1, <2>3
  <2>6. /\ x \in Kernels
        /\ \/ ret[x] = "notify"
           \/ ret[x] = "release" /\ cur[x].id = i
           \/ ret[x] = "call" /\ pub[i] = "SCHEDULING"
    BY <2>1, <2>2, <2>4 DEF Shown
  <2> QED
    BY <2>2, <2>5, <2>6
<1> QED
  BY <1>1, <1>2

LEMMA FreeShown ==
  ASSUME NEW i \in Ids, lock'[Block(i)] = NoActor
  PROVE  Shown(i)'
BY ActorsAssumption DEF Shown

\* An unlocked block is locked.
LEMMA LockedShown ==
  ASSUME IInv, NEW i \in Ids, lock[Block(i)] = NoActor, pub'[i] = pub[i],
         bits'[i].state = "FINISHED" => bits[i].state = "FINISHED"
  PROVE  Shown(i)'
BY DEF Shown, IInv, Published

LEMMA UnlockShown ==
  ASSUME IInv, FinishedShown, NEW a \in Actors,
         \/ CallDone(a) \/ CallDoneNotify(a)
         \/ a \in Kernels /\ (SearchDone(a) \/ Dispatch(a) \/ Released(a))
  PROVE  FinishedShown'
<1>1. /\ pc[a] = "unlock" /\ bits' = bits /\ lock' = [lock EXCEPT ![blk[a]] = NoActor]
      /\ pub' = [i \in Ids |-> IF Block(i) = blk[a] THEN bits[i].state ELSE pub[i]]
      /\ ret' = [ret EXCEPT ![a] = "none"]
      /\ cur' = cur \/ \E v : cur' = [cur EXCEPT ![a] = v]
  BY DEF CallDone, CallDoneNotify, SearchDone, Dispatch, Released, Unlock
<1>2. PICK b \in Blocks : b = blk[a]
  BY <1>1 DEF IInv, Control, Located, Sections
<1>3. lock[b] = a /\ lock'[b] = NoActor
  BY <1>1, <1>2 DEF IInv, TypeOK, Owner, Sections
<1>4. \A c \in Blocks : c # b => lock'[c] = lock[c] /\ SameBlock(c)
  BY <1>1, <1>2 DEF SameBlock, IdsOf, IInv, TypeOK
<1>5. /\ \A x \in Actors : x # a => ret'[x] = ret[x]
      /\ \A k \in Kernels : k # a => cur'[k] = cur[k]
  BY <1>1 DEF IInv, TypeOK
<1>6. \A i \in IdsOf(b) : Shown(i)'
  BY <1>3, FreeShown DEF IdsOf
<1> QED
  BY <1>1, <1>2, <1>3, <1>4, <1>5, <1>6, ShownElsewhere

LEMMA LockShown ==
  ASSUME IInv, FinishedShown, NEW k \in Kernels, SearchLock(k) \/ Pick(k)
  PROVE  FinishedShown'
<1>1. /\ pc[k] \in {"search", "pick"} /\ lock[blk[k]] = NoActor /\ k \in Actors
      /\ lock' = [lock EXCEPT ![blk[k]] = k] /\ UNCHANGED <<pub, cur>>
      /\ \E r \in {"scan", "dispatch"} : ret' = [ret EXCEPT ![k] = r]
  BY KernelsAct DEF SearchLock, Pick
<1>2. PICK b \in Blocks : b = blk[k]
  BY <1>1 DEF IInv, Control, Located, Sections
<1>3. /\ \A i \in Ids : Block(i) # b => bits'[i] = bits[i]
      /\ \A i \in Ids : bits'[i].state = "FINISHED" => bits[i].state = "FINISHED"
  <2>1. CASE SearchLock(k)
    BY <2>1 DEF SearchLock
  <2>2. CASE Pick(k)
    <3>1. PICK i \in ReadyIn(blk[k]) :
            bits' = [j \in Ids |->
              IF j = i THEN [bits[j] EXCEPT !.state = "RUNNING", !.counter = 0]
              ELSE IF j \in ReadyIn(blk[k])
              THEN [bits[j] EXCEPT !.counter = Aged(@, COUNTER_MAX)]
              ELSE bits[j]]
      BY <2>2 DEF Pick
    <3>2. i \in Ids /\ Block(i) = b
      BY <1>2 DEF ReadyIn, IdsOf
    <3>3. \A j \in Ids : Block(j) # b => bits'[j] = bits[j]
      BY <1>2, <3>1, <3>2 DEF ReadyIn, IdsOf
    <3>4. \A j \in Ids : j # i => bits'[j].state = bits[j].state
      BY <3>1, PickedType DEF IInv, TypeOK
    <3>5. bits'[i].state = "RUNNING"
      <4>1. bits'[i] = [bits[i] EXCEPT !.state = "RUNNING", !.counter = 0] /\ bits[i] \in Bits
        BY <3>1, <3>2 DEF IInv, TypeOK
      <4> QED
        BY <4>1 DEF Bits
    <3> QED
      BY <3>2, <3>3, <3>4, <3>5
  <2> QED
    BY <2>1, <2>2
<1>4. \A c \in Blocks : c # b => lock'[c] = lock[c] /\ SameBlock(c)
  BY <1>1, <1>2, <1>3 DEF SameBlock, IdsOf, IInv, TypeOK
<1>5. /\ \A x \in Actors : x # k => ret'[x] = ret[x]
      /\ \A j \in Kernels : j # k => cur'[j] = cur[j]
  BY <1>1 DEF IInv, TypeOK
<1>6. \A i \in IdsOf(b) : Shown(i)'
  BY <1>1, <1>2, <1>3, LockedShown DEF IdsOf
<1> QED
  BY <1>1, <1>2, <1>4, <1>5, <1>6, ShownElsewhere DEF Sections

LEMMA ChangeShown ==
  ASSUME IInv, FinishedShown, NEW a \in Actors, NEW i \in Ids, NEW new \in Bits,
         NEW label \in {"hdr_state", "hdr_access"}, NEW after \in {"call", "notify", "release"},
         Change(a, i, new, label, after), pc[a] = IF a \in Kernels THEN "run" ELSE "host",
         a \in Kernels /\ new.state = "FINISHED" /\ bits[i].state # "FINISHED" =>
           \/ after = "notify"
           \/ after = "release" /\ cur[a].id = i
           \/ after = "call" /\ bits[i].state = "SCHEDULING"
  PROVE  FinishedShown'
<1>1. PICK b \in Blocks : b = Block(i)
  BY IdTypes
<1>2. /\ lock[b] = NoActor /\ lock' = [lock EXCEPT ![b] = a] /\ cur' = cur
      /\ bits' = [bits EXCEPT ![i] = new]
      /\ pub' = IF a \in Hosts THEN [pub EXCEPT ![i] = new.state] ELSE pub
      /\ ret' = [ret EXCEPT ![a] = after]
  BY <1>1 DEF Change
<1>3. /\ lock'[b] = a /\ bits'[i] = new /\ ret'[a] = after
      /\ pub'[i] = IF a \in Hosts THEN new.state ELSE pub[i]
      /\ \A j \in Ids : j # i => bits'[j] = bits[j] /\ pub'[j] = pub[j]
      /\ \A c \in Blocks : c # b => lock'[c] = lock[c]
      /\ \A x \in Actors : x # a => ret'[x] = ret[x]
  BY <1>1, <1>2 DEF IInv, TypeOK
<1>4. \A c \in Blocks : c # b => SameBlock(c)
  BY <1>1, <1>3 DEF SameBlock, IdsOf
<1>5. ASSUME NEW j \in IdsOf(b) PROVE Shown(j)'
  <2>1. j \in Ids /\ Block(j) = b
    BY DEF IdsOf
  <2>2. CASE j # i
    BY <1>2, <1>3, <2>1, <2>2, LockedShown
  <2>3. CASE j = i
    <3>1. pub[i] = bits[i].state
      BY <1>1, <1>2 DEF IInv, Published
    <3> QED
      BY <1>1, <1>2, <1>3, <2>3, <3>1, KernelsAct DEF Shown
  <2> QED
    BY <2>2, <2>3
<1>6. pc[a] \notin Sections
  BY DEF Sections
<1> QED
  BY <1>2, <1>3, <1>4, <1>5, <1>6, ShownElsewhere

LEMMA OnlyShown ==
  ASSUME IInv, FinishedShown, NEW i \in Ids, NEW new,
         lock[Block(i)] = NoActor, bits' = [bits EXCEPT ![i] = new],
         pub' = [pub EXCEPT ![i] = new.state], UNCHANGED <<lock, ret, cur>>
  PROVE  FinishedShown'
<1>1. \A j \in Ids : j # i => bits'[j] = bits[j] /\ pub'[j] = pub[j]
  BY DEF IInv, TypeOK
<1>2. ASSUME NEW j \in Ids PROVE Shown(j)'
  <2>1. CASE j = i
    BY <2>1, FreeShown
  <2>2. CASE j # i
    BY <1>1, <2>2 DEF FinishedShown, Shown
  <2> QED
    BY <2>1, <2>2
<1> QED
  BY <1>2 DEF FinishedShown

LEMMA CallShown ==
  ASSUME IInv, FinishedShown, NEW a \in Actors, Calls(a)
  PROVE  FinishedShown'
<1>1. PICK i \in Ids, new \in Bits : Altered(a, i, new)
  BY CallsAlter
<1>2. CASE Alteration(a, i, new)
  <2>1. PICK label \in {"hdr_state", "hdr_access"}, after \in {"call", "notify"} :
          /\ Change(a, i, new, label, after)
          /\ new.state = "FINISHED" /\ bits[i].state # "FINISHED" =>
               after = "notify" \/ (a \in Kernels /\ bits[i].state = "SCHEDULING")
    BY <1>2 DEF Alteration
  <2> QED
    BY <1>1, <2>1, ChangeShown DEF Altered
<1>3. CASE QuietAlteration(a, i, new)
  BY <1>3, OnlyShown DEF QuietAlteration, ChangeOnly
<1> QED
  BY <1>1, <1>2, <1>3 DEF Altered

LEMMA OthersShown ==
  ASSUME IInv, FinishedShown, NEW k \in Kernels,
         \/ Search(k) \/ ReleaseAborted(k)
         \/ \E s \in {"READY", "WAITING", "FINISHED"} : Release(k, s)
  PROVE  FinishedShown'
<1>0. k \in Actors
  BY KernelsAct
<1>1. CASE Search(k)
  <2> DEFINE i == <<blk[k], slot[k]>>
  <2>1. i \in Ids
    BY <1>0, <1>1, IdTypes DEF Search, IInv, Control, Located, Sections
  <2>2. bits' = bits \/ bits' = [bits EXCEPT ![i] = Woken(@)]
    BY <1>1 DEF Search
  <2> HIDE DEF i
  <2>3. \A j \in Ids : bits'[j].state = "FINISHED" => bits[j].state = "FINISHED"
    BY <2>1, <2>2, WokenType DEF IInv, TypeOK
  <2> QED
    BY <1>1, <2>3, ShownStill DEF Search
<1>2. CASE ReleaseAborted(k)
  <2>1. /\ pc[k] = "run" /\ UNCHANGED <<bits, pub, lock, ret>>
        /\ cur' = [cur EXCEPT ![k] = NoRun]
    BY <1>2 DEF ReleaseAborted
  <2>2. \A i \in Ids : lock[Block(i)] # k
    BY <1>0, <2>1, IdTypes DEF IInv, Owner, Sections
  <2>3. \A j \in Kernels : j # k => cur'[j] = cur[j]
    BY <2>1 DEF IInv, TypeOK
  <2> QED
    BY <2>1, <2>2, <2>3 DEF FinishedShown, Shown
<1>3. ASSUME NEW s \in {"READY", "WAITING", "FINISHED"}, Release(k, s)
      PROVE  FinishedShown'
  <2> DEFINE i == cur[k].id
             new == [bits[i] EXCEPT !.state = s]
  <2>1. pc[k] = "run" /\ Change(k, i, new, "hdr_state", "release")
    BY <1>3 DEF Release
  <2>2. i \in Ids /\ new \in Bits
    BY <2>1, OwnWorkload, BitsTypes, StateNames
  <2> HIDE DEF new
  <2> QED
    BY <1>0, <2>1, <2>2, ChangeShown
<1> QED
  BY <1>1, <1>2, <1>3

LEMMA ShownStep ==
  ASSUME IInv, FinishedShown, [Next]_vars
  PROVE  FinishedShown'
<1>1. ASSUME NEW a \in Actors, Idles(a) PROVE FinishedShown'
  <2>1. UNCHANGED <<bits, pub, lock, ret, cur>>
    BY <1>1 DEF Idles, Notify, EndFails, Reserve, Scan, Choose, PickNothing, IdleWait,
       Wake, AddBegin, AllocNext, Exit, Test, Wait, locals
  <2> QED
    BY <2>1, ShownStill
<1>2. ASSUME NEW a \in Actors, InSection(a) PROVE FinishedShown'
  <2>1. HeaderState(a) \/ HeaderReset(a) \/ HeaderAccess(a) => UNCHANGED <<bits, pub, lock, ret, cur>>
    BY DEF HeaderState, HeaderReset, HeaderAccess
  <2> QED
    BY <1>2, <2>1, ShownStill, UnlockShown, LockShown DEF InSection
<1>3. ASSUME NEW h \in Hosts, Alloc(h) PROVE FinishedShown'
  <2>1. PICK i \in Ids : /\ bits' = [bits EXCEPT ![i].state = "ADDING"]
                         /\ pub' = [pub EXCEPT ![i] = "ADDING"] /\ lock[Block(i)] = NoActor
    BY <1>3, KernelsAct, IdTypes DEF Alloc, IInv, Control, Located, Sections
  <2> DEFINE new == [bits[i] EXCEPT !.state = "ADDING"]
  <2>2. new.state = "ADDING"
    BY BitsTypes, StateNames DEF IInv, TypeOK
  <2>3. bits' = [bits EXCEPT ![i] = new] /\ pub' = [pub EXCEPT ![i] = new.state]
    BY <2>1, <2>2
  <2> HIDE DEF new
  <2> QED
    BY <1>3, <2>1, <2>3, OnlyShown DEF Alloc
<1>4. HandleEvent \/ UNCHANGED vars => UNCHANGED <<bits, pub, lock, ret, cur>>
  BY DEF HandleEvent, vars, locals
<1> QED
  BY <1>1, <1>2, <1>3, <1>4, StepKinds, CallShown, OthersShown, LockShown, UnlockShown,
     KernelsAct, ShownStill

\* Somebody owes the host the notification, or takes none any more.
Owed == \/ notified
        \/ \E a \in Actors : pc[a] = "notify" \/ ret[a] = "notify"
        \/ ~ HandlerRuns

LEMMA OwedFrame ==
  ASSUME IInv, Owed, notified' = notified, NEW a \in Actors, pc[a] \notin {"notify", "exited"},
         ret[a] = "notify" => ret'[a] = "notify" \/ pc'[a] = "notify",
         \A x \in Actors : x # a => pc'[x] = pc[x] /\ ret'[x] = ret[x]
  PROVE  Owed'
<1>1. ASSUME NEW x \in Actors, pc[x] = "notify" \/ ret[x] = "notify"
      PROVE  \E y \in Actors : pc'[y] = "notify" \/ ret'[y] = "notify"
  BY <1>1
<1>2. ~ HandlerRuns => ~ HandlerRuns'
  BY KernelsAct DEF HandlerRuns
<1> QED
  BY <1>1, <1>2 DEF Owed

\* Only a broadcast settles it, and leaves nobody asleep.
LEMMA OwedStep ==
  ASSUME IInv, RInv, Owed, [Next]_vars
  PROVE  Owed' \/ \A h \in Hosts : pc'[h] # "sleep"
<1>0. pc \in [Actors -> Label] /\ ret \in [Actors -> After]
  BY DEF IInv, TypeOK
<1>1. ASSUME NEW a \in Actors, Calls(a) PROVE Owed'
  <2>1. PICK i \in Ids, new \in Bits : Altered(a, i, new)
    BY <1>1, CallsAlter
  <2>2. /\ pc[a] \in {"run", "host"} /\ notified' = notified
        /\ \/ UNCHANGED <<pc, ret>>
           \/ \E label \in Label, r \in After :
                 pc' = [pc EXCEPT ![a] = label] /\ ret' = [ret EXCEPT ![a] = r]
    BY <2>1 DEF Altered, Alteration, QuietAlteration, Change, ChangeOnly, Goto, Label, After
  <2>3. ret[a] = "none"
    BY <2>2 DEF IInv, Control, Sections
  <2> QED
    BY <1>0, <2>2, <2>3, OwedFrame
<1>2. ASSUME NEW a \in Actors, Idles(a) PROVE Owed' \/ \A h \in Hosts : pc'[h] # "sleep"
  <2>1. CASE Notify(a) /\ a \in Kernels
    <3>1. /\ pc[a] = "notify" /\ ret' = ret /\ notified' = (notified \/ HandlerRuns)
          /\ \E label \in {"reserve", "run"} : pc' = [pc EXCEPT ![a] = label]
      BY <2>1 DEF Notify, Goto
    <3>2. CASE HandlerRuns
      BY <3>1, <3>2 DEF Owed
    <3>3. CASE ~ HandlerRuns
      <4>1. PICK k \in Kernels : pc[k] = "exited"
        BY <3>3 DEF HandlerRuns
      <4>2. pc'[k] = "exited"
        BY <1>0, <3>1, <4>1, KernelsAct
      <4> QED
        BY <4>2 DEF Owed, HandlerRuns
    <3> QED
      BY <3>2, <3>3
  <2>2. CASE Notify(a) /\ a \notin Kernels
    <3> DEFINE f == [pc EXCEPT ![a] = "host"]
    <3>1. pc' = Broadcast(f)
      BY <2>2 DEF Notify
    <3> HIDE DEF f
    <3> QED
      BY <3>1, KernelsAct DEF Broadcast
  <2>3. CASE EndFails(a)
    BY <2>3, <1>0 DEF EndFails, Owed, HandlerRuns
  <2>4. CASE ~ Notify(a) /\ ~ EndFails(a)
    <3>1. /\ pc[a] \in {"reserve", "scan", "pick", "idle", "asleep", "host", "alloc", "test"}
          /\ UNCHANGED <<ret, notified>>
          /\ pc' = pc \/ \E label \in Label : pc' = [pc EXCEPT ![a] = label]
      BY <1>2, <2>4, KernelsAct DEF Idles, Reserve, Scan, Choose, PickNothing, IdleWait,
         Wake, AddBegin, AllocNext, Exit, Test, Wait, Caller, Goto, locals, Label
    <3> QED
      BY <1>0, <3>1, OwedFrame
  <2> QED
    BY <2>1, <2>2, <2>3, <2>4
<1>3. ASSUME NEW a \in Actors, InSection(a) PROVE Owed'
  <2>1. /\ pc[a] \in {"hdr_reset", "hdr_state", "hdr_access", "unlock", "search"}
        /\ notified' = notified
        /\ \E label \in Label : pc' = [pc EXCEPT ![a] = label] /\ (CallDoneNotify(a) => label = "notify")
        /\ \/ ret' = ret
           \/ CallDoneNotify(a) /\ ret' = [ret EXCEPT ![a] = "none"]
           \/ /\ ret[a] # "notify" /\ \E r \in After : ret' = [ret EXCEPT ![a] = r]
    <3>1. CASE HeaderState(a) \/ HeaderReset(a) \/ HeaderAccess(a)
      BY <3>1 DEF HeaderState, HeaderReset, HeaderAccess, Goto, Label, CallDoneNotify, Unlock
    <3>2. CASE CallDone(a)
      BY <3>2 DEF CallDone, CallDoneNotify, Unlock, Goto, Label, After
    <3>3. CASE CallDoneNotify(a)
      BY <3>3 DEF CallDoneNotify, Unlock, Goto, Label
    <3>4. CASE SearchLock(a)
      BY <3>4 DEF SearchLock, CallDoneNotify, Unlock, Goto, Label, After, IInv, Control, Sections
    <3>5. CASE SearchDone(a)
      BY <3>5 DEF SearchDone, CallDoneNotify, Unlock, Goto, Label, After
    <3> QED
      BY <1>3, <3>1, <3>2, <3>3, <3>4, <3>5 DEF InSection
  <2>2. PICK label \in Label : pc' = [pc EXCEPT ![a] = label] /\ (CallDoneNotify(a) => label = "notify")
    BY <2>1
  <2>3. ret[a] = "notify" => ret'[a] = "notify" \/ pc'[a] = "notify"
    BY <1>0, <2>1, <2>2
  <2>4. \A x \in Actors : x # a => pc'[x] = pc[x] /\ ret'[x] = ret[x]
    BY <1>0, <2>1, <2>2
  <2> QED
    BY <2>1, <2>3, <2>4, OwedFrame
<1>4. ASSUME NEW h \in Hosts, Alloc(h) PROVE Owed'
  <2>1. pc[h] = "alloc" /\ pc' = [pc EXCEPT ![h] = "host"] /\ UNCHANGED <<ret, notified>>
    BY <1>4 DEF Alloc, Goto
  <2> QED
    BY <1>0, <2>1, KernelsAct, OwedFrame
<1>5. ASSUME NEW k \in Kernels,
             \/ Search(k) \/ Pick(k) \/ Dispatch(k) \/ ReleaseAborted(k) \/ Released(k)
             \/ \E s \in {"READY", "WAITING", "FINISHED"} : Release(k, s)
      PROVE  Owed'
  <2>1. /\ pc[k] \in {"searching", "pick", "unlock", "run"} /\ k \in Actors
        /\ notified' = notified
        /\ pc' = pc \/ \E label \in Label : pc' = [pc EXCEPT ![k] = label]
        /\ \/ ret' = ret
           \/ /\ ret[k] # "notify" /\ \E r \in After : ret' = [ret EXCEPT ![k] = r]
    <3>1. pc[k] \in {"pick", "run"} => ret[k] = "none"
      BY KernelsAct DEF IInv, Control, Sections
    <3>2. CASE Search(k)
      BY <3>2, KernelsAct DEF Search, Goto, Label
    <3>3. CASE Pick(k) \/ ReleaseAborted(k)
      BY <3>1, <3>3, KernelsAct DEF Pick, ReleaseAborted, Goto, Label, After
    <3>4. CASE Dispatch(k) \/ Released(k)
      BY <3>4, KernelsAct DEF Dispatch, Released, Unlock, Goto, Label, After
    <3>5. CASE \E s \in {"READY", "WAITING", "FINISHED"} : Release(k, s)
      BY <3>1, <3>5, KernelsAct DEF Release, Change, Goto, Label, After
    <3> QED
      BY <1>5, <3>2, <3>3, <3>4, <3>5
  <2> QED
    BY <1>0, <2>1, OwedFrame
<1>6. CASE HandleEvent
  BY <1>6, KernelsAct DEF HandleEvent, Broadcast
<1>7. CASE UNCHANGED vars
  BY <1>7 DEF vars, locals, Owed, HandlerRuns
<1> QED
  BY <1>1, <1>2, <1>3, <1>4, <1>5, <1>6, <1>7, StepKinds

\* Memory begins to show workload i finished while a host thread waits for it.
LEMMA NewFinish ==
  ASSUME IInv, FinishedShown, AwaitsRunsStep, [Next]_vars,
         NEW h \in Hosts, NEW i \in Ids, pc[h] = "sleep", tgt[h] = i,
         pub[i] # "FINISHED", pub'[i] = "FINISHED"
  PROVE  Owed'
<1>0. ret \in [Actors -> After] /\ pc \in [Actors -> Label] /\ pub \in [Ids -> State]
  BY DEF IInv, TypeOK
<1>1. ~ NobodyAwaits(i)
  BY DEF NobodyAwaits
<1>2. pub[i] \notin {"ADDING", "REMOVING", "SCHEDULING"}
  BY <1>1 DEF AwaitsRunsStep
<1>3. ASSUME NEW a \in Actors, Calls(a) PROVE Owed'
  <2>1. PICK j \in Ids, new \in Bits : Altered(a, j, new)
    BY <1>3, CallsAlter
  <2>2. CASE QuietAlteration(a, j, new)
    <3>1. lock[Block(j)] = NoActor /\ pub' = [pub EXCEPT ![j] = new.state]
      BY <2>2 DEF QuietAlteration, ChangeOnly
    <3>2. j = i /\ new.state = "FINISHED"
      BY <1>0, <3>1
    <3>3. pub[i] = bits[i].state
      BY <3>1, <3>2 DEF IInv, Published
    <3> QED
      BY <1>2, <2>2, <3>2, <3>3, KernelsAct DEF QuietAlteration
  <2>3. CASE Alteration(a, j, new)
    <3>1. PICK label \in {"hdr_state", "hdr_access"}, after \in {"call", "notify"} :
            /\ Change(a, j, new, label, after)
            /\ new.state = "FINISHED" /\ bits[j].state # "FINISHED" =>
                 after = "notify" \/ (a \in Kernels /\ bits[j].state = "SCHEDULING")
      BY <2>3 DEF Alteration
    <3>2. /\ lock[Block(j)] = NoActor /\ ret' = [ret EXCEPT ![a] = after]
          /\ pub' = IF a \in Hosts THEN [pub EXCEPT ![j] = new.state] ELSE pub
      BY <3>1 DEF Change
    <3>3. a \in Hosts /\ j = i /\ new.state = "FINISHED"
      BY <1>0, <3>2
    <3>4. pub[i] = bits[i].state
      BY <3>2, <3>3 DEF IInv, Published
    <3>5. ret'[a] = "notify"
      BY <1>0, <3>1, <3>2, <3>3, <3>4, KernelsAct
    <3> QED
      BY <3>5 DEF Owed
  <2> QED
    BY <2>1, <2>2, <2>3 DEF Altered
<1>4. ASSUME NEW a \in Actors, Idles(a) PROVE pub' = pub
  BY <1>4 DEF Idles, Notify, EndFails, Reserve, Scan, Choose, PickNothing, IdleWait,
     Wake, AddBegin, AllocNext, Exit, Test, Wait, locals
<1>5. ASSUME NEW a \in Actors, InSection(a) \/ (a \in Kernels /\ (Dispatch(a) \/ Released(a))), pub' # pub
      PROVE  Owed'
  <2>1. \/ CallDone(a) \/ CallDoneNotify(a)
        \/ a \in Kernels /\ (SearchDone(a) \/ Dispatch(a) \/ Released(a))
    BY <1>5 DEF InSection, HeaderState, HeaderReset, HeaderAccess, SearchLock
  <2>2. /\ pc[a] = "unlock" /\ ret[a] \in {"call", "notify", "scan", "dispatch", "release"}
        /\ pub' = [j \in Ids |-> IF Block(j) = blk[a] THEN bits[j].state ELSE pub[j]]
    BY <2>1 DEF CallDone, CallDoneNotify, SearchDone, Dispatch, Released, Unlock
  <2>3. Block(i) = blk[a] /\ bits[i].state = "FINISHED"
    BY <2>2
  <2>4. lock[Block(i)] = a
    BY <2>2, <2>3, IdTypes DEF IInv, Owner, Sections
  <2>5. /\ a \in Kernels
        /\ \/ ret[a] = "notify"
           \/ ret[a] = "release" /\ cur[a].id = i
    BY <1>2, <2>3, <2>4 DEF FinishedShown, Shown
  <2>6. pc' = [pc EXCEPT ![a] = "notify"]
    BY <2>1, <2>3, <2>5 DEF CallDone, CallDoneNotify, SearchDone, Dispatch, Released, Unlock, Goto
  <2>7. pc'[a] = "notify"
    BY <1>0, <2>6
  <2> QED
    BY <2>7 DEF Owed
<1>6. ASSUME NEW g \in Hosts, Alloc(g) PROVE FALSE
  <2>1. PICK j : pub' = [pub EXCEPT ![j] = "ADDING"]
    BY <1>6 DEF Alloc
  <2> QED
    BY <1>0, <2>1
<1>7. ASSUME NEW k \in Kernels,
             \/ Search(k) \/ Pick(k) \/ ReleaseAborted(k)
             \/ \E s \in {"READY", "WAITING", "FINISHED"} : Release(k, s)
      PROVE  pub' = pub
  BY <1>7, KernelsAct DEF Search, Pick, ReleaseAborted, Release, Change
<1>8. HandleEvent \/ UNCHANGED vars => pub' = pub
  BY DEF HandleEvent, vars
<1>9. pub' # pub
  OBVIOUS
<1> QED
  BY <1>3, <1>4, <1>5, <1>6, <1>7, <1>8, <1>9, KernelsAct, StepKinds

\* A host thread that sleeps slept before, or has just seen that it must.
LEMMA SleepSame ==
  ASSUME IInv, [Next]_vars, NEW h \in Hosts, pc'[h] = "sleep"
  PROVE  /\ tgt'[h] = tgt[h]
         /\ pc[h] = "sleep" \/ (pub[tgt[h]] # "FINISHED" /\ pub' = pub)
<1>0. pc \in [Actors -> Label] /\ tgt \in [Actors -> Ids \union {NoId}] /\ h \in Actors
  BY KernelsAct DEF IInv, TypeOK
<1>1. ASSUME tgt'[h] = tgt[h], pc' = pc \/ \E a \in Actors : \E label \in Label \ {"sleep"} :
                                   pc' = [pc EXCEPT ![a] = label]
      PROVE  tgt'[h] = tgt[h] /\ pc[h] = "sleep"
  BY <1>0, <1>1
<1>2. ASSUME NEW a \in Actors, Calls(a) PROVE tgt'[h] = tgt[h] /\ pc[h] = "sleep"
  <2>1. PICK j \in Ids, new \in Bits : Altered(a, j, new)
    BY <1>2, CallsAlter
  <2> QED
    BY <1>1, <2>1 DEF Altered, Alteration, QuietAlteration, Change, ChangeOnly, Goto, Label
<1>3. ASSUME NEW f, pc' = Broadcast(f) PROVE FALSE
  BY <1>0, <1>3 DEF Broadcast
<1>4. ASSUME NEW a \in Actors, Idles(a)
      PROVE  /\ tgt'[h] = tgt[h]
             /\ pc[h] = "sleep" \/ (pub[tgt[h]] # "FINISHED" /\ pub' = pub)
  <2>1. CASE a \in Hosts /\ Test(a)
    <3>1. CASE a = h
      BY <1>0, <2>1, <3>1 DEF Test, Goto
    <3>2. CASE a # h
      <4>1. tgt'[h] = tgt[h] /\ pc'[h] = pc[h]
        BY <1>0, <2>1, <3>2 DEF Test, Goto
      <4> QED
        BY <4>1
    <3> QED
      BY <3>1, <3>2
  <2>2. CASE a \in Hosts /\ \E i \in Ids : Wait(a, i)
    <3>1. PICK i \in Ids : /\ tgt' = [tgt EXCEPT ![a] = i]
                           /\ pc' = [pc EXCEPT ![a] = "test"]
      BY <2>2 DEF Wait, Goto
    <3>2. a # h
      BY <1>0, <3>1
    <3> QED
      BY <1>0, <3>1, <3>2
  <2>3. CASE Notify(a)
    <3>1. tgt' = tgt /\ ((\E f : pc' = Broadcast(f)) \/ \E label \in {"reserve", "run"} : pc' = [pc EXCEPT ![a] = label])
      BY <2>3 DEF Notify, Goto
    <3> QED
      BY <1>1, <1>3, <3>1 DEF Label
  <2>4. CASE \/ EndFails(a)
             \/ a \in Kernels /\ (Reserve(a) \/ Scan(a) \/ Choose(a) \/ PickNothing(a) \/ IdleWait(a) \/ Wake(a))
             \/ a \in Hosts /\ (AddBegin(a) \/ AllocNext(a) \/ Exit(a))
    <3>1. /\ tgt' = tgt
          /\ pc' = pc \/ \E label \in Label \ {"sleep"} : pc' = [pc EXCEPT ![a] = label]
      BY <2>4 DEF EndFails, Reserve, Scan, Choose, PickNothing, IdleWait, Wake, AddBegin,
         AllocNext, Exit, Goto, locals, Label
    <3> QED
      BY <1>1, <3>1
  <2> QED
    BY <1>4, <2>1, <2>2, <2>3, <2>4 DEF Idles
<1>5. ASSUME NEW a \in Actors, InSection(a) PROVE tgt'[h] = tgt[h] /\ pc[h] = "sleep"
  <2>1. tgt' = tgt /\ \E label \in Label \ {"sleep"} : pc' = [pc EXCEPT ![a] = label]
    BY <1>5 DEF InSection, HeaderState, HeaderReset, HeaderAccess, CallDone, CallDoneNotify,
       SearchLock, SearchDone, Unlock, Goto, Label
  <2> QED
    BY <1>1, <2>1
<1>6. ASSUME NEW g \in Hosts, Alloc(g) PROVE tgt'[h] = tgt[h] /\ pc[h] = "sleep"
  <2>1. tgt' = tgt /\ pc' = [pc EXCEPT ![g] = "host"] /\ g \in Actors /\ "host" \in Label \ {"sleep"}
    BY <1>6, KernelsAct DEF Alloc, Goto, Label
  <2> QED
    BY <1>1, <2>1
<1>7. ASSUME NEW k \in Kernels,
             \/ Search(k) \/ Pick(k) \/ Dispatch(k) \/ ReleaseAborted(k) \/ Released(k)
             \/ \E s \in {"READY", "WAITING", "FINISHED"} : Release(k, s)
      PROVE  tgt'[h] = tgt[h] /\ pc[h] = "sleep"
  <2>1. /\ tgt' = tgt \/ \E v : tgt' = [tgt EXCEPT ![k] = v]
        /\ pc' = pc \/ \E label \in Label \ {"sleep"} : pc' = [pc EXCEPT ![k] = label]
    BY <1>7 DEF Search, Pick, Dispatch, ReleaseAborted, Released, Release, Change, Unlock, Goto, Label
  <2>2. k # h /\ k \in Actors
    BY KernelsAct
  <2>3. tgt'[h] = tgt[h]
    BY <1>0, <2>1, <2>2
  <2> QED
    BY <1>1, <2>1, <2>2, <2>3
<1>8. CASE HandleEvent
  BY <1>3, <1>8 DEF HandleEvent
<1>9. CASE UNCHANGED vars
  BY <1>9 DEF vars, locals
<1> QED
  BY <1>2, <1>4, <1>5, <1>6, <1>7, <1>8, <1>9, StepKinds

\* A host thread asleep waits for a workload.
Waits == \A h \in Hosts : pc[h] \in {"test", "sleep"} => tgt[h] \in Ids

LEMMA NotifiedStep ==
  ASSUME IInv, RInv, Waits, FinishedShown, FinishIsNotified, AwaitsRunsStep, [Next]_vars
  PROVE  FinishIsNotified'
<1> SUFFICES ASSUME NEW h \in Hosts, pc'[h] = "sleep", pub'[tgt'[h]] = "FINISHED" PROVE Owed'
  BY DEF FinishIsNotified, Owed
<1>1. /\ tgt'[h] = tgt[h]
      /\ pc[h] = "sleep" \/ (pub[tgt[h]] # "FINISHED" /\ pub' = pub)
  BY SleepSame
<1>2. pc[h] = "sleep"
  BY <1>1
<1>3. PICK i \in Ids : tgt[h] = i
  BY <1>2 DEF Waits
<1>4. CASE pub[i] = "FINISHED"
  <2>1. Owed
    BY <1>2, <1>3, <1>4 DEF FinishIsNotified, Owed
  <2> QED
    BY <2>1, OwedStep
<1>5. CASE pub[i] # "FINISHED"
  BY <1>1, <1>2, <1>3, <1>5, NewFinish
<1> QED
  BY <1>4, <1>5

LEMMA WaitsStep ==
  ASSUME IInv, Waits, [Next]_vars
  PROVE  Waits'
<1> SUFFICES ASSUME NEW h \in Hosts, pc'[h] \in {"test", "sleep"} PROVE tgt'[h] \in Ids
  BY DEF Waits
<1>0. pc \in [Actors -> Label] /\ tgt \in [Actors -> Ids \union {NoId}] /\ h \in Actors
  BY KernelsAct DEF IInv, TypeOK
<1>1. ASSUME tgt'[h] = tgt[h], pc' = pc \/ \E a \in Actors : \E label \in Label \ {"test", "sleep"} :
                                   pc' = [pc EXCEPT ![a] = label]
      PROVE  tgt'[h] \in Ids
  BY <1>0, <1>1 DEF Waits
<1>2. ASSUME NEW a \in Actors, Calls(a) PROVE tgt'[h] \in Ids
  <2>1. PICK j \in Ids, new \in Bits : Altered(a, j, new)
    BY <1>2, CallsAlter
  <2> QED
    BY <1>1, <2>1 DEF Altered, Alteration, QuietAlteration, Change, ChangeOnly, Goto, Label
<1>3. ASSUME NEW f \in [Actors -> Label], pc' = Broadcast(f), tgt' = tgt,
             \A x \in Actors : f[x] = pc[x] \/ f[x] = "host"
      PROVE  tgt'[h] \in Ids
  <2>1. f[h] \in {"test", "sleep"}
    BY <1>0, <1>3 DEF Broadcast
  <2>2. pc[h] \in {"test", "sleep"}
    BY <1>0, <1>3, <2>1
  <2> QED
    BY <1>3, <2>2 DEF Waits
<1>4. ASSUME NEW a \in Actors, Idles(a) PROVE tgt'[h] \in Ids
  <2>1. CASE a \in Hosts /\ Test(a)
    <3>1. \/ pc' = [pc EXCEPT ![a] = "host"] /\ tgt' = [tgt EXCEPT ![a] = NoId]
          \/ pc' = [pc EXCEPT ![a] = "sleep"] /\ tgt' = tgt
      BY <2>1 DEF Test, Goto
    <3>2. pc[a] = "test"
      BY <2>1 DEF Test
    <3>3. pc[h] \in {"test", "sleep"} /\ tgt'[h] = tgt[h]
      BY <1>0, <3>1, <3>2
    <3> QED
      BY <3>3 DEF Waits
  <2>2. CASE a \in Hosts /\ \E i \in Ids : Wait(a, i)
    <3>1. PICK i \in Ids : /\ tgt' = [tgt EXCEPT ![a] = i]
                           /\ pc' = [pc EXCEPT ![a] = "test"]
      BY <2>2 DEF Wait, Goto
    <3>2. a = h \/ (pc'[h] = pc[h] /\ tgt'[h] = tgt[h])
      BY <1>0, <3>1
    <3> QED
      BY <1>0, <3>1, <3>2 DEF Waits
  <2>3. CASE Notify(a)
    <3>1. CASE a \in Kernels
      <4>1. tgt' = tgt /\ \E label \in {"reserve", "run"} : pc' = [pc EXCEPT ![a] = label]
        BY <2>3, <3>1 DEF Notify, Goto
      <4> QED
        BY <1>1, <4>1 DEF Label
    <3>2. CASE a \notin Kernels
      <4> DEFINE f == [pc EXCEPT ![a] = "host"]
      <4>1. tgt' = tgt /\ pc' = Broadcast(f)
        BY <2>3, <3>2 DEF Notify
      <4>2. f \in [Actors -> Label] /\ \A x \in Actors : f[x] = pc[x] \/ f[x] = "host"
        BY <1>0 DEF Label
      <4> HIDE DEF f
      <4> QED
        BY <1>3, <4>1, <4>2
    <3> QED
      BY <3>1, <3>2
  <2>4. CASE \/ EndFails(a)
             \/ a \in Kernels /\ (Reserve(a) \/ Scan(a) \/ Choose(a) \/ PickNothing(a) \/ IdleWait(a) \/ Wake(a))
             \/ a \in Hosts /\ (AddBegin(a) \/ AllocNext(a) \/ Exit(a))
    <3>1. /\ tgt' = tgt
          /\ pc' = pc \/ \E label \in Label \ {"test", "sleep"} : pc' = [pc EXCEPT ![a] = label]
      BY <2>4 DEF EndFails, Reserve, Scan, Choose, PickNothing, IdleWait, Wake, AddBegin,
         AllocNext, Exit, Goto, locals, Label
    <3> QED
      BY <1>1, <3>1
  <2> QED
    BY <1>4, <2>1, <2>2, <2>3, <2>4 DEF Idles
<1>5. ASSUME NEW a \in Actors, InSection(a) PROVE tgt'[h] \in Ids
  <2>1. tgt' = tgt /\ \E label \in Label \ {"test", "sleep"} : pc' = [pc EXCEPT ![a] = label]
    BY <1>5 DEF InSection, HeaderState, HeaderReset, HeaderAccess, CallDone, CallDoneNotify,
       SearchLock, SearchDone, Unlock, Goto, Label
  <2> QED
    BY <1>1, <2>1
<1>6. ASSUME NEW g \in Hosts, Alloc(g) PROVE tgt'[h] \in Ids
  <2>1. tgt' = tgt /\ pc' = [pc EXCEPT ![g] = "host"] /\ g \in Actors
        /\ "host" \in Label \ {"test", "sleep"}
    BY <1>6, KernelsAct DEF Alloc, Goto, Label
  <2> QED
    BY <1>1, <2>1
<1>7. ASSUME NEW k \in Kernels,
             \/ Search(k) \/ Pick(k) \/ Dispatch(k) \/ ReleaseAborted(k) \/ Released(k)
             \/ \E s \in {"READY", "WAITING", "FINISHED"} : Release(k, s)
      PROVE  tgt'[h] \in Ids
  <2>1. /\ tgt' = tgt \/ \E v : tgt' = [tgt EXCEPT ![k] = v]
        /\ pc' = pc \/ \E label \in Label \ {"test", "sleep"} : pc' = [pc EXCEPT ![k] = label]
    BY <1>7 DEF Search, Pick, Dispatch, ReleaseAborted, Released, Release, Change, Unlock, Goto, Label
  <2>2. k # h /\ k \in Actors
    BY KernelsAct
  <2>3. tgt'[h] = tgt[h]
    BY <1>0, <2>1, <2>2
  <2> QED
    BY <1>1, <2>1, <2>2, <2>3
<1>8. CASE HandleEvent
  BY <1>0, <1>3, <1>8 DEF HandleEvent
<1>9. CASE UNCHANGED vars
  BY <1>9 DEF vars, locals, Waits
<1> QED
  BY <1>2, <1>4, <1>5, <1>6, <1>7, <1>8, <1>9, StepKinds

\* A host thread that sleeps on a workload memory says is finished is woken
\* (kernel.c:547, 920; workload_queue.c:780): somebody still owes the
\* notification, unless the handler thread has ended.
THEOREM FinishReachesTheHost == Spec /\ AwaitsRuns => []FinishIsNotified
<1>1. Init => RInv /\ Waits /\ FinishedShown /\ FinishIsNotified
  <2> SUFFICES ASSUME Init PROVE RInv /\ Waits /\ FinishedShown /\ FinishIsNotified
    OBVIOUS
  <2>1. \A i \in Ids : lock[Block(i)] = NoActor
    BY IdTypes DEF Init, InitWith
  <2>2. \A h \in Hosts : pc[h] = "host"
    BY KernelsAct DEF Init, InitWith
  <2> QED
    BY <2>1, <2>2, RunsInit, ActorsAssumption
       DEF Waits, FinishedShown, Shown, FinishIsNotified
<1>2. IInv /\ RInv /\ Waits /\ FinishedShown /\ FinishIsNotified /\ [Next]_vars
      /\ [AwaitsRunsStep]_vars => (Waits /\ FinishedShown /\ FinishIsNotified)'
  <2> SUFFICES ASSUME IInv, RInv, Waits, FinishedShown, FinishIsNotified, [Next]_vars,
                      [AwaitsRunsStep]_vars
               PROVE  (Waits /\ FinishedShown /\ FinishIsNotified)'
    OBVIOUS
  <2>1. AwaitsRunsStep
    <3>1. pub' = pub => AwaitsRunsStep
      BY DEF AwaitsRunsStep
    <3> QED
      BY <3>1 DEF vars
  <2> QED
    BY <2>1, WaitsStep, ShownStep, NotifiedStep
<1> QED
  BY <1>1, <1>2, RunsStep, Invariant, PTL DEF Spec, AwaitsRuns

-----------------------------------------------------------------------------
(* Waiting for a workload of another block.                                *)

\* What workload i, waiting for one of another block, waits for has happened.
WakesAcross(i) ==
  /\ bits[i].state = "WAITING" /\ bits[i].wait_id # NoId
  /\ Block(bits[i].wait_id) # Block(i) /\ pub[bits[i].wait_id] = "FINISHED"

\* Kernel k has looked at workload i.
Past(k, i) ==
  \/ Block(i) \in Seen(k)
  \/ pc[k] = "searching" /\ blk[k] = Block(i) /\ i[2] < slot[k]
  \/ pc[k] = "unlock" /\ ret[k] = "scan" /\ blk[k] = Block(i)

\* Somebody writes the header yet, or some kernel has not looked at i yet.
Noticed ==
  \A i \in Ids : WakesAcross(i) =>
    \/ \E b \in Blocks : Written(b)
    \/ \E k \in Kernels : ~ (k \in fresh /\ Past(k, i))

\* a changes block b, and no other.
Touches(a, b) ==
  /\ lock[b] \in {NoActor, a}
  /\ \A x \in Actors : x # a => pc'[x] = pc[x]
  /\ \A c \in Blocks : c # b => lock'[c] = lock[c] /\ SameBlock(c)

LEMMA OnlyTouches ==
  ASSUME IInv, NEW a \in Actors, NEW i \in Ids, NEW new, NEW s, lock[Block(i)] = NoActor,
         bits' = [bits EXCEPT ![i] = new], pub' = pub \/ pub' = [pub EXCEPT ![i] = s],
         lock' = lock \/ lock' = [lock EXCEPT ![Block(i)] = a],
         pc' = pc \/ \E label : pc' = [pc EXCEPT ![a] = label]
  PROVE  Touches(a, Block(i))
<1>1. Block(i) \in Blocks /\ NoActor \notin Actors
  BY IdTypes, ActorsAssumption
<1>2. \A j \in Ids : j # i => bits'[j] = bits[j] /\ pub'[j] = pub[j]
  BY DEF IInv, TypeOK
<1>3. \A c \in Blocks : c # Block(i) => lock'[c] = lock[c] /\ SameBlock(c)
  BY <1>1, <1>2 DEF SameBlock, IdsOf, IInv, TypeOK
<1>4. \A x \in Actors : x # a => pc'[x] = pc[x]
  BY DEF IInv, TypeOK
<1> QED
  BY <1>1, <1>3, <1>4 DEF Touches

LEMMA ChangeTouches ==
  ASSUME IInv, NEW a \in Actors, NEW i \in Ids, NEW new, NEW label, NEW after,
         Change(a, i, new, label, after)
  PROVE  Touches(a, Block(i))
<1>1. /\ lock[Block(i)] = NoActor /\ bits' = [bits EXCEPT ![i] = new]
      /\ pub' = pub \/ pub' = [pub EXCEPT ![i] = new.state]
      /\ lock' = [lock EXCEPT ![Block(i)] = a] /\ pc' = [pc EXCEPT ![a] = label]
  BY DEF Change, Goto
<1> QED
  BY <1>1, OnlyTouches

LEMMA CallTouches ==
  ASSUME IInv, NEW a \in Actors, Calls(a)
  PROVE  \E b \in Blocks : Touches(a, b)
<1>1. PICK i \in Ids, new \in Bits : Altered(a, i, new)
  BY CallsAlter
<1>3. CASE Alteration(a, i, new)
  BY <1>3, ChangeTouches, IdTypes DEF Alteration
<1>4. CASE QuietAlteration(a, i, new)
  <2>1. /\ lock[Block(i)] = NoActor /\ bits' = [bits EXCEPT ![i] = new]
        /\ pub' = [pub EXCEPT ![i] = new.state] /\ UNCHANGED <<lock, pc>>
    BY <1>4 DEF QuietAlteration, ChangeOnly
  <2> QED
    BY <2>1, OnlyTouches, IdTypes
<1> QED
  BY <1>1, <1>3, <1>4 DEF Altered

LEMMA UnlockTouches ==
  ASSUME IInv, NEW a \in Actors,
         \/ CallDone(a) \/ CallDoneNotify(a)
         \/ a \in Kernels /\ (SearchDone(a) \/ Dispatch(a) \/ Released(a))
  PROVE  \E b \in Blocks : Touches(a, b)
<1>1. /\ pc[a] = "unlock" /\ bits' = bits /\ lock' = [lock EXCEPT ![blk[a]] = NoActor]
      /\ pub' = [i \in Ids |-> IF Block(i) = blk[a] THEN bits[i].state ELSE pub[i]]
      /\ \E label : pc' = [pc EXCEPT ![a] = label]
  BY DEF CallDone, CallDoneNotify, SearchDone, Dispatch, Released, Unlock, Goto
<1>2. PICK b \in Blocks : b = blk[a]
  BY <1>1 DEF IInv, Control, Located, Sections
<1>3. lock[b] = a
  BY <1>1, <1>2 DEF IInv, Owner, Sections
<1>4. \A c \in Blocks : c # b => lock'[c] = lock[c] /\ SameBlock(c)
  BY <1>1, <1>2 DEF SameBlock, IdsOf, IInv, TypeOK
<1>5. \A x \in Actors : x # a => pc'[x] = pc[x]
  BY <1>1 DEF IInv, TypeOK
<1> QED
  BY <1>1, <1>2, <1>3, <1>4, <1>5 DEF Touches

LEMMA KernelTouches ==
  ASSUME IInv, NEW k \in Kernels, Search(k) \/ Pick(k) \/ SearchLock(k)
  PROVE  \E b \in Blocks : Touches(k, b)
<1>1. /\ pc[k] \in {"search", "searching", "pick"} /\ k \in Actors /\ NoActor \notin Actors
      /\ pc' = pc \/ \E label : pc' = [pc EXCEPT ![k] = label]
      /\ pub' = pub /\ (lock' = lock \/ lock' = [lock EXCEPT ![blk[k]] = k])
      /\ lock[blk[k]] = NoActor \/ Search(k)
  BY KernelsAct, ActorsAssumption DEF Search, Pick, SearchLock, Goto
<1>2. PICK b \in Blocks : b = blk[k]
  BY <1>1 DEF IInv, Control, Located, Sections
<1>3. Search(k) => lock[b] = k
  BY <1>1, <1>2 DEF Search, IInv, Owner, Sections
<1>4. \A i \in Ids : Block(i) # b => bits'[i] = bits[i]
  <2>1. CASE Search(k)
    <3> DEFINE i == <<blk[k], slot[k]>>
    <3>1. i \in Ids /\ Block(i) = b
      BY <1>1, <1>2, <2>1, IdTypes DEF Search, IInv, Control
    <3>2. bits' = bits \/ \E v : bits' = [bits EXCEPT ![i] = v]
      BY <2>1 DEF Search
    <3> HIDE DEF i
    <3> QED
      BY <3>1, <3>2 DEF IInv, TypeOK
  <2>2. CASE Pick(k)
    BY <1>2, <2>2 DEF Pick, ReadyIn, IdsOf
  <2>3. CASE SearchLock(k)
    BY <2>3 DEF SearchLock
  <2> QED
    BY <2>1, <2>2, <2>3
<1>5. \A c \in Blocks : c # b => lock'[c] = lock[c] /\ SameBlock(c)
  BY <1>1, <1>2, <1>4 DEF SameBlock, IdsOf, IInv, TypeOK
<1>6. \A x \in Actors : x # k => pc'[x] = pc[x]
  BY <1>1 DEF IInv, TypeOK
<1> QED
  BY <1>1, <1>2, <1>3, <1>5, <1>6 DEF Touches, Sections

\* What the owner of a lock has is changed by its own steps only.
LEMMA LockHeld ==
  ASSUME IInv, [Next]_vars, NEW b \in Blocks, NEW w \in Actors, lock[b] = w
  PROVE  \/ lock'[b] = w /\ SameBlock(b) /\ pc'[w] = pc[w]
         \/ InSection(w)
         \/ w \in Kernels /\ (Search(w) \/ Dispatch(w) \/ Released(w))
<1>0. NoActor \notin Actors /\ pc[w] \in Sections /\ blk[w] = b
  BY ActorsAssumption DEF IInv, Owner
<1>1. ASSUME NEW a \in Actors, a # w, NEW c \in Blocks, Touches(a, c)
      PROVE  lock'[b] = w /\ SameBlock(b) /\ pc'[w] = pc[w]
  BY <1>0, <1>1 DEF Touches
<1>2. ASSUME UNCHANGED <<bits, pub, lock>>, pc'[w] = pc[w]
      PROVE  lock'[b] = w /\ SameBlock(b) /\ pc'[w] = pc[w]
  BY <1>2 DEF SameBlock
<1>3. ASSUME NEW a \in Actors, Calls(a)
      PROVE  lock'[b] = w /\ SameBlock(b) /\ pc'[w] = pc[w]
  <2>1. pc[a] \notin Sections
    BY <1>3, CallsAlter DEF Altered, Sections
  <2> QED
    BY <1>0, <1>1, <1>3, <2>1, CallTouches
<1>4. ASSUME NEW a \in Actors, Idles(a)
      PROVE  lock'[b] = w /\ SameBlock(b) /\ pc'[w] = pc[w]
  <2>1. UNCHANGED <<bits, pub, lock>>
    BY <1>4 DEF Idles, Notify, EndFails, Reserve, Scan, Choose, PickNothing, IdleWait,
       Wake, AddBegin, AllocNext, Exit, Test, Wait, locals
  <2>2. pc[a] \notin Sections
    BY <1>4, KernelsAct DEF Idles, Notify, EndFails, Reserve, Scan, Choose, PickNothing, IdleWait,
       Wake, AddBegin, AllocNext, Exit, Test, Wait, Caller, Sections
  <2>3. \/ pc' = pc \/ \E label : pc' = [pc EXCEPT ![a] = label]
        \/ \E label : pc' = Broadcast([pc EXCEPT ![a] = label])
    BY <1>4 DEF Idles, Notify, EndFails, Reserve, Scan, Choose, PickNothing, IdleWait,
       Wake, AddBegin, AllocNext, Exit, Test, Wait, locals, Goto
  <2>4. pc'[w] = pc[w]
    BY <1>0, <2>2, <2>3 DEF Broadcast, Sections, IInv, TypeOK
  <2> QED
    BY <1>2, <2>1, <2>4
<1>5. ASSUME NEW a \in Actors, a # w, InSection(a)
      PROVE  lock'[b] = w /\ SameBlock(b) /\ pc'[w] = pc[w]
  <2>1. CASE HeaderState(a) \/ (a \in Kernels /\ (HeaderReset(a) \/ HeaderAccess(a)))
    <3>1. UNCHANGED <<bits, pub, lock>> /\ \E label : pc' = [pc EXCEPT ![a] = label]
      BY <2>1 DEF HeaderState, HeaderReset, HeaderAccess, Goto
    <3>2. pc'[w] = pc[w]
      BY <1>5, <3>1 DEF IInv, TypeOK
    <3> QED
      BY <1>2, <3>1, <3>2
  <2> QED
    BY <1>1, <1>5, <2>1, UnlockTouches, KernelTouches DEF InSection
<1>6. ASSUME NEW k \in Kernels, k # w, Dispatch(k) \/ Released(k) \/ Search(k)
      PROVE  lock'[b] = w /\ SameBlock(b) /\ pc'[w] = pc[w]
  BY <1>1, <1>6, UnlockTouches, KernelTouches, KernelsAct
<1>7. ASSUME NEW k \in Kernels, Pick(k)
      PROVE  lock'[b] = w /\ SameBlock(b) /\ pc'[w] = pc[w]
  <2>1. k # w
    BY <1>0, <1>7 DEF Pick, Sections
  <2> QED
    BY <1>1, <1>7, <2>1, KernelTouches, KernelsAct
<1>8. ASSUME NEW k \in Kernels, NEW s \in {"READY", "WAITING", "FINISHED"}, Release(k, s)
      PROVE  lock'[b] = w /\ SameBlock(b) /\ pc'[w] = pc[w]
  <2>1. k # w /\ pc[k] = "run" /\ k \in Actors
    BY <1>0, <1>8, KernelsAct DEF Release, Sections
  <2>2. cur[k].id \in Ids
    BY <2>1 DEF IInv, Control, Run
  <2>3. Touches(k, Block(cur[k].id))
    BY <1>8, <2>1, <2>2, ChangeTouches DEF Release
  <2> QED
    BY <1>1, <2>1, <2>2, <2>3, IdTypes
<1>9. ASSUME NEW k \in Kernels, ReleaseAborted(k)
      PROVE  lock'[b] = w /\ SameBlock(b) /\ pc'[w] = pc[w]
  <2>1. /\ UNCHANGED <<bits, pub, lock>> /\ pc[k] = "run" /\ pc' = [pc EXCEPT ![k] = "reserve"]
    BY <1>9 DEF ReleaseAborted, Goto
  <2>2. pc'[w] = pc[w]
    BY <1>0, <2>1 DEF Sections, IInv, TypeOK
  <2> QED
    BY <1>2, <2>1, <2>2
<1>10. ASSUME NEW h \in Hosts, Alloc(h)
       PROVE  lock'[b] = w /\ SameBlock(b) /\ pc'[w] = pc[w]
  <2>1. h # w /\ h \in Actors
    BY <1>0, <1>10, KernelsAct DEF Alloc, Sections
  <2>2. PICK i \in Ids : /\ bits' = [bits EXCEPT ![i] = [bits[i] EXCEPT !.state = "ADDING"]]
                         /\ pub' = [pub EXCEPT ![i] = "ADDING"] /\ lock[Block(i)] = NoActor
    BY <1>10, KernelsAct, IdTypes DEF Alloc, IInv, Control, Located, Sections
  <2>3. lock' = lock /\ pc' = [pc EXCEPT ![h] = "host"]
    BY <1>10 DEF Alloc, Goto
  <2>4. Touches(h, Block(i))
    BY <2>1, <2>2, <2>3, OnlyTouches
  <2> QED
    BY <1>1, <2>1, <2>4, IdTypes
<1>11. CASE HandleEvent
  <2>1. UNCHANGED <<bits, pub, lock>> /\ pc' = Broadcast(pc)
    BY <1>11 DEF HandleEvent
  <2>2. pc'[w] = pc[w]
    BY <1>0, <2>1 DEF Broadcast, Sections
  <2> QED
    BY <1>2, <2>1, <2>2
<1>12. CASE UNCHANGED vars
  BY <1>2, <1>12 DEF vars, locals
<1> QED
  BY <1>3, <1>4, <1>5, <1>6, <1>7, <1>8, <1>9, <1>10, <1>11, <1>12, StepKinds

\* What is going to be written in the header is, and ends every kernel's copy
\* being current.
LEMMA WrittenKept ==
  ASSUME IInv, [Next]_vars, NEW b \in Blocks, Written(b), fresh' # {}
  PROVE  Written(b)'
<1>1. PICK w \in Actors : lock[b] = w
  BY DEF Written, IInv, TypeOK
<1>2. /\ \/ pc[w] \in {"hdr_reset", "hdr_state", "hdr_access"}
         \/ pc[w] = "searching" /\ Found(b, bits)
      /\ NoActor \notin Actors /\ blk[w] = b
  BY <1>1, ActorsAssumption DEF Written, IInv, Owner
<1>3. CASE lock'[b] = w /\ SameBlock(b) /\ pc'[w] = pc[w]
  <2>1. Found(b, bits)' <=> Found(b, bits)
    BY <1>3, SameWork
  <2> QED
    BY <1>2, <1>3, <2>1 DEF Written
<1>4. CASE InSection(w) \/ (w \in Kernels /\ (Dispatch(w) \/ Released(w)))
  <2>1. fresh' = {}
    BY <1>2, <1>4 DEF InSection, HeaderState, HeaderReset, HeaderAccess, WriteHeader, CallDone,
       CallDoneNotify, SearchLock, SearchDone, Dispatch, Released, Unlock
  <2> QED
    BY <2>1
<1>5. CASE w \in Kernels /\ Search(w)
  <2>1. pc[w] = "searching" /\ Found(b, bits) /\ lock' = lock /\ pub' = pub
    BY <1>2, <1>5 DEF Search
  <2>2. PICK j \in IdsOf(b) : bits[j].state # pub[j]
    BY <2>1 DEF Found
  <2>3. bits[j].state = "READY" /\ j \in Ids
    BY <1>1, <2>1, <2>2 DEF IInv, Published, IdsOf
  <2>4. bits'[j] = bits[j]
    <3> DEFINE i == <<blk[w], slot[w]>>
    <3>1. i \in Ids
      BY <1>2, <1>5, <2>1, IdTypes DEF IInv, Control
    <3>2. bits' = bits \/ (bits' = [bits EXCEPT ![i] = Woken(bits[i])] /\ bits[i].state = "WAITING")
      BY <1>5 DEF Search, Wakeable
    <3> HIDE DEF i
    <3> QED
      BY <2>3, <3>1, <3>2 DEF IInv, TypeOK
  <2>5. Found(b, bits')
    BY <2>1, <2>2, <2>4 DEF Found
  <2>6. Found(b, bits)' = Found(b, bits')
    BY <2>1 DEF Found
  <2>7. pc'[w] \in {"searching", "hdr_state"}
    BY <1>2, <1>5, <2>1, <2>5 DEF Search, Goto, IInv, TypeOK
  <2> QED
    BY <1>1, <1>2, <2>1, <2>5, <2>6, <2>7 DEF Written
<1> QED
  BY <1>1, <1>3, <1>4, <1>5, LockHeld

\* Kernel k's place in its main loop is changed by its own steps only.
LEMMA OwnSteps ==
  ASSUME IInv, [Next]_vars, NEW k \in Kernels
  PROVE  \/ SameWatcher(k)
         \/ Calls(k) \/ Idles(k) \/ InSection(k)
         \/ Search(k) \/ Pick(k) \/ Dispatch(k) \/ ReleaseAborted(k) \/ Released(k)
         \/ \E s \in {"READY", "WAITING", "FINISHED"} : Release(k, s)
<1>0. /\ pc \in [Actors -> Label] /\ ret \in [Actors -> After] /\ blk \in [Actors -> 0 .. NumBlocks]
      /\ view \in [Kernels -> Header \union {NoView}] /\ slot \in [Kernels -> 0 .. PerBlock]
      /\ k \in Actors
  BY KernelsAct DEF IInv, TypeOK
<1>1. ASSUME NEW a \in Actors, a # k,
             \/ pc' = pc \/ \E v : pc' = [pc EXCEPT ![a] = v]
             \/ \E v : pc' = Broadcast([pc EXCEPT ![a] = v]),
             ret' = ret \/ \E v : ret' = [ret EXCEPT ![a] = v],
             blk' = blk \/ \E v : blk' = [blk EXCEPT ![a] = v],
             view' = view \/ \E v : view' = [view EXCEPT ![a] = v],
             slot' = slot \/ \E v : slot' = [slot EXCEPT ![a] = v]
      PROVE  SameWatcher(k)
  BY <1>0, <1>1 DEF SameWatcher, Broadcast
<1>2. ASSUME NEW a \in Actors, a # k, Calls(a) PROVE SameWatcher(k)
  <2>1. PICK i \in Ids, new \in Bits : Altered(a, i, new)
    BY <1>2, CallsAlter
  <2> QED
    BY <1>1, <1>2, <2>1 DEF Altered, Alteration, QuietAlteration, Change, ChangeOnly, Goto
<1>3. ASSUME NEW a \in Actors, a # k, Idles(a) PROVE SameWatcher(k)
  <2>1. CASE Notify(a)
    BY <1>1, <1>3, <2>1 DEF Notify, Goto
  <2>2. CASE EndFails(a)
    BY <1>1, <1>3, <2>2 DEF EndFails
  <2>3. CASE a \in Kernels /\ Reserve(a)
    BY <1>1, <1>3, <2>3 DEF Reserve, Goto
  <2>4. CASE a \in Kernels /\ Scan(a)
    BY <1>1, <1>3, <2>4 DEF Scan, Goto, WriteHeader
  <2>5. CASE a \in Kernels /\ (Choose(a) \/ PickNothing(a) \/ IdleWait(a) \/ Wake(a))
    BY <1>1, <1>3, <2>5 DEF Choose, PickNothing, IdleWait, Wake, Goto
  <2>6. CASE a \in Hosts /\ (AddBegin(a) \/ AllocNext(a) \/ Exit(a) \/ Test(a))
    BY <1>1, <1>3, <2>6 DEF AddBegin, AllocNext, Exit, Test, Goto, locals
  <2>7. CASE a \in Hosts /\ \E i \in Ids : Wait(a, i)
    BY <1>1, <1>3, <2>7 DEF Wait, Goto
  <2> QED
    BY <1>3, <2>1, <2>2, <2>3, <2>4, <2>5, <2>6, <2>7 DEF Idles
<1>4. ASSUME NEW a \in Actors, a # k, InSection(a) PROVE SameWatcher(k)
  <2>1. CASE HeaderState(a) \/ (a \in Kernels /\ (HeaderReset(a) \/ HeaderAccess(a)))
    BY <1>1, <1>4, <2>1 DEF HeaderState, HeaderReset, HeaderAccess, WriteHeader, Goto
  <2>2. CASE CallDone(a) \/ CallDoneNotify(a)
    BY <1>1, <1>4, <2>2 DEF CallDone, CallDoneNotify, Unlock, Goto
  <2>3. CASE a \in Kernels /\ (SearchLock(a) \/ SearchDone(a))
    BY <1>1, <1>4, <2>3 DEF SearchLock, SearchDone, Unlock, Goto
  <2> QED
    BY <1>4, <2>1, <2>2, <2>3 DEF InSection
<1>5. ASSUME NEW h \in Hosts, Alloc(h) PROVE SameWatcher(k)
  BY <1>1, <1>5, KernelsAct DEF Alloc, Goto
<1>6. ASSUME NEW j \in Kernels, j # k, Search(j) \/ Pick(j) \/ ReleaseAborted(j)
      PROVE  SameWatcher(k)
  BY <1>1, <1>6, KernelsAct DEF Search, Pick, ReleaseAborted, Goto
<1>7. ASSUME NEW j \in Kernels, j # k, Dispatch(j) \/ Released(j) PROVE SameWatcher(k)
  BY <1>1, <1>7, KernelsAct DEF Dispatch, Released, Unlock, Goto
<1>8. ASSUME NEW j \in Kernels, j # k, NEW s \in {"READY", "WAITING", "FINISHED"}, Release(j, s)
      PROVE  SameWatcher(k)
  BY <1>1, <1>8, KernelsAct DEF Release, Change, Goto
<1>9. HandleEvent => SameWatcher(k)
  BY <1>0 DEF HandleEvent, Broadcast, SameWatcher
<1>10. UNCHANGED vars => SameWatcher(k)
  BY DEF vars, locals, SameWatcher
<1> QED
  BY <1>2, <1>3, <1>4, <1>5, <1>6, <1>7, <1>8, <1>9, <1>10, <1>0, StepKinds

\* A kernel that has looked at workload i is still on its round of the blocks.
LEMMA PastWhere ==
  ASSUME NEW k \in Kernels, NEW i \in Ids, Past(k, i)'
  PROVE  pc'[k] \in {"idle", "asleep", "scan", "search", "searching"} \/ ret'[k] = "scan"
BY DEF Past, Seen

LEMMA ScanPasses ==
  ASSUME IInv, AllWatch, NEW k \in fresh, NEW i \in Ids, bits[i].state = "WAITING",
         Scan(k), Past(k, i)', k \in fresh'
  PROVE  Past(k, i) \/ Written(Block(i))
<1>1. /\ k \in Kernels /\ k \in Actors /\ pc[k] = "scan" /\ blk[k] < NumBlocks
      /\ view[k] = hdr /\ ret' = ret /\ ret[k] = "none" /\ UNCHANGED <<bits, pub, lock>>
  <2>1. k \in Kernels /\ k \in Actors /\ pc[k] = "scan" /\ blk[k] < NumBlocks /\ ret' = ret
        /\ UNCHANGED <<bits, pub, lock>>
    BY KernelsAct DEF Scan, IInv, TypeOK
  <2>2. view[k] \in Header /\ Watching(k) /\ ret[k] = "none"
    BY <2>1 DEF IInv, Control, AllWatch, Sections
  <2> QED
    BY <2>1, <2>2, NullsAssumption DEF Watching
<1>2. PICK b \in Blocks : b = blk[k]
  <2>1. blk[k] \in 0 .. NumBlocks
    BY <1>1 DEF IInv, TypeOK
  <2> QED
    BY <1>1, <2>1, SizesAssumption DEF Blocks
<1>3. CASE hdr[b].waiting
  <2>1. pc' = [pc EXCEPT ![k] = "search"] /\ blk' = blk
    BY <1>1, <1>2, <1>3 DEF Scan, Goto
  <2>2. pc'[k] = "search"
    BY <1>1, <2>1 DEF IInv, TypeOK
  <2> QED
    BY <1>1, <2>1, <2>2 DEF Past, Seen
<1>4. CASE ~ hdr[b].waiting
  <2>1. pc' = pc /\ blk' = [blk EXCEPT ![k] = b + 1]
    BY <1>1, <1>2, <1>4 DEF Scan
  <2>2. blk'[k] = b + 1
    BY <1>1, <2>1 DEF IInv, TypeOK
  <2>3. Block(i) < b + 1 /\ Block(i) \in Blocks
    BY <1>1, <2>1, <2>2, IdTypes DEF Past, Seen
  <2>4. Block(i) < b \/ Block(i) = b
    BY <2>3, SizesAssumption DEF Blocks
  <2>5. CASE Block(i) < b
    BY <1>1, <1>2, <2>3, <2>5 DEF Past, Seen
  <2>6. CASE Block(i) = b
    <3>1. i \in WaitingIn(b)
      BY <2>6 DEF WaitingIn, IdsOf
    <3>2. Pending(b)
      BY <1>4, <3>1 DEF IInv, AllSummarised, Summarised
    <3> QED
      BY <2>6, <3>2 DEF Pending, Written
  <2> QED
    BY <2>4, <2>5, <2>6
<1> QED
  BY <1>3, <1>4

\* A round of the blocks starts with none of them passed.
LEMMA ReserveStarts ==
  ASSUME IInv, NEW k \in Kernels, NEW i \in Ids, Reserve(k)
  PROVE  ~ Past(k, i)'
<1> SUFFICES ASSUME Past(k, i)' PROVE FALSE
  OBVIOUS
<1>1. /\ ret' = ret /\ pc[k] = "reserve" /\ k \in Actors
      /\ \/ pc' = [pc EXCEPT ![k] = "exited"]
         \/ pc' = [pc EXCEPT ![k] = "scan"] /\ blk' = [blk EXCEPT ![k] = 0]
  BY KernelsAct DEF Reserve, Goto
<1>2. ret'[k] = "none"
  BY <1>1 DEF IInv, Control, Sections
<1>3. pc'[k] = "scan" /\ blk'[k] = 0
  BY <1>1, <1>2, PastWhere DEF IInv, TypeOK
<1>4. Block(i) < 0
  BY <1>2, <1>3 DEF Past, Seen
<1> QED
  BY <1>4, IdTypes, SizesAssumption DEF Blocks

\* A search that comes to a workload that can be made ready makes it so.
LEMMA SearchPasses ==
  ASSUME IInv, NEW k \in Kernels, NEW i \in Ids, WakesAcross(i), WakesAcross(i)',
         Search(k), Past(k, i)'
  PROVE  Past(k, i)
<1>1. /\ pc[k] = "searching" /\ k \in Actors /\ UNCHANGED <<pub, lock, ret, blk>>
  BY KernelsAct DEF Search
<1>2. PICK b \in Blocks, s \in Slots : b = blk[k] /\ s = slot[k]
  BY <1>1 DEF IInv, Control, Located, Sections
<1>3. i # <<b, s>>
  <2> SUFFICES ASSUME i = <<b, s>> PROVE FALSE
    OBVIOUS
  <2>1. Block(i) = b
    BY IdTypes
  <2>2. Wakeable(b, bits[i])
    BY <2>1 DEF WakesAcross, Wakeable, StateSeen
  <2>3. bits' = [bits EXCEPT ![i] = Woken(bits[i])]
    BY <1>2, <2>2 DEF Search
  <2>4. bits'[i].state = "READY"
    BY <2>3, WokenType DEF IInv, TypeOK
  <2> QED
    BY <2>4 DEF WakesAcross
<1>4. i = <<i[1], i[2]>> /\ i[2] \in Slots /\ Block(i) = i[1]
  BY DEF Ids, Block
<1>5. \/ s < PerBlock /\ slot' = [slot EXCEPT ![k] = s + 1] /\ pc' = pc
      \/ /\ ~ (s < PerBlock)
         /\ \E label \in {"hdr_state", "unlock"} : pc' = [pc EXCEPT ![k] = label]
  BY <1>2 DEF Search, Goto
<1>6. CASE s < PerBlock /\ slot' = [slot EXCEPT ![k] = s + 1] /\ pc' = pc
  <2>1. slot'[k] = s + 1
    BY <1>6 DEF IInv, TypeOK
  <2>2. Block(i) \in Seen(k) \/ (blk[k] = Block(i) /\ i[2] < s + 1)
    BY <1>1, <1>6, <2>1 DEF Past, Seen
  <2>3. i[2] < s + 1 /\ Block(i) = b => i[2] < s
    BY <1>3, <1>4, SizesAssumption DEF Slots
  <2> QED
    BY <1>1, <1>2, <2>2, <2>3 DEF Past
<1>7. CASE ~ (s < PerBlock) /\ \E label \in {"hdr_state", "unlock"} : pc' = [pc EXCEPT ![k] = label]
  <2>1. pc'[k] \in {"hdr_state", "unlock"}
    BY <1>1, <1>7 DEF IInv, TypeOK
  <2>2. Seen(k)' = Seen(k)
    BY <1>1, <2>1 DEF Seen
  <2>3. Block(i) \in Seen(k) \/ blk[k] = Block(i)
    BY <1>1, <2>1, <2>2 DEF Past
  <2>4. Block(i) = b => i[2] < s
    BY <1>3, <1>4, <1>7, SizesAssumption DEF Slots
  <2> QED
    BY <1>1, <1>2, <2>3, <2>4 DEF Past
<1> QED
  BY <1>5, <1>6, <1>7

\* A kernel passes workload i, which can be made ready, only when the header is
\* about to show it.
LEMMA PassesNone ==
  ASSUME IInv, AllWatch, [Next]_vars, NEW k \in fresh, k \in fresh', NEW i \in Ids,
         WakesAcross(i), WakesAcross(i)', Past(k, i)'
  PROVE  Past(k, i) \/ Written(Block(i))
<1>0. /\ k \in Kernels /\ k \in Actors /\ pc \in [Actors -> Label] /\ ret \in [Actors -> After]
      /\ blk \in [Actors -> 0 .. NumBlocks] /\ slot \in [Kernels -> 0 .. PerBlock]
      /\ Block(i) \in Blocks /\ i[2] \in Slots
      /\ ret[k] = "none" <=> pc[k] \notin Sections
  BY KernelsAct, IdTypes DEF IInv, TypeOK, Control, Ids
<1>1. pc'[k] \in {"idle", "asleep", "scan", "search", "searching"} \/ ret'[k] = "scan"
  BY <1>0, PastWhere
<1>2. CASE SameWatcher(k)
  <2>1. pc[k] = "sleep" => ret[k] # "scan"
    BY <1>0 DEF Sections
  <2>2. pc'[k] = pc[k]
    BY <1>1, <1>2, <2>1 DEF SameWatcher
  <2> QED
    BY <1>2, <2>2 DEF Past, Seen, SameWatcher
<1>3. CASE Calls(k)
  <2>1. PICK j \in Ids, new \in Bits : Altered(k, j, new)
    BY <1>0, <1>3, CallsAlter
  <2>2. pc[k] = "run" /\ ret[k] = "none"
    BY <1>0, <2>1 DEF Altered, Sections
  <2>3. \/ pc' = pc /\ ret' = ret
        \/ \E label \in {"hdr_state", "hdr_access"}, after \in {"call", "notify"} :
             pc' = [pc EXCEPT ![k] = label] /\ ret' = [ret EXCEPT ![k] = after]
    BY <2>1 DEF Altered, Alteration, QuietAlteration, Change, ChangeOnly, Goto
  <2>4. pc'[k] \in {"run", "hdr_state", "hdr_access"} /\ ret'[k] # "scan"
    BY <1>0, <2>2, <2>3
  <2> QED
    BY <1>1, <2>4
<1>4. CASE Idles(k)
  <2>1. CASE Scan(k)
    BY <2>1, ScanPasses DEF WakesAcross
  <2>2. CASE Choose(k)
    <3>1. /\ pc[k] = "scan" /\ blk[k] = NumBlocks
      BY <2>2 DEF Choose
    <3> QED
      BY <1>0, <3>1, SizesAssumption DEF Past, Seen, Blocks
  <2>3. CASE IdleWait(k)
    BY <1>0, <2>3 DEF IdleWait, Past, Seen
  <2>4. CASE Notify(k) \/ PickNothing(k) \/ Wake(k)
    <3>1. /\ ret' = ret /\ pc[k] \notin Sections
          /\ \E label \in {"run", "reserve"} : pc' = [pc EXCEPT ![k] = label]
      BY <1>0, <2>4 DEF Notify, PickNothing, Wake, Goto, Sections
    <3> QED
      BY <1>0, <1>1, <3>1
  <2>5. CASE EndFails(k)
    <3>1. ret' = ret /\ pc' = pc /\ pc[k] = "run"
      BY <1>0, <2>5 DEF EndFails
    <3> QED
      BY <1>0, <1>1, <3>1 DEF Sections
  <2>6. CASE Reserve(k)
    BY <1>0, <2>6, ReserveStarts
  <2> QED
    BY <1>0, <1>4, <2>1, <2>2, <2>3, <2>4, <2>5, <2>6, KernelsAct DEF Idles
<1>5. CASE InSection(k)
  <2>1. CASE HeaderState(k) \/ HeaderReset(k) \/ HeaderAccess(k)
    BY <2>1 DEF HeaderState, HeaderReset, HeaderAccess, WriteHeader
  <2>2. CASE CallDone(k) \/ CallDoneNotify(k)
    <3>1. \E label \in {"run", "notify"} : pc' = [pc EXCEPT ![k] = label] /\ ret' = [ret EXCEPT ![k] = "none"]
      BY <1>0, <2>2 DEF CallDone, CallDoneNotify, Unlock, Goto
    <3> QED
      BY <1>0, <1>1, <3>1
  <2>3. CASE SearchLock(k)
    <3>1. /\ pc[k] = "search" /\ pc'[k] = "searching" /\ slot'[k] = 1 /\ ret'[k] = "scan"
          /\ blk' = blk
      BY <1>0, <2>3 DEF SearchLock, Goto
    <3>2. Seen(k)' = Seen(k)
      BY <3>1 DEF Seen
    <3>3. ~ (i[2] < 1)
      BY <1>0, SizesAssumption DEF Slots
    <3> QED
      BY <3>1, <3>2, <3>3 DEF Past
  <2>4. CASE SearchDone(k)
    <3>1. /\ ret[k] = "scan" /\ pc[k] = "unlock" /\ pc'[k] = "scan" /\ blk'[k] = blk[k] + 1
          /\ ret'[k] = "none"
      BY <1>0, <2>4 DEF SearchDone, Unlock, Goto
    <3>2. Block(i) < blk[k] + 1
      BY <3>1 DEF Past, Seen
    <3>3. Block(i) < blk[k] \/ Block(i) = blk[k]
      BY <1>0, <3>2, SizesAssumption DEF Blocks
    <3> QED
      BY <1>0, <3>1, <3>3 DEF Past, Seen
  <2> QED
    BY <1>5, <2>1, <2>2, <2>3, <2>4 DEF InSection
<1>6. CASE Search(k)
  BY <1>0, <1>6, SearchPasses
<1>7. CASE Pick(k) \/ Dispatch(k) \/ Released(k) \/ \E s \in {"READY", "WAITING", "FINISHED"} : Release(k, s)
  <2>1. \E label \in {"hdr_reset", "run", "notify", "reserve", "hdr_state"}, r \in {"dispatch", "none", "release"} :
           pc' = [pc EXCEPT ![k] = label] /\ ret' = [ret EXCEPT ![k] = r]
    BY <1>7 DEF Pick, Dispatch, Released, Release, Change, Unlock, Goto
  <2> QED
    BY <1>0, <1>1, <2>1
<1>8. CASE ReleaseAborted(k)
  <2>1. pc' = [pc EXCEPT ![k] = "reserve"] /\ ret' = ret /\ pc[k] = "run"
    BY <1>8 DEF ReleaseAborted, Goto
  <2> QED
    BY <1>0, <1>1, <2>1 DEF Sections
<1> QED
  BY <1>0, <1>2, <1>3, <1>4, <1>5, <1>6, <1>7, <1>8, OwnSteps

\* Memory shows a finished workload without a header written only at an unlock,
\* and the kernel that unlocks goes on to notify the host.
LEMMA FinishNoticed ==
  ASSUME IInv, FinishedShown, NEW a \in Actors, NEW j \in Ids,
         \/ CallDone(a) \/ CallDoneNotify(a)
         \/ a \in Kernels /\ (SearchDone(a) \/ Dispatch(a) \/ Released(a)),
         pub[j] \notin {"FINISHED", "SCHEDULING"}, pub'[j] = "FINISHED"
  PROVE  a \in Kernels /\ pc'[a] = "notify" /\ ret'[a] = "none"
<1>1. /\ pc[a] = "unlock" /\ ret[a] \in {"call", "notify", "scan", "dispatch", "release"}
      /\ pub' = [i \in Ids |-> IF Block(i) = blk[a] THEN bits[i].state ELSE pub[i]]
      /\ ret' = [ret EXCEPT ![a] = "none"]
  BY DEF CallDone, CallDoneNotify, SearchDone, Dispatch, Released, Unlock
<1>2. Block(j) = blk[a] /\ bits[j].state = "FINISHED"
  BY <1>1
<1>3. lock[Block(j)] = a
  BY <1>1, <1>2, IdTypes DEF IInv, Owner, Sections
<1>4. a \in Kernels /\ (ret[a] = "notify" \/ (ret[a] = "release" /\ cur[a].id = j))
  BY <1>2, <1>3 DEF FinishedShown, Shown
<1>5. pc' = [pc EXCEPT ![a] = "notify"]
  BY <1>2, <1>4 DEF CallDone, CallDoneNotify, SearchDone, Dispatch, Released, Unlock, Goto
<1> QED
  BY <1>1, <1>4, <1>5 DEF IInv, TypeOK

\* What workload i waits for in another block happens.
LEMMA NewWake ==
  ASSUME IInv, RInv, OwnRuns, FinishedShown, AwaitsRunsStep, [Next]_vars, NEW i \in Ids,
         ~ WakesAcross(i), WakesAcross(i)'
  PROVE  \/ \E b \in Blocks : Written(b)'
         \/ \E k \in Kernels : pc'[k] = "notify" /\ ret'[k] = "none"
<1>0. /\ bits \in [Ids -> Bits] /\ pub \in [Ids -> State] /\ NoActor \notin Actors
      /\ lock \in [Blocks -> Actors \union {NoActor}] /\ pc \in [Actors -> Label]
  BY ActorsAssumption DEF IInv, TypeOK
<1>1. PICK j : j = bits'[i].wait_id
  OBVIOUS
<1>2. /\ bits'[i].state = "WAITING" /\ bits'[i].wait_id = j /\ j # NoId
      /\ Block(j) # Block(i) /\ pub'[j] = "FINISHED"
  BY <1>1 DEF WakesAcross
<1>3. bits[i].state = "WAITING" /\ bits[i].wait_id = j =>
        j \in Ids /\ pub[j] # "FINISHED" /\ pub[j] \notin {"ADDING", "REMOVING", "SCHEDULING"}
  <2> SUFFICES ASSUME bits[i].state = "WAITING", bits[i].wait_id = j
               PROVE  j \in Ids /\ pub[j] # "FINISHED" /\ pub[j] \notin {"ADDING", "REMOVING", "SCHEDULING"}
    OBVIOUS
  <2>1. j \in Ids
    BY <1>0, <1>2 DEF Bits
  <2>2. pub[j] # "FINISHED"
    BY <1>2 DEF WakesAcross
  <2>3. ~ NobodyAwaits(j)
    BY DEF NobodyAwaits
  <2> QED
    BY <1>2, <2>1, <2>2, <2>3 DEF AwaitsRunsStep
<1>4. ASSUME bits' = bits, pub' = pub PROVE FALSE
  BY <1>2, <1>3, <1>4
<1>5. ASSUME NEW a \in Actors, NEW l \in Ids, NEW new, NEW label \in {"hdr_state", "hdr_access"},
             NEW after, Change(a, l, new, label, after)
      PROVE  \E b \in Blocks : Written(b)'
  <2>1. lock' = [lock EXCEPT ![Block(l)] = a] /\ pc' = [pc EXCEPT ![a] = label]
    BY <1>5 DEF Change, Goto
  <2>2. Block(l) \in Blocks
    BY IdTypes
  <2>3. lock'[Block(l)] = a /\ pc'[a] = label
    BY <1>0, <2>1, <2>2
  <2>4. Written(Block(l))'
    BY <1>0, <2>3 DEF Written, Block
  <2> QED
    BY <2>2, <2>4
<1>6. ASSUME NEW a \in Actors, Calls(a) PROVE \E b \in Blocks : Written(b)'
  <2>1. PICK l \in Ids, new \in Bits : Altered(a, l, new)
    BY <1>6, CallsAlter
  <2>2. CASE Alteration(a, l, new)
    BY <1>5, <2>2 DEF Alteration
  <2>3. CASE QuietAlteration(a, l, new)
    <3>1. /\ lock[Block(l)] = NoActor /\ bits' = [bits EXCEPT ![l] = new]
          /\ pub' = [pub EXCEPT ![l] = new.state]
      BY <2>3 DEF QuietAlteration, ChangeOnly
    <3>2. new.state \notin {"READY", "WAITING"}
      <4>1. CASE a \in Kernels
        <5>1. pc[a] = "run"
          BY <2>1, <4>1 DEF Altered
        <5>2. On(a) = l /\ On(a) # NoId /\ new.state = bits[l].state
          BY <2>3, <4>1, <5>1, OnTypes DEF QuietAlteration
        <5> QED
          BY <4>1, <5>2 DEF OwnRuns
      <4>2. CASE a \in Hosts
        BY <2>1, <2>3, <4>2 DEF Altered, Alters, QuietAlteration, Lifecycle!Allowed
      <4> QED
        BY <4>1, <4>2, KernelsAct
    <3>3. bits'[i] = bits[i] /\ pub[l] = bits[l].state
      BY <1>0, <1>2, <3>1, <3>2 DEF IInv, Published
    <3>4. j = l /\ new.state = "FINISHED"
      BY <1>0, <1>2, <1>3, <3>1, <3>3
    <3>5. bits[l].state \notin {"FINISHED", "ADDING", "REMOVING", "SCHEDULING"}
      BY <1>2, <1>3, <3>3, <3>4
    <3> QED
      BY <2>3, <3>4, <3>5, KernelsAct DEF QuietAlteration
  <2> QED
    BY <2>1, <2>2, <2>3 DEF Altered
<1>7. ASSUME NEW a \in Actors, Idles(a) PROVE FALSE
  BY <1>4, <1>7 DEF Idles, Notify, EndFails, Reserve, Scan, Choose, PickNothing, IdleWait,
     Wake, AddBegin, AllocNext, Exit, Test, Wait, locals
<1>8. ASSUME NEW a \in Actors,
             InSection(a) \/ (a \in Kernels /\ (Dispatch(a) \/ Released(a)))
      PROVE  a \in Kernels /\ pc'[a] = "notify" /\ ret'[a] = "none"
  <2>1. CASE HeaderState(a) \/ (a \in Kernels /\ (HeaderReset(a) \/ HeaderAccess(a) \/ SearchLock(a)))
    BY <1>4, <2>1 DEF HeaderState, HeaderReset, HeaderAccess, SearchLock
  <2>2. CASE \/ CallDone(a) \/ CallDoneNotify(a)
             \/ a \in Kernels /\ (SearchDone(a) \/ Dispatch(a) \/ Released(a))
    <3>1. bits' = bits
      BY <2>2 DEF CallDone, CallDoneNotify, SearchDone, Dispatch, Released, Unlock
    <3>2. j \in Ids /\ pub[j] \notin {"FINISHED", "SCHEDULING"}
      BY <1>2, <1>3, <3>1
    <3> QED
      BY <1>2, <2>2, <3>2, FinishNoticed
  <2> QED
    BY <1>8, <2>1, <2>2 DEF InSection
<1>9. ASSUME NEW h \in Hosts, Alloc(h) PROVE FALSE
  <2>1. PICK l \in Ids : /\ bits' = [bits EXCEPT ![l] = [bits[l] EXCEPT !.state = "ADDING"]]
                         /\ pub' = [pub EXCEPT ![l] = "ADDING"]
    BY <1>9, KernelsAct, IdTypes DEF Alloc, IInv, Control, Located, Sections
  <2>2. [bits[l] EXCEPT !.state = "ADDING"].state = "ADDING"
    BY <1>0, BitsTypes, StateNames
  <2>3. bits'[i] = bits[i]
    BY <1>0, <1>2, <2>1, <2>2
  <2> QED
    BY <1>0, <1>2, <1>3, <2>1, <2>3
<1>10. ASSUME NEW k \in Kernels, Search(k) PROVE FALSE
  <2>1. /\ pub' = pub
        /\ \/ bits' = bits
           \/ bits' = [bits EXCEPT ![<<blk[k], slot[k]>>] = Woken(bits[<<blk[k], slot[k]>>])]
    BY <1>10 DEF Search
  <2>2. <<blk[k], slot[k]>> \in Ids
    BY <1>10, KernelsAct, IdTypes DEF Search, IInv, Control, Located, Sections
  <2>3. bits'[i] = bits[i]
    BY <1>0, <1>2, <2>1, <2>2, WokenType
  <2> QED
    BY <1>2, <1>3, <2>1, <2>3
<1>11. ASSUME NEW k \in Kernels, Pick(k) PROVE FALSE
  <2>1. pub' = pub
    BY <1>11 DEF Pick
  <2>2. bits'[i] \in {bits[i], [bits[i] EXCEPT !.state = "RUNNING", !.counter = 0],
                      [bits[i] EXCEPT !.counter = Aged(@, COUNTER_MAX)]}
    BY <1>11 DEF Pick
  <2>3. bits'[i].state = bits[i].state /\ bits'[i].wait_id = bits[i].wait_id
    <3>1. bits[i] \in Bits
      BY <1>0
    <3>2. /\ [bits[i] EXCEPT !.state = "RUNNING", !.counter = 0].state = "RUNNING"
          /\ [bits[i] EXCEPT !.counter = Aged(@, COUNTER_MAX)].state = bits[i].state
          /\ [bits[i] EXCEPT !.counter = Aged(@, COUNTER_MAX)].wait_id = bits[i].wait_id
      BY <3>1 DEF Bits
    <3> QED
      BY <1>2, <2>2, <3>2
  <2> QED
    BY <1>2, <1>3, <2>1, <2>3
<1>12. ASSUME NEW k \in Kernels, NEW s \in {"READY", "WAITING", "FINISHED"}, Release(k, s)
       PROVE  \E b \in Blocks : Written(b)'
  <2>1. pc[k] = "run"
    BY <1>12 DEF Release
  <2> QED
    BY <1>5, <1>12, <2>1, OwnWorkload, KernelsAct DEF Release
<1>13. ASSUME \/ \E k \in Kernels : ReleaseAborted(k)
              \/ HandleEvent \/ UNCHANGED vars
       PROVE  FALSE
  BY <1>4, <1>13 DEF ReleaseAborted, HandleEvent, vars
<1> QED
  BY <1>6, <1>7, <1>8, <1>9, <1>10, <1>11, <1>12, <1>13, KernelsAct, StepKinds

LEMMA ShownInvariant == Spec => []FinishedShown
<1>1. Init => FinishedShown
  BY IdTypes, ActorsAssumption DEF Init, InitWith, FinishedShown, Shown
<1> QED
  BY <1>1, ShownStep, Invariant, PTL DEF Spec

\* Only fetching the header makes a kernel's copy of it current.
LEMMA FreshGrows ==
  ASSUME [Next]_vars
  PROVE  \/ fresh' \subseteq fresh
         \/ \E k \in Kernels : Reserve(k) /\ fresh' \subseteq fresh \union {k}
<1>1. ASSUME NEW a \in Actors, Calls(a) PROVE fresh' = fresh
  BY <1>1 DEF Calls, ScheduleEnd, ScheduleCancel, UnscheduleEnd, Signal, UnscheduleBegin,
     ScheduleBegin, SignalReset, WaitReset, WaitSet, AddEnd, RemoveEnd, RemoveBegin,
     Change, ChangeOnly
<1>2. ASSUME NEW a \in Actors, Idles(a)
      PROVE  \/ fresh' \subseteq fresh
             \/ \E k \in Kernels : Reserve(k) /\ fresh' \subseteq fresh \union {k}
  <2>1. CASE a \in Kernels /\ Reserve(a)
    BY <2>1 DEF Reserve
  <2> QED
    BY <1>2, <2>1 DEF Idles, Notify, EndFails, Scan, WriteHeader, Choose, PickNothing, IdleWait,
       Wake, AddBegin, AllocNext, Exit, Test, Wait
<1>3. ASSUME NEW a \in Actors, InSection(a) PROVE fresh' \subseteq fresh
  BY <1>3 DEF InSection, HeaderState, HeaderReset, HeaderAccess, WriteHeader, CallDone,
     CallDoneNotify, SearchLock, SearchDone, Unlock
<1>4. ASSUME NEW k \in Kernels,
             \/ Search(k) \/ Pick(k) \/ Dispatch(k) \/ ReleaseAborted(k) \/ Released(k)
             \/ \E s \in {"READY", "WAITING", "FINISHED"} : Release(k, s)
      PROVE  fresh' = fresh
  BY <1>4 DEF Search, Pick, Dispatch, ReleaseAborted, Released, Release, Change, Unlock
<1>5. (\E h \in Hosts : Alloc(h)) \/ HandleEvent \/ UNCHANGED vars => fresh' = fresh
  BY DEF Alloc, HandleEvent, vars
<1> QED
  BY <1>1, <1>2, <1>3, <1>4, <1>5, StepKinds

LEMMA NoticedStep ==
  ASSUME IInv, RInv, OwnRuns, AllWatch, FinishedShown, AwaitsRunsStep, Noticed,
         Kernels # {}, [Next]_vars
  PROVE  Noticed'
<1> SUFFICES ASSUME NEW i \in Ids, WakesAcross(i)'
             PROVE  \/ \E b \in Blocks : Written(b)'
                    \/ \E k \in Kernels : ~ (k \in fresh' /\ Past(k, i)')
  BY DEF Noticed
<1>1. CASE fresh' = {}
  BY <1>1
<1>2. CASE fresh' # {} /\ ~ WakesAcross(i)
  <2>1. CASE \E b \in Blocks : Written(b)'
    BY <2>1
  <2>2. CASE \E k \in Kernels : pc'[k] = "notify" /\ ret'[k] = "none"
    <3>1. PICK k \in Kernels : pc'[k] = "notify" /\ ret'[k] = "none"
      BY <2>2
    <3>2. ~ Past(k, i)'
      BY <3>1, PastWhere
    <3> QED
      BY <3>2
  <2> QED
    BY <1>2, <2>1, <2>2, NewWake
<1>3. CASE fresh' # {} /\ WakesAcross(i)
  <2>1. CASE \E b \in Blocks : Written(b)
    BY <1>3, <2>1, WrittenKept
  <2>2. CASE \E k \in Kernels : ~ (k \in fresh /\ Past(k, i))
    <3>1. PICK k \in Kernels : ~ (k \in fresh /\ Past(k, i))
      BY <2>2
    <3>2. CASE ~ (k \in fresh' /\ Past(k, i)')
      BY <3>2
    <3>3. CASE k \in fresh' /\ Past(k, i)'
      <4>1. k \in fresh
        <5>1. fresh' \subseteq fresh \/ \E j \in Kernels : Reserve(j) /\ fresh' \subseteq fresh \union {j}
          BY FreshGrows
        <5>2. ASSUME Reserve(k) PROVE ~ Past(k, i)'
          BY <5>2, ReserveStarts
        <5> QED
          BY <3>3, <5>1, <5>2
      <4>2. Past(k, i) \/ Written(Block(i))
        BY <1>3, <3>3, <4>1, PassesNone
      <4>3. Written(Block(i))'
        BY <1>3, <3>1, <4>1, <4>2, IdTypes, WrittenKept
      <4> QED
        BY <4>3, IdTypes DEF Block
    <3> QED
      BY <3>2, <3>3
  <2> QED
    BY <1>3, <2>1, <2>2 DEF Noticed
<1> QED
  BY <1>1, <1>2, <1>3

LEMMA NoticedInvariant ==
  ASSUME Kernels # {}
  PROVE  Spec /\ OneRun /\ AwaitsRuns => []Noticed
<1>1. Init => Noticed
  BY DEF Init, InitWith, Noticed, WakesAcross
<1>2. IInv /\ RInv /\ OwnRuns /\ AllWatch /\ FinishedShown /\ Noticed
        /\ [Next]_vars /\ [AwaitsRunsStep]_vars => Noticed'
  <2> SUFFICES ASSUME IInv, RInv, OwnRuns, AllWatch, FinishedShown, Noticed,
                      [Next]_vars, [AwaitsRunsStep]_vars
               PROVE  Noticed'
    OBVIOUS
  <2>1. AwaitsRunsStep
    <3>1. pub' = pub => AwaitsRunsStep
      BY DEF AwaitsRunsStep
    <3> QED
      BY <3>1 DEF vars
  <2> QED
    BY <2>1, NoticedStep
<1>3. Spec => []FinishedShown
  BY ShownInvariant
<1> QED
  BY <1>1, <1>2, <1>3, LifeInvariant, WatchInvariant, PTL DEF Spec, AwaitsRuns

\* The kernels never all sleep over work (kernel.c:716-741, 978-984): when every
\* kernel sleeps, nobody has a block locked and the header has not been written
\* since the kernels fetched it, no workload is ready, or waits for a signal it
\* has or for a workload of any block that has finished.
THEOREM WorkIsNoticed ==
  ASSUME Kernels # {}
  PROVE  Spec /\ OneRun /\ AwaitsRuns => []NeverAllOversleep
<1>1. IInv /\ NoOversleep /\ Noticed => NeverAllOversleep
  <2> SUFFICES ASSUME IInv, NoOversleep, Noticed, \A k \in Kernels : SoundAsleep(k),
                      \A b \in Blocks : lock[b] = NoActor, NEW i \in Ids
               PROVE  bits[i].state # "READY" /\ ~ Wakeable(Block(i), bits[i])
    BY DEF NeverAllOversleep
  <2>1. PICK b \in Blocks : b = Block(i)
    BY IdTypes
  <2>2. /\ bits[i].state # "READY"
        /\ Wakeable(b, bits[i]) => bits[i].wait_id # NoId /\ Block(bits[i].wait_id) # b
    BY <2>1 DEF NoOversleep, IdsOf
  <2>3. ASSUME Wakeable(b, bits[i]) PROVE FALSE
    <3>1. WakesAcross(i)
      BY <2>1, <2>2, <2>3 DEF WakesAcross, Wakeable, StateSeen
    <3>2. \A c \in Blocks : ~ Written(c)
      BY DEF Written
    <3>3. \A k \in Kernels : k \in fresh /\ Past(k, i)
      BY <2>1 DEF SoundAsleep, Past, Seen
    <3> QED
      BY <3>1, <3>2, <3>3 DEF Noticed
  <2> QED
    BY <2>1, <2>2, <2>3
<1> QED
  BY <1>1, Invariant, NobodySleepsOverWork, NoticedInvariant, PTL
==============================================================================
