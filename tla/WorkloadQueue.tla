---------------------------- MODULE WorkloadQueue ----------------------------
(***************************************************************************)
(* The MARS workload queue: the table of workloads in host memory, and the *)
(* micro-kernels on the SPUs (spu/base/kernel/kernel.c) and host threads   *)
(* (ppu/base/lib/workload_queue.c) that share it.                          *)
(*                                                                         *)
(* The queue is a header line and one line per block of workloads.  Each   *)
(* line has its own mutex (module MarsMutex).  The header summarises each  *)
(* block (ready? waiting? highest priority, how often passed over), and a  *)
(* kernel with nothing to do sleeps until the header line is written.      *)
(*                                                                         *)
(* Atomicity.  Taking a block lock, reading and changing the block is one  *)
(* step; each critical section of the header lock inside it is a step of   *)
(* its own (header sections contain nothing else); releasing the block     *)
(* lock is a step.  An SPU changes a local copy of the block that reaches  *)
(* memory only when it unlocks, so bits is the block as the owner of its   *)
(* lock sees it and pub the states that readers without the lock see.      *)
(***************************************************************************)
EXTENDS Naturals, FiniteSets

CONSTANTS
  Kernels,             \* SPUs running a kernel
  Hosts,               \* host threads calling the workload queue API
  NumBlocks,           \* MARS_WORKLOAD_NUM_BLOCKS (50)
  PerBlock,            \* workloads per block (MARS_WORKLOAD_PER_BLOCK - 1 = 15)
  PRIORITY_MAX,        \* MARS_WORKLOAD_PRIORITY_MAX (255)
  BLOCK_COUNTER_MAX,   \* MARS_WORKLOAD_BLOCK_COUNTER_MAX (63)
  COUNTER_MAX,         \* MARS_WORKLOAD_COUNTER_MAX (32767)
  MaxSchedules,        \* bound: how often each workload may be scheduled
  HostOps, SpuOps,     \* the API calls and kernel system calls the clients make
  NoActor, NoId, NoRun, NoOp, NoBest, NoView

Actors == Kernels \union Hosts
Blocks == 0 .. NumBlocks - 1
Slots  == 1 .. PerBlock
Ids    == Blocks \X Slots     \* workload id = block * MARS_WORKLOAD_PER_BLOCK + index
Block(id) == id[1]

State == {"NONE", "ADDING", "REMOVING", "SCHEDULING", "UNSCHEDULING",
          "READY", "WAITING", "RUNNING", "FINISHED"}

Priority     == 0 .. PRIORITY_MAX
Counter      == 0 .. COUNTER_MAX
BlockCounter == 0 .. BLOCK_COUNTER_MAX

Bits    == [state : State, priority : Priority, counter : Counter,
            signal : BOOLEAN, wait_id : Ids \union {NoId}]
Summary == [ready : BOOLEAN, waiting : BOOLEAN, priority : Priority,
            counter : BlockCounter]
Header  == [Blocks -> Summary]

ASSUME ActorsAssumption == /\ Kernels \cap Hosts = {}
                           /\ NoActor \notin Actors
ASSUME SizesAssumption == /\ NumBlocks \in Nat \ {0} /\ PerBlock \in Nat \ {0}
                          /\ PRIORITY_MAX \in Nat
                          /\ COUNTER_MAX \in Nat \ {0}
                          /\ BLOCK_COUNTER_MAX \in Nat \ {0}
                          /\ MaxSchedules \in Nat
ASSUME NullsAssumption == /\ NoId \notin Ids /\ NoView \notin Header

VARIABLES
  bits,      \* block[].bits[]: every workload, as the owner of its block's lock sees it
  pub,       \* its state as memory has it, for readers that take no lock
  lock,      \* who holds each block's mutex
  hdr,       \* header.bits[]: the summary of each block
  flag,      \* header.flag: MARS_WORKLOAD_QUEUE_FLAG_EXIT was set
  fresh,     \* kernels whose queue_header equals the header line in memory
  pc, ret,   \* what each actor does next, and after the critical section it is in
  blk,       \* the block it works on
  tgt,       \* the workload a kernel has picked, or a host thread waits for
  view,      \* queue_header: a scanning kernel's copy of the header
  best,      \* workload_reserve: the best ready block so far
  retry,     \* workload_reserve: a waiting workload was made ready
  slot,      \* search_block: the next index to look at
  cur,       \* the run a kernel executes: workload_id, and which scheduling of it
  op,        \* the begin/end operation an actor is in the middle of
  notified,  \* an event is queued for the host's event handler thread
  gen        \* history: how often each workload was scheduled

locals == <<pc, ret, blk, tgt, view, best, retry, slot, cur, op>>
vars == <<bits, pub, lock, hdr, flag, fresh, locals, notified, gen>>

\* A queue to which some workloads were added, and kernels that just started.
InitWith(added) ==
  /\ pub = [i \in Ids |-> IF i \in added THEN "FINISHED" ELSE "NONE"]
  /\ bits = [i \in Ids |-> [state |-> pub[i], priority |-> 0, counter |-> 0,
                            signal |-> FALSE, wait_id |-> NoId]]
  /\ lock = [b \in Blocks |-> NoActor]
  /\ hdr = [b \in Blocks |-> [ready |-> FALSE, waiting |-> FALSE,
                              priority |-> 0, counter |-> BLOCK_COUNTER_MAX]]
  /\ flag = FALSE
  /\ fresh = {}
  /\ pc = [a \in Actors |-> IF a \in Kernels THEN "reserve" ELSE "host"]
  /\ ret = [a \in Actors |-> "none"]
  /\ blk = [a \in Actors |-> 0]
  /\ tgt = [a \in Actors |-> NoId]
  /\ view = [k \in Kernels |-> NoView]
  /\ best = [k \in Kernels |-> NoBest]
  /\ retry = [k \in Kernels |-> FALSE]
  /\ slot = [k \in Kernels |-> 0]
  /\ cur = [k \in Kernels |-> NoRun]
  /\ op = [a \in Actors |-> NoOp]
  /\ notified = FALSE
  /\ gen = [i \in Ids |-> 0]

\* mars_workload_queue_create
Init == InitWith({})

-----------------------------------------------------------------------------
(* Summaries, critical sections.                                           *)

IdsOf(b)   == {i \in Ids : Block(i) = b}
ReadyIn(b) == {i \in IdsOf(b) : bits[i].state = "READY"}
WaitingIn(b) == {i \in IdsOf(b) : bits[i].state = "WAITING"}

\* p is the priority of a block: the highest of its ready workloads, else the minimum.
IsTop(b, p) ==
  IF ReadyIn(b) = {} THEN p = 0
  ELSE /\ \E i \in ReadyIn(b) : bits[i].priority = p
       /\ \A i \in ReadyIn(b) : bits[i].priority <= p

Goto(a, label) == pc' = [pc EXCEPT ![a] = label]

\* Take the lock of workload i's block, set its bits, go on at label.  A host
\* thread writes memory at once, a kernel when it unlocks.
Change(a, i, new, label, after) ==
  /\ lock[Block(i)] = NoActor
  /\ lock' = [lock EXCEPT ![Block(i)] = a]
  /\ bits' = [bits EXCEPT ![i] = new]
  /\ pub' = IF a \in Hosts THEN [pub EXCEPT ![i] = new.state] ELSE pub
  /\ blk' = [blk EXCEPT ![a] = Block(i)]
  /\ ret' = [ret EXCEPT ![a] = after]
  /\ Goto(a, label)
  /\ UNCHANGED <<hdr, flag, fresh, tgt, view, best, retry, slot, cur, notified>>

\* The same when nothing happens between the change and the unlock.
ChangeOnly(a, i, new) ==
  /\ lock[Block(i)] = NoActor
  /\ bits' = [bits EXCEPT ![i] = new]
  /\ pub' = [pub EXCEPT ![i] = new.state]
  /\ UNCHANGED <<lock, hdr, flag, fresh, pc, ret, blk, tgt, view, best, retry,
                 slot, cur, notified>>

\* Every write of the header line ends the other kernels' copies being current.
\* The writing kernel's copy is refreshed by mutex_lock_get; only a scan reads it.
WriteHeader(a, new) ==
  /\ hdr' = new
  /\ fresh' = {}
  /\ view' = IF a \in Kernels /\ view[a] # NoView
             THEN [view EXCEPT ![a] = new] ELSE view

\* update_header_bits(COUNTER_RESET)
HeaderReset(k) ==
  /\ pc[k] = "hdr_reset"
  /\ WriteHeader(k, [hdr EXCEPT ![blk[k]].counter = 0])
  /\ Goto(k, "hdr_state")
  /\ UNCHANGED <<bits, pub, lock, flag, ret, blk, tgt, best, retry, slot, cur,
                 op, notified, gen>>

\* Mutant: a block with ready workloads does not show its waiting ones.
HeaderStateReadyFirst(a) ==
  /\ pc[a] = "hdr_state"
  /\ \E p \in Priority :
       /\ IsTop(blk[a], p)
       /\ WriteHeader(a, [hdr EXCEPT ![blk[a]] =
                            [ready |-> ReadyIn(blk[a]) # {},
                             waiting |-> ReadyIn(blk[a]) = {} /\ WaitingIn(blk[a]) # {},
                             priority |-> p, counter |-> @.counter]])
  /\ Goto(a, "unlock")
  /\ UNCHANGED <<bits, pub, lock, flag, ret, blk, tgt, best, retry, slot, cur,
                 op, notified, gen>>

\* update_header_bits(STATE) and the host's update_header_bits
HeaderState(a) ==
  /\ pc[a] = "hdr_state"
  /\ \E p \in Priority :
       /\ IsTop(blk[a], p)
       /\ WriteHeader(a, [hdr EXCEPT ![blk[a]] =
                            [ready |-> ReadyIn(blk[a]) # {}, waiting |-> WaitingIn(blk[a]) # {},
                             priority |-> p, counter |-> @.counter]])
  /\ Goto(a, "unlock")
  /\ UNCHANGED <<bits, pub, lock, flag, ret, blk, tgt, best, retry, slot, cur,
                 op, notified, gen>>

\* update_header_bits(ACCESS): only the access count changes
HeaderAccess(k) ==
  /\ pc[k] = "hdr_access"
  /\ WriteHeader(k, hdr)
  /\ Goto(k, "unlock")
  /\ UNCHANGED <<bits, pub, lock, flag, ret, blk, tgt, best, retry, slot, cur,
                 op, notified, gen>>

\* mutex_unlock_put of the block: the owner's changes reach memory.
Unlock(a, label) ==
  /\ pc[a] = "unlock"
  /\ lock' = [lock EXCEPT ![blk[a]] = NoActor]
  /\ pub' = [i \in Ids |-> IF Block(i) = blk[a] THEN bits[i].state ELSE pub[i]]
  /\ ret' = [ret EXCEPT ![a] = "none"]
  /\ Goto(a, label)
  /\ UNCHANGED <<bits, hdr, flag, fresh, view, best, slot, op, notified, gen>>

\* The end of a system call or API call.
CallDone(a) ==
  /\ ret[a] = "call"
  /\ Unlock(a, IF a \in Kernels THEN "run" ELSE "host")
  /\ UNCHANGED <<blk, tgt, retry, cur>>

\* The end of unschedule_end: the notification follows the unlock.
CallDoneNotify(a) ==
  /\ ret[a] = "notify"
  /\ Unlock(a, "notify")
  /\ UNCHANGED <<blk, tgt, retry, cur>>

-----------------------------------------------------------------------------
(* The kernel's main loop.                                                 *)

\* Mutant: the exit flag is looked at only when no block is ready.
ReserveReadyFirst(k) ==
  /\ pc[k] = "reserve"
  /\ IF flag /\ \A b \in Blocks : ~ hdr[b].ready
     THEN Goto(k, "exited") /\ UNCHANGED <<fresh, view, blk, best, retry>>
     ELSE /\ Goto(k, "scan")
          /\ view' = [view EXCEPT ![k] = hdr]
          /\ fresh' = fresh \union {k}
          /\ blk' = [blk EXCEPT ![k] = 0]
          /\ best' = [best EXCEPT ![k] = NoBest]
          /\ retry' = [retry EXCEPT ![k] = FALSE]
  /\ UNCHANGED <<bits, pub, lock, hdr, flag, ret, tgt, slot, cur, op, notified, gen>>

\* workload_reserve: fetch the header; leave if the exit flag is set.
Reserve(k) ==
  /\ pc[k] = "reserve"
  /\ IF flag
     THEN Goto(k, "exited") /\ UNCHANGED <<fresh, view, blk, best, retry>>
     ELSE /\ Goto(k, "scan")
          /\ view' = [view EXCEPT ![k] = hdr]
          /\ fresh' = fresh \union {k}
          /\ blk' = [blk EXCEPT ![k] = 0]
          /\ best' = [best EXCEPT ![k] = NoBest]
          /\ retry' = [retry EXCEPT ![k] = FALSE]
  /\ UNCHANGED <<bits, pub, lock, hdr, flag, ret, tgt, slot, cur, op, notified, gen>>

Better(h, m) == \/ m = NoBest
                \/ h.priority > m.priority
                \/ h.priority = m.priority /\ h.counter > m.counter

\* Mutant: the count of passed-over times is not capped.
AgedUncapped(c, max) == c + 1

Aged(c, max) == IF c < max THEN c + 1 ELSE c

\* Mutant: a ready block that is passed over does not age.
ScanUnaged(k) ==
  /\ pc[k] = "scan" /\ blk[k] < NumBlocks
  /\ LET b == blk[k]
         h == view[k][b]
     IN  /\ best' = [best EXCEPT ![k] =
                      IF h.ready /\ Better(h, @)
                      THEN [block |-> b, priority |-> h.priority, counter |-> h.counter]
                      ELSE @]
         /\ IF h.waiting
            THEN Goto(k, "search") /\ UNCHANGED blk
            ELSE blk' = [blk EXCEPT ![k] = b + 1] /\ UNCHANGED pc
  /\ UNCHANGED <<bits, pub, lock, hdr, flag, fresh, ret, tgt, view, retry, slot, cur,
                 op, notified, gen>>

\* One iteration of the loop over the header: a ready block is compared with
\* the best one and ages by one; a waiting block is searched.
Scan(k) ==
  /\ pc[k] = "scan" /\ blk[k] < NumBlocks
  /\ LET b == blk[k]
         h == view[k][b]
     IN  /\ IF h.ready
            THEN /\ best' = [best EXCEPT ![k] =
                      IF Better(h, @)
                      THEN [block |-> b, priority |-> h.priority, counter |-> h.counter]
                      ELSE @]
                 /\ WriteHeader(k, [hdr EXCEPT ![b].counter = Aged(@, BLOCK_COUNTER_MAX)])
            ELSE UNCHANGED <<best, hdr, fresh, view>>
         /\ IF h.waiting
            THEN Goto(k, "search") /\ UNCHANGED blk
            ELSE blk' = [blk EXCEPT ![k] = b + 1] /\ UNCHANGED pc
  /\ UNCHANGED <<bits, pub, lock, flag, ret, tgt, retry, slot, cur, op, notified, gen>>

\* The end of the loop: run the best block's workload, retry, or go idle.
Choose(k) ==
  /\ pc[k] = "scan" /\ blk[k] = NumBlocks
  /\ IF best[k] # NoBest
     THEN Goto(k, "pick") /\ blk' = [blk EXCEPT ![k] = best[k].block]
     ELSE Goto(k, IF retry[k] THEN "reserve" ELSE "idle") /\ blk' = [blk EXCEPT ![k] = 0]
  /\ view' = [view EXCEPT ![k] = NoView]
  /\ best' = [best EXCEPT ![k] = NoBest]
  /\ retry' = [retry EXCEPT ![k] = FALSE]
  /\ UNCHANGED <<bits, pub, lock, hdr, flag, fresh, ret, tgt, slot, cur, op, notified, gen>>

\* search_block(block, 0): lock the block,
SearchLock(k) ==
  /\ pc[k] = "search"
  /\ lock[blk[k]] = NoActor
  /\ lock' = [lock EXCEPT ![blk[k]] = k]
  /\ ret' = [ret EXCEPT ![k] = "scan"]
  /\ slot' = [slot EXCEPT ![k] = 1]
  /\ Goto(k, "searching")
  /\ UNCHANGED <<bits, pub, hdr, flag, fresh, blk, tgt, view, best, retry, cur,
                 op, notified, gen>>

\* the state of a workload another one waits for: from the locked block's copy,
\* or fetched from memory without a lock when it is in another block,
StateSeen(b, i) == IF Block(i) = b THEN bits[i].state ELSE pub[i]

\* what a waiting workload waits for has happened,
Wakeable(b, w) ==
  /\ w.state = "WAITING"
  /\ IF w.wait_id # NoId THEN StateSeen(b, w.wait_id) = "FINISHED" ELSE w.signal

\* Mutant: the workload waited for is forgotten and the workload stays waiting.
WokenForgetting(w) ==
  IF w.wait_id # NoId THEN [w EXCEPT !.wait_id = NoId]
                      ELSE [w EXCEPT !.state = "READY", !.signal = FALSE]

Woken(w) == IF w.wait_id # NoId THEN [w EXCEPT !.state = "READY", !.wait_id = NoId]
                                ELSE [w EXCEPT !.state = "READY", !.signal = FALSE]

\* While a search holds the lock, the block w differs from memory once it found
\* a workload to wake.
Found(b, w) == \E i \in IdsOf(b) : w[i].state # pub[i]

\* and look at its waiting workloads one by one.
Search(k) ==
  /\ pc[k] = "searching"
  /\ LET b == blk[k]
         i == <<b, slot[k]>>
         new == IF Wakeable(b, bits[i]) THEN [bits EXCEPT ![i] = Woken(@)] ELSE bits
     IN  /\ bits' = new
         /\ IF slot[k] < PerBlock
            THEN slot' = [slot EXCEPT ![k] = @ + 1] /\ UNCHANGED pc
            ELSE /\ slot' = [slot EXCEPT ![k] = 0]
                 /\ Goto(k, IF Found(b, new) THEN "hdr_state" ELSE "unlock")
  /\ UNCHANGED <<pub, lock, hdr, flag, fresh, ret, blk, tgt, view, best, retry,
                 cur, op, notified, gen>>

\* Unlock and go on with the next block of the header.
SearchDone(k) ==
  /\ ret[k] = "scan"
  /\ Unlock(k, "scan")
  /\ retry' = [retry EXCEPT ![k] = @ \/ Found(blk[k], bits)]
  /\ blk' = [blk EXCEPT ![k] = @ + 1]
  /\ UNCHANGED <<tgt, cur>>

\* The ready workload search_block chooses: highest priority, then most often
\* passed over, then lowest index.
Preferred(i, j) ==
  \/ bits[i].priority > bits[j].priority
  \/ /\ bits[i].priority = bits[j].priority
     /\ \/ bits[i].counter > bits[j].counter
        \/ bits[i].counter = bits[j].counter /\ i[2] <= j[2]

\* search_block(block, 1): nothing ready any more, look again,
PickNothing(k) ==
  /\ pc[k] = "pick"
  /\ lock[blk[k]] = NoActor
  /\ ReadyIn(blk[k]) = {}
  /\ Goto(k, "reserve")
  /\ UNCHANGED <<bits, pub, lock, hdr, flag, fresh, ret, blk, tgt, view, best,
                 retry, slot, cur, op, notified, gen>>

\* or mark the chosen workload running; every ready workload ages by one.
Pick(k) ==
  /\ pc[k] = "pick"
  /\ lock[blk[k]] = NoActor
  /\ \E i \in ReadyIn(blk[k]) :
       /\ \A j \in ReadyIn(blk[k]) : Preferred(i, j)
       /\ bits' = [j \in Ids |->
            IF j = i THEN [bits[j] EXCEPT !.state = "RUNNING", !.counter = 0]
            ELSE IF j \in ReadyIn(blk[k])
            THEN [bits[j] EXCEPT !.counter = Aged(@, COUNTER_MAX)]
            ELSE bits[j]]
       /\ tgt' = [tgt EXCEPT ![k] = i]
  /\ lock' = [lock EXCEPT ![blk[k]] = k]
  /\ ret' = [ret EXCEPT ![k] = "dispatch"]
  /\ Goto(k, "hdr_reset")
  /\ UNCHANGED <<pub, hdr, flag, fresh, blk, view, best, retry, slot, cur, op,
                 notified, gen>>

\* Unlock and execute the workload.
Dispatch(k) ==
  /\ ret[k] = "dispatch"
  /\ Unlock(k, "run")
  /\ cur' = [cur EXCEPT ![k] = [id |-> tgt[k], gen |-> gen[tgt[k]]]]
  /\ tgt' = [tgt EXCEPT ![k] = NoId]
  /\ UNCHANGED <<blk, retry>>

\* Mutant: the header is not updated.
ReleaseNoHeader(k, s) ==
  /\ pc[k] = "run" /\ op[k] = NoOp
  /\ bits[cur[k].id].state \notin {"UNSCHEDULING", "FINISHED"}
  /\ Change(k, cur[k].id, [bits[cur[k].id] EXCEPT !.state = s], "unlock", "release")
  /\ UNCHANGED <<op, gen>>

\* The workload returns to the kernel in state s (workload_exit) and
\* workload_release gives it back: unless it was unscheduled meanwhile,
Release(k, s) ==
  /\ pc[k] = "run" /\ op[k] = NoOp
  /\ bits[cur[k].id].state \notin {"UNSCHEDULING", "FINISHED"}
  /\ Change(k, cur[k].id, [bits[cur[k].id] EXCEPT !.state = s], "hdr_state", "release")
  /\ UNCHANGED <<op, gen>>

\* Mutant: a run that was not unscheduled is dropped, too.
ReleaseAbortedAlways(k) ==
  /\ pc[k] = "run" /\ op[k] = NoOp
  /\ lock[Block(cur[k].id)] = NoActor
  /\ cur' = [cur EXCEPT ![k] = NoRun]
  /\ Goto(k, "reserve")
  /\ UNCHANGED <<bits, pub, lock, hdr, flag, fresh, ret, blk, tgt, view, best,
                 retry, slot, op, notified, gen>>

\* in which case the run is dropped.
ReleaseAborted(k) ==
  /\ pc[k] = "run" /\ op[k] = NoOp
  /\ lock[Block(cur[k].id)] = NoActor
  /\ bits[cur[k].id].state \in {"UNSCHEDULING", "FINISHED"}
  /\ cur' = [cur EXCEPT ![k] = NoRun]
  /\ Goto(k, "reserve")
  /\ UNCHANGED <<bits, pub, lock, hdr, flag, fresh, ret, blk, tgt, view, best,
                 retry, slot, op, notified, gen>>

\* Mutant: nobody is notified.
ReleasedSilently(k) ==
  /\ ret[k] = "release"
  /\ Unlock(k, "reserve")
  /\ cur' = [cur EXCEPT ![k] = NoRun]
  /\ UNCHANGED <<blk, tgt, retry>>

\* Unlock; a finished workload's waiters on the host are notified next.
Released(k) ==
  /\ ret[k] = "release"
  /\ Unlock(k, IF bits[cur[k].id].state = "FINISHED" THEN "notify" ELSE "reserve")
  /\ cur' = [cur EXCEPT ![k] = NoRun]
  /\ UNCHANGED <<blk, tgt, retry>>

\* Mutant: the header is reserved without comparing it to workload_reserve's.
IdleWaitBlindly(k) ==
  /\ pc[k] = "idle"
  /\ Goto(k, "asleep")
  /\ fresh' = fresh \union {k}
  /\ UNCHANGED <<bits, pub, lock, hdr, flag, ret, blk, tgt, view, best, retry,
                 slot, cur, op, notified, gen>>

\* idle_wait: getllar the header; sleep unless it changed since workload_reserve,
IdleWait(k) ==
  /\ pc[k] = "idle"
  /\ Goto(k, IF k \in fresh THEN "asleep" ELSE "reserve")
  /\ UNCHANGED <<bits, pub, lock, hdr, flag, fresh, ret, blk, tgt, view, best,
                 retry, slot, cur, op, notified, gen>>

\* until the lost-reservation event.
Wake(k) ==
  /\ pc[k] = "asleep"
  /\ k \notin fresh
  /\ Goto(k, "reserve")
  /\ UNCHANGED <<bits, pub, lock, hdr, flag, fresh, ret, blk, tgt, view, best,
                 retry, slot, cur, op, notified, gen>>

-----------------------------------------------------------------------------
(* Operations of workloads (kernel system calls) and of host threads.      *)

\* The caller can start a call: a workload running on kernel a, or host thread a.
Caller(a, name) ==
  /\ pc[a] = IF a \in Kernels THEN "run" ELSE "host"
  /\ op[a] = NoOp
  /\ name \in IF a \in Kernels THEN SpuOps ELSE HostOps

\* ... or end the operation it began.
InOp(a, name) ==
  /\ pc[a] = IF a \in Kernels THEN "run" ELSE "host"
  /\ op[a] # NoOp /\ op[a].name = name

BeginOp(a, name, i) == op' = [op EXCEPT ![a] = [name |-> name, id |-> i]]
EndOp(a) == op' = [op EXCEPT ![a] = NoOp]

\* workload_wait_set / workload_wait_reset, on the caller itself
WaitSet(k, i) ==
  /\ Caller(k, "wait_set")
  /\ bits[cur[k].id].state # "NONE"
  /\ ChangeOnly(k, cur[k].id, [bits[cur[k].id] EXCEPT !.wait_id = i])
  /\ UNCHANGED <<op, gen>>

WaitReset(k) ==
  /\ Caller(k, "wait_set")
  /\ ChangeOnly(k, cur[k].id, [bits[cur[k].id] EXCEPT !.wait_id = NoId])
  /\ UNCHANGED <<op, gen>>

\* workload_signal_set (header access count only) / mars_workload_queue_signal_send
Signal(a, i) ==
  /\ Caller(a, "signal")
  /\ bits[i].state # "NONE"
  /\ Change(a, i, [bits[i] EXCEPT !.signal = TRUE],
            IF a \in Kernels THEN "hdr_access" ELSE "hdr_state", "call")
  /\ UNCHANGED <<op, gen>>

\* workload_signal_reset, on the caller itself
SignalReset(k) ==
  /\ Caller(k, "signal_reset")
  /\ Change(k, cur[k].id, [bits[cur[k].id] EXCEPT !.signal = FALSE], "hdr_access", "call")
  /\ UNCHANGED <<op, gen>>

Scheduled(w, p, c) == [w EXCEPT !.state = "SCHEDULING", !.priority = p, !.counter = c,
                                !.signal = FALSE, !.wait_id = NoId]

\* Mutant: the state is not looked at.
ScheduleBeginAlways(a, i, p) ==
  /\ Caller(a, "schedule")
  /\ gen[i] < MaxSchedules
  /\ IF a \in Kernels
     THEN Change(a, i, Scheduled(bits[i], p, COUNTER_MAX), "hdr_state", "call")
     ELSE ChangeOnly(a, i, Scheduled(bits[i], p, 0))
  /\ gen' = [gen EXCEPT ![i] = @ + 1]
  /\ BeginOp(a, "schedule", i)

\* schedule_begin: the SPU starts a workload at the highest counter and
\* updates the header, the host at the lowest and does not.
ScheduleBegin(a, i, p) ==
  /\ Caller(a, "schedule")
  /\ gen[i] < MaxSchedules
  /\ bits[i].state = "FINISHED"
  /\ IF a \in Kernels
     THEN Change(a, i, Scheduled(bits[i], p, COUNTER_MAX), "hdr_state", "call")
     ELSE ChangeOnly(a, i, Scheduled(bits[i], p, 0))
  /\ gen' = [gen EXCEPT ![i] = @ + 1]
  /\ BeginOp(a, "schedule", i)

ScheduleEnd(a) ==
  /\ InOp(a, "schedule")
  /\ bits[op[a].id].state = "SCHEDULING"
  /\ Change(a, op[a].id, [bits[op[a].id] EXCEPT !.state = "READY"], "hdr_state", "call")
  /\ EndOp(a)
  /\ UNCHANGED gen

ScheduleCancel(a) ==
  /\ InOp(a, "schedule")
  /\ "cancel" \in IF a \in Kernels THEN SpuOps ELSE HostOps
  /\ bits[op[a].id].state = "SCHEDULING"
  /\ LET w == [bits[op[a].id] EXCEPT !.state = "FINISHED"]
     IN  IF a \in Kernels THEN Change(a, op[a].id, w, "hdr_state", "call")
                          ELSE ChangeOnly(a, op[a].id, w)
  /\ EndOp(a)
  /\ UNCHANGED gen

\* Mutant: a workload of any state is unscheduled.
UnscheduleBeginAlways(a, i) ==
  /\ Caller(a, "unschedule")
  /\ LET w == [bits[i] EXCEPT !.state = "UNSCHEDULING"]
     IN  IF a \in Kernels THEN Change(a, i, w, "hdr_state", "call")
                          ELSE ChangeOnly(a, i, w)
  /\ BeginOp(a, "unschedule", i)
  /\ UNCHANGED gen

\* unschedule_begin: the SPU updates the header, the host does not.
UnscheduleBegin(a, i) ==
  /\ Caller(a, "unschedule")
  /\ bits[i].state \in {"READY", "RUNNING", "WAITING"}
  /\ LET w == [bits[i] EXCEPT !.state = "UNSCHEDULING"]
     IN  IF a \in Kernels THEN Change(a, i, w, "hdr_state", "call")
                          ELSE ChangeOnly(a, i, w)
  /\ BeginOp(a, "unschedule", i)
  /\ UNCHANGED gen

\* Mutant: the header is not updated.
UnscheduleEndNoHeader(a) ==
  /\ InOp(a, "unschedule")
  /\ bits[op[a].id].state = "UNSCHEDULING"
  /\ Change(a, op[a].id, [bits[op[a].id] EXCEPT !.state = "FINISHED"], "unlock", "notify")
  /\ EndOp(a)
  /\ UNCHANGED gen

UnscheduleEnd(a) ==
  /\ InOp(a, "unschedule")
  /\ bits[op[a].id].state = "UNSCHEDULING"
  /\ Change(a, op[a].id, [bits[op[a].id] EXCEPT !.state = "FINISHED"], "hdr_state", "notify")
  /\ EndOp(a)
  /\ UNCHANGED gen

\* mars_workload_queue_add_begin looks for a free workload block by block,
AddBegin(h) ==
  /\ Caller(h, "add")
  /\ blk' = [blk EXCEPT ![h] = 0]
  /\ Goto(h, "alloc")
  /\ UNCHANGED <<bits, pub, lock, hdr, flag, fresh, ret, tgt, view, best, retry,
                 slot, cur, op, notified, gen>>

\* alloc_block: takes the first one of the block,
Alloc(h) ==
  /\ pc[h] = "alloc"
  /\ lock[blk[h]] = NoActor
  /\ \E s \in Slots :
       LET i == <<blk[h], s>> IN
       /\ bits[i].state = "NONE"
       /\ \A r \in Slots : r < s => bits[<<blk[h], r>>].state # "NONE"
       /\ bits' = [bits EXCEPT ![i].state = "ADDING"]
       /\ pub' = [pub EXCEPT ![i] = "ADDING"]
       /\ BeginOp(h, "add", i)
  /\ Goto(h, "host")
  /\ UNCHANGED <<lock, hdr, flag, fresh, ret, blk, tgt, view, best, retry, slot,
                 cur, notified, gen>>

\* or goes on to the next block, and fails after the last.
AllocNext(h) ==
  /\ pc[h] = "alloc"
  /\ lock[blk[h]] = NoActor
  /\ \A s \in Slots : bits[<<blk[h], s>>].state # "NONE"
  /\ IF blk[h] + 1 < NumBlocks
     THEN blk' = [blk EXCEPT ![h] = @ + 1] /\ UNCHANGED pc
     ELSE Goto(h, "host") /\ UNCHANGED blk
  /\ UNCHANGED <<bits, pub, lock, hdr, flag, fresh, ret, tgt, view, best, retry,
                 slot, cur, op, notified, gen>>

\* add_end, and add_end(cancel) or a module that cannot be loaded
AddEnd(h, new) ==
  /\ InOp(h, "add")
  /\ bits[op[h].id].state = "ADDING"
  /\ ChangeOnly(h, op[h].id, [bits[op[h].id] EXCEPT !.state = new])
  /\ EndOp(h)
  /\ UNCHANGED gen

RemoveBegin(h, i) ==
  /\ Caller(h, "remove")
  /\ bits[i].state = "FINISHED"
  /\ ChangeOnly(h, i, [bits[i] EXCEPT !.state = "REMOVING"])
  /\ BeginOp(h, "remove", i)
  /\ UNCHANGED gen

\* remove_end (NONE) and remove_end(cancel) (FINISHED)
RemoveEnd(h, new) ==
  /\ InOp(h, "remove")
  /\ bits[op[h].id].state = "REMOVING"
  /\ ChangeOnly(h, op[h].id, [bits[op[h].id] EXCEPT !.state = new])
  /\ EndOp(h)
  /\ UNCHANGED gen

\* mars_workload_queue_exit: the flag, under the header lock
Exit(h) ==
  /\ Caller(h, "exit")
  /\ flag' = TRUE
  /\ fresh' = {}
  /\ UNCHANGED <<bits, pub, lock, hdr, locals, notified, gen>>

\* mars_workload_queue_wait: mars_ea_cond_wait tests the state in memory
\* without the block's lock, under the host's condition mutex, and sleeps on
\* the condition while the workload is neither finished nor gone.
Wait(h, i) ==
  /\ Caller(h, "wait")
  /\ tgt' = [tgt EXCEPT ![h] = i]
  /\ Goto(h, "test")
  /\ UNCHANGED <<bits, pub, lock, hdr, flag, fresh, ret, blk, view, best, retry,
                 slot, cur, op, notified, gen>>

Test(h) ==
  /\ pc[h] = "test"
  /\ IF pub[tgt[h]] \in {"FINISHED", "NONE"}
     THEN Goto(h, "host") /\ tgt' = [tgt EXCEPT ![h] = NoId]
     ELSE Goto(h, "sleep") /\ UNCHANGED tgt
  /\ UNCHANGED <<bits, pub, lock, hdr, flag, fresh, ret, blk, view, best, retry,
                 slot, cur, op, notified, gen>>

\* The broadcast on the condition: every sleeping waiter tests again.
Broadcast(f) == [a \in Actors |-> IF f[a] = "sleep" THEN "test" ELSE f[a]]

\* The host's event handler thread ends with the first kernel's EXIT event, and
\* takes no further notifications.
HandlerRuns == \A k \in Kernels : pc[k] # "exited"

\* After the unlock: an SPU sends an event to the host, a host thread
\* broadcasts the condition itself.
Notify(a) ==
  /\ pc[a] = "notify"
  /\ IF a \in Kernels
     THEN /\ notified' = (notified \/ HandlerRuns)
          /\ Goto(a, IF cur[a] = NoRun THEN "reserve" ELSE "run")
     ELSE /\ pc' = Broadcast([pc EXCEPT ![a] = "host"])
          /\ UNCHANGED notified
  /\ UNCHANGED <<bits, pub, lock, hdr, flag, fresh, ret, blk, tgt, view, best,
                 retry, slot, cur, op, gen>>

\* The handler thread receives the event and broadcasts.
HandleEvent ==
  /\ notified
  /\ notified' = FALSE
  /\ pc' = Broadcast(pc)
  /\ UNCHANGED <<bits, pub, lock, hdr, flag, fresh, ret, blk, tgt, view, best,
                 retry, slot, cur, op, gen>>

\* The end of an operation whose workload is no longer in the state the
\* beginning left it in: MARS_ERROR_STATE.
EndFails(a) ==
  /\ pc[a] = IF a \in Kernels THEN "run" ELSE "host"
  /\ op[a] # NoOp
  /\ lock[Block(op[a].id)] = NoActor
  /\ bits[op[a].id].state # CASE op[a].name = "add" -> "ADDING"
                              [] op[a].name = "remove" -> "REMOVING"
                              [] op[a].name = "schedule" -> "SCHEDULING"
                              [] op[a].name = "unschedule" -> "UNSCHEDULING"
  /\ EndOp(a)
  /\ UNCHANGED <<bits, pub, lock, hdr, flag, fresh, pc, ret, blk, tgt, view, best,
                 retry, slot, cur, notified, gen>>

-----------------------------------------------------------------------------
\* Steps an actor takes without being asked: the rest of a call, the main loop.
Section(a) == HeaderState(a) \/ CallDone(a) \/ CallDoneNotify(a) \/ Notify(a)

EndCall(a) == ScheduleEnd(a) \/ ScheduleCancel(a) \/ UnscheduleEnd(a) \/ EndFails(a)

KernelStep(k) ==
  \/ Section(k) \/ EndCall(k)
  \/ Reserve(k) \/ Scan(k) \/ Choose(k) \/ SearchLock(k) \/ Search(k) \/ SearchDone(k)
  \/ PickNothing(k) \/ Pick(k) \/ HeaderReset(k) \/ HeaderAccess(k) \/ Dispatch(k)
  \/ ReleaseAborted(k) \/ Released(k) \/ IdleWait(k) \/ Wake(k)

Exits(k) == \E s \in {"READY", "WAITING", "FINISHED"} : Release(k, s)

Syscall(k) ==
  \/ WaitReset(k) \/ SignalReset(k)
  \/ \E i \in Ids : WaitSet(k, i) \/ Signal(k, i) \/ UnscheduleBegin(k, i)
  \/ \E i \in Ids, p \in Priority : ScheduleBegin(k, i, p)

HostStep(h) ==
  \/ Section(h) \/ EndCall(h) \/ Alloc(h) \/ AllocNext(h) \/ Test(h)
  \/ \E s \in {"FINISHED", "NONE"} : AddEnd(h, s) \/ RemoveEnd(h, s)

HostCall(h) ==
  \/ AddBegin(h) \/ Exit(h)
  \/ \E i \in Ids : RemoveBegin(h, i) \/ UnscheduleBegin(h, i) \/ Signal(h, i) \/ Wait(h, i)
  \/ \E i \in Ids, p \in Priority : ScheduleBegin(h, i, p)

Next == \/ \E k \in Kernels : KernelStep(k) \/ Exits(k) \/ Syscall(k)
        \/ \E h \in Hosts : HostStep(h) \/ HostCall(h)
        \/ HandleEvent

Spec == Init /\ [][Next]_vars

\* Kernels and host threads keep running, the block mutexes are first come first
\* served (module MarsMutex), every workload returns to its kernel some time,
\* and a client ends the operations it begins.
Fairness ==
  /\ \A k \in Kernels : SF_vars(KernelStep(k)) /\ SF_vars(Exits(k))
  /\ \A h \in Hosts : SF_vars(HostStep(h))
  /\ WF_vars(HandleEvent)
-----------------------------------------------------------------------------
Run == [id : Ids, gen : 0 .. MaxSchedules]
ASSUME RunAssumption == NoRun \notin Run

Op  == [name : {"add", "remove", "schedule", "unschedule"}, id : Ids]
Candidate == [block : Blocks, priority : Priority, counter : BlockCounter]
Label == {"reserve", "scan", "search", "searching", "pick", "run", "idle", "asleep",
          "exited", "host", "alloc", "test", "sleep",
          "hdr_reset", "hdr_state", "hdr_access", "unlock", "notify"}
After == {"none", "scan", "dispatch", "release", "call", "notify"}

TypeOK ==
  /\ bits \in [Ids -> Bits]
  /\ pub \in [Ids -> State]
  /\ lock \in [Blocks -> Actors \union {NoActor}]
  /\ hdr \in Header
  /\ flag \in BOOLEAN
  /\ fresh \subseteq Kernels
  /\ pc \in [Actors -> Label]
  /\ ret \in [Actors -> After]
  /\ blk \in [Actors -> 0 .. NumBlocks]
  /\ tgt \in [Actors -> Ids \union {NoId}]
  /\ view \in [Kernels -> Header \union {NoView}]
  /\ best \in [Kernels -> Candidate \union {NoBest}]
  /\ retry \in [Kernels -> BOOLEAN]
  /\ slot \in [Kernels -> 0 .. PerBlock]
  /\ cur \in [Kernels -> Run \union {NoRun}]
  /\ op \in [Actors -> Op \union {NoOp}]
  /\ notified \in BOOLEAN
  /\ gen \in [Ids -> 0 .. MaxSchedules]

\* The owner of block b's lock still has to bring the header up to date.
Pending(b) == /\ lock[b] # NoActor
              /\ \/ pc[lock[b]] \in {"hdr_reset", "hdr_state"}
                 \/ pc[lock[b]] = "searching" /\ Found(b, bits)

\* The header never hides work (kernel.c:227-255, workload_queue.c:674-712): a
\* ready or waiting workload shows in its block's summary, with at least its
\* priority, except while the owner of the block's lock is about to update it.
HeaderCovers ==
  \A b \in Blocks : ~ Pending(b) =>
    /\ \A i \in ReadyIn(b) : hdr[b].ready /\ bits[i].priority <= hdr[b].priority
    /\ WaitingIn(b) # {} => hdr[b].waiting

\* ... and it shows work that is not there only while a workload of the block
\* is being unscheduled: the host's unschedule_begin does not update the header
\* (workload_queue.c:748), unschedule_end does.
HeaderExact ==
  \A b \in Blocks :
    ~ Pending(b) /\ (\A i \in IdsOf(b) : bits[i].state # "UNSCHEDULING") =>
      /\ hdr[b].ready = (ReadyIn(b) # {})
      /\ hdr[b].waiting = (WaitingIn(b) # {})
      /\ IsTop(b, hdr[b].priority)

\* A kernel whose sleep nothing will end: the header was not written since it
\* fetched it (kernel.c:978-984).
SoundAsleep(k) == pc[k] = "asleep" /\ k \in fresh

\* Nobody sleeps over work: no workload of an unlocked block is ready, or can
\* be made ready because it was signalled (kernel.c:402-410) or the workload of
\* the same block it waits for has finished.
NoOversleep ==
  \A k \in Kernels : SoundAsleep(k) =>
    \A b \in Blocks : lock[b] = NoActor =>
      \A i \in IdsOf(b) :
        /\ bits[i].state # "READY"
        /\ Wakeable(b, bits[i]) => bits[i].wait_id # NoId /\ Block(bits[i].wait_id) # b

\* Waiting on a workload of another block, too, is noticed by some kernel that
\* is awake (kernel.c:716-741 reads the other block without its lock).
NeverAllOversleep ==
  (\A k \in Kernels : SoundAsleep(k)) /\ (\A b \in Blocks : lock[b] = NoActor) =>
     \A i \in Ids : bits[i].state # "READY" /\ ~ Wakeable(Block(i), bits[i])

\* "When a workload is unscheduled, it will be put into a finished state and any
\* entities waiting on the workload to finish will be resumed"
\* (include/spu/mars/module.h:204): not so long as an idle kernel sleeps and
\* every other one is busy with a workload.
IdleKernelResumes ==
  (\E k \in Kernels : SoundAsleep(k)) /\ (\A b \in Blocks : lock[b] = NoActor) =>
     \/ \E k \in Kernels : ~ SoundAsleep(k) /\ ~ (pc[k] = "run" /\ op[k] = NoOp)
     \/ \A i \in Ids : ~ Wakeable(Block(i), bits[i])

Executes(k, i) == \/ cur[k] # NoRun /\ cur[k].id = i
                  \/ tgt[k] = i

\* A running workload is executed by some kernel: no transition orphans it.
RunningIsExecuted ==
  \A i \in Ids : bits[i].state = "RUNNING" => \E k \in Kernels : Executes(k, i)

\* What workload_release gives back is the running workload it executed, not a
\* later scheduling of it or a workload removed since (kernel.c:898-912).
ReleasesOwnRun ==
  [][\A k \in Kernels : ret[k] = "none" /\ ret'[k] = "release"
       => bits[cur[k].id].state = "RUNNING" /\ cur[k].gen = gen[cur[k].id]]_vars

\* The workload a kernel executes, from choosing it to giving it back.
On(k) == IF tgt[k] # NoId THEN tgt[k]
         ELSE IF cur[k] # NoRun /\ ret[k] # "release" THEN cur[k].id
         ELSE NoId

\* The run a kernel is in is workload i's own: it is running, in the scheduling it
\* was picked in, and on no other kernel.
Own(i) ==
  \A k \in Kernels : On(k) = i =>
    /\ bits[i].state = "RUNNING"
    /\ cur[k] # NoRun => cur[k].gen = gen[i]
    /\ \A j \in Kernels : On(j) = i => j = k

\* workload_release tells from the state alone whether its run was aborted, so a
\* run must not go stale under its kernel: only unscheduling it while it runs
\* does that (kernel.c:511).  No race of picks, searches, schedules, removes,
\* cancels and releases, of stale runs of other schedulings either, makes a
\* kernel's own run another one or gives it to two kernels.
RunsStayOwn ==
  [][\A i \in Ids : Own(i) =>
       \/ Own(i)'
       \/ bits[i].state = "RUNNING" /\ bits'[i].state = "UNSCHEDULING"]_vars

\* A host thread sleeping in mars_workload_queue_wait on a workload that
\* memory says is finished will be woken: somebody still owes the notification.
FinishIsNotified ==
  \A h \in Hosts : pc[h] = "sleep" /\ pub[tgt[h]] = "FINISHED" =>
    \/ notified
    \/ \E a \in Actors : pc[a] = "notify" \/ ret[a] = "notify"
    \/ ~ HandlerRuns

Lifecycle == INSTANCE WorkloadLifecycle
               WITH state <- [i \in Ids |-> bits[i].state], on <- [k \in Kernels |-> On(k)]

\* The queue implements the life of workloads its clients are told about.
LifecycleKept == Lifecycle!Spec

\* A ready workload is taken up (or unscheduled, or the kernels are told to
\* exit): with equal priorities the counters of workloads and blocks keep any
\* workload from being passed over for ever.
ReadyIsServed ==
  \A i \in Ids : bits[i].state = "READY" ~> bits[i].state # "READY" \/ flag

\* A signalled workload waiting for a signal is resumed.
SignalResumes ==
  \A i \in Ids : bits[i].state = "WAITING" /\ bits[i].signal /\ bits[i].wait_id = NoId
                   ~> bits[i].state # "WAITING" \/ flag

\* A workload waiting for a finished one is resumed, unless that one is
\* scheduled again first.
FinishResumes ==
  LET Awaits(i, s) == bits[i].wait_id # NoId /\ bits[bits[i].wait_id].state \in s
  IN  \A i \in Ids :
        bits[i].state = "WAITING" /\ Awaits(i, {"FINISHED"})
          ~> bits[i].state # "WAITING" \/ Awaits(i, State \ {"FINISHED"}) \/ flag

\* After mars_workload_queue_exit every kernel leaves its main loop.
ExitStopsKernels == flag ~> \A k \in Kernels : pc[k] = "exited"

\* A host thread waiting for a workload that has finished returns from
\* mars_workload_queue_wait, unless it is scheduled or removed again first, or
\* the first kernel to exit ended the event handler thread.
WaitReturns ==
  \A h \in Hosts, i \in Ids :
    tgt[h] = i /\ bits[i].state = "FINISHED"
      ~> tgt[h] # i \/ bits[i].state # "FINISHED" \/ ~ HandlerRuns

=============================================================================
