------------------------- MODULE WorkloadQueueProofs -------------------------
(***************************************************************************)
(* Type correctness of WorkloadQueue, who owns a block's lock, what memory *)
(* shows of a block, and that the header summarises the blocks, for any    *)
(* number of kernels, host threads, blocks and workloads.                  *)
(***************************************************************************)
EXTENDS WorkloadQueue, TLAPS

\* Where an actor holds the lock of its block, and where its blk is one.
Sections == {"searching", "hdr_reset", "hdr_state", "hdr_access", "unlock"}
Located  == Sections \union {"search", "pick", "alloc"}

\* The local variables an actor is about to use have been set.
Control ==
  /\ \A a \in Actors : /\ ret[a] = "none" <=> pc[a] \notin Sections
                       /\ pc[a] \in Located => blk[a] \in Blocks
  /\ \A k \in Kernels :
       /\ pc[k] = "run" \/ ret[k] \in {"release", "call"} => cur[k] \in Run
       /\ ret[k] = "dispatch" => tgt[k] \in Ids
       /\ pc[k] \in {"scan", "search"} \/ ret[k] = "scan" => view[k] \in Header
       /\ pc[k] = "searching" => slot[k] \in Slots

\* A block's lock is held by the actor inside a section on the block.
Owner == \A a \in Actors, b \in Blocks : lock[b] = a <=> pc[a] \in Sections /\ blk[a] = b

\* Memory shows the states of an unlocked block; while a search goes on, all
\* but the workloads it has made ready.
Published ==
  /\ \A i \in Ids : lock[Block(i)] = NoActor => pub[i] = bits[i].state
  /\ \A a \in Actors, i \in Ids :
       lock[Block(i)] = a /\ pc[a] = "searching" =>
         \/ pub[i] = bits[i].state
         \/ pub[i] = "WAITING" /\ bits[i].state = "READY"

\* HeaderCovers and HeaderExact for one block.
Summarised(b) ==
  ~ Pending(b) =>
    /\ \A i \in ReadyIn(b) : hdr[b].ready /\ bits[i].priority <= hdr[b].priority
    /\ WaitingIn(b) # {} => hdr[b].waiting
    /\ (\A i \in IdsOf(b) : bits[i].state # "UNSCHEDULING") =>
         /\ hdr[b].ready = (ReadyIn(b) # {})
         /\ hdr[b].waiting = (WaitingIn(b) # {})
         /\ IsTop(b, hdr[b].priority)

AllSummarised == \A b \in Blocks : Summarised(b)

IInv == TypeOK /\ Control /\ Owner /\ Published /\ AllSummarised

-----------------------------------------------------------------------------
\* A workload's id is made of its block and its index.
LEMMA IdTypes ==
  /\ \A i \in Ids : Block(i) \in Blocks
  /\ \A b \in Blocks, s \in Slots : <<b, s>> \in Ids /\ Block(<<b, s>>) = b
BY DEF Ids, Block

\* What the operators on workload bits and summaries return.
LEMMA BitsTypes ==
  /\ \A w \in Bits :
       /\ w.state \in State /\ w.priority \in Priority /\ w.counter \in Counter
       /\ \A s \in State : /\ [w EXCEPT !.state = s] \in Bits
                           /\ [w EXCEPT !.state = s].state = s
                           /\ [w EXCEPT !.state = s].priority = w.priority
  /\ \A w \in Bits, v \in Ids \union {NoId} :
       /\ [w EXCEPT !.wait_id = v] \in Bits
       /\ [w EXCEPT !.wait_id = v].state = w.state
       /\ [w EXCEPT !.wait_id = v].priority = w.priority
  /\ \A w \in Bits, v \in BOOLEAN :
       /\ [w EXCEPT !.signal = v] \in Bits
       /\ [w EXCEPT !.signal = v].state = w.state
       /\ [w EXCEPT !.signal = v].priority = w.priority
BY DEF Bits

LEMMA StateNames ==
  {"NONE", "ADDING", "REMOVING", "SCHEDULING", "UNSCHEDULING",
   "READY", "WAITING", "RUNNING", "FINISHED"} \subseteq State
BY DEF State

LEMMA CounterTypes ==
  /\ \A c \in Counter : Aged(c, COUNTER_MAX) \in Counter
  /\ \A c \in BlockCounter : Aged(c, BLOCK_COUNTER_MAX) \in BlockCounter
  /\ 0 \in Counter /\ COUNTER_MAX \in Counter /\ 0 \in Priority
  /\ 0 \in BlockCounter /\ BLOCK_COUNTER_MAX \in BlockCounter
  /\ 0 \in Blocks /\ 0 \in 0 .. NumBlocks /\ 0 \in 0 .. PerBlock /\ 1 \in Slots
  /\ \A b \in Blocks : b + 1 \in 0 .. NumBlocks
BY SizesAssumption DEF Aged, Counter, BlockCounter, Priority, Blocks, Slots

LEMMA ScheduledType ==
  \A w \in Bits, p \in Priority, c \in Counter :
     Scheduled(w, p, c) \in Bits /\ Scheduled(w, p, c).state = "SCHEDULING"
BY DEF Scheduled, Bits, State

LEMMA WokenType ==
  \A w \in Bits : /\ Woken(w) \in Bits /\ Woken(w).state = "READY"
                  /\ Woken(w).priority = w.priority
BY DEF Woken, Bits, State

LEMMA PickedType ==
  \A w \in Bits :
     /\ [w EXCEPT !.state = "RUNNING", !.counter = 0] \in Bits
     /\ [w EXCEPT !.counter = Aged(@, COUNTER_MAX)] \in Bits
     /\ [w EXCEPT !.counter = Aged(@, COUNTER_MAX)].state = w.state
     /\ [w EXCEPT !.counter = Aged(@, COUNTER_MAX)].priority = w.priority
BY CounterTypes DEF Bits, State

LEMMA SummaryTypes ==
  \A h \in Header, b \in Blocks :
    /\ h[b] \in Summary
    /\ h[b].ready \in BOOLEAN /\ h[b].waiting \in BOOLEAN
    /\ h[b].priority \in Priority /\ h[b].counter \in BlockCounter
    /\ \A c \in BlockCounter : [h EXCEPT ![b].counter = c] \in Header
    /\ \A r, w \in BOOLEAN, p \in Priority :
         [h EXCEPT ![b] = [ready |-> r, waiting |-> w, priority |-> p,
                           counter |-> @.counter]] \in Header
BY DEF Header, Summary

-----------------------------------------------------------------------------
\* The block stays summarised if nothing the summary shows has changed.
LEMMA SummaryKept ==
  ASSUME NEW b \in Blocks, Summarised(b), ~ Pending(b)' => ~ Pending(b),
         hdr[b].ready' = hdr[b].ready, hdr[b].waiting' = hdr[b].waiting,
         hdr[b].priority' = hdr[b].priority,
         \A i \in IdsOf(b) :
           /\ bits[i].state' = "READY" <=> bits[i].state = "READY"
           /\ bits[i].state' = "WAITING" <=> bits[i].state = "WAITING"
           /\ bits[i].state = "UNSCHEDULING" => bits[i].state' = "UNSCHEDULING"
           /\ bits[i].state = "READY" => bits[i].priority' = bits[i].priority
  PROVE  Summarised(b)'
<1>1. IdsOf(b)' = IdsOf(b)
  BY DEF IdsOf
<1>2. ReadyIn(b)' = ReadyIn(b)
  BY <1>1 DEF ReadyIn
<1>3. WaitingIn(b)' = WaitingIn(b)
  BY <1>1 DEF WaitingIn
<1>4. \A i \in ReadyIn(b) : i \in IdsOf(b) /\ bits[i].priority' = bits[i].priority
  BY DEF ReadyIn
<1>5. \A p : IsTop(b, p) => IsTop(b, p)'
  BY <1>2, <1>4 DEF IsTop
<1> QED
  BY <1>1, <1>2, <1>3, <1>4, <1>5 DEF Summarised

\* ... and if its work becomes less because a workload is being unscheduled.
LEMMA SummaryExcused ==
  ASSUME NEW b \in Blocks, Summarised(b), ~ Pending(b)' => ~ Pending(b),
         hdr[b].ready' = hdr[b].ready, hdr[b].waiting' = hdr[b].waiting,
         hdr[b].priority' = hdr[b].priority,
         \A i \in IdsOf(b) :
           /\ bits[i].state' = "READY" =>
                bits[i].state = "READY" /\ bits[i].priority' = bits[i].priority
           /\ bits[i].state' = "WAITING" => bits[i].state = "WAITING",
         NEW j \in IdsOf(b), bits[j].state' = "UNSCHEDULING"
  PROVE  Summarised(b)'
<1>1. IdsOf(b)' = IdsOf(b)
  BY DEF IdsOf
<1>2. \A i \in ReadyIn(b)' : i \in ReadyIn(b) /\ bits[i].priority' = bits[i].priority
  BY <1>1 DEF ReadyIn
<1>3. WaitingIn(b)' \subseteq WaitingIn(b)
  BY <1>1 DEF WaitingIn
<1> QED
  BY <1>1, <1>2, <1>3 DEF Summarised

\* Steps outside the critical sections, that change no workload and no summary.
LEMMA OutsideStep ==
  ASSUME IInv, TypeOK', Control', UNCHANGED <<bits, pub, lock>>,
         \A b \in Blocks : /\ hdr[b].ready' = hdr[b].ready
                           /\ hdr[b].waiting' = hdr[b].waiting
                           /\ hdr[b].priority' = hdr[b].priority,
         \A a \in Actors : \/ pc'[a] \notin Sections /\ pc[a] \notin Sections
                           \/ pc'[a] = pc[a] /\ blk'[a] = blk[a]
  PROVE  IInv'
<1> USE DEF IInv
<1>1. Owner'
  BY DEF Owner
<1>2. Published'
  BY DEF Published, Sections
<1>3. ASSUME NEW b \in Blocks PROVE Summarised(b)'
  <2>1. Pending(b)' <=> Pending(b)
    <3>1. lock[b] # NoActor => lock[b] \in Actors /\ pc'[lock[b]] = pc[lock[b]]
      BY DEF TypeOK, Owner
    <3>2. Found(b, bits)' = Found(b, bits)
      BY DEF Found, IdsOf
    <3> QED
      BY <3>1, <3>2 DEF Pending
  <2> QED
    BY <2>1, SummaryKept DEF AllSummarised
<1> QED
  BY <1>1, <1>2, <1>3 DEF AllSummarised

\* A block's owner changes one workload and goes on to update the header.
LEMMA ChangeStep ==
  ASSUME IInv, NEW a \in Actors, NEW i \in Ids, NEW new \in Bits,
         NEW label \in {"hdr_state", "hdr_access"},
         NEW after \in {"call", "notify", "release"},
         Change(a, i, new, label, after),
         pc[a] = IF a \in Kernels THEN "run" ELSE "host",
         label = "hdr_access" => /\ new.state = bits[i].state
                                 /\ new.priority = bits[i].priority,
         op' \in [Actors -> Op \union {NoOp}], gen' \in [Ids -> 0 .. MaxSchedules]
  PROVE  IInv'
<1> USE DEF IInv
<1>0. Block(i) \in Blocks /\ lock[Block(i)] = NoActor /\ NoActor \notin Actors
  BY IdTypes, ActorsAssumption DEF Change
<1>1. TypeOK'
  <2>1. new.state \in State
    BY BitsTypes
  <2>2. Block(i) \in 0 .. NumBlocks
    BY <1>0, SizesAssumption DEF Blocks
  <2>3. pub' \in [Ids -> State]
    BY <2>1 DEF TypeOK, Change
  <2> QED
    BY <1>0, <2>2, <2>3 DEF TypeOK, Change, Goto, Label, After
<1>2. Control'
  BY <1>0, ActorsAssumption DEF Control, TypeOK, Change, Goto, Sections, Located, Actors
<1>3. Owner'
  BY <1>0 DEF Owner, TypeOK, Change, Goto, Sections
<1>4. Published'
  <2>1. \A j \in Ids : Block(j) # Block(i) => bits'[j] = bits[j] /\ pub'[j] = pub[j]
    BY DEF Change, TypeOK
  <2>2. \A b \in Blocks : b # Block(i) => lock'[b] = lock[b]
    BY DEF Change, TypeOK
  <2>3. lock'[Block(i)] = a /\ pc'[a] # "searching"
    BY <1>0 DEF Change, Goto, TypeOK
  <2>4. \A x \in Actors : pc'[x] = "searching" => pc[x] = "searching"
    BY DEF Change, Goto, TypeOK
  <2> QED
    BY <1>0, <2>1, <2>2, <2>3, <2>4, IdTypes DEF Published
<1>5. ASSUME NEW b \in Blocks PROVE Summarised(b)'
  <2>1. CASE b = Block(i) /\ label = "hdr_state"
    <3>1. lock'[b] = a /\ pc'[a] = "hdr_state"
      BY <2>1, <1>0 DEF Change, Goto, TypeOK
    <3> QED
      BY <3>1, <1>0 DEF Summarised, Pending
  <2>2. CASE b = Block(i) /\ label = "hdr_access"
    <3>1. ~ Pending(b)
      BY <2>2, <1>0 DEF Pending
    <3>2. \A j \in IdsOf(b) : /\ bits[j].state' = bits[j].state
                              /\ bits[j].priority' = bits[j].priority
      BY <2>2 DEF Change, TypeOK, IdsOf
    <3> QED
      BY <3>1, <3>2, SummaryKept DEF AllSummarised, Change
  <2>3. CASE b # Block(i)
    <3>1. \A j \in IdsOf(b) : bits'[j] = bits[j] /\ pub'[j] = pub[j]
      BY <2>3 DEF Change, TypeOK, IdsOf
    <3>2. Pending(b)' <=> Pending(b)
      <4>1. lock'[b] = lock[b]
        BY <2>3 DEF Change, TypeOK
      <4>2. lock[b] # NoActor => pc'[lock[b]] = pc[lock[b]]
        BY DEF Change, Goto, TypeOK, Owner, Sections
      <4>3. Found(b, bits)' = Found(b, bits)
        BY <3>1 DEF Found, IdsOf
      <4> QED
        BY <4>1, <4>2, <4>3 DEF Pending
    <3> QED
      BY <3>1, <3>2, SummaryKept DEF AllSummarised, Change
  <2> QED
    BY <2>1, <2>2, <2>3
<1> QED
  BY <1>1, <1>2, <1>3, <1>4, <1>5 DEF AllSummarised

\* What a header's summary does not show: new may replace bits[i].
Unseen(i, new) ==
  \/ new.state = bits[i].state /\ new.priority = bits[i].priority
  \/ /\ new.state \notin {"READY", "WAITING"}
     /\ \/ bits[i].state \notin {"READY", "WAITING", "UNSCHEDULING"}
        \/ new.state = "UNSCHEDULING"

\* A workload of an unlocked block changes without the header's summary changing.
LEMMA UnseenStep ==
  ASSUME IInv, TypeOK', Control', NEW i \in Ids, NEW new \in Bits, Unseen(i, new),
         lock[Block(i)] = NoActor, bits' = [bits EXCEPT ![i] = new],
         pub' = [pub EXCEPT ![i] = new.state], UNCHANGED <<lock, hdr, blk>>,
         \A a \in Actors : \/ pc'[a] \notin Sections /\ pc[a] \notin Sections
                           \/ pc'[a] = pc[a]
  PROVE  IInv'
<1> USE DEF IInv
<1>0. Block(i) \in Blocks /\ NoActor \notin Actors
  BY IdTypes, ActorsAssumption
<1>1. Owner'
  BY DEF Owner
<1>2. Published'
  <2>1. \A j \in Ids : j # i => bits'[j] = bits[j] /\ pub'[j] = pub[j]
    BY DEF TypeOK
  <2>2. pub'[i] = bits'[i].state
    BY DEF TypeOK
  <2>3. \A a \in Actors : pc'[a] = "searching" => pc[a] = "searching"
    BY DEF Sections
  <2> QED
    BY <2>1, <2>2, <2>3 DEF Published
<1>3. ASSUME NEW b \in Blocks PROVE Summarised(b)'
  <2>1. \A j \in IdsOf(b) : j \in Ids /\ (bits'[j] = bits[j] \/ (j = i /\ bits'[j] = new))
    BY DEF TypeOK, IdsOf
  <2>2. Pending(b)' <=> Pending(b)
    <3>1. CASE b = Block(i)
      BY <3>1, <1>0 DEF Pending
    <3>2. CASE b # Block(i)
      <4>1. \A j \in IdsOf(b) : bits'[j] = bits[j] /\ pub'[j] = pub[j]
        BY <3>2 DEF TypeOK, IdsOf
      <4>2. Found(b, bits)' = Found(b, bits)
        BY <4>1 DEF Found, IdsOf
      <4>3. lock[b] # NoActor => pc'[lock[b]] = pc[lock[b]]
        BY DEF TypeOK, Owner
      <4> QED
        BY <4>2, <4>3 DEF Pending
    <3> QED
      BY <3>1, <3>2
  <2>3. CASE i \in IdsOf(b) /\ new.state = "UNSCHEDULING"
    <3>1. bits'[i].state = "UNSCHEDULING"
      BY <2>3 DEF TypeOK
    <3> QED
      BY <2>1, <2>2, <2>3, <3>1, SummaryExcused DEF AllSummarised, Unseen
  <2>4. CASE ~ (i \in IdsOf(b) /\ new.state = "UNSCHEDULING")
    BY <2>1, <2>2, <2>4, SummaryKept DEF AllSummarised, Unseen
  <2> QED
    BY <2>3, <2>4
<1> QED
  BY <1>1, <1>2, <1>3 DEF AllSummarised

LEMMA ChangeOnlyStep ==
  ASSUME IInv, NEW a \in Actors, NEW i \in Ids, NEW new \in Bits,
         ChangeOnly(a, i, new), Unseen(i, new),
         op' \in [Actors -> Op \union {NoOp}], gen' \in [Ids -> 0 .. MaxSchedules]
  PROVE  IInv'
<1> USE DEF IInv
<1>1. TypeOK'
  <2>1. new.state \in State
    BY BitsTypes
  <2>2. pub' \in [Ids -> State]
    BY <2>1 DEF TypeOK, ChangeOnly
  <2> QED
    BY <2>2 DEF TypeOK, ChangeOnly
<1>2. Control'
  BY DEF Control, ChangeOnly
<1> QED
  BY <1>1, <1>2, UnseenStep DEF ChangeOnly

\* The owner of a block puts it back.
LEMMA UnlockStep ==
  ASSUME IInv, NEW a \in Actors,
         NEW label \in {"run", "host", "notify", "reserve", "scan"},
         Unlock(a, label),
         blk' \in [Actors -> 0 .. NumBlocks], tgt' \in [Actors -> Ids \union {NoId}],
         retry' \in [Kernels -> BOOLEAN], cur' \in [Kernels -> Run \union {NoRun}],
         \A x \in Actors : x # a => blk'[x] = blk[x] /\ tgt'[x] = tgt[x],
         \A x \in Kernels : x # a => cur'[x] = cur[x],
         a \in Kernels => /\ label = "run" => cur'[a] \in Run
                          /\ label = "scan" => view[a] \in Header
  PROVE  IInv'
<1> USE DEF IInv
<1>0. /\ pc[a] = "unlock" /\ blk[a] \in Blocks /\ lock[blk[a]] = a
      /\ NoActor \notin Actors /\ Kernels \subseteq Actors
  BY ActorsAssumption DEF Unlock, Control, Owner, Sections, Located, Actors
<1>1. TypeOK'
  <2>1. \A i \in Ids : bits[i].state \in State
    BY BitsTypes DEF TypeOK
  <2>2. pub' \in [Ids -> State]
    BY <2>1 DEF TypeOK, Unlock
  <2> QED
    BY <1>0, <2>2 DEF TypeOK, Unlock, Goto, Label, After
<1>2. Control'
  BY <1>0 DEF Control, TypeOK, Unlock, Goto, Sections, Located
<1>3. Owner'
  BY <1>0 DEF Owner, TypeOK, Unlock, Goto, Sections
<1>4. Published'
  <2>1. \A j \in Ids : Block(j) # blk[a] => pub'[j] = pub[j]
    BY DEF Unlock, TypeOK
  <2>2. \A j \in Ids : Block(j) = blk[a] => pub'[j] = bits'[j].state
    BY DEF Unlock, TypeOK
  <2>3. \A b \in Blocks : b # blk[a] => lock'[b] = lock[b]
    BY DEF Unlock, TypeOK
  <2>4. \A x \in Actors : pc'[x] = "searching" => pc[x] = "searching"
    BY DEF Unlock, Goto, TypeOK
  <2> QED
    BY <1>0, <2>1, <2>2, <2>3, <2>4, IdTypes DEF Published, Unlock
<1>5. ASSUME NEW b \in Blocks PROVE Summarised(b)'
  <2>1. CASE b = blk[a]
    <3>1. ~ Pending(b)
      BY <2>1, <1>0 DEF Pending
    <3> QED
      BY <3>1, SummaryKept DEF AllSummarised, Unlock
  <2>2. CASE b # blk[a]
    <3>1. lock'[b] = lock[b]
      BY <2>2 DEF Unlock, TypeOK
    <3>2. lock[b] # NoActor => pc'[lock[b]] = pc[lock[b]]
      BY <2>2, <1>0 DEF Unlock, Goto, TypeOK, Owner
    <3>3. \A j \in IdsOf(b) : bits'[j] = bits[j] /\ pub'[j] = pub[j]
      BY <2>2 DEF Unlock, TypeOK, IdsOf
    <3>4. Found(b, bits)' = Found(b, bits)
      BY <3>3 DEF Found, IdsOf
    <3>5. Pending(b)' <=> Pending(b)
      BY <3>1, <3>2, <3>4 DEF Pending
    <3> QED
      BY <3>3, <3>5, SummaryKept DEF AllSummarised, Unlock
  <2> QED
    BY <2>1, <2>2
<1> QED
  BY <1>1, <1>2, <1>3, <1>4, <1>5 DEF AllSummarised

-----------------------------------------------------------------------------
\* A queue to which some workloads were added.
LEMMA InvInit ==
  ASSUME NEW added \in SUBSET Ids, InitWith(added)
  PROVE  IInv
<1>0. /\ 0 \in Priority /\ 0 \in Counter /\ BLOCK_COUNTER_MAX \in BlockCounter
      /\ 0 \in 0 .. NumBlocks
      /\ 0 \in 0 .. PerBlock /\ 0 \in 0 .. MaxSchedules
  BY CounterTypes, SizesAssumption
<1>1. TypeOK
  <2>1. pub \in [Ids -> State]
    BY DEF InitWith, State
  <2>2. bits \in [Ids -> Bits]
    BY <1>0, <2>1 DEF InitWith, Bits
  <2>3. hdr \in Header
    BY <1>0 DEF InitWith, Header, Summary
  <2> QED
    BY <1>0, <2>1, <2>2, <2>3 DEF InitWith, TypeOK, Label, After
<1>2. Control
  BY DEF InitWith, Control, Sections, Located, Actors
<1>3. Owner
  BY ActorsAssumption DEF InitWith, Owner, Sections
<1>4. Published
  BY ActorsAssumption, IdTypes DEF InitWith, Published
<1>5. ASSUME NEW b \in Blocks PROVE Summarised(b)
  <2>1. \A i \in Ids : bits[i].state \in {"FINISHED", "NONE"}
    BY DEF InitWith
  <2>2. ReadyIn(b) = {} /\ WaitingIn(b) = {}
    BY <2>1 DEF ReadyIn, WaitingIn, IdsOf
  <2>3. hdr[b] = [ready |-> FALSE, waiting |-> FALSE, priority |-> 0,
               counter |-> BLOCK_COUNTER_MAX]
    BY DEF InitWith
  <2>4. hdr[b].ready = FALSE /\ hdr[b].waiting = FALSE /\ hdr[b].priority = 0
    BY <2>3
  <2>5. IsTop(b, 0) /\ (ReadyIn(b) # {}) = FALSE /\ (WaitingIn(b) # {}) = FALSE
    BY <2>2 DEF IsTop
  <2> QED
    BY <2>2, <2>4, <2>5 DEF Summarised
<1> QED
  BY <1>1, <1>2, <1>3, <1>4, <1>5 DEF IInv, AllSummarised

\* The main loop where it holds no lock.
LEMMA LoopStep ==
  ASSUME IInv, NEW k \in Kernels,
         \/ Reserve(k) \/ Choose(k) \/ PickNothing(k)
         \/ ReleaseAborted(k) \/ IdleWait(k) \/ Wake(k)
  PROVE  IInv'
<1> k \in Actors
  BY DEF Actors
<1> USE DEF IInv, TypeOK, Control, Goto, Label, After, Sections, Located
<1>1. CASE Reserve(k)
  <2>1. pc[k] = "reserve" /\ UNCHANGED <<bits, pub, lock, hdr, flag, ret, tgt, slot, cur,
                                         op, notified, gen>>
    BY <1>1 DEF Reserve
  <2>2. ASSUME flag PROVE TypeOK' /\ Control'
    <3>1. /\ pc' = [pc EXCEPT ![k] = "exited"]
          /\ UNCHANGED <<fresh, view, blk, best, retry>>
      BY <1>1, <2>2 DEF Reserve
    <3>2. TypeOK'
      BY <2>1, <3>1
    <3> QED
      BY <2>1, <3>1, <3>2
  <2>3. ASSUME ~ flag PROVE TypeOK' /\ Control'
    <3>1. /\ pc' = [pc EXCEPT ![k] = "scan"]
          /\ view' = [view EXCEPT ![k] = hdr]
          /\ fresh' = fresh \union {k}
          /\ blk' = [blk EXCEPT ![k] = 0]
          /\ best' = [best EXCEPT ![k] = NoBest]
          /\ retry' = [retry EXCEPT ![k] = FALSE]
      BY <1>1, <2>3 DEF Reserve
    <3>2. TypeOK'
      BY <2>1, <3>1, CounterTypes
    <3>3. \A a \in Actors : a # k => pc'[a] = pc[a] /\ blk'[a] = blk[a]
      BY <3>1
    <3> QED
      BY <2>1, <3>1, <3>2, <3>3
  <2>4. TypeOK' /\ Control'
    BY <2>2, <2>3
  <2> QED
    BY <1>1, <2>1, <2>4, OutsideStep DEF Reserve
<1>2. CASE Choose(k)
  <2>1. /\ pc[k] = "scan"
        /\ view' = [view EXCEPT ![k] = NoView]
        /\ best' = [best EXCEPT ![k] = NoBest]
        /\ retry' = [retry EXCEPT ![k] = FALSE]
        /\ UNCHANGED <<bits, pub, lock, hdr, flag, fresh, ret, tgt, slot, cur, op,
                       notified, gen>>
    BY <1>2 DEF Choose
  <2>2. \E label \in {"pick", "reserve", "idle"}, b \in Blocks :
          /\ pc' = [pc EXCEPT ![k] = label]
          /\ blk' = [blk EXCEPT ![k] = b]
    <3>1. CASE best[k] # NoBest
      BY <1>2, <3>1 DEF Choose, Candidate
    <3>2. CASE best[k] = NoBest
      BY <1>2, <3>2, CounterTypes DEF Choose
    <3> QED
      BY <3>1, <3>2
  <2>3. PICK label \in {"pick", "reserve", "idle"}, b \in Blocks :
          /\ pc' = [pc EXCEPT ![k] = label]
          /\ blk' = [blk EXCEPT ![k] = b]
    BY <2>2
  <2>4. b \in 0 .. NumBlocks
    BY SizesAssumption DEF Blocks
  <2>5. TypeOK'
    BY <2>1, <2>3, <2>4
  <2>6. Control'
    BY <2>1, <2>3
  <2> QED
    BY <1>2, <2>1, <2>3, <2>5, <2>6, OutsideStep
<1>3. CASE PickNothing(k)
  <2>1. TypeOK'
    BY <1>3 DEF PickNothing
  <2>2. Control'
    BY <1>3 DEF PickNothing
  <2> QED
    BY <1>3, <2>1, <2>2, OutsideStep DEF PickNothing
<1>4. CASE IdleWait(k)
  <2>1. TypeOK'
    BY <1>4 DEF IdleWait
  <2>2. Control'
    BY <1>4 DEF IdleWait
  <2> QED
    BY <1>4, <2>1, <2>2, OutsideStep DEF IdleWait
<1>5. CASE Wake(k)
  <2>1. TypeOK'
    BY <1>5 DEF Wake
  <2>2. Control'
    BY <1>5 DEF Wake
  <2> QED
    BY <1>5, <2>1, <2>2, OutsideStep DEF Wake
<1>6. CASE ReleaseAborted(k)
  <2>1. TypeOK'
    BY <1>6 DEF ReleaseAborted
  <2>2. Control'
    BY <1>6 DEF ReleaseAborted
  <2> QED
    BY <1>6, <2>1, <2>2, OutsideStep DEF ReleaseAborted
<1> QED
  BY <1>1, <1>2, <1>3, <1>4, <1>5, <1>6

LEMMA BroadcastType ==
  \A f \in [Actors -> Label] :
    /\ Broadcast(f) \in [Actors -> Label]
    /\ \A a \in Actors : \/ Broadcast(f)[a] = f[a]
                         \/ f[a] = "sleep" /\ Broadcast(f)[a] = "test"
BY DEF Broadcast, Label

\* Calls, waits and notifications where no lock is held afterwards.
LEMMA OutsideCallStep ==
  ASSUME IInv, NEW a \in Actors,
         \/ a \in Hosts /\ (AddBegin(a) \/ AllocNext(a) \/ Test(a) \/ Exit(a))
         \/ a \in Hosts /\ \E i \in Ids : Wait(a, i)
         \/ Notify(a) \/ EndFails(a)
  PROVE  IInv'
<1> USE DEF IInv, TypeOK, Control, Goto, Label, Sections, Located
<1>0. a \in Hosts => a \notin Kernels /\ \A k \in Kernels : k # a
  BY ActorsAssumption
<1>k. Kernels \subseteq Actors
  BY DEF Actors
<1>1. CASE a \in Hosts /\ AddBegin(a)
  <2>1. /\ pc[a] = "host"
        /\ blk' = [blk EXCEPT ![a] = 0]
        /\ pc' = [pc EXCEPT ![a] = "alloc"]
        /\ UNCHANGED <<bits, pub, lock, hdr, flag, fresh, ret, tgt, view, best, retry,
                       slot, cur, op, notified, gen>>
    BY <1>0, <1>1 DEF AddBegin, Caller
  <2>2. TypeOK'
    BY <2>1, CounterTypes
  <2>3. Control'
    BY <1>0, <1>1, <1>k, <2>1, CounterTypes
  <2> QED
    BY <2>1, <2>2, <2>3, OutsideStep
<1>2. CASE a \in Hosts /\ AllocNext(a)
  <2>1. /\ pc[a] = "alloc"
        /\ UNCHANGED <<bits, pub, lock, hdr, flag, fresh, ret, tgt, view, best, retry,
                       slot, cur, op, notified, gen>>
    BY <1>2 DEF AllocNext
  <2>2. CASE blk[a] + 1 < NumBlocks
    <3>1. blk' = [blk EXCEPT ![a] = blk[a] + 1] /\ pc' = pc
      BY <1>2, <2>2 DEF AllocNext
    <3>2. blk[a] + 1 \in Blocks /\ blk[a] + 1 \in 0 .. NumBlocks
      BY <2>1, <2>2, SizesAssumption DEF Blocks
    <3>3. TypeOK'
      BY <2>1, <3>1, <3>2
    <3>4. Control'
      BY <1>0, <1>2, <1>k, <2>1, <3>1, <3>2
    <3> QED
      BY <2>1, <3>1, <3>3, <3>4, OutsideStep
  <2>3. CASE ~ (blk[a] + 1 < NumBlocks)
    <3>1. blk' = blk /\ pc' = [pc EXCEPT ![a] = "host"]
      BY <1>2, <2>3 DEF AllocNext
    <3>2. TypeOK'
      BY <2>1, <3>1
    <3>3. Control'
      BY <1>0, <1>2, <1>k, <2>1, <3>1
    <3> QED
      BY <2>1, <3>1, <3>2, <3>3, OutsideStep
  <2> QED
    BY <2>2, <2>3
<1>3. CASE a \in Hosts /\ Test(a)
  <2>1. /\ pc[a] = "test"
        /\ UNCHANGED <<bits, pub, lock, hdr, flag, fresh, ret, blk, view, best, retry,
                       slot, cur, op, notified, gen>>
    BY <1>3 DEF Test
  <2>2. PICK label \in {"host", "sleep"} : pc' = [pc EXCEPT ![a] = label]
    BY <1>3 DEF Test
  <2>3. tgt' \in [Actors -> Ids \union {NoId}] /\ \A x \in Actors : x # a => tgt'[x] = tgt[x]
    BY <1>3 DEF Test
  <2>4. TypeOK'
    BY <2>1, <2>2, <2>3
  <2>5. Control'
    BY <1>0, <1>3, <1>k, <2>1, <2>2, <2>3
  <2> QED
    BY <2>1, <2>2, <2>4, <2>5, OutsideStep
<1>4. CASE a \in Hosts /\ Exit(a)
  <2>1. TypeOK'
    BY <1>4 DEF Exit, locals
  <2>2. Control'
    BY <1>4 DEF Exit, locals
  <2> QED
    BY <1>4, <2>1, <2>2, OutsideStep DEF Exit, locals
<1>5. CASE a \in Hosts /\ \E i \in Ids : Wait(a, i)
  <2>1. PICK i \in Ids : Wait(a, i)
    BY <1>5
  <2>2. /\ pc[a] = "host"
        /\ tgt' = [tgt EXCEPT ![a] = i]
        /\ pc' = [pc EXCEPT ![a] = "test"]
        /\ UNCHANGED <<bits, pub, lock, hdr, flag, fresh, ret, blk, view, best, retry,
                       slot, cur, op, notified, gen>>
    BY <1>0, <1>5, <2>1 DEF Wait, Caller
  <2>3. TypeOK'
    BY <2>2
  <2>4. Control'
    BY <1>0, <1>5, <1>k, <2>2
  <2> QED
    BY <2>2, <2>3, <2>4, OutsideStep
<1>6. CASE Notify(a)
  <2>1. /\ pc[a] = "notify"
        /\ UNCHANGED <<bits, pub, lock, hdr, flag, fresh, ret, blk, tgt, view, best,
                       retry, slot, cur, op, gen>>
    BY <1>6 DEF Notify
  <2>2. CASE a \in Kernels
    <3>1. /\ notified' \in BOOLEAN
          /\ pc' = [pc EXCEPT ![a] = IF cur[a] = NoRun THEN "reserve" ELSE "run"]
      BY <1>6, <2>2 DEF Notify, HandlerRuns
    <3>2. TypeOK'
      BY <2>1, <3>1
    <3>3. Control'
      BY <2>1, <2>2, <3>1
    <3> QED
      BY <2>1, <3>1, <3>2, <3>3, OutsideStep
  <2>3. CASE a \notin Kernels
    <3>1. /\ notified' = notified
          /\ pc' = Broadcast([pc EXCEPT ![a] = "host"])
      BY <1>6, <2>3 DEF Notify
    <3> DEFINE g == [pc EXCEPT ![a] = "host"]
    <3>2. /\ g \in [Actors -> Label] /\ g[a] = "host"
          /\ \A x \in Actors : x # a => g[x] = pc[x]
      OBVIOUS
    <3>h. pc' = Broadcast(g)
      BY <3>1
    <3> HIDE DEF g
    <3>3. /\ pc' \in [Actors -> Label]
          /\ pc'[a] = "host"
          /\ \A x \in Actors : x # a =>
               \/ pc'[x] = pc[x]
               \/ pc[x] = "sleep" /\ pc'[x] = "test"
      BY <3>h, <3>2, BroadcastType
    <3>4. TypeOK'
      BY <2>1, <3>1, <3>3
    <3>5. Control'
      BY <1>k, <2>1, <2>3, <3>3
    <3> QED
      BY <2>1, <3>3, <3>4, <3>5, OutsideStep
  <2> QED
    BY <2>2, <2>3
<1>7. CASE EndFails(a)
  <2>1. /\ op' \in [Actors -> Op \union {NoOp}]
        /\ UNCHANGED <<bits, pub, lock, hdr, flag, fresh, pc, ret, blk, tgt, view, best,
                       retry, slot, cur, notified, gen>>
    BY <1>7 DEF EndFails, EndOp
  <2>2. TypeOK' /\ Control'
    BY <2>1
  <2> QED
    BY <2>1, <2>2, OutsideStep
<1> QED
  BY <1>1, <1>2, <1>3, <1>4, <1>5, <1>6, <1>7

\* The broadcast by the event handler thread.
LEMMA HandleEventStep == IInv /\ HandleEvent => IInv'
<1> SUFFICES ASSUME IInv, HandleEvent PROVE IInv'
  OBVIOUS
<1>1. /\ pc' \in [Actors -> Label]
      /\ \A x \in Actors : \/ pc'[x] = pc[x]
                           \/ pc[x] = "sleep" /\ pc'[x] = "test"
  BY BroadcastType DEF IInv, TypeOK, HandleEvent
<1>2. /\ notified' \in BOOLEAN
      /\ UNCHANGED <<bits, pub, lock, hdr, flag, fresh, ret, blk, tgt, view, best,
                     retry, slot, cur, op, gen>>
  BY DEF HandleEvent
<1>3. TypeOK'
  BY <1>1, <1>2 DEF IInv, TypeOK
<1>4. Control'
  BY <1>1, <1>2 DEF IInv, Control, Sections, Located, Actors
<1> QED
  BY <1>1, <1>2, <1>3, <1>4, OutsideStep DEF Sections

\* One iteration over the header: an access counts a block's counter up.
LEMMA ScanStep ==
  ASSUME IInv, NEW k \in Kernels, Scan(k)
  PROVE  IInv'
<1> DEFINE b == blk[k]
<1> USE DEF IInv, TypeOK, Control, Goto, Label, Sections, Located
<1>k. Kernels \subseteq Actors
  BY DEF Actors
<1>1. /\ pc[k] = "scan" /\ view[k] \in Header
      /\ UNCHANGED <<bits, pub, lock, flag, ret, tgt, retry, slot, cur, op, notified, gen>>
  BY DEF Scan
<1>2. b \in Blocks /\ b + 1 \in 0 .. NumBlocks /\ b \in 0 .. NumBlocks
  BY <1>k, SizesAssumption DEF Scan, Blocks
<1>3. /\ best' \in [Kernels -> Candidate \union {NoBest}]
      /\ hdr' \in Header /\ fresh' \subseteq Kernels
      /\ view' \in [Kernels -> Header \union {NoView}] /\ view'[k] \in Header
      /\ \A x \in Kernels : x # k => view'[x] = view[x]
      /\ \A c \in Blocks : /\ hdr'[c].ready = hdr[c].ready
                           /\ hdr'[c].waiting = hdr[c].waiting
                           /\ hdr'[c].priority = hdr[c].priority
  <2>1. CASE view[k][b].ready
    <3> DEFINE new == [hdr EXCEPT ![b].counter = Aged(@, BLOCK_COUNTER_MAX)]
               h == view[k][b]
               cand == [block |-> b, priority |-> h.priority, counter |-> h.counter]
    <3>1. Aged(hdr[b].counter, BLOCK_COUNTER_MAX) \in BlockCounter
      BY <1>2, SummaryTypes, CounterTypes
    <3>2. new \in Header
      BY <1>2, <3>1, SummaryTypes
    <3>3. \A c \in Blocks : /\ new[c].ready = hdr[c].ready
                            /\ new[c].waiting = hdr[c].waiting
                            /\ new[c].priority = hdr[c].priority
      BY <1>2 DEF Header, Summary
    <3>4. cand \in Candidate
      BY <1>1, <1>2, SummaryTypes DEF Candidate
    <3>5. /\ WriteHeader(k, new)
          /\ best' = [best EXCEPT ![k] = IF Better(h, @) THEN cand ELSE @]
      BY <2>1 DEF Scan
    <3> HIDE DEF new, cand, h
    <3>6. best' \in [Kernels -> Candidate \union {NoBest}]
      BY <3>4, <3>5
    <3>7. hdr' = new /\ fresh' = {}
      BY <3>5 DEF WriteHeader
    <3>8. \/ view' = view
          \/ view' = [view EXCEPT ![k] = new]
      BY <3>5 DEF WriteHeader
    <3> QED
      BY <1>1, <3>2, <3>3, <3>6, <3>7, <3>8
  <2>2. CASE ~ view[k][b].ready
    BY <1>1, <2>2 DEF Scan
  <2> QED
    BY <2>1, <2>2
<1>4. \/ pc' = [pc EXCEPT ![k] = "search"] /\ blk' = blk
      \/ blk' = [blk EXCEPT ![k] = b + 1] /\ pc' = pc
  BY DEF Scan
<1>5. TypeOK'
  BY <1>1, <1>2, <1>3, <1>4
<1>6. Control'
  BY <1>1, <1>2, <1>3, <1>4, <1>k
<1> QED
  BY <1>1, <1>3, <1>4, <1>5, <1>6, OutsideStep

\* The sections of the header: who writes what.
LEMMA WriteHeaderType ==
  ASSUME TypeOK, Control, NEW a \in Actors, NEW new \in Header, WriteHeader(a, new)
  PROVE  /\ hdr' = new /\ fresh' = {}
         /\ view' \in [Kernels -> Header \union {NoView}]
         /\ \A k \in Kernels : view[k] \in Header => view'[k] \in Header
<1>1. CASE view' = view
  BY <1>1 DEF TypeOK, WriteHeader
<1>2. CASE a \in Kernels /\ view' = [view EXCEPT ![a] = new]
  BY <1>2 DEF TypeOK, WriteHeader
<1> QED
  BY <1>1, <1>2 DEF WriteHeader

\* The owner of a block's lock writes the header and goes on within its section.
LEMMA HeaderStep ==
  ASSUME IInv, NEW a \in Actors, HeaderReset(a) \/ HeaderState(a) \/ HeaderAccess(a)
  PROVE  IInv'
<1> DEFINE b == blk[a]
<1> USE DEF IInv
<1>k. Kernels \subseteq Actors /\ NoActor \notin Actors
  BY ActorsAssumption DEF Actors
<1>1. /\ pc[a] \in {"hdr_reset", "hdr_state", "hdr_access"}
      /\ UNCHANGED <<bits, pub, lock, flag, ret, blk, tgt, best, retry, slot, cur, op,
                     notified, gen>>
  BY DEF HeaderReset, HeaderState, HeaderAccess
<1>2. b \in Blocks /\ lock[b] = a
  BY <1>1 DEF Control, Owner, Sections, Located
<1>3. PICK label \in {"hdr_state", "unlock"}, new \in Header :
        /\ WriteHeader(a, new)
        /\ pc' = [pc EXCEPT ![a] = label]
        /\ \A c \in Blocks : c # b => new[c] = hdr[c]
        /\ \/ label = "hdr_state"
           \/ new = hdr /\ pc[a] = "hdr_access"
           \/ /\ new[b].ready = (ReadyIn(b) # {})
              /\ new[b].waiting = (WaitingIn(b) # {})
              /\ IsTop(b, new[b].priority)
  <2>1. CASE HeaderReset(a)
    <3>1. [hdr EXCEPT ![b].counter = 0] \in Header
      BY <1>2, SummaryTypes, CounterTypes DEF TypeOK
    <3> QED
      BY <1>2, <2>1, <3>1 DEF HeaderReset, Goto, Header, TypeOK
  <2>2. CASE HeaderAccess(a)
    BY <2>2 DEF HeaderAccess, Goto, TypeOK
  <2>3. CASE HeaderState(a)
    <3>1. PICK p \in Priority :
            /\ IsTop(b, p)
            /\ WriteHeader(a, [hdr EXCEPT ![b] =
                 [ready |-> ReadyIn(b) # {}, waiting |-> WaitingIn(b) # {},
                  priority |-> p, counter |-> @.counter]])
      BY <2>3 DEF HeaderState
    <3> DEFINE r == ReadyIn(b) # {}
               w == WaitingIn(b) # {}
               new == [hdr EXCEPT ![b] = [ready |-> r, waiting |-> w, priority |-> p,
                                          counter |-> @.counter]]
    <3>2. r \in BOOLEAN /\ w \in BOOLEAN
      OBVIOUS
    <3> HIDE DEF r, w
    <3>3. new \in Header
      BY <1>2, <3>1, <3>2, SummaryTypes DEF TypeOK
    <3>4. new[b].ready = r /\ new[b].waiting = w /\ new[b].priority = p
      BY <1>2 DEF TypeOK, Header
    <3>5. \A c \in Blocks : c # b => new[c] = hdr[c]
      BY DEF TypeOK, Header
    <3>6. WriteHeader(a, new) /\ pc' = [pc EXCEPT ![a] = "unlock"]
      BY <2>3, <3>1 DEF HeaderState, Goto, r, w
    <3> HIDE DEF new
    <3>7. IsTop(b, new[b].priority)
      BY <3>1, <3>4
    <3>8. new[b].ready = (ReadyIn(b) # {}) /\ new[b].waiting = (WaitingIn(b) # {})
      BY <3>4 DEF r, w
    <3> QED
      BY <3>3, <3>5, <3>6, <3>7, <3>8
  <2> QED
    BY <2>1, <2>2, <2>3
<1>4. /\ hdr' = new /\ fresh' = {}
      /\ view' \in [Kernels -> Header \union {NoView}]
      /\ \A k \in Kernels : view[k] \in Header => view'[k] \in Header
  BY <1>3, WriteHeaderType
<1>5. TypeOK'
  BY <1>1, <1>3, <1>4 DEF TypeOK, Label
<1>6. /\ pc'[a] = label /\ label \in Sections
      /\ \A x \in Actors : x # a => pc'[x] = pc[x]
  BY <1>3 DEF TypeOK, Sections
<1>7. Control'
  BY <1>1, <1>3, <1>4, <1>6, <1>k DEF Control, Sections, Located
<1>8. Owner'
  BY <1>1, <1>2, <1>6 DEF Owner, Sections
<1>9. Published'
  BY <1>1, <1>3, <1>6 DEF Published
<1>10. ASSUME NEW c \in Blocks PROVE Summarised(c)'
  <2>1. CASE c = b /\ label = "hdr_state"
    BY <1>1, <1>2, <1>6, <1>k, <2>1 DEF Summarised, Pending
  <2>2. CASE c = b /\ new = hdr /\ pc[a] = "hdr_access"
    <3>1. ~ Pending(c)
      BY <1>2, <2>2 DEF Pending
    <3> QED
      BY <1>1, <1>4, <2>2, <3>1, SummaryKept DEF AllSummarised
  <2>3. CASE /\ c = b
             /\ new[b].ready = (ReadyIn(b) # {})
             /\ new[b].waiting = (WaitingIn(b) # {})
             /\ IsTop(b, new[b].priority)
    <3>1. ReadyIn(c)' = ReadyIn(c) /\ WaitingIn(c)' = WaitingIn(c)
      BY <1>1 DEF ReadyIn, WaitingIn, IdsOf
    <3>2. \A p : IsTop(c, p) => IsTop(c, p)'
      BY <1>1, <3>1 DEF IsTop
    <3>3. \A i \in ReadyIn(c) : bits[i].priority <= new[b].priority
      BY <2>3 DEF IsTop
    <3> QED
      BY <1>1, <1>4, <2>3, <3>1, <3>2, <3>3 DEF Summarised
  <2>4. CASE c # b
    <3>1. Pending(c)' <=> Pending(c)
      <4>1. lock[c] # NoActor => lock[c] \in Actors /\ lock[c] # a
        BY <1>1, <2>4 DEF Owner, TypeOK
      <4>2. Found(c, bits)' = Found(c, bits)
        BY <1>1 DEF Found, IdsOf
      <4> QED
        BY <1>1, <1>6, <4>1, <4>2 DEF Pending
    <3> QED
      BY <1>1, <1>3, <1>4, <2>4, <3>1, SummaryKept DEF AllSummarised
  <2> QED
    BY <1>3, <2>1, <2>2, <2>3, <2>4
<1> QED
  BY <1>5, <1>7, <1>8, <1>9, <1>10 DEF AllSummarised

\* search_block takes the lock of a block memory shows as it is.
LEMMA SearchLockStep ==
  ASSUME IInv, NEW k \in Kernels, SearchLock(k)
  PROVE  IInv'
<1> DEFINE b == blk[k]
<1> USE DEF IInv
<1>k. Kernels \subseteq Actors /\ NoActor \notin Actors
  BY ActorsAssumption DEF Actors
<1>1. /\ pc[k] = "search" /\ lock[b] = NoActor
      /\ lock' = [lock EXCEPT ![b] = k]
      /\ ret' = [ret EXCEPT ![k] = "scan"]
      /\ slot' = [slot EXCEPT ![k] = 1]
      /\ pc' = [pc EXCEPT ![k] = "searching"]
      /\ UNCHANGED <<bits, pub, hdr, flag, fresh, blk, tgt, view, best, retry, cur,
                     op, notified, gen>>
  BY DEF SearchLock, Goto
<1>2. b \in Blocks /\ view[k] \in Header
  BY <1>1, <1>k DEF Control, Located
<1>3. 1 \in Slots /\ 1 \in 0 .. PerBlock
  BY SizesAssumption DEF Slots
<1>4. TypeOK'
  BY <1>1, <1>2, <1>3, <1>k DEF TypeOK, Label, After
<1>5. Control'
  BY <1>1, <1>2, <1>3, <1>k DEF TypeOK, Control, Sections, Located
<1>6. Owner'
  BY <1>1, <1>2, <1>k DEF TypeOK, Owner, Sections
<1>7. Published'
  <2>1. \A i \in Ids : Block(i) = b => pub[i] = bits[i].state
    BY <1>1 DEF Published
  <2>2. \A c \in Blocks : c # b => lock'[c] = lock[c]
    BY <1>1 DEF TypeOK
  <2>3. \A x \in Actors : x # k => pc'[x] = pc[x]
    BY <1>1 DEF TypeOK
  <2>4. \A c \in Blocks : lock[c] # k
    BY <1>1, <1>k DEF Owner, Sections
  <2>5. lock'[b] = k
    BY <1>1, <1>2 DEF TypeOK
  <2> QED
    BY <1>1, <1>2, <1>k, <2>1, <2>2, <2>3, <2>4, <2>5, IdTypes DEF Published
<1>8. ASSUME NEW c \in Blocks PROVE Summarised(c)'
  <2>1. CASE c = b
    <3>1. ~ Pending(c)
      BY <1>1, <2>1 DEF Pending
    <3> QED
      BY <1>1, <3>1, SummaryKept DEF AllSummarised
  <2>2. CASE c # b
    <3>1. lock'[c] = lock[c] /\ lock[c] # k
      BY <1>1, <1>k, <2>2 DEF TypeOK, Owner, Sections
    <3>2. lock[c] # NoActor => pc'[lock[c]] = pc[lock[c]]
      BY <1>1, <3>1 DEF TypeOK
    <3>3. Found(c, bits)' = Found(c, bits)
      BY <1>1 DEF Found, IdsOf
    <3>4. Pending(c)' <=> Pending(c)
      BY <3>1, <3>2, <3>3 DEF Pending
    <3> QED
      BY <1>1, <3>4, SummaryKept DEF AllSummarised
  <2> QED
    BY <2>1, <2>2
<1> QED
  BY <1>4, <1>5, <1>6, <1>7, <1>8 DEF AllSummarised

\* A search makes a waiting workload ready; the header is updated before the
\* lock is given up.
LEMMA SearchStep ==
  ASSUME IInv, NEW k \in Kernels, Search(k)
  PROVE  IInv'
<1> DEFINE b == blk[k]
           i == <<b, slot[k]>>
<1> USE DEF IInv
<1>k. Kernels \subseteq Actors /\ NoActor \notin Actors
  BY ActorsAssumption DEF Actors
<1>1. /\ pc[k] = "searching"
      /\ UNCHANGED <<pub, lock, hdr, flag, fresh, ret, blk, tgt, view, best, retry,
                     cur, op, notified, gen>>
  BY DEF Search
<1>2. b \in Blocks /\ slot[k] \in Slots /\ lock[b] = k
  BY <1>1, <1>k DEF Control, Owner, Sections, Located
<1>3. i \in Ids /\ Block(i) = b
  BY <1>2, IdTypes
<1>4. /\ \A j \in Ids : j # i => bits'[j] = bits[j]
      /\ \/ bits' = bits
         \/ /\ bits' = [bits EXCEPT ![i] = Woken(bits[i])]
            /\ bits'[i].state = "READY"
            /\ bits[i].state = "WAITING" /\ pub[i] = "WAITING"
  <2>1. CASE Wakeable(b, bits[i])
    <3>1. bits[i].state = "WAITING"
      BY <2>1 DEF Wakeable
    <3>2. bits' = [bits EXCEPT ![i] = Woken(bits[i])]
      BY <2>1 DEF Search
    <3>3. bits[i] \in Bits
      BY <1>3 DEF TypeOK
    <3>4. bits'[i] = Woken(bits[i])
      BY <1>3, <3>2 DEF TypeOK
    <3>5. bits'[i].state = "READY"
      BY <3>3, <3>4, WokenType
    <3>6. pub[i] = "WAITING"
      BY <1>1, <1>2, <1>3, <1>k, <3>1 DEF Published
    <3> QED
      BY <3>1, <3>2, <3>5, <3>6 DEF TypeOK
  <2>2. CASE ~ Wakeable(b, bits[i])
    BY <2>2 DEF Search
  <2> QED
    BY <2>1, <2>2
<1>5. bits' \in [Ids -> Bits]
  BY <1>3, <1>4, WokenType DEF TypeOK
<1>6. /\ pc' \in [Actors -> Label]
      /\ slot' \in [Kernels -> 0 .. PerBlock]
      /\ \A x \in Actors : x # k => pc'[x] = pc[x]
      /\ \A x \in Kernels : x # k => slot'[x] = slot[x]
      /\ \/ pc'[k] = "searching" /\ slot'[k] \in Slots
         \/ pc'[k] = "hdr_state"
         \/ pc'[k] = "unlock" /\ ~ Found(b, bits')
  <2>1. CASE slot[k] < PerBlock
    <3>1. slot[k] + 1 \in Slots /\ slot[k] + 1 \in 0 .. PerBlock
      BY <1>2, <2>1, SizesAssumption DEF Slots
    <3>2. slot' = [slot EXCEPT ![k] = slot[k] + 1] /\ pc' = pc
      BY <2>1 DEF Search
    <3> QED
      BY <1>1, <3>1, <3>2 DEF TypeOK
  <2>2. CASE ~ (slot[k] < PerBlock)
    <3>1. /\ slot' = [slot EXCEPT ![k] = 0]
          /\ pc' = [pc EXCEPT ![k] = IF Found(b, bits') THEN "hdr_state" ELSE "unlock"]
      BY <2>2 DEF Search, Goto
    <3> QED
      BY <1>k, <3>1, CounterTypes DEF TypeOK, Label
  <2> QED
    BY <2>1, <2>2
<1>7. TypeOK'
  BY <1>1, <1>5, <1>6 DEF TypeOK
<1>8. Control'
  BY <1>1, <1>2, <1>6, <1>k DEF Control, Sections, Located
<1>9. Owner'
  BY <1>1, <1>2, <1>6, <1>k DEF Owner, Sections
<1>10. Published'
  BY <1>1, <1>2, <1>3, <1>4, <1>6, <1>k DEF Published
<1>11. ASSUME NEW c \in Blocks PROVE Summarised(c)'
  <2>1. CASE c = b
    <3>1. CASE bits' = bits
      <4>1. ~ Pending(c)' => ~ Pending(c)
        <5>1. Found(c, bits)' = Found(c, bits) /\ Found(c, bits') = Found(c, bits)
          BY <1>1, <3>1 DEF Found, IdsOf
        <5> QED
          BY <1>1, <1>2, <1>6, <1>k, <2>1, <5>1 DEF Pending
      <4> QED
        BY <1>1, <3>1, <4>1, SummaryKept DEF AllSummarised
    <3>2. CASE bits' # bits
      <4>1. i \in IdsOf(c) /\ bits'[i].state # pub[i]
        BY <1>3, <1>4, <2>1, <3>2 DEF IdsOf
      <4>2. Found(c, bits') /\ Found(c, bits)'
        BY <1>1, <4>1 DEF Found, IdsOf
      <4>3. Pending(c)'
        BY <1>1, <1>2, <1>6, <1>k, <2>1, <4>2 DEF Pending
      <4> QED
        BY <4>3 DEF Summarised
    <3> QED
      BY <3>1, <3>2
  <2>2. CASE c # b
    <3>1. \A j \in IdsOf(c) : bits'[j] = bits[j] /\ pub'[j] = pub[j]
      BY <1>1, <1>3, <1>4, <2>2 DEF IdsOf
    <3>2. lock[c] # NoActor => pc'[lock[c]] = pc[lock[c]]
      BY <1>1, <1>6, <2>2 DEF TypeOK, Owner
    <3>3. Found(c, bits)' = Found(c, bits)
      BY <3>1 DEF Found, IdsOf
    <3>4. Pending(c)' <=> Pending(c)
      BY <1>1, <3>2, <3>3 DEF Pending
    <3> QED
      BY <1>1, <3>1, <3>4, SummaryKept DEF AllSummarised
  <2> QED
    BY <2>1, <2>2
<1> QED
  BY <1>7, <1>8, <1>9, <1>10, <1>11 DEF AllSummarised

\* A kernel picks a workload; the header is updated before the lock is given up.
LEMMA PickStep ==
  ASSUME IInv, NEW k \in Kernels, Pick(k)
  PROVE  IInv'
<1> DEFINE b == blk[k]
<1> USE DEF IInv
<1>k. Kernels \subseteq Actors /\ NoActor \notin Actors
  BY ActorsAssumption DEF Actors
<1>1. /\ pc[k] = "pick" /\ lock[b] = NoActor
      /\ lock' = [lock EXCEPT ![b] = k]
      /\ ret' = [ret EXCEPT ![k] = "dispatch"]
      /\ pc' = [pc EXCEPT ![k] = "hdr_reset"]
      /\ UNCHANGED <<pub, hdr, flag, fresh, blk, view, best, retry, slot, cur, op,
                     notified, gen>>
  BY DEF Pick, Goto
<1>2. b \in Blocks
  BY <1>1, <1>k DEF Control, Located
<1>3. PICK i \in ReadyIn(b) :
        /\ bits' = [j \in Ids |->
             IF j = i THEN [bits[j] EXCEPT !.state = "RUNNING", !.counter = 0]
             ELSE IF j \in ReadyIn(b)
             THEN [bits[j] EXCEPT !.counter = Aged(@, COUNTER_MAX)]
             ELSE bits[j]]
        /\ tgt' = [tgt EXCEPT ![k] = i]
  BY DEF Pick
<1>4. i \in Ids /\ i \in IdsOf(b)
  BY DEF ReadyIn, IdsOf
<1>5. bits' \in [Ids -> Bits]
  BY <1>3, PickedType DEF TypeOK
<1>6. TypeOK'
  BY <1>1, <1>2, <1>3, <1>4, <1>5, <1>k DEF TypeOK, Label, After
<1>7. Control'
  BY <1>1, <1>2, <1>3, <1>4, <1>k DEF TypeOK, Control, Sections, Located
<1>8. Owner'
  BY <1>1, <1>2, <1>k DEF TypeOK, Owner, Sections
<1>9. /\ \A c \in Blocks : c # b => lock'[c] = lock[c] /\ lock[c] # k
      /\ lock'[b] = k /\ pc'[k] = "hdr_reset"
      /\ \A x \in Actors : x # k => pc'[x] = pc[x]
  BY <1>1, <1>2, <1>k DEF TypeOK, Owner, Sections
<1>10. \A j \in Ids : Block(j) # b => bits'[j] = bits[j]
  BY <1>3, <1>4 DEF ReadyIn, IdsOf
<1>11. Published'
  BY <1>1, <1>9, <1>10, <1>k, IdTypes DEF Published
<1>12. ASSUME NEW c \in Blocks PROVE Summarised(c)'
  <2>1. CASE c = b
    BY <1>9, <1>k, <2>1 DEF Summarised, Pending
  <2>2. CASE c # b
    <3>1. \A j \in IdsOf(c) : bits'[j] = bits[j]
      BY <1>10, <2>2 DEF IdsOf
    <3>2. lock[c] # NoActor => pc'[lock[c]] = pc[lock[c]]
      BY <1>9, <2>2 DEF TypeOK
    <3>3. Found(c, bits)' = Found(c, bits)
      BY <1>1, <3>1 DEF Found, IdsOf
    <3>4. Pending(c)' <=> Pending(c)
      BY <1>9, <2>2, <3>2, <3>3 DEF Pending
    <3> QED
      BY <1>1, <3>1, <3>4, SummaryKept DEF AllSummarised
  <2> QED
    BY <2>1, <2>2
<1> QED
  BY <1>6, <1>7, <1>8, <1>11, <1>12 DEF AllSummarised

\* The ends of the sections.
LEMMA SectionEnds ==
  ASSUME IInv, NEW a \in Actors,
         \/ CallDone(a) \/ CallDoneNotify(a)
         \/ a \in Kernels /\ (SearchDone(a) \/ Dispatch(a) \/ Released(a))
  PROVE  IInv'
<1> USE DEF IInv
<1>1. CASE CallDone(a)
  <2>1. Unlock(a, IF a \in Kernels THEN "run" ELSE "host") /\ ret[a] = "call"
        /\ UNCHANGED <<blk, tgt, retry, cur>>
    BY <1>1 DEF CallDone
  <2>2. a \in Kernels => cur'[a] \in Run
    BY <2>1 DEF Control
  <2> QED
    BY <2>1, <2>2, UnlockStep DEF TypeOK
<1>2. CASE CallDoneNotify(a)
  BY <1>2, UnlockStep DEF CallDoneNotify, TypeOK
<1>3. CASE a \in Kernels /\ SearchDone(a)
  <2>1. /\ Unlock(a, "scan") /\ ret[a] = "scan" /\ pc[a] = "unlock"
        /\ retry' = [retry EXCEPT ![a] = @ \/ Found(blk[a], bits)]
        /\ blk' = [blk EXCEPT ![a] = @ + 1]
        /\ UNCHANGED <<tgt, cur>>
    BY <1>3 DEF SearchDone, Unlock
  <2>2. blk[a] + 1 \in 0 .. NumBlocks
    BY <2>1, CounterTypes DEF Control, Located, Sections
  <2>3. retry' \in [Kernels -> BOOLEAN]
    BY <2>1 DEF TypeOK
  <2>4. view[a] \in Header
    BY <1>3, <2>1 DEF Control
  <2> QED
    BY <2>1, <2>2, <2>3, <2>4, UnlockStep DEF TypeOK
<1>4. CASE a \in Kernels /\ Dispatch(a)
  <2>1. /\ Unlock(a, "run") /\ ret[a] = "dispatch"
        /\ cur' = [cur EXCEPT ![a] = [id |-> tgt[a], gen |-> gen[tgt[a]]]]
        /\ tgt' = [tgt EXCEPT ![a] = NoId]
        /\ UNCHANGED <<blk, retry>>
    BY <1>4 DEF Dispatch
  <2>2. tgt[a] \in Ids
    BY <1>4, <2>1 DEF Control
  <2>3. [id |-> tgt[a], gen |-> gen[tgt[a]]] \in Run
    BY <2>2 DEF TypeOK, Run
  <2> QED
    BY <1>4, <2>1, <2>3, UnlockStep DEF TypeOK
<1>5. CASE a \in Kernels /\ Released(a)
  <2>1. PICK label \in {"notify", "reserve"} : Unlock(a, label)
    BY <1>5 DEF Released
  <2>2. cur' = [cur EXCEPT ![a] = NoRun] /\ UNCHANGED <<blk, tgt, retry>>
    BY <1>5 DEF Released
  <2> QED
    BY <2>1, <2>2, UnlockStep DEF TypeOK
<1> QED
  BY <1>1, <1>2, <1>3, <1>4, <1>5

\* The workload a kernel's system call or release is about.
LEMMA OwnWorkload ==
  ASSUME IInv, NEW k \in Kernels, pc[k] = "run"
  PROVE  /\ k \in Actors /\ cur[k].id \in Ids
         /\ bits[cur[k].id] \in Bits /\ bits[cur[k].id].state \in State
BY BitsTypes DEF IInv, TypeOK, Control, Run, Actors

LEMMA ReleaseStep ==
  ASSUME IInv, NEW k \in Kernels, NEW s \in {"READY", "WAITING", "FINISHED"}, Release(k, s)
  PROVE  IInv'
<1> DEFINE i == cur[k].id
           new == [bits[i] EXCEPT !.state = s]
<1>1. /\ pc[k] = "run" /\ UNCHANGED <<op, gen>>
      /\ Change(k, i, new, "hdr_state", "release")
  BY DEF Release
<1>2. i \in Ids /\ new \in Bits /\ k \in Actors
  BY <1>1, OwnWorkload, BitsTypes, StateNames
<1> HIDE DEF i, new
<1> QED
  BY <1>1, <1>2, ChangeStep DEF IInv, TypeOK

\* The operation an actor is in the middle of, and what it leaves behind.
LEMMA OpTypes ==
  ASSUME IInv, NEW a \in Actors, NEW name \in {"add", "remove", "schedule", "unschedule"}
  PROVE  /\ InOp(a, name) => /\ pc[a] = IF a \in Kernels THEN "run" ELSE "host"
                             /\ op[a].id \in Ids /\ bits[op[a].id] \in Bits
         /\ EndOp(a) => op' \in [Actors -> Op \union {NoOp}]
         /\ \A i \in Ids : BeginOp(a, name, i) => op' \in [Actors -> Op \union {NoOp}]
<1>1. InOp(a, name) => /\ pc[a] = IF a \in Kernels THEN "run" ELSE "host"
                       /\ op[a].id \in Ids /\ bits[op[a].id] \in Bits
  BY DEF InOp, Op, IInv, TypeOK
<1>2. EndOp(a) => op' \in [Actors -> Op \union {NoOp}]
  BY DEF EndOp, IInv, TypeOK
<1>3. ASSUME NEW i \in Ids, BeginOp(a, name, i) PROVE op' \in [Actors -> Op \union {NoOp}]
  <2>1. [name |-> name, id |-> i] \in Op
    BY DEF Op
  <2> QED
    BY <1>3, <2>1 DEF BeginOp, IInv, TypeOK
<1> QED
  BY <1>1, <1>2, <1>3

\* The ends of scheduling and unscheduling.
LEMMA EndStep ==
  ASSUME IInv, NEW a \in Actors, ScheduleEnd(a) \/ ScheduleCancel(a) \/ UnscheduleEnd(a)
  PROVE  IInv'
<1> DEFINE i == op[a].id
           new(s) == [bits[i] EXCEPT !.state = s]
<1>1. PICK name \in {"schedule", "unschedule"} :
        /\ InOp(a, name) /\ EndOp(a) /\ UNCHANGED gen
        /\ bits[i].state \in {"SCHEDULING", "UNSCHEDULING"}
        /\ \/ \E s \in {"READY", "FINISHED"}, after \in {"call", "notify"} :
                Change(a, i, new(s), "hdr_state", after)
           \/ ChangeOnly(a, i, new("FINISHED")) /\ bits[i].state = "SCHEDULING"
  <2>1. CASE ScheduleEnd(a)
    BY <2>1 DEF ScheduleEnd
  <2>2. CASE ScheduleCancel(a)
    BY <2>2 DEF ScheduleCancel
  <2>3. CASE UnscheduleEnd(a)
    BY <2>3 DEF UnscheduleEnd
  <2> QED
    BY <2>1, <2>2, <2>3
<1>2. /\ pc[a] = IF a \in Kernels THEN "run" ELSE "host"
      /\ i \in Ids /\ bits[i] \in Bits
      /\ op' \in [Actors -> Op \union {NoOp}]
      /\ gen' \in [Ids -> 0 .. MaxSchedules]
  BY <1>1, OpTypes DEF IInv, TypeOK
<1>3. \A s \in {"READY", "FINISHED"} : new(s) \in Bits /\ new(s).state = s
  BY <1>2, BitsTypes, StateNames
<1> HIDE DEF i, new
<1>4. CASE \E s \in {"READY", "FINISHED"}, after \in {"call", "notify"} :
             Change(a, i, new(s), "hdr_state", after)
  BY <1>2, <1>3, <1>4, ChangeStep
<1>5. CASE ChangeOnly(a, i, new("FINISHED")) /\ bits[i].state = "SCHEDULING"
  <2>1. Unseen(i, new("FINISHED"))
    BY <1>3, <1>5 DEF Unseen
  <2> QED
    BY <1>2, <1>3, <1>5, <2>1, ChangeOnlyStep
<1> QED
  BY <1>1, <1>4, <1>5

\* Calls that begin an operation, or are one.
LEMMA ScheduleStep ==
  ASSUME IInv, NEW a \in Actors, NEW i \in Ids, NEW p \in Priority, ScheduleBegin(a, i, p)
  PROVE  IInv'
<1> DEFINE new(c) == Scheduled(bits[i], p, c)
<1>1. /\ pc[a] = IF a \in Kernels THEN "run" ELSE "host"
      /\ bits[i].state = "FINISHED" /\ gen[i] < MaxSchedules
      /\ gen' = [gen EXCEPT ![i] = @ + 1] /\ BeginOp(a, "schedule", i)
      /\ \/ Change(a, i, new(COUNTER_MAX), "hdr_state", "call")
         \/ ChangeOnly(a, i, new(0))
  BY DEF ScheduleBegin, Caller
<1>2. gen' \in [Ids -> 0 .. MaxSchedules]
  BY <1>1, SizesAssumption DEF IInv, TypeOK
<1>3. op' \in [Actors -> Op \union {NoOp}]
  BY <1>1, OpTypes
<1>4. \A c \in {0, COUNTER_MAX} : new(c) \in Bits /\ new(c).state = "SCHEDULING"
  BY ScheduledType, CounterTypes DEF IInv, TypeOK
<1> HIDE DEF new
<1>5. Unseen(i, new(0))
  BY <1>1, <1>4 DEF Unseen
<1> QED
  BY <1>1, <1>2, <1>3, <1>4, <1>5, ChangeStep, ChangeOnlyStep

LEMMA UnscheduleStep ==
  ASSUME IInv, NEW a \in Actors, NEW i \in Ids, UnscheduleBegin(a, i)
  PROVE  IInv'
<1> DEFINE new == [bits[i] EXCEPT !.state = "UNSCHEDULING"]
<1>1. /\ pc[a] = IF a \in Kernels THEN "run" ELSE "host"
      /\ BeginOp(a, "unschedule", i) /\ UNCHANGED gen
      /\ \/ Change(a, i, new, "hdr_state", "call")
         \/ ChangeOnly(a, i, new)
  BY DEF UnscheduleBegin, Caller
<1>2. op' \in [Actors -> Op \union {NoOp}] /\ gen' \in [Ids -> 0 .. MaxSchedules]
  BY <1>1, OpTypes DEF IInv, TypeOK
<1>3. new \in Bits /\ new.state = "UNSCHEDULING"
  BY BitsTypes, StateNames DEF IInv, TypeOK
<1> HIDE DEF new
<1>4. Unseen(i, new)
  BY <1>3 DEF Unseen
<1> QED
  BY <1>1, <1>2, <1>3, <1>4, ChangeStep, ChangeOnlyStep

LEMMA SignalStep ==
  ASSUME IInv, NEW a \in Actors, NEW i \in Ids,
         Signal(a, i) \/ (a \in Kernels /\ i = cur[a].id /\ SignalReset(a))
  PROVE  IInv'
<1> DEFINE new(v) == [bits[i] EXCEPT !.signal = v]
<1>1. /\ pc[a] = IF a \in Kernels THEN "run" ELSE "host"
      /\ UNCHANGED <<op, gen>>
      /\ \E v \in BOOLEAN, label \in {"hdr_state", "hdr_access"} :
           Change(a, i, new(v), label, "call")
  <2>1. CASE Signal(a, i)
    BY <2>1 DEF Signal, Caller
  <2>2. CASE a \in Kernels /\ i = cur[a].id /\ SignalReset(a)
    BY <2>2 DEF SignalReset, Caller
  <2> QED
    BY <2>1, <2>2
<1>2. op' \in [Actors -> Op \union {NoOp}] /\ gen' \in [Ids -> 0 .. MaxSchedules]
  BY <1>1 DEF IInv, TypeOK
<1>3. \A v \in BOOLEAN : /\ new(v) \in Bits
                         /\ new(v).state = bits[i].state
                         /\ new(v).priority = bits[i].priority
  BY BitsTypes DEF IInv, TypeOK
<1> HIDE DEF new
<1> QED
  BY <1>1, <1>2, <1>3, ChangeStep

LEMMA WaitSetStep ==
  ASSUME IInv, NEW k \in Kernels, WaitReset(k) \/ \E j \in Ids : WaitSet(k, j)
  PROVE  IInv'
<1> DEFINE i == cur[k].id
           new(v) == [bits[i] EXCEPT !.wait_id = v]
<1>1. /\ pc[k] = "run" /\ UNCHANGED <<op, gen>>
      /\ \E v \in Ids \union {NoId} : ChangeOnly(k, i, new(v))
  <2>1. CASE WaitReset(k)
    BY <2>1 DEF WaitReset, Caller
  <2>2. CASE \E j \in Ids : WaitSet(k, j)
    BY <2>2 DEF WaitSet, Caller
  <2> QED
    BY <2>1, <2>2
<1>2. op' \in [Actors -> Op \union {NoOp}] /\ gen' \in [Ids -> 0 .. MaxSchedules]
  BY <1>1 DEF IInv, TypeOK
<1>3. k \in Actors /\ i \in Ids
  BY <1>1, OwnWorkload
<1>4. \A v \in Ids \union {NoId} : /\ new(v) \in Bits
                                   /\ new(v).state = bits[i].state
                                   /\ new(v).priority = bits[i].priority
  BY <1>1, OwnWorkload, BitsTypes
<1> HIDE DEF i, new
<1>5. \A v \in Ids \union {NoId} : Unseen(i, new(v))
  BY <1>4 DEF Unseen
<1> QED
  BY <1>1, <1>2, <1>3, <1>4, <1>5, ChangeOnlyStep

\* Adding and removing.
LEMMA AddRemoveStep ==
  ASSUME IInv, NEW h \in Hosts,
         \/ \E s \in {"FINISHED", "NONE"} : AddEnd(h, s) \/ RemoveEnd(h, s)
         \/ \E j \in Ids : RemoveBegin(h, j)
  PROVE  IInv'
<1>h. h \in Actors
  BY DEF Actors
<1>1. /\ op' \in [Actors -> Op \union {NoOp}]
      /\ gen' \in [Ids -> 0 .. MaxSchedules]
      /\ \E i \in Ids, s \in {"FINISHED", "NONE", "REMOVING"} :
           /\ bits[i].state \in {"ADDING", "REMOVING", "FINISHED"}
           /\ ChangeOnly(h, i, [bits[i] EXCEPT !.state = s])
  <2>1. ASSUME NEW s \in {"FINISHED", "NONE"}, AddEnd(h, s)
        PROVE  /\ InOp(h, "add") /\ EndOp(h) /\ UNCHANGED gen
               /\ bits[op[h].id].state = "ADDING"
               /\ ChangeOnly(h, op[h].id, [bits[op[h].id] EXCEPT !.state = s])
    BY <2>1 DEF AddEnd
  <2>2. ASSUME NEW s \in {"FINISHED", "NONE"}, RemoveEnd(h, s)
        PROVE  /\ InOp(h, "remove") /\ EndOp(h) /\ UNCHANGED gen
               /\ bits[op[h].id].state = "REMOVING"
               /\ ChangeOnly(h, op[h].id, [bits[op[h].id] EXCEPT !.state = s])
    BY <2>2 DEF RemoveEnd
  <2>3. ASSUME NEW j \in Ids, RemoveBegin(h, j)
        PROVE  /\ BeginOp(h, "remove", j) /\ UNCHANGED gen
               /\ bits[j].state = "FINISHED"
               /\ ChangeOnly(h, j, [bits[j] EXCEPT !.state = "REMOVING"])
    BY <2>3 DEF RemoveBegin
  <2>4. gen \in [Ids -> 0 .. MaxSchedules]
    BY DEF IInv, TypeOK
  <2> QED
    BY <1>h, <2>1, <2>2, <2>3, <2>4, OpTypes
<1>2. PICK i \in Ids, s \in {"FINISHED", "NONE", "REMOVING"} :
        /\ bits[i].state \in {"ADDING", "REMOVING", "FINISHED"}
        /\ ChangeOnly(h, i, [bits[i] EXCEPT !.state = s])
  BY <1>1
<1> DEFINE new == [bits[i] EXCEPT !.state = s]
<1>3. new \in Bits /\ new.state = s
  BY BitsTypes, StateNames DEF IInv, TypeOK
<1>4. ChangeOnly(h, i, new)
  BY <1>2
<1> HIDE DEF new
<1>5. Unseen(i, new)
  BY <1>2, <1>3 DEF Unseen
<1> QED
  BY <1>h, <1>1, <1>3, <1>4, <1>5, ChangeOnlyStep

LEMMA AllocStep ==
  ASSUME IInv, NEW h \in Hosts, Alloc(h)
  PROVE  IInv'
<1> DEFINE b == blk[h]
<1>h. h \in Actors /\ h \notin Kernels /\ Kernels \subseteq Actors
  BY ActorsAssumption DEF Actors
<1>1. /\ pc[h] = "alloc" /\ lock[b] = NoActor /\ pc' = [pc EXCEPT ![h] = "host"]
      /\ UNCHANGED <<lock, hdr, flag, fresh, ret, blk, tgt, view, best, retry, slot,
                     cur, notified, gen>>
  BY DEF Alloc, Goto
<1>2. b \in Blocks
  BY <1>1, <1>h DEF IInv, Control, Located
<1>3. PICK s \in Slots : /\ bits[<<b, s>>].state = "NONE"
                         /\ bits' = [bits EXCEPT ![<<b, s>>].state = "ADDING"]
                         /\ pub' = [pub EXCEPT ![<<b, s>>] = "ADDING"]
                         /\ BeginOp(h, "add", <<b, s>>)
  BY DEF Alloc
<1> DEFINE i == <<b, s>>
           new == [bits[i] EXCEPT !.state = "ADDING"]
<1>4. i \in Ids /\ Block(i) = b
  BY <1>2, IdTypes
<1>5. new \in Bits /\ new.state = "ADDING"
  <2>1. bits[i] \in Bits
    BY <1>4 DEF IInv, TypeOK
  <2> QED
    BY <2>1, BitsTypes, StateNames
<1>6. /\ bits[i].state = "NONE" /\ bits' = [bits EXCEPT ![i] = new]
      /\ pub' = [pub EXCEPT ![i] = new.state]
  BY <1>3, <1>5
<1>7. op' \in [Actors -> Op \union {NoOp}]
  BY <1>3, <1>4, <1>h, OpTypes
<1> HIDE DEF i, new
<1>8. Unseen(i, new)
  BY <1>5, <1>6 DEF Unseen
<1>9. TypeOK'
  <2>1. pub' \in [Ids -> State]
    BY <1>5, <1>6 DEF IInv, TypeOK, State
  <2> QED
    BY <1>1, <1>5, <1>6, <1>7, <2>1 DEF IInv, TypeOK, Label
<1>10. Control'
  BY <1>1, <1>h DEF IInv, TypeOK, Control, Sections, Located
<1>11. \A a \in Actors : \/ pc'[a] \notin Sections /\ pc[a] \notin Sections
                         \/ pc'[a] = pc[a]
  BY <1>1 DEF IInv, TypeOK, Sections
<1> QED
  BY <1>1, <1>4, <1>5, <1>6, <1>8, <1>9, <1>10, <1>11, UnseenStep

-----------------------------------------------------------------------------
LEMMA InvStep == IInv /\ [Next]_vars => IInv'
<1> SUFFICES ASSUME IInv, [Next]_vars PROVE IInv'
  OBVIOUS
<1>a. Kernels \subseteq Actors /\ Hosts \subseteq Actors
  BY DEF Actors
<1>1. ASSUME NEW a \in Actors, Section(a) \/ EndCall(a) PROVE IInv'
  BY <1>1, HeaderStep, SectionEnds, OutsideCallStep, EndStep DEF Section, EndCall
<1>2. ASSUME NEW k \in Kernels, KernelStep(k) PROVE IInv'
  BY <1>1, <1>2, <1>a, LoopStep, ScanStep, SearchLockStep, SearchStep, PickStep,
     SectionEnds, HeaderStep DEF KernelStep
<1>3. ASSUME NEW k \in Kernels, Exits(k) PROVE IInv'
  BY <1>3, ReleaseStep DEF Exits
<1>4. ASSUME NEW k \in Kernels, Syscall(k) PROVE IInv'
  <2>1. CASE SignalReset(k)
    <3>1. pc[k] = "run"
      BY <2>1 DEF SignalReset, Caller
    <3> QED
      BY <1>a, <2>1, <3>1, OwnWorkload, SignalStep
  <2>2. CASE WaitReset(k) \/ \E i \in Ids : WaitSet(k, i)
    BY <2>2, WaitSetStep
  <2>3. CASE \E i \in Ids : Signal(k, i) \/ UnscheduleBegin(k, i)
    BY <1>a, <2>3, SignalStep, UnscheduleStep
  <2>4. CASE \E i \in Ids, p \in Priority : ScheduleBegin(k, i, p)
    BY <1>a, <2>4, ScheduleStep
  <2> QED
    BY <1>4, <2>1, <2>2, <2>3, <2>4 DEF Syscall
<1>5. ASSUME NEW h \in Hosts, HostStep(h) PROVE IInv'
  BY <1>1, <1>5, <1>a, AllocStep, AddRemoveStep, OutsideCallStep DEF HostStep
<1>6. ASSUME NEW h \in Hosts, HostCall(h) PROVE IInv'
  <2>1. CASE AddBegin(h) \/ Exit(h) \/ \E i \in Ids : Wait(h, i)
    BY <1>a, <2>1, OutsideCallStep
  <2>2. CASE \E i \in Ids : RemoveBegin(h, i)
    BY <2>2, AddRemoveStep
  <2>3. CASE \E i \in Ids : Signal(h, i) \/ UnscheduleBegin(h, i)
    BY <1>a, <2>3, SignalStep, UnscheduleStep
  <2>4. CASE \E i \in Ids, p \in Priority : ScheduleBegin(h, i, p)
    BY <1>a, <2>4, ScheduleStep
  <2> QED
    BY <1>6, <2>1, <2>2, <2>3, <2>4 DEF HostCall
<1>7. CASE HandleEvent
  BY <1>7, HandleEventStep
<1>8. CASE UNCHANGED vars
  <2>1. TypeOK' /\ Control'
    BY <1>8 DEF IInv, TypeOK, Control, vars, locals
  <2> QED
    BY <1>8, <2>1, OutsideStep DEF vars, locals
<1> QED
  BY <1>2, <1>3, <1>4, <1>5, <1>6, <1>7, <1>8 DEF Next

LEMMA Invariant == Spec => []IInv
<1>1. Init => IInv
  BY InvInit DEF Init
<1> QED
  BY <1>1, InvStep, PTL DEF Spec

\* Every variable of the queue keeps its type: no counter overflows its bits
\* (kernel.c:251-257, 706-709), no local variable is used before it is set.
THEOREM QueueTypeCorrect == Spec => []TypeOK
<1>1. IInv => TypeOK
  BY DEF IInv
<1> QED
  BY <1>1, Invariant, PTL

\* The header hides no work from the kernels that scan it (kernel.c:832-861), for
\* any number of kernels, host threads, blocks and workloads.
THEOREM HeaderHidesNoWork == Spec => []HeaderCovers
<1>1. IInv => HeaderCovers
  BY DEF IInv, AllSummarised, Summarised, HeaderCovers
<1> QED
  BY <1>1, Invariant, PTL

\* The header shows no work that is not there, except while a workload of the
\* block is being unscheduled (workload_queue.c:748, kernel.c:516).
THEOREM HeaderShowsNoMore == Spec => []HeaderExact
<1>1. IInv => HeaderExact
  BY DEF IInv, AllSummarised, Summarised, HeaderExact
<1> QED
  BY <1>1, Invariant, PTL
=============================================================================
