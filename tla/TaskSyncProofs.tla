--------------------------- MODULE TaskSyncProofs ---------------------------
(***************************************************************************)
(* Programs of MARS tasks and host threads that use the synchronisation    *)
(* objects (TaskSync), for any number of tasks and host threads, any bits, *)
(* items and limits: types; the queue keeps its order; no set bit and no   *)
(* host event is missed; no waiting task is stranded, and those that wait  *)
(* for the queue are served; a wait for bits ends with its bits; semaphore *)
(* and barrier keep their promises in the company of the other objects;    *)
(* and not everybody waits for everybody.                                  *)
(*                                                                         *)
(* The first sections are about the data (rings of waiters, the places of  *)
(* a list) and about what all steps have in common: types, and whose call  *)
(* a step moves on.  After them comes one section per property, with its   *)
(* inductive invariant, one lemma per kind of call and the theorem.        *)
(***************************************************************************)
EXTENDS TaskSync, TaskSemaphoreProofs, TaskBarrierProofs, FiniteSetTheorems, TLAPS

\* An index of a ring of n places.
LEMMA Wraps ==
  ASSUME NEW n \in Nat \ {0}, NEW i \in 0..n - 1, NEW c \in 0..n
  PROVE  /\ (i + c) % n \in 0..n - 1
         /\ (i + c) % n = IF i + c < n THEN i + c ELSE i + c - n
OBVIOUS

-----------------------------------------------------------------------------
(* The rings of waiting tasks.                                             *)

LEMMA AtPlaces ==
  ASSUME NEW r \in WaitRing
  PROVE  /\ r.head \in Places /\ r.count \in 0..QUEUE_WAIT_MAX
         /\ r.id \in [Places -> Task \union {NoTask}] /\ QUEUE_WAIT_MAX \in Nat \ {0}
         /\ At(r, 0) = r.head
         /\ \A p \in Places : At(r, p) \in Places
         /\ \A p, q \in Places : At(r, p) = At(r, q) => p = q
         /\ \A p \in 0..r.count - 1 : p \in Places
<1>1. /\ r.head \in Places /\ r.count \in 0..QUEUE_WAIT_MAX
      /\ r.id \in [Places -> Task \union {NoTask}] /\ QUEUE_WAIT_MAX \in Nat \ {0}
  BY QueueAssumption DEF WaitRing
<1>2. \A p \in Places : /\ At(r, p) \in Places
                        /\ At(r, p) = IF r.head + p < QUEUE_WAIT_MAX THEN r.head + p
                                      ELSE r.head + p - QUEUE_WAIT_MAX
  <2> SUFFICES ASSUME NEW p \in Places
               PROVE  /\ At(r, p) \in Places
                      /\ At(r, p) = IF r.head + p < QUEUE_WAIT_MAX THEN r.head + p
                                      ELSE r.head + p - QUEUE_WAIT_MAX
    OBVIOUS
  <2>1. p \in 0..QUEUE_WAIT_MAX /\ r.head \in 0..QUEUE_WAIT_MAX - 1
    BY <1>1 DEF Places
  <2> QED  BY <1>1, <2>1, Wraps DEF At, Places
<1>3. \A p, q \in Places : At(r, p) = At(r, q) => p = q
  <2> SUFFICES ASSUME NEW p \in Places, NEW q \in Places, At(r, p) = At(r, q) PROVE p = q
    OBVIOUS
  <2>1. /\ p \in Nat /\ q \in Nat /\ r.head \in Nat
        /\ p < QUEUE_WAIT_MAX /\ q < QUEUE_WAIT_MAX /\ r.head < QUEUE_WAIT_MAX
    BY <1>1 DEF Places
  <2>2. At(r, p) = IF r.head + p < QUEUE_WAIT_MAX THEN r.head + p
                   ELSE r.head + p - QUEUE_WAIT_MAX
    BY <1>2
  <2>3. At(r, q) = IF r.head + q < QUEUE_WAIT_MAX THEN r.head + q
                   ELSE r.head + q - QUEUE_WAIT_MAX
    BY <1>2
  <2>4. At(r, p) \in Nat /\ QUEUE_WAIT_MAX \in Nat
    BY <1>1, <1>2 DEF Places
  <2> QED  BY ONLY <2>1, <2>2, <2>3, <2>4, At(r, p) = At(r, q)
<1>4. At(r, 0) = r.head
  <2>1. 0 \in Places /\ r.head \in Nat /\ r.head < QUEUE_WAIT_MAX /\ r.head + 0 = r.head
    BY <1>1 DEF Places
  <2> QED  BY <1>2, <2>1
<1>5. \A p \in 0..r.count - 1 : p \in Places
  BY <1>1 DEF Places
<1> QED  BY <1>1, <1>2, <1>3, <1>4, <1>5

LEMMA RingEnlist ==
  ASSUME NEW r \in WaitRing, NEW t \in Task, r.count # QUEUE_WAIT_MAX
  PROVE  LET e == Enlist(r, t)
         IN  /\ e \in WaitRing /\ e.count = r.count + 1
             /\ \A p \in 0..r.count - 1 : e.id[At(e, p)] = r.id[At(r, p)]
             /\ e.id[At(e, r.count)] = t
             /\ Enlisted(e) = Enlisted(r) \union {t}
<1> DEFINE e == Enlist(r, t)
           tail == At(r, r.count)
<1>1. r.count \in Places /\ r.count + 1 \in 0..QUEUE_WAIT_MAX /\ tail \in Places
  <2>1. r.count \in Places /\ r.count + 1 \in 0..QUEUE_WAIT_MAX
    BY AtPlaces DEF Places
  <2> QED  BY <2>1, AtPlaces
<1>2. /\ e.head = r.head /\ e.count = r.count + 1
      /\ e.id = [r.id EXCEPT ![tail] = t]
  BY DEF Enlist, WaitRing
<1>3. e \in WaitRing
  <2>1. [r.id EXCEPT ![tail] = t] \in [Places -> Task \union {NoTask}]
    BY AtPlaces
  <2> QED  BY <1>1, <2>1 DEF Enlist, WaitRing
<1>4. \A p \in Places : At(e, p) = At(r, p)
  BY <1>2 DEF At
<1>5. \A p \in 0..r.count - 1 : e.id[At(e, p)] = r.id[At(r, p)]
  <2> SUFFICES ASSUME NEW p \in 0..r.count - 1
               PROVE  e.id[At(e, p)] = r.id[At(r, p)]
    OBVIOUS
  <2>1. p \in Places /\ p # r.count
    BY AtPlaces
  <2>2. At(r, p) # tail /\ At(r, p) \in Places
    BY <1>1, <2>1, AtPlaces
  <2>3. r.id \in [Places -> Task \union {NoTask}]
    BY AtPlaces
  <2> QED  BY <1>2, <1>4, <2>1, <2>2, <2>3
<1>6. e.id[At(e, r.count)] = t
  <2>1. r.id \in [Places -> Task \union {NoTask}]
    BY AtPlaces
  <2> QED  BY <1>1, <1>2, <1>4, <2>1
<1>7. 0..e.count - 1 = (0..r.count - 1) \union {r.count}
  BY <1>2, AtPlaces
<1>8. Enlisted(e) = Enlisted(r) \union {t}
  BY <1>5, <1>6, <1>7 DEF Enlisted
<1> QED  BY <1>2, <1>3, <1>5, <1>6, <1>8

LEMMA RingEmpty ==
  ASSUME NEW r \in WaitRing, r.count = 0
  PROVE  Enlisted(r) = {} /\ First(r).id = {} /\ First(r).rest = r
<1>1. 0..r.count - 1 = {}
  OBVIOUS
<1> QED  BY <1>1 DEF Enlisted, First

LEMMA RingCount ==
  ASSUME NEW r \in WaitRing, r.count # 0
  PROVE  r.count - 1 \in 0..QUEUE_WAIT_MAX /\ r.count \in Nat
<1>1. r.count \in 0..QUEUE_WAIT_MAX /\ QUEUE_WAIT_MAX \in Nat
  BY AtPlaces
<1> QED  BY <1>1

LEMMA RingFirst ==
  ASSUME NEW r \in WaitRing, r.count # 0
  PROVE  LET f == First(r).rest
         IN  /\ First(r).id = {r.id[r.head]} /\ r.id[r.head] = r.id[At(r, 0)]
             /\ f \in WaitRing /\ f.count = r.count - 1
             /\ \A p \in 0..r.count - 2 : f.id[At(f, p)] = r.id[At(r, p + 1)]
             /\ Enlisted(r) = First(r).id \union Enlisted(f)
<1> DEFINE f == First(r).rest
           h == At(r, 1)
<1>1. h \in Places /\ r.count - 1 \in 0..QUEUE_WAIT_MAX /\ r.count \in Nat
  <2>1. CASE QUEUE_WAIT_MAX = 1
    <3>1. r.head = 0
      <4>1. r.head \in 0..1 - 1
        BY <2>1, AtPlaces DEF Places
      <4> QED  BY <4>1
    <3>2. h = 0
      BY <2>1, <3>1 DEF At
    <3>3. h \in Places
      BY <2>1, <3>2 DEF Places
    <3> QED  BY <3>3, RingCount
  <2>2. CASE QUEUE_WAIT_MAX # 1
    <3>1. 1 \in Places
      BY <2>2, AtPlaces DEF Places
    <3>2. h \in Places
      BY <3>1, AtPlaces
    <3> QED  BY <3>2, RingCount
  <2> QED  BY <2>1, <2>2
<1>2. /\ First(r).id = {r.id[r.head]}
      /\ f.head = h /\ f.count = r.count - 1 /\ f.id = r.id
  BY DEF First, WaitRing
<1>3. f \in WaitRing
  BY <1>1 DEF First, WaitRing
<1>4. \A p \in 0..r.count - 2 : At(f, p) = At(r, p + 1)
  <2> SUFFICES ASSUME NEW p \in 0..r.count - 2
               PROVE  At(f, p) = At(r, p + 1)
    OBVIOUS
  <2> DEFINE n == QUEUE_WAIT_MAX
  <2>0. n \in Nat \ {0} /\ r.head \in 0..n - 1 /\ r.count \in 0..n /\ h \in 0..n - 1
    BY <1>1, AtPlaces DEF Places
  <2>1. /\ n \in Nat \ {0} /\ r.head \in 0..n - 1 /\ p \in 0..n /\ 1 \in 0..n /\ p + 1 \in 0..n
        /\ h = (r.head + 1) % n /\ h \in 0..n - 1
    <3>1. h = (r.head + 1) % n
      BY DEF At
    <3>2. p \in 0..n /\ 1 \in 0..n /\ p + 1 \in 0..n
      <4> HIDE DEF n, h
      <4> QED BY <2>0
    <3> QED  BY <2>0, <3>1, <3>2
  <2>2. (r.head + 1) % n = IF r.head + 1 < n THEN r.head + 1 ELSE r.head + 1 - n
    BY <2>1, Wraps
  <2>3. (r.head + (p + 1)) % n = IF r.head + (p + 1) < n THEN r.head + (p + 1) ELSE r.head + (p + 1) - n
    BY <2>1, Wraps
  <2>4. (h + p) % n = IF h + p < n THEN h + p ELSE h + p - n
    BY <2>1, Wraps
  <2>5. p + 1 < n
    BY AtPlaces
  <2> HIDE DEF n, h
  <2>6. (h + p) % n = (r.head + (p + 1)) % n
    BY <2>1, <2>2, <2>3, <2>4, <2>5
  <2> QED  BY <1>2, <2>6 DEF At, n
<1>5. \A p \in 0..r.count - 2 : f.id[At(f, p)] = r.id[At(r, p + 1)]
  BY <1>2, <1>4
<1>6. r.head = At(r, 0)
  BY AtPlaces
<1>7. 0..f.count - 1 = 0..r.count - 2
  BY <1>1, <1>2
<1>8. Enlisted(f) = {r.id[At(r, p + 1)] : p \in 0..r.count - 2}
  BY <1>5, <1>7 DEF Enlisted
<1>9. {r.id[At(r, p + 1)] : p \in 0..r.count - 2} = {r.id[At(r, p)] : p \in 1..r.count - 1}
  <2>1. \A p \in 1..r.count - 1 : p - 1 \in 0..r.count - 2 /\ (p - 1) + 1 = p
    BY <1>1
  <2>2. \A p \in 0..r.count - 2 : p + 1 \in 1..r.count - 1
    BY <1>1
  <2> QED  BY <2>1, <2>2
<1>10. 0..r.count - 1 = {0} \union (1..r.count - 1)
  BY <1>1
<1>11. Enlisted(r) = First(r).id \union Enlisted(f)
  <2>1. Enlisted(r) = {r.id[At(r, p)] : p \in {0} \union (1..r.count - 1)}
    BY <1>10 DEF Enlisted
  <2>2. Enlisted(f) = {r.id[At(r, p)] : p \in 1..r.count - 1}
    BY <1>8, <1>9
  <2>3. First(r).id = {r.id[At(r, 0)]}
    BY <1>2, <1>6
  <2> HIDE DEF f
  <2> QED  BY <2>1, <2>2, <2>3
<1> QED  BY <1>2, <1>3, <1>5, <1>6, <1>11

-----------------------------------------------------------------------------
(* The wait list of the event flag.                                        *)

\* The rank of a place among places.
Rank(places, i) == Cardinality(places \intersect 1..i)

LEMMA RankGrows ==
  ASSUME NEW m \in Nat, NEW places \in SUBSET (1..m)
  PROVE  /\ IsFiniteSet(places) /\ Cardinality(places) \in 0..m
         /\ \A i \in places : Rank(places, i) \in 1..Cardinality(places)
         /\ \A i, j \in places : i <= j => Rank(places, i) <= Rank(places, j)
         /\ \A i, j \in places : i < j => Rank(places, i) < Rank(places, j)
<1>1. IsFiniteSet(1..m) /\ Cardinality(1..m) = m
  BY FS_Interval
<1>2. IsFiniteSet(places) /\ Cardinality(places) \in 0..m
  <2>1. IsFiniteSet(places) /\ Cardinality(places) <= m
    BY <1>1, FS_Subset
  <2>2. Cardinality(places) \in Nat
    BY <2>1, FS_CardinalityType
  <2> QED  BY <2>1, <2>2
<1>3. \A i \in places : IsFiniteSet(places \intersect 1..i) /\ Rank(places, i) \in Nat
  BY <1>2, FS_Subset, FS_CardinalityType DEF Rank
<1>4. \A i \in places : Rank(places, i) \in 1..Cardinality(places)
  <2> SUFFICES ASSUME NEW i \in places PROVE Rank(places, i) \in 1..Cardinality(places)
    OBVIOUS
  <2>1. i \in places \intersect 1..i
    OBVIOUS
  <2>2. Rank(places, i) # 0
    BY <1>3, <2>1, FS_EmptySet DEF Rank
  <2>3. Rank(places, i) <= Cardinality(places)
    BY <1>2, FS_Subset DEF Rank
  <2>4. Cardinality(places) \in Nat
    BY <1>2, FS_CardinalityType
  <2>5. Rank(places, i) \in Nat
    BY <1>3
  <2> QED  BY <2>2, <2>3, <2>4, <2>5
<1>5. \A i, j \in places : i <= j => Rank(places, i) <= Rank(places, j)
  <2> SUFFICES ASSUME NEW i \in places, NEW j \in places, i <= j
               PROVE  Rank(places, i) <= Rank(places, j)
    OBVIOUS
  <2>1. (places \intersect 1..i) \in SUBSET (places \intersect 1..j)
    OBVIOUS
  <2> QED  BY <1>3, <2>1, FS_Subset DEF Rank
<1>6. \A i, j \in places : i < j => Rank(places, i) < Rank(places, j)
  <2> SUFFICES ASSUME NEW i \in places, NEW j \in places, i < j
               PROVE  Rank(places, i) < Rank(places, j)
    OBVIOUS
  <2>1. (places \intersect 1..i) \in SUBSET (places \intersect 1..j)
    OBVIOUS
  <2>2. j \in places \intersect 1..j /\ j \notin places \intersect 1..i
    OBVIOUS
  <2>3. Cardinality(places \intersect 1..i) # Cardinality(places \intersect 1..j)
    BY <1>3, <2>1, <2>2, FS_Subset
  <2> QED  BY <1>3, <1>5, <2>3 DEF Rank
<1> QED  BY <1>2, <1>4, <1>5, <1>6

\* Every number up to the size is the rank of one place.
LEMMA RankOnto ==
  ASSUME NEW m \in Nat, NEW places \in SUBSET (1..m), NEW k \in 1..Cardinality(places)
  PROVE  \E i \in places : Rank(places, i) = k
<1> DEFINE f == [i \in places |-> Rank(places, i)]
           n == Cardinality(places)
<1>1. f \in [places -> 1..n]
  BY RankGrows
<1>2. \A i, j \in places : f[i] = f[j] => i = j
  <2> SUFFICES ASSUME NEW i \in places, NEW j \in places, i # j
               PROVE  f[i] # f[j]
    OBVIOUS
  <2>1. i \in Int /\ j \in Int /\ Rank(places, i) \in Int /\ Rank(places, j) \in Int
    BY RankGrows
  <2>2. i < j \/ j < i
    BY <2>1
  <2>3. Rank(places, i) < Rank(places, j) \/ Rank(places, j) < Rank(places, i)
    BY <2>2, RankGrows
  <2>4. f[i] = Rank(places, i) /\ f[j] = Rank(places, j)
    OBVIOUS
  <2> QED  BY <2>1, <2>3, <2>4
<1>3. f \in Injection(places, 1..n)
  <2> HIDE DEF f, n
  <2> QED BY <1>1, <1>2 DEF Injection, IsInjective
<1>4. IsFiniteSet(1..n) /\ Cardinality(1..n) = n /\ n \in Nat
  <2>1. n \in Nat
    BY RankGrows
  <2> HIDE DEF n
  <2> QED  BY <2>1, FS_Interval
<1>5. f \in Surjection(places, 1..n)
  BY <1>3, <1>4, FS_Injection
<1> QED  BY <1>5 DEF Surjection

\* What is left of the wait list: the entries at places, in their order.
LEMMA EntriesKept ==
  ASSUME NEW S, NEW w \in Seq(S), NEW places \in SUBSET (1..Len(w))
  PROVE  LET e == Entries(w, places)
         IN  /\ e \in Seq(S) /\ Len(e) = Cardinality(places) /\ Len(e) \in 0..Len(w)
             /\ \A i \in places : Rank(places, i) \in 1..Len(e) /\ e[Rank(places, i)] = w[i]
             /\ \A k \in 1..Len(e) : \E i \in places : Rank(places, i) = k /\ e[k] = w[i]
<1> DEFINE e == Entries(w, places)
           n == Cardinality(places)
           place(k) == CHOOSE i \in places : Rank(places, i) = k
<1>1. Len(w) \in Nat /\ n \in 0..Len(w)
  BY RankGrows
<1>2. \A k \in 1..n : place(k) \in places /\ Rank(places, place(k)) = k
  BY <1>1, RankOnto
<1>3. e = [k \in 1..n |-> w[place(k)]]
  BY DEF Entries, Rank
<1>4. \A k \in 1..n : w[place(k)] \in S
  <2>1. \A i \in 1..Len(w) : w[i] \in S
    OBVIOUS
  <2> HIDE DEF place, n
  <2> QED  BY <1>2, <2>1
<1>5. e \in [1..n -> S]
  <2> HIDE DEF place, e, n
  <2> QED BY <1>3, <1>4
<1>6. e \in Seq(S) /\ Len(e) = n
  <2> HIDE DEF e, n
  <2>1. n \in Nat
    BY <1>1
  <2> QED  BY <1>5, <2>1
<1>7. \A k \in 1..n : \E i \in places : Rank(places, i) = k /\ e[k] = w[i]
  <2> HIDE DEF place, e, n
  <2> QED BY <1>2, <1>3
<1>8. \A i, j \in places : Rank(places, i) = Rank(places, j) => i = j
  <2> SUFFICES ASSUME NEW i \in places, NEW j \in places, i # j
               PROVE  Rank(places, i) # Rank(places, j)
    OBVIOUS
  <2>1. i \in Int /\ j \in Int /\ Rank(places, i) \in Int /\ Rank(places, j) \in Int
    BY <1>1, RankGrows
  <2>2. i < j \/ j < i
    BY <2>1
  <2> QED  BY <1>1, <2>1, <2>2, RankGrows
<1>9. \A i \in places : Rank(places, i) \in 1..n
  BY <1>1, RankGrows
<1>10. \A i \in places : e[Rank(places, i)] = w[i]
  <2> HIDE DEF place, e, n
  <2> QED BY <1>7, <1>8, <1>9
<1> HIDE DEF e, n
<1>11. Len(e) \in 0..Len(w)
  BY <1>1, <1>6
<1> QED  BY <1>6, <1>7, <1>9, <1>10, <1>11 DEF e, n

-----------------------------------------------------------------------------
(* What every step does to the tasks and host threads: the types, and whose *)
(* call goes on.                                                           *)

LEMMA SigParts ==
  ASSUME SigTypeOK
  PROVE  /\ status \in [Task -> {"running", "waiting", "resumed", "gone"}]
         /\ signal \in [Task -> BOOLEAN] /\ op \in [Task -> Ops] /\ news \in [Task -> BOOLEAN]
BY DEF SigTypeOK

LEMMA SendTypes ==
  ASSUME NEW ts, Send(ts)
  PROVE  signal' \in [Task -> BOOLEAN]
BY DEF Send

LEMMA ContinueTypes ==
  ASSUME SigTypeOK, NEW t \in Task, NEW o \in Ops, Continue(t, o)
  PROVE  op' \in [Task -> Ops] /\ status' = status
BY DEF SigTypeOK, Continue

LEMMA BlockTypes ==
  ASSUME SigTypeOK, NEW t \in Task, NEW o \in Ops, Block(t, o)
  PROVE  op' \in [Task -> Ops] /\ status' \in [Task -> {"running", "waiting", "resumed", "gone"}]
BY DEF SigTypeOK, Block

LEMMA OpsNamed ==
  {"none", "signal", "try_signal", "acquire", "notify", "barrier_wait",
   "flag_wait", "set_event", "push", "pop", "peek", "push_end", "pop_end",
   "peek_end", "queue_event"} = Ops
BY DEF Ops

LEMMA SignalTypes ==
  ASSUME SigTypeOK, SignalCalls \/ Kernel \/ \E t \in Task : Remove(t)
  PROVE  SigTypeOK'
<1>1. CASE SignalCalls
  <2>1. PICK t \in Task : Announce(t) \/ WaitSignal(t) \/ WaitSignalReturns(t)
                          \/ TryWaitSignal(t) \/ TryResetSignal(t)
    BY <1>1 DEF SignalCalls
  <2>2. CASE Announce(t)
    BY <2>2, SendTypes DEF SigTypeOK, Announce
  <2>3. CASE WaitSignal(t)
    BY <2>3, OpsNamed DEF SigTypeOK, WaitSignal, Block
  <2>4. CASE WaitSignalReturns(t)
    BY <2>4, OpsNamed DEF SigTypeOK, WaitSignalReturns, Continue
  <2>5. CASE TryWaitSignal(t)
    BY <2>5, OpsNamed DEF SigTypeOK, TryWaitSignal, Continue
  <2>6. CASE TryResetSignal(t)
    BY <2>6, OpsNamed DEF SigTypeOK, TryResetSignal, Continue
  <2> QED  BY <2>1, <2>2, <2>3, <2>4, <2>5, <2>6
<1>2. CASE Kernel
  BY <1>2 DEF Kernel, Wake, ResetSignal, SigTypeOK
<1>3. CASE \E t \in Task : Remove(t)
  BY <1>3 DEF Remove, SigTypeOK
<1> QED  BY <1>1, <1>2, <1>3

LEMMA SemaphoreTypes ==
  ASSUME SigTypeOK, SemCalls
  PROVE  SigTypeOK'
<1>1. PICK t \in Task : Acquire(t) \/ AcquireBlocks(t) \/ AcquireReturns(t) \/ Release(t)
  BY DEF SemCalls
<1>2. CASE Acquire(t)
  BY <1>2 DEF Acquire, sigVars, SigTypeOK
<1>3. CASE AcquireBlocks(t)
  BY <1>3, OpsNamed DEF AcquireBlocks, Block, SigTypeOK
<1>4. CASE AcquireReturns(t)
  BY <1>4, OpsNamed DEF AcquireReturns, Continue, SigTypeOK
<1>5. CASE Release(t)
  <2>1. signal' \in [Task -> BOOLEAN]
    BY <1>5, SendTypes, SigParts DEF Release
  <2> QED  BY <1>5, <2>1 DEF Release, SigTypeOK
<1> QED  BY <1>1, <1>2, <1>3, <1>4, <1>5

LEMMA BarrierTypes ==
  ASSUME SigTypeOK, BarCalls
  PROVE  SigTypeOK'
<1>1. PICK t \in Task : Notify(t) \/ NotifyBlocks(t) \/ NotifyResumes(t)
                        \/ Wait(t) \/ WaitBlocks(t) \/ WaitResumes(t)
  BY DEF BarCalls
<1>2. ASSUME Notified(t) \/ Waited(t)
      PROVE  signal' \in [Task -> BOOLEAN] /\ news' = news
  BY <1>2, SendTypes, SigParts DEF Notified, Waited
<1>3. CASE Notify(t) \/ Wait(t)
  BY <1>2, <1>3 DEF Notify, Wait, SigTypeOK
<1>4. CASE NotifyBlocks(t)
  BY <1>4, OpsNamed DEF NotifyBlocks, Block, SigTypeOK
<1>5. CASE WaitBlocks(t)
  BY <1>5, OpsNamed DEF WaitBlocks, Block, SigTypeOK
<1>6. CASE NotifyResumes(t) \/ WaitResumes(t)
  BY <1>2, <1>6, OpsNamed DEF NotifyResumes, WaitResumes, Continue, SigTypeOK
<1> QED  BY <1>1, <1>3, <1>4, <1>5, <1>6

LEMMA HostToTypes ==
  ASSUME HostTypeOK, NEW h \in Host, NEW o \in {"none", "flag_wait", "push", "pop", "peek"},
         NEW pc \in {"idle", "testing", "asleep", "relock"}, HostTo(h, pc, o)
  PROVE  HostTypeOK'
BY DEF HostTypeOK, HostTo

LEMMA FlagSteps ==
  ASSUME FlagCalls
  PROVE  \/ \E t \in Task : \/ \E b \in Bit : FlagSet(t, {b})
                            \/ FlagSetEvent(t)
                            \/ \E c \in Conditions : FlagWait(t, c) \/ FlagWaitBlocks(t, c)
                            \/ FlagWaitReturns(t)
         \/ \E h \in Host : \/ \E b \in Bit : HostFlagSet(h, {b})
                            \/ \E c \in Conditions : HostFlagWait(h, c)
                            \/ HostFlagTests(h)
BY DEF FlagCalls

LEMMA FlagTypes ==
  ASSUME SigTypeOK, HostTypeOK, FlagCalls
  PROVE  SigTypeOK' /\ HostTypeOK'
<1>1. ASSUME NEW t \in Task, NEW b \in Bit, FlagSet(t, {b}) PROVE SigTypeOK' /\ HostTypeOK'
  <2>1. signal' \in [Task -> BOOLEAN]
    BY <1>1, SendTypes DEF FlagSet, Flush
  <2> QED  BY <1>1, <2>1, OpsNamed DEF FlagSet, Continue, SigTypeOK, HostTypeOK, hostVars
<1>2. ASSUME NEW t \in Task, FlagSetEvent(t) PROVE SigTypeOK' /\ HostTypeOK'
  BY <1>2, OpsNamed DEF FlagSetEvent, Continue, SigTypeOK, HostTypeOK
<1>3. ASSUME NEW t \in Task, NEW c \in Conditions, FlagWait(t, c) PROVE SigTypeOK' /\ HostTypeOK'
  BY <1>3 DEF FlagWait, SigTypeOK, HostTypeOK, sigVars, hostVars
<1>4. ASSUME NEW t \in Task, NEW c \in Conditions, FlagWaitBlocks(t, c)
      PROVE  SigTypeOK' /\ HostTypeOK'
  BY <1>4, OpsNamed DEF FlagWaitBlocks, Block, SigTypeOK, HostTypeOK, hostVars
<1>5. ASSUME NEW t \in Task, FlagWaitReturns(t) PROVE SigTypeOK' /\ HostTypeOK'
  BY <1>5, OpsNamed DEF FlagWaitReturns, Continue, SigTypeOK, HostTypeOK, hostVars
<1>6. ASSUME NEW h \in Host, NEW b \in Bit, HostFlagSet(h, {b}) PROVE SigTypeOK' /\ HostTypeOK'
  <2>1. signal' \in [Task -> BOOLEAN]
    BY <1>6, SendTypes DEF HostFlagSet, Flush
  <2> QED  BY <1>6, <2>1 DEF HostFlagSet, SigTypeOK, HostTypeOK, hostVars
<1>7. ASSUME NEW h \in Host, NEW c \in Conditions, HostFlagWait(h, c)
      PROVE  SigTypeOK' /\ HostTypeOK'
  <2>1. HostTo(h, "idle", "none") \/ HostTo(h, "testing", "flag_wait")
    BY <1>7 DEF HostFlagWait
  <2>2. HostTypeOK'
    BY <2>1, HostToTypes
  <2> QED  BY <1>7, <2>2 DEF HostFlagWait, SigTypeOK, sigVars
<1>8. ASSUME NEW h \in Host, HostFlagTests(h) PROVE SigTypeOK' /\ HostTypeOK'
  <2>1. HostTo(h, "relock", "flag_wait") \/ HostTo(h, "asleep", "flag_wait")
    BY <1>8 DEF HostFlagTests, HostTests
  <2>2. HostTypeOK'
    BY <2>1, HostToTypes
  <2> QED  BY <1>8, <2>2 DEF HostFlagTests, SigTypeOK, sigVars
<1> QED  BY FlagSteps, <1>1, <1>2, <1>3, <1>4, <1>5, <1>6, <1>7, <1>8

-----------------------------------------------------------------------------
(* Whose calls a step moves on.                                            *)

\* Tasks are left alone, or move on between the calls of X in their own step.
Moves(X) ==
  \A t \in Task :
    \/ op'[t] = op[t] /\ status'[t] = status[t]
    \/ /\ status[t] = "running" /\ status'[t] \in {"running", "waiting"}
       /\ op[t] \in X /\ op'[t] \in X

\* The calls of each kind of object.
SignalOps == {"none", "signal", "try_signal"}
SemOps == {"none", "acquire"}
BarOps == {"none", "notify", "barrier_wait"}
FlagOps == {"none", "flag_wait", "set_event"}
QueueOps == {"none", "push", "pop", "peek", "push_end", "pop_end", "peek_end", "queue_event"}

LEMMA OneMoves ==
  ASSUME SigTypeOK, NEW X, NEW t \in Task, NEW o \in X, status[t] = "running", op[t] \in X,
         Continue(t, o) \/ Block(t, o)
  PROVE  Moves(X)
BY DEF SigTypeOK, Continue, Block, Moves

LEMMA NobodyMoves ==
  ASSUME NEW X, UNCHANGED <<status, op>>
  PROVE  Moves(X)
BY DEF Moves

LEMMA SignalMoves == ASSUME SigTypeOK, SignalCalls PROVE Moves(SignalOps)
<1>1. PICK t \in Task : Announce(t) \/ WaitSignal(t) \/ WaitSignalReturns(t)
                        \/ TryWaitSignal(t) \/ TryResetSignal(t)
  BY DEF SignalCalls
<1>2. CASE Announce(t)
  BY <1>2, NobodyMoves DEF Announce
<1>3. CASE WaitSignal(t) \/ TryWaitSignal(t)
  <2>1. status[t] = "running" /\ op[t] \in SignalOps
    BY <1>3 DEF WaitSignal, TryWaitSignal, Free, SignalOps
  <2>2. \E o \in SignalOps : Continue(t, o) \/ Block(t, o)
    BY <1>3 DEF WaitSignal, TryWaitSignal, SignalOps
  <2> QED  BY <2>1, <2>2, OneMoves
<1>4. CASE WaitSignalReturns(t) \/ TryResetSignal(t)
  <2>1. status[t] = "running" /\ op[t] \in SignalOps
    BY <1>4 DEF WaitSignalReturns, TryResetSignal, Inside, SignalOps
  <2>2. \E o \in SignalOps : Continue(t, o) \/ Block(t, o)
    BY <1>4 DEF WaitSignalReturns, TryResetSignal, SignalOps
  <2> QED  BY <2>1, <2>2, OneMoves
<1> QED  BY <1>1, <1>2, <1>3, <1>4

LEMMA SemMoves == ASSUME SigTypeOK, SemCalls PROVE Moves(SemOps)
<1>1. PICK t \in Task : Acquire(t) \/ AcquireBlocks(t) \/ AcquireReturns(t) \/ Release(t)
  BY DEF SemCalls
<1>2. CASE Acquire(t) \/ Release(t)
  BY <1>2, NobodyMoves DEF Acquire, Release, sigVars
<1>3. CASE AcquireBlocks(t) \/ AcquireReturns(t)
  <2>1. status[t] = "running" /\ op[t] \in SemOps
    BY <1>3 DEF AcquireBlocks, AcquireReturns, Free, Inside, SemOps
  <2>2. \E o \in SemOps : Continue(t, o) \/ Block(t, o)
    BY <1>3 DEF AcquireBlocks, AcquireReturns, SemOps
  <2> QED  BY <2>1, <2>2, OneMoves
<1> QED  BY <1>1, <1>2, <1>3

LEMMA BarMoves == ASSUME SigTypeOK, BarCalls PROVE Moves(BarOps)
<1>1. PICK t \in Task : Notify(t) \/ NotifyBlocks(t) \/ NotifyResumes(t)
                        \/ Wait(t) \/ WaitBlocks(t) \/ WaitResumes(t)
  BY DEF BarCalls
<1>2. CASE Notify(t) \/ Wait(t)
  BY <1>2, NobodyMoves DEF Notify, Wait
<1>3. CASE NotifyBlocks(t) \/ WaitBlocks(t)
  <2>1. status[t] = "running" /\ op[t] \in BarOps
    BY <1>3 DEF NotifyBlocks, WaitBlocks, Free, BarOps
  <2>2. \E o \in BarOps : Continue(t, o) \/ Block(t, o)
    BY <1>3 DEF NotifyBlocks, WaitBlocks, BarOps
  <2> QED  BY <2>1, <2>2, OneMoves
<1>4. CASE NotifyResumes(t) \/ WaitResumes(t)
  <2>1. status[t] = "running" /\ op[t] \in BarOps
    BY <1>4 DEF NotifyResumes, WaitResumes, Inside, BarOps
  <2>2. \E o \in BarOps : Continue(t, o) \/ Block(t, o)
    BY <1>4 DEF NotifyResumes, WaitResumes, BarOps
  <2> QED  BY <2>1, <2>2, OneMoves
<1> QED  BY <1>1, <1>2, <1>3, <1>4

LEMMA FlagMoves == ASSUME SigTypeOK, FlagCalls PROVE Moves(FlagOps)
<1>1. ASSUME NEW t \in Task,
             \/ \E b \in Bit : FlagSet(t, {b})
             \/ FlagSetEvent(t)
             \/ \E c \in Conditions : FlagWaitBlocks(t, c)
             \/ FlagWaitReturns(t)
      PROVE  Moves(FlagOps)
  <2>1. status[t] = "running" /\ op[t] \in FlagOps
    BY <1>1 DEF FlagSet, FlagSetEvent, FlagWaitBlocks, FlagWaitReturns, Free, Inside, FlagOps
  <2>2. \E o \in FlagOps : Continue(t, o) \/ Block(t, o)
    BY <1>1 DEF FlagSet, FlagSetEvent, FlagWaitBlocks, FlagWaitReturns, FlagOps
  <2> QED  BY <2>1, <2>2, OneMoves
<1>2. ASSUME NEW t \in Task, NEW c \in Conditions, FlagWait(t, c) PROVE Moves(FlagOps)
  BY <1>2, NobodyMoves DEF FlagWait, sigVars
<1>3. ASSUME NEW h \in Host,
             \/ \E b \in Bit : HostFlagSet(h, {b})
             \/ \E c \in Conditions : HostFlagWait(h, c)
             \/ HostFlagTests(h)
      PROVE  Moves(FlagOps)
  BY <1>3, NobodyMoves DEF HostFlagSet, HostFlagWait, HostFlagTests, sigVars
<1> QED  BY FlagSteps, <1>1, <1>2, <1>3

-----------------------------------------------------------------------------
(* The queue.                                                              *)

\* A task that started a DMA and holds the lock.
EndOps == {"push_end", "pop_end", "peek_end"}

\* Who holds the lock is at the end of its call and nobody else is, and what
\* it pushes or was given is where the counts say.
FifoInv ==
  /\ QueueTypeOK
  /\ queue.push = (queue.pop + queue.count) % depth
  /\ \A t \in Task : op[t] \in EndOps <=> qlock = t
  /\ \A t \in Task : op[t] = "push_end" => queue.count < depth /\ buffer[queue.push] \in Item
  /\ \A t \in Task : op[t] \in {"pop_end", "peek_end"} =>
                       queue.count > 0 /\ data[t] = buffer[queue.pop]

\* What QueueTypeOK says of the queue.
QueueRecord == [count : 0..depth, push : 0..depth - 1, pop : 0..depth - 1,
                push_wait : WaitRing, pop_wait : WaitRing, direction : Directions]

LEMMA QueueParts ==
  ASSUME QueueTypeOK
  PROVE  /\ depth \in Nat \ {0} /\ NoTask \notin Task /\ NoItem \notin Item
         /\ queue \in QueueRecord
         /\ queue.count \in 0..depth /\ queue.push \in 0..depth - 1 /\ queue.pop \in 0..depth - 1
         /\ queue.push_wait \in WaitRing /\ queue.pop_wait \in WaitRing
         /\ queue.direction \in Directions
         /\ buffer \in [0..depth - 1 -> Item \union {NoItem}]
         /\ qlock \in Task \union {NoTask}
         /\ data \in [User -> Item \union {NoItem}]
         /\ SigTypeOK /\ HostTypeOK
BY QueueAssumption DEF QueueTypeOK, QueueRecord

LEMMA QueueTypes ==
  ASSUME SigTypeOK, HostTypeOK, queue \in QueueRecord,
         buffer \in [0..depth - 1 -> Item \union {NoItem}],
         qlock \in Task \union {NoTask}, data \in [User -> Item \union {NoItem}]
  PROVE  QueueTypeOK
BY DEF QueueTypeOK, QueueRecord

LEMMA AfterWraps ==
  ASSUME NEW i \in 0..depth - 1
  PROVE  After(i) \in 0..depth - 1 /\ After(i) = (i + 1) % depth
<1>1. depth \in Nat \ {0}
  BY QueueAssumption
<1>2. 1 \in 0..depth
  BY <1>1
<1>3. (i + 1) % depth = IF i + 1 < depth THEN i + 1 ELSE i + 1 - depth
  BY <1>1, <1>2, Wraps
<1> QED  BY <1>1, <1>3 DEF After

LEMMA RestInWaitRing ==
  ASSUME NEW r \in WaitRing
  PROVE  First(r).rest \in WaitRing
BY RingEmpty, RingFirst

LEMMA PushUpdateEffect ==
  ASSUME QueueTypeOK, queue.count # depth, PushUpdate
  PROVE  /\ queue' \in QueueRecord /\ signal' \in [Task -> BOOLEAN]
         /\ Send(First(queue.pop_wait).id)
         /\ queue'.count = queue.count + 1 /\ queue'.push = After(queue.push)
         /\ queue'.pop = queue.pop /\ queue'.push_wait = queue.push_wait
         /\ queue'.pop_wait = First(queue.pop_wait).rest
         /\ queue'.direction = queue.direction
<1>1. /\ queue.count + 1 \in 0..depth /\ After(queue.push) \in 0..depth - 1
      /\ First(queue.pop_wait).rest \in WaitRing
  <2>1. queue.count + 1 \in 0..depth
    BY QueueParts
  <2>2. After(queue.push) \in 0..depth - 1
    BY QueueParts, AfterWraps
  <2>3. First(queue.pop_wait).rest \in WaitRing
    BY QueueParts, RestInWaitRing
  <2> QED  BY <2>1, <2>2, <2>3
<1>2. signal' \in [Task -> BOOLEAN] /\ Send(First(queue.pop_wait).id)
  BY SendTypes DEF PushUpdate
<1>3. queue' = [queue EXCEPT !.pop_wait = First(queue.pop_wait).rest,
                             !.count = queue.count + 1, !.push = After(queue.push)]
  BY DEF PushUpdate
<1>4. queue \in QueueRecord
  BY QueueParts
<1> QED  BY <1>1, <1>2, <1>3, <1>4 DEF QueueRecord

LEMMA PopUpdateEffect ==
  ASSUME QueueTypeOK, queue.count # 0, PopUpdate
  PROVE  /\ queue' \in QueueRecord /\ signal' \in [Task -> BOOLEAN]
         /\ Send(First(queue.push_wait).id)
         /\ queue'.count = queue.count - 1 /\ queue'.pop = After(queue.pop)
         /\ queue'.push = queue.push /\ queue'.pop_wait = queue.pop_wait
         /\ queue'.push_wait = First(queue.push_wait).rest
         /\ queue'.direction = queue.direction
<1>1. /\ queue.count - 1 \in 0..depth /\ After(queue.pop) \in 0..depth - 1
      /\ First(queue.push_wait).rest \in WaitRing
  <2>1. queue.count - 1 \in 0..depth
    BY QueueParts
  <2>2. After(queue.pop) \in 0..depth - 1
    BY QueueParts, AfterWraps
  <2>3. First(queue.push_wait).rest \in WaitRing
    BY QueueParts, RestInWaitRing
  <2> QED  BY <2>1, <2>2, <2>3
<1>2. signal' \in [Task -> BOOLEAN] /\ Send(First(queue.push_wait).id)
  BY SendTypes DEF PopUpdate
<1>3. queue' = [queue EXCEPT !.push_wait = First(queue.push_wait).rest,
                             !.count = queue.count - 1, !.pop = After(queue.pop)]
  BY DEF PopUpdate
<1>4. queue \in QueueRecord
  BY QueueParts
<1> QED  BY <1>1, <1>2, <1>3, <1>4 DEF QueueRecord

LEMMA ClearedEffect ==
  ASSUME QueueTypeOK, queue' = Cleared
  PROVE  /\ queue' \in QueueRecord
         /\ queue'.count = 0 /\ queue'.push = 0 /\ queue'.pop = 0
         /\ queue'.push_wait.count = 0 /\ queue'.pop_wait = queue.pop_wait
         /\ queue'.direction = queue.direction
<1> DEFINE r == [queue.push_wait EXCEPT !.count = 0]
<1>1. r \in WaitRing /\ r.count = 0
  <2>1. 0 \in 0..QUEUE_WAIT_MAX /\ queue.push_wait \in WaitRing
    BY QueueParts, QueueAssumption
  <2> QED  BY <2>1 DEF WaitRing
<1>2. queue' = [queue EXCEPT !.push_wait = r, !.count = 0, !.push = 0, !.pop = 0]
  BY DEF Cleared
<1>3. queue \in QueueRecord /\ 0 \in 0..depth /\ 0 \in 0..depth - 1
  BY QueueParts
<1> HIDE DEF r
<1> QED  BY <1>1, <1>2, <1>3 DEF QueueRecord
LEMMA EnlistEffect ==
  ASSUME QueueTypeOK, NEW t \in Task
  PROVE  /\ queue.push_wait.count # QUEUE_WAIT_MAX /\ queue' = [queue EXCEPT !.push_wait = Enlist(@, t)]
            => /\ queue' \in QueueRecord
               /\ queue'.count = queue.count /\ queue'.push = queue.push /\ queue'.pop = queue.pop
               /\ queue'.push_wait = Enlist(queue.push_wait, t) /\ queue'.pop_wait = queue.pop_wait
               /\ queue'.direction = queue.direction
         /\ queue.pop_wait.count # QUEUE_WAIT_MAX /\ queue' = [queue EXCEPT !.pop_wait = Enlist(@, t)]
            => /\ queue' \in QueueRecord
               /\ queue'.count = queue.count /\ queue'.push = queue.push /\ queue'.pop = queue.pop
               /\ queue'.pop_wait = Enlist(queue.pop_wait, t) /\ queue'.push_wait = queue.push_wait
               /\ queue'.direction = queue.direction
<1>1. queue \in QueueRecord
  BY QueueParts
<1>2. /\ queue.push_wait.count # QUEUE_WAIT_MAX => Enlist(queue.push_wait, t) \in WaitRing
      /\ queue.pop_wait.count # QUEUE_WAIT_MAX => Enlist(queue.pop_wait, t) \in WaitRing
  BY QueueParts, RingEnlist
<1> QED  BY <1>1, <1>2 DEF QueueRecord

-----------------------------------------------------------------------------
(* The items in the ring.                                                  *)

\* Where the i-th item of queue q is, and the items in ring b.
Spot(q, i) == (q.pop + i - 1) % depth
ItemsOf(q, b) == [i \in 1..q.count |-> b[Spot(q, i)]]
Buffers == [0..depth - 1 -> Item \union {NoItem}]

LEMMA ContentIs == Content = ItemsOf(queue, buffer) /\ Content' = ItemsOf(queue', buffer')
BY DEF Content, ItemsOf, Spot

LEMMA RecordParts ==
  ASSUME NEW q \in QueueRecord
  PROVE  /\ depth \in Nat /\ depth > 0
         /\ q.count \in Nat /\ q.count <= depth
         /\ q.pop \in Nat /\ q.pop < depth /\ q.push \in Nat /\ q.push < depth
BY QueueAssumption DEF QueueRecord

LEMMA Spots ==
  ASSUME NEW q \in QueueRecord, NEW i \in 1..depth + 1
  PROVE  /\ Spot(q, i) \in 0..depth - 1
         /\ Spot(q, i) = IF q.pop + (i - 1) < depth THEN q.pop + (i - 1)
                         ELSE q.pop + (i - 1) - depth
<1> DEFINE n == depth
           p == q.pop
<1>1. n \in Nat \ {0} /\ p \in 0..n - 1 /\ i - 1 \in 0..n /\ p + (i - 1) = p + i - 1
  BY RecordParts
<1>2. /\ (p + (i - 1)) % n \in 0..n - 1
      /\ (p + (i - 1)) % n = IF p + (i - 1) < n THEN p + (i - 1) ELSE p + (i - 1) - n
  <2> HIDE DEF n, p
  <2> QED  BY <1>1, Wraps
<1>3. (p + (i - 1)) % n = (p + i - 1) % n
  <2> HIDE DEF n, p
  <2> QED  BY <1>1
<1> QED  BY <1>2, <1>3 DEF Spot

LEMMA ItemsSeq ==
  ASSUME NEW q \in QueueRecord, NEW b \in Buffers
  PROVE  /\ ItemsOf(q, b) \in Seq(Item \union {NoItem}) /\ Len(ItemsOf(q, b)) = q.count
         /\ \A i \in 1..q.count : ItemsOf(q, b)[i] = b[Spot(q, i)]
         /\ q.count # 0 => ItemsOf(q, b) # << >> /\ Head(ItemsOf(q, b)) = b[q.pop]
         /\ q.count = 0 => ItemsOf(q, b) = << >>
<1>1. /\ depth \in Nat /\ depth > 0
      /\ q.count \in Nat /\ q.count <= depth /\ q.pop \in Nat /\ q.pop < depth
  BY RecordParts
<1>2. \A i \in 1..q.count : b[Spot(q, i)] \in Item \union {NoItem}
  <2> SUFFICES ASSUME NEW i \in 1..q.count PROVE b[Spot(q, i)] \in Item \union {NoItem}
    OBVIOUS
  <2>1. i \in 1..depth + 1
    BY <1>1
  <2>2. Spot(q, i) \in 0..depth - 1
    BY <2>1, Spots
  <2> QED  BY <2>2 DEF Buffers
<1>3. ItemsOf(q, b) \in Seq(Item \union {NoItem}) /\ Len(ItemsOf(q, b)) = q.count
  BY <1>1, <1>2 DEF ItemsOf
<1>4. \A i \in 1..q.count : ItemsOf(q, b)[i] = b[Spot(q, i)]
  BY DEF ItemsOf
<1> DEFINE s == ItemsOf(q, b)
<1> HIDE DEF s
<1>5. ASSUME q.count # 0 PROVE s # << >> /\ Head(s) = b[q.pop]
  <2>1. 1 \in 1..q.count /\ 1 \in 1..depth + 1
    BY <1>1, <1>5
  <2>2. Spot(q, 1) = q.pop
    BY <1>1, <2>1, Spots
  <2>3. s # << >> /\ Head(s) = s[1]
    BY <1>1, <1>3, <1>5 DEF s
  <2> QED  BY <1>4, <2>1, <2>2, <2>3 DEF s
<1>6. q.count = 0 => s = << >>
  BY <1>3 DEF s
<1> QED  BY <1>3, <1>4, <1>5, <1>6 DEF s

\* The items stay while the ring is neither counted nor moved, where they are.
LEMMA ItemsStay ==
  ASSUME NEW q, NEW r, NEW b, NEW d, r.count = q.count, r.pop = q.pop,
         \A i \in 1..q.count : d[Spot(q, i)] = b[Spot(q, i)]
  PROVE  ItemsOf(r, d) = ItemsOf(q, b)
BY DEF ItemsOf, Spot

\* A push appends the item at the push index.
LEMMA ItemsGrow ==
  ASSUME NEW q \in QueueRecord, NEW r \in QueueRecord, NEW b \in Buffers,
         r.count = q.count + 1, r.pop = q.pop, q.push = (q.pop + q.count) % depth
  PROVE  ItemsOf(r, b) = Append(ItemsOf(q, b), b[q.push])
<1> DEFINE c == q.count
           v == b[q.push]
           s == ItemsOf(q, b)
           t == ItemsOf(r, b)
<1>1. c \in Nat /\ q.pop \in Int /\ q.push \in 0..depth - 1
  BY RecordParts DEF QueueRecord
<1>2. v \in Item \union {NoItem}
  BY <1>1 DEF Buffers
<1>3. /\ s \in Seq(Item \union {NoItem}) /\ Len(s) = c
      /\ t \in Seq(Item \union {NoItem}) /\ Len(t) = c + 1
  BY ItemsSeq
<1>4. \A i \in 1..c : s[i] = b[Spot(q, i)]
  BY ItemsSeq
<1>5. \A i \in 1..c + 1 : t[i] = b[Spot(q, i)]
  BY DEF ItemsOf, Spot
<1>6. Spot(q, c + 1) = q.push
  <2>1. q.pop + (c + 1) - 1 = q.pop + c
    BY <1>1
  <2> QED  BY <2>1 DEF Spot
<1> HIDE DEF c, v, s, t
<1>7. /\ Append(s, v) \in Seq(Item \union {NoItem}) /\ Len(Append(s, v)) = c + 1
      /\ \A i \in 1..c + 1 : Append(s, v)[i] = IF i = c + 1 THEN v ELSE s[i]
  BY <1>1, <1>2, <1>3
<1>8. \A i \in 1..c + 1 : t[i] = Append(s, v)[i]
  <2> SUFFICES ASSUME NEW i \in 1..c + 1 PROVE t[i] = Append(s, v)[i]
    OBVIOUS
  <2>1. CASE i = c + 1
    BY <1>1, <1>5, <1>6, <1>7, <2>1 DEF v
  <2>2. CASE i # c + 1
    BY <1>1, <1>4, <1>5, <1>7, <2>2
  <2> QED  BY <2>1, <2>2
<1> QED  BY <1>3, <1>7, <1>8 DEF s, t, v

\* A pop takes the first item.
LEMMA ItemsShrink ==
  ASSUME NEW q \in QueueRecord, NEW r \in QueueRecord, NEW b \in Buffers,
         q.count # 0, r.count = q.count - 1, r.pop = After(q.pop)
  PROVE  ItemsOf(r, b) = Tail(ItemsOf(q, b))
<1> DEFINE c == q.count
           s == ItemsOf(q, b)
           t == ItemsOf(r, b)
<1>1. /\ c \in Nat \ {0} /\ c <= depth /\ q.pop \in Nat /\ q.pop < depth /\ depth \in Nat /\ depth > 0
  BY RecordParts
<1>2. /\ s \in Seq(Item \union {NoItem}) /\ Len(s) = c
      /\ t \in Seq(Item \union {NoItem}) /\ Len(t) = c - 1
      /\ \A i \in 1..c : s[i] = b[Spot(q, i)]
      /\ \A i \in 1..c - 1 : t[i] = b[Spot(r, i)]
  BY ItemsSeq
<1> HIDE DEF s, t
<1>3. ASSUME NEW i \in 1..c - 1
      PROVE  t[i] = s[i + 1]
  <2>1. i + 1 \in 1..c /\ i \in 1..depth + 1 /\ i + 1 \in 1..depth + 1
    BY <1>1
  <2>2. Spot(q, i + 1) = IF q.pop + (i + 1 - 1) < depth THEN q.pop + (i + 1 - 1)
                         ELSE q.pop + (i + 1 - 1) - depth
    BY <2>1, Spots
  <2>3. Spot(r, i) = IF r.pop + (i - 1) < depth THEN r.pop + (i - 1)
                     ELSE r.pop + (i - 1) - depth
    BY <2>1, Spots
  <2>4. r.pop = IF q.pop + 1 = depth THEN 0 ELSE q.pop + 1
    BY DEF After
  <2>5. i \in Nat /\ i >= 1 /\ i <= depth - 1
    BY <1>1
  <2>6. Spot(q, i + 1) = Spot(r, i)
    <3>1. q.pop + (i + 1 - 1) = q.pop + i
      BY <1>1, <2>5
    <3>2. CASE q.pop + 1 = depth
      <4>1. r.pop = 0 /\ q.pop + i >= depth /\ q.pop + i - depth = i - 1 /\ i - 1 < depth
        BY ONLY <1>1, <2>4, <2>5, <3>2
      <4>2. Spot(q, i + 1) = IF q.pop + i < depth THEN q.pop + i ELSE q.pop + i - depth
        BY ONLY <2>2, <3>1
      <4>3. 0 + (i - 1) = i - 1
        BY <2>5
      <4> QED  BY <1>1, <2>3, <2>5, <4>1, <4>2, <4>3
    <3>3. CASE q.pop + 1 # depth
      <4>1. r.pop + (i - 1) = q.pop + i
        BY <1>1, <2>4, <2>5, <3>3
      <4>2. Spot(r, i) = IF q.pop + i < depth THEN q.pop + i ELSE q.pop + i - depth
        <5>1. r.pop \in Nat /\ depth \in Nat /\ i \in Nat /\ q.pop \in Nat
          BY <1>1, <2>5, RecordParts
        <5> QED  BY ONLY <2>3, <4>1, <5>1
      <4>3. Spot(q, i + 1) = IF q.pop + i < depth THEN q.pop + i ELSE q.pop + i - depth
        BY ONLY <2>2, <3>1
      <4> QED  BY ONLY <4>2, <4>3
    <3> QED  BY <3>2, <3>3
  <2> QED  BY <1>2, <2>1, <2>6
<1>4. /\ Tail(s) \in Seq(Item \union {NoItem}) /\ Len(Tail(s)) = c - 1
      /\ \A i \in 1..c - 1 : Tail(s)[i] = s[i + 1]
  BY <1>1, <1>2
<1>5. t = Tail(s)
  BY <1>1, <1>2, <1>3, <1>4
<1> QED  BY <1>5 DEF s, t

-----------------------------------------------------------------------------
(* The steps of the queue.                                                 *)

LEMMA FifoParts ==
  ASSUME FifoInv
  PROVE  /\ QueueTypeOK /\ queue \in QueueRecord /\ buffer \in Buffers
         /\ queue.push = (queue.pop + queue.count) % depth
         /\ \A t \in Task : op[t] \in EndOps <=> qlock = t
         /\ \A t \in Task : op[t] = "push_end" => queue.count < depth /\ buffer[queue.push] \in Item
         /\ \A t \in Task : op[t] \in {"pop_end", "peek_end"} =>
                              queue.count > 0 /\ data[t] = buffer[queue.pop]
         /\ qlock = NoTask => Reading = NoItem
         /\ \A t \in Task : op[t] = "push_end" => Reading = NoItem
         /\ \A t \in Task : op[t] \in {"pop_end", "peek_end"} => Reading = data[t]
<1>1. QueueTypeOK /\ queue \in QueueRecord /\ buffer \in Buffers
  BY QueueParts DEF FifoInv, Buffers
<1>2. \A t \in Task : op[t] \in EndOps <=> qlock = t
  BY DEF FifoInv
<1>3. NoTask \notin Task
  BY QueueAssumption
<1>4. qlock = NoTask => Reading = NoItem
  BY DEF Reading
<1>5. \A t \in Task : op[t] = "push_end" => Reading = NoItem
  BY <1>2 DEF Reading, EndOps
<1>6. \A t \in Task : op[t] \in {"pop_end", "peek_end"} => Reading = data[t]
  BY <1>2, <1>3 DEF Reading, EndOps
<1> QED  BY <1>1, <1>2, <1>4, <1>5, <1>6 DEF FifoInv

\* The index to push at is not that of an item while there is room.
LEMMA PushSpotFree ==
  ASSUME FifoInv, queue.count # depth
  PROVE  \A i \in 1..queue.count : Spot(queue, i) # queue.push
<1> SUFFICES ASSUME NEW i \in 1..queue.count PROVE Spot(queue, i) # queue.push
  OBVIOUS
<1>1. /\ depth \in Nat /\ depth > 0 /\ queue.count \in Nat /\ queue.count < depth
      /\ queue.pop \in Nat /\ queue.pop < depth /\ queue \in QueueRecord
  BY RecordParts, FifoParts
<1>2. i \in Nat /\ i >= 1 /\ i <= queue.count /\ i \in 1..depth + 1
      /\ queue.count + 1 \in 1..depth + 1
  BY <1>1
<1>3. Spot(queue, i) = IF queue.pop + (i - 1) < depth THEN queue.pop + (i - 1)
                       ELSE queue.pop + (i - 1) - depth
  BY <1>1, <1>2, Spots
<1>4. Spot(queue, queue.count + 1) =
        IF queue.pop + (queue.count + 1 - 1) < depth THEN queue.pop + (queue.count + 1 - 1)
        ELSE queue.pop + (queue.count + 1 - 1) - depth
  BY <1>1, <1>2, Spots
<1>5. Spot(queue, queue.count + 1) = queue.push
  <2>1. queue.pop + (queue.count + 1) - 1 = queue.pop + queue.count
    BY <1>1
  <2> QED  BY <2>1, FifoParts DEF Spot
<1>6. queue.count + 1 - 1 = queue.count
  BY <1>1
<1>7. queue.push = IF queue.pop + queue.count < depth THEN queue.pop + queue.count
                   ELSE queue.pop + queue.count - depth
  BY <1>4, <1>5, <1>6
<1> DEFINE a == Spot(queue, i)  p == queue.pop  c == queue.count  u == queue.push
<1> HIDE DEF a, p, c, u
<1>8. /\ a = IF p + (i - 1) < depth THEN p + (i - 1) ELSE p + (i - 1) - depth
      /\ u = IF p + c < depth THEN p + c ELSE p + c - depth
  BY <1>3, <1>7 DEF a, p, c, u
<1>9. p \in Nat /\ c \in Nat /\ c < depth /\ p < depth /\ i <= c
  BY <1>1, <1>2 DEF p, c
<1>10. a # u
  BY ONLY <1>1, <1>2, <1>8, <1>9
<1> QED  BY <1>10 DEF a, u

\* The index to push at goes on with the counts.
LEMMA PushIndex ==
  ASSUME NEW q \in QueueRecord, q.push = (q.pop + q.count) % depth, NEW r \in QueueRecord
  PROVE  /\ q.count # depth /\ r.push = After(q.push) /\ r.count = q.count + 1 /\ r.pop = q.pop
            => r.push = (r.pop + r.count) % depth
         /\ q.count # 0 /\ r.push = q.push /\ r.count = q.count - 1 /\ r.pop = After(q.pop)
            => r.push = (r.pop + r.count) % depth
         /\ r.push = 0 /\ r.count = 0 /\ r.pop = 0 => r.push = (r.pop + r.count) % depth
<1> DEFINE n == depth  p == q.pop  c == q.count  u == q.push
           rp == r.pop  rc == r.count  ru == r.push
<1>1. /\ n \in Nat /\ n > 0 /\ p \in Nat /\ p < n /\ c \in Nat /\ c <= n /\ u \in Nat /\ u < n
      /\ rp \in Nat /\ rp < n /\ rc \in Nat /\ rc <= n /\ ru \in Nat /\ ru < n
  BY RecordParts
<1>2. (p + c) % n = IF p + c < n THEN p + c ELSE p + c - n
  <2> HIDE DEF n, p, c
  <2>1. n \in Nat \ {0} /\ p \in 0..n - 1 /\ c \in 0..n
    BY <1>1
  <2> QED  BY <2>1, Wraps
<1>3. (rp + rc) % n = IF rp + rc < n THEN rp + rc ELSE rp + rc - n
  <2> HIDE DEF n, rp, rc
  <2>1. n \in Nat \ {0} /\ rp \in 0..n - 1 /\ rc \in 0..n
    BY <1>1
  <2> QED  BY <2>1, Wraps
<1>4. u = (p + c) % n
  OBVIOUS
<1>5. After(u) = IF u + 1 = n THEN 0 ELSE u + 1
  BY DEF After
<1>6. After(p) = IF p + 1 = n THEN 0 ELSE p + 1
  BY DEF After
<1> HIDE DEF n, p, c, u, rp, rc, ru
<1>7. ASSUME c # n, ru = After(u), rc = c + 1, rp = p
      PROVE  ru = (rp + rc) % n
  BY ONLY <1>1, <1>2, <1>3, <1>4, <1>5, <1>7
<1>8. ASSUME c # 0, ru = u, rc = c - 1, rp = After(p)
      PROVE  ru = (rp + rc) % n
  BY ONLY <1>1, <1>2, <1>3, <1>4, <1>6, <1>8
<1>9. ASSUME ru = 0, rc = 0, rp = 0
      PROVE  ru = (rp + rc) % n
  BY ONLY <1>1, <1>3, <1>9
<1> QED  BY <1>7, <1>8, <1>9 DEF n, p, c, u, rp, rc, ru

\* What the abstract queue sees.
FifoVars == <<Content, Reading>>

LEMMA OpTo ==
  ASSUME SigTypeOK, NEW t \in Task, NEW o, op' = [op EXCEPT ![t] = o]
  PROVE  op'[t] = o /\ \A u \in Task : u # t => op'[u] = op[u]
BY DEF SigTypeOK

\* A step that leaves the counts, the indices, the items and the lock, and
\* those that are at the end of a call.
LEMMA QuietFifo ==
  ASSUME FifoInv, SigTypeOK', HostTypeOK', queue' \in QueueRecord,
         queue'.count = queue.count, queue'.push = queue.push, queue'.pop = queue.pop,
         buffer' = buffer, qlock' = qlock, data' \in [User -> Item \union {NoItem}],
         \A t \in Task : op[t] \in EndOps \/ op'[t] \in EndOps =>
                           op'[t] = op[t] /\ data'[t] = data[t]
  PROVE  FifoInv' /\ UNCHANGED FifoVars
<1> USE FifoParts
<1>1. QueueTypeOK'
  BY QueueParts DEF QueueTypeOK, QueueRecord
<1>2. Content' = Content
  BY ItemsStay, ContentIs
<1>3. Reading' = Reading
  <2>1. CASE qlock = NoTask
    BY <2>1 DEF Reading
  <2>2. CASE qlock # NoTask
    <3>1. qlock \in Task
      BY <2>2, QueueParts
    <3>2. op'[qlock] = op[qlock] /\ data'[qlock] = data[qlock]
      BY <3>1
    <3> QED  BY <3>2 DEF Reading
  <2> QED  BY <2>1, <2>2
<1>4. \A t \in Task : op'[t] \in EndOps <=> qlock' = t
  OBVIOUS
<1>5. \A t \in Task : op'[t] = "push_end" => queue'.count < depth /\ buffer'[queue'.push] \in Item
  BY DEF EndOps
<1>6. \A t \in Task : op'[t] \in {"pop_end", "peek_end"} =>
                        queue'.count > 0 /\ data'[t] = buffer'[queue'.pop]
  BY DEF EndOps
<1>7. queue'.push = (queue'.pop + queue'.count) % depth
  OBVIOUS
<1> QED  BY <1>1, <1>2, <1>3, <1>4, <1>5, <1>6, <1>7 DEF FifoInv, FifoVars

\* The end of a call: the lock is free again.
LEMMA Unlocks ==
  ASSUME FifoInv, SigTypeOK', HostTypeOK', queue' \in QueueRecord,
         queue'.push = (queue'.pop + queue'.count) % depth,
         buffer' \in Buffers, qlock' = NoTask, data' \in [User -> Item \union {NoItem}],
         \A t \in Task : op'[t] \notin EndOps
  PROVE  FifoInv' /\ Reading' = NoItem
<1>1. QueueTypeOK'
  BY QueueParts, FifoParts DEF QueueTypeOK, QueueRecord, Buffers
<1>2. \A t \in Task : t # NoTask
  BY QueueAssumption
<1>3. Reading' = NoItem
  BY DEF Reading
<1>4. \A t \in Task : op'[t] \notin {"pop_end", "peek_end", "push_end"}
  BY DEF EndOps
<1> QED  BY <1>1, <1>2, <1>3, <1>4 DEF FifoInv

\* The start of a call that keeps the lock.
LEMMA FreeLock ==
  ASSUME FifoInv, qlock = NoTask
  PROVE  \A t \in Task : op[t] \notin EndOps
BY FifoParts, QueueAssumption

\* Only t's call goes on, at the start or at the end of holding the lock.
LEMMA OneCall ==
  ASSUME FifoInv, NEW t \in Task, NEW o, op' = [op EXCEPT ![t] = o],
         qlock = NoTask \/ op[t] \in EndOps
  PROVE  /\ op'[t] = o
         /\ \A u \in Task : u # t => op'[u] = op[u] /\ op'[u] \notin EndOps
<1>1. op'[t] = o /\ \A u \in Task : u # t => op'[u] = op[u]
  BY OpTo, QueueParts, FifoParts
<1>2. \A u \in Task : op[u] \in EndOps <=> qlock = u
  BY FifoParts
<1>3. \A u \in Task : u # t => op[u] \notin EndOps
  BY <1>2, QueueAssumption
<1> QED  BY <1>1, <1>3

LEMMA PushBeginFifo ==
  ASSUME FifoInv, NEW t \in Task, NEW v \in Item, PushBegin(t, v), SigTypeOK', HostTypeOK'
  PROVE  FifoInv' /\ UNCHANGED FifoVars
<1> USE FifoParts
<1>1. /\ qlock = NoTask /\ queue.count # depth /\ queue' = queue /\ qlock' = t
      /\ buffer' = [buffer EXCEPT ![queue.push] = v]
      /\ data' = [data EXCEPT ![t] = NoItem]
      /\ op' = [op EXCEPT ![t] = "push_end"]
  BY DEF PushBegin, Locks, Continue
<1>2. /\ op'[t] = "push_end" /\ (\A u \in Task : u # t => op'[u] = op[u] /\ op'[u] \notin EndOps)
  BY <1>1, OneCall
<1>3. queue.push \in 0..depth - 1 /\ queue.count < depth
  BY <1>1, QueueParts
<1>4. /\ buffer' \in Buffers /\ buffer'[queue.push] = v
      /\ \A i \in 0..depth - 1 : i # queue.push => buffer'[i] = buffer[i]
  BY <1>1, <1>3 DEF Buffers
<1>5. data' \in [User -> Item \union {NoItem}]
  BY <1>1, QueueParts DEF User
<1>6. QueueTypeOK'
  BY <1>1, <1>4, <1>5 DEF QueueTypeOK, QueueRecord, Buffers
<1>7. Content' = Content
  <2>1. \A i \in 1..queue.count : buffer'[Spot(queue, i)] = buffer[Spot(queue, i)]
    <3> SUFFICES ASSUME NEW i \in 1..queue.count
                 PROVE  buffer'[Spot(queue, i)] = buffer[Spot(queue, i)]
      OBVIOUS
    <3>1. i \in 1..depth + 1
      BY <1>3, QueueParts
    <3>2. Spot(queue, i) \in 0..depth - 1
      BY <3>1, Spots
    <3>3. Spot(queue, i) # queue.push
      BY <1>1, PushSpotFree
    <3> QED  BY <1>4, <3>2, <3>3
  <2>2. ItemsOf(queue', buffer') = ItemsOf(queue, buffer)
    <3>1. queue'.count = queue.count /\ queue'.pop = queue.pop
      BY <1>1
    <3> QED  BY <2>1, <3>1, ItemsStay
  <2> QED  BY <2>2, ContentIs
<1>8. Reading = NoItem /\ Reading' = NoItem
  BY <1>1, <1>2 DEF Reading
<1>9. \A u \in Task : op'[u] \in EndOps <=> qlock' = u
  BY <1>1, <1>2 DEF EndOps
<1>10. \A u \in Task : op'[u] = "push_end" => queue'.count < depth /\ buffer'[queue'.push] \in Item
  BY <1>1, <1>3, <1>4
<1>11. \A u \in Task : op'[u] \notin {"pop_end", "peek_end"}
  BY <1>2 DEF EndOps
<1>12. queue'.push = (queue'.pop + queue'.count) % depth
  BY <1>1
<1> QED  BY <1>6, <1>7, <1>8, <1>9, <1>10, <1>11, <1>12 DEF FifoInv, FifoVars

LEMMA PushEndFifo ==
  ASSUME FifoInv, NEW t \in Task, PushEnd(t), SigTypeOK', HostTypeOK'
  PROVE  FifoInv' /\ \E v \in Item : Fifo!Push(v)
<1> USE FifoParts
<1>1. /\ op[t] = "push_end" /\ PushUpdate /\ qlock' = NoTask /\ buffer' = buffer /\ data' = data
      /\ op' = [op EXCEPT ![t] = IF queue.count = 0 /\ queue.direction = "MPU_TO_HOST"
                                 THEN "queue_event" ELSE "none"]
  BY DEF PushEnd, Continue, Inside
<1>2. queue.count < depth /\ queue.count # depth /\ buffer[queue.push] \in Item /\ Reading = NoItem
  BY <1>1, QueueParts
<1>3. \A u \in Task : op'[u] \notin EndOps
  <2>1. op[t] \in EndOps
    BY <1>1 DEF EndOps
  <2>2. op'[t] \in {"queue_event", "none"} /\ \A u \in Task : u # t => op'[u] \notin EndOps
    BY <1>1, <2>1, OneCall
  <2> QED  BY <2>2 DEF EndOps
<1>4. /\ queue' \in QueueRecord
      /\ queue'.count = queue.count + 1 /\ queue'.push = After(queue.push) /\ queue'.pop = queue.pop
  BY <1>1, <1>2, PushUpdateEffect
<1>5. queue'.push = (queue'.pop + queue'.count) % depth
  BY <1>2, <1>4, PushIndex
<1>6. FifoInv' /\ Reading' = NoItem
  BY <1>1, <1>3, <1>4, <1>5, Unlocks, QueueParts
<1>7. Content' = Append(Content, buffer[queue.push])
  BY <1>1, <1>4, ItemsGrow, ContentIs
<1>8. Len(Content) = queue.count
  BY ItemsSeq, ContentIs
<1> QED  BY <1>2, <1>6, <1>7, <1>8 DEF Fifo!Push

LEMMA PopBeginFifo ==
  ASSUME FifoInv, NEW t \in Task, NEW o \in {"pop", "peek"}, PopBegin(t, o),
         SigTypeOK', HostTypeOK'
  PROVE  FifoInv' /\ Fifo!Read
<1> USE FifoParts
<1>1. /\ qlock = NoTask /\ queue.count # 0 /\ queue' = queue /\ buffer' = buffer /\ qlock' = t
      /\ data' = [data EXCEPT ![t] = buffer[queue.pop]]
      /\ op' = [op EXCEPT ![t] = IF o = "pop" THEN "pop_end" ELSE "peek_end"]
  BY DEF PopBegin, Locks, Continue
<1>2. /\ op'[t] \in {"pop_end", "peek_end"}
      /\ \A u \in Task : u # t => op'[u] = op[u] /\ op'[u] \notin EndOps
  BY <1>1, OneCall
<1>3. queue.pop \in 0..depth - 1 /\ queue.count > 0 /\ t \in User
  BY <1>1, QueueParts DEF User
<1>4. /\ data' \in [User -> Item \union {NoItem}] /\ data'[t] = buffer[queue.pop]
  BY <1>1, <1>3, QueueParts
<1>5. QueueTypeOK'
  BY <1>1, <1>4, QueueParts DEF QueueTypeOK, QueueRecord
<1>6. Content' = Content /\ Content # << >> /\ Head(Content) = buffer[queue.pop]
  BY <1>1, ItemsSeq, ContentIs
<1>7. Reading = NoItem /\ Reading' = buffer[queue.pop]
  <2>1. t # NoTask
    BY QueueAssumption
  <2> QED  BY <1>1, <1>2, <1>4, <2>1 DEF Reading
<1>8. \A u \in Task : op'[u] \in EndOps <=> qlock' = u
  BY <1>1, <1>2 DEF EndOps
<1>9. \A u \in Task : op'[u] # "push_end"
  BY <1>2 DEF EndOps
<1>10. \A u \in Task : op'[u] \in {"pop_end", "peek_end"} =>
                         queue'.count > 0 /\ data'[u] = buffer'[queue'.pop]
  <2>1. \A u \in Task : op'[u] \in {"pop_end", "peek_end"} => u = t
    BY <1>2 DEF EndOps
  <2> QED  BY <1>1, <1>3, <1>4, <2>1
<1>11. queue'.push = (queue'.pop + queue'.count) % depth
  BY <1>1
<1> QED  BY <1>5, <1>6, <1>7, <1>8, <1>9, <1>10, <1>11 DEF FifoInv, Fifo!Read

LEMMA PopEndFifo ==
  ASSUME FifoInv, NEW t \in Task, PopEnd(t), SigTypeOK', HostTypeOK'
  PROVE  FifoInv' /\ Fifo!Pop
<1> USE FifoParts
<1>1. /\ op[t] = "pop_end" /\ PopUpdate /\ qlock' = NoTask /\ buffer' = buffer
      /\ data' = [data EXCEPT ![t] = NoItem]
      /\ op' = [op EXCEPT ![t] = IF queue.count = depth /\ queue.direction = "HOST_TO_MPU"
                                 THEN "queue_event" ELSE "none"]
  BY DEF PopEnd, Continue, Inside
<1>2. queue.count # 0 /\ Reading = buffer[queue.pop]
  BY <1>1, QueueParts
<1>3. \A u \in Task : op'[u] \notin EndOps
  <2>1. op[t] \in EndOps
    BY <1>1 DEF EndOps
  <2>2. op'[t] \in {"queue_event", "none"} /\ \A u \in Task : u # t => op'[u] \notin EndOps
    BY <1>1, <2>1, OneCall
  <2> QED  BY <2>2 DEF EndOps
<1>4. /\ queue' \in QueueRecord
      /\ queue'.count = queue.count - 1 /\ queue'.pop = After(queue.pop) /\ queue'.push = queue.push
  BY <1>1, <1>2, PopUpdateEffect
<1>5. queue'.push = (queue'.pop + queue'.count) % depth
  BY <1>2, <1>4, PushIndex
<1>6. data' \in [User -> Item \union {NoItem}]
  BY <1>1, QueueParts DEF User
<1>7. FifoInv' /\ Reading' = NoItem
  BY <1>1, <1>3, <1>4, <1>5, <1>6, Unlocks
<1>8. Content' = Tail(Content)
  BY <1>1, <1>2, <1>4, ItemsShrink, ContentIs
<1>9. Content # << >> /\ Head(Content) = buffer[queue.pop]
  BY <1>2, ItemsSeq, ContentIs
<1> QED  BY <1>2, <1>7, <1>8, <1>9 DEF Fifo!Pop

LEMMA PeekEndFifo ==
  ASSUME FifoInv, NEW t \in Task, PeekEnd(t), SigTypeOK', HostTypeOK'
  PROVE  FifoInv' /\ Fifo!Peeked
<1> USE FifoParts
<1>1. /\ op[t] = "peek_end" /\ queue' = queue /\ qlock' = NoTask /\ buffer' = buffer
      /\ data' = [data EXCEPT ![t] = NoItem] /\ op' = [op EXCEPT ![t] = "none"]
  BY DEF PeekEnd, Continue, Inside
<1>2. \A u \in Task : op'[u] \notin EndOps
  <2>1. op[t] \in EndOps
    BY <1>1 DEF EndOps
  <2>2. op'[t] \in {"queue_event", "none"} /\ \A u \in Task : u # t => op'[u] \notin EndOps
    BY <1>1, <2>1, OneCall
  <2> QED  BY <2>2 DEF EndOps
<1>3. data' \in [User -> Item \union {NoItem}]
  BY <1>1, QueueParts DEF User
<1>4. FifoInv' /\ Reading' = NoItem
  BY <1>1, <1>2, <1>3, Unlocks
<1>5. Content' = Content
  BY <1>1, ItemsStay, ContentIs
<1> QED  BY <1>4, <1>5 DEF Fifo!Peeked

LEMMA ClearFifo ==
  ASSUME FifoInv, SigTypeOK', HostTypeOK', qlock = NoTask, queue' = Cleared,
         buffer' = buffer, qlock' = qlock, data' = data,
         \A t \in Task : op'[t] \in EndOps => op[t] \in EndOps
  PROVE  FifoInv' /\ Fifo!Clear
<1> USE FifoParts
<1>1. /\ queue' \in QueueRecord
      /\ queue'.count = 0 /\ queue'.push = 0 /\ queue'.pop = 0
  BY ClearedEffect
<1>2. queue'.push = (queue'.pop + queue'.count) % depth
  BY <1>1, PushIndex
<1>3. \A u \in Task : op'[u] \notin EndOps
  BY FreeLock
<1>4. FifoInv' /\ Reading' = NoItem
  BY <1>1, <1>2, <1>3, Unlocks, QueueParts
<1>5. Content' = << >>
  BY <1>1, ItemsSeq, ContentIs
<1> QED  BY <1>4, <1>5 DEF Fifo!Clear

LEMMA HostPushFifo ==
  ASSUME FifoInv, NEW h \in Host, NEW v \in Item, HostPush(h, v), SigTypeOK', HostTypeOK'
  PROVE  FifoInv' /\ (UNCHANGED FifoVars \/ \E x \in Item : Fifo!Push(x))
<1> USE FifoParts
<1>1. /\ qlock = NoTask /\ qlock' = qlock /\ op' = op /\ h \in User
      /\ \A u \in Task : op[u] \notin EndOps
  BY FreeLock DEF HostPush, User
<1>2. CASE queue.count = depth
  <2>1. data' = [data EXCEPT ![h] = v] /\ queue' = queue /\ buffer' = buffer
    BY <1>2 DEF HostPush
  <2>2. data' \in [User -> Item \union {NoItem}]
    BY <1>1, <2>1, QueueParts
  <2> QED  BY <1>1, <2>1, <2>2, QuietFifo
<1>3. CASE queue.count # depth
  <2>1. /\ data' = [data EXCEPT ![h] = NoItem] /\ PushUpdate
        /\ buffer' = [buffer EXCEPT ![queue.push] = v]
    BY <1>3 DEF HostPush
  <2>2. data' \in [User -> Item \union {NoItem}]
    BY <1>1, <2>1, QueueParts
  <2>3. queue.push \in 0..depth - 1 /\ queue.count < depth
    BY <1>3, QueueParts
  <2>4. /\ buffer' \in Buffers /\ buffer'[queue.push] = v
        /\ \A i \in 0..depth - 1 : i # queue.push => buffer'[i] = buffer[i]
    BY <2>1, <2>3 DEF Buffers
  <2>5. /\ queue' \in QueueRecord
        /\ queue'.count = queue.count + 1 /\ queue'.push = After(queue.push) /\ queue'.pop = queue.pop
    BY <1>3, <2>1, PushUpdateEffect
  <2>6. queue'.push = (queue'.pop + queue'.count) % depth
    BY <1>3, <2>5, PushIndex
  <2>7. FifoInv' /\ Reading' = NoItem /\ Reading = NoItem
    BY <1>1, <2>2, <2>4, <2>5, <2>6, Unlocks
  <2>8. ItemsOf(queue, buffer') = ItemsOf(queue, buffer)
    <3>1. \A i \in 1..queue.count : buffer'[Spot(queue, i)] = buffer[Spot(queue, i)]
      <4> SUFFICES ASSUME NEW i \in 1..queue.count
                   PROVE  buffer'[Spot(queue, i)] = buffer[Spot(queue, i)]
        OBVIOUS
      <4>1. i \in 1..depth + 1
        BY <2>3, QueueParts
      <4>2. Spot(queue, i) \in 0..depth - 1
        BY <4>1, Spots
      <4>3. Spot(queue, i) # queue.push
        BY <1>3, PushSpotFree
      <4> QED  BY <2>4, <4>2, <4>3
    <3> QED  BY <3>1, ItemsStay
  <2>9. Content' = Append(Content, v)
    BY <2>4, <2>5, <2>8, ItemsGrow, ContentIs
  <2>10. Len(Content) = queue.count
    BY ItemsSeq, ContentIs
  <2> QED  BY <2>3, <2>7, <2>9, <2>10 DEF Fifo!Push
<1> QED  BY <1>2, <1>3

LEMMA HostPopFifo ==
  ASSUME FifoInv, NEW h \in Host, NEW o \in {"pop", "peek"}, HostPop(h, o),
         SigTypeOK', HostTypeOK'
  PROVE  FifoInv' /\ (UNCHANGED FifoVars \/ Fifo!Pop)
<1> USE FifoParts
<1>1. /\ qlock = NoTask /\ qlock' = qlock /\ op' = op /\ buffer' = buffer /\ data' = data
      /\ \A u \in Task : op[u] \notin EndOps
  BY FreeLock DEF HostPop
<1>2. CASE queue.count = 0 \/ o # "pop"
  <2>1. queue' = queue
    BY <1>2 DEF HostPop
  <2> QED  BY <1>1, <2>1, QuietFifo, QueueParts
<1>3. CASE queue.count # 0 /\ o = "pop"
  <2>1. PopUpdate
    BY <1>3 DEF HostPop
  <2>2. /\ queue' \in QueueRecord
        /\ queue'.count = queue.count - 1 /\ queue'.pop = After(queue.pop) /\ queue'.push = queue.push
    BY <1>3, <2>1, PopUpdateEffect
  <2>3. queue'.push = (queue'.pop + queue'.count) % depth
    BY <1>3, <2>2, PushIndex
  <2>4. FifoInv' /\ Reading' = NoItem /\ Reading = NoItem
    BY <1>1, <2>2, <2>3, Unlocks, QueueParts
  <2>5. Content' = Tail(Content) /\ Content # << >>
    BY <1>1, <1>3, <2>2, ItemsShrink, ItemsSeq, ContentIs
  <2> QED  BY <2>4, <2>5 DEF Fifo!Pop
<1> QED  BY <1>2, <1>3

\* What the steps of other objects leave: the queue, and the calls that hold its lock.
LEMMA OtherFifo ==
  ASSUME FifoInv, SigTypeOK', HostTypeOK', UNCHANGED queueVars,
         \A t \in Task : op[t] \in EndOps \/ op'[t] \in EndOps => op'[t] = op[t]
  PROVE  FifoInv' /\ UNCHANGED FifoVars
BY QuietFifo, FifoParts, QueueParts DEF queueVars

\* A task's call goes on in another way.
LEMMA AnotherCall ==
  ASSUME SigTypeOK, NEW t \in Task, NEW o, op' = [op EXCEPT ![t] = o],
         op[t] \notin EndOps, o \notin EndOps
  PROVE  \A u \in Task : op[u] \in EndOps \/ op'[u] \in EndOps => op'[u] = op[u]
BY OpTo

LEMMA OtherCalls ==
  ASSUME SigTypeOK,
         \/ SignalCalls \/ SemCalls \/ BarCalls \/ FlagCalls \/ Kernel
         \/ \E b \in Bit : FlagClear({b})
         \/ \E t \in Task : Remove(t)
  PROVE  \A t \in Task : op[t] \in EndOps \/ op'[t] \in EndOps => op'[t] = op[t]
<1>1. Moves(SignalOps) \/ Moves(SemOps) \/ Moves(BarOps) \/ Moves(FlagOps) \/ UNCHANGED op
  BY SignalMoves, SemMoves, BarMoves, FlagMoves
     DEF Kernel, Wake, ResetSignal, FlagClear, Remove, sigVars
<1> QED  BY <1>1 DEF Moves, SignalOps, SemOps, BarOps, FlagOps, EndOps

-----------------------------------------------------------------------------
(* The order of the queue.                                                 *)

\* The steps of the queue one by one.
LEMMA QueueSteps ==
  ASSUME QueueCalls \/ PeekCalls \/ ClearCalls \/ HostClearCalls
  PROVE  \/ \E t \in Task, v \in Item : PushBegin(t, v) \/ PushBlocks(t, v)
         \/ \E t \in Task : \/ PushLimit(t) \/ PushEnd(t) \/ QueueEvent(t)
                            \/ PopEnd(t) \/ PeekEnd(t) \/ QueueClear(t)
         \/ \E t \in Task, o \in {"pop", "peek"} :
              PopBegin(t, o) \/ PopBlocks(t, o) \/ PopLimit(t, o)
         \/ \E h \in Host, v \in Item : HostPush(h, v)
         \/ \E h \in Host : HostPushTests(h) \/ HostQueueClear(h)
         \/ \E h \in Host, o \in {"pop", "peek"} : HostPop(h, o) \/ HostPopTests(h, o)
<1>1. CASE QueueCalls
  BY <1>1 DEF QueueCalls
<1>2. CASE PeekCalls
  BY <1>2 DEF PeekCalls
<1>3. CASE ClearCalls \/ HostClearCalls
  BY <1>3 DEF ClearCalls, HostClearCalls
<1> QED  BY <1>1, <1>2, <1>3

\* The types after a step of a task that signals the tasks ts or nobody.
LEMMA TaskStepTypes ==
  ASSUME SigTypeOK, HostTypeOK, NEW t \in Task, NEW o \in Ops,
         Continue(t, o) \/ Block(t, o),
         UNCHANGED signal \/ \E ts : Send(ts),
         UNCHANGED news, UNCHANGED hostVars
  PROVE  SigTypeOK' /\ HostTypeOK'
<1>1. signal' \in [Task -> BOOLEAN]
  BY SendTypes, SigParts
<1>2. op' \in [Task -> Ops] /\ status' \in [Task -> {"running", "waiting", "resumed", "gone"}]
  BY ContinueTypes, BlockTypes, SigParts
<1> QED  BY <1>1, <1>2 DEF SigTypeOK, HostTypeOK, hostVars

LEMMA PushLimitStep ==
  ASSUME FifoInv, NEW t \in Task, PushLimit(t)
  PROVE  SigTypeOK' /\ HostTypeOK' /\ FifoInv' /\ UNCHANGED FifoVars
<1>1. SigTypeOK /\ HostTypeOK
  BY FifoParts, QueueParts
<1>2. SigTypeOK' /\ HostTypeOK'
  BY <1>1, TaskStepTypes, OpsNamed DEF PushLimit
<1>3. data' \in [User -> Item \union {NoItem}] /\ \A u \in Task : u # t => data'[u] = data[u]
  BY FifoParts, QueueParts DEF PushLimit, User
<1>4. op[t] \notin EndOps /\ op' = [op EXCEPT ![t] = "none"]
  BY DEF PushLimit, Inside, EndOps, Continue
<1>5. \A u \in Task : op[u] \in EndOps \/ op'[u] \in EndOps => op'[u] = op[u]
  BY <1>1, <1>4, AnotherCall DEF EndOps
<1>6. \A u \in Task : op[u] \in EndOps \/ op'[u] \in EndOps => u # t
  BY <1>4, <1>5
<1>7. queue' = queue /\ buffer' = buffer /\ qlock' = qlock
  BY DEF PushLimit
<1> QED  BY <1>2, <1>3, <1>5, <1>6, <1>7, QuietFifo, FifoParts

LEMMA PushBlocksStep ==
  ASSUME FifoInv, NEW t \in Task, NEW v \in Item, PushBlocks(t, v)
  PROVE  SigTypeOK' /\ HostTypeOK' /\ FifoInv' /\ UNCHANGED FifoVars
<1>1. SigTypeOK /\ HostTypeOK /\ QueueTypeOK
  BY FifoParts, QueueParts
<1>2. SigTypeOK' /\ HostTypeOK'
  BY <1>1, TaskStepTypes, OpsNamed DEF PushBlocks
<1>3. data' \in [User -> Item \union {NoItem}] /\ \A u \in Task : u # t => data'[u] = data[u]
  BY <1>1, QueueParts DEF PushBlocks, User
<1>4. op[t] \notin EndOps /\ op' = [op EXCEPT ![t] = "push"]
  BY DEF PushBlocks, Locks, Free, Inside, EndOps, Block
<1>5. \A u \in Task : op[u] \in EndOps \/ op'[u] \in EndOps => op'[u] = op[u]
  BY <1>1, <1>4, AnotherCall DEF EndOps
<1>6. \A u \in Task : op[u] \in EndOps \/ op'[u] \in EndOps => u # t
  BY <1>4, <1>5
<1>7. buffer' = buffer /\ qlock' = qlock
      /\ queue' \in QueueRecord
      /\ queue'.count = queue.count /\ queue'.push = queue.push /\ queue'.pop = queue.pop
  BY <1>1, EnlistEffect DEF PushBlocks
<1> QED  BY <1>2, <1>3, <1>5, <1>6, <1>7, QuietFifo, FifoParts

LEMMA PopBlocksStep ==
  ASSUME FifoInv, NEW t \in Task, NEW o \in {"pop", "peek"}, PopBlocks(t, o) \/ PopLimit(t, o)
  PROVE  SigTypeOK' /\ HostTypeOK' /\ FifoInv' /\ UNCHANGED FifoVars
<1>1. SigTypeOK /\ HostTypeOK /\ QueueTypeOK
  BY FifoParts, QueueParts
<1>2. o \in Ops /\ "none" \in Ops /\ o \notin EndOps /\ "none" \notin EndOps
  BY OpsNamed DEF EndOps
<1>3. SigTypeOK' /\ HostTypeOK'
  BY <1>1, <1>2, TaskStepTypes DEF PopBlocks, PopLimit
<1>4. op[t] \notin EndOps /\ (op' = [op EXCEPT ![t] = o] \/ op' = [op EXCEPT ![t] = "none"])
  BY DEF PopBlocks, PopLimit, Locks, Free, Inside, EndOps, Block, Continue
<1>5. \A u \in Task : op[u] \in EndOps \/ op'[u] \in EndOps => op'[u] = op[u]
  BY <1>1, <1>2, <1>4, AnotherCall
<1>6. buffer' = buffer /\ qlock' = qlock /\ data' = data
      /\ queue' \in QueueRecord
      /\ queue'.count = queue.count /\ queue'.push = queue.push /\ queue'.pop = queue.pop
  <2>1. CASE PopBlocks(t, o)
    BY <1>1, <2>1, EnlistEffect DEF PopBlocks
  <2>2. CASE PopLimit(t, o)
    BY <2>2, FifoParts DEF PopLimit, queueVars
  <2> QED  BY <2>1, <2>2
<1> QED  BY <1>1, <1>3, <1>5, <1>6, QuietFifo, QueueParts

LEMMA QueueEventStep ==
  ASSUME FifoInv, NEW t \in Task, QueueEvent(t)
  PROVE  SigTypeOK' /\ HostTypeOK' /\ FifoInv' /\ UNCHANGED FifoVars
<1>1. SigTypeOK /\ HostTypeOK
  BY FifoParts, QueueParts
<1>2. SigTypeOK' /\ HostTypeOK'
  <2>1. SigTypeOK'
    BY <1>1, OpsNamed DEF QueueEvent, Continue, SigTypeOK
  <2>2. HostTypeOK'
    BY <1>1 DEF QueueEvent, HostTypeOK
  <2> QED  BY <2>1, <2>2
<1>3. op[t] \notin EndOps /\ op' = [op EXCEPT ![t] = "none"]
  BY DEF QueueEvent, Inside, EndOps, Continue
<1>4. \A u \in Task : op[u] \in EndOps \/ op'[u] \in EndOps => op'[u] = op[u]
  BY <1>1, <1>3, AnotherCall DEF EndOps
<1> QED  BY <1>2, <1>4, OtherFifo DEF QueueEvent

LEMMA HostTestsStep ==
  ASSUME FifoInv, NEW h \in Host, NEW o \in {"push", "pop", "peek"}, NEW c,
         HostTests(h, o, c), UNCHANGED <<sigVars, queueVars>>
  PROVE  SigTypeOK' /\ HostTypeOK' /\ FifoInv' /\ UNCHANGED FifoVars
<1>1. SigTypeOK /\ HostTypeOK
  BY FifoParts, QueueParts
<1>2. SigTypeOK' /\ op' = op
  BY <1>1 DEF SigTypeOK, sigVars
<1>3. HostTypeOK'
  <2>1. HostTo(h, "relock", o) \/ HostTo(h, "asleep", o)
    BY DEF HostTests
  <2> QED  BY <1>1, <2>1, HostToTypes
<1> QED  BY <1>2, <1>3, OtherFifo

LEMMA BeginTypes ==
  ASSUME FifoInv, NEW t \in Task,
         \/ \E v \in Item : PushBegin(t, v)
         \/ \E o \in {"pop", "peek"} : PopBegin(t, o)
         \/ PeekEnd(t)
  PROVE  SigTypeOK' /\ HostTypeOK'
<1>1. SigTypeOK /\ HostTypeOK
  BY FifoParts, QueueParts
<1>2. PICK x \in Ops : Continue(t, x)
  <2>1. CASE \E v \in Item : PushBegin(t, v)           BY <2>1, OpsNamed DEF PushBegin
  <2>2. CASE \E o \in {"pop", "peek"} : PopBegin(t, o)  BY <2>2, OpsNamed DEF PopBegin
  <2>3. CASE PeekEnd(t)                                BY <2>3, OpsNamed DEF PeekEnd
  <2> QED  BY <2>1, <2>2, <2>3
<1> QED  BY <1>1, <1>2, TaskStepTypes DEF PushBegin, PopBegin, PeekEnd

LEMMA EndTypes ==
  ASSUME FifoInv, NEW t \in Task, PushEnd(t) \/ PopEnd(t) \/ QueueClear(t)
  PROVE  SigTypeOK' /\ HostTypeOK'
<1>1. SigTypeOK /\ HostTypeOK
  BY FifoParts, QueueParts
<1>2. PICK x \in Ops : Continue(t, x)
  <2>1. CASE PushEnd(t)     BY <2>1, OpsNamed DEF PushEnd
  <2>2. CASE PopEnd(t)      BY <2>2, OpsNamed DEF PopEnd
  <2>3. CASE QueueClear(t)  BY <2>3, OpsNamed DEF QueueClear
  <2> QED  BY <2>1, <2>2, <2>3
<1>3. \E ts : Send(ts)
  BY DEF PushEnd, PopEnd, QueueClear, PushUpdate, PopUpdate
<1> QED  BY <1>1, <1>2, <1>3, TaskStepTypes DEF PushEnd, PopEnd, QueueClear

LEMMA HostQueueTypes ==
  ASSUME FifoInv, NEW h \in Host,
         \/ \E v \in Item : HostPush(h, v)
         \/ \E o \in {"pop", "peek"} : HostPop(h, o)
         \/ HostQueueClear(h)
  PROVE  SigTypeOK' /\ HostTypeOK'
<1>1. SigTypeOK /\ HostTypeOK
  BY FifoParts, QueueParts
<1>2. status' = status /\ op' = op /\ news' = news
  BY DEF HostPush, HostPop, HostQueueClear
<1>3. signal' = signal \/ \E ts : Send(ts)
  BY DEF HostPush, HostPop, HostQueueClear, PushUpdate, PopUpdate
<1>4. signal' \in [Task -> BOOLEAN]
  BY <1>1, <1>3, SendTypes, SigParts
<1>5. SigTypeOK'
  BY <1>1, <1>2, <1>4 DEF SigTypeOK
<1>6. HostTypeOK'
  <2>1. \/ HostTo(h, "testing", "push") \/ HostTo(h, "idle", "none")
        \/ \E o \in {"pop", "peek"} : HostTo(h, "testing", o)
        \/ UNCHANGED hostVars
    BY DEF HostPush, HostPop, HostQueueClear
  <2> QED  BY <1>1, <2>1, HostToTypes DEF HostTypeOK, hostVars
<1> QED  BY <1>5, <1>6

LEMMA QueueClearFifo ==
  ASSUME FifoInv, (\E t \in Task : QueueClear(t)) \/ (\E h \in Host : HostQueueClear(h)),
         SigTypeOK', HostTypeOK'
  PROVE  FifoInv' /\ Fifo!Clear
<1>1. CASE \E t \in Task : QueueClear(t)
  <2>1. PICK t \in Task : QueueClear(t)
    BY <1>1
  <2>2. /\ qlock = NoTask /\ queue' = Cleared /\ buffer' = buffer /\ qlock' = qlock /\ data' = data
        /\ op[t] = "none"
        /\ op' = [op EXCEPT ![t] = IF queue.count = depth /\ queue.direction = "HOST_TO_MPU"
                                   THEN "queue_event" ELSE "none"]
    BY <2>1 DEF QueueClear, Free, Continue
  <2>3. op'[t] \in {"queue_event", "none"} /\ \A u \in Task : u # t => op'[u] \notin EndOps
    BY <2>2, OneCall
  <2>4. \A u \in Task : op'[u] \in EndOps => op[u] \in EndOps
    BY <2>3 DEF EndOps
  <2> QED  BY <2>2, <2>4, ClearFifo
<1>2. CASE \E h \in Host : HostQueueClear(h)
  <2>1. /\ qlock = NoTask /\ queue' = Cleared /\ buffer' = buffer /\ qlock' = qlock /\ data' = data
        /\ op' = op
    BY <1>2 DEF HostQueueClear
  <2> QED  BY <2>1, ClearFifo
<1> QED  BY <1>1, <1>2

LEMMA QueueFifoStep ==
  ASSUME FifoInv, QueueCalls \/ PeekCalls \/ ClearCalls \/ HostClearCalls
  PROVE  FifoInv' /\ [Fifo!FifoNext]_FifoVars
<1> USE DEF Fifo!FifoNext
<1>1. ASSUME NEW t \in Task, NEW v \in Item, PushBegin(t, v) \/ PushBlocks(t, v)
      PROVE  FifoInv' /\ [Fifo!FifoNext]_FifoVars
  BY <1>1, BeginTypes, PushBeginFifo, PushBlocksStep
<1>2. ASSUME NEW t \in Task, \/ PushLimit(t) \/ PushEnd(t) \/ QueueEvent(t)
                             \/ PopEnd(t) \/ PeekEnd(t) \/ QueueClear(t)
      PROVE  FifoInv' /\ [Fifo!FifoNext]_FifoVars
  <2>1. CASE PushLimit(t)  BY <2>1, PushLimitStep
  <2>2. CASE PushEnd(t)
    <3>1. FifoInv' /\ \E v \in Item : Fifo!Push(v)
      BY <2>2, EndTypes, PushEndFifo
    <3> QED  BY <3>1
  <2>3. CASE QueueEvent(t)  BY <2>3, QueueEventStep
  <2>4. CASE PopEnd(t)  BY <2>4, EndTypes, PopEndFifo
  <2>5. CASE PeekEnd(t)
    BY <2>5, BeginTypes, PeekEndFifo
  <2>6. CASE QueueClear(t)  BY <2>6, EndTypes, QueueClearFifo
  <2> QED  BY <1>2, <2>1, <2>2, <2>3, <2>4, <2>5, <2>6
<1>3. ASSUME NEW t \in Task, NEW o \in {"pop", "peek"},
             PopBegin(t, o) \/ PopBlocks(t, o) \/ PopLimit(t, o)
      PROVE  FifoInv' /\ [Fifo!FifoNext]_FifoVars
  <2>1. CASE PopBegin(t, o)
    BY <2>1, BeginTypes, PopBeginFifo
  <2>2. CASE PopBlocks(t, o) \/ PopLimit(t, o)
    BY <2>2, PopBlocksStep
  <2> QED  BY <1>3, <2>1, <2>2
<1>4. ASSUME NEW h \in Host, NEW v \in Item, HostPush(h, v)
      PROVE  FifoInv' /\ [Fifo!FifoNext]_FifoVars
  BY <1>4, HostQueueTypes, HostPushFifo
<1>5. ASSUME NEW h \in Host, HostPushTests(h) \/ HostQueueClear(h)
      PROVE  FifoInv' /\ [Fifo!FifoNext]_FifoVars
  <2>1. CASE HostPushTests(h)
    BY <2>1, HostTestsStep DEF HostPushTests
  <2>2. CASE HostQueueClear(h)
    BY <2>2, HostQueueTypes, QueueClearFifo
  <2> QED  BY <1>5, <2>1, <2>2
<1>6. ASSUME NEW h \in Host, NEW o \in {"pop", "peek"}, HostPop(h, o) \/ HostPopTests(h, o)
      PROVE  FifoInv' /\ [Fifo!FifoNext]_FifoVars
  <2>1. CASE HostPop(h, o)
    BY <2>1, HostQueueTypes, HostPopFifo
  <2>2. CASE HostPopTests(h, o)
    BY <2>2, HostTestsStep DEF HostPopTests
  <2> QED  BY <1>6, <2>1, <2>2
<1> QED  BY QueueSteps, <1>1, <1>2, <1>3, <1>4, <1>5, <1>6

LEMMA FifoInitial == SyncInit => FifoInv /\ Fifo!FifoInit
<1> SUFFICES ASSUME SyncInit PROVE FifoInv /\ Fifo!FifoInit
  OBVIOUS
<1>1. SigTypeOK /\ HostTypeOK
  BY OpsNamed DEF SyncInit, SigInit, HostInit, SigTypeOK, HostTypeOK
<1>2. PICK d \in Directions :
        queue = [count |-> 0, push |-> 0, pop |-> 0, push_wait |-> EmptyRing,
                 pop_wait |-> EmptyRing, direction |-> d]
  BY DEF SyncInit, QueueInit
<1>3. EmptyRing \in WaitRing
  BY QueueAssumption DEF EmptyRing, WaitRing, Places
<1>4. depth \in Nat \ {0}
  BY QueueAssumption
<1>5. queue \in QueueRecord
  BY <1>2, <1>3, <1>4 DEF QueueRecord
<1>6. buffer \in Buffers /\ qlock = NoTask /\ data \in [User -> Item \union {NoItem}]
  BY DEF SyncInit, QueueInit, Buffers
<1>7. QueueTypeOK
  BY <1>1, <1>5, <1>6, QueueTypes DEF Buffers
<1>8. \A t \in Task : op[t] = "none" /\ op[t] \notin EndOps /\ qlock # t
  BY <1>6, QueueAssumption DEF SyncInit, SigInit, EndOps
<1>9. queue.push = (queue.pop + queue.count) % depth
  <2>1. queue.push = 0 /\ queue.pop = 0 /\ queue.count = 0
    BY <1>2
  <2> QED  BY <1>5, <2>1, <1>4
<1>10. FifoInv
  BY <1>7, <1>8, <1>9 DEF FifoInv
<1>11. Content = << >>
  BY <1>2, <1>5, <1>6, ItemsSeq, ContentIs
<1>12. Reading = NoItem
  BY <1>6 DEF Reading
<1> QED  BY <1>10, <1>11, <1>12 DEF Fifo!FifoInit

LEMMA SyncFifoStep == FifoInv /\ [SyncNext]_syncVars => FifoInv' /\ [Fifo!FifoNext]_FifoVars
<1> SUFFICES ASSUME FifoInv, [SyncNext]_syncVars PROVE FifoInv' /\ [Fifo!FifoNext]_FifoVars
  OBVIOUS
<1>0. SigTypeOK /\ HostTypeOK
  BY FifoParts, QueueParts
<1>1. CASE QueueStep \/ PeekStep \/ ClearStep \/ HostClearStep
  BY <1>1, QueueFifoStep DEF QueueStep, PeekStep, ClearStep, HostClearStep, Calls
<1>2. ASSUME SigTypeOK', HostTypeOK', UNCHANGED queueVars,
             \/ SignalCalls \/ SemCalls \/ BarCalls \/ FlagCalls \/ Kernel
             \/ \E b \in Bit : FlagClear({b})
             \/ \E t \in Task : Remove(t)
      PROVE  FifoInv' /\ [Fifo!FifoNext]_FifoVars
  BY <1>0, <1>2, OtherCalls, OtherFifo
<1>3. UNCHANGED hostVars => HostTypeOK'
  BY <1>0 DEF HostTypeOK, hostVars
<1>4. UNCHANGED sigVars => SigTypeOK' /\ op' = op
  BY <1>0 DEF SigTypeOK, sigVars
<1>5. CASE SignalStep \/ KernelStep \/ RemoveStep
  BY <1>0, <1>2, <1>3, <1>5, SignalTypes DEF SignalStep, KernelStep, RemoveStep, Calls
<1>6. CASE SemaphoreStep
  BY <1>0, <1>2, <1>3, <1>6, SemaphoreTypes DEF SemaphoreStep, Calls
<1>7. CASE BarrierStep
  BY <1>0, <1>2, <1>3, <1>7, BarrierTypes DEF BarrierStep, Calls
<1>8. CASE FlagStep
  BY <1>0, <1>2, <1>8, FlagTypes DEF FlagStep, Calls
<1>9. CASE FlagClearStep
  BY <1>2, <1>3, <1>4, <1>9 DEF FlagClearStep, Calls, FlagClear
<1>10. CASE BroadcastStep
  <2>1. HostTypeOK'
    BY <1>0, <1>10 DEF BroadcastStep, Broadcast, HostTypeOK
  <2> QED  BY <1>4, <1>10, <2>1, OtherFifo DEF BroadcastStep
<1>11. CASE Destroy \/ UNCHANGED syncVars
  BY <1>3, <1>4, <1>11, OtherFifo DEF Destroy, syncVars
<1> QED  BY <1>1, <1>5, <1>6, <1>7, <1>8, <1>9, <1>10, <1>11 DEF SyncNext

\* The queue keeps its order, for any depth, tasks, host threads and items:
\* what is popped and peeked is the oldest item, although a push or pop is a DMA
\* between two steps (task_queue.c:166-180), whatever else the program uses.
THEOREM QueueKeepsOrder == SyncSpec => QueueFifo
<1>1. SyncInit => FifoInv /\ Fifo!FifoInit
  BY FifoInitial
<1>2. FifoInv /\ [SyncNext]_syncVars => FifoInv' /\ [Fifo!FifoNext]_<<Content, Reading>>
  BY SyncFifoStep DEF FifoVars
<1> QED  BY <1>1, <1>2, PTL DEF SyncSpec, QueueFifo, Fifo!FifoSpec

-----------------------------------------------------------------------------
(* The steps of a program.                                                 *)

LEMMA QueueMoves ==
  ASSUME SigTypeOK, QueueCalls \/ PeekCalls \/ ClearCalls \/ HostClearCalls
  PROVE  Moves(QueueOps)
<1>1. ASSUME NEW t \in Task, NEW v \in Item, PushBegin(t, v) \/ PushBlocks(t, v)
      PROVE  Moves(QueueOps)
  <2>1. status[t] = "running" /\ op[t] \in QueueOps
    BY <1>1 DEF PushBegin, PushBlocks, Locks, Free, Inside, QueueOps
  <2>2. \E o \in QueueOps : Continue(t, o) \/ Block(t, o)
    BY <1>1 DEF PushBegin, PushBlocks, QueueOps
  <2> QED  BY <2>1, <2>2, OneMoves
<1>2. ASSUME NEW t \in Task, \/ PushLimit(t) \/ PushEnd(t) \/ QueueEvent(t)
                             \/ PopEnd(t) \/ PeekEnd(t) \/ QueueClear(t)
      PROVE  Moves(QueueOps)
  <2>1. status[t] = "running" /\ op[t] \in QueueOps
    BY <1>2 DEF PushLimit, PushEnd, QueueEvent, PopEnd, PeekEnd, QueueClear, Free, Inside, QueueOps
  <2>2. \E o \in QueueOps : Continue(t, o) \/ Block(t, o)
    BY <1>2 DEF PushLimit, PushEnd, QueueEvent, PopEnd, PeekEnd, QueueClear, QueueOps
  <2> QED  BY <2>1, <2>2, OneMoves
<1>3. ASSUME NEW t \in Task, NEW o \in {"pop", "peek"},
             PopBegin(t, o) \/ PopBlocks(t, o) \/ PopLimit(t, o)
      PROVE  Moves(QueueOps)
  <2>1. status[t] = "running" /\ op[t] \in QueueOps
    BY <1>3 DEF PopBegin, PopBlocks, PopLimit, Locks, Free, Inside, QueueOps
  <2>2. \E x \in QueueOps : Continue(t, x) \/ Block(t, x)
    BY <1>3 DEF PopBegin, PopBlocks, PopLimit, QueueOps
  <2> QED  BY <2>1, <2>2, OneMoves
<1>4. ASSUME NEW h \in Host,
             \/ \E v \in Item : HostPush(h, v)
             \/ HostPushTests(h) \/ HostQueueClear(h)
             \/ \E o \in {"pop", "peek"} : HostPop(h, o) \/ HostPopTests(h, o)
      PROVE  Moves(QueueOps)
  BY <1>4, NobodyMoves DEF HostPush, HostPushTests, HostQueueClear, HostPop, HostPopTests, sigVars
<1> QED  BY QueueSteps, <1>1, <1>2, <1>3, <1>4

\* The steps of the program by the variables of the objects they leave.
LEMMA SyncSteps ==
  ASSUME [SyncNext]_syncVars
  PROVE  \/ /\ SignalCalls \/ Kernel \/ \E t \in Task : Remove(t)
            /\ UNCHANGED <<hostVars, semVars, barVars, flagVars, queueVars>>
         \/ SemCalls /\ UNCHANGED <<hostVars, barVars, flagVars, queueVars>>
         \/ BarCalls /\ UNCHANGED <<hostVars, semVars, flagVars, queueVars>>
         \/ FlagCalls /\ UNCHANGED <<semVars, barVars, queueVars>>
         \/ (\E b \in Bit : FlagClear({b})) /\ UNCHANGED <<semVars, barVars, queueVars>>
         \/ /\ QueueCalls \/ PeekCalls \/ (ClearCalls /\ "clear" \in use)
               \/ (HostClearCalls /\ "host_clear" \in use)
            /\ UNCHANGED <<semVars, barVars, flagVars>>
         \/ Broadcast /\ UNCHANGED <<sigVars, semVars, barVars, flagVars, queueVars>>
         \/ UNCHANGED <<sigVars, hostVars, semVars, barVars, flagVars, queueVars>>
<1>1. CASE SignalStep \/ KernelStep \/ RemoveStep
  BY <1>1 DEF SignalStep, KernelStep, RemoveStep, Calls
<1>2. CASE SemaphoreStep \/ BarrierStep
  BY <1>2 DEF SemaphoreStep, BarrierStep, Calls
<1>3. CASE FlagStep \/ FlagClearStep
  BY <1>3 DEF FlagStep, FlagClearStep, Calls
<1>4. CASE QueueStep \/ PeekStep \/ ClearStep \/ HostClearStep
  BY <1>4 DEF QueueStep, PeekStep, ClearStep, HostClearStep, Calls
<1>5. CASE BroadcastStep
  BY <1>5 DEF BroadcastStep
<1>6. CASE Destroy \/ UNCHANGED syncVars
  BY <1>6 DEF Destroy, syncVars
<1> QED  BY <1>1, <1>2, <1>3, <1>4, <1>5, <1>6 DEF SyncNext

LEMMA UseStays == ASSUME [SyncNext]_syncVars PROVE use' = use
<1>1. CASE SyncNext
  BY <1>1 DEF SyncNext, SignalStep, SemaphoreStep, BarrierStep, FlagStep, FlagClearStep, QueueStep,
     PeekStep, ClearStep, HostClearStep, KernelStep, BroadcastStep, RemoveStep, Destroy, Calls
<1>2. CASE UNCHANGED syncVars
  BY <1>2 DEF syncVars
<1> QED  BY <1>1, <1>2

\* A removed task stays removed.
LEMMA GoneForever ==
  ASSUME SigTypeOK, [SyncNext]_syncVars
  PROVE  \A t \in Task : status[t] = "gone" => status'[t] = "gone"
<1>1. ASSUME NEW X, Moves(X) PROVE \A t \in Task : status[t] = "gone" => status'[t] = "gone"
  BY <1>1 DEF Moves
<1>2. CASE Kernel
  BY <1>2 DEF Kernel, Wake, ResetSignal, SigTypeOK
<1>3. CASE \E t \in Task : Remove(t)
  BY <1>3 DEF Remove, SigTypeOK
<1>4. CASE UNCHANGED sigVars \/ \E b \in Bit : FlagClear({b})
  BY <1>4 DEF sigVars, FlagClear
<1> QED  BY SyncSteps, <1>1, <1>2, <1>3, <1>4, SignalMoves, SemMoves, BarMoves, FlagMoves, QueueMoves

-----------------------------------------------------------------------------
(* The event flag.                                                         *)

\* An entry of the wait list, and the flag.
FlagEntry == [id : Task, c : Conditions]
FlagRecord == [bits : SUBSET Bit, direction : Directions, clear_mode : {"AUTO", "MANUAL"},
               wait : Seq(FlagEntry)]

\* The types of the flag, without those of the tasks and host threads.
FlagOK ==
  /\ flag \in FlagRecord /\ Len(flag.wait) <= EVENT_FLAG_WAIT_MAX
  /\ want \in [Task \union Host -> Conditions \union {NoCondition}]

LEMMA MetGrows ==
  ASSUME NEW A, NEW B, A \subseteq B, NEW c, Met(A, c)
  PROVE  Met(B, c)
BY DEF Met

LEMMA FlagParts ==
  ASSUME FlagOK
  PROVE  /\ flag.bits \in SUBSET Bit /\ flag.direction \in Directions
         /\ flag.clear_mode \in {"AUTO", "MANUAL"}
         /\ flag.wait \in Seq(FlagEntry) /\ Len(flag.wait) \in Nat
         /\ \A i \in 1..Len(flag.wait) : /\ flag.wait[i].id \in Task
                                         /\ flag.wait[i].c \in Conditions
<1>1. flag.wait \in Seq(FlagEntry)
  BY DEF FlagOK, FlagRecord
<1>2. \A i \in 1..Len(flag.wait) : flag.wait[i] \in FlagEntry
  BY <1>1
<1>3. \A e \in FlagEntry : e.id \in Task /\ e.c \in Conditions
  BY DEF FlagEntry
<1>4. Len(flag.wait) \in Nat
  BY <1>1
<1> QED  BY <1>1, <1>2, <1>3, <1>4 DEF FlagOK, FlagRecord

LEMMA ConsumedShrinks ==
  ASSUME FlagOK, NEW c, flag' = [flag EXCEPT !.bits = Consumed(c)]
  PROVE  /\ flag' \in FlagRecord /\ flag'.bits \subseteq flag.bits /\ flag'.wait = flag.wait
         /\ flag'.direction = flag.direction /\ flag'.clear_mode = flag.clear_mode
BY DEF FlagOK, FlagRecord, Consumed

\* The places a flush of the first n entries signals, and those it keeps.
MetPlaces(bits, n) == {i \in 1..n : Met(bits, flag.wait[i].c)}
KeptPlaces(bits, n) == 1..Len(flag.wait) \ MetPlaces(bits, n)

LEMMA FlushEffect ==
  ASSUME FlagOK, NEW bits \in SUBSET Bit, NEW n \in 0..Len(flag.wait), Flush(bits, n)
  PROVE  /\ Send({flag.wait[i].id : i \in MetPlaces(bits, n)})
         /\ flag' \in FlagRecord /\ flag'.bits = bits
         /\ flag'.direction = flag.direction /\ flag'.clear_mode = flag.clear_mode
         /\ Len(flag'.wait) <= EVENT_FLAG_WAIT_MAX
         /\ \A i \in KeptPlaces(bits, n) :
              /\ Rank(KeptPlaces(bits, n), i) \in 1..Len(flag'.wait)
              /\ flag'.wait[Rank(KeptPlaces(bits, n), i)] = flag.wait[i]
         /\ \A k \in 1..Len(flag'.wait) : \E i \in KeptPlaces(bits, n) :
              Rank(KeptPlaces(bits, n), i) = k /\ flag'.wait[k] = flag.wait[i]
<1> DEFINE w == flag.wait
           kept == KeptPlaces(bits, n)
           e == Entries(w, kept)
<1>1. w \in Seq(FlagEntry) /\ Len(w) \in Nat /\ Len(w) <= EVENT_FLAG_WAIT_MAX
  BY FlagParts DEF FlagOK
<1>2. /\ Send({w[i].id : i \in MetPlaces(bits, n)})
      /\ flag' = [flag EXCEPT !.bits = bits, !.wait = e]
  BY DEF Flush, MetPlaces, KeptPlaces
<1>3. kept \in SUBSET (1..Len(w))
  BY DEF KeptPlaces
<1>4. /\ e \in Seq(FlagEntry) /\ Len(e) \in 0..Len(w)
      /\ \A i \in kept : Rank(kept, i) \in 1..Len(e) /\ e[Rank(kept, i)] = w[i]
      /\ \A k \in 1..Len(e) : \E i \in kept : Rank(kept, i) = k /\ e[k] = w[i]
  <2> HIDE DEF w, kept, e
  <2>1. /\ Entries(w, kept) \in Seq(FlagEntry) /\ Len(Entries(w, kept)) \in 0..Len(w)
        /\ \A i \in kept : /\ Rank(kept, i) \in 1..Len(Entries(w, kept))
                           /\ Entries(w, kept)[Rank(kept, i)] = w[i]
        /\ \A k \in 1..Len(Entries(w, kept)) :
             \E i \in kept : Rank(kept, i) = k /\ Entries(w, kept)[k] = w[i]
    BY <1>1, <1>3, EntriesKept
  <2> QED  BY <2>1 DEF e
<1>5. Len(e) <= EVENT_FLAG_WAIT_MAX
  <2>1. EVENT_FLAG_WAIT_MAX \in Nat
    BY FlagAssumption
  <2> HIDE DEF w, e
  <2> QED  BY <1>1, <1>4, <2>1
<1>6. /\ flag' \in FlagRecord /\ flag'.bits = bits /\ flag'.wait = e
      /\ flag'.direction = flag.direction /\ flag'.clear_mode = flag.clear_mode
  <2> HIDE DEF w, e
  <2> QED  BY <1>2, <1>4 DEF FlagOK, FlagRecord
<1>7. /\ \A i \in kept : Rank(kept, i) \in 1..Len(flag'.wait) /\ flag'.wait[Rank(kept, i)] = w[i]
      /\ \A k \in 1..Len(flag'.wait) : \E i \in kept : Rank(kept, i) = k /\ flag'.wait[k] = w[i]
  <2> HIDE DEF w, e, kept
  <2> QED  BY <1>4, <1>6
<1>8. Len(flag'.wait) <= EVENT_FLAG_WAIT_MAX
  <2> HIDE DEF e
  <2> QED  BY <1>5, <1>6
<1> QED  BY <1>2, <1>6, <1>7, <1>8, Zenon

\* The wait list of the flag stays, bits were at most taken back, and no task
\* that was removed comes back.
LEMMA ListWaits ==
  ASSUME FlagOK, FlagNotMissed, flag'.wait = flag.wait, flag'.bits \subseteq flag.bits,
         flag'.direction = flag.direction,
         \A t \in Task : status[t] = "gone" => status'[t] = "gone"
  PROVE  FlagNotMissed'
<1> SUFFICES ASSUME NEW i \in 1..Len(flag.wait), Met(flag'.bits, flag.wait[i].c)
             PROVE  flag'.direction = "HOST_TO_MPU" /\ Blocked(i)'
  BY DEF FlagNotMissed
<1>1. Met(flag.bits, flag.wait[i].c)
  BY MetGrows
<1>2. flag.direction = "HOST_TO_MPU" /\ Blocked(i)
  BY <1>1 DEF FlagNotMissed
<1>3. PICK j \in 1..i : status[flag.wait[j].id] = "gone"
  BY <1>2 DEF Blocked
<1>4. flag.wait[j].id \in Task
  BY <1>3, FlagParts
<1>5. status'[flag'.wait[j].id] = "gone"
  BY <1>3, <1>4
<1> QED  BY <1>2, <1>5 DEF Blocked

\* A flush of the whole list leaves nobody whose condition is met.
LEMMA FlushAllMet ==
  ASSUME FlagOK, NEW bits \in SUBSET Bit, Flush(bits, Len(flag.wait))
  PROVE  \A k \in 1..Len(flag'.wait) : ~ Met(flag'.bits, flag'.wait[k].c)
<1> SUFFICES ASSUME NEW k \in 1..Len(flag'.wait)
             PROVE  ~ Met(flag'.bits, flag'.wait[k].c)
  OBVIOUS
<1>0. Len(flag.wait) \in 0..Len(flag.wait)
  BY FlagParts
<1> DEFINE kept == KeptPlaces(bits, Len(flag.wait))
<1>1. PICK i \in kept : flag'.wait[k] = flag.wait[i]
  <2>1. \A m \in 1..Len(flag'.wait) : \E i \in kept : Rank(kept, i) = m /\ flag'.wait[m] = flag.wait[i]
    BY <1>0, FlushEffect
  <2> HIDE DEF kept
  <2> QED  BY <2>1
<1>2. flag'.bits = bits
  BY <1>0, FlushEffect
<1> QED  BY <1>1, <1>2 DEF KeptPlaces, MetPlaces

\* The host's flush stops at a task d that was removed, which stays in front of
\* all it did not look at.
LEMMA FlushToRemoved ==
  ASSUME SigTypeOK, FlagOK, NEW bits \in SUBSET Bit, NEW d \in 1..Len(flag.wait), Flush(bits, d - 1),
         status[flag.wait[d].id] = "gone", status' = status, flag.direction = "HOST_TO_MPU"
  PROVE  FlagNotMissed'
<1> DEFINE w == flag.wait
           kept == KeptPlaces(bits, d - 1)
           e == flag'.wait
<1>0. Len(w) \in Nat /\ d \in 1..Len(w) /\ d - 1 \in 0..Len(w)
  BY FlagParts
<1>1. /\ flag'.bits = bits /\ flag'.direction = "HOST_TO_MPU"
      /\ \A i \in kept : Rank(kept, i) \in 1..Len(e) /\ e[Rank(kept, i)] = w[i]
      /\ \A k \in 1..Len(e) : \E i \in kept : Rank(kept, i) = k /\ e[k] = w[i]
  BY <1>0, FlushEffect
<1>2. \A i, j \in kept : i <= j => Rank(kept, i) <= Rank(kept, j)
  <2>1. kept \in SUBSET (1..Len(w))
    BY DEF KeptPlaces
  <2> HIDE DEF kept, w
  <2> QED  BY <1>0, <2>1, RankGrows
<1>3. d \in kept /\ e[Rank(kept, d)].id = w[d].id
  <2>1. d \in kept
    BY <1>0 DEF KeptPlaces, MetPlaces
  <2> QED  BY <1>1, <2>1
<1>4. ASSUME NEW k \in 1..Len(e), Met(bits, e[k].c)
      PROVE  Blocked(k)'
  <2>1. PICK i \in kept : Rank(kept, i) = k /\ e[k] = w[i]
    BY <1>1
  <2>2. i \in 1..Len(w) /\ i \notin 1..d - 1
    BY <1>1, <1>4, <2>1 DEF KeptPlaces, MetPlaces
  <2>3. d <= i
    BY <1>0, <2>2
  <2>4. Rank(kept, d) \in 1..k
    <3>1. Rank(kept, d) <= k /\ Rank(kept, d) \in 1..Len(e)
      BY <1>1, <1>2, <1>3, <2>1, <2>3
    <3> HIDE DEF kept, e
    <3> QED  BY <3>1
  <2>5. status'[e[Rank(kept, d)].id] = "gone"
    BY <1>3
  <2> HIDE DEF kept
  <2> QED  BY <2>4, <2>5 DEF Blocked
<1> HIDE DEF kept, w
<1> QED  BY <1>1, <1>4 DEF FlagNotMissed, e

\* The place of rank 1 is the first.
LEMMA FirstPlace ==
  ASSUME NEW m \in Nat, NEW places \in SUBSET (1..m), places # {}
  PROVE  \E i \in places : \A j \in places : i <= j
<1>0. Cardinality(places) \in Nat
  BY RankGrows
<1>1. \A j \in places : Rank(places, j) \in Nat /\ Rank(places, j) >= 1
                        /\ 1 <= Cardinality(places)
  <2> SUFFICES ASSUME NEW j \in places
               PROVE  Rank(places, j) \in Nat /\ Rank(places, j) >= 1 /\ 1 <= Cardinality(places)
    OBVIOUS
  <2>1. Rank(places, j) \in 1..Cardinality(places)
    BY RankGrows
  <2> QED  BY <1>0, <2>1
<1>2. 1 \in 1..Cardinality(places)
  <2>1. PICK j \in places : TRUE
    OBVIOUS
  <2>2. 1 <= Cardinality(places) /\ Cardinality(places) \in Nat
    BY <1>0, <1>1, <2>1
  <2> QED  BY <2>2
<1>3. PICK i \in places : Rank(places, i) = 1
  BY <1>2, RankOnto
<1>4. ASSUME NEW j \in places PROVE i <= j
  <2>1. j < i => Rank(places, j) < Rank(places, i)
    BY RankGrows
  <2>2. ~ (j < i)
    BY <1>1, <1>3, <2>1
  <2> QED  BY <2>2
<1> QED  BY <1>4

LEMMA HostSetWakes ==
  ASSUME SigTypeOK, FlagOK, FlagNotMissed, NEW h \in Host, NEW b \in Bit, HostFlagSet(h, {b})
  PROVE  FlagOK' /\ FlagNotMissed'
<1> DEFINE new == flag.bits \union {b}
           dead == {i \in 1..Len(flag.wait) :
                      status[flag.wait[i].id] = "gone" /\ Met(new, flag.wait[i].c)}
           first == CHOOSE i \in dead : \A j \in dead : i <= j
<1>0. new \in SUBSET Bit /\ Len(flag.wait) \in Nat
  BY FlagParts
<1>1. /\ Flush(new, IF dead = {} THEN Len(flag.wait) ELSE first - 1)
      /\ flag.direction = "HOST_TO_MPU" /\ status' = status /\ want' = want
  BY DEF HostFlagSet
<1>2. CASE dead = {}
  <2>1. Flush(new, Len(flag.wait)) /\ Len(flag.wait) \in 0..Len(flag.wait)
    <3> HIDE DEF new, dead
    <3> QED  BY <1>0, <1>1, <1>2
  <2>2. FlagOK'
    <3> HIDE DEF new
    <3> QED  BY <1>0, <1>1, <2>1, FlushEffect DEF FlagOK
  <2>3. \A k \in 1..Len(flag'.wait) : ~ Met(flag'.bits, flag'.wait[k].c)
    <3> HIDE DEF new
    <3> QED  BY <1>0, <2>1, FlushAllMet
  <2> QED  BY <2>2, <2>3 DEF FlagNotMissed
<1>3. CASE dead # {}
  <2>1. first \in dead
    <3>1. \E i \in dead : \A j \in dead : i <= j
      <4>1. dead \in SUBSET (1..Len(flag.wait))
        OBVIOUS
      <4> HIDE DEF dead
      <4> QED  BY <1>0, <1>3, <4>1, FirstPlace
    <3> HIDE DEF dead
    <3> QED  BY <3>1
  <2>2. first \in 1..Len(flag.wait) /\ status[flag.wait[first].id] = "gone"
    BY <2>1
  <2>3. Flush(new, first - 1)
    BY <1>1, <1>3
  <2> HIDE DEF first, new, dead
  <2>4. first - 1 \in 0..Len(flag.wait)
    BY <1>0, <2>2
  <2>5. FlagOK'
    BY <1>0, <1>1, <2>3, <2>4, FlushEffect DEF FlagOK
  <2>6. FlagNotMissed'
    BY <1>0, <1>1, <2>2, <2>3, FlushToRemoved
  <2> QED  BY <2>5, <2>6
<1> QED  BY <1>2, <1>3

\* A wait appends an entry whose condition is not met.
LEMMA BlockedWaits ==
  ASSUME SigTypeOK, FlagOK, FlagNotMissed, NEW t \in Task, NEW c \in Conditions, FlagWaitBlocks(t, c)
  PROVE  FlagOK' /\ FlagNotMissed'
<1> DEFINE w == flag.wait
           x == [id |-> t, c |-> c]
<1>1. /\ status[t] = "running" /\ ~ Met(flag.bits, c) /\ Len(w) < EVENT_FLAG_WAIT_MAX
      /\ flag' = [flag EXCEPT !.wait = Append(w, x)] /\ want' = [want EXCEPT ![t] = c]
      /\ status' = [status EXCEPT ![t] = "waiting"]
  BY DEF FlagWaitBlocks, Free, Block
<1>2. w \in Seq(FlagEntry) /\ x \in FlagEntry /\ Len(w) \in Nat
  BY FlagParts DEF FlagEntry
<1>3. /\ Append(w, x) \in Seq(FlagEntry) /\ Len(Append(w, x)) = Len(w) + 1
      /\ \A i \in 1..Len(w) : Append(w, x)[i] = w[i]
      /\ Append(w, x)[Len(w) + 1] = x
  <2> HIDE DEF w, x
  <2> QED  BY <1>2
<1>4. /\ flag' \in FlagRecord /\ flag'.wait = Append(w, x) /\ flag'.bits = flag.bits
      /\ flag'.direction = flag.direction
  <2> HIDE DEF w, x
  <2> QED  BY <1>1, <1>3 DEF FlagOK, FlagRecord
<1>5. Len(w) + 1 <= EVENT_FLAG_WAIT_MAX
  <2>1. EVENT_FLAG_WAIT_MAX \in Nat
    BY FlagAssumption
  <2> HIDE DEF w
  <2> QED  BY <1>1, <1>2, <2>1
<1>6. want' \in [Task \union Host -> Conditions \union {NoCondition}]
  BY <1>1 DEF FlagOK
<1>7. FlagOK'
  BY <1>3, <1>4, <1>5, <1>6 DEF FlagOK
<1>8. ASSUME NEW i \in 1..Len(w) + 1, Met(flag.bits, Append(w, x)[i].c)
      PROVE  flag.direction = "HOST_TO_MPU" /\ Blocked(i)'
  <2>1. i \in 1..Len(w)
    <3>1. i # Len(w) + 1
      BY <1>1, <1>3, <1>8
    <3> HIDE DEF w
    <3> QED  BY <1>2, <3>1
  <2>2. flag.direction = "HOST_TO_MPU" /\ Blocked(i)
    BY <1>3, <1>8, <2>1 DEF FlagNotMissed
  <2>3. PICK j \in 1..i : status[w[j].id] = "gone"
    BY <2>2 DEF Blocked
  <2>4. j \in 1..Len(w)
    <3> HIDE DEF w
    <3> QED  BY <1>2, <2>1
  <2>5. w[j].id \in Task /\ w[j].id # t
    BY <1>1, <2>3, <2>4, FlagParts
  <2>6. status'[w[j].id] = "gone" /\ flag'.wait[j] = w[j]
    BY <1>1, <1>3, <1>4, <2>3, <2>4, <2>5 DEF SigTypeOK
  <2> HIDE DEF w, x
  <2> QED  BY <2>2, <2>6 DEF Blocked
<1> HIDE DEF w, x
<1> QED  BY <1>3, <1>4, <1>7, <1>8 DEF FlagNotMissed

LEMMA FlagCallsKeep ==
  ASSUME SigTypeOK, FlagOK, FlagNotMissed, FlagCalls,
         \A t \in Task : status[t] = "gone" => status'[t] = "gone"
  PROVE  FlagOK' /\ FlagNotMissed'
<1>1. ASSUME NEW t \in Task, NEW b \in Bit, FlagSet(t, {b}) PROVE FlagOK' /\ FlagNotMissed'
  <2>1. Flush(flag.bits \union {b}, Len(flag.wait)) /\ want' = want
    BY <1>1 DEF FlagSet
  <2>2. flag.bits \union {b} \in SUBSET Bit /\ Len(flag.wait) \in 0..Len(flag.wait)
    BY FlagParts
  <2>3. \A k \in 1..Len(flag'.wait) : ~ Met(flag'.bits, flag'.wait[k].c)
    BY <2>1, <2>2, FlushAllMet
  <2>4. FlagOK'
    BY <2>1, <2>2, FlushEffect DEF FlagOK
  <2> QED  BY <2>3, <2>4 DEF FlagNotMissed
<1>2. ASSUME UNCHANGED flagVars PROVE FlagOK' /\ FlagNotMissed'
  BY <1>2, ListWaits DEF flagVars, FlagOK
<1>3. ASSUME NEW c, flag' = [flag EXCEPT !.bits = Consumed(c)],
             want' \in [Task \union Host -> Conditions \union {NoCondition}]
      PROVE  FlagOK' /\ FlagNotMissed'
  BY <1>3, ConsumedShrinks, ListWaits DEF FlagOK
<1>4. want \in [Task \union Host -> Conditions \union {NoCondition}]
  BY DEF FlagOK
<1>5. ASSUME NEW t \in Task,
             FlagSetEvent(t) \/ FlagWaitReturns(t) \/ \E c \in Conditions : FlagWait(t, c)
      PROVE  FlagOK' /\ FlagNotMissed'
  <2>1. CASE FlagSetEvent(t)                     BY <1>2, <2>1 DEF FlagSetEvent
  <2>2. CASE FlagWaitReturns(t)                  BY <1>3, <1>4, <2>2 DEF FlagWaitReturns
  <2>3. CASE \E c \in Conditions : FlagWait(t, c) BY <1>3, <1>4, <2>3 DEF FlagWait
  <2> QED  BY <1>5, <2>1, <2>2, <2>3
<1>6. ASSUME NEW h \in Host, NEW c \in Conditions, HostFlagWait(h, c)
      PROVE  FlagOK' /\ FlagNotMissed'
  <2>1. want' \in [Task \union Host -> Conditions \union {NoCondition}]
    BY <1>4, <1>6 DEF HostFlagWait
  <2>2. CASE Met(flag.bits, c)
    BY <1>3, <1>6, <2>1, <2>2 DEF HostFlagWait
  <2>3. CASE ~ Met(flag.bits, c)
    <3>1. flag' = flag
      BY <1>6, <2>3 DEF HostFlagWait
    <3> QED  BY <2>1, <3>1, ListWaits DEF FlagOK
  <2> QED  BY <2>2, <2>3
<1>7. ASSUME NEW h \in Host, HostFlagTests(h) PROVE FlagOK' /\ FlagNotMissed'
  BY <1>2, <1>7 DEF HostFlagTests
<1> QED  BY FlagSteps, <1>1, <1>5, <1>6, <1>7, BlockedWaits, HostSetWakes

\* Invariant: entries are well formed, and those that are met stand behind a
\* removed task.  FifoInv brings the types of tasks and host threads.
FlagInv == FifoInv /\ FlagOK /\ FlagNotMissed

LEMMA FlagInitial == SyncInit => FlagInv
<1> SUFFICES ASSUME SyncInit PROVE FlagInv
  OBVIOUS
<1>1. PICK d \in Directions, m \in {"AUTO", "MANUAL"} :
        flag = [bits |-> {}, direction |-> d, clear_mode |-> m, wait |-> << >>]
  BY DEF SyncInit, FlagInit, Directions
<1>2. flag \in FlagRecord /\ flag.wait = << >> /\ Len(flag.wait) = 0
  BY <1>1 DEF FlagRecord
<1>3. want \in [Task \union Host -> Conditions \union {NoCondition}]
  BY DEF SyncInit, FlagInit
<1>4. FlagOK /\ FlagNotMissed
  BY <1>2, <1>3, FlagAssumption DEF FlagOK, FlagNotMissed
<1> QED  BY <1>4, FifoInitial DEF FlagInv

LEMMA FlagStepKeeps == FlagInv /\ [SyncNext]_syncVars => FlagInv'
<1> SUFFICES ASSUME FlagInv, [SyncNext]_syncVars PROVE FlagInv'
  OBVIOUS
<1>0. SigTypeOK /\ FifoInv /\ FlagOK /\ FlagNotMissed
  BY FifoParts, QueueParts DEF FlagInv
<1>1. FifoInv'
  BY <1>0, SyncFifoStep
<1>2. \A t \in Task : status[t] = "gone" => status'[t] = "gone"
  BY <1>0, GoneForever
<1>3. ASSUME UNCHANGED flagVars PROVE FlagOK' /\ FlagNotMissed'
  BY <1>0, <1>2, <1>3, ListWaits DEF flagVars, FlagOK
<1>4. ASSUME NEW b \in Bit, FlagClear({b}) PROVE FlagOK' /\ FlagNotMissed'
  <2>1. flag' = [flag EXCEPT !.bits = @ \ {b}] /\ want' = want
    BY <1>4 DEF FlagClear
  <2>2. /\ flag' \in FlagRecord /\ flag'.wait = flag.wait /\ flag'.bits \subseteq flag.bits
        /\ flag'.direction = flag.direction
    BY <1>0, <2>1 DEF FlagOK, FlagRecord
  <2> QED  BY <1>0, <1>2, <2>1, <2>2, ListWaits DEF FlagOK
<1>5. FlagOK' /\ FlagNotMissed'
  BY SyncSteps, <1>0, <1>2, <1>3, <1>4, FlagCallsKeep
<1> QED  BY <1>1, <1>5 DEF FlagInv

\* Nobody waits for bits that are set, unless a host thread set them and stopped
\* at a removed task (task_event_flag.c:88 of the SPU, :170 of the host), for any
\* tasks, host threads, bits and places in the wait list.
THEOREM NoBitMissed == SyncSpec => []FlagNotMissed
<1>1. FlagInv => FlagNotMissed
  BY DEF FlagInv
<1> QED  BY <1>1, FlagInitial, FlagStepKeeps, PTL DEF SyncSpec

-----------------------------------------------------------------------------
(* The host threads.                                                       *)

\* A task has changed an object and is about to send the host an event.
Pending == \E t \in Task : op[t] \in {"set_event", "queue_event"}

\* A host thread is inside a call that the direction of the object allows it.
HostSides ==
  \A h \in Host :
    /\ hostop[h] = "flag_wait" => flag.direction = "MPU_TO_HOST"
    /\ hostop[h] = "push" => queue.direction = "HOST_TO_MPU"
    /\ hostop[h] \in {"pop", "peek"} => queue.direction = "MPU_TO_HOST"

\* h sleeps for a reason.
MaySleep(h) ==
  \/ hostop[h] = "flag_wait" /\ ~ Met(flag.bits, want[h])
  \/ hostop[h] = "push" /\ (queue.count = depth \/ "host_clear" \in use)
  \/ hostop[h] \in {"pop", "peek"} /\ queue.count = 0

LEMMA HostNotMissedIs ==
  /\ HostNotMissed <=> \A h \in Host : hostpc[h] = "asleep" => event \/ Pending \/ MaySleep(h)
  /\ HostNotMissed' <=> \A h \in Host : hostpc'[h] = "asleep" => event' \/ Pending' \/ MaySleep(h)'
BY DEF HostNotMissed, Pending, MaySleep

LEMMA PendingStays ==
  ASSUME SigTypeOK, NEW t \in Task, NEW o, Continue(t, o) \/ Block(t, o),
         op[t] \notin {"set_event", "queue_event"}
  PROVE  /\ Pending => Pending'
         /\ o \in {"set_event", "queue_event"} => Pending'
<1>1. op' = [op EXCEPT ![t] = o]
  BY DEF Continue, Block
<1>2. op'[t] = o /\ \A u \in Task : u # t => op'[u] = op[u]
  BY <1>1, OpTo
<1> QED  BY <1>2 DEF Pending

LEMMA PendingMoves ==
  ASSUME NEW X, Moves(X), "set_event" \notin X, "queue_event" \notin X, Pending
  PROVE  Pending'
BY DEF Pending, Moves

\* The directions stay, and so do the host threads.
LEMMA SidesStay ==
  ASSUME HostSides, UNCHANGED hostop,
         flag'.direction = flag.direction, queue'.direction = queue.direction
  PROVE  HostSides'
BY DEF HostSides

\* Nobody falls asleep, and whoever sleeps keeps an event on its way or its reason.
LEMMA SleepersStay ==
  ASSUME HostNotMissed, event \/ Pending => event' \/ Pending',
         \A h \in Host : hostpc'[h] = "asleep" =>
           /\ hostpc[h] = "asleep"
           /\ event' \/ Pending' \/ (MaySleep(h) => MaySleep(h)')
  PROVE  HostNotMissed'
BY HostNotMissedIs

LEMMA HostMoves ==
  ASSUME HostTypeOK, NEW h \in Host, NEW pc \in {"idle", "testing", "relock"}, NEW o, HostTo(h, pc, o)
  PROVE  /\ event' = event
         /\ \A g \in Host : hostpc'[g] = "asleep" =>
              g # h /\ hostpc[g] = "asleep" /\ hostop'[g] = hostop[g]
BY DEF HostTypeOK, HostTo

LEMMA SidesOfOne ==
  ASSUME HostTypeOK, HostSides, NEW h \in Host, NEW pc, NEW o, HostTo(h, pc, o),
         flag'.direction = flag.direction, queue'.direction = queue.direction,
         o = "flag_wait" => flag.direction = "MPU_TO_HOST",
         o = "push" => queue.direction = "HOST_TO_MPU",
         o \in {"pop", "peek"} => queue.direction = "MPU_TO_HOST"
  PROVE  HostSides'
<1>1. \A g \in Host : hostop'[g] = IF g = h THEN o ELSE hostop[g]
  BY DEF HostTypeOK, HostTo
<1> QED  BY <1>1 DEF HostSides

\* The test of the word in memory before a host thread sleeps.
LEMMA HostTestKeeps ==
  ASSUME HostTypeOK, HostSides, HostNotMissed, NEW h \in Host,
         NEW o, NEW c, HostTests(h, o, c), UNCHANGED <<sigVars, flagVars, queueVars, use>>,
         hostop[h] = o /\ ~c => MaySleep(h)
  PROVE  HostSides' /\ HostNotMissed'
<1> USE DEF flagVars, queueVars
<1>1. HostSides'
  <2>1. HostTo(h, IF c THEN "relock" ELSE "asleep", o) /\ hostop[h] = o
    BY DEF HostTests
  <2> QED  BY <2>1, SidesOfOne DEF HostSides
<1>2. \A g \in Host : MaySleep(g) /\ hostop'[g] = hostop[g] => MaySleep(g)'
  BY DEF MaySleep
<1>3. /\ event' = event
      /\ \A g \in Host : hostop'[g] = hostop[g]
      /\ \A g \in Host : g # h => hostpc'[g] = hostpc[g]
      /\ hostpc'[h] = "asleep" => ~c /\ hostop[h] = o
  BY DEF HostTests, HostTo, HostTypeOK
<1>4. Pending' = Pending
  BY DEF Pending, sigVars
<1>5. HostNotMissed'
  BY <1>2, <1>3, <1>4, HostNotMissedIs
<1> QED  BY <1>1, <1>5

LEMMA FlagCallsHost ==
  ASSUME FlagInv, HostSides, HostNotMissed, FlagCalls, UNCHANGED <<queueVars, use>>
  PROVE  HostSides' /\ HostNotMissed'
<1>0. SigTypeOK /\ HostTypeOK /\ FlagOK /\ queue' = queue
  BY FifoParts, QueueParts DEF FlagInv, queueVars
<1>1. ASSUME NEW t \in Task, NEW b \in Bit, FlagSet(t, {b}) PROVE HostSides' /\ HostNotMissed'
  <2>1. /\ hostVars' = hostVars /\ want' = want /\ flag'.direction = flag.direction
        /\ flag.direction # "HOST_TO_MPU" /\ op[t] = "none"
        /\ Continue(t, IF flag.direction = "MPU_TO_HOST" THEN "set_event" ELSE "none")
    <3>1. Flush(flag.bits \union {b}, Len(flag.wait))
      BY <1>1 DEF FlagSet
    <3>2. flag.bits \union {b} \in SUBSET Bit /\ Len(flag.wait) \in 0..Len(flag.wait)
      BY <1>0, FlagParts
    <3>3. flag'.direction = flag.direction
      BY <1>0, <3>1, <3>2, FlushEffect
    <3> QED  BY <1>1, <3>3 DEF FlagSet, Free
  <2>2. HostSides'
    BY <1>0, <2>1, SidesStay DEF hostVars
  <2>3. Pending => Pending'
    BY <1>0, <2>1, PendingStays
  <2>4. flag.direction = "MPU_TO_HOST" => Pending'
    <3>1. ASSUME flag.direction = "MPU_TO_HOST" PROVE Continue(t, "set_event")
      BY <2>1, <3>1
    <3> QED  BY <1>0, <2>1, <3>1, PendingStays
  <2>5. ASSUME NEW h \in Host, hostpc'[h] = "asleep"
        PROVE  hostpc[h] = "asleep" /\ (Pending' \/ (MaySleep(h) => MaySleep(h)'))
    BY <1>0, <2>1, <2>4, <2>5 DEF MaySleep, hostVars, HostSides
  <2>6. event' = event
    BY <2>1 DEF hostVars
  <2> QED  BY <2>2, <2>3, <2>5, <2>6, SleepersStay
<1>2. ASSUME NEW t \in Task, FlagSetEvent(t) PROVE HostSides' /\ HostNotMissed'
  <2>1. event' /\ hostop' = hostop /\ flag' = flag
    BY <1>2 DEF FlagSetEvent, flagVars
  <2> QED  BY <1>0, <2>1, SidesStay, HostNotMissedIs
<1>3. ASSUME NEW c, flag' = [flag EXCEPT !.bits = Consumed(c)], Pending => Pending',
             UNCHANGED hostVars, \A h \in Host : want'[h] # want[h] => want'[h] = NoCondition
      PROVE  HostSides' /\ HostNotMissed'
  <2>1. flag'.direction = flag.direction /\ flag'.bits \subseteq flag.bits
    BY <1>0, <1>3, ConsumedShrinks
  <2>2. HostSides'
    BY <1>0, <1>3, <2>1, SidesStay DEF hostVars
  <2>3. ~ Met(flag'.bits, NoCondition)
    BY DEF Met, NoCondition
  <2>4. \A h \in Host : MaySleep(h) => MaySleep(h)'
    <3> SUFFICES ASSUME NEW h \in Host, MaySleep(h) PROVE MaySleep(h)'
      OBVIOUS
    <3>1. ~ Met(flag.bits, want[h]) => ~ Met(flag'.bits, want'[h])
      BY <1>3, <2>1, <2>3, MetGrows
    <3> QED  BY <1>0, <1>3, <3>1 DEF MaySleep, hostVars
  <2> QED  BY <1>3, <2>2, <2>4, SleepersStay DEF hostVars
<1>4. ASSUME NEW t \in Task, NEW c \in Conditions, FlagWait(t, c) PROVE HostSides' /\ HostNotMissed'
  <2>1. Pending => Pending'
    BY <1>4 DEF FlagWait, sigVars, Pending
  <2> QED  BY <1>3, <1>4, <2>1 DEF FlagWait
<1>5. ASSUME NEW t \in Task, FlagWaitReturns(t) PROVE HostSides' /\ HostNotMissed'
  <2>1. Pending => Pending'
    BY <1>0, <1>5, PendingStays DEF FlagWaitReturns, Inside
  <2>2. \A h \in Host : want'[h] # want[h] => want'[h] = NoCondition
    BY <1>0, <1>5 DEF FlagWaitReturns, FlagOK
  <2> QED  BY <1>3, <1>5, <2>1, <2>2 DEF FlagWaitReturns
<1>6. ASSUME NEW t \in Task, NEW c \in Conditions, FlagWaitBlocks(t, c)
      PROVE  HostSides' /\ HostNotMissed'
  <2>1. Pending => Pending'
    BY <1>0, <1>6, PendingStays DEF FlagWaitBlocks, Free
  <2>2. /\ hostVars' = hostVars /\ flag.direction # "MPU_TO_HOST"
        /\ flag'.direction = flag.direction
    BY <1>0, <1>6 DEF FlagWaitBlocks, FlagOK, FlagRecord
  <2>3. HostSides'
    BY <1>0, <2>2, SidesStay DEF hostVars
  <2>4. \A h \in Host : MaySleep(h) => MaySleep(h)'
    BY <1>0, <2>2 DEF MaySleep, HostSides, hostVars
  <2> QED  BY <2>1, <2>2, <2>3, <2>4, SleepersStay DEF hostVars
<1>7. ASSUME NEW h \in Host, NEW b \in Bit, HostFlagSet(h, {b}) PROVE HostSides' /\ HostNotMissed'
  <2>1. hostVars' = hostVars /\ op' = op /\ flag.direction = "HOST_TO_MPU" /\ want' = want
    BY <1>7 DEF HostFlagSet
  <2>2. flag'.direction = flag.direction
    <3>1. PICK n : Flush(flag.bits \union {b}, n)
      BY <1>7 DEF HostFlagSet
    <3> QED  BY <1>0, <3>1 DEF Flush, FlagRecord, FlagOK
  <2>3. HostSides'
    BY <1>0, <2>1, <2>2, SidesStay DEF hostVars
  <2>4. \A g \in Host : MaySleep(g) => MaySleep(g)'
    BY <1>0, <2>1 DEF MaySleep, HostSides, hostVars
  <2> QED  BY <2>1, <2>3, <2>4, SleepersStay DEF hostVars, Pending
<1>8. ASSUME NEW h \in Host, NEW c \in Conditions, HostFlagWait(h, c)
      PROVE  HostSides' /\ HostNotMissed'
  <2>1. /\ HostTo(h, "idle", "none") \/ HostTo(h, "testing", "flag_wait")
        /\ flag.direction = "MPU_TO_HOST" /\ sigVars' = sigVars
    BY <1>8 DEF HostFlagWait
  <2>2. flag'.direction = flag.direction /\ flag'.bits \subseteq flag.bits
    <3>1. flag' = [flag EXCEPT !.bits = Consumed(c)] \/ flag' = flag
      BY <1>8 DEF HostFlagWait
    <3> QED  BY <1>0, <3>1, ConsumedShrinks
  <2>3. HostSides'
    BY <1>0, <2>1, <2>2, SidesOfOne
  <2>4. /\ event' = event
        /\ \A g \in Host : hostpc'[g] = "asleep" =>
             g # h /\ hostpc[g] = "asleep" /\ hostop'[g] = hostop[g]
    BY <1>0, <2>1, HostMoves
  <2>5. \A g \in Host : g # h => want'[g] = want[g]
    BY <1>0, <1>8 DEF HostFlagWait, FlagOK
  <2>6. \A g \in Host : hostpc'[g] = "asleep" => (MaySleep(g) => MaySleep(g)')
    <3> SUFFICES ASSUME NEW g \in Host, hostpc'[g] = "asleep", MaySleep(g) PROVE MaySleep(g)'
      OBVIOUS
    <3>1. ~ Met(flag.bits, want[g]) => ~ Met(flag'.bits, want'[g])
      BY <2>2, <2>4, <2>5, MetGrows
    <3> QED  BY <1>0, <2>4, <3>1 DEF MaySleep
  <2> QED  BY <2>1, <2>3, <2>4, <2>6, SleepersStay DEF sigVars, Pending
<1>9. ASSUME NEW h \in Host, HostFlagTests(h) PROVE HostSides' /\ HostNotMissed'
  <2>1. hostop[h] = "flag_wait" /\ ~ Met(flag.bits, want[h]) => MaySleep(h)
    BY DEF MaySleep
  <2> QED  BY <1>0, <1>9, <2>1, HostTestKeeps DEF HostFlagTests
<1> QED  BY FlagSteps, <1>1, <1>2, <1>4, <1>5, <1>6, <1>7, <1>8, <1>9

\* A step of a task in the queue that counts the items as it may.
LEMMA QueueTaskHost ==
  ASSUME FifoInv, HostSides, HostNotMissed, NEW t \in Task, NEW o, Continue(t, o) \/ Block(t, o),
         op[t] \notin {"set_event", "queue_event"}, UNCHANGED <<hostVars, flagVars, use>>,
         queue'.direction = queue.direction,
         o = "queue_event"
         \/ /\ queue.direction = "HOST_TO_MPU" /\ queue.count = depth => queue'.count = depth
            /\ queue.direction = "MPU_TO_HOST" /\ queue.count = 0 => queue'.count = 0
  PROVE  HostSides' /\ HostNotMissed'
<1>0. SigTypeOK
  BY FifoParts, QueueParts
<1>1. HostSides'
  BY SidesStay DEF hostVars, flagVars
<1>2. (Pending => Pending') /\ (o = "queue_event" => Pending')
  BY <1>0, PendingStays
<1>3. ASSUME NEW h \in Host, o # "queue_event", MaySleep(h) PROVE MaySleep(h)'
  BY <1>3 DEF MaySleep, HostSides, hostVars, flagVars
<1> QED  BY <1>1, <1>2, <1>3, SleepersStay DEF hostVars

LEMMA QueueCallsHost ==
  ASSUME FifoInv, HostSides, HostNotMissed, UNCHANGED <<flagVars, use>>,
         QueueCalls \/ PeekCalls \/ ClearCalls \/ (HostClearCalls /\ "host_clear" \in use)
  PROVE  HostSides' /\ HostNotMissed'
<1>0. /\ SigTypeOK /\ HostTypeOK /\ QueueTypeOK /\ flag' = flag /\ want' = want
      /\ depth \in Nat \ {0} /\ queue.count \in 0..depth
  BY FifoParts, QueueParts DEF flagVars
<1>1. ASSUME NEW t \in Task, NEW v \in Item, PushBegin(t, v) \/ PushBlocks(t, v)
      PROVE  HostSides' /\ HostNotMissed'
  <2>1. PICK o : Continue(t, o) \/ Block(t, o)
    BY <1>1 DEF PushBegin, PushBlocks
  <2>2. op[t] \notin {"set_event", "queue_event"} /\ hostVars' = hostVars
    BY <1>1 DEF PushBegin, PushBlocks, Locks, Free, Inside
  <2>3. queue'.direction = queue.direction /\ queue'.count = queue.count
    <3>1. CASE PushBegin(t, v)   BY <3>1 DEF PushBegin
    <3>2. CASE PushBlocks(t, v)  BY <1>0, <3>2, EnlistEffect DEF PushBlocks
    <3> QED  BY <1>1, <3>1, <3>2
  <2> QED  BY <2>1, <2>2, <2>3, QueueTaskHost
<1>2. ASSUME NEW t \in Task, NEW o \in {"pop", "peek"},
             PopBegin(t, o) \/ PopBlocks(t, o) \/ PopLimit(t, o)
      PROVE  HostSides' /\ HostNotMissed'
  <2>1. PICK x : Continue(t, x) \/ Block(t, x)
    BY <1>2 DEF PopBegin, PopBlocks, PopLimit
  <2>2. op[t] \notin {"set_event", "queue_event"} /\ hostVars' = hostVars
    BY <1>2 DEF PopBegin, PopBlocks, PopLimit, Locks, Free, Inside
  <2>3. queue'.direction = queue.direction /\ queue'.count = queue.count
    <3>1. CASE PopBegin(t, o)   BY <3>1 DEF PopBegin
    <3>2. CASE PopBlocks(t, o)  BY <1>0, <3>2, EnlistEffect DEF PopBlocks
    <3>3. CASE PopLimit(t, o)   BY <3>3 DEF PopLimit, queueVars
    <3> QED  BY <1>2, <3>1, <3>2, <3>3
  <2> QED  BY <2>1, <2>2, <2>3, QueueTaskHost
<1>3. ASSUME NEW t \in Task, PushLimit(t) \/ PeekEnd(t)
      PROVE  HostSides' /\ HostNotMissed'
  <2>1. /\ Continue(t, "none") /\ op[t] \notin {"set_event", "queue_event"}
        /\ hostVars' = hostVars /\ queue' = queue
    BY <1>3 DEF PushLimit, PeekEnd, Inside
  <2> QED  BY <2>1, QueueTaskHost
<1>4. ASSUME NEW t \in Task, QueueEvent(t) PROVE HostSides' /\ HostNotMissed'
  <2>1. event' /\ hostop' = hostop /\ queue' = queue
    BY <1>4 DEF QueueEvent, queueVars
  <2> QED  BY <1>0, <2>1, SidesStay, HostNotMissedIs
<1>5. ASSUME NEW t \in Task, PushEnd(t) PROVE HostSides' /\ HostNotMissed'
  <2>1. /\ op[t] = "push_end" /\ PushUpdate /\ hostVars' = hostVars
        /\ Continue(t, IF queue.count = 0 /\ queue.direction = "MPU_TO_HOST"
                       THEN "queue_event" ELSE "none")
    BY <1>5 DEF PushEnd, Inside
  <2>2. queue.count < depth /\ queue.count # depth
    BY <1>0, <2>1 DEF FifoInv
  <2>3. queue'.direction = queue.direction
    BY <1>0, <2>1, <2>2, PushUpdateEffect
  <2>4. CASE queue.count = 0 /\ queue.direction = "MPU_TO_HOST"
    <3>1. Continue(t, "queue_event")
      BY <2>1, <2>4
    <3> QED  BY <2>1, <2>3, <3>1, QueueTaskHost
  <2>5. CASE ~ (queue.count = 0 /\ queue.direction = "MPU_TO_HOST")
    <3>1. Continue(t, "none")
      BY <2>1, <2>5
    <3> QED  BY <2>1, <2>2, <2>3, <2>5, <3>1, QueueTaskHost
  <2> QED  BY <2>4, <2>5
<1>6. ASSUME NEW t \in Task, PopEnd(t) PROVE HostSides' /\ HostNotMissed'
  <2>1. /\ op[t] = "pop_end" /\ PopUpdate /\ hostVars' = hostVars
        /\ Continue(t, IF queue.count = depth /\ queue.direction = "HOST_TO_MPU"
                       THEN "queue_event" ELSE "none")
    BY <1>6 DEF PopEnd, Inside
  <2>2. queue.count # 0
    BY <1>0, <2>1 DEF FifoInv
  <2>3. queue'.direction = queue.direction
    BY <1>0, <2>1, <2>2, PopUpdateEffect
  <2>4. CASE queue.count = depth /\ queue.direction = "HOST_TO_MPU"
    <3>1. Continue(t, "queue_event")
      BY <2>1, <2>4
    <3> QED  BY <2>1, <2>3, <3>1, QueueTaskHost
  <2>5. CASE ~ (queue.count = depth /\ queue.direction = "HOST_TO_MPU")
    <3>1. Continue(t, "none")
      BY <2>1, <2>5
    <3> QED  BY <2>1, <2>2, <2>3, <2>5, <3>1, QueueTaskHost
  <2> QED  BY <2>4, <2>5
<1>7. ASSUME NEW t \in Task, QueueClear(t) PROVE HostSides' /\ HostNotMissed'
  <2>1. /\ op[t] = "none" /\ queue' = Cleared /\ hostVars' = hostVars
        /\ Continue(t, IF queue.count = depth /\ queue.direction = "HOST_TO_MPU"
                       THEN "queue_event" ELSE "none")
    BY <1>7 DEF QueueClear, Free
  <2>2. queue'.direction = queue.direction /\ queue'.count = 0
    BY <1>0, <2>1, ClearedEffect
  <2>3. CASE queue.count = depth /\ queue.direction = "HOST_TO_MPU"
    <3>1. Continue(t, "queue_event")
      BY <2>1, <2>3
    <3> QED  BY <2>1, <2>2, <3>1, QueueTaskHost
  <2>4. CASE ~ (queue.count = depth /\ queue.direction = "HOST_TO_MPU")
    <3>1. Continue(t, "none")
      BY <2>1, <2>4
    <3> QED  BY <2>1, <2>2, <2>4, <3>1, QueueTaskHost
  <2> QED  BY <2>3, <2>4
<1>8. ASSUME NEW h \in Host, HostQueueClear(h), "host_clear" \in use PROVE HostSides' /\ HostNotMissed'
  <2>1. queue' = Cleared /\ hostVars' = hostVars /\ op' = op
    BY <1>8 DEF HostQueueClear
  <2>2. queue'.direction = queue.direction /\ queue'.count = 0
    BY <1>0, <2>1, ClearedEffect
  <2>3. HostSides'
    BY <1>0, <2>1, <2>2, SidesStay DEF hostVars
  <2>4. \A g \in Host : MaySleep(g) => MaySleep(g)'
    BY <1>0, <1>8, <2>1, <2>2 DEF MaySleep, hostVars
  <2> QED  BY <2>1, <2>3, <2>4, SleepersStay DEF hostVars, Pending
<1>9. ASSUME NEW h \in Host, NEW pc \in {"idle", "testing", "relock"}, NEW o, HostTo(h, pc, o), op' = op,
             queue'.direction = queue.direction,
             o = "none" \/ (o = "push" /\ queue.direction = "HOST_TO_MPU")
             \/ (o \in {"pop", "peek"} /\ queue.direction = "MPU_TO_HOST"),
             queue.direction = "HOST_TO_MPU" /\ queue.count = depth => queue'.count = depth,
             queue.direction = "MPU_TO_HOST" /\ queue.count = 0 => queue'.count = 0
      PROVE  HostSides' /\ HostNotMissed'
  <2>1. HostSides'
    BY <1>0, <1>9, SidesOfOne
  <2>2. /\ event' = event
        /\ \A g \in Host : hostpc'[g] = "asleep" =>
             g # h /\ hostpc[g] = "asleep" /\ hostop'[g] = hostop[g]
    BY <1>0, <1>9, HostMoves
  <2>3. \A g \in Host : hostpc'[g] = "asleep" => (MaySleep(g) => MaySleep(g)')
    BY <1>0, <1>9, <2>2 DEF MaySleep, HostSides
  <2> QED  BY <1>9, <2>1, <2>2, <2>3, SleepersStay DEF Pending
<1>10. ASSUME NEW h \in Host, NEW v \in Item, HostPush(h, v) PROVE HostSides' /\ HostNotMissed'
  <2>1. op' = op /\ queue.direction = "HOST_TO_MPU"
    BY <1>10 DEF HostPush
  <2>2. CASE queue.count = depth
    <3>1. HostTo(h, "testing", "push") /\ queue' = queue
      BY <1>10, <2>2 DEF HostPush
    <3> QED  BY <1>9, <2>1, <3>1
  <2>3. CASE queue.count # depth
    <3>1. HostTo(h, "idle", "none") /\ PushUpdate
      BY <1>10, <2>3 DEF HostPush
    <3>2. queue'.direction = queue.direction
      BY <1>0, <2>3, <3>1, PushUpdateEffect
    <3> QED  BY <1>9, <2>1, <2>3, <3>1, <3>2
  <2> QED  BY <2>2, <2>3
<1>11. ASSUME NEW h \in Host, NEW o \in {"pop", "peek"}, HostPop(h, o) PROVE HostSides' /\ HostNotMissed'
  <2>1. op' = op /\ queue.direction = "MPU_TO_HOST"
    BY <1>11 DEF HostPop
  <2>2. CASE queue.count = 0
    <3>1. HostTo(h, "testing", o) /\ queue' = queue
      BY <1>11, <2>2 DEF HostPop
    <3> QED  BY <1>9, <2>1, <3>1
  <2>3. CASE queue.count # 0
    <3>1. HostTo(h, "idle", "none") /\ (PopUpdate \/ queue' = queue)
      BY <1>11, <2>3 DEF HostPop
    <3>2. queue'.direction = queue.direction
      BY <1>0, <2>3, <3>1, PopUpdateEffect
    <3> QED  BY <1>9, <2>1, <2>3, <3>1, <3>2
  <2> QED  BY <2>2, <2>3
<1>12. ASSUME NEW h \in Host, HostPushTests(h) PROVE HostSides' /\ HostNotMissed'
  <2>1. hostop[h] = "push" /\ ~ (queue.count # depth) => MaySleep(h)
    BY DEF MaySleep
  <2> QED  BY <1>0, <1>12, <2>1, HostTestKeeps DEF HostPushTests
<1>13. ASSUME NEW h \in Host, NEW o \in {"pop", "peek"}, HostPopTests(h, o)
       PROVE  HostSides' /\ HostNotMissed'
  <2>1. hostop[h] = o /\ ~ (queue.count # 0) => MaySleep(h)
    BY DEF MaySleep
  <2> QED  BY <1>0, <1>13, <2>1, HostTestKeeps DEF HostPopTests
<1>14. CASE QueueCalls
  <2>1. CASE \E t \in Task, v \in Item : PushBegin(t, v) \/ PushBlocks(t, v)
    BY <1>1, <2>1
  <2>2. CASE \E t \in Task : PushLimit(t) \/ PushEnd(t) \/ QueueEvent(t) \/ PopEnd(t)
    BY <1>3, <1>4, <1>5, <1>6, <2>2
  <2>3. CASE \E t \in Task : PopBegin(t, "pop") \/ PopBlocks(t, "pop") \/ PopLimit(t, "pop")
    BY <1>2, <2>3
  <2>4. CASE \E h \in Host : \/ \E v \in Item : HostPush(h, v)
                             \/ HostPushTests(h) \/ HostPop(h, "pop") \/ HostPopTests(h, "pop")
    BY <1>10, <1>11, <1>12, <1>13, <2>4
  <2> QED  BY <1>14, <2>1, <2>2, <2>3, <2>4 DEF QueueCalls
<1>15. CASE PeekCalls
  BY <1>2, <1>3, <1>11, <1>13, <1>15 DEF PeekCalls
<1>16. CASE ClearCalls
  BY <1>7, <1>16 DEF ClearCalls
<1>17. CASE HostClearCalls /\ "host_clear" \in use
  BY <1>8, <1>17 DEF HostClearCalls
<1> QED  BY <1>14, <1>15, <1>16, <1>17

\* Invariant: an asleep thread has a reason, or an event is on its way; the
\* direction says whose event it is.
HostInv == FlagInv /\ HostSides /\ HostNotMissed

LEMMA HostInitial == SyncInit => HostInv
<1> SUFFICES ASSUME SyncInit PROVE HostSides /\ HostNotMissed
  BY FlagInitial DEF HostInv
<1>1. \A h \in Host : hostpc[h] = "idle" /\ hostop[h] = "none"
  BY DEF SyncInit, HostInit
<1> QED  BY <1>1, HostNotMissedIs DEF HostSides

LEMMA HostStepKeeps == HostInv /\ [SyncNext]_syncVars => HostInv'
<1> SUFFICES ASSUME HostInv, [SyncNext]_syncVars PROVE HostSides' /\ HostNotMissed'
  BY FlagStepKeeps DEF HostInv
<1>0. /\ FlagInv /\ FifoInv /\ FlagOK /\ SigTypeOK /\ HostTypeOK /\ HostSides /\ HostNotMissed
      /\ use' = use
  BY FifoParts, QueueParts, UseStays DEF HostInv, FlagInv
<1>1. ASSUME Pending => Pending', UNCHANGED <<hostVars, flagVars, queueVars>>
      PROVE  HostSides' /\ HostNotMissed'
  <2>1. HostSides'
    BY <1>0, <1>1, SidesStay DEF hostVars, flagVars, queueVars
  <2>2. \A h \in Host : MaySleep(h) => MaySleep(h)'
    BY <1>0, <1>1 DEF MaySleep, hostVars, flagVars, queueVars
  <2> QED  BY <1>0, <1>1, <2>1, <2>2, SleepersStay DEF hostVars
<1>2. CASE (SignalCalls \/ SemCalls \/ BarCalls) /\ UNCHANGED <<hostVars, flagVars, queueVars>>
  <2>1. Moves(SignalOps) \/ Moves(SemOps) \/ Moves(BarOps)
    BY <1>0, <1>2, SignalMoves, SemMoves, BarMoves
  <2>2. Pending => Pending'
    BY <2>1, PendingMoves DEF SignalOps, SemOps, BarOps
  <2> QED  BY <1>1, <1>2, <2>2
<1>3. CASE /\ Kernel \/ (\E t \in Task : Remove(t)) \/ UNCHANGED sigVars
           /\ UNCHANGED <<hostVars, flagVars, queueVars>>
  <2>1. op' = op
    BY <1>3 DEF Kernel, Wake, ResetSignal, Remove, sigVars
  <2> QED  BY <1>1, <1>3, <2>1 DEF Pending
<1>4. CASE (\E b \in Bit : FlagClear({b})) /\ UNCHANGED queueVars
  <2>1. PICK b \in Bit : FlagClear({b})
    BY <1>4
  <2>2. /\ hostVars' = hostVars /\ sigVars' = sigVars /\ want' = want /\ queue' = queue
        /\ flag'.direction = flag.direction /\ flag'.bits \subseteq flag.bits
    BY <1>0, <1>4, <2>1 DEF FlagClear, FlagOK, FlagRecord, queueVars
  <2>3. HostSides'
    BY <1>0, <2>2, SidesStay DEF hostVars
  <2>4. \A h \in Host : MaySleep(h) => MaySleep(h)'
    BY <1>0, <2>2, MetGrows DEF MaySleep, hostVars
  <2> QED  BY <1>0, <2>2, <2>3, <2>4, SleepersStay DEF hostVars, sigVars, Pending
<1>5. CASE Broadcast /\ UNCHANGED <<sigVars, flagVars, queueVars>>
  <2>1. HostSides'
    BY <1>0, <1>5, SidesStay DEF Broadcast, flagVars, queueVars
  <2>2. \A h \in Host : hostpc'[h] # "asleep"
    BY <1>5 DEF Broadcast
  <2> QED  BY <2>1, <2>2, HostNotMissedIs
<1> QED  BY SyncSteps, <1>0, <1>2, <1>3, <1>4, <1>5, FlagCallsHost, QueueCallsHost

\* No host thread sleeps on while its flag or queue would let it go on, though
\* events are sent after the unlock and only on the change from empty or full
\* (task_queue.c:79, 251), for any host threads and tasks.
THEOREM NoEventMissed == SyncSpec => []HostNotMissed
<1>1. HostInv => HostNotMissed
  BY DEF HostInv
<1> QED  BY <1>1, HostInitial, HostStepKeeps, PTL DEF SyncSpec

-----------------------------------------------------------------------------
(* The wait lists and the signals.                                         *)

\* u is in the wait list of the call it blocks in.
Listed(u) ==
  \/ op[u] = "acquire" /\ u \in SemSet(sem.wait)
  \/ op[u] = "notify" /\ u \in BarSet(barrier.notify_wait)
  \/ op[u] = "barrier_wait" /\ u \in BarSet(barrier.wait)
  \/ op[u] = "flag_wait" /\ u \in FlagIds(flag.wait)
  \/ op[u] = "push" /\ u \in Enlisted(queue.push_wait)
  \/ op[u] \in {"pop", "peek"} /\ u \in Enlisted(queue.pop_wait)

\* u does not lose its place in a wait list but to a signal.
ListedStay(u) ==
  /\ u \in SemSet(sem.wait) => u \in SemSet(sem'.wait) \/ signal'[u]
  /\ u \in BarSet(barrier.notify_wait) => u \in BarSet(barrier'.notify_wait) \/ signal'[u]
  /\ u \in BarSet(barrier.wait) => u \in BarSet(barrier'.wait) \/ signal'[u]
  /\ u \in FlagIds(flag.wait) => u \in FlagIds(flag'.wait) \/ signal'[u]
  /\ u \in Enlisted(queue.push_wait) => u \in Enlisted(queue'.push_wait) \/ signal'[u]
  /\ u \in Enlisted(queue.pop_wait) => u \in Enlisted(queue'.pop_wait) \/ signal'[u]

LEMMA ListedIs ==
  ASSUME NEW u
  PROVE  u \in WaitListOf(op[u]) <=> Listed(u)
<1> DEFINE o == op[u]
<1>1. CASE o = "acquire"       BY <1>1 DEF WaitListOf, Listed
<1>2. CASE o = "notify"        BY <1>2 DEF WaitListOf, Listed
<1>3. CASE o = "barrier_wait"  BY <1>3 DEF WaitListOf, Listed
<1>4. CASE o = "flag_wait"     BY <1>4 DEF WaitListOf, Listed
<1>5. CASE o = "push"          BY <1>5 DEF WaitListOf, Listed
<1>6. CASE o \in {"pop", "peek"}  BY <1>6 DEF WaitListOf, Listed
<1>7. CASE o \notin {"acquire", "notify", "barrier_wait", "flag_wait", "push", "pop", "peek"}
  BY <1>7 DEF WaitListOf, Listed
<1> QED  BY <1>1, <1>2, <1>3, <1>4, <1>5, <1>6, <1>7

\* Nobody is stranded: whoever waits has its signal or its place.
Kept(u) ==
  status[u] = "waiting" /\ op[u] # "signal" => signal[u] \/ (~destroyed /\ Listed(u))

LEMMA NoneStrandedIs == NoneStranded <=> \A u \in Task : Kept(u)
BY ListedIs DEF NoneStranded, Stranded, Kept

LEMMA NothingLost ==
  ASSUME UNCHANGED <<semVars, barVars, queueVars>>, flag'.wait = flag.wait
  PROVE  \A u : ListedStay(u)
BY DEF ListedStay, semVars, barVars, queueVars

LEMMA SendReaches ==
  ASSUME NEW ts, Send(ts)
  PROVE  \A u \in Task : /\ signal[u] => signal'[u]
                         /\ u \in ts /\ status[u] # "gone" => signal'[u]
BY DEF Send

LEMMA ListedStays ==
  ASSUME NEW u, Listed(u), ListedStay(u), op'[u] = op[u]
  PROVE  Listed(u)' \/ signal'[u]
BY DEF Listed, ListedStay

\* What keeps a waiting task from being stranded: it goes on waiting with its
\* signal or its place, or it has just taken its place.
LEMMA NobodyStranded ==
  ASSUME \A u \in Task : Kept(u), destroyed' = destroyed,
         \A u \in Task :
           \/ status'[u] # "waiting" \/ op'[u] = "signal"
           \/ ~destroyed /\ Listed(u)'
           \/ /\ op'[u] = op[u] /\ status[u] = "waiting"
              /\ signal[u] => signal'[u]
              /\ ListedStay(u)
  PROVE  (\A u \in Task : Kept(u))'
BY ListedStays DEF Kept

\* t goes on or takes its place, the tasks ts are signalled.
LEMMA OneCalls ==
  ASSUME SigTypeOK, \A u \in Task : Kept(u), destroyed' = destroyed, ~destroyed,
         NEW t \in Task, NEW o, Continue(t, o) \/ (Block(t, o) /\ Listed(t)'), status[t] = "running",
         \A u \in Task : u # t /\ status[u] = "waiting" =>
           (signal[u] => signal'[u]) /\ ListedStay(u)
  PROVE  (\A u \in Task : Kept(u))'
<1>1. \A u \in Task : u # t => op'[u] = op[u] /\ status'[u] = status[u]
  BY DEF SigTypeOK, Continue, Block
<1>2. status'[t] # "waiting" \/ Listed(t)'
  BY DEF Continue
<1> QED  BY <1>1, <1>2, NobodyStranded

\* The wait list of the semaphore holds tasks.
SemListOK == sem.wait \in Seq(Task) /\ sem \in [count : Int, wait : Seq(Task)]

LEMMA SemCallsKeep ==
  ASSUME SigTypeOK, SemListOK, SemCalls, UNCHANGED <<hostVars, barVars, flagVars, queueVars, destroyed>>,
         ~destroyed, \A u \in Task : Kept(u)
  PROVE  SemListOK' /\ (\A u \in Task : Kept(u))'
<1> DEFINE w == sem.wait
<1>0. w \in Seq(Task) /\ sem \in [count : Int, wait : Seq(Task)]
  BY DEF SemListOK
<1>1. ASSUME SemSet(w) \subseteq SemSet(sem'.wait)
      PROVE  \A u : ListedStay(u)
  BY <1>1 DEF ListedStay, barVars, flagVars, queueVars
<1>2. ASSUME NEW t \in Task, Acquire(t) PROVE SemListOK' /\ (\A u \in Task : Kept(u))'
  <2>1. sem' \in [count : Int, wait : Seq(Task)] /\ sem'.wait = w /\ sigVars' = sigVars
    BY <1>0, <1>2 DEF Acquire
  <2>2. \A u : ListedStay(u)
    BY <1>1, <2>1
  <2> QED  BY <2>1, <2>2, NobodyStranded DEF SemListOK, sigVars
<1>3. ASSUME NEW t \in Task, AcquireBlocks(t) PROVE SemListOK' /\ (\A u \in Task : Kept(u))'
  <2>1. /\ sem' = [sem EXCEPT !.wait = Append(w, t)] /\ Block(t, "acquire") /\ signal' = signal
        /\ status[t] = "running"
    BY <1>3 DEF AcquireBlocks, Free
  <2>2. /\ Append(w, t) \in Seq(Task) /\ Len(Append(w, t)) = Len(w) + 1 /\ Len(w) \in Nat
        /\ \A i \in 1..Len(w) : Append(w, t)[i] = w[i]
        /\ Append(w, t)[Len(w) + 1] = t
    <3> HIDE DEF w
    <3> QED  BY <1>0
  <2>3. SemListOK' /\ sem'.wait = Append(w, t)
    <3> HIDE DEF w
    <3> QED  BY <1>0, <2>1, <2>2 DEF SemListOK
  <2>4. t \in SemSet(sem'.wait) /\ SemSet(w) \subseteq SemSet(sem'.wait)
    <3>1. 1..Len(w) + 1 = (1..Len(w)) \union {Len(w) + 1}
      <4> HIDE DEF w
      <4> QED  BY <2>2
    <3> HIDE DEF w
    <3> QED  BY <2>2, <2>3, <3>1 DEF SemSet
  <2>5. Listed(t)'
    BY <2>1, <2>4 DEF Listed, Block, SigTypeOK
  <2>6. \A u : ListedStay(u)
    BY <1>1, <2>4
  <2> QED  BY <2>1, <2>3, <2>5, <2>6, OneCalls
<1>4. ASSUME NEW t \in Task, AcquireReturns(t) PROVE SemListOK' /\ (\A u \in Task : Kept(u))'
  <2>1. sem' = sem /\ signal' = signal /\ Continue(t, "none") /\ status[t] = "running"
    BY <1>4 DEF AcquireReturns, Inside
  <2>2. \A u : ListedStay(u)
    BY <1>1, <2>1
  <2> QED  BY <2>1, <2>2, OneCalls DEF SemListOK
<1>5. ASSUME NEW t \in Task, Release(t) PROVE SemListOK' /\ (\A u \in Task : Kept(u))'
  <2>1. CASE sem.count + 1 > 0 /\ w # << >>
    <3>1. Send({Head(w)}) /\ sem' = [sem EXCEPT !.wait = Tail(w)] /\ status' = status /\ op' = op
      BY <1>5, <2>1 DEF Release
    <3>2. /\ Tail(w) \in Seq(Task) /\ Head(w) = w[1] /\ Len(w) \in Nat /\ Len(w) > 0
          /\ Len(Tail(w)) = Len(w) - 1 /\ \A i \in 1..Len(w) - 1 : Tail(w)[i] = w[i + 1]
      <4> HIDE DEF w
      <4> QED  BY <1>0, <2>1
    <3>3. SemListOK' /\ sem'.wait = Tail(w)
      <4> HIDE DEF w
      <4> QED  BY <1>0, <3>1, <3>2 DEF SemListOK
    <3>4. ASSUME NEW u \in SemSet(w), u # Head(w) PROVE u \in SemSet(sem'.wait)
      <4>1. PICK i \in 1..Len(w) : w[i] = u
        BY DEF SemSet
      <4>2. i # 1
        BY <3>2, <3>4, <4>1
      <4>3. i - 1 \in 1..Len(w) - 1 /\ (i - 1) + 1 = i
        <5> HIDE DEF w
        <5> QED  BY <3>2, <4>1, <4>2
      <4>4. Tail(w)[i - 1] = u
        BY <3>2, <4>1, <4>3
      <4> HIDE DEF w
      <4> QED  BY <3>2, <3>3, <4>3, <4>4 DEF SemSet
    <3>5. \A u \in Task : status[u] = "waiting" => (signal[u] => signal'[u]) /\ ListedStay(u)
      <4> SUFFICES ASSUME NEW u \in Task, status[u] = "waiting"
                   PROVE  (signal[u] => signal'[u]) /\ ListedStay(u)
        OBVIOUS
      <4>1. /\ signal[u] => signal'[u]
            /\ u = Head(w) => signal'[u]
        BY <3>1, SendReaches
      <4>2. u \in SemSet(w) => u \in SemSet(sem'.wait) \/ signal'[u]
        BY <3>4, <4>1
      <4> QED  BY <4>1, <4>2 DEF ListedStay, barVars, flagVars, queueVars
    <3> QED  BY <3>1, <3>3, <3>5, NobodyStranded
  <2>2. CASE ~ (sem.count + 1 > 0 /\ w # << >>)
    <3>1. sem' = [sem EXCEPT !.count = @ + 1] /\ status' = status /\ op' = op /\ signal' = signal
      BY <1>5, <2>2 DEF Release
    <3>2. sem' \in [count : Int, wait : Seq(Task)] /\ sem'.wait = w
      BY <1>0, <3>1
    <3>3. \A u : ListedStay(u)
      BY <1>1, <3>2
    <3> QED  BY <3>1, <3>2, <3>3, NobodyStranded DEF SemListOK
  <2> QED  BY <2>1, <2>2
<1> QED  BY <1>2, <1>3, <1>4, <1>5 DEF SemCalls

LEMMA SignalCallsKeep ==
  ASSUME SigTypeOK, SignalCalls \/ Kernel \/ \E t \in Task : Remove(t),
         UNCHANGED <<semVars, barVars, flagVars, queueVars, destroyed>>,
         \A u \in Task : Kept(u)
  PROVE  (\A u \in Task : Kept(u))'
<1>1. \A u : ListedStay(u)
  BY NothingLost DEF flagVars
<1>2. \A u \in Task :
        \/ status'[u] # "waiting" \/ op'[u] = "signal"
        \/ op'[u] = op[u] /\ status[u] = "waiting" /\ (signal[u] => signal'[u])
  <2>1. CASE SignalCalls
    <3>1. PICK t \in Task : Announce(t) \/ WaitSignal(t) \/ WaitSignalReturns(t)
                            \/ TryWaitSignal(t) \/ TryResetSignal(t)
      BY <2>1 DEF SignalCalls
    <3>2. CASE Announce(t)
      BY <3>2, SendReaches DEF Announce
    <3>3. CASE WaitSignal(t)
      BY <3>3 DEF WaitSignal, Block, SigTypeOK
    <3>4. CASE WaitSignalReturns(t)
      BY <3>4 DEF WaitSignalReturns, Continue, Inside, SigTypeOK
    <3>5. CASE TryWaitSignal(t)
      BY <3>5 DEF TryWaitSignal, Continue, Free, SigTypeOK
    <3>6. CASE TryResetSignal(t)
      BY <3>6 DEF TryResetSignal, Continue, Inside, SigTypeOK
    <3> QED  BY <3>1, <3>2, <3>3, <3>4, <3>5, <3>6
  <2>2. CASE Kernel
    BY <2>2 DEF Kernel, Wake, ResetSignal, SigTypeOK
  <2>3. CASE \E t \in Task : Remove(t)
    BY <2>3 DEF Remove, SigTypeOK
  <2> QED  BY <2>1, <2>2, <2>3
<1> QED  BY <1>1, <1>2, NobodyStranded

\* The entries a flush takes out of the list of the flag are signalled.
LEMMA FlushKeeps ==
  ASSUME FlagOK, NEW bits \in SUBSET Bit, NEW n \in 0..Len(flag.wait), Flush(bits, n),
         UNCHANGED <<semVars, barVars, queueVars>>
  PROVE  \A u \in Task : status[u] = "waiting" => (signal[u] => signal'[u]) /\ ListedStay(u)
<1> DEFINE w == flag.wait
           met == MetPlaces(bits, n)
           kept == KeptPlaces(bits, n)
<1>1. /\ Send({w[i].id : i \in met})
      /\ \A i \in kept : Rank(kept, i) \in 1..Len(flag'.wait)
                         /\ flag'.wait[Rank(kept, i)] = w[i]
  BY FlushEffect
<1> SUFFICES ASSUME NEW u \in Task, status[u] = "waiting"
             PROVE  (signal[u] => signal'[u]) /\ ListedStay(u)
  OBVIOUS
<1>2. /\ signal[u] => signal'[u]
      /\ u \in {w[i].id : i \in met} => signal'[u]
  BY <1>1, SendReaches
<1>3. ASSUME u \in FlagIds(w) PROVE u \in FlagIds(flag'.wait) \/ signal'[u]
  <2>1. PICK i \in 1..Len(w) : w[i].id = u
    BY <1>3 DEF FlagIds
  <2>2. CASE i \in met
    BY <1>2, <2>1, <2>2
  <2>3. CASE i \in kept
    <3>1. Rank(kept, i) \in 1..Len(flag'.wait) /\ flag'.wait[Rank(kept, i)].id = u
      BY <1>1, <2>1, <2>3
    <3> HIDE DEF kept
    <3> QED  BY <3>1 DEF FlagIds
  <2> QED  BY <2>1, <2>2, <2>3 DEF KeptPlaces
<1> QED  BY <1>2, <1>3 DEF ListedStay, semVars, barVars, queueVars

\* How far the host's set looks at the list.
LEMMA HostFlushes ==
  ASSUME FlagOK, NEW h \in Host, NEW b \in Bit, HostFlagSet(h, {b})
  PROVE  \E n \in 0..Len(flag.wait) : Flush(flag.bits \union {b}, n)
<1> DEFINE new == flag.bits \union {b}
           dead == {i \in 1..Len(flag.wait) :
                      status[flag.wait[i].id] = "gone" /\ Met(new, flag.wait[i].c)}
           first == CHOOSE i \in dead : \A j \in dead : i <= j
<1>0. new \in SUBSET Bit /\ Len(flag.wait) \in Nat
  BY FlagParts
<1>1. Flush(new, IF dead = {} THEN Len(flag.wait) ELSE first - 1)
  BY DEF HostFlagSet
<1>2. CASE dead = {}
  <2> HIDE DEF new, dead
  <2>1. Flush(new, Len(flag.wait)) /\ Len(flag.wait) \in 0..Len(flag.wait)
    BY <1>0, <1>1, <1>2
  <2> QED  BY <2>1 DEF new
<1>3. CASE dead # {}
  <2>1. dead \in SUBSET (1..Len(flag.wait))
    OBVIOUS
  <2>2. \E i \in dead : \A j \in dead : i <= j
    <3> HIDE DEF dead
    <3> QED  BY <1>0, <1>3, <2>1, FirstPlace
  <2>3. first \in dead
    <3> HIDE DEF dead
    <3> QED  BY <2>2
  <2>4. first \in 1..Len(flag.wait) /\ Flush(new, first - 1)
    <3> HIDE DEF dead, first, new
    <3> QED  BY <1>1, <1>3, <2>1, <2>3
  <2> HIDE DEF first, new
  <2>5. first - 1 \in 0..Len(flag.wait)
    BY <1>0, <2>4
  <2> QED  BY <2>4, <2>5 DEF new
<1> QED  BY <1>2, <1>3

LEMMA FlagCallsNoneStranded ==
  ASSUME SigTypeOK, FlagOK, FlagCalls, UNCHANGED <<semVars, barVars, queueVars, destroyed>>,
         ~destroyed, \A u \in Task : Kept(u)
  PROVE  (\A u \in Task : Kept(u))'
<1>1. ASSUME NEW t \in Task, NEW b \in Bit, FlagSet(t, {b}) PROVE (\A u \in Task : Kept(u))'
  <2>1. /\ Flush(flag.bits \union {b}, Len(flag.wait)) /\ status[t] = "running"
        /\ \E o : Continue(t, o)
    BY <1>1 DEF FlagSet, Free
  <2>2. flag.bits \union {b} \in SUBSET Bit /\ Len(flag.wait) \in 0..Len(flag.wait)
    BY FlagParts
  <2>3. \A u \in Task : status[u] = "waiting" => (signal[u] => signal'[u]) /\ ListedStay(u)
    BY <2>1, <2>2, FlushKeeps
  <2> QED  BY <2>1, <2>3, OneCalls
<1>2. ASSUME NEW t \in Task, FlagSetEvent(t) \/ FlagWaitReturns(t) PROVE (\A u \in Task : Kept(u))'
  <2>1. /\ Continue(t, "none") /\ status[t] = "running" /\ signal' = signal /\ flag'.wait = flag.wait
    BY <1>2, ConsumedShrinks DEF FlagSetEvent, FlagWaitReturns, Inside, flagVars
  <2> QED  BY <2>1, NothingLost, OneCalls
<1>3. ASSUME UNCHANGED sigVars, flag'.wait = flag.wait PROVE (\A u \in Task : Kept(u))'
  BY <1>3, NothingLost, NobodyStranded DEF sigVars
<1>4. ASSUME NEW t \in Task, NEW c \in Conditions, FlagWait(t, c) PROVE (\A u \in Task : Kept(u))'
  BY <1>3, <1>4, ConsumedShrinks DEF FlagWait
<1>5. ASSUME NEW t \in Task, NEW c \in Conditions, FlagWaitBlocks(t, c)
      PROVE  (\A u \in Task : Kept(u))'
  <2> DEFINE w == flag.wait
             x == [id |-> t, c |-> c]
  <2>1. /\ flag' = [flag EXCEPT !.wait = Append(w, x)] /\ Block(t, "flag_wait") /\ signal' = signal
        /\ status[t] = "running"
    BY <1>5 DEF FlagWaitBlocks, Free
  <2>2. w \in Seq(FlagEntry) /\ x \in FlagEntry /\ Len(w) \in Nat /\ x.id = t
    BY FlagParts DEF FlagEntry
  <2>3. /\ Len(Append(w, x)) = Len(w) + 1
        /\ \A i \in 1..Len(w) : Append(w, x)[i] = w[i]
        /\ Append(w, x)[Len(w) + 1] = x
        /\ 1..Len(w) + 1 = (1..Len(w)) \union {Len(w) + 1}
    <3> HIDE DEF w, x
    <3> QED  BY <2>2
  <2>4. flag'.wait = Append(w, x)
    <3> HIDE DEF w, x
    <3> QED  BY <2>1 DEF FlagOK, FlagRecord
  <2>5. t \in FlagIds(flag'.wait) /\ FlagIds(w) \subseteq FlagIds(flag'.wait)
    <3> HIDE DEF w, x
    <3> QED  BY <2>2, <2>3, <2>4 DEF FlagIds
  <2>6. Listed(t)'
    BY <2>1, <2>5 DEF Listed, Block, SigTypeOK
  <2>7. \A u : ListedStay(u)
    BY <2>5 DEF ListedStay, semVars, barVars, queueVars
  <2> QED  BY <2>1, <2>6, <2>7, OneCalls
<1>6. ASSUME NEW h \in Host, NEW b \in Bit, HostFlagSet(h, {b}) PROVE (\A u \in Task : Kept(u))'
  <2>1. PICK n \in 0..Len(flag.wait) : Flush(flag.bits \union {b}, n)
    BY <1>6, HostFlushes
  <2>2. flag.bits \union {b} \in SUBSET Bit
    BY FlagParts
  <2>3. \A u \in Task : status[u] = "waiting" => (signal[u] => signal'[u]) /\ ListedStay(u)
    BY <2>1, <2>2, FlushKeeps
  <2>4. status' = status /\ op' = op
    BY <1>6 DEF HostFlagSet
  <2> QED  BY <2>3, <2>4, NobodyStranded
<1>7. ASSUME NEW h \in Host, HostFlagTests(h) \/ \E c \in Conditions : HostFlagWait(h, c)
      PROVE  (\A u \in Task : Kept(u))'
  <2>1. flag'.wait = flag.wait /\ sigVars' = sigVars
    BY <1>7, ConsumedShrinks DEF HostFlagTests, HostFlagWait, flagVars
  <2> QED  BY <1>3, <2>1
<1> QED  BY FlagSteps, <1>1, <1>2, <1>4, <1>5, <1>6, <1>7

LEMMA SemTypes ==
  ASSUME SemListOK, SemCalls
  PROVE  SemListOK'
<1>0. sem.wait \in Seq(Task) /\ sem \in [count : Int, wait : Seq(Task)]
  BY DEF SemListOK
<1>1. \A t \in Task : Append(sem.wait, t) \in Seq(Task)
  BY <1>0
<1>2. sem.wait # << >> => Tail(sem.wait) \in Seq(Task)
  BY <1>0
<1>3. PICK t \in Task : Acquire(t) \/ AcquireBlocks(t) \/ AcquireReturns(t) \/ Release(t)
  BY DEF SemCalls
<1>4. \/ \E c \in Int : sem' = [sem EXCEPT !.count = c]
      \/ \E w \in Seq(Task) : sem' = [sem EXCEPT !.wait = w]
      \/ sem' = sem
  <2>1. sem.count - 1 \in Int /\ sem.count + 1 \in Int
    BY <1>0
  <2> QED  BY <1>1, <1>2, <1>3, <2>1 DEF Acquire, AcquireBlocks, AcquireReturns, Release
<1> QED  BY <1>0, <1>4 DEF SemListOK

LEMMA RingSplit ==
  ASSUME NEW r \in WaitRing
  PROVE  Enlisted(r) \subseteq First(r).id \union Enlisted(First(r).rest)
BY RingEmpty, RingFirst

\* What a push or pop that completes takes out of a ring is signalled.
LEMMA UpdateKeeps ==
  ASSUME QueueTypeOK, (queue.count # depth /\ PushUpdate) \/ (queue.count # 0 /\ PopUpdate),
         UNCHANGED <<semVars, barVars, flagVars>>
  PROVE  \A u \in Task : status[u] = "waiting" => (signal[u] => signal'[u]) /\ ListedStay(u)
<1> SUFFICES ASSUME NEW u \in Task, status[u] = "waiting"
             PROVE  (signal[u] => signal'[u]) /\ ListedStay(u)
  OBVIOUS
<1>1. queue.push_wait \in WaitRing /\ queue.pop_wait \in WaitRing
  BY QueueParts
<1>2. CASE queue.count # depth /\ PushUpdate
  <2>1. /\ Send(First(queue.pop_wait).id) /\ queue'.push_wait = queue.push_wait
        /\ queue'.pop_wait = First(queue.pop_wait).rest
    BY <1>2, PushUpdateEffect
  <2>2. /\ signal[u] => signal'[u]
        /\ u \in First(queue.pop_wait).id => signal'[u]
    BY <2>1, SendReaches
  <2>3. u \in Enlisted(queue.pop_wait) => u \in Enlisted(queue'.pop_wait) \/ signal'[u]
    BY <1>1, <2>1, <2>2, RingSplit
  <2> QED  BY <2>1, <2>2, <2>3 DEF ListedStay, semVars, barVars, flagVars
<1>3. CASE queue.count # 0 /\ PopUpdate
  <2>1. /\ Send(First(queue.push_wait).id) /\ queue'.pop_wait = queue.pop_wait
        /\ queue'.push_wait = First(queue.push_wait).rest
    BY <1>3, PopUpdateEffect
  <2>2. /\ signal[u] => signal'[u]
        /\ u \in First(queue.push_wait).id => signal'[u]
    BY <2>1, SendReaches
  <2>3. u \in Enlisted(queue.push_wait) => u \in Enlisted(queue'.push_wait) \/ signal'[u]
    BY <1>1, <2>1, <2>2, RingSplit
  <2> QED  BY <2>1, <2>2, <2>3 DEF ListedStay, semVars, barVars, flagVars
<1> QED  BY <1>2, <1>3

LEMMA QueueCallsNoneStranded ==
  ASSUME FifoInv, QueueCalls \/ PeekCalls, UNCHANGED <<semVars, barVars, flagVars, destroyed>>,
         ~destroyed, \A u \in Task : Kept(u)
  PROVE  (\A u \in Task : Kept(u))'
<1>0. /\ SigTypeOK /\ QueueTypeOK
      /\ queue.push_wait \in WaitRing /\ queue.pop_wait \in WaitRing
  BY FifoParts, QueueParts
<1>1. ASSUME Enlisted(queue.push_wait) \subseteq Enlisted(queue'.push_wait),
             Enlisted(queue.pop_wait) \subseteq Enlisted(queue'.pop_wait)
      PROVE  \A u : ListedStay(u)
  BY <1>1 DEF ListedStay, semVars, barVars, flagVars
<1>2. ASSUME NEW t \in Task, NEW o, Continue(t, o), status[t] = "running", signal' = signal,
             queue' = queue
      PROVE  (\A u \in Task : Kept(u))'
  BY <1>0, <1>1, <1>2, OneCalls
<1>3. ASSUME NEW t \in Task, NEW v \in Item, PushBlocks(t, v) PROVE (\A u \in Task : Kept(u))'
  <2>1. /\ queue'.push_wait = Enlist(queue.push_wait, t) /\ queue'.pop_wait = queue.pop_wait
        /\ queue.push_wait.count # QUEUE_WAIT_MAX
        /\ Block(t, "push") /\ signal' = signal /\ status[t] = "running"
    BY <1>0, <1>3, EnlistEffect DEF PushBlocks, Locks, Free, Inside
  <2>2. Enlisted(queue'.push_wait) = Enlisted(queue.push_wait) \union {t}
    BY <1>0, <2>1, RingEnlist
  <2>3. Listed(t)'
    BY <1>0, <2>1, <2>2 DEF Listed, Block, SigTypeOK
  <2>4. \A u : ListedStay(u)
    BY <1>1, <2>1, <2>2
  <2> QED  BY <1>0, <2>1, <2>3, <2>4, OneCalls
<1>4. ASSUME NEW t \in Task, NEW o \in {"pop", "peek"}, PopBlocks(t, o)
      PROVE  (\A u \in Task : Kept(u))'
  <2>1. /\ queue'.pop_wait = Enlist(queue.pop_wait, t) /\ queue'.push_wait = queue.push_wait
        /\ queue.pop_wait.count # QUEUE_WAIT_MAX
        /\ Block(t, o) /\ signal' = signal /\ status[t] = "running"
    BY <1>0, <1>4, EnlistEffect DEF PopBlocks, Locks, Free, Inside
  <2>2. Enlisted(queue'.pop_wait) = Enlisted(queue.pop_wait) \union {t}
    BY <1>0, <2>1, RingEnlist
  <2>3. Listed(t)'
    <3>1. op'[t] = o
      BY <1>0, <2>1 DEF Block, SigTypeOK
    <3> QED  BY <2>2, <3>1 DEF Listed
  <2>4. \A u : ListedStay(u)
    BY <1>1, <2>1, <2>2
  <2> QED  BY <1>0, <2>1, <2>3, <2>4, OneCalls
<1>5. ASSUME NEW t \in Task,
             \/ (\E v \in Item : PushBegin(t, v)) \/ PushLimit(t) \/ QueueEvent(t) \/ PeekEnd(t)
             \/ \E o \in {"pop", "peek"} : PopBegin(t, o) \/ PopLimit(t, o)
      PROVE  (\A u \in Task : Kept(u))'
  <2>1. /\ \E o : Continue(t, o)
        /\ status[t] = "running" /\ signal' = signal /\ queue' = queue
    BY <1>5 DEF PushBegin, PushLimit, QueueEvent, PeekEnd, PopBegin, PopLimit, Locks, Free, Inside,
                queueVars
  <2> QED  BY <1>2, <2>1
<1>6. ASSUME NEW t \in Task, PushEnd(t) \/ PopEnd(t) PROVE (\A u \in Task : Kept(u))'
  <2>1. \/ op[t] = "push_end" /\ PushUpdate
        \/ op[t] = "pop_end" /\ PopUpdate
    BY <1>6 DEF PushEnd, PopEnd, Inside
  <2>2. (queue.count # depth /\ PushUpdate) \/ (queue.count # 0 /\ PopUpdate)
    BY <1>0, <2>1, QueueParts DEF FifoInv
  <2>3. \A u \in Task : status[u] = "waiting" => (signal[u] => signal'[u]) /\ ListedStay(u)
    BY <1>0, <2>2, UpdateKeeps
  <2>4. status[t] = "running" /\ \E o : Continue(t, o)
    BY <1>6 DEF PushEnd, PopEnd, Inside
  <2> QED  BY <1>0, <2>3, <2>4, OneCalls
<1>7. ASSUME NEW h \in Host,
             \/ (\E v \in Item : HostPush(h, v)) \/ HostPushTests(h)
             \/ \E o \in {"pop", "peek"} : HostPop(h, o) \/ HostPopTests(h, o)
      PROVE  (\A u \in Task : Kept(u))'
  <2>1. /\ status' = status /\ op' = op
        /\ \/ queue' = queue /\ signal' = signal
           \/ queue.count # depth /\ PushUpdate
           \/ queue.count # 0 /\ PopUpdate
    <3>1. CASE \E v \in Item : HostPush(h, v)
      BY <3>1 DEF HostPush
    <3>2. CASE \E o \in {"pop", "peek"} : HostPop(h, o)
      BY <3>2 DEF HostPop
    <3>3. CASE HostPushTests(h) \/ \E o \in {"pop", "peek"} : HostPopTests(h, o)
      BY <3>3 DEF HostPushTests, HostPopTests, sigVars, queueVars
    <3> QED  BY <1>7, <3>1, <3>2, <3>3
  <2>2. \A u \in Task : status[u] = "waiting" => (signal[u] => signal'[u]) /\ ListedStay(u)
    BY <1>0, <1>1, <2>1, UpdateKeeps
  <2> QED  BY <2>1, <2>2, NobodyStranded
<1>8. CASE QueueCalls
  BY <1>3, <1>4, <1>5, <1>6, <1>7, <1>8 DEF QueueCalls
<1>9. CASE PeekCalls
  BY <1>4, <1>5, <1>7, <1>9 DEF PeekCalls
<1> QED  BY <1>8, <1>9

\* A program that keeps its waiting tasks.
Keeps == use \intersect {"clear", "host_clear", "barrier"} = {}

\* Invariant: nobody is stranded, and without a barrier its list stays empty,
\* which a destroy does not look at.
KeepInv ==
  /\ FlagInv /\ SemListOK
  /\ "barrier" \notin use => barrier.notify_wait = << >>
  /\ Keeps => \A u \in Task : Kept(u)

LEMMA KeepInitial == SyncInit => KeepInv
<1> SUFFICES ASSUME SyncInit PROVE KeepInv
  OBVIOUS
<1>1. \A u \in Task : status[u] = "running"
  BY DEF SyncInit, SigInit
<1>2. SemListOK
  BY SemAssumption DEF SyncInit, SemInit, SemListOK
<1>3. barrier.notify_wait = << >>
  BY DEF SyncInit, BarInit
<1> QED  BY <1>1, <1>2, <1>3, FlagInitial DEF KeepInv, Kept

\* Destroy looks at all lists but that of the tasks that wait to notify.
LEMMA DestroyKeeps ==
  ASSUME FifoInv, SemListOK, FlagOK, barrier.notify_wait = << >>, Destroy, \A u \in Task : Kept(u)
  PROVE  (\A u \in Task : Kept(u))'
<1>1. /\ sem.wait = << >> /\ barrier.wait = << >> /\ flag.wait = << >>
      /\ queue.push_wait.count = 0 /\ queue.pop_wait.count = 0
  BY DEF Destroy, Destroyable, SemaphoreDestroyable, BarrierDestroyable, FlagDestroyable,
         QueueDestroyable
<1>2. Enlisted(queue.push_wait) = {} /\ Enlisted(queue.pop_wait) = {}
  BY <1>1, RingEmpty, FifoParts, QueueParts
<1>3. Len(<< >>) = 0 /\ 1..0 = {}
  OBVIOUS
<1>4. \A u \in Task : ~ Listed(u)
  BY <1>1, <1>2, <1>3 DEF Listed, SemSet, BarSet, FlagIds
<1>5. status' = status /\ op' = op /\ signal' = signal
  BY DEF Destroy, sigVars
<1> QED  BY <1>4, <1>5 DEF Kept

LEMMA SemListStays == ASSUME SemListOK, [SyncNext]_syncVars PROVE SemListOK'
<1>1. CASE sem' = sem
  BY <1>1 DEF SemListOK
<1>2. CASE SemaphoreStep
  BY <1>2, SemTypes DEF SemaphoreStep, Calls
<1>3. sem' = sem \/ SemaphoreStep
  BY DEF SyncNext, SignalStep, BarrierStep, FlagStep, FlagClearStep, QueueStep,
     PeekStep, ClearStep, HostClearStep, KernelStep, BroadcastStep, RemoveStep, Destroy, Calls,
     syncVars, semVars
<1> QED  BY <1>1, <1>2, <1>3

LEMMA KeepStep == KeepInv /\ [SyncNext]_syncVars => KeepInv'
<1> SUFFICES ASSUME KeepInv, [SyncNext]_syncVars PROVE KeepInv'
  OBVIOUS
<1>0. /\ FlagInv /\ FifoInv /\ FlagOK /\ SigTypeOK /\ SemListOK
      /\ use' = use
  BY FifoParts, QueueParts, UseStays DEF KeepInv, FlagInv
<1>1. FlagInv'
  BY <1>0, FlagStepKeeps
<1>2. barrier' = barrier \/ "barrier" \in use
  BY DEF SyncNext, SignalStep, SemaphoreStep, BarrierStep, FlagStep, FlagClearStep, QueueStep,
     PeekStep, ClearStep, HostClearStep, KernelStep, BroadcastStep, RemoveStep, Destroy, Calls,
     syncVars, barVars
<1>3. "barrier" \notin use' => barrier'.notify_wait = << >>
  BY <1>0, <1>2 DEF KeepInv
<1>4. SemListOK'
  BY <1>0, SemListStays
<1>5. ASSUME Keeps PROVE (\A u \in Task : Kept(u))'
  <2>0. /\ \A u \in Task : Kept(u)
        /\ barrier.notify_wait = << >>
        /\ ~ BarrierStep /\ ~ ClearStep /\ ~ HostClearStep
    BY <1>5 DEF KeepInv, Keeps, BarrierStep, ClearStep, HostClearStep, Calls
  <2>1. CASE SignalStep \/ KernelStep \/ RemoveStep
    BY <1>0, <2>0, <2>1, SignalCallsKeep DEF SignalStep, KernelStep, RemoveStep, Calls
  <2>2. CASE SemaphoreStep
    BY <1>0, <2>0, <2>2, SemCallsKeep DEF SemaphoreStep, Calls
  <2>3. CASE FlagStep
    BY <1>0, <2>0, <2>3, FlagCallsNoneStranded DEF FlagStep, Calls
  <2>4. CASE QueueStep \/ PeekStep
    BY <1>0, <2>0, <2>4, QueueCallsNoneStranded DEF QueueStep, PeekStep, Calls
  <2>5. ASSUME UNCHANGED <<sigVars, semVars, barVars, queueVars, destroyed>>, flag'.wait = flag.wait
        PROVE  (\A u \in Task : Kept(u))'
    BY <2>0, <2>5, NothingLost, NobodyStranded DEF sigVars
  <2>6. CASE FlagClearStep
    <3>1. PICK b \in Bit : FlagClear({b})
      BY <2>6 DEF FlagClearStep, Calls
    <3>2. flag'.wait = flag.wait
      BY <1>0, <3>1 DEF FlagClear, FlagOK, FlagRecord
    <3> QED  BY <2>5, <2>6, <3>1, <3>2 DEF FlagClearStep, FlagClear, Calls
  <2>7. CASE BroadcastStep
    BY <2>5, <2>7 DEF BroadcastStep, flagVars
  <2>8. CASE Destroy
    BY <1>0, <2>0, <2>8, DestroyKeeps
  <2>9. CASE UNCHANGED syncVars
    BY <2>5, <2>9 DEF syncVars, flagVars
  <2> QED  BY <2>0, <2>1, <2>2, <2>3, <2>4, <2>6, <2>7, <2>8, <2>9 DEF SyncNext
<1>6. Keeps' => Keeps
  BY <1>0 DEF Keeps
<1> QED  BY <1>1, <1>3, <1>4, <1>5, <1>6 DEF KeepInv

\* A waiting task is in the wait list of an object that still exists or has its
\* signal set: neither the second reset of task_signal_wait (task_module.c:238)
\* nor a destroy strands it, for any programs, tasks, bits and limits.
THEOREM NobodyIsStranded == SyncSpec => []WaitersKept
<1>1. KeepInv => WaitersKept
  BY NoneStrandedIs DEF KeepInv, Keeps, WaitersKept
<1> QED  BY <1>1, KeepInitial, KeepStep, PTL DEF SyncSpec

-----------------------------------------------------------------------------
(* Orderly waiting: while nobody signals outside the objects or clears the *)
(* queue, a signal means that its task has left the list it waited in.     *)

InSome(u) ==
  \/ u \in SemSet(sem.wait)
  \/ u \in BarSet(barrier.notify_wait)
  \/ u \in BarSet(barrier.wait)
  \/ u \in FlagIds(flag.wait)
  \/ u \in Enlisted(queue.push_wait)
  \/ u \in Enlisted(queue.pop_wait)

\* u is in the list of its own call only, asleep and not signalled; and it has
\* a signal only while it sleeps.
Tidy(u) ==
  /\ u \in SemSet(sem.wait) => op[u] = "acquire"
  /\ u \in BarSet(barrier.notify_wait) => op[u] = "notify"
  /\ u \in BarSet(barrier.wait) => op[u] = "barrier_wait"
  /\ u \in FlagIds(flag.wait) => op[u] = "flag_wait"
  /\ u \in Enlisted(queue.push_wait) => op[u] = "push"
  /\ u \in Enlisted(queue.pop_wait) => op[u] \in {"pop", "peek"}
  /\ InSome(u) => status[u] \in {"waiting", "gone"} /\ ~signal[u]
  /\ signal[u] => status[u] \in {"waiting", "gone"}

\* Nobody joins a list but t, which joins that of its call o.
Joins(t, o) ==
  \A u \in Task :
    /\ u \in SemSet(sem'.wait) => u \in SemSet(sem.wait) \/ (u = t /\ o = "acquire")
    /\ u \in BarSet(barrier'.notify_wait) =>
         u \in BarSet(barrier.notify_wait) \/ (u = t /\ o = "notify")
    /\ u \in BarSet(barrier'.wait) => u \in BarSet(barrier.wait) \/ (u = t /\ o = "barrier_wait")
    /\ u \in FlagIds(flag'.wait) => u \in FlagIds(flag.wait) \/ (u = t /\ o = "flag_wait")
    /\ u \in Enlisted(queue'.push_wait) =>
         u \in Enlisted(queue.push_wait) \/ (u = t /\ o = "push")
    /\ u \in Enlisted(queue'.pop_wait) =>
         u \in Enlisted(queue.pop_wait) \/ (u = t /\ o \in {"pop", "peek"})

\* u joins no list.
Fewer(u) ==
  /\ u \in SemSet(sem'.wait) => u \in SemSet(sem.wait)
  /\ u \in BarSet(barrier'.notify_wait) => u \in BarSet(barrier.notify_wait)
  /\ u \in BarSet(barrier'.wait) => u \in BarSet(barrier.wait)
  /\ u \in FlagIds(flag'.wait) => u \in FlagIds(flag.wait)
  /\ u \in Enlisted(queue'.push_wait) => u \in Enlisted(queue.push_wait)
  /\ u \in Enlisted(queue'.pop_wait) => u \in Enlisted(queue.pop_wait)

\* A new signal of u took it out of the list it was in.
SentOut(u) == signal'[u] => signal[u] \/ (InSome(u) /\ status[u] # "gone" /\ ~ InSome(u)')

LEMMA AwakeIsFree ==
  ASSUME NEW u, Tidy(u), status[u] \in {"running", "resumed"}
  PROVE  ~ InSome(u) /\ ~signal[u]
BY DEF Tidy

LEMMA FewerIn ==
  ASSUME NEW u, Fewer(u), InSome(u)'
  PROVE  InSome(u)
BY DEF Fewer, InSome

\* u is in one list at most, so it is in none when it leaves one.
LEMMA LeavesOne ==
  ASSUME NEW u, Tidy(u), Fewer(u)
  PROVE  /\ u \in SemSet(sem.wait) /\ u \notin SemSet(sem'.wait) => ~ InSome(u)'
         /\ u \in BarSet(barrier.notify_wait) /\ u \notin BarSet(barrier'.notify_wait) => ~ InSome(u)'
         /\ u \in BarSet(barrier.wait) /\ u \notin BarSet(barrier'.wait) => ~ InSome(u)'
         /\ u \in FlagIds(flag.wait) /\ u \notin FlagIds(flag'.wait) => ~ InSome(u)'
         /\ u \in Enlisted(queue.push_wait) /\ u \notin Enlisted(queue'.push_wait) => ~ InSome(u)'
         /\ u \in Enlisted(queue.pop_wait) /\ u \notin Enlisted(queue'.pop_wait) => ~ InSome(u)'
BY DEF Tidy, Fewer, InSome

LEMMA TidyStays ==
  ASSUME NEW u, Tidy(u), Fewer(u), op'[u] = op[u],
         status'[u] = status[u] \/ (status[u] = "waiting" /\ status'[u] = "gone"),
         SentOut(u)
  PROVE  Tidy(u)'
<1>1. InSome(u)' => InSome(u) /\ status'[u] \in {"waiting", "gone"} /\ ~signal'[u]
  BY FewerIn DEF Tidy, SentOut
<1>2. signal'[u] => status'[u] \in {"waiting", "gone"}
  BY DEF Tidy, SentOut
<1>3. /\ u \in SemSet(sem'.wait) => op'[u] = "acquire"
      /\ u \in BarSet(barrier'.notify_wait) => op'[u] = "notify"
      /\ u \in BarSet(barrier'.wait) => op'[u] = "barrier_wait"
      /\ u \in FlagIds(flag'.wait) => op'[u] = "flag_wait"
      /\ u \in Enlisted(queue'.push_wait) => op'[u] = "push"
      /\ u \in Enlisted(queue'.pop_wait) => op'[u] \in {"pop", "peek"}
  BY DEF Tidy, Fewer
<1> QED  BY <1>1, <1>2, <1>3 DEF Tidy

LEMMA AwakeTidy ==
  ASSUME NEW u, ~ InSome(u)', ~signal'[u]
  PROVE  Tidy(u)'
BY DEF Tidy, InSome

\* Calls in which nobody joins a list.
LEMMA MovesTidy ==
  ASSUME NEW X, Moves(X), \A u \in Task : Tidy(u), \A u \in Task : Fewer(u) /\ SentOut(u)
  PROVE  (\A u \in Task : Tidy(u))'
<1> SUFFICES ASSUME NEW u \in Task PROVE Tidy(u)'
  OBVIOUS
<1>1. CASE op'[u] = op[u] /\ status'[u] = status[u]
  BY <1>1, TidyStays
<1>2. CASE status[u] = "running"
  BY <1>2, AwakeIsFree, FewerIn, AwakeTidy DEF SentOut
<1> QED  BY <1>1, <1>2 DEF Moves

\* A call in which t joins the list of o.
LEMMA BlocksTidy ==
  ASSUME SigTypeOK, \A u \in Task : Tidy(u), NEW t \in Task, NEW o, Block(t, o),
         status[t] = "running", signal' = signal, Joins(t, o)
  PROVE  (\A u \in Task : Tidy(u))'
<1> SUFFICES ASSUME NEW u \in Task PROVE Tidy(u)'
  OBVIOUS
<1>1. CASE u # t
  <2>1. op'[u] = op[u] /\ status'[u] = status[u]
    BY <1>1 DEF Block, SigTypeOK
  <2>2. Fewer(u) /\ SentOut(u)
    BY <1>1 DEF Joins, Fewer, SentOut
  <2> QED  BY <2>1, <2>2, TidyStays
<1>2. CASE u = t
  <2>1. ~ InSome(t) /\ ~signal[t]
    BY AwakeIsFree
  <2>2. op'[t] = o /\ status'[t] = "waiting" /\ ~signal'[t]
    BY <2>1 DEF Block, SigTypeOK
  <2>3. /\ t \in SemSet(sem'.wait) => o = "acquire"
        /\ t \in BarSet(barrier'.notify_wait) => o = "notify"
        /\ t \in BarSet(barrier'.wait) => o = "barrier_wait"
        /\ t \in FlagIds(flag'.wait) => o = "flag_wait"
        /\ t \in Enlisted(queue'.push_wait) => o = "push"
        /\ t \in Enlisted(queue'.pop_wait) => o \in {"pop", "peek"}
    BY <2>1 DEF Joins, InSome
  <2> QED  BY <1>2, <2>2, <2>3 DEF Tidy
<1> QED  BY <1>1, <1>2

LEMMA SentOnly ==
  ASSUME NEW ts, Send(ts)
  PROVE  \A u \in Task : signal'[u] => signal[u] \/ (u \in ts /\ status[u] # "gone")
BY DEF Send

\* The kernel takes a signal back from a task that is in no list.
LEMMA KernelTidy ==
  ASSUME SigTypeOK, \A u \in Task : Tidy(u), Kernel \/ \E t \in Task : Remove(t),
         UNCHANGED <<semVars, barVars, flagVars, queueVars>>
  PROVE  (\A u \in Task : Tidy(u))'
<1>0. \A u : Fewer(u) /\ (InSome(u)' <=> InSome(u))
  BY DEF Fewer, InSome, semVars, barVars, flagVars, queueVars
<1>1. ASSUME NEW t \in Task, Wake(t) \/ ResetSignal(t) PROVE (\A u \in Task : Tidy(u))'
  <2>1. ~ InSome(t)
    BY <1>1, AwakeIsFree DEF Wake, ResetSignal, Tidy
  <2>2. ~signal'[t] /\ op' = op
    BY <1>1 DEF Wake, ResetSignal, SigTypeOK
  <2>3. \A u \in Task : u # t => status'[u] = status[u] /\ signal'[u] = signal[u]
    BY <1>1 DEF Wake, ResetSignal, SigTypeOK
  <2>4. Tidy(t)'
    BY <1>0, <2>1, <2>2, AwakeTidy
  <2>5. ASSUME NEW u \in Task, u # t PROVE Tidy(u)'
    BY <1>0, <2>2, <2>3, <2>5, TidyStays DEF SentOut
  <2> QED  BY <2>4, <2>5
<1>2. ASSUME NEW t \in Task, Remove(t) PROVE (\A u \in Task : Tidy(u))'
  <2>1. op' = op /\ signal' = signal
    BY <1>2 DEF Remove
  <2>2. \A u \in Task : status'[u] = status[u] \/ (status[u] = "waiting" /\ status'[u] = "gone")
    BY <1>2 DEF Remove, SigTypeOK
  <2> QED  BY <1>0, <2>1, <2>2, TidyStays DEF SentOut
<1> QED  BY <1>1, <1>2 DEF Kernel

\* No element occurs twice.
Once(s) == \A i, j \in 1..Len(s) : s[i] = s[j] => i = j

LEMMA AppendElements ==
  ASSUME NEW S, NEW s \in Seq(S), NEW x \in S
  PROVE  /\ Append(s, x) \in Seq(S)
         /\ \A y : (\E i \in 1..Len(Append(s, x)) : Append(s, x)[i] = y)
                     => (\E i \in 1..Len(s) : s[i] = y) \/ y = x
         /\ Once(s) /\ (\A i \in 1..Len(s) : s[i] # x) => Once(Append(s, x))
<1> DEFINE a == Append(s, x)
<1>1. /\ a \in Seq(S) /\ Len(a) = Len(s) + 1 /\ Len(s) \in Nat
      /\ \A i \in 1..Len(s) : a[i] = s[i]
      /\ a[Len(s) + 1] = x
  OBVIOUS
<1> HIDE DEF a
<1>2. \A i \in 1..Len(a) : i \in 1..Len(s) \/ i = Len(s) + 1
  BY <1>1
<1>3. \A i \in 1..Len(a) : a[i] = IF i \in 1..Len(s) THEN s[i] ELSE x
  BY <1>1, <1>2
<1>4. \A y : (\E i \in 1..Len(a) : a[i] = y) => (\E i \in 1..Len(s) : s[i] = y) \/ y = x
  BY <1>3
<1>5. ASSUME Once(s), \A i \in 1..Len(s) : s[i] # x,
             NEW i \in 1..Len(a), NEW j \in 1..Len(a), a[i] = a[j]
      PROVE  i = j
  BY <1>2, <1>3, <1>5 DEF Once
<1> QED  BY <1>1, <1>4, <1>5 DEF a, Once

LEMMA TailElements ==
  ASSUME NEW S, NEW s \in Seq(S), s # << >>
  PROVE  /\ Tail(s) \in Seq(S) /\ Head(s) = s[1] /\ 1 \in 1..Len(s)
         /\ \A y : (\E i \in 1..Len(Tail(s)) : Tail(s)[i] = y) => (\E i \in 1..Len(s) : s[i] = y)
         /\ Once(s) => Once(Tail(s)) /\ \A i \in 1..Len(Tail(s)) : Tail(s)[i] # s[1]
<1> DEFINE t == Tail(s)
<1>1. /\ t \in Seq(S) /\ Head(s) = s[1] /\ Len(s) \in Nat /\ Len(s) > 0 /\ Len(t) = Len(s) - 1
      /\ \A i \in 1..Len(s) - 1 : t[i] = s[i + 1]
  OBVIOUS
<1> HIDE DEF t
<1>2. \A i \in 1..Len(t) : t[i] = s[i + 1] /\ i + 1 \in 1..Len(s) /\ i + 1 # 1
  BY <1>1
<1>3. 1 \in 1..Len(s)
  BY <1>1
<1>4. ASSUME Once(s)
      PROVE  Once(t) /\ \A i \in 1..Len(t) : t[i] # s[1]
  <2>1. ASSUME NEW i \in 1..Len(t), NEW j \in 1..Len(t), t[i] = t[j]
        PROVE  i = j
    <3>1. i + 1 = j + 1
      BY <1>2, <1>4, <2>1 DEF Once
    <3> QED  BY <1>1, <3>1
  <2> QED  BY <1>2, <1>3, <1>4, <2>1 DEF Once
<1> QED  BY <1>1, <1>2, <1>3, <1>4 DEF t

LEMMA SemCallsTidy ==
  ASSUME SigTypeOK, SemListOK, SemCalls, UNCHANGED <<barVars, flagVars, queueVars>>,
         \A u \in Task : Tidy(u), Once(sem.wait)
  PROVE  (\A u \in Task : Tidy(u))' /\ Once(sem'.wait)
<1> DEFINE w == sem.wait
<1>0. w \in Seq(Task) /\ sem \in [count : Int, wait : Seq(Task)]
  BY DEF SemListOK
<1>1. ASSUME NEW t \in Task, Acquire(t) \/ AcquireReturns(t)
      PROVE  (\A u \in Task : Tidy(u))' /\ Once(sem'.wait)
  <2>1. sem'.wait = w /\ signal' = signal
    BY <1>0, <1>1 DEF Acquire, AcquireReturns, sigVars
  <2>2. \A u \in Task : Fewer(u) /\ SentOut(u)
    BY <2>1 DEF Fewer, SentOut, barVars, flagVars, queueVars
  <2> QED  BY <2>1, <2>2, MovesTidy, SemMoves
<1>2. ASSUME NEW t \in Task, AcquireBlocks(t)
      PROVE  (\A u \in Task : Tidy(u))' /\ Once(sem'.wait)
  <2>1. /\ sem' = [sem EXCEPT !.wait = Append(w, t)] /\ Block(t, "acquire") /\ signal' = signal
        /\ status[t] = "running"
    BY <1>2 DEF AcquireBlocks, Free
  <2>2. sem'.wait = Append(w, t)
    BY <1>0, <2>1
  <2>3. \A i \in 1..Len(w) : w[i] # t
    <3>1. t \notin SemSet(w)
      BY <2>1, AwakeIsFree DEF InSome
    <3> QED  BY <3>1 DEF SemSet
  <2>4. \A u : u \in SemSet(sem'.wait) => u \in SemSet(w) \/ u = t
    <3> HIDE DEF w
    <3> QED  BY <1>0, <2>2, AppendElements DEF SemSet
  <2>5. Once(sem'.wait)
    <3> HIDE DEF w
    <3>1. Once(w)
      BY DEF w
    <3> QED  BY <1>0, <2>2, <2>3, <3>1, AppendElements
  <2>6. Joins(t, "acquire")
    BY <2>4 DEF Joins, barVars, flagVars, queueVars
  <2> QED  BY <2>1, <2>5, <2>6, BlocksTidy
<1>3. ASSUME NEW t \in Task, Release(t)
      PROVE  (\A u \in Task : Tidy(u))' /\ Once(sem'.wait)
  <2>1. CASE sem.count + 1 > 0 /\ w # << >>
    <3>1. Send({Head(w)}) /\ sem'.wait = Tail(w)
      BY <1>0, <1>3, <2>1 DEF Release
    <3>2. /\ \A u : u \in SemSet(sem'.wait) => u \in SemSet(w)
          /\ Once(sem'.wait) /\ Head(w) \in SemSet(w) /\ Head(w) \notin SemSet(sem'.wait)
      <4>1. Once(w)
        OBVIOUS
      <4> HIDE DEF w
      <4> QED  BY <1>0, <2>1, <3>1, <4>1, TailElements DEF SemSet
    <3>3. \A u \in Task : Fewer(u)
      BY <3>2 DEF Fewer, barVars, flagVars, queueVars
    <3>4. ASSUME NEW u \in Task PROVE SentOut(u)
      <4>1. signal'[u] => signal[u] \/ (u = Head(w) /\ status[u] # "gone")
        BY <3>1, SentOnly
      <4>2. u = Head(w) => InSome(u) /\ ~ InSome(u)'
        BY <3>2, <3>3, LeavesOne DEF InSome
      <4> QED  BY <4>1, <4>2 DEF SentOut
    <3> QED  BY <3>2, <3>3, <3>4, MovesTidy, SemMoves
  <2>2. CASE ~ (sem.count + 1 > 0 /\ w # << >>)
    <3>1. sem'.wait = w /\ signal' = signal
      BY <1>0, <1>3, <2>2 DEF Release
    <3>2. \A u \in Task : Fewer(u) /\ SentOut(u)
      BY <3>1 DEF Fewer, SentOut, barVars, flagVars, queueVars
    <3> QED  BY <3>1, <3>2, MovesTidy, SemMoves
  <2> QED  BY <2>1, <2>2
<1> QED  BY <1>1, <1>2, <1>3 DEF SemCalls

\* The types of the barrier's lists.
BarListOK == barrier \in [notified : Int, waited : Int, notify_wait : Seq(Task), wait : Seq(Task)]

LEMMA BarRecords ==
  ASSUME NEW N, NEW S, NEW b \in [notified : N, waited : N, notify_wait : S, wait : S],
         NEW x \in N, NEW z \in N, NEW q \in S
  PROVE  LET f == [b EXCEPT !.notified = x, !.wait = q]
             g == [b EXCEPT !.notified = z, !.waited = z, !.notify_wait = q]
         IN  /\ f \in [notified : N, waited : N, notify_wait : S, wait : S]
             /\ f.notify_wait = b.notify_wait /\ f.wait = q
             /\ g \in [notified : N, waited : N, notify_wait : S, wait : S]
             /\ g.notify_wait = q /\ g.wait = b.wait
OBVIOUS

\* A task that counts in or out at the barrier: the others are left alone, or
\* one of the lists is signalled and emptied.
LEMMA BarCallsTidy ==
  ASSUME SigTypeOK, BarListOK, BarCalls, UNCHANGED <<semVars, flagVars, queueVars>>,
         \A u \in Task : Tidy(u)
  PROVE  (\A u \in Task : Tidy(u))' /\ BarListOK'
<1> DEFINE n == barrier.notify_wait
           w == barrier.wait
<1>0. /\ n \in Seq(Task) /\ w \in Seq(Task) /\ barrier.notified \in Int /\ barrier.waited \in Int
      /\ << >> \in Seq(Task) /\ BarSet(<< >>) = {}
  BY DEF BarListOK, BarSet
<1>1. ASSUME barrier'.notify_wait \in {n, << >>}, barrier'.wait \in {w, << >>},
             \/ signal' = signal
             \/ Send(BarSet(w)) /\ barrier'.wait = << >>
             \/ Send(BarSet(n)) /\ barrier'.notify_wait = << >>
      PROVE  (\A u \in Task : Tidy(u))'
  <2>1. \A u \in Task : Fewer(u)
    BY <1>0, <1>1 DEF Fewer, semVars, flagVars, queueVars
  <2>2. ASSUME NEW u \in Task PROVE SentOut(u)
    <3>1. CASE signal' = signal
      BY <3>1 DEF SentOut
    <3>2. CASE Send(BarSet(w)) /\ barrier'.wait = << >>
      <4>1. signal'[u] => signal[u] \/ (u \in BarSet(w) /\ status[u] # "gone")
        BY <3>2, SentOnly
      <4>2. u \in BarSet(w) => InSome(u) /\ ~ InSome(u)'
        BY <1>0, <2>1, <3>2, LeavesOne DEF InSome
      <4> QED  BY <4>1, <4>2 DEF SentOut
    <3>3. CASE Send(BarSet(n)) /\ barrier'.notify_wait = << >>
      <4>1. signal'[u] => signal[u] \/ (u \in BarSet(n) /\ status[u] # "gone")
        BY <3>3, SentOnly
      <4>2. u \in BarSet(n) => InSome(u) /\ ~ InSome(u)'
        BY <1>0, <2>1, <3>3, LeavesOne DEF InSome
      <4> QED  BY <4>1, <4>2 DEF SentOut
    <3> QED  BY <1>1, <3>1, <3>2, <3>3
  <2> QED  BY <2>1, <2>2, MovesTidy, BarMoves
<1>2. ASSUME NEW t \in Task, Notified(t)
      PROVE  (\A u \in Task : Tidy(u))' /\ BarListOK'
  <2>1. CASE barrier.notified + 1 = total
    <3>1. Send(BarSet(w)) /\ barrier' = [barrier EXCEPT !.notified = @ + 1, !.wait = << >>]
      BY <1>2, <2>1 DEF Notified
    <3>2. BarListOK' /\ barrier'.notify_wait = n /\ barrier'.wait = << >>
      <4>1. barrier.notified + 1 \in Int
        BY <1>0
      <4> QED  BY <1>0, <3>1, <4>1, BarRecords DEF BarListOK
    <3> QED  BY <1>1, <3>1, <3>2
  <2>2. CASE barrier.notified + 1 # total
    <3>1. signal' = signal /\ barrier' = [barrier EXCEPT !.notified = @ + 1]
      BY <1>2, <2>2 DEF Notified
    <3>2. BarListOK' /\ barrier'.notify_wait = n /\ barrier'.wait = w
      BY <1>0, <3>1 DEF BarListOK
    <3> QED  BY <1>1, <3>1, <3>2
  <2> QED  BY <2>1, <2>2
<1>3. ASSUME NEW t \in Task, Waited(t)
      PROVE  (\A u \in Task : Tidy(u))' /\ BarListOK'
  <2>1. CASE barrier.waited + 1 = total
    <3>1. /\ Send(BarSet(n))
          /\ barrier' = [barrier EXCEPT !.notified = 0, !.waited = 0, !.notify_wait = << >>]
      BY <1>3, <2>1 DEF Waited
    <3>2. BarListOK' /\ barrier'.notify_wait = << >> /\ barrier'.wait = w
      <4>1. 0 \in Int
        OBVIOUS
      <4> QED  BY <1>0, <3>1, <4>1, BarRecords DEF BarListOK
    <3> QED  BY <1>1, <3>1, <3>2
  <2>2. CASE barrier.waited + 1 # total
    <3>1. signal' = signal /\ barrier' = [barrier EXCEPT !.waited = @ + 1]
      BY <1>3, <2>2 DEF Waited
    <3>2. BarListOK' /\ barrier'.notify_wait = n /\ barrier'.wait = w
      BY <1>0, <3>1 DEF BarListOK
    <3> QED  BY <1>1, <3>1, <3>2
  <2> QED  BY <2>1, <2>2
<1>4. ASSUME NEW t \in Task, NotifyBlocks(t)
      PROVE  (\A u \in Task : Tidy(u))' /\ BarListOK'
  <2>1. /\ barrier' = [barrier EXCEPT !.notify_wait = Append(n, t)] /\ Block(t, "notify")
        /\ signal' = signal /\ status[t] = "running"
    BY <1>4 DEF NotifyBlocks, Free
  <2>2. Append(n, t) \in Seq(Task)
    BY <1>0
  <2>3. BarListOK' /\ barrier'.notify_wait = Append(n, t) /\ barrier'.wait = w
    BY <2>1, <2>2 DEF BarListOK
  <2>4. \A u : u \in BarSet(barrier'.notify_wait) => u \in BarSet(n) \/ u = t
    <3> HIDE DEF n
    <3> QED  BY <1>0, <2>3, AppendElements DEF BarSet
  <2>5. Joins(t, "notify")
    BY <2>3, <2>4 DEF Joins, semVars, flagVars, queueVars
  <2> QED  BY <2>1, <2>3, <2>5, BlocksTidy
<1>5. ASSUME NEW t \in Task, WaitBlocks(t)
      PROVE  (\A u \in Task : Tidy(u))' /\ BarListOK'
  <2>1. /\ barrier' = [barrier EXCEPT !.wait = Append(w, t)] /\ Block(t, "barrier_wait")
        /\ signal' = signal /\ status[t] = "running"
    BY <1>5 DEF WaitBlocks, Free
  <2>2. Append(w, t) \in Seq(Task)
    BY <1>0
  <2>3. BarListOK' /\ barrier'.notify_wait = n /\ barrier'.wait = Append(w, t)
    BY <2>1, <2>2 DEF BarListOK
  <2>4. \A u : u \in BarSet(barrier'.wait) => u \in BarSet(w) \/ u = t
    <3> HIDE DEF w
    <3> QED  BY <1>0, <2>3, AppendElements DEF BarSet
  <2>5. Joins(t, "barrier_wait")
    BY <2>3, <2>4 DEF Joins, semVars, flagVars, queueVars
  <2> QED  BY <2>1, <2>3, <2>5, BlocksTidy
<1> QED  BY <1>2, <1>3, <1>4, <1>5 DEF BarCalls, Notify, NotifyResumes, Wait, WaitResumes

\* No task waits twice for the flag.
FlagOnce == \A i, j \in 1..Len(flag.wait) : flag.wait[i].id = flag.wait[j].id => i = j

\* What a listed task waits for is what it wants; and a task that was taken out of
\* the list gets what it wants, while nobody takes bits back.
FlagWanted ==
  /\ \A i \in 1..Len(flag.wait) : want[flag.wait[i].id] = flag.wait[i].c
  /\ "flag_clear" \notin use /\ flag.clear_mode = "MANUAL" =>
       \A t \in Task : op[t] = "flag_wait" =>
         t \in FlagIds(flag.wait) \/ Met(flag.bits, want[t])

FlagTidy == FlagOnce /\ FlagWanted

LEMMA FlushTidy ==
  ASSUME FlagOK, NEW bits \in SUBSET Bit, NEW n \in 0..Len(flag.wait), Flush(bits, n),
         flag.bits \subseteq bits, UNCHANGED <<semVars, barVars, queueVars, want, use>>,
         \A u \in Task : op'[u] = "flag_wait" => op[u] = "flag_wait",
         \A u \in Task : Tidy(u), FlagTidy
  PROVE  (\A u \in Task : Fewer(u) /\ SentOut(u)) /\ FlagTidy'
<1> DEFINE w == flag.wait
           e == flag'.wait
           kept == KeptPlaces(bits, n)
           met == MetPlaces(bits, n)
<1>1. /\ Send({w[i].id : i \in met}) /\ flag'.bits = bits /\ flag'.clear_mode = flag.clear_mode
      /\ \A i \in kept : Rank(kept, i) \in 1..Len(e) /\ e[Rank(kept, i)] = w[i]
      /\ \A k \in 1..Len(e) : \E i \in kept : Rank(kept, i) = k /\ e[k] = w[i]
  BY FlushEffect
<1>2. /\ \A i \in kept : i \in 1..Len(w) /\ i \notin met
      /\ \A i \in 1..Len(w) : i \in met \/ i \in kept
      /\ \A i \in met : Met(bits, w[i].c) /\ i \in 1..Len(w)
  BY FlagParts DEF KeptPlaces, MetPlaces
<1> HIDE DEF kept, met
<1>3. \A u : u \in FlagIds(e) => \E i \in kept : w[i].id = u
  BY <1>1 DEF FlagIds
<1>4. \A u : u \in FlagIds(e) => u \in FlagIds(w)
  BY <1>2, <1>3 DEF FlagIds
<1>5. \A u \in Task : Fewer(u)
  BY <1>4 DEF Fewer, semVars, barVars, queueVars
<1>6. \A i \in met : w[i].id \in FlagIds(w) /\ w[i].id \notin FlagIds(e)
  <2> SUFFICES ASSUME NEW i \in met PROVE w[i].id \in FlagIds(w) /\ w[i].id \notin FlagIds(e)
    OBVIOUS
  <2>1. w[i].id \in FlagIds(w)
    BY <1>2 DEF FlagIds
  <2>2. \A j \in kept : w[j].id # w[i].id
    BY <1>2 DEF FlagTidy, FlagOnce
  <2> QED  BY <1>3, <2>1, <2>2
<1>7. ASSUME NEW u \in Task PROVE SentOut(u)
  <2>1. signal'[u] => signal[u] \/ (u \in {w[i].id : i \in met} /\ status[u] # "gone")
    BY <1>1, SentOnly
  <2>2. u \in {w[i].id : i \in met} => InSome(u) /\ ~ InSome(u)'
    <3>1. u \in {w[i].id : i \in met} => u \in FlagIds(w) /\ u \notin FlagIds(e)
      BY <1>6
    <3> QED  BY <1>5, <3>1, LeavesOne DEF InSome
  <2> QED  BY <2>1, <2>2 DEF SentOut
<1>8. FlagOnce'
  <2> SUFFICES ASSUME NEW k \in 1..Len(e), NEW l \in 1..Len(e), e[k].id = e[l].id
               PROVE  k = l
    BY DEF FlagOnce
  <2>1. PICK i \in kept : Rank(kept, i) = k /\ e[k] = w[i]
    BY <1>1
  <2>2. PICK j \in kept : Rank(kept, j) = l /\ e[l] = w[j]
    BY <1>1
  <2>3. i = j
    BY <1>2, <2>1, <2>2 DEF FlagTidy, FlagOnce
  <2> QED  BY <2>1, <2>2, <2>3
<1>9. \A k \in 1..Len(e) : want'[e[k].id] = e[k].c
  BY <1>1, <1>2 DEF FlagTidy, FlagWanted
<1>10. ASSUME "flag_clear" \notin use, flag.clear_mode = "MANUAL",
              NEW t \in Task, op'[t] = "flag_wait", t \notin FlagIds(e)
       PROVE  Met(bits, want[t])
  <2>1. CASE t \in FlagIds(w)
    <3>1. PICK i \in 1..Len(w) : w[i].id = t
      BY <2>1 DEF FlagIds
    <3>2. i \in met
      BY <1>1, <1>2, <1>10, <3>1 DEF FlagIds
    <3>3. want[t] = w[i].c
      BY <3>1 DEF FlagTidy, FlagWanted
    <3> QED  BY <1>2, <3>2, <3>3
  <2>2. CASE t \notin FlagIds(w)
    <3>1. Met(flag.bits, want[t])
      BY <1>10, <2>2 DEF FlagTidy, FlagWanted
    <3> QED  BY <3>1, MetGrows
  <2> QED  BY <2>1, <2>2
<1>11. FlagWanted'
  BY <1>1, <1>9, <1>10 DEF FlagWanted
<1> QED  BY <1>5, <1>7, <1>8, <1>11 DEF FlagTidy

\* Steps that leave the list alone and at most take bits back.
LEMMA ListTidy ==
  ASSUME FlagTidy, flag'.wait = flag.wait, flag'.clear_mode = flag.clear_mode, use' = use,
         "flag_clear" \notin use /\ flag.clear_mode = "MANUAL" => flag'.bits = flag.bits,
         \A t \in Task : op'[t] = "flag_wait" => op[t] = "flag_wait",
         \A t \in Task : t \in FlagIds(flag.wait) \/ op'[t] = "flag_wait" => want'[t] = want[t],
         \A i \in 1..Len(flag.wait) : flag.wait[i].id \in Task
  PROVE  FlagTidy'
<1>1. FlagOnce'
  BY DEF FlagTidy, FlagOnce
<1>2. \A i \in 1..Len(flag.wait) : want'[flag.wait[i].id] = flag.wait[i].c
  BY DEF FlagTidy, FlagWanted, FlagIds
<1>3. ASSUME "flag_clear" \notin use, flag.clear_mode = "MANUAL",
             NEW t \in Task, op'[t] = "flag_wait", t \notin FlagIds(flag.wait)
      PROVE  Met(flag'.bits, want'[t])
  BY <1>3 DEF FlagTidy, FlagWanted
<1> QED  BY <1>1, <1>2, <1>3 DEF FlagTidy, FlagWanted

LEMMA FlagCallsTidy ==
  ASSUME SigTypeOK, FlagOK, FlagCalls, UNCHANGED <<semVars, barVars, queueVars, use>>,
         \A u \in Task : Tidy(u), FlagTidy
  PROVE  (\A u \in Task : Tidy(u))' /\ FlagTidy'
<1>0. \A i \in 1..Len(flag.wait) : flag.wait[i].id \in Task
  BY FlagParts
<1>1. ASSUME flag'.wait = flag.wait, signal' = signal
      PROVE  (\A u \in Task : Tidy(u))'
  <2>1. \A u \in Task : Fewer(u) /\ SentOut(u)
    BY <1>1 DEF Fewer, SentOut, semVars, barVars, queueVars
  <2> QED  BY <2>1, MovesTidy, FlagMoves
<1>2. ASSUME NEW t \in Task, NEW b \in Bit, FlagSet(t, {b})
      PROVE  (\A u \in Task : Tidy(u))' /\ FlagTidy'
  <2>1. /\ Flush(flag.bits \union {b}, Len(flag.wait)) /\ want' = want
        /\ Continue(t, IF flag.direction = "MPU_TO_HOST" THEN "set_event" ELSE "none")
    BY <1>2 DEF FlagSet
  <2>2. flag.bits \union {b} \in SUBSET Bit /\ Len(flag.wait) \in 0..Len(flag.wait)
    BY FlagParts
  <2>3. \A u \in Task : op'[u] = "flag_wait" => op[u] = "flag_wait"
    BY <2>1 DEF Continue, SigTypeOK
  <2>4. (\A u \in Task : Fewer(u) /\ SentOut(u)) /\ FlagTidy'
    BY <2>1, <2>2, <2>3, FlushTidy
  <2> QED  BY <2>4, MovesTidy, FlagMoves
<1>3. ASSUME NEW t \in Task, FlagSetEvent(t)
      PROVE  (\A u \in Task : Tidy(u))' /\ FlagTidy'
  <2>1. /\ flag' = flag /\ want' = want /\ signal' = signal
        /\ \A u \in Task : op'[u] = "flag_wait" => op[u] = "flag_wait"
    BY <1>3 DEF FlagSetEvent, flagVars, Continue, SigTypeOK
  <2> QED  BY <1>0, <1>1, <2>1, ListTidy
<1>4. ASSUME NEW t \in Task, NEW c \in Conditions, FlagWait(t, c)
      PROVE  (\A u \in Task : Tidy(u))' /\ FlagTidy'
  <2>1. /\ flag' = [flag EXCEPT !.bits = Consumed(c)]
        /\ want' = want /\ signal' = signal /\ op' = op
    BY <1>4 DEF FlagWait, sigVars
  <2>2. /\ flag'.wait = flag.wait /\ flag'.clear_mode = flag.clear_mode
        /\ flag'.bits = Consumed(c)
    BY <2>1, ConsumedShrinks DEF FlagOK, FlagRecord
  <2> QED  BY <1>0, <1>1, <2>1, <2>2, ListTidy DEF Consumed
<1>5. ASSUME NEW t \in Task, NEW c \in Conditions, FlagWaitBlocks(t, c)
      PROVE  (\A u \in Task : Tidy(u))' /\ FlagTidy'
  <2> DEFINE w == flag.wait
             x == [id |-> t, c |-> c]
             e == flag'.wait
  <2>1. /\ flag' = [flag EXCEPT !.wait = Append(w, x)] /\ Block(t, "flag_wait") /\ signal' = signal
        /\ status[t] = "running" /\ want' = [want EXCEPT ![t] = c]
    BY <1>5 DEF FlagWaitBlocks, Free
  <2>2. /\ w \in Seq(FlagEntry) /\ x \in FlagEntry /\ Len(w) \in Nat /\ x.id = t /\ x.c = c
        /\ t \notin FlagIds(w)
    BY <2>1, FlagParts, AwakeIsFree DEF FlagEntry, InSome
  <2>3. /\ Len(Append(w, x)) = Len(w) + 1
        /\ \A i \in 1..Len(w) : Append(w, x)[i] = w[i]
        /\ Append(w, x)[Len(w) + 1] = x
        /\ \A i \in 1..Len(w) + 1 : i \in 1..Len(w) \/ i = Len(w) + 1
        /\ \A i \in 1..Len(w) : i \in 1..Len(w) + 1
        /\ Len(w) + 1 \in 1..Len(w) + 1
    <3> HIDE DEF w, x
    <3> QED  BY <2>2
  <2>4. e = Append(w, x) /\ flag'.clear_mode = flag.clear_mode /\ flag'.bits = flag.bits
    <3> HIDE DEF w, x
    <3> QED  BY <2>1 DEF FlagOK, FlagRecord
  <2>5. /\ Len(e) = Len(w) + 1
        /\ \A i \in 1..Len(e) : \/ i \in 1..Len(w) /\ e[i] = w[i]
                                \/ i = Len(w) + 1 /\ e[i] = x
    <3> HIDE DEF w, x, e
    <3> QED  BY <2>3, <2>4
  <2>6. \A i \in 1..Len(w) : w[i].id # t /\ w[i].id \in FlagIds(w) /\ w[i].id \in Task
    BY <1>0, <2>2 DEF FlagIds
  <2>7. \A u : u \in FlagIds(e) => u \in FlagIds(w) \/ u = t
    <3> HIDE DEF w, x, e
    <3> QED  BY <2>2, <2>5 DEF FlagIds
  <2>8. \A u : (u \in FlagIds(w) => u \in FlagIds(e)) /\ t \in FlagIds(e)
    <3> HIDE DEF w, x, e
    <3> QED  BY <2>2, <2>3, <2>4 DEF FlagIds
  <2>9. Joins(t, "flag_wait")
    BY <2>7 DEF Joins, semVars, barVars, queueVars
  <2>10. (\A u \in Task : Tidy(u))'
    BY <2>1, <2>9, BlocksTidy
  <2>11. FlagOnce'
    <3> SUFFICES ASSUME NEW i \in 1..Len(e), NEW j \in 1..Len(e), e[i].id = e[j].id
                 PROVE  i = j
      BY DEF FlagOnce
    <3>1. \A k, l \in 1..Len(w) : w[k].id = w[l].id => k = l
      BY DEF FlagTidy, FlagOnce
    <3> HIDE DEF w, x, e
    <3> QED  BY <2>2, <2>5, <2>6, <3>1
  <2>12. \A u \in Task : want'[u] = IF u = t THEN c ELSE want[u]
    BY <2>1 DEF FlagOK
  <2>13. \A i \in 1..Len(e) : want'[e[i].id] = e[i].c
    <3>1. \A i \in 1..Len(w) : want[w[i].id] = w[i].c
      BY DEF FlagTidy, FlagWanted
    <3> HIDE DEF w, x, e
    <3> QED  BY <2>2, <2>5, <2>6, <2>12, <3>1
  <2>14. ASSUME "flag_clear" \notin use, flag.clear_mode = "MANUAL",
                NEW u \in Task, op'[u] = "flag_wait", u \notin FlagIds(e)
         PROVE  Met(flag'.bits, want'[u])
    <3>1. u # t /\ u \notin FlagIds(w)
      BY <2>8, <2>14
    <3>2. op[u] = "flag_wait"
      BY <2>1, <2>14, <3>1 DEF Block, SigTypeOK
    <3> QED  BY <2>4, <2>12, <2>14, <3>1, <3>2 DEF FlagTidy, FlagWanted
  <2> QED  BY <2>4, <2>10, <2>11, <2>13, <2>14 DEF FlagTidy, FlagWanted
<1>6. ASSUME NEW t \in Task, FlagWaitReturns(t)
      PROVE  (\A u \in Task : Tidy(u))' /\ FlagTidy'
  <2>1. /\ flag' = [flag EXCEPT !.bits = Consumed(want[t])]
        /\ want' = [want EXCEPT ![t] = NoCondition] /\ signal' = signal
        /\ Continue(t, "none") /\ status[t] = "running"
    BY <1>6 DEF FlagWaitReturns, Inside
  <2>2. /\ flag'.wait = flag.wait /\ flag'.clear_mode = flag.clear_mode
        /\ flag'.bits = Consumed(want[t])
    BY <2>1, ConsumedShrinks DEF FlagOK, FlagRecord
  <2>3. t \notin FlagIds(flag.wait)
    BY <2>1, AwakeIsFree DEF InSome
  <2>4. /\ \A u \in Task : op'[u] = "flag_wait" => op[u] = "flag_wait" /\ u # t
        /\ \A u \in Task : u # t => want'[u] = want[u]
    BY <2>1 DEF Continue, SigTypeOK, FlagOK
  <2> QED  BY <1>0, <1>1, <2>1, <2>2, <2>3, <2>4, ListTidy DEF Consumed
<1>7. ASSUME NEW h \in Host, NEW b \in Bit, HostFlagSet(h, {b})
      PROVE  (\A u \in Task : Tidy(u))' /\ FlagTidy'
  <2>1. PICK n \in 0..Len(flag.wait) : Flush(flag.bits \union {b}, n)
    BY <1>7, HostFlushes
  <2>2. flag.bits \union {b} \in SUBSET Bit
    BY FlagParts
  <2>3. want' = want /\ op' = op
    BY <1>7 DEF HostFlagSet
  <2>4. (\A u \in Task : Fewer(u) /\ SentOut(u)) /\ FlagTidy'
    BY <2>1, <2>2, <2>3, FlushTidy
  <2> QED  BY <2>4, MovesTidy, FlagMoves
<1>8. ASSUME NEW h \in Host, NEW c \in Conditions, HostFlagWait(h, c)
      PROVE  (\A u \in Task : Tidy(u))' /\ FlagTidy'
  <2>1. /\ flag' = flag \/ flag' = [flag EXCEPT !.bits = Consumed(c)]
        /\ \E x : want' = [want EXCEPT ![h] = x]
        /\ signal' = signal /\ op' = op
    BY <1>8 DEF HostFlagWait, sigVars
  <2>2. /\ flag'.wait = flag.wait /\ flag'.clear_mode = flag.clear_mode
        /\ flag'.bits = flag.bits \/ flag'.bits = Consumed(c)
    BY <2>1, ConsumedShrinks DEF FlagOK, FlagRecord
  <2>3. \A u \in Task : want'[u] = want[u]
    BY <2>1, FlagAssumption DEF FlagOK
  <2> QED  BY <1>0, <1>1, <2>1, <2>2, <2>3, ListTidy DEF Consumed
<1>9. ASSUME NEW h \in Host, HostFlagTests(h)
      PROVE  (\A u \in Task : Tidy(u))' /\ FlagTidy'
  <2>1. flag' = flag /\ want' = want /\ signal' = signal /\ op' = op
    BY <1>9 DEF HostFlagTests, flagVars, sigVars
  <2> QED  BY <1>0, <1>1, <2>1, ListTidy
<1> QED  BY FlagSteps, <1>2, <1>3, <1>4, <1>5, <1>6, <1>7, <1>8, <1>9

LEMMA FlagClearTidy ==
  ASSUME FlagOK, NEW b \in Bit, FlagClear({b}), "flag_clear" \in use,
         UNCHANGED <<semVars, barVars, queueVars, use>>,
         \A u \in Task : Tidy(u), FlagTidy
  PROVE  (\A u \in Task : Tidy(u))' /\ FlagTidy'
<1>1. /\ flag' = [flag EXCEPT !.bits = @ \ {b}] /\ want' = want /\ signal' = signal /\ op' = op
      /\ status' = status
  BY DEF FlagClear, sigVars
<1>2. flag'.wait = flag.wait /\ flag'.clear_mode = flag.clear_mode
  BY <1>1 DEF FlagOK, FlagRecord
<1>3. \A u \in Task : Fewer(u) /\ SentOut(u)
  BY <1>1, <1>2 DEF Fewer, SentOut, semVars, barVars, queueVars
<1>4. \A i \in 1..Len(flag.wait) : flag.wait[i].id \in Task
  BY FlagParts
<1> QED  BY <1>1, <1>2, <1>3, <1>4, TidyStays, ListTidy

\* A ring holds tasks, and each of them once.
OnceRing(r) ==
  /\ Enlisted(r) \subseteq Task
  /\ \A p, q \in 0..r.count - 1 : r.id[At(r, p)] = r.id[At(r, q)] => p = q

LEMMA OnceEnlist ==
  ASSUME NEW r \in WaitRing, NEW t \in Task, r.count # QUEUE_WAIT_MAX, OnceRing(r), t \notin Enlisted(r)
  PROVE  OnceRing(Enlist(r, t))
<1> DEFINE e == Enlist(r, t)
<1>1. /\ e.count = r.count + 1
      /\ \A p \in 0..r.count - 1 : e.id[At(e, p)] = r.id[At(r, p)]
      /\ e.id[At(e, r.count)] = t
      /\ Enlisted(e) = Enlisted(r) \union {t}
  BY RingEnlist
<1>2. r.count \in Nat
  BY AtPlaces
<1>3. \A p \in 0..r.count - 1 : r.id[At(r, p)] # t
  BY DEF Enlisted
<1> HIDE DEF e
<1>4. \A p \in 0..e.count - 1 : p \in 0..r.count - 1 \/ p = r.count
  BY <1>1, <1>2
<1>5. ASSUME NEW p \in 0..e.count - 1, NEW q \in 0..e.count - 1, e.id[At(e, p)] = e.id[At(e, q)]
      PROVE  p = q
  BY <1>1, <1>3, <1>4, <1>5 DEF OnceRing
<1> QED  BY <1>1, <1>5 DEF OnceRing, e

LEMMA OnceFirst ==
  ASSUME NEW r \in WaitRing, r.count # 0, OnceRing(r)
  PROVE  LET w == r.id[r.head]
         IN  /\ First(r).id = {w} /\ w \in Task /\ w \in Enlisted(r)
             /\ w \notin Enlisted(First(r).rest)
             /\ OnceRing(First(r).rest)
<1> DEFINE f == First(r).rest
           w == r.id[r.head]
<1>1. /\ First(r).id = {w} /\ w = r.id[At(r, 0)] /\ f.count = r.count - 1
      /\ \A p \in 0..r.count - 2 : f.id[At(f, p)] = r.id[At(r, p + 1)]
      /\ Enlisted(r) = {w} \union Enlisted(f)
  BY RingFirst
<1>2. r.count \in Nat /\ r.count > 0
  BY AtPlaces
<1> HIDE DEF f, w
<1>3. \A p \in 0..f.count - 1 : /\ p \in 0..r.count - 2 /\ p + 1 \in 0..r.count - 1 /\ p + 1 # 0
                                /\ 0 \in 0..r.count - 1
                                /\ f.id[At(f, p)] = r.id[At(r, p + 1)]
  BY <1>1, <1>2
<1>4. \A p \in 0..f.count - 1 : f.id[At(f, p)] # w
  BY <1>1, <1>3 DEF OnceRing
<1>5. w \notin Enlisted(f)
  BY <1>4 DEF Enlisted
<1>6. ASSUME NEW p \in 0..f.count - 1, NEW q \in 0..f.count - 1, f.id[At(f, p)] = f.id[At(f, q)]
      PROVE  p = q
  <2>1. p + 1 = q + 1
    BY <1>3, <1>6 DEF OnceRing
  <2> QED  BY <1>2, <1>3, <2>1
<1> QED  BY <1>1, <1>5, <1>6 DEF OnceRing, f, w

\* Both rings are in order.
RingsOnce == OnceRing(queue.push_wait) /\ OnceRing(queue.pop_wait)

\* A push or pop that completes signals the first of a ring, and nobody joins one.
LEMMA UpdateTidy ==
  ASSUME QueueTypeOK, (queue.count # depth /\ PushUpdate) \/ (queue.count # 0 /\ PopUpdate),
         UNCHANGED <<semVars, barVars, flagVars>>, \A u \in Task : Tidy(u), RingsOnce
  PROVE  (\A u \in Task : Fewer(u) /\ SentOut(u)) /\ RingsOnce'
<1> DEFINE o == queue.pop_wait
           i == queue.push_wait
<1>1. o \in WaitRing /\ i \in WaitRing
  BY QueueParts
<1>2. ASSUME queue'.push_wait = i, queue'.pop_wait = o, Send({})
      PROVE  (\A u \in Task : Fewer(u) /\ SentOut(u)) /\ RingsOnce'
  BY <1>2, SentOnly DEF Fewer, SentOut, semVars, barVars, flagVars, RingsOnce
<1>3. CASE queue.count # depth /\ PushUpdate
  <2>1. Send(First(o).id) /\ queue'.push_wait = i /\ queue'.pop_wait = First(o).rest
    BY <1>3, PushUpdateEffect
  <2>2. CASE o.count = 0
    BY <1>1, <1>2, <2>1, <2>2, RingEmpty
  <2>3. CASE o.count # 0
    <3>1. PICK w : /\ First(o).id = {w} /\ w \in Task /\ w \in Enlisted(o)
                   /\ w \notin Enlisted(First(o).rest) /\ OnceRing(First(o).rest)
      BY <1>1, <2>3, OnceFirst DEF RingsOnce
    <3>2. Enlisted(First(o).rest) \subseteq Enlisted(o)
      BY <1>1, <2>3, RingFirst
    <3>3. \A u \in Task : Fewer(u)
      BY <2>1, <3>2 DEF Fewer, semVars, barVars, flagVars
    <3>4. InSome(w) /\ ~ InSome(w)'
      BY <2>1, <3>1, <3>3, LeavesOne DEF InSome
    <3>5. \A u \in Task : SentOut(u)
      BY <2>1, <3>1, <3>4, SentOnly DEF SentOut
    <3> QED  BY <2>1, <3>1, <3>3, <3>5 DEF RingsOnce
  <2> QED  BY <2>2, <2>3
<1>4. CASE queue.count # 0 /\ PopUpdate
  <2>1. Send(First(i).id) /\ queue'.pop_wait = o /\ queue'.push_wait = First(i).rest
    BY <1>4, PopUpdateEffect
  <2>2. CASE i.count = 0
    BY <1>1, <1>2, <2>1, <2>2, RingEmpty
  <2>3. CASE i.count # 0
    <3>1. PICK w : /\ First(i).id = {w} /\ w \in Task /\ w \in Enlisted(i)
                   /\ w \notin Enlisted(First(i).rest) /\ OnceRing(First(i).rest)
      BY <1>1, <2>3, OnceFirst DEF RingsOnce
    <3>2. Enlisted(First(i).rest) \subseteq Enlisted(i)
      BY <1>1, <2>3, RingFirst
    <3>3. \A u \in Task : Fewer(u)
      BY <2>1, <3>2 DEF Fewer, semVars, barVars, flagVars
    <3>4. InSome(w) /\ ~ InSome(w)'
      BY <2>1, <3>1, <3>3, LeavesOne DEF InSome
    <3>5. \A u \in Task : SentOut(u)
      BY <2>1, <3>1, <3>4, SentOnly DEF SentOut
    <3> QED  BY <2>1, <3>1, <3>3, <3>5 DEF RingsOnce
  <2> QED  BY <2>2, <2>3
<1> QED  BY <1>3, <1>4

\* What a call of the queue does to tasks and rings: t joins a ring, ...
JoinsPush(t) ==
  /\ Block(t, "push") /\ status[t] = "running" /\ op[t] \in {"none", "push"}
  /\ queue.count = depth /\ queue.push_wait.count # QUEUE_WAIT_MAX
  /\ queue' = [queue EXCEPT !.push_wait = Enlist(@, t)]
  /\ signal' = signal

JoinsPop(t, o) ==
  /\ Block(t, o) /\ status[t] = "running" /\ op[t] \in {"none", o}
  /\ queue.count = 0 /\ queue.pop_wait.count # QUEUE_WAIT_MAX
  /\ queue' = [queue EXCEPT !.pop_wait = Enlist(@, t)]
  /\ signal' = signal

\* ... a task t completes its push or pop, or a host thread does, ...
Pushed == queue.count # depth /\ PushUpdate
Popped == queue.count # 0 /\ PopUpdate

Ends(t, end) == op[t] = end /\ \E o \in {"queue_event", "none"} : Continue(t, o)

\* ... or a task goes on with the queue as it is.
GoesOn(t) ==
  \/ Continue(t, "push_end") /\ op[t] \in {"none", "push"}
  \/ Continue(t, "none") /\ op[t] = "push" /\ queue.count = depth
  \/ Continue(t, "pop_end") /\ op[t] \in {"none", "pop"}
  \/ Continue(t, "none") /\ op[t] = "pop" /\ queue.count = 0
  \/ Continue(t, "peek_end") /\ op[t] \in {"none", "peek"}
  \/ Continue(t, "none") /\ op[t] \in {"peek", "peek_end", "queue_event"}

QueueDone ==
  \/ \E t \in Task : JoinsPush(t)
  \/ \E t \in Task, o \in {"pop", "peek"} : JoinsPop(t, o)
  \/ Pushed /\ \E t \in Task : Ends(t, "push_end")
  \/ Popped /\ \E t \in Task : Ends(t, "pop_end")
  \/ (Pushed \/ Popped) /\ UNCHANGED <<op, status>>
  \/ UNCHANGED <<queue, signal>> /\ \E t \in Task : GoesOn(t)
  \/ UNCHANGED <<queue, signal, op, status>>

LEMMA QueueKinds ==
  ASSUME FifoInv, QueueCalls \/ PeekCalls
  PROVE  QueueDone
<1>0. QueueTypeOK /\ depth \in Nat \ {0} /\ queue.count \in 0..depth
  BY FifoParts, QueueParts
<1>1. ASSUME NEW t \in Task,
             \/ \E v \in Item : PushBegin(t, v)
             \/ PushLimit(t) \/ QueueEvent(t) \/ PeekEnd(t)
      PROVE  QueueDone
  <2>1. GoesOn(t) /\ queue' = queue /\ signal' = signal
    BY <1>1 DEF PushBegin, PushLimit, QueueEvent, PeekEnd, Locks, Free, Inside, queueVars, GoesOn
  <2> QED  BY <2>1 DEF QueueDone
<1>2. ASSUME NEW t \in Task, NEW o \in {"pop", "peek"}, PopBegin(t, o) \/ PopLimit(t, o)
      PROVE  QueueDone
  <2>1. GoesOn(t) /\ queue' = queue /\ signal' = signal
    BY <1>2 DEF PopBegin, PopLimit, Locks, Free, Inside, queueVars, GoesOn
  <2> QED  BY <2>1 DEF QueueDone
<1>3. ASSUME NEW t \in Task, NEW v \in Item, PushBlocks(t, v) PROVE QueueDone
  <2>1. JoinsPush(t)
    BY <1>3 DEF PushBlocks, Locks, Free, Inside, JoinsPush
  <2> QED  BY <2>1 DEF QueueDone
<1>4. ASSUME NEW t \in Task, NEW o \in {"pop", "peek"}, PopBlocks(t, o) PROVE QueueDone
  <2>1. JoinsPop(t, o)
    BY <1>4 DEF PopBlocks, Locks, Free, Inside, JoinsPop
  <2> QED  BY <2>1 DEF QueueDone
<1>5. ASSUME NEW t \in Task, PushEnd(t) PROVE QueueDone
  <2>1. PushUpdate /\ Ends(t, "push_end")
    BY <1>5 DEF PushEnd, Inside, Ends
  <2>2. queue.count # depth
    BY <1>0, <2>1 DEF FifoInv, Ends
  <2> QED  BY <2>1, <2>2 DEF QueueDone, Pushed
<1>6. ASSUME NEW t \in Task, PopEnd(t) PROVE QueueDone
  <2>1. PopUpdate /\ Ends(t, "pop_end")
    BY <1>6 DEF PopEnd, Inside, Ends
  <2>2. queue.count # 0
    BY <1>0, <2>1 DEF FifoInv, Ends
  <2> QED  BY <2>1, <2>2 DEF QueueDone, Popped
<1>7. ASSUME NEW h \in Host,
             \/ (\E v \in Item : HostPush(h, v)) \/ HostPushTests(h)
             \/ \E o \in {"pop", "peek"} : HostPop(h, o) \/ HostPopTests(h, o)
      PROVE  QueueDone
  <2>1. /\ UNCHANGED <<op, status>>
        /\ UNCHANGED <<queue, signal>> \/ Pushed \/ Popped
    <3>1. CASE \E v \in Item : HostPush(h, v)
      BY <3>1 DEF HostPush, Pushed
    <3>2. CASE \E o \in {"pop", "peek"} : HostPop(h, o)
      BY <3>2 DEF HostPop, Popped
    <3>3. CASE HostPushTests(h) \/ \E o \in {"pop", "peek"} : HostPopTests(h, o)
      BY <3>3 DEF HostPushTests, HostPopTests, sigVars, queueVars
    <3> QED  BY <1>7, <3>1, <3>2, <3>3
  <2> QED  BY <2>1 DEF QueueDone
<1>8. CASE QueueCalls
  BY <1>1, <1>2, <1>3, <1>4, <1>5, <1>6, <1>7, <1>8 DEF QueueCalls
<1>9. CASE PeekCalls
  BY <1>1, <1>2, <1>4, <1>7, <1>9 DEF PeekCalls
<1> QED  BY <1>8, <1>9

LEMMA QueueCallsTidy ==
  ASSUME FifoInv, QueueCalls \/ PeekCalls, UNCHANGED <<semVars, barVars, flagVars>>,
         \A u \in Task : Tidy(u), RingsOnce
  PROVE  (\A u \in Task : Tidy(u))' /\ RingsOnce'
<1>0. /\ SigTypeOK /\ QueueTypeOK /\ Moves(QueueOps)
      /\ queue.push_wait \in WaitRing /\ queue.pop_wait \in WaitRing
  BY FifoParts, QueueParts, QueueMoves
<1>1. CASE \E t \in Task : JoinsPush(t)
  <2>1. PICK t \in Task : JoinsPush(t)
    BY <1>1
  <2>2. /\ Block(t, "push") /\ status[t] = "running" /\ signal' = signal
        /\ queue.push_wait.count # QUEUE_WAIT_MAX
        /\ queue' = [queue EXCEPT !.push_wait = Enlist(@, t)]
    BY <2>1 DEF JoinsPush
  <2>3. /\ queue'.push_wait = Enlist(queue.push_wait, t) /\ queue'.pop_wait = queue.pop_wait
        /\ Enlisted(queue'.push_wait) = Enlisted(queue.push_wait) \union {t}
    BY <1>0, <2>2, EnlistEffect, RingEnlist
  <2>4. t \notin Enlisted(queue.push_wait)
    BY <2>2, AwakeIsFree DEF InSome
  <2>5. RingsOnce'
    BY <1>0, <2>2, <2>3, <2>4, OnceEnlist DEF RingsOnce
  <2>6. Joins(t, "push")
    BY <2>3 DEF Joins, semVars, barVars, flagVars
  <2> QED  BY <1>0, <2>2, <2>5, <2>6, BlocksTidy
<1>2. CASE \E t \in Task, o \in {"pop", "peek"} : JoinsPop(t, o)
  <2>1. PICK t \in Task, o \in {"pop", "peek"} : JoinsPop(t, o)
    BY <1>2
  <2>2. /\ Block(t, o) /\ status[t] = "running" /\ signal' = signal
        /\ queue.pop_wait.count # QUEUE_WAIT_MAX
        /\ queue' = [queue EXCEPT !.pop_wait = Enlist(@, t)]
    BY <2>1 DEF JoinsPop
  <2>3. /\ queue'.pop_wait = Enlist(queue.pop_wait, t) /\ queue'.push_wait = queue.push_wait
        /\ Enlisted(queue'.pop_wait) = Enlisted(queue.pop_wait) \union {t}
    BY <1>0, <2>2, EnlistEffect, RingEnlist
  <2>4. t \notin Enlisted(queue.pop_wait)
    BY <2>2, AwakeIsFree DEF InSome
  <2>5. RingsOnce'
    BY <1>0, <2>2, <2>3, <2>4, OnceEnlist DEF RingsOnce
  <2>6. Joins(t, o)
    BY <2>3 DEF Joins, semVars, barVars, flagVars
  <2> QED  BY <1>0, <2>2, <2>5, <2>6, BlocksTidy
<1>3. CASE Pushed \/ Popped
  <2>1. (\A u \in Task : Fewer(u) /\ SentOut(u)) /\ RingsOnce'
    BY <1>0, <1>3, UpdateTidy DEF Pushed, Popped
  <2> QED  BY <1>0, <2>1, MovesTidy
<1>4. CASE UNCHANGED <<queue, signal>>
  <2>1. \A u \in Task : Fewer(u) /\ SentOut(u)
    BY <1>4 DEF Fewer, SentOut, semVars, barVars, flagVars
  <2> QED  BY <1>0, <1>4, <2>1, MovesTidy DEF RingsOnce
<1> QED  BY QueueKinds, <1>1, <1>2, <1>3, <1>4 DEF QueueDone

-----------------------------------------------------------------------------
(* The tasks on their way to what a queue has for them.                    *)

\* OnTheWay for any calls the tasks are in.
Way(ops, o, end, ring) == {t \in Task : ops[t] = end \/ (ops[t] = o /\ t \notin Enlisted(ring))}

\* While tasks wait in the ring, at least n are on their way.
Served(ops, o, end, ring, n) == ring.count > 0 => n <= Cardinality(Way(ops, o, end, ring))

LEMMA ServedIs ==
  /\ PopNotMissed <=> Served(op, "pop", "pop_end", queue.pop_wait, queue.count)
  /\ PushNotMissed <=> Served(op, "push", "push_end", queue.push_wait, depth - queue.count)
  /\ PopNotMissed' <=> Served(op', "pop", "pop_end", queue'.pop_wait, queue'.count)
  /\ PushNotMissed' <=> Served(op', "push", "push_end", queue'.push_wait, depth - queue'.count)
BY DEF PopNotMissed, PushNotMissed, Served, Way, OnTheWay

LEMMA WayFinite ==
  ASSUME NEW ops, NEW o, NEW end, NEW ring
  PROVE  /\ IsFiniteSet(Way(ops, o, end, ring)) /\ Cardinality(Way(ops, o, end, ring)) \in Nat
<1>1. Way(ops, o, end, ring) \subseteq Task /\ IsFiniteSet(Task)
  BY SemAssumption DEF Way
<1> QED  BY <1>1, FS_Subset, FS_CardinalityType

\* Nobody leaves the way, and no more are wanted.
LEMMA ServedStays ==
  ASSUME NEW f, NEW g, NEW o, NEW end, NEW r, NEW s, NEW n \in Int, NEW m \in Int,
         Served(f, o, end, r, n), m <= n, s.count > 0 => r.count > 0,
         Way(f, o, end, r) \subseteq Way(g, o, end, s)
  PROVE  Served(g, o, end, s, m)
<1> DEFINE A == Way(f, o, end, r)
           B == Way(g, o, end, s)
<1>1. /\ IsFiniteSet(B) /\ Cardinality(A) \in Nat /\ Cardinality(B) \in Nat
  BY WayFinite
<1>2. Cardinality(A) <= Cardinality(B)
  BY <1>1, FS_Subset
<1>3. s.count > 0 => n <= Cardinality(A)
  BY DEF Served
<1> HIDE DEF A, B
<1>4. s.count > 0 => m <= Cardinality(B)
  BY <1>1, <1>2, <1>3
<1> QED  BY <1>4 DEF Served, B

\* One more is wanted, and w gets on its way.
LEMMA ServedOneMore ==
  ASSUME NEW f, NEW g, NEW o, NEW end, NEW r, NEW s, NEW n \in Int,
         Served(f, o, end, r, n), s.count > 0 => r.count > 0,
         NEW w, w \notin Way(f, o, end, r), w \in Way(g, o, end, s),
         Way(f, o, end, r) \subseteq Way(g, o, end, s)
  PROVE  Served(g, o, end, s, n + 1)
<1> DEFINE A == Way(f, o, end, r)
           B == Way(g, o, end, s)
<1>1. /\ IsFiniteSet(A) /\ IsFiniteSet(B) /\ Cardinality(A) \in Nat /\ Cardinality(B) \in Nat
  BY WayFinite
<1>2. Cardinality(A \union {w}) = Cardinality(A) + 1
  BY <1>1, FS_AddElement
<1>3. Cardinality(A \union {w}) <= Cardinality(B)
  <2>1. A \union {w} \subseteq B
    OBVIOUS
  <2> HIDE DEF A, B
  <2> QED  BY <1>1, <2>1, FS_Subset
<1>4. s.count > 0 => n <= Cardinality(A)
  BY DEF Served
<1> HIDE DEF A, B
<1>5. s.count > 0 => n + 1 <= Cardinality(B)
  BY <1>1, <1>2, <1>3, <1>4
<1> QED  BY <1>5 DEF Served, B

\* One less is wanted, and t leaves the way.
LEMMA ServedOneLess ==
  ASSUME NEW f, NEW g, NEW o, NEW end, NEW r, NEW s, NEW n \in Int,
         Served(f, o, end, r, n), s.count > 0 => r.count > 0,
         NEW t, Way(f, o, end, r) \subseteq Way(g, o, end, s) \union {t}
  PROVE  Served(g, o, end, s, n - 1)
<1> DEFINE A == Way(f, o, end, r)
           B == Way(g, o, end, s)
<1>1. /\ IsFiniteSet(A) /\ IsFiniteSet(B) /\ Cardinality(A) \in Nat /\ Cardinality(B) \in Nat
  BY WayFinite
<1>2. Cardinality(A) <= Cardinality(B \union {t}) /\ Cardinality(B \union {t}) <= Cardinality(B) + 1
  <2>1. IsFiniteSet(B \union {t}) /\ Cardinality(B \union {t}) \in {Cardinality(B), Cardinality(B) + 1}
    <3> HIDE DEF B
    <3> QED  BY <1>1, FS_AddElement
  <2>2. A \subseteq B \union {t}
    OBVIOUS
  <2> HIDE DEF A, B
  <2>3. Cardinality(A) <= Cardinality(B \union {t})
    BY <2>1, <2>2, FS_Subset
  <2> QED  BY <1>1, <2>1, <2>3
<1>3. s.count > 0 => n <= Cardinality(A)
  BY DEF Served
<1> HIDE DEF A, B
<1>4. Cardinality(B \union {t}) \in Nat
  <2>1. IsFiniteSet(B \union {t})
    BY <1>1, FS_AddElement
  <2> QED  BY <2>1, FS_CardinalityType
<1>5. s.count > 0 => n - 1 <= Cardinality(B)
  BY <1>1, <1>2, <1>3, <1>4
<1> QED  BY <1>5 DEF Served, B

\* Nothing is wanted.
LEMMA ServedNone ==
  ASSUME NEW g, NEW o, NEW end, NEW s, NEW n, n = 0
  PROVE  Served(g, o, end, s, n)
<1>1. Cardinality(Way(g, o, end, s)) \in Nat
  BY WayFinite
<1> QED  BY <1>1 DEF Served

\* Tasks in call o, or at its end, stay there or come to its end.
StayOnWay(o, end) ==
  \A u \in Task : op[u] \in {o, end} => op'[u] = op[u] \/ op'[u] = end

\* One side of the queue in a step: r is its ring and n what it offers, s and m
\* the same after the step.
LEMMA SideServed ==
  ASSUME NEW o, NEW end, NEW r \in WaitRing, NEW s, NEW n \in Int, NEW m \in Int,
         OnceRing(r), \A u \in Enlisted(r) : op[u] = o, o # end,
         Served(op, o, end, r, n),
         \/ m = 0
         \/ s = r /\ m <= n /\ StayOnWay(o, end)
         \/ s = r /\ m = n - 1 /\ \E t \in Task : \A u \in Task : u # t => op'[u] = op[u]
         \/ s = First(r).rest /\ m = n + 1 /\ StayOnWay(o, end)
              /\ \A u \in Enlisted(r) : op'[u] = op[u]
  PROVE  Served(op', o, end, s, m)
<1>1. CASE m = 0
  BY <1>1, ServedNone
<1>2. CASE s = r /\ m <= n /\ StayOnWay(o, end)
  <2>1. Way(op, o, end, r) \subseteq Way(op', o, end, s)
    BY <1>2 DEF Way, StayOnWay
  <2> QED  BY <1>2, <2>1, ServedStays
<1>3. CASE s = r /\ m = n - 1 /\ \E t \in Task : \A u \in Task : u # t => op'[u] = op[u]
  <2>1. PICK t \in Task : \A u \in Task : u # t => op'[u] = op[u]
    BY <1>3
  <2>2. Way(op, o, end, r) \subseteq Way(op', o, end, s) \union {t}
    BY <1>3, <2>1 DEF Way
  <2>3. Served(op', o, end, s, n - 1)
    BY <1>3, <2>2, ServedOneLess
  <2> QED  BY <1>3, <2>3
<1>4. CASE /\ s = First(r).rest /\ m = n + 1 /\ StayOnWay(o, end)
           /\ \A u \in Enlisted(r) : op'[u] = op[u]
  <2>1. CASE r.count = 0
    BY <1>4, <2>1, RingEmpty DEF Served
  <2>2. CASE r.count # 0
    <3>1. PICK w \in Task : w \in Enlisted(r) /\ w \notin Enlisted(s)
      BY <1>4, <2>2, OnceFirst
    <3>2. Enlisted(s) \subseteq Enlisted(r)
      BY <1>4, <2>2, RingFirst
    <3>3. Way(op, o, end, r) \subseteq Way(op', o, end, s)
      BY <1>4, <3>2 DEF Way, StayOnWay
    <3>4. w \notin Way(op, o, end, r) /\ w \in Way(op', o, end, s)
      BY <1>4, <3>1 DEF Way
    <3>5. r.count > 0
      BY <2>2, RingCount
    <3>6. Served(op', o, end, s, n + 1)
      BY <3>3, <3>4, <3>5, ServedOneMore
    <3> QED  BY <1>4, <3>6
  <2> QED  BY <2>1, <2>2
<1> QED  BY <1>1, <1>2, <1>3, <1>4

LEMMA MovesOne ==
  ASSUME SigTypeOK, NEW t \in Task, NEW x, Block(t, x) \/ Continue(t, x)
  PROVE  op'[t] = x /\ \A u \in Task : u # t => op'[u] = op[u]
BY OpTo DEF Block, Continue

\* The side of the tasks that push: what it offers is room.
LEMMA PushSide ==
  ASSUME FifoInv, QueueDone, \A u \in Task : Tidy(u), RingsOnce, PushNotMissed
  PROVE  PushNotMissed'
<1> DEFINE r == queue.push_wait
           n == depth - queue.count
           s == queue'.push_wait
           m == depth - queue'.count
<1>0. /\ SigTypeOK /\ QueueTypeOK /\ r \in WaitRing /\ queue.pop_wait \in WaitRing
      /\ depth \in Nat /\ queue.count \in 0..depth
  BY FifoParts, QueueParts
<1>1. n \in Int /\ (queue.count = depth => n = 0)
  BY <1>0
<1>2. /\ OnceRing(r) /\ Enlisted(r) \subseteq Task
      /\ \A u \in Enlisted(r) : op[u] = "push"
  BY DEF RingsOnce, OnceRing, Tidy
<1>3. Served(op, "push", "push_end", r, n)
  BY ServedIs
<1>4. ASSUME m \in Int,
             \/ m = 0
             \/ s = r /\ m <= n /\ StayOnWay("push", "push_end")
             \/ s = r /\ m = n - 1 /\ \E t \in Task : \A u \in Task : u # t => op'[u] = op[u]
             \/ s = First(r).rest /\ m = n + 1 /\ StayOnWay("push", "push_end")
                  /\ \A u \in Enlisted(r) : op'[u] = op[u]
      PROVE  PushNotMissed'
  <2>1. Served(op', "push", "push_end", s, m)
    <3> HIDE DEF r, n, s, m
    <3> QED  BY <1>0, <1>1, <1>2, <1>3, <1>4, SideServed
  <2> QED  BY <2>1, ServedIs
<1>5. ASSUME queue' = queue, StayOnWay("push", "push_end") PROVE PushNotMissed'
  <2>1. s = r /\ m = n /\ m <= n
    BY <1>1, <1>5
  <2> QED  BY <1>1, <1>4, <1>5, <2>1
<1>6. ASSUME queue'.count = queue.count, queue.count = depth PROVE PushNotMissed'
  BY <1>1, <1>4, <1>6
<1>7. CASE \E t \in Task : JoinsPush(t)
  <2>1. queue'.count = queue.count /\ queue.count = depth
    BY <1>0, <1>7, EnlistEffect DEF JoinsPush
  <2> QED  BY <1>6, <2>1
<1>8. CASE \E t \in Task, o \in {"pop", "peek"} : JoinsPop(t, o)
  <2>1. PICK t \in Task, o \in {"pop", "peek"} : JoinsPop(t, o)
    BY <1>8
  <2>2. s = r /\ queue'.count = queue.count
    BY <1>0, <2>1, EnlistEffect DEF JoinsPop
  <2>3. StayOnWay("push", "push_end")
    BY <1>0, <2>1, MovesOne DEF JoinsPop, StayOnWay
  <2>4. m = n /\ m <= n
    BY <1>1, <2>2
  <2> QED  BY <1>1, <1>4, <2>2, <2>3, <2>4
<1>9. ASSUME Pushed PROVE s = r /\ m = n - 1 /\ m <= n /\ m \in Int
  <2>1. s = r /\ queue'.count = queue.count + 1
    BY <1>0, <1>9, PushUpdateEffect DEF Pushed
  <2> QED  BY <1>0, <2>1
<1>10. ASSUME Popped PROVE s = First(r).rest /\ m = n + 1 /\ m \in Int
  <2>1. s = First(r).rest /\ queue'.count = queue.count - 1
    BY <1>0, <1>10, PopUpdateEffect DEF Popped
  <2> QED  BY <1>0, <2>1
<1>11. CASE Pushed /\ \E t \in Task : Ends(t, "push_end")
  <2>1. \E t \in Task : \A u \in Task : u # t => op'[u] = op[u]
    BY <1>0, <1>11, MovesOne DEF Ends
  <2> QED  BY <1>4, <1>9, <1>11, <2>1
<1>12. CASE Popped /\ \E t \in Task : Ends(t, "pop_end")
  <2>1. StayOnWay("push", "push_end") /\ \A u \in Enlisted(r) : op'[u] = op[u]
    BY <1>0, <1>2, <1>12, MovesOne DEF Ends, StayOnWay
  <2> QED  BY <1>4, <1>10, <1>12, <2>1
<1>13. CASE (Pushed \/ Popped) /\ UNCHANGED <<op, status>>
  <2>1. StayOnWay("push", "push_end") /\ \A u \in Enlisted(r) : op'[u] = op[u]
    BY <1>13 DEF StayOnWay
  <2>2. CASE Pushed
    BY <1>4, <1>9, <2>1, <2>2
  <2>3. CASE Popped
    BY <1>4, <1>10, <2>1, <2>3
  <2> QED  BY <1>13, <2>2, <2>3
<1>14. CASE UNCHANGED <<queue, signal>> /\ \E t \in Task : GoesOn(t)
  <2>1. queue.count = depth \/ StayOnWay("push", "push_end")
    BY <1>0, <1>14, MovesOne DEF GoesOn, StayOnWay
  <2> QED  BY <1>5, <1>6, <1>14, <2>1
<1>15. CASE UNCHANGED <<queue, signal, op, status>>
  BY <1>5, <1>15 DEF StayOnWay
<1> QED  BY <1>7, <1>8, <1>11, <1>12, <1>13, <1>14, <1>15 DEF QueueDone

\* The side of the tasks that pop: what it offers is items.
LEMMA PopSide ==
  ASSUME FifoInv, QueueDone, \A u \in Task : Tidy(u), RingsOnce, PopNotMissed,
         \A u \in Task : op[u] # "peek"
  PROVE  PopNotMissed'
<1> DEFINE r == queue.pop_wait
           n == queue.count
           s == queue'.pop_wait
           m == queue'.count
<1>0. /\ SigTypeOK /\ QueueTypeOK /\ r \in WaitRing /\ queue.push_wait \in WaitRing
      /\ depth \in Nat /\ n \in 0..depth
  BY FifoParts, QueueParts
<1>1. n \in Int
  BY <1>0
<1>2. /\ OnceRing(r) /\ Enlisted(r) \subseteq Task
      /\ \A u \in Enlisted(r) : op[u] = "pop"
  BY DEF RingsOnce, OnceRing, Tidy
<1>3. Served(op, "pop", "pop_end", r, n)
  BY ServedIs
<1>4. ASSUME m \in Int,
             \/ m = 0
             \/ s = r /\ m <= n /\ StayOnWay("pop", "pop_end")
             \/ s = r /\ m = n - 1 /\ \E t \in Task : \A u \in Task : u # t => op'[u] = op[u]
             \/ s = First(r).rest /\ m = n + 1 /\ StayOnWay("pop", "pop_end")
                  /\ \A u \in Enlisted(r) : op'[u] = op[u]
      PROVE  PopNotMissed'
  <2>1. Served(op', "pop", "pop_end", s, m)
    <3> HIDE DEF r, n, s, m
    <3> QED  BY <1>0, <1>1, <1>2, <1>3, <1>4, SideServed
  <2> QED  BY <2>1, ServedIs
<1>5. ASSUME queue' = queue, StayOnWay("pop", "pop_end") PROVE PopNotMissed'
  <2>1. s = r /\ m = n /\ m <= n
    BY <1>1, <1>5
  <2> QED  BY <1>1, <1>4, <1>5, <2>1
<1>6. ASSUME queue'.count = queue.count, queue.count = 0 PROVE PopNotMissed'
  BY <1>1, <1>4, <1>6
<1>7. CASE \E t \in Task, o \in {"pop", "peek"} : JoinsPop(t, o)
  <2>1. queue'.count = queue.count /\ queue.count = 0
    BY <1>0, <1>7, EnlistEffect DEF JoinsPop
  <2> QED  BY <1>6, <2>1
<1>8. CASE \E t \in Task : JoinsPush(t)
  <2>1. PICK t \in Task : JoinsPush(t)
    BY <1>8
  <2>2. s = r /\ queue'.count = queue.count
    BY <1>0, <2>1, EnlistEffect DEF JoinsPush
  <2>3. StayOnWay("pop", "pop_end")
    BY <1>0, <2>1, MovesOne DEF JoinsPush, StayOnWay
  <2>4. m = n /\ m <= n
    BY <1>1, <2>2
  <2> QED  BY <1>1, <1>4, <2>2, <2>3, <2>4
<1>9. ASSUME Popped PROVE s = r /\ m = n - 1 /\ m <= n /\ m \in Int
  <2>1. s = r /\ queue'.count = queue.count - 1
    BY <1>0, <1>9, PopUpdateEffect DEF Popped
  <2> QED  BY <1>0, <2>1
<1>10. ASSUME Pushed PROVE s = First(r).rest /\ m = n + 1 /\ m \in Int
  <2>1. s = First(r).rest /\ queue'.count = queue.count + 1
    BY <1>0, <1>10, PushUpdateEffect DEF Pushed
  <2> QED  BY <1>0, <2>1
<1>11. CASE Popped /\ \E t \in Task : Ends(t, "pop_end")
  <2>1. \E t \in Task : \A u \in Task : u # t => op'[u] = op[u]
    BY <1>0, <1>11, MovesOne DEF Ends
  <2> QED  BY <1>4, <1>9, <1>11, <2>1
<1>12. CASE Pushed /\ \E t \in Task : Ends(t, "push_end")
  <2>1. StayOnWay("pop", "pop_end") /\ \A u \in Enlisted(r) : op'[u] = op[u]
    BY <1>0, <1>2, <1>12, MovesOne DEF Ends, StayOnWay
  <2> QED  BY <1>4, <1>10, <1>12, <2>1
<1>13. CASE (Pushed \/ Popped) /\ UNCHANGED <<op, status>>
  <2>1. StayOnWay("pop", "pop_end") /\ \A u \in Enlisted(r) : op'[u] = op[u]
    BY <1>13 DEF StayOnWay
  <2>2. CASE Popped
    BY <1>4, <1>9, <2>1, <2>2
  <2>3. CASE Pushed
    BY <1>4, <1>10, <2>1, <2>3
  <2> QED  BY <1>13, <2>2, <2>3
<1>14. CASE UNCHANGED <<queue, signal>> /\ \E t \in Task : GoesOn(t)
  <2>1. queue.count = 0 \/ StayOnWay("pop", "pop_end")
    BY <1>0, <1>14, MovesOne DEF GoesOn, StayOnWay
  <2> QED  BY <1>5, <1>6, <1>14, <2>1
<1>15. CASE UNCHANGED <<queue, signal, op, status>>
  BY <1>5, <1>15 DEF StayOnWay
<1> QED  BY <1>7, <1>8, <1>11, <1>12, <1>13, <1>14, <1>15 DEF QueueDone

-----------------------------------------------------------------------------
(* Programs whose tasks are signalled by the objects only.                 *)

Undisturbed == use \intersect {"signal", "clear", "host_clear"} = {}

\* Every wait list holds the tasks of its own call, asleep, once each and not
\* signalled; so a signal is for the wait that its task is in, and who was taken
\* out of a list has got what it waits for, or is on its way to it.
Orderly ==
  /\ \A u \in Task : Tidy(u)
  /\ BarListOK /\ Once(sem.wait) /\ FlagTidy /\ RingsOnce
  /\ PushNotMissed
  /\ "peek" \notin use => PopNotMissed

\* Invariant: while nobody disturbs it, waiting is orderly.
OrdInv ==
  /\ FlagInv /\ SemListOK
  /\ "peek" \notin use => \A u \in Task : op[u] # "peek"
  /\ Undisturbed => Orderly

LEMMA OrdInitial == SyncInit => OrdInv
<1> SUFFICES ASSUME SyncInit PROVE OrdInv
  OBVIOUS
<1>1. FlagInv /\ FifoInv
  BY FlagInitial DEF FlagInv
<1>2. /\ \A u \in Task : status[u] = "running" /\ ~signal[u] /\ op[u] = "none"
      /\ sem.wait = << >> /\ barrier.notify_wait = << >> /\ barrier.wait = << >>
      /\ flag.wait = << >> /\ queue.push_wait = EmptyRing /\ queue.pop_wait = EmptyRing
  BY DEF SyncInit, SigInit, SemInit, BarInit, FlagInit, QueueInit
<1>3. SemListOK
  BY SemAssumption DEF SyncInit, SemInit, SemListOK
<1>4. BarListOK
  BY DEF SyncInit, BarInit, BarListOK
<1>5. /\ queue.push_wait \in WaitRing /\ queue.pop_wait \in WaitRing
      /\ queue.push_wait.count = 0 /\ queue.pop_wait.count = 0
  BY <1>1, <1>2, FifoParts, QueueParts DEF EmptyRing
<1>6. Enlisted(queue.push_wait) = {} /\ Enlisted(queue.pop_wait) = {}
  BY <1>5, RingEmpty
<1>7. Len(<< >>) = 0 /\ 1..0 = {} /\ 0..0 - 1 = {}
  OBVIOUS
<1>8. \A u \in Task : ~ InSome(u)
  BY <1>2, <1>6, <1>7 DEF InSome, SemSet, BarSet, FlagIds
<1>9. \A u \in Task : Tidy(u)
  BY <1>2, <1>8 DEF Tidy, InSome
<1>10. Once(sem.wait) /\ FlagTidy
  BY <1>2, <1>7 DEF Once, FlagTidy, FlagOnce, FlagWanted
<1>11. RingsOnce
  BY <1>5, <1>6, <1>7 DEF RingsOnce, OnceRing
<1>12. PushNotMissed /\ PopNotMissed
  BY <1>5 DEF PushNotMissed, PopNotMissed
<1>13. Orderly
  BY <1>4, <1>9, <1>10, <1>11, <1>12 DEF Orderly
<1> QED  BY <1>1, <1>2, <1>3, <1>13 DEF OrdInv

\* Only peek makes a task wait in peek.
LEMMA NobodyPeeks ==
  ASSUME SigTypeOK, QueueCalls, \A u \in Task : op[u] # "peek"
  PROVE  \A u \in Task : op'[u] # "peek"
<1>1. ASSUME NEW t \in Task, NEW x, x # "peek", Block(t, x) \/ Continue(t, x)
      PROVE  \A u \in Task : op'[u] # "peek"
  BY <1>1, MovesOne
<1>2. ASSUME NEW t \in Task,
             \/ \E v \in Item : PushBegin(t, v) \/ PushBlocks(t, v)
             \/ PushLimit(t) \/ PushEnd(t) \/ QueueEvent(t)
             \/ PopBegin(t, "pop") \/ PopBlocks(t, "pop") \/ PopLimit(t, "pop") \/ PopEnd(t)
      PROVE  \A u \in Task : op'[u] # "peek"
  <2>1. \E x \in {"none", "push", "push_end", "queue_event", "pop", "pop_end"} :
          Block(t, x) \/ Continue(t, x)
    BY <1>2 DEF PushBegin, PushBlocks, PushLimit, PushEnd, QueueEvent, PopBegin, PopBlocks, PopLimit,
                PopEnd
  <2> QED  BY <1>1, <2>1
<1>3. ASSUME NEW h \in Host,
             \/ \E v \in Item : HostPush(h, v)
             \/ HostPushTests(h) \/ HostPop(h, "pop") \/ HostPopTests(h, "pop")
      PROVE  op' = op
  BY <1>3 DEF HostPush, HostPushTests, HostPop, HostPopTests, sigVars
<1> QED  BY <1>2, <1>3 DEF QueueCalls

\* Steps of the other objects leave both sides of the queue as they are.
LEMMA OthersServe ==
  ASSUME FifoInv, queue' = queue, \A u \in Task : Tidy(u), RingsOnce,
         \A u \in Task : op[u] \in {"push", "push_end", "pop", "pop_end"} => op'[u] = op[u]
  PROVE  /\ RingsOnce'
         /\ PushNotMissed => PushNotMissed'
         /\ PopNotMissed => PopNotMissed'
<1>1. /\ Way(op, "push", "push_end", queue.push_wait)
           \subseteq Way(op', "push", "push_end", queue'.push_wait)
      /\ Way(op, "pop", "pop_end", queue.pop_wait)
           \subseteq Way(op', "pop", "pop_end", queue'.pop_wait)
  BY DEF Way
<1>2. depth - queue.count \in Int /\ queue.count \in Int
  BY FifoParts, QueueParts
<1>3. PushNotMissed => PushNotMissed'
  BY <1>1, <1>2, ServedIs, ServedStays
<1>4. PopNotMissed => PopNotMissed'
  BY <1>1, <1>2, ServedIs, ServedStays
<1> QED  BY <1>3, <1>4 DEF RingsOnce

\* The kernel resumes a task, or a waiting one is removed.
LEMMA KernelOrderly ==
  ASSUME FlagInv, Orderly, Kernel \/ \E t \in Task : Remove(t),
         UNCHANGED <<semVars, barVars, flagVars, queueVars, use>>
  PROVE  Orderly'
<1>0. FifoInv /\ SigTypeOK /\ FlagOK
  BY FifoParts, QueueParts DEF FlagInv
<1>1. op' = op
  BY DEF Kernel, Wake, ResetSignal, Remove
<1>2. (\A u \in Task : Tidy(u))'
  BY <1>0, KernelTidy DEF Orderly
<1>3. FlagTidy'
  BY <1>0, <1>1, ListTidy, FlagParts DEF Orderly, flagVars
<1>4. queue' = queue /\ sem' = sem /\ barrier' = barrier
  BY DEF queueVars, semVars, barVars
<1>5. RingsOnce' /\ PushNotMissed' /\ (PopNotMissed => PopNotMissed')
  BY <1>0, <1>1, <1>4, OthersServe DEF Orderly
<1> QED  BY <1>2, <1>3, <1>4, <1>5 DEF Orderly, BarListOK

\* A call of one of the objects.
LEMMA CallsOrderly ==
  ASSUME FlagInv, Orderly, SemListOK, use' = use,
         \/ SemCalls /\ UNCHANGED <<hostVars, barVars, flagVars, queueVars>>
         \/ BarCalls /\ UNCHANGED <<hostVars, semVars, flagVars, queueVars>>
         \/ FlagCalls /\ UNCHANGED <<semVars, barVars, queueVars>>
         \/ /\ "flag_clear" \in use /\ \E b \in Bit : FlagClear({b})
            /\ UNCHANGED <<semVars, barVars, queueVars>>
  PROVE  Orderly'
<1>0. FifoInv /\ SigTypeOK /\ FlagOK /\ (\A u \in Task : Tidy(u)) /\ RingsOnce
  BY FifoParts, QueueParts DEF FlagInv, Orderly
<1>1. ASSUME UNCHANGED queueVars, NEW X, Moves(X), X \subseteq SemOps \union BarOps \union FlagOps
      PROVE  RingsOnce' /\ PushNotMissed' /\ (PopNotMissed => PopNotMissed')
  <2>1. \A u \in Task : op[u] \in {"push", "push_end", "pop", "pop_end"} => op'[u] = op[u]
    BY <1>1 DEF Moves, SemOps, BarOps, FlagOps
  <2> QED  BY <1>0, <1>1, <2>1, OthersServe DEF Orderly, queueVars
<1>2. ASSUME UNCHANGED flagVars, NEW X, Moves(X), "flag_wait" \notin X
      PROVE  FlagTidy'
  <2>1. /\ \A t \in Task : op'[t] = "flag_wait" => op[t] = "flag_wait"
        /\ flag' = flag /\ want' = want
    BY <1>2 DEF Moves, flagVars
  <2>2. \A i \in 1..Len(flag.wait) : flag.wait[i].id \in Task
    BY <1>0, FlagParts
  <2> QED  BY <2>1, <2>2, ListTidy DEF Orderly
<1>3. CASE SemCalls /\ UNCHANGED <<hostVars, barVars, flagVars, queueVars>>
  <2>1. (\A u \in Task : Tidy(u))' /\ Once(sem'.wait)
    BY <1>0, <1>3, SemCallsTidy DEF Orderly
  <2>2. Moves(SemOps)
    BY <1>0, <1>3, SemMoves
  <2>3. RingsOnce' /\ PushNotMissed' /\ (PopNotMissed => PopNotMissed')
    BY <1>1, <1>3, <2>2
  <2>4. FlagTidy'
    BY <1>2, <1>3, <2>2 DEF SemOps
  <2> QED  BY <1>3, <2>1, <2>3, <2>4 DEF Orderly, BarListOK, barVars
<1>4. CASE BarCalls /\ UNCHANGED <<hostVars, semVars, flagVars, queueVars>>
  <2>1. (\A u \in Task : Tidy(u))' /\ BarListOK'
    BY <1>0, <1>4, BarCallsTidy DEF Orderly
  <2>2. Moves(BarOps)
    BY <1>0, <1>4, BarMoves
  <2>3. RingsOnce' /\ PushNotMissed' /\ (PopNotMissed => PopNotMissed')
    BY <1>1, <1>4, <2>2
  <2>4. FlagTidy'
    BY <1>2, <1>4, <2>2 DEF BarOps
  <2> QED  BY <1>4, <2>1, <2>3, <2>4 DEF Orderly, semVars
<1>5. CASE FlagCalls /\ UNCHANGED <<semVars, barVars, queueVars>>
  <2>1. (\A u \in Task : Tidy(u))' /\ FlagTidy'
    BY <1>0, <1>5, FlagCallsTidy DEF Orderly
  <2>2. Moves(FlagOps)
    BY <1>0, <1>5, FlagMoves
  <2>3. RingsOnce' /\ PushNotMissed' /\ (PopNotMissed => PopNotMissed')
    BY <1>1, <1>5, <2>2
  <2> QED  BY <1>5, <2>1, <2>3 DEF Orderly, BarListOK, barVars, semVars
<1>6. CASE /\ "flag_clear" \in use /\ \E b \in Bit : FlagClear({b})
           /\ UNCHANGED <<semVars, barVars, queueVars>>
  <2>1. PICK b \in Bit : FlagClear({b})
    BY <1>6
  <2>2. (\A u \in Task : Tidy(u))' /\ FlagTidy'
    BY <1>0, <1>6, <2>1, FlagClearTidy DEF Orderly
  <2>3. Moves(FlagOps)
    BY <2>1, NobodyMoves DEF FlagClear, sigVars
  <2>4. RingsOnce' /\ PushNotMissed' /\ (PopNotMissed => PopNotMissed')
    BY <1>1, <1>6, <2>3
  <2> QED  BY <1>6, <2>2, <2>4 DEF Orderly, BarListOK, barVars, semVars
<1> QED  BY <1>3, <1>4, <1>5, <1>6

LEMMA QueueOrderly ==
  ASSUME FlagInv, Orderly, QueueCalls \/ PeekCalls, use' = use,
         UNCHANGED <<semVars, barVars, flagVars>>,
         "peek" \notin use => \A u \in Task : op[u] # "peek"
  PROVE  Orderly'
<1>0. FifoInv /\ SigTypeOK /\ FlagOK /\ (\A u \in Task : Tidy(u)) /\ RingsOnce
  BY FifoParts, QueueParts DEF FlagInv, Orderly
<1>1. QueueDone
  BY <1>0, QueueKinds
<1>2. (\A u \in Task : Tidy(u))' /\ RingsOnce'
  BY <1>0, QueueCallsTidy
<1>3. PushNotMissed' /\ ("peek" \notin use' => PopNotMissed')
  BY <1>0, <1>1, PushSide, PopSide DEF Orderly
<1>4. /\ \A t \in Task : op'[t] = "flag_wait" => op[t] = "flag_wait"
      /\ flag' = flag /\ want' = want
  BY <1>0, QueueMoves DEF Moves, QueueOps, flagVars
<1>5. \A i \in 1..Len(flag.wait) : flag.wait[i].id \in Task
  BY <1>0, FlagParts
<1>6. FlagTidy'
  BY <1>4, <1>5, ListTidy DEF Orderly
<1> QED  BY <1>2, <1>3, <1>6 DEF Orderly, BarListOK, barVars, semVars

LEMMA QuietOrderly ==
  ASSUME Orderly, UNCHANGED <<sigVars, semVars, barVars, flagVars, queueVars, use>>
  PROVE  Orderly'
<1>1. /\ status' = status /\ signal' = signal /\ op' = op
      /\ sem' = sem /\ barrier' = barrier /\ flag' = flag /\ want' = want /\ queue' = queue /\ use' = use
  BY DEF sigVars, semVars, barVars, flagVars, queueVars
<1>2. (\A u \in Task : Tidy(u))'
  BY <1>1 DEF Orderly, Tidy, InSome
<1>3. PushNotMissed' <=> PushNotMissed
  BY <1>1, ServedIs
<1>4. PopNotMissed' <=> PopNotMissed
  BY <1>1, ServedIs
<1>5. FlagTidy' /\ RingsOnce' /\ BarListOK'
  BY <1>1 DEF Orderly, FlagTidy, FlagOnce, FlagWanted, RingsOnce, BarListOK
<1> QED  BY <1>1, <1>2, <1>3, <1>4, <1>5 DEF Orderly

LEMMA OrdStep == OrdInv /\ [SyncNext]_syncVars => OrdInv'
<1> SUFFICES ASSUME OrdInv, [SyncNext]_syncVars PROVE OrdInv'
  OBVIOUS
<1>0. /\ FlagInv /\ FifoInv /\ SigTypeOK /\ SemListOK /\ use' = use
      /\ "peek" \notin use => \A u \in Task : op[u] # "peek"
      /\ Undisturbed => Orderly
  BY FifoParts, QueueParts, UseStays DEF OrdInv, FlagInv
<1>1. FlagInv' /\ SemListOK'
  BY <1>0, FlagStepKeeps, SemListStays
<1>2. ASSUME "peek" \notin use PROVE \A u \in Task : op'[u] # "peek"
  <2>1. ASSUME NEW X, Moves(X), "peek" \notin X PROVE \A u \in Task : op'[u] # "peek"
    BY <1>0, <1>2, <2>1 DEF Moves
  <2>2. ASSUME UNCHANGED op PROVE \A u \in Task : op'[u] # "peek"
    BY <1>0, <1>2, <2>2
  <2>3. CASE SignalStep
    BY <1>0, <2>1, <2>3, SignalMoves DEF SignalStep, Calls, SignalOps
  <2>4. CASE SemaphoreStep
    BY <1>0, <2>1, <2>4, SemMoves DEF SemaphoreStep, Calls, SemOps
  <2>5. CASE BarrierStep
    BY <1>0, <2>1, <2>5, BarMoves DEF BarrierStep, Calls, BarOps
  <2>6. CASE FlagStep
    BY <1>0, <2>1, <2>6, FlagMoves DEF FlagStep, Calls, FlagOps
  <2>7. CASE QueueStep
    BY <1>0, <1>2, <2>7, NobodyPeeks DEF QueueStep, Calls
  <2>8. CASE ClearStep
    <3>1. PICK t \in Task : \E o \in {"queue_event", "none"} : Continue(t, o)
      BY <2>8 DEF ClearStep, Calls, ClearCalls, QueueClear
    <3> QED  BY <1>0, <1>2, <3>1, MovesOne
  <2>9. CASE FlagClearStep \/ HostClearStep \/ KernelStep \/ BroadcastStep \/ RemoveStep \/ Destroy
             \/ UNCHANGED syncVars
    BY <2>2, <2>9 DEF FlagClearStep, HostClearStep, KernelStep, BroadcastStep, RemoveStep, Destroy,
       Calls, syncVars, sigVars, FlagClear, HostClearCalls, HostQueueClear, Kernel, Wake, ResetSignal,
       Remove
  <2>10. ~ PeekStep
    BY <1>2 DEF PeekStep, Calls
  <2> QED  BY <2>3, <2>4, <2>5, <2>6, <2>7, <2>8, <2>9, <2>10 DEF SyncNext
<1>3. ASSUME Undisturbed PROVE Orderly'
  <2>0. Orderly /\ ~ SignalStep /\ ~ ClearStep /\ ~ HostClearStep
    BY <1>0, <1>3 DEF Undisturbed, SignalStep, ClearStep, HostClearStep, Calls
  <2>1. CASE KernelStep \/ RemoveStep
    BY <1>0, <2>0, <2>1, KernelOrderly DEF KernelStep, RemoveStep, Calls
  <2>2. CASE SemaphoreStep \/ BarrierStep \/ FlagStep \/ FlagClearStep
    BY <1>0, <2>0, <2>2, CallsOrderly DEF SemaphoreStep, BarrierStep, FlagStep, FlagClearStep, Calls
  <2>3. CASE QueueStep \/ PeekStep
    BY <1>0, <2>0, <2>3, QueueOrderly DEF QueueStep, PeekStep, Calls
  <2>4. CASE BroadcastStep \/ Destroy \/ UNCHANGED syncVars
    <3>1. UNCHANGED <<sigVars, semVars, barVars, flagVars, queueVars, use>>
      BY <2>4 DEF BroadcastStep, Destroy, syncVars
    <3> QED  BY <1>0, <2>0, <3>1, QuietOrderly
  <2> QED  BY <2>0, <2>1, <2>2, <2>3, <2>4 DEF SyncNext
<1>4. (Undisturbed' => Orderly') /\ ("peek" \notin use' => \A u \in Task : op'[u] # "peek")
  BY <1>0, <1>2, <1>3 DEF Undisturbed
<1> QED  BY <1>1, <1>4 DEF OrdInv

\* What the queue has is offered to those that wait for it: one signal per push
\* or pop is enough, although a resumed task may find the queue empty or full
\* again (task_queue.c:160), for any programs in which only the objects signal
\* tasks and nobody clears the queue.  (A task that is removed after its signal
\* stays on its way.)
THEOREM QueueServesWaiters == SyncSpec /\ Undisturbed => []QueueWaitersServed
<1>1. Undisturbed /\ [SyncNext]_syncVars => Undisturbed'
  BY UseStays DEF Undisturbed
<1>2. OrdInv /\ Undisturbed => QueueWaitersServed
  BY DEF OrdInv, Orderly, QueueWaitersServed
<1> QED  BY <1>1, <1>2, OrdInitial, OrdStep, PTL DEF SyncSpec

\* A wait for bits returns with the bits it waited for, although it does not look
\* at them again after its signal (task_event_flag.c:176), for any programs in
\* which only the objects signal tasks and nobody clears the queue.
THEOREM FlagWaitGetsItsBits == SyncSpec /\ Undisturbed => FlagWaitMeetsCondition
<1>1. Undisturbed /\ [SyncNext]_syncVars => Undisturbed'
  BY UseStays DEF Undisturbed
<1>2. OrdInv /\ Undisturbed =>
        ("flag_clear" \notin use /\ flag.clear_mode = "MANUAL" =>
           \A t \in Task : FlagWaitReturns(t) => Met(flag.bits, want[t]))
  <2> SUFFICES ASSUME OrdInv, Undisturbed, "flag_clear" \notin use, flag.clear_mode = "MANUAL",
                      NEW t \in Task, FlagWaitReturns(t)
               PROVE  Met(flag.bits, want[t])
    OBVIOUS
  <2>1. Tidy(t) /\ status[t] = "running" /\ op[t] = "flag_wait" /\ FlagWanted
    BY DEF OrdInv, Orderly, FlagTidy, FlagWaitReturns, Inside
  <2>2. t \notin FlagIds(flag.wait)
    BY <2>1, AwakeIsFree DEF InSome
  <2> QED  BY <2>1, <2>2 DEF FlagWanted
<1> QED  BY <1>1, <1>2, OrdInitial, OrdStep, PTL DEF SyncSpec, FlagWaitMeetsCondition

-----------------------------------------------------------------------------
(* The semaphore and the barrier among other objects: what the modules of  *)
(* their own proofs say of their calls, and orderly waiting for the rest.  *)

\* Only the objects signal tasks, and waiting tasks are neither forgotten by a
\* clear nor removed.
Plain == use \intersect {"signal", "clear", "host_clear", "remove"} = {}

NobodyGone == \A u \in Task : status[u] # "gone"

\* A step of another object, or of the kernel.
LEMMA SemStays ==
  ASSUME SemInv, (\A u \in Task : Tidy(u))', NobodyGone', SigTypeOK', UNCHANGED semVars,
         \A u \in Task : op'[u] = "acquire" <=> op[u] = "acquire"
  PROVE  SemInv'
<1>1. sem' = sem /\ permits' = permits /\ holding' = holding
  BY DEF semVars
<1>2. SemTypeOK' /\ Distinct'
  BY <1>1 DEF SemInv, SemTypeOK, Distinct
<1>3. SemSet(sem.wait) \subseteq Task
  BY DEF SemInv, SemTypeOK, SemSet
<1>4. SemListed'
  BY <1>1, <1>3 DEF SemListed, SemInv, SigTypeOK, NobodyGone, Tidy, InSome
<1>5. SemQuiet'
  BY <1>1 DEF SemQuiet, SemInv, NobodyGone, Tidy
<1>6. Granted' = Granted
  BY <1>1 DEF Granted
<1>7. SemaphoreExact'
  BY <1>1, <1>6 DEF SemaphoreExact, SemInv
<1> QED  BY <1>2, <1>4, <1>5, <1>7 DEF SemInv

LEMMA BarStays ==
  ASSUME BarInv, (\A u \in Task : Tidy(u))', NobodyGone', SigTypeOK', UNCHANGED barVars,
         \A u \in Task : /\ op'[u] = "notify" <=> op[u] = "notify"
                         /\ op'[u] = "barrier_wait" <=> op[u] = "barrier_wait"
  PROVE  BarInv'
<1>1. barrier' = barrier /\ arrived' = arrived /\ passed' = passed /\ All' = All
  BY DEF barVars, All
<1>2. BarTypeOK' /\ Counted'
  BY <1>1 DEF BarInv, BarTypeOK, Counted
<1>3. \A u \in Task : InSome(u)' => status'[u] = "waiting" /\ ~signal'[u]
  BY DEF Tidy, NobodyGone, SigTypeOK
<1>4. NotifyListed'
  BY <1>1, <1>3 DEF NotifyListed, BarInv, Tidy, InSome
<1>5. WaitListed'
  BY <1>1, <1>3 DEF WaitListed, BarInv, Tidy, InSome
<1>6. BarQuiet'
  BY DEF BarQuiet, Tidy, NobodyGone
<1> QED  BY <1>2, <1>4, <1>5, <1>6 DEF BarInv

\* Invariant: waiting is orderly, the semaphore exact and the barrier in its round.
PlainInv == OrdInv /\ (Plain => NobodyGone /\ SemInv /\ BarInv)

LEMMA PlainInitial == SyncInit => PlainInv /\ Rounds!RoundInit
<1> SUFFICES ASSUME SyncInit PROVE PlainInv /\ Rounds!RoundInit
  OBVIOUS
<1>1. SigInit /\ SemInit /\ BarInit
  BY DEF SyncInit
<1>2. NobodyGone
  BY <1>1 DEF SigInit, NobodyGone
<1> QED  BY <1>1, <1>2, OrdInitial, SemInitial, BarInitial DEF PlainInv

\* What a step does to the calls of an object it leaves alone.
LEMMA OthersMove ==
  ASSUME NEW X, Moves(X), NEW o, o \notin X
  PROVE  \A u \in Task : op'[u] = o <=> op[u] = o
BY DEF Moves

LEMMA PlainStep ==
  PlainInv /\ [SyncNext]_syncVars =>
    PlainInv' /\ (Plain => [Rounds!RoundNext]_<<arrived, passed>>)
<1> SUFFICES ASSUME PlainInv, [SyncNext]_syncVars
             PROVE  PlainInv' /\ (Plain => [Rounds!RoundNext]_<<arrived, passed>>)
  OBVIOUS
<1>0. /\ OrdInv /\ FifoInv /\ SigTypeOK /\ use' = use
      /\ OrdInv' /\ FifoInv' /\ SigTypeOK'
  <2>1. OrdInv' /\ OrdInv /\ use' = use
    BY OrdStep, UseStays DEF PlainInv
  <2>2. FifoInv /\ FifoInv'
    BY <2>1 DEF OrdInv, FlagInv
  <2>3. SigTypeOK /\ SigTypeOK'
    BY <2>2 DEF FifoInv, QueueTypeOK
  <2> QED  BY <2>1, <2>2, <2>3
<1>1. ASSUME Plain
      PROVE  NobodyGone' /\ SemInv' /\ BarInv' /\ [Rounds!RoundNext]_<<arrived, passed>>
  <2>0. /\ NobodyGone /\ SemInv /\ BarInv
        /\ ~ SignalStep /\ ~ ClearStep /\ ~ HostClearStep /\ ~ RemoveStep
        /\ (\A u \in Task : Tidy(u))'
    <3>1. Undisturbed' /\ NobodyGone /\ SemInv /\ BarInv
      BY <1>0, <1>1 DEF PlainInv, Plain, Undisturbed
    <3>2. (\A u \in Task : Tidy(u))'
      BY <1>0, <3>1 DEF OrdInv, Orderly
    <3> QED  BY <1>1, <3>1, <3>2 DEF Plain, SignalStep, ClearStep, HostClearStep, RemoveStep, Calls
  <2>1. ASSUME NEW X, Moves(X) PROVE NobodyGone'
    BY <2>0, <2>1 DEF Moves, NobodyGone
  <2>2. ASSUME UNCHANGED barVars PROVE [Rounds!RoundNext]_<<arrived, passed>>
    BY <2>2 DEF barVars
  <2>3. ASSUME NEW X, Moves(X), X \intersect {"acquire", "notify", "barrier_wait"} = {},
               UNCHANGED <<semVars, barVars>>
        PROVE  NobodyGone' /\ SemInv' /\ BarInv' /\ [Rounds!RoundNext]_<<arrived, passed>>
    <3>1. "acquire" \notin X /\ "notify" \notin X /\ "barrier_wait" \notin X
      BY <2>3
    <3>2. NobodyGone'
      BY <2>1, <2>3
    <3>3. SemInv'
      BY <1>0, <2>0, <2>3, <3>1, <3>2, OthersMove, SemStays
    <3>4. BarInv'
      BY <1>0, <2>0, <2>3, <3>1, <3>2, OthersMove, BarStays
    <3> QED  BY <2>2, <2>3, <3>2, <3>3, <3>4
  <2>4. CASE SemaphoreStep
    <3>1. SemCalls /\ UNCHANGED barVars
      BY <2>4 DEF SemaphoreStep, Calls
    <3>2. Moves(SemOps) /\ "notify" \notin SemOps /\ "barrier_wait" \notin SemOps
      BY <1>0, <3>1, SemMoves DEF SemOps
    <3>3. NobodyGone'
      BY <2>1, <3>2
    <3>4. SemInv'
      BY <2>0, <3>1, SemInductive DEF SemNext
    <3>5. BarInv'
      BY <1>0, <2>0, <3>1, <3>2, <3>3, OthersMove, BarStays
    <3> QED  BY <2>2, <3>1, <3>3, <3>4, <3>5
  <2>5. CASE BarrierStep
    <3>1. BarCalls /\ UNCHANGED semVars
      BY <2>5 DEF BarrierStep, Calls
    <3>2. Moves(BarOps) /\ "acquire" \notin BarOps
      BY <1>0, <3>1, BarMoves DEF BarOps
    <3>3. NobodyGone'
      BY <2>1, <3>2
    <3>4. SemInv'
      BY <1>0, <2>0, <3>1, <3>2, <3>3, OthersMove, SemStays
    <3>5. BarInv' /\ [Rounds!RoundNext]_<<arrived, passed>>
      BY <2>0, <3>1, BarInductive DEF BarNext
    <3> QED  BY <3>3, <3>4, <3>5
  <2>6. CASE FlagStep
    <3>1. Moves(FlagOps) /\ UNCHANGED <<semVars, barVars>>
      BY <1>0, <2>6, FlagMoves DEF FlagStep, Calls
    <3>2. FlagOps \intersect {"acquire", "notify", "barrier_wait"} = {}
      BY DEF FlagOps
    <3> QED  BY <2>3, <3>1, <3>2
  <2>7. CASE QueueStep \/ PeekStep
    <3>1. Moves(QueueOps) /\ UNCHANGED <<semVars, barVars>>
      BY <1>0, <2>7, QueueMoves DEF QueueStep, PeekStep, Calls
    <3>2. QueueOps \intersect {"acquire", "notify", "barrier_wait"} = {}
      BY DEF QueueOps
    <3> QED  BY <2>3, <3>1, <3>2
  <2>8. CASE FlagClearStep \/ BroadcastStep \/ Destroy \/ UNCHANGED syncVars
    <3>1. UNCHANGED <<op, status, semVars, barVars>>
      BY <2>8 DEF FlagClearStep, FlagClear, BroadcastStep, Destroy, Calls, syncVars, sigVars
    <3>2. Moves({})
      BY <3>1, NobodyMoves
    <3> QED  BY <2>3, <3>1, <3>2
  <2>9. CASE KernelStep
    <3>1. Kernel /\ UNCHANGED <<semVars, barVars>>
      BY <2>9 DEF KernelStep
    <3>2. NobodyGone'
      BY <1>0, <2>0, <3>1 DEF Kernel, Wake, ResetSignal, NobodyGone, SigTypeOK
    <3>3. SemInv'
      BY <2>0, <3>1, SemInductive DEF SemNext
    <3>4. BarInv'
      BY <2>0, <3>1, BarInductive DEF BarNext
    <3> QED  BY <2>2, <3>1, <3>2, <3>3, <3>4
  <2> QED  BY <2>0, <2>4, <2>5, <2>6, <2>7, <2>8, <2>9 DEF SyncNext
<1>2. Plain' => Plain
  BY <1>0 DEF Plain
<1> QED  BY <1>0, <1>1, <1>2 DEF PlainInv

LEMMA PlainStays == Plain /\ [SyncNext]_syncVars => Plain'
BY UseStays DEF Plain

\* The semaphore admits exactly as many tasks as it was created for, although a
\* resumed task never looks at it again (task_semaphore.c:49), in any programs
\* that use other objects too, for any tasks, limits and counts.
THEOREM SemaphoreStaysExact == SyncSpec /\ Plain => []SemaphoreExact
<1>1. PlainInv /\ Plain => SemaphoreExact
  BY DEF PlainInv, SemInv
<1>2. PlainInv /\ [SyncNext]_syncVars => PlainInv'
  BY PlainStep
<1> QED  BY <1>1, <1>2, PlainInitial, PlainStays, PTL DEF SyncSpec

\* The barrier goes in rounds (task_barrier.c:59, 134), in any programs that use
\* other objects too: the signals of one object never end a wait for another.
THEOREM BarrierStaysInRounds == SyncSpec /\ Plain => BarrierRounds
<1>1. PlainInv /\ [SyncNext]_syncVars => PlainInv'
  BY PlainStep
<1>2. PlainInv /\ Plain /\ [SyncNext]_syncVars => [Rounds!RoundNext]_<<arrived, passed>>
  BY PlainStep
<1> QED  BY <1>1, <1>2, PlainInitial, PlainStays, PTL
         DEF SyncSpec, BarrierRounds, Rounds!RoundSpec

-----------------------------------------------------------------------------
(* The types of a program, and that somebody runs.                         *)

LEMMA SemTypesStay ==
  ASSUME SemTypeOK, SigTypeOK', SemCalls
  PROVE  SemTypeOK'
<1>0. /\ sem.wait \in Seq(Task) /\ sem \in [count : Int, wait : Seq(Task)]
      /\ Len(sem.wait) \in Nat /\ Len(sem.wait) <= SEMAPHORE_WAIT_MAX /\ SEMAPHORE_WAIT_MAX \in Nat
  BY SemAssumption DEF SemTypeOK
<1>1. PICK t \in Task : Acquire(t) \/ AcquireBlocks(t) \/ AcquireReturns(t) \/ Release(t)
  BY DEF SemCalls
<1>2. holding' \subseteq Task /\ permits' \in SemCounts
  BY <1>1 DEF SemTypeOK, Acquire, AcquireBlocks, AcquireReturns, Release
<1>3. sem' \in [count : Int, wait : Seq(Task)]
  BY <1>0, SemTypes DEF SemListOK
<1>4. Len(sem'.wait) <= SEMAPHORE_WAIT_MAX
  <2>1. CASE sem'.wait = sem.wait
    BY <1>0, <2>1
  <2>2. CASE sem'.wait = Append(sem.wait, t) /\ Len(sem.wait) < SEMAPHORE_WAIT_MAX
    <3>1. Len(Append(sem.wait, t)) = Len(sem.wait) + 1
      BY <1>0
    <3> QED  BY <1>0, <2>2, <3>1
  <2>3. CASE sem'.wait = Tail(sem.wait) /\ sem.wait # << >>
    <3>1. Len(Tail(sem.wait)) = Len(sem.wait) - 1
      BY <1>0, <2>3
    <3> QED  BY <1>0, <2>3, <3>1
  <2> QED  BY <1>0, <1>1, <2>1, <2>2, <2>3 DEF Acquire, AcquireBlocks, AcquireReturns, Release
<1> QED  BY <1>2, <1>3, <1>4 DEF SemTypeOK

\* Invariant: the types, and a barrier that is not used is as it was created.
TypeInv ==
  /\ PlainInv /\ SemTypeOK /\ use \subseteq Uses
  /\ "barrier" \notin use => BarTypeOK

LEMMA TypeInitial == SyncInit => TypeInv
<1> SUFFICES ASSUME SyncInit PROVE TypeInv
  OBVIOUS
<1>1. PlainInv
  BY PlainInitial
<1>2. SemTypeOK /\ BarTypeOK
  BY SemInitial, BarInitial DEF SyncInit, SemInv, BarInv
<1> QED  BY <1>1, <1>2, ProgramsAssumption DEF SyncInit, TypeInv

LEMMA TypeStep == TypeInv /\ [SyncNext]_syncVars => TypeInv'
<1> SUFFICES ASSUME TypeInv, [SyncNext]_syncVars PROVE TypeInv'
  OBVIOUS
<1>0. PlainInv /\ SemTypeOK /\ use' = use /\ PlainInv'
  BY UseStays, PlainStep DEF TypeInv
<1>1. SigTypeOK'
  BY <1>0 DEF PlainInv, OrdInv, FlagInv, FifoInv, QueueTypeOK
<1>2. SemTypeOK'
  <2>1. CASE UNCHANGED semVars
    BY <1>0, <1>1, <2>1 DEF SemTypeOK, semVars
  <2>2. CASE SemCalls
    BY <1>0, <1>1, <2>2, SemTypesStay
  <2> QED  BY <2>1, <2>2, SyncSteps
<1>3. ASSUME "barrier" \notin use PROVE BarTypeOK'
  <2>1. UNCHANGED barVars
    <3>1. ~ BarrierStep
      BY <1>3 DEF BarrierStep, Calls
    <3> QED  BY <3>1 DEF SyncNext, SignalStep, SemaphoreStep, FlagStep, FlagClearStep, QueueStep,
              PeekStep, ClearStep, HostClearStep, KernelStep, BroadcastStep, RemoveStep, Destroy, Calls,
              syncVars
  <2>2. BarTypeOK
    BY <1>3 DEF TypeInv
  <2> QED  BY <1>1, <2>1, <2>2 DEF BarTypeOK, barVars
<1> QED  BY <1>0, <1>2, <1>3 DEF TypeInv

\* The types: the counts of the barrier stay within its tasks and the lists
\* within their places, in any programs but those that disturb the tasks that
\* wait at a barrier, for any tasks, host threads, bits and limits.
THEOREM SyncTypes == SyncSpec /\ (Plain \/ "barrier" \notin use) => []SyncTypeOK
<1>1. TypeInv /\ (Plain \/ "barrier" \notin use) => SyncTypeOK
  <2> SUFFICES ASSUME TypeInv, Plain \/ "barrier" \notin use PROVE SyncTypeOK
    OBVIOUS
  <2>1. BarTypeOK
    BY DEF TypeInv, PlainInv, BarInv
  <2>2. FifoInv /\ FlagOK
    BY DEF TypeInv, PlainInv, OrdInv, FlagInv
  <2>3. QueueTypeOK /\ SigTypeOK /\ HostTypeOK
    BY <2>2, FifoParts, QueueParts
  <2>4. FlagTypeOK
    BY <2>2, <2>3, FlagParts DEF FlagTypeOK, FlagOK, FlagEntry, Directions
  <2> QED  BY <2>1, <2>3, <2>4 DEF SyncTypeOK, TypeInv
<1>2. (Plain \/ "barrier" \notin use) /\ [SyncNext]_syncVars => (Plain \/ "barrier" \notin use)'
  BY UseStays DEF Plain
<1> QED  BY <1>1, <1>2, TypeInitial, TypeStep, PTL DEF SyncSpec

\* The calls of the barrier strand nobody.
LEMMA BarCallsKeep ==
  ASSUME SigTypeOK, BarTypeOK, BarCalls, UNCHANGED <<semVars, flagVars, queueVars, destroyed>>,
         ~destroyed, \A u \in Task : Kept(u)
  PROVE  (\A u \in Task : Kept(u))'
<1> DEFINE n == barrier.notify_wait
           w == barrier.wait
<1>0. n \in Seq(Task) /\ w \in Seq(Task)
  BY DEF BarTypeOK
<1>1. ASSUME BarSet(n) \subseteq BarSet(barrier'.notify_wait), BarSet(w) \subseteq BarSet(barrier'.wait)
      PROVE  \A u : ListedStay(u)
  BY <1>1 DEF ListedStay, semVars, flagVars, queueVars
<1>2. ASSUME NEW t \in Task, Notified(t) \/ Waited(t)
      PROVE  \A u \in Task : status[u] = "waiting" => (signal[u] => signal'[u]) /\ ListedStay(u)
  <2>1. CASE barrier'.notify_wait = n /\ barrier'.wait = w /\ signal' = signal
    BY <1>1, <2>1
  <2>2. CASE barrier'.notify_wait = n /\ Send(BarSet(w))
    BY <2>2, SendReaches DEF ListedStay, semVars, flagVars, queueVars
  <2>3. CASE barrier'.wait = w /\ Send(BarSet(n))
    BY <2>3, SendReaches DEF ListedStay, semVars, flagVars, queueVars
  <2> QED  BY <1>2, <2>1, <2>2, <2>3 DEF Notified, Waited, BarTypeOK
<1>3. ASSUME NEW t \in Task, NotifyBlocks(t) \/ WaitBlocks(t) PROVE (\A u \in Task : Kept(u))'
  <2>1. /\ BarSet(Append(n, t)) = BarSet(n) \union {t}
        /\ BarSet(Append(w, t)) = BarSet(w) \union {t}
    BY <1>0, BarSetAppend
  <2>2. \/ /\ barrier'.notify_wait = Append(n, t) /\ barrier'.wait = w /\ Block(t, "notify")
        \/ /\ barrier'.wait = Append(w, t) /\ barrier'.notify_wait = n /\ Block(t, "barrier_wait")
    BY <1>3 DEF NotifyBlocks, WaitBlocks, BarTypeOK
  <2>3. Listed(t)' /\ \A u : ListedStay(u)
    BY <1>1, <2>1, <2>2, MovesOne DEF Listed
  <2>4. signal' = signal /\ status[t] = "running"
    BY <1>3 DEF NotifyBlocks, WaitBlocks, Free
  <2> QED  BY <2>2, <2>3, <2>4, OneCalls
<1>4. ASSUME NEW t \in Task, NotifyResumes(t) \/ WaitResumes(t) PROVE (\A u \in Task : Kept(u))'
  <2>1. Continue(t, "none") /\ status[t] = "running" /\ (Notified(t) \/ Waited(t))
    BY <1>4 DEF NotifyResumes, WaitResumes, Inside
  <2> QED  BY <1>2, <2>1, OneCalls
<1>5. ASSUME NEW t \in Task, Notify(t) \/ Wait(t) PROVE (\A u \in Task : Kept(u))'
  <2>1. status' = status /\ op' = op /\ (Notified(t) \/ Waited(t))
    BY <1>5 DEF Notify, Wait
  <2> QED  BY <1>2, <2>1, NobodyStranded
<1> QED  BY <1>3, <1>4, <1>5 DEF BarCalls

\* Programs of one semaphore, or of one barrier.
OneKind == use \in {{"semaphore"}, {"barrier"}}

\* Invariant: who waits has its signal or its place, in the only list there is;
\* and the semaphore has permits only if nobody waits for them.
RunInv ==
  /\ TypeInv
  /\ OneKind => ~destroyed /\ \A u \in Task : Kept(u)
  /\ use = {"semaphore"} => \A u \in Task : op[u] \in SemOps
  /\ use = {"barrier"} => \A u \in Task : op[u] \in BarOps
  /\ sem.wait # << >> => sem.count <= 0

LEMMA RunInitial == SyncInit => RunInv
<1> SUFFICES ASSUME SyncInit PROVE RunInv
  OBVIOUS
<1>1. /\ \A u \in Task : status[u] = "running" /\ op[u] = "none"
      /\ ~destroyed /\ sem.wait = << >>
  BY DEF SyncInit, SigInit, SemInit
<1> QED  BY <1>1, TypeInitial DEF RunInv, Kept, SemOps, BarOps

LEMMA SemCountStays ==
  ASSUME SemTypeOK, SemCalls, sem.wait # << >> => sem.count <= 0
  PROVE  sem'.wait # << >> => sem'.count <= 0
<1>1. PICK t \in Task : Acquire(t) \/ AcquireBlocks(t) \/ AcquireReturns(t) \/ Release(t)
  BY DEF SemCalls
<1>2. /\ sem \in [count : Int, wait : Seq(Task)] /\ sem.count \in Int
  BY DEF SemTypeOK
<1>3. CASE Acquire(t)
  <2>1. sem'.wait = sem.wait /\ sem.count > 0
    BY <1>2, <1>3 DEF Acquire
  <2> QED  BY <1>2, <2>1
<1>4. CASE AcquireBlocks(t) \/ AcquireReturns(t)
  BY <1>2, <1>4 DEF AcquireBlocks, AcquireReturns
<1>5. CASE Release(t)
  <2>1. CASE sem.count + 1 > 0 /\ sem.wait # << >>
    <3>1. sem'.count = sem.count
      BY <1>2, <1>5, <2>1 DEF Release
    <3> QED  BY <2>1, <3>1
  <2>2. CASE ~ (sem.count + 1 > 0 /\ sem.wait # << >>)
    <3>1. sem'.count = sem.count + 1 /\ sem'.wait = sem.wait
      BY <1>2, <1>5, <2>2 DEF Release
    <3> QED  BY <1>2, <2>2, <3>1
  <2> QED  BY <2>1, <2>2
<1> QED  BY <1>1, <1>3, <1>4, <1>5

LEMMA RunStep == RunInv /\ [SyncNext]_syncVars => RunInv'
<1> SUFFICES ASSUME RunInv, [SyncNext]_syncVars PROVE RunInv'
  OBVIOUS
<1>0. TypeInv /\ TypeInv' /\ use' = use /\ SigTypeOK /\ SemTypeOK /\ PlainInv
  BY TypeStep, UseStays DEF RunInv, TypeInv, SemTypeOK
<1>1. sem'.wait # << >> => sem'.count <= 0
  <2>1. CASE UNCHANGED semVars
    BY <2>1 DEF RunInv, semVars
  <2>2. CASE SemCalls
    BY <1>0, <2>2, SemCountStays DEF RunInv
  <2> QED  BY <2>1, <2>2, SyncSteps
<1>2. OneKind =>
        \/ SemCalls /\ use = {"semaphore"}
             /\ UNCHANGED <<hostVars, barVars, flagVars, queueVars, destroyed>>
        \/ BarCalls /\ use = {"barrier"} /\ UNCHANGED <<semVars, flagVars, queueVars, destroyed>>
        \/ Kernel /\ UNCHANGED <<hostVars, semVars, barVars, flagVars, queueVars, destroyed>>
        \/ UNCHANGED <<sigVars, semVars, barVars, flagVars, queueVars, destroyed>>
  <2> SUFFICES ASSUME OneKind
               PROVE  \/ SemCalls /\ use = {"semaphore"}
                           /\ UNCHANGED <<hostVars, barVars, flagVars, queueVars, destroyed>>
                      \/ BarCalls /\ use = {"barrier"}
                           /\ UNCHANGED <<semVars, flagVars, queueVars, destroyed>>
                      \/ Kernel /\ UNCHANGED <<hostVars, semVars, barVars, flagVars, queueVars, destroyed>>
                      \/ UNCHANGED <<sigVars, semVars, barVars, flagVars, queueVars, destroyed>>
    OBVIOUS
  <2>1. /\ "signal" \notin use /\ "flag" \notin use /\ "flag_clear" \notin use /\ "queue" \notin use
        /\ "peek" \notin use /\ "clear" \notin use /\ "host_clear" \notin use
        /\ "remove" \notin use /\ "destroy" \notin use
        /\ "semaphore" \in use => use = {"semaphore"}
        /\ "barrier" \in use => use = {"barrier"}
    BY DEF OneKind
  <2>2. \/ SemaphoreStep \/ BarrierStep \/ KernelStep \/ BroadcastStep \/ UNCHANGED syncVars
    BY <2>1 DEF SyncNext, SignalStep, FlagStep, FlagClearStep, QueueStep, PeekStep, ClearStep,
                HostClearStep, RemoveStep, Destroy, Calls
  <2> QED  BY <2>1, <2>2 DEF SemaphoreStep, BarrierStep, KernelStep, BroadcastStep, Calls, syncVars
<1>3. ASSUME OneKind PROVE ~destroyed' /\ (\A u \in Task : Kept(u))'
  <2>0. ~destroyed /\ (\A u \in Task : Kept(u)) /\ SemListOK
    BY <1>0, <1>3 DEF RunInv, SemTypeOK, SemListOK
  <2>1. CASE SemCalls /\ UNCHANGED <<hostVars, barVars, flagVars, queueVars, destroyed>>
    BY <1>0, <2>0, <2>1, SemCallsKeep
  <2>2. CASE BarCalls /\ UNCHANGED <<semVars, flagVars, queueVars, destroyed>>
    <3>1. BarTypeOK
      BY <1>0, <1>3 DEF PlainInv, Plain, BarInv, OneKind
    <3> QED  BY <1>0, <2>0, <2>2, <3>1, BarCallsKeep
  <2>3. CASE Kernel /\ UNCHANGED <<hostVars, semVars, barVars, flagVars, queueVars, destroyed>>
    BY <1>0, <2>0, <2>3, SignalCallsKeep
  <2>4. CASE UNCHANGED <<sigVars, semVars, barVars, flagVars, queueVars, destroyed>>
    BY <2>0, <2>4, NothingLost, NobodyStranded DEF sigVars, flagVars
  <2> QED  BY <1>2, <1>3, <2>1, <2>2, <2>3, <2>4
<1>4. ASSUME NEW X, Moves(X), \A u \in Task : op[u] \in X PROVE \A u \in Task : op'[u] \in X
  BY <1>4 DEF Moves
<1>5. Kernel \/ UNCHANGED sigVars => op' = op
  BY DEF Kernel, Wake, ResetSignal, sigVars
<1>6. ASSUME use = {"semaphore"} PROVE \A u \in Task : op'[u] \in SemOps
  <2>1. \A u \in Task : op[u] \in SemOps
    BY <1>6 DEF RunInv
  <2>2. SemCalls \/ op' = op
    BY <1>2, <1>5, <1>6 DEF OneKind
  <2> QED  BY <1>0, <1>4, <2>1, <2>2, SemMoves
<1>7. ASSUME use = {"barrier"} PROVE \A u \in Task : op'[u] \in BarOps
  <2>1. \A u \in Task : op[u] \in BarOps
    BY <1>7 DEF RunInv
  <2>2. BarCalls \/ op' = op
    BY <1>2, <1>5, <1>7 DEF OneKind
  <2> QED  BY <1>0, <1>4, <2>1, <2>2, BarMoves
<1>8. OneKind' <=> OneKind
  BY <1>0 DEF OneKind
<1> QED  BY <1>0, <1>1, <1>3, <1>6, <1>7, <1>8 DEF RunInv

\* If all tasks slept unsignalled in acquire, all permits would be left over.
LEMMA PermitsLeft ==
  ASSUME RunInv, use = {"semaphore"}, permits > 0,
         \A t \in Task : status[t] = "waiting" /\ ~signal[t]
  PROVE  FALSE
<1>1. SemInv /\ SemTypeOK
  BY DEF RunInv, TypeInv, PlainInv, Plain
<1>2. \A t \in Task : op[t] = "acquire" /\ t \in SemSet(sem.wait)
  BY DEF RunInv, OneKind, Kept, Listed, SemOps
<1>3. holding \union Granted = {}
  BY <1>1, <1>2 DEF SemInv, SemQuiet, Granted, SemTypeOK
<1>4. sem.count = permits
  <2>1. sem.count + Cardinality({}) = permits /\ sem.count \in Int
    BY <1>1, <1>3 DEF SemInv, SemaphoreExact, SemTypeOK
  <2> QED  BY <2>1, FS_EmptySet
<1>5. sem.wait # << >>
  <2>1. Len(<< >>) = 0 /\ 1..0 = {}
    OBVIOUS
  <2> QED  BY <1>2, <2>1, BarrierAssumption DEF SemSet
<1>6. sem.count <= 0 /\ sem.count \in Int
  BY <1>1, <1>5 DEF RunInv, SemTypeOK
<1> QED  BY <1>4, <1>6

\* If all tasks slept unsignalled at the barrier, all would have arrived, and all
\* that wait to notify would have passed.
LEMMA BarrierLeft ==
  ASSUME RunInv, use = {"barrier"}, \A t \in Task : status[t] = "waiting" /\ ~signal[t]
  PROVE  FALSE
<1>1. BarInv
  BY DEF RunInv, TypeInv, PlainInv, Plain
<1>2. \A t \in Task : t \in BarSet(barrier.notify_wait) \/ t \in BarSet(barrier.wait)
  BY DEF RunInv, OneKind, Kept, Listed, BarOps
<1>3. \A t \in Task : t \in passed \/ (t \in arrived /\ All # Task)
  BY <1>1, <1>2 DEF BarInv, NotifyListed, WaitListed
<1>4. All = Task /\ passed \subseteq Task
  BY <1>1, <1>3 DEF All, BarInv, BarTypeOK
<1>5. passed = Task
  BY <1>3, <1>4
<1> QED  BY <1>1, <1>5 DEF BarInv, Counted

\* Not everyone waits for everyone: of the tasks of a program with one semaphore
\* that was created with permits, or with one barrier, somebody is awake or
\* about to be resumed, for any number of tasks.
THEOREM SomeoneAlwaysRuns ==
  SyncSpec /\ (use = {"semaphore"} => permits > 0) => []SomeoneRuns
<1>1. RunInv /\ (use = {"semaphore"} => permits > 0) => SomeoneRuns
  BY PermitsLeft, BarrierLeft DEF SomeoneRuns
<1>2. permits' = permits \/ ~ [SyncNext]_syncVars
  <2>1. SemCalls => permits' = permits
    BY DEF SemCalls, Acquire, AcquireBlocks, AcquireReturns, Release
  <2> QED  BY <2>1, SyncSteps DEF semVars
<1>3. (use = {"semaphore"} => permits > 0) /\ [SyncNext]_syncVars
        => (use = {"semaphore"} => permits > 0)'
  BY <1>2, UseStays
<1> QED  BY <1>1, <1>3, RunInitial, RunStep, PTL DEF SyncSpec
=============================================================================
