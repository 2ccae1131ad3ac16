------------------------------ MODULE MarsMutex ------------------------------
(***************************************************************************)
(* The MARS mutex: a ticket lock in the first word of a 128-byte line,     *)
(* taken by SPUs with getllar/putllc (spu/base/kernel/mutex.c) and by host *)
(* threads with lwarx/stwcx (ppu/base/lib/mutex_cell.c).                   *)
(*                                                                         *)
(* An SPU works on a local copy of the line: it reads the line when it     *)
(* takes the lock, changes its copy, and mutex_unlock_put writes the whole *)
(* line back.  A host thread changes the line in place.  One action per    *)
(* load-reserve and per store-conditional; a store-conditional succeeds    *)
(* exactly when the line was not written since the processor's load, and   *)
(* every write of the line takes the other processors' reservations away,  *)
(* which an SPU sees as a "lost" event.                                    *)
(***************************************************************************)
EXTENDS Naturals, FiniteSets

CONSTANTS Spus,      \* SPU kernels using the lock
          Ppus,      \* host threads using the lock
          Tickets,   \* number of ticket values: 256, current_id and next_id are uint8_t
          NoProc     \* for the refinement of FifoLock: nobody holds the lock

Procs == Spus \union Ppus

ASSUME ProcsAssumption == /\ Spus \cap Ppus = {}
                          /\ NoProc \notin Procs

ASSUME TicketsAssumption == Tickets \in Nat \ {0}

VARIABLES
  status,   \* struct mars_mutex_status: the lock word of the line in memory
  data,     \* the rest of the line, which the lock protects: one bit
  pc,       \* where each processor is in lock_get / its critical section / unlock_put
  copy,     \* the line as each processor loaded it to store from; forgotten when dead
  id,       \* the ticket each processor drew
  resv,     \* processors whose reservation on the line is still valid
  lost,     \* SPUs with a pending lost-reservation event
  written   \* history: the bit as the critical sections executed so far have left it

vars == <<status, data, pc, copy, id, resv, lost, written>>

UNLOCKED == 0
LOCKED   == 1

Ticket  == 0 .. Tickets - 1
Status  == [lock : {UNLOCKED, LOCKED}, current_id : Ticket, next_id : Ticket]
Data    == {0, 1}
Line    == [status : Status, data : Data]
PcLabel == {"idle", "draw", "draw_sc", "poll", "asleep", "take_sc",
            "critical", "unlock", "unlock_sc"}

line == [status |-> status, data |-> data]

Unlocked == [lock |-> UNLOCKED, current_id |-> 0, next_id |-> 0]
NoCopy == [status |-> Unlocked, data |-> 0]

\* The processor between its successful take_sc and its successful unlock_sc.
Holds(p)   == pc[p] \in {"critical", "unlock", "unlock_sc"}
\* The processor has a ticket and no lock yet.
Waits(p)   == pc[p] \in {"poll", "asleep", "take_sc"}

\* Mutant: the ticket does not wrap.
IncTicketUnbounded(t) == t + 1

IncTicket(t) == (t + 1) % Tickets

Init ==
  /\ status = Unlocked
  /\ data = 0
  /\ pc = [p \in Procs |-> "idle"]
  /\ copy = [p \in Procs |-> NoCopy]
  /\ id = [p \in Procs |-> 0]
  /\ resv = {}
  /\ lost = {}
  /\ written = data

-----------------------------------------------------------------------------
\* getllar / lwarx: load the line into the local copy.  Every load also
\* reserves the line (resv).
Load(p)   == copy' = [copy EXCEPT ![p] = line]
Forget(p) == copy' = [copy EXCEPT ![p] = NoCopy]

\* A write of the line by p takes every reservation away.
BreakReservations(p) ==
  /\ resv' = {}
  /\ lost' = lost \union ((resv \ {p}) \cap Spus)

Goto(p, label) == pc' = [pc EXCEPT ![p] = label]

\* A caller of lock_get.  The event mask is written here; no shared state.
Begin(p) ==
  /\ pc[p] = "idle"
  /\ id' = [id EXCEPT ![p] = 0]
  /\ Goto(p, "draw")
  /\ UNCHANGED <<status, data, copy, resv, lost, written>>

\* State NONE of the loop: read the line to draw a ticket.
Draw(p) ==
  /\ pc[p] = "draw"
  /\ Load(p)
  /\ resv' = resv \union {p}
  /\ Goto(p, "draw_sc")
  /\ UNCHANGED <<status, data, id, lost, written>>

\* next_id++ through the store-conditional; on failure load again.
DrawStore(p) ==
  /\ pc[p] = "draw_sc"
  /\ IF p \in resv
     THEN /\ id' = [id EXCEPT ![p] = copy[p].status.next_id]
          /\ status' = [copy[p].status EXCEPT !.next_id = IncTicket(@)]
          /\ BreakReservations(p)
          /\ Goto(p, "poll")
     ELSE Goto(p, "draw") /\ UNCHANGED <<id, status, resv, lost>>
  /\ Forget(p)
  /\ UNCHANGED <<data, written>>

\* Mutants: the lock byte is ignored; the ticket is ignored; the ticket is
\* compared after current_id was counted up.
TurnIgnoringLock(p)   == status.current_id = id[p]
TurnIgnoringTicket(p) == status.lock = UNLOCKED
TurnOffByOne(p)       == status.lock = UNLOCKED /\ status.current_id = IncTicket(id[p])

MyTurn(p) == status.lock = UNLOCKED /\ status.current_id = id[p]

\* Wait until the lock is free and it is our turn: an SPU sleeps on the lost
\* event, a host thread yields and loads again.
Poll(p) ==
  /\ pc[p] = "poll"
  /\ resv' = resv \union {p}
  /\ IF MyTurn(p)
     THEN Goto(p, "take_sc") /\ Load(p)
     ELSE Goto(p, IF p \in Spus THEN "asleep" ELSE "poll") /\ UNCHANGED copy
  /\ UNCHANGED <<status, data, id, lost, written>>

\* spu_read_event_status returns; the event is acknowledged.
Wake(p) ==
  /\ pc[p] = "asleep"
  /\ p \in lost
  /\ lost' = lost \ {p}
  /\ Goto(p, "poll")
  /\ UNCHANGED <<status, data, copy, id, resv, written>>

\* Mutant: current_id is not counted up.
TakenKeepingTicket(s) == [s EXCEPT !.lock = LOCKED]

Taken(s) == [s EXCEPT !.lock = LOCKED, !.current_id = IncTicket(@)]

\* lock = LOCKED, current_id++ through the store-conditional; a successful SPU
\* clears remnant lost events.
TakeStore(p) ==
  /\ pc[p] = "take_sc"
  /\ IF p \in resv
     THEN /\ status' = Taken(copy[p].status)
          /\ copy' = [copy EXCEPT ![p].status = status']
          /\ resv' = {}
          /\ lost' = (lost \union (resv \cap Spus)) \ {p}
          /\ Goto(p, "critical")
     ELSE Goto(p, "poll") /\ Forget(p) /\ UNCHANGED <<status, resv, lost>>
  /\ UNCHANGED <<data, id, written>>

\* The critical section: an SPU changes its copy, a host thread the line.
Work(p) ==
  /\ pc[p] = "critical"
  /\ written' = 1 - written
  /\ IF p \in Spus
     THEN /\ copy' = [copy EXCEPT ![p].data = 1 - @]
          /\ UNCHANGED <<data, resv, lost>>
     ELSE /\ data' = 1 - data
          /\ BreakReservations(p)
          /\ UNCHANGED copy
  /\ Goto(p, "unlock")
  /\ UNCHANGED <<status, id>>

\* Mutant: the line is loaded over the copy instead of into mutex_buffer.
MergedWhole(c) == line

Merged(c) == [c EXCEPT !.status = status]

\* unlock_put loads the line into mutex_buffer and merges only its status into
\* the copy; a host thread loads the status word.
Unlock(p) ==
  /\ pc[p] = "unlock"
  /\ copy' = [copy EXCEPT ![p] = Merged(@)]
  /\ resv' = resv \union {p}
  /\ Goto(p, "unlock_sc")
  /\ UNCHANGED <<status, data, id, lost, written>>

\* An SPU puts the whole line back, a host thread the status word.
UnlockStore(p) ==
  /\ pc[p] = "unlock_sc"
  /\ IF p \in resv
     THEN /\ status' = [copy[p].status EXCEPT !.lock = UNLOCKED]
          /\ data' = IF p \in Spus THEN copy[p].data ELSE data
          /\ resv' = {}
          /\ lost' = (lost \union (resv \cap Spus)) \ {p}
          /\ Forget(p)
          /\ Goto(p, "idle")
     ELSE Goto(p, "unlock") /\ UNCHANGED <<status, data, copy, resv, lost>>
  /\ UNCHANGED <<id, written>>

\* What a processor does without being asked once it is in lock_get.
Step(p) == \/ Draw(p) \/ DrawStore(p) \/ Poll(p) \/ Wake(p) \/ TakeStore(p)
           \/ Work(p) \/ Unlock(p) \/ UnlockStore(p)

Next == \E p \in Procs : Begin(p) \/ Step(p)

Spec == Init /\ [][Next]_vars

\* Every processor keeps executing once it has called lock_get.
FairSpec == Spec /\ \A p \in Procs : WF_vars(Step(p))

-----------------------------------------------------------------------------
TypeOK ==
  /\ status \in Status
  /\ data \in Data
  /\ pc \in [Procs -> PcLabel]
  /\ copy \in [Procs -> Line]
  /\ id \in [Procs -> Ticket]
  /\ resv \subseteq Procs
  /\ lost \subseteq Spus
  /\ written \in Data

\* At most one processor is between a successful lock_get and the store that
\* unlocks, and the lock byte says so exactly while there is one
\* (mutex.c:39-51, mutex_cell.c:89-101).
MutualExclusion ==
  /\ \A p, q \in Procs : Holds(p) /\ Holds(q) => p = q
  /\ status.lock = LOCKED <=> \E p \in Procs : Holds(p)

\* mutex_unlock_put writes the whole 128-byte line from a copy taken when the
\* lock was granted (mutex.c:97): no critical section's update is undone by it.
\* While nobody holds the lock, memory has what every critical section wrote.
NoLostUpdate ==
  (\A p \in Procs : ~ Holds(p)) => data = written

\* An SPU sleeping on the lost event (mutex.c:41) with no event pending is
\* really not next: whatever makes it next breaks its reservation.
NoLostWakeup ==
  \A p \in Spus : pc[p] = "asleep" /\ p \notin lost =>
    /\ p \in resv
    /\ status.lock = LOCKED \/ status.current_id # id[p]

\* The waiting processor with ticket t, NoProc if there is none.
WaiterAt(t) ==
  CHOOSE p \in Procs \union {NoProc} :
    IF \E q \in Procs : Waits(q) /\ id[q] = t
    THEN p # NoProc /\ Waits(p) /\ id[p] = t
    ELSE p = NoProc

\* Who waits, in ticket order from current_id, and who holds.
Queue ==
  [i \in 1 .. (status.next_id + Tickets - status.current_id) % Tickets |->
    WaiterAt((status.current_id + i - 1) % Tickets)]

Holder == IF \E p \in Procs : Holds(p) THEN CHOOSE p \in Procs : Holds(p) ELSE NoProc

Fifo == INSTANCE FifoLock WITH queue <- Queue, holder <- Holder

\* With fewer processors than ticket values, the ticket lock over load-reserve
\* and store-conditional implements a first-come-first-served lock.
FirstComeFirstServed == Fifo!Spec

\* Every processor that drew a ticket gets the lock, whatever the others do:
\* each can break a reservation only finitely often before it has to wait.
EveryTicketServed == \A p \in Procs : Waits(p) ~> Holds(p)

=============================================================================
