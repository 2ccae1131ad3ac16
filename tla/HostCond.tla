------------------------------ MODULE HostCond ------------------------------
(***************************************************************************)
(* A host thread that waits for a word of a shared object to change        *)
(* (cond_cell.c).  mars_ea_cond_wait tests the word in memory and sleeps   *)
(* in one step as far as broadcasts are concerned, since both hold         *)
(* eaCondMutex; every event from an SPU becomes a broadcast to all.  The   *)
(* caller then takes the object's lock and tests the object itself.        *)
(***************************************************************************)
CONSTANT Host

VARIABLES
  hostpc,   \* "idle", "testing", "asleep", "relock" (the test succeeded)
  hostop,   \* the call a host thread is inside of
  event     \* an event was sent and the handler thread has not received it

hostVars == <<hostpc, hostop, event>>

HostTypeOK ==
  /\ hostpc \in [Host -> {"idle", "testing", "asleep", "relock"}]
  /\ hostop \in [Host -> {"none", "flag_wait", "push", "pop", "peek"}]
  /\ event \in BOOLEAN

HostInit ==
  /\ hostpc = [h \in Host |-> "idle"]
  /\ hostop = [h \in Host |-> "none"]
  /\ event = FALSE

HostTo(h, pc, o) ==
  /\ hostpc' = [hostpc EXCEPT ![h] = pc]
  /\ hostop' = [hostop EXCEPT ![h] = o]
  /\ UNCHANGED event

\* h has the object's lock: at the start of call o, or after a successful test.
HostLocks(h, o) == hostpc[h] = "idle" \/ (hostpc[h] = "relock" /\ hostop[h] = o)

\* The loop of mars_ea_cond_wait: leave with the condition, or sleep.
HostTests(h, o, condition) ==
  /\ hostpc[h] = "testing" /\ hostop[h] = o
  /\ HostTo(h, IF condition THEN "relock" ELSE "asleep", o)

\* The event handler thread broadcasts (mars_ea_cond_signal): all test again.
Broadcast ==
  /\ event
  /\ event' = FALSE
  /\ hostpc' = [h \in Host |-> IF hostpc[h] = "asleep" THEN "testing" ELSE hostpc[h]]
  /\ UNCHANGED hostop
=============================================================================
