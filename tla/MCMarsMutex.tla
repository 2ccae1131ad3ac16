---------------------------- MODULE MCMarsMutex ----------------------------
(***************************************************************************)
(* Two SPUs and a host thread contending for one mutex, with four ticket   *)
(* values so that current_id and next_id wrap many times.                  *)
(***************************************************************************)
EXTENDS MarsMutex

CONSTANTS s1, s2,     \* the SPUs
          h1          \* the host thread
=============================================================================
