---------------------------- MODULE RoundBarrier ----------------------------
(***************************************************************************)
(* What a two-phase barrier promises: in every round each task arrives     *)
(* once, nobody passes before all have arrived, and the next round begins  *)
(* when all have passed.                                                   *)
(***************************************************************************)
CONSTANT Task

VARIABLES
  arrived,   \* tasks that arrived in this round and have not passed
  passed     \* tasks that have passed in this round

RoundInit == arrived = {} /\ passed = {}

Arrive(t) ==
  /\ t \notin arrived \union passed
  /\ arrived' = arrived \union {t}
  /\ UNCHANGED passed

Pass(t) ==
  /\ t \in arrived
  /\ arrived \union passed = Task
  /\ arrived' = arrived \ {t}
  /\ passed' = IF passed \union {t} = Task THEN {} ELSE passed \union {t}

RoundNext == \E t \in Task : Arrive(t) \/ Pass(t)

RoundSpec == RoundInit /\ [][RoundNext]_<<arrived, passed>>
=============================================================================
