----------------------------- MODULE MCTaskSync -----------------------------
(***************************************************************************)
(* Three tasks and a host thread, two items.                               *)
(***************************************************************************)
EXTENDS TaskSync, TLC

CONSTANTS t1, t2, t3, h1, i1, i2

ClientSymmetry == Permutations(Task) \union Permutations(Item)
=============================================================================
