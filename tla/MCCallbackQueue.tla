--------------------------- MODULE MCCallbackQueue ---------------------------
(* Small callback queues: one or two kernels, up to three workloads.       *)
EXTENDS CallbackQueue, TLC

CONSTANTS k1, k2, w1, w2, w3

Symmetry == Permutations(Kernels) \union Permutations(Workloads)
=============================================================================
