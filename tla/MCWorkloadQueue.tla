-------------------------- MODULE MCWorkloadQueue --------------------------
(***************************************************************************)
(* Small workload queues.  Most runs start from a queue to which workloads *)
(* were added, so that the schedule is not spent on adding them.           *)
(***************************************************************************)
EXTENDS WorkloadQueue, TLC

CONSTANTS k1, k2, h1, h2,
          NumAdded     \* how many workloads were added before the run starts

KernelSymmetry == Permutations(Kernels)

Added == {i \in Ids : i[1] * PerBlock + i[2] <= NumAdded}

AddedSpec == InitWith(Added) /\ [][Next]_vars

\* The same number of workloads, in turn over the first n blocks.
Spread(n) == {i \in Ids : i[1] < n /\ (i[2] - 1) * n + i[1] < NumAdded}

FairAddedSpec ==
  (\E n \in Blocks : InitWith(Spread(n + 1))) /\ [][Next]_vars /\ Fairness

\* Bounds: the workloads of one block wait for each other, not for themselves, and
\* the host waits for them; those of two blocks compete, until the kernels are told to exit.
Present == {i \in Ids : pub[i] # "NONE"}
Waits   == {<<i, bits'[i].wait_id>> : i \in Ids} \union {<<h, tgt'[h]>> : h \in Hosts}
ShareCalls ==
  IF \A i \in Present : Block(i) = 0
  THEN ~ flag' /\ \A w \in Waits : w[2] \in (Present \ {w[1]}) \union {NoId}
  ELSE \A w \in Waits : w[2] = NoId
=============================================================================
