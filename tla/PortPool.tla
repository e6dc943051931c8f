------------------------------ MODULE PortPool ------------------------------
(***************************************************************************)
(* PortPool::ForWorker: the stack of SNAT ports a worker starts with.      *)
(***************************************************************************)
EXTENDS Naturals, Sequences

\* The ports from high down to low that belong to worker_id, in push order.
ForWorker(worker_id, n_workers, low, high) ==
  SelectSeq([i \in 1 .. (high - low + 1) |-> high + 1 - i],
            LAMBDA port : port % n_workers = worker_id)
=============================================================================
