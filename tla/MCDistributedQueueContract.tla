---------------------- MODULE MCDistributedQueueContract ----------------------
(* An instance of DistributedQueueContract for TLC.                         *)
EXTENDS DistributedQueueContract, MCDistributedQueue

CONSTANT j4

\* Two jobs that fight for one key that may be used once, and two for a key
\* that is free again when its tombstone is pruned.
ContractJobs == j1 :> [key |-> k1, mode |-> "non_idempotent", limit |-> 1]
             @@ j2 :> [key |-> k1, mode |-> "non_idempotent", limit |-> 1]
             @@ j3 :> [key |-> k2, mode |-> "idempotent", limit |-> 1]
             @@ j4 :> [key |-> k2, mode |-> "idempotent", limit |-> 1]
=============================================================================
