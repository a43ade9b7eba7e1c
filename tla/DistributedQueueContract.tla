----------------------- MODULE DistributedQueueContract -----------------------
(***************************************************************************)
(* The SQLite queue keeps the contract of JobContract.  A job is owned      *)
(* while its row is leased or running, by the worker and token of its lease *)
(* columns; its answer is the receipt of its row or of its fence.           *)
(***************************************************************************)
EXTENDS DistributedQueue

StatusOf(s) == IF s \in Active THEN "owned" ELSE s

Contract == INSTANCE JobContract WITH
    Answer <- Receipt,
    NoOwner <- <<NoWorker, 0>>,
    NoAnswer <- NoReceipt,
    Key <- [j \in Job |-> Request[j].key],
    Once <- {j \in Job : Request[j].mode = "non_idempotent"},
    Budget <- [j \in Job |-> Request[j].limit],
    Legacy <- LegacyJobs,
    status <- [j \in Job |-> StatusOf(jobState[j])],
    owner <- [j \in Job |-> <<leaseWorker[j], leaseToken[j]>>],
    grants <- attempt,
    effects <- effectRuns,
    answer <- receipt,
    told <- acked

(* Every transaction of the queue, of its sweeps, of its start-up code and  *)
(* every crash moves each job as the contract allows, or not at all.        *)
KeepsContract == Contract!Spec
=============================================================================
