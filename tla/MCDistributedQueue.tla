------------------------- MODULE MCDistributedQueue -------------------------
(* Instances of DistributedQueue for TLC.                                   *)
EXTENDS DistributedQueue, TLC

CONSTANTS j1, j2, j3, k1, k2

\* One non-idempotent job with two attempts.
EffectJob == j1 :> [key |-> k1, mode |-> "non_idempotent", limit |-> 2]

\* A job with a side effect and a second attempt, and one that may be done
\* again under another key.
LeaseJobs == j1 :> [key |-> k1, mode |-> "non_idempotent", limit |-> 2]
          @@ j2 :> [key |-> k2, mode |-> "idempotent", limit |-> 1]

WorkerSymmetry == Permutations(Worker)

-----------------------------------------------------------------------------
(* Damaged databases of every kind, with small numbers.                     *)
DamagedInit ==
    /\ jobState \in [Job -> Active]
    /\ attempt \in [Job -> 1 .. 2]
    /\ effect \in [Job -> {"none", "started"}]
    /\ ckpt = [j \in Job |-> 0]
    /\ receipt = [j \in Job |-> NoReceipt]
    /\ leaseWorker \in [Job -> Worker \cup {NoWorker}]
    /\ leaseToken \in {t \in [Job -> 0 .. 2] : \A j \in Job : t[j] \in {0, attempt[j]}}
    /\ ttl \in [Job -> Cleared .. LeaseTicks]
    /\ fence = [k \in Key |-> NoFence]
    /\ workerState \in [Worker -> {"absent", "active", "revoked"}]
    /\ maxSlots = [w \in Worker |-> IF workerState[w] = "absent" THEN 0 ELSE 1]
    /\ activeLeases \in {a \in [Worker -> 0 .. 2] : \A w \in Worker : workerState[w] = "absent" => a[w] = 0}
    /\ age = [w \in Worker |-> 0]
    /\ phase = "clock"
    /\ sweep = "idle"
    /\ crashes = 0
    /\ granted = [j \in Job |-> Worker \X {attempt[j]}]
    /\ acked = [j \in Job |-> {}]
    /\ effectRuns = [j \in Job |-> IF effect[j] = "started" THEN 1 ELSE 0]
    /\ approvals = [j \in Job |-> 0]
    /\ Damaged

(* A start from a sound or from a damaged database.                          *)
RecoverySpec == (Init \/ DamagedInit) /\ [][Next]_vars /\ Fairness
=============================================================================
