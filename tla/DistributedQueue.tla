--------------------------- MODULE DistributedQueue ---------------------------
(***************************************************************************)
(* The durable queue of the Enterprise server on its SQLite backend:        *)
(* DurableDistributedQueue with its worker and maintenance mixins.          *)
(*                                                                         *)
(* Every public operation is one BEGIN IMMEDIATE transaction taken under    *)
(* the process lock, so one action is one transaction.  What interleaves    *)
(* is the order of transactions: several workers with leases they still     *)
(* hold, leases they lost, and calls they repeat; the two-transaction       *)
(* sweep a lease request runs when it is due; the operator; the passing of  *)
(* time; a crash between any two transactions and the five transactions of  *)
(* the next start.                                                          *)
(*                                                                         *)
(* Time is relative: ttl[j] is lease_expires_at minus now, in ticks, and    *)
(* age[w] is now minus heartbeat_at.  Both stop at the value past which no  *)
(* comparison of the code changes its answer.                               *)
(***************************************************************************)
EXTENDS Integers, FiniteSets, FiniteSetsExt

CONSTANTS
    Job,             \* enqueue calls that may be made; each creates its own job id
    Key,             \* idempotency keys
    Worker,          \* worker identities
    Result,          \* result hashes a worker may present
    NoJob, NoWorker, NoResult,     \* the empty columns
    Request,         \* what each enqueue call asks for
    MaxSlots,        \* the largest max_slots a worker registers with
    CutoverSlots,    \* high_concurrency_cutover_slots of the SQLite backend
    LeaseTicks,      \* DEFAULT_LEASE_SECONDS
    GraceTicks,      \* lease_grace_seconds
    HeartbeatTicks,  \* _worker_heartbeat_timeout_seconds
    MaxJobs,         \* MAX_JOBS
    MaxTerminal,     \* max_terminal of retain_terminal_jobs
    MaxTombstones,   \* max_idempotent_tombstones of retain_terminal_jobs
    LegacyJobs,      \* jobs a database of an earlier release already completed
    MaxApprovals,    \* bound: operator retries of one job
    MaxCrashes       \* bound: crashes of the server

Modes == {"idempotent", "non_idempotent"}

ASSUME NullAssumption ==
    /\ NoJob \notin Job
    /\ NoWorker \notin Worker
    /\ NoResult \notin Result

ASSUME RequestAssumption ==
    Request \in [Job -> [key : Key, mode : Modes, limit : Nat \ {0}]]

ASSUME BoundAssumption ==
    /\ MaxSlots \in Nat \ {0}
    /\ CutoverSlots \in Nat
    /\ LeaseTicks \in Nat \ {0}
    /\ GraceTicks \in Nat
    /\ HeartbeatTicks \in Nat \ {0}
    /\ MaxJobs \in Nat
    /\ MaxTerminal \in Nat
    /\ MaxTombstones \in Nat
    /\ MaxApprovals \in Nat
    /\ MaxCrashes \in Nat

ASSUME FiniteAssumption == IsFiniteSet(Job) /\ IsFiniteSet(Worker)

(* idempotency_key is UNIQUE in the table the earlier release left behind. *)
ASSUME LegacyAssumption ==
    /\ LegacyJobs \subseteq Job
    /\ \A i, j \in LegacyJobs : Request[i].key = Request[j].key => i = j

VARIABLES
    jobState,      \* distributed_jobs.state; "absent" before the insert, "pruned" after the delete
    attempt,       \* distributed_jobs.attempt
    effect,        \* distributed_jobs.side_effect_state
    ckpt,          \* the token of the lease that wrote checkpoint_json, 0 for '{}'
    receipt,       \* terminal_worker_id, terminal_lease_token_sha256, result_sha256
    leaseWorker,   \* lease_worker_id
    leaseToken,    \* lease_token_sha256, 0 for ''
    ttl,           \* lease_expires_at - now, Cleared for a column that is 0
    fence,         \* distributed_job_idempotency, by key
    workerState,   \* distributed_workers.state, "absent" without a row
    maxSlots,      \* distributed_workers.max_slots
    activeLeases,  \* distributed_workers.active_leases
    age,           \* now - heartbeat_at
    phase,         \* the transaction initialize() runs next, "up" once it returned
    sweep,         \* the transaction the holder of _expiry_scan_lock runs next
    crashes,       \* bound counter
    granted,       \* history: the leases handed to each worker
    acked,         \* history: the receipts a worker was told are durable
    effectRuns,    \* history: how often the fenced side effect was let through
    approvals      \* history: operator retries

jobVars == <<jobState, attempt, effect, ckpt, receipt>>
leaseVars == <<leaseWorker, leaseToken, ttl>>
workerVars == <<workerState, maxSlots, activeLeases, age>>
processVars == <<phase, sweep, crashes>>
history == <<granted, acked, effectRuns, approvals>>
vars == <<jobVars, leaseVars, fence, workerVars, processVars, history>>

-----------------------------------------------------------------------------
Active == {"leased", "running"}
Terminal == {"completed", "failed"}
JobStates == {"absent", "queued", "review_required", "pruned"} \cup Active \cup Terminal

Cleared == -(GraceTicks + 1)
Expired == -GraceTicks

Receipt == [worker : Worker \cup {NoWorker}, token : Nat, result : Result \cup {NoResult}]
NoReceipt == [worker |-> NoWorker, token |-> 0, result |-> NoResult]
Fence == [job : Job \cup {NoJob}, state : Terminal \cup {"none"}, receipt : Receipt]
NoFence == [job |-> NoJob, state |-> "none", receipt |-> NoReceipt]

BootPhases == {"clock", "backfill", "reconcile", "stale", "expired"}

Rows == {j \in Job : jobState[j] \notin {"absent", "pruned"}}
TerminalRows == {j \in Job : jobState[j] \in Terminal}
ActiveRows == {j \in Job : jobState[j] \in Active}
Held(w) == {j \in ActiveRows : leaseWorker[j] = w}
Floor0(n) == IF n < 0 THEN 0 ELSE n
Smaller(m, n) == IF m < n THEN m ELSE n

(* Mutants: no review after a started effect; one attempt too many.         *)
ReleaseTargetWithoutReview(j, retryable) ==
    IF retryable /\ attempt[j] < Request[j].limit THEN "queued" ELSE "failed"
ReleaseTargetOffByOne(j, retryable) ==
    IF Request[j].mode = "non_idempotent" /\ effect[j] = "started"
    THEN "review_required"
    ELSE IF retryable /\ attempt[j] <= Request[j].limit THEN "queued" ELSE "failed"

(* The automatic transition out of an active lease: a non-idempotent effect *)
(* that may have begun goes to an operator, an attempt left goes back to    *)
(* the queue, and the rest fails.                                           *)
ReleaseTarget(j, retryable) ==
    IF Request[j].mode = "non_idempotent" /\ effect[j] = "started"
    THEN "review_required"
    ELSE IF retryable /\ attempt[j] < Request[j].limit THEN "queued" ELSE "failed"

(* Mutant: a fence that is already there is refused, also to its own job.   *)
FenceAbsent(F) == \A j \in F : fence[Request[j].key].job = NoJob

(* _store_terminal_fence: it raises, and the transaction rolls back, when   *)
(* the key is fenced for another job.                                       *)
FenceFree(F) == \A j \in F : fence[Request[j].key].job \in {NoJob, j}

WithFences(F, states) ==
    [k \in Key |->
        IF \E j \in F : Request[j].key = k
        THEN LET j == CHOOSE j \in F : Request[j].key = k
             IN  [job |-> j, state |-> states[j], receipt |-> receipt[j]]
        ELSE fence[k]]

ClearLeases(S) ==
    /\ leaseWorker' = [j \in Job |-> IF j \in S THEN NoWorker ELSE leaseWorker[j]]
    /\ leaseToken' = [j \in Job |-> IF j \in S THEN 0 ELSE leaseToken[j]]
    /\ ttl' = [j \in Job |-> IF j \in S THEN Cleared ELSE ttl[j]]

(* Mutant: a failed job leaves no fence.                                    *)
ReleaseUnfenced(S, retryable) ==
    /\ jobState' = [j \in Job |-> IF j \in S THEN ReleaseTarget(j, retryable) ELSE jobState[j]]
    /\ ClearLeases(S)
    /\ UNCHANGED <<attempt, effect, ckpt, receipt, fence>>

(* One release of the leases in S: the rows, their terminal fences.         *)
Release(S, retryable) ==
    LET F == {j \in S : ReleaseTarget(j, retryable) = "failed"}
    IN  /\ FenceFree(F)
        /\ jobState' = [j \in Job |-> IF j \in S THEN ReleaseTarget(j, retryable) ELSE jobState[j]]
        /\ ClearLeases(S)
        /\ fence' = WithFences(F, [j \in F |-> "failed"])
        /\ UNCHANGED <<attempt, effect, ckpt, receipt>>

(* Mutant: a worker that loses several leases is uncounted once.            *)
UncountOnce(S) ==
    activeLeases' = [w \in Worker |->
        IF \E j \in S : leaseWorker[j] = w THEN Floor0(activeLeases[w] - 1) ELSE activeLeases[w]]

(* active_leases := max(0, active_leases - n) for each worker losing n.     *)
Uncount(S) ==
    activeLeases' = [w \in Worker |->
        Floor0(activeLeases[w] - Cardinality({j \in S : leaseWorker[j] = w}))]

-----------------------------------------------------------------------------
TypeOK ==
    /\ jobState \in [Job -> JobStates]
    /\ attempt \in [Job -> Nat]
    /\ effect \in [Job -> {"none", "started", "completed"}]
    /\ ckpt \in [Job -> Nat]
    /\ receipt \in [Job -> Receipt]
    /\ leaseWorker \in [Job -> Worker \cup {NoWorker}]
    /\ leaseToken \in [Job -> Nat]
    /\ ttl \in [Job -> Cleared .. LeaseTicks]
    /\ fence \in [Key -> Fence]
    /\ workerState \in [Worker -> {"absent", "active", "draining", "revoked"}]
    /\ maxSlots \in [Worker -> 0 .. MaxSlots]
    /\ activeLeases \in [Worker -> Nat]
    /\ age \in [Worker -> 0 .. HeartbeatTicks]
    /\ phase \in BootPhases \cup {"up"}
    /\ sweep \in {"idle", "stale", "expired"}
    /\ crashes \in 0 .. MaxCrashes
    /\ granted \in [Job -> SUBSET (Worker \X Nat)]
    /\ acked \in [Job -> SUBSET Receipt]
    /\ effectRuns \in [Job -> Nat]
    /\ approvals \in [Job -> 0 .. MaxApprovals]

(* A new database, or one an earlier release left with completed jobs and   *)
(* no idempotency fences.                                                   *)
Init ==
    /\ jobState = [j \in Job |-> IF j \in LegacyJobs THEN "completed" ELSE "absent"]
    /\ attempt = [j \in Job |-> IF j \in LegacyJobs THEN 1 ELSE 0]
    /\ effect = [j \in Job |-> "none"]
    /\ ckpt = [j \in Job |-> 0]
    /\ receipt = [j \in Job |-> NoReceipt]
    /\ leaseWorker = [j \in Job |-> NoWorker]
    /\ leaseToken = [j \in Job |-> 0]
    /\ ttl = [j \in Job |-> Cleared]
    /\ fence = [k \in Key |-> NoFence]
    /\ workerState = [w \in Worker |-> "absent"]
    /\ maxSlots = [w \in Worker |-> 0]
    /\ activeLeases = [w \in Worker |-> 0]
    /\ age = [w \in Worker |-> 0]
    /\ phase = "clock"
    /\ sweep = "idle"
    /\ crashes = 0
    /\ granted = [j \in Job |-> {}]
    /\ acked = [j \in Job |-> {}]
    /\ effectRuns = [j \in Job |-> 0]
    /\ approvals = [j \in Job |-> 0]

-----------------------------------------------------------------------------
(* Admission and bounded history.                                           *)

Up == phase = "up"

(* Mutant: tombstones are pruned whatever their mode.                       *)
PruneChoiceAnyMode(D, T, keep, tombstones) ==
    LET all == {k \in Key : WithFences(D, jobState)[k].job # NoJob}
    IN  /\ D \subseteq TerminalRows
        /\ Cardinality(D) = Floor0(Cardinality(TerminalRows) - keep)
        /\ T \subseteq all
        /\ Cardinality(T) = Floor0(Cardinality(all) - tombstones)

(* _retain_terminal_locked: D are the terminal rows past the max most       *)
(* recent ones, T the idempotent tombstones past the limit; which ones they *)
(* are is the order of updated_at and terminal_at, not modelled.  A         *)
(* tombstone whose key still has a row stays.                               *)
PruneChoice(D, T, keep, tombstones) ==
    LET fenced == WithFences(D, jobState)
        idem == {k \in Key : fenced[k].job # NoJob /\ Request[fenced[k].job].mode = "idempotent"}
    IN  /\ D \subseteq TerminalRows
        /\ Cardinality(D) = Floor0(Cardinality(TerminalRows) - keep)
        /\ FenceFree(D)
        /\ T \subseteq idem
        /\ Cardinality(T) = Floor0(Cardinality(idem) - tombstones)

Prune(D, T) ==
    LET orphans == {k \in T : \A j \in Rows \ D : Request[j].key # k}
    IN  fence' = [k \in Key |-> IF k \in orphans THEN NoFence
                               ELSE WithFences(D, jobState)[k]]

(* retain_terminal_jobs, run by the control plane.                          *)
RetainTerminal ==
    /\ Up
    /\ \E D \in SUBSET TerminalRows, T \in SUBSET Key :
        /\ PruneChoice(D, T, MaxTerminal, MaxTombstones)
        /\ Prune(D, T)
        /\ jobState' = [j \in Job |-> IF j \in D THEN "pruned" ELSE jobState[j]]
    /\ UNCHANGED <<attempt, effect, ckpt, receipt, leaseVars, workerVars, processVars, history>>

(* Mutant: only the rows are asked, not the fences.                         *)
KeyFreeInRows(k) == \A i \in Rows : Request[i].key # k

KeyFree(k) ==
    /\ \A i \in Rows : Request[i].key # k
    /\ fence[k].job = NoJob

(* enqueue of a key no row and no fence knows.  A known key returns the id  *)
(* it has or is refused, and changes nothing.  A full table first prunes    *)
(* its history down to MAX_JOBS // 2 - 1 terminal rows.                     *)
Enqueue(j) ==
    /\ Up
    /\ jobState[j] = "absent"
    /\ KeyFree(Request[j].key)
    /\ \E D \in SUBSET TerminalRows, T \in SUBSET Key :
        /\ IF Cardinality(Rows) >= MaxJobs
           THEN PruneChoice(D, T, Floor0((MaxJobs \div 2) - 1), MaxJobs)
           ELSE D = {} /\ T = {}
        /\ Cardinality(Rows \ D) < MaxJobs
        /\ Prune(D, T)
        /\ jobState' = [i \in Job |-> IF i = j THEN "queued"
                                     ELSE IF i \in D THEN "pruned" ELSE jobState[i]]
    /\ UNCHANGED <<attempt, effect, ckpt, receipt, leaseVars, workerVars, processVars, history>>

-----------------------------------------------------------------------------
(* Leases and the calls fenced by them.                                     *)

(* One transaction of lease_next or lease_many: the worker takes the jobs   *)
(* S, each under a fresh random token.  attempt grows with every lease and  *)
(* nothing decreases it, so it names the token.                             *)
Lease(w, S) ==
    /\ Up
    /\ workerState[w] = "active"
    /\ S \subseteq {j \in Job : jobState[j] = "queued"}
    /\ Cardinality(S) <= maxSlots[w] - activeLeases[w]
    /\ jobState' = [j \in Job |-> IF j \in S THEN "leased" ELSE jobState[j]]
    /\ attempt' = [j \in Job |-> IF j \in S THEN attempt[j] + 1 ELSE attempt[j]]
    /\ leaseWorker' = [j \in Job |-> IF j \in S THEN w ELSE leaseWorker[j]]
    /\ leaseToken' = [j \in Job |-> IF j \in S THEN attempt[j] + 1 ELSE leaseToken[j]]
    /\ ttl' = [j \in Job |-> IF j \in S THEN LeaseTicks ELSE ttl[j]]
    /\ activeLeases' = [activeLeases EXCEPT ![w] = @ + Cardinality(S)]
    /\ age' = [age EXCEPT ![w] = 0]
    /\ granted' = [j \in Job |-> IF j \in S THEN granted[j] \cup {<<w, attempt[j] + 1>>}
                                 ELSE granted[j]]
    /\ UNCHANGED <<effect, ckpt, receipt, fence, workerState, maxSlots, processVars,
                   acked, effectRuns, approvals>>

LeaseNext(w) == \E j \in Job : Lease(w, {j})
LeaseMany(w) == \E S \in SUBSET Job : S # {} /\ Lease(w, S)

(* A worker presents a lease it was granted, now or long ago, perhaps again.*)
Presents(j, w, t) == Up /\ <<w, t>> \in granted[j]

(* Mutant: the worker is compared, its token is not.                        *)
HoldsLeaseAnyToken(j, w, t) ==
    /\ workerState[w] \notin {"absent", "revoked"}
    /\ jobState[j] \in Active
    /\ leaseWorker[j] = w
    /\ ttl[j] > 0

(* _require_lease_locked.                                                   *)
HoldsLease(j, w, t) ==
    /\ workerState[w] \notin {"absent", "revoked"}
    /\ jobState[j] \in Active
    /\ leaseWorker[j] = w
    /\ leaseToken[j] # 0 /\ leaseToken[j] = t
    /\ ttl[j] > 0

StartJob(j, w, t) ==
    /\ Presents(j, w, t)
    /\ HoldsLease(j, w, t)
    /\ jobState[j] # "running"
    /\ jobState' = [jobState EXCEPT ![j] = "running"]
    /\ UNCHANGED <<attempt, effect, ckpt, receipt, leaseVars, fence, workerVars, processVars, history>>

(* Mutant: the renewal is added to the time left.                           *)
RenewLeaseAdding(j, w, t) ==
    /\ Presents(j, w, t)
    /\ HoldsLease(j, w, t)
    /\ ttl' = [ttl EXCEPT ![j] = @ + LeaseTicks]
    /\ age' = [age EXCEPT ![w] = 0]
    /\ UNCHANGED <<jobVars, leaseWorker, leaseToken, fence, workerState, maxSlots, activeLeases,
                   processVars, history>>

RenewLease(j, w, t) ==
    /\ Presents(j, w, t)
    /\ HoldsLease(j, w, t)
    /\ ttl' = [ttl EXCEPT ![j] = LeaseTicks]
    /\ age' = [age EXCEPT ![w] = 0]
    /\ UNCHANGED <<jobVars, leaseWorker, leaseToken, fence, workerState, maxSlots, activeLeases,
                   processVars, history>>

Checkpoint(j, w, t) ==
    /\ Presents(j, w, t)
    /\ HoldsLease(j, w, t)
    /\ ckpt' = [ckpt EXCEPT ![j] = t]
    /\ UNCHANGED <<jobState, attempt, effect, receipt, leaseVars, fence, workerVars, processVars, history>>

(* mark_side_effect_started, after which the worker runs the effect.        *)
MarkSideEffectStarted(j, w, t) ==
    /\ Presents(j, w, t)
    /\ HoldsLease(j, w, t)
    /\ Request[j].mode = "non_idempotent"
    /\ effect[j] # "started"
    /\ effect' = [effect EXCEPT ![j] = "started"]
    /\ effectRuns' = [effectRuns EXCEPT ![j] = @ + 1]
    /\ UNCHANGED <<jobState, attempt, ckpt, receipt, leaseVars, fence, workerVars, processVars,
                   granted, acked, approvals>>

(* A worker gives its lease back: handover_lease and fail.                  *)
GiveBack(j, w, t, retryable) ==
    /\ Presents(j, w, t)
    /\ HoldsLease(j, w, t)
    /\ Release({j}, retryable)
    /\ Uncount({j})
    /\ age' = [age EXCEPT ![w] = 0]
    /\ UNCHANGED <<workerState, maxSlots, processVars, history>>

HandoverLease(j, w, t) == GiveBack(j, w, t, TRUE)
Fail(j, w, t) == \E retryable \in BOOLEAN : GiveBack(j, w, t, retryable)

(* complete under a live lease.  The reply may be lost after the commit.    *)
Complete(j, w, t, r) ==
    LET done == [worker |-> w, token |-> t, result |-> r]
    IN  /\ Presents(j, w, t)
        /\ HoldsLease(j, w, t)
        /\ FenceFree({j})
        /\ jobState' = [jobState EXCEPT ![j] = "completed"]
        /\ effect' = [effect EXCEPT ![j] = IF @ = "started" THEN "completed" ELSE @]
        /\ receipt' = [receipt EXCEPT ![j] = done]
        /\ ClearLeases({j})
        /\ fence' = [fence EXCEPT ![Request[j].key] = [job |-> j, state |-> "completed", receipt |-> done]]
        /\ Uncount({j})
        /\ age' = [age EXCEPT ![w] = 0]
        /\ \E delivered \in BOOLEAN :
             acked' = [acked EXCEPT ![j] = IF delivered THEN @ \cup {done} ELSE @]
        /\ UNCHANGED <<attempt, ckpt, workerState, maxSlots, processVars, granted, effectRuns, approvals>>

(* complete repeated after the job is done: the row, or the fence once the  *)
(* row is pruned, answers an exact replay with success.                     *)
DurableReceipt(j) ==
    CASE jobState[j] = "completed" -> {receipt[j]}
      [] jobState[j] = "pruned" -> {fence[k].receipt : k \in {k \in Key : fence[k].job = j /\ fence[k].state = "completed"}}
      [] OTHER -> {}

(* Mutant: the replayed result is not compared.                             *)
ReplayCompleteAnyResult(j, w, t, r) ==
    LET done == [worker |-> w, token |-> t, result |-> r]
    IN  /\ Presents(j, w, t)
        /\ \E d \in DurableReceipt(j) : d.worker = w /\ d.token = t
        /\ acked' = [acked EXCEPT ![j] = @ \cup {done}]
        /\ UNCHANGED <<jobVars, leaseVars, fence, workerVars, processVars, granted, effectRuns, approvals>>

ReplayComplete(j, w, t, r) ==
    LET done == [worker |-> w, token |-> t, result |-> r]
    IN  /\ Presents(j, w, t)
        /\ done \in DurableReceipt(j)
        /\ acked' = [acked EXCEPT ![j] = @ \cup {done}]
        /\ UNCHANGED <<jobVars, leaseVars, fence, workerVars, processVars, granted, effectRuns, approvals>>

(* Mutant: a failed job can be retried too.                                 *)
RetryFailedToo(j) ==
    /\ Up
    /\ jobState[j] \in {"review_required", "failed"}
    /\ approvals[j] < MaxApprovals
    /\ jobState' = [jobState EXCEPT ![j] = "queued"]
    /\ effect' = [effect EXCEPT ![j] = "none"]
    /\ approvals' = [approvals EXCEPT ![j] = @ + 1]
    /\ UNCHANGED <<attempt, ckpt, receipt, leaseVars, fence, workerVars, processVars,
                   granted, acked, effectRuns>>

(* retry_review_required by an operator.  attempt is kept.                  *)
RetryReviewRequired(j) ==
    /\ Up
    /\ jobState[j] = "review_required"
    /\ approvals[j] < MaxApprovals
    /\ jobState' = [jobState EXCEPT ![j] = "queued"]
    /\ effect' = [effect EXCEPT ![j] = "none"]
    /\ approvals' = [approvals EXCEPT ![j] = @ + 1]
    /\ UNCHANGED <<attempt, ckpt, receipt, leaseVars, fence, workerVars, processVars,
                   granted, acked, effectRuns>>

-----------------------------------------------------------------------------
(* Workers.                                                                 *)

SlotsOfOthers(w) == MapThenSumSet(LAMBDA v : maxSlots[v],
                                  {v \in Worker \ {w} : workerState[v] \notin {"absent", "revoked"}})

(* EnterpriseServerRuntime.register_worker: a first registration, or a      *)
(* later one of the same identity with another number of slots.             *)
RegisterWorker(w, slots) ==
    /\ Up
    /\ workerState[w] # "revoked"
    /\ SlotsOfOthers(w) + slots < CutoverSlots
    /\ workerState' = [workerState EXCEPT ![w] = IF @ = "absent" THEN "active" ELSE @]
    /\ maxSlots' = [maxSlots EXCEPT ![w] = slots]
    /\ age' = [age EXCEPT ![w] = 0]
    /\ UNCHANGED <<jobVars, leaseVars, fence, activeLeases, processVars, history>>

Heartbeat(w) ==
    /\ Up
    /\ workerState[w] \notin {"absent", "revoked"}
    /\ age' = [age EXCEPT ![w] = 0]
    /\ UNCHANGED <<jobVars, leaseVars, fence, workerState, maxSlots, activeLeases, processVars, history>>

SetWorkerDrain(w, drain) ==
    /\ Up
    /\ workerState[w] \notin {"absent", "revoked"}
    /\ workerState' = [workerState EXCEPT ![w] = IF drain THEN "draining" ELSE "active"]
    /\ UNCHANGED <<jobVars, leaseVars, fence, maxSlots, activeLeases, age, processVars, history>>

(* Mutant: a revoked worker keeps its rows.                                 *)
RevokeWorkerOnly(w) ==
    /\ Up
    /\ workerState[w] # "absent"
    /\ workerState' = [workerState EXCEPT ![w] = "revoked"]
    /\ activeLeases' = [activeLeases EXCEPT ![w] = 0]
    /\ UNCHANGED <<jobVars, leaseVars, fence, maxSlots, age, processVars, history>>

RevokeWorker(w) ==
    /\ Up
    /\ workerState[w] # "absent"
    /\ Release(Held(w), TRUE)
    /\ workerState' = [workerState EXCEPT ![w] = "revoked"]
    /\ activeLeases' = [activeLeases EXCEPT ![w] = 0]
    /\ UNCHANGED <<maxSlots, age, processVars, history>>

-----------------------------------------------------------------------------
(* Recovery.                                                                *)

StaleRows == {j \in ActiveRows : /\ leaseWorker[j] # NoWorker
                                 /\ workerState[leaseWorker[j]] # "absent"
                                 /\ age[leaseWorker[j]] >= HeartbeatTicks
                                 /\ ttl[j] > 0}
(* Mutant: a lease exactly at the cutoff is not expired.                    *)
ExpiredRowsStrict == {j \in ActiveRows : ttl[j] # Cleared /\ ttl[j] < Expired}
ExpiredRows == {j \in ActiveRows : ttl[j] # Cleared /\ ttl[j] <= Expired}

(* A row reconcile_durable_state cannot trust: an active state without its  *)
(* lease columns, or leased to a worker that is gone.                       *)
InvalidRows == {j \in ActiveRows : \/ leaseWorker[j] = NoWorker \/ leaseToken[j] = 0 \/ ttl[j] = Cleared
                                   \/ workerState[leaseWorker[j]] \in {"absent", "revoked"}}

Recover(S) == Release(S, TRUE) /\ Uncount(S)

(* _recover_expired_leases_if_due: one caller at a time holds               *)
(* _expiry_scan_lock and runs two transactions.  A lease request that is    *)
(* not due, or finds the lock taken, goes straight to Lease; so does the    *)
(* holder after its sweep.                                                  *)
BeginSweep ==
    /\ Up
    /\ sweep = "idle"
    /\ sweep' = "stale"
    /\ UNCHANGED <<jobVars, leaseVars, fence, workerVars, phase, crashes, history>>

RecoverStaleWorkerLeases ==
    /\ Up
    /\ sweep = "stale"
    /\ Recover(StaleRows)
    /\ sweep' = "expired"
    /\ UNCHANGED <<workerState, maxSlots, age, phase, crashes, history>>

RecoverExpiredLeases ==
    /\ Up
    /\ sweep = "expired"
    /\ Recover(ExpiredRows)
    /\ sweep' = "idle"
    /\ UNCHANGED <<workerState, maxSlots, age, phase, crashes, history>>

(* recover_expired_leases called by itself, by the control plane.           *)
ControlPlaneRecovery ==
    /\ Up
    /\ Recover(ExpiredRows)
    /\ UNCHANGED <<workerState, maxSlots, age, processVars, history>>

-----------------------------------------------------------------------------
(* Time, crashes and the transactions of initialize().                      *)

Tick ==
    /\ ttl' = [j \in Job |-> IF ttl[j] = Cleared \/ ttl[j] <= Expired THEN ttl[j] ELSE ttl[j] - 1]
    /\ age' = [w \in Worker |-> IF workerState[w] = "absent" THEN age[w]
                                ELSE Smaller(HeartbeatTicks, age[w] + 1)]
    /\ <<ttl, age>>' # <<ttl, age>>
    /\ UNCHANGED <<jobVars, leaseWorker, leaseToken, fence, workerState, maxSlots, activeLeases,
                   processVars, history>>

(* Memory is lost, the committed database is not.                           *)
Crash ==
    /\ crashes < MaxCrashes
    /\ crashes' = crashes + 1
    /\ phase' = "clock"
    /\ sweep' = "idle"
    /\ UNCHANGED <<jobVars, leaseVars, fence, workerVars, history>>

(* _initialize_lease_clock: in the boot domain of the stored anchor time    *)
(* goes on; in another one no stored time can be trusted, so every lease is *)
(* made to expire, and heartbeats look as old as the two clocks differ.     *)
BootClock ==
    /\ phase = "clock"
    /\ phase' = "backfill"
    /\ \/ UNCHANGED <<ttl, age>>
       \/ /\ ttl' = [j \in Job |-> IF j \in ActiveRows THEN Expired ELSE ttl[j]]
          /\ age' \in {a \in [Worker -> 0 .. HeartbeatTicks] :
                        \A w \in Worker : workerState[w] = "absent" => a[w] = age[w]}
    /\ UNCHANGED <<jobVars, leaseWorker, leaseToken, fence, workerState, maxSlots, activeLeases,
                   sweep, crashes, history>>

BootBackfill ==
    /\ phase = "backfill"
    /\ phase' = "reconcile"
    /\ FenceFree(TerminalRows)
    /\ fence' = WithFences(TerminalRows, jobState)
    /\ UNCHANGED <<jobVars, leaseVars, workerVars, sweep, crashes, history>>

(* Mutant: the counters are taken before the rows are released.             *)
BootReconcileCountersFirst ==
    /\ phase = "reconcile"
    /\ phase' = "stale"
    /\ Release(InvalidRows, TRUE)
    /\ activeLeases' = [w \in Worker |-> IF workerState[w] = "absent" THEN activeLeases[w]
                                         ELSE Cardinality(Held(w))]
    /\ UNCHANGED <<workerState, maxSlots, age, sweep, crashes, history>>

(* reconcile_durable_state: invalid leases are released, then every counter *)
(* is set to what the rows say.                                             *)
BootReconcile ==
    /\ phase = "reconcile"
    /\ phase' = "stale"
    /\ Release(InvalidRows, TRUE)
    /\ activeLeases' = [w \in Worker |-> IF workerState[w] = "absent" THEN activeLeases[w]
                                         ELSE Cardinality(Held(w) \ InvalidRows)]
    /\ UNCHANGED <<workerState, maxSlots, age, sweep, crashes, history>>

BootRecoverStale ==
    /\ phase = "stale"
    /\ phase' = "expired"
    /\ Recover(StaleRows)
    /\ UNCHANGED <<workerState, maxSlots, age, sweep, crashes, history>>

BootRecoverExpired ==
    /\ phase = "expired"
    /\ phase' = "up"
    /\ Recover(ExpiredRows)
    /\ UNCHANGED <<workerState, maxSlots, age, sweep, crashes, history>>

-----------------------------------------------------------------------------
Boot == BootClock \/ BootBackfill \/ BootReconcile \/ BootRecoverStale \/ BootRecoverExpired

Sweep == BeginSweep \/ RecoverStaleWorkerLeases \/ RecoverExpiredLeases

WorkerCall(j, w, t) ==
    \/ StartJob(j, w, t)
    \/ RenewLease(j, w, t)
    \/ Checkpoint(j, w, t)
    \/ MarkSideEffectStarted(j, w, t)
    \/ HandoverLease(j, w, t)
    \/ Fail(j, w, t)
    \/ \E r \in Result : Complete(j, w, t, r) \/ ReplayComplete(j, w, t, r)

WorkerStep(w) ==
    \/ LeaseNext(w)
    \/ LeaseMany(w)
    \/ \E slots \in 1 .. MaxSlots : RegisterWorker(w, slots)
    \/ Heartbeat(w)
    \/ \E drain \in BOOLEAN : SetWorkerDrain(w, drain)
    \/ RevokeWorker(w)

Next ==
    \/ \E j \in Job : Enqueue(j) \/ RetryReviewRequired(j)
    \/ \E j \in Job : \E lease \in granted[j] : WorkerCall(j, lease[1], lease[2])
    \/ \E w \in Worker : WorkerStep(w)
    \/ RetainTerminal
    \/ Sweep
    \/ ControlPlaneRecovery
    \/ Boot
    \/ Tick
    \/ Crash

Spec == Init /\ [][Next]_vars

(* The start-up code runs to its end, the clock advances, and as long as    *)
(* some worker polls lease_next, which the agents do forever, the sweep is  *)
(* run again and again.  Nothing is assumed of the worker that has a lease. *)
Fairness == WF_vars(Boot) /\ WF_vars(Sweep) /\ WF_vars(Tick)

FairSpec == Spec /\ Fairness

-----------------------------------------------------------------------------
(* Properties.                                                              *)

LeaseHeld(j) ==
    /\ leaseWorker[j] \in Worker
    /\ workerState[leaseWorker[j]] \in {"active", "draining"}
    /\ leaseToken[j] = attempt[j] /\ attempt[j] > 0
    /\ ttl[j] # Cleared

LeaseFree(j) == leaseWorker[j] = NoWorker /\ leaseToken[j] = 0 /\ ttl[j] = Cleared

(* Lease columns are all set in an active state, to the latest attempt and  *)
(* a worker that is registered and not revoked, and all empty in any other. *)
(* (invariant_violations, docs/ARCHITECTURE.md section 8)                   *)
LeaseConsistent ==
    \A j \in Job : /\ jobState[j] \in Active => LeaseHeld(j)
                   /\ jobState[j] \notin Active => LeaseFree(j)

(* The redundant counter every transition maintains by hand equals the      *)
(* leases the worker holds, so no slot leaks and none is given twice.       *)
CountersExact == \A w \in Worker : activeLeases[w] = Cardinality(Held(w))

(* A non-idempotent side effect is let through once, and once more for each *)
(* operator approval, whatever leases were lost, repeated or recovered; a   *)
(* job that is back in the queue has no effect in flight.                   *)
EffectOncePerApproval ==
    \A j \in Job : Request[j].mode = "non_idempotent" =>
        /\ effectRuns[j] <= approvals[j] + 1
        /\ effect[j] = "none" => effectRuns[j] <= approvals[j]
        /\ jobState[j] = "queued" => effect[j] = "none"

(* A completed job carries the receipt of the last lease that was granted:  *)
(* an older owner never finishes a job that was given to another.           *)
CompletedByLatestLease ==
    \A j \in Job \ LegacyJobs : jobState[j] = "completed" =>
        /\ receipt[j].token = attempt[j]
        /\ <<receipt[j].worker, receipt[j].token>> \in granted[j]

(* At most one lease-and-result pair of a job is ever acknowledged, also    *)
(* over pruning and replays, and what was acknowledged stays in the row.    *)
AckedOnce ==
    \A j \in Job : /\ Cardinality(acked[j]) <= 1
                   /\ acked[j] # {} => /\ jobState[j] \in {"completed", "pruned"}
                                       /\ acked[j] = {receipt[j]}

(* Past the backfill every terminal row is fenced by its own key, so it can *)
(* be pruned at any time without forgetting its answer.                     *)
TerminalRowsFenced ==
    phase \notin {"clock", "backfill"} =>
        \A j \in TerminalRows :
            fence[Request[j].key] = [job |-> j, state |-> jobState[j], receipt |-> receipt[j]]

(* A fence and a row of the same key are the same job, so storing a fence   *)
(* never raises and no terminal transition is rolled back for it.           *)
FenceMatchesRow ==
    \A j \in Rows : /\ fence[Request[j].key].job \in {NoJob, j}
                    /\ \A i \in Rows : Request[i].key = Request[j].key => i = j

(* retain_terminal_jobs: "non-idempotent fences and review jobs never       *)
(* expire".  A key once used for a non-idempotent job never gets a second.  *)
NonIdempotentKeyOnce ==
    \A i, j \in Job :
        /\ jobState[i] # "absent" /\ jobState[j] # "absent"
        /\ Request[i].key = Request[j].key
        /\ Request[i].mode = "non_idempotent" /\ Request[j].mode = "non_idempotent"
        => i = j

(* An attempt budget is exceeded only by operator retries, one each.        *)
AttemptsBounded == \A j \in Job : attempt[j] <= Request[j].limit + approvals[j]

(* A job that ended keeps its state and receipt until it is pruned, and is  *)
(* never run again; a review is left only by an operator.                   *)
TerminalIsFinal ==
    [][\A j \in Job :
        /\ jobState[j] \in Terminal => /\ jobState'[j] \in {jobState[j], "pruned"}
                                       /\ receipt'[j] = receipt[j]
        /\ jobState[j] = "pruned" => jobState'[j] = "pruned"
        /\ jobState[j] = "review_required" /\ jobState'[j] # "review_required"
             => approvals'[j] = approvals[j] + 1]_vars

(* Checkpoints are written by newer and newer leases: the progress a later  *)
(* owner resumes from is never overwritten by an earlier one.               *)
CheckpointsAdvance == [][\A j \in Job : ckpt'[j] >= ckpt[j]]_vars

(* A lease never blocks its job for good: unless its worker goes on         *)
(* renewing it, the lease ends, whatever the worker last did.               *)
LostLeaseIsReleased ==
    \A j \in Job :
        <>[](jobState[j] \in Active)
            => []<><<\E w \in Worker, t \in {leaseToken[j]} : RenewLease(j, w, t)>>_vars

(* A server that stops crashing comes up.                                   *)
StartsUp == phase # "up" ~> phase = "up"

-----------------------------------------------------------------------------
(* A damaged start.                                                         *)

(* A database whose active rows lost lease columns or their workers, and    *)
(* whose counters drifted: what reconcile_durable_state is there to repair. *)
Damaged ==
    /\ TypeOK
    /\ phase = "clock" /\ sweep = "idle"
    /\ \A j \in Job : /\ jobState[j] \in Active => attempt[j] > 0 /\ leaseToken[j] \in {0, attempt[j]}
                      /\ jobState[j] \notin Active => LeaseFree(j)
    /\ \A w \in Worker : workerState[w] = "absent" => activeLeases[w] = 0

(* Whatever the damage, once reconcile_durable_state has committed the      *)
(* lease columns and the counters agree again, and keep agreeing.           *)
RepairedOnceReconciled ==
    phase \notin {"clock", "backfill", "reconcile"} => LeaseConsistent /\ CountersExact
=============================================================================
