----------------------- MODULE DistributedQueueSafety -----------------------
(* The safety invariants of DistributedQueue as theorems.                   *)
(*                                                                         *)
(* A step is first reduced to its shape: a call on one row, a lease, a      *)
(* release of active rows, an admission or a pruning, or nothing but time,  *)
(* workers and the process.  Each invariant then has one case per shape.    *)
EXTENDS DistributedQueueProofs

-----------------------------------------------------------------------------
(* Shapes.                                                                  *)

LeaseCall(j, w, t) ==
    \/ StartJob(j, w, t) \/ RenewLease(j, w, t) \/ Checkpoint(j, w, t)
    \/ MarkSideEffectStarted(j, w, t)
    \/ \E r \in Result : Complete(j, w, t, r) \/ ReplayComplete(j, w, t, r)

(* Leases that end without their owner's success; a revocation also changes *)
(* the worker that held them all.                                           *)
Releasing(S, retryable) ==
    /\ Release(S, retryable)
    /\ UNCHANGED history
    /\ \/ UNCHANGED workerState
       \/ \E w \in Worker : S = Held(w) /\ workerState' = [workerState EXCEPT ![w] = "revoked"]

(* The fences of the rows D are stored, then idempotent ones are dropped.   *)
Prunes(D) ==
    /\ FenceFree(D)
    /\ \E T \in SUBSET Key :
          /\ \A k \in T : LET i == WithFences(D, jobState)[k].job
                         IN  i # NoJob /\ Request[i].mode = "idempotent"
          /\ Prune(D, T)

(* An admission that may prune, or a pruning by itself.                     *)
Admitting(j, D) ==
    /\ jobState[j] = "absent"
    /\ KeyFree(Request[j].key)
    /\ Prunes(D)
    /\ jobState' = [i \in Job |-> IF i = j THEN "queued" ELSE IF i \in D THEN "pruned" ELSE jobState[i]]
    /\ UNCHANGED <<attempt, effect, ckpt, receipt, leaseVars, workerState, history>>

Pruning(D) ==
    /\ Prunes(D)
    /\ jobState' = [i \in Job |-> IF i \in D THEN "pruned" ELSE jobState[i]]
    /\ UNCHANGED <<attempt, effect, ckpt, receipt, leaseVars, workerState, history>>

Usable(states) == {w \in Worker : states[w] \in {"active", "draining"}}

Background ==
    /\ UNCHANGED <<jobVars, leaseWorker, leaseToken, history>>
    /\ \A j \in Job : ttl'[j] = Cleared <=> ttl[j] = Cleared
    /\ Usable(workerState) \subseteq Usable(workerState')
    /\ \/ UNCHANGED fence
       \/ FenceFree(TerminalRows) /\ fence' = WithFences(TerminalRows, jobState)

Shape ==
    \/ \E j \in Job : RetryReviewRequired(j)
    \/ \E j \in Job, w \in Worker, t \in Nat : LeaseCall(j, w, t)
    \/ \E w \in Worker, S \in SUBSET Job : Lease(w, S)
    \/ \E S \in SUBSET ActiveRows, retryable \in BOOLEAN : Releasing(S, retryable)
    \/ \E j \in Job, D \in SUBSET TerminalRows : Admitting(j, D)
    \/ \E D \in SUBSET TerminalRows : Pruning(D)
    \/ Background

(* A release that leaves the workers alone, as the sweeps', is a Shape.     *)
LEMMA ReleaseShape ==
  ASSUME NEW S \in SUBSET ActiveRows, NEW retryable \in BOOLEAN, Release(S, retryable),
         UNCHANGED <<workerState, history>>
  PROVE  Shape
<1>1. Releasing(S, retryable)
  BY DEF Releasing, history
<1> QED
  BY <1>1 DEF Shape

(* Fail and handover release the one row of the lease presented.            *)
LEMMA GiveBackShape ==
  ASSUME NEW j \in Job, NEW w, NEW t, NEW retryable \in BOOLEAN, GiveBack(j, w, t, retryable)
  PROVE  Shape
<1>1. {j} \in SUBSET ActiveRows
  BY DEF GiveBack, HoldsLease, ActiveRows
<1> QED
  BY <1>1, ReleaseShape DEF GiveBack, history

(* Calls of the workers.                                                    *)
LEMMA WorkerCallShape ==
  ASSUME TypeOK, NEW j \in Job, NEW lease \in granted[j], WorkerCall(j, lease[1], lease[2])
  PROVE  Shape
<1>1. lease[1] \in Worker /\ lease[2] \in Nat
  BY DEF TypeOK
<1>2. CASE HandoverLease(j, lease[1], lease[2]) \/ Fail(j, lease[1], lease[2])
  BY <1>2, GiveBackShape DEF HandoverLease, Fail
<1>3. CASE LeaseCall(j, lease[1], lease[2])
  BY <1>1, <1>3 DEF Shape
<1> QED
  BY <1>2, <1>3 DEF WorkerCall, LeaseCall

(* Calls of, and about, one worker.                                         *)
LEMMA WorkerShape ==
  ASSUME TypeOK, NEW w \in Worker, WorkerStep(w)
  PROVE  Shape
<1>1. ASSUME NEW slots, RegisterWorker(w, slots) PROVE Shape
  <2>1. Usable(workerState) \subseteq Usable(workerState')
    BY <1>1 DEF RegisterWorker, TypeOK, Usable
  <2> QED
    BY <1>1, <2>1 DEF RegisterWorker, Shape, Background, leaseVars
<1>2. ASSUME Heartbeat(w) PROVE Shape
  BY <1>2 DEF Heartbeat, Shape, Background, leaseVars, Usable
<1>3. ASSUME NEW drain \in BOOLEAN, SetWorkerDrain(w, drain) PROVE Shape
  <2>1. Usable(workerState) \subseteq Usable(workerState')
    BY <1>3 DEF SetWorkerDrain, TypeOK, Usable
  <2> QED
    BY <1>3, <2>1 DEF SetWorkerDrain, Shape, Background, leaseVars
<1>4. ASSUME RevokeWorker(w) PROVE Shape
  <2>1. Held(w) \in SUBSET ActiveRows
    BY RowSets
  <2>2. Releasing(Held(w), TRUE)
    BY <1>4 DEF RevokeWorker, Releasing
  <2> QED
    BY <2>1, <2>2 DEF Shape
<1>5. ASSUME NEW S \in SUBSET Job, Lease(w, S) PROVE Shape
  BY <1>5 DEF Shape
<1>6. ASSUME LeaseNext(w) PROVE Shape
  BY <1>5, <1>6 DEF LeaseNext
<1>7. ASSUME LeaseMany(w) PROVE Shape
  BY <1>5, <1>7 DEF LeaseMany
<1> QED
  BY <1>1, <1>2, <1>3, <1>4, <1>6, <1>7 DEF WorkerStep

(* The sweeps, and the recovery the control plane calls by itself.          *)
LEMMA RecoveryShape ==
  ASSUME TypeOK, Sweep \/ ControlPlaneRecovery
  PROVE  Shape
<1>1. CASE BeginSweep
  BY <1>1 DEF BeginSweep, Shape, Background, leaseVars, workerVars, Usable
<1>2. CASE RecoverStaleWorkerLeases
  BY <1>2, ReleaseShape, RowSets DEF RecoverStaleWorkerLeases, Recover
<1>3. CASE RecoverExpiredLeases
  BY <1>3, ReleaseShape, RowSets DEF RecoverExpiredLeases, Recover
<1>4. CASE ControlPlaneRecovery
  BY <1>4, ReleaseShape, RowSets DEF ControlPlaneRecovery, Recover
<1> QED
  BY <1>1, <1>2, <1>3, <1>4 DEF Sweep

(* The transactions of initialize().  That _initialize_lease_clock only     *)
(* gives a time to rows that have one rests on LeaseConsistent.             *)
LEMMA BootShape ==
  ASSUME TypeOK, LeaseConsistent, Boot
  PROVE  Shape
<1>1. CASE BootClock
  <2>1. \A j \in Job : ttl'[j] = Cleared <=> ttl[j] = Cleared
    <3> SUFFICES ASSUME NEW j \in Job PROVE ttl'[j] = Cleared <=> ttl[j] = Cleared
      OBVIOUS
    <3>1. CASE j \in ActiveRows
      <4>1. ttl[j] # Cleared
        BY <3>1 DEF LeaseConsistent, LeaseHeld, ActiveRows
      <4>3. Expired # Cleared
        BY TickRange
      <4>2. ttl'[j] = ttl[j] \/ ttl'[j] = Expired
        BY <1>1, <3>1 DEF BootClock
      <4> QED
        BY <4>1, <4>2, <4>3
    <3>2. CASE j \notin ActiveRows
      BY <1>1, <3>2 DEF BootClock
    <3> QED
      BY <3>1, <3>2
  <2> QED
    BY <1>1, <2>1 DEF BootClock, Shape, Background, Usable
<1>2. CASE BootBackfill
  BY <1>2 DEF BootBackfill, Shape, Background, leaseVars, workerVars, Usable
<1>3. CASE BootReconcile
  BY <1>3, ReleaseShape, RowSets DEF BootReconcile
<1>4. CASE BootRecoverStale
  BY <1>4, ReleaseShape, RowSets DEF BootRecoverStale, Recover
<1>5. CASE BootRecoverExpired
  BY <1>5, ReleaseShape, RowSets DEF BootRecoverExpired, Recover
<1> QED
  BY <1>1, <1>2, <1>3, <1>4, <1>5 DEF Boot

(* What _retain_terminal_locked chooses may be pruned.                      *)
LEMMA ChosenPrunes ==
  ASSUME NEW D \in SUBSET TerminalRows, NEW T \in SUBSET Key, NEW keep, NEW tombstones,
         PruneChoice(D, T, keep, tombstones), Prune(D, T)
  PROVE  Prunes(D)
BY DEF PruneChoice, Prunes

(* Every step of the queue has one of the shapes.                           *)
LEMMA StepShape ==
  ASSUME TypeOK, LeaseConsistent, [Next]_vars
  PROVE  Shape
<1>1. ASSUME NEW j \in Job, Enqueue(j) PROVE Shape
  <2>1. PICK D \in SUBSET TerminalRows, T \in SUBSET Key :
          /\ IF Cardinality(Rows) >= MaxJobs
             THEN PruneChoice(D, T, Floor0((MaxJobs \div 2) - 1), MaxJobs)
             ELSE D = {} /\ T = {}
          /\ Prune(D, T)
          /\ jobState' = [i \in Job |-> IF i = j THEN "queued"
                                       ELSE IF i \in D THEN "pruned" ELSE jobState[i]]
    BY <1>1 DEF Enqueue
  <2>2. Prunes(D)
    BY <2>1, ChosenPrunes DEF Prunes, FenceFree
  <2>3. Admitting(j, D)
    BY <1>1, <2>1, <2>2 DEF Enqueue, Admitting, workerVars
  <2> QED
    BY <2>3 DEF Shape
<1>2. ASSUME NEW j \in Job, RetryReviewRequired(j) PROVE Shape
  BY <1>2 DEF Shape
<1>3. CASE RetainTerminal
  <2>1. PICK D \in SUBSET TerminalRows, T \in SUBSET Key :
          /\ PruneChoice(D, T, MaxTerminal, MaxTombstones)
          /\ Prune(D, T)
          /\ jobState' = [j \in Job |-> IF j \in D THEN "pruned" ELSE jobState[j]]
    BY <1>3 DEF RetainTerminal
  <2>2. Prunes(D)
    BY <2>1, ChosenPrunes
  <2>3. Pruning(D)
    BY <1>3, <2>1, <2>2 DEF RetainTerminal, Pruning, workerVars
  <2> QED
    BY <2>3 DEF Shape
<1>4. CASE Tick
  <2>1. \A j \in Job : ttl'[j] = Cleared <=> ttl[j] = Cleared
    BY <1>4, TickRange DEF Tick, TypeOK, Cleared, Expired
  <2> QED
    BY <1>4, <2>1 DEF Tick, Shape, Background, Usable
<1>5. CASE Crash
  BY <1>5 DEF Crash, Shape, Background, leaseVars, workerVars, Usable
<1>6. CASE UNCHANGED vars
  BY <1>6 DEF vars, Shape, Background, leaseVars, workerVars, Usable
<1> QED
  BY <1>1, <1>2, <1>3, <1>4, <1>5, <1>6, WorkerCallShape, WorkerShape, RecoveryShape, BootShape DEF Next

-----------------------------------------------------------------------------
(* The inductive invariant.                                                 *)

(* What EffectOncePerApproval rests on: a job that waits for a lease has no *)
(* effect behind it, and one that is leased has none that completed.        *)
EffectFenced ==
    \A j \in Job : Request[j].mode = "non_idempotent" =>
        /\ effectRuns[j] <= approvals[j] + 1
        /\ effect[j] = "none" => effectRuns[j] = approvals[j]
        /\ effect[j] = "started" => effectRuns[j] = approvals[j] + 1
        /\ jobState[j] \in {"absent", "queued"} => effect[j] = "none"
        /\ jobState[j] \in Active => effect[j] # "completed"
        /\ jobState[j] = "review_required" => effect[j] = "started"

(* What AttemptsBounded and CheckpointsAdvance rest on: a job in the queue  *)
(* has an attempt left, and only leases that were granted write.            *)
AttemptsCounted ==
    \A j \in Job :
        /\ attempt[j] <= Request[j].limit + approvals[j]
        /\ jobState[j] = "queued" => attempt[j] < Request[j].limit + approvals[j]
        /\ jobState[j] = "absent" => attempt[j] = 0
        /\ ckpt[j] <= attempt[j]

QueueInv ==
    /\ TypeOK
    /\ LeaseConsistent
    /\ EffectFenced
    /\ AttemptsCounted
    /\ CompletedByLatestLease

(* The limit of a request is at least one attempt.                          *)
LEMMA LimitType ==
  ASSUME NEW j \in Job
  PROVE  Request[j].limit \in Nat /\ Request[j].limit > 0 /\ Request[j].mode \in Modes
  BY RequestAssumption

(* A first start satisfies the invariant, legacy rows included.             *)
LEMMA InitInv == Init => QueueInv
<1> SUFFICES ASSUME Init PROVE QueueInv
  OBVIOUS
<1>1. TypeOK
  BY InitType
<1>2. LeaseConsistent
  <2>1. \A j \in Job : jobState[j] \in {"completed", "absent"}
    BY DEF Init
  <2>2. \A j \in Job : LeaseFree(j)
    BY DEF Init, LeaseFree
  <2>3. \A j \in Job : jobState[j] \notin Active
    BY <2>1 DEF Active
  <2> QED
    BY <2>2, <2>3 DEF LeaseConsistent
<1>3. EffectFenced
  <2> SUFFICES ASSUME NEW j \in Job
               PROVE  /\ effectRuns[j] = approvals[j]
                      /\ jobState[j] # "review_required"
                      /\ effectRuns[j] <= approvals[j] + 1
                      /\ effect[j] = "none"
    BY DEF EffectFenced
  <2>1. /\ approvals[j] = 0 /\ effectRuns[j] = 0 /\ effect[j] = "none"
        /\ jobState[j] # "review_required"
    BY DEF Init
  <2> QED
    BY <2>1
<1>4. AttemptsCounted
  <2> SUFFICES ASSUME NEW j \in Job
               PROVE  /\ attempt[j] <= Request[j].limit + approvals[j]
                      /\ jobState[j] = "queued" => attempt[j] < Request[j].limit + approvals[j]
                      /\ jobState[j] = "absent" => attempt[j] = 0
                      /\ ckpt[j] <= attempt[j]
    BY DEF AttemptsCounted
  <2>1. approvals[j] = 0 /\ ckpt[j] = 0 /\ attempt[j] \in {0, 1}
    BY DEF Init
  <2>2. jobState[j] = "absent" => attempt[j] = 0
    BY LegacyAssumption DEF Init
  <2>3. jobState[j] # "queued"
    BY DEF Init
  <2> QED
    BY <2>1, <2>2, <2>3, LimitType
<1>5. CompletedByLatestLease
  BY DEF Init, CompletedByLatestLease
<1> QED
  BY <1>1, <1>2, <1>3, <1>4, <1>5 DEF QueueInv

-----------------------------------------------------------------------------
(* What a step does to one row.                                             *)

SameLease(i) ==
    /\ UNCHANGED <<leaseWorker[i], leaseToken[i], attempt[i]>>
    /\ ttl'[i] = Cleared <=> ttl[i] = Cleared
    /\ LeaseHeld(i) => workerState'[leaseWorker[i]] \in {"active", "draining"}

FreedLease(i) ==
    /\ leaseWorker'[i] = NoWorker /\ leaseToken'[i] = 0 /\ ttl'[i] = Cleared
    /\ UNCHANGED attempt[i]

SameHistory(i) == UNCHANGED <<granted[i], effectRuns[i], approvals[i], acked[i]>>

RowStays(i) ==
    /\ jobState'[i] = jobState[i] \/ (jobState[i] = "leased" /\ jobState'[i] = "running")
    /\ SameLease(i)
    /\ UNCHANGED <<effect[i], ckpt[i], receipt[i]>>
    /\ SameHistory(i)

RowRetried(i) ==
    /\ jobState[i] = "review_required" /\ jobState'[i] = "queued"
    /\ effect'[i] = "none"
    /\ approvals'[i] = approvals[i] + 1
    /\ SameLease(i)
    /\ UNCHANGED <<ckpt[i], receipt[i], granted[i], effectRuns[i], acked[i]>>

RowCheckpointed(i) ==
    /\ jobState[i] \in Active /\ jobState'[i] = jobState[i]
    /\ ckpt'[i] = leaseToken[i]
    /\ SameLease(i)
    /\ UNCHANGED <<effect[i], receipt[i]>>
    /\ SameHistory(i)

RowEffectStarted(i) ==
    /\ Request[i].mode = "non_idempotent"
    /\ jobState[i] \in Active /\ jobState'[i] = jobState[i]
    /\ effect[i] # "started" /\ effect'[i] = "started"
    /\ effectRuns'[i] = effectRuns[i] + 1
    /\ SameLease(i)
    /\ UNCHANGED <<ckpt[i], receipt[i], granted[i], approvals[i], acked[i]>>

RowCompleted(i) ==
    /\ jobState[i] \in Active /\ jobState'[i] = "completed"
    /\ receipt'[i] \in Receipt
    /\ receipt'[i].token = leaseToken[i] /\ receipt'[i].worker = leaseWorker[i]
    /\ <<receipt'[i].worker, receipt'[i].token>> \in granted[i]
    /\ acked'[i] \in {acked[i], acked[i] \cup {receipt'[i]}}
    /\ effect'[i] = IF effect[i] = "started" THEN "completed" ELSE effect[i]
    /\ FreedLease(i)
    /\ UNCHANGED <<ckpt[i], granted[i], effectRuns[i], approvals[i]>>

RowConfirmed(i) ==
    /\ \E d \in DurableReceipt(i) : d.worker \in Worker /\ acked'[i] = acked[i] \cup {d}
    /\ SameLease(i)
    /\ UNCHANGED <<jobState[i], effect[i], ckpt[i], receipt[i], granted[i], effectRuns[i], approvals[i]>>

RowLeased(i) ==
    /\ jobState[i] = "queued" /\ jobState'[i] = "leased"
    /\ attempt'[i] = attempt[i] + 1
    /\ leaseWorker'[i] \in Worker /\ workerState'[leaseWorker'[i]] = "active"
    /\ leaseToken'[i] = attempt'[i]
    /\ ttl'[i] # Cleared
    /\ UNCHANGED <<effect[i], ckpt[i], receipt[i], effectRuns[i], approvals[i], acked[i]>>

RowReleased(i) ==
    /\ jobState[i] \in Active
    /\ jobState'[i] \in {"queued", "failed", "review_required"}
    /\ jobState'[i] = "queued" => attempt[i] < Request[i].limit
    /\ jobState'[i] = "review_required"
          <=> Request[i].mode = "non_idempotent" /\ effect[i] = "started"
    /\ FreedLease(i)
    /\ UNCHANGED <<effect[i], ckpt[i], receipt[i]>>
    /\ SameHistory(i)

RowMoved(i) ==
    /\ \/ jobState[i] = "absent" /\ jobState'[i] = "queued" /\ KeyFree(Request[i].key)
       \/ jobState[i] \in Terminal /\ jobState'[i] = "pruned"
    /\ SameLease(i)
    /\ UNCHANGED <<effect[i], ckpt[i], receipt[i]>>
    /\ SameHistory(i)

RowStep(i) ==
    \/ RowStays(i) \/ RowRetried(i) \/ RowCheckpointed(i) \/ RowEffectStarted(i)
    \/ RowCompleted(i) \/ RowConfirmed(i) \/ RowLeased(i) \/ RowReleased(i) \/ RowMoved(i)

(* A row whose lease columns are left alone, with the workers, keeps its    *)
(* lease.                                                                   *)
LEMMA LeaseKept ==
  ASSUME NEW i \in Job, UNCHANGED <<leaseVars, attempt, workerState>>
  PROVE  SameLease(i)
BY DEF SameLease, LeaseHeld, leaseVars

(* The columns of TypeOK that are updated in place.                         *)
LEMMA Columns ==
  ASSUME TypeOK
  PROVE  /\ jobState \in [Job -> JobStates] /\ attempt \in [Job -> Nat]
         /\ effect \in [Job -> {"none", "started", "completed"}] /\ ckpt \in [Job -> Nat]
         /\ receipt \in [Job -> Receipt]
         /\ leaseToken \in [Job -> Nat] /\ ttl \in [Job -> Cleared .. LeaseTicks]
         /\ effectRuns \in [Job -> Nat] /\ approvals \in [Job -> Nat]
         /\ acked \in [Job -> SUBSET Receipt]
  BY BoundAssumption DEF TypeOK

(* A call under a lease acts on the row of the lease and on no other.       *)
LEMMA CallRow ==
  ASSUME TypeOK, NEW i \in Job, NEW j \in Job, NEW w \in Worker, NEW t \in Nat, LeaseCall(j, w, t)
  PROVE  RowStep(i)
<1>0. /\ jobState \in [Job -> JobStates] /\ effect \in [Job -> {"none", "started", "completed"}]
      /\ ckpt \in [Job -> Nat] /\ receipt \in [Job -> Receipt]
      /\ ttl \in [Job -> Cleared .. LeaseTicks] /\ effectRuns \in [Job -> Nat]
      /\ acked \in [Job -> SUBSET Receipt]
  BY Columns
<1>1. CASE StartJob(j, w, t)
  <2>1. SameLease(i)
    BY <1>1, LeaseKept DEF StartJob, leaseVars, workerVars
  <2>2. jobState[j] = "leased" /\ jobState' = [jobState EXCEPT ![j] = "running"]
    BY <1>1 DEF StartJob, HoldsLease, Active
  <2>3. jobState'[i] = jobState[i] \/ (jobState[i] = "leased" /\ jobState'[i] = "running")
    BY <1>0, <2>2
  <2>4. UNCHANGED <<effect[i], ckpt[i], receipt[i]>> /\ SameHistory(i)
    BY <1>1 DEF StartJob, history, SameHistory
  <2> QED
    BY <2>1, <2>3, <2>4 DEF RowStep, RowStays
<1>2. CASE RenewLease(j, w, t)
  <2>1. ttl[j] > 0 /\ ttl' = [ttl EXCEPT ![j] = LeaseTicks]
    BY <1>2 DEF RenewLease, HoldsLease
  <2>2. ttl'[i] = Cleared <=> ttl[i] = Cleared
    BY <1>0, <2>1, TickRange
  <2>3. SameLease(i)
    BY <1>2, <2>2 DEF RenewLease, SameLease, LeaseHeld, jobVars
  <2>4. UNCHANGED <<jobState[i], effect[i], ckpt[i], receipt[i]>> /\ SameHistory(i)
    BY <1>2 DEF RenewLease, history, SameHistory, jobVars
  <2> QED
    BY <2>3, <2>4 DEF RowStep, RowStays
<1>3. CASE Checkpoint(j, w, t)
  <2>1. SameLease(i)
    BY <1>3, LeaseKept DEF Checkpoint, leaseVars, workerVars
  <2>2. UNCHANGED <<jobState[i], effect[i], receipt[i]>> /\ SameHistory(i)
    BY <1>3 DEF Checkpoint, history, SameHistory
  <2>3. ckpt' = [ckpt EXCEPT ![j] = t] /\ leaseToken[j] = t /\ jobState[j] \in Active
    BY <1>3 DEF Checkpoint, HoldsLease
  <2>4. CASE i = j
    BY <1>0, <2>1, <2>2, <2>3, <2>4 DEF RowStep, RowCheckpointed
  <2>5. CASE i # j
    <3>1. ckpt'[i] = ckpt[i]
      BY <1>0, <2>3, <2>5
    <3> QED
      BY <2>1, <2>2, <3>1 DEF RowStep, RowStays
  <2> QED
    BY <2>4, <2>5
<1>4. CASE MarkSideEffectStarted(j, w, t)
  <2>1. SameLease(i)
    BY <1>4, LeaseKept DEF MarkSideEffectStarted, leaseVars, workerVars
  <2>2. UNCHANGED <<jobState[i], ckpt[i], receipt[i], granted[i], approvals[i]>>
    BY <1>4 DEF MarkSideEffectStarted
  <2>a. UNCHANGED acked[i]
    BY <1>4 DEF MarkSideEffectStarted
  <2>3. /\ Request[j].mode = "non_idempotent"
        /\ jobState[j] \in Active /\ effect[j] # "started"
        /\ effect' = [effect EXCEPT ![j] = "started"]
        /\ effectRuns' = [effectRuns EXCEPT ![j] = @ + 1]
    BY <1>4 DEF MarkSideEffectStarted, HoldsLease
  <2>4. CASE i = j
    <3>1. effect'[i] = "started" /\ effectRuns'[i] = effectRuns[i] + 1
      BY <1>0, <2>3, <2>4
    <3> QED
      BY <2>1, <2>2, <2>a, <2>3, <2>4, <3>1 DEF RowStep, RowEffectStarted
  <2>5. CASE i # j
    <3>1. effect'[i] = effect[i] /\ effectRuns'[i] = effectRuns[i]
      BY <1>0, <2>3, <2>5
    <3> QED
      BY <2>1, <2>2, <2>a, <3>1 DEF RowStep, RowStays, SameHistory
  <2> QED
    BY <2>4, <2>5
<1>5. ASSUME NEW r \in Result, Complete(j, w, t, r) PROVE RowStep(i)
  <2> DEFINE done == [worker |-> w, token |-> t, result |-> r]
  <2>1. /\ jobState[j] \in Active /\ leaseToken[j] = t /\ leaseWorker[j] = w /\ <<w, t>> \in granted[j]
        /\ jobState' = [jobState EXCEPT ![j] = "completed"]
        /\ effect' = [effect EXCEPT ![j] = IF @ = "started" THEN "completed" ELSE @]
        /\ receipt' = [receipt EXCEPT ![j] = done]
        /\ ClearLeases({j})
        /\ UNCHANGED <<attempt, ckpt, workerState, granted, effectRuns, approvals>>
    BY <1>5 DEF Complete, HoldsLease, Presents
  <2>a. \E delivered \in BOOLEAN :
           acked' = [acked EXCEPT ![j] = IF delivered THEN @ \cup {done} ELSE @]
    BY <1>5 DEF Complete
  <2>d. done \in Receipt
    BY DEF Receipt
  <2> HIDE DEF done
  <2>2. UNCHANGED <<ckpt[i], granted[i], effectRuns[i], approvals[i]>>
    BY <2>1
  <2>3. CASE i = j
    <3>1. /\ jobState'[i] = "completed" /\ receipt'[i] = done
          /\ effect'[i] = IF effect[i] = "started" THEN "completed" ELSE effect[i]
      BY <1>0, <2>1, <2>3
    <3>2. receipt'[i].token = t /\ receipt'[i].worker = w
      BY <3>1 DEF done
    <3>3. FreedLease(i)
      BY <2>1, <2>3 DEF FreedLease, ClearLeases
    <3>5. acked'[i] \in {acked[i], acked[i] \cup {done}}
      BY <1>0, <2>a, <2>3
    <3>4. RowCompleted(i)
      BY <2>1, <2>2, <2>d, <2>3, <3>1, <3>2, <3>3, <3>5 DEF RowCompleted
    <3> QED
      BY <3>4 DEF RowStep
  <2>4. CASE i # j
    <3>1. jobState'[i] = jobState[i] /\ UNCHANGED <<effect[i], receipt[i]>>
      BY <1>0, <2>1, <2>4
    <3>2. leaseWorker'[i] = leaseWorker[i] /\ leaseToken'[i] = leaseToken[i] /\ ttl'[i] = ttl[i]
      BY <2>1, <2>4 DEF ClearLeases
    <3>3. SameLease(i)
      BY <2>1, <3>2 DEF SameLease, LeaseHeld
    <3>4. UNCHANGED acked[i]
      BY <1>0, <2>a, <2>4
    <3> QED
      BY <2>2, <3>1, <3>3, <3>4 DEF RowStep, RowStays, SameHistory
  <2> QED
    BY <2>3, <2>4
<1>6. ASSUME NEW r \in Result, ReplayComplete(j, w, t, r) PROVE RowStep(i)
  <2>1. UNCHANGED <<jobVars, leaseVars, workerVars, granted, effectRuns, approvals>>
    BY <1>6 DEF ReplayComplete
  <2>2. SameLease(i)
    BY <2>1, LeaseKept DEF jobVars, workerVars
  <2>3. UNCHANGED <<jobState[i], effect[i], ckpt[i], receipt[i], granted[i], effectRuns[i], approvals[i]>>
    BY <2>1 DEF jobVars
  <2> DEFINE done == [worker |-> w, token |-> t, result |-> r]
  <2>4. done \in DurableReceipt(j) /\ acked' = [acked EXCEPT ![j] = @ \cup {done}]
    BY <1>6 DEF ReplayComplete
  <2>5. done.worker \in Worker
    OBVIOUS
  <2> HIDE DEF done
  <2>6. CASE i = j
    <3>1. acked'[i] = acked[i] \cup {done}
      BY <1>0, <2>4, <2>6
    <3> QED
      BY <2>2, <2>3, <2>4, <2>5, <2>6, <3>1 DEF RowStep, RowConfirmed
  <2>7. CASE i # j
    <3>1. UNCHANGED acked[i]
      BY <1>0, <2>4, <2>7
    <3> QED
      BY <2>2, <2>3, <3>1 DEF RowStep, RowStays, SameHistory
  <2> QED
    BY <2>6, <2>7
<1> QED
  BY <1>1, <1>2, <1>3, <1>4, <1>5, <1>6 DEF LeaseCall

(* A lease takes its rows out of the queue and leaves the others.           *)
LEMMA LeaseRows ==
  ASSUME TypeOK, NEW i \in Job, NEW w \in Worker, NEW S \in SUBSET Job, Lease(w, S)
  PROVE  RowStep(i)
<1>1. UNCHANGED <<effect[i], ckpt[i], receipt[i], effectRuns[i], approvals[i], acked[i], workerState>>
  BY DEF Lease
<1>2. CASE i \in S
  <2>1. /\ jobState[i] = "queued" /\ jobState'[i] = "leased"
        /\ attempt'[i] = attempt[i] + 1 /\ leaseToken'[i] = attempt[i] + 1
        /\ leaseWorker'[i] = w /\ ttl'[i] = LeaseTicks
        /\ workerState'[w] = "active"
    BY <1>2 DEF Lease
  <2>2. LeaseTicks # Cleared
    BY TickRange
  <2>3. RowLeased(i)
    BY <1>1, <2>1, <2>2 DEF RowLeased
  <2> QED
    BY <2>3 DEF RowStep
<1>3. CASE i \notin S
  <2>1. /\ UNCHANGED <<jobState[i], attempt[i], leaseWorker[i], leaseToken[i], ttl[i]>>
        /\ SameHistory(i)
    BY <1>1, <1>3 DEF Lease, SameHistory
  <2>2. SameLease(i)
    BY <1>1, <2>1 DEF SameLease, LeaseHeld
  <2> QED
    BY <1>1, <2>1, <2>2 DEF RowStep, RowStays
<1> QED
  BY <1>2, <1>3

(* A release frees its rows; a revocation releases every row of its worker. *)
LEMMA ReleaseRows ==
  ASSUME TypeOK, LeaseConsistent, NEW i \in Job,
         NEW S \in SUBSET ActiveRows, NEW retryable \in BOOLEAN, Releasing(S, retryable)
  PROVE  RowStep(i)
<1>1. UNCHANGED <<effect[i], ckpt[i], receipt[i], attempt[i]>> /\ SameHistory(i)
  BY DEF Releasing, Release, history, SameHistory
<1>2. /\ jobState' = [j \in Job |-> IF j \in S THEN ReleaseTarget(j, retryable) ELSE jobState[j]]
      /\ ClearLeases(S)
  BY DEF Releasing, Release
<1>3. CASE i \in S
  <2>1. jobState[i] \in Active
    BY <1>3 DEF ActiveRows
  <2>2. jobState'[i] = ReleaseTarget(i, retryable)
    BY <1>2, <1>3
  <2>3. /\ jobState'[i] \in {"queued", "failed", "review_required"}
        /\ jobState'[i] = "queued" => attempt[i] < Request[i].limit
        /\ jobState'[i] = "review_required"
              <=> Request[i].mode = "non_idempotent" /\ effect[i] = "started"
    BY <2>2 DEF ReleaseTarget
  <2>4. FreedLease(i)
    BY <1>1, <1>2, <1>3 DEF ClearLeases, FreedLease
  <2> QED
    BY <1>1, <2>1, <2>3, <2>4 DEF RowStep, RowReleased
<1>4. CASE i \notin S
  <2>1. UNCHANGED <<jobState[i], leaseWorker[i], leaseToken[i], ttl[i]>>
    BY <1>2, <1>4 DEF ClearLeases
  <2>2. ASSUME LeaseHeld(i) PROVE workerState'[leaseWorker[i]] \in {"active", "draining"}
    <3>1. jobState[i] \in Active
      BY <2>2, TickRange DEF LeaseConsistent, LeaseHeld, LeaseFree
    <3>2. CASE UNCHANGED workerState
      BY <2>2, <3>2 DEF LeaseHeld
    <3>3. ASSUME NEW w \in Worker, S = Held(w), workerState' = [workerState EXCEPT ![w] = "revoked"]
          PROVE  workerState'[leaseWorker[i]] \in {"active", "draining"}
      <4>1. leaseWorker[i] # w
        BY <1>4, <3>1, <3>3 DEF Held, ActiveRows
      <4>2. workerState'[leaseWorker[i]] = workerState[leaseWorker[i]]
        BY <2>2, <3>3, <4>1 DEF TypeOK, LeaseHeld
      <4> QED
        BY <2>2, <4>2 DEF LeaseHeld
    <3> QED
      BY <3>2, <3>3 DEF Releasing
  <2>3. SameLease(i)
    BY <1>1, <2>1, <2>2 DEF SameLease
  <2> QED
    BY <1>1, <2>1, <2>3 DEF RowStep, RowStays
<1> QED
  BY <1>3, <1>4

(* Admission and pruning: the rows keep everything but their state.         *)
LEMMA MovedRows ==
  ASSUME NEW i \in Job, NEW S \in SUBSET Job, NEW D \in SUBSET TerminalRows,
         \A j \in S : jobState[j] = "absent" /\ KeyFree(Request[j].key),
         jobState' = [j \in Job |-> IF j \in S THEN "queued"
                                    ELSE IF j \in D THEN "pruned" ELSE jobState[j]],
         UNCHANGED <<attempt, effect, ckpt, receipt, leaseVars, workerState, history>>
  PROVE  RowStep(i)
<1>1. SameLease(i) /\ UNCHANGED <<effect[i], ckpt[i], receipt[i]>> /\ SameHistory(i)
  BY LeaseKept DEF SameHistory, history
<1>2. \/ jobState'[i] = jobState[i]
      \/ jobState[i] = "absent" /\ jobState'[i] = "queued" /\ KeyFree(Request[i].key)
      \/ jobState[i] \in Terminal /\ jobState'[i] = "pruned"
  BY DEF TerminalRows
<1> QED
  BY <1>1, <1>2 DEF RowStep, RowStays, RowMoved

(* Every step of the queue does one of nine things to a row.               *)
LEMMA EveryRow ==
  ASSUME TypeOK, LeaseConsistent, [Next]_vars, NEW i \in Job
  PROVE  RowStep(i)
<1>1. ASSUME NEW j \in Job, RetryReviewRequired(j) PROVE RowStep(i)
  <2>1. SameLease(i) /\ UNCHANGED <<ckpt[i], receipt[i], granted[i], effectRuns[i], acked[i]>>
    BY <1>1, LeaseKept DEF RetryReviewRequired, workerVars
  <2>2. /\ jobState[j] = "review_required" /\ jobState' = [jobState EXCEPT ![j] = "queued"]
        /\ effect' = [effect EXCEPT ![j] = "none"]
        /\ approvals' = [approvals EXCEPT ![j] = @ + 1]
    BY <1>1 DEF RetryReviewRequired
  <2>3. CASE i = j
    <3>1. jobState'[i] = "queued" /\ effect'[i] = "none" /\ approvals'[i] = approvals[i] + 1
      BY <2>2, <2>3, Columns
    <3> QED
      BY <2>1, <2>2, <2>3, <3>1 DEF RowStep, RowRetried
  <2>4. CASE i # j
    <3>1. UNCHANGED <<jobState[i], effect[i], approvals[i]>>
      BY <2>2, <2>4, Columns
    <3> QED
      BY <2>1, <3>1 DEF RowStep, RowStays, SameHistory
  <2> QED
    BY <2>3, <2>4
<1>2. ASSUME NEW j \in Job, NEW D \in SUBSET TerminalRows, Admitting(j, D) PROVE RowStep(i)
  <2>1. jobState' = [k \in Job |-> IF k \in {j} THEN "queued"
                                   ELSE IF k \in D THEN "pruned" ELSE jobState[k]]
    BY <1>2 DEF Admitting
  <2>2. UNCHANGED <<attempt, effect, ckpt, receipt, leaseVars, workerState, history>>
    BY <1>2 DEF Admitting
  <2>3. {j} \in SUBSET Job /\ \A k \in {j} : jobState[k] = "absent" /\ KeyFree(Request[k].key)
    BY <1>2 DEF Admitting
  <2> QED
    BY <2>1, <2>2, <2>3, MovedRows
<1>3. ASSUME NEW D \in SUBSET TerminalRows, Pruning(D) PROVE RowStep(i)
  <2>1. jobState' = [k \in Job |-> IF k \in {} THEN "queued"
                                   ELSE IF k \in D THEN "pruned" ELSE jobState[k]]
    BY <1>3 DEF Pruning
  <2>2. UNCHANGED <<attempt, effect, ckpt, receipt, leaseVars, workerState, history>>
    BY <1>3 DEF Pruning
  <2>3. {} \in SUBSET Job /\ \A k \in {} : jobState[k] = "absent" /\ KeyFree(Request[k].key)
    OBVIOUS
  <2> QED
    BY <2>1, <2>2, <2>3, MovedRows
<1>4. CASE Background
  <2>1. /\ UNCHANGED <<jobState[i], effect[i], ckpt[i], receipt[i]>> /\ SameHistory(i)
        /\ UNCHANGED <<leaseWorker[i], leaseToken[i], attempt[i]>>
        /\ ttl'[i] = Cleared <=> ttl[i] = Cleared
    BY <1>4 DEF Background, jobVars, history, SameHistory
  <2>2. ASSUME LeaseHeld(i) PROVE workerState'[leaseWorker[i]] \in {"active", "draining"}
    <3>1. leaseWorker[i] \in Usable(workerState)
      BY <2>2 DEF LeaseHeld, Usable
    <3>2. leaseWorker[i] \in Usable(workerState')
      BY <1>4, <3>1 DEF Background
    <3> QED
      BY <3>2 DEF Usable
  <2>3. SameLease(i)
    BY <2>1, <2>2 DEF SameLease
  <2> QED
    BY <2>1, <2>3 DEF RowStep, RowStays
<1> QED
  BY <1>1, <1>2, <1>3, <1>4, StepShape, CallRow, LeaseRows, ReleaseRows DEF Shape

-----------------------------------------------------------------------------
(* One step of each part of the invariant, on one row.                      *)

(* Leases begin complete, stay complete, and end complete.                  *)
LEMMA LeaseConsistentStep ==
  ASSUME TypeOK, LeaseConsistent, [Next]_vars
  PROVE  LeaseConsistent'
<1> SUFFICES ASSUME NEW i \in Job
             PROVE  /\ jobState'[i] \in Active => LeaseHeld(i)'
                    /\ jobState'[i] \notin Active => LeaseFree(i)'
  BY DEF LeaseConsistent
<1>1. /\ jobState[i] \in Active => LeaseHeld(i)
      /\ jobState[i] \notin Active => LeaseFree(i)
  BY DEF LeaseConsistent
<1>2. attempt[i] \in Nat
  BY Columns
<1>3. CASE SameLease(i) /\ (jobState'[i] \in Active <=> jobState[i] \in Active)
  BY <1>1, <1>3 DEF SameLease, LeaseHeld, LeaseFree
<1>4. CASE FreedLease(i) /\ jobState'[i] \notin Active
  BY <1>4 DEF FreedLease, LeaseFree
<1>5. CASE RowLeased(i)
  <2>1. jobState'[i] \in Active
    BY <1>5 DEF RowLeased, Active
  <2>2. LeaseHeld(i)'
    BY <1>2, <1>5 DEF RowLeased, LeaseHeld
  <2> QED
    BY <2>1, <2>2
<1>6. \/ SameLease(i) /\ (jobState'[i] \in Active <=> jobState[i] \in Active)
      \/ FreedLease(i) /\ jobState'[i] \notin Active
      \/ RowLeased(i)
  BY EveryRow DEF RowStep, RowStays, RowRetried, RowCheckpointed, RowEffectStarted, RowCompleted, RowConfirmed,
                  RowReleased, RowMoved, Active, Terminal
<1> QED
  BY <1>3, <1>4, <1>5, <1>6

(* The effect is let through only where none was let through since the      *)
(* last approval.                                                           *)
LEMMA EffectFencedStep ==
  ASSUME TypeOK, LeaseConsistent, EffectFenced, [Next]_vars
  PROVE  EffectFenced'
<1> SUFFICES ASSUME NEW i \in Job, Request[i].mode = "non_idempotent"
             PROVE  /\ effectRuns'[i] <= approvals'[i] + 1
                    /\ effect'[i] = "none" => effectRuns'[i] = approvals'[i]
                    /\ effect'[i] = "started" => effectRuns'[i] = approvals'[i] + 1
                    /\ jobState'[i] \in {"absent", "queued"} => effect'[i] = "none"
                    /\ jobState'[i] \in Active => effect'[i] # "completed"
                    /\ jobState'[i] = "review_required" => effect'[i] = "started"
  BY DEF EffectFenced
<1>1. /\ effectRuns[i] <= approvals[i] + 1
      /\ effect[i] = "none" => effectRuns[i] = approvals[i]
      /\ effect[i] = "started" => effectRuns[i] = approvals[i] + 1
      /\ jobState[i] \in {"absent", "queued"} => effect[i] = "none"
      /\ jobState[i] \in Active => effect[i] # "completed"
      /\ jobState[i] = "review_required" => effect[i] = "started"
  BY DEF EffectFenced
<1>2. /\ effectRuns[i] \in Nat /\ approvals[i] \in Nat
      /\ effect[i] \in {"none", "started", "completed"} /\ jobState[i] \in JobStates
  BY Columns
<1>3. CASE RowStays(i)
  BY <1>1, <1>2, <1>3 DEF RowStays, SameHistory, Active
<1>4. CASE RowRetried(i)
  BY <1>1, <1>2, <1>4 DEF RowRetried, Active
<1>5. CASE RowCheckpointed(i)
  BY <1>1, <1>2, <1>5 DEF RowCheckpointed, SameHistory
<1>6. CASE RowEffectStarted(i)
  <2>1. effect[i] = "none"
    BY <1>1, <1>2, <1>6 DEF RowEffectStarted
  <2>2. effectRuns'[i] = approvals'[i] + 1
    BY <1>1, <1>2, <1>6, <2>1 DEF RowEffectStarted
  <2>3. jobState'[i] \notin {"absent", "queued", "review_required"}
    BY <1>6 DEF RowEffectStarted, Active
  <2>4. effect'[i] = "started" /\ effectRuns'[i] <= approvals'[i] + 1
    BY <1>2, <1>6, <2>2 DEF RowEffectStarted
  <2> QED
    BY <2>2, <2>3, <2>4
<1>7. CASE RowCompleted(i)
  BY <1>1, <1>2, <1>7 DEF RowCompleted, Active
<1>8. CASE RowLeased(i)
  BY <1>1, <1>2, <1>8 DEF RowLeased, Active
<1>9. CASE RowReleased(i)
  BY <1>1, <1>2, <1>9 DEF RowReleased, SameHistory, Active
<1>10. CASE RowMoved(i)
  BY <1>1, <1>2, <1>10 DEF RowMoved, SameHistory, Active, Terminal
<1>11. CASE RowConfirmed(i)
  BY <1>1, <1>2, <1>11 DEF RowConfirmed, Active
<1> QED
  BY <1>3, <1>4, <1>5, <1>6, <1>7, <1>8, <1>9, <1>10, <1>11, EveryRow DEF RowStep

(* An attempt is taken from the queue, where one is left.                   *)
LEMMA AttemptsCountedStep ==
  ASSUME TypeOK, LeaseConsistent, AttemptsCounted, [Next]_vars
  PROVE  AttemptsCounted'
<1> SUFFICES ASSUME NEW i \in Job
             PROVE  /\ attempt'[i] <= Request[i].limit + approvals'[i]
                    /\ jobState'[i] = "queued" => attempt'[i] < Request[i].limit + approvals'[i]
                    /\ jobState'[i] = "absent" => attempt'[i] = 0
                    /\ ckpt'[i] <= attempt'[i]
  BY DEF AttemptsCounted
<1>1. /\ attempt[i] <= Request[i].limit + approvals[i]
      /\ jobState[i] = "queued" => attempt[i] < Request[i].limit + approvals[i]
      /\ jobState[i] = "absent" => attempt[i] = 0
      /\ ckpt[i] <= attempt[i]
  BY DEF AttemptsCounted
<1>2. /\ attempt[i] \in Nat /\ approvals[i] \in Nat /\ ckpt[i] \in Nat
      /\ jobState[i] \in JobStates
  BY Columns
<1> DEFINE limit == Request[i].limit
<1>l. limit \in Nat /\ limit > 0
  BY LimitType
<1> HIDE DEF limit
<1>3. CASE RowStays(i)
  BY <1>1, <1>2, <1>3 DEF RowStays, SameLease, SameHistory
<1>4. CASE RowRetried(i)
  <2>1. /\ attempt'[i] = attempt[i] /\ approvals'[i] = approvals[i] + 1 /\ ckpt'[i] = ckpt[i]
        /\ jobState'[i] = "queued"
    BY <1>4 DEF RowRetried, SameLease
  <2>2. attempt[i] <= limit + approvals[i]
    BY <1>1 DEF limit
  <2>3. attempt[i] < limit + (approvals[i] + 1)
    BY <1>2, <1>l, <2>2
  <2> QED
    BY <1>1, <1>2, <1>l, <2>1, <2>3 DEF limit
<1>5. CASE RowCheckpointed(i)
  <2>1. leaseToken[i] = attempt[i]
    BY <1>5 DEF RowCheckpointed, LeaseConsistent, LeaseHeld
  <2> QED
    BY <1>1, <1>2, <1>5, <2>1 DEF RowCheckpointed, SameLease, SameHistory
<1>6. CASE RowEffectStarted(i)
  BY <1>1, <1>2, <1>6 DEF RowEffectStarted, SameLease
<1>7. CASE RowCompleted(i)
  BY <1>1, <1>2, <1>7 DEF RowCompleted, FreedLease
<1>8. CASE RowLeased(i)
  <2>1. /\ attempt'[i] = attempt[i] + 1 /\ approvals'[i] = approvals[i] /\ ckpt'[i] = ckpt[i]
        /\ jobState[i] = "queued" /\ jobState'[i] = "leased"
    BY <1>8 DEF RowLeased
  <2>2. attempt[i] < limit + approvals[i]
    BY <1>1, <2>1 DEF limit
  <2>3. attempt[i] + 1 <= limit + approvals[i] /\ ckpt[i] <= attempt[i] + 1
    BY <1>1, <1>2, <1>l, <2>2
  <2> QED
    BY <2>1, <2>3 DEF limit
<1>9. CASE RowReleased(i)
  <2>1. /\ attempt'[i] = attempt[i] /\ approvals'[i] = approvals[i] /\ ckpt'[i] = ckpt[i]
        /\ jobState'[i] # "absent"
        /\ jobState'[i] = "queued" => attempt[i] < limit
    BY <1>9 DEF RowReleased, FreedLease, SameHistory, limit
  <2>2. attempt[i] < limit => attempt[i] < limit + approvals[i]
    BY <1>2, <1>l
  <2> QED
    BY <1>1, <2>1, <2>2 DEF limit
<1>10. CASE RowMoved(i)
  <2>1. /\ attempt'[i] = attempt[i] /\ approvals'[i] = approvals[i] /\ ckpt'[i] = ckpt[i]
        /\ jobState'[i] # "absent"
        /\ jobState'[i] = "queued" => jobState[i] = "absent"
    BY <1>10 DEF RowMoved, SameLease, SameHistory
  <2>2. attempt[i] = 0 => attempt[i] < limit + approvals[i]
    BY <1>2, <1>l
  <2> QED
    BY <1>1, <2>1, <2>2 DEF limit
<1>11. CASE RowConfirmed(i)
  BY <1>1, <1>2, <1>11 DEF RowConfirmed, SameLease
<1> QED
  BY <1>3, <1>4, <1>5, <1>6, <1>7, <1>8, <1>9, <1>10, <1>11, EveryRow DEF RowStep

(* A job is completed under the lease that is in its row.                   *)
LEMMA CompletedStep ==
  ASSUME TypeOK, LeaseConsistent, CompletedByLatestLease, [Next]_vars
  PROVE  CompletedByLatestLease'
<1> SUFFICES ASSUME NEW i \in Job \ LegacyJobs, jobState'[i] = "completed"
             PROVE  /\ receipt'[i].token = attempt'[i]
                    /\ <<receipt'[i].worker, receipt'[i].token>> \in granted'[i]
  BY DEF CompletedByLatestLease
<1>1. CASE RowCompleted(i)
  <2>1. leaseToken[i] = attempt[i]
    BY <1>1 DEF RowCompleted, LeaseConsistent, LeaseHeld
  <2> QED
    BY <1>1, <2>1 DEF RowCompleted, FreedLease
<1>2. CASE ~RowCompleted(i)
  <2>1. jobState[i] = "completed" /\ UNCHANGED <<attempt[i], receipt[i], granted[i]>>
    BY <1>2, EveryRow DEF RowStep, RowStays, RowRetried, RowCheckpointed, RowEffectStarted, RowConfirmed, RowLeased,
                          RowReleased, RowMoved, SameLease, SameHistory, Active
  <2>2. /\ receipt[i].token = attempt[i]
        /\ <<receipt[i].worker, receipt[i].token>> \in granted[i]
    BY <2>1 DEF CompletedByLatestLease
  <2> QED
    BY <2>1, <2>2
<1> QED
  BY <1>1, <1>2

(* The invariant is inductive.                                              *)
LEMMA QueueInvStep == QueueInv /\ [Next]_vars => QueueInv'
BY TypeStep, LeaseConsistentStep, EffectFencedStep, AttemptsCountedStep, CompletedStep DEF QueueInv

-----------------------------------------------------------------------------
(* Theorems.                                                                *)

(* The inductive invariant holds in every reachable state of the queue.     *)
THEOREM QueueInvariant == Spec => []QueueInv
BY InitInv, QueueInvStep, PTL DEF Spec

(* invariant_violations never finds a lease column set on an inactive job,  *)
(* empty on an active one, or naming a worker that is gone, whatever was    *)
(* lost, repeated or recovered.                                             *)
THEOREM LeasesConsistent == Spec => []LeaseConsistent
<1>1. QueueInv => LeaseConsistent
  BY DEF QueueInv
<1> QED
  BY <1>1, QueueInvariant, PTL

(* mark_side_effect_started lets a non-idempotent effect through once per   *)
(* approval of retry_review_required, and once before any.                  *)
THEOREM EffectsFenced == Spec => []EffectOncePerApproval
<1>1. QueueInv => EffectOncePerApproval
  <2> SUFFICES ASSUME QueueInv, NEW j \in Job, Request[j].mode = "non_idempotent"
               PROVE  /\ effectRuns[j] <= approvals[j] + 1
                      /\ effect[j] = "none" => effectRuns[j] <= approvals[j]
                      /\ jobState[j] = "queued" => effect[j] = "none"
    BY DEF EffectOncePerApproval
  <2>1. effectRuns[j] \in Nat /\ approvals[j] \in Nat
    BY Columns DEF QueueInv
  <2> QED
    BY <2>1 DEF QueueInv, EffectFenced
<1> QED
  BY <1>1, QueueInvariant, PTL

(* A job has at most its max_attempts leases, and one more per approval.    *)
THEOREM AttemptsWithinBudget == Spec => []AttemptsBounded
<1>1. QueueInv => AttemptsBounded
  BY DEF QueueInv, AttemptsCounted, AttemptsBounded
<1> QED
  BY <1>1, QueueInvariant, PTL

(* complete() by an owner that lost the job never finishes it.              *)
THEOREM CompletionFenced == Spec => []CompletedByLatestLease
<1>1. QueueInv => CompletedByLatestLease
  BY DEF QueueInv
<1> QED
  BY <1>1, QueueInvariant, PTL

(* What checkpoint() of a newer owner stored is never overwritten by an     *)
(* older one, after recovery, repetition or a restart.                      *)
THEOREM CheckpointsNeverRegress == Spec => CheckpointsAdvance
<1>1. QueueInv /\ [Next]_vars => [\A j \in Job : ckpt'[j] >= ckpt[j]]_vars
  <2> SUFFICES ASSUME QueueInv, [Next]_vars, NEW i \in Job PROVE ckpt'[i] >= ckpt[i]
    OBVIOUS
  <2>1. TypeOK /\ LeaseConsistent /\ ckpt[i] \in Nat /\ attempt[i] \in Nat
    BY Columns DEF QueueInv
  <2>2. CASE RowCheckpointed(i)
    <3>1. leaseToken[i] = attempt[i]
      BY <2>1, <2>2 DEF RowCheckpointed, LeaseConsistent, LeaseHeld
    <3>2. ckpt[i] <= attempt[i]
      BY DEF QueueInv, AttemptsCounted
    <3> QED
      BY <2>1, <2>2, <3>1, <3>2 DEF RowCheckpointed
  <2>3. CASE ~RowCheckpointed(i)
    <3>1. ckpt'[i] = ckpt[i]
      BY <2>1, <2>3, EveryRow DEF RowStep, RowStays, RowRetried, RowEffectStarted, RowCompleted, RowConfirmed,
                                  RowLeased, RowReleased, RowMoved
    <3> QED
      BY <2>1, <3>1
  <2> QED
    BY <2>2, <2>3
<1> QED
  BY <1>1, QueueInvariant, PTL DEF Spec, CheckpointsAdvance

(* A job that ended is not run again, and a review is left only by          *)
(* retry_review_required.                                                   *)
THEOREM TerminalStays == Spec => TerminalIsFinal
<1> DEFINE Final(j) ==
        /\ jobState[j] \in Terminal => /\ jobState'[j] \in {jobState[j], "pruned"}
                                       /\ receipt'[j] = receipt[j]
        /\ jobState[j] = "pruned" => jobState'[j] = "pruned"
        /\ jobState[j] = "review_required" /\ jobState'[j] # "review_required"
             => approvals'[j] = approvals[j] + 1
<1>1. QueueInv /\ [Next]_vars => [\A j \in Job : Final(j)]_vars
  <2> SUFFICES ASSUME QueueInv, [Next]_vars, NEW i \in Job PROVE Final(i)
    OBVIOUS
  <2>1. RowStep(i)
    BY EveryRow DEF QueueInv
  <2> QED
    BY <2>1 DEF RowStep, RowStays, RowRetried, RowCheckpointed, RowEffectStarted, RowCompleted, RowConfirmed,
                RowLeased, RowReleased, RowMoved, Active, Terminal
<1> QED
  BY <1>1, QueueInvariant, PTL DEF Spec, TerminalIsFinal

(* The owner of a lease that was followed by another, or taken back, changes *)
(* neither the row nor anything of the worker that has the job now: all it   *)
(* is still answered is the completion it may repeat.                       *)
THEOREM OldLeasesAreRefused ==
  Spec => [][\A j \in Job, w \in Worker, t \in Nat :
               WorkerCall(j, w, t) /\ (t # attempt[j] \/ jobState[j] \notin Active)
                 => UNCHANGED <<jobVars, leaseVars, fence, workerVars>>]_vars
<1>1. QueueInv => \A j \in Job, w \in Worker, t \in Nat :
                    HoldsLease(j, w, t) => t = attempt[j] /\ jobState[j] \in Active
  BY DEF QueueInv, LeaseConsistent, LeaseHeld, HoldsLease
<1>2. QueueInv /\ [Next]_vars
        => [\A j \in Job, w \in Worker, t \in Nat :
              WorkerCall(j, w, t) /\ (t # attempt[j] \/ jobState[j] \notin Active)
                => UNCHANGED <<jobVars, leaseVars, fence, workerVars>>]_vars
  <2> SUFFICES ASSUME QueueInv, NEW j \in Job, NEW w \in Worker, NEW t \in Nat, WorkerCall(j, w, t),
                      t # attempt[j] \/ jobState[j] \notin Active
               PROVE  UNCHANGED <<jobVars, leaseVars, fence, workerVars>>
    OBVIOUS
  <2>1. ~HoldsLease(j, w, t)
    BY <1>1
  <2>2. \E r \in Result : ReplayComplete(j, w, t, r)
    BY <2>1 DEF WorkerCall, StartJob, RenewLease, Checkpoint, MarkSideEffectStarted, HandoverLease, Fail,
                GiveBack, Complete
  <2> QED
    BY <2>2 DEF ReplayComplete
<1> QED
  BY <1>2, QueueInvariant, PTL DEF Spec
=============================================================================
