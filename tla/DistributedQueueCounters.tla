----------------------- MODULE DistributedQueueCounters -----------------------
(* The redundant counter active_leases, which every transition keeps by     *)
(* hand, is exact: the number of the worker's active rows.                  *)
EXTENDS DistributedQueueSafety

CountersInv == QueueInv /\ CountersExact

-----------------------------------------------------------------------------
(* Sizes of the sets of rows a worker holds.                                *)

(* Rows taken out of what a worker holds are subtracted from its counter,   *)
(* and never more of them than it counted.                                  *)
LEMMA Uncounted ==
  ASSUME TypeOK, CountersExact, NEW S \in SUBSET ActiveRows, Uncount(S), NEW w \in Worker,
         Held(w)' = Held(w) \ S
  PROVE  activeLeases'[w] = Cardinality(Held(w)')
<1> DEFINE lost == {j \in S : leaseWorker[j] = w}
<1>1. lost = Held(w) \cap S
  BY DEF Held, ActiveRows
<1>2. Held(w) \in SUBSET Job /\ lost \in SUBSET Job
  BY DEF Held, ActiveRows
<1>3. /\ Cardinality(Held(w)) \in Nat /\ Cardinality(lost) \in Nat
      /\ Cardinality(Held(w) \ S) \in Nat
      /\ IsFiniteSet(Held(w))
  BY <1>2, JobSetsFinite
<1>4. Cardinality(Held(w) \ S) = Cardinality(Held(w)) - Cardinality(lost)
  BY <1>1, <1>3, FS_Difference
<1>5. activeLeases[w] = Cardinality(Held(w))
  BY DEF CountersExact
<1>6. activeLeases'[w] = Floor0(activeLeases[w] - Cardinality(lost))
  BY DEF Uncount
<1> HIDE DEF lost
<1>7. activeLeases'[w] = Cardinality(Held(w) \ S)
  BY <1>3, <1>4, <1>5, <1>6 DEF Floor0
<1> QED
  BY <1>7

(* The rows held are the same when no row enters or leaves an active state. *)
LEMMA HeldKept ==
  ASSUME NEW w \in Worker,
         \A j \in Job : jobState'[j] \in Active <=> jobState[j] \in Active,
         \A j \in Job : jobState[j] \in Active => leaseWorker'[j] = leaseWorker[j]
  PROVE  Held(w)' = Held(w)
BY DEF Held, ActiveRows

(* A release takes its rows out, and only them.                             *)
LEMMA HeldReleased ==
  ASSUME NEW w \in Worker, NEW S \in SUBSET ActiveRows, NEW retryable, Release(S, retryable)
  PROVE  Held(w)' = Held(w) \ S
<1>1. /\ jobState' = [j \in Job |-> IF j \in S THEN ReleaseTarget(j, retryable) ELSE jobState[j]]
      /\ leaseWorker' = [j \in Job |-> IF j \in S THEN NoWorker ELSE leaseWorker[j]]
  BY DEF Release, ClearLeases
<1>2. \A j \in S : jobState'[j] \notin Active
  BY <1>1, ReleaseTargetType DEF ActiveRows, Active
<1> QED
  BY <1>1, <1>2 DEF Held, ActiveRows

(* Recovery, by a sweep or by the start-up code.                            *)
LEMMA RecoverCounts ==
  ASSUME TypeOK, CountersExact, NEW S \in SUBSET ActiveRows, Recover(S)
  PROVE  CountersExact'
BY HeldReleased, Uncounted DEF Recover, CountersExact

-----------------------------------------------------------------------------
(* One step.                                                                *)

(* The calls under a lease.                                                 *)
LEMMA CallCounts ==
  ASSUME TypeOK, CountersExact, NEW j \in Job, NEW w \in Worker, NEW t \in Nat, WorkerCall(j, w, t)
  PROVE  CountersExact'
<1>1. CASE UNCHANGED <<jobState, leaseWorker, activeLeases>>
  BY <1>1, HeldKept DEF CountersExact
<1>2. CASE StartJob(j, w, t)
  <2>1. /\ jobState[j] \in Active /\ jobState' = [jobState EXCEPT ![j] = "running"]
        /\ UNCHANGED <<leaseWorker, activeLeases>>
    BY <1>2 DEF StartJob, HoldsLease, leaseVars, workerVars
  <2>2. \A i \in Job : jobState'[i] \in Active <=> jobState[i] \in Active
    BY <2>1 DEF TypeOK, Active
  <2> QED
    BY <2>1, <2>2, HeldKept DEF CountersExact
<1>3. ASSUME NEW retryable \in BOOLEAN, GiveBack(j, w, t, retryable) PROVE CountersExact'
  <2>1. {j} \in SUBSET ActiveRows /\ Release({j}, retryable) /\ Uncount({j})
    BY <1>3 DEF GiveBack, HoldsLease, ActiveRows
  <2> QED
    BY <2>1, HeldReleased, Uncounted DEF CountersExact
<1>4. ASSUME NEW r \in Result, Complete(j, w, t, r) PROVE CountersExact'
  <2>1. /\ {j} \in SUBSET ActiveRows /\ Uncount({j})
        /\ jobState' = [jobState EXCEPT ![j] = "completed"]
        /\ leaseWorker' = [i \in Job |-> IF i \in {j} THEN NoWorker ELSE leaseWorker[i]]
    BY <1>4 DEF Complete, HoldsLease, ClearLeases, ActiveRows
  <2>2. ASSUME NEW v \in Worker PROVE Held(v)' = Held(v) \ {j}
    BY <2>1 DEF Held, ActiveRows, TypeOK, Active
  <2> QED
    BY <2>1, <2>2, Uncounted DEF CountersExact
<1> QED
  BY <1>1, <1>2, <1>3, <1>4
     DEF WorkerCall, HandoverLease, Fail, RenewLease, Checkpoint, MarkSideEffectStarted, ReplayComplete,
         jobVars, leaseVars, workerVars

(* A lease adds its rows to the worker's, and their number to its counter.  *)
LEMMA LeaseCounts ==
  ASSUME TypeOK, CountersExact, NEW w \in Worker, NEW S \in SUBSET Job, Lease(w, S)
  PROVE  CountersExact'
<1>1. /\ S \subseteq {j \in Job : jobState[j] = "queued"}
      /\ jobState' = [j \in Job |-> IF j \in S THEN "leased" ELSE jobState[j]]
      /\ leaseWorker' = [j \in Job |-> IF j \in S THEN w ELSE leaseWorker[j]]
      /\ activeLeases' = [activeLeases EXCEPT ![w] = @ + Cardinality(S)]
  BY DEF Lease
<1>2. activeLeases \in [Worker -> Nat]
  BY DEF TypeOK
<1> SUFFICES ASSUME NEW v \in Worker PROVE activeLeases'[v] = Cardinality(Held(v)')
  BY DEF CountersExact
<1>3. activeLeases[v] = Cardinality(Held(v))
  BY DEF CountersExact
<1>4. CASE v = w
  <2>1. Held(v)' = Held(v) \cup S /\ Held(v) \cap S = {}
    BY <1>1, <1>4 DEF Held, ActiveRows, Active
  <2>2. /\ IsFiniteSet(S) /\ IsFiniteSet(Held(v))
        /\ Cardinality(S) \in Nat /\ Cardinality(Held(v)) \in Nat
    BY JobSetsFinite DEF Held, ActiveRows
  <2>3. Cardinality(Held(v) \cup S) = Cardinality(Held(v)) + Cardinality(S) - Cardinality(Held(v) \cap S)
    BY <2>2, FS_Union
  <2>4. Cardinality(Held(v) \cap S) = 0
    BY <2>1, FS_EmptySet
  <2>5. Cardinality(Held(v)') = Cardinality(Held(v)) + Cardinality(S)
    BY <2>1, <2>2, <2>3, <2>4
  <2> QED
    BY <1>1, <1>2, <1>3, <1>4, <2>5
<1>5. CASE v # w
  <2>1. Held(v)' = Held(v)
    BY <1>1, <1>5 DEF Held, ActiveRows, Active
  <2> QED
    BY <1>1, <1>2, <1>3, <1>5, <2>1
<1> QED
  BY <1>4, <1>5

(* A revocation takes every row of one worker and sets its counter to 0.    *)
LEMMA RevokeCounts ==
  ASSUME TypeOK, CountersExact, NEW w \in Worker, RevokeWorker(w)
  PROVE  CountersExact'
<1>1. Held(w) \in SUBSET ActiveRows /\ Release(Held(w), TRUE)
  BY DEF RevokeWorker, Held
<1>2. activeLeases' = [activeLeases EXCEPT ![w] = 0] /\ activeLeases \in [Worker -> Nat]
  BY DEF RevokeWorker, TypeOK
<1> SUFFICES ASSUME NEW v \in Worker PROVE activeLeases'[v] = Cardinality(Held(v)')
  BY DEF CountersExact
<1>3. Held(v)' = Held(v) \ Held(w)
  BY <1>1, HeldReleased
<1>4. CASE v = w
  BY <1>2, <1>3, <1>4, FS_EmptySet
<1>5. CASE v # w
  <2>1. Held(v)' = Held(v)
    BY <1>3, <1>5 DEF Held
  <2> QED
    BY <1>2, <1>5, <2>1 DEF CountersExact
<1> QED
  BY <1>4, <1>5

(* reconcile_durable_state counts the rows it left; a worker without a row  *)
(* of its own has no leases.                                                *)
LEMMA ReconcileCounts ==
  ASSUME TypeOK, LeaseConsistent, CountersExact, BootReconcile
  PROVE  CountersExact'
<1>1. /\ InvalidRows \in SUBSET ActiveRows /\ Release(InvalidRows, TRUE)
      /\ activeLeases' = [w \in Worker |-> IF workerState[w] = "absent" THEN activeLeases[w]
                                           ELSE Cardinality(Held(w) \ InvalidRows)]
  BY DEF BootReconcile, InvalidRows
<1> SUFFICES ASSUME NEW v \in Worker PROVE activeLeases'[v] = Cardinality(Held(v)')
  BY DEF CountersExact
<1>2. Held(v)' = Held(v) \ InvalidRows
  BY <1>1, HeldReleased
<1>3. CASE workerState[v] = "absent"
  <2>1. Held(v) = {}
    BY <1>3 DEF Held, ActiveRows, LeaseConsistent, LeaseHeld
  <2>2. Held(v)' = Held(v)
    BY <1>2, <2>1
  <2> QED
    BY <1>1, <1>3, <2>2 DEF CountersExact
<1>4. CASE workerState[v] # "absent"
  BY <1>1, <1>2, <1>4
<1> QED
  BY <1>3, <1>4

(* Admission and pruning move no active row.                                *)
LEMMA HistoryCounts ==
  ASSUME TypeOK, CountersExact, RetainTerminal \/ \E j \in Job : Enqueue(j) \/ RetryReviewRequired(j)
  PROVE  CountersExact'
<1>1. UNCHANGED <<leaseWorker, activeLeases>>
  BY DEF RetainTerminal, Enqueue, RetryReviewRequired, leaseVars, workerVars
<1>2. ASSUME NEW i \in Job PROVE jobState'[i] \in Active <=> jobState[i] \in Active
  <2>1. ASSUME NEW j \in Job, NEW D \in SUBSET TerminalRows, jobState[j] = "absent",
               jobState' = [q \in Job |-> IF q = j THEN "queued" ELSE IF q \in D THEN "pruned" ELSE jobState[q]]
        PROVE  jobState'[i] \in Active <=> jobState[i] \in Active
    BY <2>1 DEF TerminalRows, Active, Terminal
  <2>2. ASSUME NEW D \in SUBSET TerminalRows,
               jobState' = [q \in Job |-> IF q \in D THEN "pruned" ELSE jobState[q]]
        PROVE  jobState'[i] \in Active <=> jobState[i] \in Active
    BY <2>2 DEF TerminalRows, Active, Terminal
  <2>3. ASSUME NEW j \in Job, jobState[j] = "review_required", jobState' = [jobState EXCEPT ![j] = "queued"]
        PROVE  jobState'[i] \in Active <=> jobState[i] \in Active
    BY <2>3 DEF TypeOK, Active
  <2>4. CASE \E j \in Job : Enqueue(j)
    BY <2>1, <2>4 DEF Enqueue
  <2>5. CASE RetainTerminal
    BY <2>2, <2>5 DEF RetainTerminal
  <2>6. CASE \E j \in Job : RetryReviewRequired(j)
    BY <2>3, <2>6 DEF RetryReviewRequired
  <2> QED
    BY <2>4, <2>5, <2>6
<1> QED
  BY <1>1, <1>2, HeldKept DEF CountersExact

(* Every step keeps the counters exact.                                     *)
LEMMA CountersStep ==
  ASSUME TypeOK, LeaseConsistent, CountersExact, [Next]_vars
  PROVE  CountersExact'
<1>1. CASE UNCHANGED <<jobState, leaseWorker, activeLeases>>
  BY <1>1, HeldKept DEF CountersExact
<1>2. ASSUME NEW j \in Job, NEW lease \in granted[j], WorkerCall(j, lease[1], lease[2])
      PROVE  CountersExact'
  <2>1. lease[1] \in Worker /\ lease[2] \in Nat
    BY DEF TypeOK
  <2> QED
    BY <1>2, <2>1, CallCounts
<1>3. ASSUME NEW w \in Worker, WorkerStep(w) PROVE CountersExact'
  <2>1. ASSUME NEW S \in SUBSET Job, Lease(w, S) PROVE CountersExact'
    BY <2>1, LeaseCounts
  <2>2. CASE LeaseNext(w) \/ LeaseMany(w)
    BY <2>1, <2>2 DEF LeaseNext, LeaseMany
  <2> QED
    BY <1>1, <1>3, <2>2, RevokeCounts
       DEF WorkerStep, RegisterWorker, Heartbeat, SetWorkerDrain, jobVars, leaseVars
<1>4. CASE Sweep \/ ControlPlaneRecovery
  BY <1>1, <1>4, RecoverCounts, RowSets
     DEF Sweep, BeginSweep, RecoverStaleWorkerLeases, RecoverExpiredLeases, ControlPlaneRecovery,
         jobVars, leaseVars, workerVars
<1>5. CASE Boot
  BY <1>1, <1>5, RecoverCounts, ReconcileCounts, RowSets
     DEF Boot, BootClock, BootBackfill, BootRecoverStale, BootRecoverExpired, jobVars, leaseVars, workerVars
<1>6. CASE Tick \/ Crash \/ UNCHANGED vars
  BY <1>1, <1>6 DEF Tick, Crash, vars, jobVars, leaseVars, workerVars
<1> QED
  BY <1>2, <1>3, <1>4, <1>5, <1>6, HistoryCounts DEF Next

(* A first start has no worker and no lease.                                *)
LEMMA CountersInit == Init => CountersExact
<1> SUFFICES ASSUME Init, NEW w \in Worker PROVE activeLeases[w] = Cardinality(Held(w))
  BY DEF CountersExact
<1>1. Held(w) = {} /\ activeLeases[w] = 0
  BY DEF Init, Held, ActiveRows, Active
<1> QED
  BY <1>1, FS_EmptySet

(* No slot of a worker leaks and none is given twice, whatever lost,        *)
(* repeated or recovered leases its counter was adjusted for.               *)
THEOREM CountersAreExact == Spec => []CountersExact
<1>1. Init => CountersInv
  BY InitInv, CountersInit DEF CountersInv
<1>2. CountersInv /\ [Next]_vars => CountersInv'
  BY QueueInvStep, CountersStep DEF CountersInv, QueueInv
<1>3. CountersInv => CountersExact
  BY DEF CountersInv
<1> QED
  BY <1>1, <1>2, <1>3, PTL DEF Spec

-----------------------------------------------------------------------------
(* The repair of a damaged database.                                        *)

(* What the repair rests on: a lease token is of the latest attempt or gone, *)
(* inactive rows have no lease, and no counter outlives its worker's row.   *)
Repairable ==
    /\ \A j \in Job : /\ jobState[j] \in Active => attempt[j] > 0 /\ leaseToken[j] \in {0, attempt[j]}
                      /\ jobState[j] \notin Active => LeaseFree(j)
    /\ \A w \in Worker : workerState[w] = "absent" => activeLeases[w] = 0

RecoveryInv == TypeOK /\ Repairable /\ RepairedOnceReconciled

(* A sound database is repairable.                                          *)
LEMMA SoundIsRepairable ==
  LeaseConsistent /\ CountersExact => Repairable /\ RepairedOnceReconciled
<1> SUFFICES ASSUME LeaseConsistent, CountersExact PROVE Repairable
  BY DEF RepairedOnceReconciled
<1>1. ASSUME NEW w \in Worker, workerState[w] = "absent" PROVE activeLeases[w] = 0
  <2>1. Held(w) = {}
    BY <1>1 DEF Held, ActiveRows, LeaseConsistent, LeaseHeld
  <2> QED
    BY <2>1, FS_EmptySet DEF CountersExact
<1> QED
  BY <1>1 DEF Repairable, LeaseConsistent, LeaseHeld

(* reconcile_durable_state releases the rows it cannot trust, and what is    *)
(* left is a consistent lease table; then it counts it.                     *)
LEMMA ReconcileRepairs ==
  ASSUME TypeOK, Repairable, BootReconcile
  PROVE  LeaseConsistent' /\ CountersExact'
<1>1. /\ InvalidRows \in SUBSET ActiveRows /\ Release(InvalidRows, TRUE)
      /\ activeLeases' = [w \in Worker |-> IF workerState[w] = "absent" THEN activeLeases[w]
                                           ELSE Cardinality(Held(w) \ InvalidRows)]
      /\ workerState' = workerState
  BY DEF BootReconcile, InvalidRows
<1>2. /\ jobState' = [j \in Job |-> IF j \in InvalidRows THEN ReleaseTarget(j, TRUE) ELSE jobState[j]]
      /\ leaseWorker' = [j \in Job |-> IF j \in InvalidRows THEN NoWorker ELSE leaseWorker[j]]
      /\ leaseToken' = [j \in Job |-> IF j \in InvalidRows THEN 0 ELSE leaseToken[j]]
      /\ ttl' = [j \in Job |-> IF j \in InvalidRows THEN Cleared ELSE ttl[j]]
      /\ attempt' = attempt
  BY <1>1 DEF Release, ClearLeases
<1>3. ASSUME NEW j \in Job
      PROVE  /\ jobState'[j] \in Active => LeaseHeld(j)'
             /\ jobState'[j] \notin Active => LeaseFree(j)'
  <2>1. CASE j \in InvalidRows
    <3>1. jobState'[j] \notin Active
      BY <1>2, <2>1, ReleaseTargetType DEF Active
    <3>2. LeaseFree(j)'
      BY <1>2, <2>1 DEF LeaseFree
    <3> QED
      BY <3>1, <3>2
  <2>2. CASE j \notin InvalidRows
    <3>1. /\ jobState'[j] = jobState[j] /\ leaseWorker'[j] = leaseWorker[j] /\ leaseToken'[j] = leaseToken[j]
          /\ ttl'[j] = ttl[j] /\ attempt'[j] = attempt[j]
      BY <1>2, <2>2
    <3>2. CASE jobState[j] \notin Active
      BY <3>1, <3>2 DEF Repairable, LeaseFree
    <3>3. CASE jobState[j] \in Active
      <4>1. /\ leaseWorker[j] # NoWorker /\ leaseToken[j] # 0 /\ ttl[j] # Cleared
            /\ workerState[leaseWorker[j]] \notin {"absent", "revoked"}
        BY <2>2, <3>3 DEF InvalidRows, ActiveRows
      <4>2. leaseWorker[j] \in Worker /\ leaseToken[j] = attempt[j] /\ attempt[j] > 0
        BY <3>3, <4>1 DEF Repairable, TypeOK
      <4>3. workerState[leaseWorker[j]] \in {"active", "draining"}
        BY <4>1, <4>2 DEF TypeOK
      <4>4. Cleared' = Cleared
        BY DEF Cleared
      <4> QED
        BY <1>1, <3>1, <3>3, <4>1, <4>2, <4>3, <4>4 DEF LeaseHeld
    <3> QED
      BY <3>2, <3>3
  <2> QED
    BY <2>1, <2>2
<1>4. ASSUME NEW w \in Worker PROVE activeLeases'[w] = Cardinality(Held(w)')
  <2>1. Held(w)' = Held(w) \ InvalidRows
    BY <1>1, HeldReleased
  <2>2. CASE workerState[w] = "absent"
    <3>1. Held(w) \ InvalidRows = {}
      BY <2>2 DEF Held, InvalidRows
    <3> QED
      BY <1>1, <2>1, <2>2, <3>1, FS_EmptySet DEF Repairable
  <2>3. CASE workerState[w] # "absent"
    BY <1>1, <2>1, <2>3
  <2> QED
    BY <2>2, <2>3
<1> QED
  BY <1>3, <1>4 DEF LeaseConsistent, CountersExact

(* Before the repair nothing runs but the start-up code, the clock and       *)
(* further crashes.                                                         *)
LEMMA BeforeRepair ==
  ASSUME phase \in {"clock", "backfill", "reconcile"}, [Next]_vars
  PROVE  BootClock \/ BootBackfill \/ BootReconcile \/ Tick \/ Crash \/ UNCHANGED vars
<1>1. ~Up /\ phase # "stale" /\ phase # "expired"
  BY DEF Up
<1>2. ASSUME NEW j, NEW w, NEW t PROVE ~WorkerCall(j, w, t)
  BY <1>1 DEF WorkerCall, StartJob, RenewLease, Checkpoint, MarkSideEffectStarted, HandoverLease, Fail,
              GiveBack, Complete, ReplayComplete, Presents
<1>3. ASSUME NEW w PROVE ~WorkerStep(w)
  BY <1>1 DEF WorkerStep, LeaseNext, LeaseMany, Lease, RegisterWorker, Heartbeat, SetWorkerDrain, RevokeWorker
<1>4. ~Sweep /\ ~ControlPlaneRecovery /\ ~RetainTerminal /\ ~BootRecoverStale /\ ~BootRecoverExpired
  BY <1>1 DEF Sweep, BeginSweep, RecoverStaleWorkerLeases, RecoverExpiredLeases, ControlPlaneRecovery,
              RetainTerminal, BootRecoverStale, BootRecoverExpired
<1>5. ASSUME NEW j PROVE ~Enqueue(j) /\ ~RetryReviewRequired(j)
  BY <1>1 DEF Enqueue, RetryReviewRequired
<1> QED
  BY <1>2, <1>3, <1>4, <1>5 DEF Next, Boot

(* Until the repair the rows stay as they are, but for the times of active   *)
(* leases.                                                                  *)
LEMMA RepairStep == RecoveryInv /\ [Next]_vars => RecoveryInv'
<1> SUFFICES ASSUME TypeOK, Repairable, RepairedOnceReconciled, [Next]_vars
             PROVE  Repairable' /\ RepairedOnceReconciled'
  BY TypeStep DEF RecoveryInv
<1>1. CASE phase \notin {"clock", "backfill", "reconcile"}
  <2>1. LeaseConsistent /\ CountersExact
    BY <1>1 DEF RepairedOnceReconciled
  <2>2. LeaseConsistent' /\ CountersExact'
    BY <2>1, LeaseConsistentStep, CountersStep
  <2>3. (LeaseConsistent /\ CountersExact)' => (Repairable /\ RepairedOnceReconciled)'
    BY SoundIsRepairable, PTL
  <2> QED
    BY <2>2, <2>3
<1>2. CASE phase \in {"clock", "backfill", "reconcile"}
  <2>1. BootClock \/ BootBackfill \/ BootReconcile \/ Tick \/ Crash \/ UNCHANGED vars
    BY <1>2, BeforeRepair
  <2>2. CASE BootReconcile
    <3>1. (LeaseConsistent /\ CountersExact)' => (Repairable /\ RepairedOnceReconciled)'
      BY SoundIsRepairable, PTL
    <3> QED
      BY <2>2, <3>1, ReconcileRepairs
  <2>3. CASE BootClock \/ BootBackfill \/ Tick \/ Crash \/ UNCHANGED vars
    <3>1. UNCHANGED <<jobState, attempt, leaseWorker, leaseToken, workerState, activeLeases>>
      BY <2>3 DEF BootClock, BootBackfill, Tick, Crash, vars, jobVars, leaseVars, workerVars
    <3>2. phase' \in {"clock", "backfill", "reconcile"}
      BY <1>2, <2>3 DEF BootClock, BootBackfill, Tick, Crash, vars, processVars
    <3>3. \A j \in Job : jobState[j] \notin Active /\ ttl[j] = Cleared => ttl'[j] = Cleared
      BY <2>3 DEF BootClock, BootBackfill, Tick, Crash, vars, leaseVars, ActiveRows
    <3>4. ASSUME NEW j \in Job, jobState[j] \notin Active, LeaseFree(j) PROVE LeaseFree(j)'
      BY <3>1, <3>3, <3>4 DEF LeaseFree, Cleared
    <3>5. Repairable'
      BY <3>1, <3>4 DEF Repairable
    <3> QED
      BY <3>2, <3>5 DEF RepairedOnceReconciled
  <2> QED
    BY <2>1, <2>2, <2>3
<1> QED
  BY <1>1, <1>2

(* From any database whose active rows lost lease columns or workers and     *)
(* whose counters drifted, as from a sound one, reconcile_durable_state      *)
(* leaves lease columns and counters that agree, and no later transaction,   *)
(* tick or crash makes them disagree again before it has run once more.      *)
THEOREM DamageIsRepaired == (Init \/ Damaged) /\ [][Next]_vars => []RepairedOnceReconciled
<1>1. Init => RecoveryInv
  BY InitInv, CountersInit, SoundIsRepairable DEF RecoveryInv, QueueInv
<1>2. Damaged => RecoveryInv
  BY DEF Damaged, RecoveryInv, Repairable, RepairedOnceReconciled
<1>3. RecoveryInv /\ [Next]_vars => RecoveryInv'
  BY RepairStep
<1>4. RecoveryInv => RepairedOnceReconciled
  BY DEF RecoveryInv
<1> QED
  BY <1>1, <1>2, <1>3, <1>4, PTL

(* The repair releases a started effect to an operator, and the rows it      *)
(* queues again had none.                                                   *)
LEMMA RepairFences ==
  ASSUME TypeOK, EffectFenced, BootReconcile
  PROVE  EffectFenced'
<1> SUFFICES ASSUME NEW i \in Job, Request[i].mode = "non_idempotent"
             PROVE  /\ effectRuns'[i] <= approvals'[i] + 1
                    /\ effect'[i] = "none" => effectRuns'[i] = approvals'[i]
                    /\ effect'[i] = "started" => effectRuns'[i] = approvals'[i] + 1
                    /\ jobState'[i] \in {"absent", "queued"} => effect'[i] = "none"
                    /\ jobState'[i] \in Active => effect'[i] # "completed"
                    /\ jobState'[i] = "review_required" => effect'[i] = "started"
  BY DEF EffectFenced
<1>1. UNCHANGED <<effect, effectRuns, approvals>>
  BY DEF BootReconcile, Release, history
<1>2. jobState' = [j \in Job |-> IF j \in InvalidRows THEN ReleaseTarget(j, TRUE) ELSE jobState[j]]
  BY DEF BootReconcile, Release
<1>3. CASE i \in InvalidRows
  <2>1. jobState[i] \in Active /\ effect[i] \in {"none", "started"}
    <3>1. jobState[i] \in Active /\ effect[i] \in {"none", "started", "completed"}
      BY <1>3, Columns DEF InvalidRows, ActiveRows
    <3> QED
      BY <3>1 DEF EffectFenced
  <2>2. jobState'[i] = IF effect[i] = "started" THEN "review_required"
                       ELSE IF attempt[i] < Request[i].limit THEN "queued" ELSE "failed"
    BY <1>2, <1>3 DEF ReleaseTarget
  <2> QED
    BY <1>1, <2>1, <2>2 DEF EffectFenced, Active
<1>4. CASE i \notin InvalidRows
  <2>1. jobState'[i] = jobState[i]
    BY <1>2, <1>4
  <2> QED
    BY <1>1, <2>1 DEF EffectFenced
<1> QED
  BY <1>3, <1>4

(* Losing lease columns, workers or counts never lets a side effect through  *)
(* twice: neither the repair nor the workers that still present a lease      *)
(* from before the damage do more than an operator approved.                *)
THEOREM DamageKeepsEffects ==
  (Init \/ (Damaged /\ EffectFenced)) /\ [][Next]_vars => []EffectOncePerApproval
<1> DEFINE FencedInv == RecoveryInv /\ EffectFenced
<1>1. Init \/ (Damaged /\ EffectFenced) => FencedInv
  <2>1. Init => RecoveryInv /\ EffectFenced
    BY InitInv, CountersInit, SoundIsRepairable DEF RecoveryInv, QueueInv
  <2>2. Damaged => RecoveryInv
    BY DEF Damaged, RecoveryInv, Repairable, RepairedOnceReconciled
  <2> QED
    BY <2>1, <2>2
<1>2. FencedInv /\ [Next]_vars => FencedInv'
  <2> SUFFICES ASSUME RecoveryInv, EffectFenced, [Next]_vars PROVE EffectFenced'
    BY RepairStep
  <2>1. CASE phase \notin {"clock", "backfill", "reconcile"}
    BY <2>1, EffectFencedStep DEF RecoveryInv, RepairedOnceReconciled
  <2>2. CASE BootReconcile
    BY <2>2, RepairFences DEF RecoveryInv
  <2>3. CASE BootClock \/ BootBackfill \/ Tick \/ Crash \/ UNCHANGED vars
    <3>1. UNCHANGED <<jobState, effect, effectRuns, approvals>>
      BY <2>3 DEF BootClock, BootBackfill, Tick, Crash, vars, jobVars, history
    <3> QED
      BY <3>1 DEF EffectFenced
  <2> QED
    BY <2>1, <2>2, <2>3, BeforeRepair
<1>3. FencedInv => EffectOncePerApproval
  <2> SUFFICES ASSUME RecoveryInv, EffectFenced, NEW j \in Job, Request[j].mode = "non_idempotent"
               PROVE  /\ effectRuns[j] <= approvals[j] + 1
                      /\ effect[j] = "none" => effectRuns[j] <= approvals[j]
                      /\ jobState[j] = "queued" => effect[j] = "none"
    BY DEF EffectOncePerApproval
  <2>1. effectRuns[j] \in Nat /\ approvals[j] \in Nat
    BY Columns DEF RecoveryInv
  <2> QED
    BY <2>1 DEF EffectFenced
<1> QED
  BY <1>1, <1>2, <1>3, PTL
=============================================================================
