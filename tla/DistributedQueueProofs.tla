----------------------- MODULE DistributedQueueProofs -----------------------
(* Theorems about DistributedQueue, for every set of jobs, workers and keys *)
(* and every value of the bounds.                                           *)
EXTENDS DistributedQueue, FiniteSetTheorems, TLAPS

USE DEF Active, Terminal, JobStates, BootPhases

-----------------------------------------------------------------------------
(* Small facts about the operators the actions share.                       *)

(* The ticks a cleared column and an expired lease stand for are distinct.  *)
LEMMA TickRange ==
    /\ Cleared \in Int /\ Expired \in Int
    /\ Cleared < Expired /\ Expired <= 0
    /\ LeaseTicks \in Nat /\ 0 < LeaseTicks
    /\ HeartbeatTicks \in Nat
  BY BoundAssumption, SMT DEF Cleared, Expired

(* The empty receipt and the empty fence are typed.                          *)
LEMMA NoReceiptType == NoReceipt \in Receipt /\ NoFence \in Fence
  BY DEF NoReceipt, NoFence, Receipt, Fence

(* Every set of jobs is finite, so it has a size.                           *)
LEMMA JobSetsFinite ==
  ASSUME NEW S \in SUBSET Job
  PROVE  IsFiniteSet(S) /\ Cardinality(S) \in Nat
  BY FiniteAssumption, FS_Subset, FS_CardinalityType

(* A release sends a job to one of three states.                            *)
LEMMA ReleaseTargetType ==
  ASSUME NEW j, NEW retryable
  PROVE  ReleaseTarget(j, retryable) \in {"queued", "failed", "review_required"}
  BY DEF ReleaseTarget

(* The tables of a first start are typed.                                   *)
LEMMA InitType == Init => TypeOK
<1> SUFFICES ASSUME Init PROVE TypeOK
  OBVIOUS
<1> USE TickRange, NoReceiptType, LegacyAssumption, BoundAssumption DEF Init, TypeOK
<1>1. jobState \in [Job -> JobStates] /\ attempt \in [Job -> Nat]
  OBVIOUS
<1>2. ttl \in [Job -> Cleared .. LeaseTicks]
  BY SMT
<1>3. fence \in [Key -> Fence]  /\ receipt \in [Job -> Receipt]
  OBVIOUS
<1>4. /\ effect \in [Job -> {"none", "started", "completed"}]
      /\ ckpt \in [Job -> Nat]
      /\ leaseWorker \in [Job -> Worker \cup {NoWorker}]
      /\ leaseToken \in [Job -> Nat]
      /\ workerState \in [Worker -> {"absent", "active", "draining", "revoked"}]
      /\ maxSlots \in [Worker -> 0 .. MaxSlots]
      /\ activeLeases \in [Worker -> Nat]
      /\ age \in [Worker -> 0 .. HeartbeatTicks]
  BY SMT
<1>5. /\ phase \in BootPhases \cup {"up"}
      /\ sweep \in {"idle", "stale", "expired"}
      /\ crashes \in 0 .. MaxCrashes
      /\ granted \in [Job -> SUBSET (Worker \X Nat)]
      /\ acked \in [Job -> SUBSET Receipt]
      /\ effectRuns \in [Job -> Nat]
      /\ approvals \in [Job -> 0 .. MaxApprovals]
  BY SMT
<1> QED
  BY <1>1, <1>2, <1>3, <1>4, <1>5

(* The fences of a set of jobs are fences of those jobs.                    *)
LEMMA WithFencesType ==
  ASSUME TypeOK, NEW F \in SUBSET Job,
         NEW states, \A j \in F : states[j] \in Terminal
  PROVE  WithFences(F, states) \in [Key -> Fence]
<1> SUFFICES ASSUME NEW k \in Key, \E j \in F : Request[j].key = k
             PROVE  LET j == CHOOSE j \in F : Request[j].key = k
                    IN  [job |-> j, state |-> states[j], receipt |-> receipt[j]] \in Fence
  BY DEF WithFences, TypeOK
<1> DEFINE i == CHOOSE j \in F : Request[j].key = k
<1>1. i \in F
  OBVIOUS
<1>2. receipt[i] \in Receipt /\ states[i] \in Terminal /\ i \in Job
  BY <1>1 DEF TypeOK
<1> HIDE DEF i
<1>3. [job |-> i, state |-> states[i], receipt |-> receipt[i]] \in Fence
  BY <1>2 DEF Fence
<1> QED
  BY <1>3 DEF i

(* What a release does to the variables it writes, with their types.        *)
LEMMA ReleaseType ==
  ASSUME TypeOK, NEW S \in SUBSET Job, NEW retryable, Release(S, retryable)
  PROVE  /\ jobState' \in [Job -> JobStates]
         /\ leaseWorker' \in [Job -> Worker \cup {NoWorker}]
         /\ leaseToken' \in [Job -> Nat]
         /\ ttl' \in [Job -> Cleared .. LeaseTicks]
         /\ fence' \in [Key -> Fence]
         /\ UNCHANGED <<attempt, effect, ckpt, receipt>>
<1>1. jobState' \in [Job -> JobStates]
  BY ReleaseTargetType DEF Release, TypeOK
<1>2. /\ leaseWorker' \in [Job -> Worker \cup {NoWorker}]
      /\ leaseToken' \in [Job -> Nat]
  BY DEF Release, ClearLeases, TypeOK
<1>3. ttl' \in [Job -> Cleared .. LeaseTicks]
  BY TickRange DEF Release, ClearLeases, TypeOK
<1>4. fence' \in [Key -> Fence]
  <2> DEFINE F == {j \in S : ReleaseTarget(j, retryable) = "failed"}
  <2>1. fence' = WithFences(F, [j \in F |-> "failed"])
    BY DEF Release
  <2> QED
    BY <2>1, WithFencesType
<1> QED
  BY <1>1, <1>2, <1>3, <1>4 DEF Release

(* Counting recovered leases off, clamped at zero, leaves natural numbers.   *)
LEMMA UncountType ==
  ASSUME TypeOK, NEW S \in SUBSET Job, Uncount(S)
  PROVE  activeLeases' \in [Worker -> Nat]
<1> SUFFICES ASSUME NEW w \in Worker
             PROVE  Floor0(activeLeases[w] - Cardinality({j \in S : leaseWorker[j] = w})) \in Nat
  BY DEF Uncount
<1>1. Cardinality({j \in S : leaseWorker[j] = w}) \in Nat
  BY JobSetsFinite
<1> QED
  BY <1>1 DEF Floor0, TypeOK

(* Pruning writes fences and nothing but fences.                            *)
LEMMA PruneType ==
  ASSUME TypeOK, NEW D \in SUBSET TerminalRows, NEW T, Prune(D, T)
  PROVE  fence' \in [Key -> Fence]
<1>1. D \in SUBSET Job /\ \A j \in D : jobState[j] \in Terminal
  BY DEF TerminalRows
<1>2. WithFences(D, jobState) \in [Key -> Fence]
  BY <1>1, WithFencesType
<1> QED
  BY <1>2, NoReceiptType DEF Prune

(* A heartbeat makes a worker as young as the type allows.                  *)
LEMMA AgeReset ==
  ASSUME TypeOK, NEW w, age' = [age EXCEPT ![w] = 0]
  PROVE  age' \in [Worker -> 0 .. HeartbeatTicks]
<1>1. 0 \in 0 .. HeartbeatTicks
  BY TickRange
<1> QED
  BY <1>1 DEF TypeOK

(* A presented lease is typed: it is one that was granted.                  *)
LEMMA PresentsType ==
  ASSUME TypeOK, NEW j \in Job, NEW w, NEW t, Presents(j, w, t)
  PROVE  w \in Worker /\ t \in Nat
  BY DEF Presents, TypeOK

(* The rows a recovery selects are active rows.                             *)
LEMMA RowSets ==
  ASSUME TypeOK
  PROVE  /\ ActiveRows \in SUBSET Job /\ StaleRows \in SUBSET ActiveRows
         /\ ExpiredRows \in SUBSET ActiveRows /\ InvalidRows \in SUBSET ActiveRows
         /\ \A w : Held(w) \in SUBSET ActiveRows
  BY DEF ActiveRows, StaleRows, ExpiredRows, InvalidRows, Held

(* Every transaction of the queue, and every tick and crash, keeps the      *)
(* types: one step per action.                                              *)
LEMMA TypeStep == TypeOK /\ [Next]_vars => TypeOK'
<1> SUFFICES ASSUME TypeOK, [Next]_vars PROVE TypeOK'
  OBVIOUS
<1> USE DEF jobVars, leaseVars, workerVars, processVars, history
<1>1. ASSUME NEW j \in Job, Enqueue(j) PROVE TypeOK'
  <2>1. PICK D \in SUBSET TerminalRows, T \in SUBSET Key :
           /\ Prune(D, T)
           /\ jobState' = [i \in Job |-> IF i = j THEN "queued"
                                        ELSE IF i \in D THEN "pruned" ELSE jobState[i]]
    BY <1>1 DEF Enqueue
  <2>2. fence' \in [Key -> Fence]
    BY <2>1, PruneType
  <2>3. jobState' \in [Job -> JobStates]
    BY <2>1 DEF TypeOK
  <2> QED
    BY <1>1, <2>2, <2>3 DEF Enqueue, TypeOK
<1>2. ASSUME RetainTerminal PROVE TypeOK'
  <2>1. PICK D \in SUBSET TerminalRows, T \in SUBSET Key :
           /\ Prune(D, T)
           /\ jobState' = [j \in Job |-> IF j \in D THEN "pruned" ELSE jobState[j]]
    BY <1>2 DEF RetainTerminal
  <2>2. fence' \in [Key -> Fence]
    BY <2>1, PruneType
  <2>3. jobState' \in [Job -> JobStates]
    BY <2>1 DEF TypeOK
  <2> QED
    BY <1>2, <2>2, <2>3 DEF RetainTerminal, TypeOK
<1>3. ASSUME NEW w \in Worker, NEW S \in SUBSET Job, Lease(w, S) PROVE TypeOK'
  <2>1. Cardinality(S) \in Nat
    BY JobSetsFinite
  <2>2. /\ jobState' \in [Job -> JobStates]
        /\ attempt' \in [Job -> Nat]
        /\ leaseWorker' \in [Job -> Worker \cup {NoWorker}]
        /\ leaseToken' \in [Job -> Nat]
    BY <1>3 DEF Lease, TypeOK
  <2>3. ttl' \in [Job -> Cleared .. LeaseTicks]
    BY <1>3, TickRange DEF Lease, TypeOK
  <2>4. activeLeases' \in [Worker -> Nat] /\ age' \in [Worker -> 0 .. HeartbeatTicks]
    BY <1>3, <2>1, TickRange DEF Lease, TypeOK
  <2>5. granted' \in [Job -> SUBSET (Worker \X Nat)]
    <3>1. \A j \in Job : <<w, attempt[j] + 1>> \in Worker \X Nat
      BY DEF TypeOK
    <3> QED
      BY <1>3, <3>1 DEF Lease, TypeOK
  <2> QED
    BY <1>3, <2>2, <2>3, <2>4, <2>5 DEF Lease, TypeOK
<1>4. ASSUME NEW j \in Job, NEW w, NEW t, StartJob(j, w, t) PROVE TypeOK'
  BY <1>4 DEF StartJob, TypeOK
<1>5. ASSUME NEW j \in Job, NEW w, NEW t, RenewLease(j, w, t) PROVE TypeOK'
  <2>1. LeaseTicks \in Cleared .. LeaseTicks
    BY TickRange
  <2>2. ttl' \in [Job -> Cleared .. LeaseTicks]
    BY <1>5, <2>1 DEF RenewLease, TypeOK
  <2>3. age' \in [Worker -> 0 .. HeartbeatTicks]
    BY <1>5, AgeReset DEF RenewLease
  <2> QED
    BY <1>5, <2>2, <2>3 DEF RenewLease, TypeOK
<1>6. ASSUME NEW j \in Job, NEW w, NEW t, Checkpoint(j, w, t) PROVE TypeOK'
  <2>1. t \in Nat
    BY <1>6, PresentsType DEF Checkpoint
  <2> QED
    BY <1>6, <2>1 DEF Checkpoint, TypeOK
<1>7. ASSUME NEW j \in Job, NEW w, NEW t, MarkSideEffectStarted(j, w, t) PROVE TypeOK'
  BY <1>7 DEF MarkSideEffectStarted, TypeOK
<1>8. ASSUME NEW j \in Job, NEW w, NEW t, NEW retryable, GiveBack(j, w, t, retryable) PROVE TypeOK'
  <2>1. Release({j}, retryable) /\ Uncount({j})
    BY <1>8 DEF GiveBack
  <2>2. age' \in [Worker -> 0 .. HeartbeatTicks]
    BY <1>8, AgeReset DEF GiveBack
  <2> QED
    BY <1>8, <2>1, <2>2, ReleaseType, UncountType DEF GiveBack, TypeOK
<1>9. ASSUME NEW j \in Job, NEW w, NEW t, NEW r \in Result, Complete(j, w, t, r) PROVE TypeOK'
  <2> DEFINE done == [worker |-> w, token |-> t, result |-> r]
  <2>1. w \in Worker /\ t \in Nat
    BY <1>9, PresentsType DEF Complete
  <2>2. done \in Receipt
    BY <2>1 DEF Receipt
  <2>3. [job |-> j, state |-> "completed", receipt |-> done] \in Fence
    BY <2>2 DEF Fence
  <2>4. Uncount({j}) /\ ClearLeases({j})
    BY <1>9 DEF Complete
  <2>5. activeLeases' \in [Worker -> Nat]
    BY <2>4, UncountType
  <2>6. /\ leaseWorker' \in [Job -> Worker \cup {NoWorker}]
        /\ leaseToken' \in [Job -> Nat]
        /\ ttl' \in [Job -> Cleared .. LeaseTicks]
    BY <2>4, TickRange DEF ClearLeases, TypeOK
  <2>7. /\ receipt' \in [Job -> Receipt]
        /\ fence' \in [Key -> Fence]
        /\ acked' \in [Job -> SUBSET Receipt]
    <3> HIDE DEF done
    <3>1. /\ receipt' = [receipt EXCEPT ![j] = done]
          /\ fence' = [fence EXCEPT ![Request[j].key] = [job |-> j, state |-> "completed", receipt |-> done]]
          /\ \E delivered \in BOOLEAN :
                acked' = [acked EXCEPT ![j] = IF delivered THEN @ \cup {done} ELSE @]
      BY <1>9 DEF Complete, done
    <3>2. receipt' \in [Job -> Receipt] /\ fence' \in [Key -> Fence]
      BY <3>1, <2>2, <2>3 DEF TypeOK
    <3>3. /\ acked[j] \in SUBSET Receipt /\ acked[j] \cup {done} \in SUBSET Receipt
          /\ acked \in [Job -> SUBSET Receipt]
      BY <2>2 DEF TypeOK
    <3>4. acked' \in [Job -> SUBSET Receipt]
      BY <3>1, <3>3
    <3> QED
      BY <3>2, <3>4
  <2>8. /\ jobState' \in [Job -> JobStates]
        /\ effect' \in [Job -> {"none", "started", "completed"}]
    BY <1>9 DEF Complete, TypeOK
  <2>9. age' \in [Worker -> 0 .. HeartbeatTicks]
    BY <1>9, AgeReset DEF Complete
  <2> QED
    BY <1>9, <2>5, <2>6, <2>7, <2>8, <2>9 DEF Complete, TypeOK
<1>10. ASSUME NEW j \in Job, NEW w, NEW t, NEW r \in Result, ReplayComplete(j, w, t, r) PROVE TypeOK'
  <2>1. w \in Worker /\ t \in Nat
    BY <1>10, PresentsType DEF ReplayComplete
  <2>2. [worker |-> w, token |-> t, result |-> r] \in Receipt
    BY <2>1 DEF Receipt
  <2> QED
    BY <1>10, <2>2 DEF ReplayComplete, TypeOK
<1>11. ASSUME NEW j \in Job, RetryReviewRequired(j) PROVE TypeOK'
  BY <1>11, BoundAssumption DEF RetryReviewRequired, TypeOK
<1>12. ASSUME NEW w \in Worker, NEW slots \in 1 .. MaxSlots, RegisterWorker(w, slots) PROVE TypeOK'
  BY <1>12, TickRange, BoundAssumption DEF RegisterWorker, TypeOK
<1>13. ASSUME NEW w \in Worker, Heartbeat(w) PROVE TypeOK'
  BY <1>13, TickRange DEF Heartbeat, TypeOK
<1>14. ASSUME NEW w \in Worker, NEW drain \in BOOLEAN, SetWorkerDrain(w, drain) PROVE TypeOK'
  BY <1>14 DEF SetWorkerDrain, TypeOK
<1>15. ASSUME NEW w \in Worker, RevokeWorker(w) PROVE TypeOK'
  <2>1. Held(w) \in SUBSET Job /\ Release(Held(w), TRUE)
    BY <1>15, RowSets DEF RevokeWorker
  <2> QED
    BY <1>15, <2>1, ReleaseType DEF RevokeWorker, TypeOK
<1>16. ASSUME NEW S \in SUBSET Job, Recover(S), UNCHANGED <<workerState, maxSlots, age, history>>,
              phase' \in BootPhases \cup {"up"}, sweep' \in {"idle", "stale", "expired"},
              crashes' = crashes
       PROVE  TypeOK'
  BY <1>16, ReleaseType, UncountType DEF Recover, TypeOK
<1>17. ASSUME Sweep PROVE TypeOK'
  <2>1. CASE BeginSweep
    BY <2>1 DEF BeginSweep, TypeOK
  <2>2. CASE RecoverStaleWorkerLeases
    BY <2>2, <1>16, RowSets DEF RecoverStaleWorkerLeases, TypeOK
  <2>3. CASE RecoverExpiredLeases
    BY <2>3, <1>16, RowSets DEF RecoverExpiredLeases, TypeOK
  <2> QED
    BY <1>17, <2>1, <2>2, <2>3 DEF Sweep
<1>18. ASSUME ControlPlaneRecovery PROVE TypeOK'
  BY <1>18, <1>16, RowSets DEF ControlPlaneRecovery, TypeOK
<1>19. ASSUME Boot PROVE TypeOK'
  <2>1. CASE BootClock
    BY <2>1, TickRange DEF BootClock, TypeOK
  <2>2. CASE BootBackfill
    <3>1. TerminalRows \in SUBSET Job /\ \A j \in TerminalRows : jobState[j] \in Terminal
      BY DEF TerminalRows
    <3>2. WithFences(TerminalRows, jobState) \in [Key -> Fence]
      BY <3>1, WithFencesType
    <3> QED
      BY <2>2, <3>2 DEF BootBackfill, TypeOK
  <2>3. CASE BootReconcile
    <3>1. \A w \in Worker : Cardinality(Held(w) \ InvalidRows) \in Nat
      BY JobSetsFinite, RowSets
    <3>2. activeLeases' \in [Worker -> Nat]
      BY <2>3, <3>1 DEF BootReconcile, TypeOK
    <3>3. InvalidRows \in SUBSET Job /\ Release(InvalidRows, TRUE)
      BY <2>3, RowSets DEF BootReconcile
    <3> QED
      BY <2>3, <3>2, <3>3, ReleaseType DEF BootReconcile, TypeOK
  <2>4. CASE BootRecoverStale
    BY <2>4, <1>16, RowSets DEF BootRecoverStale, TypeOK
  <2>5. CASE BootRecoverExpired
    BY <2>5, <1>16, RowSets DEF BootRecoverExpired, TypeOK
  <2> QED
    BY <1>19, <2>1, <2>2, <2>3, <2>4, <2>5 DEF Boot
<1>20. ASSUME Tick PROVE TypeOK'
  <2>1. ttl' \in [Job -> Cleared .. LeaseTicks]
    BY <1>20, TickRange, SMT DEF Tick, TypeOK, Cleared, Expired
  <2>2. age' \in [Worker -> 0 .. HeartbeatTicks]
    BY <1>20, TickRange DEF Tick, TypeOK, Smaller
  <2> QED
    BY <1>20, <2>1, <2>2 DEF Tick, TypeOK
<1>21. ASSUME Crash PROVE TypeOK'
  BY <1>21, BoundAssumption DEF Crash, TypeOK
<1>22. ASSUME UNCHANGED vars PROVE TypeOK'
  BY <1>22 DEF vars, TypeOK
<1>23. ASSUME NEW j \in Job, NEW lease \in granted[j], WorkerCall(j, lease[1], lease[2]) PROVE TypeOK'
  BY <1>23, <1>4, <1>5, <1>6, <1>7, <1>8, <1>9, <1>10 DEF WorkerCall, HandoverLease, Fail
<1>24. ASSUME NEW w \in Worker, WorkerStep(w) PROVE TypeOK'
  BY <1>24, <1>3, <1>12, <1>13, <1>14, <1>15 DEF WorkerStep, LeaseNext, LeaseMany
<1> QED
  BY <1>1, <1>2, <1>11, <1>17, <1>18, <1>19, <1>20, <1>21, <1>22, <1>23, <1>24 DEF Next

(* Every column keeps its type; ttl stays in the range in which lease and   *)
(* grace comparisons mean what the code means by them.                      *)
THEOREM TypeCorrect == Spec => []TypeOK
  BY InitType, TypeStep, PTL DEF Spec
=============================================================================
