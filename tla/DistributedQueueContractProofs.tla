-------------------- MODULE DistributedQueueContractProofs --------------------
(* The queue implements JobContract, for every instance.                    *)
(*                                                                         *)
(* The steps of one row are those of DistributedQueueSafety.  What the      *)
(* contract adds is about the other uses of a key and about the answers     *)
(* that outlive their row, and both rest on the idempotency fences; FenceInv*)
(* is the part of the invariant that says what a fence is worth.            *)
EXTENDS DistributedQueueSafety, DistributedQueueContract

Once(j) == Request[j].mode = "non_idempotent"
Ended == Terminal \cup {"pruned"}

-----------------------------------------------------------------------------
(* A fence is of a job that ended, under the job's key, with its receipt.   *)
FenceOwned ==
    \A k \in Key : \A j \in Job : fence[k].job = j =>
        /\ Request[j].key = k
        /\ jobState[j] \in Ended
        /\ fence[k].receipt = receipt[j]

(* The fence of a non-idempotent job outlives its row.                      *)
OnceRemembered ==
    \A j \in Job : Once(j) /\ jobState[j] = "pruned" => fence[Request[j].key].job = j

(* Whoever was told of an answer was told of the durable one.               *)
AckedDurable ==
    \A j \in Job : /\ acked[j] \subseteq {receipt[j]}
                   /\ acked[j] # {} => jobState[j] \in {"completed", "pruned"}

FenceInv == FenceOwned /\ FenceMatchesRow /\ OnceRemembered /\ AckedDurable /\ TerminalRowsFenced

Inv == QueueInv /\ FenceInv

-----------------------------------------------------------------------------
(* What a step does to one fence.                                           *)

FenceOf(j, states, receipts) == [job |-> j, state |-> states[j], receipt |-> receipts[j]]

FenceStored(k) ==
    \E j \in Rows : /\ Request[j].key = k
                    /\ fence[k].job \in {NoJob, j}
                    /\ fence'[k].job = j /\ fence'[k].receipt = receipt'[j]
                    /\ jobState'[j] \in Ended
                    /\ jobState'[j] \in Terminal => fence'[k] = FenceOf(j, jobState', receipt')

(* The columns of a fence.                                                  *)
LEMMA FenceFields ==
  ASSUME NEW j, NEW states, NEW receipts
  PROVE  /\ FenceOf(j, states, receipts).job = j
         /\ FenceOf(j, states, receipts).receipt = receipts[j]
BY DEF FenceOf

(* _store_terminal_fence over a set of rows, for one key.                   *)
LEMMA Storing ==
  ASSUME NEW F \in SUBSET Job, FenceFree(F), NEW states, NEW k \in Key
  PROVE  \/ /\ WithFences(F, states)[k] = fence[k]
            /\ \A j \in F : Request[j].key # k
         \/ \E j \in F : /\ Request[j].key = k
                         /\ fence[k].job \in {NoJob, j}
                         /\ WithFences(F, states)[k] = FenceOf(j, states, receipt)
<1>1. CASE \E j \in F : Request[j].key = k
  <2> DEFINE c == CHOOSE j \in F : Request[j].key = k
  <2>1. c \in F /\ Request[c].key = k
    BY <1>1
  <2>3. WithFences(F, states)[k] = FenceOf(c, states, receipt)
    BY <1>1 DEF WithFences, FenceOf
  <2> HIDE DEF c
  <2>4. fence[k].job \in {NoJob, c}
    BY <2>1 DEF FenceFree
  <2> QED
    BY <2>1, <2>3, <2>4
<1>2. CASE ~ \E j \in F : Request[j].key = k
  BY <1>2 DEF WithFences
<1> QED
  BY <1>1, <1>2

(* Pruning drops a fence, stores it, or leaves it.                          *)
LEMMA PruneFences ==
  ASSUME NEW D \in SUBSET TerminalRows, Prunes(D), NEW k \in Key
  PROVE  \/ fence'[k] = fence[k]
         \/ /\ fence'[k] = NoFence
            /\ \A j \in Rows \ D : Request[j].key # k
         \/ \E j \in D : /\ Request[j].key = k
                         /\ fence[k].job \in {NoJob, j}
                         /\ fence'[k].job = j /\ fence'[k].receipt = receipt[j]
<1>1. PICK T \in SUBSET Key : Prune(D, T)
  BY DEF Prunes
<1>2. \/ fence'[k] = NoFence /\ \A j \in Rows \ D : Request[j].key # k
      \/ fence'[k] = WithFences(D, jobState)[k]
  BY <1>1 DEF Prune
<1>3. FenceFree(D) /\ D \in SUBSET Job
  BY DEF Prunes, TerminalRows
<1>4. CASE fence'[k] = WithFences(D, jobState)[k]
  <2>1. \/ fence'[k] = fence[k]
        \/ \E j \in D : /\ Request[j].key = k
                        /\ fence[k].job \in {NoJob, j}
                        /\ fence'[k] = FenceOf(j, jobState, receipt)
    BY <1>3, <1>4, Storing
  <2> QED
    BY <2>1, FenceFields
<1> QED
  BY <1>2, <1>4

(* Pruning keeps the fence of a non-idempotent job whose row is gone.       *)
LEMMA PruneRemembers ==
  ASSUME FenceMatchesRow, OnceRemembered, NEW D \in SUBSET TerminalRows, Prunes(D),
         NEW j \in Job, Once(j), j \in D \/ jobState[j] = "pruned"
  PROVE  fence'[Request[j].key].job = j
<1> DEFINE k == Request[j].key
<1>1. k \in Key
  BY RequestAssumption
<1>2. PICK T \in SUBSET Key :
        /\ \A q \in T : Request[WithFences(D, jobState)[q].job].mode = "idempotent"
        /\ Prune(D, T)
  BY DEF Prunes
<1>3. FenceFree(D) /\ D \in SUBSET Job /\ D \subseteq Rows
  BY DEF Prunes, TerminalRows, Rows, Terminal
<1>4. WithFences(D, jobState)[k].job = j
  <2>1. CASE j \in D
    <3>1. PICK i \in D : Request[i].key = k /\ WithFences(D, jobState)[k] = FenceOf(i, jobState, receipt)
      BY <1>1, <1>3, <2>1, Storing
    <3>2. WithFences(D, jobState)[k].job = i
      BY <3>1, FenceFields
    <3> QED
      BY <1>3, <2>1, <3>1, <3>2 DEF FenceMatchesRow
  <2>2. CASE jobState[j] = "pruned"
    <3>1. fence[k].job = j /\ j \notin Rows
      BY <2>2 DEF OnceRemembered, Rows
    <3>2. \A i \in D : Request[i].key # k
      BY <1>3, <3>1, NullAssumption DEF FenceMatchesRow
    <3>3. WithFences(D, jobState)[k] = fence[k]
      BY <1>1, <1>3, <3>2, Storing
    <3> QED
      BY <3>1, <3>3
  <2> QED
    BY <2>1, <2>2
<1>5. k \notin T
  BY <1>2, <1>4 DEF Once
<1>6. fence'[k] = WithFences(D, jobState)[k]
  BY <1>1, <1>2, <1>5 DEF Prune
<1> QED
  BY <1>4, <1>6

(* A step prunes some rows, or none and no fence goes.                      *)
PrunesRows(D) ==
    /\ Prunes(D)
    /\ receipt' = receipt
    /\ \A j \in Job : /\ jobState'[j] = "pruned" <=> j \in D \/ jobState[j] = "pruned"
                      /\ jobState'[j] \in Terminal => jobState[j] \in Terminal

PrunesNone ==
    /\ \A j \in Job : jobState'[j] = "pruned" => jobState[j] = "pruned"
    /\ \A k \in Key : fence'[k] = fence[k] \/ FenceStored(k)
    /\ \A j \in Job : jobState'[j] \in Terminal /\ jobState[j] \notin Terminal
                      => fence'[Request[j].key] = FenceOf(j, jobState', receipt')

(* complete() stores the fence of its row; the other fenced calls none.     *)
LEMMA CallFence ==
  ASSUME TypeOK, NEW j \in Job, NEW w \in Worker, NEW t \in Nat, LeaseCall(j, w, t)
  PROVE  PrunesNone
<1>1. CASE UNCHANGED <<jobState, fence>>
  BY <1>1 DEF PrunesNone
<1>2. CASE StartJob(j, w, t)
  BY <1>2 DEF StartJob, PrunesNone, TypeOK, Terminal
<1>3. ASSUME NEW r \in Result, Complete(j, w, t, r) PROVE PrunesNone
  <2> DEFINE done == [worker |-> w, token |-> t, result |-> r]
  <2>1. /\ jobState[j] \in Active /\ FenceFree({j})
        /\ jobState' = [jobState EXCEPT ![j] = "completed"]
        /\ receipt' = [receipt EXCEPT ![j] = done]
        /\ fence' = [fence EXCEPT ![Request[j].key] = [job |-> j, state |-> "completed", receipt |-> done]]
    BY <1>3 DEF Complete, HoldsLease
  <2> HIDE DEF done
  <2>2. fence \in [Key -> Fence] /\ jobState'[j] = "completed" /\ receipt'[j] = done
    BY <2>1 DEF TypeOK
  <2>3. j \in Rows /\ fence[Request[j].key].job \in {NoJob, j}
    BY <2>1 DEF Rows, Active, FenceFree
  <2>4. ASSUME NEW k \in Key PROVE fence'[k] = fence[k] \/ FenceStored(k)
    <3>1. CASE Request[j].key = k
      <4>1. fence'[k] = [job |-> j, state |-> "completed", receipt |-> done]
        BY <2>1, <2>2, <3>1
      <4>2. fence'[k].job = j /\ fence'[k].receipt = done /\ fence'[k] = FenceOf(j, jobState', receipt')
        BY <2>2, <4>1 DEF FenceOf
      <4> QED
        BY <2>2, <2>3, <3>1, <4>2 DEF FenceStored, Ended, Terminal
    <3>2. CASE Request[j].key # k
      BY <2>1, <2>2, <3>2
    <3> QED
      BY <3>1, <3>2
  <2>5. \A i \in Job : jobState'[i] = "pruned" => jobState[i] = "pruned"
    BY <2>1 DEF TypeOK
  <2>6. ASSUME NEW i \in Job, jobState'[i] \in Terminal, jobState[i] \notin Terminal
        PROVE  fence'[Request[i].key] = FenceOf(i, jobState', receipt')
    <3>1. i = j /\ Request[j].key \in Key
      BY <2>1, <2>6, RequestAssumption DEF TypeOK
    <3> QED
      BY <2>1, <2>2, <3>1 DEF FenceOf
  <2> QED
    BY <2>4, <2>5, <2>6 DEF PrunesNone
<1> QED
  BY <1>1, <1>2, <1>3 DEF LeaseCall, RenewLease, Checkpoint, MarkSideEffectStarted, ReplayComplete, jobVars

(* Every step is one of the two.                                            *)
LEMMA FenceStep ==
  ASSUME TypeOK, LeaseConsistent, FenceMatchesRow, [Next]_vars
  PROVE  PrunesNone \/ \E D \in SUBSET TerminalRows : PrunesRows(D)
<1>1. ASSUME NEW j \in Job, RetryReviewRequired(j) PROVE PrunesNone
  BY <1>1 DEF RetryReviewRequired, PrunesNone, TypeOK, Terminal
<1>3. ASSUME NEW w \in Worker, NEW S \in SUBSET Job, Lease(w, S) PROVE PrunesNone
  BY <1>3 DEF Lease, PrunesNone, Terminal
<1>4. ASSUME NEW S \in SUBSET ActiveRows, NEW retryable \in BOOLEAN, Releasing(S, retryable)
      PROVE  PrunesNone
  <2> DEFINE F == {j \in S : ReleaseTarget(j, retryable) = "failed"}
  <2>1. /\ FenceFree(F)
        /\ fence' = WithFences(F, [j \in F |-> "failed"])
        /\ receipt' = receipt
        /\ jobState' = [j \in Job |-> IF j \in S THEN ReleaseTarget(j, retryable) ELSE jobState[j]]
    BY <1>4 DEF Releasing, Release
  <2>2. F \in SUBSET Job /\ F \subseteq Rows /\ \A j \in F : jobState'[j] = "failed"
    BY <2>1 DEF ActiveRows, Rows, Active
  <2>3. \A j \in Job : jobState'[j] = "pruned" => jobState[j] = "pruned"
    BY <2>1 DEF ReleaseTarget
  <2> HIDE DEF F
  <2>4. ASSUME NEW k \in Key PROVE fence'[k] = fence[k] \/ FenceStored(k)
    <3>1. \/ fence'[k] = fence[k]
          \/ \E j \in F : /\ Request[j].key = k
                          /\ fence[k].job \in {NoJob, j}
                          /\ fence'[k] = FenceOf(j, [i \in F |-> "failed"], receipt)
      BY <2>1, <2>2, Storing
    <3>2. ASSUME NEW j \in F
          PROVE  FenceOf(j, [i \in F |-> "failed"], receipt) = FenceOf(j, jobState', receipt')
      BY <2>1, <2>2 DEF FenceOf
    <3> QED
      BY <2>2, <3>1, <3>2, FenceFields DEF FenceStored, Ended, Terminal
  <2>5. ASSUME NEW i \in Job, jobState'[i] \in Terminal, jobState[i] \notin Terminal
        PROVE  fence'[Request[i].key] = FenceOf(i, jobState', receipt')
    <3> DEFINE k == Request[i].key
    <3>1. i \in F /\ k \in Key
      BY <2>1, <2>5, RequestAssumption DEF ReleaseTarget, Terminal, F
    <3>2. PICK c \in F : Request[c].key = k /\ fence'[k] = FenceOf(c, [j \in F |-> "failed"], receipt)
      BY <2>1, <2>2, <3>1, Storing
    <3>3. c = i
      BY <2>2, <3>1, <3>2 DEF FenceMatchesRow
    <3> QED
      BY <2>1, <2>2, <3>1, <3>2, <3>3 DEF FenceOf
  <2> QED
    BY <2>3, <2>4, <2>5 DEF PrunesNone
<1>5. ASSUME NEW j \in Job, NEW D \in SUBSET TerminalRows, Admitting(j, D) PROVE PrunesRows(D)
  BY <1>5 DEF Admitting, PrunesRows, TerminalRows, Terminal
<1>6. ASSUME NEW D \in SUBSET TerminalRows, Pruning(D) PROVE PrunesRows(D)
  BY <1>6 DEF Pruning, PrunesRows, Terminal
<1>7. CASE Background
  <2>1. UNCHANGED <<jobState, receipt>>
    BY <1>7 DEF Background, jobVars
  <2>2. CASE UNCHANGED fence
    BY <2>1, <2>2 DEF PrunesNone
  <2>3. CASE FenceFree(TerminalRows) /\ fence' = WithFences(TerminalRows, jobState)
    <3>1. TerminalRows \in SUBSET Job /\ TerminalRows \subseteq Rows
      BY DEF TerminalRows, Rows, Terminal
    <3>2. \A j \in TerminalRows : jobState'[j] \in Ended
      BY <2>1 DEF TerminalRows, Ended
    <3>3. \A k \in Key : fence'[k] = fence[k] \/ FenceStored(k)
      BY <2>1, <2>3, <3>1, <3>2, Storing DEF FenceStored, FenceOf
    <3> QED
      BY <2>1, <3>3 DEF PrunesNone
  <2> QED
    BY <1>7, <2>2, <2>3 DEF Background
<1> QED
  BY <1>1, <1>3, <1>4, <1>5, <1>6, <1>7, CallFence, StepShape DEF Shape

(* What any step does to a fence.                                           *)
LEMMA EveryFence ==
  ASSUME TypeOK, LeaseConsistent, FenceMatchesRow, [Next]_vars, NEW k \in Key
  PROVE  \/ fence'[k] = fence[k]
         \/ fence'[k] = NoFence /\ \A j \in Rows : Request[j].key = k => jobState'[j] = "pruned"
         \/ FenceStored(k)
<1>1. ASSUME NEW D \in SUBSET TerminalRows, PrunesRows(D)
      PROVE  \/ fence'[k] = fence[k]
             \/ fence'[k] = NoFence /\ \A j \in Rows : Request[j].key = k => jobState'[j] = "pruned"
             \/ FenceStored(k)
  <2>1. \A j \in D : j \in Rows /\ j \in Job
    BY DEF TerminalRows, Rows, Terminal
  <2>2. Prunes(D) /\ receipt' = receipt /\ \A j \in D : jobState'[j] = "pruned"
    BY <1>1, <2>1 DEF PrunesRows
  <2> QED
    BY <2>1, <2>2, PruneFences DEF FenceStored, Ended, Terminal
<1> QED
  BY <1>1, FenceStep DEF PrunesNone

-----------------------------------------------------------------------------
(* One step of each part of FenceInv.                                       *)

(* A job that ended stays so, with its receipt.                             *)
LEMMA EndedKept ==
  ASSUME TypeOK, LeaseConsistent, [Next]_vars, NEW j \in Job, jobState[j] \in Ended
  PROVE  jobState'[j] \in Ended /\ receipt'[j] = receipt[j]
BY EveryRow DEF RowStep, RowStays, RowRetried, RowCheckpointed, RowEffectStarted, RowCompleted, RowConfirmed,
                RowLeased, RowReleased, RowMoved, Active, Ended, Terminal

(* A fence keeps its job, or gets the job of a row that ends.               *)
LEMMA FenceOwnedStep ==
  ASSUME TypeOK, LeaseConsistent, FenceMatchesRow, FenceOwned, [Next]_vars
  PROVE  FenceOwned'
<1> SUFFICES ASSUME NEW k \in Key, NEW j \in Job, fence'[k].job = j
             PROVE  Request[j].key = k /\ jobState'[j] \in Ended /\ fence'[k].receipt = receipt'[j]
  BY DEF FenceOwned
<1>1. CASE fence'[k] = fence[k]
  <2>1. Request[j].key = k /\ jobState[j] \in Ended /\ fence[k].receipt = receipt[j]
    BY <1>1 DEF FenceOwned
  <2> QED
    BY <1>1, <2>1, EndedKept
<1>2. CASE fence'[k] = NoFence
  BY <1>2, NullAssumption DEF NoFence
<1>3. CASE FenceStored(k)
  BY <1>3 DEF FenceStored
<1> QED
  BY <1>1, <1>2, <1>3, EveryFence

(* A step inserts one row at most.                                          *)
LEMMA OneNewRow ==
  ASSUME TypeOK, LeaseConsistent, [Next]_vars, NEW i \in Job, NEW j \in Job,
         jobState[i] = "absent", jobState'[i] # "absent",
         jobState[j] = "absent", jobState'[j] # "absent"
  PROVE  i = j
<1>1. ASSUME NEW q \in Job, NEW s, jobState' = [jobState EXCEPT ![q] = s] PROVE i = j
  BY <1>1 DEF TypeOK
<1>2. ASSUME NEW q \in Job, RetryReviewRequired(q) PROVE i = j
  BY <1>1, <1>2 DEF RetryReviewRequired
<1>3. ASSUME NEW q \in Job, NEW w \in Worker, NEW t \in Nat, LeaseCall(q, w, t) PROVE i = j
  <2>1. CASE UNCHANGED jobState
    BY <2>1
  <2>2. ASSUME StartJob(q, w, t) \/ \E r \in Result : Complete(q, w, t, r) PROVE i = j
    BY <1>1, <2>2 DEF StartJob, Complete
  <2> QED
    BY <1>3, <2>1, <2>2 DEF LeaseCall, RenewLease, Checkpoint, MarkSideEffectStarted, ReplayComplete, jobVars
<1>4. ASSUME NEW w \in Worker, NEW S \in SUBSET Job, Lease(w, S) PROVE i = j
  BY <1>4 DEF Lease
<1>5. ASSUME NEW S \in SUBSET ActiveRows, NEW retryable \in BOOLEAN, Releasing(S, retryable) PROVE i = j
  BY <1>5 DEF Releasing, Release, ActiveRows, Active
<1>6. ASSUME NEW q \in Job, NEW D \in SUBSET TerminalRows, Admitting(q, D) PROVE i = j
  BY <1>6 DEF Admitting, TerminalRows, Terminal
<1>7. ASSUME NEW D \in SUBSET TerminalRows, Pruning(D) PROVE i = j
  BY <1>7 DEF Pruning, TerminalRows, Terminal
<1>8. CASE Background
  BY <1>8 DEF Background, jobVars
<1> QED
  BY <1>2, <1>3, <1>4, <1>5, <1>6, <1>7, <1>8, StepShape DEF Shape

(* A row is an old one, or the only new one, of a key that was free.        *)
LEMMA RowOrigin ==
  ASSUME TypeOK, LeaseConsistent, [Next]_vars, NEW j \in Job, j \in Rows'
  PROVE  \/ j \in Rows
         \/ jobState[j] = "absent" /\ KeyFree(Request[j].key)
<1>1. jobState'[j] \notin {"absent", "pruned"}
  BY DEF Rows
<1> QED
  BY <1>1, EveryRow DEF RowStep, RowStays, RowRetried, RowCheckpointed, RowEffectStarted, RowCompleted,
                  RowConfirmed, RowLeased, RowReleased, RowMoved, Active, Terminal, Rows

(* A key never has two rows, nor a row and the fence of another job.        *)
LEMMA FenceMatchesRowStep ==
  ASSUME TypeOK, LeaseConsistent, FenceMatchesRow, [Next]_vars
  PROVE  FenceMatchesRow'
<1>1. ASSUME NEW i \in Rows', NEW j \in Rows', Request[i].key = Request[j].key PROVE i = j
  <2>1. i \in Job /\ j \in Job
    BY DEF Rows
  <2>2. CASE i \in Rows /\ j \in Rows
    BY <1>1, <2>2 DEF FenceMatchesRow
  <2>3. CASE i \notin Rows /\ j \notin Rows
    <3>1. jobState[i] = "absent" /\ jobState[j] = "absent"
      BY <2>1, <2>3, RowOrigin
    <3> QED
      BY <2>1, <3>1, OneNewRow DEF Rows
  <2> QED
    BY <1>1, <2>1, <2>2, <2>3, RowOrigin DEF KeyFree
<1>2. ASSUME NEW j \in Rows' PROVE fence'[Request[j].key].job \in {NoJob, j}
  <2> DEFINE k == Request[j].key
  <2>1. j \in Job /\ k \in Key
    BY RequestAssumption DEF Rows
  <2>2. CASE fence'[k] = fence[k]
    BY <2>1, <2>2, RowOrigin DEF FenceMatchesRow, KeyFree
  <2>3. CASE fence'[k] = NoFence
    BY <2>3 DEF NoFence
  <2>4. CASE FenceStored(k)
    <3>1. PICK i \in Rows : Request[i].key = k /\ fence'[k].job = i
      BY <2>4 DEF FenceStored
    <3>2. j \in Rows
      BY <2>1, <3>1, RowOrigin DEF KeyFree
    <3> QED
      BY <3>1, <3>2 DEF FenceMatchesRow
  <2> QED
    BY <2>1, <2>2, <2>3, <2>4, EveryFence
<1> QED
  BY <1>1, <1>2 DEF FenceMatchesRow

(* A row is deleted only by a pruning, which stored its fence first.        *)
LEMMA OnceRememberedStep ==
  ASSUME TypeOK, LeaseConsistent, FenceMatchesRow, FenceOwned, OnceRemembered, [Next]_vars
  PROVE  OnceRemembered'
<1> SUFFICES ASSUME NEW j \in Job, Once(j), jobState'[j] = "pruned"
             PROVE  fence'[Request[j].key].job = j
  BY DEF OnceRemembered, Once
<1> DEFINE k == Request[j].key
<1>k. k \in Key
  BY RequestAssumption
<1>1. ASSUME NEW D \in SUBSET TerminalRows, PrunesRows(D) PROVE fence'[k].job = j
  <2>1. Prunes(D) /\ (j \in D \/ jobState[j] = "pruned")
    BY <1>1 DEF PrunesRows
  <2> QED
    BY <2>1, PruneRemembers
<1>2. CASE PrunesNone
  <2>1. jobState[j] = "pruned" /\ fence[k].job = j /\ j \notin Rows
    BY <1>2 DEF PrunesNone, OnceRemembered, Rows
  <2>2. CASE FenceStored(k)
    BY <2>1, <2>2, NullAssumption DEF FenceStored
  <2> QED
    BY <1>k, <1>2, <2>1, <2>2 DEF PrunesNone
<1> QED
  BY <1>1, <1>2, FenceStep

(* What answers a replay is the job's receipt, also once its row is pruned. *)
LEMMA DurableIsReceipt ==
  ASSUME FenceOwned, NEW j \in Job, NEW d \in DurableReceipt(j)
  PROVE  d = receipt[j] /\ jobState[j] \in {"completed", "pruned"}
<1>1. CASE jobState[j] = "completed"
  BY <1>1 DEF DurableReceipt
<1>2. CASE jobState[j] = "pruned"
  BY <1>2 DEF DurableReceipt, FenceOwned
<1> QED
  BY <1>1, <1>2 DEF DurableReceipt

(* Only the durable answer is acknowledged: the fence of a pruned row has   *)
(* the receipt of the row.                                                  *)
LEMMA AckedDurableStep ==
  ASSUME TypeOK, LeaseConsistent, FenceOwned, AckedDurable, [Next]_vars
  PROVE  AckedDurable'
<1> SUFFICES ASSUME NEW j \in Job
             PROVE  /\ acked'[j] \subseteq {receipt'[j]}
                    /\ acked'[j] # {} => jobState'[j] \in {"completed", "pruned"}
  BY DEF AckedDurable
<1>1. acked[j] \subseteq {receipt[j]} /\ (acked[j] # {} => jobState[j] \in {"completed", "pruned"})
  BY DEF AckedDurable
<1>2. CASE RowCompleted(j)
  <2>1. acked[j] = {} /\ jobState'[j] = "completed"
    BY <1>1, <1>2 DEF RowCompleted, Active
  <2> QED
    BY <1>2, <2>1 DEF RowCompleted
<1>3. CASE RowConfirmed(j)
  <2>1. UNCHANGED <<jobState[j], receipt[j]>>
    BY <1>3 DEF RowConfirmed
  <2>2. PICK d \in DurableReceipt(j) : acked'[j] = acked[j] \cup {d}
    BY <1>3 DEF RowConfirmed
  <2>3. d = receipt[j] /\ jobState[j] \in {"completed", "pruned"}
    BY DurableIsReceipt
  <2> QED
    BY <1>1, <2>1, <2>2, <2>3
<1>4. CASE ~RowCompleted(j) /\ ~RowConfirmed(j)
  <2>1. UNCHANGED <<acked[j], receipt[j]>>
    BY <1>4, EveryRow DEF RowStep, RowStays, RowRetried, RowCheckpointed, RowEffectStarted, RowLeased,
                          RowReleased, RowMoved, SameHistory
  <2>2. jobState[j] \in {"completed", "pruned"} => jobState'[j] \in {"completed", "pruned"}
    BY <1>4, EveryRow DEF RowStep, RowStays, RowRetried, RowCheckpointed, RowEffectStarted, RowLeased,
                          RowReleased, RowMoved, Active
  <2> QED
    BY <1>1, <2>1, <2>2
<1> QED
  BY <1>2, <1>3, <1>4

(* Before the fences are filled in nothing but the start-up code runs.      *)
LEMMA EarlyStep ==
  ASSUME [Next]_vars, phase \in {"clock", "backfill"}, phase' \notin {"clock", "backfill"}
  PROVE  BootBackfill
<1>1. ~Up /\ phase' # phase
  BY DEF Up
<1>2. ASSUME NEW j \in Job, NEW w, NEW t PROVE ~WorkerCall(j, w, t)
  BY <1>1 DEF WorkerCall, Presents, StartJob, RenewLease, Checkpoint, MarkSideEffectStarted,
              HandoverLease, Fail, GiveBack, Complete, ReplayComplete
<1>3. ASSUME NEW w \in Worker PROVE ~WorkerStep(w)
  BY <1>1 DEF WorkerStep, LeaseNext, LeaseMany, Lease, RegisterWorker, Heartbeat, SetWorkerDrain, RevokeWorker
<1>4. ~(\E j \in Job : Enqueue(j) \/ RetryReviewRequired(j)) /\ ~RetainTerminal /\ ~Sweep /\ ~ControlPlaneRecovery
  BY <1>1 DEF Enqueue, RetryReviewRequired, RetainTerminal, Sweep, BeginSweep, RecoverStaleWorkerLeases,
              RecoverExpiredLeases, ControlPlaneRecovery
<1>5. ~Tick /\ ~Crash /\ ~UNCHANGED vars
  BY <1>1 DEF Tick, Crash, vars, processVars
<1>6. Boot
  BY <1>2, <1>3, <1>4, <1>5 DEF Next
<1> QED
  BY <1>6 DEF Boot, BootClock, BootReconcile, BootRecoverStale, BootRecoverExpired

(* Past the backfill every row that ends is fenced in its own transaction,  *)
(* and no fence of a row goes.                                              *)
LEMMA TerminalRowsFencedStep ==
  ASSUME TypeOK, LeaseConsistent, FenceMatchesRow, TerminalRowsFenced, [Next]_vars
  PROVE  TerminalRowsFenced'
<1> DEFINE Early == {"clock", "backfill"}
<1> SUFFICES ASSUME phase' \notin Early, NEW j \in Job, jobState'[j] \in Terminal
             PROVE  fence'[Request[j].key] = FenceOf(j, jobState', receipt')
  BY DEF TerminalRowsFenced, TerminalRows, FenceOf
<1> DEFINE k == Request[j].key
<1>k. k \in Key
  BY RequestAssumption
<1>1. CASE phase \in Early
  <2>1. BootBackfill
    BY <1>1, EarlyStep
  <2>2. /\ FenceFree(TerminalRows) /\ fence' = WithFences(TerminalRows, jobState)
        /\ UNCHANGED <<jobState, receipt>>
    BY <2>1 DEF BootBackfill, jobVars
  <2>3. TerminalRows \in SUBSET Job /\ TerminalRows \subseteq Rows /\ j \in TerminalRows
    BY <2>2 DEF TerminalRows, Rows, Terminal
  <2>4. PICK c \in TerminalRows : Request[c].key = k /\ fence'[k] = FenceOf(c, jobState, receipt)
    BY <1>k, <2>2, <2>3, Storing
  <2>5. c = j
    BY <2>3, <2>4 DEF FenceMatchesRow
  <2> QED
    BY <2>2, <2>4, <2>5
<1>2. CASE phase \notin Early /\ jobState[j] \in Terminal
  <2>1. fence[k] = FenceOf(j, jobState, receipt) /\ j \in Rows
    BY <1>2 DEF TerminalRowsFenced, TerminalRows, FenceOf, Rows, Terminal
  <2>2. jobState'[j] = jobState[j] /\ receipt'[j] = receipt[j]
    BY <1>2, EveryRow DEF RowStep, RowStays, RowRetried, RowCheckpointed, RowEffectStarted, RowCompleted,
                          RowConfirmed, RowLeased, RowReleased, RowMoved, Active, Terminal
  <2>3. CASE FenceStored(k)
    <3>1. PICK i \in Rows : /\ Request[i].key = k
                            /\ jobState'[i] \in Terminal => fence'[k] = FenceOf(i, jobState', receipt')
      BY <2>3 DEF FenceStored
    <3>2. i = j
      BY <2>1, <3>1 DEF FenceMatchesRow
    <3> QED
      BY <3>1, <3>2
  <2>4. jobState'[j] # "pruned"
    BY DEF Terminal
  <2>5. CASE fence'[k] = fence[k]
    BY <2>1, <2>2, <2>5 DEF FenceOf
  <2> QED
    BY <1>k, <2>1, <2>3, <2>4, <2>5, EveryFence
<1>3. CASE phase \notin Early /\ jobState[j] \notin Terminal
  <2>1. ~ \E D \in SUBSET TerminalRows : PrunesRows(D)
    BY <1>3 DEF PrunesRows
  <2> QED
    BY <1>3, <2>1, FenceStep DEF PrunesNone
<1> QED
  BY <1>1, <1>2, <1>3

(* A new database, or a legacy one, has no fence and no answer told.        *)
LEMMA InitFences == Init => FenceInv
<1> SUFFICES ASSUME Init PROVE FenceInv
  OBVIOUS
<1>1. FenceOwned
  BY NullAssumption DEF Init, FenceOwned, NoFence
<1>2. FenceMatchesRow
  BY LegacyAssumption, RequestAssumption DEF Init, FenceMatchesRow, NoFence, Rows
<1>3. OnceRemembered /\ AckedDurable
  BY DEF Init, OnceRemembered, AckedDurable
<1>4. TerminalRowsFenced
  BY DEF Init, TerminalRowsFenced
<1> QED
  BY <1>1, <1>2, <1>3, <1>4 DEF FenceInv

LEMMA InvInit == Init => Inv
BY InitInv, InitFences DEF Inv

(* The two halves of the invariant are inductive together.                  *)
LEMMA InvStep == Inv /\ [Next]_vars => Inv'
<1>1. Inv /\ [Next]_vars => QueueInv'
  BY QueueInvStep DEF Inv
<1>2. Inv /\ [Next]_vars => FenceInv'
  BY FenceOwnedStep, FenceMatchesRowStep, OnceRememberedStep, AckedDurableStep,
     TerminalRowsFencedStep DEF Inv, QueueInv, FenceInv
<1> QED
  BY <1>1, <1>2 DEF Inv

(* The inductive invariant holds in every reachable state.                  *)
THEOREM Invariant == Spec => []Inv
BY InvInit, InvStep, PTL DEF Spec

-----------------------------------------------------------------------------
(* Theorems about keys and answers.                                         *)

(* A row and a fence of one key are of one job: storing a fence in complete,*)
(* fail or a recovery never raises, so no terminal transition is rolled back.*)
THEOREM FencesMatchRows == Spec => []FenceMatchesRow
<1>1. Inv => FenceMatchesRow
  BY DEF Inv, FenceInv
<1> QED
  BY <1>1, Invariant, PTL

(* Whenever retain_terminal_jobs may delete a row, its answer is in a fence.*)
THEOREM EndsAreFenced == Spec => []TerminalRowsFenced
<1>1. Inv => TerminalRowsFenced
  BY DEF Inv, FenceInv
<1> QED
  BY <1>1, Invariant, PTL

(* enqueue never starts a second non-idempotent job under a key, whatever   *)
(* history retain_terminal_jobs deleted.                                    *)
THEOREM KeysOnce == Spec => []NonIdempotentKeyOnce
<1>1. Inv => NonIdempotentKeyOnce
  <2> SUFFICES ASSUME Inv, NEW i \in Job, NEW j \in Job,
                      jobState[i] # "absent", jobState[j] # "absent",
                      Request[i].key = Request[j].key, Once(i), Once(j)
               PROVE  i = j
    BY DEF NonIdempotentKeyOnce, Once
  <2>1. /\ i \in Rows \/ jobState[i] = "pruned"
        /\ j \in Rows \/ jobState[j] = "pruned"
    BY DEF Rows
  <2>2. FenceMatchesRow /\ OnceRemembered
    BY DEF Inv, FenceInv
  <2> QED
    BY <2>1, <2>2, NullAssumption DEF FenceMatchesRow, OnceRemembered
<1> QED
  BY <1>1, Invariant, PTL

(* complete() acknowledges one lease and result of a job at most, and the   *)
(* one it acknowledged is the one that is stored.                           *)
THEOREM AnswersOnce == Spec => []AckedOnce
<1>1. Inv => AckedOnce
  <2> SUFFICES ASSUME Inv, NEW j \in Job
               PROVE  /\ Cardinality(acked[j]) <= 1
                      /\ acked[j] # {} => /\ jobState[j] \in {"completed", "pruned"}
                                          /\ acked[j] = {receipt[j]}
    BY DEF AckedOnce
  <2>1. /\ acked[j] = {} \/ acked[j] = {receipt[j]}
        /\ acked[j] # {} => jobState[j] \in {"completed", "pruned"}
    BY DEF Inv, FenceInv, AckedDurable
  <2>2. Cardinality(acked[j]) \in {0, 1}
    BY <2>1, FS_EmptySet, FS_Singleton
  <2> QED
    BY <2>1, <2>2
<1> QED
  BY <1>1, Invariant, PTL

-----------------------------------------------------------------------------
(* The refinement.                                                          *)

(* The columns of one row, of the types the contract works with.            *)
LEMMA MappedTypes ==
  ASSUME TypeOK, NEW j \in Job
  PROVE  /\ attempt[j] \in Nat /\ effectRuns[j] \in Nat /\ approvals[j] \in Nat
         /\ effect[j] \in {"none", "started", "completed"}
         /\ Request[j].limit \in Nat
BY Columns, LimitType

(* Submitting: the key of the new row is free of rows and of fences, so its *)
(* earlier uses were pruned, and a non-idempotent one would have its fence. *)
LEMMA MappedMoved ==
  ASSUME Inv, NEW j \in Job, RowMoved(j)
  PROVE  Contract!Submit(j) \/ Contract!Forget(j)
<1>1. UNCHANGED <<leaseWorker[j], leaseToken[j], attempt[j], receipt[j], effectRuns[j], approvals[j], acked[j]>>
  BY DEF RowMoved, SameLease, SameHistory
<1>2. CASE jobState[j] = "absent" /\ jobState'[j] = "queued" /\ KeyFree(Request[j].key)
  <2>1. ASSUME NEW i \in Job \ {j}, Request[i].key = Request[j].key
        PROVE  StatusOf(jobState[i]) = "absent" \/ (StatusOf(jobState[i]) = "pruned" /\ ~Once(i))
    <3>1. i \notin Rows /\ fence[Request[i].key].job = NoJob
      BY <1>2, <2>1 DEF KeyFree
    <3>2. jobState[i] \in {"absent", "pruned"}
      BY <3>1 DEF Rows
    <3>3. jobState[i] = "pruned" => ~Once(i)
      BY <3>1, NullAssumption DEF Inv, FenceInv, OnceRemembered
    <3> QED
      BY <3>2, <3>3 DEF StatusOf, Active
  <2>2. StatusOf(jobState[j]) = "absent" /\ StatusOf(jobState'[j]) = "queued"
    BY <1>2 DEF StatusOf, Active
  <2> QED
    BY <1>1, <2>1, <2>2
       DEF Contract!Submit, Contract!Goes, Contract!Keeps, Contract!KeepsCounts, Contract!KeepsAnswer, Once
<1>3. CASE jobState[j] \in Terminal /\ jobState'[j] = "pruned"
  BY <1>1, <1>3 DEF StatusOf, Active, Terminal,
     Contract!Forget, Contract!Goes, Contract!Keeps, Contract!KeepsCounts, Contract!KeepsAnswer
<1> QED
  BY <1>2, <1>3 DEF RowMoved

(* Leasing: a row in the queue has an attempt left and no effect behind it. *)
LEMMA MappedLeased ==
  ASSUME Inv, NEW j \in Job, RowLeased(j)
  PROVE  Contract!Grant(j)
<1>1. /\ jobState[j] = "queued" /\ jobState'[j] = "leased"
      /\ attempt'[j] = attempt[j] + 1
      /\ leaseWorker'[j] \in Worker /\ leaseToken'[j] = attempt[j] + 1
      /\ UNCHANGED <<receipt[j], effectRuns[j], approvals[j], acked[j]>>
  BY DEF RowLeased
<1>2. StatusOf(jobState[j]) = "queued" /\ StatusOf(jobState'[j]) = "owned"
  BY <1>1 DEF StatusOf, Active
<1>3. attempt[j] < Request[j].limit + approvals[j]
  BY <1>1 DEF Inv, QueueInv, AttemptsCounted
<1>4. Once(j) => effectRuns[j] = approvals[j]
  BY <1>1 DEF Inv, QueueInv, EffectFenced, Once
<1>5. Once(j) => effectRuns[j] <= approvals[j]
  BY <1>4, MappedTypes DEF Inv, QueueInv
<1> QED
  BY <1>1, <1>2, <1>3, <1>5
     DEF Contract!Grant, Contract!Goes, Contract!Keeps, Contract!KeepsAnswer, Once

(* Letting the effect through, which nothing did since the last approval.   *)
LEMMA MappedEffect ==
  ASSUME Inv, NEW j \in Job, Once(j), RowEffectStarted(j)
  PROVE  Contract!Effect(j)
<1>1. /\ jobState[j] \in Active /\ jobState'[j] \in Active /\ effect[j] # "started"
      /\ effectRuns'[j] = effectRuns[j] + 1
      /\ UNCHANGED <<leaseWorker[j], leaseToken[j], attempt[j], receipt[j], approvals[j], acked[j]>>
  BY DEF RowEffectStarted, SameLease
<1>2. effectRuns[j] = approvals[j]
  BY <1>1, MappedTypes DEF Inv, QueueInv, EffectFenced, Once
<1>3. effectRuns[j] <= approvals[j]
  BY <1>2, MappedTypes DEF Inv, QueueInv
<1>4. StatusOf(jobState[j]) = "owned" /\ StatusOf(jobState'[j]) = "owned"
  BY <1>1 DEF StatusOf
<1> QED
  BY <1>1, <1>3, <1>4
     DEF Contract!Effect, Contract!Goes, Contract!Keeps, Contract!KeepsAnswer, Once

(* Losing a lease: what ReleaseTarget decides is what the contract asks.    *)
LEMMA MappedReleased ==
  ASSUME Inv, NEW j \in Job, RowReleased(j)
  PROVE  Contract!Lose(j)
<1>1. /\ jobState[j] \in Active
      /\ jobState'[j] \in {"queued", "failed", "review_required"}
      /\ jobState'[j] = "queued" => attempt[j] < Request[j].limit
      /\ jobState'[j] = "review_required" <=> Once(j) /\ effect[j] = "started"
      /\ leaseWorker'[j] = NoWorker /\ leaseToken'[j] = 0
      /\ UNCHANGED <<attempt[j], receipt[j], effectRuns[j], approvals[j], acked[j]>>
  BY DEF RowReleased, FreedLease, SameHistory, Once
<1>2. StatusOf(jobState[j]) = "owned" /\ StatusOf(jobState'[j]) = jobState'[j]
  BY <1>1 DEF StatusOf, Active
<1>3. /\ Once(j) /\ effect[j] = "started" => effectRuns[j] = approvals[j] + 1
      /\ Once(j) /\ effect[j] # "started" => effectRuns[j] <= approvals[j]
  <2>1. /\ Once(j) /\ effect[j] = "started" => effectRuns[j] = approvals[j] + 1
        /\ Once(j) /\ effect[j] = "none" => effectRuns[j] = approvals[j]
        /\ Once(j) => effect[j] # "completed"
    BY <1>1 DEF Inv, QueueInv, EffectFenced, Once
  <2>2. effectRuns[j] \in Nat /\ approvals[j] \in Nat /\ effect[j] \in {"none", "started", "completed"}
    BY Columns DEF Inv, QueueInv
  <2> QED
    BY <2>1, <2>2
<1>4. attempt[j] < Request[j].limit => attempt[j] < Request[j].limit + approvals[j]
  BY Columns, LimitType DEF Inv, QueueInv
<1> QED
  BY <1>1, <1>2, <1>3, <1>4
     DEF Contract!Lose, Contract!Goes, Contract!Keeps, Contract!KeepsCounts, Contract!KeepsAnswer, Once

(* Finishing: the receipt is of the lease in the row.                       *)
LEMMA MappedCompleted ==
  ASSUME Inv, NEW j \in Job, RowCompleted(j)
  PROVE  Contract!Finish(j)
<1>1. /\ jobState[j] \in Active /\ jobState'[j] = "completed"
      /\ receipt'[j] \in Receipt
      /\ receipt'[j].token = leaseToken[j] /\ receipt'[j].worker = leaseWorker[j]
      /\ acked'[j] \in {acked[j], acked[j] \cup {receipt'[j]}}
      /\ leaseWorker'[j] = NoWorker /\ leaseToken'[j] = 0
      /\ UNCHANGED <<attempt[j], effectRuns[j], approvals[j]>>
  BY DEF RowCompleted, FreedLease
<1>2. acked[j] = {}
  BY <1>1 DEF Inv, FenceInv, AckedDurable, Active
<1>3. StatusOf(jobState[j]) = "owned" /\ StatusOf(jobState'[j]) = "completed"
  BY <1>1 DEF StatusOf, Active
<1> QED
  BY <1>1, <1>2, <1>3 DEF Contract!Finish, Contract!Goes, Contract!Keeps, Contract!KeepsCounts

(* Confirming: the replay was compared with the durable receipt.            *)
LEMMA MappedConfirmed ==
  ASSUME Inv, NEW j \in Job, RowConfirmed(j)
  PROVE  Contract!Confirm(j)
<1>1. PICK d \in DurableReceipt(j) : d.worker \in Worker /\ acked'[j] = acked[j] \cup {d}
  BY DEF RowConfirmed
<1>2. UNCHANGED <<jobState[j], leaseWorker[j], leaseToken[j], attempt[j], receipt[j], effectRuns[j], approvals[j]>>
  BY DEF RowConfirmed, SameLease
<1>3. d = receipt[j] /\ jobState[j] \in {"completed", "pruned"}
  BY DurableIsReceipt DEF Inv, FenceInv
<1>4. acked'[j] = {receipt[j]}
  BY <1>1, <1>3 DEF Inv, FenceInv, AckedDurable
<1>5. receipt[j] # NoReceipt
  BY <1>1, <1>3, NullAssumption DEF NoReceipt
<1>6. StatusOf(jobState[j]) = jobState[j] /\ StatusOf(jobState'[j]) = jobState[j]
  BY <1>2, <1>3 DEF StatusOf, Active
<1> QED
  BY <1>2, <1>3, <1>4, <1>5, <1>6 DEF Contract!Confirm, Contract!Keeps, Contract!KeepsCounts

(* What leaves a row alone, leaves the job alone.                           *)
LEMMA MappedStays ==
  ASSUME NEW j \in Job, RowStays(j) \/ RowCheckpointed(j) \/ RowRetried(j)
  PROVE  Contract!Rests(j) \/ Contract!Approve(j)
BY DEF RowStays, RowCheckpointed, RowRetried, SameLease, SameHistory, StatusOf, Active,
       Contract!Rests, Contract!Approve, Contract!Goes, Contract!Keeps, Contract!KeepsCounts, Contract!KeepsAnswer

(* Every step of the queue is a step of the contract.                       *)
LEMMA MappedStep == Inv /\ [Next]_vars => [Contract!Next]_(Contract!vars)
<1> SUFFICES ASSUME Inv, [Next]_vars, NEW j \in Job PROVE Contract!JobNext(j)
  BY DEF Contract!Next
<1>1. TypeOK /\ LeaseConsistent
  BY DEF Inv, QueueInv
<1>2. ASSUME RowEffectStarted(j) PROVE Once(j)
  BY <1>2 DEF RowEffectStarted, Once
<1> QED
  BY <1>1, <1>2, EveryRow, MappedStays, MappedMoved, MappedLeased, MappedEffect, MappedReleased,
     MappedCompleted, MappedConfirmed
     DEF RowStep, Contract!JobNext

(* Where the queue starts, the contract starts.                             *)
LEMMA MappedInit == Init => Contract!Init
BY DEF Init, Contract!Init, StatusOf, Active

(* The SQLite queue implements the contract: whatever the workers lose,     *)
(* repeat or keep, whatever the sweeps, the operator and the retention do,  *)
(* and wherever it crashes.                                                 *)
THEOREM QueueKeepsContract == Spec => KeepsContract
BY MappedInit, MappedStep, Invariant, PTL DEF Spec, Contract!Spec, KeepsContract
=============================================================================
