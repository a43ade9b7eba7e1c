--------------------------- MODULE JobSystemProofs ---------------------------
(* Theorems about JobSystem, for every set of jobs, every capacity and every *)
(* number of faults, cancellations and crashes.                              *)
EXTENDS JobSystem, FiniteSetTheorems, TLAPS

USE DEF Outcomes, TerminalRow, RowStates, Submitting, ThreadsStart

-----------------------------------------------------------------------------
(* The inductive invariant.                                                 *)

(* TypeOK without the upper bound of the semaphore.                          *)
Shape ==
    /\ row \in [Job -> RowStates]
    /\ submit \in [Job -> {"new", "done"} \cup Submitting]
    /\ work \in [Job -> {"none", "queued", "start", "operate", "persist", "end", "callback"}]
    /\ future \in [Job -> {"none", "pending", "running", "cancelled", "finished"}]
    /\ hooked \subseteq Job
    /\ retire \in [Job -> {"idle", "write", "release", "pop", "retain"}]
    /\ retirer \in [Job -> {"none", "submitter", "worker", "canceller", "shutdown"}]
    /\ cancelling \subseteq Job
    /\ accepting \in BOOLEAN
    /\ slots \in Nat
    /\ futures \subseteq Job /\ event \subseteq Job
    /\ intent \in [Job -> Outcomes \cup {"none"}]
    /\ persisted \subseteq Job /\ failed \subseteq Job
    /\ shut \in {"idle", "signal", "retry", "cancel", "broken"}
    /\ shutStarted \in BOOLEAN /\ shutFailed \in BOOLEAN
    /\ toRetry \subseteq Job /\ toCancel \subseteq Job
    /\ faults \in 0 .. MaxFaults
    /\ threadFailures \in 0 .. MaxThreadFailures
    /\ cancels \in 0 .. MaxCancels
    /\ crashes \in 0 .. MaxCrashes
    /\ outcome \in [Job -> Outcomes \cup {"none"}]

(* The submission: a row is created once, and the item is handed over once,  *)
(* by a submission that registers and then hooks the future.                 *)
Submitted(j) ==
    /\ submit[j] \in {"new", "admit", "acquire", "create"} => row[j] = "absent"
    /\ submit[j] = "handoff" => row[j] = "queued"
    /\ submit[j] \in {"new", "admit", "acquire", "create", "handoff", "reject_stopping"} =>
        work[j] = "none" /\ future[j] = "none" /\ outcome[j] = "none"
    /\ ThreadsStart /\ future[j] # "none" => submit[j] \in {"hook", "leave", "done"}
    /\ submit[j] = "reject_failed" => ~ThreadsStart
    /\ submit[j] = "hook" => j \in futures /\ j \notin hooked
    /\ j \in futures => submit[j] \in {"hook", "leave", "done"} /\ future[j] # "none"
    /\ j \in hooked => submit[j] \in {"leave", "done"}

(* The retirement: only of a hooked future that is done, and it lets the     *)
(* future go only after the row ended.                                      *)
Retired(j) ==
    /\ retire[j] # "idle" =>
        j \in futures /\ j \in hooked /\ future[j] \in {"cancelled", "finished"}
    /\ j \in failed \cup toRetry => j \in hooked /\ future[j] \in {"cancelled", "finished"}
    /\ retire[j] \in {"release", "pop"} => j \in persisted
    /\ j \in persisted => row[j] \in TerminalRow
    /\ j \in hooked /\ j \notin futures => row[j] \in TerminalRow

(* The work item: while it can still run, nobody else writes its row.        *)
Worked(j) ==
    /\ work[j] = "queued" => future[j] \in {"pending", "cancelled"}
    /\ work[j] \in {"start", "operate", "persist", "end"} => future[j] = "running"
    /\ ThreadsStart /\ work[j] \in {"queued", "start"} /\ future[j] \in {"pending", "running"} =>
        row[j] = "queued"
    /\ ThreadsStart /\ work[j] = "operate" => row[j] = "running"
    /\ ThreadsStart /\ future[j] \in {"pending", "running"} => j \in futures

(* The outcome, the recorded intent and the row.                            *)
Recorded(j) ==
    /\ work[j] \in {"queued", "start", "operate"} => outcome[j] = "none"
    /\ work[j] = "persist" => intent[j] = outcome[j] /\ outcome[j] # "none"
    /\ intent[j] = "succeeded" => outcome[j] = "succeeded"
    /\ outcome[j] = "succeeded" /\ j \in futures => intent[j] = "succeeded"
    /\ row[j] = "succeeded" => outcome[j] = "succeeded"
    /\ ThreadsStart /\ outcome[j] = "succeeded" => row[j] \notin {"failed", "cancelled"}

JobOK(j) == Submitted(j) /\ Retired(j) /\ Worked(j) /\ Recorded(j)

(* The owners of the slots.                                                  *)
Owners == HoldsSlot \cup {j \in futures : retire[j] # "pop"}

JobInv == Shape /\ (\A j \in Job : JobOK(j)) /\ SlotsExact

-----------------------------------------------------------------------------
(* Helpers.                                                                  *)

LEMMA Capacities ==
    /\ Capacity \in Nat /\ MaxFaults \in Nat /\ MaxThreadFailures \in Nat
    /\ MaxCancels \in Nat /\ MaxCrashes \in Nat
  BY CapacityAssumption DEF Capacity

LEMMA JobSets ==
  ASSUME NEW S \in SUBSET Job
  PROVE  IsFiniteSet(S) /\ Cardinality(S) \in Nat
  BY JobAssumption, FS_Subset, FS_CardinalityType

(* Whoever owned a slot owns it still.                                       *)
LEMMA SlotsKept ==
  ASSUME SlotsExact, slots' = slots, Owners' = Owners
  PROVE  SlotsExact'
  BY DEF SlotsExact, Owners

(* A new owner took one.                                                     *)
LEMMA SlotsTaken ==
  ASSUME SlotsExact, slots \in Int, NEW j, j \notin Owners, Owners \subseteq Job,
         slots' = slots - 1, Owners' = Owners \cup {j}
  PROVE  SlotsExact'
<1>1. Cardinality(Owners \cup {j}) = Cardinality(Owners) + 1 /\ Cardinality(Owners) \in Nat
  BY JobSets, FS_AddElement
<1>2. slots + Cardinality(Owners) = Capacity
  BY DEF SlotsExact, Owners
<1>3. slots' + Cardinality(Owners') = Capacity
  BY <1>1, <1>2
<1> QED
  BY <1>3 DEF SlotsExact, Owners

(* An owner gave one back.                                                   *)
LEMMA SlotsGiven ==
  ASSUME SlotsExact, slots \in Int, NEW j \in Owners, Owners \subseteq Job,
         slots' = slots + 1, Owners' = Owners \ {j}
  PROVE  SlotsExact'
<1>1. Cardinality(Owners \ {j}) = Cardinality(Owners) - 1 /\ Cardinality(Owners) \in Nat
  BY JobSets, FS_RemoveElement
<1>2. slots + Cardinality(Owners) = Capacity
  BY DEF SlotsExact, Owners
<1>3. slots' + Cardinality(Owners') = Capacity
  BY <1>1, <1>2
<1> QED
  BY <1>3 DEF SlotsExact, Owners

LEMMA OwnersAreJobs == Shape => Owners \subseteq Job
  BY DEF Shape, Owners, HoldsSlot

(* A job none of whose state a step touches, while no thread failure is      *)
(* forgotten.                                                                *)
LEMMA JobUntouched ==
  ASSUME NEW j, JobOK(j), ThreadsStart' => ThreadsStart,
         row'[j] = row[j], submit'[j] = submit[j], work'[j] = work[j], future'[j] = future[j],
         retire'[j] = retire[j], intent'[j] = intent[j], outcome'[j] = outcome[j],
         j \in hooked' <=> j \in hooked, j \in futures' <=> j \in futures,
         j \in persisted' <=> j \in persisted,
         j \in failed' \cup toRetry' => j \in failed \cup toRetry
  PROVE  JobOK(j)'
  BY DEF JobOK, Submitted, Retired, Worked, Recorded

(* A retirement is entered for a job whose future is hooked and done.        *)
LEMMA RetireEntered ==
  ASSUME Shape, NEW j \in Job, NEW who \in {"submitter", "worker", "canceller", "shutdown"},
         EnterRetire(j, who)
  PROVE  /\ retire' \in [Job -> {"idle", "write", "release", "pop", "retain"}]
         /\ retirer' \in [Job -> {"none", "submitter", "worker", "canceller", "shutdown"}]
         /\ failed' \subseteq failed
         /\ \A i \in Job \ {j} : retire'[i] = retire[i]
         /\ \/ retire'[j] = retire[j]
            \/ j \in futures /\ retire[j] = "idle" /\ retire'[j] = "write"
  BY DEF EnterRetire, Shape, retireVars

LEMMA OwnersOfRetirement ==
  ASSUME Shape, NEW j \in Job, NEW who \in {"submitter", "worker", "canceller", "shutdown"},
         EnterRetire(j, who) \/ UNCHANGED retireVars, UNCHANGED <<HoldsSlot, futures>>
  PROVE  Owners' = Owners
<1>1. \A i \in Job : retire'[i] = "pop" <=> retire[i] = "pop"
  BY RetireEntered DEF retireVars
<1> QED
  BY <1>1 DEF Owners, Shape

LEMMA InitJobs == Init => JobInv
<1> SUFFICES ASSUME Init PROVE JobInv
  OBVIOUS
<1>1. Shape
  <2>1. 0 \in 0 .. MaxFaults /\ 0 \in 0 .. MaxThreadFailures /\ 0 \in 0 .. MaxCancels /\ 0 \in 0 .. MaxCrashes
    BY Capacities
  <2> QED
    BY <2>1, Capacities DEF Init, Shape
<1>2. \A j \in Job : JobOK(j)
  BY DEF Init, JobOK, Submitted, Retired, Worked, Recorded
<1>3. SlotsExact
  <2>1. HoldsSlot \cup {j \in futures : retire[j] # "pop"} = {}
    BY DEF Init, HoldsSlot
  <2> QED
    BY <2>1, Capacities, FS_EmptySet DEF Init, SlotsExact
<1> QED
  BY <1>1, <1>2, <1>3 DEF JobInv

(* What a step of one job leaves alone of the others.                        *)
Others(j) ==
    \A i \in Job \ {j} :
        /\ row'[i] = row[i] /\ submit'[i] = submit[i] /\ work'[i] = work[i]
        /\ future'[i] = future[i] /\ retire'[i] = retire[i]
        /\ intent'[i] = intent[i] /\ outcome'[i] = outcome[i]
        /\ i \in hooked' <=> i \in hooked
        /\ i \in futures' <=> i \in futures
        /\ i \in persisted' <=> i \in persisted
        /\ i \in failed' \cup toRetry' => i \in failed \cup toRetry

LEMMA OneJob ==
  ASSUME JobInv, NEW j \in Job, Others(j), ThreadsStart' => ThreadsStart,
         Shape', JobOK(j)', SlotsExact'
  PROVE  JobInv'
<1>1. \A i \in Job \ {j} : JobOK(i)'
  <2> TAKE i \in Job \ {j}
  <2> QED
    BY JobUntouched DEF JobInv, Others
<1> QED
  BY <1>1 DEF JobInv

-----------------------------------------------------------------------------
(* The steps of the submission, the executor and the retirement.            *)

LEMMA SubmitKeeps ==
  ASSUME JobInv, NEW j \in Job, Submit(j)
  PROVE  JobInv'
<1> USE DEF Goto, submitVars, retireVars, shutVars, registry, bounds
<1>1. Shape /\ JobOK(j) /\ SlotsExact
  BY DEF JobInv
<1>3. Shape'
  BY <1>1, Capacities DEF Submit, Shape, Fault
<1>4. Others(j)
  BY <1>1 DEF Submit, Shape, Others, Fault
<1>5. ThreadsStart' => ThreadsStart
  BY <1>1 DEF Submit, Shape
<1>6. JobOK(j)'
  BY <1>1 DEF Submit, Shape, JobOK, Submitted, Retired, Worked, Recorded, Fault
<1>7. Owners' = Owners
  BY <1>1 DEF Submit, Shape, Owners, HoldsSlot, JobOK, Submitted, Retired, Worked, Recorded
<1>8. SlotsExact'
  BY <1>1, <1>7, SlotsKept DEF Submit
<1> QED
  BY <1>3, <1>4, <1>5, <1>6, <1>8, OneJob

LEMMA AdmitKeeps ==
  ASSUME JobInv, NEW j \in Job, Admit(j)
  PROVE  JobInv'
<1> USE DEF Goto, submitVars, retireVars, shutVars, registry, bounds
<1>1. Shape /\ JobOK(j) /\ SlotsExact
  BY DEF JobInv
<1>3. Shape'
  BY <1>1, Capacities DEF Admit, Shape, Fault
<1>4. Others(j)
  BY <1>1 DEF Admit, Shape, Others, Fault
<1>5. ThreadsStart' => ThreadsStart
  BY <1>1 DEF Admit, Shape
<1>6. JobOK(j)'
  BY <1>1 DEF Admit, Shape, JobOK, Submitted, Retired, Worked, Recorded, Fault
<1>7. Owners' = Owners
  BY <1>1 DEF Admit, Shape, Owners, HoldsSlot, JobOK, Submitted, Retired, Worked, Recorded
<1>8. SlotsExact'
  BY <1>1, <1>7, SlotsKept DEF Admit
<1> QED
  BY <1>3, <1>4, <1>5, <1>6, <1>8, OneJob

LEMMA AcquireSlotKeeps ==
  ASSUME JobInv, NEW j \in Job, AcquireSlot(j)
  PROVE  JobInv'
<1> USE DEF Goto, submitVars, retireVars, shutVars, registry, bounds
<1>1. Shape /\ JobOK(j) /\ SlotsExact
  BY DEF JobInv
<1>3. Shape'
  BY <1>1, Capacities DEF AcquireSlot, Shape, Fault
<1>4. Others(j)
  BY <1>1 DEF AcquireSlot, Shape, Others, Fault
<1>5. ThreadsStart' => ThreadsStart
  BY <1>1 DEF AcquireSlot, Shape
<1>6. JobOK(j)'
  BY <1>1 DEF AcquireSlot, Shape, JobOK, Submitted, Retired, Worked, Recorded, Fault
<1>8. SlotsExact'
  <2>1. CASE accepting /\ slots > 0
    <3>1. j \notin Owners /\ Owners' = Owners \cup {j}
      BY <1>1, <2>1 DEF AcquireSlot, Shape, Owners, HoldsSlot, JobOK, Submitted, Retired, Worked, Recorded
    <3> QED
      BY <1>1, <2>1, <3>1, SlotsTaken, OwnersAreJobs DEF AcquireSlot, Shape
  <2>2. CASE ~(accepting /\ slots > 0)
    <3>1. Owners' = Owners
      BY <1>1, <2>2 DEF AcquireSlot, Shape, Owners, HoldsSlot, JobOK, Submitted, Retired, Worked, Recorded
    <3> QED
      BY <1>1, <2>2, <3>1, SlotsKept DEF AcquireSlot
  <2> QED
    BY <2>1, <2>2
<1> QED
  BY <1>3, <1>4, <1>5, <1>6, <1>8, OneJob

LEMMA CreateRowKeeps ==
  ASSUME JobInv, NEW j \in Job, CreateRow(j)
  PROVE  JobInv'
<1> USE DEF Goto, submitVars, retireVars, shutVars, registry, bounds
<1>1. Shape /\ JobOK(j) /\ SlotsExact
  BY DEF JobInv
<1>3. Shape'
  BY <1>1, Capacities DEF CreateRow, Shape, Fault
<1>4. Others(j)
  BY <1>1 DEF CreateRow, Shape, Others, Fault
<1>5. ThreadsStart' => ThreadsStart
  BY <1>1 DEF CreateRow, Shape
<1>6. JobOK(j)'
  BY <1>1 DEF CreateRow, Shape, JobOK, Submitted, Retired, Worked, Recorded, Fault
<1>7. Owners' = Owners
  BY <1>1 DEF CreateRow, Shape, Owners, HoldsSlot, JobOK, Submitted, Retired, Worked, Recorded
<1>8. SlotsExact'
  BY <1>1, <1>7, SlotsKept DEF CreateRow
<1> QED
  BY <1>3, <1>4, <1>5, <1>6, <1>8, OneJob

LEMMA HandOffKeeps ==
  ASSUME JobInv, NEW j \in Job, HandOff(j)
  PROVE  JobInv'
<1> USE DEF Goto, submitVars, retireVars, shutVars, registry, bounds
<1>1. Shape /\ JobOK(j) /\ SlotsExact
  BY DEF JobInv
<1>3. Shape'
  BY <1>1, Capacities DEF HandOff, Shape, Fault
<1>4. Others(j)
  BY <1>1 DEF HandOff, Shape, Others, Fault
<1>5. ThreadsStart' => ThreadsStart
  BY <1>1 DEF HandOff, Shape
<1>6. JobOK(j)'
  BY <1>1 DEF HandOff, Shape, JobOK, Submitted, Retired, Worked, Recorded, Fault
<1>7. Owners' = Owners
  BY <1>1 DEF HandOff, Shape, Owners, HoldsSlot, JobOK, Submitted, Retired, Worked, Recorded
<1>8. SlotsExact'
  BY <1>1, <1>7, SlotsKept DEF HandOff
<1> QED
  BY <1>3, <1>4, <1>5, <1>6, <1>8, OneJob

LEMMA HandOffRaisesKeeps ==
  ASSUME JobInv, NEW j \in Job, HandOffRaises(j)
  PROVE  JobInv'
<1> USE DEF Goto, submitVars, retireVars, shutVars, registry, bounds
<1>1. Shape /\ JobOK(j) /\ SlotsExact
  BY DEF JobInv
<1>3. Shape'
  BY <1>1, Capacities DEF HandOffRaises, Shape, Fault
<1>4. Others(j)
  BY <1>1 DEF HandOffRaises, Shape, Others, Fault
<1>5. ThreadsStart' => ThreadsStart
  BY <1>1 DEF HandOffRaises, Shape
<1>6. JobOK(j)'
  BY <1>1 DEF HandOffRaises, Shape, JobOK, Submitted, Retired, Worked, Recorded, Fault
<1>7. Owners' = Owners
  BY <1>1 DEF HandOffRaises, Shape, Owners, HoldsSlot, JobOK, Submitted, Retired, Worked, Recorded
<1>8. SlotsExact'
  BY <1>1, <1>7, SlotsKept DEF HandOffRaises
<1> QED
  BY <1>3, <1>4, <1>5, <1>6, <1>8, OneJob

LEMMA RejectKeeps ==
  ASSUME JobInv, NEW j \in Job, Reject(j)
  PROVE  JobInv'
<1> USE DEF Goto, Update, submitVars, retireVars, shutVars, registry, bounds
<1>1. Shape /\ JobOK(j) /\ SlotsExact
  BY DEF JobInv
<1>3. Shape'
  BY <1>1, Capacities DEF Reject, Shape, Fault
<1>4. Others(j)
  BY <1>1 DEF Reject, Shape, Others, Fault
<1>5. ThreadsStart' => ThreadsStart
  BY <1>1 DEF Reject, Shape
<1>6. JobOK(j)'
  BY <1>1 DEF Reject, Shape, JobOK, Submitted, Retired, Worked, Recorded, Fault
<1>7. Owners' = Owners
  BY <1>1 DEF Reject, Shape, Owners, HoldsSlot, JobOK, Submitted, Retired, Worked, Recorded
<1>8. SlotsExact'
  BY <1>1, <1>7, SlotsKept DEF Reject
<1> QED
  BY <1>3, <1>4, <1>5, <1>6, <1>8, OneJob

LEMMA ReleaseSlotKeeps ==
  ASSUME JobInv, NEW j \in Job, ReleaseSlot(j)
  PROVE  JobInv'
<1> USE DEF Goto, submitVars, retireVars, shutVars, registry, bounds
<1>1. Shape /\ JobOK(j) /\ SlotsExact
  BY DEF JobInv
<1>3. Shape'
  BY <1>1, Capacities DEF ReleaseSlot, Shape, Fault
<1>4. Others(j)
  BY <1>1 DEF ReleaseSlot, Shape, Others, Fault
<1>5. ThreadsStart' => ThreadsStart
  BY <1>1 DEF ReleaseSlot, Shape
<1>6. JobOK(j)'
  BY <1>1 DEF ReleaseSlot, Shape, JobOK, Submitted, Retired, Worked, Recorded, Fault
<1>7. j \in Owners /\ Owners' = Owners \ {j}
  BY <1>1 DEF ReleaseSlot, Shape, Owners, HoldsSlot, JobOK, Submitted, Retired, Worked, Recorded
<1>8. SlotsExact'
  BY <1>1, <1>7, SlotsGiven, OwnersAreJobs DEF ReleaseSlot, Shape
<1> QED
  BY <1>3, <1>4, <1>5, <1>6, <1>8, OneJob

LEMMA AddDoneCallbackKeeps ==
  ASSUME JobInv, NEW j \in Job, AddDoneCallback(j)
  PROVE  JobInv'
<1> USE DEF submitVars, retireVars, shutVars, registry, bounds
<1>1. Shape /\ JobOK(j) /\ SlotsExact
  BY DEF JobInv
<1>2. /\ retire' \in [Job -> {"idle", "write", "release", "pop", "retain"}]
      /\ retirer' \in [Job -> {"none", "submitter", "worker", "canceller", "shutdown"}]
      /\ failed' \subseteq failed
      /\ \A i \in Job \ {j} : retire'[i] = retire[i]
      /\ \/ retire'[j] = retire[j]
         \/ j \in futures /\ retire[j] = "idle" /\ retire'[j] = "write"
  <2>1. CASE UNCHANGED retireVars
    BY <1>1, <2>1 DEF Shape
  <2>2. CASE EnterRetire(j, "submitter")
    BY <1>1, <2>2, RetireEntered
  <2> QED
    BY <2>1, <2>2 DEF AddDoneCallback
<1>3. Shape'
  BY <1>1, <1>2, Capacities DEF AddDoneCallback, Shape, Fault
<1>4. Others(j)
  BY <1>1, <1>2 DEF AddDoneCallback, Shape, Others, Fault
<1>5. ThreadsStart' => ThreadsStart
  BY <1>1, <1>2 DEF AddDoneCallback, Shape
<1>6. JobOK(j)'
  BY <1>1, <1>2 DEF AddDoneCallback, Shape, JobOK, Submitted, Retired, Worked, Recorded, Fault
<1>7. Owners' = Owners
  BY <1>1, <1>2 DEF AddDoneCallback, Shape, Owners, HoldsSlot, JobOK, Submitted, Retired, Worked, Recorded
<1>8. SlotsExact'
  BY <1>1, <1>7, SlotsKept DEF AddDoneCallback
<1> QED
  BY <1>3, <1>4, <1>5, <1>6, <1>8, OneJob

LEMMA LeaveKeeps ==
  ASSUME JobInv, NEW j \in Job, Leave(j)
  PROVE  JobInv'
<1> USE DEF Goto, submitVars, retireVars, shutVars, registry, bounds
<1>1. Shape /\ JobOK(j) /\ SlotsExact
  BY DEF JobInv
<1>3. Shape'
  BY <1>1, Capacities DEF Leave, Shape, Fault
<1>4. Others(j)
  BY <1>1 DEF Leave, Shape, Others, Fault
<1>5. ThreadsStart' => ThreadsStart
  BY <1>1 DEF Leave, Shape
<1>6. JobOK(j)'
  BY <1>1 DEF Leave, Shape, JobOK, Submitted, Retired, Worked, Recorded, Fault
<1>7. Owners' = Owners
  BY <1>1 DEF Leave, Shape, Owners, HoldsSlot, JobOK, Submitted, Retired, Worked, Recorded
<1>8. SlotsExact'
  BY <1>1, <1>7, SlotsKept DEF Leave
<1> QED
  BY <1>3, <1>4, <1>5, <1>6, <1>8, OneJob

LEMMA TakeKeeps ==
  ASSUME JobInv, NEW j \in Job, Take(j)
  PROVE  JobInv'
<1> USE DEF WorkAt, submitVars, retireVars, shutVars, registry, bounds
<1>1. Shape /\ JobOK(j) /\ SlotsExact
  BY DEF JobInv
<1>3. Shape'
  BY <1>1, Capacities DEF Take, Shape, Fault
<1>4. Others(j)
  BY <1>1 DEF Take, Shape, Others, Fault
<1>5. ThreadsStart' => ThreadsStart
  BY <1>1 DEF Take, Shape
<1>6. JobOK(j)'
  BY <1>1 DEF Take, Shape, JobOK, Submitted, Retired, Worked, Recorded, Fault
<1>7. Owners' = Owners
  BY <1>1 DEF Take, Shape, Owners, HoldsSlot, JobOK, Submitted, Retired, Worked, Recorded
<1>8. SlotsExact'
  BY <1>1, <1>7, SlotsKept DEF Take
<1> QED
  BY <1>3, <1>4, <1>5, <1>6, <1>8, OneJob

LEMMA MarkRunningKeeps ==
  ASSUME JobInv, NEW j \in Job, MarkRunning(j)
  PROVE  JobInv'
<1> USE DEF WorkAt, Update, submitVars, retireVars, shutVars, registry, bounds
<1>1. Shape /\ JobOK(j) /\ SlotsExact
  BY DEF JobInv
<1>3. Shape'
  BY <1>1, Capacities DEF MarkRunning, Shape, Fault
<1>4. Others(j)
  BY <1>1 DEF MarkRunning, Shape, Others, Fault
<1>5. ThreadsStart' => ThreadsStart
  BY <1>1 DEF MarkRunning, Shape
<1>6. JobOK(j)'
  BY <1>1 DEF MarkRunning, Shape, JobOK, Submitted, Retired, Worked, Recorded, Fault
<1>7. Owners' = Owners
  BY <1>1 DEF MarkRunning, Shape, Owners, HoldsSlot, JobOK, Submitted, Retired, Worked, Recorded
<1>8. SlotsExact'
  BY <1>1, <1>7, SlotsKept DEF MarkRunning
<1> QED
  BY <1>3, <1>4, <1>5, <1>6, <1>8, OneJob

LEMMA OperateKeeps ==
  ASSUME JobInv, NEW j \in Job, Operate(j)
  PROVE  JobInv'
<1> USE DEF WorkAt, submitVars, retireVars, shutVars, registry, bounds
<1>1. Shape /\ JobOK(j) /\ SlotsExact
  BY DEF JobInv
<1>3. Shape'
  BY <1>1, Capacities DEF Operate, Shape, Fault
<1>4. Others(j)
  BY <1>1 DEF Operate, Shape, Others, Fault
<1>5. ThreadsStart' => ThreadsStart
  BY <1>1 DEF Operate, Shape
<1>6. JobOK(j)'
  BY <1>1 DEF Operate, Shape, JobOK, Submitted, Retired, Worked, Recorded, Fault
<1>7. Owners' = Owners
  BY <1>1 DEF Operate, Shape, Owners, HoldsSlot, JobOK, Submitted, Retired, Worked, Recorded
<1>8. SlotsExact'
  BY <1>1, <1>7, SlotsKept DEF Operate
<1> QED
  BY <1>3, <1>4, <1>5, <1>6, <1>8, OneJob

LEMMA EscapeKeeps ==
  ASSUME JobInv, NEW j \in Job, Escape(j)
  PROVE  JobInv'
<1> USE DEF WorkAt, submitVars, retireVars, shutVars, registry, bounds
<1>1. Shape /\ JobOK(j) /\ SlotsExact
  BY DEF JobInv
<1>3. Shape'
  BY <1>1, Capacities DEF Escape, Shape, Fault
<1>4. Others(j)
  BY <1>1 DEF Escape, Shape, Others, Fault
<1>5. ThreadsStart' => ThreadsStart
  BY <1>1 DEF Escape, Shape
<1>6. JobOK(j)'
  BY <1>1 DEF Escape, Shape, JobOK, Submitted, Retired, Worked, Recorded, Fault
<1>7. Owners' = Owners
  BY <1>1 DEF Escape, Shape, Owners, HoldsSlot, JobOK, Submitted, Retired, Worked, Recorded
<1>8. SlotsExact'
  BY <1>1, <1>7, SlotsKept DEF Escape
<1> QED
  BY <1>3, <1>4, <1>5, <1>6, <1>8, OneJob

LEMMA PersistOutcomeKeeps ==
  ASSUME JobInv, NEW j \in Job, PersistOutcome(j)
  PROVE  JobInv'
<1> USE DEF WorkAt, PersistTerminal, PersistTerminalRaises, Storable, Expected, submitVars, retireVars, shutVars, registry, bounds
<1>1. Shape /\ JobOK(j) /\ SlotsExact
  BY DEF JobInv
<1>2. intent[j] \in Outcomes
  BY <1>1 DEF PersistOutcome, Shape, JobOK, Recorded
<1>3. Shape'
  BY <1>1, <1>2, Capacities DEF PersistOutcome, Shape, Fault
<1>4. Others(j)
  BY <1>1, <1>2 DEF PersistOutcome, Shape, Others, Fault
<1>5. ThreadsStart' => ThreadsStart
  BY <1>1, <1>2 DEF PersistOutcome, Shape
<1>6. JobOK(j)'
  BY <1>1, <1>2 DEF PersistOutcome, Shape, JobOK, Submitted, Retired, Worked, Recorded, Fault
<1>7. Owners' = Owners
  BY <1>1, <1>2 DEF PersistOutcome, Shape, Owners, HoldsSlot, JobOK, Submitted, Retired, Worked, Recorded
<1>8. SlotsExact'
  BY <1>1, <1>7, SlotsKept DEF PersistOutcome
<1> QED
  BY <1>3, <1>4, <1>5, <1>6, <1>8, OneJob

LEMMA FinishKeeps ==
  ASSUME JobInv, NEW j \in Job, Finish(j)
  PROVE  JobInv'
<1> USE DEF WorkAt, submitVars, retireVars, shutVars, registry, bounds
<1>1. Shape /\ JobOK(j) /\ SlotsExact
  BY DEF JobInv
<1>2. /\ retire' \in [Job -> {"idle", "write", "release", "pop", "retain"}]
      /\ retirer' \in [Job -> {"none", "submitter", "worker", "canceller", "shutdown"}]
      /\ failed' \subseteq failed
      /\ \A i \in Job \ {j} : retire'[i] = retire[i]
      /\ \/ retire'[j] = retire[j]
         \/ j \in futures /\ retire[j] = "idle" /\ retire'[j] = "write"
  <2>1. CASE UNCHANGED retireVars
    BY <1>1, <2>1 DEF Shape
  <2>2. CASE EnterRetire(j, "worker")
    BY <1>1, <2>2, RetireEntered
  <2> QED
    BY <2>1, <2>2 DEF Finish
<1>3. Shape'
  BY <1>1, <1>2, Capacities DEF Finish, Shape, Fault
<1>4. Others(j)
  BY <1>1, <1>2 DEF Finish, Shape, Others, Fault
<1>5. ThreadsStart' => ThreadsStart
  BY <1>1, <1>2 DEF Finish, Shape
<1>6. JobOK(j)'
  BY <1>1, <1>2 DEF Finish, Shape, JobOK, Submitted, Retired, Worked, Recorded, Fault
<1>7. Owners' = Owners
  BY <1>1, <1>2 DEF Finish, Shape, Owners, HoldsSlot, JobOK, Submitted, Retired, Worked, Recorded
<1>8. SlotsExact'
  BY <1>1, <1>7, SlotsKept DEF Finish
<1> QED
  BY <1>3, <1>4, <1>5, <1>6, <1>8, OneJob

LEMMA WorkerIdlesKeeps ==
  ASSUME JobInv, NEW j \in Job, WorkerIdles(j)
  PROVE  JobInv'
<1> USE DEF WorkAt, submitVars, retireVars, shutVars, registry, bounds
<1>1. Shape /\ JobOK(j) /\ SlotsExact
  BY DEF JobInv
<1>3. Shape'
  BY <1>1, Capacities DEF WorkerIdles, Shape, Fault
<1>4. Others(j)
  BY <1>1 DEF WorkerIdles, Shape, Others, Fault
<1>5. ThreadsStart' => ThreadsStart
  BY <1>1 DEF WorkerIdles, Shape
<1>6. JobOK(j)'
  BY <1>1 DEF WorkerIdles, Shape, JobOK, Submitted, Retired, Worked, Recorded, Fault
<1>7. Owners' = Owners
  BY <1>1 DEF WorkerIdles, Shape, Owners, HoldsSlot, JobOK, Submitted, Retired, Worked, Recorded
<1>8. SlotsExact'
  BY <1>1, <1>7, SlotsKept DEF WorkerIdles
<1> QED
  BY <1>3, <1>4, <1>5, <1>6, <1>8, OneJob

LEMMA RetireWriteKeeps ==
  ASSUME JobInv, NEW j \in Job, RetireWrite(j)
  PROVE  JobInv'
<1> USE DEF RetireAt, PersistTerminal, PersistTerminalRaises, Storable, Expected, submitVars, retireVars, shutVars, registry, bounds
<1>1. Shape /\ JobOK(j) /\ SlotsExact
  BY DEF JobInv
<1>3. Shape'
  BY <1>1, Capacities DEF RetireWrite, Shape, Fault
<1>4. Others(j)
  BY <1>1 DEF RetireWrite, Shape, Others, Fault
<1>5. ThreadsStart' => ThreadsStart
  BY <1>1 DEF RetireWrite, Shape
<1>6. JobOK(j)'
  BY <1>1 DEF RetireWrite, Shape, JobOK, Submitted, Retired, Worked, Recorded, Fault
<1>7. Owners' = Owners
  BY <1>1 DEF RetireWrite, Shape, Owners, HoldsSlot, JobOK, Submitted, Retired, Worked, Recorded
<1>8. SlotsExact'
  BY <1>1, <1>7, SlotsKept DEF RetireWrite
<1> QED
  BY <1>3, <1>4, <1>5, <1>6, <1>8, OneJob

LEMMA RetireReleaseKeeps ==
  ASSUME JobInv, NEW j \in Job, RetireRelease(j)
  PROVE  JobInv'
<1> USE DEF RetireAt, submitVars, retireVars, shutVars, registry, bounds
<1>1. Shape /\ JobOK(j) /\ SlotsExact
  BY DEF JobInv
<1>3. Shape'
  BY <1>1, Capacities DEF RetireRelease, Shape, Fault
<1>4. Others(j)
  BY <1>1 DEF RetireRelease, Shape, Others, Fault
<1>5. ThreadsStart' => ThreadsStart
  BY <1>1 DEF RetireRelease, Shape
<1>6. JobOK(j)'
  BY <1>1 DEF RetireRelease, Shape, JobOK, Submitted, Retired, Worked, Recorded, Fault
<1>7. j \in Owners /\ Owners' = Owners \ {j}
  BY <1>1 DEF RetireRelease, Shape, Owners, HoldsSlot, JobOK, Submitted, Retired, Worked, Recorded
<1>8. SlotsExact'
  BY <1>1, <1>7, SlotsGiven, OwnersAreJobs DEF RetireRelease, Shape
<1> QED
  BY <1>3, <1>4, <1>5, <1>6, <1>8, OneJob

LEMMA RetirePopKeeps ==
  ASSUME JobInv, NEW j \in Job, RetirePop(j)
  PROVE  JobInv'
<1> USE DEF RetireEnds, submitVars, retireVars, shutVars, registry, bounds
<1>1. Shape /\ JobOK(j) /\ SlotsExact
  BY DEF JobInv
<1>3. Shape'
  BY <1>1, Capacities DEF RetirePop, Shape, Fault
<1>4. Others(j)
  BY <1>1 DEF RetirePop, Shape, Others, Fault
<1>5. ThreadsStart' => ThreadsStart
  BY <1>1 DEF RetirePop, Shape
<1>6. JobOK(j)'
  BY <1>1 DEF RetirePop, Shape, JobOK, Submitted, Retired, Worked, Recorded, Fault
<1>7. Owners' = Owners
  BY <1>1 DEF RetirePop, Shape, Owners, HoldsSlot, JobOK, Submitted, Retired, Worked, Recorded
<1>8. SlotsExact'
  BY <1>1, <1>7, SlotsKept DEF RetirePop
<1> QED
  BY <1>3, <1>4, <1>5, <1>6, <1>8, OneJob

LEMMA RetireRetainKeeps ==
  ASSUME JobInv, NEW j \in Job, RetireRetain(j)
  PROVE  JobInv'
<1> USE DEF RetireEnds, submitVars, retireVars, shutVars, registry, bounds
<1>1. Shape /\ JobOK(j) /\ SlotsExact
  BY DEF JobInv
<1>3. Shape'
  BY <1>1, Capacities DEF RetireRetain, Shape, Fault
<1>4. Others(j)
  BY <1>1 DEF RetireRetain, Shape, Others, Fault
<1>5. ThreadsStart' => ThreadsStart
  BY <1>1 DEF RetireRetain, Shape
<1>6. JobOK(j)'
  BY <1>1 DEF RetireRetain, Shape, JobOK, Submitted, Retired, Worked, Recorded, Fault
<1>7. Owners' = Owners
  BY <1>1 DEF RetireRetain, Shape, Owners, HoldsSlot, JobOK, Submitted, Retired, Worked, Recorded
<1>8. SlotsExact'
  BY <1>1, <1>7, SlotsKept DEF RetireRetain
<1> QED
  BY <1>3, <1>4, <1>5, <1>6, <1>8, OneJob

LEMMA CancelRequestKeeps ==
  ASSUME JobInv, NEW j \in Job, CancelRequest(j)
  PROVE  JobInv'
<1> USE DEF submitVars, retireVars, shutVars, registry, bounds
<1>1. Shape /\ JobOK(j) /\ SlotsExact
  BY DEF JobInv
<1>3. Shape'
  BY <1>1, Capacities DEF CancelRequest, Shape, Fault
<1>4. Others(j)
  BY <1>1 DEF CancelRequest, Shape, Others, Fault
<1>5. ThreadsStart' => ThreadsStart
  BY <1>1 DEF CancelRequest, Shape
<1>6. JobOK(j)'
  BY <1>1 DEF CancelRequest, Shape, JobOK, Submitted, Retired, Worked, Recorded, Fault
<1>7. Owners' = Owners
  BY <1>1 DEF CancelRequest, Shape, Owners, HoldsSlot, JobOK, Submitted, Retired, Worked, Recorded
<1>8. SlotsExact'
  BY <1>1, <1>7, SlotsKept DEF CancelRequest
<1> QED
  BY <1>3, <1>4, <1>5, <1>6, <1>8, OneJob

LEMMA CancelJobKeeps ==
  ASSUME JobInv, NEW j \in Job, CancelJob(j)
  PROVE  JobInv'
<1> USE DEF CancelFuture, submitVars, retireVars, shutVars, registry, bounds
<1>1. Shape /\ JobOK(j) /\ SlotsExact
  BY DEF JobInv
<1>2. /\ retire' \in [Job -> {"idle", "write", "release", "pop", "retain"}]
      /\ retirer' \in [Job -> {"none", "submitter", "worker", "canceller", "shutdown"}]
      /\ failed' \subseteq failed
      /\ \A i \in Job \ {j} : retire'[i] = retire[i]
      /\ \/ retire'[j] = retire[j]
         \/ j \in futures /\ retire[j] = "idle" /\ retire'[j] = "write"
  <2>1. CASE UNCHANGED retireVars
    BY <1>1, <2>1 DEF Shape
  <2>2. CASE EnterRetire(j, "canceller")
    BY <1>1, <2>2, RetireEntered
  <2> QED
    BY <2>1, <2>2 DEF CancelJob
<1>3. Shape'
  BY <1>1, <1>2, Capacities DEF CancelJob, Shape, Fault
<1>4. Others(j)
  BY <1>1, <1>2 DEF CancelJob, Shape, Others, Fault
<1>5. ThreadsStart' => ThreadsStart
  BY <1>1, <1>2 DEF CancelJob, Shape
<1>6. JobOK(j)'
  BY <1>1, <1>2 DEF CancelJob, Shape, JobOK, Submitted, Retired, Worked, Recorded, Fault
<1>7. Owners' = Owners
  BY <1>1, <1>2 DEF CancelJob, Shape, Owners, HoldsSlot, JobOK, Submitted, Retired, Worked, Recorded
<1>8. SlotsExact'
  BY <1>1, <1>7, SlotsKept DEF CancelJob
<1> QED
  BY <1>3, <1>4, <1>5, <1>6, <1>8, OneJob

LEMMA RetryRetirementKeeps ==
  ASSUME JobInv, NEW j \in Job, RetryRetirement(j)
  PROVE  JobInv'
<1> USE DEF submitVars, retireVars, shutVars, registry, bounds
<1>1. Shape /\ JobOK(j) /\ SlotsExact
  BY DEF JobInv
<1>2. /\ retire' \in [Job -> {"idle", "write", "release", "pop", "retain"}]
      /\ retirer' \in [Job -> {"none", "submitter", "worker", "canceller", "shutdown"}]
      /\ failed' \subseteq failed
      /\ \A i \in Job \ {j} : retire'[i] = retire[i]
      /\ \/ retire'[j] = retire[j]
         \/ j \in futures /\ retire[j] = "idle" /\ retire'[j] = "write"
  <2>1. CASE UNCHANGED retireVars
    BY <1>1, <2>1 DEF Shape
  <2>2. CASE EnterRetire(j, "shutdown")
    BY <1>1, <2>2, RetireEntered
  <2> QED
    BY <2>1, <2>2 DEF RetryRetirement
<1>3. Shape'
  BY <1>1, <1>2, Capacities DEF RetryRetirement, Shape, Fault
<1>4. Others(j)
  BY <1>1, <1>2 DEF RetryRetirement, Shape, Others, Fault
<1>5. ThreadsStart' => ThreadsStart
  BY <1>1, <1>2 DEF RetryRetirement, Shape
<1>6. JobOK(j)'
  BY <1>1, <1>2 DEF RetryRetirement, Shape, JobOK, Submitted, Retired, Worked, Recorded, Fault
<1>7. Owners' = Owners
  BY <1>1, <1>2 DEF RetryRetirement, Shape, Owners, HoldsSlot, JobOK, Submitted, Retired, Worked, Recorded
<1>8. SlotsExact'
  BY <1>1, <1>7, SlotsKept DEF RetryRetirement
<1> QED
  BY <1>3, <1>4, <1>5, <1>6, <1>8, OneJob

LEMMA CancelOwnedKeeps ==
  ASSUME JobInv, NEW j \in Job, CancelOwned(j)
  PROVE  JobInv'
<1> USE DEF CancelFuture, submitVars, retireVars, shutVars, registry, bounds
<1>1. Shape /\ JobOK(j) /\ SlotsExact
  BY DEF JobInv
<1>2. /\ retire' \in [Job -> {"idle", "write", "release", "pop", "retain"}]
      /\ retirer' \in [Job -> {"none", "submitter", "worker", "canceller", "shutdown"}]
      /\ failed' \subseteq failed
      /\ \A i \in Job \ {j} : retire'[i] = retire[i]
      /\ \/ retire'[j] = retire[j]
         \/ j \in futures /\ retire[j] = "idle" /\ retire'[j] = "write"
  <2>1. CASE UNCHANGED retireVars
    BY <1>1, <2>1 DEF Shape
  <2>2. CASE EnterRetire(j, "shutdown")
    BY <1>1, <2>2, RetireEntered
  <2> QED
    BY <2>1, <2>2 DEF CancelOwned
<1>3. Shape'
  BY <1>1, <1>2, Capacities DEF CancelOwned, Shape, Fault
<1>4. Others(j)
  BY <1>1, <1>2 DEF CancelOwned, Shape, Others, Fault
<1>5. ThreadsStart' => ThreadsStart
  BY <1>1, <1>2 DEF CancelOwned, Shape
<1>6. JobOK(j)'
  BY <1>1, <1>2 DEF CancelOwned, Shape, JobOK, Submitted, Retired, Worked, Recorded, Fault
<1>7. Owners' = Owners
  BY <1>1, <1>2 DEF CancelOwned, Shape, Owners, HoldsSlot, JobOK, Submitted, Retired, Worked, Recorded
<1>8. SlotsExact'
  BY <1>1, <1>7, SlotsKept DEF CancelOwned
<1> QED
  BY <1>3, <1>4, <1>5, <1>6, <1>8, OneJob

-----------------------------------------------------------------------------
(* The steps of the shutdown and of the process.                            *)

(* A step that touches no job, no owner and no slot.                         *)
LEMMA NoJob ==
  ASSUME JobInv, Shape', ThreadsStart' => ThreadsStart, failed' \cup toRetry' \subseteq failed \cup toRetry,
         UNCHANGED <<row, submitVars, work, future, retire, registry, slots, outcome>>
  PROVE  JobInv'
<1>1. \A i \in Job : JobOK(i)'
  <2> TAKE i \in Job
  <2> QED
    BY JobUntouched DEF JobInv, submitVars, registry
<1>2. Owners' = Owners
  BY DEF Owners, HoldsSlot, submitVars, registry
<1>3. SlotsExact'
  BY <1>2, SlotsKept DEF JobInv
<1> QED
  BY <1>1, <1>3 DEF JobInv

LEMMA ShutdownKeeps ==
  ASSUME JobInv, BeginShutdown \/ SignalShutdown \/ RetriesDone \/ EndShutdown
  PROVE  JobInv'
<1> USE DEF submitVars, retireVars, shutVars, registry, bounds
<1>1. Shape'
  <2>1. CASE BeginShutdown
    BY <2>1 DEF JobInv, Shape, BeginShutdown
  <2>2. CASE SignalShutdown
    <3>1. faults' \in 0 .. MaxFaults
      BY <2>2, Capacities DEF JobInv, Shape, SignalShutdown, Fault
    <3>2. event' \subseteq Job /\ shut' \in {"idle", "retry"}
      BY <2>2 DEF JobInv, Shape, SignalShutdown
    <3>3. shutFailed' \in BOOLEAN /\ shutStarted' \in BOOLEAN
      BY <2>2 DEF JobInv, Shape, SignalShutdown
    <3> QED
      BY <2>2, <3>1, <3>2, <3>3 DEF JobInv, Shape, SignalShutdown
  <2>3. CASE RetriesDone
    BY <2>3 DEF JobInv, Shape, RetriesDone
  <2>4. CASE EndShutdown
    <3>1. shutFailed' \in BOOLEAN /\ shutStarted' \in BOOLEAN
      BY <2>4 DEF EndShutdown
    <3> QED
      BY <2>4, <3>1 DEF JobInv, Shape, EndShutdown
  <2> QED
    BY <2>1, <2>2, <2>3, <2>4
<1>2. ThreadsStart' => ThreadsStart
  BY DEF BeginShutdown, SignalShutdown, RetriesDone, EndShutdown
<1>3. failed' \cup toRetry' \subseteq failed \cup toRetry
  BY DEF BeginShutdown, SignalShutdown, RetriesDone, EndShutdown
<1>4. UNCHANGED <<row, submitVars, work, future, retire, registry, slots, outcome>>
  BY DEF BeginShutdown, SignalShutdown, RetriesDone, EndShutdown
<1> QED
  BY <1>1, <1>2, <1>3, <1>4, NoJob

(* A crash forgets everything but the rows, which recovery ends.            *)
LEMMA RestartKeeps ==
  ASSUME JobInv, Restart
  PROVE  JobInv'
<1> USE DEF submitVars, retireVars, shutVars, registry, bounds
<1>1. Shape'
  <2>1. row' \in [Job -> RowStates]
    BY DEF JobInv, Shape, Restart, RecoverRows
  <2>2. submit' \in [Job -> {"new", "done"} \cup Submitting]
    BY DEF JobInv, Shape, Restart
  <2>3. crashes' \in 0 .. MaxCrashes
    BY Capacities DEF JobInv, Shape, Restart
  <2> QED
    BY <2>1, <2>2, <2>3, Capacities DEF JobInv, Shape, Restart
<1>2. \A i \in Job : JobOK(i)'
  BY DEF JobInv, Shape, Restart, RecoverRows, JobOK, Submitted, Retired, Worked, Recorded
<1>3. SlotsExact'
  <2>1. (HoldsSlot \cup {j \in futures : retire[j] # "pop"})' = {}
    BY DEF Restart, HoldsSlot, JobInv, Shape
  <2> QED
    BY <2>1, Capacities, FS_EmptySet DEF Restart, SlotsExact
<1> QED
  BY <1>1, <1>2, <1>3 DEF JobInv

LEMMA JobStep == JobInv /\ [Next]_vars => JobInv'
<1> SUFFICES ASSUME JobInv, [Next]_vars PROVE JobInv'
  OBVIOUS
<1>1. CASE UNCHANGED vars
  BY <1>1 DEF JobInv, Shape, JobOK, Submitted, Retired, Worked, Recorded, SlotsExact, HoldsSlot,
              vars, submitVars, retireVars, shutVars, registry, bounds
<1>2. ASSUME NEW j \in Job, Submit(j) \/ SubmitStep(j) PROVE JobInv'
  BY <1>2, SubmitKeeps, AdmitKeeps, AcquireSlotKeeps, CreateRowKeeps, HandOffKeeps, HandOffRaisesKeeps,
     RejectKeeps, ReleaseSlotKeeps, AddDoneCallbackKeeps, LeaveKeeps DEF SubmitStep
<1>3. ASSUME NEW j \in Job, WorkStep(j) PROVE JobInv'
  BY <1>3, TakeKeeps, MarkRunningKeeps, OperateKeeps, EscapeKeeps, PersistOutcomeKeeps, FinishKeeps,
     WorkerIdlesKeeps DEF WorkStep
<1>4. ASSUME NEW j \in Job, RetireStep(j) PROVE JobInv'
  BY <1>4, RetireWriteKeeps, RetireReleaseKeeps, RetirePopKeeps, RetireRetainKeeps DEF RetireStep
<1>5. ASSUME NEW j \in Job, CancelRequest(j) \/ CancelJob(j) \/ RetryRetirement(j) \/ CancelOwned(j)
      PROVE  JobInv'
  BY <1>5, CancelRequestKeeps, CancelJobKeeps, RetryRetirementKeeps, CancelOwnedKeeps
<1>6. CASE Restart
  BY <1>6, RestartKeeps
<1>7. CASE BeginShutdown \/ SignalShutdown \/ RetriesDone \/ EndShutdown
  BY <1>7, ShutdownKeeps
<1> QED
  BY <1>1, <1>2, <1>3, <1>4, <1>5, <1>6, <1>7 DEF Next, ShutdownStep

(* The inductive invariant: where a job is with its submission, its work     *)
(* item, its retirement and its outcome, and who owns its slot.              *)
THEOREM JobInvariant == Spec => []JobInv
<1>1. Init => JobInv
  BY InitJobs
<1>2. JobInv /\ [Next]_vars => JobInv'
  BY JobStep
<1> QED
  BY <1>1, <1>2, PTL DEF Spec

-----------------------------------------------------------------------------
(* What the system promises.                                                *)

(* Every variable has its type; of the semaphore this needs the owners: a    *)
(* release too many would lift it over its capacity.                         *)
THEOREM JobTypes == Spec => []TypeOK
<1>1. JobInv => TypeOK
  <2> SUFFICES ASSUME JobInv PROVE TypeOK
    OBVIOUS
  <2>1. Cardinality(Owners) \in Nat
    BY OwnersAreJobs, JobSets DEF JobInv
  <2>2. slots + Cardinality(Owners) = Capacity
    BY DEF JobInv, SlotsExact, Owners
  <2>3. slots \in 0 .. Capacity
    BY <2>1, <2>2, Capacities DEF JobInv, Shape
  <2> QED
    BY <2>3 DEF JobInv, Shape, TypeOK
<1> QED
  BY <1>1, JobInvariant, PTL

(* Every slot of the semaphore has one owner (_slots, submit and _retire).   *)
THEOREM JobSlotsExact == Spec => []SlotsExact
<1>1. JobInv => SlotsExact
  BY DEF JobInv
<1> QED
  BY <1>1, JobInvariant, PTL

(* A job the executor was given leaves the registry with a terminal row.     *)
THEOREM JobOwnedUntilDurable == Spec => []OwnedUntilDurable
<1>1. JobInv => OwnedUntilDurable
  BY DEF JobInv, Shape, JobOK, Retired, OwnedUntilDurable
<1> QED
  BY <1>1, JobInvariant, PTL

(* A storage failure never turns a successful operation into a failed row,   *)
(* nor a failed one into a successful row.                                   *)
THEOREM JobSuccessKept == Spec => []SuccessNotRewritten
<1>1. JobInv => SuccessNotRewritten
  BY DEF JobInv, Shape, JobOK, Recorded, SuccessNotRewritten
<1> QED
  BY <1>1, JobInvariant, PTL

(* An operation runs only while its row says "running".                      *)
THEOREM JobRunsOnlyRunning == Spec => []RunsOnlyRunning
<1>1. JobInv => RunsOnlyRunning
  BY DEF JobInv, Shape, JobOK, Worked, RunsOnlyRunning
<1> QED
  BY <1>1, JobInvariant, PTL

(* What a step may do to a row, and when.                                    *)
LEMMA RowWrites ==
  ASSUME JobInv, [Next]_vars
  PROVE  /\ \A i \in Job : row[i] \in TerminalRow => row'[i] = row[i]
         /\ Drained /\ ThreadsStart /\ crashes' = crashes => row' = row
<1> USE DEF submitVars, retireVars, shutVars, registry, bounds
<1>0. Shape /\ \A i \in Job : JobOK(i)
  BY DEF JobInv
<1>a. Capacity \in Nat /\ MaxCrashes \in Nat
  BY Capacities
<1>1. CASE row' = row
  BY <1>1
<1>2. ASSUME NEW j \in Job, CreateRow(j) PROVE /\ \A i \in Job : row[i] \in TerminalRow => row'[i] = row[i]
                                               /\ ~Drained
  BY <1>0, <1>2 DEF Shape, JobOK, Submitted, CreateRow, Goto, Fault, Drained, Pending
<1>3. ASSUME NEW j \in Job, Reject(j) PROVE /\ \A i \in Job : row[i] \in TerminalRow => row'[i] = row[i]
                                            /\ ~Drained
  BY <1>0, <1>3 DEF Shape, Reject, Goto, Update, Fault, Drained, Pending
<1>4. ASSUME NEW j \in Job, MarkRunning(j) PROVE /\ \A i \in Job : row[i] \in TerminalRow => row'[i] = row[i]
                                                 /\ ~(Drained /\ ThreadsStart)
  BY <1>0, <1>4 DEF Shape, JobOK, Worked, MarkRunning, WorkAt, Update, Fault, Drained
<1>5. ASSUME NEW j \in Job, PersistOutcome(j)
      PROVE  /\ \A i \in Job : row[i] \in TerminalRow => row'[i] = row[i]
             /\ ~(Drained /\ ThreadsStart)
  <2>1. intent[j] \in Outcomes
    BY <1>0, <1>5 DEF PersistOutcome, Shape, JobOK, Recorded
  <2> QED
    BY <1>0, <1>5, <2>1 DEF Shape, JobOK, Worked, PersistOutcome, PersistTerminal, PersistTerminalRaises,
                            Storable, Expected, WorkAt, Fault, Drained
<1>6. ASSUME NEW j \in Job, RetireWrite(j)
      PROVE  /\ \A i \in Job : row[i] \in TerminalRow => row'[i] = row[i]
             /\ ~Drained
  BY <1>0, <1>6 DEF Shape, JobOK, Retired, RetireWrite, PersistTerminal, PersistTerminalRaises,
                    Storable, Expected, RetireAt, Fault, Drained
<1>7. CASE Restart
  BY <1>0, <1>a, <1>7 DEF Shape, Restart, RecoverRows
<1>8. \/ row' = row
      \/ Restart
      \/ \E j \in Job : CreateRow(j) \/ Reject(j) \/ MarkRunning(j) \/ PersistOutcome(j) \/ RetireWrite(j)
  BY DEF Next, vars, SubmitStep, WorkStep, RetireStep, ShutdownStep, Submit, Admit, AcquireSlot, HandOff,
         HandOffRaises, ReleaseSlot, AddDoneCallback, Leave, Take, Operate, Escape, Finish, WorkerIdles,
         RetireRelease, RetirePop, RetireRetain, CancelRequest, CancelJob, BeginShutdown, SignalShutdown,
         RetriesDone, EndShutdown, RetryRetirement, CancelOwned
<1> QED
  BY <1>1, <1>2, <1>3, <1>4, <1>5, <1>6, <1>7, <1>8

(* A row that ended keeps its state, over late writers and restarts.         *)
THEOREM JobRowIsFinal == Spec => TerminalRowIsFinal
<1>1. JobInv /\ [Next]_vars => [\A j \in Job : row[j] \in TerminalRow => row'[j] = row[j]]_vars
  BY RowWrites
<1> QED
  BY <1>1, JobInvariant, PTL DEF Spec, TerminalRowIsFinal

(* After drain returned True following begin_shutdown, the rows are quiet.   *)
THEOREM JobDrainedIsQuiet == Spec => DrainedIsQuiet
<1>1. JobInv /\ [Next]_vars => [Drained /\ ThreadsStart /\ crashes' = crashes => row' = row]_vars
  BY RowWrites
<1> QED
  BY <1>1, JobInvariant, PTL DEF Spec, DrainedIsQuiet

==============================================================================
