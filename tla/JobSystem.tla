------------------------------ MODULE JobSystem ------------------------------
(***************************************************************************)
(* The platform job system: JobSystem over the platform_jobs table.         *)
(*                                                                         *)
(* Its threads are the callers of submit and cancel, the executor's         *)
(* workers, and the thread a shutdown starts.  They meet in the registries  *)
(* under _lock, in the rows of the table, and in the future of each job,    *)
(* whose done callback (_retire) runs in whichever thread finishes or       *)
(* cancels it.  One action is one critical section of _lock, one            *)
(* transaction, or one transition of a future; any storage call may raise,  *)
(* before or after its commit.                                              *)
(*                                                                         *)
(* Not told apart: timed_out from failed (one branch of _run, other text),  *)
(* progress and messages, the order of the executor's queue.                *)
(***************************************************************************)
EXTENDS Integers, FiniteSets

CONSTANTS
    Job,                \* submit calls that may be made; each creates its own job id
    Oversized,          \* jobs whose result exceeds the 1 MiB a row may hold
    MaxWorkers,         \* max_workers
    QueueCapacity,      \* queue_capacity
    MaxFaults,          \* bound: failures of the storage and of the thread start
    MaxThreadFailures,  \* bound: executor.submit calls that cannot start a thread
    MaxCancels,         \* bound: cancel calls
    MaxCrashes          \* bound: crashes of the process

ASSUME JobAssumption == IsFiniteSet(Job) /\ Oversized \subseteq Job

ASSUME CapacityAssumption ==
    /\ MaxWorkers \in Nat \ {0}
    /\ QueueCapacity \in Nat \ {0}
    /\ MaxFaults \in Nat
    /\ MaxThreadFailures \in Nat
    /\ MaxCancels \in Nat
    /\ MaxCrashes \in Nat

Capacity == MaxWorkers + QueueCapacity

VARIABLES
    row,            \* platform_jobs.state, "absent" without a row
    submit,         \* where the caller of submit is
    work,           \* where the executor is with the job's work item
    future,         \* the state of its future
    hooked,         \* the jobs whose future was given its done callback
    retire,         \* where _retire is with the job; _retiring are those not idle
    retirer,        \* the thread that runs it
    cancelling,     \* the cancel calls between event.set() and future.cancel()
    accepting,      \* _accepting
    slots,          \* the value of the _slots semaphore
    futures,        \* _futures, and with it _cancellation
    event,          \* the cancellation events that are set
    intent,         \* _terminal_updates, by the state to be written
    persisted,      \* _terminal_persisted
    failed,         \* _failed_retirements
    shut,           \* where the shutdown thread is; _shutdown_cancelling when not idle
    shutStarted,    \* _shutdown_started
    shutFailed,     \* _shutdown_failed
    toRetry,        \* retry_retirements still to be run by the shutdown thread
    toCancel,       \* futures still to be cancelled by it
    faults, threadFailures, cancels, crashes,    \* bound counters
    outcome         \* history: how the operation of the job ended

submitVars == <<submit, hooked>>
retireVars == <<retire, retirer, failed>>
shutVars == <<shut, shutStarted, shutFailed, toRetry, toCancel>>
registry == <<futures, intent, persisted>>
bounds == <<faults, threadFailures, cancels, crashes>>
vars == <<row, submitVars, work, future, retireVars, cancelling, accepting, slots, event,
          registry, shutVars, bounds, outcome>>

-----------------------------------------------------------------------------
Outcomes == {"succeeded", "failed", "cancelled"}
TerminalRow == Outcomes \cup {"interrupted"}
RowStates == {"absent", "queued", "running"} \cup TerminalRow

(* A submit call that _pending_submissions counts.                          *)
Submitting == {"admit", "acquire", "create", "handoff", "reject_stopping", "reject_failed",
               "release", "hook", "leave"}
Pending == {j \in Job : submit[j] \in Submitting}

(* A slot is taken between acquire and the hand-over, where the future      *)
(* becomes its owner, or the release after a failed hand-over.              *)
HoldsSlot == {j \in Job : submit[j] \in {"create", "handoff", "reject_stopping", "reject_failed",
   "release"}}

Busy == {j \in Job : work[j] \notin {"none", "queued"}}

(* The submissions whose ThreadPoolExecutor.submit returned.                *)
Accepted == {j \in Job : submit[j] = "hook"} \cup hooked

TypeOK ==
    /\ row \in [Job -> RowStates]
    /\ submit \in [Job -> {"new", "done"} \cup Submitting]
    /\ work \in [Job -> {"none", "queued", "start", "operate", "persist", "end", "callback"}]
    /\ future \in [Job -> {"none", "pending", "running", "cancelled", "finished"}]
    /\ hooked \subseteq Job
    /\ retire \in [Job -> {"idle", "write", "release", "pop", "retain"}]
    /\ retirer \in [Job -> {"none", "submitter", "worker", "canceller", "shutdown"}]
    /\ cancelling \subseteq Job
    /\ accepting \in BOOLEAN
    /\ slots \in 0 .. Capacity
    /\ futures \subseteq Job
    /\ event \subseteq Job
    /\ intent \in [Job -> Outcomes \cup {"none"}]
    /\ persisted \subseteq Job
    /\ failed \subseteq Job
    /\ shut \in {"idle", "signal", "retry", "cancel", "broken"}
    /\ shutStarted \in BOOLEAN
    /\ shutFailed \in BOOLEAN
    /\ toRetry \subseteq Job
    /\ toCancel \subseteq Job
    /\ faults \in 0 .. MaxFaults
    /\ threadFailures \in 0 .. MaxThreadFailures
    /\ cancels \in 0 .. MaxCancels
    /\ crashes \in 0 .. MaxCrashes
    /\ outcome \in [Job -> Outcomes \cup {"none"}]

Init ==
    /\ row = [j \in Job |-> "absent"]
    /\ submit = [j \in Job |-> "new"]
    /\ work = [j \in Job |-> "none"]
    /\ future = [j \in Job |-> "none"]
    /\ hooked = {}
    /\ retire = [j \in Job |-> "idle"]
    /\ retirer = [j \in Job |-> "none"]
    /\ cancelling = {}
    /\ accepting = TRUE
    /\ slots = Capacity
    /\ futures = {}
    /\ event = {}
    /\ intent = [j \in Job |-> "none"]
    /\ persisted = {}
    /\ failed = {}
    /\ shut = "idle"
    /\ shutStarted = FALSE
    /\ shutFailed = FALSE
    /\ toRetry = {}
    /\ toCancel = {}
    /\ faults = 0
    /\ threadFailures = 0
    /\ cancels = 0
    /\ crashes = 0
    /\ outcome = [j \in Job |-> "none"]

-----------------------------------------------------------------------------
(* What the threads share.                                                  *)

Fault == faults < MaxFaults /\ faults' = faults + 1

(* update_platform_job with expected_states: a row in another state stays.  *)
Update(j, state, expected) ==
    row' = IF row[j] \in expected THEN [row EXCEPT ![j] = state] ELSE row

Expected(o) == IF o = "succeeded" THEN {"running", "succeeded"} ELSE {"queued", "running", o}

(* _persist_terminal returns, or raises: the result is too large to store,  *)
(* the update is rejected, or the storage fails.  What it writes may be     *)
(* there already, from a write that raised after its commit.                *)
Storable(j, o) == row[j] \in Expected(o) /\ ~(o = "succeeded" /\ j \in Oversized)

PersistTerminal(j, o) ==
    /\ Storable(j, o)
    /\ row' = [row EXCEPT ![j] = o]
    /\ persisted' = persisted \cup {j}
    /\ UNCHANGED faults

PersistTerminalRaises(j, o) ==
    /\ IF Storable(j, o) THEN Fault /\ row' \in {row, [row EXCEPT ![j] = o]}
       ELSE UNCHANGED <<faults, row>>
    /\ UNCHANGED persisted

(* The first critical section of _retire, entered by the thread who.        *)
EnterRetire(j, who) ==
    IF j \in futures /\ retire[j] = "idle"
    THEN /\ retire' = [retire EXCEPT ![j] = "write"]
         /\ retirer' = [retirer EXCEPT ![j] = who]
         /\ failed' = failed \ {j}
    ELSE UNCHANGED retireVars

(* future.cancel(): a future that runs or is done is left alone; one that   *)
(* is cancelled calls its callback in the cancelling thread.                *)
CancelFuture(j, who) ==
    IF future[j] = "pending"
    THEN /\ future' = [future EXCEPT ![j] = "cancelled"]
         /\ IF j \in hooked THEN EnterRetire(j, who) ELSE UNCHANGED retireVars
    ELSE UNCHANGED <<future, retireVars>>

-----------------------------------------------------------------------------
(* submit.                                                                  *)

Goto(j, label) == submit' = [submit EXCEPT ![j] = label] /\ UNCHANGED hooked

Submit(j) ==
    /\ submit[j] = "new"
    /\ Goto(j, IF accepting THEN "admit" ELSE "done")
    /\ UNCHANGED <<row, work, future, retireVars, cancelling, accepting, slots, event,
                   registry, shutVars, bounds, outcome>>

(* Validation, authorization and survivability admission.                   *)
Admit(j) ==
    /\ submit[j] = "admit"
    /\ \E label \in {"acquire", "leave"} : Goto(j, label)
    /\ UNCHANGED <<row, work, future, retireVars, cancelling, accepting, slots, event,
                   registry, shutVars, bounds, outcome>>

(* Intake is asked again, under the lock that also takes the slot.          *)
AcquireSlot(j) ==
    /\ submit[j] = "acquire"
    /\ IF accepting /\ slots > 0
       THEN Goto(j, "create") /\ slots' = slots - 1
       ELSE Goto(j, "leave") /\ UNCHANGED slots
    /\ UNCHANGED <<row, work, future, retireVars, cancelling, accepting, event,
                   registry, shutVars, bounds, outcome>>

CreateRow(j) ==
    /\ submit[j] = "create"
    /\ \/ Goto(j, "handoff") /\ row' = [row EXCEPT ![j] = "queued"] /\ UNCHANGED faults
       \/ Goto(j, "release") /\ Fault /\ row' \in {row, [row EXCEPT ![j] = "queued"]}
    /\ UNCHANGED <<work, future, retireVars, cancelling, accepting, slots, event,
                   registry, shutVars, threadFailures, cancels, crashes, outcome>>

(* Mutant: the item is given to the executor before intake is asked.        *)
HandOffThenCheck(j) ==
    /\ submit[j] = "handoff"
    /\ future' = [future EXCEPT ![j] = "pending"]
    /\ work' = [work EXCEPT ![j] = "queued"]
    /\ IF accepting
       THEN Goto(j, "hook") /\ futures' = futures \cup {j}
       ELSE Goto(j, "reject_stopping") /\ UNCHANGED futures
    /\ UNCHANGED <<row, retireVars, cancelling, accepting, slots, event, intent, persisted,
                   shutVars, bounds, outcome>>

(* The hand-over to the executor and the registries, in one critical        *)
(* section.                                                                 *)
HandOff(j) ==
    /\ submit[j] = "handoff"
    /\ IF accepting
       THEN /\ Goto(j, "hook")
            /\ future' = [future EXCEPT ![j] = "pending"]
            /\ work' = [work EXCEPT ![j] = "queued"]
            /\ futures' = futures \cup {j}
       ELSE /\ Goto(j, "reject_stopping")
            /\ UNCHANGED <<future, work, futures>>
    /\ UNCHANGED <<row, retireVars, cancelling, accepting, slots, event, intent, persisted,
                   shutVars, bounds, outcome>>

(* ThreadPoolExecutor.submit raises: before it queues the work item, or      *)
(* after, because the thread it then starts cannot be started.  It starts    *)
(* one only while fewer than MaxWorkers threads have work; the item waits    *)
(* for one of those, or for the thread that a later submission starts.      *)
HandOffRaises(j) ==
    /\ submit[j] = "handoff"
    /\ accepting
    /\ threadFailures < MaxThreadFailures
    /\ threadFailures' = threadFailures + 1
    /\ Goto(j, "reject_failed")
    /\ \/ /\ Cardinality(Busy) < MaxWorkers
          /\ future' = [future EXCEPT ![j] = "pending"]
          /\ work' = [work EXCEPT ![j] = "queued"]
       \/ UNCHANGED <<future, work>>
    /\ UNCHANGED <<row, retireVars, cancelling, accepting, slots, event, registry,
                   shutVars, faults, cancels, crashes, outcome>>

(* _persist_rejected_submission; its own failure is logged.                 *)
Reject(j) ==
    /\ submit[j] \in {"reject_stopping", "reject_failed"}
    /\ Goto(j, "release")
    /\ \/ /\ Update(j, IF submit[j] = "reject_stopping" THEN "cancelled" ELSE "failed", {"queued"})
          /\ UNCHANGED faults
       \/ Fault /\ UNCHANGED row
    /\ UNCHANGED <<work, future, retireVars, cancelling, accepting, slots, event,
                   registry, shutVars, threadFailures, cancels, crashes, outcome>>

ReleaseSlot(j) ==
    /\ submit[j] = "release"
    /\ Goto(j, "leave")
    /\ slots' = slots + 1
    /\ UNCHANGED <<row, work, future, retireVars, cancelling, accepting, event,
                   registry, shutVars, bounds, outcome>>

(* Mutant: the callback of a future that is already done is not run.        *)
AddDoneCallbackPendingOnly(j) ==
    /\ submit[j] = "hook"
    /\ submit' = [submit EXCEPT ![j] = "leave"]
    /\ hooked' = hooked \cup {j}
    /\ UNCHANGED <<row, work, future, retireVars, cancelling, accepting, slots, event,
                   registry, shutVars, bounds, outcome>>

(* add_done_callback, outside the lock: a future that is already done calls *)
(* it here.                                                                 *)
AddDoneCallback(j) ==
    /\ submit[j] = "hook"
    /\ submit' = [submit EXCEPT ![j] = "leave"]
    /\ hooked' = hooked \cup {j}
    /\ IF future[j] \in {"cancelled", "finished"} THEN EnterRetire(j, "submitter")
       ELSE UNCHANGED retireVars
    /\ UNCHANGED <<row, work, future, cancelling, accepting, slots, event,
                   registry, shutVars, bounds, outcome>>

(* Mutant: the slot is released on every way out.                           *)
LeaveReleasing(j) ==
    /\ submit[j] = "leave"
    /\ retirer[j] # "submitter"
    /\ Goto(j, "done")
    /\ slots' = slots + 1
    /\ UNCHANGED <<row, work, future, retireVars, cancelling, accepting, event,
                   registry, shutVars, bounds, outcome>>

(* The row is read for the caller, and the submission stops being pending.  *)
Leave(j) ==
    /\ submit[j] = "leave"
    /\ retirer[j] # "submitter"
    /\ Goto(j, "done")
    /\ UNCHANGED <<row, work, future, retireVars, cancelling, accepting, slots, event,
                   registry, shutVars, bounds, outcome>>

-----------------------------------------------------------------------------
(* The executor.                                                            *)

WorkAt(j, label) == work' = [work EXCEPT ![j] = label]

(* Each submit that returned started a thread, or found one idle.            *)
FreeThread == Cardinality(Busy) < MaxWorkers /\ Cardinality(Busy) < Cardinality(Accepted)

(* A worker takes the item; a cancelled one is dropped.                     *)
Take(j) ==
    /\ work[j] = "queued"
    /\ FreeThread
    /\ IF future[j] = "pending"
       THEN WorkAt(j, "start") /\ future' = [future EXCEPT ![j] = "running"]
       ELSE WorkAt(j, "none") /\ UNCHANGED future
    /\ UNCHANGED <<row, submitVars, retireVars, cancelling, accepting, slots, event,
                   registry, shutVars, bounds, outcome>>

(* The write of "running"; its result is not looked at, and a failure ends  *)
(* _run before its try block.                                               *)
MarkRunning(j) ==
    /\ work[j] = "start"
    /\ \/ WorkAt(j, "operate") /\ Update(j, "running", {"queued"}) /\ UNCHANGED faults
       \/ WorkAt(j, "end") /\ Fault /\ (Update(j, "running", {"queued"}) \/ UNCHANGED row)
    /\ UNCHANGED <<submitVars, future, retireVars, cancelling, accepting, slots, event,
                   registry, shutVars, threadFailures, cancels, crashes, outcome>>

(* The operation between its two checks, the audit of how it ended, and the *)
(* intent _write_terminal records.  With a set event it never is            *)
(* "succeeded"; an operation may raise JobCancelled without one.            *)
Operate(j) ==
    /\ work[j] = "operate"
    /\ \E o \in Outcomes :
        /\ o = "succeeded" => j \notin event
        /\ outcome' = [outcome EXCEPT ![j] = o]
        /\ intent' = [intent EXCEPT ![j] = o]
    /\ WorkAt(j, "persist")
    /\ UNCHANGED <<row, submitVars, future, retireVars, cancelling, accepting, slots, event,
                   futures, persisted, shutVars, bounds>>

(* An operation that leaves with SystemExit or KeyboardInterrupt, which     *)
(* none of _run's handlers takes: no outcome is recorded.                   *)
Escape(j) ==
    /\ work[j] = "operate"
    /\ outcome' = [outcome EXCEPT ![j] = "failed"]
    /\ WorkAt(j, "end")
    /\ UNCHANGED <<row, submitVars, future, retireVars, cancelling, accepting, slots, event,
                   registry, shutVars, bounds>>

PersistOutcome(j) ==
    /\ work[j] = "persist"
    /\ PersistTerminal(j, intent[j]) \/ PersistTerminalRaises(j, intent[j])
    /\ WorkAt(j, "end")
    /\ UNCHANGED <<submitVars, future, retireVars, cancelling, accepting, slots, event,
                   futures, intent, shutVars, threadFailures, cancels, crashes, outcome>>

(* The future takes the result or the exception and calls its callback.     *)
Finish(j) ==
    /\ work[j] = "end"
    /\ future' = [future EXCEPT ![j] = "finished"]
    /\ IF j \in hooked THEN EnterRetire(j, "worker") ELSE UNCHANGED retireVars
    /\ WorkAt(j, "callback")
    /\ UNCHANGED <<row, submitVars, cancelling, accepting, slots, event,
                   registry, shutVars, bounds, outcome>>

WorkerIdles(j) ==
    /\ work[j] = "callback"
    /\ retirer[j] # "worker"
    /\ WorkAt(j, "none")
    /\ UNCHANGED <<row, submitVars, future, retireVars, cancelling, accepting, slots, event,
                   registry, shutVars, bounds, outcome>>

-----------------------------------------------------------------------------
(* _retire, in the thread retirer[j].                                       *)

RetireAt(j, label) == retire' = [retire EXCEPT ![j] = label] /\ UNCHANGED <<retirer, failed>>

RetireEnds(j) ==
    /\ retire' = [retire EXCEPT ![j] = "idle"]
    /\ retirer' = [retirer EXCEPT ![j] = "none"]

(* Mutant: the outcome is taken from the future alone.                      *)
RetireWriteFromFuture(j) ==
    /\ retire[j] = "write"
    /\ LET o == IF future[j] = "cancelled" THEN "cancelled" ELSE "failed"
       IN  /\ intent' = [intent EXCEPT ![j] = o]
           /\ \/ PersistTerminal(j, o) /\ RetireAt(j, "release")
              \/ PersistTerminalRaises(j, o) /\ RetireAt(j, "retain")
    /\ UNCHANGED <<submitVars, work, future, cancelling, accepting, slots, event,
                   futures, shutVars, threadFailures, cancels, crashes, outcome>>

(* The terminal write, if there is one left to do: of the recorded intent,  *)
(* or, without one, of what the future says.                                *)
RetireWrite(j) ==
    /\ retire[j] = "write"
    /\ LET o == IF intent[j] # "none" THEN intent[j]
                ELSE IF future[j] = "cancelled" THEN "cancelled" ELSE "failed"
       IN  IF j \in persisted
           THEN RetireAt(j, "release") /\ UNCHANGED <<row, intent, persisted, faults>>
           ELSE /\ intent' = [intent EXCEPT ![j] = o]
                /\ \/ PersistTerminal(j, o) /\ RetireAt(j, "release")
                   \/ PersistTerminalRaises(j, o) /\ RetireAt(j, "retain")
    /\ UNCHANGED <<submitVars, work, future, cancelling, accepting, slots, event,
                   futures, shutVars, threadFailures, cancels, crashes, outcome>>

RetireRelease(j) ==
    /\ retire[j] = "release"
    /\ slots' = slots + 1
    /\ RetireAt(j, "pop")
    /\ UNCHANGED <<row, submitVars, work, future, cancelling, accepting, event,
                   registry, shutVars, bounds, outcome>>

RetirePop(j) ==
    /\ retire[j] = "pop"
    /\ futures' = futures \ {j}
    /\ intent' = [intent EXCEPT ![j] = "none"]
    /\ persisted' = persisted \ {j}
    /\ RetireEnds(j)
    /\ UNCHANGED <<row, submitVars, work, future, failed, cancelling, accepting, slots, event,
                   shutVars, bounds, outcome>>

(* Mutant: a job whose retirement failed is dropped all the same.           *)
RetireRetainDropped(j) ==
    /\ retire[j] = "retain"
    /\ futures' = futures \ {j}
    /\ slots' = slots + 1
    /\ RetireEnds(j)
    /\ UNCHANGED <<row, submitVars, work, future, failed, cancelling, accepting, event, intent,
                   persisted, shutVars, bounds, outcome>>

(* Mutant: a failed retirement gives the slot back too.                     *)
RetireRetainReleasing(j) ==
    /\ retire[j] = "retain"
    /\ slots' = slots + 1
    /\ failed' = failed \cup {j}
    /\ shutStarted' = FALSE
    /\ shutFailed' = TRUE
    /\ shut' = IF shut = "retry" /\ retirer[j] = "shutdown" THEN "broken" ELSE shut
    /\ RetireEnds(j)
    /\ UNCHANGED <<row, submitVars, work, future, cancelling, accepting, event,
                   registry, toRetry, toCancel, bounds, outcome>>

(* A failed retirement keeps its owner for a later shutdown to retry.  The  *)
(* exception ends the shutdown thread's retries; future.cancel() logs it.   *)
RetireRetain(j) ==
    /\ retire[j] = "retain"
    /\ failed' = failed \cup {j}
    /\ shutStarted' = FALSE
    /\ shutFailed' = TRUE
    /\ shut' = IF shut = "retry" /\ retirer[j] = "shutdown" THEN "broken" ELSE shut
    /\ RetireEnds(j)
    /\ UNCHANGED <<row, submitVars, work, future, cancelling, accepting, slots, event,
                   registry, toRetry, toCancel, bounds, outcome>>

-----------------------------------------------------------------------------
(* cancel.                                                                  *)

CancelRequest(j) ==
    /\ j \in futures \ cancelling
    /\ cancels < MaxCancels
    /\ cancels' = cancels + 1
    /\ event' = event \cup {j}
    /\ cancelling' = cancelling \cup {j}
    /\ UNCHANGED <<row, submitVars, work, future, retireVars, accepting, slots,
                   registry, shutVars, faults, threadFailures, crashes, outcome>>

CancelJob(j) ==
    /\ j \in cancelling
    /\ cancelling' = cancelling \ {j}
    /\ CancelFuture(j, "canceller")
    /\ UNCHANGED <<row, submitVars, work, accepting, slots, event,
                   registry, shutVars, bounds, outcome>>

-----------------------------------------------------------------------------
(* Shutdown.                                                                *)

ShutdownRuns == shut # "idle"

(* begin_shutdown under the lock.  A call while a shutdown runs, or after   *)
(* one that left nothing to retry, only keeps the intake closed.            *)
BeginShutdown ==
    /\ accepting' = FALSE
    /\ IF ShutdownRuns \/ (shutStarted /\ failed = {})
       THEN UNCHANGED shutVars
       ELSE /\ shut' = "signal"
            /\ shutStarted' = TRUE
            /\ shutFailed' = FALSE
            /\ toRetry' = failed
            /\ toCancel' = futures
    /\ UNCHANGED <<row, submitVars, work, future, retireVars, cancelling, slots, event,
                   registry, bounds, outcome>>

(* The events are set and cancel_owned starts, in a thread of its own if    *)
(* there is anything to cancel; that thread may not start.                  *)
SignalShutdown ==
    /\ shut = "signal"
    /\ event' = event \cup toCancel
    /\ \/ /\ shut' = "retry"
          /\ UNCHANGED <<shutStarted, shutFailed, faults>>
       \/ /\ toCancel # {} /\ Fault
          /\ shut' = "idle"
          /\ shutStarted' = FALSE
          /\ shutFailed' = TRUE
    /\ UNCHANGED <<row, submitVars, work, future, retireVars, cancelling, accepting, slots,
                   registry, toRetry, toCancel, threadFailures, cancels, crashes, outcome>>

(* The thread runs one _retire or one future.cancel() at a time.            *)
ShutdownFree == \A j \in Job : retirer[j] # "shutdown"

RetryRetirement(j) ==
    /\ shut = "retry" /\ ShutdownFree
    /\ j \in toRetry
    /\ toRetry' = toRetry \ {j}
    /\ EnterRetire(j, "shutdown")
    /\ UNCHANGED <<row, submitVars, work, future, cancelling, accepting, slots, event, registry,
                   shut, shutStarted, shutFailed, toCancel, bounds, outcome>>

RetriesDone ==
    /\ shut = "retry" /\ ShutdownFree
    /\ toRetry = {}
    /\ shut' = "cancel"
    /\ UNCHANGED <<row, submitVars, work, future, retireVars, cancelling, accepting, slots, event,
                   registry, shutStarted, shutFailed, toRetry, toCancel, bounds, outcome>>

CancelOwned(j) ==
    /\ shut = "cancel" /\ ShutdownFree
    /\ j \in toCancel
    /\ toCancel' = toCancel \ {j}
    /\ CancelFuture(j, "shutdown")
    /\ UNCHANGED <<row, submitVars, work, cancelling, accepting, slots, event, registry,
                   shut, shutStarted, shutFailed, toRetry, bounds, outcome>>

(* The executor is shut down and the outcome recorded.  It drops its queue,  *)
(* where an item whose submit raised may be the only one left: that it does  *)
(* not run any more is not modelled.                                        *)
EndShutdown ==
    /\ \/ shut = "cancel" /\ ShutdownFree /\ toCancel = {}
       \/ shut = "broken"
    /\ shut' = "idle"
    /\ toRetry' = {}
    /\ toCancel' = {}
    /\ shutFailed' = (shut = "broken" \/ failed # {})
    /\ shutStarted' = ~shutFailed'
    /\ UNCHANGED <<row, submitVars, work, future, retireVars, cancelling, accepting, slots, event,
                   registry, bounds, outcome>>

(* Mutant: submissions that are still under way are not waited for.         *)
DrainedWithoutSubmissions == ~accepting /\ futures = {} /\ ~ShutdownRuns /\ ~shutFailed

(* After begin_shutdown, drain(include_submissions=True) returns True.      *)
Drained == ~accepting /\ futures = {} /\ ~ShutdownRuns /\ Pending = {} /\ ~shutFailed

-----------------------------------------------------------------------------
(* The process.                                                             *)

(* Mutant: recovery does not look at the state.                             *)
RecoverEveryRow == [j \in Job |-> IF row[j] # "absent" THEN "interrupted" ELSE row[j]]

(* recover_platform_jobs, run by the constructor.                           *)
RecoverRows == [j \in Job |-> IF row[j] \in {"queued", "running"} THEN "interrupted" ELSE row[j]]

(* The process dies and a new one constructs its JobSystem.  Calls that     *)
(* were under way are gone.                                                 *)
Restart ==
    /\ crashes < MaxCrashes
    /\ crashes' = crashes + 1
    /\ row' = RecoverRows
    /\ submit' = [j \in Job |-> IF submit[j] = "new" THEN "new" ELSE "done"]
    /\ work' = [j \in Job |-> "none"]
    /\ future' = [j \in Job |-> "none"]
    /\ retire' = [j \in Job |-> "idle"]
    /\ retirer' = [j \in Job |-> "none"]
    /\ accepting' = TRUE
    /\ slots' = Capacity
    /\ intent' = [j \in Job |-> "none"]
    /\ hooked' = {} /\ cancelling' = {} /\ futures' = {} /\ event' = {}
    /\ persisted' = {} /\ failed' = {} /\ toRetry' = {} /\ toCancel' = {}
    /\ shut' = "idle" /\ shutStarted' = FALSE /\ shutFailed' = FALSE
    /\ UNCHANGED <<faults, threadFailures, cancels, outcome>>

-----------------------------------------------------------------------------
SubmitStep(j) ==
    \/ Admit(j) \/ AcquireSlot(j) \/ CreateRow(j) \/ HandOff(j) \/ HandOffRaises(j)
    \/ Reject(j) \/ ReleaseSlot(j) \/ AddDoneCallback(j) \/ Leave(j)

WorkStep(j) ==
    \/ Take(j) \/ MarkRunning(j) \/ Operate(j) \/ Escape(j)
    \/ PersistOutcome(j) \/ Finish(j) \/ WorkerIdles(j)

RetireStep(j) == RetireWrite(j) \/ RetireRelease(j) \/ RetirePop(j) \/ RetireRetain(j)

ShutdownStep ==
    \/ SignalShutdown \/ RetriesDone \/ EndShutdown
    \/ \E j \in Job : RetryRetirement(j) \/ CancelOwned(j)

Next ==
    \/ \E j \in Job :
        Submit(j) \/ SubmitStep(j) \/ WorkStep(j) \/ RetireStep(j) \/ CancelRequest(j) \/ CancelJob(j)
    \/ BeginShutdown
    \/ ShutdownStep
    \/ Restart

Spec == Init /\ [][Next]_vars

(* A failed shutdown is tried again, as ApplicationContext.shutdown is.     *)
RetryShutdown == ~accepting /\ BeginShutdown

(* Every thread goes on, and every operation returns: it is told to by its  *)
(* event and its deadline, and the executor has no other way to end it.     *)
FairSpec ==
    /\ Spec
    /\ \A j \in Job : /\ WF_vars(SubmitStep(j)) /\ WF_vars(WorkStep(j))
                      /\ WF_vars(RetireStep(j)) /\ WF_vars(CancelJob(j))
    /\ WF_vars(ShutdownStep)
    /\ WF_vars(RetryShutdown)

-----------------------------------------------------------------------------
(* Properties.                                                              *)

(* Where an item whose hand-over raised runs all the same (see              *)
(* RejectedNeverRuns), its row promises nothing: three properties are of    *)
(* executors that could start their threads.                                *)
ThreadsStart == threadFailures = 0

(* Every slot of the semaphore has exactly one owner - a submission on its  *)
(* way to the hand-over, or a registered future until its retirement gives  *)
(* the slot back - whoever retires it and however often that is tried.      *)
SlotsExact ==
    slots + Cardinality(HoldsSlot \cup {j \in futures : retire[j] # "pop"}) = Capacity

(* "persist succeeded|failed|cancelled|timed_out -> release slot": a job    *)
(* the executor was given leaves the registry only with a terminal row.     *)
OwnedUntilDurable == \A j \in hooked \ futures : row[j] \in TerminalRow

(* "Storage failure must not rewrite a successful operation as failed", and *)
(* a row says "succeeded" only of an operation that did.                    *)
SuccessNotRewritten ==
    \A j \in Job :
        /\ outcome[j] = "succeeded" /\ ThreadsStart => row[j] \notin {"failed", "cancelled"}
        /\ row[j] = "succeeded" => outcome[j] = "succeeded"

(* A job runs only while its row says so.  _run ignores the answer to its   *)
(* "running" update, so this rests on the whole protocol: nothing ends a    *)
(* row whose work item the executor may still take, unless it refused the   *)
(* item with an exception and kept it.                                      *)
RunsOnlyRunning == \A j \in Job : work[j] = "operate" /\ ThreadsStart => row[j] = "running"

(* A row that ended keeps its state, over late writers and restarts.        *)
TerminalRowIsFinal == [][\A j \in Job : row[j] \in TerminalRow => row'[j] = row[j]]_vars

(* Once drain(include_submissions=True) has returned True after             *)
(* begin_shutdown, no thread of the job system changes the state of a row   *)
(* any more: what closes the store may run.  (A cancel call under way may   *)
(* still write its message, which this model leaves out.)                   *)
DrainedIsQuiet == [][Drained /\ ThreadsStart /\ crashes' = crashes => row' = row]_vars

(* Shutdown completes when it is retried, once the storage works again.     *)
ShutdownDrains == ~accepting ~> Drained

(* Every slot comes back once the shutdown is under way ("a later shutdown  *)
(* can retry failed retirement").                                           *)
SlotsComeBack == ~accepting ~> slots = Capacity

(* "Rejected before execution": a job whose row was ended by the rejection  *)
(* of its submission does not run.                                          *)
RejectedNeverRuns ==
    \A j \in Job : submit[j] = "release" /\ row[j] = "failed" => work[j] # "operate"
=============================================================================
