---------------------------- MODULE RunOrchestrator ----------------------------
(***************************************************************************)
(* RunOrchestrator and its execution mixin: runs that are submitted,        *)
(* executed on one pool with their requests on another, paused, resumed and *)
(* cancelled through their handles, retired by a done callback, and drained *)
(* by a shutdown that closes the fetcher last.                              *)
(*                                                                         *)
(* What interleaves: for every run the thread that submits it, the one that *)
(* executes it and the one that pauses or cancels it, for every request its *)
(* thread, the thread cancel_owned of a shutdown, and the caller that waits *)
(* for the drain.  A step is a critical section of _lock, of a state_lock,  *)
(* one call of the store, or one step of a thread nobody else can see.      *)
(*                                                                         *)
(* A run's thread loops: a checkpoint, which a pause holds up; the requests *)
(* that finished; a checkpoint; one attempt to admit each waiting request.  *)
(***************************************************************************)
EXTENDS Integers, FiniteSets, SequencesExt

CONSTANTS
    Runs,            \* submit calls; each creates its own run
    Request,         \* the requests of all runs
    Host,
    RunOf, HostOf,   \* of each request
    RunWorkers,      \* threads of executor
    Ceiling,         \* worker_ceiling of the resource decision each submit takes
    GateLimit,       \* limit of the request gate, at most; request_executor has as many threads
    HostLimit,       \* limit of requests to one host, at most
    Controlled,      \* bound: the runs somebody pauses, resumes or cancels
    MaxControls,     \* bound: how often
    MaxDelays,       \* bound: times a host's rate does not let a request start
    MaxFaults,       \* bound: failures of the storage, of cancel_owned's thread, of the fetcher's close
    MaxThreadFailures   \* bound: times a submit of one of the two pools raises

ASSUME RequestAssumption ==
    /\ IsFiniteSet(Request)
    /\ RunOf \in [Request -> Runs] /\ HostOf \in [Request -> Host]

ASSUME BoundAssumption ==
    /\ Controlled \subseteq Runs
    /\ Ceiling \in [Runs -> Nat \ {0}]
    /\ \A n \in {RunWorkers, GateLimit, HostLimit} : n \in Nat \ {0}
    /\ \A n \in {MaxControls, MaxDelays, MaxFaults, MaxThreadFailures} : n \in Nat

VARIABLES
    row,            \* runs.status, "none" without a row
    status,         \* run.status in memory
    sub,            \* where the caller of submit is
    work,           \* where the executor is with the run; what its future is
    snap,           \* the status save_run is about to write, "none" outside of it
    refused,        \* the hosts that took no request in this pass
    handles,        \* _handles
    retirer,        \* the thread that runs _on_run_done, for those in _retiring_runs
    failed,         \* _failed_run_retirements
    cancelled,      \* tokens whose cancel event is set
    paused,         \* tokens that are paused: a cancel opens the resume gate
    control,        \* where a pause or resume call is with the run
    req,            \* where each request is
    waiters,        \* _waiters of the request gate
    active,         \* _active of the request gate
    users,          \* users of each host gate
    closed,         \* _closed
    shut,           \* where the shutdown is; _shutdown_cancelling when not idle
    started,        \* _shutdown_started
    shutFailed,     \* _shutdown_failed
    toRetry, toCancel,   \* handles the thread cancel_owned still goes through
    fetcher,        \* "open", "closing" or "closed"
    said,           \* the status save_run is about to write of a rejected run, "none" outside of it
    stray,          \* where an item of request_executor is whose submit raised
    threadFailures, \* bound counter
    controls, delays, faults    \* bound counters

runVars == <<status, work, snap, refused>>
retireVars == <<handles, retirer, failed, started, shutFailed>>
tokenVars == <<cancelled, paused>>
gateVars == <<req, waiters, active, users>>
shutVars == <<closed, shut, toRetry, toCancel, fetcher>>
strayVars == <<said, stray, threadFailures>>
vars == <<row, sub, runVars, retireVars, tokenVars, control, gateVars, shutVars, strayVars,
          controls, delays, faults>>

-----------------------------------------------------------------------------
Terminal == {"completed", "failed", "cancelled"}
Control == {"running", "paused"}
Status == {"queued"} \cup Control \cup Terminal

(* A submission that is refused after its row was created, or whose submit  *)
(* raised, ends in one of these.                                            *)
Rejection == {"reject", "rejected", "tell", "back", "refused"}

Pending == {r \in Runs : sub[r] \notin {"new", "done", "refused"}}

(* A run is handed over once its item is in the queue of the executor; it    *)
(* is an orphan when the submit that put it there raised, so that it has no  *)
(* handle, and accepted otherwise.                                          *)
Orphan(r) == work[r] # "none" /\ sub[r] \in Rejection
Accepted(r) == work[r] # "none" /\ sub[r] \notin Rejection

Executing ==
    {r \in Runs : work[r] \in {"first", "check", "collect", "save", "scan", "fill", "commit", "final"}}
Hooked(r) == work[r] # "none" /\ sub[r] \in {"leave", "done"}
Done(r) == work[r] \in {"finished", "cancelled"}

RequestsOf(r, state) == {q \in Request : RunOf[q] = r /\ req[q] = state}
InFlight(r) == {q \in Request : RunOf[q] = r /\ req[q] \in {"queued", "fetch", "parse", "done"}}
RequestFutures == {q \in Request : req[q] \in {"queued", "fetch", "parse"}}

TypeOK ==
    /\ row \in [Runs -> Status \cup {"none"}]
    /\ status \in [Runs -> Status]
    /\ sub \in [Runs -> {"new", "save", "handoff", "hook", "leave", "done"} \cup Rejection]
    /\ work \in [Runs -> {"none", "queued", "first", "check", "collect", "save", "scan", "fill",
       "commit",
                          "final", "finished", "cancelled"}]
    /\ snap \in [Runs -> Control \cup Terminal \cup {"none"}]
    /\ refused \in [Runs -> SUBSET Host]
    /\ handles \subseteq Runs
    /\ retirer \in [Runs -> {"none", "submitter", "worker", "user", "shutdown"}]
    /\ failed \subseteq handles
    /\ cancelled \subseteq Runs /\ paused \subseteq Runs \ cancelled
    /\ control \in [Runs -> {"idle", "pausing", "unpause", "resuming", "unresume"}]
    /\ req \in [Request -> {"pending", "queued", "fetch", "parse", "done", "gone"}]
    /\ waiters \in Seq(Runs) /\ IsInjective(waiters)
    /\ active \in 0 .. GateLimit
    /\ users \in [Host -> 0 .. HostLimit]
    /\ closed \in BOOLEAN
    /\ shut \in {"idle", "signal", "cancel"}
    /\ started \in BOOLEAN /\ shutFailed \in BOOLEAN
    /\ toRetry \subseteq Runs /\ toCancel \subseteq Runs
    /\ fetcher \in {"open", "closing", "closed"}
    /\ said \in [Runs -> Status \cup {"none"}]
    /\ stray \in [Request -> {"none", "queued", "fetch"}]
    /\ threadFailures \in 0 .. MaxThreadFailures
    /\ controls \in 0 .. MaxControls
    /\ delays \in 0 .. MaxDelays
    /\ faults \in 0 .. MaxFaults

Init ==
    /\ row = [r \in Runs |-> "none"]
    /\ status = [r \in Runs |-> "queued"]
    /\ sub = [r \in Runs |-> "new"]
    /\ work = [r \in Runs |-> "none"]
    /\ snap = [r \in Runs |-> "none"]
    /\ refused = [r \in Runs |-> {}]
    /\ handles = {} /\ failed = {}
    /\ retirer = [r \in Runs |-> "none"]
    /\ cancelled = {} /\ paused = {}
    /\ control = [r \in Runs |-> "idle"]
    /\ req = [q \in Request |-> "pending"]
    /\ waiters = <<>>
    /\ active = 0
    /\ users = [h \in Host |-> 0]
    /\ closed = FALSE
    /\ shut = "idle"
    /\ started = FALSE /\ shutFailed = FALSE
    /\ toRetry = {} /\ toCancel = {}
    /\ fetcher = "open"
    /\ said = [r \in Runs |-> "none"]
    /\ stray = [q \in Request |-> "none"]
    /\ threadFailures = 0
    /\ controls = 0 /\ delays = 0 /\ faults = 0

(* The limits adapt to the load, the machine and the user: between any two  *)
(* reads of a limit another thread may have set another one.                *)
GateLimitRead == 1 .. GateLimit
HostLimitRead == 1 .. HostLimit

-----------------------------------------------------------------------------
(* What the threads share.                                                  *)

Fault == faults < MaxFaults /\ faults' = faults + 1

(* ThreadPoolExecutor.submit raises: RuntimeError, because it cannot start a *)
(* thread, when the item is already in its queue, or before that.           *)
ThreadFails == threadFailures < MaxThreadFailures /\ threadFailures' = threadFailures + 1

(* Mutant: save_run writes the status of its snapshot.                      *)
SavedSnapshot(old, new) == new

(* The status column after save_run: a snapshot never reverses a pause or a *)
(* resume, nor resurrects a run that ended.                                 *)
Saved(old, new) ==
    IF \/ old \in Control /\ new \in Control
       \/ old \in Terminal /\ new \notin Terminal
    THEN old ELSE new

(* save_run returns, or raises before or after its commit.                  *)
SaveRun(r, s) == row' = [row EXCEPT ![r] = Saved(@, s)] /\ UNCHANGED faults
SaveRaises(r, s) ==
    /\ Fault
    /\ \/ UNCHANGED row
       \/ row' = [row EXCEPT ![r] = Saved(@, s)]

(* The first critical section of _on_run_done.                              *)
EnterRetire(r, who) ==
    IF r \in handles /\ retirer[r] = "none"
    THEN retirer' = [retirer EXCEPT ![r] = who] /\ failed' = failed \ {r}
    ELSE UNCHANGED <<retirer, failed>>

(* The done callbacks of the futures of a set of requests: the gate is      *)
(* released, the host lease unless the fetch released it, and the future is *)
(* forgotten.                                                               *)
ReleaseHosts(Q) == users' = [h \in Host |-> users[h] - Cardinality({q \in Q : HostOf[q] = h})]

Release(Q, Leased) ==
    /\ active' = active - Cardinality(Q)
    /\ ReleaseHosts(Leased)

(* A run that ended left its requests alone: nobody looks at them.          *)
Abandoned(q) == work[RunOf[q]] \in {"final", "finished"}

EndRequests(Q, Leased) ==
    /\ req' = [q \in Request |-> IF q \notin Q THEN req[q]
                                 ELSE IF Abandoned(q) THEN "gone" ELSE "done"]
    /\ Release(Q, Leased)

CancelTokens(R) == cancelled' = cancelled \cup R /\ paused' = paused \ R

(* handle.cancel(): the token first, then the future, which a worker may    *)
(* have taken.                                                              *)
CancelHandle(r, who) ==
    IF Done(r) \/ status[r] \in Terminal
    THEN UNCHANGED <<tokenVars, work, retirer, failed>>
    ELSE /\ CancelTokens({r})
         /\ IF work[r] = "queued"
            THEN /\ work' = [work EXCEPT ![r] = "cancelled"]
                 /\ IF Hooked(r) THEN EnterRetire(r, who) ELSE UNCHANGED <<retirer, failed>>
            ELSE UNCHANGED <<work, retirer, failed>>

-----------------------------------------------------------------------------
(* submit.                                                                  *)

Submit(r) ==
    /\ sub[r] = "new"
    /\ ~closed
    /\ Cardinality(handles) < Ceiling[r]
    /\ sub' = [sub EXCEPT ![r] = "save"]
    /\ UNCHANGED <<row, runVars, retireVars, tokenVars, control, gateVars, shutVars,
                   controls, delays, faults, strayVars>>

(* The row is created outside the lock.                                     *)
CreateRow(r) ==
    /\ sub[r] = "save"
    /\ \/ SaveRun(r, "queued") /\ sub' = [sub EXCEPT ![r] = "handoff"]
       \/ SaveRaises(r, "queued") /\ sub' = [sub EXCEPT ![r] = "leave"]
    /\ UNCHANGED <<runVars, retireVars, tokenVars, control, gateVars, shutVars,
                   controls, delays, strayVars>>

HandOff(r) ==
    /\ sub[r] = "handoff"
    /\ IF closed \/ Cardinality(handles) >= Ceiling[r]
       THEN /\ sub' = [sub EXCEPT ![r] = "reject"]
            /\ UNCHANGED <<work, handles>>
       ELSE /\ sub' = [sub EXCEPT ![r] = "hook"]
            /\ work' = [work EXCEPT ![r] = "queued"]
            /\ handles' = handles \cup {r}
    /\ UNCHANGED <<row, status, snap, refused, retirer, failed, started, shutFailed,
                   tokenVars, control, gateVars, shutVars, controls, delays, faults, strayVars>>

(* The submit raises: there is no handle, and where the item was queued a    *)
(* thread of the pool executes the run all the same.                        *)
HandOffRaises(r) ==
    /\ sub[r] = "handoff"
    /\ ~closed /\ Cardinality(handles) < Ceiling[r]
    /\ ThreadFails
    /\ sub' = [sub EXCEPT ![r] = "reject"]
    /\ \/ work' = [work EXCEPT ![r] = "queued"]
       \/ UNCHANGED work
    /\ UNCHANGED <<row, status, snap, refused, retireVars, tokenVars, control, gateVars, shutVars,
                   said, stray, controls, delays, faults>>

(* A refused run is failed, without its lock and whatever it is doing.       *)
Reject(r) ==
    /\ sub[r] = "reject"
    /\ sub' = [sub EXCEPT ![r] = "rejected"]
    /\ status' = [status EXCEPT ![r] = "failed"]
    /\ UNCHANGED <<row, work, snap, refused, retireVars, tokenVars, control, gateVars, shutVars,
                   strayVars, controls, delays, faults>>

(* The write of its row: the snapshot, and the store, whose failure is       *)
(* logged.                                                                  *)
SnapshotRejected(r) ==
    /\ sub[r] = "rejected"
    /\ sub' = [sub EXCEPT ![r] = "tell"]
    /\ said' = [said EXCEPT ![r] = status[r]]
    /\ UNCHANGED <<row, runVars, retireVars, tokenVars, control, gateVars, shutVars,
                   stray, threadFailures, controls, delays, faults>>

SaveRejected(r) ==
    /\ sub[r] = "tell"
    /\ sub' = [sub EXCEPT ![r] = "back"]
    /\ SaveRun(r, said[r]) \/ SaveRaises(r, said[r])
    /\ said' = [said EXCEPT ![r] = "none"]
    /\ UNCHANGED <<runVars, retireVars, tokenVars, control, gateVars, shutVars,
                   stray, threadFailures, controls, delays>>

(* Mutant: the callback of a future that is already done is not run.        *)
HookPendingOnly(r) ==
    /\ sub[r] = "hook"
    /\ sub' = [sub EXCEPT ![r] = "leave"]
    /\ UNCHANGED <<row, runVars, retireVars, tokenVars, control, gateVars, shutVars,
                   controls, delays, faults, strayVars>>

(* add_done_callback, outside the lock: a future that is already done calls *)
(* it here.                                                                 *)
Hook(r) ==
    /\ sub[r] = "hook"
    /\ sub' = [sub EXCEPT ![r] = "leave"]
    /\ IF Done(r) THEN EnterRetire(r, "submitter") ELSE UNCHANGED <<retirer, failed>>
    /\ UNCHANGED <<row, runVars, handles, started, shutFailed, tokenVars, control, gateVars,
                   shutVars, controls, delays, faults, strayVars>>

(* The submission stops being pending.                                      *)
Leave(r) ==
    /\ \/ sub[r] = "leave" /\ sub' = [sub EXCEPT ![r] = "done"]
       \/ sub[r] = "back" /\ sub' = [sub EXCEPT ![r] = "refused"]
    /\ retirer[r] # "submitter"
    /\ UNCHANGED <<row, runVars, retireVars, tokenVars, control, gateVars, shutVars,
                   controls, delays, faults, strayVars>>

-----------------------------------------------------------------------------
(* The thread that executes a run.                                          *)

(* Each submit that returned started a thread, or found one idle.           *)
FreeThread ==
    LET busy == Cardinality(Executing \cup {s \in Runs : retirer[s] = "worker"})
    IN  busy < RunWorkers /\ busy < Cardinality({s \in Runs : Accepted(s)})

Start(r) ==
    /\ work[r] = "queued"
    /\ FreeThread
    /\ work' = [work EXCEPT ![r] = "first"]
    /\ status' = [status EXCEPT ![r] = IF r \in paused THEN "paused" ELSE "running"]
    /\ UNCHANGED <<row, sub, snap, refused, retireVars, tokenVars, control, gateVars, shutVars,
                   controls, delays, faults, strayVars>>

(* The snapshot of the first progress write.                                *)
SnapshotFirst(r) ==
    /\ work[r] = "first"
    /\ work' = [work EXCEPT ![r] = "save"]
    /\ snap' = [snap EXCEPT ![r] = status[r]]
    /\ UNCHANGED <<row, sub, status, refused, retireVars, tokenVars, control, gateVars, shutVars,
                   controls, delays, faults, strayVars>>

(* Mutant: the run stays in the gate's queue.                               *)
EndRunWaiting(r, outcome, tokens) ==
    LET queued == RequestsOf(r, "queued")
    IN  /\ work' = [work EXCEPT ![r] = "final"]
        /\ status' = [status EXCEPT ![r] = outcome]
        /\ snap' = [snap EXCEPT ![r] = outcome]
        /\ refused' = [refused EXCEPT ![r] = {}]
        /\ CancelTokens(IF InFlight(r) = {} THEN tokens ELSE {r})
        /\ req' = [q \in Request |-> IF RunOf[q] = r /\ q \notin RequestFutures \ queued
                                     THEN "gone" ELSE req[q]]
        /\ Release(queued, queued)
        /\ UNCHANGED waiters

(* The outcome, and _finalize_execution: the run leaves the gate's queue,   *)
(* its requests are cancelled but not waited for, and the last snapshot of   *)
(* its status is taken.                                                     *)
EndRun(r, outcome, tokens) ==
    LET queued == RequestsOf(r, "queued")
    IN  /\ work' = [work EXCEPT ![r] = "final"]
        /\ status' = [status EXCEPT ![r] = outcome]
        /\ waiters' = RemoveFirst(waiters, r)
        /\ snap' = [snap EXCEPT ![r] = outcome]
        /\ refused' = [refused EXCEPT ![r] = {}]
        /\ CancelTokens(IF InFlight(r) = {} THEN tokens ELSE {r})
        /\ req' = [q \in Request |-> IF RunOf[q] = r /\ q \notin RequestFutures \ queued
                                     THEN "gone" ELSE req[q]]
        /\ Release(queued, queued)

(* Of the finished requests that wait() returned some are still to collect. *)
CollectsMore(r, Collected) ==
    /\ RequestsOf(r, "done") \ Collected # {}
    /\ work' = [work EXCEPT ![r] = "collect"]

(* A progress write; one that raises ends the run.                          *)
WriteProgress(r) ==
    /\ work[r] = "save"
    /\ \/ /\ SaveRun(r, snap[r])
          /\ snap' = [snap EXCEPT ![r] = "none"]
          /\ \/ work' = [work EXCEPT ![r] = "scan"]
             \/ CollectsMore(r, {})
          /\ UNCHANGED <<status, refused, tokenVars, gateVars>>
       \/ SaveRaises(r, snap[r]) /\ EndRun(r, "failed", {})
    /\ UNCHANGED <<sub, retireVars, control, shutVars, controls, delays, strayVars>>

(* token.checkpoint() with the cancel event set raises RUN_CANCELLED.       *)
CheckpointCancels(r) ==
    /\ work[r] \in {"check", "scan"}
    /\ r \in cancelled
    /\ EndRun(r, "cancelled", {})
    /\ UNCHANGED <<row, sub, retireVars, control, shutVars, controls, delays, faults, strayVars>>

(* token.checkpoint() returns once the run is not paused.                   *)
CheckpointPasses(r) ==
    /\ work[r] \in {"check", "scan"}
    /\ r \notin cancelled \cup paused
    /\ work' = [work EXCEPT ![r] =
                   IF @ = "scan" THEN "fill"
                   ELSE IF \A q \in Request : RunOf[q] = r => req[q] = "gone" THEN "commit"
                   ELSE IF RequestsOf(r, "done") # {} THEN "collect" ELSE "fill"]
    /\ UNCHANGED <<row, sub, status, snap, refused, retireVars, tokenVars, control, gateVars,
                   shutVars, controls, delays, faults, strayVars>>

(* A finished request is taken out of in_flight and recorded, and now and   *)
(* then the progress is saved; a flush of results that raises ends the run. *)
Collect(r, q) ==
    /\ work[r] = "collect"
    /\ RunOf[q] = r /\ req[q] = "done"
    /\ \/ /\ req' = [req EXCEPT ![q] = "gone"]
          /\ \/ CollectsMore(r, {q}) /\ UNCHANGED snap
             \/ work' = [work EXCEPT ![r] = "scan"] /\ UNCHANGED snap
             \/ work' = [work EXCEPT ![r] = "save"] /\ snap' = [snap EXCEPT ![r] = status[r]]
          /\ UNCHANGED <<status, refused, waiters, active, users, tokenVars, faults>>
       \/ r \in cancelled /\ EndRun(r, "cancelled", {}) /\ UNCHANGED faults
       \/ Fault /\ EndRun(r, "failed", {})
    /\ UNCHANGED <<row, sub, retireVars, control, shutVars, controls, delays, strayVars>>

(* RUN_RESOURCE_PRESSURE: the machine is short of disk.                     *)
ResourcePressure(r) ==
    /\ work[r] = "fill" /\ refused[r] = {}
    /\ EndRun(r, "failed", {})
    /\ UNCHANGED <<row, sub, retireVars, control, shutVars, controls, delays, faults, strayVars>>

(* _admit_request is called for a request that waits, at most once for each *)
(* in a pass, while the run has fewer requests in flight than the limit it  *)
(* read; a read is not remembered here.                                     *)
Asks(r, q) ==
    /\ work[r] = "fill"
    /\ RunOf[q] = r /\ req[q] = "pending" /\ HostOf[q] \notin refused[r]
    /\ \E limit \in GateLimitRead : Cardinality(InFlight(r)) < limit

(* Intake is closed: the token is cancelled and the run ends.               *)
AdmitClosed(r, q) ==
    /\ Asks(r, q)
    /\ closed
    /\ EndRun(r, "cancelled", {r})
    /\ UNCHANGED <<row, sub, retireVars, control, shutVars, controls, delays, faults, strayVars>>

(* The host has no lease to give: the request is deferred.                  *)
AdmitHostFull(r, q) ==
    /\ Asks(r, q)
    /\ ~closed
    /\ \E limit \in HostLimitRead : users[HostOf[q]] >= limit
    /\ refused' = [refused EXCEPT ![r] = @ \cup {HostOf[q]}]
    /\ UNCHANGED <<row, sub, status, work, snap, retireVars, tokenVars, control, gateVars,
                   shutVars, controls, delays, faults, strayVars>>

(* The queue of the gate as try_acquire leaves it before it decides.        *)
Queue(r) == IF r \in Range(waiters) THEN waiters ELSE Append(waiters, r)

(* Mutant: the gate asks for the place in its queue only.                   *)
GateOpensUnlimited(r, limit) == Head(Queue(r)) = r

GateOpens(r, limit) == active < limit /\ Head(Queue(r)) = r

(* The gate refuses, and the pass ends; the host lease was given back.      *)
AdmitGateRefuses(r, q) ==
    /\ Asks(r, q)
    /\ ~closed
    /\ \E limit \in HostLimitRead : users[HostOf[q]] < limit
    /\ \E limit \in GateLimitRead : ~GateOpens(r, limit)
    /\ waiters' = Queue(r)
    /\ refused' = [refused EXCEPT ![r] = {}]
    /\ work' = [work EXCEPT ![r] = "check"]
    /\ UNCHANGED <<row, sub, status, snap, retireVars, tokenVars, control, req, active,
                   users, shutVars, controls, delays, faults, strayVars>>

(* Mutant: the host lease is kept.                                          *)
AdmitDelayedLeaking(r, q) ==
    /\ Asks(r, q)
    /\ ~closed
    /\ \E limit \in HostLimitRead : users[HostOf[q]] < limit
    /\ \E limit \in GateLimitRead : GateOpens(r, limit)
    /\ delays < MaxDelays
    /\ delays' = delays + 1
    /\ waiters' = Tail(Queue(r))
    /\ users' = [users EXCEPT ![HostOf[q]] = @ + 1]
    /\ refused' = [refused EXCEPT ![r] = @ \cup {HostOf[q]}]
    /\ UNCHANGED <<row, sub, status, work, snap, retireVars, tokenVars, control, req,
                   active, shutVars, controls, faults, strayVars>>

(* The host's rate does not let the request start yet: gate and lease are   *)
(* given back, the place in the gate's queue is lost.                       *)
AdmitDelayed(r, q) ==
    /\ Asks(r, q)
    /\ ~closed
    /\ \E limit \in HostLimitRead : users[HostOf[q]] < limit
    /\ \E limit \in GateLimitRead : GateOpens(r, limit)
    /\ delays < MaxDelays
    /\ delays' = delays + 1
    /\ waiters' = Tail(Queue(r))
    /\ refused' = [refused EXCEPT ![r] = @ \cup {HostOf[q]}]
    /\ UNCHANGED <<row, sub, status, work, snap, retireVars, tokenVars, control, req,
                   active, users, shutVars, controls, faults, strayVars>>

Admit(r, q) ==
    /\ Asks(r, q)
    /\ ~closed
    /\ \E limit \in HostLimitRead : users[HostOf[q]] < limit
    /\ \E limit \in GateLimitRead : GateOpens(r, limit)
    /\ waiters' = Tail(Queue(r))
    /\ active' = active + 1
    /\ users' = [users EXCEPT ![HostOf[q]] = @ + 1]
    /\ req' = [req EXCEPT ![q] = "queued"]
    /\ UNCHANGED <<row, sub, runVars, retireVars, tokenVars, control, shutVars,
                   controls, delays, faults, strayVars>>

(* The submit of the request raises, with gate and lease taken: both are     *)
(* given back and the run ends, as cancelled when its token is.  Where the   *)
(* item was queued its request has no future that anybody tracks.            *)
AdmitRaises(r, q) ==
    /\ Asks(r, q)
    /\ ~closed
    /\ \E limit \in HostLimitRead : users[HostOf[q]] < limit
    /\ \E limit \in GateLimitRead : GateOpens(r, limit)
    /\ ThreadFails
    /\ EndRun(r, IF r \in cancelled THEN "cancelled" ELSE "failed", {})
    /\ \/ stray' = [stray EXCEPT ![q] = "queued"]
       \/ UNCHANGED stray
    /\ UNCHANGED <<row, sub, retireVars, control, shutVars, said, controls, delays, faults>>

(* The pass is over: every waiting request was tried, or the run has as     *)
(* many in flight as it may.                                                *)
PassEnds(r) ==
    /\ work[r] = "fill"
    /\ \/ \A q \in RequestsOf(r, "pending") : HostOf[q] \in refused[r]
       \/ \E limit \in GateLimitRead : Cardinality(InFlight(r)) >= limit
    /\ refused' = [refused EXCEPT ![r] = {}]
    /\ work' = [work EXCEPT ![r] = "check"]
    /\ UNCHANGED <<row, sub, status, snap, retireVars, tokenVars, control, gateVars,
                   shutVars, controls, delays, faults, strayVars>>

(* The outcome by the counters of the requests; partial success counts as   *)
(* completed here.                                                          *)
Commit(r) ==
    /\ work[r] = "commit"
    /\ \E outcome \in {"completed", "failed"} : EndRun(r, outcome, {})
    /\ UNCHANGED <<row, sub, retireVars, control, shutVars, controls, delays, faults, strayVars>>

(* The final write, whose failure is left to the retirement, and the end of *)
(* the future, whose callback runs in this thread.  The submitter of an      *)
(* orphan may have failed it before or after the snapshot.                  *)
Finish(r) ==
    /\ work[r] = "final"
    /\ \E s \in {snap[r], status[r]} : SaveRun(r, s) \/ SaveRaises(r, s)
    /\ work' = [work EXCEPT ![r] = "finished"]
    /\ snap' = [snap EXCEPT ![r] = "none"]
    /\ IF Hooked(r) THEN EnterRetire(r, "worker") ELSE UNCHANGED <<retirer, failed>>
    /\ UNCHANGED <<sub, status, refused, handles, started, shutFailed, tokenVars,
                   control, gateVars, shutVars, controls, delays, strayVars>>

-----------------------------------------------------------------------------
(* The rest of _on_run_done, in whichever thread runs it: the terminal      *)
(* write under the state lock, then the registries.                         *)

(* A run that executed has its outcome, as no BaseException leaves _execute  *)
(* here; one that did not was cancelled.                                    *)
FinalStatus(r) == IF status[r] \in Terminal THEN status[r] ELSE "cancelled"

(* Mutant: a run whose terminal write failed is let go.                     *)
RetireFailsForgetting(r) ==
    /\ retirer[r] # "none"
    /\ SaveRaises(r, FinalStatus(r))
    /\ status' = [status EXCEPT ![r] = FinalStatus(r)]
    /\ retirer' = [retirer EXCEPT ![r] = "none"]
    /\ handles' = handles \ {r}
    /\ UNCHANGED <<sub, work, snap, refused, failed, started, shutFailed, tokenVars, control,
                   gateVars, shutVars, controls, delays, strayVars>>

RetireSucceeds(r) ==
    /\ retirer[r] # "none"
    /\ SaveRun(r, FinalStatus(r))
    /\ status' = [status EXCEPT ![r] = FinalStatus(r)]
    /\ retirer' = [retirer EXCEPT ![r] = "none"]
    /\ handles' = handles \ {r}
    /\ UNCHANGED <<sub, work, snap, refused, failed, started, shutFailed, tokenVars, control,
                   gateVars, shutVars, controls, delays, strayVars>>

RetireFails(r) ==
    /\ retirer[r] # "none"
    /\ SaveRaises(r, FinalStatus(r))
    /\ status' = [status EXCEPT ![r] = FinalStatus(r)]
    /\ retirer' = [retirer EXCEPT ![r] = "none"]
    /\ failed' = failed \cup {r}
    /\ started' = FALSE
    /\ shutFailed' = TRUE
    /\ UNCHANGED <<sub, work, snap, refused, handles, tokenVars, control, gateVars, shutVars,
                   controls, delays, strayVars>>

-----------------------------------------------------------------------------
(* The threads of request_executor.                                         *)

FetchStarts(q) ==
    /\ req[q] = "queued"
    /\ req' = [req EXCEPT ![q] = "fetch"]
    /\ UNCHANGED <<row, sub, runVars, retireVars, tokenVars, control, waiters, active, users,
                   shutVars, controls, delays, faults, strayVars>>

(* The fetch ends with a response, or with an error that ends the request,  *)
(* as a cancelled token does; the host lease is released either way.        *)
FetchEnds(q) ==
    /\ req[q] = "fetch"
    /\ \/ /\ RunOf[q] \notin cancelled
          /\ req' = [req EXCEPT ![q] = "parse"]
          /\ ReleaseHosts({q})
          /\ UNCHANGED active
       \/ EndRequests({q}, {q})
    /\ UNCHANGED <<row, sub, runVars, retireVars, tokenVars, control, waiters, shutVars,
                   controls, delays, faults, strayVars>>

(* Mutant: the done callback releases the host lease a second time.         *)
ParseEndsReleasingTwice(q) ==
    /\ req[q] = "parse"
    /\ RunOf[q] \notin paused
    /\ EndRequests({q}, {q})
    /\ UNCHANGED <<row, sub, runVars, retireVars, tokenVars, control, waiters, shutVars,
                   controls, delays, faults, strayVars>>

(* A checkpoint, which a pause holds up, and the extraction.                *)
ParseEnds(q) ==
    /\ req[q] = "parse"
    /\ RunOf[q] \notin paused
    /\ EndRequests({q}, {})
    /\ UNCHANGED <<row, sub, runVars, retireVars, tokenVars, control, waiters, shutVars,
                   controls, delays, faults, strayVars>>

(* A thread of the pool takes the item of a submit that raised: it fetches   *)
(* for a run that is over, holds no lease, and answers to nobody.            *)
StrayStarts(q) ==
    /\ stray[q] = "queued"
    /\ stray' = [stray EXCEPT ![q] = "fetch"]
    /\ UNCHANGED <<row, sub, runVars, retireVars, tokenVars, control, gateVars, shutVars,
                   said, threadFailures, controls, delays, faults>>

StrayEnds(q) ==
    /\ stray[q] = "fetch"
    /\ stray' = [stray EXCEPT ![q] = "none"]
    /\ UNCHANGED <<row, sub, runVars, retireVars, tokenVars, control, gateVars, shutVars,
                   said, threadFailures, controls, delays, faults>>

-----------------------------------------------------------------------------
(* pause, resume and cancel of a handle.  control_io_lock keeps the control *)
(* calls of one run apart; the store is called outside the state lock.      *)

Controllable(r) ==
    /\ Accepted(r) /\ ~Done(r)
    /\ r \notin cancelled
    /\ status[r] \notin Terminal

ControlCall(r) == r \in Controlled /\ controls < MaxControls /\ controls' = controls + 1

Pause(r) ==
    /\ control[r] = "idle"
    /\ Controllable(r)
    /\ ControlCall(r)
    /\ paused' = paused \cup {r}
    /\ status' = [status EXCEPT ![r] = "paused"]
    /\ control' = [control EXCEPT ![r] = "pausing"]
    /\ UNCHANGED <<row, sub, work, snap, refused, retireVars, cancelled, gateVars, shutVars,
                   delays, faults, strayVars>>

Resume(r) ==
    /\ control[r] = "idle"
    /\ Controllable(r)
    /\ ControlCall(r)
    /\ paused' = paused \ {r}
    /\ IF status[r] = "paused"
       THEN /\ status' = [status EXCEPT ![r] = "running"]
            /\ control' = [control EXCEPT ![r] = "resuming"]
       ELSE UNCHANGED <<status, control>>
    /\ UNCHANGED <<row, sub, work, snap, refused, retireVars, cancelled, gateVars, shutVars,
                   delays, faults, strayVars>>

(* Mutant: the update does not look at the state of the row.                *)
PersistControlBlind(r) ==
    /\ control[r] \in {"pausing", "resuming"}
    /\ row' = [row EXCEPT ![r] = IF control[r] = "pausing" THEN "paused" ELSE "running"]
    /\ control' = [control EXCEPT ![r] = "idle"]
    /\ UNCHANGED <<sub, runVars, retireVars, tokenVars, gateVars, shutVars, controls, delays, faults,
                   strayVars>>

(* update_run_control_status matches the row by its state, or fails before  *)
(* or after its commit.                                                     *)
PersistControl(r) ==
    /\ control[r] \in {"pausing", "resuming"}
    /\ LET to == IF control[r] = "pausing" THEN "paused" ELSE "running"
           from == IF control[r] = "pausing" THEN Control \cup {"queued"} ELSE Control
           back == IF control[r] = "pausing" THEN "unpause" ELSE "unresume"
       IN  \/ /\ row[r] \in from
              /\ row' = [row EXCEPT ![r] = to]
              /\ control' = [control EXCEPT ![r] = "idle"]
              /\ UNCHANGED faults
           \/ /\ row[r] \notin from
              /\ control' = [control EXCEPT ![r] = back]
              /\ UNCHANGED <<row, faults>>
           \/ /\ Fault
              /\ \/ UNCHANGED row
                 \/ row[r] \in from /\ row' = [row EXCEPT ![r] = to]
              /\ control' = [control EXCEPT ![r] = back]
    /\ UNCHANGED <<sub, runVars, retireVars, tokenVars, gateVars, shutVars, controls, delays,
                   strayVars>>

(* A transition that was not persisted is taken back, unless the run was    *)
(* cancelled or ended meanwhile.                                            *)
RollBackControl(r) ==
    /\ control[r] \in {"unpause", "unresume"}
    /\ control' = [control EXCEPT ![r] = "idle"]
    /\ LET was == IF control[r] = "unpause" THEN "paused" ELSE "running"
           to == IF was = "paused" THEN "running" ELSE "paused"
       IN  IF ~Done(r) /\ r \notin cancelled /\ status[r] = was
           THEN /\ status' = [status EXCEPT ![r] = to]
                /\ paused' = IF to = "paused" THEN paused \cup {r} ELSE paused \ {r}
           ELSE UNCHANGED <<status, paused>>
    /\ UNCHANGED <<row, sub, work, snap, refused, retireVars, cancelled, gateVars, shutVars,
                   controls, delays, faults, strayVars>>

Cancel(r) ==
    /\ Accepted(r)
    /\ ControlCall(r)
    /\ CancelHandle(r, "user")
    /\ UNCHANGED <<row, sub, status, snap, refused, handles, started, shutFailed,
                   control, gateVars, shutVars, delays, faults, strayVars>>

-----------------------------------------------------------------------------
(* begin_shutdown, its thread cancel_owned, and shutdown.                   *)

(* Intake is closed, and the owners are recorded, in one critical section;  *)
(* a shutdown under way or done is left alone.                              *)
BeginShutdown ==
    /\ closed' = TRUE
    /\ IF shut # "idle" \/ (started /\ failed = {})
       THEN UNCHANGED <<shut, started, shutFailed, toRetry, toCancel>>
       ELSE /\ shut' = "signal"
            /\ started' = TRUE /\ shutFailed' = FALSE
            /\ toCancel' = handles
            /\ toRetry' = failed
    /\ UNCHANGED <<row, sub, runVars, handles, retirer, failed, tokenVars, control, gateVars,
                   fetcher, controls, delays, faults, strayVars>>

(* The tokens, then the request futures: those not yet taken by a thread.   *)
Signal ==
    /\ shut = "signal"
    /\ shut' = "cancel"
    /\ CancelTokens(toCancel)
    /\ LET queued == {q \in Request : req[q] = "queued"} IN EndRequests(queued, queued)
    /\ UNCHANGED <<row, sub, runVars, retireVars, control, waiters, closed, toRetry,
                   toCancel, fetcher, controls, delays, faults, strayVars>>

(* The thread cancel_owned does not start: begin_shutdown raises, and the   *)
(* next one begins again.                                                   *)
SignalFails ==
    /\ shut = "signal"
    /\ toCancel # {}
    /\ Fault
    /\ shut' = "idle"
    /\ started' = FALSE /\ shutFailed' = TRUE
    /\ toRetry' = {} /\ toCancel' = {}
    /\ CancelTokens(toCancel)
    /\ LET queued == {q \in Request : req[q] = "queued"} IN EndRequests(queued, queued)
    /\ UNCHANGED <<row, sub, runVars, handles, retirer, failed, control, waiters, closed,
                   fetcher, controls, delays, strayVars>>

(* cancel_owned goes on once a retirement it runs is over.                  *)
CancelOwned == shut = "cancel" /\ \A r \in Runs : retirer[r] # "shutdown"

RetryOne(r) ==
    /\ CancelOwned
    /\ r \in toRetry
    /\ toRetry' = toRetry \ {r}
    /\ EnterRetire(r, "shutdown")
    /\ UNCHANGED <<row, sub, runVars, handles, started, shutFailed, tokenVars, control,
                   gateVars, closed, shut, toCancel, fetcher, controls, delays, faults, strayVars>>

CancelOne(r) ==
    /\ CancelOwned
    /\ toRetry = {}
    /\ r \in toCancel
    /\ toCancel' = toCancel \ {r}
    /\ CancelHandle(r, "shutdown")
    /\ UNCHANGED <<row, sub, status, snap, refused, handles, started, shutFailed,
                   control, gateVars, closed, shut, toRetry, fetcher, controls, delays, faults,
                   strayVars>>

(* The pools are shut down and drop what is in their queues: of the runs and *)
(* requests that are tracked nothing is there any more.                     *)
EndShutdown ==
    /\ CancelOwned
    /\ toRetry = {} /\ toCancel = {}
    /\ work' = [r \in Runs |-> IF work[r] = "queued" THEN "cancelled" ELSE work[r]]
    /\ stray' = [q \in Request |-> IF stray[q] = "queued" THEN "none" ELSE stray[q]]
    /\ shut' = "idle"
    /\ started' = (failed = {})
    /\ shutFailed' = (failed # {})
    /\ UNCHANGED <<row, sub, status, snap, refused, handles, retirer, failed, tokenVars, control,
                   gateVars, closed, toRetry, toCancel, fetcher, controls, delays, faults, said,
                      threadFailures>>

(* Mutant: requests are not waited for.                                     *)
DrainedByRuns == handles = {} /\ Pending = {} /\ shut = "idle" /\ ~shutFailed

(* What drain() returns True for.                                           *)
Drained ==
    /\ handles = {} /\ RequestFutures = {} /\ Pending = {}
    /\ shut = "idle" /\ ~shutFailed

(* shutdown() after its drain returned True, and the close of the fetcher.  *)
DrainReturns ==
    /\ closed /\ fetcher = "open"
    /\ Drained
    /\ fetcher' = "closing"
    /\ UNCHANGED <<row, sub, runVars, retireVars, tokenVars, control, gateVars, closed, shut,
                   toRetry, toCancel, controls, delays, faults, strayVars>>

CloseFetcher ==
    /\ fetcher = "closing"
    /\ \/ fetcher' = "closed" /\ UNCHANGED faults
       \/ fetcher' = "open" /\ Fault
    /\ UNCHANGED <<row, sub, runVars, retireVars, tokenVars, control, gateVars, closed, shut,
                   toRetry, toCancel, controls, delays, strayVars>>

-----------------------------------------------------------------------------
SubmitStep(r) ==
    \/ CreateRow(r) \/ HandOff(r) \/ HandOffRaises(r) \/ Hook(r) \/ Leave(r)
    \/ Reject(r) \/ SnapshotRejected(r) \/ SaveRejected(r)

RunStep(r) ==
    \/ Start(r) \/ SnapshotFirst(r) \/ WriteProgress(r) \/ CheckpointCancels(r) \/ CheckpointPasses(r)
    \/ ResourcePressure(r)
    \/ PassEnds(r) \/ Commit(r) \/ Finish(r)
    \/ \E q \in RequestsOf(r, "done") : Collect(r, q)
    \/ \E q \in RequestsOf(r, "pending") :
        \/ AdmitClosed(r, q) \/ AdmitHostFull(r, q)
        \/ AdmitGateRefuses(r, q) \/ AdmitDelayed(r, q) \/ Admit(r, q) \/ AdmitRaises(r, q)

RetireStep(r) == RetireSucceeds(r) \/ RetireFails(r)

RequestStep(q) == FetchStarts(q) \/ FetchEnds(q) \/ ParseEnds(q)

StrayStep(q) == StrayStarts(q) \/ StrayEnds(q)

ControlStep(r) == PersistControl(r) \/ RollBackControl(r)

ShutdownStep ==
    \/ Signal \/ SignalFails \/ EndShutdown \/ DrainReturns \/ CloseFetcher
    \/ \E r \in Runs : RetryOne(r) \/ CancelOne(r)

Next ==
    \/ \E r \in Runs :
        \/ Submit(r) \/ SubmitStep(r) \/ RunStep(r) \/ RetireStep(r)
        \/ Pause(r) \/ Resume(r) \/ Cancel(r) \/ ControlStep(r)
    \/ \E q \in Request : RequestStep(q) \/ StrayStep(q)
    \/ BeginShutdown
    \/ ShutdownStep

Spec == Init /\ [][Next]_vars

(* A shutdown that was not complete is tried again, as the application      *)
(* does (ApplicationContext.shutdown).                                      *)
RetryShutdown == closed /\ BeginShutdown

(* Every thread goes on, every fetch has a timeout, and an incomplete       *)
(* shutdown is tried again.  Nobody has to submit, pause, resume or cancel. *)
FairSpec ==
    /\ Spec
    /\ \A r \in Runs : WF_vars(SubmitStep(r) \/ RunStep(r) \/ RetireStep(r) \/ ControlStep(r))
    /\ \A q \in Request : WF_vars(RequestStep(q))
    /\ WF_vars(ShutdownStep)
    /\ WF_vars(RetryShutdown)

-----------------------------------------------------------------------------
(* Properties.                                                              *)

(* The gate's and the hosts' hand-kept counters are the requests that hold  *)
(* them, over refusals, delays, submits that raise, cancellations and the    *)
(* ends of runs.                                                            *)
CountsExact ==
    /\ active = Cardinality(RequestFutures)
    /\ \A h \in Host :
        users[h] = Cardinality({q \in Request : HostOf[q] = h /\ req[q] \in {"queued", "fetch"}})

(* Once shutdown() goes on to close the fetcher no tracked request is under  *)
(* way, no submission can still start a run, and no run executes, waits or is *)
(* retired but one whose submit raised.                                     *)
FetcherClosedLast ==
    fetcher # "open" =>
        /\ RequestFutures = {} /\ Pending = {}
        /\ \A r \in Runs : ~Orphan(r) =>
            r \notin Executing /\ work[r] # "queued" /\ retirer[r] = "none"
        /\ threadFailures = 0 => \A r \in Runs, q \in Request : ~Orphan(r) /\ stray[q] = "none"

(* The gate serves its queue in order, so a run that stays in it without a  *)
(* request to start would keep every other run out for good.                *)
WaitersWait == \A r \in Range(waiters) : r \in Executing /\ RequestsOf(r, "pending") # {}

(* "Every accepted run retires only after this terminal write": a run that  *)
(* was accepted and has left the registry has a terminal row, with the       *)
(* status in memory.                                                        *)
OwnedUntilDurable ==
    \A r \in Runs : Accepted(r) /\ r \notin handles => row[r] \in Terminal /\ row[r] = status[r]

(* "In-memory status, SQLite state [...] agree": while the storage works    *)
(* and no control call is under way, the row of a run that was not          *)
(* cancelled says running or paused as the run does, whatever snapshot is   *)
(* written late.                                                            *)
RowShowsControl ==
    \A r \in Runs \ cancelled :
        faults = 0 /\ control[r] = "idle" /\ row[r] \in Control /\ status[r] \in Control
            => row[r] = status[r]

(* A row that ended keeps its state: "delayed active/queued snapshots must  *)
(* not resurrect it", and no retirement changes the outcome.  A run whose    *)
(* submit raised may be executed after its row was failed.                  *)
EndedRunIsFinal ==
    [][\A r \in Runs : row[r] \in Terminal /\ ~Orphan(r) => row'[r] = row[r]]_vars

(* Unless somebody stays paused, a run that was accepted ends: no run waits *)
(* for ever for the gate or for a host.                                     *)
RunsEnd == <>[](paused = {}) => \A r \in Runs : Accepted(r) /\ work[r] = "queued" ~> Done(r)

(* A shutdown that is retried closes the fetcher, once the storage works.   *)
ShutdownCompletes == closed ~> fetcher = "closed"
=============================================================================
