# Arenyxa: TLA+ models of its queue, its job system, its runs and its scheduler

Arenyxa is a desktop and server application for network capture, crawling and
workflow automation, written in Python. Most of its volume is parsing, network
I/O and user interface. What this directory models is the part that decides
whether work is lost, done twice or left running: the **Enterprise distributed
queue** with its leases, fences and recovery, the **platform job system** with
its executor, its retirement protocol and its shutdown, the **run orchestrator**
with its request gate, its host leases and its control calls, and the
**scheduler** with its generations and its persisted due times.

| Module | What it is | Proofs |
|---|---|---|
| `DistributedQueue` | the queue on SQLite, one action per transaction | `DistributedQueueProofs`, `DistributedQueueSafety`, `DistributedQueueCounters` |
| `JobContract` | abstract: what the queue promises of a job | |
| `DistributedQueueContract` | the mapping under which the queue implements it | `DistributedQueueContractProofs` |
| `JobSystem` | submit, run, cancel, retire, shutdown, restart | `JobSystemProofs` |
| `RunOrchestrator` | submit, execute, admit requests, pause, cancel, retire, shutdown | `RunOrchestratorProofs`, `RunOrchestratorCounters` |
| `Scheduler` | scan, dispatch, invoke, persist, command, shutdown, restart | `SchedulerProofs` |
| `MC*` | instances for TLC | |

Paths below are relative to `src/src/arenyxa/` unless they start with `docs/`
(which is `src/docs/`) or `tests/` (`src/tests/`).

## 1. Inventory

Components with the state they keep, their operations, what is hard about them
and what makes them correct. Last column: M modelled, "next" within reach (section 9), - not planned.

| Component | State | Operations | Hard behaviour | Correct when | |
|---|---|---|---|---|---|
| Distributed queue, SQLite (`enterprise/distributed_queue*.py`) | job, worker and fence tables; sweep lock; clock anchor | enqueue, lease, start, renew, checkpoint, side-effect fence, complete, fail, handover, retry, register/drain/revoke a worker, sweeps, retention, `initialize` | leases that expire under a running worker, repeated calls, restarts, pruning | one owner at a time, effects fenced, answers repeatable, counters exact, nothing stuck | M |
| Queue storage circuit breaker (`distributed_queue.py:384-428`) | failure count, open-until | preflight, success, failure | several probes after the cool-down | opens after three failures, closes on success | next |
| PostgreSQL backend (`enterprise/runtime_storage.py`) | connection pool, close flag | one-statement hot paths, recovery with row locks, close | READ COMMITTED, candidates read before locks, close during checkout | the queue's properties under row-level concurrency | next |
| Worker runtime (`enterprise/distributed_runtime.py:583-777`) | a lease, a keep-alive thread | execute one lease | the lease is lost while the work runs; the answer is lost | no effect without a fence, no completion of a lost lease | next |
| Worker agent (`enterprise/worker_agent.py`) | generations, futures, session | run, handover, stop, re-authenticate | stop and restart overlap, one retry of terminal calls | every lease is completed, failed, handed over or left to expire | next |
| Server runtime (`enterprise/distributed_runtime.py`, `server_api.py`) | worker sessions, challenges, quota | `submit_task`, authenticate | two submissions with one key | quota is reserved once per job | next |
| Platform job system (`application/job_system.py`, `infrastructure/database_jobs.py`) | `platform_jobs` rows, futures, slots, intents, failed retirements | submit, run, cancel, retire, shutdown, drain, recover | shutdown against submissions, callbacks run by any thread, failing storage | outcomes true and final, slots exact, shutdown completes | M |
| Scheduler (`application/scheduler.py`, `command_runtime_automation.py`) | jobs, generations, running set, callback futures, rows | save, add, replace, enable, disable, remove, scan, invoke, persist, stop, drain | persisting outside the condition, stale generations, a mark cleared in four places | no overlap, marks exact, rows settle on the due time, no write for a replaced definition | M |
| Run orchestrator (`application/runner.py`, `run_execution.py`, `runner_support.py`) | rows, handles, tokens, the request gate with its queue, host gates, request futures, failed retirements | submit, execute, admit, fetch, parse, pause, resume, cancel, retire, shutdown, close the fetcher | leases given back in seven places by three kinds of thread; a submit that raises after queueing; late snapshots; two retry sets | counters exact, nobody blocks the gate, one durable result per run, the fetcher closed last | M |
| Application shutdown (`bootstrap.py`, `infrastructure/shutdown.py`) | completed steps | shutdown | a step that fails and is retried | no step before its dependencies | next |
| Reliability governor, resource pools (`application/reliability.py`) | counters, limits | acquire, release, set_limit | limit lowered below use | never over the limit at acquisition | next |
| Workflow runtime (`application/workflow_runtime*.py`) | run snapshots | run, resume, cancel | resume after a crash | no node twice unless allowed | next |
| Monitors (`survivability.py`, `runtime_supervisor.py`, `resilience_scheduler.py`) | mode | sample | hysteresis | - | - |
| Office coordinator, governance, identity, vault (`enterprise/`) | decisions, keys | authorise, rotate | cryptography | - | - |
| Process locks and atomic files (`infrastructure/`) | lock file, temporary file | acquire, replace | operating system | - | - |
| SQLite stores, capture and proxy engines, crawler, browser, plugins, HTTP clients, presentation, security kernel, legacy tree, scripts | various | various | I/O and parsing | - | - |

How they interact. The server runtime puts jobs into the queue; agents poll it
over HTTP, execute leases with the worker runtime and report back; the control
plane calls the sweeps and the retention. The desktop, CLI and server submit
long work to the job system, whose operations call the other components;
`ApplicationContext.shutdown` closes them in dependency order and may be called
again after a failure. The scheduler's callbacks submit runs to the orchestrator; the
operations of jobs call the other components. The four share no state: they
meet only through calls that each side here takes as arbitrary (what an
operation does, when a callback returns, when a run is submitted), so they are
separate modules. What is composed is each component with the machinery it
shares state with: rows of the store, the executor and its futures, the
shutdown and its retry.

`PROJECT.json` lists every component with its reason, and under `hazards` what
in this code is hard to test, each at its line.

## 2. The distributed queue: `DistributedQueue.tla`

**Scope.** `DurableDistributedQueue` on SQLite: all calls go through one lock and
one transaction, so **one action is one transaction**. The hard part is not
interleaving within a call but between calls: a worker keeps its lease token
after the lease has expired, and may use it then.

**State.** One function per column the control depends on, for job rows
(`jobState`, `attempt`, `effect`, `ckpt`, `receipt`, `leaseWorker`,
`leaseToken`, `ttl`), fences (`fence`, by key), workers (`workerState`,
`maxSlots`, `activeLeases`, `age`) and the process (`phase`: which transaction
`initialize` runs next; `sweep`: which transaction the holder of
`_expiry_scan_lock` runs next). Four history variables record what workers saw:
leases `granted`, receipts `acked`, effects let through (`effectRuns`) and
operator `approvals`.

**Data abstractions.**
- A lease token is random in the code; here it is the attempt number it was
  granted at, which only grows, so it names the token. 0 is the empty column.
- `ttl` is `lease_expires_at - now` in ticks, and `age` is `now - heartbeat_at`;
  absolute time never matters, so the anchors that carry the clock from one boot
  to the next are left out and a restart changes no `ttl`. `ttl` stops at `Expired = -GraceTicks` (the
  smallest value any comparison tells apart) and a column that is 0 is
  `Cleared`. Two thresholds are kept apart: calls ask `ttl > 0`, recovery
  `ttl <= -grace`. In between a lease is neither usable nor recovered.
- What a request says (key, mode, attempt limit) is the constant `Request`;
  payloads and permissions are left out. `Key` decides collisions.
- Which rows and tombstones retention drops depends on `updated_at`, not
  modelled: any set of the right size may be dropped.

**Actions and code.**

| Action | Code |
|---|---|
| `Enqueue` (with pruning of a full table) | `enqueue`, `_retain_terminal_locked` |
| `LeaseNext`, `LeaseMany` | `_lease_next_storage`, `_lease_many_storage` |
| `StartJob`, `RenewLease`, `Checkpoint`, `MarkSideEffectStarted` | the calls of these names, behind `_require_lease_locked` |
| `Complete`, `ReplayComplete` | `complete` and its replay branches over row and fence |
| `HandoverLease`, `Fail` | `handover_lease`, `fail` |
| `RetryReviewRequired` | `retry_review_required` |
| `RegisterWorker`, `Heartbeat`, `SetWorkerDrain`, `RevokeWorker` | `distributed_queue_workers.py` |
| `BeginSweep`, `RecoverStaleWorkerLeases`, `RecoverExpiredLeases` | `_recover_expired_leases_if_due` and its two transactions |
| `ControlPlaneRecovery`, `RetainTerminal` | the control plane's direct calls |
| `BootClock` ... `BootRecoverExpired` | the five transactions of `initialize` |
| `Tick`, `Crash` | time; the process dies between two transactions |

A worker may present **any lease it was ever granted**, at any time, any number
of times (`Presents`): this stands for the worker runtime, the agent, the network
and their retries, which are not modelled, and allows more than they do. A
completion whose reply is lost is a `Complete` that does not extend `acked`.

**Left out.** Priority and creation order of leasing (any queued job may be
taken), protocol version windows, job events, the `cancelled` state (listed in
`docs/ARCHITECTURE.md` section 8, but no code path of the queue writes it), the
check for an expiry too far in the future, storage errors (a transaction that
fails is rolled back, so it is a step that is not taken).

**Properties.**

| Property | Says |
|---|---|
| `LeaseConsistent` | lease columns are all set in an active state, with a worker that is registered and not revoked, and all empty otherwise |
| `CountersExact` | the hand-kept `active_leases` equals the leases held |
| `EffectOncePerApproval` | a non-idempotent effect is let through at most once, plus once per operator retry |
| `CompletedByLatestLease` | a completed job was finished under the last lease granted |
| `CheckpointsAdvance` | a checkpoint is never overwritten by an older owner |
| `AckedOnce` | at most one lease-and-result pair is ever acknowledged, over replays and pruning |
| `FenceMatchesRow` | storing the fence of an ended row never conflicts with the fence of another job or answer |
| `NonIdempotentKeyOnce` | a key used once for a non-idempotent job stays used |
| `KeepsContract` | the queue implements `JobContract`, see below |
| `RepairedOnceReconciled` | after `reconcile_durable_state` any damaged lease table is consistent |
| `LostLeaseIsReleased` | a lease that is not renewed ends |
| `StartsUp` | a server that stops crashing comes up |

`AttemptsBounded` (attempts exceed the limit only by operator retries),
`TerminalIsFinal` (an ended job keeps state and receipt until it is pruned; a
review ends only by an operator) and `TerminalRowsFenced` (an ended row has its
own fence) are proved and follow from the contract or from the invariants above,
so no run repeats them.

**The contract.** `JobContract.tla` says what the queue promises, without its
tables, fences, clock, sweeps and restarts: a job is submitted once per key,
granted within its budget and the approvals, owned by one lease at a time, let into
its effect once per approval, answered once by the lease that owns it, and
forgotten only after it ended. A key may be used again only when every earlier
use of it is forgotten and could be repeated without harm. Jobs move
independently (`\A j`), because one transaction of the queue may move several.
`DistributedQueueContract` gives the mapping: a job is owned while its row is
leased or running, by the worker and token of its lease columns; its answer is
the receipt. `KeepsContract` is the abstract specification under this mapping:
`queue_contract` checks it and `QueueKeepsContract` proves it.

## 3. The job system: `JobSystem.tla`

**Scope.** `JobSystem` over `platform_jobs`. Here the threads matter: callers of
`submit` and `cancel`, the executor's workers, and the shutdown thread.
**One action is one critical section of `_lock`, one transaction, or one
transition of a future**; between them anything may interleave.

**State.** `row` is the persisted state; `submit` and `work` are program counters
of the submitting caller and of the executor for each job; `future` is the
future's state, `hooked` whether its callback is registered; `retire` and
`retirer` say where `_retire` is with a job and which thread runs it;
`futures`, `intent`, `persisted`, `failed`, `slots`, `event`, `accepting` are the
attributes of the same meaning; `shut`, `shutStarted`, `shutFailed`, `toRetry`,
`toCancel` are the shutdown thread and its flags. `outcome` is history.

**The executor is external** (`concurrent.futures`) and modelled from how it is
used: `Take` (a cancelled item is dropped), `Finish` (the future is done and its
callback runs in the worker), `CancelFuture` (a pending future is cancelled and
its callback runs in the canceller), `AddDoneCallback` on a future that is
already done (the callback runs in the caller), and `HandOffRaises`:
`ThreadPoolExecutor.submit` queues the item before it starts a thread, so it can
raise with the item queued, or before that. Such an item waits for a thread that
another submission started or starts (`FreeThread`).

**Failures.** Any write may raise before or after its commit (`Fault`, bounded by
`MaxFaults`); the shutdown thread may not start; the process may crash
(`Restart` includes the constructor with `recover_platform_jobs`); the result of
a job in `Oversized` can never be stored.

An operation ends by returning, by an exception, or by `SystemExit` or
`KeyboardInterrupt` (`Escape`), which passes the handlers of `_run` by, so that the
future ends without a recorded outcome and the retirement has to end the row. It
may raise `JobCancelled` whether or not somebody cancelled the job.

**Left out.** Progress and messages, `timed_out` as a label of its own (it takes
the path of `failed`), the order of the executor's queue and that its shutdown drops
an item whose submit raised (here it may still run), the read-back of the
row at the end of `submit`, and `_state_locks`, which order writes of the same
row that commute for the state column.

| Property | Says |
|---|---|
| `SlotsExact` | every slot of the semaphore has exactly one owner: a submission before its hand-over, or a registered future until its retirement |
| `OwnedUntilDurable` | a job leaves the registry only with a terminal row |
| `SuccessNotRewritten` | a successful operation is never recorded as failed, nor the reverse |
| `RunsOnlyRunning` | an operation runs only while its row says so |
| `TerminalRowIsFinal` | an ended row keeps its state, over late writers and restarts |
| `DrainedIsQuiet` | after `drain(include_submissions=True)` returned True no row changes state |
| `ShutdownDrains` | a shutdown that is retried completes |
| `SlotsComeBack` | **violated**, see section 7 |

Three of these are promised only while the executor can start its threads
(`ThreadsStart`): `HandOffRaises` leaves an item in the executor's queue whose row
already says "Rejected before execution". An item that runs so belongs to nobody,
but its slot, its registry entry and the finality of its row are still covered.

## 4. The run orchestrator: `RunOrchestrator.tla`

**Scope.** `RunOrchestrator` with its execution mixin, the request gate, the host
leases, the cancellation tokens, the handles and `save_run`. For every run the
threads are the submitter, the executor's worker and the user who pauses or
cancels; for every request its own thread; and the shutdown has a thread
(`cancel_owned`) and a caller that waits for the drain. **One action is one
critical section of `_lock` or of a `state_lock`, one call of the store, or one
step of a thread that nobody else can see.**

**State.** `row` is `runs.status`, `status` the status in memory, `snap` the status
a `save_run` that is under way has read; `sub` and `work` are the program counters
of the submitter and of the worker; `handles`, `retirer`, `failed` are `_handles`,
the thread in `_on_run_done` (those in `_retiring_runs`), and
`_failed_run_retirements`; `cancelled`, `paused` are the tokens, `control` a pause
or resume call that has not stored its answer; `req` says where each request is;
`waiters`, `active` are the gate's, `users` the host gates'; `closed`, `shut`,
`started`, `shutFailed`, `toRetry`, `toCancel` are the shutdown; `fetcher` says
whether the fetcher was closed. `said` is the status a rejected submission is about to
write, `stray` where an item of the request pool is whose submit raised.

**Submits that raise.** `ThreadPoolExecutor.submit` raises `RuntimeError` when it
cannot start a thread, before or after it queued the item (`ThreadFails`, bounded by
`MaxThreadFailures`). For a run (`HandOffRaises`, `runner.py:193`) the caller writes
"failed" to memory and then to the row, and no handle exists; if the item was queued
the run is an `Orphan`: a thread of the pool takes it as soon as there is one, it
runs like any other, and its status and row are then written by two threads in any
order, so that "failed" may become "completed". For a request (`AdmitRaises`,
`run_execution.py:120`) gate and lease are given back and the run ends; a queued item
is `stray` and fetches with no lease and no tracked future. Runs whose submit returned
are `Accepted`.

| Action | Code |
|---|---|
| `Submit`, `CreateRow`, `HandOff`, `HandOffRaises`, `Reject`, `SnapshotRejected`, `SaveRejected`, `Hook`, `Leave` | `submit`, `_submit` |
| `Start`, `SnapshotFirst`, `WriteProgress`, `CheckpointPasses`, `CheckpointCancels`, `Collect`, `Commit`, `Finish` | `_execute` and what it calls |
| `Asks` with `AdmitClosed`, `AdmitHostFull`, `AdmitGateRefuses`, `AdmitDelayed`, `Admit`, `AdmitRaises`, `ResourcePressure`, `PassEnds` | `_fill_execution_workers`, `_admit_request` |
| `FetchStarts`, `FetchEnds`, `ParseEnds`, `EndRequests`, `StrayStarts`, `StrayEnds` | `_process_request`, `ReleaseFutureCallback` |
| `RetireSucceeds`, `RetireFails`, `EnterRetire` | `_on_run_done` |
| `Pause`, `Resume`, `PersistControl`, `RollBackControl`, `Cancel` | `RunHandle`, `update_run_control_status`, `cancel_all` |
| `BeginShutdown`, `Signal`, `SignalFails`, `RetryOne`, `CancelOne`, `EndShutdown`, `Drained`, `CloseFetcher` | `begin_shutdown`, `_drain`, `shutdown` |

**Abstractions.** The limits of the gate and of a host adapt to load and settings:
each read returns *some* value up to a ceiling (`GateLimitRead`,
`HostLimitRead`), so nothing proved or checked depends on two reads agreeing.
The end of a request's future and its callbacks are one step; `handle.cancel` sets
the token and cancels the future in one; the two reads of `_closed` in `submit` are
one. `EndRun` merges what the run's thread does from its outcome to its last
snapshot: the status under the `state_lock`, the withdrawal from the gate's queue under
the gate's, the token, and the cancellation of each queued future. Each of these only
takes away (a place in the queue, a request to start) under a lock of its own; what
is lost is a look at them half done. For an orphan the last
snapshot may also read what its submitter wrote in between (`Finish`). A
`BaseException` that leaves `_execute` is not modelled, so that the `RUN_UNEXPECTED`
branch of `_on_run_done` is not either. A stray item may start at once: the threads of
the request pool are not counted. A partial success counts as completed. The extra checkpoints after 64 and 256
admissions and the number of requests a pass may still take are left out (the pass
may end whenever a read of the limit says so). Pages, counters and events are data.
A restart of the process is not modelled here: the recovery of interrupted runs is
a component of its own.

| Property | Says |
|---|---|
| `CountsExact` | `_active` of the gate and the users of each host are exactly the requests that hold them, over the two places that take them and the seven that give them back, submits that raise included |
| `WaitersWait` | nobody stays in the gate's queue without a request to start: the gate serves its head only, so such a run would stop all others |
| `FetcherClosedLast` | the fetcher is closed only when no tracked request is under way, no submission can start a run, and no run executes, waits or is retired but an orphan; when no submit raised, nothing at all is left |
| `OwnedUntilDurable` | an accepted run leaves the registry only with a terminal row, the one memory says |
| `RowShowsControl` | the row says running or paused as the run does, whatever snapshot is written late |
| `EndedRunIsFinal` | an ended row keeps its state, unless the run is an orphan |
| `RunsEnd` | unless a run stays paused, every accepted run ends |
| `ShutdownCompletes` | a shutdown that is retried closes the fetcher |

What an orphan or a stray item does to itself is not ruled out, because the code does
not: both may use the fetcher after its close, and an orphan rewrites the "failed" of
its row. What the properties say is that nothing else is disturbed by them: the
counters stay exact, the other runs keep their owner and their row, and everything that
is tracked is over before the fetcher is closed.

## 5. The scheduler: `Scheduler.tla`

**Scope.** `SchedulerService`, the commands that drive it (`automation add`,
`enable`, `disable`, `remove`), its callback pool, and the start that loads the
persisted rows. **One action is one critical section of `_condition`, one write of
the store, or one transition of a future.** `_definition_io_lock` is held across
several of these: `io` names its holder. Time is in ticks.

**State.** `generation`, `due`, `enabled`, `counter` are `_jobs` and
`_job_generations`; `running` and `future` are `_running` and `_callback_futures`;
`thread` is the scheduler thread with the two lists a scan fills; `call` is an
invocation in the pool and `queue` the pool's work queue; `caller` a thread in a
command; `stopping`, `toCancel`, `closed`, `drained` the shutdown; `row` the
persisted schedules. `late` is history: schedules whose last write failed.

| Action | Code |
|---|---|
| `SaveSchedule`, `Add`, `Replace`, `Enable`, `Disable`, `Reaffirm`, `RemoveSchedule`, `CallerWrites`, `CallerCancels`, `CallerStores` | `add`, `set_enabled`, `remove` and the commands' own writes |
| `Scan`, `ThreadEnds` | one pass of `_run` under the condition |
| `CheckReschedule`, `WriteReschedule` | `_persist_reschedule_if_current` |
| `Submit`, `SubmitRaises` | the submissions of `_run` |
| `Take`, `Check`, `CallbackEnds`, `CaptureNext`, `WriteNext`, `Retire` | the pool, `_execute_callback`, `_callback_done` |
| `BeginShutdown`, `CancelOne`, `ShutdownExecutor`, `Drained` | `begin_shutdown`, `stop`, `_drain` |
| `Restart` | the process dies; `_restore_persisted_schedules` |

**Abstractions.** The calendar rules are a fixed `Period`: a rule gives *a* next
time after now, or none (then the scan disables the schedule). `last_run_at` is
left out. A cancelled item leaves the pool's queue at once instead of when a
worker meets it. A name of an invocation is used again once its future is retired
and no thread holds it. A row is written for a loaded schedule only by this
process.

| Property | Says |
|---|---|
| `NoOverlap` | a schedule is never called twice at once, whatever is replaced, disabled or removed while a call runs |
| `RunningExact` | a schedule is marked as running exactly while one dispatch or one registered future of it exists |
| `WriterIsCurrent` | whoever holds the definition lock to write a due time writes it for the definition loaded now (or one the scan has just disabled, which does not wait for that lock) |
| `DurableSettles` | when nothing of an enabled schedule is under way, its row says when it is due |
| `DispatchNotPersisted` | until an occurrence is attempted its row still names it, so that a restart makes it up, unless a later one was skipped while it waited |
| `DrainedIsQuiet` | after `drain()` returned True no invocation is left and no due time is about to be written |
| `RunningEnds` | no schedule is marked for ever |
| `ShutdownDrains` | a shutdown drains |
| `OccurrenceCovered` | **violated**, see section 7 |

`NoOverlap` and `DrainedIsQuiet` hold while the pool can start its threads.
`SubmitRaises` is the other case: `ThreadPoolExecutor.submit` queues the item
before it starts a thread, so it can raise with an item queued that runs later and
belongs to no registered future.

## 6. Runs

`MC*.tla` instantiate the modules; each `.cfg` is one question.

| Run | Instance | Asks |
|---|---|---|
| `queue_lease` | 2 jobs (one non-idempotent with 2 attempts, one idempotent with 1), 2 workers of up to 2 slots, lease 1 tick, heartbeat 1 | counters, lease columns, effects, completion and checkpoints under lost leases and batch leases |
| `queue_contract` | 4 submissions on 2 keys, 1 worker, room for 2 rows and 1 ended row, a legacy row, 1 operator retry, 1 crash | the contract; keys, fences and acknowledged answers over pruning |
| `queue_recovery` | 1 job, 2 workers, lease 2 + grace 1, 1 crash, from a sound or any damaged database (`RecoverySpec`) | repair; a lost lease ends; the server starts |
| `jobs_safety` | 2 jobs, 2 workers + 1 slot, 1 fault, 1 thread failure, 1 cancel, 1 crash | types, slots, ownership, outcomes, finality, quiet drain |
| `jobs_full` | 3 jobs for 2 slots | slots under backpressure |
| `jobs_liveness` | 1 job, 3 faults, 1 cancel | the shutdown completes |
| `jobs_oversized` | 1 job whose result cannot be stored; violation | section 7 |
| `runs` | 2 runs with 1 request each to 1 host, gate 1, host 1, 1 control call, 1 submit that raises | types, counters, the gate's queue, the fetcher |
| `runs_end` | 1 run with 2 requests, gate 2, host 1, 2 control calls, 1 delay, 1 fault, 1 submit that raises | ownership, rows, runs end, the shutdown completes |
| `sched` | 2 schedules, 2 pool workers, 2 live invocations, 1 commanding thread, 3 changes, clock 2, 1 fault | the scheduler's safety |
| `sched_restart` | 1 schedule, 1 worker, 2 changes, 1 thread failure, 1 crash | marks end, the shutdown drains |
| `sched_skip` | 2 schedules on 1 worker; violation | section 7 |

**Why the bounds are enough to see the cases.** *Queue.* An old and a new owner
need two leases of one job, hence two attempts and two workers. Counters drift when
one worker loses several leases at once: two jobs and two slots. Lease 2 and grace 1
give each of the three zones of `ttl` (usable, neither, recoverable) a reachable
value. The reuse of a key needs a row, its pruning and a second use: two jobs per
key and no room for more than one ended row. *Jobs.* The races are between one job
and a shutdown; a second job holds the other worker or slot, a third finds none
left. One fault hits each write once, before or after its commit; three make a
shutdown fail and be retried again and again. *Runs.* Two runs compete for one place
of the gate and one lease of the host, so that refusal and head-of-line waiting
occur; a rate delay is in `runs_end`, where a lease it kept would keep the other request
from starting for ever (and in the proofs of `CountsExact` and `WaitersWait`); two requests of one run are needed for a pass that
admits one and defers the other. Two control calls are a pause and its resume, or a
pause and a cancel. One submit that raises makes one orphan, which the thread of the other
run's submission executes, or one stray request; in `runs_end` it ends the only run,
or keeps it from starting. `RunsEnd` is checked for one run; that two do not starve each
other is checked as the safety property `WaitersWait`. *Scheduler.* A clock of two
periods lets an occurrence come due while the one before it waits, runs or is
written; three changes replace, disable and enable, or remove and add again; two
schedules make one scan dispatch one and reschedule another.

**Symmetry** is used in runs without liveness properties, over identities the
configuration treats alike. (`FreeCall` and `IdleCaller` hold an arbitrary schedule
in a field nobody reads while they are free and idle; states that differ only
there behave alike.)

**Deadlock** is checked in every run: a clock that has stopped still leaves
heartbeats, commands and shutdown calls to be made.

**Fairness.** *Queue:* `WF(Boot)`, `WF(Tick)`, `WF(Sweep)`. Start-up code runs to
its end, time passes, and `lease_next` runs the sweep whenever it is due; the agents
poll it for ever (`worker_agent.py`, `_run`). Nothing is assumed of the worker that
holds the lease, nor that anybody else calls a recovery. *Jobs:* each thread goes
on (`WF` per job of `SubmitStep`, `WorkStep`, `RetireStep`, `CancelJob`, and
`WF(ShutdownStep)`), and operations return (their event and deadline tell them to;
the executor has no other way to end one). *Runs:* each thread of a run goes on,
and a fetch ends (it has a timeout); nobody has to pause, resume or cancel. *Scheduler:* the threads go on. Strong fairness is
assumed of `Rescheduling` and of each invocation only: they wait for a lock, or for
a worker, that others take and give back, and every one of these waits is for a
bounded step of another thread (`threading` hands a lock to a waiter; the pool's
queue is first in, first out). *Shutdowns* that are
not complete are tried again (`RetryShutdown`), as `ApplicationContext.shutdown` is
built for (`bootstrap.py:217-241`; `docs/ARCHITECTURE.md` section 21: "Successfully
completed steps are retained for a later retry"). Faults are bounded: storage that
never works again drains nothing.

**Mutants.** For each property of each passing run `PROJECT.json` names a mutated
form of one definition, written just before it in the module and marked *Mutant*: a
plausible mistake in that code, which TLC finds with that property.

## 7. Where the code and its documents disagree

1. `SlotsComeBack` (`jobs_oversized`). A job that succeeds with a result over 1 MiB
   can never be made durable: `update_platform_job` raises for every retry of the
   recorded intent. Its slot never comes back and `drain` never returns True.
2. `OccurrenceCovered` (`sched_skip`). `docs/DEEP_RUNTIME_RESILIENCE_AUDIT_2026-08-09.md:24`
   says that the durable due time moves only when an occurrence is attempted. A
   dispatched occurrence that still waits for a pool worker is already marked as
   running; when the next one of that schedule comes due it is skipped and its
   successor's time is persisted at once, past both. `DispatchNotPersisted`
   is what does hold.

Three more, listed as hazards without a run of their own: `register_worker`
overwrites `max_slots` below the leases held, which `invariant_violations` reports
as `slot-bound`; an item that `ThreadPoolExecutor.submit` queued before it raised
runs although its job or run was rejected; and the head of the gate's queue may be a run
whose host has no lease to give, so that runs to idle hosts wait behind it.

## 8. Proofs

TLAPS checks the following for every set of jobs, workers, keys, runs, requests,
hosts and schedules, and every value of the bounds, crashes included where the
module has them.

| Module | Theorem | States | Run |
|---|---|---|---|
| `DistributedQueueProofs` | `TypeCorrect` | `[]TypeOK` | `queue_contract` |
| `DistributedQueueSafety` | `LeasesConsistent` | `[]LeaseConsistent` | `queue_lease` |
| | `EffectsFenced` | `[]EffectOncePerApproval` | `queue_lease` |
| | `CompletionFenced` | `[]CompletedByLatestLease` | `queue_lease` |
| | `CheckpointsNeverRegress` | `CheckpointsAdvance` | `queue_lease` |
| | `AttemptsWithinBudget` | `[]AttemptsBounded` | (contract) |
| | `TerminalStays` | `TerminalIsFinal` | (contract) |
| | `OldLeasesAreRefused` | a call under an older or ended lease changes no row, fence or worker | (tokens) |
| `DistributedQueueCounters` | `CountersAreExact` | `[]CountersExact` | `queue_lease` |
| | `DamageIsRepaired` | `[]RepairedOnceReconciled`, from `Init` or `Damaged` | `queue_recovery` |
| | `DamageKeepsEffects` | `[]EffectOncePerApproval`, from `Init` or `Damaged` with `EffectFenced` | (effects) |
| `DistributedQueueContractProofs` | `FencesMatchRows` | `[]FenceMatchesRow` | `queue_contract` |
| | `EndsAreFenced` | `[]TerminalRowsFenced` | (fences) |
| | `KeysOnce` | `[]NonIdempotentKeyOnce` | `queue_contract` |
| | `AnswersOnce` | `[]AckedOnce` | `queue_contract` |
| | `QueueKeepsContract` | `KeepsContract`: the queue implements `JobContract` | `queue_contract` |
| `JobSystemProofs` | `JobTypes` | `[]TypeOK` | `jobs_safety` |
| | `JobSlotsExact` | `[]SlotsExact` | `jobs_safety`, `jobs_full` |
| | `JobOwnedUntilDurable` | `[]OwnedUntilDurable` | `jobs_safety` |
| | `JobSuccessKept` | `[]SuccessNotRewritten` | `jobs_safety` |
| | `JobRunsOnlyRunning` | `[]RunsOnlyRunning` | `jobs_safety` |
| | `JobRowIsFinal` | `TerminalRowIsFinal` | `jobs_safety` |
| | `JobDrainedIsQuiet` | `DrainedIsQuiet` | `jobs_safety` |
| `RunOrchestratorProofs` | `RunOwnedUntilDurable` | `[]OwnedUntilDurable` | `runs_end` |
| | `FetcherIsClosedLast` | `[]FetcherClosedLast` | `runs` |
| | `RunOutcomeIsFinal` | `EndedRunIsFinal` | `runs_end` |
| | `RunRowShowsControl` | `[]RowShowsControl` | `runs_end` |
| `RunOrchestratorCounters` | `RunTypes` | `[]TypeOK` | `runs` |
| | `RunCountsExact` | `[]CountsExact` | `runs` |
| | `RunWaitersWait` | `[]WaitersWait` | `runs` |
| `SchedulerProofs` | `SchedulerInvariant` | `[]SchedInv` | `sched` checks its parts |
| | `SchedulerTypes` | `[]TypeOK` | `sched` |
| | `SchedulerRunningExact` | `[]RunningExact` | `sched` |
| | `SchedulerWriterIsCurrent` | `[]WriterIsCurrent` | `sched` |
| | `SchedulerDurableSettles` | `[]DurableSettles` | `sched` |
| | `SchedulerNoOverlap` | `[](used.threads = 0 => NoOverlap)` | `sched` |
| | `SchedulerDrainedIsQuiet` | `[](used.threads = 0 => DrainedIsQuiet)` | `sched` |
| | `SchedulerDispatchNotPersisted` | `[](used.threads = 0 => DispatchNotPersisted)` | `sched` |

Each is a theorem of `Spec`, without fairness, but for the two about damage, whose
behaviours may also begin in a damaged database. `used.threads` counts the submissions
whose worker thread could not start: `ThreadPoolExecutor.submit` has queued the
item when it raises, so that an invocation the scheduler gave up may still be
called. The last three theorems say that nothing else breaks these properties:
they hold in every behaviour, for every bound, as long as that has not happened
(`sched` checks them with `MaxThreadFailures = 0`).

**Assumptions.** The constants' named `ASSUME`s, which TLC evaluates on every run:
identities of the empty columns are none of the entities; limits are naturals, those
that must be are positive; a request has a mode, a key and a limit of at least one
attempt (the validation of `enqueue`); jobs, requests and schedules are finite sets,
because their numbers are counted. `LegacyAssumption` says which rows an earlier
release may have left, one per key as its UNIQUE column did.

**The queue.** The invariants are not inductive by themselves; `QueueInv` is. It adds
to `TypeOK`, `LeaseConsistent` and `CompletedByLatestLease`:

- `EffectFenced`: a job that is absent or queued has no effect behind it, and an
  active one has none that completed. `mark_side_effect_started` refuses only an
  effect that is `started`; that it never starts one that *completed* is because a
  completed effect is written with the row's last state, and that is not visible at
  the guard.
- `AttemptsCounted`: a queued job has an attempt *left* (`<`, where the property
  says `<=`), because a release goes to the queue only below the limit and an
  operator's approval raises the bound by the one attempt that follows; and a
  checkpoint is never of a later attempt than the row's, so that the owner that
  writes next, whose token is the row's attempt by `LeaseConsistent`, writes a later one.

The proof goes in three layers. `StepShape` reduces each of the actions to seven
shapes (a call under a lease, a lease, a release of active rows, ...), which is
where the sweeps, the start-up transactions and the operator turn out to do
the same few things. `EveryRow` reduces a shape to what it does to one row: stays,
is retried, checkpointed, marked, completed, leased, released, or moved in or out
of the table. Then each invariant has one short case per row step. `LeaseConsistent`
is needed by `EveryRow` itself: `_initialize_lease_clock` writes a time into every
active row, and that this fills no empty column, and that a revocation releases all
that a worker holds, rests on it.

`CountersInv` (`QueueInv /\ CountersExact`) needs only the sizes of what each shape
adds to or takes from a worker's rows. The contract needs `FenceInv` besides: a fence
belongs to an ended job of its key and carries its receipt (`FenceOwned`), the fence
of a job that may be done once outlives its row (`OnceRemembered`), and who was told
an answer was told the durable one (`AckedDurable`). With these each row step is a
step of `JobContract` or a stutter of it.

*A damaged start.* `Damaged` is any typed database at the first start-up
transaction whose active rows may have lost their lease columns or their worker, and
whose counters may say anything: `DamagedInit`, from which `queue_recovery` starts,
is a small instance of it. It keeps only what no lost column can break (`Repairable`):
a token is of the row's latest attempt or gone, a row that is not active has no
lease, a worker that never was counts none. These three are what makes the release of
`InvalidRows` followed by a recount enough. `RecoveryInv` carries them up to the repair
and `LeaseConsistent /\ CountersExact` from then on; before it, only the start-up
code, the clock and further crashes move (`BeforeRepair`), and `_initialize_lease_clock`
gives a time to rows that are active and to no other. Once the repair has committed the two
invariants are preserved as from a sound start, because `LeaseConsistentStep` and
`CountersStep` need nothing else of the past.

**The job system.** `JobInv` says for each job how the program counters of its
submission, work item and retirement fit (`Submitted`, `Worked`, `Retired`), and what
outcome, intent and row say of each other (`Recorded`). `SlotsExact` is about a
counter: every step moves at most one job in or out of `Owners`. Three of
the properties speak of `ThreadsStart`, and so do the conjuncts that carry them.

**The run orchestrator.** `RunInv` has, per run, what its future, the registry and its
row say of each other (`Owned`), and what a drain leaves behind for good (`Quiet`).
Most of `Owned` is said of accepted runs: an orphan's status and row have two writers,
and all that is claimed of it is that the registry never holds it. A step leaves
`Orphan` as it is for every run but the one whose submit raises
(`NoOtherOrphan`), which carries `EndedRunIsFinal` from one state to the next. That
nothing at all is left behind the fetcher where no submit raised is a small invariant of
its own (`Undisturbed`): orphans and strays exist only when `threadFailures` is not 0.
`LimitInv` is about the counters: every action is one of five kinds of step of the gate
(`KeepsGate`, an admission, an end of requests, ...), so that the counting is done
five times and not thirty.

`RowShowsControl` is not inductive: a pause, a resume and a progress snapshot each
change the status in one step and write the row in a later one. `ShowsInv` follows
both writers over the gap. `Placed` says where a run stands when its row and snapshot
are written. `Told`, while no write failed and the run is not cancelled, says that the
token and the status agree, that a resume began on a row that was written, that a
transition is only taken back on a run that ended, and that a snapshot taken while no
control call is under way says what the status says, unless the row already
says running or paused, which `save_run` keeps over a snapshot.

**The scheduler.** `SchedInv` adds to the properties: the definition lock is held by
the one thread that is at a write (`Locks`); the lists of a scanning thread are empty
and hold one dispatch of a schedule (`Lists`); what is in the pool's queue is queued
(`Queued`); a registered future is a live invocation of its schedule, and, while
threads can be started, every live invocation is the registered one (`Registered`),
from which `NoOverlap` follows; and a drain leaves a dead thread, no mark and no
future (`Ended`). `RunningExact` needs that a schedule to be dispatched has no
future, which is why the scan's test of `_running` is enough.

`RowInv` is the second invariant, about times. `DurableSettles` speaks of moments of rest,
so what it rests on speaks of all others: a row that does not say when its schedule is due
will still be written (`Settling`), by somebody at the definition lock (`Written`) or by a
dispatch, an invocation or the thread, each of which carries the generation it was
taken from (`Owed`); and who writes an older time now is not the last. For that no time that
was or will be written may be later than the due time in memory (`Dates`), generations
under way must be ones that were given, and a caller's victim must belong to a definition that
is gone (`Numbers`); `add_schedule` writes its row before it loads the definition,
and nobody else may write in between (`Adding`). `Covered` is the part for
`DispatchNotPersisted`: what waits to be called is not passed over by the row, by a
caller about to write, or by the thread, until a later occurrence has been skipped.

**Only model-checked.** Every invariant and every action property of a passing run
is stated by a theorem. Liveness (`LostLeaseIsReleased`, `StartsUp`, the `ShutdownDrains` of jobs and
scheduler, `RunningEnds`, `RunsEnd`, `ShutdownCompletes`) stays with TLC for good: the
prover handles neither fairness nor ENABLED. `SlotsComeBack` and
`OccurrenceCovered` are false, and TLC's counterexample is what shows it. The prover
cannot do induction over data either, so
`SlotsOfOthers`, a sum folded over the workers, is never expanded in a proof; no
theorem depends on its value.

## 9. What is not modelled, and what would come next

`PROJECT.json` gives the reason for every component. Left out for good: I/O, parsing,
cryptography, user interface, operating-system locks, and the Windows 7 tree,
which is a copy of an earlier state of the same components. Together these are most
of the repository's lines: what decides whether work is lost or doubled is a
small part of it.

Within reach, in the order of their worth:

1. `WorkerExecution` and the agent's generations, composed with `DistributedQueue`:
   keep-alive thread, lost replies, handover. Until then `Presents` stands for them,
   which allows more.
2. `SubmitTask`: the quota around `enqueue`.
3. `PostgresRecovery`: candidates read before locks, READ COMMITTED.
4. `StorageCircuit`, `ApplicationShutdown`, the resource governor: small machines.
5. The recovery of interrupted runs and workflows at a restart.
6. Abstract specifications of the life of a platform job, a run and a schedule, as
   `JobContract` is one of a queued job, and proofs that the modules implement them.
