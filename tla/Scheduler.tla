------------------------------- MODULE Scheduler -------------------------------
(***************************************************************************)
(* application/scheduler.py: the scheduler thread, its callback pool, the   *)
(* commands that add, replace, enable and remove schedules, the shutdown,   *)
(* and the persisted rows they all write.                                   *)
(*                                                                         *)
(* One action is one critical section of _condition, one write of the       *)
(* store, or one transition of a future.  _definition_io_lock is held over   *)
(* several of them: `io' names its holder.  Time is counted in ticks, and a *)
(* schedule is due again Period ticks after it fired.                       *)
(***************************************************************************)
EXTENDS Integers, FiniteSets, SequencesExt

CONSTANTS
    Sched,        \* schedule ids
    Call,         \* names for live invocations; more than are ever live at once
    Caller,       \* threads that issue commands
    NoCall,       \* no registered future
    Workers,      \* max_callback_workers
    Period,       \* ticks of the interval rule
    MaxClock,     \* bound: ticks
    MaxChanges,   \* bound: commands that make a generation
    MaxFaults,    \* bound: failed writes and schedules found invalid
    MaxThreadFailures, \* bound: submissions whose worker thread cannot start
    MaxCrashes    \* bound: restarts of the process

ASSUME PoolAssumption == Workers \in Nat \ {0} /\ Period \in Nat \ {0}
ASSUME BoundAssumption ==
    {MaxClock, MaxChanges, MaxFaults, MaxThreadFailures, MaxCrashes} \subseteq Nat
ASSUME ScheduleAssumption == IsFiniteSet(Sched) /\ Sched # {}
ASSUME NameAssumption ==
    /\ NoCall \notin Call
    /\ Call \cap Caller = {}
    /\ {"free", "thread"} \cap (Call \cup Caller) = {}

VARIABLES
    clock,
    generation,   \* _job_generations, 0 for a schedule that is not loaded
    due,          \* next_run in _jobs
    enabled,      \* the enabled flag in _jobs
    counter,      \* _generation_counter
    running,      \* _running
    future,       \* _callback_futures
    stopping,     \* _stopping
    io,           \* holder of _definition_io_lock: "free", "thread", a caller or a call
    thread,       \* the scheduler thread and its two local lists
    call,         \* the invocations handed to the pool
    queue,        \* the pool's work queue
    caller,       \* what each commanding thread is doing
    toCancel,     \* the futures begin_shutdown still has to cancel
    closed,       \* the pool was shut down
    drained,      \* drain() returned True
    row,          \* persisted schedules
    late,         \* history: schedules whose last write failed or dispatch was lost
    used          \* bound counters

defVars == <<generation, due, enabled, counter>>
poolVars == <<call, queue>>
stopVars == <<stopping, toCancel, closed, drained>>
vars == <<clock, generation, due, enabled, counter, running, future, stopping, io, thread,
          call, queue, caller, toCancel, closed, drained, row, late, used>>

-----------------------------------------------------------------------------
Loaded == {s \in Sched : generation[s] # 0}
Executing == {"started", "calling", "finishing", "writing", "returned"}
Busy == {n \in Call : call[n].st \in Executing}

(* A name may be used again when no thread still holds the old future.      *)
Unused == {n \in Call : /\ call[n].st = "free"
                        /\ n \notin toCancel
                        /\ \A c \in Caller : caller[c].victim # n}

FreeCall == [st |-> "free", s |-> CHOOSE s \in Sched : TRUE, gen |-> 0, occ |-> 0, next |-> 0]
IdleCaller == [pc |-> "idle", s |-> CHOOSE s \in Sched : TRUE, next |-> 0, victim |-> NoCall,
               then |-> "idle"]
Scanning == [pc |-> "scan", resched |-> {}, calls |-> {}, item |-> {}]

Current(s, g) == generation[s] = g /\ g # 0
Pending(s, g, n) == [s |-> s, gen |-> g, next |-> n]
Dispatch(s, g, o, n) == [s |-> s, gen |-> g, occ |-> o, next |-> n]

Init ==
    /\ clock = 0
    /\ generation = [s \in Sched |-> 0]
    /\ due = [s \in Sched |-> 0]
    /\ enabled = [s \in Sched |-> FALSE]
    /\ counter = 0
    /\ running = {}
    /\ future = [s \in Sched |-> NoCall]
    /\ stopping = FALSE
    /\ io = "free"
    /\ thread = Scanning
    /\ call = [n \in Call |-> FreeCall]
    /\ queue = <<>>
    /\ caller = [c \in Caller |-> IdleCaller]
    /\ toCancel = {}
    /\ closed = FALSE
    /\ drained = FALSE
    /\ row = [s \in Sched |-> [there |-> FALSE, next |-> 0, on |-> FALSE]]
    /\ late = {}
    /\ used = [changes |-> 0, faults |-> 0, threads |-> 0, crashes |-> 0]

-----------------------------------------------------------------------------
(* on_reschedule writes next_run_at of a row that may be gone; a failure is *)
(* logged and swallowed.                                                    *)
PersistNext(s, next) ==
    \/ /\ row' = [row EXCEPT ![s].next = IF row[s].there THEN next ELSE @]
       /\ late' = late \ {s}
       /\ UNCHANGED used
    \/ /\ used.faults < MaxFaults
       /\ used' = [used EXCEPT !.faults = @ + 1]
       /\ late' = late \cup {s}
       /\ UNCHANGED row

(* Commands. *)

Change == used.changes < MaxChanges
Changed == used' = [used EXCEPT !.changes = @ + 1]

(* automation add: the row of a new id is saved, then the schedule added.   *)
SaveSchedule(c, s) ==
    /\ caller[c].pc = "idle" /\ Change
    /\ ~row[s].there /\ generation[s] = 0
    /\ \A d \in Caller : caller[d].pc # "idle" => caller[d].s # s
    /\ row' = [row EXCEPT ![s] = [there |-> TRUE, next |-> clock + Period, on |-> TRUE]]
    /\ caller' = [caller EXCEPT ![c] = [IdleCaller EXCEPT !.pc = "add", !.s = s, !.next = clock + Period]]
    /\ Changed
    /\ UNCHANGED <<clock, defVars, running, future, stopVars, io, thread, poolVars, late>>

NewGeneration(s) ==
    /\ counter' = counter + 1
    /\ generation' = [generation EXCEPT ![s] = counter + 1]

(* add for an id that is not loaded; after a shutdown began it raises.      *)
Add(c) ==
    /\ caller[c].pc = "add" /\ io = "free"
    /\ caller' = [caller EXCEPT ![c] = IdleCaller]
    /\ IF stopping THEN UNCHANGED <<defVars, late>>
       ELSE LET s == caller[c].s IN
            /\ NewGeneration(s)
            /\ due' = [due EXCEPT ![s] = caller[c].next]
            /\ enabled' = [enabled EXCEPT ![s] = TRUE]
            /\ late' = late \ {s}
    /\ UNCHANGED <<clock, running, future, stopVars, io, thread, poolVars, row, used>>

(* The caller leaves the condition, still holding the definition lock.      *)
GoesOnToWrite(c, s, next, victim, then) ==
    /\ io' = c
    /\ caller' = [caller EXCEPT ![c] = [pc |-> "write", s |-> s, next |-> next,
                                       victim |-> victim, then |-> then]]

(* add for an id that is loaded: the old future is captured, to be          *)
(* cancelled when the new due time is persisted.                            *)
Replace(c, s) ==
    /\ caller[c].pc = "idle" /\ io = "free" /\ ~stopping /\ Change
    /\ generation[s] # 0
    /\ NewGeneration(s)
    /\ due' = [due EXCEPT ![s] = clock + Period]
    /\ enabled' = [enabled EXCEPT ![s] = TRUE]
    /\ GoesOnToWrite(c, s, clock + Period, future[s], "idle")
    /\ Changed
    /\ UNCHANGED <<clock, running, future, stopVars, thread, poolVars, row, late>>

(* set_enabled(True) of a disabled schedule computes its due time anew.     *)
Enable(c, s) ==
    /\ caller[c].pc = "idle" /\ io = "free" /\ ~stopping /\ Change
    /\ generation[s] # 0 /\ ~enabled[s]
    /\ NewGeneration(s)
    /\ due' = [due EXCEPT ![s] = clock + Period]
    /\ enabled' = [enabled EXCEPT ![s] = TRUE]
    /\ GoesOnToWrite(c, s, clock + Period, NoCall, "storeOn")
    /\ Changed
    /\ UNCHANGED <<clock, running, future, stopVars, thread, poolVars, row, late>>

(* set_enabled(False) of an enabled one captures the future to cancel.      *)
Disable(c, s) ==
    /\ caller[c].pc = "idle" /\ io = "free" /\ ~stopping /\ Change
    /\ generation[s] # 0 /\ enabled[s]
    /\ NewGeneration(s)
    /\ enabled' = [enabled EXCEPT ![s] = FALSE]
    /\ caller' = [caller EXCEPT ![c] = [pc |-> "cancel", s |-> s, next |-> 0,
                                       victim |-> future[s], then |-> "storeOff"]]
    /\ Changed
    /\ UNCHANGED <<clock, due, running, future, stopVars, io, thread, poolVars, row, late>>

(* Mutant: the definition lock is not taken.                                *)
RemoveScheduleUnlocked(c, s) ==
    /\ caller[c].pc = "idle" /\ row[s].there /\ Change
    /\ generation' = [generation EXCEPT ![s] = 0]
    /\ enabled' = [enabled EXCEPT ![s] = FALSE]
    /\ caller' = [caller EXCEPT ![c] = [pc |-> "cancel", s |-> s, next |-> 0,
                                       victim |-> future[s], then |-> "delete"]]
    /\ Changed
    /\ UNCHANGED <<clock, due, counter, running, future, stopVars, io, thread, poolVars, row, late>>

RemoveSchedule(c, s) ==
    /\ caller[c].pc = "idle" /\ io = "free" /\ row[s].there /\ Change
    /\ generation' = [generation EXCEPT ![s] = 0]
    /\ enabled' = [enabled EXCEPT ![s] = FALSE]
    /\ caller' = [caller EXCEPT ![c] = [pc |-> "cancel", s |-> s, next |-> 0,
                                       victim |-> future[s], then |-> "delete"]]
    /\ Changed
    /\ UNCHANGED <<clock, due, counter, running, future, stopVars, io, thread, poolVars, row, late>>

CallerWrites(c) ==
    /\ caller[c].pc = "write"
    /\ PersistNext(caller[c].s, caller[c].next)
    /\ io' = "free"
    /\ caller' = [caller EXCEPT ![c].pc = "cancel"]
    /\ UNCHANGED <<clock, defVars, running, future, stopVars, thread, poolVars>>

(* Mutant: a cancelled item stays in the work queue as if it were pending.   *)
CancelKeepingItem(n) ==
    IF n \in Range(queue)
    THEN call' = [call EXCEPT ![n].st = "cancelled"] /\ UNCHANGED queue
    ELSE UNCHANGED poolVars

(* Future.cancel: only an invocation no worker has taken can be cancelled.  *)
Cancel(n) ==
    IF n \in Range(queue)
    THEN call' = [call EXCEPT ![n].st = "cancelled"] /\ queue' = RemoveFirst(queue, n)
    ELSE UNCHANGED poolVars

CallerCancels(c) ==
    /\ caller[c].pc = "cancel"
    /\ Cancel(caller[c].victim)
    /\ caller' = [caller EXCEPT ![c] = IF @.then = "idle" THEN IdleCaller
                                       ELSE [IdleCaller EXCEPT !.pc = caller[c].then, !.s = caller[c].s]]
    /\ UNCHANGED <<clock, defVars, running, future, stopVars, io, thread, row, late, used>>

(* set_enabled that changes nothing still reaches the command's own write.  *)
Reaffirm(c, s) ==
    /\ caller[c].pc = "idle" /\ io = "free" /\ ~stopping /\ Change
    /\ generation[s] # 0
    /\ caller' = [caller EXCEPT ![c] = [IdleCaller EXCEPT !.s = s,
                                       !.pc = IF enabled[s] THEN "storeOn" ELSE "storeOff"]]
    /\ Changed
    /\ UNCHANGED <<clock, defVars, running, future, stopVars, io, thread, poolVars, row, late>>

(* The command's own write, after the scheduler's: the flag, or the row.    *)
CallerStores(c) ==
    LET s == caller[c].s IN
    /\ \/ /\ caller[c].pc = "delete"
          /\ row' = [row EXCEPT ![s] = [there |-> FALSE, next |-> 0, on |-> FALSE]]
       \/ /\ caller[c].pc \in {"storeOn", "storeOff"}
          /\ row' = [row EXCEPT ![s].on = row[s].there /\ caller[c].pc = "storeOn"]
    /\ caller' = [caller EXCEPT ![c] = IdleCaller]
    /\ UNCHANGED <<clock, defVars, running, future, stopVars, io, thread, poolVars, late, used>>

-----------------------------------------------------------------------------
(* The scheduler thread. *)

(* After its lists are worked off the thread looks for due schedules again. *)
Onward(t) == IF t.resched = {} /\ t.calls = {} THEN Scanning ELSE t

DueSchedules == {s \in Loaded : enabled[s] /\ due[s] <= clock}

(* Mutant: an overlapping occurrence is dispatched like any other.          *)
ScanOverlapping ==
    /\ thread.pc = "scan" /\ ~stopping
    /\ DueSchedules # {}
    /\ due' = [s \in Sched |-> IF s \in DueSchedules THEN clock + Period ELSE due[s]]
    /\ running' = running \cup DueSchedules
    /\ thread' = [pc |-> "work", item |-> {}, resched |-> {},
                  calls |-> {Dispatch(s, generation[s], due[s], clock + Period) : s \in DueSchedules}]
    /\ UNCHANGED <<clock, generation, enabled, counter, future, stopVars, io, poolVars, caller,
                   row, late, used>>

(* Mutant: the new due time of a dispatched occurrence is persisted too.    *)
ScanPersistsDispatch ==
    /\ thread.pc = "scan" /\ ~stopping
    /\ DueSchedules # {}
    /\ due' = [s \in Sched |-> IF s \in DueSchedules THEN clock + Period ELSE due[s]]
    /\ running' = running \cup DueSchedules
    /\ thread' = [pc |-> "work", item |-> {},
                  resched |-> {Pending(s, generation[s], clock + Period) : s \in DueSchedules},
                  calls |-> {Dispatch(s, generation[s], due[s], clock + Period) : s \in DueSchedules \ running}]
    /\ UNCHANGED <<clock, generation, enabled, counter, future, stopVars, io, poolVars, caller,
                   row, late, used>>

(* One scan: every due schedule is advanced past now; one that is running   *)
(* skips the occurrence and only its new due time is to be persisted, any   *)
(* other is to be dispatched.  A rule that has no next time is disabled.    *)
Scan ==
    /\ thread.pc = "scan" /\ ~stopping
    /\ DueSchedules # {}
    /\ \E bad \in {{}} \cup {{s} : s \in DueSchedules} :
          LET fired == DueSchedules \ bad
              following == clock + Period
          IN
          /\ bad # {} => used.faults < MaxFaults
          /\ used' = [used EXCEPT !.faults = @ + Cardinality(bad)]
          /\ due' = [s \in Sched |-> IF s \in fired THEN following ELSE due[s]]
          /\ enabled' = [s \in Sched |-> enabled[s] /\ s \notin bad]
          /\ counter' = counter + Cardinality(bad)
          /\ generation' = [s \in Sched |-> IF s \in bad THEN counter + 1 ELSE generation[s]]
          /\ running' = running \cup fired
          /\ thread' = Onward([pc |-> "work", item |-> {},
                resched |-> {Pending(s, generation[s], following) : s \in fired \cap running},
                calls |-> {Dispatch(s, generation[s], due[s], following) : s \in fired \ running}])
    /\ UNCHANGED <<clock, future, stopVars, io, poolVars, caller, row, late>>

ThreadEnds ==
    /\ thread.pc = "scan" /\ stopping
    /\ thread' = [thread EXCEPT !.pc = "dead"]
    /\ UNCHANGED <<clock, defVars, running, future, stopVars, io, poolVars, caller, row, late, used>>

(* _persist_reschedule_if_current: the generation is checked and the time   *)
(* written under the definition lock.                                       *)
CheckReschedule(r) ==
    /\ thread.pc = "work" /\ r \in thread.resched /\ io = "free"
    /\ IF Current(r.s, r.gen)
       THEN io' = "thread" /\ thread' = [thread EXCEPT !.pc = "write", !.item = {r}]
       ELSE io' = io /\ thread' = Onward([thread EXCEPT !.resched = @ \ {r}])
    /\ UNCHANGED <<clock, defVars, running, future, stopVars, poolVars, caller, row, late, used>>

WriteReschedule ==
    /\ thread.pc = "write"
    /\ \E r \in thread.item :
          /\ PersistNext(r.s, r.next)
          /\ thread' = Onward([thread EXCEPT !.pc = "work", !.resched = @ \ {r}, !.item = {}])
    /\ io' = "free"
    /\ UNCHANGED <<clock, defVars, running, future, stopVars, poolVars, caller>>

(* Submission, under the condition: given up when a shutdown began, else the*)
(* future is registered before a worker can retire it.                      *)
Enqueued(n, d) ==
    /\ call' = [call EXCEPT ![n] = [st |-> "queued", s |-> d.s, gen |-> d.gen, occ |-> d.occ, next |-> d.next]]
    /\ queue' = Append(queue, n)

Submitted(d) == thread' = Onward([thread EXCEPT !.calls = @ \ {d}])

(* Mutant: a submission that a shutdown prevents leaves its mark.           *)
SubmitKeepingMark(d) ==
    /\ thread.pc = "work" /\ thread.resched = {} /\ d \in thread.calls
    /\ Submitted(d)
    /\ IF stopping
       THEN UNCHANGED <<running, future, poolVars>>
       ELSE \E n \in Unused :
               /\ Enqueued(n, d)
               /\ future' = [future EXCEPT ![d.s] = n]
               /\ UNCHANGED running
    /\ UNCHANGED <<clock, defVars, stopVars, io, caller, row, late, used>>

Submit(d) ==
    /\ thread.pc = "work" /\ thread.resched = {} /\ d \in thread.calls
    /\ Submitted(d)
    /\ IF stopping
       THEN running' = running \ {d.s} /\ UNCHANGED <<future, poolVars>>
       ELSE \E n \in Unused :
               /\ Enqueued(n, d)
               /\ future' = [future EXCEPT ![d.s] = n]
               /\ UNCHANGED running
    /\ UNCHANGED <<clock, defVars, stopVars, io, caller, row, late, used>>

(* The pool queues the item before it starts a thread for it; when that     *)
(* fails, submit raises with the item queued and no future is registered.   *)
SubmitRaises(d) ==
    /\ thread.pc = "work" /\ thread.resched = {} /\ d \in thread.calls
    /\ ~stopping /\ used.threads < MaxThreadFailures
    /\ used' = [used EXCEPT !.threads = @ + 1]
    /\ Submitted(d)
    /\ \E n \in Unused : Enqueued(n, d)
    /\ running' = running \ {d.s}
    /\ late' = late \cup {d.s}
    /\ UNCHANGED <<clock, defVars, future, stopVars, io, caller, row>>

-----------------------------------------------------------------------------
(* Invocations in the pool. *)

Goes(n, to) == call' = [call EXCEPT ![n].st = to]

Take(n) ==
    /\ queue # <<>> /\ n = Head(queue)
    /\ Cardinality(Busy) < Workers
    /\ Goes(n, "started")
    /\ queue' = Tail(queue)
    /\ UNCHANGED <<clock, defVars, running, future, stopVars, io, thread, caller, row, late, used>>

(* _execute_callback looks at the definition once more before it calls.     *)
Check(n) ==
    /\ call[n].st = "started"
    /\ Goes(n, IF ~stopping /\ Current(call[n].s, call[n].gen) /\ enabled[call[n].s]
              THEN "calling" ELSE "returned")
    /\ UNCHANGED <<clock, defVars, running, future, stopVars, io, thread, queue, caller, row, late, used>>

CallbackEnds(n) ==
    /\ call[n].st = "calling"
    /\ Goes(n, "finishing")
    /\ UNCHANGED <<clock, defVars, running, future, stopVars, io, thread, queue, caller, row, late, used>>

(* Mutant: the due time of the dispatch is kept.                            *)
CaptureDispatched(n) ==
    /\ call[n].st = "finishing" /\ io = "free"
    /\ IF Current(call[n].s, call[n].gen) /\ enabled[call[n].s]
       THEN io' = n /\ Goes(n, "writing")
       ELSE io' = io /\ Goes(n, "returned")
    /\ UNCHANGED <<clock, defVars, running, future, stopVars, thread, queue, caller, row, late, used>>

(* Under both locks: is the definition still the one that was called, and   *)
(* what is due now?  The definition lock is kept for the writes.            *)
CaptureNext(n) ==
    /\ call[n].st = "finishing" /\ io = "free"
    /\ IF Current(call[n].s, call[n].gen) /\ enabled[call[n].s]
       THEN io' = n /\ call' = [call EXCEPT ![n].st = "writing", ![n].next = due[call[n].s]]
       ELSE io' = io /\ Goes(n, "returned")
    /\ UNCHANGED <<clock, defVars, running, future, stopVars, thread, queue, caller, row, late, used>>

WriteNext(n) ==
    /\ call[n].st = "writing"
    /\ PersistNext(call[n].s, call[n].next)
    /\ io' = "free"
    /\ Goes(n, "returned")
    /\ UNCHANGED <<clock, defVars, running, future, stopVars, thread, queue, caller>>

(* Mutant: the mark of a future that was cancelled is kept.                 *)
RetireReturned(n) ==
    /\ call[n].st \in {"returned", "cancelled"}
    /\ call' = [call EXCEPT ![n] = FreeCall]
    /\ IF future[call[n].s] = n
       THEN /\ future' = [future EXCEPT ![call[n].s] = NoCall]
            /\ running' = IF call[n].st = "returned" THEN running \ {call[n].s} ELSE running
       ELSE UNCHANGED <<future, running>>
    /\ UNCHANGED <<clock, defVars, stopVars, io, thread, queue, caller, row, late, used>>

(* The future is done, or was cancelled, and _callback_done runs.           *)
Retire(n) ==
    /\ call[n].st \in {"returned", "cancelled"}
    /\ call' = [call EXCEPT ![n] = FreeCall]
    /\ IF future[call[n].s] = n
       THEN /\ future' = [future EXCEPT ![call[n].s] = NoCall]
            /\ running' = running \ {call[n].s}
       ELSE UNCHANGED <<future, running>>
    /\ UNCHANGED <<clock, defVars, stopVars, io, thread, queue, caller, row, late, used>>

-----------------------------------------------------------------------------
(* Shutdown, which may be called again. *)

Futures == {future[s] : s \in Sched} \ {NoCall}

BeginShutdown ==
    /\ toCancel = {}
    /\ stopping' = TRUE
    /\ toCancel' = Futures
    /\ UNCHANGED <<clock, defVars, running, future, closed, drained, io, thread, poolVars, caller, row, late, used>>

CancelOne(n) ==
    /\ n \in toCancel
    /\ Cancel(n)
    /\ toCancel' = toCancel \ {n}
    /\ UNCHANGED <<clock, defVars, running, future, stopping, closed, drained, io, thread, caller, row, late, used>>

(* stop() also shuts the pool down and cancels what it had queued.          *)
ShutdownExecutor ==
    /\ stopping /\ toCancel = {} /\ ~closed
    /\ closed' = TRUE
    /\ call' = [n \in Call |-> IF n \in Range(queue) THEN [call[n] EXCEPT !.st = "cancelled"]
                              ELSE call[n]]
    /\ queue' = <<>>
    /\ UNCHANGED <<clock, defVars, running, future, stopping, toCancel, drained, io, thread, caller, row, late, used>>

(* Mutant: drain waits for the futures alone.                               *)
DrainedByFutures ==
    /\ stopping /\ toCancel = {} /\ ~drained
    /\ Futures = {}
    /\ drained' = TRUE
    /\ UNCHANGED <<clock, defVars, running, future, stopping, toCancel, closed, io, thread, poolVars,
                   caller, row, late, used>>

Drained ==
    /\ stopping /\ toCancel = {} /\ ~drained
    /\ thread.pc = "dead" /\ running = {} /\ Futures = {}
    /\ drained' = TRUE
    /\ UNCHANGED <<clock, defVars, running, future, stopping, toCancel, closed, io, thread, poolVars,
                   caller, row, late, used>>

Tick ==
    /\ clock < MaxClock
    /\ clock' = clock + 1
    /\ UNCHANGED <<defVars, running, future, stopVars, io, thread, poolVars, caller, row, late, used>>

(* The process dies, and the next start loads the persisted rows.           *)
Restart ==
    /\ used.crashes < MaxCrashes
    /\ used' = [used EXCEPT !.crashes = @ + 1]
    /\ LET rows == {s \in Sched : row[s].there} IN
       \E g \in [Sched -> 0..Cardinality(rows)] :
          /\ \A s \in Sched : g[s] = 0 <=> s \notin rows
          /\ \A s, t \in rows : g[s] = g[t] => s = t
          /\ generation' = g
          /\ counter' = Cardinality(rows)
          /\ due' = [s \in Sched |-> row[s].next]
          /\ enabled' = [s \in Sched |-> row[s].there /\ row[s].on]
    /\ running' = {}
    /\ future' = [s \in Sched |-> NoCall]
    /\ stopping' = FALSE /\ toCancel' = {} /\ closed' = FALSE /\ drained' = FALSE
    /\ io' = "free"
    /\ thread' = Scanning
    /\ call' = [n \in Call |-> FreeCall]
    /\ queue' = <<>>
    /\ caller' = [c \in Caller |-> IdleCaller]
    /\ late' = {}
    /\ UNCHANGED <<clock, row>>

-----------------------------------------------------------------------------
Command(c) ==
    \/ \E s \in Sched : SaveSchedule(c, s) \/ Replace(c, s) \/ Enable(c, s) \/ Disable(c, s)
                        \/ RemoveSchedule(c, s) \/ Reaffirm(c, s)
CallerStep(c) == Add(c) \/ CallerWrites(c) \/ CallerCancels(c) \/ CallerStores(c)
Rescheduling == (\E r \in thread.resched : CheckReschedule(r)) \/ WriteReschedule
Submitting == \E d \in thread.calls : Submit(d) \/ SubmitRaises(d)
CallStep(n) == Take(n) \/ Check(n) \/ CallbackEnds(n) \/ CaptureNext(n) \/ WriteNext(n) \/ Retire(n)
ShutdownStep == (\E n \in toCancel : CancelOne(n)) \/ ShutdownExecutor \/ Drained

Next ==
    \/ \E c \in Caller : Command(c) \/ CallerStep(c)
    \/ Scan \/ ThreadEnds \/ Rescheduling \/ Submitting
    \/ \E n \in Call : CallStep(n)
    \/ BeginShutdown \/ ShutdownStep
    \/ Tick \/ Restart

Spec == Init /\ [][Next]_vars

(* Threads go on: the lock is handed to whoever waits for it, the pool works*)
(* off its queue, and a callback, which only submits a run, returns.        *)
Fairness ==
    /\ WF_vars(ThreadEnds) /\ WF_vars(Scan)
    /\ SF_vars(Rescheduling) /\ WF_vars(Submitting)
    /\ \A n \in Call : SF_vars(CallStep(n))
    /\ \A c \in Caller : WF_vars(CallerStep(c))
    /\ WF_vars(ShutdownStep)

FairSpec == Spec /\ Fairness

-----------------------------------------------------------------------------
(* Properties. *)

Times == 0..(MaxClock + Period)

TypeOK ==
    /\ clock \in 0..MaxClock
    /\ counter \in Nat
    /\ generation \in [Sched -> 0..counter]
    /\ due \in [Sched -> Times]
    /\ enabled \in [Sched -> BOOLEAN]
    /\ running \subseteq Sched
    /\ future \in [Sched -> Call \cup {NoCall}]
    /\ {stopping, closed, drained} \subseteq BOOLEAN
    /\ io \in {"free", "thread"} \cup Caller \cup Call
    /\ thread.pc \in {"scan", "work", "write", "dead"}
    /\ \A r \in thread.resched \cup thread.item : r \in [s : Sched, gen : Nat, next : Times]
    /\ thread.calls \subseteq [s : Sched, gen : Nat, occ : Times, next : Times]
    /\ call \in [Call -> [st : {"free", "queued", "cancelled"} \cup Executing, s : Sched, gen : Nat,
                          occ : Times, next : Times]]
    /\ \A i, j \in 1..Len(queue) : queue[i] \in Call /\ (queue[i] = queue[j] => i = j)
    /\ caller \in [Caller -> [pc : {"idle", "add", "write", "cancel", "storeOn", "storeOff", "delete"},
                              s : Sched, next : Times, victim : Call \cup {NoCall},
                              then : {"idle", "storeOn", "storeOff", "delete"}]]
    /\ toCancel \subseteq Call
    /\ row \in [Sched -> [there : BOOLEAN, next : Times, on : BOOLEAN]]

(* A schedule is never called twice at once, whatever is replaced, disabled,*)
(* enabled again or removed while a call of it runs.                        *)
NoOverlap ==
    \A m, n \in Call : m # n /\ call[m].s = call[n].s => ~(call[m].st = "calling" /\ call[n].st = "calling")

(* _running holds a schedule exactly while one dispatch or one registered   *)
(* future of it exists: a mark that leaks stops the schedule silently.      *)
RunningExact ==
    \A s \in Sched : s \in running <=> (\E d \in thread.calls : d.s = s) # (future[s] # NoCall)

(* After drain() returned True no callback runs or is queued, and nobody but*)
(* a command is about to write a schedule's row.                            *)
DrainedIsQuiet ==
    drained => /\ \A n \in Call : call[n].st = "free"
               /\ io \in {"free"} \cup Caller

(* Whoever holds the definition lock to write a due time writes it for the  *)
(* definition that is loaded now: no write of a replaced or removed schedule*)
(* lands late.  Only the scan that disables an invalid rule does not wait.  *)
WriterIsCurrent ==
    /\ \A n \in Call : io = n => Current(call[n].s, call[n].gen) \/ ~enabled[call[n].s]
    /\ io = "thread" => \A r \in thread.item : Current(r.s, r.gen)

(* When nothing of an enabled schedule is under way, its row says when it is*)
(* due: long callbacks, skipped occurrences and replacements never leave an *)
(* older time behind, unless the write itself failed.                       *)
AtRest(s) ==
    /\ s \notin running
    /\ \A n \in Call : call[n].st # "free" => call[n].s # s
    /\ \A r \in thread.resched : r.s # s
    /\ \A c \in Caller : caller[c].pc # "idle" => caller[c].s # s
DurableSettles ==
    \A s \in Sched : AtRest(s) /\ ~stopping /\ row[s].there /\ enabled[s] /\ s \notin late
                     => row[s].next = due[s]

(* Until an occurrence is attempted its row still names it, or an earlier   *)
(* one, so that a restart makes it up; unless a later occurrence was skipped*)
(* while it waited.                                                         *)
Waiting(s) ==
    {[gen |-> d.gen, occ |-> d.occ, next |-> d.next] : d \in {d \in thread.calls : d.s = s}} \cup
    {[gen |-> call[n].gen, occ |-> call[n].occ, next |-> call[n].next] :
        n \in {n \in Call : call[n].s = s /\ call[n].st \in {"queued", "started"}}}
DispatchNotPersisted ==
    \A s \in Sched : \A d \in Waiting(s) :
        Current(s, d.gen) /\ row[s].there /\ due[s] = d.next => row[s].next <= d.occ

(* The same without the exception, as the audit states it.                  *)
OccurrenceCovered ==
    \A s \in Sched : \A d \in Waiting(s) :
        Current(s, d.gen) /\ row[s].there => row[s].next <= d.occ

(* A schedule marked as running is not marked for ever.                     *)
RunningEnds == \A s \in Sched : s \in running ~> s \notin running

(* A shutdown drains.                                                       *)
ShutdownDrains == stopping ~> (drained \/ ~stopping)
=============================================================================
