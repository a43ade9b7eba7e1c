------------------------ MODULE RunOrchestratorProofs ------------------------
(* Theorems about RunOrchestrator, for every set of runs, requests and       *)
(* hosts and every limit: who owns a run and its row, and what is over when  *)
(* the fetcher is closed.                                                    *)
EXTENDS RunOrchestrator, TLAPS

USE DEF Terminal, Control, Status, Done

-----------------------------------------------------------------------------
(* The inductive invariant.                                                 *)

Looping == {"first", "check", "collect", "save", "scan", "fill", "commit"}

(* The part of TypeOK the argument needs.                                   *)
Tables ==
    /\ row \in [Runs -> Status \cup {"none"}]
    /\ status \in [Runs -> Status]
    /\ sub \in [Runs -> {"new", "save", "handoff", "hook", "leave", "done"} \cup Rejection]
    /\ work \in [Runs -> Looping \cup {"none", "queued", "final", "finished", "cancelled"}]
    /\ snap \in [Runs -> Control \cup Terminal \cup {"none"}]
    /\ said \in [Runs -> Status \cup {"none"}]
    /\ retirer \in [Runs -> {"none", "submitter", "worker", "user", "shutdown"}]
    /\ handles \subseteq Runs
    /\ req \in [Request -> {"pending", "queued", "fetch", "parse", "done", "gone"}]

(* What a run's future, its place in the registry and its row say of each   *)
(* other: an accepted run is registered until its terminal row is written,   *)
(* only the end of its future brings its retirement, its last snapshot is    *)
(* its outcome and its row ends with it; a refused run that was not queued   *)
(* is failed and says so.                                                   *)
Owned(r) ==
    /\ work[r] # "none" => sub[r] \in {"hook", "leave", "done"} \cup Rejection
    /\ work[r] \in Looping => status[r] # "queued"
    /\ work[r] \in {"none", "queued"} => snap[r] = "none"
    /\ r \in handles => Accepted(r)
    /\ r \in failed \cup toRetry => Done(r)
    /\ retirer[r] # "none" => r \in handles /\ Done(r)
    /\ Accepted(r) =>
        /\ r \notin handles => Done(r) /\ row[r] \in Terminal
        /\ work[r] \in Looping => status[r] \in Control /\ snap[r] \notin Terminal
        /\ work[r] = "final" => status[r] \in Terminal /\ snap[r] = status[r]
    /\ work[r] = "none" =>
        /\ sub[r] \in {"rejected", "tell"} => status[r] = "failed"
        /\ sub[r] = "tell" => said[r] = "failed"
    /\ row[r] \in Terminal /\ ~Orphan(r) =>
        /\ row[r] = status[r]
        /\ work[r] \in {"none", "finished", "cancelled"}
        /\ work[r] = "none" => sub[r] \in {"back", "refused"}

(* What a drain that returned True leaves behind, for good: intake stays     *)
(* closed, so nothing enters the registries again.                           *)
Quiet ==
    fetcher # "open" =>
        /\ closed
        /\ handles = {} /\ RequestFutures = {} /\ Pending = {}

RunInv == Tables /\ (\A r \in Runs : Owned(r)) /\ Quiet

-----------------------------------------------------------------------------
(* A snapshot that is not terminal leaves a row that is not; a terminal one  *)
(* ends the row or finds it ended.                                           *)
LEMMA SavedRow ==
  ASSUME NEW old \in Status \cup {"none"}, NEW new \in Status \cup {"none"}
  PROVE  /\ Saved(old, new) \in {old, new}
         /\ new \in Terminal => Saved(old, new) = new
         /\ old \in Terminal /\ new \notin Terminal => Saved(old, new) = old
  BY DEF Saved

(* A write of the store, whether it returns or raises, stores the status it  *)
(* was given, or leaves the row as it was; other rows are left alone.        *)
LEMMA WrittenRow ==
  ASSUME Tables, NEW r \in Runs, NEW s \in Status \cup {"none"}, SaveRun(r, s) \/ SaveRaises(r, s)
  PROVE  /\ row' \in [Runs -> Status \cup {"none"}]
         /\ row'[r] \in {row[r], s}
         /\ row[r] \in Terminal /\ s \notin Terminal => row'[r] = row[r]
         /\ \A x \in Runs \ {r} : row'[x] = row[x]
  BY SavedRow DEF Tables, SaveRun, SaveRaises

(* A run none of whose tables a step touches keeps its part.                 *)
LEMMA Untouched ==
  ASSUME NEW x, Owned(x),
         row'[x] = row[x], status'[x] = status[x], sub'[x] = sub[x], work'[x] = work[x],
         snap'[x] = snap[x], said'[x] = said[x], x \in handles' <=> x \in handles,
         x \in failed' \cup toRetry' => x \in failed \cup toRetry,
         retirer'[x] = retirer[x]
  PROVE  Owned(x)'
  BY DEF Owned, Accepted, Orphan

(* A retirement is entered for a registered run whose future is over.        *)
LEMMA Entered ==
  ASSUME Tables, NEW r \in Runs, NEW who \in {"submitter", "worker", "user", "shutdown"},
         EnterRetire(r, who)
  PROVE  /\ retirer' \in [Runs -> {"none", "submitter", "worker", "user", "shutdown"}]
         /\ failed' \subseteq failed
         /\ \A x \in Runs \ {r} : retirer'[x] = retirer[x]
         /\ retirer'[r] # "none" => r \in handles \/ retirer'[r] = retirer[r]
  BY DEF EnterRetire, Tables

(* The end of a run touches its own future, status and requests.             *)
LEMMA Ended ==
  ASSUME Tables, NEW r \in Runs, NEW outcome \in Terminal, NEW tokens, EndRun(r, outcome, tokens)
  PROVE  /\ work' \in [Runs -> Looping \cup {"none", "queued", "final", "finished", "cancelled"}]
         /\ status' \in [Runs -> Status]
         /\ snap' \in [Runs -> Control \cup Terminal \cup {"none"}]
         /\ req' \in [Request -> {"pending", "queued", "fetch", "parse", "done", "gone"}]
         /\ work'[r] = "final" /\ status'[r] = outcome /\ snap'[r] = outcome
         /\ \A x \in Runs \ {r} :
             work'[x] = work[x] /\ status'[x] = status[x] /\ snap'[x] = snap[x]
         /\ RequestFutures' \subseteq RequestFutures
<1>1. \A q \in Request : req'[q] \in {"gone", req[q]}
  BY DEF EndRun
<1>2. req' = [q \in Request |-> req'[q]]
  BY DEF EndRun
<1> QED
  BY <1>1, <1>2 DEF EndRun, Tables, RequestFutures
-----------------------------------------------------------------------------
(* Each action keeps the invariant.                                         *)

LEMMA InitInv == Init => RunInv
  BY DEF Init, RunInv, Tables, Owned, Quiet, Looping, Accepted, Orphan

(* The submission of a run.                                                 *)
LEMMA SubmitInv ==
  ASSUME RunInv, NEW r \in Runs, Submit(r)
  PROVE  RunInv'
<1> USE DEF Looping, Accepted, Orphan, Rejection, strayVars
<1>1. Tables'
  BY DEF RunInv, Tables, Submit, runVars, retireVars, gateVars
<1>2. ASSUME NEW x \in Runs PROVE Owned(x)'
  BY DEF RunInv, Tables, Owned, Submit, runVars, retireVars, shutVars
<1>3. Quiet'
  BY DEF RunInv, Quiet, Submit, shutVars
<1> QED
  BY <1>1, <1>2, <1>3 DEF RunInv

LEMMA CreateRowInv ==
  ASSUME RunInv, NEW r \in Runs, CreateRow(r)
  PROVE  RunInv'
<1> USE DEF Looping, Accepted, Orphan, Rejection, strayVars
<1>1. SaveRun(r, "queued") \/ SaveRaises(r, "queued")
  BY DEF CreateRow
<1>2. Tables'
  BY <1>1, WrittenRow DEF RunInv, Tables, CreateRow, runVars, retireVars, gateVars
<1>3. ASSUME NEW x \in Runs PROVE Owned(x)'
  BY <1>1, WrittenRow DEF RunInv, Tables, Owned, CreateRow, runVars, retireVars, shutVars
<1>4. Quiet'
  BY DEF RunInv, Quiet, CreateRow, shutVars, retireVars, gateVars, Pending, RequestFutures
<1> QED
  BY <1>2, <1>3, <1>4 DEF RunInv

LEMMA HandOffInv ==
  ASSUME RunInv, NEW r \in Runs, HandOff(r) \/ HandOffRaises(r)
  PROVE  RunInv'
<1> USE DEF Looping, Accepted, Orphan, Rejection, strayVars
<1>1. Tables'
  BY DEF RunInv, Tables, HandOff, HandOffRaises, retireVars, gateVars
<1>2. ASSUME NEW x \in Runs PROVE Owned(x)'
  BY DEF RunInv, Tables, Owned, HandOff, HandOffRaises, retireVars, shutVars
<1>3. Quiet'
  BY DEF RunInv, Quiet, HandOff, HandOffRaises, retireVars, shutVars, gateVars, Pending, RequestFutures
<1> QED
  BY <1>1, <1>2, <1>3 DEF RunInv

LEMMA RejectInv ==
  ASSUME RunInv, NEW r \in Runs, Reject(r) \/ SnapshotRejected(r)
  PROVE  RunInv'
<1> USE DEF Looping, Accepted, Orphan, Rejection, strayVars
<1>1. Tables'
  BY DEF RunInv, Tables, Reject, SnapshotRejected, runVars, retireVars, gateVars
<1>2. ASSUME NEW x \in Runs PROVE Owned(x)'
  BY DEF RunInv, Tables, Owned, Reject, SnapshotRejected, runVars, retireVars, shutVars
<1>3. Quiet'
  BY DEF RunInv, Quiet, Reject, SnapshotRejected, shutVars, retireVars, gateVars, Pending,
     RequestFutures
<1> QED
  BY <1>1, <1>2, <1>3 DEF RunInv

LEMMA SaveRejectedInv ==
  ASSUME RunInv, NEW r \in Runs, SaveRejected(r)
  PROVE  RunInv'
<1> USE DEF Looping, Accepted, Orphan, Rejection, strayVars
<1>1. SaveRun(r, said[r]) \/ SaveRaises(r, said[r])
  BY DEF SaveRejected
<1>2. said[r] \in Status \cup {"none"}
  BY DEF RunInv, Tables
<1>3. Tables'
  BY <1>1, <1>2, WrittenRow DEF RunInv, Tables, SaveRejected, runVars, retireVars, gateVars
<1>4. ASSUME NEW x \in Runs PROVE Owned(x)'
  BY <1>1, <1>2, WrittenRow DEF RunInv, Tables, Owned, SaveRejected, runVars, retireVars, shutVars
<1>5. Quiet'
  BY DEF RunInv, Quiet, SaveRejected, shutVars, retireVars, gateVars, Pending, RequestFutures
<1> QED
  BY <1>3, <1>4, <1>5 DEF RunInv

LEMMA HookInv ==
  ASSUME RunInv, NEW r \in Runs, Hook(r) \/ Leave(r)
  PROVE  RunInv'
<1> USE DEF Looping, Accepted, Orphan, Rejection, strayVars
<1>1. CASE Hook(r)
  <2>1. Tables'
    BY <1>1 DEF RunInv, Tables, Hook, EnterRetire, runVars, gateVars
  <2>2. ASSUME NEW x \in Runs PROVE Owned(x)'
    BY <1>1 DEF RunInv, Tables, Owned, Hook, EnterRetire, runVars, shutVars
  <2>3. Quiet'
    BY <1>1 DEF RunInv, Quiet, Hook, shutVars, gateVars, Pending, RequestFutures
  <2> QED
    BY <2>1, <2>2, <2>3 DEF RunInv
<1>2. CASE Leave(r)
  <2>1. Tables'
    BY <1>2 DEF RunInv, Tables, Leave, runVars, retireVars, gateVars
  <2>2. ASSUME NEW x \in Runs PROVE Owned(x)'
    BY <1>2 DEF RunInv, Tables, Owned, Leave, runVars, retireVars, shutVars
  <2>3. Quiet'
    BY <1>2 DEF RunInv, Quiet, Leave, shutVars, retireVars, gateVars, Pending, RequestFutures
  <2> QED
    BY <2>1, <2>2, <2>3 DEF RunInv
<1> QED
  BY <1>1, <1>2

(* A step that touches neither the registries nor a row, a submission or a   *)
(* request keeps what a drain left behind.                                   *)
LEMMA StaysQuiet ==
  ASSUME Quiet, UNCHANGED <<fetcher, closed, handles, sub>>,
         fetcher # "open" => RequestFutures' \subseteq RequestFutures
  PROVE  Quiet'
  BY DEF Quiet, Pending

(* Where the fetcher is being closed no run is at work but an orphan.        *)
LEMMA NobodyWorks ==
  ASSUME RunInv, NEW r \in Runs, fetcher # "open", ~Orphan(r)
  PROVE  work[r] \in {"none", "finished", "cancelled"}
  BY DEF RunInv, Quiet, Owned, Accepted, Orphan

(* The end of a run keeps the invariant, whatever the same step saved before.*)
LEMMA EndRunInv ==
  ASSUME RunInv, NEW r \in Runs, NEW outcome \in Terminal, NEW tokens, EndRun(r, outcome, tokens),
         work[r] \in Looping,
         row' = row \/ SaveRaises(r, snap[r]),
         UNCHANGED <<sub, retireVars, shutVars, said>>
  PROVE  RunInv'
<1>1. snap[r] \in Status \cup {"none"}
  BY DEF RunInv, Tables
<1>2. /\ row' \in [Runs -> Status \cup {"none"}]
      /\ row'[r] \in {row[r], snap[r]}
      /\ \A x \in Runs \ {r} : row'[x] = row[x]
  <2>1. CASE row' = row
    BY <2>1 DEF RunInv, Tables
  <2>2. CASE SaveRaises(r, snap[r])
    BY <1>1, <2>2, WrittenRow DEF RunInv
  <2> QED
    BY <2>1, <2>2
<1>3. Tables'
  BY <1>2, Ended DEF RunInv, Tables, retireVars
<1>4. Owned(r)'
  BY <1>1, <1>2, Ended DEF RunInv, Owned, Looping, Accepted, Orphan, retireVars, shutVars
<1>5. ASSUME NEW x \in Runs \ {r} PROVE Owned(x)'
  BY <1>2, Ended, Untouched DEF RunInv, retireVars, shutVars
<1>6. Quiet'
  BY Ended, StaysQuiet DEF RunInv, retireVars, shutVars
<1> QED
  BY <1>3, <1>4, <1>5, <1>6 DEF RunInv
(* The loop of the thread that executes a run.                              *)
LEMMA StartInv ==
  ASSUME RunInv, NEW r \in Runs, Start(r) \/ SnapshotFirst(r)
  PROVE  RunInv'
<1>1. UNCHANGED <<row, sub, retireVars, gateVars, shutVars, said>>
  BY DEF Start, SnapshotFirst, strayVars
<1>2. Tables'
  BY <1>1 DEF RunInv, Tables, Owned, Looping, Start, SnapshotFirst, retireVars, gateVars
<1>3. ASSUME NEW x \in Runs PROVE Owned(x)'
  BY <1>1 DEF RunInv, Tables, Owned, Looping, Accepted, Orphan, Start, SnapshotFirst, retireVars,
     shutVars
<1>4. Quiet'
  BY <1>1, StaysQuiet DEF RunInv, retireVars, shutVars, gateVars, RequestFutures
<1> QED
  BY <1>2, <1>3, <1>4 DEF RunInv

(* A step that moves a run from one place of its loop to another.            *)
LEMMA LoopInv ==
  ASSUME RunInv, NEW r \in Runs, work[r] \in Looping,
         NEW to \in Looping, work' = [work EXCEPT ![r] = to],
         \/ UNCHANGED <<row, snap>>
         \/ SaveRun(r, snap[r]) /\ snap' = [snap EXCEPT ![r] = "none"]
         \/ row' = row /\ snap' = [snap EXCEPT ![r] = status[r]],
         req' \in [Request -> {"pending", "queued", "fetch", "parse", "done", "gone"}],
         closed => RequestFutures' \subseteq RequestFutures,
         UNCHANGED <<sub, status, retireVars, shutVars, said>>
  PROVE  RunInv'
<1>1. snap[r] \in Status \cup {"none"}
  BY DEF RunInv, Tables
<1>2. /\ row' \in [Runs -> Status \cup {"none"}]
      /\ row'[r] \in {row[r], snap[r]}
      /\ \A x \in Runs \ {r} : row'[x] = row[x]
  <2>1. CASE row' = row
    BY <2>1 DEF RunInv, Tables
  <2>2. CASE SaveRun(r, snap[r])
    BY <1>1, <2>2, WrittenRow DEF RunInv
  <2> QED
    BY <2>1, <2>2
<1>3. status[r] \in Control \cup Terminal
  BY DEF RunInv, Owned, Tables
<1>4. Tables'
  <2>1. work' \in [Runs -> Looping \cup {"none", "queued", "final", "finished", "cancelled"}]
    BY DEF RunInv, Tables
  <2>2. snap' \in [Runs -> Control \cup Terminal \cup {"none"}]
    BY <1>3 DEF RunInv, Tables
  <2> QED
    BY <1>2, <2>1, <2>2 DEF RunInv, Tables, retireVars
<1>5. ASSUME NEW x \in Runs PROVE Owned(x)'
  BY <1>1, <1>2 DEF RunInv, Tables, Owned, Looping, Accepted, Orphan, retireVars, shutVars
<1>6. Quiet'
  BY StaysQuiet DEF RunInv, Quiet, retireVars, shutVars
<1> QED
  BY <1>4, <1>5, <1>6 DEF RunInv

LEMMA WriteProgressInv ==
  ASSUME RunInv, NEW r \in Runs, WriteProgress(r)
  PROVE  RunInv'
<1>1. work[r] \in Looping /\ UNCHANGED <<sub, retireVars, shutVars, said>>
  BY DEF WriteProgress, Looping, strayVars
<1>2. CASE SaveRaises(r, snap[r]) /\ EndRun(r, "failed", {})
  BY <1>1, <1>2, EndRunInv
<1>3. CASE /\ SaveRun(r, snap[r])
           /\ snap' = [snap EXCEPT ![r] = "none"]
           /\ \/ work' = [work EXCEPT ![r] = "scan"]
              \/ CollectsMore(r, {})
           /\ UNCHANGED <<status, refused, tokenVars, gateVars>>
  <2>1. PICK to \in Looping : work' = [work EXCEPT ![r] = to]
    BY <1>3 DEF CollectsMore, Looping
  <2>2. /\ req' \in [Request -> {"pending", "queued", "fetch", "parse", "done", "gone"}]
        /\ RequestFutures' \subseteq RequestFutures
    BY <1>3 DEF RunInv, Tables, gateVars, RequestFutures
  <2> QED
    BY <1>1, <1>3, <2>1, <2>2, LoopInv
<1> QED
  BY <1>2, <1>3 DEF WriteProgress

LEMMA CheckpointInv ==
  ASSUME RunInv, NEW r \in Runs, CheckpointCancels(r) \/ CheckpointPasses(r)
  PROVE  RunInv'
<1>1. CASE CheckpointCancels(r)
  <2>1. /\ work[r] \in Looping /\ EndRun(r, "cancelled", {})
        /\ UNCHANGED <<row, sub, retireVars, shutVars, said>>
    BY <1>1 DEF CheckpointCancels, Looping, strayVars
  <2> QED
    BY <2>1, EndRunInv
<1>2. CASE CheckpointPasses(r)
  <2>1. /\ work[r] \in Looping
        /\ UNCHANGED <<row, sub, status, snap, retireVars, gateVars, shutVars, said>>
    BY <1>2 DEF CheckpointPasses, Looping, strayVars
  <2>2. PICK to \in {"fill", "commit", "collect"} : work' = [work EXCEPT ![r] = to]
    BY <1>2 DEF CheckpointPasses, RunInv, Tables
  <2>3. to \in Looping
    BY DEF Looping
  <2>4. /\ req' \in [Request -> {"pending", "queued", "fetch", "parse", "done", "gone"}]
        /\ RequestFutures' \subseteq RequestFutures
    BY <2>1 DEF RunInv, Tables, gateVars, RequestFutures
  <2> QED
    BY <2>1, <2>2, <2>3, <2>4, LoopInv
<1> QED
  BY <1>1, <1>2

LEMMA CollectInv ==
  ASSUME RunInv, NEW r \in Runs, NEW q \in Request, Collect(r, q)
  PROVE  RunInv'
<1>1. work[r] \in Looping /\ UNCHANGED <<row, sub, retireVars, shutVars, said>>
  BY DEF Collect, Looping, strayVars
<1>2. CASE \E outcome \in Terminal : EndRun(r, outcome, {})
  BY <1>1, <1>2, EndRunInv
<1>3. CASE /\ req' = [req EXCEPT ![q] = "gone"]
           /\ \/ CollectsMore(r, {q}) /\ UNCHANGED snap
              \/ work' = [work EXCEPT ![r] = "scan"] /\ UNCHANGED snap
              \/ work' = [work EXCEPT ![r] = "save"] /\ snap' = [snap EXCEPT ![r] = status[r]]
           /\ UNCHANGED <<status, refused, waiters, active, users, tokenVars, faults>>
  <2>1. PICK to \in Looping :
           /\ work' = [work EXCEPT ![r] = to]
           /\ snap' = snap \/ snap' = [snap EXCEPT ![r] = status[r]]
    BY <1>3 DEF CollectsMore, Looping
  <2>2. /\ req' \in [Request -> {"pending", "queued", "fetch", "parse", "done", "gone"}]
        /\ RequestFutures' \subseteq RequestFutures
    BY <1>3 DEF RunInv, Tables, RequestFutures
  <2> QED
    BY <1>1, <1>3, <2>1, <2>2, LoopInv
<1> QED
  BY <1>2, <1>3 DEF Collect

(* The attempts to admit a request, and what ends a run while it tries.      *)
Ending(r) ==
    ResourcePressure(r) \/ Commit(r) \/ \E q \in Request : AdmitClosed(r, q) \/ AdmitRaises(r, q)
Trying(r) ==
    \/ PassEnds(r)
    \/ \E q \in Request :
        AdmitHostFull(r, q) \/ AdmitGateRefuses(r, q) \/ AdmitDelayed(r, q) \/ Admit(r, q)

LEMMA EndingInv ==
  ASSUME RunInv, NEW r \in Runs, Ending(r)
  PROVE  RunInv'
<1>1. work[r] \in Looping /\ UNCHANGED <<row, sub, retireVars, shutVars, said>>
  BY DEF Ending, ResourcePressure, AdmitClosed, AdmitRaises, Commit, Asks, Looping, strayVars
<1>2. \E outcome \in Terminal, tokens \in {{}, {r}} : EndRun(r, outcome, tokens)
  BY DEF Ending, ResourcePressure, AdmitClosed, AdmitRaises, Commit
<1> QED
  BY <1>1, <1>2, EndRunInv

LEMMA TryingInv ==
  ASSUME RunInv, NEW r \in Runs, Trying(r)
  PROVE  RunInv'
<1>1. work[r] = "fill" /\ UNCHANGED <<row, sub, status, snap, retireVars, shutVars, said>>
  BY DEF Trying, AdmitHostFull, AdmitGateRefuses, AdmitDelayed, Admit, PassEnds, Asks, runVars,
     strayVars
<1>2. work' = work \/ work' = [work EXCEPT ![r] = "check"]
  BY DEF Trying, AdmitHostFull, AdmitGateRefuses, AdmitDelayed, Admit, PassEnds, runVars
<1>3. PICK to \in Looping : work' = [work EXCEPT ![r] = to]
  <2>1. CASE work' = work
    BY <1>1, <2>1 DEF RunInv, Tables, Looping
  <2>2. CASE work' = [work EXCEPT ![r] = "check"]
    BY <2>2 DEF Looping
  <2> QED
    BY <1>2, <2>1, <2>2
<1>4. /\ req' \in [Request -> {"pending", "queued", "fetch", "parse", "done", "gone"}]
      /\ closed => RequestFutures' \subseteq RequestFutures
  BY DEF Trying, AdmitHostFull, AdmitGateRefuses, AdmitDelayed, Admit, PassEnds, gateVars,
         RunInv, Tables, RequestFutures
<1>5. work[r] \in Looping
  BY <1>1 DEF Looping
<1> QED
  BY <1>1, <1>3, <1>4, <1>5, LoopInv

-----------------------------------------------------------------------------
LEMMA FinishInv ==
  ASSUME RunInv, NEW r \in Runs, Finish(r)
  PROVE  RunInv'
<1>1. /\ work[r] = "final" /\ work' = [work EXCEPT ![r] = "finished"]
      /\ snap' = [snap EXCEPT ![r] = "none"]
      /\ IF Hooked(r) THEN EnterRetire(r, "worker") ELSE UNCHANGED <<retirer, failed>>
      /\ UNCHANGED <<sub, status, handles, gateVars, shutVars, said>>
  BY DEF Finish, strayVars
<1>2. PICK s \in {snap[r], status[r]} : SaveRun(r, s) \/ SaveRaises(r, s)
  BY DEF Finish
<1>3. s \in Status \cup {"none"} /\ (Accepted(r) => s = status[r])
  BY <1>1 DEF RunInv, Tables, Owned
<1>4. /\ row' \in [Runs -> Status \cup {"none"}]
      /\ row'[r] \in {row[r], s}
      /\ \A x \in Runs \ {r} : row'[x] = row[x]
  BY <1>2, <1>3, WrittenRow DEF RunInv
<1>5. EnterRetire(r, "worker") \/ UNCHANGED <<retirer, failed>>
  BY <1>1
<1>6. Tables'
  BY <1>1, <1>4, <1>5, Entered DEF RunInv, Tables, gateVars
<1>7. Owned(r)'
  BY <1>1, <1>3, <1>4, <1>5, Entered DEF RunInv, Tables, Owned, Looping, Accepted, Orphan, shutVars
<1>8. ASSUME NEW x \in Runs \ {r} PROVE Owned(x)'
  BY <1>1, <1>4, <1>5, Entered, Untouched DEF RunInv, Tables, shutVars
<1>9. Quiet'
  BY <1>1, StaysQuiet DEF RunInv, shutVars, gateVars, RequestFutures
<1> QED
  BY <1>6, <1>7, <1>8, <1>9 DEF RunInv

(* The terminal write of a retirement.                                      *)
LEMMA FinalStatusType ==
  ASSUME Tables, NEW r \in Runs
  PROVE  FinalStatus(r) \in Terminal /\ (status[r] \in Terminal => FinalStatus(r) = status[r])
  BY DEF FinalStatus

LEMMA RetireInv ==
  ASSUME RunInv, NEW r \in Runs, RetireStep(r)
  PROVE  RunInv'
<1>1. /\ retirer[r] # "none"
      /\ SaveRun(r, FinalStatus(r)) \/ SaveRaises(r, FinalStatus(r))
      /\ status' = [status EXCEPT ![r] = FinalStatus(r)]
      /\ retirer' = [retirer EXCEPT ![r] = "none"]
      /\ UNCHANGED <<sub, work, snap, gateVars, shutVars, said>>
  BY DEF RetireStep, RetireSucceeds, RetireFails, strayVars
<1>2. r \in handles /\ Done(r) /\ ~Orphan(r)
  BY <1>1 DEF RunInv, Owned, Accepted, Orphan
<1>3. FinalStatus(r) \in Terminal /\ FinalStatus(r) \in Status \cup {"none"}
  BY FinalStatusType DEF RunInv
<1>4. /\ row' \in [Runs -> Status \cup {"none"}]
      /\ row'[r] \in {row[r], FinalStatus(r)}
      /\ \A x \in Runs \ {r} : row'[x] = row[x]
  BY <1>1, <1>3, WrittenRow DEF RunInv
<1>5. row[r] \in Terminal => FinalStatus(r) = row[r]
  BY <1>2, FinalStatusType DEF RunInv, Owned
<1>6. \/ handles' = handles \ {r} /\ failed' = failed /\ row'[r] \in Terminal
      \/ handles' = handles /\ failed' = failed \cup {r}
  <2>1. CASE RetireSucceeds(r)
    BY <1>3, <2>1, SavedRow DEF RetireSucceeds, SaveRun, RunInv, Tables
  <2>2. CASE RetireFails(r)
    BY <2>2 DEF RetireFails
  <2> QED
    BY <2>1, <2>2 DEF RetireStep
<1>7. Tables'
  BY <1>1, <1>3, <1>4, <1>6 DEF RunInv, Tables, gateVars
<1>8. Owned(r)'
  BY <1>1, <1>2, <1>3, <1>4, <1>5, <1>6 DEF RunInv, Tables, Owned, Looping, Accepted, Orphan, shutVars
<1>9. ASSUME NEW x \in Runs \ {r} PROVE Owned(x)'
  BY <1>1, <1>4, <1>6, Untouched DEF RunInv, Tables, shutVars
<1>10. fetcher = "open"
  BY <1>2 DEF RunInv, Quiet
<1>11. Quiet'
  BY <1>1, <1>10 DEF Quiet, shutVars
<1> QED
  BY <1>7, <1>8, <1>9, <1>11 DEF RunInv

(* The threads of the requests.                                             *)
LEMMA RequestInv ==
  ASSUME RunInv, NEW q \in Request, RequestStep(q) \/ StrayStep(q)
  PROVE  RunInv'
<1>1. UNCHANGED <<row, sub, runVars, retireVars, shutVars, said>>
  BY DEF RequestStep, FetchStarts, FetchEnds, ParseEnds, StrayStep, StrayStarts, StrayEnds, strayVars
<1>2. /\ req' \in [Request -> {"pending", "queued", "fetch", "parse", "done", "gone"}]
      /\ RequestFutures' \subseteq RequestFutures
  BY DEF RequestStep, FetchStarts, FetchEnds, ParseEnds, StrayStep, StrayStarts, StrayEnds,
     EndRequests, RequestFutures, RunInv, Tables, gateVars
<1>3. Tables'
  BY <1>1, <1>2 DEF RunInv, Tables, runVars, retireVars
<1>4. ASSUME NEW x \in Runs PROVE Owned(x)'
  BY <1>1, Untouched DEF RunInv, runVars, retireVars, shutVars
<1>5. Quiet'
  BY <1>1, <1>2, StaysQuiet DEF RunInv, retireVars, shutVars
<1> QED
  BY <1>3, <1>4, <1>5 DEF RunInv

(* The control calls.                                                       *)
LEMMA ControlInv ==
  ASSUME RunInv, NEW r \in Runs, Pause(r) \/ Resume(r) \/ RollBackControl(r)
  PROVE  RunInv'
<1>1. UNCHANGED <<row, sub, work, snap, retireVars, gateVars, shutVars, said>>
  BY DEF Pause, Resume, RollBackControl, strayVars
<1>2. \/ status' = status
      \/ /\ ~Done(r) /\ status[r] \notin Terminal
         /\ \E s \in Control : status' = [status EXCEPT ![r] = s]
  BY DEF Pause, Resume, RollBackControl, Controllable
<1>3. Tables'
  BY <1>1, <1>2 DEF RunInv, Tables, retireVars, gateVars
<1>4. ASSUME NEW x \in Runs PROVE Owned(x)'
  BY <1>1, <1>2 DEF RunInv, Tables, Owned, Looping, Accepted, Orphan, retireVars, shutVars
<1>5. Quiet'
  BY <1>1, StaysQuiet DEF RunInv, retireVars, shutVars, gateVars, RequestFutures
<1> QED
  BY <1>3, <1>4, <1>5 DEF RunInv

LEMMA PersistControlInv ==
  ASSUME RunInv, NEW r \in Runs, PersistControl(r)
  PROVE  RunInv'
<1>1. UNCHANGED <<sub, runVars, retireVars, gateVars, shutVars, said>>
  BY DEF PersistControl, strayVars
<1>2. \/ row' = row
      \/ /\ row[r] \notin Terminal
         /\ \E s \in Control : row' = [row EXCEPT ![r] = s]
  BY DEF PersistControl
<1>3. Tables'
  BY <1>1, <1>2 DEF RunInv, Tables, runVars, retireVars, gateVars
<1>4. ASSUME NEW x \in Runs PROVE Owned(x)'
  <2>1. x \in handles \/ ~Accepted(x) \/ row[x] \in Terminal
    BY DEF RunInv, Owned
  <2> QED
    BY <1>1, <1>2, <2>1 DEF RunInv, Tables, Owned, Looping, Accepted, Orphan, runVars, retireVars,
       shutVars
<1>5. Quiet'
  BY <1>1, StaysQuiet DEF RunInv, retireVars, shutVars, gateVars, RequestFutures
<1> QED
  BY <1>3, <1>4, <1>5 DEF RunInv

(* The cancellation of a handle, by its user or by a shutdown.              *)
LEMMA CancelHandleInv ==
  ASSUME RunInv, NEW r \in Runs, NEW who \in {"user", "shutdown"}, CancelHandle(r, who),
         UNCHANGED <<row, sub, status, snap, said, handles, gateVars, closed, toRetry, fetcher>>
  PROVE  RunInv'
<1>1. \/ UNCHANGED <<work, retirer, failed>>
      \/ /\ work[r] = "queued" /\ work' = [work EXCEPT ![r] = "cancelled"]
         /\ EnterRetire(r, who) \/ UNCHANGED <<retirer, failed>>
  BY DEF CancelHandle
<1>2. Tables'
  BY <1>1, Entered DEF RunInv, Tables, gateVars
<1>3. ASSUME NEW x \in Runs PROVE Owned(x)'
  BY <1>1, Entered DEF RunInv, Tables, Owned, Looping, Accepted, Orphan
<1>4. Quiet'
  BY DEF RunInv, Quiet, gateVars, RequestFutures, Pending
<1> QED
  BY <1>2, <1>3, <1>4 DEF RunInv

LEMMA CancelInv ==
  ASSUME RunInv, NEW r \in Runs, Cancel(r)
  PROVE  RunInv'
  BY CancelHandleInv DEF Cancel, shutVars, strayVars

(* The shutdown.                                                            *)
LEMMA BeginShutdownInv ==
  ASSUME RunInv, BeginShutdown
  PROVE  RunInv'
<1>1. /\ closed' = TRUE /\ toRetry' \subseteq toRetry \cup failed
      /\ UNCHANGED <<row, sub, runVars, handles, retirer, failed, gateVars, fetcher, said>>
  BY DEF BeginShutdown, strayVars
<1>2. Tables'
  BY <1>1 DEF RunInv, Tables, runVars, gateVars
<1>3. ASSUME NEW x \in Runs PROVE Owned(x)'
  BY <1>1, Untouched DEF RunInv, runVars
<1>4. Quiet'
  BY <1>1 DEF RunInv, Quiet, gateVars, RequestFutures, Pending
<1> QED
  BY <1>2, <1>3, <1>4 DEF RunInv

LEMMA ShutdownInv ==
  ASSUME RunInv, ShutdownStep
  PROVE  RunInv'
<1>1. CASE Signal \/ SignalFails
  <2>1. /\ toRetry' \subseteq toRetry
        /\ UNCHANGED <<row, sub, runVars, handles, retirer, failed, closed, fetcher, said>>
    BY <1>1 DEF Signal, SignalFails, retireVars, strayVars
  <2>2. /\ req' \in [Request -> {"pending", "queued", "fetch", "parse", "done", "gone"}]
        /\ RequestFutures' \subseteq RequestFutures
    BY <1>1 DEF Signal, SignalFails, EndRequests, RequestFutures, RunInv, Tables
  <2>3. Tables'
    BY <2>1, <2>2 DEF RunInv, Tables, runVars
  <2>4. ASSUME NEW x \in Runs PROVE Owned(x)'
    BY <2>1, Untouched DEF RunInv, runVars
  <2>5. Quiet'
    BY <2>1, <2>2, StaysQuiet DEF RunInv
  <2> QED
    BY <2>3, <2>4, <2>5 DEF RunInv
<1>2. ASSUME NEW r \in Runs, RetryOne(r) PROVE RunInv'
  <2>1. /\ r \in toRetry /\ toRetry' \subseteq toRetry /\ EnterRetire(r, "shutdown")
        /\ UNCHANGED <<row, sub, runVars, handles, gateVars, closed, fetcher, said>>
    BY <1>2 DEF RetryOne, strayVars
  <2>2. Tables'
    BY <2>1, Entered DEF RunInv, Tables, runVars, gateVars
  <2>3. ASSUME NEW x \in Runs PROVE Owned(x)'
    BY <2>1, Entered DEF RunInv, Tables, Owned, Looping, Accepted, Orphan, runVars
  <2>4. Quiet'
    BY <2>1, StaysQuiet DEF RunInv, gateVars, RequestFutures
  <2> QED
    BY <2>2, <2>3, <2>4 DEF RunInv
<1>3. ASSUME NEW r \in Runs, CancelOne(r) PROVE RunInv'
  BY <1>3, CancelHandleInv DEF CancelOne, strayVars
<1>4. CASE EndShutdown
  <2>1. /\ work' = [x \in Runs |-> IF work[x] = "queued" THEN "cancelled" ELSE work[x]]
        /\ UNCHANGED <<row, sub, status, snap, handles, retirer, failed, gateVars, closed, toRetry,
                       fetcher, said>>
    BY <1>4 DEF EndShutdown
  <2>2. Tables'
    BY <2>1 DEF RunInv, Tables, gateVars
  <2>3. ASSUME NEW x \in Runs PROVE Owned(x)'
    BY <2>1 DEF RunInv, Tables, Owned, Looping, Accepted, Orphan
  <2>4. Quiet'
    BY <2>1, StaysQuiet DEF RunInv, gateVars, RequestFutures
  <2> QED
    BY <2>2, <2>3, <2>4 DEF RunInv
<1>5. CASE DrainReturns \/ CloseFetcher
  <2>1. /\ UNCHANGED <<row, sub, runVars, handles, retirer, failed, gateVars, closed, toRetry, said>>
        /\ fetcher' # "open" => fetcher # "open" \/ DrainReturns
    BY <1>5 DEF DrainReturns, CloseFetcher, retireVars, strayVars
  <2>2. Tables'
    BY <2>1 DEF RunInv, Tables, runVars, gateVars
  <2>3. ASSUME NEW x \in Runs PROVE Owned(x)'
    BY <2>1, Untouched DEF RunInv, runVars
  <2>4. Quiet'
    BY <2>1 DEF RunInv, Quiet, DrainReturns, Drained, gateVars, RequestFutures, Pending
  <2> QED
    BY <2>2, <2>3, <2>4 DEF RunInv
<1> QED
  BY <1>1, <1>2, <1>3, <1>4, <1>5 DEF ShutdownStep

LEMMA StutterInv ==
  ASSUME RunInv, UNCHANGED vars
  PROVE  RunInv'
<1>1. UNCHANGED <<row, sub, runVars, retireVars, gateVars, shutVars, said>>
  BY DEF vars, strayVars
<1>2. Tables'
  BY <1>1 DEF RunInv, Tables, runVars, retireVars, gateVars
<1>3. ASSUME NEW x \in Runs PROVE Owned(x)'
  BY <1>1, Untouched DEF RunInv, runVars, retireVars, shutVars
<1>4. Quiet'
  BY <1>1, StaysQuiet DEF RunInv, retireVars, shutVars, gateVars, RequestFutures
<1> QED
  BY <1>2, <1>3, <1>4 DEF RunInv

LEMMA NextInv == RunInv /\ [Next]_vars => RunInv'
<1> SUFFICES ASSUME RunInv, [Next]_vars PROVE RunInv'
  OBVIOUS
<1>1. ASSUME NEW r \in Runs, Submit(r) \/ SubmitStep(r) PROVE RunInv'
  BY <1>1, SubmitInv, CreateRowInv, HandOffInv, RejectInv, SaveRejectedInv, HookInv DEF SubmitStep
<1>2. ASSUME NEW r \in Runs, RunStep(r) PROVE RunInv'
  BY <1>2, StartInv, WriteProgressInv, CheckpointInv, CollectInv, EndingInv, TryingInv, FinishInv
     DEF RunStep, RequestsOf, Ending, Trying
<1>3. ASSUME NEW r \in Runs, RetireStep(r) PROVE RunInv'
  BY <1>3, RetireInv
<1>4. ASSUME NEW r \in Runs, Pause(r) \/ Resume(r) \/ Cancel(r) \/ ControlStep(r) PROVE RunInv'
  BY <1>4, ControlInv, CancelInv, PersistControlInv DEF ControlStep
<1>5. ASSUME NEW q \in Request, RequestStep(q) \/ StrayStep(q) PROVE RunInv'
  BY <1>5, RequestInv
<1>6. CASE BeginShutdown \/ ShutdownStep
  BY <1>6, BeginShutdownInv, ShutdownInv
<1>7. CASE UNCHANGED vars
  BY <1>7, StutterInv
<1> QED
  BY <1>1, <1>2, <1>3, <1>4, <1>5, <1>6, <1>7 DEF Next
(* The inductive invariant holds for ever.                                   *)
THEOREM RunInvariant == Spec => []RunInv
<1>1. Init => RunInv
  BY InitInv
<1>2. RunInv /\ [Next]_vars => RunInv'
  BY NextInv
<1> QED
  BY <1>1, <1>2, PTL DEF Spec

-----------------------------------------------------------------------------
(* What follows from it.                                                    *)

(* An accepted run leaves the registry of _on_run_done only with a terminal  *)
(* row, which says what the run says in memory.                              *)
THEOREM RunOwnedUntilDurable == Spec => []OwnedUntilDurable
<1>1. RunInv => OwnedUntilDurable
  BY DEF RunInv, Owned, Accepted, Orphan, OwnedUntilDurable
<1> QED
  BY <1>1, RunInvariant, PTL

(* Only a submit that raises leaves an item behind that nobody tracks.       *)
Undisturbed ==
    /\ threadFailures \in Nat /\ stray \in [Request -> {"none", "queued", "fetch"}]
    /\ threadFailures = 0 => \A r \in Runs, q \in Request : ~Orphan(r) /\ stray[q] = "none"

(* A run that is not an orphan becomes one only as its submit raises.        *)
LEMMA NoOtherOrphan ==
  ASSUME RunInv, [Next]_vars, NEW x \in Runs, ~Orphan(x), ~HandOffRaises(x)
  PROVE  ~Orphan(x)'
<1> USE DEF Orphan, Rejection, runVars, retireVars
<1>1. work[x] = "none" \/ sub[x] \in {"hook", "leave", "done"}
  BY DEF RunInv, Owned
<1>2. ASSUME NEW r \in Runs, Submit(r) \/ SubmitStep(r) PROVE ~Orphan(x)'
  BY <1>1, <1>2 DEF RunInv, Tables, Submit, SubmitStep, CreateRow, HandOff, HandOffRaises, Reject,
     SnapshotRejected, SaveRejected, Hook, Leave
<1>3. ASSUME sub' = sub, work[x] = "none" => work'[x] = "none" PROVE ~Orphan(x)'
  BY <1>3
<1>4. ASSUME NEW r \in Runs, RunStep(r) PROVE sub' = sub /\ (work[x] = "none" => work'[x] = "none")
  <2>1. sub' = sub
    BY <1>4 DEF RunStep, Start, SnapshotFirst, WriteProgress, CheckpointCancels, CheckpointPasses,
       ResourcePressure, PassEnds, Commit, Finish, Collect, AdmitClosed, AdmitHostFull,
       AdmitGateRefuses, AdmitDelayed, Admit, AdmitRaises
  <2>2. work[r] # "none"
    BY <1>4 DEF RunStep, Start, SnapshotFirst, WriteProgress, CheckpointCancels, CheckpointPasses,
       ResourcePressure, PassEnds, Commit, Finish, Collect, AdmitClosed, AdmitHostFull,
       AdmitGateRefuses, AdmitDelayed, Admit, AdmitRaises, Asks
  <2>3. work' = work \/ \E to : work' = [work EXCEPT ![r] = to]
    BY <1>4 DEF RunStep, Start, SnapshotFirst, WriteProgress, CheckpointCancels, CheckpointPasses,
       ResourcePressure, PassEnds, Commit, Finish, Collect, AdmitClosed, AdmitHostFull,
       AdmitGateRefuses, AdmitDelayed, Admit, AdmitRaises, CollectsMore, EndRun
  <2> QED
    BY <2>1, <2>2, <2>3 DEF RunInv, Tables
<1>5. ASSUME NEW r \in Runs, RetireStep(r) \/ Pause(r) \/ Resume(r) \/ ControlStep(r)
      PROVE  UNCHANGED <<sub, work>>
  BY <1>5 DEF RetireStep, RetireSucceeds, RetireFails, Pause, Resume, ControlStep, PersistControl,
     RollBackControl
<1>6. ASSUME NEW r \in Runs, Cancel(r) \/ CancelOne(r)
      PROVE  sub' = sub /\ (work[x] = "none" => work'[x] = "none")
  BY <1>6 DEF Cancel, CancelOne, CancelHandle, RunInv, Tables
<1>7. ASSUME NEW q \in Request, RequestStep(q) \/ StrayStep(q) PROVE UNCHANGED <<sub, work>>
  BY <1>7 DEF RequestStep, FetchStarts, FetchEnds, ParseEnds, StrayStep, StrayStarts, StrayEnds
<1>8. CASE EndShutdown
  BY <1>3, <1>8 DEF EndShutdown, RunInv, Tables
<1>9. ASSUME BeginShutdown \/ Signal \/ SignalFails \/ DrainReturns \/ CloseFetcher
                \/ (\E r \in Runs : RetryOne(r)) \/ UNCHANGED vars
      PROVE  UNCHANGED <<sub, work>>
  BY <1>9 DEF BeginShutdown, Signal, SignalFails, DrainReturns, CloseFetcher, RetryOne, vars
<1> QED
  BY <1>2, <1>3, <1>4, <1>5, <1>6, <1>7, <1>8, <1>9 DEF Next, ShutdownStep

(* What each step does to the count of these failures and their items.       *)
LEMMA FailuresCounted ==
  ASSUME Undisturbed, [Next]_vars
  PROVE  /\ stray' \in [Request -> {"none", "queued", "fetch"}]
         /\ \/ threadFailures' = threadFailures + 1
            \/ /\ threadFailures' = threadFailures
               /\ \A q \in Request : stray[q] = "none" => stray'[q] = "none"
               /\ \A r \in Runs : ~HandOffRaises(r)
<1>1. (\E r \in Runs : HandOffRaises(r) \/ \E q \in Request : AdmitRaises(r, q))
          => /\ threadFailures' = threadFailures + 1
             /\ stray' \in [Request -> {"none", "queued", "fetch"}]
  BY DEF HandOffRaises, AdmitRaises, ThreadFails, Undisturbed
<1>2. CASE \E q \in Request : StrayStep(q)
  <2>1. /\ threadFailures' = threadFailures
        /\ stray' \in [Request -> {"none", "queued", "fetch"}]
        /\ \A q \in Request : stray[q] = "none" => stray'[q] = "none"
    BY <1>2 DEF StrayStep, StrayStarts, StrayEnds, Undisturbed
  <2> QED
    BY <1>1, <2>1 DEF Undisturbed
<1>3. CASE EndShutdown
  <2>1. /\ threadFailures' = threadFailures
        /\ stray' \in [Request -> {"none", "queued", "fetch"}]
        /\ \A q \in Request : stray[q] = "none" => stray'[q] = "none"
    BY <1>3 DEF EndShutdown, Undisturbed
  <2> QED
    BY <1>1, <2>1 DEF Undisturbed
<1>4. CASE \E r \in Runs : SnapshotRejected(r) \/ SaveRejected(r)
  <2>1. threadFailures' = threadFailures /\ stray' = stray
    BY <1>4 DEF SnapshotRejected, SaveRejected
  <2> QED
    BY <1>1, <2>1 DEF Undisturbed
<1>5. CASE UNCHANGED strayVars
  BY <1>1, <1>5 DEF strayVars, Undisturbed
<1>6. ASSUME NEW r \in Runs, Submit(r) \/ SubmitStep(r)
      PROVE  \/ UNCHANGED strayVars
             \/ HandOffRaises(r) \/ SnapshotRejected(r) \/ SaveRejected(r)
  BY <1>6 DEF Submit, SubmitStep, CreateRow, HandOff, Reject, Hook, Leave
<1>7. ASSUME NEW r \in Runs, RunStep(r)
      PROVE  UNCHANGED strayVars \/ \E q \in Request : AdmitRaises(r, q)
  BY <1>7 DEF RunStep, RequestsOf, Start, SnapshotFirst, WriteProgress, CheckpointCancels,
     CheckpointPasses, ResourcePressure, PassEnds, Commit, Finish, Collect, AdmitClosed,
     AdmitHostFull, AdmitGateRefuses, AdmitDelayed, Admit
<1>8. ASSUME NEW r \in Runs, RetireStep(r) \/ Pause(r) \/ Resume(r) \/ Cancel(r) \/ ControlStep(r)
      PROVE  UNCHANGED strayVars
  BY <1>8 DEF RetireStep, RetireSucceeds, RetireFails, Pause, Resume, Cancel, ControlStep,
     PersistControl, RollBackControl
<1>9. ASSUME NEW q \in Request, RequestStep(q) PROVE UNCHANGED strayVars
  BY <1>9 DEF RequestStep, FetchStarts, FetchEnds, ParseEnds
<1>10. CASE BeginShutdown \/ ShutdownStep \/ UNCHANGED vars
  BY <1>3, <1>5, <1>10 DEF BeginShutdown, ShutdownStep, Signal, SignalFails, DrainReturns, CloseFetcher,
     RetryOne, CancelOne, vars
<1> QED
  BY <1>1, <1>2, <1>4, <1>5, <1>6, <1>7, <1>8, <1>9, <1>10 DEF Next

(* shutdown() closes the fetcher when nobody uses it any more but what a     *)
(* submit that raised left behind.                                           *)
THEOREM FetcherIsClosedLast == Spec => []FetcherClosedLast
<1>1. Init => Undisturbed
  BY DEF Init, Undisturbed, Orphan
<1>2. RunInv /\ Undisturbed /\ [Next]_vars => Undisturbed'
  BY NoOtherOrphan, FailuresCounted DEF Undisturbed
<1>3. RunInv /\ Undisturbed => FetcherClosedLast
  <2> SUFFICES ASSUME RunInv, Undisturbed, fetcher # "open"
               PROVE  /\ RequestFutures = {} /\ Pending = {}
                      /\ \A r \in Runs : ~Orphan(r) =>
                          r \notin Executing /\ work[r] # "queued" /\ retirer[r] = "none"
    BY DEF FetcherClosedLast, Undisturbed
  <2>1. RequestFutures = {} /\ Pending = {} /\ handles = {}
    BY DEF RunInv, Quiet
  <2>2. \A r \in Runs : ~Orphan(r) => work[r] \in {"none", "finished", "cancelled"}
    BY NobodyWorks
  <2>3. \A r \in Runs : retirer[r] = "none"
    BY <2>1 DEF RunInv, Owned
  <2> QED
    BY <2>1, <2>2, <2>3 DEF Executing
<1> QED
  BY <1>1, <1>2, <1>3, RunInvariant, PTL DEF Spec

(* A row that ended keeps its state: no late snapshot of save_run, control   *)
(* call or retirement changes it, unless the run's submit raised with its     *)
(* item in the queue.                                                        *)
THEOREM RunOutcomeIsFinal == Spec => EndedRunIsFinal
<1>1. ASSUME RunInv, [Next]_vars, NEW r \in Runs, row[r] \in Terminal, ~Orphan(r)
      PROVE  row'[r] = row[r]
  <2>1. /\ row[r] = status[r]
        /\ work[r] \in {"none", "finished", "cancelled"}
        /\ work[r] = "none" => sub[r] \in {"back", "refused"}
    BY <1>1 DEF RunInv, Owned
  <2>2. /\ row \in [Runs -> Status \cup {"none"}] /\ status \in [Runs -> Status]
        /\ snap \in [Runs -> Control \cup Terminal \cup {"none"}]
        /\ said \in [Runs -> Status \cup {"none"}]
    BY <1>1 DEF RunInv, Tables
  <2>3. CASE UNCHANGED row
    BY <2>3
  <2>4. ASSUME NEW x \in Runs, CreateRow(x) PROVE row'[r] = row[r]
    <3>1. sub[x] = "save" /\ (SaveRun(x, "queued") \/ SaveRaises(x, "queued"))
      BY <2>4 DEF CreateRow
    <3>2. \A y \in Runs \ {x} : row'[y] = row[y]
      BY <1>1, <3>1, WrittenRow DEF RunInv
    <3>3. x # r
      BY <1>1, <2>1, <3>1 DEF RunInv, Owned, Rejection
    <3> QED
      BY <3>2, <3>3
  <2>5. ASSUME NEW x \in Runs, SaveRejected(x) PROVE row'[r] = row[r]
    <3>1. sub[x] = "tell" /\ (SaveRun(x, said[x]) \/ SaveRaises(x, said[x]))
      BY <2>5 DEF SaveRejected
    <3>2. \A y \in Runs \ {x} : row'[y] = row[y]
      BY <1>1, <2>2, <3>1, WrittenRow DEF RunInv
    <3>3. x # r
      BY <1>1, <2>1, <3>1 DEF RunInv, Owned, Orphan, Rejection
    <3> QED
      BY <3>2, <3>3
  <2>6. ASSUME NEW x \in Runs, WriteProgress(x) PROVE row'[r] = row[r]
    <3>1. work[x] = "save" /\ (SaveRun(x, snap[x]) \/ SaveRaises(x, snap[x]))
      BY <2>6 DEF WriteProgress
    <3>2. \A y \in Runs \ {x} : row'[y] = row[y]
      BY <1>1, <2>2, <3>1, WrittenRow DEF RunInv
    <3> QED
      BY <2>1, <3>1, <3>2
  <2>7. ASSUME NEW x \in Runs, Finish(x) PROVE row'[r] = row[r]
    <3>1. /\ work[x] = "final"
          /\ \E s \in {snap[x], status[x]} : SaveRun(x, s) \/ SaveRaises(x, s)
      BY <2>7 DEF Finish
    <3>2. \A y \in Runs \ {x} : row'[y] = row[y]
      BY <1>1, <2>2, <3>1, WrittenRow DEF RunInv
    <3> QED
      BY <2>1, <3>1, <3>2
  <2>8. ASSUME NEW x \in Runs, RetireStep(x) PROVE row'[r] = row[r]
    <3>1. SaveRun(x, FinalStatus(x)) \/ SaveRaises(x, FinalStatus(x))
      BY <2>8 DEF RetireStep, RetireSucceeds, RetireFails
    <3>2. FinalStatus(x) \in Status \cup {"none"} /\ (x = r => FinalStatus(x) = row[r])
      BY <1>1, <2>1, FinalStatusType DEF RunInv
    <3>3. row'[x] \in {row[x], FinalStatus(x)} /\ \A y \in Runs \ {x} : row'[y] = row[y]
      BY <1>1, <3>1, <3>2, WrittenRow DEF RunInv
    <3> QED
      BY <3>2, <3>3
  <2>9. ASSUME NEW x \in Runs, PersistControl(x) PROVE row'[r] = row[r]
    BY <1>1, <2>2, <2>9 DEF PersistControl
  <2>10. ASSUME NEW x \in Runs, RunStep(x)
         PROVE  UNCHANGED row \/ WriteProgress(x) \/ Finish(x)
    BY <2>10 DEF RunStep, Start, SnapshotFirst, CheckpointCancels, CheckpointPasses,
       ResourcePressure, PassEnds, Commit, Collect, AdmitClosed, AdmitHostFull, AdmitGateRefuses,
       AdmitDelayed, Admit, AdmitRaises
  <2>11. ASSUME NEW x \in Runs,
                Submit(x) \/ HandOff(x) \/ HandOffRaises(x) \/ Reject(x)
                  \/ SnapshotRejected(x) \/ Hook(x) \/ Leave(x) \/ Pause(x) \/ Resume(x)
                  \/ Cancel(x) \/ RollBackControl(x)
         PROVE  UNCHANGED row
    BY <2>11 DEF Submit, HandOff, HandOffRaises, Reject, SnapshotRejected, Hook, Leave, Pause,
       Resume, Cancel, RollBackControl
  <2>12. CASE (\E q \in Request : RequestStep(q) \/ StrayStep(q)) \/ BeginShutdown \/ ShutdownStep
    BY <2>12 DEF RequestStep, FetchStarts, FetchEnds, ParseEnds, StrayStep, StrayStarts, StrayEnds,
       BeginShutdown, ShutdownStep,
       Signal, SignalFails, EndShutdown, DrainReturns, CloseFetcher, RetryOne, CancelOne
  <2>13. CASE UNCHANGED vars
    BY <2>13 DEF vars
  <2> QED
    BY <1>1, <2>3, <2>4, <2>5, <2>6, <2>7, <2>8, <2>9, <2>10, <2>11, <2>12, <2>13
       DEF Next, SubmitStep, ControlStep
<1>2. RunInv /\ [Next]_vars => 
        [\A r \in Runs : row[r] \in Terminal /\ ~Orphan(r) => row'[r] = row[r]]_vars
  BY <1>1
<1> QED
  BY <1>2, RunInvariant, PTL DEF Spec, EndedRunIsFinal
-----------------------------------------------------------------------------
(* What a row says of a pause.                                              *)

(* Where a run stands while it is submitted, queued, written and ended.     *)
Placed(r) ==
    /\ sub[r] \in {"new", "save", "handoff"} => status[r] = "queued"
    /\ sub[r] = "handoff" \/ work[r] # "none" => row[r] # "none"
    /\ work[r] = "queued" /\ Accepted(r) => status[r] \notin Terminal
    /\ work[r] = "final" => status[r] \in Terminal
    /\ snap[r] # "none" <=> work[r] \in {"save", "final"}
    /\ sub[r] = "tell" <=> said[r] # "none"

(* A run without a handle: nobody pauses it.                                *)
Unpaused(r) ==
    /\ control[r] = "idle" /\ r \notin paused
    /\ "paused" \notin {status[r], row[r], snap[r], said[r]}

(* What the token, the status, the row, a snapshot under way and a control  *)
(* call say of each other.  A pause writes its row whatever the row says of  *)
(* a run at work, so only a run that ended takes a transition back; a resume *)
(* begins when the row says "paused".                                       *)
Told(r) ==
    /\ status[r] \notin Terminal => (r \in paused <=> status[r] = "paused")
    /\ control[r] = "pausing" => status[r] \in Terminal \cup {"paused"}
    /\ control[r] = "resuming" =>
        /\ status[r] \in Terminal \cup {"running"}
        /\ row[r] \in Control \cup Terminal
    /\ control[r] \in {"unpause", "unresume"} => status[r] \in Terminal
    /\ control[r] = "idle" /\ status[r] = "paused" => row[r] = "paused"
    /\ control[r] = "idle" /\ {row[r], status[r]} \subseteq Control => row[r] = status[r]
    /\ row[r] \in Control => status[r] # "queued"
    /\ control[r] = "idle" /\ row[r] \notin Control /\ status[r] \in Control /\ snap[r] # "none"
        => snap[r] = status[r]

Shown(r) ==
    /\ Placed(r)
    /\ ~Accepted(r) => Unpaused(r)
    /\ faults = 0 /\ r \notin cancelled /\ ~Orphan(r) => Told(r)

ShowsInv ==
    /\ faults \in Nat
    /\ control \in [Runs -> {"idle", "pausing", "unpause", "resuming", "unresume"}]
    /\ \A r \in Runs : Shown(r)

(* A step that neither touches a run nor repairs the storage.               *)
LEMMA Aside ==
  ASSUME NEW x, Shown(x), faults' # 0 \/ faults = 0, x \in cancelled => x \in cancelled',
         row'[x] = row[x], status'[x] = status[x], sub'[x] = sub[x], work'[x] = work[x],
         snap'[x] = snap[x], said'[x] = said[x], control'[x] = control[x],
         x \in paused' <=> x \in paused
  PROVE  Shown(x)'
  BY DEF Shown, Placed, Unpaused, Told, Accepted, Orphan

LEMMA InitShows == Init => ShowsInv
  BY DEF Init, ShowsInv, Shown, Placed, Unpaused, Told, Accepted, Orphan

(* The storage fails once more, or is not asked.                            *)
LEMMA Written ==
  ASSUME ShowsInv, NEW r, NEW s, SaveRun(r, s) \/ SaveRaises(r, s)
  PROVE  /\ faults' \in Nat
         /\ faults' # 0 \/ (faults = 0 /\ SaveRun(r, s))
  BY DEF ShowsInv, SaveRun, SaveRaises, Fault

LEMMA SubmitShows ==
  ASSUME RunInv, ShowsInv, NEW r \in Runs,
         Submit(r) \/ HandOff(r) \/ HandOffRaises(r) \/ Hook(r) \/ Leave(r)
  PROVE  ShowsInv'
<1>1. UNCHANGED <<row, status, snap, said, tokenVars, control, faults>>
  BY DEF Submit, HandOff, HandOffRaises, Hook, Leave, runVars, strayVars
<1>2. \A x \in Runs \ {r} : sub'[x] = sub[x] /\ work'[x] = work[x]
  BY DEF RunInv, Tables, Submit, HandOff, HandOffRaises, Hook, Leave, runVars
<1>3. Shown(r)'
  BY <1>1 DEF RunInv, Tables, Owned, ShowsInv, Shown, Placed, Unpaused, Told, Accepted, Orphan,
     Rejection, Submit, HandOff, HandOffRaises, Hook, Leave, runVars, tokenVars
<1>4. ASSUME NEW x \in Runs \ {r} PROVE Shown(x)'
  BY <1>1, <1>2, Aside DEF ShowsInv, tokenVars
<1> QED
  BY <1>1, <1>3, <1>4 DEF ShowsInv

LEMMA CreateRowShows ==
  ASSUME RunInv, ShowsInv, NEW r \in Runs, CreateRow(r)
  PROVE  ShowsInv'
<1>1. UNCHANGED <<status, work, snap, said, tokenVars, control>>
  BY DEF CreateRow, runVars, strayVars
<1>2. \/ SaveRun(r, "queued") /\ sub' = [sub EXCEPT ![r] = "handoff"]
      \/ SaveRaises(r, "queued") /\ sub' = [sub EXCEPT ![r] = "leave"]
  BY DEF CreateRow
<1>3. \A x \in Runs \ {r} : row'[x] = row[x] /\ sub'[x] = sub[x]
  BY <1>2, WrittenRow DEF RunInv, Tables
<1>4. faults' \in Nat /\ (faults' # 0 \/ faults = 0)
  BY <1>2, Written
<1>5. /\ sub[r] = "save" /\ work[r] = "none" /\ status[r] = "queued" /\ Unpaused(r)
      /\ row[r] \notin Terminal
  BY DEF CreateRow, RunInv, Owned, Orphan, Accepted, Rejection, ShowsInv, Shown, Placed
<1>6. Shown(r)'
  BY <1>1, <1>2, <1>4, <1>5, WrittenRow, Written DEF RunInv, Tables, ShowsInv, Shown, Placed,
     Unpaused, Told, Accepted, Orphan, Rejection, tokenVars, SaveRun, Saved
<1>7. ASSUME NEW x \in Runs \ {r} PROVE Shown(x)'
  BY <1>1, <1>3, <1>4, Aside DEF ShowsInv, tokenVars
<1> QED
  BY <1>1, <1>4, <1>6, <1>7 DEF ShowsInv

LEMMA RejectShows ==
  ASSUME RunInv, ShowsInv, NEW r \in Runs, Reject(r) \/ SnapshotRejected(r)
  PROVE  ShowsInv'
<1>1. /\ UNCHANGED <<row, work, snap, tokenVars, control, faults>>
      /\ sub[r] \in {"reject", "rejected"} /\ ~Accepted(r)
  BY DEF Reject, SnapshotRejected, runVars, Accepted, Rejection
<1>2. \A x \in Runs \ {r} : sub'[x] = sub[x] /\ status'[x] = status[x] /\ said'[x] = said[x]
  BY DEF Reject, SnapshotRejected, RunInv, Tables, runVars, strayVars
<1>3. Shown(r)'
  BY <1>1 DEF RunInv, Tables, Owned, ShowsInv, Shown, Placed, Unpaused, Told, Accepted, Orphan,
     Rejection, Reject, SnapshotRejected, runVars, tokenVars, strayVars
<1>4. ASSUME NEW x \in Runs \ {r} PROVE Shown(x)'
  BY <1>1, <1>2, Aside DEF ShowsInv, tokenVars
<1> QED
  BY <1>1, <1>3, <1>4 DEF ShowsInv

LEMMA SaveRejectedShows ==
  ASSUME RunInv, ShowsInv, NEW r \in Runs, SaveRejected(r)
  PROVE  ShowsInv'
<1>1. /\ sub[r] = "tell" /\ sub' = [sub EXCEPT ![r] = "back"]
      /\ said' = [said EXCEPT ![r] = "none"]
      /\ SaveRun(r, said[r]) \/ SaveRaises(r, said[r])
      /\ UNCHANGED <<status, work, snap, tokenVars, control>>
  BY DEF SaveRejected, runVars
<1>2. /\ said[r] \in Status /\ ~Accepted(r) /\ Unpaused(r)
      /\ work[r] = "none" => status[r] = "failed"
  BY <1>1 DEF RunInv, Tables, Owned, ShowsInv, Shown, Placed, Accepted, Rejection
<1>3. /\ row'[r] \in {row[r], said[r]}
      /\ \A x \in Runs \ {r} : row'[x] = row[x]
  BY <1>1, <1>2, WrittenRow DEF RunInv
<1>4. faults' \in Nat /\ (faults' # 0 \/ faults = 0)
  BY <1>1, Written
<1>5. row'[r] # "none" \/ row'[r] = row[r]
  BY <1>2, <1>3
<1>6. Placed(r)' /\ Unpaused(r)'
  BY <1>1, <1>2, <1>3, <1>5 DEF RunInv, Tables, ShowsInv, Shown, Placed, Unpaused, Accepted, Rejection,
     tokenVars
<1>7. ASSUME ~Orphan(r)' PROVE Told(r)'
  BY <1>1, <1>2, <1>6, <1>7 DEF RunInv, Tables, Told, Unpaused, Orphan, Rejection
<1>8. ASSUME NEW x \in Runs \ {r} PROVE Shown(x)'
  BY <1>1, <1>3, <1>4, Aside DEF RunInv, Tables, ShowsInv, tokenVars
<1> QED
  BY <1>1, <1>4, <1>6, <1>7, <1>8 DEF ShowsInv, Shown

(* The end of a run has a terminal status to show from then on.             *)
LEMMA EndRunShows ==
  ASSUME RunInv, ShowsInv, NEW r \in Runs, NEW outcome \in Terminal, NEW tokens \in SUBSET {r},
         EndRun(r, outcome, tokens), work[r] \in Looping,
         row' = row \/ (work[r] = "save" /\ SaveRaises(r, snap[r]) /\ faults' # 0),
         faults' \in Nat, faults' # 0 \/ faults = 0,
         UNCHANGED <<sub, said, control>>
  PROVE  ShowsInv'
<1>1. /\ work' = [work EXCEPT ![r] = "final"]
      /\ status' = [status EXCEPT ![r] = outcome]
      /\ snap' = [snap EXCEPT ![r] = outcome]
  BY DEF EndRun
<1>2. /\ cancelled \subseteq cancelled'
      /\ paused' \subseteq paused
      /\ \A x \in Runs \ {r} : x \in paused' <=> x \in paused
  BY DEF EndRun, CancelTokens
<1>3. /\ snap[r] \in Status \cup {"none"} /\ row[r] # "none"
      /\ sub[r] \in {"hook", "leave", "done"} \cup Rejection
  BY DEF RunInv, Tables, Owned, Looping, ShowsInv, Shown, Placed
<1>4. /\ row'[r] \in {row[r], snap[r]}
      /\ \A x \in Runs \ {r} : row'[x] = row[x]
      /\ row'[r] # "none"
  <2>1. CASE row' = row
    BY <1>3, <2>1
  <2>2. CASE work[r] = "save" /\ SaveRaises(r, snap[r])
    <3>1. \A x \in Runs \ {r} : row'[x] = row[x]
      BY <1>3, <2>2, WrittenRow DEF RunInv
    <3>2. row'[r] = row[r] \/ row'[r] = Saved(row[r], snap[r])
      BY <2>2 DEF SaveRaises, RunInv, Tables
    <3>3. snap[r] # "none"
      BY <2>2 DEF ShowsInv, Shown, Placed
    <3> QED
      BY <1>3, <3>1, <3>2, <3>3, SavedRow DEF RunInv, Tables
  <2> QED
    BY <2>1, <2>2
<1>5. Shown(r)'
  <2>1. Placed(r)'
    BY <1>1, <1>3, <1>4 DEF RunInv, Tables, ShowsInv, Shown, Placed, Looping, Rejection
  <2>2. faults' = 0 /\ r \notin cancelled' /\ ~Orphan(r)' => Told(r)'
    BY <1>1, <1>2 DEF RunInv, Tables, ShowsInv, Shown, Told, Orphan, Looping
  <2>3. ~Accepted(r)' => Unpaused(r)'
    BY <1>1, <1>2, <1>4 DEF RunInv, Tables, ShowsInv, Shown, Unpaused, Accepted, Looping
  <2> QED
    BY <2>1, <2>2, <2>3 DEF Shown
<1>6. ASSUME NEW x \in Runs \ {r} PROVE Shown(x)'
  BY <1>1, <1>2, <1>4, Aside DEF ShowsInv, RunInv, Tables
<1> QED
  BY <1>5, <1>6 DEF ShowsInv

(* The thread that executes a run.                                          *)
LEMMA StartShows ==
  ASSUME RunInv, ShowsInv, NEW r \in Runs, Start(r) \/ SnapshotFirst(r)
  PROVE  ShowsInv'
<1>1. UNCHANGED <<row, sub, said, tokenVars, control, faults>>
  BY DEF Start, SnapshotFirst, strayVars
<1>2. Shown(r)'
  BY <1>1 DEF RunInv, Tables, Owned, Looping, ShowsInv, Shown, Placed, Unpaused, Told, Accepted,
     Orphan, Rejection, Start, SnapshotFirst, tokenVars
<1>3. \A x \in Runs \ {r} : work'[x] = work[x] /\ status'[x] = status[x] /\ snap'[x] = snap[x]
  BY DEF RunInv, Tables, Start, SnapshotFirst
<1>4. ASSUME NEW x \in Runs \ {r} PROVE Shown(x)'
  BY <1>1, <1>3, Aside DEF ShowsInv, tokenVars
<1> QED
  BY <1>1, <1>2, <1>4 DEF ShowsInv

(* A step of its loop; a snapshot is what the run says, and saving one that  *)
(* is older than a pause or a resume changes no row that shows one.         *)
LEMMA LoopShows ==
  ASSUME RunInv, ShowsInv, NEW r \in Runs, work[r] \in Looping,
         NEW to \in Looping, work' = [work EXCEPT ![r] = to],
         \/ UNCHANGED <<row, snap>> /\ work[r] # "save" /\ to # "save"
         \/ SaveRun(r, snap[r]) /\ work[r] = "save" /\ to # "save"
            /\ snap' = [snap EXCEPT ![r] = "none"]
         \/ row' = row /\ to = "save" /\ snap' = [snap EXCEPT ![r] = status[r]],
         UNCHANGED <<sub, said, status, tokenVars, control, faults>>
  PROVE  ShowsInv'
<1>1. /\ status[r] \in Status /\ row[r] # "none"
      /\ ~Orphan(r) => status[r] \in Control /\ row[r] \notin Terminal
  BY DEF RunInv, Tables, Owned, Looping, Accepted, Orphan, ShowsInv, Shown, Placed
<1>2. \A x \in Runs \ {r} : row'[x] = row[x] /\ work'[x] = work[x] /\ snap'[x] = snap[x]
  BY DEF RunInv, Tables, SaveRun
<1>3. ASSUME NEW x \in Runs \ {r} PROVE Shown(x)'
  BY <1>2, Aside DEF ShowsInv, tokenVars
<1>4. /\ work'[r] = to /\ work[r] # "none" /\ to # "none"
      /\ Accepted(r)' <=> Accepted(r)
      /\ Orphan(r)' <=> Orphan(r)
  BY DEF RunInv, Tables, Looping, Accepted, Orphan
<1>5. Shown(r)'
  <2>1. CASE UNCHANGED <<row, snap>> /\ work[r] # "save" /\ to # "save"
    BY <1>1, <1>4, <2>1 DEF Looping, ShowsInv, Shown, Placed, Unpaused, Told, tokenVars
  <2>2. CASE /\ SaveRun(r, snap[r]) /\ work[r] = "save" /\ to # "save"
             /\ snap' = [snap EXCEPT ![r] = "none"]
    <3>1. /\ snap[r] \in Control \cup Terminal /\ (~Orphan(r) => snap[r] \in Control)
          /\ snap'[r] = "none" /\ row'[r] = Saved(row[r], snap[r])
      BY <1>4, <2>2 DEF RunInv, Tables, Owned, Accepted, Orphan, Looping, SaveRun, ShowsInv, Shown,
         Placed
    <3>2. row'[r] # "none" /\ (~Accepted(r) => row'[r] # "paused")
      BY <1>1, <3>1 DEF Saved, ShowsInv, Shown, Unpaused
    <3>3. Placed(r)' /\ (~Accepted(r) => Unpaused(r)')
      BY <1>4, <2>2, <3>1, <3>2 DEF Looping, ShowsInv, Shown, Placed, Unpaused, tokenVars
    <3>4. faults = 0 /\ r \notin cancelled /\ ~Orphan(r) => Told(r)'
      BY <1>1, <3>1 DEF Saved, ShowsInv, Shown, Told, tokenVars
    <3> QED
      BY <1>4, <3>3, <3>4 DEF Shown, tokenVars
  <2>3. CASE row' = row /\ to = "save" /\ snap' = [snap EXCEPT ![r] = status[r]]
    <3>1. snap'[r] = status[r]
      BY <2>3 DEF RunInv, Tables
    <3> QED
      BY <1>1, <1>4, <2>3, <3>1 DEF Looping, ShowsInv, Shown, Placed, Unpaused, Told, tokenVars
  <2> QED
    BY <2>1, <2>2, <2>3
<1> QED
  BY <1>3, <1>5 DEF ShowsInv

LEMMA WriteProgressShows ==
  ASSUME RunInv, ShowsInv, NEW r \in Runs, WriteProgress(r)
  PROVE  ShowsInv'
<1>1. work[r] = "save" /\ work[r] \in Looping /\ UNCHANGED <<sub, said, control>>
  BY DEF WriteProgress, Looping, strayVars
<1>2. CASE SaveRaises(r, snap[r]) /\ EndRun(r, "failed", {})
  <2>1. faults' \in Nat /\ faults' # 0
    BY <1>2 DEF SaveRaises, Fault, ShowsInv
  <2> QED
    BY <1>1, <1>2, <2>1, EndRunShows
<1>3. CASE /\ SaveRun(r, snap[r])
           /\ snap' = [snap EXCEPT ![r] = "none"]
           /\ \/ work' = [work EXCEPT ![r] = "scan"]
              \/ CollectsMore(r, {})
           /\ UNCHANGED <<status, refused, tokenVars, gateVars>>
  <2>1. PICK to \in {"scan", "collect"} : work' = [work EXCEPT ![r] = to]
    BY <1>3 DEF CollectsMore
  <2>2. to \in Looping /\ to # "save" /\ UNCHANGED faults
    BY <1>3 DEF Looping, SaveRun
  <2> QED
    BY <1>1, <1>3, <2>1, <2>2, LoopShows
<1> QED
  BY <1>2, <1>3 DEF WriteProgress

LEMMA CheckpointShows ==
  ASSUME RunInv, ShowsInv, NEW r \in Runs, CheckpointCancels(r) \/ CheckpointPasses(r)
  PROVE  ShowsInv'
<1>1. CASE CheckpointCancels(r)
  <2>1. /\ work[r] \in Looping /\ EndRun(r, "cancelled", {})
        /\ UNCHANGED <<row, sub, said, control, faults>>
    BY <1>1 DEF CheckpointCancels, Looping, strayVars
  <2> QED
    BY <2>1, EndRunShows DEF ShowsInv
<1>2. CASE CheckpointPasses(r)
  <2>1. /\ work[r] \in Looping /\ work[r] # "save"
        /\ UNCHANGED <<row, sub, said, status, snap, tokenVars, control, faults>>
    BY <1>2 DEF CheckpointPasses, Looping, strayVars
  <2>2. PICK to \in {"fill", "commit", "collect"} : work' = [work EXCEPT ![r] = to]
    BY <1>2 DEF CheckpointPasses, RunInv, Tables
  <2>3. to \in Looping /\ to # "save"
    BY DEF Looping
  <2> QED
    BY <2>1, <2>2, <2>3, LoopShows
<1> QED
  BY <1>1, <1>2

LEMMA CollectShows ==
  ASSUME RunInv, ShowsInv, NEW r \in Runs, NEW q \in Request, Collect(r, q)
  PROVE  ShowsInv'
<1>1. /\ work[r] \in Looping /\ work[r] # "save"
      /\ UNCHANGED <<row, sub, said, control>>
  BY DEF Collect, Looping, strayVars
<1>2. CASE (EndRun(r, "cancelled", {}) /\ UNCHANGED faults) \/ (Fault /\ EndRun(r, "failed", {}))
  <2>1. faults' \in Nat /\ (faults' # 0 \/ faults = 0)
    BY <1>2 DEF ShowsInv, Fault
  <2> QED
    BY <1>1, <1>2, <2>1, EndRunShows
<1>3. CASE /\ req' = [req EXCEPT ![q] = "gone"]
           /\ \/ CollectsMore(r, {q}) /\ UNCHANGED snap
              \/ work' = [work EXCEPT ![r] = "scan"] /\ UNCHANGED snap
              \/ work' = [work EXCEPT ![r] = "save"] /\ snap' = [snap EXCEPT ![r] = status[r]]
           /\ UNCHANGED <<status, refused, waiters, active, users, tokenVars, faults>>
  <2>1. PICK to \in Looping :
           /\ work' = [work EXCEPT ![r] = to]
           /\ \/ snap' = snap /\ to # "save"
              \/ snap' = [snap EXCEPT ![r] = status[r]] /\ to = "save"
    BY <1>3 DEF CollectsMore, Looping
  <2> QED
    BY <1>1, <1>3, <2>1, LoopShows
<1> QED
  BY <1>2, <1>3 DEF Collect

LEMMA EndingShows ==
  ASSUME RunInv, ShowsInv, NEW r \in Runs, Ending(r)
  PROVE  ShowsInv'
<1>1. work[r] \in Looping /\ UNCHANGED <<row, sub, said, control, faults>>
  BY DEF Ending, ResourcePressure, AdmitClosed, AdmitRaises, Commit, Asks, Looping, strayVars
<1>2. \E outcome \in Terminal, tokens \in SUBSET {r} : EndRun(r, outcome, tokens)
  BY DEF Ending, ResourcePressure, AdmitClosed, AdmitRaises, Commit
<1> QED
  BY <1>1, <1>2, EndRunShows DEF ShowsInv

LEMMA TryingShows ==
  ASSUME RunInv, ShowsInv, NEW r \in Runs, Trying(r)
  PROVE  ShowsInv'
<1>1. work[r] = "fill" /\ UNCHANGED <<row, sub, said, status, snap, tokenVars, control, faults>>
  BY DEF Trying, AdmitHostFull, AdmitGateRefuses, AdmitDelayed, Admit, PassEnds, Asks, runVars,
     strayVars
<1>2. work' = work \/ work' = [work EXCEPT ![r] = "check"]
  BY DEF Trying, AdmitHostFull, AdmitGateRefuses, AdmitDelayed, Admit, PassEnds, runVars
<1>3. work' = [work EXCEPT ![r] = "fill"] \/ work' = [work EXCEPT ![r] = "check"]
  BY <1>1, <1>2 DEF RunInv, Tables
<1>4. {work[r], "fill", "check"} \subseteq Looping
  BY <1>1 DEF Looping
<1> QED
  BY <1>1, <1>3, <1>4, LoopShows

(* The last writes: what they are given is terminal.                        *)
LEMMA FinishShows ==
  ASSUME RunInv, ShowsInv, NEW r \in Runs, Finish(r)
  PROVE  ShowsInv'
<1>1. /\ work[r] = "final" /\ work' = [work EXCEPT ![r] = "finished"]
      /\ snap' = [snap EXCEPT ![r] = "none"]
      /\ UNCHANGED <<sub, status, said, tokenVars, control>>
  BY DEF Finish, strayVars
<1>2. PICK s \in {snap[r], status[r]} : SaveRun(r, s) \/ SaveRaises(r, s)
  BY DEF Finish
<1>3. /\ status[r] \in Terminal /\ s \in Status /\ (Accepted(r) => s = status[r])
      /\ ~Accepted(r) => s # "paused"
  BY <1>1 DEF RunInv, Tables, Owned, ShowsInv, Shown, Placed, Unpaused
<1>4. /\ row'[r] \in {row[r], s}
      /\ \A x \in Runs \ {r} : row'[x] = row[x]
  BY <1>2, <1>3, WrittenRow DEF RunInv
<1>5. faults' \in Nat /\ (faults' # 0 \/ faults = 0)
  BY <1>2, Written
<1>6. Accepted(r) <=> ~Orphan(r)
  BY <1>1 DEF Accepted, Orphan
<1>7. Shown(r)'
  BY <1>1, <1>3, <1>4, <1>5, <1>6 DEF RunInv, Tables, ShowsInv, Shown, Placed, Unpaused, Told,
     Accepted, Orphan, tokenVars
<1>8. ASSUME NEW x \in Runs \ {r} PROVE Shown(x)'
  BY <1>1, <1>4, <1>5, Aside DEF RunInv, Tables, ShowsInv, tokenVars
<1> QED
  BY <1>1, <1>5, <1>7, <1>8 DEF ShowsInv

LEMMA RetireShows ==
  ASSUME RunInv, ShowsInv, NEW r \in Runs, RetireStep(r)
  PROVE  ShowsInv'
<1>1. /\ retirer[r] # "none"
      /\ SaveRun(r, FinalStatus(r)) \/ SaveRaises(r, FinalStatus(r))
      /\ status' = [status EXCEPT ![r] = FinalStatus(r)]
      /\ UNCHANGED <<sub, work, snap, said, tokenVars, control>>
  BY DEF RetireStep, RetireSucceeds, RetireFails, strayVars
<1>2. Done(r) /\ Accepted(r) /\ ~Orphan(r) /\ sub[r] \in {"hook", "leave", "done"}
  BY <1>1 DEF RunInv, Owned, Accepted, Orphan
<1>3. FinalStatus(r) \in Terminal /\ FinalStatus(r) \in Status \cup {"none"}
  BY FinalStatusType DEF RunInv
<1>4. /\ row'[r] \in {row[r], FinalStatus(r)}
      /\ \A x \in Runs \ {r} : row'[x] = row[x]
  BY <1>1, <1>3, WrittenRow DEF RunInv
<1>5. faults' \in Nat /\ (faults' # 0 \/ faults = 0)
  BY <1>1, Written
<1>6. Shown(r)'
  BY <1>1, <1>2, <1>3, <1>4, <1>5 DEF RunInv, Tables, ShowsInv, Shown, Placed, Told, Accepted,
     Orphan, tokenVars
<1>7. ASSUME NEW x \in Runs \ {r} PROVE Shown(x)'
  BY <1>1, <1>4, <1>5, Aside DEF RunInv, Tables, ShowsInv, tokenVars
<1> QED
  BY <1>1, <1>5, <1>6, <1>7 DEF ShowsInv

(* The calls of pause and resume, and their second halves.                  *)
LEMMA ControlShows ==
  ASSUME RunInv, ShowsInv, NEW r \in Runs, Pause(r) \/ Resume(r)
  PROVE  ShowsInv'
<1>1. /\ control[r] = "idle" /\ Accepted(r) /\ ~Done(r) /\ status[r] \notin Terminal
      /\ UNCHANGED <<row, sub, work, snap, said, cancelled, faults>>
  BY DEF Pause, Resume, Controllable, strayVars
<1>2. \/ /\ paused' = paused \cup {r}
         /\ status' = [status EXCEPT ![r] = "paused"]
         /\ control' = [control EXCEPT ![r] = "pausing"]
      \/ /\ paused' = paused \ {r} /\ status[r] = "paused"
         /\ status' = [status EXCEPT ![r] = "running"]
         /\ control' = [control EXCEPT ![r] = "resuming"]
      \/ /\ paused' = paused \ {r} /\ status[r] # "paused"
         /\ UNCHANGED <<status, control>>
  BY DEF Pause, Resume
<1>3. ~Orphan(r) /\ work[r] # "none" /\ sub[r] \in {"hook", "leave", "done"}
  BY <1>1 DEF RunInv, Owned, Accepted, Orphan
<1>4. Shown(r)'
  BY <1>1, <1>2, <1>3 DEF RunInv, Tables, ShowsInv, Shown, Placed, Told, Accepted, Orphan
<1>5. ASSUME NEW x \in Runs \ {r} PROVE Shown(x)'
  BY <1>1, <1>2, Aside DEF RunInv, Tables, ShowsInv
<1>6. control' \in [Runs -> {"idle", "pausing", "unpause", "resuming", "unresume"}]
  BY <1>2 DEF ShowsInv
<1> QED
  BY <1>1, <1>4, <1>5, <1>6 DEF ShowsInv

LEMMA PersistControlShows ==
  ASSUME RunInv, ShowsInv, NEW r \in Runs, PersistControl(r)
  PROVE  ShowsInv'
<1>1. control[r] \in {"pausing", "resuming"} /\ UNCHANGED <<sub, status, work, snap, said, tokenVars>>
  BY DEF PersistControl, runVars, strayVars
<1>2. control' \in [Runs -> {"idle", "pausing", "unpause", "resuming", "unresume"}]
  BY DEF PersistControl, ShowsInv
<1>3. faults' \in Nat /\ (faults' # 0 \/ faults = 0)
  BY DEF PersistControl, Fault, ShowsInv
<1>4. Accepted(r) /\ ~Orphan(r) /\ row[r] # "none"
  BY <1>1 DEF ShowsInv, Shown, Placed, Unpaused, Accepted, Orphan
<1>5. row[r] \in Terminal => status[r] \in Terminal
  BY <1>4 DEF RunInv, Owned
<1>6. Placed(r)' /\ Accepted(r)' /\ ~Orphan(r)'
  BY <1>1, <1>4 DEF PersistControl, RunInv, Tables, ShowsInv, Shown, Placed, Accepted, Orphan
<1>7. ASSUME faults' = 0, r \notin cancelled' PROVE Told(r)'
  <2>1. Told(r) /\ faults' # faults + 1
    BY <1>1, <1>3, <1>4, <1>7 DEF ShowsInv, Shown, tokenVars
  <2>2. CASE control[r] = "pausing"
    BY <1>1, <1>4, <1>5, <2>1, <2>2 DEF PersistControl, Fault, RunInv, Tables, ShowsInv, Told, tokenVars
  <2>3. CASE control[r] = "resuming"
    BY <1>1, <1>4, <1>5, <2>1, <2>3 DEF PersistControl, Fault, RunInv, Tables, ShowsInv, Told, tokenVars
  <2> QED
    BY <1>1, <2>2, <2>3
<1>8. ASSUME NEW x \in Runs \ {r} PROVE Shown(x)'
  <2>1. row'[x] = row[x] /\ control'[x] = control[x]
    BY DEF PersistControl, RunInv, Tables, ShowsInv
  <2> QED
    BY <1>1, <1>3, <2>1, Aside DEF ShowsInv, tokenVars
<1> QED
  BY <1>2, <1>3, <1>6, <1>7, <1>8 DEF ShowsInv, Shown

LEMMA RollBackControlShows ==
  ASSUME RunInv, ShowsInv, NEW r \in Runs, RollBackControl(r)
  PROVE  ShowsInv'
<1>1. /\ control[r] \in {"unpause", "unresume"}
      /\ control' = [control EXCEPT ![r] = "idle"]
      /\ UNCHANGED <<row, sub, work, snap, said, cancelled, faults>>
  BY DEF RollBackControl, strayVars
<1>2. \/ UNCHANGED <<status, paused>>
      \/ /\ status[r] \in Control
         /\ \E s \in Control : status' = [status EXCEPT ![r] = s]
         /\ paused' \in {paused \cup {r}, paused \ {r}}
         /\ ~Done(r)
  BY DEF RollBackControl
<1>3. /\ Accepted(r) /\ ~Orphan(r)
      /\ work[r] # "none" /\ sub[r] \in {"hook", "leave", "done"}
  BY <1>1 DEF ShowsInv, Shown, Unpaused, RunInv, Owned, Accepted, Orphan
<1>4. Shown(r)'
  BY <1>1, <1>2, <1>3 DEF RunInv, Tables, ShowsInv, Shown, Placed, Told, Accepted, Orphan
<1>5. ASSUME NEW x \in Runs \ {r} PROVE Shown(x)'
  BY <1>1, <1>2, Aside DEF RunInv, Tables, ShowsInv
<1> QED
  BY <1>1, <1>4, <1>5 DEF ShowsInv

(* A cancellation ends the comparison for its run.                          *)
LEMMA CancelHandleShows ==
  ASSUME RunInv, ShowsInv, NEW r \in Runs, NEW who, CancelHandle(r, who),
         UNCHANGED <<row, sub, said, status, snap, control, faults>>
  PROVE  ShowsInv'
<1>1. CASE UNCHANGED <<tokenVars, work>>
  <2>1. ASSUME NEW x \in Runs PROVE Shown(x)'
    BY <1>1, Aside DEF ShowsInv, tokenVars
  <2> QED
    BY <2>1 DEF ShowsInv
<1>2. CASE /\ CancelTokens({r})
           /\ \/ UNCHANGED work
              \/ work[r] = "queued" /\ work' = [work EXCEPT ![r] = "cancelled"]
  <2>1. Shown(r)'
    BY <1>2 DEF RunInv, Tables, ShowsInv, Shown, Placed, Unpaused, Accepted, CancelTokens
  <2>2. ASSUME NEW x \in Runs \ {r} PROVE Shown(x)'
    BY <1>2, Aside DEF RunInv, Tables, ShowsInv, CancelTokens
  <2> QED
    BY <2>1, <2>2 DEF ShowsInv
<1> QED
  BY <1>1, <1>2 DEF CancelHandle

(* The requests and the shutdown touch tokens only.                         *)
LEMMA ElsewhereShows ==
  ASSUME ShowsInv, UNCHANGED <<row, sub, said, status, work, snap, control>>,
         UNCHANGED tokenVars \/ \E R : CancelTokens(R),
         faults' \in Nat, faults' # 0 \/ faults = 0
  PROVE  ShowsInv'
<1>1. ASSUME NEW x \in Runs PROVE Shown(x)'
  <2>1. CASE UNCHANGED tokenVars
    BY <2>1, Aside DEF ShowsInv, tokenVars
  <2>2. ASSUME NEW R, CancelTokens(R) PROVE Shown(x)'
    <3>1. CASE x \in R
      BY <2>2, <3>1 DEF ShowsInv, Shown, Placed, Unpaused, Accepted, CancelTokens
    <3>2. CASE x \notin R
      BY <2>2, <3>2, Aside DEF ShowsInv, CancelTokens
    <3> QED
      BY <3>1, <3>2
  <2> QED
    BY <2>1, <2>2
<1> QED
  BY <1>1 DEF ShowsInv

LEMMA ShutdownShows ==
  ASSUME RunInv, ShowsInv, BeginShutdown \/ ShutdownStep
  PROVE  ShowsInv'
<1>1. CASE BeginShutdown
  BY <1>1, ElsewhereShows DEF BeginShutdown, runVars, strayVars, ShowsInv
<1>2. CASE Signal
  BY <1>2, ElsewhereShows DEF Signal, runVars, strayVars, ShowsInv
<1>3. CASE SignalFails
  <2>1. faults' \in Nat /\ faults' # 0
    BY <1>3 DEF SignalFails, Fault, ShowsInv
  <2> QED
    BY <1>3, <2>1, ElsewhereShows DEF SignalFails, runVars, strayVars
<1>4. CASE DrainReturns
  BY <1>4, ElsewhereShows DEF DrainReturns, runVars, strayVars, ShowsInv
<1>5. CASE CloseFetcher
  <2>1. faults' \in Nat /\ (faults' # 0 \/ faults = 0)
    BY <1>5 DEF CloseFetcher, Fault, ShowsInv
  <2> QED
    BY <1>5, <2>1, ElsewhereShows DEF CloseFetcher, runVars, strayVars
<1>6. ASSUME NEW r \in Runs, RetryOne(r) PROVE ShowsInv'
  BY <1>6, ElsewhereShows DEF RetryOne, runVars, strayVars, ShowsInv
<1>7. ASSUME NEW r \in Runs, CancelOne(r) PROVE ShowsInv'
  BY <1>7, CancelHandleShows DEF CancelOne, strayVars
<1>8. CASE EndShutdown
  <2>1. /\ work' = [x \in Runs |-> IF work[x] = "queued" THEN "cancelled" ELSE work[x]]
        /\ UNCHANGED <<row, sub, status, snap, said, tokenVars, control, faults>>
    BY <1>8 DEF EndShutdown
  <2>2. ASSUME NEW x \in Runs PROVE Shown(x)'
    <3>1. CASE work[x] = "queued"
      BY <2>1, <3>1 DEF RunInv, Tables, ShowsInv, Shown, Placed, Unpaused, Told, Accepted, Orphan,
         tokenVars
    <3>2. CASE work[x] # "queued"
      BY <2>1, <3>2, Aside DEF ShowsInv, tokenVars
    <3> QED
      BY <3>1, <3>2
  <2> QED
    BY <2>1, <2>2 DEF ShowsInv
<1> QED
  BY <1>1, <1>2, <1>3, <1>4, <1>5, <1>6, <1>7, <1>8 DEF ShutdownStep

LEMMA NextShows == RunInv /\ ShowsInv /\ [Next]_vars => ShowsInv'
<1> SUFFICES ASSUME RunInv, ShowsInv, [Next]_vars PROVE ShowsInv'
  OBVIOUS
<1>1. ASSUME NEW r \in Runs, Submit(r) \/ SubmitStep(r) PROVE ShowsInv'
  BY <1>1, SubmitShows, CreateRowShows, RejectShows, SaveRejectedShows DEF SubmitStep
<1>2. ASSUME NEW r \in Runs, RunStep(r) PROVE ShowsInv'
  BY <1>2, StartShows, WriteProgressShows, CheckpointShows, CollectShows, EndingShows, TryingShows,
     FinishShows DEF RunStep, RequestsOf, Ending, Trying
<1>3. ASSUME NEW r \in Runs, RetireStep(r) PROVE ShowsInv'
  BY <1>3, RetireShows
<1>4. ASSUME NEW r \in Runs, Pause(r) \/ Resume(r) \/ ControlStep(r) PROVE ShowsInv'
  BY <1>4, ControlShows, PersistControlShows, RollBackControlShows DEF ControlStep
<1>5. ASSUME NEW r \in Runs, Cancel(r) PROVE ShowsInv'
  BY <1>5, CancelHandleShows DEF Cancel, strayVars
<1>6. ASSUME NEW q \in Request, RequestStep(q) \/ StrayStep(q) PROVE ShowsInv'
  BY <1>6, ElsewhereShows DEF RequestStep, FetchStarts, FetchEnds, ParseEnds, StrayStep, StrayStarts,
     StrayEnds, runVars, strayVars, ShowsInv
<1>7. CASE BeginShutdown \/ ShutdownStep
  BY <1>7, ShutdownShows
<1>8. CASE UNCHANGED vars
  BY <1>8, ElsewhereShows DEF vars, runVars, strayVars, ShowsInv
<1> QED
  BY <1>1, <1>2, <1>3, <1>4, <1>5, <1>6, <1>7, <1>8 DEF Next

(* While the storage works, the row of a run that nobody cancelled and that  *)
(* no pause or resume is under way for says "running" or "paused" as the run *)
(* does, whatever snapshot is written late.                                 *)
THEOREM RunRowShowsControl == Spec => []RowShowsControl
<1>1. Init => ShowsInv
  BY InitShows
<1>2. RunInv /\ ShowsInv /\ [Next]_vars => ShowsInv'
  BY NextShows
<1>3. ShowsInv => RowShowsControl
  BY DEF ShowsInv, Shown, Unpaused, Told, Accepted, Orphan, RowShowsControl
<1> QED
  BY <1>1, <1>2, <1>3, RunInvariant, PTL DEF Spec
==============================================================================
