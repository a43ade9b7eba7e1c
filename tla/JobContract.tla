------------------------------ MODULE JobContract ------------------------------
(***************************************************************************)
(* What the Enterprise queue promises of a job, without the table, the      *)
(* fences, the clock, the sweeps or the restarts it keeps the promise with: *)
(* a job is submitted once per key, owned by one lease at a time and within *)
(* its budget of attempts, let into its side effect once per approval, and  *)
(* answered once, by the lease that owns it.                                *)
(*                                                                         *)
(* Jobs move independently, and several of them in one step when the code   *)
(* moves them in one transaction.  DistributedQueue implements this         *)
(* specification under the mapping given in DistributedQueueContract.       *)
(***************************************************************************)
EXTENDS Naturals

CONSTANTS
    Job,          \* jobs that may be submitted
    Worker,       \* workers
    Answer,       \* what a completion may say
    NoOwner,      \* the owner of a job no worker holds
    NoAnswer,     \* the answer of a job without one
    Key,          \* [Job -> key]: idempotency keys
    Once,         \* the jobs whose effect is not idempotent
    Budget,       \* [Job -> attempts]: attempts without an approval
    Legacy        \* jobs that had been completed before the queue kept answers

VARIABLES
    status,       \* where the job stands
    owner,        \* the lease that holds it: worker and the number of its grant
    grants,       \* leases granted so far
    effects,      \* side effects let through so far
    approvals,    \* operator retries so far
    answer,       \* the durable answer
    told          \* the answers workers were told are durable

vars == <<status, owner, grants, effects, approvals, answer, told>>

Init ==
    /\ status = [j \in Job |-> IF j \in Legacy THEN "completed" ELSE "absent"]
    /\ owner = [j \in Job |-> NoOwner]
    /\ grants = [j \in Job |-> IF j \in Legacy THEN 1 ELSE 0]
    /\ effects = [j \in Job |-> 0]
    /\ approvals = [j \in Job |-> 0]
    /\ answer = [j \in Job |-> NoAnswer]
    /\ told = [j \in Job |-> {}]

-----------------------------------------------------------------------------
Goes(j, from, to) == status[j] = from /\ status'[j] = to
Keeps(f, g, j) == g[j] = f[j]
KeepsCounts(j) == Keeps(grants, grants', j) /\ Keeps(effects, effects', j) /\ Keeps(approvals, approvals', j)
KeepsAnswer(j) == Keeps(answer, answer', j) /\ Keeps(told, told', j)

(* A key is used again only when every earlier use of it is forgotten and   *)
(* could be repeated without harm.                                          *)
Submit(j) ==
    /\ Goes(j, "absent", "queued")
    /\ \A i \in Job \ {j} : Key[i] = Key[j] =>
          \/ status[i] = "absent"
          \/ status[i] = "pruned" /\ i \notin Once
    /\ Keeps(owner, owner', j) /\ KeepsCounts(j) /\ KeepsAnswer(j)

(* The next owner, within the budget and the approvals.                     *)
Grant(j) ==
    /\ Goes(j, "queued", "owned")
    /\ grants[j] < Budget[j] + approvals[j]
    /\ j \in Once => effects[j] <= approvals[j]
    /\ \E w \in Worker : owner'[j] = <<w, grants[j] + 1>>
    /\ grants'[j] = grants[j] + 1
    /\ Keeps(effects, effects', j) /\ Keeps(approvals, approvals', j) /\ KeepsAnswer(j)

(* The owner is let into the side effect.                                   *)
Effect(j) ==
    /\ j \in Once
    /\ Goes(j, "owned", "owned")
    /\ effects[j] <= approvals[j]
    /\ effects'[j] = effects[j] + 1
    /\ Keeps(owner, owner', j) /\ Keeps(grants, grants', j) /\ Keeps(approvals, approvals', j)
    /\ KeepsAnswer(j)

(* The lease ends without an answer: given back, failed, expired, revoked.  *)
(* The job is retried only when no effect of it can have begun and budget   *)
(* is left, and waits for an operator only when one can have begun.         *)
Lose(j) ==
    /\ \/ Goes(j, "owned", "queued") /\ (j \in Once => effects[j] <= approvals[j])
                                     /\ grants[j] < Budget[j] + approvals[j]
       \/ Goes(j, "owned", "review_required") /\ j \in Once /\ effects[j] = approvals[j] + 1
       \/ Goes(j, "owned", "failed") /\ (j \in Once => effects[j] <= approvals[j])
    /\ owner'[j] = NoOwner
    /\ KeepsCounts(j) /\ KeepsAnswer(j)

(* The owner answers, and may be told so.                                   *)
Finish(j) ==
    /\ Goes(j, "owned", "completed")
    /\ answer'[j] \in {a \in Answer : <<a.worker, a.token>> = owner[j]}
    /\ told'[j] \in {{}, {answer'[j]}}
    /\ owner'[j] = NoOwner
    /\ KeepsCounts(j)

(* A repeated answer is confirmed when it is the durable one.               *)
Confirm(j) ==
    /\ status[j] \in {"completed", "pruned"}
    /\ answer[j] # NoAnswer
    /\ told'[j] = {answer[j]}
    /\ Keeps(status, status', j) /\ Keeps(owner, owner', j) /\ KeepsCounts(j) /\ Keeps(answer, answer', j)

Approve(j) ==
    /\ Goes(j, "review_required", "queued")
    /\ approvals'[j] = approvals[j] + 1
    /\ Keeps(owner, owner', j) /\ Keeps(grants, grants', j) /\ Keeps(effects, effects', j) /\ KeepsAnswer(j)

Forget(j) ==
    /\ Goes(j, "completed", "pruned") \/ Goes(j, "failed", "pruned")
    /\ Keeps(owner, owner', j) /\ KeepsCounts(j) /\ KeepsAnswer(j)

Rests(j) == Keeps(status, status', j) /\ Keeps(owner, owner', j) /\ KeepsCounts(j) /\ KeepsAnswer(j)

JobNext(j) ==
    \/ Rests(j) \/ Submit(j) \/ Grant(j) \/ Effect(j) \/ Lose(j)
    \/ Finish(j) \/ Confirm(j) \/ Approve(j) \/ Forget(j)

Next == \A j \in Job : JobNext(j)

Spec == Init /\ [][Next]_vars
=============================================================================
