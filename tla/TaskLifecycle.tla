---------------------------- MODULE TaskLifecycle ----------------------------
(***************************************************************************)
(* One repository engine and its saved tasks: admission, the execution and *)
(* reconciliation workers, operator actions that give up the gate while    *)
(* they look at the remote, settlement of refused writes, the recovery     *)
(* barrier, shutdown, crash and restart (internal/engine).                 *)
(*                                                                         *)
(* Every action is one stretch of code that holds the operator gate, so    *)
(* the interleavings are those the gate allows; the runner, git and        *)
(* filesystem work between two such stretches is the gap between actions.  *)
(***************************************************************************)
EXTENDS TaskRecord, FiniteSets

CONSTANTS
    Tasks,          \* task identities
    Operators,      \* concurrent operator requests
    Branch,         \* the head branch each task writes
    Deps,           \* the prerequisites of each task
    Concurrency,    \* config.ExecutionConcurrency
    MaxLog,         \* bound: evidence entries a task may collect
    MaxFaults       \* bound: crashes, shutdowns and storage outages in one behaviour

ASSUME TasksAssumption == IsFiniteSet(Tasks) /\ None \notin Tasks
ASSUME OperatorsAssumption == "housekeeping" \notin Operators
ASSUME DepsAssumption == Deps \in [Tasks -> SUBSET Tasks]
ASSUME BoundsAssumption == MaxLog \in Nat /\ MaxFaults \in Nat /\ Concurrency \in Nat

VARIABLES
    db,             \* the saved record of each task
    marker,         \* the durable cancellation marker of each task
    remote,         \* the commit pushed to each task's branch, or None
    removed,        \* removal of the task's workspace has begun
    disk,           \* "ok"; "readonly": writes are refused; "failed": reads too
    proc,           \* "down", "recovering", "up" or "stopping"
    tasks,          \* runtime.tasks: the worker that owns each task, or None
    settlements,    \* runtime.settlements: an exited worker's refused write
    barrier,        \* runtime.activeRecoveryError is set
    scanDone,       \* runtime.cancelScanDone
    op,             \* the request of each actor that gave up the gate, or None
    faults          \* faults so far

vars == <<db, marker, remote, removed, disk, proc, tasks, settlements, barrier,
          scanDone, op, faults>>
durable == <<db, marker, remote, removed>>
memory == <<tasks, settlements, barrier, scanDone, op>>

Actors == Operators \cup {"housekeeping"}

\* taskJob.  pc: "start" admitted; "execute" inside execute; "reviewed" a fresh
\* review of this run is in hand; "publish" inside gitops.Publish; "settle"
\* supervision holds `work' for its last commit; "join" child work has ended.
Job == [kind: {"execution", "reconciliation"}, pc: {"start", "execute", "reviewed", "publish", "settle", "join"},
        cancelled: BOOLEAN, committed: Task, pending: Task \cup {None},
        work: Task, change: {"Checkpoint", "Settlement"}]

\* `marked' is history: whether the marker was set when the request was read.
Request == [kind: {"retry", "reconcile", "discard"}, task: Tasks, original: Task, marked: BOOLEAN]

NewJob(task, kind) ==
    [kind |-> kind, pc |-> IF kind = "execution" THEN "start" ELSE "publish", cancelled |-> FALSE,
     committed |-> task, pending |-> None, work |-> task, change |-> "Settlement"]

Running(t) == tasks[t] # None
Settling(t) == settlements[t] # None
\* A workspace cleanup holds its claim while the gate is free.
CleanupClaimed(t) == \E a \in Actors : op[a] # None /\ op[a].kind = "discard" /\ op[a].task = t
Owned(t) == Running(t) \/ Settling(t) \/ CleanupClaimed(t)
Reconciling == \E t \in Tasks : Running(t) /\ tasks[t].kind = "reconciliation"
Initialized(t, task) == task.init /\ ~removed[t]
ContextEnded(t) == tasks[t].cancelled \/ proc = "stopping"

Init ==
    /\ db = [t \in Tasks |-> QueuedTask]
    /\ marker = [t \in Tasks |-> FALSE]
    /\ remote = [t \in Tasks |-> None]
    /\ removed = [t \in Tasks |-> FALSE]
    /\ disk = "ok" /\ proc = "up"
    /\ tasks = [t \in Tasks |-> None]
    /\ settlements = [t \in Tasks |-> None]
    /\ barrier = FALSE /\ scanDone = FALSE
    /\ op = [a \in Actors |-> None]
    /\ faults = 0

Accepts(t, expected, next, change) ==
    disk = "ok" /\ TxAccepts(db[t], marker[t], expected, next, change)
Saved(t, next, change) == [db EXCEPT ![t] = TxTask(db[t], marker[t], next, change)]

-----------------------------------------------------------------------------
(* Execution workers *)

FailureReasons == Reasons \ {"none", "retry_limit"}

\* What superviseTask decides after execute failed with working copy `work':
\* an interrupted task stays active for restart recovery, any other is settled.
\* It reads the marker and the service context now and commits later.
Supervised(t, work, reason, expired, timedOut) ==
    LET marked == disk # "failed" /\ marker[t]
        stopping == proc = "stopping"
        cancelled == /\ ContextEnded(t) /\ ~timedOut /\ work.output = None
                     /\ marked \/ ~stopping
        blockedFor == IF expired THEN "unknown"
                      ELSE IF reason = "unknown" THEN ExitReason(work) ELSE reason
    IN IF stopping /\ ~marked /\ ~timedOut /\ Active(work) /\ Initialized(t, work)
       THEN [tasks[t] EXCEPT !.pc = "settle", !.change = "Checkpoint", !.work = work]
       ELSE [tasks[t] EXCEPT !.pc = "settle", !.change = "Settlement",
                !.work = [work EXCEPT !.live = FALSE,
                             !.status = IF cancelled THEN "cancelled" ELSE "blocked",
                             !.reason = IF cancelled THEN "none" ELSE blockedFor]]

\* A worker commit that is refused: the record stays pending and execute
\* returns the refusal to the supervisor.
Refused(t, next) ==
    \E timedOut \in BOOLEAN :
      LET work == [SettleTaskEvidence(tasks[t].committed, next) EXCEPT !.status = tasks[t].committed.status]
      IN tasks' = [tasks EXCEPT ![t] =
             [Supervised(t, work, "unknown", timedOut, timedOut) EXCEPT !.pending = next]]

WorkerCommit(t, next, change, pc) ==
    /\ IF Accepts(t, tasks[t].committed, next, change)
       THEN /\ db' = Saved(t, next, change)
            /\ tasks' = [tasks EXCEPT ![t].committed = db'[t], ![t].pending = None, ![t].pc = pc]
       ELSE Refused(t, next) /\ UNCHANGED db
    /\ UNCHANGED <<marker, remote, removed, disk, proc, settlements, barrier, scanDone, op, faults>>

ExecutionAt(t, pc) == Running(t) /\ tasks[t].kind = "execution" /\ tasks[t].pc = pc

\* The supervisor starts execute, whose first checkpoint clears the last error.
StartExecution(t) ==
    /\ ExecutionAt(t, "start")
    /\ proc = "up" \/ (disk # "failed" /\ Active(db[t]) /\ marker[t])
    /\ WorkerCommit(t, [tasks[t].committed EXCEPT !.reason = "none"], "Checkpoint", "execute")

\* Shutdown began before the worker did: hand the admission back unspent.
DeferExecution(t) ==
    /\ ExecutionAt(t, "start") /\ proc = "stopping"
    /\ ~(disk # "failed" /\ Active(db[t]) /\ marker[t])
    /\ LET next == [db[t] EXCEPT !.status = "queued"]
           wanted == disk # "failed" /\ Active(db[t])
           kept == wanted /\ Accepts(t, tasks[t].committed, next, "Recovery")
       IN /\ db' = IF kept THEN [db EXCEPT ![t] = next] ELSE db
          /\ tasks' = [tasks EXCEPT ![t].pc = "join",
                          ![t].committed = IF kept THEN next ELSE @,
                          ![t].pending = IF wanted /\ ~kept THEN next ELSE @]
    /\ UNCHANGED <<marker, remote, removed, disk, proc, settlements, barrier, scanDone, op, faults>>

\* One checkpoint of execute, invoke, reviewRevision or repair.
StartTurn(t) ==
    LET task == tasks[t].committed IN
    /\ ExecutionAt(t, "execute") /\ task.output = None /\ ~task.live
    /\ \/ task.status = "executing" /\ ~Contains(task.log, "turn")
       \/ task.status \in {"reviewing", "repairing"}
    /\ Len(task.log) < MaxLog
    /\ WorkerCommit(t, [task EXCEPT !.live = TRUE, !.init = TRUE], "Checkpoint", "execute")

FinishTurn(t) ==
    LET task == tasks[t].committed IN
    /\ ExecutionAt(t, "execute") /\ task.live
    /\ \/ /\ task.status \in {"executing", "repairing"}
          /\ WorkerCommit(t, [task EXCEPT !.live = FALSE, !.log = Append(@, "turn")], "Checkpoint", "execute")
       \/ /\ task.status = "reviewing"
          /\ \E result \in {"findings"} \cup Commits :
                WorkerCommit(t, [task EXCEPT !.live = FALSE, !.log = Append(@, result)], "Checkpoint", "reviewed")

ReviewSnapshot(t) ==
    LET task == tasks[t].committed IN
    /\ ExecutionAt(t, "execute") /\ task.output = None /\ ~task.live
    /\ \/ task.status = "executing" /\ Contains(task.log, "turn")
       \/ task.status = "repairing" /\ Last(task.log) = "turn"
    /\ WorkerCommit(t, [task EXCEPT !.status = "reviewing"], "Checkpoint", "execute")

VerifyRevision(t) ==
    LET task == tasks[t].committed IN
    /\ ExecutionAt(t, "reviewed") /\ task.status = "reviewing" /\ Last(task.log) \in Commits
    /\ WorkerCommit(t, [task EXCEPT !.status = "verifying"], "Checkpoint", "reviewed")

RepairRevision(t) ==
    LET task == tasks[t].committed IN
    /\ ExecutionAt(t, "reviewed")
    /\ task.status = "verifying" \/ Last(task.log) = "findings"
    /\ WorkerCommit(t, [task EXCEPT !.status = "repairing"], "Checkpoint", "execute")

\* publishReviewed: the output commit becomes durable, under the gate and only
\* while the worker's context is live, before anything leaves the machine.
AuthorizePublication(t) ==
    LET task == tasks[t].committed IN
    /\ \/ ExecutionAt(t, "reviewed") /\ task.status = "verifying"
       \/ ExecutionAt(t, "execute") /\ task.output # None
    /\ ~ContextEnded(t)
    /\ LET revision == IF task.output # None THEN task.output ELSE Last(task.log)
       IN /\ ReviewAuthorizes(task, revision)
          /\ WorkerCommit(t, [task EXCEPT !.output = revision, !.status = "publishing"],
                          "AuthorizePublication", "publish")

\* Seeded fault: the branch is pushed before its output is saved.
Push_Early(t) ==
    /\ ExecutionAt(t, "reviewed") /\ tasks[t].committed.status = "verifying"
    /\ remote' = [remote EXCEPT ![t] = Last(tasks[t].committed.log)]
    /\ UNCHANGED <<db, marker, removed, disk, proc, memory, faults>>

\* gitops.Publish pushes the branch.  A worker of either kind is inside it.
Push(t) ==
    /\ Running(t) /\ tasks[t].pc = "publish"
    /\ remote[t] # tasks[t].committed.output
    /\ remote' = [remote EXCEPT ![t] = tasks[t].committed.output]
    /\ UNCHANGED <<db, marker, removed, disk, proc, memory, faults>>

PublishedTask(t) == [tasks[t].committed EXCEPT !.status = "published", !.reason = "none"]

\* Publish returned the pull request and publishedWorkerLocked records it.
CompletePublication(t) ==
    /\ ExecutionAt(t, "publish") /\ remote[t] = tasks[t].committed.output
    /\ IF Accepts(t, tasks[t].committed, PublishedTask(t), "Publication")
       THEN /\ db' = Saved(t, PublishedTask(t), "Publication")
            /\ tasks' = [tasks EXCEPT ![t].committed = db'[t], ![t].pending = None, ![t].pc = "join"]
       ELSE /\ \E timedOut \in BOOLEAN :
                 tasks' = [tasks EXCEPT ![t] = Supervised(t, tasks[t].committed, "unknown", timedOut, timedOut)]
            /\ UNCHANGED db
    /\ UNCHANGED <<marker, remote, removed, disk, proc, settlements, barrier, scanDone, op, faults>>

\* execute returns an error of its own: a failed check, a conflict, an ended
\* context or the task deadline.
ExecuteFails(t) ==
    /\ \E pc \in {"execute", "reviewed", "publish"} : ExecutionAt(t, pc)
    /\ \E reason \in FailureReasons, expired, timedOut \in BOOLEAN :
          /\ timedOut => expired
          /\ expired /\ ~timedOut => ContextEnded(t)
          /\ tasks' = [tasks EXCEPT ![t] = Supervised(t, tasks[t].committed, reason, expired, timedOut)]
    /\ UNCHANGED <<durable, disk, proc, settlements, barrier, scanDone, op, faults>>

\* The supervisor's last commit.  Refused or not, the worker then joins.
Supervise(t) ==
    LET job == tasks[t]
        next == IF job.change = "Settlement" THEN SettleTaskEvidence(job.committed, job.work) ELSE job.work
    IN
    /\ ExecutionAt(t, "settle")
    /\ IF Accepts(t, job.committed, next, job.change)
       THEN /\ db' = Saved(t, next, job.change)
            /\ tasks' = [tasks EXCEPT ![t].committed = db'[t], ![t].pending = None, ![t].pc = "join"]
       ELSE /\ tasks' = [tasks EXCEPT ![t].pending = next, ![t].pc = "join"]
            /\ UNCHANGED db
    /\ UNCHANGED <<marker, remote, removed, disk, proc, settlements, barrier, scanDone, op, faults>>

-----------------------------------------------------------------------------
(* Worker exit and the settlement of refused writes *)

\* An initialized execution worker interrupted by shutdown stays active.
Interrupted(t, job, task) == job.kind = "execution" /\ proc = "stopping" /\ Initialized(t, task)

\* The record flushTaskSettlement tries to save for a job with a pending one.
FlushTask(t, job) ==
    LET next == SettleTaskEvidence(job.committed, job.pending)
    IN IF Interrupted(t, job, job.committed) /\ Active(next) THEN next ELSE BlockExited(next)

\* Seeded fault: the pending record is written over whatever is saved.
Flushed_Blind(t, job) == IF job.pending # None THEN FlushTask(t, job) ELSE db[t]

\* What the canonical record is once the flush was tried: evidence that is
\* stale or invalid is dropped in favour of the saved record.
Flushed(t, job) ==
    IF job.pending # None /\ TxAccepts(db[t], marker[t], job.committed, FlushTask(t, job), "Settlement")
    THEN TxTask(db[t], marker[t], FlushTask(t, job), "Settlement") ELSE db[t]

\* The record finishTaskWorker leaves behind if storage accepts its writes.
ExitTask(t, job) ==
    IF Interrupted(t, job, Flushed(t, job)) THEN Flushed(t, job)
    ELSE SettleExitedTask(Flushed(t, job), marker[t])

\* Whether that takes a write: a marked task is settled even when unchanged.
ExitWrites(t, job) ==
    \/ job.pending # None
    \/ ~Interrupted(t, job, db[t]) /\ ((marker[t] /\ db[t].output = None) \/ ExitTask(t, job) # db[t])

\* Seeded fault: the claim is released without raising the barrier.
Finish_NoBarrier(t, job) ==
    IF disk = "ok"
    THEN db' = [db EXCEPT ![t] = ExitTask(t, job)] /\ UNCHANGED <<settlements, barrier, scanDone>>
    ELSE /\ settlements' = [settlements EXCEPT ![t] = job]
         /\ UNCHANGED <<db, barrier, scanDone>>

Finish(t, job) ==
    \/ /\ disk = "ok" \/ (disk = "readonly" /\ ~ExitWrites(t, job))
       /\ db' = [db EXCEPT ![t] = ExitTask(t, job)]
       /\ scanDone' = (scanDone /\ db'[t].status # "cancelled")
       /\ UNCHANGED <<settlements, barrier>>
    \/ /\ disk = "failed" \/ (disk = "readonly" /\ ExitWrites(t, job))
       /\ settlements' = [settlements EXCEPT ![t] =
              IF job.pending # None THEN [job EXCEPT !.pending = FlushTask(t, job)]
              ELSE IF disk = "readonly" THEN [job EXCEPT !.committed = db[t], !.pending = db[t]]
              ELSE job]
       /\ barrier' = TRUE
       /\ scanDone' = (scanDone /\ disk # "failed" /\ db[t].status # "cancelled")
       /\ UNCHANGED db

\* finishTaskWorker, with the gate held and every child joined.
FinishTaskWorker(t) ==
    /\ ExecutionAt(t, "join")
    /\ Finish(t, tasks[t])
    /\ tasks' = [tasks EXCEPT ![t] = None]
    /\ UNCHANGED <<marker, remote, removed, disk, proc, op, faults>>

-----------------------------------------------------------------------------
(* The scheduler pass *)

\* Records the recovery half of tick rewrites, in its order: refused
\* settlements, active records nobody owns, cancelled ones with live sessions.
Resettled(t) == IF Settling(t) THEN Flushed(t, settlements[t]) ELSE db[t]
Unowned(t) == ~Running(t) /\ ~CleanupClaimed(t)
Unorphaned(t) ==
    LET task == Resettled(t)
    IN IF Unowned(t) /\ Active(task) /\ ~task.archived /\ ~task.discarded
       THEN SettleExitedTask(task, marker[t]) ELSE task
ScanNeeded == ~scanDone \/ \E t \in Tasks : Settling(t)
Recovered(t) ==
    LET task == Unorphaned(t)
    IN IF ScanNeeded /\ Unowned(t) /\ task.status = "cancelled" THEN EndSessions(task) ELSE task

\* settlePendingTasks, blockOrphanedTasks and settleCancelledSessions all
\* succeed: the barrier comes down before anything is admitted.
TickRecovers ==
    /\ proc = "up"
    /\ \/ disk = "ok"
       \/ /\ disk = "readonly"
          /\ \A t \in Tasks : Recovered(t) = db[t] /\ ~(Settling(t) /\ settlements[t].pending # None)
    /\ db' = [t \in Tasks |-> Recovered(t)]
    /\ settlements' = [t \in Tasks |-> None]
    /\ scanDone' = TRUE /\ barrier' = FALSE
    /\ UNCHANGED <<marker, remote, removed, disk, proc, tasks, op, faults>>

\* A recovery step is refused: the barrier goes up before the gate is released.
\* Settlements with nothing left to write may be gone by then.
TickBlocked ==
    /\ proc = "up"
    /\ \/ disk = "failed"
       \/ /\ disk = "readonly"
          /\ \E t \in Tasks : Recovered(t) # db[t] \/ (Settling(t) /\ settlements[t].pending # None)
    /\ \E S \in SUBSET {t \in Tasks : Settling(t) /\ settlements[t].pending = None} :
          /\ settlements' = [t \in Tasks |-> IF t \in S THEN None ELSE settlements[t]]
          /\ scanDone' = (scanDone /\ S = {})
    /\ barrier' = TRUE
    /\ UNCHANGED <<durable, disk, proc, tasks, op, faults>>

\* The admission half runs after the gate was free for the readiness check.
Admitting == proc = "up" /\ disk = "ok" /\ ~barrier /\ ~Reconciling

\* Seeded fault: only a task that has run before is looked at.
CancelQueued_Initialized(t) ==
    /\ Admitting /\ marker[t] /\ db[t].status = "queued" /\ db[t].init
    /\ db' = [db EXCEPT ![t].status = "cancelled"]
    /\ UNCHANGED <<marker, remote, removed, disk, proc, memory, faults>>

\* cancelQueuedTasks: finish a cancellation whose second write was refused.
CancelQueued(t) ==
    LET next == [db[t] EXCEPT !.status = "cancelled", !.reason = "none"] IN
    /\ Admitting /\ marker[t] /\ ~CleanupClaimed(t)
    /\ db[t].status = "queued" /\ db[t].output = None
    /\ TxAccepts(db[t], TRUE, db[t], next, "Cancel")
    /\ db' = Saved(t, next, "Cancel")
    /\ UNCHANGED <<marker, remote, removed, disk, proc, memory, faults>>

\* Seeded fault: a prerequisite counts once it is no longer queued.
DependenciesPublished_Admitted(t) == \A d \in Deps[t] : db[d].status # "queued"

DependenciesPublished(t) == \A d \in Deps[t] : db[d].status = "published"
DependencyUnresolved(t) == \E d \in Deps[t] : db[d].status \in UnresolvedStatuses

\* blockTaskLocked on a queued task: a prerequisite is unresolved, or the
\* saved plan no longer validates.
BlockQueued(t) ==
    \E reason \in {"dependency_blocked", "workspace_invalid"} :
      LET next == [db[t] EXCEPT !.status = "blocked", !.reason = reason] IN
      /\ Admitting /\ db[t].status = "queued" /\ ~db[t].archived /\ ~CleanupClaimed(t)
      /\ reason = "dependency_blocked" => DependencyUnresolved(t)
      /\ TxAccepts(db[t], marker[t], db[t], next, "Settlement")
      /\ db' = Saved(t, next, "Settlement")
      /\ UNCHANGED <<marker, remote, removed, disk, proc, memory, faults>>

Occupied == {u \in Tasks : Running(u) \/ (Active(db[u]) /\ ~db[u].archived)}

Dispatch(t) ==
    LET next == [db[t] EXCEPT !.status = "executing"] IN
    /\ Admitting /\ db[t].status = "queued" /\ ~CleanupClaimed(t)
    /\ Cardinality(Occupied) < Concurrency
    /\ DependenciesPublished(t)
    /\ \A u \in Occupied : Branch[u] # Branch[t]
    /\ TxAccepts(db[t], marker[t], db[t], next, "Admission")
    /\ db' = Saved(t, next, "Admission")
    /\ tasks' = [tasks EXCEPT ![t] = NewJob(next, "execution")]
    /\ UNCHANGED <<marker, remote, removed, disk, proc, settlements, barrier, scanDone, op, faults>>

-----------------------------------------------------------------------------
(* Operator actions *)

Eligible(t, action) ==
    /\ disk # "failed" /\ action \in AllowedActions(db[t]) /\ ~CleanupClaimed(t)
    /\ action # "cancel" => ~Running(t) /\ ~Settling(t)

\* cancelTask: the marker commits first and the worker's context ends, then
\* the record is cancelled in a second transaction.
Cancel(t) ==
    LET next == [db[t] EXCEPT !.status = "cancelled", !.reason = "none"] IN
    /\ proc = "up" /\ disk = "ok" /\ Eligible(t, "cancel")
    /\ TxAccepts(db[t], TRUE, db[t], next, "Cancel")
    /\ marker' = [marker EXCEPT ![t] = TRUE]
    /\ db' = [db EXCEPT ![t] = next]
    /\ tasks' = IF Running(t) THEN [tasks EXCEPT ![t].cancelled = TRUE] ELSE tasks
    /\ scanDone' = FALSE
    /\ UNCHANGED <<remote, removed, disk, proc, settlements, barrier, op, faults>>

\* Storage fails between the two: the marker alone is durable.
CancelHalfway(t) ==
    /\ proc = "up" /\ disk = "ok" /\ Eligible(t, "cancel") /\ faults < MaxFaults
    /\ marker' = [marker EXCEPT ![t] = TRUE]
    /\ tasks' = IF Running(t) THEN [tasks EXCEPT ![t].cancelled = TRUE] ELSE tasks
    /\ disk' = "readonly" /\ faults' = faults + 1
    /\ UNCHANGED <<db, remote, removed, proc, settlements, barrier, scanDone, op>>

\* ResetTaskCancellation and RetryTask clear the marker inside the commit.
Resolve(t, expected, next, change) ==
    /\ disk = "ok" /\ TxAccepts(db[t], FALSE, expected, next, change)
    /\ db' = [db EXCEPT ![t] = next]
    /\ marker' = [marker EXCEPT ![t] = FALSE]

Supersede(t) ==
    LET next == [db[t] EXCEPT !.status = "cancelled", !.rediscover = TRUE] IN
    /\ proc = "up" /\ Eligible(t, "supersede")
    /\ Resolve(t, db[t], next, "Resolve")
    /\ scanDone' = FALSE
    /\ UNCHANGED <<remote, removed, disk, proc, tasks, settlements, barrier, op, faults>>

ArchivedTask(task) ==
    [task EXCEPT !.archived = TRUE, !.status = IF task.status \in Retryable THEN "cancelled" ELSE @]

Archive(t) ==
    LET next == ArchivedTask(db[t]) IN
    /\ proc = "up" /\ disk = "ok" /\ Eligible(t, "archive")
    /\ TxAccepts(db[t], marker[t], db[t], next, "Archive")
    /\ db' = Saved(t, next, "Archive")
    /\ scanDone' = (scanDone /\ next.status # "cancelled")
    /\ UNCHANGED <<marker, remote, removed, disk, proc, tasks, settlements, barrier, op, faults>>

\* Give up the gate with the task as it was read.
OpenRequest(a, kind, t) ==
    /\ op[a] = None
    /\ op' = [op EXCEPT ![a] = [kind |-> kind, task |-> t, original |-> db[t], marked |-> marker[t]]]

Pending(a, kind) == op[a] # None /\ op[a].kind = kind
Done(a) == op' = [op EXCEPT ![a] = None]

RetriedTask(task) == [task EXCEPT !.status = "queued", !.reason = "none", !.attempts = @ + 1]

\* retryTask: an output commit skips the remote checks.
Retry(a, t) ==
    /\ proc = "up" /\ a \in Operators /\ Eligible(t, "retry") /\ db[t].attempts < MaxRetries
    /\ \/ /\ db[t].output = None
          /\ OpenRequest(a, "retry", t)
          /\ UNCHANGED <<durable, disk, proc, tasks, settlements, barrier, scanDone, faults>>
       \/ /\ db[t].output # None /\ op[a] = None
          /\ Resolve(t, db[t], RetriedTask(db[t]), "Retry")
          /\ UNCHANGED <<remote, removed, disk, proc, memory, faults>>

\* The checks returned and the gate is held again: the task must be unchanged.
RetryChecked(a) ==
    LET t == op[a].task  original == op[a].original IN
    /\ Pending(a, "retry")
    /\ \/ /\ Eligible(t, "retry") /\ db[t] = original
          /\ Resolve(t, original, RetriedTask(original), "Retry")
       \/ \E reason \in FailureReasons :
             LET next == [original EXCEPT !.reason = reason] IN
             /\ Eligible(t, "retry") /\ db[t] = original
             /\ Accepts(t, original, next, "Inspect")
             /\ db' = Saved(t, next, "Inspect") /\ UNCHANGED marker
       \/ UNCHANGED <<db, marker>>    \* the write, the task or the policy said no
    /\ Done(a)
    /\ UNCHANGED <<remote, removed, disk, proc, tasks, settlements, barrier, scanDone, faults>>

\* reconcileLocked.  With an output commit the publication worker is registered
\* under the same gate as the commit; `work' keeps the record it came from.
Reconcile(a, t) ==
    /\ proc = "up" /\ a \in Operators /\ Eligible(t, "reconcile")
    /\ \A u \in Tasks : ~Running(u)
    /\ \/ /\ db[t].output = None
          /\ OpenRequest(a, "reconcile", t)
          /\ UNCHANGED <<durable, disk, proc, tasks, settlements, barrier, scanDone, faults>>
       \/ LET next == [db[t] EXCEPT !.status = "publishing"] IN
          /\ db[t].output # None /\ op[a] = None
          /\ Resolve(t, db[t], next, "Resolve")
          /\ tasks' = [tasks EXCEPT ![t] = [NewJob(next, "reconciliation") EXCEPT !.work = db[t]]]
          /\ UNCHANGED <<remote, removed, disk, proc, settlements, barrier, scanDone, op, faults>>

ReconcileChecked(a) ==
    LET t == op[a].task  original == op[a].original IN
    /\ Pending(a, "reconcile")
    /\ \/ /\ Eligible(t, "reconcile") /\ db[t] = original
          /\ \E reason \in FailureReasons :
                Resolve(t, original, [original EXCEPT !.reason = reason], "Resolve")
       \/ /\ disk # "ok" \/ ~Eligible(t, "reconcile") \/ db[t] # original
          /\ UNCHANGED <<db, marker>>
    /\ Done(a)
    /\ UNCHANGED <<remote, removed, disk, proc, tasks, settlements, barrier, scanDone, faults>>

\* The reconciliation's publication returned.  Its commit and its exit share
\* one hold of the gate.
ReconcileReturns(t) ==
    LET job == tasks[t] IN
    /\ Running(t) /\ job.kind = "reconciliation"
    /\ \/ /\ remote[t] = job.committed.output
          /\ \/ /\ Accepts(t, job.committed, PublishedTask(t), "Publication")
                /\ db' = Saved(t, PublishedTask(t), "Publication")
                /\ UNCHANGED <<settlements, barrier, scanDone>>
             \/ /\ ~Accepts(t, job.committed, PublishedTask(t), "Publication")
                /\ Finish(t, job)
       \/ \E reason \in FailureReasons :
             LET next == [job.committed EXCEPT !.status = job.work.status, !.reason = reason] IN
             \/ /\ Accepts(t, job.committed, next, "Settlement")
                /\ db' = Saved(t, next, "Settlement")
                /\ UNCHANGED <<settlements, barrier, scanDone>>
             \/ /\ ~Accepts(t, job.committed, next, "Settlement")
                /\ Finish(t, [job EXCEPT !.pending = next])
    /\ tasks' = [tasks EXCEPT ![t] = None]
    /\ UNCHANGED <<marker, remote, removed, disk, proc, op, faults>>

\* discardTask, for an operator or for retention: the workspace is removed
\* under a cleanup claim while the gate is free.
Discard(a, t) ==
    /\ proc = "up" /\ disk # "failed" /\ ~db[t].discarded /\ ~CleanupClaimed(t)
    /\ ~Active(db[t]) /\ db[t].status # "queued"
    /\ \/ a \in Operators /\ Eligible(t, "discard")
       \/ a = "housekeeping" /\ (db[t].archived \/ db[t].status = "published") /\ ~Running(t)
    /\ OpenRequest(a, "discard", t)
    /\ removed' = [removed EXCEPT ![t] = TRUE]
    /\ UNCHANGED <<db, marker, remote, disk, proc, tasks, settlements, barrier, scanDone, faults>>

Discarded(a) ==
    LET t == op[a].task  next == [db[t] EXCEPT !.discarded = TRUE] IN
    /\ Pending(a, "discard")
    /\ \/ /\ ~Active(db[t]) /\ db[t].status # "queued"
          /\ Accepts(t, db[t], next, "Discard")
          /\ db' = Saved(t, next, "Discard")
       \/ UNCHANGED db               \* the removal or the write failed
    /\ Done(a)
    /\ scanDone' = FALSE
    /\ UNCHANGED <<marker, remote, removed, disk, proc, tasks, settlements, barrier, faults>>

-----------------------------------------------------------------------------
(* Storage outages, shutdown, crash and restart *)

DiskFails ==
    /\ disk = "ok" /\ faults < MaxFaults
    /\ disk' \in {"readonly", "failed"} /\ faults' = faults + 1
    /\ UNCHANGED <<durable, proc, memory>>

DiskHeals ==
    /\ disk # "ok" /\ disk' = "ok"
    /\ UNCHANGED <<durable, proc, memory, faults>>

\* The service context ends; every worker's context ends with it.
Shutdown ==
    /\ proc = "up" /\ faults < MaxFaults
    /\ proc' = "stopping" /\ faults' = faults + 1
    /\ UNCHANGED <<durable, disk, memory>>

ForgetMemory ==
    /\ tasks' = [t \in Tasks |-> None]
    /\ settlements' = [t \in Tasks |-> None]
    /\ barrier' = FALSE /\ scanDone' = FALSE
    /\ op' = [a \in Actors |-> None]

\* Shutdown waited for every worker and every request.
Exit ==
    /\ proc = "stopping" /\ \A t \in Tasks : ~Running(t)
    /\ \A a \in Actors : op[a] = None
    /\ proc' = "down" /\ ForgetMemory
    /\ UNCHANGED <<durable, disk, faults>>

Crash ==
    /\ proc # "down" /\ faults < MaxFaults
    /\ proc' = "down" /\ ForgetMemory /\ faults' = faults + 1
    /\ UNCHANGED <<durable, disk>>

Restart ==
    /\ proc = "down" /\ proc' = "recovering"
    /\ UNCHANGED <<durable, disk, memory, faults>>

\* Recover settles the active records one commit at a time.
RecoveredTask(t) ==
    LET task == EndSessions(db[t]) IN
    IF marker[t] /\ task.output = None THEN [task EXCEPT !.status = "cancelled"]
    ELSE IF Initialized(t, task) /\ task.attempts < MaxRetries
         THEN [task EXCEPT !.status = "queued", !.attempts = @ + 1]
    ELSE [task EXCEPT !.status = "blocked",
             !.reason = IF ~Initialized(t, task) THEN "workspace_invalid"
                        ELSE IF task.output # None THEN "publication_uncertain" ELSE "retry_limit"]

RecoverTask(t) ==
    /\ proc = "recovering" /\ Active(db[t]) /\ ~db[t].archived
    /\ Accepts(t, db[t], RecoveredTask(t), "Recovery")
    /\ db' = Saved(t, RecoveredTask(t), "Recovery")
    /\ UNCHANGED <<marker, remote, removed, disk, proc, memory, faults>>

RecoverDone ==
    /\ proc = "recovering" /\ disk = "ok"
    /\ \A t \in Tasks : ~(Active(db[t]) /\ ~db[t].archived)
    /\ db' = [t \in Tasks |-> IF db[t].status = "cancelled" THEN EndSessions(db[t]) ELSE db[t]]
    /\ scanDone' = TRUE /\ proc' = "up"
    /\ UNCHANGED <<marker, remote, removed, disk, tasks, settlements, barrier, op, faults>>

RecoverFails ==
    /\ proc = "recovering" /\ disk # "ok" /\ proc' = "down"
    /\ UNCHANGED <<durable, disk, memory, faults>>

-----------------------------------------------------------------------------
WorkerStep(t) ==
    \/ StartExecution(t) \/ DeferExecution(t) \/ StartTurn(t) \/ FinishTurn(t)
    \/ ReviewSnapshot(t) \/ VerifyRevision(t) \/ RepairRevision(t)
    \/ AuthorizePublication(t) \/ Push(t) \/ CompletePublication(t) \/ ExecuteFails(t)
    \/ Supervise(t) \/ FinishTaskWorker(t) \/ ReconcileReturns(t)

SchedulerStep ==
    \/ TickRecovers \/ TickBlocked
    \/ \E t \in Tasks : CancelQueued(t) \/ BlockQueued(t) \/ Dispatch(t)

OperatorStep ==
    \/ \E t \in Tasks : Cancel(t) \/ CancelHalfway(t) \/ Supersede(t) \/ Archive(t)
    \/ \E a \in Actors, t \in Tasks : Retry(a, t) \/ Reconcile(a, t) \/ Discard(a, t)
    \/ \E a \in Actors : RetryChecked(a) \/ ReconcileChecked(a) \/ Discarded(a)

ProcessStep ==
    \/ DiskFails \/ DiskHeals \/ Shutdown \/ Exit \/ Crash \/ Restart
    \/ (\E t \in Tasks : RecoverTask(t)) \/ RecoverDone \/ RecoverFails

Next == (\E t \in Tasks : WorkerStep(t)) \/ SchedulerStep \/ OperatorStep \/ ProcessStep

Spec == Init /\ [][Next]_vars

\* Workers and requests return, because their contexts and deadlines end them;
\* the scheduler ticks on a timer; the service manager restarts a stopped
\* process; an outage ends.  Nothing is assumed of operators or of faults.
Fairness ==
    /\ \A t \in Tasks : WF_vars(WorkerStep(t)) /\ WF_vars(CancelQueued(t)) /\ WF_vars(RecoverTask(t))
    /\ WF_vars(TickRecovers)
    /\ \A a \in Actors : WF_vars(RetryChecked(a) \/ ReconcileChecked(a) \/ Discarded(a))
    /\ WF_vars(DiskHeals) /\ WF_vars(Exit) /\ WF_vars(Restart) /\ WF_vars(RecoverDone)
    /\ WF_vars(RecoverFails)

FairSpec == Spec /\ Fairness

-----------------------------------------------------------------------------
(* Properties *)

TypeOK ==
    /\ db \in [Tasks -> Task]
    /\ marker \in [Tasks -> BOOLEAN]
    /\ remote \in [Tasks -> Commits \cup {None}]
    /\ removed \in [Tasks -> BOOLEAN]
    /\ disk \in {"ok", "readonly", "failed"}
    /\ proc \in {"down", "recovering", "up", "stopping"}
    /\ tasks \in [Tasks -> Job \cup {None}]
    /\ settlements \in [Tasks -> Job \cup {None}]
    /\ barrier \in BOOLEAN /\ scanDone \in BOOLEAN
    /\ op \in [Actors -> Request \cup {None}]
    /\ faults \in 0..MaxFaults

\* A cancellation marker and an output commit never meet: cancelTask refuses
\* once publication is authorized, and the authorization commit refuses once
\* the marker is set, whichever of the two the gate lets through first.
MarkerMeetsNoOutput == \A t \in Tasks : marker[t] => db[t].output = None

\* Whatever reached the remote was saved as the task's output first, and that
\* output is the revision the last saved review found clean: a crash between
\* the authorization and the push can always be reconciled.
PushedIsAuthorized ==
    \A t \in Tasks :
        /\ remote[t] # None => db[t].output = remote[t]
        /\ db[t].output # None => ReviewAuthorizes(db[t], db[t].output)
        /\ db[t].status = "published" => remote[t] # None

\* The record a worker, or the unsaved write it left, compares against is the
\* saved one up to a cancellation: its compare-and-set loses to nothing else.
OwnerIsCurrent ==
    \A t \in Tasks :
        LET Current(job) ==
              \/ job.committed = db[t]
              \/ marker[t] /\ db[t] = [job.committed EXCEPT !.status = "cancelled", !.reason = "none"]
        IN /\ Running(t) => Current(tasks[t])
           /\ Settling(t) /\ settlements[t].pending # None => Current(settlements[t])

\* cancelScanDone lets tick skip the scan of the whole cancelled history, so
\* while it is set no cancelled task outside the runtime has a live session.
CancelScanSound ==
    proc = "up" /\ scanDone =>
        \A t \in Tasks : db[t].status = "cancelled" /\ db[t].live => Owned(t)

\* While the engine serves, an active record has a worker or an unsaved
\* settlement, or the recovery barrier keeps admission closed.
ActiveIsOwned ==
    proc = "up" =>
        \A t \in Tasks :
            /\ Active(db[t]) => Running(t) \/ Settling(t) \/ barrier
            /\ Settling(t) => barrier

\* Two workers never write one branch, and a reconciliation runs alone.
WorkersDisjoint ==
    \A t, u \in Tasks :
        t # u /\ Running(t) /\ Running(u) =>
            Branch[t] # Branch[u] /\ tasks[t].kind = "execution"

\* A workspace whose removal has begun belongs to a finished task without a
\* worker, although removal, retry and archive all give up the gate.
RemovedIsFinished ==
    \A t \in Tasks :
        removed[t] => ~Running(t) /\ db[t].status \in {"published", "cancelled"}

\* Nothing runs, and nothing is authorized, before its prerequisites are
\* published.
PrerequisitesFirst ==
    \A t \in Tasks :
        Running(t) \/ Active(db[t]) \/ db[t].output # None => \A d \in Deps[t] : db[d].status = "published"

\* No step takes back a saved decision or saved evidence.
DecisionsAreFinal ==
    [][\A t \in Tasks :
         /\ db[t].status \in {"published", "cancelled"} => db'[t].status = db[t].status
         /\ db[t].output # None => db'[t].output = db[t].output
         /\ db[t].archived => db'[t].archived
         /\ IsPrefix(db[t].log, db'[t].log)]_vars

\* While a marker stays set the task is not admitted, starts no session and
\* leaves nothing on the remote, whatever its worker was doing.
MarkerStopsWork ==
    [][\A t \in Tasks :
         marker[t] /\ marker'[t] =>
             /\ Active(db'[t]) => Active(db[t])
             /\ db'[t].live => db[t].live
             /\ db'[t].output = None
             /\ remote'[t] = remote[t]]_vars

\* A worker leaves the runtime only with its unsaved evidence in the record or
\* in a settlement, unless the process ends.
EvidenceKept ==
    [][\A t \in Tasks :
         LET Gone(job, after) == job # None /\ after = None /\ job.pending # None IN
         proc' # "down" /\ (Gone(tasks[t], tasks'[t]) \/ Gone(settlements[t], settlements'[t])) =>
             LET job == IF Gone(tasks[t], tasks'[t]) THEN tasks[t] ELSE settlements[t] IN
             \/ settlements'[t] # None
             \/ IsPrefix(job.pending.log, db'[t].log)]_vars

\* A cancellation the operator was told of half-way is finished by the worker,
\* the scheduler or restart recovery, unless a later decision lifts the marker.
CancellationTakesEffect ==
    \A t \in Tasks :
        marker[t] /\ (Active(db[t]) \/ db[t].status = "queued")
            ~> db[t].status = "cancelled" \/ ~marker[t]

\* An admitted task does not stay active for ever, across refused writes,
\* shutdown, crashes and restarts.
AdmittedTaskSettles == \A t \in Tasks : Active(db[t]) ~> ~Active(db[t])

\* The recovery barrier comes down once storage is back.
BarrierLifts == barrier ~> ~barrier

\* No session of a cancelled task stays marked running.
CancelledSessionsEnd ==
    \A t \in Tasks : db[t].status = "cancelled" /\ db[t].live ~> ~db[t].live

\* Stated by the tests of AllowedActions: a task that offers "archive" can be
\* archived.  It fails once retention has discarded a published task.
OfferedArchiveCommits ==
    \A t \in Tasks :
        "archive" \in AllowedActions(db[t]) =>
            ValidTaskChange(db[t], ArchivedTask(db[t]), "Archive", marker[t])

\* Stated by the architecture document: a committed marker blocks further
\* execution.  It fails when a retry that was checking the remote before the
\* marker was set commits after it.
MarkerOutlivesOlderRequests ==
    [][\A t \in Tasks :
         marker[t] /\ ~marker'[t] =>
             ~\E a \in Actors : /\ op[a] # None /\ op'[a] = None
                               /\ op[a].task = t /\ ~op[a].marked]_vars

\* A task's active record, its worker, its owner claim and its workspace agree:
\* a claim belongs to a current owner, an active task has one or the recovery
\* barrier stands, no two workers write one branch, retention removed only the
\* workspaces of finished tasks, and recovery missed no cancelled session.
WorkIsOwned ==
    /\ TypeOK
    /\ OwnerIsCurrent
    /\ ActiveIsOwned
    /\ WorkersDisjoint
    /\ RemovedIsFinished
    /\ CancelScanSound

\* What was decided or recorded about a task stays: published and cancelled are
\* final, a committed marker lets no further work begin, and evidence that
\* reached a record or its worker's settlement is in every later record.
HistoryKept == DecisionsAreFinal /\ MarkerStopsWork /\ EvidenceKept

\* A cancellation takes effect although storage refuses its second write, and
\* leaves no session of the task marked running.
CancellationCompletes == CancellationTakesEffect /\ CancelledSessionsEnd

\* An admitted task comes to rest and the recovery barrier comes down, through
\* refused writes, shutdowns and crashes.
WorkSettles == AdmittedTaskSettles /\ BarrierLifts

=============================================================================
