------------------------ MODULE TaskLifecycleProofs ------------------------
(***************************************************************************)
(* Proofs about TaskLifecycle for every set of tasks, operators, commits   *)
(* and every value of the bounds: type correctness, and that a durable     *)
(* cancellation marker never meets an authorized output commit.            *)
(***************************************************************************)
EXTENDS TaskLifecycle, TLAPS

-----------------------------------------------------------------------------
(* The record operators keep the record's type *)

\* The literals the operators write are statuses and reasons.
LEMMA Literals ==
    /\ {"queued", "executing", "reviewing", "repairing", "verifying", "publishing",
        "published", "blocked", "failed", "cancelled"} \subseteq Statuses
    /\ {"none", "unknown", "retry_limit", "workspace_invalid", "remote_conflict",
        "publication_uncertain", "dependency_blocked"} \subseteq Reasons
BY DEF Statuses, ActiveStatuses, UnresolvedStatuses, Retryable, Reasons

\* What the store transaction, settlement and worker exit build from saved
\* records is again a record.
LEMMA TxTaskType ==
    ASSUME NEW current \in Task, NEW next \in Task, NEW marked \in BOOLEAN, NEW change
    PROVE  TxTask(current, marked, next, change) \in Task
<1>1. MergeCancelledTask(current, next) \in Task
  BY Literals DEF MergeCancelledTask, Task
<1> QED
  BY <1>1 DEF TxTask

\* Settling pending evidence into the expected record gives a record.
LEMMA SettleTaskEvidenceType ==
    ASSUME NEW expected \in Task, NEW pending \in Task
    PROVE  SettleTaskEvidence(expected, pending) \in Task
BY DEF SettleTaskEvidence, Task

\* What a worker's exit writes, blocked or cancelled, is a record.
LEMMA SettleExitedType ==
    ASSUME NEW task \in Task, NEW marked \in BOOLEAN
    PROVE  /\ EndSessions(task) \in Task
           /\ BlockExited(task) \in Task
           /\ SettleExitedTask(task, marked) \in Task
<1>1. EndSessions(task) \in Task
  BY DEF EndSessions, Task
<1>2. ExitReason(task) \in Reasons
  BY Literals DEF ExitReason
<1>3. BlockExited(task) \in Task
  BY <1>1, <1>2, Literals DEF BlockExited, Task
<1>4. [task EXCEPT !.live = FALSE, !.status = "cancelled", !.reason = "none"] \in Task
  BY Literals DEF Task
<1>5. SettleExitedTask(task, marked) \in Task
  BY <1>3, <1>4 DEF SettleExitedTask
<1> QED
  BY <1>1, <1>3, <1>5

-----------------------------------------------------------------------------
(* Type correctness *)

\* A retry that is checking the remote still has an attempt to spend.
RetryBudget ==
    \A a \in Actors : op[a] # None /\ op[a].kind = "retry" => op[a].original.attempts < MaxRetries

\* The inductive invariant for types.
TypeInv == TypeOK /\ RetryBudget

\* superviseTask leaves a typed pending record however the run ended.
LEMMA SupervisedType ==
    ASSUME TypeOK, NEW t \in Tasks, Running(t), NEW work \in Task, NEW reason \in Reasons,
           NEW expired \in BOOLEAN, NEW timedOut \in BOOLEAN
    PROVE  Supervised(t, work, reason, expired, timedOut) \in Job
<1>1. tasks[t] \in Job
  BY DEF TypeOK, Running
<1>2. ExitReason(work) \in Reasons
  BY Literals DEF ExitReason
<1>3. \A status \in Statuses, why \in Reasons :
        [work EXCEPT !.live = FALSE, !.status = status, !.reason = why] \in Task
  BY DEF Task
<1>4. \A next \in Task, change \in {"Checkpoint", "Settlement"} :
        [tasks[t] EXCEPT !.pc = "settle", !.change = change, !.work = next] \in Job
  BY <1>1 DEF Job
<1> QED
  BY <1>2, <1>3, <1>4, Literals DEF Supervised

\* A worker commit, saved or refused, keeps every type.
LEMMA WorkerCommitType ==
    ASSUME TypeOK, NEW t \in Tasks, Running(t), NEW next \in Task, NEW change,
           NEW pc \in {"start", "execute", "reviewed", "publish", "settle", "join"},
           WorkerCommit(t, next, change, pc)
    PROVE  TypeOK'
<1>1. tasks[t] \in Job
  BY DEF TypeOK, Running
<1>2. CASE Accepts(t, tasks[t].committed, next, change)
  <2>1. db' = Saved(t, next, change)
    BY <1>2 DEF WorkerCommit
  <2>2. TxTask(db[t], marker[t], next, change) \in Task
    BY TxTaskType DEF TypeOK
  <2>3. db' \in [Tasks -> Task]
    BY <2>1, <2>2 DEF Saved, TypeOK
  <2>4. [tasks[t] EXCEPT !.committed = db'[t], !.pending = None, !.pc = pc] \in Job
    BY <1>1, <2>3 DEF Job
  <2>5. tasks' \in [Tasks -> Job \cup {None}]
    BY <1>2, <2>4 DEF WorkerCommit, TypeOK
  <2> QED
    BY <2>3, <2>5 DEF WorkerCommit, TypeOK
<1>3. CASE ~Accepts(t, tasks[t].committed, next, change)
  <2>1. Refused(t, next) /\ db' = db
    BY <1>3 DEF WorkerCommit
  <2> DEFINE work == [SettleTaskEvidence(tasks[t].committed, next)
                        EXCEPT !.status = tasks[t].committed.status]
  <2>2. work \in Task
    <3>1. tasks[t].committed \in Task
      BY <1>1 DEF Job
    <3>2. SettleTaskEvidence(tasks[t].committed, next) \in Task
      BY <3>1, SettleTaskEvidenceType
    <3> QED
      BY <3>1, <3>2 DEF Task
  <2>3. PICK timedOut \in BOOLEAN :
          tasks' = [tasks EXCEPT ![t] =
             [Supervised(t, work, "unknown", timedOut, timedOut) EXCEPT !.pending = next]]
    BY <2>1 DEF Refused
  <2> HIDE DEF work
  <2>4. Supervised(t, work, "unknown", timedOut, timedOut) \in Job
    BY <2>2, SupervisedType, Literals
  <2>5. [Supervised(t, work, "unknown", timedOut, timedOut) EXCEPT !.pending = next] \in Job
    BY <2>4 DEF Job
  <2> QED
    BY <2>1, <2>3, <2>5 DEF WorkerCommit, TypeOK
<1> QED
  BY <1>2, <1>3

\* flushTaskSettlement saves a record or keeps the settlement typed.
LEMMA FlushedType ==
    ASSUME TypeOK, NEW t \in Tasks, NEW job \in Job
    PROVE  /\ job.pending # None => FlushTask(t, job) \in Task
           /\ Flushed(t, job) \in Task
           /\ ExitTask(t, job) \in Task
<1>1. ASSUME job.pending # None
      PROVE  FlushTask(t, job) \in Task
  <2>1. job.committed \in Task /\ job.pending \in Task
    BY <1>1 DEF Job
  <2>2. SettleTaskEvidence(job.committed, job.pending) \in Task
    BY <2>1, SettleTaskEvidenceType
  <2>3. BlockExited(SettleTaskEvidence(job.committed, job.pending)) \in Task
    BY <2>2, SettleExitedType
  <2> QED
    BY <2>2, <2>3 DEF FlushTask
<1>2. Flushed(t, job) \in Task
  BY <1>1, TxTaskType DEF Flushed, TypeOK
<1>3. ExitTask(t, job) \in Task
  BY <1>2, SettleExitedType DEF ExitTask, TypeOK
<1> QED
  BY <1>1, <1>2, <1>3

\* A worker's exit leaves typed records and a typed settlement.
LEMMA FinishType ==
    ASSUME TypeOK, NEW t \in Tasks, NEW job \in Job, Finish(t, job)
    PROVE  /\ db' \in [Tasks -> Task]
           /\ settlements' \in [Tasks -> Job \cup {None}]
           /\ barrier' \in BOOLEAN
           /\ scanDone' \in BOOLEAN
<1>1. CASE disk = "ok" \/ (disk = "readonly" /\ ~ExitWrites(t, job))
  <2>1. /\ db' = [db EXCEPT ![t] = ExitTask(t, job)]
        /\ scanDone' = (scanDone /\ db'[t].status # "cancelled")
        /\ UNCHANGED <<settlements, barrier>>
    BY <1>1 DEF Finish
  <2> QED
    BY <2>1, FlushedType DEF TypeOK
<1>2. CASE ~(disk = "ok" \/ (disk = "readonly" /\ ~ExitWrites(t, job)))
  <2> DEFINE kept == IF job.pending # None THEN [job EXCEPT !.pending = FlushTask(t, job)]
                     ELSE IF disk = "readonly" THEN [job EXCEPT !.committed = db[t], !.pending = db[t]]
                     ELSE job
  <2>1. /\ db' = db
        /\ settlements' = [settlements EXCEPT ![t] = kept]
        /\ barrier' = TRUE
        /\ scanDone' = (scanDone /\ disk # "failed" /\ db[t].status # "cancelled")
    BY <1>2 DEF Finish
  <2>2. kept \in Job
    <3>1. db[t] \in Task
      BY DEF TypeOK
    <3>2. CASE job.pending # None
      BY <3>2, FlushedType DEF Job
    <3>3. CASE job.pending = None
      BY <3>1, <3>3 DEF Job
    <3> QED
      BY <3>2, <3>3
  <2> HIDE DEF kept
  <2> QED
    BY <2>1, <2>2 DEF TypeOK
<1> QED
  BY <1>1, <1>2

\* What the recovery half of tick leaves in a record.
LEMMA RecoveredType ==
    ASSUME TypeOK, NEW t \in Tasks
    PROVE  Recovered(t) \in Task
<1>1. Resettled(t) \in Task
  BY FlushedType DEF Resettled, Settling, TypeOK
<1>2. Unorphaned(t) \in Task
  BY <1>1, SettleExitedType DEF Unorphaned, TypeOK
<1>3. EndSessions(Unorphaned(t)) \in Task
  BY <1>2 DEF EndSessions, Task
<1> QED
  BY <1>2, <1>3 DEF Recovered

\* registerTaskWorker installs a typed job.
LEMMA NewJobType ==
    ASSUME NEW task \in Task, NEW kind \in {"execution", "reconciliation"}
    PROVE  NewJob(task, kind) \in Job
BY DEF NewJob, Job

\* What the record operators of operator actions and recovery build.
LEMMA StatusType ==
    ASSUME NEW task \in Task, NEW status \in Statuses, NEW reason \in Reasons
    PROVE  /\ [task EXCEPT !.status = status] \in Task
           /\ [task EXCEPT !.reason = reason] \in Task
           /\ [task EXCEPT !.status = status, !.reason = reason] \in Task
           /\ [task EXCEPT !.status = status, !.rediscover = TRUE] \in Task
           /\ [task EXCEPT !.archived = TRUE, !.status = status] \in Task
           /\ [task EXCEPT !.discarded = TRUE] \in Task
BY DEF Task

\* One saved record leaves the others as they were.
LEMMA SavedType ==
    ASSUME TypeOK, NEW t \in Tasks, NEW next \in Task, NEW change
    PROVE  Saved(t, next, change) \in [Tasks -> Task]
<1>1. TxTask(db[t], marker[t], next, change) \in Task
  BY TxTaskType DEF TypeOK
<1> QED
  BY <1>1 DEF Saved, TypeOK

\* Every step of an execution or reconciliation worker keeps the types.
LEMMA WorkerTypeStep ==
    ASSUME TypeOK, NEW t \in Tasks, WorkerStep(t)
    PROVE  TypeOK'
<1> DEFINE task == tasks[t].committed
<1>1. Running(t) => tasks[t] \in Job /\ task \in Task
  BY DEF TypeOK, Running, Job
<1>2. CASE StartExecution(t)
  <2>1. Running(t)
    BY <1>2 DEF StartExecution, ExecutionAt
  <2>2. [task EXCEPT !.reason = "none"] \in Task
    BY <1>1, <2>1, StatusType, Literals
  <2> QED
    BY <1>2, <2>1, <2>2, WorkerCommitType DEF StartExecution
<1>3. CASE DeferExecution(t)
  <2> DEFINE next == [db[t] EXCEPT !.status = "queued"]
  <2>1. Running(t) /\ next \in Task /\ db[t] \in Task
    BY <1>3, StatusType, Literals DEF DeferExecution, ExecutionAt, TypeOK
  <2>2. \A committed \in Task, pending \in Task \cup {None} :
          [tasks[t] EXCEPT !.pc = "join", !.committed = committed, !.pending = pending] \in Job
    BY <1>1, <2>1 DEF Job
  <2>3. db' \in [Tasks -> Task]
    BY <1>3, <2>1 DEF DeferExecution, TypeOK
  <2>4. PICK committed \in Task, pending \in Task \cup {None} :
          tasks' = [tasks EXCEPT ![t] =
             [tasks[t] EXCEPT !.pc = "join", !.committed = committed, !.pending = pending]]
    <3>1. tasks[t].pending \in Task \cup {None}
      BY <1>1, <2>1 DEF Job
    <3> QED
      BY <1>1, <1>3, <2>1, <3>1 DEF DeferExecution, TypeOK
  <2>5. tasks' \in [Tasks -> Job \cup {None}]
    BY <2>2, <2>4 DEF TypeOK
  <2> QED
    BY <1>3, <2>3, <2>5 DEF DeferExecution, TypeOK
<1>4. CASE StartTurn(t)
  <2>1. Running(t)
    BY <1>4 DEF StartTurn, ExecutionAt
  <2>2. [task EXCEPT !.live = TRUE, !.init = TRUE] \in Task
    BY <1>1, <2>1 DEF Task
  <2> QED
    BY <1>4, <2>1, <2>2, WorkerCommitType DEF StartTurn
<1>5. CASE FinishTurn(t)
  <2>1. Running(t)
    BY <1>5 DEF FinishTurn, ExecutionAt
  <2>2. ASSUME NEW entry \in Entries
        PROVE  [task EXCEPT !.live = FALSE, !.log = Append(@, entry)] \in Task
    <3>1. task \in Task /\ task.log \in Seq(Entries)
      BY <1>1, <2>1 DEF Task
    <3>2. Append(task.log, entry) \in Seq(Entries)
      BY <3>1
    <3> QED
      BY <3>1, <3>2 DEF Task
  <2>3. "turn" \in Entries /\ "findings" \in Entries /\ Commits \subseteq Entries
    BY DEF Entries
  <2> QED
    BY <1>5, <2>1, <2>2, <2>3, WorkerCommitType DEF FinishTurn
<1>6. CASE ReviewSnapshot(t) \/ VerifyRevision(t) \/ RepairRevision(t)
  <2>1. Running(t)
    BY <1>6 DEF ReviewSnapshot, VerifyRevision, RepairRevision, ExecutionAt
  <2>2. \A status \in Statuses : [task EXCEPT !.status = status] \in Task
    BY <1>1, <2>1, StatusType, Literals
  <2> QED
    BY <1>6, <2>1, <2>2, Literals, WorkerCommitType DEF ReviewSnapshot, VerifyRevision, RepairRevision
<1>7. CASE AuthorizePublication(t)
  <2> DEFINE revision == IF task.output # None THEN task.output ELSE Last(task.log)
  <2>1. Running(t)
    BY <1>7 DEF AuthorizePublication, ExecutionAt
  <2>2. revision \in Commits
    BY <1>7 DEF AuthorizePublication, ReviewAuthorizes
  <2>3. [task EXCEPT !.output = revision, !.status = "publishing"] \in Task
    <3> HIDE DEF revision
    <3> QED
      BY <1>1, <2>1, <2>2, Literals DEF Task
  <2>4. WorkerCommit(t, [task EXCEPT !.output = revision, !.status = "publishing"],
                     "AuthorizePublication", "publish")
    BY <1>7 DEF AuthorizePublication
  <2> HIDE DEF revision
  <2> QED
    BY <2>1, <2>3, <2>4, WorkerCommitType
<1>8. CASE Push(t)
  <2>1. task.output \in Commits \cup {None}
    BY <1>1, <1>8 DEF Push, Task
  <2> QED
    BY <1>8, <2>1 DEF Push, TypeOK, memory
<1>9. CASE CompletePublication(t)
  <2>1. Running(t)
    BY <1>9 DEF CompletePublication, ExecutionAt
  <2>2. PublishedTask(t) \in Task
    BY <1>1, <2>1, StatusType, Literals DEF PublishedTask
  <2>3. CASE Accepts(t, task, PublishedTask(t), "Publication")
    <3>1. db' \in [Tasks -> Task]
      BY <1>9, <2>2, <2>3, SavedType DEF CompletePublication
    <3>2. [tasks[t] EXCEPT !.committed = db'[t], !.pending = None, !.pc = "join"] \in Job
      BY <1>1, <2>1, <3>1 DEF Job
    <3>3. tasks' \in [Tasks -> Job \cup {None}]
      BY <1>9, <2>3, <3>2 DEF CompletePublication, TypeOK
    <3> QED
      BY <1>9, <3>1, <3>3 DEF CompletePublication, TypeOK
  <2>4. CASE ~Accepts(t, task, PublishedTask(t), "Publication")
    <3>1. PICK timedOut \in BOOLEAN :
            tasks' = [tasks EXCEPT ![t] = Supervised(t, task, "unknown", timedOut, timedOut)]
      BY <1>9, <2>4 DEF CompletePublication
    <3>2. Supervised(t, task, "unknown", timedOut, timedOut) \in Job
      BY <1>1, <2>1, SupervisedType, Literals
    <3> QED
      BY <1>9, <2>4, <3>1, <3>2 DEF CompletePublication, TypeOK
  <2> QED
    BY <2>3, <2>4
<1>10. CASE ExecuteFails(t)
  <2>1. Running(t)
    BY <1>10 DEF ExecuteFails, ExecutionAt
  <2>2. PICK reason \in FailureReasons, expired \in BOOLEAN, timedOut \in BOOLEAN :
          tasks' = [tasks EXCEPT ![t] = Supervised(t, task, reason, expired, timedOut)]
    BY <1>10 DEF ExecuteFails
  <2>3. Supervised(t, task, reason, expired, timedOut) \in Job
    BY <1>1, <2>1, SupervisedType DEF FailureReasons
  <2> QED
    BY <1>10, <2>2, <2>3 DEF ExecuteFails, TypeOK, durable
<1>11. CASE Supervise(t)
  <2> DEFINE next == IF tasks[t].change = "Settlement"
                     THEN SettleTaskEvidence(task, tasks[t].work) ELSE tasks[t].work
  <2>1. Running(t)
    BY <1>11 DEF Supervise, ExecutionAt
  <2>2. next \in Task
    BY <1>1, <2>1, SettleTaskEvidenceType DEF Job
  <2> HIDE DEF next
  <2>3. CASE Accepts(t, task, next, tasks[t].change)
    <3>1. /\ db' = Saved(t, next, tasks[t].change)
          /\ tasks' = [tasks EXCEPT ![t].committed = db'[t], ![t].pending = None, ![t].pc = "join"]
      BY <1>11, <2>3 DEF Supervise, next
    <3>2. db' \in [Tasks -> Task]
      BY <2>2, <3>1, SavedType
    <3>3. [tasks[t] EXCEPT !.committed = db'[t], !.pending = None, !.pc = "join"] \in Job
      BY <1>1, <2>1, <3>2 DEF Job
    <3> QED
      BY <1>11, <3>1, <3>2, <3>3 DEF Supervise, TypeOK
  <2>4. CASE ~Accepts(t, task, next, tasks[t].change)
    <3>1. tasks' = [tasks EXCEPT ![t].pending = next, ![t].pc = "join"] /\ db' = db
      BY <1>11, <2>4 DEF Supervise, next
    <3>2. [tasks[t] EXCEPT !.pending = next, !.pc = "join"] \in Job
      BY <1>1, <2>1, <2>2 DEF Job
    <3> QED
      BY <1>11, <3>1, <3>2 DEF Supervise, TypeOK
  <2> QED
    BY <2>3, <2>4
<1>12. CASE FinishTaskWorker(t)
  <2>1. tasks[t] \in Job
    BY <1>1, <1>12 DEF FinishTaskWorker, ExecutionAt
  <2>2. Finish(t, tasks[t])
    BY <1>12 DEF FinishTaskWorker
  <2> QED
    BY <1>12, <2>1, <2>2, FinishType DEF FinishTaskWorker, TypeOK
<1>13. CASE ReconcileReturns(t)
  <2>1. Running(t) /\ tasks[t] \in Job
    BY <1>1, <1>13 DEF ReconcileReturns
  <2>2. PublishedTask(t) \in Task
    BY <1>1, <2>1, StatusType, Literals DEF PublishedTask
  <2>3. \A reason \in FailureReasons :
          [task EXCEPT !.status = tasks[t].work.status, !.reason = reason] \in Task
    <3>1. tasks[t].work.status \in Statuses
      BY <2>1 DEF Job, Task
    <3> QED
      BY <1>1, <2>1, <3>1, StatusType DEF FailureReasons
  <2>4. \A next \in Task : [tasks[t] EXCEPT !.pending = next] \in Job
    BY <2>1 DEF Job
  <2>5. \/ \E next \in Task, change \in {"Publication", "Settlement"} :
             db' = Saved(t, next, change) /\ UNCHANGED <<settlements, barrier, scanDone>>
        \/ \E job \in Job : Finish(t, job)
    <3>1. CASE /\ db' = Saved(t, PublishedTask(t), "Publication")
               /\ UNCHANGED <<settlements, barrier, scanDone>>
      BY <2>2, <3>1
    <3>2. CASE Finish(t, tasks[t])
      BY <2>1, <3>2
    <3>3. ASSUME NEW reason \in FailureReasons,
                 LET next == [task EXCEPT !.status = tasks[t].work.status, !.reason = reason] IN
                 \/ /\ db' = Saved(t, next, "Settlement")
                    /\ UNCHANGED <<settlements, barrier, scanDone>>
                 \/ Finish(t, [tasks[t] EXCEPT !.pending = next])
          PROVE  <2>5
      <4> DEFINE next == [task EXCEPT !.status = tasks[t].work.status, !.reason = reason]
      <4>1. next \in Task
        BY <2>3
      <4> HIDE DEF next
      <4> QED
        BY <2>4, <3>3, <4>1 DEF next
    <3> QED
      BY <1>13, <3>1, <3>2, <3>3 DEF ReconcileReturns
  <2>6. /\ db' \in [Tasks -> Task]
        /\ settlements' \in [Tasks -> Job \cup {None}]
        /\ barrier' \in BOOLEAN /\ scanDone' \in BOOLEAN
    BY <2>5, SavedType, FinishType DEF TypeOK
  <2> QED
    BY <1>13, <2>6 DEF ReconcileReturns, TypeOK
<1> QED
  BY <1>2, <1>3, <1>4, <1>5, <1>6, <1>7, <1>8, <1>9, <1>10, <1>11, <1>12, <1>13 DEF WorkerStep

\* Every part of tick keeps the types.
LEMMA SchedulerTypeStep ==
    ASSUME TypeOK, SchedulerStep
    PROVE  TypeOK'
<1>1. CASE TickRecovers
  <2>1. db' \in [Tasks -> Task]
    BY <1>1, RecoveredType DEF TickRecovers
  <2> QED
    BY <1>1, <2>1 DEF TickRecovers, TypeOK
<1>2. CASE TickBlocked
  <2>1. settlements' \in [Tasks -> Job \cup {None}] /\ scanDone' \in BOOLEAN
    BY <1>2 DEF TickBlocked, TypeOK
  <2> QED
    BY <1>2, <2>1 DEF TickBlocked, TypeOK, durable
<1>3. ASSUME NEW t \in Tasks, CancelQueued(t) \/ BlockQueued(t)
      PROVE  TypeOK'
  <2>1. \A status \in Statuses, reason \in Reasons :
          [db[t] EXCEPT !.status = status, !.reason = reason] \in Task
    BY StatusType DEF TypeOK
  <2>2. PICK status \in Statuses, reason \in Reasons, change \in {"Cancel", "Settlement"} :
          db' = Saved(t, [db[t] EXCEPT !.status = status, !.reason = reason], change)
    BY <1>3, Literals DEF CancelQueued, BlockQueued
  <2>3. [db[t] EXCEPT !.status = status, !.reason = reason] \in Task
    BY <2>1
  <2>4. db' \in [Tasks -> Task]
    BY <2>2, <2>3, SavedType
  <2> QED
    BY <1>3, <2>4 DEF CancelQueued, BlockQueued, TypeOK, memory
<1>4. ASSUME NEW t \in Tasks, Dispatch(t)
      PROVE  TypeOK'
  <2> DEFINE next == [db[t] EXCEPT !.status = "executing"]
  <2>1. next \in Task
    BY StatusType, Literals DEF TypeOK
  <2>2. /\ db' = Saved(t, next, "Admission")
        /\ tasks' = [tasks EXCEPT ![t] = NewJob(next, "execution")]
    BY <1>4 DEF Dispatch
  <2> HIDE DEF next
  <2>3. db' \in [Tasks -> Task] /\ NewJob(next, "execution") \in Job
    BY <2>1, <2>2, SavedType, NewJobType
  <2> QED
    BY <1>4, <2>2, <2>3 DEF Dispatch, TypeOK
<1> QED
  BY <1>1, <1>2, <1>3, <1>4 DEF SchedulerStep

\* A request that gives up the gate, or is done, keeps the type of op.
LEMMA RequestType ==
    ASSUME TypeOK, NEW a \in Actors
    PROVE  /\ \A t \in Tasks, kind \in {"retry", "reconcile", "discard"} :
                 OpenRequest(a, kind, t) => op' \in [Actors -> Request \cup {None}]
           /\ Done(a) => op' \in [Actors -> Request \cup {None}]
<1>1. ASSUME NEW t \in Tasks, NEW kind \in {"retry", "reconcile", "discard"}
      PROVE  [kind |-> kind, task |-> t, original |-> db[t], marked |-> marker[t]] \in Request
  BY DEF TypeOK, Request
<1> QED
  BY <1>1 DEF OpenRequest, Done, TypeOK

\* Lifting a marker with a record change keeps their types.
LEMMA ResolveType ==
    ASSUME TypeOK, NEW t \in Tasks, NEW expected, NEW next \in Task, NEW change,
           Resolve(t, expected, next, change)
    PROVE  db' \in [Tasks -> Task] /\ marker' \in [Tasks -> BOOLEAN]
BY DEF Resolve, TypeOK

\* One more fault within the bound.
LEMMA FaultsType ==
    ASSUME faults \in 0..MaxFaults, faults < MaxFaults
    PROVE  faults + 1 \in 0..MaxFaults
BY BoundsAssumption

\* Every operator action keeps the types.
LEMMA OperatorTypeStep ==
    ASSUME TypeInv, OperatorStep
    PROVE  TypeOK'
<1> USE DEF TypeInv
<1>1. \A t \in Tasks : db[t] \in Task
  BY DEF TypeOK
<1>2. ASSUME NEW t \in Tasks, Cancel(t) \/ CancelHalfway(t)
      PROVE  TypeOK'
  <2>1. db' \in [Tasks -> Task] /\ marker' \in [Tasks -> BOOLEAN]
    <3>1. [db[t] EXCEPT !.status = "cancelled", !.reason = "none"] \in Task
      BY <1>1, StatusType, Literals
    <3> QED
      BY <1>2, <3>1 DEF Cancel, CancelHalfway, TypeOK
  <2>2. tasks' \in [Tasks -> Job \cup {None}]
    <3>1. Running(t) => [tasks[t] EXCEPT !.cancelled = TRUE] \in Job
      BY DEF Running, TypeOK, Job
    <3> QED
      BY <1>2, <3>1 DEF Cancel, CancelHalfway, TypeOK
  <2>3. faults' \in 0..MaxFaults
    BY <1>2, FaultsType DEF Cancel, CancelHalfway, TypeOK
  <2>4. disk' \in {"ok", "readonly", "failed"} /\ scanDone' \in BOOLEAN
    BY <1>2 DEF Cancel, CancelHalfway, TypeOK
  <2> QED
    BY <1>2, <2>1, <2>2, <2>3, <2>4 DEF Cancel, CancelHalfway, TypeOK
<1>3. ASSUME NEW t \in Tasks, Supersede(t)
      PROVE  TypeOK'
  <2>1. [db[t] EXCEPT !.status = "cancelled", !.rediscover = TRUE] \in Task
    BY <1>1, StatusType, Literals
  <2> QED
    BY <1>3, <2>1, ResolveType DEF Supersede, TypeOK
<1>4. ASSUME NEW t \in Tasks, Archive(t)
      PROVE  TypeOK'
  <2>1. ArchivedTask(db[t]) \in Task
    <3> DEFINE status == IF db[t].status \in Retryable THEN "cancelled" ELSE db[t].status
    <3>1. status \in Statuses
      BY <1>1, Literals DEF Task
    <3>2. ArchivedTask(db[t]) = [db[t] EXCEPT !.archived = TRUE, !.status = status]
      BY DEF ArchivedTask
    <3> HIDE DEF status
    <3> QED
      BY <1>1, <3>1, <3>2 DEF Task
  <2>2. db' \in [Tasks -> Task]
    BY <1>4, <2>1, SavedType DEF Archive
  <2> QED
    BY <1>4, <2>2 DEF Archive, TypeOK
<1>5. ASSUME NEW task \in Task, task.attempts < MaxRetries
      PROVE  RetriedTask(task) \in Task
  <2>1. task.attempts + 1 \in 0..MaxRetries
    BY <1>5, MaxRetriesAssumption DEF Task
  <2> QED
    BY <2>1, Literals DEF RetriedTask, Task
<1>6. ASSUME NEW a \in Actors, NEW t \in Tasks, Retry(a, t)
      PROVE  TypeOK'
  <2>1. CASE db[t].output = None
    <3>1. OpenRequest(a, "retry", t)
      BY <1>6, <2>1 DEF Retry
    <3> QED
      BY <1>6, <2>1, <3>1, RequestType DEF Retry, TypeOK, durable
  <2>2. CASE db[t].output # None
    <3>1. Resolve(t, db[t], RetriedTask(db[t]), "Retry") /\ RetriedTask(db[t]) \in Task
      BY <1>1, <1>5, <1>6, <2>2 DEF Retry
    <3> QED
      BY <1>6, <2>2, <3>1, ResolveType DEF Retry, TypeOK, memory
  <2> QED
    BY <2>1, <2>2
<1>7. ASSUME NEW a \in Actors, RetryChecked(a)
      PROVE  TypeOK'
  <2> DEFINE t == op[a].task  original == op[a].original
  <2>1. t \in Tasks /\ original \in Task /\ original.attempts < MaxRetries
    BY <1>7 DEF RetryChecked, Pending, TypeOK, Request, RetryBudget
  <2>2. RetriedTask(original) \in Task
    BY <1>5, <2>1
  <2>3. \A reason \in FailureReasons : [original EXCEPT !.reason = reason] \in Task
    BY <2>1, StatusType, Literals DEF FailureReasons
  <2> HIDE DEF t, original
  <2>4. db' \in [Tasks -> Task] /\ marker' \in [Tasks -> BOOLEAN]
    <3>1. CASE Resolve(t, original, RetriedTask(original), "Retry")
      BY <2>1, <2>2, <3>1, ResolveType
    <3>2. ASSUME NEW reason \in FailureReasons, UNCHANGED marker,
                 db' = Saved(t, [original EXCEPT !.reason = reason], "Inspect")
          PROVE  db' \in [Tasks -> Task] /\ marker' \in [Tasks -> BOOLEAN]
      <4>1. [original EXCEPT !.reason = reason] \in Task
        BY <2>3
      <4> QED
        BY <2>1, <3>2, <4>1, SavedType DEF TypeOK
    <3>3. CASE UNCHANGED <<db, marker>>
      BY <3>3 DEF TypeOK
    <3> QED
      BY <1>7, <3>1, <3>2, <3>3 DEF RetryChecked, t, original
  <2>5. op' \in [Actors -> Request \cup {None}]
    BY <1>7, RequestType DEF RetryChecked
  <2> QED
    BY <1>7, <2>4, <2>5 DEF RetryChecked, TypeOK
<1>8. ASSUME NEW a \in Actors, NEW t \in Tasks, Reconcile(a, t)
      PROVE  TypeOK'
  <2>1. CASE db[t].output = None
    <3>1. OpenRequest(a, "reconcile", t)
      BY <1>8, <2>1 DEF Reconcile
    <3> QED
      BY <1>8, <2>1, <3>1, RequestType DEF Reconcile, TypeOK, durable
  <2>2. CASE db[t].output # None
    <3> DEFINE next == [db[t] EXCEPT !.status = "publishing"]
    <3>1. next \in Task
      BY <1>1, StatusType, Literals
    <3>2. /\ Resolve(t, db[t], next, "Resolve")
          /\ tasks' = [tasks EXCEPT ![t] = [NewJob(next, "reconciliation") EXCEPT !.work = db[t]]]
      BY <1>8, <2>2 DEF Reconcile
    <3> HIDE DEF next
    <3>3. NewJob(next, "reconciliation") \in Job
      BY <3>1, NewJobType
    <3>4. [NewJob(next, "reconciliation") EXCEPT !.work = db[t]] \in Job
      BY <1>1, <3>3 DEF Job
    <3>5. tasks' \in [Tasks -> Job \cup {None}]
      BY <3>2, <3>4 DEF TypeOK
    <3> QED
      BY <1>8, <2>2, <3>1, <3>2, <3>5, ResolveType DEF Reconcile, TypeOK
  <2> QED
    BY <2>1, <2>2
<1>9. ASSUME NEW a \in Actors, ReconcileChecked(a)
      PROVE  TypeOK'
  <2> DEFINE t == op[a].task  original == op[a].original
  <2>1. t \in Tasks /\ original \in Task
    BY <1>9 DEF ReconcileChecked, Pending, TypeOK, Request
  <2>2. \A reason \in FailureReasons : [original EXCEPT !.reason = reason] \in Task
    BY <2>1, StatusType, Literals DEF FailureReasons
  <2> HIDE DEF t, original
  <2>3. db' \in [Tasks -> Task] /\ marker' \in [Tasks -> BOOLEAN]
    <3>1. ASSUME NEW reason \in FailureReasons,
                 Resolve(t, original, [original EXCEPT !.reason = reason], "Resolve")
          PROVE  db' \in [Tasks -> Task] /\ marker' \in [Tasks -> BOOLEAN]
      <4>1. [original EXCEPT !.reason = reason] \in Task
        BY <2>2
      <4> QED
        BY <2>1, <3>1, <4>1, ResolveType
    <3>2. CASE UNCHANGED <<db, marker>>
      BY <3>2 DEF TypeOK
    <3> QED
      BY <1>9, <3>1, <3>2 DEF ReconcileChecked, t, original
  <2>4. op' \in [Actors -> Request \cup {None}]
    BY <1>9, RequestType DEF ReconcileChecked
  <2> QED
    BY <1>9, <2>3, <2>4 DEF ReconcileChecked, TypeOK
<1>10. ASSUME NEW a \in Actors, NEW t \in Tasks, Discard(a, t)
       PROVE  TypeOK'
  <2>1. op' \in [Actors -> Request \cup {None}]
    BY <1>10, RequestType DEF Discard
  <2> QED
    BY <1>10, <2>1 DEF Discard, TypeOK
<1>11. ASSUME NEW a \in Actors, Discarded(a)
       PROVE  TypeOK'
  <2> DEFINE t == op[a].task
  <2>1. t \in Tasks
    BY <1>11 DEF Discarded, Pending, TypeOK, Request
  <2>2. [db[t] EXCEPT !.discarded = TRUE] \in Task
    BY <1>1, <2>1, StatusType, Literals
  <2>3. db' \in [Tasks -> Task]
    <3>1. db' = Saved(t, [db[t] EXCEPT !.discarded = TRUE], "Discard") \/ UNCHANGED db
      BY <1>11 DEF Discarded
    <3> QED
      BY <2>1, <2>2, <3>1, SavedType DEF TypeOK
  <2>4. op' \in [Actors -> Request \cup {None}]
    BY <1>11, RequestType DEF Discarded
  <2> QED
    BY <1>11, <2>3, <2>4 DEF Discarded, TypeOK
<1> QED
  BY <1>2, <1>3, <1>4, <1>6, <1>7, <1>8, <1>9, <1>10, <1>11 DEF OperatorStep

\* Outages, shutdown, crash and every part of Recover keep the types.
LEMMA ProcessTypeStep ==
    ASSUME TypeOK, ProcessStep
    PROVE  TypeOK'
<1>1. CASE DiskHeals \/ Restart \/ RecoverFails
  BY <1>1 DEF DiskHeals, Restart, RecoverFails, TypeOK, durable, memory
<1>5. CASE DiskFails
  BY <1>5, FaultsType DEF DiskFails, TypeOK, durable, memory
<1>6. CASE Shutdown
  BY <1>6, FaultsType DEF Shutdown, TypeOK, durable, memory
<1>2. CASE Exit \/ Crash
  BY <1>2, FaultsType DEF Exit, Crash, ForgetMemory, TypeOK, durable
<1>3. ASSUME NEW t \in Tasks, RecoverTask(t)
      PROVE  TypeOK'
  <2>1. EndSessions(db[t]) \in Task
    BY SettleExitedType DEF TypeOK
  <2>2. RecoveredTask(t) \in Task
    <3> DEFINE task == EndSessions(db[t])
    <3>1. \A status \in Statuses, reason \in Reasons :
            /\ [task EXCEPT !.status = status] \in Task
            /\ [task EXCEPT !.status = status, !.reason = reason] \in Task
      BY <2>1, StatusType
    <3>2. task.attempts < MaxRetries =>
            [task EXCEPT !.status = "queued", !.attempts = @ + 1] \in Task
      <4>1. task.attempts < MaxRetries => task.attempts + 1 \in 0..MaxRetries
        BY <2>1, MaxRetriesAssumption DEF Task
      <4> QED
        BY <2>1, <4>1, Literals DEF Task
    <3> HIDE DEF task
    <3> QED
      BY <3>1, <3>2, Literals DEF RecoveredTask, task
  <2>3. db' \in [Tasks -> Task]
    BY <1>3, <2>2, SavedType DEF RecoverTask
  <2> QED
    BY <1>3, <2>3 DEF RecoverTask, TypeOK, memory
<1>4. CASE RecoverDone
  <2>1. \A t \in Tasks : EndSessions(db[t]) \in Task
    BY SettleExitedType DEF TypeOK
  <2> QED
    BY <1>4, <2>1 DEF RecoverDone, TypeOK
<1> QED
  BY <1>1, <1>2, <1>3, <1>4, <1>5, <1>6 DEF ProcessStep

\* Requests keep their retry budget: only Retry opens one, with an attempt left.
LEMMA RetryBudgetStep ==
    ASSUME TypeInv, Next
    PROVE  RetryBudget'
<1>1. CASE UNCHANGED op
  BY <1>1 DEF TypeInv, RetryBudget
<1>2. ASSUME NEW a \in Actors, Done(a)
      PROVE  RetryBudget'
  BY <1>2 DEF TypeInv, TypeOK, RetryBudget, Done
<1>3. CASE ForgetMemory
  BY <1>3 DEF RetryBudget, ForgetMemory
<1>4. ASSUME NEW a \in Actors, NEW t \in Tasks, Retry(a, t), OpenRequest(a, "retry", t)
      PROVE  RetryBudget'
  BY <1>4 DEF Retry, OpenRequest, TypeInv, TypeOK, RetryBudget
<1>5. ASSUME NEW a \in Actors, NEW t \in Tasks,
             OpenRequest(a, "reconcile", t) \/ OpenRequest(a, "discard", t)
      PROVE  RetryBudget'
  BY <1>5 DEF OpenRequest, TypeInv, TypeOK, RetryBudget
<1>6. ASSUME NEW t \in Tasks, WorkerStep(t)
      PROVE  UNCHANGED op
  BY <1>6 DEF WorkerStep, StartExecution, DeferExecution, StartTurn, FinishTurn, ReviewSnapshot,
     VerifyRevision, RepairRevision, AuthorizePublication, Push, CompletePublication, ExecuteFails,
     Supervise, FinishTaskWorker, ReconcileReturns, WorkerCommit, memory
<1>7. CASE SchedulerStep
  <2>1. UNCHANGED op
    BY <1>7 DEF SchedulerStep, TickRecovers, TickBlocked, CancelQueued, BlockQueued, Dispatch, memory
  <2> QED
    BY <1>1, <2>1
<1>8. CASE OperatorStep
  <2>1. ASSUME NEW t \in Tasks, Cancel(t) \/ CancelHalfway(t) \/ Supersede(t) \/ Archive(t)
        PROVE  UNCHANGED op
    BY <2>1 DEF Cancel, CancelHalfway, Supersede, Archive
  <2>2. ASSUME NEW a \in Actors, NEW t \in Tasks, Retry(a, t) \/ Reconcile(a, t) \/ Discard(a, t)
        PROVE  \/ UNCHANGED op
               \/ Retry(a, t) /\ OpenRequest(a, "retry", t)
               \/ OpenRequest(a, "reconcile", t) \/ OpenRequest(a, "discard", t)
    BY <2>2 DEF Retry, Reconcile, Discard, memory
  <2>3. ASSUME NEW a \in Actors, RetryChecked(a) \/ ReconcileChecked(a) \/ Discarded(a)
        PROVE  Done(a)
    BY <2>3 DEF RetryChecked, ReconcileChecked, Discarded
  <2> QED
    BY <1>1, <1>2, <1>4, <1>5, <1>8, <2>1, <2>2, <2>3 DEF OperatorStep
<1>9. CASE ProcessStep
  <2>1. UNCHANGED op \/ ForgetMemory
    BY <1>9 DEF ProcessStep, DiskFails, DiskHeals, Shutdown, Exit, Crash, Restart, RecoverTask,
       RecoverDone, RecoverFails, memory
  <2> QED
    BY <1>1, <1>3, <2>1
<1> QED
  BY <1>1, <1>6, <1>7, <1>8, <1>9 DEF Next

\* Type correctness: every record, worker, settlement and request the engine
\* holds is well formed, and attempts never pass the retry ceiling.
THEOREM TypeCorrect == Spec => []TypeOK
<1>1. Init => TypeInv
  <2>1. QueuedTask \in Task
    BY Literals, MaxRetriesAssumption DEF QueuedTask, Task
  <2>2. 0 \in 0..MaxFaults
    BY BoundsAssumption
  <2>3. Init => TypeOK
    BY <2>1, <2>2 DEF Init, TypeOK
  <2>4. Init => RetryBudget
    BY DEF Init, RetryBudget
  <2> QED
    BY <2>3, <2>4 DEF TypeInv
<1>2. TypeInv /\ [Next]_vars => TypeInv'
  <2> SUFFICES ASSUME TypeInv, [Next]_vars PROVE TypeInv'
    OBVIOUS
  <2>1. CASE Next
    <3>1. TypeOK'
      BY <2>1, WorkerTypeStep, SchedulerTypeStep, OperatorTypeStep, ProcessTypeStep DEF Next, TypeInv
    <3> QED
      BY <2>1, <3>1, RetryBudgetStep DEF TypeInv
  <2>2. CASE UNCHANGED vars
    BY <2>2 DEF vars, TypeInv, TypeOK, RetryBudget
  <2> QED
    BY <2>1, <2>2
<1>3. TypeInv => TypeOK
  BY DEF TypeInv
<1> QED
  BY <1>1, <1>2, <1>3, PTL DEF Spec

-----------------------------------------------------------------------------
(* The marker and the output commit *)

\* Ending sessions, blocking or cancelling a record leaves its output alone.
LEMMA ExitKeepsOutput ==
    ASSUME NEW task \in Task, NEW marked \in BOOLEAN
    PROVE  /\ EndSessions(task).output = task.output
           /\ SettleExitedTask(task, marked).output = task.output
BY DEF EndSessions, SettleExitedTask, BlockExited, Task

\* Only an authorization changes the output a transaction finds, and it is
\* refused under a marker.
LEMMA TxKeepsNoOutput ==
    ASSUME TypeOK, MarkerMeetsNoOutput, NEW t \in Tasks, marker[t],
           NEW expected, NEW next, NEW change,
           TxAccepts(db[t], marker[t], expected, next, change)
    PROVE  TxTask(db[t], marker[t], next, change).output = None
<1> DEFINE current == db[t]
<1> DEFINE saved == TxTask(db[t], marker[t], next, change)
<1>1. ValidTaskChange(current, saved, change, TRUE)
  <2>1. marker[t] = TRUE
    BY DEF TypeOK
  <2> QED
    BY <2>1 DEF TxAccepts
<1>2. "output" \in DOMAIN current /\ current.output = None
  BY DEF TypeOK, Task, MarkerMeetsNoOutput
<1> HIDE DEF saved, current
<1>3. change # "AuthorizePublication"
  BY <1>1, <1>2 DEF ValidTaskChange
<1>4. "output" \notin OwnedFields(change)
  BY <1>3 DEF OwnedFields
<1>5. saved["output"] = current["output"]
  BY <1>1, <1>2, <1>4 DEF ValidTaskChange
<1> QED
  BY <1>2, <1>5 DEF saved

\* A change the transaction accepts for a marked task leaves it without output.
LEMMA SavedKeepsNoOutput ==
    ASSUME TypeOK, MarkerMeetsNoOutput, NEW t \in Tasks, NEW expected, NEW next,
           NEW change, TxAccepts(db[t], marker[t], expected, next, change)
    PROVE  \A u \in Tasks : marker[u] => Saved(t, next, change)[u].output = None
<1> SUFFICES ASSUME NEW u \in Tasks, marker[u] PROVE Saved(t, next, change)[u].output = None
  OBVIOUS
<1>1. db[u] \in Task /\ db[u].output = None
  BY DEF TypeOK, MarkerMeetsNoOutput
<1>2. CASE u = t
  <2>1. TxTask(db[t], marker[t], next, change).output = None
    BY <1>2, TxKeepsNoOutput
  <2> QED
    BY <1>2, <2>1 DEF Saved, TypeOK
<1>3. CASE u # t
  BY <1>1, <1>3 DEF Saved, TypeOK
<1> QED
  BY <1>2, <1>3

\* A flush, a worker's exit and the recovery half of tick keep it too.
LEMMA ExitTaskKeepsNoOutput ==
    ASSUME TypeOK, MarkerMeetsNoOutput, NEW t \in Tasks, NEW job \in Job, marker[t]
    PROVE  Flushed(t, job).output = None /\ ExitTask(t, job).output = None
<1>1. db[t] \in Task /\ db[t].output = None /\ marker[t] \in BOOLEAN
  BY DEF TypeOK, MarkerMeetsNoOutput
<1>2. Flushed(t, job).output = None
  <2>1. CASE job.pending # None /\ TxAccepts(db[t], marker[t], job.committed, FlushTask(t, job), "Settlement")
    <3>1. TxTask(db[t], marker[t], FlushTask(t, job), "Settlement").output = None
      BY <2>1, TxKeepsNoOutput
    <3> QED
      BY <2>1, <3>1 DEF Flushed
  <2>2. CASE ~(job.pending # None /\ TxAccepts(db[t], marker[t], job.committed, FlushTask(t, job), "Settlement"))
    BY <1>1, <2>2 DEF Flushed
  <2> QED
    BY <2>1, <2>2
<1>3. ExitTask(t, job).output = None
  BY <1>1, <1>2, FlushedType, ExitKeepsOutput DEF ExitTask
<1> QED
  BY <1>2, <1>3

\* What tick's recovery and Recover write leaves output alone.
LEMMA RecoveredKeepsNoOutput ==
    ASSUME TypeOK, MarkerMeetsNoOutput, NEW t \in Tasks, marker[t]
    PROVE  Recovered(t).output = None
<1>1. db[t] \in Task /\ db[t].output = None /\ marker[t] \in BOOLEAN
  BY DEF TypeOK, MarkerMeetsNoOutput
<1>2. Resettled(t) \in Task /\ Resettled(t).output = None
  <2>1. CASE Settling(t)
    <3>1. settlements[t] \in Job
      BY <2>1 DEF Settling, TypeOK
    <3> QED
      BY <2>1, <3>1, FlushedType, ExitTaskKeepsNoOutput DEF Resettled
  <2>2. CASE ~Settling(t)
    BY <1>1, <2>2 DEF Resettled
  <2> QED
    BY <2>1, <2>2
<1>3. Unorphaned(t) \in Task /\ Unorphaned(t).output = None
  BY <1>1, <1>2, SettleExitedType, ExitKeepsOutput DEF Unorphaned
<1> QED
  BY <1>3, ExitKeepsOutput DEF Recovered

\* One accepted change keeps the marker from meeting an output.
LEMMA SavedMarkStep ==
    ASSUME TypeOK, MarkerMeetsNoOutput, NEW t \in Tasks, NEW expected, NEW next, NEW change,
           TxAccepts(db[t], marker[t], expected, next, change),
           db' = Saved(t, next, change), marker' = marker
    PROVE  MarkerMeetsNoOutput'
BY SavedKeepsNoOutput DEF MarkerMeetsNoOutput

\* A step that touches neither records nor markers keeps it.
LEMMA UnchangedMarkStep ==
    ASSUME MarkerMeetsNoOutput, UNCHANGED <<db, marker>>
    PROVE  MarkerMeetsNoOutput'
BY DEF MarkerMeetsNoOutput

\* A worker commit keeps it, saved or refused.
LEMMA WorkerCommitMarkStep ==
    ASSUME TypeOK, MarkerMeetsNoOutput, NEW t \in Tasks, NEW next, NEW change, NEW pc,
           WorkerCommit(t, next, change, pc)
    PROVE  MarkerMeetsNoOutput'
<1>1. CASE Accepts(t, tasks[t].committed, next, change)
  BY <1>1, SavedMarkStep DEF WorkerCommit, Accepts
<1>2. CASE ~Accepts(t, tasks[t].committed, next, change)
  BY <1>2, UnchangedMarkStep DEF WorkerCommit
<1> QED
  BY <1>1, <1>2

\* A worker's exit keeps it, settled or left behind a barrier.
LEMMA FinishMarkStep ==
    ASSUME TypeOK, MarkerMeetsNoOutput, NEW t \in Tasks, NEW job \in Job,
           Finish(t, job), marker' = marker
    PROVE  MarkerMeetsNoOutput'
<1>1. CASE db' = [db EXCEPT ![t] = ExitTask(t, job)]
  <2>1. marker[t] => ExitTask(t, job).output = None
    BY ExitTaskKeepsNoOutput
  <2> QED
    BY <1>1, <2>1 DEF MarkerMeetsNoOutput, TypeOK
<1>2. CASE db' = db
  BY <1>2, UnchangedMarkStep
<1> QED
  BY <1>1, <1>2 DEF Finish

\* A request that lifts the marker of its task leaves every other task alone.
LEMMA ResolveMarkStep ==
    ASSUME TypeOK, MarkerMeetsNoOutput, NEW t \in Tasks, NEW expected, NEW next, NEW change,
           Resolve(t, expected, next, change)
    PROVE  MarkerMeetsNoOutput'
BY DEF Resolve, MarkerMeetsNoOutput, TypeOK

\* Every step of a worker keeps it: authorization is refused under a marker.
LEMMA WorkerMarkStep ==
    ASSUME TypeOK, MarkerMeetsNoOutput, NEW t \in Tasks, WorkerStep(t)
    PROVE  MarkerMeetsNoOutput'
<1>1. CASE \/ StartExecution(t) \/ StartTurn(t) \/ FinishTurn(t) \/ ReviewSnapshot(t)
           \/ VerifyRevision(t) \/ RepairRevision(t) \/ AuthorizePublication(t)
  BY <1>1, WorkerCommitMarkStep
  DEF StartExecution, StartTurn, FinishTurn, ReviewSnapshot, VerifyRevision, RepairRevision,
      AuthorizePublication
<1>2. CASE DeferExecution(t)
  <2>1. db' = db \/ db' = [db EXCEPT ![t] = [db[t] EXCEPT !.status = "queued"]]
    BY <1>2 DEF DeferExecution
  <2>2. [db[t] EXCEPT !.status = "queued"].output = db[t].output
    BY DEF TypeOK, Task
  <2> QED
    BY <1>2, <2>1, <2>2 DEF DeferExecution, MarkerMeetsNoOutput, TypeOK
<1>3. CASE Push(t) \/ ExecuteFails(t)
  BY <1>3, UnchangedMarkStep DEF Push, ExecuteFails, durable
<1>4. CASE CompletePublication(t)
  <2>1. CASE Accepts(t, tasks[t].committed, PublishedTask(t), "Publication")
    BY <1>4, <2>1, SavedMarkStep DEF CompletePublication, Accepts
  <2>2. CASE ~Accepts(t, tasks[t].committed, PublishedTask(t), "Publication")
    BY <1>4, <2>2, UnchangedMarkStep DEF CompletePublication
  <2> QED
    BY <2>1, <2>2
<1>5. CASE Supervise(t)
  <2> DEFINE next == IF tasks[t].change = "Settlement"
                     THEN SettleTaskEvidence(tasks[t].committed, tasks[t].work) ELSE tasks[t].work
  <2>1. CASE Accepts(t, tasks[t].committed, next, tasks[t].change)
    <3>1. db' = Saved(t, next, tasks[t].change) /\ marker' = marker
      BY <1>5, <2>1 DEF Supervise
    <3> HIDE DEF next
    <3> QED
      BY <2>1, <3>1, SavedMarkStep DEF Accepts
  <2>2. CASE ~Accepts(t, tasks[t].committed, next, tasks[t].change)
    BY <1>5, <2>2, UnchangedMarkStep DEF Supervise
  <2> QED
    BY <2>1, <2>2
<1>6. CASE FinishTaskWorker(t)
  <2>1. tasks[t] \in Job
    BY <1>6 DEF FinishTaskWorker, ExecutionAt, Running, TypeOK
  <2> QED
    BY <1>6, <2>1, FinishMarkStep DEF FinishTaskWorker
<1>7. CASE ReconcileReturns(t)
  <2>1. tasks[t] \in Job /\ marker' = marker
    BY <1>7 DEF ReconcileReturns, Running, TypeOK
  <2>2. CASE /\ Accepts(t, tasks[t].committed, PublishedTask(t), "Publication")
             /\ db' = Saved(t, PublishedTask(t), "Publication")
    BY <2>1, <2>2, SavedMarkStep DEF Accepts
  <2>3. CASE Finish(t, tasks[t])
    BY <2>1, <2>3, FinishMarkStep
  <2>4. ASSUME NEW reason \in FailureReasons,
               LET next == [tasks[t].committed EXCEPT !.status = tasks[t].work.status, !.reason = reason] IN
               \/ /\ Accepts(t, tasks[t].committed, next, "Settlement")
                  /\ db' = Saved(t, next, "Settlement")
               \/ Finish(t, [tasks[t] EXCEPT !.pending = next])
        PROVE  MarkerMeetsNoOutput'
    <3> DEFINE next == [tasks[t].committed EXCEPT !.status = tasks[t].work.status, !.reason = reason]
    <3>1. next \in Task
      <4>1. tasks[t].committed \in Task /\ tasks[t].work.status \in Statuses
        BY <2>1 DEF Job, Task
      <4> QED
        BY <4>1, StatusType DEF FailureReasons
    <3> HIDE DEF next
    <3>2. [tasks[t] EXCEPT !.pending = next] \in Job
      BY <2>1, <3>1 DEF Job
    <3>3. CASE /\ Accepts(t, tasks[t].committed, next, "Settlement")
               /\ db' = Saved(t, next, "Settlement")
      BY <2>1, <3>3, SavedMarkStep DEF Accepts
    <3>4. CASE Finish(t, [tasks[t] EXCEPT !.pending = next])
      BY <2>1, <3>2, <3>4, FinishMarkStep
    <3> QED
      BY <2>4, <3>3, <3>4 DEF next
  <2> QED
    BY <1>7, <2>2, <2>3, <2>4 DEF ReconcileReturns
<1> QED
  BY <1>1, <1>2, <1>3, <1>4, <1>5, <1>6, <1>7 DEF WorkerStep

\* Every part of tick keeps it.
LEMMA SchedulerMarkStep ==
    ASSUME TypeOK, MarkerMeetsNoOutput, SchedulerStep
    PROVE  MarkerMeetsNoOutput'
<1>1. CASE TickRecovers
  BY <1>1, RecoveredKeepsNoOutput DEF TickRecovers, MarkerMeetsNoOutput
<1>2. CASE TickBlocked
  BY <1>2, UnchangedMarkStep DEF TickBlocked, durable
<1>3. ASSUME NEW t \in Tasks, CancelQueued(t)
      PROVE  MarkerMeetsNoOutput'
  <2>1. marker[t] = TRUE
    BY <1>3 DEF CancelQueued, TypeOK
  <2>2. TxAccepts(db[t], marker[t], db[t],
                  [db[t] EXCEPT !.status = "cancelled", !.reason = "none"], "Cancel")
    BY <1>3, <2>1 DEF CancelQueued
  <2> QED
    BY <1>3, <2>2, SavedMarkStep DEF CancelQueued
<1>4. ASSUME NEW t \in Tasks, BlockQueued(t)
      PROVE  MarkerMeetsNoOutput'
  BY <1>4, SavedMarkStep DEF BlockQueued
<1>5. ASSUME NEW t \in Tasks, Dispatch(t)
      PROVE  MarkerMeetsNoOutput'
  BY <1>5, SavedMarkStep DEF Dispatch
<1> QED
  BY <1>1, <1>2, <1>3, <1>4, <1>5 DEF SchedulerStep

\* Every operator action keeps it: a marker is saved only without an output.
LEMMA OperatorMarkStep ==
    ASSUME TypeOK, MarkerMeetsNoOutput, OperatorStep
    PROVE  MarkerMeetsNoOutput'
<1>1. ASSUME NEW t \in Tasks, Cancel(t) \/ CancelHalfway(t)
      PROVE  MarkerMeetsNoOutput'
  <2>1. "cancel" \in AllowedActions(db[t])
    BY <1>1 DEF Cancel, CancelHalfway, Eligible
  <2>2. db[t].output = None
    BY <2>1 DEF AllowedActions
  <2>3. [db[t] EXCEPT !.status = "cancelled", !.reason = "none"].output = db[t].output
    BY DEF TypeOK, Task
  <2> QED
    BY <1>1, <2>2, <2>3 DEF Cancel, CancelHalfway, MarkerMeetsNoOutput, TypeOK
<1>2. ASSUME NEW t \in Tasks, Supersede(t)
      PROVE  MarkerMeetsNoOutput'
  BY <1>2, ResolveMarkStep DEF Supersede
<1>3. ASSUME NEW t \in Tasks, Archive(t)
      PROVE  MarkerMeetsNoOutput'
  BY <1>3, SavedMarkStep DEF Archive
<1>4. ASSUME NEW a \in Actors, NEW t \in Tasks, Retry(a, t) \/ Reconcile(a, t) \/ Discard(a, t)
      PROVE  MarkerMeetsNoOutput'
  <2>1. CASE UNCHANGED <<db, marker>>
    BY <2>1, UnchangedMarkStep
  <2>2. CASE \E next : \/ Resolve(t, db[t], next, "Retry")
                      \/ Resolve(t, db[t], next, "Resolve")
    BY <2>2, ResolveMarkStep
  <2> QED
    BY <1>4, <2>1, <2>2 DEF Retry, Reconcile, Discard, durable
<1>5. ASSUME NEW a \in Actors, RetryChecked(a) \/ ReconcileChecked(a)
      PROVE  MarkerMeetsNoOutput'
  <2> DEFINE t == op[a].task  original == op[a].original
  <2>1. t \in Tasks
    BY <1>5 DEF RetryChecked, ReconcileChecked, Pending, TypeOK, Request
  <2> HIDE DEF t
  <2>2. CASE UNCHANGED <<db, marker>>
    BY <2>2, UnchangedMarkStep
  <2>3. CASE \E next : \/ Resolve(t, original, next, "Retry")
                      \/ Resolve(t, original, next, "Resolve")
    BY <2>1, <2>3, ResolveMarkStep
  <2>4. CASE \E next : /\ Accepts(t, original, next, "Inspect")
                      /\ db' = Saved(t, next, "Inspect") /\ UNCHANGED marker
    BY <2>1, <2>4, SavedMarkStep DEF Accepts
  <2> QED
    BY <1>5, <2>2, <2>3, <2>4 DEF RetryChecked, ReconcileChecked, t
<1>6. ASSUME NEW a \in Actors, Discarded(a)
      PROVE  MarkerMeetsNoOutput'
  <2> DEFINE t == op[a].task  next == [db[t] EXCEPT !.discarded = TRUE]
  <2>1. t \in Tasks /\ marker' = marker
    BY <1>6 DEF Discarded, Pending, TypeOK, Request
  <2>2. CASE Accepts(t, db[t], next, "Discard") /\ db' = Saved(t, next, "Discard")
    BY <2>1, <2>2, SavedMarkStep DEF Accepts
  <2>3. CASE UNCHANGED db
    BY <2>1, <2>3, UnchangedMarkStep
  <2> QED
    BY <1>6, <2>2, <2>3 DEF Discarded
<1> QED
  BY <1>1, <1>2, <1>3, <1>4, <1>5, <1>6 DEF OperatorStep

\* Crash and recovery keep it: both records and markers are durable.
LEMMA ProcessMarkStep ==
    ASSUME TypeOK, MarkerMeetsNoOutput, ProcessStep
    PROVE  MarkerMeetsNoOutput'
<1>1. CASE DiskFails \/ DiskHeals \/ Shutdown \/ Exit \/ Crash \/ Restart \/ RecoverFails
  <2>1. UNCHANGED <<db, marker>>
    BY <1>1 DEF DiskFails, DiskHeals, Shutdown, Exit, Crash, Restart, RecoverFails, durable
  <2> QED
    BY <2>1, UnchangedMarkStep
<1>2. ASSUME NEW t \in Tasks, RecoverTask(t)
      PROVE  MarkerMeetsNoOutput'
  BY <1>2, SavedMarkStep DEF RecoverTask, Accepts
<1>3. CASE RecoverDone
  <2>1. \A t \in Tasks : EndSessions(db[t]).output = db[t].output
    BY ExitKeepsOutput DEF TypeOK
  <2> QED
    BY <1>3, <2>1 DEF RecoverDone, MarkerMeetsNoOutput
<1> QED
  BY <1>1, <1>2, <1>3 DEF ProcessStep

\* Cancellation and publication exclude each other in the saved state: for any
\* number of tasks and operators, at every point of every interleaving and
\* across every crash, a task with a cancellation marker has no output commit.
THEOREM MarkerExcludesOutput == Spec => []MarkerMeetsNoOutput
<1>1. Init => MarkerMeetsNoOutput
  BY DEF Init, MarkerMeetsNoOutput
<1>2. TypeOK /\ MarkerMeetsNoOutput /\ [Next]_vars => MarkerMeetsNoOutput'
  <2> SUFFICES ASSUME TypeOK, MarkerMeetsNoOutput, [Next]_vars PROVE MarkerMeetsNoOutput'
    OBVIOUS
  <2>1. CASE Next
    BY <2>1, WorkerMarkStep, SchedulerMarkStep, OperatorMarkStep, ProcessMarkStep DEF Next
  <2>2. CASE UNCHANGED vars
    BY <2>2, UnchangedMarkStep DEF vars
  <2> QED
    BY <2>1, <2>2
<1> QED
  BY <1>1, <1>2, TypeCorrect, PTL DEF Spec

=============================================================================
