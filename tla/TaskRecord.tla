----------------------------- MODULE TaskRecord -----------------------------
(***************************************************************************)
(* The saved task record, the pure lifecycle policy over it and the        *)
(* transaction that applies one change to it: internal/model/              *)
(* task_lifecycle.go, internal/model/model.go and internal/store/          *)
(* task_lifecycle.go.  No state here: the modules that own a task record   *)
(* build their actions from these operators.                               *)
(*                                                                         *)
(* A record keeps what the policy tells apart.                             *)
(*   output      the authorized output commit, or None                     *)
(*   attempts    retries and recoveries already spent                      *)
(*   archived, discarded, rediscover   lifecycle and supersession flags    *)
(*   reason      why the task is blocked ("none" while it is not)          *)
(*   init        an executor session and a comparison base are recorded    *)
(*   log         evidence in append order: a finished model turn, a review *)
(*               with findings, or the revision a review found clean       *)
(*   live        some recorded session is still "running"                  *)
(* Timestamps, wording, routes and the immutable planning identity are     *)
(* left out.                                                               *)
(***************************************************************************)
EXTENDS Naturals, Sequences, SequencesExt

CONSTANTS
    Commits,        \* revisions a worker can produce in its clone
    None,           \* a missing value
    MaxRetries      \* config.MaxRetries, the retry ceiling of an attempt

ASSUME NoneAssumption == None \notin Commits
ASSUME MaxRetriesAssumption == MaxRetries \in Nat

ActiveStatuses == {"executing", "reviewing", "repairing", "verifying", "publishing"}
Retryable == {"blocked", "failed"}
UnresolvedStatuses == Retryable \cup {"cancelled"}
Statuses == ActiveStatuses \cup UnresolvedStatuses \cup {"queued", "published"}

\* One reason for each way AllowedActions and recovery treat a blocked task:
\* "unknown" stands for every reason whose only way forward is a retry.
Reasons == {"none", "unknown", "retry_limit", "workspace_invalid",
            "remote_conflict", "publication_uncertain", "dependency_blocked"}

Entries == {"turn", "findings"} \cup Commits

Task == [status: Statuses, output: Commits \cup {None}, attempts: 0..MaxRetries,
         archived: BOOLEAN, discarded: BOOLEAN, rediscover: BOOLEAN,
         reason: Reasons, init: BOOLEAN, log: Seq(Entries), live: BOOLEAN]

Active(task) == task.status \in ActiveStatuses

\* A record as the planning transaction inserts it.
QueuedTask ==
    [status |-> "queued", output |-> None, attempts |-> 0,
     archived |-> FALSE, discarded |-> FALSE, rediscover |-> FALSE,
     reason |-> "none", init |-> FALSE, log |-> << >>, live |-> FALSE]

\* FailRunning and InterruptRunning: no session stays marked running.
EndSessions(task) == [task EXCEPT !.live = FALSE]

\* The latest review round is clean at this revision.
ReviewAuthorizes(task, revision) ==
    task.log # << >> /\ revision \in Commits /\ Last(task.log) = revision

-----------------------------------------------------------------------------
\* Seeded fault: an authorized publication can still be cancelled.
AllowedActions_LateCancel(task) ==
    IF task.archived \/ task.status \notin ActiveStatuses THEN {} ELSE {"cancel"}

\* The operator actions the record offers.
AllowedActions(task) ==
    LET archivable == {"archive"}
        cancellable == IF task.output = None THEN {"cancel"} ELSE {}
        forward == CASE task.reason = "workspace_invalid" -> {"supersede"}
                     [] task.reason \in {"remote_conflict", "publication_uncertain"} -> {"reconcile"}
                     [] task.reason = "dependency_blocked" -> {"retry", "supersede"}
                     [] OTHER -> {"retry"}
    IN CASE task.archived -> IF task.discarded THEN {} ELSE {"discard"}
         [] ~task.archived /\ task.status = "published" -> archivable
         [] ~task.archived /\ task.status = "cancelled" ->
              archivable \cup
              (IF ~task.discarded /\ task.output = None /\ ~task.rediscover THEN {"supersede"} ELSE {})
         [] OTHER ->
              IF task.discarded \/ task.status = "publishing" THEN {}
              ELSE IF task.status \notin Retryable THEN cancellable
              ELSE cancellable \cup archivable \cup forward

-----------------------------------------------------------------------------
\* Committed evidence is only ever extended.
ValidTaskEvidence(expected, pending) == IsPrefix(expected.log, pending.log)

\* Which status a change may lead to, from which.
Transition(current, next, change) ==
    LET from == current.status  to == next.status IN
    CASE change = "Checkpoint" ->
             \/ from \in ActiveStatuses /\ to = from
             \/ from \in {"executing", "repairing"} /\ to = "reviewing"
             \/ from = "reviewing" /\ to \in {"verifying", "repairing"}
             \/ from = "verifying" /\ to = "repairing"
      [] change = "Admission" -> from = "queued" /\ to = "executing"
      [] change = "AuthorizePublication" ->
             /\ from \in ActiveStatuses /\ to = "publishing"
             /\ next.output # None /\ ReviewAuthorizes(next, next.output)
      [] change = "Publication" -> from = "publishing" /\ to = "published" /\ current.output # None
      [] change = "Settlement" ->
             \/ to = from
             \/ from \in ActiveStatuses \cup {"queued"} /\ to \in UnresolvedStatuses
      [] change = "Recovery" -> from \in ActiveStatuses /\ to \in {"queued", "blocked", "cancelled"}
      [] change = "Retry" -> from \in Retryable /\ to = "queued" /\ next.attempts = current.attempts + 1
      [] change = "Resolve" ->
             /\ from \in UnresolvedStatuses
             /\ to = from \/ to = "cancelled" \/ (to = "publishing" /\ current.output # None)
      [] change = "Inspect" -> from \in Retryable /\ to = from
      [] change = "Cancel" ->
             current.output = None /\ from \notin {"publishing", "published"} /\ to = "cancelled"
      [] change = "Archive" ->
             /\ from \notin ActiveStatuses \cup {"queued"} /\ next.archived
             /\ to = from \/ (from \in Retryable /\ to = "cancelled")
      [] change = "Discard" ->
             from \notin ActiveStatuses \cup {"queued"} /\ to = from /\ next.discarded
      [] OTHER -> FALSE

\* The fields a change owns beside status and reason.
OwnedFields(change) ==
    {"status", "reason"} \cup
    CASE change \in {"Checkpoint", "Settlement"} -> {"log", "live", "init"}
      [] change = "AuthorizePublication" -> {"log", "live", "init", "output"}
      [] change = "Recovery" -> {"live", "attempts"}
      [] change = "Retry" -> {"attempts"}
      [] change = "Resolve" -> {"rediscover"}
      [] change = "Archive" -> {"archived"}
      [] change = "Discard" -> {"discarded"}
      [] OTHER -> {}

ValidTaskChange(current, next, change, marked) ==
    LET governed == marked /\ current.output = None IN
    /\ current.output # None => next.output = current.output
    /\ governed => change \notin {"Checkpoint", "Admission", "AuthorizePublication"}
    /\ current.archived \/ current.discarded => change \in {"Settlement", "Discard"}
    /\ IF governed /\ change \in {"Settlement", "Recovery"}
       THEN next.status = "cancelled"
       ELSE Transition(current, next, change)
    /\ change \in {"Checkpoint", "AuthorizePublication", "Settlement"} =>
           ValidTaskEvidence(current, next)
    /\ \A f \in DOMAIN current \ OwnedFields(change) : next[f] = current[f]

\* What a worker's pending record contributes once it settles: observations
\* stay, uncommitted preparation and publication intent go.
SettleTaskEvidence(expected, pending) ==
    [expected EXCEPT !.log = pending.log, !.live = pending.live, !.init = pending.init,
                     !.status = pending.status, !.reason = pending.reason]

\* Cancellation is the only edit that competes with the pending evidence.
CancellationOnly(expected, current, pending) ==
    /\ current.output = None
    /\ [current EXCEPT !.status = expected.status, !.reason = expected.reason] = expected
    /\ ValidTaskEvidence(expected, pending)

MergeCancelledTask(current, pending) ==
    [current EXCEPT !.log = pending.log, !.live = FALSE,
                    !.status = "cancelled", !.reason = "none"]

-----------------------------------------------------------------------------
\* The store transaction: TxTask is the record it would write over `current',
\* TxAccepts says whether it commits instead of rolling back.
Governed(current, marked, change) ==
    marked /\ current.output = None /\ change = "Settlement"

TxTask(current, marked, next, change) ==
    IF Governed(current, marked, change) THEN MergeCancelledTask(current, next) ELSE next

TxAccepts(current, marked, expected, next, change) ==
    /\ IF Governed(current, marked, change)
       THEN CancellationOnly(expected, current, next)
       ELSE current = expected
    /\ ValidTaskChange(current, TxTask(current, marked, next, change), change, marked)

\* What a worker's exit leaves in the record when nothing else was saved.
\* The reason keeps an authorized publication for reconciliation.
ExitReason(task) ==
    IF task.status = "publishing" /\ task.output # None
    THEN "publication_uncertain" ELSE "unknown"

\* Seeded fault: a task that was publishing is left for somebody else.
BlockExited_NotPublishing(task) ==
    IF Active(task) /\ task.status # "publishing"
    THEN [task EXCEPT !.live = FALSE, !.status = "blocked", !.reason = ExitReason(task)]
    ELSE EndSessions(task)

BlockExited(task) ==
    IF Active(task)
    THEN [task EXCEPT !.live = FALSE, !.status = "blocked", !.reason = ExitReason(task)]
    ELSE EndSessions(task)

SettleExitedTask(task, marked) ==
    IF marked /\ task.output = None
    THEN [task EXCEPT !.live = FALSE, !.status = "cancelled", !.reason = "none"]
    ELSE BlockExited(task)

=============================================================================
