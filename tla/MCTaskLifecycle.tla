-------------------------- MODULE MCTaskLifecycle --------------------------
(***************************************************************************)
(* Small instances of TaskLifecycle for TLC: one task for liveness, and for *)
(* safety an instance whose initial states choose between a task that is    *)
(* alone and has every retry and fault before it, and two queued tasks, the *)
(* second needing the first and writing the same branch, whose retries and  *)
(* faults are spent.                                                       *)
(***************************************************************************)
EXTENDS TaskLifecycle, TLC

MCBranch == [t \in Tasks |-> t]
MCNoDeps == [t \in Tasks |-> {}]

MCOneBranch == [t \in Tasks |-> "branch"]
MCChain == "t1" :> {} @@ "t2" :> {"t1"}

\* A task that was cancelled before it started, archived and discarded.
Gone == [QueuedTask EXCEPT !.status = "cancelled", !.archived = TRUE, !.discarded = TRUE]
\* A queued task that was retried as often as the configuration allows.
Retried == [QueuedTask EXCEPT !.attempts = MaxRetries]

MCInit ==
    /\ \/ db = "t1" :> QueuedTask @@ "t2" :> Gone /\ faults = 0
       \/ db = "t1" :> Retried @@ "t2" :> Retried /\ faults = MaxFaults
    /\ marker = [t \in Tasks |-> FALSE] /\ remote = [t \in Tasks |-> None]
    /\ removed = [t \in Tasks |-> db[t].discarded]
    /\ disk = "ok" /\ proc = "up" /\ barrier = FALSE /\ scanDone = FALSE
    /\ tasks = [t \in Tasks |-> None] /\ settlements = [t \in Tasks |-> None]
    /\ op = [a \in Actors |-> None]

MCSpec == MCInit /\ [][Next]_vars

=============================================================================
