------------------------------ MODULE AutoMerge ------------------------------
(***************************************************************************)
(* Automatic squash merging of one pull request (engine/automerge.go,      *)
(* engine/automerge_barriers.go, store/automerge.go): the saved merge      *)
(* record, the merge pass, the request at GitHub, refused settlements and  *)
(* their barriers, and everything that can move under them: the pull       *)
(* request itself, follow-up deliveries to its branch, remote observation, *)
(* operating mode, policy, archiving and restarts.                         *)
(*                                                                         *)
(* The reviewed head, comparison base, branch, base and policy revision of *)
(* a merge record are those of the delivery that wrote it, so delivery d   *)
(* stands for all of them and its output commit is d.                      *)
(***************************************************************************)
EXTENDS Naturals, FiniteSets

CONSTANTS
    None,           \* no record
    N,              \* deliveries to the branch: the first and its follow-ups
    MaxFaults,      \* bound: lost answers, unreadable remotes, refused writes, restarts
    MaxMoves        \* bound: steps of the people who use the repository

ASSUME BoundsAssumption == N \in Nat \ {0} /\ MaxFaults \in Nat /\ MaxMoves \in Nat
ASSUME NoneIsNoAnswer == None \notin {"confirmed", "observed", "merged", "refused", "conflict"}

VARIABLES
    pr,             \* the pull request at GitHub
    rec,            \* the saved PRObservation and its AutoMergeState
    task,           \* what the merge code reads of each delivery's task
    snapshot,       \* Task.AutoMergeSnapshot of each delivery
    mode, batch,    \* Control.Mode and the members of the run-once batch
    policy,         \* what the live configuration says of these deliveries
    worker,         \* runtime.mergeWorker, with the claim in runtime.merges
    unsettled,      \* runtime.mergeRecoveryErrors has an entry
    precheck,       \* runtime.mergePrecheckErrors
    recovering,     \* the precheck recoverMergePrecheck has compared, or None
    refresh,        \* what a running PR refresh has read, or None
    wire,           \* merge requests GitHub may still act on
    foreign,        \* history: someone else moved the pull request since delivery
    attempts, faults, moves

vars == <<pr, rec, task, snapshot, mode, batch, policy, worker, unsettled, precheck,
          recovering, refresh, wire, foreign, attempts, faults, moves>>
engine == <<worker, unsettled, precheck, recovering, refresh>>
control == <<mode, batch, policy>>
counters == <<attempts, faults, moves>>

Deliveries == 1 .. N
Foreign == 0                                \* a head that no delivery produced
MaxAttempts == N + MaxFaults + MaxMoves    \* never reached: only faults and moves cause another attempt

Statuses == {"waiting", "manual", "merging", "uncertain", "merged", "closed"}
Pending(status) == status \in {"waiting", "merging", "uncertain"}
InFlight(status) == status \in {"merging", "uncertain"}
Sources == {None, "confirmed", "observed"}

PullRequest == [state: {"open", "closed", "merged"}, head: 0 .. N, base: {"default", "other"}]
\* `checks' is what mergeReadiness makes of the status GitHub reports: "failing"
\* any refusal, "rewritten" a merge base that is not the comparison base.
Remote == [state: {"open", "closed", "merged"}, head: 0 .. N, base: {"default", "other"},
           checks: {"pending", "ready", "failing", "rewritten"}, by: {None, "octomus", "human"}]
\* `pr' is the saved pull request state; attempt 0 is no AttemptID.
Record == [task: Deliveries, status: Statuses, authorized: BOOLEAN, attempt: Nat,
           source: Sources, pr: {"open", "closed", "merged"}]
\* The arguments of SettleMerge after the record it expects.
Settlement == [status: Statuses, source: Sources, revoke: BOOLEAN]
Worker == [pc: {"idle", "pass", "loaded", "check", "reconcile", "attempt", "sent", "settle"},
           mode: {"paused", "continuous", "once"}, policy: {"allows", "tightened", "standard"},
           batch: SUBSET Deliveries,        \* captured when the pass began
           obs: Record,                     \* the observation under decision
           archived: BOOLEAN,               \* of the task record it loaded
           settlement: Settlement,
           reply: {None, "merged", "refused", "conflict"}]
\* "pushed": Publish wrote the head; "delivered": it read the pull request back.
TaskStates == {"absent", "queued", "running", "pushed", "delivered", "published", "blocked", "cancelled"}

\* initialMergeState of a maintenance delivery, saved by CompletePublication.
InitialMerge(d) ==
    [task |-> d, authorized |-> policy = "allows", attempt |-> 0, source |-> None, pr |-> "open",
     status |-> IF policy = "allows" THEN "waiting" ELSE "manual"]
NoSettlement == [status |-> "waiting", source |-> None, revoke |-> FALSE]
NoRecord == [task |-> 1, status |-> "waiting", authorized |-> FALSE, attempt |-> 0, source |-> None, pr |-> "open"]
NoWorker == [pc |-> "idle", mode |-> "paused", policy |-> "standard", batch |-> {}, obs |-> NoRecord,
             archived |-> FALSE, settlement |-> NoSettlement, reply |-> None]

Init ==
    /\ pr = [state |-> "open", head |-> 1, base |-> "default", checks |-> "pending", by |-> None]
    /\ policy = "allows"
    /\ rec = InitialMerge(1)
    /\ task = [d \in Deliveries |-> [status |-> IF d = 1 THEN "published" ELSE "absent", archived |-> FALSE]]
    /\ snapshot = [d \in Deliveries |-> None]
    /\ \/ mode = "continuous" /\ batch = {}
       \/ mode = "once" /\ batch = {1}        \* delivered by this run-once batch
    /\ worker = NoWorker
    /\ unsettled = FALSE /\ precheck = None /\ recovering = None /\ refresh = None
    /\ wire = {} /\ foreign = FALSE
    /\ attempts = 0 /\ faults = 0 /\ moves = 0

\* The operator gate is held across the merge request and by recoverMergePrechecks.
GateFree == worker.pc # "sent" /\ recovering = None
RecoveryConflict == unsettled \/ precheck # None
\* runtime.merges holds the branch from mergeCandidate to its return.
BranchClaimed == worker.pc \in {"check", "reconcile", "attempt", "sent", "settle"}
Fault == faults < MaxFaults /\ faults' = faults + 1
NoFault == UNCHANGED faults

\* branchHasUnfinishedWork: a worker or an unfinished task of another delivery.
UnfinishedBranchWork(d) ==
    \E e \in Deliveries \ {d} :
        ~task[e].archived /\ task[e].status \in {"queued", "running", "pushed", "delivered", "blocked"}

Bound(p, d) == p.head = d /\ p.base = "default"
SamePR(p) == [state |-> p.state, head |-> p.head, base |-> p.base]

-----------------------------------------------------------------------------
(* The saved record *)

IsCandidate(r) == Pending(r.status) \/ (r.status = "manual" /\ r.authorized)

\* SettleMerge: whether the transaction applies to the saved record, and what
\* it saves.
SettleApplies(expected, s) ==
    /\ rec.task = expected.task /\ rec.attempt = expected.attempt
    /\ \/ IsCandidate(rec)
       \/ (rec.status \in {"merged", "closed"} /\ s.status = rec.status)
Settled(s) ==
    IF IsCandidate(rec)
    THEN [rec EXCEPT !.status = s.status,
                     !.authorized = rec.authorized /\ ~s.revoke,
                     !.attempt = IF s.status = "waiting" THEN 0 ELSE rec.attempt,
                     !.source = IF s.source = None THEN rec.source ELSE s.source,
                     !.pr = IF s.status \in {"merged", "closed"} THEN s.status ELSE rec.pr]
    ELSE [rec EXCEPT !.source = IF s.source = "confirmed" \/ (rec.source = None /\ s.source # None)
                                THEN s.source ELSE rec.source]

\* ClaimMerge
ClaimAccepts(intent, allowManual) ==
    /\ intent.authorized /\ rec.authorized
    /\ rec.task = intent.task
    /\ rec.status = "waiting" \/ (allowManual /\ rec.status = "manual")

\* Seeded fault: the binding of the observed pull request is not compared.
Preserved_Unbound(p) ==
    IF InFlight(rec.status) \/ p.state = "open" \/ rec.status \in {"merged", "closed"} THEN rec
    ELSE [rec EXCEPT !.status = p.state, !.source = "observed"]
\* preserveAutoMerge: the merge record after an observation p.  The observed
\* pull request is owned by the service throughout.
Preserved(p) ==
    LET bound == Bound(p, rec.task)
        revoked == [rec EXCEPT !.authorized = FALSE, !.status = "manual"]
        ended == p.state \in {"merged", "closed"}
    IN CASE InFlight(rec.status) -> [rec EXCEPT !.authorized = rec.authorized /\ bound]
         [] ended /\ ~InFlight(rec.status) ->
                IF rec.status \in {"merged", "closed"} THEN rec
                ELSE IF ~bound THEN revoked
                ELSE [rec EXCEPT !.status = p.state, !.source = "observed"]
         [] ~ended /\ ~InFlight(rec.status) ->
                IF IsCandidate(rec) /\ ~bound THEN revoked ELSE rec

\* Seeded fault: archiving resolves an intent.
RevokedMerges_ResolvesIntent(d) ==
    IF rec.task = d /\ Pending(rec.status) THEN [rec EXCEPT !.authorized = FALSE, !.status = "manual"] ELSE rec
\* txRevokeTaskMerges for the archived delivery d.
RevokedMerges(d) ==
    IF rec.task = d /\ (Pending(rec.status) \/ rec.authorized)
    THEN [rec EXCEPT !.authorized = FALSE,
                     !.status = IF rec.status \in {"merged", "closed"} \/ InFlight(rec.status)
                                THEN rec.status ELSE "manual"]
    ELSE rec

-----------------------------------------------------------------------------
(* The merge pass *)

\* checkMerges and the head of mergePass: mode and policy are captured here.
StartPass ==
    /\ GateFree /\ worker.pc = "idle" /\ IsCandidate(rec)
    /\ worker' = [worker EXCEPT !.pc = "pass", !.mode = mode, !.policy = policy, !.batch = batch]
    /\ UNCHANGED <<pr, rec, task, snapshot, control, unsettled, precheck, recovering, refresh, wire,
                   foreign, counters>>

\* The candidate and its task are read before the branch is claimed.
LoadCandidate ==
    /\ worker.pc = "pass"
    /\ worker' = IF IsCandidate(rec)
                 THEN [worker EXCEPT !.pc = "loaded", !.obs = rec, !.archived = task[rec.task].archived]
                 ELSE NoWorker
    /\ UNCHANGED <<pr, rec, task, snapshot, control, unsettled, precheck, recovering, refresh, wire,
                   foreign, counters>>

Decide(status, source, revoke) ==
    worker' = [NoWorker EXCEPT !.pc = "settle", !.obs = worker.obs,
                   !.settlement = [status |-> status, source |-> source, revoke |-> revoke]]
Goto(pc) == worker' = [worker EXCEPT !.pc = pc]
PassEnds == worker' = NoWorker

\* Seeded fault: a paused service leaves intents alone.
ClaimBranch_PausedFirst ==
    /\ worker.pc = "loaded"
    /\ IF worker.mode = "paused" THEN PassEnds
       ELSE IF InFlight(worker.obs.status) THEN worker' = [NoWorker EXCEPT !.pc = "reconcile", !.obs = worker.obs]
       ELSE Goto("check")
    /\ UNCHANGED <<pr, rec, task, snapshot, control, unsettled, precheck, recovering, refresh, wire,
                   foreign, counters>>

\* mergeCandidate up to its precheck: the branch is claimed from here on.
ClaimBranch ==
    /\ worker.pc = "loaded"
    /\ LET outside == worker.mode = "once" /\ worker.policy # "standard" /\ worker.obs.task \notin worker.batch
           byHand == worker.obs.status = "manual" /\ ~(worker.mode = "continuous" /\ worker.obs.authorized)
       IN IF InFlight(worker.obs.status) THEN worker' = [NoWorker EXCEPT !.pc = "reconcile", !.obs = worker.obs]
          ELSE IF outside THEN PassEnds
          ELSE IF worker.policy = "standard" THEN Decide("manual", None, TRUE)
          ELSE IF worker.mode = "paused" \/ byHand THEN PassEnds
          ELSE Goto("check")
    /\ UNCHANGED <<pr, rec, task, snapshot, control, unsettled, precheck, recovering, refresh, wire,
                   foreign, counters>>

\* mergeBlocked
Check ==
    /\ worker.pc = "check"
    /\ LET d == worker.obs.task IN
       \/ /\ worker.archived \/ worker.policy # "allows"
          /\ Decide("manual", None, TRUE) /\ NoFault
       \/ /\ ~worker.archived /\ worker.policy = "allows"
          /\ \/ UnfinishedBranchWork(d) /\ Decide("waiting", None, FALSE) /\ NoFault
             \/ ~UnfinishedBranchWork(d) /\ Decide("waiting", None, FALSE) /\ Fault       \* unreadable
             \/ /\ ~UnfinishedBranchWork(d) /\ NoFault
                /\ CASE pr.state # "open" -> worker' = [NoWorker EXCEPT !.pc = "reconcile", !.obs = worker.obs]
                     [] pr.state = "open" /\ ~Bound(pr, d) -> Decide("manual", None, TRUE)
                     [] pr.state = "open" /\ Bound(pr, d) ->
                          CASE pr.checks = "pending" -> Decide("waiting", None, FALSE)
                            [] pr.checks = "failing" -> Decide("manual", None, FALSE)
                            [] pr.checks = "rewritten" -> Decide("manual", None, TRUE)
                            [] pr.checks = "ready" -> Goto("attempt")
    /\ UNCHANGED <<pr, rec, task, snapshot, control, unsettled, precheck, recovering, refresh, wire,
                   foreign, attempts, moves>>

\* Seeded fault: the mode is not read again.
AttemptAuthorized_StaleMode(d) ==
    /\ ~RecoveryConflict /\ policy = "allows"
    /\ task[d].status = "published" /\ ~task[d].archived /\ ~UnfinishedBranchWork(d)
\* The conditions mergeAttempt reads again once it holds the gate.
AttemptAuthorized(d) ==
    /\ ~RecoveryConflict
    /\ mode # "paused" /\ policy = "allows"
    /\ mode = "once" => d \in batch
    /\ task[d].status = "published" /\ ~task[d].archived
    /\ ~UnfinishedBranchWork(d)

\* mergeAttempt up to the mutation: the intent is saved before the request is
\* sent, unless GitHub's protection of the destination cannot be established.
MergeAttempt ==
    /\ worker.pc = "attempt" /\ GateFree
    /\ LET d == worker.obs.task
           intent == [worker.obs EXCEPT !.status = "merging", !.attempt = attempts + 1, !.pr = rec.pr]
       IN IF AttemptAuthorized(d) /\ ClaimAccepts(worker.obs, worker.mode = "continuous")
          THEN /\ attempts' = attempts + 1
               /\ \/ /\ rec' = intent /\ NoFault
                     /\ worker' = [NoWorker EXCEPT !.pc = "sent", !.obs = intent]
                     /\ wire' = wire \cup {[attempt |-> attempts + 1, head |-> d]}
                  \/ /\ rec' = intent /\ Fault                        \* ErrMergeDestination
                     /\ worker' = [NoWorker EXCEPT !.pc = "settle", !.obs = intent,
                            !.settlement = [status |-> "manual", source |-> None, revoke |-> FALSE]]
                     /\ UNCHANGED wire
                  \/ /\ PassEnds /\ Fault                         \* ClaimMerge failed
                     /\ UNCHANGED <<rec, wire>>
          ELSE PassEnds /\ UNCHANGED <<rec, wire, attempts, faults>>
    /\ UNCHANGED <<pr, task, snapshot, control, unsettled, precheck, recovering, refresh, foreign, moves>>

\* mergeAttempt after SquashMerge returned.
MergeReturns ==
    /\ worker.pc = "sent"
    /\ \/ worker.reply = "merged" /\ Decide("merged", "confirmed", FALSE) /\ NoFault
       \/ worker.reply = "refused" /\ Decide("manual", None, TRUE) /\ NoFault
       \/ worker.reply = "conflict" /\ Decide("uncertain", None, FALSE) /\ NoFault
       \/ worker.reply \in {None, "merged"} /\ Decide("uncertain", None, FALSE) /\ Fault
    /\ UNCHANGED <<pr, rec, task, snapshot, control, unsettled, precheck, recovering, refresh, wire,
                   foreign, attempts, moves>>

\* reconcileMerge
ReconcileMerge ==
    /\ worker.pc = "reconcile"
    /\ \/ Decide(worker.obs.status, None, FALSE) /\ Fault                              \* unreadable
       \/ /\ NoFault
          /\ CASE ~Bound(pr, worker.obs.task) -> Decide("manual", None, TRUE)
               [] Bound(pr, worker.obs.task) /\ pr.state = "open" -> Decide("waiting", None, FALSE)
               [] Bound(pr, worker.obs.task) /\ pr.state # "open" -> Decide(pr.state, "observed", FALSE)
    /\ UNCHANGED <<pr, rec, task, snapshot, control, unsettled, precheck, recovering, refresh, wire,
                   foreign, attempts, moves>>

\* settleMerge, and mergeConfirmed for a confirmed merge.  A settlement that
\* storage refuses raises a barrier: service-wide until a remote read resolves
\* it when a request was in flight, otherwise one that recovery retries.
Settle ==
    /\ worker.pc = "settle"
    /\ PassEnds
    /\ LET s == worker.settlement
           confirmed == s.source = "confirmed"
       IN \/ /\ NoFault
             /\ IF SettleApplies(worker.obs, s)
                THEN rec' = Settled(s) /\ unsettled' = FALSE /\ precheck' = None
                ELSE unsettled' = (unsettled \/ confirmed) /\ UNCHANGED <<rec, precheck>>
          \/ /\ Fault /\ UNCHANGED rec
             /\ IF confirmed \/ InFlight(worker.obs.status) \/ s.status = "uncertain"
                THEN unsettled' = TRUE /\ UNCHANGED precheck
                ELSE precheck' = [expected |-> worker.obs, settlement |-> s] /\ UNCHANGED unsettled
    /\ UNCHANGED <<pr, task, snapshot, control, recovering, refresh, wire, foreign, attempts, moves>>

SameMerge(r, q) == [r EXCEPT !.pr = "open"] = [q EXCEPT !.pr = "open"]

\* recoverMergePrecheck, first part: a record that moved on releases the barrier.
RecoverPrecheck ==
    /\ GateFree /\ precheck # None
    /\ IF SameMerge(rec, precheck.expected)
       THEN recovering' = precheck /\ UNCHANGED precheck
       ELSE precheck' = None /\ UNCHANGED recovering
    /\ UNCHANGED <<pr, rec, task, snapshot, control, worker, unsettled, refresh, wire, foreign, counters>>

\* Second part: the settlement is retried, and the barrier released if it is
\* still the one that was compared.
RetryPrecheck ==
    /\ recovering # None
    /\ recovering' = None
    /\ \/ /\ NoFault
          /\ rec' = IF SettleApplies(recovering.expected, recovering.settlement)
                    THEN Settled(recovering.settlement) ELSE rec
          /\ precheck' = IF precheck = recovering THEN None ELSE precheck
       \/ Fault /\ UNCHANGED <<rec, precheck>>
    /\ UNCHANGED <<pr, task, snapshot, control, worker, unsettled, refresh, wire, foreign, attempts, moves>>

-----------------------------------------------------------------------------
(* Remote observation *)

\* observeOpenPRs reads an open pull request; observeRemote one that is saved
\* as open and no longer listed.  Neither holds the gate.
ReadPR ==
    /\ refresh = None
    /\ pr.state = "open" \/ rec.pr = "open"
    /\ refresh' = SamePR(pr)
    /\ UNCHANGED <<pr, rec, task, snapshot, control, worker, unsettled, precheck, recovering, wire,
                   foreign, counters>>

RecordPRObservation(p) == [Preserved(p) EXCEPT !.pr = p.state]

\* savePRsLocked, or the end of observeRemote: the read is saved under the gate.
SavePR ==
    /\ GateFree /\ refresh # None
    /\ refresh' = None
    /\ rec' = RecordPRObservation(refresh)
    /\ UNCHANGED <<pr, task, snapshot, control, worker, unsettled, precheck, recovering, wire,
                   foreign, counters>>

-----------------------------------------------------------------------------
(* Follow-up deliveries to the branch *)

SetTask(d, status) == task' = [task EXCEPT ![d].status = status]
AtWork == {"running", "pushed", "delivered"}

\* CommitPlan queues the next delivery to this pull request.
Plan(d) ==
    /\ GateFree /\ mode # "paused" /\ policy # "standard" /\ pr.state = "open"
    /\ task[d].status = "absent" /\ task[d - 1].status = "published"
    /\ SetTask(d, "queued")
    /\ batch' = IF mode = "once" THEN batch \cup {d} ELSE batch
    /\ UNCHANGED <<pr, rec, snapshot, mode, policy, engine, wire, foreign, counters>>

\* dispatch never starts a task whose branch is claimed by a merge check.
Dispatch(d) ==
    /\ GateFree /\ mode # "paused" /\ ~RecoveryConflict
    /\ task[d].status = "queued" /\ (mode = "once" => d \in batch)
    /\ ~BranchClaimed /\ \A e \in Deliveries : task[e].status \notin AtWork
    /\ SetTask(d, "running")
    /\ UNCHANGED <<pr, rec, snapshot, control, engine, wire, foreign, counters>>

\* Publish: the push holds a lease on the delivery it builds on, and replaying
\* it after a restart finds its own head.
Push(d) ==
    /\ task[d].status = "running"
    /\ pr.state = "open" /\ pr.base = "default" /\ pr.head \in {d - 1, d}
    /\ pr' = [pr EXCEPT !.head = d, !.checks = IF pr.head = d THEN pr.checks ELSE "pending"]
    /\ foreign' = IF pr.head = d THEN foreign ELSE FALSE
    /\ SetTask(d, "pushed")
    /\ UNCHANGED <<rec, snapshot, control, engine, wire, counters>>

\* The published pull request is read back before it is recorded.
Confirm(d) ==
    /\ task[d].status = "pushed"
    /\ pr.state = "open" /\ Bound(pr, d)
    /\ SetTask(d, "delivered")
    /\ UNCHANGED <<pr, rec, snapshot, control, engine, wire, foreign, counters>>

\* CompletePublication: an unresolved merge intent refuses the delivery, and an
\* older delivery keeps its merge state as a snapshot.
Complete(d) ==
    /\ GateFree /\ task[d].status = "delivered"
    /\ IF InFlight(rec.status)
       THEN SetTask(d, "blocked") /\ UNCHANGED <<rec, snapshot>>
       ELSE /\ SetTask(d, "published")
            /\ rec' = InitialMerge(d)
            /\ snapshot' = IF rec.task = d THEN snapshot ELSE [snapshot EXCEPT ![rec.task] = rec]
    /\ UNCHANGED <<pr, control, engine, wire, foreign, counters>>

FailTask(d) ==
    /\ GateFree /\ task[d].status \in {"running", "pushed"}
    /\ SetTask(d, "blocked")
    /\ UNCHANGED <<pr, rec, snapshot, control, engine, wire, foreign, counters>>

\* An operator retries or reconciles a blocked delivery, or gives it up.
RetryTask(d) ==
    /\ GateFree /\ task[d].status = "blocked" /\ ~BranchClaimed
    /\ SetTask(d, "queued")
    /\ UNCHANGED <<pr, rec, snapshot, control, engine, wire, foreign, counters>>

CancelTask(d) ==
    /\ GateFree /\ task[d].status = "queued"
    /\ SetTask(d, "cancelled")
    /\ UNCHANGED <<pr, rec, snapshot, control, engine, wire, foreign, counters>>

\* ArchiveTask revokes what authority the delivery still has.
Archive(d) ==
    /\ GateFree /\ task[d].status \in {"published", "blocked", "cancelled"} /\ ~task[d].archived
    /\ ~BranchClaimed
    /\ task' = [task EXCEPT ![d] =
                   [status |-> IF task[d].status = "blocked" THEN "cancelled" ELSE task[d].status,
                    archived |-> TRUE]]
    /\ rec' = RevokedMerges(d)
    /\ UNCHANGED <<pr, snapshot, control, engine, wire, foreign, counters>>

-----------------------------------------------------------------------------
(* Operating mode and policy *)

Pause ==
    /\ GateFree /\ mode # "paused"
    /\ mode' = "paused" /\ batch' = {}
    /\ UNCHANGED <<pr, rec, task, snapshot, policy, engine, wire, foreign, counters>>

Resume ==
    /\ GateFree /\ ~RecoveryConflict /\ mode # "continuous"
    /\ mode' = "continuous" /\ batch' = {}
    /\ UNCHANGED <<pr, rec, task, snapshot, policy, engine, wire, foreign, counters>>

Idle == worker.pc = "idle" /\ \A d \in Deliveries : task[d].status \notin AtWork

\* startRunOnceBatch: the queued tasks join the batch.
RunOnce ==
    /\ GateFree /\ ~RecoveryConflict /\ mode = "paused" /\ Idle
    /\ mode' = "once" /\ batch' = {d \in Deliveries : task[d].status = "queued"}
    /\ UNCHANGED <<pr, rec, task, snapshot, policy, engine, wire, foreign, counters>>

\* settleRunOnce: the batch ends when none of its tasks is pending and none of
\* its deliveries waits for a merge.
FinishRunOnce ==
    /\ GateFree /\ ~RecoveryConflict /\ mode = "once"
    /\ \A d \in batch : task[d].status \notin AtWork \cup {"queued"}
    /\ ~(rec.task \in batch /\ Pending(rec.status))
    /\ mode' = "paused" /\ batch' = {}
    /\ UNCHANGED <<pr, rec, task, snapshot, policy, engine, wire, foreign, counters>>

\* SaveConfig; the delivery mode is fixed while tasks are unresolved.
SaveConfig ==
    /\ GateFree /\ mode = "paused" /\ Idle
    /\ policy' \in {"allows", "tightened", "standard"}
    /\ (policy = "standard") # (policy' = "standard") =>
           \A d \in Deliveries : task[d].archived \/ task[d].status \notin {"queued", "blocked"}
    /\ UNCHANGED <<pr, rec, task, snapshot, mode, batch, engine, wire, foreign, counters>>

-----------------------------------------------------------------------------
(* GitHub and the people who use the repository *)

\* GitHub acts on a merge request, however late: it merges an open pull request
\* whose head is the one named, into the only branch the merger may update, and
\* may refuse for reasons of its own.  A conflict over a head that has not moved
\* is a fault.
GitHubActs ==
    \E q \in wire :
      /\ wire' = wire \ {q}
      /\ \E reply \in {"merged", "refused", "conflict"} :
           /\ IF reply = "merged"
              THEN /\ pr.state = "open" /\ Bound(pr, q.head)
                   /\ pr' = [pr EXCEPT !.state = "merged", !.by = "octomus"]
              ELSE UNCHANGED pr
           /\ IF reply = "conflict" /\ pr.state = "open" /\ Bound(pr, q.head) THEN Fault ELSE NoFault
           /\ worker' = IF worker.pc = "sent" /\ worker.obs.attempt = q.attempt
                        THEN [worker EXCEPT !.reply = reply] ELSE worker
      /\ UNCHANGED <<rec, task, snapshot, control, unsettled, precheck, recovering, refresh, foreign,
                     attempts, moves>>

ChecksFinish ==
    /\ pr.checks = "pending"
    /\ \E result \in {"ready", "failing", "rewritten"} : pr' = [pr EXCEPT !.checks = result]
    /\ UNCHANGED <<rec, task, snapshot, control, engine, wire, foreign, counters>>

\* Someone merges, closes, reopens, pushes to, restores or retargets the pull
\* request.
SomeoneMoves ==
    /\ moves < MaxMoves /\ moves' = moves + 1
    /\ foreign' = TRUE
    /\ \/ pr.state = "open" /\ pr' = [pr EXCEPT !.state = "merged", !.by = "human"]
       \/ pr.state = "open" /\ pr' = [pr EXCEPT !.state = "closed"]
       \/ pr.state = "closed" /\ pr' = [pr EXCEPT !.state = "open"]
       \/ pr.state = "open" /\ \E h \in {Foreign, rec.task} \ {pr.head} : pr' = [pr EXCEPT !.head = h]
       \/ pr.state = "open" /\ \E b \in {"default", "other"} \ {pr.base} : pr' = [pr EXCEPT !.base = b]
    /\ UNCHANGED <<rec, task, snapshot, control, engine, wire, attempts, faults>>

\* The service stops at any point and starts again: memory is lost and
\* interrupted tasks are queued for automatic recovery.
Restart ==
    /\ Fault
    /\ PassEnds
    /\ unsettled' = FALSE /\ precheck' = None /\ recovering' = None /\ refresh' = None
    /\ task' = [d \in Deliveries |-> IF task[d].status \in AtWork
                                     THEN [task[d] EXCEPT !.status = "queued"] ELSE task[d]]
    /\ UNCHANGED <<pr, rec, snapshot, control, wire, foreign, attempts, moves>>

PassStep == StartPass \/ LoadCandidate \/ ClaimBranch \/ Check \/ MergeAttempt \/ MergeReturns
            \/ ReconcileMerge \/ Settle
RecoveryStep == RecoverPrecheck \/ RetryPrecheck
ObservationStep == ReadPR \/ SavePR
DeliveryStep == \E d \in Deliveries \ {1} :
    Plan(d) \/ Dispatch(d) \/ Push(d) \/ Confirm(d) \/ Complete(d) \/ FailTask(d) \/ RetryTask(d) \/ CancelTask(d)
OperatorStep == Pause \/ Resume \/ RunOnce \/ FinishRunOnce \/ SaveConfig \/ \E d \in Deliveries : Archive(d)
OutsideStep == GitHubActs \/ ChecksFinish \/ SomeoneMoves \/ Restart

Next == PassStep \/ RecoveryStep \/ ObservationStep \/ DeliveryStep \/ OperatorStep \/ OutsideStep

Spec == Init /\ [][Next]_vars

\* The merge worker's calls are bounded by deadlines, the scheduler ticks every
\* pass and recovery, housekeeping refreshes pull requests every few minutes,
\* and GitHub finishes its checks.  A lost answer is a fault and faults are
\* bounded, so a request that is not lost is answered.
Fairness ==
    /\ WF_vars(PassStep) /\ WF_vars(RecoveryStep)
    /\ WF_vars(ReadPR) /\ WF_vars(SavePR)
    /\ WF_vars(FinishRunOnce) /\ WF_vars(ChecksFinish) /\ WF_vars(GitHubActs)
    /\ \A d \in Deliveries \ {1} : WF_vars(Dispatch(d)) /\ WF_vars(Push(d) \/ Confirm(d) \/ Complete(d) \/ FailTask(d))

FairSpec == Spec /\ Fairness

-----------------------------------------------------------------------------
(* Properties *)

\* Every variable keeps its shape.
TypeOK ==
    /\ pr \in Remote /\ rec \in Record
    /\ task \in [Deliveries -> [status: TaskStates, archived: BOOLEAN]]
    /\ snapshot \in [Deliveries -> Record \cup {None}]
    /\ mode \in {"paused", "continuous", "once"} /\ batch \in SUBSET Deliveries
    /\ policy \in {"allows", "tightened", "standard"}
    /\ worker \in Worker
    /\ unsettled \in BOOLEAN /\ foreign \in BOOLEAN
    /\ {precheck, recovering} \subseteq [expected: Record, settlement: Settlement] \cup {None}
    /\ refresh \in PullRequest \cup {None}
    /\ wire \in SUBSET [attempt: Nat, head: Deliveries]
    /\ attempts \in 0 .. MaxAttempts /\ faults \in 0 .. MaxFaults /\ moves \in 0 .. MaxMoves

\* While the worker waits for GitHub, the mode, policy, task and branch are still
\* those that authorize the merge, and the saved record is its own intent:
\* mergeAttempt reads them again under the gate and keeps it across SquashMerge.
InFlightIsAuthorized ==
    worker.pc = "sent" =>
        /\ mode # "paused" /\ policy = "allows"
        /\ ~task[worker.obs.task].archived /\ ~UnfinishedBranchWork(worker.obs.task)
        /\ rec.task = worker.obs.task /\ rec.attempt = worker.obs.attempt
        /\ rec.status = "merging" /\ rec.authorized

\* A recorded merge happened: the pull request is merged at the reviewed head
\* into the default branch, and by the service when the record says confirmed
\* (reconcileMerge, mergeConfirmed, preserveAutoMerge).
OutcomeIsTrue ==
    rec.status = "merged" =>
        /\ pr.state = "merged" /\ Bound(pr, rec.task)
        /\ rec.source = "confirmed" => pr.by = "octomus"

\* The service-wide merge barrier is up only while the saved intent is still
\* unresolved, so that a candidate remains whose reconciliation lowers it
\* (recordMergeSettlementFailure, clearMergeBarrier).
BarrierHasIntent == unsettled => InFlight(rec.status)

\* Only the settlement of the attempt itself resolves an intent: no publication,
\* observation or archive replaces an attempt whose outcome is unknown.
UnresolvedIntentKept ==
    [][InFlight(rec.status) =>
         \/ rec'.task = rec.task /\ rec'.attempt = rec.attempt /\ rec'.status = rec.status
         \/ worker.pc = "settle" /\ worker.obs.task = rec.task /\ worker.obs.attempt = rec.attempt]_vars

\* A recorded outcome is never downgraded or relabelled; a follow-up delivery
\* replaces it only after it is kept as the older task's snapshot
\* (SettleMerge, txRevokeTaskMerges, CompletePublication).
OutcomeKept ==
    [][rec.status \in {"merged", "closed"} =>
         \/ /\ rec'.task = rec.task /\ rec'.status = rec.status
            /\ rec.source = "confirmed" => rec'.source = "confirmed"
         \/ rec'.task # rec.task /\ snapshot'[rec.task] = rec]_vars

\* Revoked authority never comes back for the same delivery, whichever of the
\* pass, the claim, recovery or an observation writes last.
AuthorityNeverReturns == [][rec'.task = rec.task /\ ~rec.authorized => ~rec'.authorized]_vars

\* An unknown merge outcome is eventually settled, in any operating mode.
IntentResolves == InFlight(rec.status) ~> ~InFlight(rec.status)

\* Every barrier a refused settlement raised is eventually lowered.
BarriersLift == RecoveryConflict ~> ~RecoveryConflict

\* Once the delivered head is merged into the default branch, by whomever, and
\* continuous mode lasts, the saved pull request is eventually no longer open
\* and its record no longer waits for a merge, whether or not it still has
\* authority (reconcileMerge, preserveAutoMerge, mergeCandidate).
MergeIsRecorded ==
    (pr.state = "merged" /\ Bound(pr, rec.task) /\ mode = "continuous") ~>
        (rec.pr # "open" /\ ~Pending(rec.status)) \/ mode # "continuous"

\* An observation revokes authority only when someone else moved the pull
\* request: follow-up outputs of the service itself are recognized
\* (RecordPRObservation, preserveAutoMerge).
OwnOutputKeepsAuthority ==
    [][refresh # None /\ refresh' = None /\ rec.authorized /\ ~rec'.authorized => foreign]_vars

\* A run-once batch whose work is done stops waiting for its merge.
BatchWaitEnds ==
    (mode = "once" /\ rec.status = "waiting" /\ ~RecoveryConflict) ~> (rec.status # "waiting" \/ mode # "once")

\* A merge request in flight was authorized by the state of the moment it was
\* claimed in, and every barrier has the unresolved intent it protects.
MergeIsAuthorized == TypeOK /\ InFlightIsAuthorized /\ BarrierHasIntent

\* No write of the service forgets an unresolved intent or a confirmed outcome,
\* or gives a revoked delivery its authority back.
MergeHistoryKept == UnresolvedIntentKept /\ OutcomeKept /\ AuthorityNeverReturns

\* An unknown outcome is settled, the barriers it raised come down, and a merge
\* that happened is recorded.
MergesResolve == IntentResolves /\ BarriersLift /\ MergeIsRecorded

=============================================================================
