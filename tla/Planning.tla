------------------------------ MODULE Planning ------------------------------
(***************************************************************************)
(* Operating modes and planning cycles of one repository: the scheduler    *)
(* tick (engine/scheduler.go), operator controls and audits (controls.go), *)
(* planning cycles and their commit (planning.go, store.go), operator      *)
(* requests (requests.go), run-once batches, and the recovery of cycles    *)
(* and batches that lost their worker (recovery.go).                       *)
(*                                                                         *)
(* A cycle is numbered by its position in `cycles'; task c stands for the  *)
(* tasks cycle c plans.  Whether the day's sessions suffice for a cycle is *)
(* the variable `capacity'; times matter only as "due" or not.             *)
(***************************************************************************)
EXTENDS Naturals, Sequences, FiniteSets

CONSTANTS
    None,           \* no batch, job or tick
    NumRequests,    \* operator requests, numbered in the order of their creation
    SeedLimit,      \* model.RequestSeedLimit
    MaxRetries,     \* cfg.MaxRetries
    MaxCycles,      \* bound: cycles in one behaviour
    MaxBatches,     \* bound: run-once batches in one behaviour
    MaxFaults       \* bound: crashes, shutdowns, outages, failed checks, exhausted days, reconciliations

ASSUME PlanningBounds ==
    {NumRequests, SeedLimit, MaxRetries, MaxCycles, MaxBatches, MaxFaults} \subseteq Nat

VARIABLES
    control,        \* the saved model.Control
    batches,        \* run-once batches so far
    cycles,         \* the saved planning cycles
    task,           \* the saved tasks of each cycle
    departed,       \* a member of the current batch was retried out of it
    requests,       \* the saved operator requests
    disk,           \* "ok"; "readonly": writes are refused; "failed": reads too
    capacity,       \* PlanningCapacity is available
    proc,           \* "up", "stopping" or "down"
    preflight,      \* runtime.preflight with the control its caller captured
    job,            \* runtime.cycle and its worker
    barrier,        \* runtime.activeRecoveryError is set
    tick,           \* a scheduler pass that gave up the gate, or its failure
    faults

vars == <<control, batches, cycles, task, departed, requests, disk, capacity, proc,
          preflight, job, barrier, tick, faults>>
saved == <<control, batches, cycles, task, departed, requests>>
runtime == <<preflight, job, barrier, tick>>
world == <<disk, capacity, proc, faults>>

Requests == 1 .. NumRequests
Cycles == 1 .. MaxCycles
Modes == {"paused", "continuous", "once"}
CycleModes == {"execution", "audit"}
Batch == [id: 1 .. MaxBatches, phase: {"draining", "planning", "executing", "merging"}, cycle: 0 .. MaxCycles]
\* `due': NextCycleAt has passed; `waiting': BudgetWaiting.
Control == [mode: Modes, batch: Batch \cup {None}, due: BOOLEAN, waiting: BOOLEAN, error: BOOLEAN]
Cycle == [mode: CycleModes, status: {"running", "planned", "failed", "interrupted"}, run: 0 .. MaxBatches]
\* "merging" is published and counted by BatchMergeWait; run 0 is no RunID.
Task == [status: {"none", "queued", "active", "reconciling", "merging", "published", "blocked", "cancelled"},
         run: 0 .. MaxBatches, attempts: 0 .. MaxRetries]
\* The cycle of the last assessment; an accepted request links that cycle's task.
Request == [status: {"new", "pending", "accepted", "rejected", "withdrawn"}, assessed: 0 .. MaxCycles]
\* The worker of a cycle: "planning", "seeded" with the requests it read, or
\* "ending" with what plan returned and whether its terminal save was refused.
Job == [cycle: Cycles, pc: {"planning", "seeded", "ending"}, seeded: UNION {[S -> Request] : S \in SUBSET Requests},
        failed: BOOLEAN, refused: BOOLEAN, shutdown: BOOLEAN]

Init ==
    /\ control = [mode |-> "paused", batch |-> None, due |-> TRUE, waiting |-> FALSE, error |-> FALSE]
    /\ batches = 0 /\ cycles = << >> /\ departed = FALSE
    /\ task = [c \in Cycles |-> [status |-> "none", run |-> 0, attempts |-> 0]]
    /\ requests = [r \in Requests |-> [status |-> "new", assessed |-> 0]]
    /\ disk = "ok" /\ capacity = TRUE /\ proc = "up"
    /\ preflight = None /\ job = None /\ barrier = FALSE /\ tick = None /\ faults = 0

Fault == faults < MaxFaults /\ faults' = faults + 1

\* runtime.planning, reconciling and idle.
PlanningNow == job # None \/ preflight # None
Working(c) == task[c].status \in {"active", "reconciling"}
Reconciling == \E c \in Cycles : task[c].status = "reconciling"
Idle == ~PlanningNow /\ \A c \in Cycles : ~Working(c)
Serving == proc = "up"

\* BatchCounts: a retried member leaves its unresolved row behind.
Members(b) == {c \in Cycles : task[c].run = b}
Pending(b) == {c \in Members(b) : task[c].status = "queued" \/ Working(c)}
Unresolved(b) == departed \/ \E c \in Members(b) : task[c].status \in {"blocked", "cancelled"}
MergeWait(b) == {c \in Members(b) : task[c].status = "merging"}

SetMode(c, mode) ==
    [c EXCEPT !.mode = mode, !.waiting = FALSE, !.batch = IF mode = "once" THEN @ ELSE None]

\* pauseLocked: a message replaces the saved error.
Paused(c, message) == [SetMode(c, "paused") EXCEPT !.error = @ \/ message]

SameOperatorControl(a, b) == [a EXCEPT !.due = TRUE] = [b EXCEPT !.due = TRUE]

-----------------------------------------------------------------------------
(* Recovery of cycles and batches without a worker *)

Orphans == {c \in 1 .. Len(cycles) : cycles[c].status = "running" /\ (job # None => job.cycle # c)}

Interrupted == [c \in 1 .. Len(cycles) |-> IF c \in Orphans THEN [cycles[c] EXCEPT !.status = "interrupted"] ELSE cycles[c]]

\* Seeded fault: recovery does not look at the batch.
RecoveredControl_Keeps == control

\* interruptOrphanedCycles pauses a run-once whose planning has no worker.
RecoveredControl ==
    IF job = None /\ control.mode = "once" /\ control.batch.phase = "planning"
    THEN Paused(control, TRUE) ELSE control

NeedsRecovery == Orphans # {} \/ RecoveredControl # control

\* The first half of tick.  Its scheduling half runs after the readiness check,
\* which gives up the gate, with the control read here.
Tick ==
    /\ Serving /\ tick = None
    /\ \/ /\ disk = "ok" \/ (disk = "readonly" /\ ~NeedsRecovery)
          /\ cycles' = Interrupted /\ control' = RecoveredControl /\ barrier' = FALSE
          /\ tick' = IF control'.mode = "paused" \/ Reconciling THEN None ELSE [pc |-> "ready", control |-> control']
          /\ UNCHANGED faults
       \/ /\ disk = "failed" \/ (disk = "readonly" /\ NeedsRecovery)
          /\ barrier' = TRUE /\ UNCHANGED <<cycles, control, tick, faults>>
       \/ /\ disk = "ok" /\ NeedsRecovery /\ Fault       \* the second of two writes is refused
          /\ cycles' = Interrupted /\ barrier' = TRUE /\ UNCHANGED <<control, tick>>
    /\ UNCHANGED <<batches, task, departed, requests, disk, capacity, proc, preflight, job>>

-----------------------------------------------------------------------------
(* The scheduling half of tick *)

Admissible == /\ tick # None /\ tick.pc = "ready"
              /\ Serving /\ SameOperatorControl(tick.control, control)
              /\ ~PlanningNow /\ ~Reconciling /\ ~barrier
              /\ disk # "failed"
Scheduled == Admissible /\ tick' = None

\* The pass ends without effect: stopped, changed controls, planning, recovery.
TickEnds ==
    /\ tick # None /\ tick.pc = "ready" /\ ~Admissible /\ (Serving => disk # "failed")
    /\ tick' = None
    /\ UNCHANGED <<saved, world, preflight, job, barrier>>

BatchDone ==
    /\ control.mode = "once" /\ Pending(control.batch.id) = {}
    /\ control.batch.phase \in {"executing", "merging"} \/ Unresolved(control.batch.id)

\* settleRunOnce and finishRunOnce.
AfterBatch == IF MergeWait(control.batch.id) # {} THEN [control EXCEPT !.batch.phase = "merging"]
              ELSE Paused(control, FALSE)

Dispatchable == {c \in Cycles : /\ task[c].status = "queued"
                                /\ control.mode = "once" => task[c].run = control.batch.id}

WantsPlan ==
    /\ Idle
    /\ \/ control.mode = "once" /\ control.batch.phase = "draining" /\ Pending(control.batch.id) = {}
       \/ control.mode = "continuous" /\ (control.waiting \/ control.due)

\* waitForCapacity.
Waiting(c) == IF c.mode = "continuous" THEN [c EXCEPT !.error = FALSE, !.due = FALSE, !.waiting = TRUE]
              ELSE Paused(c, TRUE)

\* The control a pass saves; one that changes nothing needs no write.
AfterPass == CASE BatchDone -> AfterBatch
               [] ~BatchDone /\ Dispatchable = {} /\ WantsPlan /\ ~capacity -> Waiting(control)
               [] OTHER -> control
Refused == disk = "readonly" /\ (AfterPass # control \/ (~BatchDone /\ Dispatchable # {}))

SettleRunOnce ==
    /\ Scheduled /\ BatchDone /\ ~Refused
    /\ control' = AfterPass
    /\ UNCHANGED <<batches, cycles, task, departed, requests, world, preflight, job, barrier>>

\* dispatch starts some of the queued tasks, or waits for a slot.
Dispatch(S) ==
    /\ Scheduled /\ ~BatchDone /\ Dispatchable # {} /\ S \subseteq Dispatchable
    /\ S # {} => disk = "ok"
    /\ task' = [c \in Cycles |-> IF c \in S THEN [task[c] EXCEPT !.status = "active"] ELSE task[c]]
    /\ UNCHANGED <<control, batches, cycles, departed, requests, world, preflight, job, barrier>>

\* startPlanning, as far as the pass goes: a preflight, or waiting for capacity.
StartPlanning ==
    /\ Scheduled /\ ~BatchDone /\ Dispatchable = {} /\ ~Refused
    /\ control' = AfterPass
    /\ preflight' = IF WantsPlan /\ capacity /\ Len(cycles) < MaxCycles
                    THEN [mode |-> "execution", expected |-> control] ELSE None
    /\ UNCHANGED <<batches, cycles, task, departed, requests, world, job, barrier>>

\* An unready sandbox, an unreadable store or a refused write fails the pass.
TickFails ==
    /\ tick # None /\ tick.pc = "ready" /\ Serving
    /\ \/ disk = "failed" /\ UNCHANGED faults
       \/ Admissible /\ Refused /\ UNCHANGED faults
       \/ Admissible /\ Fault
    /\ tick' = [tick EXCEPT !.pc = "failed"]
    /\ UNCHANGED <<saved, disk, capacity, proc, preflight, job, barrier>>

\* App.fail pauses whatever the controls say by then.
FailTick ==
    /\ tick # None /\ tick.pc = "failed" /\ tick' = None
    /\ control' = IF Serving /\ disk = "ok" THEN Paused(control, TRUE) ELSE control
    /\ UNCHANGED <<batches, cycles, task, departed, requests, world, preflight, job, barrier>>

-----------------------------------------------------------------------------
(* Operator controls *)

Allowed == Serving /\ disk = "ok"

Pause ==
    /\ Allowed /\ control' = Paused(control, FALSE)
    /\ UNCHANGED <<batches, cycles, task, departed, requests, world, runtime>>

AuditActive == \/ job # None /\ cycles[job.cycle].mode = "audit"
               \/ preflight # None /\ preflight.mode = "audit"

ResumeBlocked == barrier \/ AuditActive

Resume ==
    /\ Allowed /\ ~ResumeBlocked
    /\ control' = [SetMode(control, "continuous") EXCEPT !.error = FALSE, !.due = TRUE]
    /\ UNCHANGED <<batches, cycles, task, departed, requests, world, runtime>>

\* ControlCycle: every queued task joins the new batch.
RunOnce ==
    /\ Allowed /\ ~barrier /\ control.mode = "paused" /\ Idle /\ capacity /\ Len(cycles) < MaxCycles
    /\ batches < MaxBatches /\ batches' = batches + 1
    /\ control' = [mode |-> "once", batch |-> [id |-> batches', phase |-> "draining", cycle |-> 0],
                   due |-> TRUE, waiting |-> FALSE, error |-> FALSE]
    /\ task' = [c \in Cycles |-> IF task[c].status = "queued" THEN [task[c] EXCEPT !.run = batches'] ELSE task[c]]
    /\ departed' = FALSE
    /\ UNCHANGED <<cycles, requests, world, runtime>>

\* admitAuditPreflight.
StartAudit ==
    /\ Serving /\ disk # "failed" /\ ~barrier /\ control.mode = "paused" /\ Idle /\ capacity /\ Len(cycles) < MaxCycles
    /\ preflight' = [mode |-> "audit", expected |-> control]
    /\ UNCHANGED <<saved, world, job, barrier, tick>>

-----------------------------------------------------------------------------
(* A preflight ends: beginCycle, or what its failure leaves *)

WorkAppeared ==
    IF control.mode = "once"
    THEN Pending(control.batch.id) # {} \/ Unresolved(control.batch.id) \/ control.batch.phase # "draining"
    ELSE \E c \in Cycles : task[c].status = "queued" \/ Working(c)

\* Seeded fault: beginCycle trusts the control its preflight started with.
BeginAllowed_StaleControl ==
    /\ Serving /\ ~barrier /\ \A c \in Cycles : ~Working(c)
    /\ preflight.mode = "execution" /\ control.mode = preflight.expected.mode => ~WorkAppeared

BeginAllowed ==
    /\ Serving /\ ~barrier /\ \A c \in Cycles : ~Working(c)
    /\ SameOperatorControl(control, preflight.expected)
    /\ preflight.mode = "execution" => ~WorkAppeared

BeginCycle ==
    /\ preflight # None /\ BeginAllowed /\ capacity /\ disk = "ok"
    /\ LET c == Len(cycles) + 1
           batch == IF preflight.mode = "execution" /\ control.mode = "once"
                    THEN [control.batch EXCEPT !.phase = "planning", !.cycle = c] ELSE control.batch
       IN  /\ cycles' = Append(cycles, [mode |-> preflight.mode, status |-> "running",
                                        run |-> IF batch = None THEN 0 ELSE batch.id])
           /\ control' = [control EXCEPT !.error = FALSE, !.waiting = FALSE, !.batch = batch]
           /\ job' = [cycle |-> c, pc |-> "planning", seeded |-> << >>, failed |-> FALSE, refused |-> FALSE, shutdown |-> FALSE]
    /\ preflight' = None
    /\ UNCHANGED <<batches, task, departed, requests, world, barrier, tick>>

EndPreflight == preflight' = None

\* The control a failed execution preflight saves, when nobody changed it since.
AfterPreflight(exhausted) ==
    CASE exhausted -> Waiting(control)
      [] ~exhausted /\ control.mode = "once" -> Paused(control, TRUE)
      [] OTHER -> [control EXCEPT !.error = TRUE, !.waiting = FALSE, !.due = FALSE]

\* The remote or a runner route failed its check, or beginCycle refused.
PreflightFails ==
    /\ preflight # None
    /\ \E checked \in BOOLEAN :
         /\ IF checked THEN (~BeginAllowed \/ ~capacity \/ disk # "ok") /\ UNCHANGED faults ELSE Fault
         /\ control' = IF /\ Allowed /\ ~barrier /\ preflight.mode = "execution"
                          /\ SameOperatorControl(control, preflight.expected)
                       THEN AfterPreflight(checked /\ BeginAllowed /\ ~capacity) ELSE control
    /\ EndPreflight
    /\ UNCHANGED <<batches, cycles, task, departed, requests, disk, capacity, proc, job, barrier, tick>>

-----------------------------------------------------------------------------
(* The planning worker *)

AtPlan(pc) == job # None /\ job.pc = pc

\* seedOperatorRequests reads the oldest pending requests, as many as fit.
Seed ==
    /\ AtPlan("planning") /\ disk # "failed"
    /\ \E room \in 0 .. SeedLimit :
         LET pending == {r \in Requests : requests[r].status = "pending"}
             oldest == {r \in pending : Cardinality({q \in pending : q < r}) < room}
         IN  job' = [job EXCEPT !.pc = "seeded", !.seeded = [r \in oldest |-> requests[r]]]
    /\ UNCHANGED <<saved, world, preflight, barrier, tick>>

\* requestSettlements.
Settled(r, decision, cycle) ==
    [r EXCEPT !.assessed = cycle,
              !.status = IF decision = "deferred" \/ cycles[cycle].mode = "audit" THEN @ ELSE decision]

\* One transaction saves the cycle, its tasks, the request decisions and the
\* phase of the batch that waits for this cycle.
CommitPlan ==
    /\ AtPlan("seeded") /\ Allowed
    /\ \A r \in DOMAIN job.seeded : requests[r] = job.seeded[r]
    /\ \E decision \in [DOMAIN job.seeded -> {"accepted", "rejected", "deferred"}], others \in BOOLEAN :
         LET c == job.cycle
             accepts == others \/ \E r \in DOMAIN job.seeded : decision[r] = "accepted"
         IN  /\ requests' = [r \in Requests |-> IF r \in DOMAIN job.seeded
                                                THEN Settled(requests[r], decision[r], c) ELSE requests[r]]
             /\ task' = IF accepts /\ cycles[c].mode = "execution"
                        THEN [task EXCEPT ![c] = [status |-> "queued", run |-> cycles[c].run, attempts |-> 0]] ELSE task
             /\ cycles' = [cycles EXCEPT ![c].status = "planned"]
             /\ control' = IF control.batch # None /\ control.batch.id = cycles[c].run /\ control.batch.cycle = c
                           THEN [control EXCEPT !.batch.phase = "executing"] ELSE control
    /\ job' = [job EXCEPT !.pc = "ending", !.seeded = << >>]
    /\ UNCHANGED <<batches, departed, world, preflight, barrier, tick>>

\* plan returns an error; planCycle's terminal save, outside the gate, may be refused.
FailPlan ==
    /\ AtPlan("planning") \/ AtPlan("seeded")
    /\ \/ /\ disk = "ok" /\ UNCHANGED faults
          /\ cycles' = [cycles EXCEPT ![job.cycle].status = IF Serving THEN "failed" ELSE "interrupted"]
          /\ job' = [job EXCEPT !.pc = "ending", !.seeded = << >>, !.failed = TRUE, !.shutdown = ~Serving]
       \/ /\ IF disk = "ok" THEN Fault ELSE UNCHANGED faults
          /\ UNCHANGED cycles
          /\ job' = [job EXCEPT !.pc = "ending", !.seeded = << >>, !.failed = TRUE, !.shutdown = ~Serving, !.refused = TRUE]
    /\ UNCHANGED <<control, batches, task, departed, requests, disk, capacity, proc, preflight, barrier, tick>>

\* The control planCycle saves: the live one, with the cycle's outcome.
AfterCycle ==
    LET execution == cycles[job.cycle].mode = "execution"
        ended == [control EXCEPT !.error = job.failed, !.due = IF execution THEN FALSE ELSE @]
    IN  IF job.failed /\ execution /\ control.mode = "once" THEN Paused(ended, TRUE) ELSE ended

\* Seeded fault: a refused terminal save is only logged.
EndBarrier_IgnoresSave == barrier \/ disk = "failed" \/ (~job.shutdown /\ AfterCycle.mode # control.mode /\ disk # "ok")

EndBarrier ==
    \/ barrier \/ job.refused
    \/ disk = "failed"                                                       \* the control is unreadable
    \/ ~job.shutdown /\ AfterCycle.mode # control.mode /\ disk # "ok"        \* its pause is refused

\* planCycle's stretch under the gate.
EndCycle ==
    /\ AtPlan("ending") /\ job' = None
    /\ barrier' = EndBarrier
    /\ control' = IF job.shutdown \/ disk # "ok" THEN control ELSE AfterCycle
    /\ UNCHANGED <<batches, cycles, task, departed, requests, world, preflight, tick>>

-----------------------------------------------------------------------------
(* Tasks, as far as modes and batches see them, and operator requests *)

SetStatus(c, status) == task' = [task EXCEPT ![c].status = status]

\* The worker of a dispatched task, or a reconciliation, ends.
TaskEnds(c) ==
    /\ Working(c) /\ proc # "down" /\ disk = "ok"
    /\ \E status \in {"merging", "published", "blocked", "cancelled"} :
         /\ status = "cancelled" => task[c].status = "active"
         /\ SetStatus(c, status)
    /\ UNCHANGED <<control, batches, cycles, departed, requests, world, runtime>>

\* The automatic merge of a delivery is decided.
MergeSettles(c) ==
    /\ task[c].status = "merging" /\ Allowed /\ SetStatus(c, "published")
    /\ UNCHANGED <<control, batches, cycles, departed, requests, world, runtime>>

Cancel(c) ==
    /\ Allowed /\ task[c].status \in {"queued", "blocked"} /\ SetStatus(c, "cancelled")
    /\ UNCHANGED <<control, batches, cycles, departed, requests, world, runtime>>

\* A retried task leaves its batch, whose member row keeps the old status.
Retry(c) ==
    /\ Allowed /\ task[c].status = "blocked" /\ task[c].attempts < MaxRetries
    /\ task' = [task EXCEPT ![c] = [status |-> "queued", run |-> 0, attempts |-> task[c].attempts + 1]]
    /\ departed' = (departed \/ (control.batch # None /\ task[c].run = control.batch.id))
    /\ UNCHANGED <<control, batches, cycles, requests, world, runtime>>

Reconcile(c) ==
    /\ Allowed /\ task[c].status = "blocked" /\ \A d \in Cycles : ~Working(d)
    /\ SetStatus(c, "reconciling") /\ Fault
    /\ UNCHANGED <<control, batches, cycles, departed, requests, disk, capacity, proc, runtime>>

CreateRequest(r) ==
    /\ Allowed /\ requests[r].status = "new" /\ \A q \in 1 .. r - 1 : requests[q].status # "new"
    /\ requests' = [requests EXCEPT ![r].status = "pending"]
    /\ UNCHANGED <<control, batches, cycles, task, departed, world, runtime>>

\* Seeded fault: a request can be withdrawn while a cycle assesses it.
WithdrawAllowed_Always(r) == requests[r].status = "pending"

WithdrawAllowed(r) == requests[r].status = "pending" /\ ~PlanningNow

Withdraw(r) ==
    /\ Allowed /\ WithdrawAllowed(r)
    /\ requests' = [requests EXCEPT ![r].status = "withdrawn"]
    /\ UNCHANGED <<control, batches, cycles, task, departed, world, runtime>>

-----------------------------------------------------------------------------
(* Time, storage and the process *)

\* NextCycleAt passes; at UTC midnight the day's sessions are available again.
TimeComes ==
    /\ ~control.due /\ control' = [control EXCEPT !.due = TRUE]
    /\ UNCHANGED <<batches, cycles, task, departed, requests, world, runtime>>
CapacityEnds == capacity /\ Fault /\ capacity' = FALSE /\ UNCHANGED <<saved, runtime, disk, proc>>
CapacityReturns == ~capacity /\ capacity' = TRUE /\ UNCHANGED <<saved, runtime, disk, proc, faults>>
DiskFails == /\ disk = "ok" /\ Fault /\ disk' \in {"readonly", "failed"}
             /\ UNCHANGED <<saved, runtime, capacity, proc>>
DiskReturns == disk # "ok" /\ disk' = "ok" /\ UNCHANGED <<saved, runtime, capacity, proc, faults>>

Shutdown == proc = "up" /\ Fault /\ proc' = "stopping" /\ UNCHANGED <<saved, runtime, disk, capacity>>
Stopped == /\ proc = "stopping" /\ job = None /\ preflight = None /\ tick = None
           /\ proc' = "down" /\ barrier' = FALSE
           /\ UNCHANGED <<saved, disk, capacity, preflight, job, tick, faults>>
Crash == /\ proc # "down" /\ Fault /\ proc' = "down"
         /\ preflight' = None /\ job' = None /\ barrier' = FALSE /\ tick' = None
         /\ UNCHANGED <<saved, disk, capacity>>

\* Recover: interrupted tasks are queued again, blocked or cancelled, then
\* cycles and the batch are settled.
Restart ==
    /\ proc = "down" /\ disk = "ok" /\ proc' = "up"
    /\ \E outcome \in [{c \in Cycles : Working(c)} -> {"queued", "blocked", "cancelled"}] :
         /\ \A c \in DOMAIN outcome : outcome[c] = "queued" => task[c].attempts < MaxRetries
         /\ task' = [c \in Cycles |->
                       IF c \notin DOMAIN outcome THEN task[c]
                       ELSE [task[c] EXCEPT !.status = outcome[c],
                                            !.attempts = IF outcome[c] = "queued" THEN @ + 1 ELSE @]]
    /\ cycles' = Interrupted /\ control' = RecoveredControl
    /\ UNCHANGED <<batches, departed, requests, disk, capacity, runtime, faults>>

TickSchedule == TickEnds \/ SettleRunOnce \/ StartPlanning \/ TickFails \/ FailTick
PreflightStep == BeginCycle \/ PreflightFails
PlanStep == Seed \/ CommitPlan \/ FailPlan \/ EndCycle

Next ==
    \/ Tick \/ TickSchedule \/ \E S \in SUBSET Dispatchable : Dispatch(S)
    \/ Pause \/ Resume \/ RunOnce \/ StartAudit
    \/ PreflightStep \/ PlanStep
    \/ \E c \in Cycles : TaskEnds(c) \/ MergeSettles(c) \/ Cancel(c) \/ Retry(c) \/ Reconcile(c)
    \/ \E r \in Requests : CreateRequest(r) \/ Withdraw(r)
    \/ TimeComes \/ CapacityEnds \/ CapacityReturns \/ DiskFails \/ DiskReturns
    \/ Shutdown \/ Stopped \/ Crash \/ Restart

Spec == Init /\ [][Next]_vars

\* The scheduler's timer keeps ticking and a pass ends; preflights, planning
\* sessions and task workers have deadlines; a waiting task is dispatched at
\* some pass; outages end, days pass and the service manager restarts.
Fairness ==
    /\ WF_vars(Tick) /\ WF_vars(TickSchedule) /\ SF_vars(\E S \in SUBSET Dispatchable \ {{}} : Dispatch(S))
    /\ WF_vars(\E S \in SUBSET Dispatchable : Dispatch(S))
    /\ WF_vars(PreflightStep) /\ WF_vars(PlanStep) /\ \A c \in Cycles : WF_vars(TaskEnds(c))
    /\ WF_vars(TimeComes) /\ WF_vars(CapacityReturns) /\ WF_vars(DiskReturns)
    /\ WF_vars(Stopped) /\ WF_vars(Restart)

FairSpec == Spec /\ Fairness

-----------------------------------------------------------------------------
(* Properties *)

\* Every variable keeps its type, and the saved control names a batch exactly
\* in run-once mode (Control.SetMode).
TypeOK ==
    /\ control \in Control /\ (control.batch # None <=> control.mode = "once")
    /\ batches \in 0 .. MaxBatches /\ cycles \in Seq(Cycle) /\ Len(cycles) <= MaxCycles
    /\ task \in [Cycles -> Task] /\ departed \in BOOLEAN /\ requests \in [Requests -> Request]
    /\ disk \in {"ok", "readonly", "failed"} /\ capacity \in BOOLEAN /\ proc \in {"up", "stopping", "down"}
    /\ preflight \in [mode: CycleModes, expected: Control] \cup {None}
    /\ job \in Job \cup {None} /\ barrier \in BOOLEAN
    /\ tick \in [pc: {"ready", "failed"}, control: Control] \cup {None}
    /\ faults \in 0 .. MaxFaults

\* A cycle saved as running has its worker, or admission is blocked until
\* recovery interrupts it: planCycle raises the barrier before it gives up
\* ownership of a cycle whose terminal save was refused.
RunningIsOwned ==
    \A c \in 1 .. Len(cycles) : cycles[c].status = "running" =>
        (job # None /\ job.cycle = c) \/ barrier \/ proc = "down"

\* A batch saved as planning has the worker of its cycle, or admission is
\* blocked, or the service is stopping: neither a failed plan, nor a refused
\* pause, nor recovery leaves a batch waiting for a plan nobody makes.
PlanningBatchIsOwned ==
    control.batch # None /\ control.batch.phase = "planning" =>
        (job # None /\ job.cycle = control.batch.cycle) \/ barrier \/ proc # "up"

\* A run-once batch plans at most once, whatever fails or restarts on the way.
OneCyclePerBatch ==
    \A c, d \in 1 .. Len(cycles) : cycles[c].run = cycles[d].run /\ cycles[c].run # 0 => c = d

\* Tasks exist only for execution cycles whose plan committed and stays
\* committed: recovery never reports such a cycle as interrupted, and a plan
\* that failed or was interrupted dispatches nothing.
TasksHaveAPlan ==
    \A c \in Cycles : task[c].status # "none" =>
        c <= Len(cycles) /\ cycles[c].mode = "execution" /\ cycles[c].status = "planned"

\* An accepted request links a task of the execution cycle that accepted it;
\* audits only assess (requestSettlements).
AcceptedIsPlanned ==
    \A r \in Requests : requests[r].status = "accepted" => task[requests[r].assessed].status # "none"

\* What a cycle assesses is what the operator still asks: no seeded request
\* changes before the plan commits, so the guarded update never refuses a plan.
SeededIsCurrent ==
    job # None => \A r \in DOMAIN job.seeded : requests[r] = job.seeded[r]

\* An audit runs while the service is paused and never beside a dispatched task.
AuditIsPaused ==
    job # None /\ cycles[job.cycle].mode = "audit" =>
        control.mode = "paused" /\ \A c \in Cycles : task[c].status # "active"

\* In run-once mode only members of the batch are dispatched and only its cycle
\* runs, although retried tasks of no batch may be queued beside them.
BatchScope ==
    control.mode = "once" =>
        /\ \A c \in Cycles : task[c].status = "active" => task[c].run = control.batch.id
        /\ job # None => cycles[job.cycle].run = control.batch.id

\* Once the operator pauses, no scheduler pass and no preflight that began
\* earlier dispatches a task or begins an execution cycle.
PausedStartsNothing ==
    [][control.mode = "paused" =>
         /\ \A c \in Cycles : task[c].status = "queued" => task'[c].status # "active"
         /\ Len(cycles') > Len(cycles) => cycles'[Len(cycles')].mode = "audit"]_vars

\* Only the operator ends a pause: workers, passes and recovery that save the
\* control they read earlier never bring an older mode back.
PauseStands ==
    [][control.mode = "paused" /\ control'.mode # "paused" => Resume \/ RunOnce]_vars

\* A run-once batch ends or waits for the merge of a delivery: planning that
\* fails, is interrupted or loses its worker never leaves it open.
RunOnceEnds ==
    control.mode = "once" ~> control.mode # "once" \/ MergeWait(control.batch.id) # {}

\* In continuous mode another cycle begins, unless the mode changes: failed
\* preflights, exhausted days, outages and restarts only delay it.
ContinuousPlans ==
    \A n \in 0 .. MaxCycles - 1 :
        control.mode = "continuous" /\ Len(cycles) = n ~> control.mode # "continuous" \/ Len(cycles) > n

\* A running cycle and a planning batch have a worker, or recovery is owed; a
\* batch plans once; a task has a cycle that planned it; an audit runs paused.
CyclesAreOwned ==
    /\ TypeOK
    /\ RunningIsOwned
    /\ PlanningBatchIsOwned
    /\ OneCyclePerBatch
    /\ TasksHaveAPlan
    /\ AuditIsPaused

\* Plans, requests and batches refer to each other truly: an accepted request is
\* in a committed plan, a seeded request is still asked for, and a batch
\* dispatches its own tasks only.
PlansAnswerRequests == AcceptedIsPlanned /\ SeededIsCurrent /\ BatchScope

\* A pause takes effect at once and only the operator ends it.
PauseIsObeyed == PausedStartsNothing /\ PauseStands

\* Run-once batches end and continuous operation plans again.
PlanningGoesOn == RunOnceEnds /\ ContinuousPlans

=============================================================================
